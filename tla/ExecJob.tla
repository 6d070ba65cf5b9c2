------------------------------- MODULE ExecJob -------------------------------
(***************************************************************************)
(* One `exec` in the guest: win32::run with the job object of job.rs.      *)
(*                                                                         *)
(* The thread that runs the command creates a job object, starts the       *)
(* child, puts it into the job, starts a reader for each of the child's    *)
(* two pipes and polls until the child has exited or the deadline passed.  *)
(* The child may start further processes, which inherit its job, if it is  *)
(* in one by then, and any of the pipes' write ends it holds.  A pipe ends *)
(* when its last write end is closed; it holds Capacity units.             *)
(*                                                                         *)
(* What is captured is counted in units of the pipe; what the bytes are    *)
(* (and their lossy decoding) is left out.                                 *)
(***************************************************************************)
EXTENDS Naturals, FiniteSets

CONSTANTS
    Procs,      \* processes there may be, all started by the command
    Child,      \* the one that run() starts
    Capacity,   \* units a pipe holds before a writer blocks
    MaxOutput   \* bound on the units written to the two pipes together

ASSUME ExecAssumption ==
    /\ Child \in Procs
    /\ Capacity \in Nat \ {0}
    /\ MaxOutput \in Nat

Streams == {"stdout", "stderr"}

VARIABLES
    run,        \* where run() is
    result,     \* what it returns: Outcome, or an error
    job,        \* the handle to the job object
    reader,     \* the thread draining each pipe
    expired,    \* started.elapsed() >= deadline
    captured,   \* units in each reader's buffer
    proc,       \* the processes
    inJob,      \* those assigned to the job, by run() or by inheritance
    holds,      \* the write ends each process holds
    writing,    \* the pipe each process is writing a unit to, or "none"
    buffered,   \* units in each pipe
    written,    \* units ever put into each pipe
    punctual,   \* the child ended by itself, and a later look can still find it in time
    escaped     \* some process was started by one outside the job

execVars == <<run, result, job, reader, captured>>
procVars == <<proc, inJob, holds, writing>>
pipeVars == <<buffered, written>>
pastVars == <<punctual, escaped>>
vars == <<execVars, procVars, pipeVars, pastVars, expired>>

Running(p) == proc[p] = "running"

Init ==
    /\ run = "job" /\ result = "none" /\ job = "none"
    /\ reader = [s \in Streams |-> "none"]
    /\ captured = [s \in Streams |-> 0]
    /\ proc = [p \in Procs |-> "unborn"]
    /\ inJob = {}
    /\ holds = [p \in Procs |-> {}]
    /\ writing = [p \in Procs |-> "none"]
    /\ buffered = [s \in Streams |-> 0]
    /\ written = [s \in Streams |-> 0]
    /\ punctual = FALSE /\ escaped = FALSE /\ expired = FALSE

-----------------------------------------------------------------------------
(* Processes end: by themselves, by TerminateProcess or with their job.    *)

\* The processes of dead are gone, and their ends of the pipes are closed.
End(dead, how) ==
    /\ proc' = [p \in Procs |-> IF p \in dead THEN how ELSE proc[p]]
    /\ holds' = [p \in Procs |-> IF p \in dead THEN {} ELSE holds[p]]
    /\ writing' = [p \in Procs |-> IF p \in dead THEN "none" ELSE writing[p]]
    /\ UNCHANGED inJob

\* JobObject's Drop: closing the last handle kills whatever is in the job.
DropJob(also) ==
    /\ job' = "closed"
    /\ End({p \in Procs : Running(p) /\ (p \in inJob \/ p \in also)}, "killed")

\* run() returns an error: what it owns is dropped, the child is not killed.
Fail ==
    /\ run' = "done" /\ result' = "error"
    /\ DropJob({})

-----------------------------------------------------------------------------
(* The thread in run().                                                    *)

CreateJob ==
    /\ run = "job"
    /\ \/ run' = "spawn" /\ job' = "open" /\ UNCHANGED result
       \/ run' = "done" /\ result' = "error" /\ UNCHANGED job
    /\ UNCHANGED <<reader, captured, procVars, pipeVars, pastVars, expired>>

Spawn ==
    /\ run = "spawn"
    /\ run' = "assign"
    /\ proc' = [proc EXCEPT ![Child] = "running"]
    /\ holds' = [holds EXCEPT ![Child] = Streams]
    /\ UNCHANGED <<result, job, reader, captured, inJob, writing, pipeVars, pastVars, expired>>

SpawnFails ==
    /\ run = "spawn"
    /\ Fail
    /\ UNCHANGED <<reader, captured, pipeVars, pastVars, expired>>

\* A child that has ended by now can still be assigned, or the call fails.
Assign ==
    /\ run = "assign"
    /\ run' = "drain"
    /\ inJob' = inJob \cup {Child}
    /\ UNCHANGED <<result, job, reader, captured, proc, holds, writing, pipeVars, pastVars, expired>>

\* The `?` after job.assign(): the child goes on without a job, and without
\* anyone at the other end of its pipes.
AssignFails ==
    /\ run = "assign"
    /\ Fail
    /\ reader' = [s \in Streams |-> "dropped"]
    /\ UNCHANGED <<captured, pipeVars, pastVars, expired>>

StartReaders(drained) ==
    /\ run = "drain"
    /\ run' = "poll"
    /\ reader' = [s \in Streams |-> IF s \in drained THEN "reading" ELSE "none"]
    /\ UNCHANGED <<result, job, captured, procVars, pipeVars, pastVars, expired>>

\* Variant: stderr is read once the child has ended and stdout is complete.
DrainStdout == StartReaders({"stdout"})

Drain == StartReaders(Streams)

\* try_wait() says the child has ended.
PollExited ==
    /\ run = "poll"
    /\ proc[Child] \in {"exited", "killed"}
    /\ run' = "join" /\ result' = "exited"
    /\ UNCHANGED <<job, reader, captured, procVars, pipeVars, pastVars, expired>>

\* try_wait() says it is running.  The clock is read after that, in a step of
\* its own: the child may end, and the deadline pass, between the two.
PollRunning ==
    /\ run = "poll"
    /\ Running(Child)
    /\ run' = "look"
    /\ UNCHANGED <<result, job, reader, captured, procVars, pipeVars, pastVars, expired>>

\* There is time left: sleep, and look again.
NotYet ==
    /\ run = "look"
    /\ ~expired
    /\ run' = "poll"
    /\ punctual' = (punctual \/ proc[Child] = "exited")
    /\ UNCHANGED <<result, job, reader, captured, procVars, pipeVars, escaped, expired>>

\* It is too late: the job goes, and what is in it, then the child in any case,
\* which is waited for.
TimeOutAt(place, late) ==
    /\ run = place
    /\ late
    /\ run' = "kill" /\ result' = "timed_out"
    /\ DropJob({})
    /\ UNCHANGED <<reader, captured, pipeVars, pastVars, expired>>

\* Variant: the deadline is looked at before the child is.
TimeOutFirst == TimeOutAt("poll", expired)

\* Variant: wait() instead of polling.
TimeOutNever == TimeOutAt("look", FALSE)

TimeOut == TimeOutAt("look", expired)

Kill ==
    /\ run = "kill"
    /\ run' = "join"
    /\ End({Child} \cap {p \in Procs : Running(p)}, "killed")
    /\ UNCHANGED <<result, job, reader, captured, pipeVars, pastVars, expired>>

\* try_wait() fails.
PollFails ==
    /\ run = "poll"
    /\ Fail
    /\ UNCHANGED <<reader, captured, pipeVars, pastVars, expired>>

\* Both readers are joined; the job handle is dropped as run() returns,
\* unless the timeout has taken it.
JoinThen(drop) ==
    /\ run = "join"
    /\ \A s \in Streams : reader[s] \in {"eof", "failed"}
    /\ run' = "done"
    /\ IF drop THEN DropJob({}) ELSE UNCHANGED <<job, procVars>>
    /\ UNCHANGED <<result, reader, captured, pipeVars, pastVars, expired>>

\* Variant: into_raw() forgets the handle after a normal exit.
JoinKeepingJob == JoinThen(job = "closed")

Join == JoinThen(TRUE)

-----------------------------------------------------------------------------
(* The readers.                                                            *)

Open(s) == \E p \in Procs : Running(p) /\ s \in holds[p]

TakeWhen(s, ready) ==
    /\ reader[s] = "reading"
    /\ ready
    /\ buffered' = [buffered EXCEPT ![s] = @ - 1]
    /\ captured' = [captured EXCEPT ![s] = @ + 1]
    /\ UNCHANGED <<run, result, job, reader, written, procVars, pastVars, expired>>

Read(s) == TakeWhen(s, buffered[s] > 0)

ReaderEnds(s, atEnd) ==
    /\ reader[s] = "reading"
    /\ atEnd
    /\ reader' = [reader EXCEPT ![s] = "eof"]
    /\ UNCHANGED <<run, result, job, captured, procVars, pipeVars, pastVars, expired>>

\* Variant: the reader stops when there is nothing to read and the child is gone.
EofWithChild(s) == ReaderEnds(s, buffered[s] = 0 /\ ~Running(Child))

Eof(s) == ReaderEnds(s, buffered[s] = 0 /\ ~Open(s))

\* A read fails, and what has arrived is the output; or the reader panics, and
\* the output is empty.  Neither shows in the outcome.  The end of the pipe goes
\* with the thread, and what is in the pipe.
ReadFails(s) ==
    /\ reader[s] = "reading"
    /\ reader' = [reader EXCEPT ![s] = "failed"]
    /\ \E left \in {captured[s], 0} : captured' = [captured EXCEPT ![s] = left]
    /\ buffered' = [buffered EXCEPT ![s] = 0]
    /\ UNCHANGED <<run, result, job, written, procVars, pastVars, expired>>

-----------------------------------------------------------------------------
(* The command, and time.                                                  *)

\* A running process starts another, handing on any of its ends.
Start(p, q) ==
    /\ Running(p) /\ writing[p] = "none"
    /\ q # Child /\ proc[q] = "unborn"
    /\ proc' = [proc EXCEPT ![q] = "running"]
    /\ \E ends \in SUBSET holds[p] : holds' = [holds EXCEPT ![q] = ends]
    /\ inJob' = IF p \in inJob THEN inJob \cup {q} ELSE inJob
    /\ escaped' = (escaped \/ p \notin inJob)
    /\ UNCHANGED <<execVars, writing, pipeVars, punctual, expired>>

BeginWrite(p, s) ==
    /\ Running(p) /\ writing[p] = "none"
    /\ s \in holds[p]
    /\ writing' = [writing EXCEPT ![p] = s]
    /\ UNCHANGED <<execVars, proc, inJob, holds, pipeVars, pastVars, expired>>

\* The write returns once the unit fits, or at once when nobody will read it.
EndWrite(p) ==
    LET s == writing[p] IN
    /\ Running(p) /\ s # "none"
    /\ \/ /\ reader[s] \notin {"dropped", "failed"}
          /\ buffered[s] < Capacity
          /\ buffered' = [buffered EXCEPT ![s] = @ + 1]
          /\ written' = [written EXCEPT ![s] = @ + 1]
       \/ /\ reader[s] \in {"dropped", "failed"}
          /\ UNCHANGED pipeVars
    /\ writing' = [writing EXCEPT ![p] = "none"]
    /\ UNCHANGED <<execVars, proc, inJob, holds, pastVars, expired>>

Exit(p) ==
    /\ Running(p) /\ writing[p] = "none"
    /\ End({p}, "exited")
    /\ punctual' = (punctual \/ (p = Child /\ ~expired /\ run # "look"))
    /\ UNCHANGED <<execVars, pipeVars, escaped, expired>>

\* The deadline counts from before the child is started.
Expire ==
    /\ ~expired
    /\ expired' = TRUE
    /\ UNCHANGED <<execVars, procVars, pipeVars, pastVars>>

-----------------------------------------------------------------------------
TotalWritten == written["stdout"] + written["stderr"]

RunStep ==
    \/ CreateJob \/ Spawn \/ SpawnFails \/ Assign \/ AssignFails \/ Drain
    \/ PollExited \/ PollRunning \/ NotYet \/ TimeOut \/ Kill \/ Join

ReaderStep(s) == Read(s) \/ Eof(s)

Next ==
    \/ RunStep \/ PollFails
    \/ \E s \in Streams : ReaderStep(s) \/ ReadFails(s)
    \/ \E p, q \in Procs : Start(p, q)
    \/ \E p \in Procs, s \in Streams : TotalWritten < MaxOutput /\ BeginWrite(p, s)
    \/ \E p \in Procs : EndWrite(p) \/ Exit(p)
    \/ Expire

Spec == Init /\ [][Next]_vars

\* The threads of the guest are scheduled, writes that can complete do, and
\* time passes.  A command need not end, nor close its pipes, and waiting for
\* it and reading from it need not fail.
FairSpec ==
    /\ Spec
    /\ WF_vars(RunStep) /\ WF_vars(Expire)
    /\ \A s \in Streams : WF_vars(ReaderStep(s))
    /\ \A p \in Procs : WF_vars(EndWrite(p))

-----------------------------------------------------------------------------
(* Properties.                                                             *)

TypeOK ==
    /\ run \in {"job", "spawn", "assign", "drain", "poll", "look", "kill", "join", "done"}
    /\ result \in {"none", "exited", "timed_out", "error"}
    /\ job \in {"none", "open", "closed"}
    /\ reader \in [Streams -> {"none", "reading", "eof", "failed", "dropped"}]
    /\ captured \in [Streams -> Nat]
    /\ proc \in [Procs -> {"unborn", "running", "exited", "killed"}]
    /\ inJob \subseteq Procs
    /\ holds \in [Procs -> SUBSET Streams]
    /\ writing \in [Procs -> Streams \cup {"none"}]
    /\ buffered \in [Streams -> Nat]
    /\ written \in [Streams -> Nat]
    /\ punctual \in BOOLEAN /\ escaped \in BOOLEAN /\ expired \in BOOLEAN

\* When exec has answered with an outcome, nothing the command started is still
\* running (job.rs: the whole tree dies), unless a process was started from
\* outside the job: in the window between spawn() and assign(), or by one that
\* was.  Both for a timeout and for a command that left something behind.
NothingOutlivesExec ==
    run = "done" /\ result \in {"exited", "timed_out"} /\ ~escaped =>
        \A p \in Procs : ~Running(p)

\* The output returned with an outcome is all that was ever written, by whatever
\* process held the pipe, and nothing can be added: also when the command was
\* killed.  The exception is a pipe whose reader failed (win32.rs:316-323 and
\* 335-337 accept the loss): of that one something may be missing, of the other
\* nothing.
OutputComplete ==
    run = "done" /\ result \in {"exited", "timed_out"} =>
        \A s \in Streams :
            /\ captured[s] <= written[s]
            /\ reader[s] # "failed" => captured[s] = written[s] /\ ~Open(s)

\* A command that ended before its deadline is not reported as timed out, however
\* late the poll that notices, unless both fell between one look at the child
\* (win32.rs:247) and the look at the clock that follows it (win32.rs:258): then
\* the code does report it so.
PunctualNotTimedOut == punctual => result # "timed_out"

\* WVM-01: whoever writes to a full pipe gets on, in every outcome of run();
\* the command is never wedged by its own output.
WritersProceed ==
    \A p \in Procs : writing[p] # "none" ~> writing[p] = "none"

\* run() returns, or else a process other than the child holds one of the pipes
\* for ever and keeps a reader from its end.
ReturnsUnlessHeld ==
    \/ <>(run = "done")
    \/ <>[](\E p \in Procs \ {Child} : Running(p) /\ holds[p] # {})

\* "the deadline means what it says" (win32.rs:232): once it has passed, run()
\* returns.
DeadlineMeansWhatItSays == expired ~> run = "done"
=============================================================================
