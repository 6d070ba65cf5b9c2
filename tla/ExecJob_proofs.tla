--------------------------- MODULE ExecJob_proofs ---------------------------
(***************************************************************************)
(* Proofs about ExecJob, for any set of processes, any pipe capacity and   *)
(* any bound on the output.                                                *)
(***************************************************************************)
EXTENDS ExecJob, TLAPS

Answered == run = "done" /\ result \in {"exited", "timed_out"}

\* Where run() is decides what there can be.
Place ==
    /\ run \in {"job", "spawn"} => \A p \in Procs : proc[p] = "unborn"
    /\ run \in {"job", "spawn", "assign"} => inJob = {}
    /\ run = "assign" => proc[Child] # "unborn"
    /\ run \in {"job", "spawn", "assign", "drain"} =>
           /\ result = "none"
           /\ \A s \in Streams : reader[s] = "none"
    /\ run \in {"job", "spawn", "assign", "drain", "poll", "look"} => job # "closed"
    /\ run \in {"poll", "look", "kill", "join"} => result # "error"
    /\ run \in {"poll", "look"} => result = "none"
    /\ run = "look" => ~punctual
    /\ Answered => \A s \in Streams : reader[s] \in {"eof", "failed"}
    /\ result = "timed_out" => expired /\ ~punctual
    /\ punctual => proc[Child] = "exited"

\* The tree: unless a process was started from outside the job, all that runs
\* is the child on its way into the job, or in the job.
Tree ==
    /\ \A p \in inJob : proc[p] # "unborn"
    /\ job = "closed" => \A p \in inJob : ~Running(p)
    /\ run = "assign" /\ ~escaped => \A p \in Procs : Running(p) => p = Child
    /\ run \in {"drain", "poll", "look", "kill", "join"} /\ ~escaped =>
           \A p \in Procs : Running(p) => p \in inJob
    /\ Answered => job = "closed"
    /\ Answered /\ ~escaped => \A p \in Procs : ~Running(p)

\* The pipes: nothing is lost between writer and reader, unless the reader failed,
\* only the living hold an end, and a reader that is through stays through.
Flow ==
    /\ \A s \in Streams : captured[s] + buffered[s] <= written[s]
    /\ \A s \in Streams : reader[s] # "failed" => captured[s] + buffered[s] = written[s]
    /\ \A p \in Procs : ~Running(p) => holds[p] = {} /\ writing[p] = "none"
    /\ \A p \in Procs : writing[p] # "none" => writing[p] \in holds[p]
    /\ \A s \in Streams : reader[s] = "eof" =>
           buffered[s] = 0 /\ \A p \in Procs : s \notin holds[p]

IInv == TypeOK /\ Place /\ Tree /\ Flow

-----------------------------------------------------------------------------
LEMMA InitIInv == Init => IInv
<1> SUFFICES ASSUME Init PROVE IInv
  OBVIOUS
<1>1. TypeOK
  BY DEF Init, TypeOK, Streams
<1>2. Place
  BY DEF Init, Place, Answered
<1>3. Tree
  BY DEF Init, Tree, Answered, Running
<1>4. Flow
  BY DEF Init, Flow, Running, Streams
<1> QED
  BY <1>1, <1>2, <1>3, <1>4 DEF IInv

\* What the end of some running processes does to the rest of the state.
LEMMA EndEffect ==
    ASSUME TypeOK, NEW dead \in SUBSET Procs, NEW how \in {"exited", "killed"},
           End(dead, how), \A p \in dead : Running(p)
    PROVE  /\ proc' \in [Procs -> {"unborn", "running", "exited", "killed"}]
           /\ holds' \in [Procs -> SUBSET Streams]
           /\ writing' \in [Procs -> Streams \cup {"none"}]
           /\ inJob' = inJob
           /\ \A p \in dead : proc'[p] = how /\ holds'[p] = {} /\ writing'[p] = "none"
           /\ \A p \in Procs \ dead : /\ proc'[p] = proc[p]
                                      /\ holds'[p] = holds[p]
                                      /\ writing'[p] = writing[p]
BY DEF End, TypeOK

\* The same for the processes in the job.
LEMMA DropEffect ==
    ASSUME TypeOK, DropJob({})
    PROVE  LET dead == {p \in Procs : Running(p) /\ p \in inJob} IN
           /\ job' = "closed"
           /\ proc' \in [Procs -> {"unborn", "running", "exited", "killed"}]
           /\ holds' \in [Procs -> SUBSET Streams]
           /\ writing' \in [Procs -> Streams \cup {"none"}]
           /\ inJob' = inJob
           /\ \A p \in dead : proc'[p] = "killed" /\ holds'[p] = {} /\ writing'[p] = "none"
           /\ \A p \in Procs \ dead : /\ proc'[p] = proc[p]
                                      /\ holds'[p] = holds[p]
                                      /\ writing'[p] = writing[p]
<1> DEFINE dead == {p \in Procs : Running(p) /\ p \in inJob}
<1>1. job' = "closed" /\ End(dead, "killed")
  BY DEF DropJob
<1>2. dead \in SUBSET Procs /\ \A p \in dead : Running(p)
  OBVIOUS
<1> QED
  BY <1>1, <1>2, EndEffect

-----------------------------------------------------------------------------
(* The steps of run().                                                     *)

LEMMA RunType == ASSUME IInv, RunStep \/ PollFails PROVE TypeOK'
<1> USE ExecAssumption DEF IInv, execVars, procVars, pipeVars, pastVars
<1>1. CASE CreateJob
  BY <1>1 DEF CreateJob, TypeOK
<1>2. CASE Spawn
  BY <1>2 DEF Spawn, TypeOK, Streams
<1>3. CASE SpawnFails
  BY <1>3, DropEffect DEF SpawnFails, Fail, TypeOK
<1>4. CASE Assign
  BY <1>4 DEF Assign, TypeOK
<1>5. CASE AssignFails
  BY <1>5, DropEffect DEF AssignFails, Fail, TypeOK
<1>6. CASE Drain
  BY <1>6 DEF Drain, StartReaders, TypeOK
<1>7. CASE PollExited
  BY <1>7 DEF PollExited, TypeOK
<1>8. CASE TimeOut
  BY <1>8, DropEffect DEF TimeOut, TimeOutAt, TypeOK
<1>9. CASE Kill
  BY <1>9, EndEffect DEF Kill, TypeOK
<1>10. CASE PollFails
  BY <1>10, DropEffect DEF PollFails, Fail, TypeOK
<1>11. CASE Join
  BY <1>11, DropEffect DEF Join, JoinThen, TypeOK
<1>12. CASE PollRunning
  BY <1>12 DEF PollRunning, TypeOK
<1>13. CASE NotYet
  BY <1>13 DEF NotYet, TypeOK
<1> QED
  BY <1>1, <1>2, <1>3, <1>4, <1>5, <1>6, <1>7, <1>8, <1>9, <1>10, <1>11, <1>12, <1>13 DEF RunStep

LEMMA RunPlace == ASSUME IInv, RunStep \/ PollFails PROVE Place'
<1> USE ExecAssumption DEF IInv, Place, Answered, execVars, procVars, pipeVars, pastVars
<1>1. CASE CreateJob
  BY <1>1 DEF CreateJob, TypeOK
<1>2. CASE Spawn
  BY <1>2 DEF Spawn, TypeOK, Running
<1>3. CASE SpawnFails
  BY <1>3, DropEffect DEF SpawnFails, Fail, Running
<1>4. CASE Assign
  BY <1>4 DEF Assign
<1>5. CASE AssignFails
  BY <1>5, DropEffect DEF AssignFails, Fail, Running
<1>6. CASE Drain
  BY <1>6 DEF Drain, StartReaders
<1>7. CASE PollExited
  BY <1>7 DEF PollExited
<1>8. CASE TimeOut
  BY <1>8, DropEffect DEF TimeOut, TimeOutAt, Running
<1>9. CASE Kill
  BY <1>9, EndEffect DEF Kill, Running
<1>10. CASE PollFails
  BY <1>10, DropEffect DEF PollFails, Fail, Running
<1>11. CASE Join
  BY <1>11, DropEffect DEF Join, JoinThen, Running
<1>12. CASE PollRunning
  BY <1>12 DEF PollRunning, Running
<1>13. CASE NotYet
  BY <1>13 DEF NotYet, TypeOK
<1> QED
  BY <1>1, <1>2, <1>3, <1>4, <1>5, <1>6, <1>7, <1>8, <1>9, <1>10, <1>11, <1>12, <1>13 DEF RunStep

LEMMA RunTree == ASSUME IInv, RunStep \/ PollFails PROVE Tree'
<1> USE ExecAssumption DEF IInv, Place, Tree, Answered, Running, execVars, procVars, pipeVars, pastVars
<1>1. CASE CreateJob
  BY <1>1 DEF CreateJob
<1>2. CASE Spawn
  BY <1>2 DEF Spawn, TypeOK
<1>3. CASE SpawnFails
  BY <1>3, DropEffect DEF SpawnFails, Fail, TypeOK
<1>4. CASE Assign
  BY <1>4 DEF Assign, TypeOK
<1>5. CASE AssignFails
  BY <1>5, DropEffect DEF AssignFails, Fail, TypeOK
<1>6. CASE Drain
  BY <1>6 DEF Drain, StartReaders
<1>7. CASE PollExited
  BY <1>7 DEF PollExited
<1>8. CASE TimeOut
  BY <1>8, DropEffect DEF TimeOut, TimeOutAt, TypeOK
<1>9. CASE Kill
  BY <1>9, EndEffect DEF Kill, TypeOK
<1>10. CASE PollFails
  BY <1>10, DropEffect DEF PollFails, Fail, TypeOK
<1>11. CASE Join
  BY <1>11, DropEffect DEF Join, JoinThen, TypeOK
<1>12. CASE PollRunning
  BY <1>12 DEF PollRunning
<1>13. CASE NotYet
  BY <1>13 DEF NotYet
<1> QED
  BY <1>1, <1>2, <1>3, <1>4, <1>5, <1>6, <1>7, <1>8, <1>9, <1>10, <1>11, <1>12, <1>13 DEF RunStep

LEMMA RunFlow == ASSUME IInv, RunStep \/ PollFails PROVE Flow'
<1> USE ExecAssumption DEF IInv, Place, Flow, Running, execVars, procVars, pipeVars, pastVars
<1>1. CASE CreateJob
  BY <1>1 DEF CreateJob
<1>2. CASE Spawn
  BY <1>2 DEF Spawn, TypeOK
<1>3. CASE SpawnFails
  BY <1>3, DropEffect DEF SpawnFails, Fail, TypeOK
<1>4. CASE Assign
  BY <1>4 DEF Assign, TypeOK
<1>5. CASE AssignFails
  BY <1>5, DropEffect DEF AssignFails, Fail, TypeOK
<1>6. CASE Drain
  BY <1>6 DEF Drain, StartReaders
<1>7. CASE PollExited
  BY <1>7 DEF PollExited
<1>8. CASE TimeOut
  BY <1>8, DropEffect DEF TimeOut, TimeOutAt, TypeOK
<1>9. CASE Kill
  BY <1>9, EndEffect DEF Kill, TypeOK
<1>10. CASE PollFails
  BY <1>10, DropEffect DEF PollFails, Fail, TypeOK
<1>11. CASE Join
  BY <1>11, DropEffect DEF Join, JoinThen, TypeOK
<1>12. CASE PollRunning
  BY <1>12 DEF PollRunning
<1>13. CASE NotYet
  BY <1>13 DEF NotYet
<1> QED
  BY <1>1, <1>2, <1>3, <1>4, <1>5, <1>6, <1>7, <1>8, <1>9, <1>10, <1>11, <1>12, <1>13 DEF RunStep

-----------------------------------------------------------------------------
(* The readers.                                                            *)

LEMMA ReaderIInv == ASSUME IInv, NEW s \in Streams, ReaderStep(s) \/ ReadFails(s) PROVE IInv'
<1> USE DEF IInv, Answered, Running, execVars, procVars, pipeVars, pastVars
<1>1. CASE Read(s)
  <2>1. TypeOK'
    BY <1>1 DEF Read, TakeWhen, TypeOK
  <2>2. Place' /\ Tree'
    BY <1>1 DEF Read, TakeWhen, Place, Tree
  <2>3. Flow'
    BY <1>1 DEF Read, TakeWhen, Flow, TypeOK
  <2> QED
    BY <2>1, <2>2, <2>3
<1>2. CASE Eof(s)
  <2>1. TypeOK'
    BY <1>2 DEF Eof, ReaderEnds, TypeOK
  <2>2. Place' /\ Tree'
    BY <1>2 DEF Eof, ReaderEnds, Place, Tree, TypeOK
  <2>3. Flow'
    BY <1>2 DEF Eof, ReaderEnds, Open, Flow, TypeOK
  <2> QED
    BY <2>1, <2>2, <2>3
<1>3. CASE ReadFails(s)
  <2>1. TypeOK'
    BY <1>3 DEF ReadFails, TypeOK
  <2>2. Place' /\ Tree'
    BY <1>3 DEF ReadFails, Place, Tree, TypeOK
  <2>3. Flow'
    BY <1>3 DEF ReadFails, Flow, TypeOK
  <2> QED
    BY <2>1, <2>2, <2>3
<1> QED
  BY <1>1, <1>2, <1>3 DEF ReaderStep

-----------------------------------------------------------------------------
(* The command, and time.                                                  *)

LEMMA StartIInv == ASSUME IInv, NEW p \in Procs, NEW q \in Procs, Start(p, q) PROVE IInv'
<1> USE DEF IInv, Start, Running, execVars, procVars, pipeVars, pastVars
<1>1. TypeOK'
  BY DEF TypeOK
<1>2. Place'
  BY DEF Place, Answered, TypeOK
<1>3. Tree'
  <2>1. /\ UNCHANGED <<run, result, job>>
        /\ \A r \in Procs \ {q} : proc'[r] = proc[r] /\ ((r \in inJob') <=> (r \in inJob))
        /\ (q \in inJob') <=> (q \in inJob \/ p \in inJob)
        /\ proc[p] = "running" /\ proc[q] = "unborn" /\ proc'[q] = "running"
        /\ inJob' \subseteq Procs
        /\ ~escaped' => ~escaped /\ p \in inJob
    BY DEF TypeOK
  <2>2. job' = "closed" => \A r \in inJob' : ~Running(r)'
    BY <2>1 DEF Tree, TypeOK
  <2> QED
    BY <2>1, <2>2 DEF Tree, Answered, Place
<1>4. Flow'
  BY DEF Flow, TypeOK
<1> QED
  BY <1>1, <1>2, <1>3, <1>4

LEMMA WriteIInv ==
    ASSUME IInv, NEW p \in Procs, EndWrite(p) \/ \E s \in Streams : BeginWrite(p, s)
    PROVE  IInv'
<1> USE DEF IInv, Running, Answered, execVars, procVars, pipeVars, pastVars
<1>1. CASE EndWrite(p)
  <2>1. TypeOK' /\ Place' /\ Tree'
    BY <1>1 DEF EndWrite, TypeOK, Place, Tree
  <2>2. Flow'
    BY <1>1 DEF EndWrite, TypeOK, Flow
  <2> QED
    BY <2>1, <2>2
<1>2. ASSUME NEW s \in Streams, BeginWrite(p, s) PROVE IInv'
  <2>1. TypeOK' /\ Place' /\ Tree'
    BY <1>2 DEF BeginWrite, TypeOK, Place, Tree
  <2>2. Flow'
    BY <1>2 DEF BeginWrite, TypeOK, Flow
  <2> QED
    BY <2>1, <2>2
<1> QED
  BY <1>1, <1>2

LEMMA ExitIInv == ASSUME IInv, NEW p \in Procs, Exit(p) PROVE IInv'
<1> USE DEF IInv, Exit, Running, execVars, procVars, pipeVars, pastVars
<1>1. TypeOK'
  BY EndEffect DEF TypeOK
<1>2. Place'
  <2>1. punctual' => punctual \/ (p = Child /\ ~expired /\ run # "look")
    BY DEF TypeOK
  <2>2. \A q \in Procs : proc'[q] = IF q = p THEN "exited" ELSE proc[q]
    BY EndEffect
  <2>3. UNCHANGED <<run, result, job, reader, inJob, expired>>
    BY DEF End
  <2> QED
    BY <2>1, <2>2, <2>3, ExecAssumption DEF Place, Answered
<1>3. Tree'
  BY EndEffect DEF Tree, Answered, TypeOK
<1>4. Flow'
  BY EndEffect DEF Flow
<1> QED
  BY <1>1, <1>2, <1>3, <1>4

LEMMA IInvNext == IInv /\ [Next]_vars => IInv'
<1> SUFFICES ASSUME IInv, [Next]_vars PROVE IInv'
  OBVIOUS
<1>1. CASE RunStep \/ PollFails
  BY <1>1, RunType, RunPlace, RunTree, RunFlow DEF IInv
<1>2. CASE \E s \in Streams : ReaderStep(s) \/ ReadFails(s)
  BY <1>2, ReaderIInv
<1>3. CASE \E p, q \in Procs : Start(p, q)
  BY <1>3, StartIInv
<1>4. CASE \E p \in Procs : EndWrite(p) \/ \E s \in Streams : BeginWrite(p, s)
  BY <1>4, WriteIInv
<1>5. CASE \E p \in Procs : Exit(p)
  BY <1>5, ExitIInv
<1>6. CASE Expire \/ UNCHANGED vars
  <2>1. /\ UNCHANGED <<run, result, job, reader, captured, proc, inJob, holds, writing,
                       buffered, written, punctual, escaped>>
        /\ expired' \in BOOLEAN /\ (expired => expired')
    BY <1>6 DEF Expire, vars, execVars, procVars, pipeVars, pastVars, IInv, TypeOK
  <2>2. TypeOK' /\ Tree' /\ Flow'
    BY <2>1 DEF IInv, TypeOK, Tree, Flow, Answered, Running
  <2>3. Place'
    BY <2>1 DEF IInv, Place, Answered
  <2> QED
    BY <2>2, <2>3 DEF IInv
<1> QED
  BY <1>1, <1>2, <1>3, <1>4, <1>5, <1>6 DEF Next

LEMMA Inductive == Spec => []IInv
<1> QED
  BY InitIInv, IInvNext, PTL DEF Spec

\* The type invariant of one exec, for any number of processes.
THEOREM ExecTypeCorrect == Spec => []TypeOK
<1>1. IInv => TypeOK
  BY DEF IInv
<1> QED
  BY <1>1, Inductive, PTL

\* However many processes a command starts, however they end: once exec has
\* answered none runs, unless one was started from outside the job.
THEOREM ExecLeavesNothing == Spec => []NothingOutlivesExec
<1>1. IInv => NothingOutlivesExec
  BY DEF IInv, Tree, Answered, NothingOutlivesExec
<1> QED
  BY <1>1, Inductive, PTL

\* Whatever is written by whichever process is in the output exec returns, except
\* for a pipe whose reader failed.
THEOREM ExecOutputComplete == Spec => []OutputComplete
<1>1. IInv => OutputComplete
  BY DEF IInv, TypeOK, Place, Flow, Answered, OutputComplete, Open
<1> QED
  BY <1>1, Inductive, PTL

\* A command that ended in time is not called late, unless it ended and the
\* deadline passed between one look at the child and the look at the clock.
THEOREM ExecPunctual == Spec => []PunctualNotTimedOut
<1>1. IInv => PunctualNotTimedOut
  BY DEF IInv, Place, PunctualNotTimedOut
<1> QED
  BY <1>1, Inductive, PTL
=============================================================================
