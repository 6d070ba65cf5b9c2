----------------------------- MODULE Snapshots -----------------------------
(***************************************************************************)
(* Snapshots over QMP: the conversation of wvm-host/src/supervisor.rs (Qmp)*)
(* as wvm-host/src/lifecycle.rs and `wvm vm suspend` use it.               *)
(*                                                                         *)
(* A member of Runs is one `wvm vm ...` process.  It has a connection of   *)
(* its own, of which QEMU serves one at a time, writes a command and reads *)
(* messages until one is a reply.  Replies carry no identification, events *)
(* arrive between them, and a read may time out: the reply is then still   *)
(* to come, or half of its line has been lost.  save() goes on after such  *)
(* an error in its first two commands, so it may read the replies of       *)
(* earlier commands as those of later ones from there on.                  *)
(*                                                                         *)
(* Saving and loading are jobs, whose end is announced by an event and     *)
(* whose outcome only query-jobs tells.                                    *)
(***************************************************************************)
EXTENDS Naturals, Sequences, SequencesExt

CONSTANTS Runs,     \* processes; also what their jobs save
          Tags,     \* names of snapshots
          Suspend,  \* "wvm-suspend": the job id and tag of every suspend
          Old,      \* the state in a snapshot that was there before
          Nothing   \* no snapshot; no client

ASSUME SnapshotAssumption ==
    /\ Suspend \in Tags
    /\ {Suspend, Old, Nothing} \cap Runs = {}
    /\ Old # Nothing

VARIABLES
    phase,    \* where a process is: "new", "running", or its result
    op,       \* its action
    tag,      \* and the tag it is given
    step,     \* the step of its script it is at
    waiting,  \* it has written the command of that step
    monitor,  \* the process whose connection QEMU serves
    toQemu,   \* commands it has written
    fromQemu, \* messages on their way to it
    pending,  \* its pending_events
    owed,     \* QEMU is to reply to a command that started a job
    job,      \* QEMU's jobs: id -> status, whose, and for which tag
    disk      \* the snapshots in the disk image: tag -> whose state

clientVars == <<phase, op, tag, step, waiting>>
wireVars   == <<monitor, toQemu, fromQemu, pending>>
qemuVars   == <<owed, job, disk>>
vars == <<clientVars, wireVars, qemuVars>>

-----------------------------------------------------------------------------
\* What each action does, connection made: commands to be answered, and
\* "await", await_job's wait for the event of its job.  The first "list" of a
\* save is the count of snapshots that main() prints, the last its confirmation.
Script(o) ==
    CASE o = "save"    -> <<"list", "delete", "save", "await", "jobs", "confirm">>
      [] o = "restore" -> <<"load", "await", "jobs">>
      [] o = "delete"  -> <<"delete">>
      [] o = "suspend" -> <<"save">>

Doing(r) == Script(op[r])[step[r]]

\* job-id: unique per process, except that of suspend.
JobId(r) == IF op[r] = "suspend" THEN Suspend ELSE r
JobIds == Runs \cup {Suspend}
NoJob == [status |-> "none", of |-> Nothing, kind |-> "save", tag |-> Suspend]

Message(kind, val) == [kind |-> kind, val |-> val]
Empty == Message("return", {})      \* {"return": {}}
IsReturn(m) == m.kind \in {"return", "tags", "jobs"}

Exists(t) == disk[t] # Nothing

Init ==
    /\ phase = [r \in Runs |-> "new"]
    /\ op \in [Runs -> {"save", "restore", "delete", "suspend"}]
    /\ tag \in [Runs -> Tags]
    /\ \A r \in Runs : op[r] = "suspend" => tag[r] = Suspend
    /\ step = [r \in Runs |-> 1]
    /\ waiting = [r \in Runs |-> FALSE]
    /\ monitor = Nothing
    /\ toQemu = <<>>
    /\ fromQemu = <<>>
    /\ pending = <<>>
    /\ owed = FALSE
    /\ job = [i \in JobIds |-> NoJob]
    /\ disk \in [Tags -> {Old, Nothing}]

-----------------------------------------------------------------------------
(* The process.                                                            *)

\* Qmp::connect, with the greeting and qmp_capabilities.  While QEMU serves
\* another client the greeting does not come, and the read times out.
Connect(r) ==
    /\ phase[r] = "new"
    /\ \/ /\ monitor = Nothing
          /\ monitor' = r
          /\ phase' = [phase EXCEPT ![r] = "running"]
       \/ /\ phase' = [phase EXCEPT ![r] = "failed"]
          /\ UNCHANGED monitor
    /\ UNCHANGED <<op, tag, step, waiting, toQemu, fromQemu, pending, qemuVars>>

\* The process ends, and its connection with it.
End(r, result) ==
    /\ phase' = [phase EXCEPT ![r] = result]
    /\ monitor' = Nothing
    /\ toQemu' = <<>>
    /\ fromQemu' = <<>>
    /\ pending' = <<>>
    /\ owed' = FALSE
    /\ waiting' = [waiting EXCEPT ![r] = FALSE]
    /\ UNCHANGED step

\* The step is done: on to the next one, or success.
AdvanceUnless(r, rest, events, done) ==
    IF done
    THEN End(r, "ok")
    ELSE /\ step' = [step EXCEPT ![r] = @ + 1]
         /\ waiting' = [waiting EXCEPT ![r] = FALSE]
         /\ fromQemu' = rest
         /\ pending' = events
         /\ UNCHANGED <<phase, monitor, toQemu, owed>>

Advance(r, rest, events) ==
    AdvanceUnless(r, rest, events, step[r] = Len(Script(op[r])))

\* The step returns Err, which ends the process, except that main() prints no
\* count when list() fails and save() takes any error of delete() for "there
\* was nothing to delete".
Tolerant(r) == op[r] = "save" /\ step[r] \in {1, 2}

Err(r, rest) ==
    IF Tolerant(r) THEN Advance(r, rest, pending) ELSE End(r, "failed")

Write(r) ==
    /\ phase[r] = "running"
    /\ ~waiting[r]
    /\ Doing(r) # "await"
    /\ waiting' = [waiting EXCEPT ![r] = TRUE]
    /\ toQemu' = Append(toQemu, Doing(r))
    /\ UNCHANGED <<phase, op, tag, step, monitor, fromQemu, pending, qemuVars>>

\* await_job on the reply to query-jobs: the job is there and has no error.
JobSucceeded(r, m) ==
    m.kind = "jobs" /\ \E status \in {"running", "good"} : <<JobId(r), status>> \in m.val

\* What the step makes of a reply.
Judge(r, m, concluded) ==
    CASE Doing(r) = "jobs"    -> concluded
      [] Doing(r) = "confirm" -> m.kind = "tags" /\ tag[r] \in m.val
      [] OTHER                -> IsReturn(m)

\* Variant: the event says that the job concluded, and that is taken for success.
AcceptsConcluded(r, m) == Judge(r, m, IsReturn(m))

Accepts(r, m) == Judge(r, m, JobSucceeded(r, m))

\* execute_with_timeout, one message: events are kept for later, the first
\* reply is taken.
ReadMessageKeeping(r, events) ==
    /\ phase[r] = "running"
    /\ waiting[r]
    /\ fromQemu # <<>>
    /\ LET m == Head(fromQemu) IN
       \/ /\ m.kind = "event"
          /\ fromQemu' = Tail(fromQemu)
          /\ pending' = events
          /\ UNCHANGED <<phase, step, waiting, monitor, toQemu, owed>>
       \/ /\ m.kind # "event" /\ Accepts(r, m)
          /\ Advance(r, Tail(fromQemu), pending)
       \/ /\ m.kind # "event" /\ ~Accepts(r, m)
          /\ Err(r, Tail(fromQemu))
    /\ UNCHANGED <<op, tag, job, disk>>

\* Variant: events that arrive before a reply are skipped.
ReadMessageSkipping(r) == ReadMessageKeeping(r, pending)

ReadMessage(r) == ReadMessageKeeping(r, Append(pending, Head(fromQemu)))

\* await_job and next_event_with_timeout: queued events first, then the stream;
\* a reply found there and the events of other jobs are passed over.
AwaitJob(r) ==
    /\ phase[r] = "running"
    /\ Doing(r) = "await"
    /\ pending # <<>> \/ fromQemu # <<>>
    /\ LET queued == pending # <<>>
           m == IF queued THEN Head(pending) ELSE Head(fromQemu)
           rest == IF queued THEN fromQemu ELSE Tail(fromQemu)
           events == IF queued THEN Tail(pending) ELSE pending
       IN
       \/ /\ m = Message("event", {JobId(r)})
          /\ Advance(r, rest, events)
       \/ /\ m.kind = "garbage"
          /\ End(r, "failed")
       \/ /\ m # Message("event", {JobId(r)}) /\ m.kind # "garbage"
          /\ fromQemu' = rest
          /\ pending' = events
          /\ UNCHANGED <<phase, step, waiting, monitor, toQemu, owed>>
    /\ UNCHANGED <<op, tag, job, disk>>

\* read_line times out, perhaps with a part of a line read and thereby lost.
\* Waiting for an event this is an error too, and ends the process.
TimesOutWhen(r, reading) ==
    /\ phase[r] = "running"
    /\ reading
    /\ \E rest \in {fromQemu} \cup
          {<<Message("garbage", {})>> \o Tail(s) : s \in {fromQemu} \ {<<>>}} :
       /\ fromQemu = <<>> \/ rest # fromQemu
       /\ IF Doing(r) = "await" THEN End(r, "failed") ELSE Err(r, rest)
    /\ UNCHANGED <<op, tag, job, disk>>

\* Variant: the wait for an event has no timeout.
TimesOutAtCommands(r) == TimesOutWhen(r, waiting[r])

TimesOut(r) ==
    TimesOutWhen(r, waiting[r] \/ (Doing(r) = "await" /\ pending = <<>>))

\* The user interrupts it.
Killed(r) ==
    /\ phase[r] = "running"
    /\ End(r, "killed")
    /\ UNCHANGED <<op, tag, job, disk>>

-----------------------------------------------------------------------------
(* QEMU, which is external: as lifecycle.rs describes and handles it.      *)

Reply(m) == fromQemu' = Append(fromQemu, m)

\* One command at a time.  A job is refused when its id has been used; a tag
\* that is taken, or missing, is the job's failure.
Execute ==
    /\ toQemu # <<>>
    /\ ~owed
    /\ toQemu' = Tail(toQemu)
    /\ LET cmd == Head(toQemu)
           r == monitor
           id == JobId(r)
       IN
       \/ /\ cmd \in {"list", "confirm"}
          /\ Reply(Message("tags", {t \in Tags : Exists(t)}))
          /\ UNCHANGED <<owed, job, disk>>
       \/ /\ cmd = "jobs"
          /\ Reply(Message("jobs", {<<i, job[i].status>> : i \in JobIds}))
          /\ UNCHANGED <<owed, job, disk>>
       \/ /\ cmd = "delete" /\ Exists(tag[r])
          /\ Reply(Empty)
          /\ disk' = [disk EXCEPT ![tag[r]] = Nothing]
          /\ UNCHANGED <<owed, job>>
       \/ /\ cmd = "delete" \/ (cmd \in {"save", "load"} /\ job[id].status # "none")
          /\ Reply(Message("error", {}))
          /\ UNCHANGED <<owed, job, disk>>
       \/ /\ cmd \in {"save", "load"} /\ job[id].status = "none"
          /\ job' = [job EXCEPT ![id] =
                       [status |-> "running", of |-> r, kind |-> cmd, tag |-> tag[r]]]
          /\ owed' = TRUE
          /\ UNCHANGED <<fromQemu, disk>>
    /\ UNCHANGED <<clientVars, monitor, pending>>

\* The reply to a command that started a job may come after the job's events.
ReplyOwed ==
    /\ owed
    /\ owed' = FALSE
    /\ Reply(Empty)
    /\ UNCHANGED <<clientVars, monitor, toQemu, pending, job, disk>>

\* A job ends.  Whoever is connected is told so, and not how.
Conclude(i) ==
    /\ job[i].status = "running"
    /\ \/ /\ job[i].kind = "save" /\ ~Exists(job[i].tag)
          /\ disk' = [disk EXCEPT ![job[i].tag] = job[i].of]
          /\ job' = [job EXCEPT ![i].status = "good"]
       \/ /\ job[i].kind = "load" /\ Exists(job[i].tag)
          /\ job' = [job EXCEPT ![i].status = "good"]
          /\ UNCHANGED disk
       \/ /\ job' = [job EXCEPT ![i].status = "bad"]
          /\ UNCHANGED disk
    /\ IF monitor = Nothing THEN UNCHANGED fromQemu ELSE Reply(Message("event", {i}))
    /\ UNCHANGED <<clientVars, monitor, toQemu, pending, owed>>

-----------------------------------------------------------------------------
ClientStep(r) ==
    Connect(r) \/ Write(r) \/ ReadMessage(r) \/ AwaitJob(r) \/ TimesOut(r)

Next ==
    \/ \E r \in Runs : ClientStep(r) \/ Killed(r)
    \/ Execute \/ ReplyOwed
    \/ \E i \in JobIds : Conclude(i)

Spec == Init /\ [][Next]_vars

\* A process takes its steps and its reads time out.  QEMU may hang.
FairSpec == Spec /\ \A r \in Runs : WF_vars(ClientStep(r))
-----------------------------------------------------------------------------
(* Properties.                                                             *)

Commands == {"list", "delete", "save", "load", "jobs", "confirm"}
Messages ==
    [kind : {"return", "error", "garbage"}, val : {{}}]
    \cup [kind : {"tags"}, val : SUBSET Tags]
    \cup [kind : {"event"}, val : {{i} : i \in JobIds}]
    \cup [kind : {"jobs"}, val : SUBSET (JobIds \X {"none", "running", "good", "bad"})]

TypeOK ==
    /\ phase \in [Runs -> {"new", "running", "ok", "failed", "killed"}]
    /\ op \in [Runs -> {"save", "restore", "delete", "suspend"}]
    /\ tag \in [Runs -> Tags]
    /\ step \in [Runs -> Nat]
    /\ \A r \in Runs : step[r] \in 1..Len(Script(op[r]))
    /\ waiting \in [Runs -> BOOLEAN]
    /\ monitor \in Runs \cup {Nothing}
    /\ toQemu \in Seq(Commands)
    /\ fromQemu \in Seq(Messages)
    /\ pending \in Seq(Messages)
    /\ owed \in BOOLEAN
    /\ job \in [JobIds -> [status : {"none", "running", "good", "bad"},
                           of : Runs \cup {Nothing}, kind : {"save", "load"}, tag : Tags]]
    /\ disk \in [Tags -> Runs \cup {Old, Nothing}]

ReportsWhatIs ==
    \A r \in Runs :
        phase[r] = "running" /\ phase'[r] = "ok" =>
            /\ op[r] = "save" => disk[tag[r]] = r
            /\ op[r] = "restore" => job[r].status = "good"

\* A save that reports success has put its own state into the disk image under
\* its tag, and a restore that does has been carried out: whichever commands
\* timed out, whichever replies were read as those of other commands, whatever
\* jobs of earlier processes are still running, and although an older snapshot
\* of that name, which could not be deleted, satisfies the final look at the list.
SuccessIsReal == [][ReportsWhatIs]_vars

\* A process that waits for the end of its job will see it: an event that came
\* before the reply to the command, or was read in its place, is not lost.
ConclusionNotLost ==
    \A r \in Runs :
        /\ phase[r] = "running" /\ Doing(r) = "await"
        /\ job[r].status \in {"good", "bad"}
        => Contains(pending \o fromQemu, Message("event", {r}))

\* "a hung daemon must not hang the CLI forever" (wvm-host/src/supervisor.rs:34):
\* every process ends, whatever QEMU does or does not do.
CliReturns == \A r \in Runs : phase[r] = "running" ~> phase[r] # "running"

\* "The state is written into the qcow2 image itself, so a suspend is durable"
\* (wvm-host/src/supervisor.rs:737): when suspend() reports success, it is.
SuspendIsDurable ==
    [][\A r \in Runs :
          op[r] = "suspend" /\ phase[r] = "running" /\ phase'[r] = "ok"
              => disk[Suspend] = r]_vars
=============================================================================
