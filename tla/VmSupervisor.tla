----------------------------- MODULE VmSupervisor -----------------------------
(***************************************************************************)
(* The `wvm vm` commands that start, stop and look at the VM, and those    *)
(* that open and close a viewer on its display: supervisor.rs, display.rs  *)
(* and their arms of run_vm.                                               *)
(*                                                                         *)
(* The commands are processes of their own.  They share the process table, *)
(* in which a pid that is free may be given to any new process, the pid    *)
(* file, and the files prepare() makes.  QEMU is modelled from the way the *)
(* code handles it: it answers QMP only once it is up and need not answer  *)
(* then (its monitor serves one client, and stands still while it saves    *)
(* state), it locks its disk, so that of two only one comes up, and it may *)
(* end at any time.                                                        *)
(***************************************************************************)
EXTENDS Naturals, FiniteSets

CONSTANTS
    Commands,   \* wvm processes
    Pids,       \* process ids
    NoPid,      \* no pid file, no process
    MaxLooks    \* looks that fit in the --timeout of start and of shutdown

ASSUME VmAssumption ==
    /\ NoPid \notin Pids
    /\ MaxLooks \in Nat \ {0}

VARIABLES
    kind,       \* what each command is for
    at,         \* where it is
    first,      \* it has not acted on the VM yet
    looks,      \* calls of state() in its waiting loop
    mine,       \* the process it has started
    targets,    \* hide: the viewers it has found
    result,
    table,      \* the process table
    pidFile,
    disk, nvram,    \* the disk image and OVMF_VARS.fd
    raced,      \* two launches, or two prepares, came between each other
    overtaken,  \* a VM was launched while a start waited for its own
    spoiled     \* a prepare() failed

cmdVars == <<kind, at, first, looks, mine, targets, result>>
fileVars == <<disk, nvram>>
pastVars == <<raced, overtaken, spoiled>>
vars == <<cmdVars, table, pidFile, fileVars, pastVars>>

Kinds == {"start", "shutdown", "status", "prepare", "show", "hide"}

Vms == {p \in Pids : table[p] \in {"booting", "up"}}
Viewers == {p \in Pids : table[p] = "viewer"}
Free == {p \in Pids : table[p] = "none"}

Init ==
    /\ kind \in [Commands -> Kinds]
    /\ at = [c \in Commands |-> "idle"]
    /\ first = [c \in Commands |-> TRUE]
    /\ looks = [c \in Commands |-> 0]
    /\ mine = [c \in Commands |-> NoPid]
    /\ targets = [c \in Commands |-> {}]
    /\ result = [c \in Commands |-> "none"]
    /\ table = [p \in Pids |-> "none"]
    /\ pidFile \in Pids \cup {NoPid}    \* left by an earlier VM
    /\ disk \in {"absent", "whole"}
    /\ nvram \in {"absent", "whole"}
    /\ raced = FALSE /\ overtaken = FALSE /\ spoiled = FALSE

-----------------------------------------------------------------------------
(* A command goes on, or ends: a child of it that is dead is then reaped.  *)

Goto(c, place) ==
    /\ at' = [at EXCEPT ![c] = place]
    /\ UNCHANGED <<result, table>>

Return(c, answer) ==
    /\ at' = [at EXCEPT ![c] = "done"]
    /\ result' = [result EXCEPT ![c] = answer]
    /\ table' = [p \in Pids |->
                    IF p = mine[c] /\ table[p] = "zombie" THEN "none" ELSE table[p]]

Begin(c) ==
    /\ at[c] = "idle"
    /\ Goto(c, CASE kind[c] \in {"start", "status"} -> "pid"
                 [] kind[c] = "shutdown" -> "powerdown"
                 [] kind[c] = "prepare" -> "disk"
                 [] kind[c] = "show" -> "listening"
                 [] kind[c] = "hide" -> "find")
    /\ UNCHANGED <<kind, first, looks, mine, targets, pidFile, fileVars, pastVars>>

-----------------------------------------------------------------------------
(* Supervisor::state(), in three steps, and what each caller makes of it.  *)

\* start() refuses when anything runs, then waits until it is "running"
\* (wait_until_responsive); shutdown() waits until it is "stopped".
Wanted(c) == IF kind[c] = "start" THEN {"running"} ELSE {"stopped"}

ConcludeWith(c, state, wanted, late) ==
    \/ /\ kind[c] = "status"
       /\ Return(c, state)
       /\ UNCHANGED looks
    \/ /\ kind[c] = "start" /\ first[c]
       /\ IF state = "stopped" THEN Goto(c, "disk") ELSE Return(c, "already")
       /\ UNCHANGED looks
    \/ /\ kind[c] \in {"start", "shutdown"} /\ ~first[c]
       /\ CASE state \in wanted -> Return(c, "ok")
            [] state \notin wanted /\ late -> Return(c, "failed")
            [] OTHER -> Goto(c, "pid")
       /\ looks' = [looks EXCEPT ![c] = @ + 1]

Late(c) == looks[c] + 1 >= MaxLooks

\* Variant: start() waits for any state that is_running() accepts.
ConcludeRunning(c, state) ==
    ConcludeWith(c, state, Wanted(c) \cup {"unresponsive"}, Late(c))

\* Variant: each look begins a new wait.
ConcludeAnew(c, state) ==
    IF ~first[c] /\ state \notin Wanted(c)
    THEN Goto(c, "pid") /\ UNCHANGED looks
    ELSE ConcludeWith(c, state, Wanted(c), Late(c))

Conclude(c, state) == ConcludeWith(c, state, Wanted(c), Late(c))

\* The pid in the file is believed when kill(pid, 0) succeeds, which it does
\* for any process of the user, and for one that has ended and waits to be reaped.
LookAtPid(c) ==
    /\ at[c] = "pid"
    /\ Goto(c, IF pidFile # NoPid /\ table[pidFile] # "none" THEN "qmp" ELSE "scan")
    /\ UNCHANGED <<kind, first, looks, mine, targets, pidFile, fileVars, pastVars>>

\* find_running_pid(): QEMU processes that name this VM.
ScanWith(c, found) ==
    /\ at[c] = "scan"
    /\ IF found # {}
       THEN Goto(c, "qmp") /\ UNCHANGED looks
       ELSE Conclude(c, "stopped")
    /\ UNCHANGED <<kind, first, mine, targets, pidFile, fileVars, pastVars>>

\* Variant: only the pid file counts.
ScanNothing(c) == ScanWith(c, {})

Scan(c) == ScanWith(c, Vms)

AskStatus(c) ==
    /\ at[c] = "qmp"
    /\ \/ (\E p \in Pids : table[p] = "up") /\ Conclude(c, "running")
       \/ Conclude(c, "unresponsive")
    /\ UNCHANGED <<kind, first, mine, targets, pidFile, fileVars, pastVars>>

-----------------------------------------------------------------------------
(* prepare(): the disk, then the copy of the variable store.               *)

InPrepare == {c \in Commands : at[c] \in {"disk", "nvram", "copying"}}

AfterPrepare(c) ==
    IF kind[c] = "start" THEN Goto(c, "forget") ELSE Return(c, "ok")

\* qemu-img, when there is no disk; detect_installed_firmware() when there is.
PrepareDisk(c) ==
    /\ at[c] = "disk"
    /\ \/ /\ disk' = (IF disk = "absent" THEN "whole" ELSE disk)
          /\ Goto(c, "nvram")
          /\ UNCHANGED spoiled
       \/ /\ IF disk = "absent" THEN disk' \in {"absent", "part"} ELSE UNCHANGED disk
          /\ Return(c, "failed")
          /\ spoiled' = TRUE
    /\ raced' = (raced \/ InPrepare # {c})
    /\ UNCHANGED <<kind, first, looks, mine, targets, pidFile, nvram, overtaken>>

\* BIOS firmware needs no store; a store that exists is used as it is.
PrepareNvram(c) ==
    /\ at[c] = "nvram"
    /\ IF nvram = "absent"
       THEN nvram' = "part" /\ Goto(c, "copying")
       ELSE UNCHANGED nvram /\ AfterPrepare(c)
    /\ raced' = (raced \/ InPrepare # {c})
    /\ UNCHANGED <<kind, first, looks, mine, targets, pidFile, disk, overtaken, spoiled>>

\* std::fs::copy ends, or fails and leaves what it has written.
CopyNvramWith(c, failed) ==
    /\ at[c] = "copying"
    /\ \/ nvram' = "whole" /\ AfterPrepare(c) /\ UNCHANGED spoiled
       \/ UNCHANGED nvram /\ failed
    /\ raced' = (raced \/ InPrepare # {c})
    /\ UNCHANGED <<kind, first, looks, mine, targets, pidFile, disk, overtaken>>

\* Variant: a copy that fails is a warning.
CopyNvramWarn(c) == CopyNvramWith(c, AfterPrepare(c) /\ UNCHANGED spoiled)

CopyNvram(c) == CopyNvramWith(c, Return(c, "failed") /\ spoiled' = TRUE)

-----------------------------------------------------------------------------
(* start(): from "stopped" to the wait.                                    *)

Launching == {c \in Commands : kind[c] = "start" /\ first[c] /\
                  at[c] \in {"disk", "nvram", "copying", "forget", "spawn"}}
Waiting == {c \in Commands : mine[c] # NoPid /\ at[c] # "done"}

\* The stale pid file goes first, so that no failure can leave it to be believed.
Forget(c) ==
    /\ at[c] = "forget"
    /\ pidFile' = NoPid
    /\ Goto(c, "spawn")
    /\ UNCHANGED <<kind, first, looks, mine, targets, fileVars, pastVars>>

Spawn(c) ==
    /\ at[c] = "spawn"
    /\ \E p \in Free :
          /\ table' = [table EXCEPT ![p] = "booting"]
          /\ mine' = [mine EXCEPT ![c] = p]
    /\ at' = [at EXCEPT ![c] = "record"]
    /\ first' = [first EXCEPT ![c] = FALSE]
    /\ raced' = (raced \/ Launching # {c})
    /\ overtaken' = (overtaken \/ Waiting # {})
    /\ UNCHANGED <<kind, looks, targets, result, pidFile, fileVars, spoiled>>

SpawnFails(c) ==
    /\ at[c] = "spawn"
    /\ Return(c, "failed")
    /\ UNCHANGED <<kind, first, looks, mine, targets, pidFile, fileVars, pastVars>>

\* Writing the pid file may fail: the VM then runs without one.
Record(c) ==
    /\ at[c] = "record"
    /\ \/ pidFile' = mine[c] /\ Goto(c, "pid")
       \/ UNCHANGED pidFile /\ Return(c, "failed")
    /\ UNCHANGED <<kind, first, looks, mine, targets, fileVars, pastVars>>

-----------------------------------------------------------------------------
(* shutdown(): system_powerdown, then the wait.                            *)

Powerdown(c) ==
    /\ at[c] = "powerdown"
    /\ \/ (\E p \in Pids : table[p] = "up") /\ Goto(c, "pid")
       \/ Return(c, "failed")
    /\ first' = [first EXCEPT ![c] = FALSE]
    /\ UNCHANGED <<kind, looks, mine, targets, pidFile, fileVars, pastVars>>

-----------------------------------------------------------------------------
(* Viewers.                                                                *)

\* is_listening_at(): connect, not stat.
ShowListening(c) ==
    /\ at[c] = "listening"
    /\ IF \E p \in Pids : table[p] = "up" THEN Goto(c, "count") ELSE Return(c, "failed")
    /\ UNCHANGED <<kind, first, looks, mine, targets, pidFile, fileVars, pastVars>>

ShowCountWith(c, attached) ==
    /\ at[c] = "count"
    /\ IF attached = {} THEN Goto(c, "view") ELSE Return(c, "already")
    /\ UNCHANGED <<kind, first, looks, mine, targets, pidFile, fileVars, pastVars>>

\* Variant: only viewers whose VM is still there are counted.
ShowCountLive(c) == ShowCountWith(c, IF Vms = {} THEN {} ELSE Viewers)

ShowCount(c) == ShowCountWith(c, Viewers)

\* The race noted is that of two `show`s that have both counted.
ShowViewer(c) ==
    /\ at[c] = "view"
    /\ \/ /\ \E p \in Free : table' = [table EXCEPT ![p] = "viewer"]
          /\ at' = [at EXCEPT ![c] = "done"]
          /\ result' = [result EXCEPT ![c] = "ok"]
       \/ Return(c, "failed")
    /\ raced' = (raced \/ \E d \in Commands \ {c} : at[d] = "view")
    /\ UNCHANGED <<kind, first, looks, mine, targets, pidFile, fileVars, overtaken, spoiled>>

\* readers_of(): every process whose arguments name the viewer and the socket.
HideFind(c) ==
    /\ at[c] = "find"
    /\ targets' = [targets EXCEPT ![c] = Viewers]
    /\ Goto(c, "signal")
    /\ UNCHANGED <<kind, first, looks, mine, pidFile, fileVars, pastVars>>

\* SIGTERM to each; a viewer may take its time to end.
HideSignal(c) ==
    /\ at[c] = "signal"
    /\ \E gone \in SUBSET (targets[c] \cap Viewers) :
          table' = [p \in Pids |-> IF p \in gone THEN "none" ELSE table[p]]
    /\ at' = [at EXCEPT ![c] = "done"]
    /\ result' = [result EXCEPT ![c] = "ok"]
    /\ UNCHANGED <<kind, first, looks, mine, targets, pidFile, fileVars, pastVars>>

-----------------------------------------------------------------------------
(* Everything else on the host.                                            *)

\* QEMU takes the lock on its disk and starts to answer.
Boot(p) ==
    /\ table[p] = "booting"
    /\ \A q \in Pids : table[q] # "up"
    /\ table' = [table EXCEPT ![p] = "up"]
    /\ UNCHANGED <<cmdVars, pidFile, fileVars, pastVars>>

\* QEMU ends: the guest shut down, it crashed, or found its disk locked.  Its
\* pid stays taken until its parent ends.
VmEnds(p) ==
    /\ p \in Vms
    /\ table' = [table EXCEPT ![p] =
           IF \E c \in Commands : mine[c] = p /\ at[c] # "done" THEN "zombie" ELSE "none"]
    /\ UNCHANGED <<cmdVars, pidFile, fileVars, pastVars>>

\* A script starts the VM, which is not running, without a pid file.
OutsideStart(p) ==
    /\ p \in Free /\ Vms = {}
    /\ table' = [table EXCEPT ![p] = "booting"]
    /\ raced' = (raced \/ Launching # {})
    /\ overtaken' = (overtaken \/ Waiting # {})
    /\ UNCHANGED <<cmdVars, pidFile, fileVars, spoiled>>

\* Other processes come and go.  A pid is assumed not to be given away between
\* the two steps of hide().
OtherBegins(p) ==
    /\ p \in Free
    /\ \A c \in Commands : at[c] = "signal" => p \notin targets[c]
    /\ table' = [table EXCEPT ![p] = "other"]
    /\ UNCHANGED <<cmdVars, pidFile, fileVars, pastVars>>

OtherEnds(p) ==
    /\ table[p] \in {"other", "viewer"}
    /\ table' = [table EXCEPT ![p] = "none"]
    /\ UNCHANGED <<cmdVars, pidFile, fileVars, pastVars>>

-----------------------------------------------------------------------------
Step(c) ==
    \/ Begin(c) \/ LookAtPid(c) \/ Scan(c) \/ AskStatus(c)
    \/ PrepareDisk(c) \/ PrepareNvram(c) \/ CopyNvram(c)
    \/ Forget(c) \/ Spawn(c) \/ SpawnFails(c) \/ Record(c) \/ Powerdown(c)
    \/ ShowListening(c) \/ ShowCount(c) \/ ShowViewer(c)
    \/ HideFind(c) \/ HideSignal(c)

Host(p) == Boot(p) \/ VmEnds(p) \/ OutsideStart(p) \/ OtherBegins(p) \/ OtherEnds(p)

Next == (\E c \in Commands : Step(c)) \/ (\E p \in Pids : Host(p))

Spec == Init /\ [][Next]_vars

\* Commands are scheduled.  Nothing is assumed of QEMU or of other processes.
FairSpec == Spec /\ \A c \in Commands : WF_vars(Step(c))

-----------------------------------------------------------------------------
(* Properties.                                                             *)

TypeOK ==
    /\ kind \in [Commands -> Kinds]
    /\ at \in [Commands -> {"idle", "pid", "scan", "qmp", "disk", "nvram", "copying",
                            "forget", "spawn", "record", "powerdown", "listening",
                            "count", "view", "find", "signal", "done"}]
    /\ first \in [Commands -> BOOLEAN]
    /\ looks \in [Commands -> 0..MaxLooks]
    /\ mine \in [Commands -> Pids \cup {NoPid}]
    /\ targets \in [Commands -> SUBSET Pids]
    /\ result \in [Commands -> {"none", "ok", "already", "failed",
                                "stopped", "running", "unresponsive"}]
    /\ table \in [Pids -> {"none", "other", "booting", "up", "zombie", "viewer"}]
    /\ pidFile \in Pids \cup {NoPid}
    /\ disk \in {"absent", "part", "whole"} /\ nvram \in {"absent", "part", "whole"}
    /\ raced \in BOOLEAN /\ overtaken \in BOOLEAN /\ spoiled \in BOOLEAN

\* start() makes no second VM, whether or not the first has a pid file and
\* whatever the pid file says; only another launch that falls between its look
\* and its own launch can.
NoSecondVm == ~raced => Cardinality(Vms) <= 1

\* At most one viewer (show is "idempotent on purpose", display.rs:107), unless
\* two commands have counted before either has started one.
SingleViewer == ~raced => Cardinality(Viewers) <= 1

\* What `start` launches finds its disk and its variable store complete, unless
\* a prepare() had failed before or ran at the same time.
LaunchesOnWholeFiles ==
    [][\A c \in Commands : at[c] = "spawn" /\ at'[c] = "record" /\ ~raced /\ ~spoiled =>
           disk = "whole" /\ nvram = "whole"]_vars

\* "responsive" is said when the VM that was started is up, unless another was
\* launched during the wait; shutdown says the
\* VM is gone when none is running.
Truthful(c) ==
    result[c] = "none" /\ result'[c] = "ok" =>
        /\ kind[c] = "start" /\ ~raced /\ ~overtaken => table[mine[c]] = "up"
        /\ kind[c] = "shutdown" => Vms = {}

ReportsAreTrue == [][\A c \in Commands : Truthful(c)]_vars

\* Every command returns, whatever QEMU does.
CommandsReturn == \A c \in Commands : at[c] # "idle" ~> at[c] = "done"

\* supervisor.rs:8-13: a pid file that names a recycled pid is not believed.  A
\* start that is refused was refused because a VM ran.
RefusedMeansRunning ==
    [][\A c \in Commands : kind[c] = "start" /\ result[c] = "none" /\ result'[c] = "already"
           => Vms # {}]_vars
=============================================================================
