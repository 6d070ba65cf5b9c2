------------------------- MODULE VmSupervisor_proofs -------------------------
(***************************************************************************)
(* Proofs about VmSupervisor, for any set of commands, any set of pids and *)
(* any timeout.                                                            *)
(***************************************************************************)
EXTENDS VmSupervisor, FiniteSetTheorems, TLAPS

Preparing == {"disk", "nvram", "copying"}

Places == {"idle", "pid", "scan", "qmp", "disk", "nvram", "copying", "forget", "spawn",
           "record", "powerdown", "listening", "count", "view", "find", "signal", "done"}
Results == {"none", "ok", "already", "failed", "stopped", "running", "unresponsive"}
Programs == {"none", "other", "booting", "up", "zombie", "viewer"}

\* What a command is for decides where it can be, and which have acted.
Control ==
    \A c \in Commands :
        /\ at[c] \in {"pid", "scan", "qmp"} => kind[c] \in {"start", "status", "shutdown"}
        /\ at[c] \in Preparing => kind[c] \in {"start", "prepare"}
        /\ at[c] \in Preparing /\ kind[c] = "start" => first[c]
        /\ at[c] \in {"forget", "spawn"} => kind[c] = "start" /\ first[c]
        /\ at[c] = "record" => kind[c] = "start" /\ ~first[c]
        /\ at[c] = "powerdown" => kind[c] = "shutdown"
        /\ at[c] \in {"listening", "count", "view"} => kind[c] = "show"
        /\ at[c] \in {"find", "signal"} => kind[c] = "hide"
        /\ kind[c] = "start" /\ ~first[c] => mine[c] # NoPid
        /\ mine[c] # NoPid => ~first[c]
        /\ at[c] # "done" => looks[c] < MaxLooks

\* While a start is on its way from its look to its launch no VM runs, while it
\* waits only its own does; and the same for the viewers.
Machines ==
    /\ ~raced => \A p, q \in Vms : p = q
    /\ ~raced /\ Launching # {} => Vms = {}
    /\ ~raced /\ ~overtaken => \A c \in Waiting : \A p \in Vms : p = mine[c]
    /\ ~raced => \A p, q \in Viewers : p = q
    /\ ~raced /\ (\E c \in Commands : at[c] = "view") => Viewers = {}

\* What is there was made by a prepare() that succeeded, or is being made.
Made ==
    /\ disk # "part"
    /\ nvram = "part" => \E c \in Commands : at[c] = "copying"
    /\ \A c \in Commands : at[c] \in {"nvram", "copying", "forget", "spawn"} => disk = "whole"
    /\ \A c \in Commands : at[c] \in {"forget", "spawn"} => nvram = "whole"

IInv ==
    /\ TypeOK
    /\ Control
    /\ Machines
    /\ ~raced /\ ~spoiled => Made
-----------------------------------------------------------------------------
LEMMA TypeStep == ASSUME IInv, [Next]_vars PROVE TypeOK'
<1> USE VmAssumption DEF IInv, vars, cmdVars, fileVars, pastVars
<1>1. ASSUME NEW c \in Commands, Step(c) PROVE TypeOK'
  <2>1. CASE Begin(c)
    BY <2>1 DEF Begin, Goto, Return, Vms, Viewers, Free, TypeOK, Kinds, Control, Preparing
  <2>2. CASE LookAtPid(c)
    BY <2>2 DEF LookAtPid, Goto, Return, Vms, Viewers, Free, TypeOK, Kinds, Control,
       Preparing
  <2>3. CASE Scan(c)
    BY <2>3 DEF Scan, ScanWith, Conclude, ConcludeWith, Wanted, Late, Goto, Return, Vms,
       Viewers, Free, TypeOK, Kinds, Control, Preparing
  <2>4. CASE AskStatus(c)
    BY <2>4 DEF AskStatus, Conclude, ConcludeWith, Wanted, Late, Goto, Return, Vms,
       Viewers, Free, TypeOK, Kinds, Control, Preparing
  <2>5. CASE PrepareDisk(c)
    <3>1. disk' \in {"absent", "part", "whole"}
      BY <2>5 DEF PrepareDisk, TypeOK
    <3>2. raced' \in BOOLEAN /\ spoiled' \in BOOLEAN
      BY <2>5, Zenon DEF PrepareDisk, TypeOK
    <3>3. /\ at' \in [Commands -> Places]
          /\ result' \in [Commands -> Results]
          /\ table' \in [Pids -> Programs]
      BY <2>5 DEF PrepareDisk, Goto, Return, TypeOK, Places, Results, Programs
    <3> QED
      BY <2>5, <3>1, <3>2, <3>3 DEF PrepareDisk, TypeOK, Places, Results, Programs
  <2>6. CASE PrepareNvram(c)
    BY <2>6 DEF PrepareNvram, AfterPrepare, Goto, Return, Vms, Viewers, Free, TypeOK,
       Kinds, Control, Preparing
  <2>7. CASE CopyNvram(c)
    <3>1. nvram' \in {"absent", "part", "whole"}
      BY <2>7 DEF CopyNvram, CopyNvramWith, TypeOK
    <3>2. raced' \in BOOLEAN /\ spoiled' \in BOOLEAN
      BY <2>7 DEF CopyNvram, CopyNvramWith, AfterPrepare, TypeOK
    <3>3. /\ at' \in [Commands -> Places]
          /\ result' \in [Commands -> Results]
          /\ table' \in [Pids -> Programs]
      BY <2>7 DEF CopyNvram, CopyNvramWith, AfterPrepare, Goto, Return, TypeOK, Places,
         Results, Programs
    <3> QED
      BY <2>7, <3>1, <3>2, <3>3 DEF CopyNvram, CopyNvramWith, TypeOK, Places, Results,
         Programs
  <2>8. CASE Forget(c)
    BY <2>8 DEF Forget, Goto, Return, Vms, Viewers, Free, TypeOK, Kinds, Control, Preparing
  <2>9. CASE Spawn(c)
    BY <2>9 DEF Spawn, Goto, Return, Vms, Viewers, Free, TypeOK, Kinds, Control, Preparing
  <2>10. CASE SpawnFails(c)
    BY <2>10 DEF SpawnFails, Goto, Return, Vms, Viewers, Free, TypeOK, Kinds, Control,
       Preparing
  <2>11. CASE Record(c)
    BY <2>11 DEF Record, Goto, Return, Vms, Viewers, Free, TypeOK, Kinds, Control, Preparing
  <2>12. CASE Powerdown(c)
    BY <2>12 DEF Powerdown, Goto, Return, Vms, Viewers, Free, TypeOK, Kinds, Control,
       Preparing
  <2>13. CASE ShowListening(c)
    BY <2>13 DEF ShowListening, Goto, Return, Vms, Viewers, Free, TypeOK, Kinds, Control,
       Preparing
  <2>14. CASE ShowCount(c)
    BY <2>14 DEF ShowCount, ShowCountWith, Goto, Return, Vms, Viewers, Free, TypeOK,
       Kinds, Control, Preparing
  <2>15. CASE ShowViewer(c)
    BY <2>15 DEF ShowViewer, Goto, Return, Vms, Viewers, Free, TypeOK, Kinds, Control,
       Preparing
  <2>16. CASE HideFind(c)
    BY <2>16 DEF HideFind, Goto, Return, Vms, Viewers, Free, TypeOK, Kinds, Control,
       Preparing
  <2>17. CASE HideSignal(c)
    BY <2>17 DEF HideSignal, Goto, Return, Vms, Viewers, Free, TypeOK, Kinds, Control,
       Preparing
  <2> QED
    BY <1>1, <2>1, <2>2, <2>3, <2>4, <2>5, <2>6, <2>7, <2>8, <2>9, <2>10, <2>11,
       <2>12, <2>13, <2>14, <2>15, <2>16, <2>17
       DEF
       Step
<1>2. ASSUME NEW p \in Pids, Host(p) PROVE TypeOK'
  <2>1. CASE Boot(p)
    BY <2>1 DEF Boot, Vms, Viewers, Free, TypeOK, Kinds, Control, Preparing
  <2>2. CASE VmEnds(p)
    BY <2>2 DEF VmEnds, Vms, Viewers, Free, TypeOK, Kinds, Control, Preparing
  <2>3. CASE OutsideStart(p)
    BY <2>3 DEF OutsideStart, Vms, Viewers, Free, TypeOK, Kinds, Control, Preparing
  <2>4. CASE OtherBegins(p)
    BY <2>4 DEF OtherBegins, Vms, Viewers, Free, TypeOK, Kinds, Control, Preparing
  <2>5. CASE OtherEnds(p)
    BY <2>5 DEF OtherEnds, Vms, Viewers, Free, TypeOK, Kinds, Control, Preparing
  <2> QED
    BY <1>2, <2>1, <2>2, <2>3, <2>4, <2>5 DEF Host
<1>3. CASE UNCHANGED vars
  BY <1>3 DEF Vms, Viewers, Free, TypeOK, Kinds, Control, Preparing
<1> QED
  BY <1>1, <1>2, <1>3 DEF Next

LEMMA ControlStep == ASSUME IInv, [Next]_vars PROVE Control'
<1> USE VmAssumption DEF IInv, vars, cmdVars, fileVars, pastVars
<1>1. ASSUME NEW c \in Commands, Step(c) PROVE Control'
  <2>1. CASE Begin(c)
    BY <2>1 DEF Begin, Goto, Return, TypeOK, Kinds, Control, Preparing, Free
  <2>2. CASE LookAtPid(c)
    BY <2>2 DEF LookAtPid, Goto, Return, TypeOK, Kinds, Control, Preparing, Free
  <2>3. CASE Scan(c)
    BY <2>3 DEF Scan, ScanWith, Conclude, ConcludeWith, Wanted, Late, Goto, Return,
       TypeOK, Kinds, Control, Preparing, Free
  <2>4. CASE AskStatus(c)
    BY <2>4 DEF AskStatus, Conclude, ConcludeWith, Wanted, Late, Goto, Return, TypeOK,
       Kinds, Control, Preparing, Free
  <2>5. CASE PrepareDisk(c)
    BY <2>5 DEF PrepareDisk, Goto, Return, TypeOK, Kinds, Control, Preparing, Free
  <2>6. CASE PrepareNvram(c)
    BY <2>6 DEF PrepareNvram, AfterPrepare, Goto, Return, TypeOK, Kinds, Control,
       Preparing, Free
  <2>7. CASE CopyNvram(c)
    BY <2>7 DEF CopyNvram, CopyNvramWith, AfterPrepare, Goto, Return, TypeOK, Kinds,
       Control, Preparing, Free
  <2>8. CASE Forget(c)
    BY <2>8 DEF Forget, Goto, Return, TypeOK, Kinds, Control, Preparing, Free
  <2>9. CASE Spawn(c)
    BY <2>9 DEF Spawn, Goto, Return, TypeOK, Kinds, Control, Preparing, Free
  <2>10. CASE SpawnFails(c)
    BY <2>10 DEF SpawnFails, Goto, Return, TypeOK, Kinds, Control, Preparing, Free
  <2>11. CASE Record(c)
    BY <2>11 DEF Record, Goto, Return, TypeOK, Kinds, Control, Preparing, Free
  <2>12. CASE Powerdown(c)
    BY <2>12 DEF Powerdown, Goto, Return, TypeOK, Kinds, Control, Preparing, Free
  <2>13. CASE ShowListening(c)
    BY <2>13 DEF ShowListening, Goto, Return, TypeOK, Kinds, Control, Preparing, Free
  <2>14. CASE ShowCount(c)
    BY <2>14 DEF ShowCount, ShowCountWith, Goto, Return, TypeOK, Kinds, Control,
       Preparing, Free
  <2>15. CASE ShowViewer(c)
    BY <2>15 DEF ShowViewer, Goto, Return, TypeOK, Kinds, Control, Preparing, Free
  <2>16. CASE HideFind(c)
    BY <2>16 DEF HideFind, Goto, Return, TypeOK, Kinds, Control, Preparing, Free
  <2>17. CASE HideSignal(c)
    BY <2>17 DEF HideSignal, Goto, Return, TypeOK, Kinds, Control, Preparing, Free
  <2> QED
    BY <1>1, <2>1, <2>2, <2>3, <2>4, <2>5, <2>6, <2>7, <2>8, <2>9, <2>10, <2>11,
       <2>12, <2>13, <2>14, <2>15, <2>16, <2>17
       DEF
       Step
<1>2. ASSUME NEW p \in Pids, Host(p) PROVE Control'
  <2>1. CASE Boot(p)
    BY <2>1 DEF Boot, TypeOK, Kinds, Control, Preparing, Free
  <2>2. CASE VmEnds(p)
    BY <2>2 DEF VmEnds, TypeOK, Kinds, Control, Preparing, Free
  <2>3. CASE OutsideStart(p)
    BY <2>3 DEF OutsideStart, TypeOK, Kinds, Control, Preparing, Free
  <2>4. CASE OtherBegins(p)
    BY <2>4 DEF OtherBegins, TypeOK, Kinds, Control, Preparing, Free
  <2>5. CASE OtherEnds(p)
    BY <2>5 DEF OtherEnds, TypeOK, Kinds, Control, Preparing, Free
  <2> QED
    BY <1>2, <2>1, <2>2, <2>3, <2>4, <2>5 DEF Host
<1>3. CASE UNCHANGED vars
  BY <1>3 DEF TypeOK, Kinds, Control, Preparing, Free
<1> QED
  BY <1>1, <1>2, <1>3 DEF Next

LEMMA MachinesStep == ASSUME IInv, [Next]_vars PROVE Machines'
<1> USE VmAssumption DEF IInv, vars, cmdVars, fileVars, pastVars
<1>1. ASSUME NEW c \in Commands, Step(c) PROVE Machines'
  <2>1. CASE Begin(c)
    BY <2>1 DEF Begin, Goto, Return, TypeOK, Kinds, Control, Preparing, Machines, Vms,
       Viewers, Free, Launching, Waiting
  <2>2. CASE LookAtPid(c)
    BY <2>2 DEF LookAtPid, Goto, Return, TypeOK, Kinds, Control, Preparing, Machines, Vms,
       Viewers, Free, Launching, Waiting
  <2>3. CASE Scan(c)
    BY <2>3 DEF Scan, ScanWith, Conclude, ConcludeWith, Wanted, Late, Goto, Return,
       TypeOK, Kinds, Control, Preparing, Machines, Vms, Viewers, Free, Launching, Waiting
  <2>4. CASE AskStatus(c)
    BY <2>4 DEF AskStatus, Conclude, ConcludeWith, Wanted, Late, Goto, Return, TypeOK,
       Kinds, Control, Preparing, Machines, Vms, Viewers, Free, Launching, Waiting
  <2>5. CASE PrepareDisk(c)
    BY <2>5 DEF PrepareDisk, Goto, Return, TypeOK, Kinds, Control, Preparing, Machines,
       Vms, Viewers, Free, Launching, Waiting
  <2>6. CASE PrepareNvram(c)
    BY <2>6 DEF PrepareNvram, AfterPrepare, Goto, Return, TypeOK, Kinds, Control,
       Preparing, Machines, Vms, Viewers, Free, Launching, Waiting
  <2>7. CASE CopyNvram(c)
    BY <2>7 DEF CopyNvram, CopyNvramWith, AfterPrepare, Goto, Return, TypeOK, Kinds,
       Control, Preparing, Machines, Vms, Viewers, Free, Launching, Waiting
  <2>8. CASE Forget(c)
    BY <2>8 DEF Forget, Goto, Return, TypeOK, Kinds, Control, Preparing, Machines, Vms,
       Viewers, Free, Launching, Waiting
  <2>9. CASE Spawn(c)
    BY <2>9 DEF Spawn, Goto, Return, TypeOK, Kinds, Control, Preparing, Machines, Vms,
       Viewers, Free, Launching, Waiting
  <2>10. CASE SpawnFails(c)
    BY <2>10 DEF SpawnFails, Goto, Return, TypeOK, Kinds, Control, Preparing, Machines,
       Vms, Viewers, Free, Launching, Waiting
  <2>11. CASE Record(c)
    BY <2>11 DEF Record, Goto, Return, TypeOK, Kinds, Control, Preparing, Machines, Vms,
       Viewers, Free, Launching, Waiting
  <2>12. CASE Powerdown(c)
    BY <2>12 DEF Powerdown, Goto, Return, TypeOK, Kinds, Control, Preparing, Machines,
       Vms, Viewers, Free, Launching, Waiting
  <2>13. CASE ShowListening(c)
    BY <2>13 DEF ShowListening, Goto, Return, TypeOK, Kinds, Control, Preparing, Machines,
       Vms, Viewers, Free, Launching, Waiting
  <2>14. CASE ShowCount(c)
    BY <2>14 DEF ShowCount, ShowCountWith, Goto, Return, TypeOK, Kinds, Control,
       Preparing, Machines, Vms, Viewers, Free, Launching, Waiting
  <2>15. CASE ShowViewer(c)
    <3>1. Vms' = Vms /\ Launching' \subseteq Launching /\ Waiting' \subseteq Waiting
      BY <2>15 DEF ShowViewer, Return, TypeOK, Control, Vms, Free, Launching, Waiting
    <3>2. mine' = mine /\ overtaken' = overtaken /\ (raced => raced')
      BY <2>15 DEF ShowViewer
    <3>3. ASSUME ~raced'
          PROVE  /\ \A p, q \in Viewers' : p = q
                 /\ \A d \in Commands : at'[d] # "view"
      <4>1. Viewers = {} /\ \A d \in Commands \ {c} : at[d] # "view"
        BY <2>15, <3>3 DEF ShowViewer, Machines
      <4> QED
        BY <2>15, <4>1 DEF ShowViewer, Return, TypeOK, Viewers, Free
    <3> QED
      BY <3>1, <3>2, <3>3 DEF Machines
  <2>16. CASE HideFind(c)
    BY <2>16 DEF HideFind, Goto, Return, TypeOK, Kinds, Control, Preparing, Machines, Vms,
       Viewers, Free, Launching, Waiting
  <2>17. CASE HideSignal(c)
    BY <2>17 DEF HideSignal, Goto, Return, TypeOK, Kinds, Control, Preparing, Machines,
       Vms, Viewers, Free, Launching, Waiting
  <2> QED
    BY <1>1, <2>1, <2>2, <2>3, <2>4, <2>5, <2>6, <2>7, <2>8, <2>9, <2>10, <2>11,
       <2>12, <2>13, <2>14, <2>15, <2>16, <2>17
       DEF
       Step
<1>2. ASSUME NEW p \in Pids, Host(p) PROVE Machines'
  <2>1. CASE Boot(p)
    BY <2>1 DEF Boot, TypeOK, Kinds, Control, Preparing, Machines, Vms, Viewers, Free,
       Launching, Waiting
  <2>2. CASE VmEnds(p)
    BY <2>2 DEF VmEnds, TypeOK, Kinds, Control, Preparing, Machines, Vms, Viewers, Free,
       Launching, Waiting
  <2>3. CASE OutsideStart(p)
    <3>1. Viewers' = Viewers /\ Launching' = Launching /\ Waiting' = Waiting
      BY <2>3 DEF OutsideStart, TypeOK, Viewers, Free, Launching, Waiting
    <3>2. Vms' = {p}
      BY <2>3 DEF OutsideStart, TypeOK, Vms, Free
    <3>3. /\ raced => raced'
          /\ ~raced' => Launching = {}
          /\ ~overtaken' => Waiting = {}
      BY <2>3 DEF OutsideStart
    <3> QED
      BY <2>3, <3>1, <3>2, <3>3 DEF OutsideStart, Machines
  <2>4. CASE OtherBegins(p)
    BY <2>4 DEF OtherBegins, TypeOK, Kinds, Control, Preparing, Machines, Vms, Viewers,
       Free, Launching, Waiting
  <2>5. CASE OtherEnds(p)
    BY <2>5 DEF OtherEnds, TypeOK, Kinds, Control, Preparing, Machines, Vms, Viewers,
       Free, Launching, Waiting
  <2> QED
    BY <1>2, <2>1, <2>2, <2>3, <2>4, <2>5 DEF Host
<1>3. CASE UNCHANGED vars
  BY <1>3 DEF TypeOK, Kinds, Control, Preparing, Machines, Vms, Viewers, Free, Launching,
     Waiting
<1> QED
  BY <1>1, <1>2, <1>3 DEF Next

LEMMA MadeStep == ASSUME IInv, [Next]_vars, ~raced', ~spoiled' PROVE Made'
<1> USE VmAssumption DEF IInv, vars, cmdVars, fileVars, pastVars
<1>1. ASSUME NEW c \in Commands, Step(c) PROVE Made'
  <2>1. CASE Begin(c)
    BY <2>1 DEF Begin, Goto, Return, TypeOK, Kinds, Control, Preparing, Made, InPrepare
  <2>2. CASE LookAtPid(c)
    BY <2>2 DEF LookAtPid, Goto, Return, TypeOK, Kinds, Control, Preparing, Made, InPrepare
  <2>3. CASE Scan(c)
    BY <2>3 DEF Scan, ScanWith, Conclude, ConcludeWith, Wanted, Late, Goto, Return,
       TypeOK, Kinds, Control, Preparing, Made, InPrepare
  <2>4. CASE AskStatus(c)
    BY <2>4 DEF AskStatus, Conclude, ConcludeWith, Wanted, Late, Goto, Return, TypeOK,
       Kinds, Control, Preparing, Made, InPrepare
  <2>5. CASE PrepareDisk(c)
    BY <2>5 DEF PrepareDisk, Goto, Return, TypeOK, Kinds, Control, Preparing, Made,
       InPrepare
  <2>6. CASE PrepareNvram(c)
    BY <2>6 DEF PrepareNvram, AfterPrepare, Goto, Return, TypeOK, Kinds, Control,
       Preparing, Made, InPrepare
  <2>7. CASE CopyNvram(c)
    BY <2>7 DEF CopyNvram, CopyNvramWith, AfterPrepare, Goto, Return, TypeOK, Kinds,
       Control, Preparing, Made, InPrepare
  <2>8. CASE Forget(c)
    BY <2>8 DEF Forget, Goto, Return, TypeOK, Kinds, Control, Preparing, Made, InPrepare
  <2>9. CASE Spawn(c)
    BY <2>9 DEF Spawn, Goto, Return, TypeOK, Kinds, Control, Preparing, Made, InPrepare
  <2>10. CASE SpawnFails(c)
    BY <2>10 DEF SpawnFails, Goto, Return, TypeOK, Kinds, Control, Preparing, Made,
       InPrepare
  <2>11. CASE Record(c)
    BY <2>11 DEF Record, Goto, Return, TypeOK, Kinds, Control, Preparing, Made, InPrepare
  <2>12. CASE Powerdown(c)
    BY <2>12 DEF Powerdown, Goto, Return, TypeOK, Kinds, Control, Preparing, Made, InPrepare
  <2>13. CASE ShowListening(c)
    BY <2>13 DEF ShowListening, Goto, Return, TypeOK, Kinds, Control, Preparing, Made,
       InPrepare
  <2>14. CASE ShowCount(c)
    BY <2>14 DEF ShowCount, ShowCountWith, Goto, Return, TypeOK, Kinds, Control,
       Preparing, Made, InPrepare
  <2>15. CASE ShowViewer(c)
    BY <2>15 DEF ShowViewer, Goto, Return, TypeOK, Kinds, Control, Preparing, Made,
       InPrepare
  <2>16. CASE HideFind(c)
    BY <2>16 DEF HideFind, Goto, Return, TypeOK, Kinds, Control, Preparing, Made, InPrepare
  <2>17. CASE HideSignal(c)
    BY <2>17 DEF HideSignal, Goto, Return, TypeOK, Kinds, Control, Preparing, Made,
       InPrepare
  <2> QED
    BY <1>1, <2>1, <2>2, <2>3, <2>4, <2>5, <2>6, <2>7, <2>8, <2>9, <2>10, <2>11,
       <2>12, <2>13, <2>14, <2>15, <2>16, <2>17
       DEF
       Step
<1>2. ASSUME NEW p \in Pids, Host(p) PROVE Made'
  <2>1. CASE Boot(p)
    BY <2>1 DEF Boot, TypeOK, Kinds, Control, Preparing, Made, InPrepare
  <2>2. CASE VmEnds(p)
    BY <2>2 DEF VmEnds, TypeOK, Kinds, Control, Preparing, Made, InPrepare
  <2>3. CASE OutsideStart(p)
    BY <2>3 DEF OutsideStart, TypeOK, Kinds, Control, Preparing, Made, InPrepare
  <2>4. CASE OtherBegins(p)
    BY <2>4 DEF OtherBegins, TypeOK, Kinds, Control, Preparing, Made, InPrepare
  <2>5. CASE OtherEnds(p)
    BY <2>5 DEF OtherEnds, TypeOK, Kinds, Control, Preparing, Made, InPrepare
  <2> QED
    BY <1>2, <2>1, <2>2, <2>3, <2>4, <2>5 DEF Host
<1>3. CASE UNCHANGED vars
  BY <1>3 DEF TypeOK, Kinds, Control, Preparing, Made, InPrepare
<1> QED
  BY <1>1, <1>2, <1>3 DEF Next

-----------------------------------------------------------------------------
LEMMA InitIInv == Init => IInv
<1> SUFFICES ASSUME Init PROVE IInv
  OBVIOUS
<1> USE VmAssumption
<1>1. TypeOK
  <2>1. 0 \in 0..MaxLooks
    OBVIOUS
  <2>2. /\ at \in [Commands -> Places]
        /\ looks \in [Commands -> 0..MaxLooks]
        /\ result \in [Commands -> Results]
        /\ table \in [Pids -> Programs]
    BY <2>1 DEF Init, Places, Results, Programs
  <2> QED
    BY <2>2 DEF Init, TypeOK, Places, Results, Programs
<1>2. Control
  BY DEF Init, Control, Preparing
<1>3. Machines
  BY DEF Init, Machines, Vms, Viewers, Launching, Waiting
<1>4. Made
  BY DEF Init, Made
<1> QED
  BY <1>1, <1>2, <1>3, <1>4 DEF IInv

LEMMA StepIInv == IInv /\ [Next]_vars => IInv'
BY TypeStep, ControlStep, MachinesStep, MadeStep DEF IInv

LEMMA Invariant == Spec => []IInv
BY InitIInv, StepIInv, PTL DEF Spec

-----------------------------------------------------------------------------
\* Every reachable state is of its types.
THEOREM VmTypeCorrect == Spec => []TypeOK
<1>1. IInv => TypeOK
  BY DEF IInv
<1> QED
  BY <1>1, Invariant, PTL

\* At most one element in a finite set of pids, when any two are the same.
LEMMA AtMostOne ==
    ASSUME NEW S \in SUBSET Pids, \A p, q \in S : p = q
    PROVE  Cardinality(S) <= 1
<1>1. CASE S = {}
  BY <1>1, FS_EmptySet
<1>2. CASE S # {}
  <2>1. PICK p \in S : TRUE
    BY <1>2
  <2>2. S = {p}
    BY <2>1
  <2> QED
    BY <2>2, FS_Singleton
<1> QED
  BY <1>1, <1>2

\* However many commands run, and whatever pids are given away in between: start()
\* makes no second VM unless another launch fell into its own.
THEOREM VmNeverTwo == Spec => []NoSecondVm
<1>1. IInv => NoSecondVm
  <2> SUFFICES ASSUME IInv, ~raced PROVE Cardinality(Vms) <= 1
    BY DEF NoSecondVm
  <2>1. Vms \in SUBSET Pids /\ \A p, q \in Vms : p = q
    BY DEF IInv, Machines, Vms
  <2> QED
    BY <2>1, AtMostOne
<1> QED
  BY <1>1, Invariant, PTL

\* However many commands run, show() opens no second viewer unless two of them
\* have counted before either has started one.
THEOREM VmSingleViewer == Spec => []SingleViewer
<1>1. IInv => SingleViewer
  <2> SUFFICES ASSUME IInv, ~raced PROVE Cardinality(Viewers) <= 1
    BY DEF SingleViewer
  <2>1. Viewers \in SUBSET Pids /\ \A p, q \in Viewers : p = q
    BY DEF IInv, Machines, Viewers
  <2> QED
    BY <2>1, AtMostOne
<1> QED
  BY <1>1, Invariant, PTL

-----------------------------------------------------------------------------
\* What start() launches finds its disk and its variable store complete, unless a
\* prepare() had failed before or ran at the same time.
THEOREM VmLaunchesOnWholeFiles == Spec => LaunchesOnWholeFiles
<1> DEFINE Launched(c) == at[c] = "spawn" /\ at'[c] = "record" /\ ~raced /\ ~spoiled
<1>1. IInv /\ [Next]_vars =>
        [\A c \in Commands : Launched(c) => disk = "whole" /\ nvram = "whole"]_vars
  BY DEF IInv, Made
<1> QED
  BY <1>1, Invariant, PTL DEF Spec, LaunchesOnWholeFiles

\* What start() and shutdown() report is so at the moment they report it.
THEOREM VmReportsAreTrue == Spec => ReportsAreTrue
<1>1. IInv /\ [Next]_vars => [\A c \in Commands : Truthful(c)]_vars
  <2> SUFFICES ASSUME IInv, Next, NEW c \in Commands,
                      result[c] = "none", result'[c] = "ok"
               PROVE  /\ kind[c] = "start" /\ ~raced /\ ~overtaken => table[mine[c]] = "up"
                      /\ kind[c] = "shutdown" => Vms = {}
    BY DEF Truthful
  <2> USE DEF IInv, TypeOK
  <2>1. PICK d \in Commands : Step(d)
    BY DEF Next, Host, Boot, VmEnds, OutsideStart, OtherBegins, OtherEnds, cmdVars
  <2>2. ASSUME Begin(d) \/ LookAtPid(d) \/ Forget(d) \/ Spawn(d) \/ HideFind(d) PROVE FALSE
    BY <2>2 DEF Begin, LookAtPid, Forget, Spawn, HideFind, Goto
  <2>3. ASSUME \/ PrepareDisk(d) \/ SpawnFails(d) \/ Record(d) \/ Powerdown(d)
               \/ ShowListening(d) \/ ShowCount(d)
        PROVE  FALSE
    BY <2>3 DEF PrepareDisk, SpawnFails, Record, Powerdown, ShowListening, ShowCount,
                ShowCountWith, Goto, Return
  <2>4. CASE Scan(d)
    BY <2>4 DEF Scan, ScanWith, Conclude, ConcludeWith, Wanted, Goto, Return
  <2>5. CASE AskStatus(d)
    <3>1. c = d /\ kind[c] # "shutdown" /\ (kind[c] = "start" => ~first[c])
      BY <2>5 DEF AskStatus, Conclude, ConcludeWith, Wanted, Goto, Return
    <3>2. kind[c] = "start" => \E p \in Pids : table[p] = "up"
      BY <2>5, <3>1 DEF AskStatus, Conclude, ConcludeWith, Wanted, Goto, Return
    <3>3. at[c] # "done" /\ (kind[c] = "start" => mine[c] # NoPid)
      BY <2>5, <3>1 DEF AskStatus, Control
    <3> QED
      BY <3>1, <3>2, <3>3 DEF Machines, Waiting, Vms
  <2>6. CASE PrepareNvram(d) \/ CopyNvram(d)
    BY <2>6 DEF PrepareNvram, CopyNvram, CopyNvramWith, AfterPrepare, Goto, Return,
       Control, Preparing
  <2>7. CASE ShowViewer(d) \/ HideSignal(d)
    BY <2>7 DEF ShowViewer, HideSignal, Return, Control
  <2> QED
    BY <2>1, <2>2, <2>3, <2>4, <2>5, <2>6, <2>7 DEF Step
<1> QED
  BY <1>1, Invariant, PTL DEF Spec, ReportsAreTrue
==============================================================================
