-------------------------- MODULE Snapshots_proofs --------------------------
(***************************************************************************)
(* Proofs about Snapshots, for any set of processes and any set of tags.   *)
(* Wire says what a connection can hold; Jobs whose QEMU's jobs are; and   *)
(* Own what the process that is connected can rely on.                     *)
(***************************************************************************)
EXTENDS Snapshots, TLAPS

Has(s, m) == \E i \in 1..Len(s) : s[i] = m

\* The place of a command in the script of an action, 0 for one it never sends.
PlaceOf(o, c) ==
    CASE o = "save" /\ c = "list"      -> 1
      [] o = "save" /\ c = "delete"    -> 2
      [] o = "save" /\ c = "save"      -> 3
      [] o = "save" /\ c = "jobs"      -> 5
      [] o = "save" /\ c = "confirm"   -> 6
      [] o = "restore" /\ c = "load"   -> 1
      [] o = "restore" /\ c = "jobs"   -> 3
      [] o = "delete" /\ c = "delete"  -> 1
      [] o = "suspend" /\ c = "save"   -> 1
      [] OTHER                         -> 0

Statuses == {"none", "running", "good", "bad"}

Scripted(o) == o \in {"save", "restore"}

\* Where an action waits for its job.
AwaitStep(o) == IF o = "save" THEN 4 ELSE 2

Concluded(i) == job[i].status \in {"good", "bad"}

Event(i) == Message("event", {i})

Place(i) == PlaceOf(op[monitor], toQemu[i])

\* The commands under way are in the order of the script, up to the step of it.
InOrder ==
    /\ \A i \in 1..Len(toQemu) :
          /\ 1 <= Place(i) /\ Place(i) <= step[monitor]
          /\ Place(i) = step[monitor] => waiting[monitor]
    /\ \A i, j \in 1..Len(toQemu) : i < j => Place(i) < Place(j)

\* One process is connected, and only what it has sent is under way.
Wire ==
    /\ \A r \in Runs : phase[r] = "running" <=> monitor = r
    /\ \A r \in Runs : phase[r] = "new" => step[r] = 1
    /\ \A r \in Runs : waiting[r] => phase[r] = "running" /\ Doing(r) # "await"
    /\ monitor = Nothing => toQemu = <<>> /\ fromQemu = <<>> /\ pending = <<>> /\ ~owed
    /\ monitor \in Runs => InOrder

\* A job belongs to the process that started it, and does what that was asked to do.
Jobs ==
    \A i \in JobIds : job[i].status # "none" =>
        LET r == job[i].of IN
        /\ r \in Runs /\ i = JobId(r) /\ phase[r] # "new"
        /\ op[r] \in {"save", "restore", "suspend"}
        /\ job[i].tag = tag[r]
        /\ op[r] = "save" => job[i].kind = "save"

\* An event is only ever about a job that has ended.
Events ==
    \A i \in JobIds : Has(fromQemu, Event(i)) \/ Has(pending, Event(i)) => Concluded(i)

\* r has got as far as starting its job, and will delete no snapshot any more.
Started(r) ==
    job[r].status # "none" => step[r] >= AwaitStep(op[r]) - 1 /\ ~Has(toQemu, "delete")

Announced(r) ==
    Concluded(r) /\ step[r] <= AwaitStep(op[r]) =>
        Has(pending, Event(r)) \/ Has(fromQemu, Event(r))

Awaited(r) == step[r] > AwaitStep(op[r]) => Concluded(r)

\* A table of jobs that r has asked for tells how its job has ended.
Tabled(r) ==
    \A m \in Messages : Has(fromQemu, m) /\ m.kind = "jobs" =>
        Concluded(r) /\ \A s \in Statuses : <<r, s>> \in m.val => s = job[r].status

Confirmed(r) == op[r] = "save" /\ step[r] = 6 => job[r].status = "good"

Stored(r) == op[r] = "save" /\ job[r].status = "good" => disk[tag[r]] = r

OwnOf(r) ==
    Started(r) /\ Announced(r) /\ Awaited(r) /\ Tabled(r) /\ Confirmed(r) /\ Stored(r)

Own == \A r \in Runs : phase[r] = "running" /\ Scripted(op[r]) => OwnOf(r)

IInv == TypeOK /\ Wire /\ Jobs /\ Events /\ Own

-----------------------------------------------------------------------------
(* Sequences.                                                              *)

LEMMA HasAppend ==
    ASSUME NEW S, NEW s \in Seq(S), NEW x \in S, NEW m
    PROVE  Has(Append(s, x), m) <=> Has(s, m) \/ m = x
<1>1. /\ Append(s, x) \in Seq(S) /\ Len(Append(s, x)) = Len(s) + 1
      /\ \A i \in 1..Len(s) : Append(s, x)[i] = s[i]
      /\ Append(s, x)[Len(s) + 1] = x
  OBVIOUS
<1>2. 1..(Len(s) + 1) = (1..Len(s)) \cup {Len(s) + 1}
  OBVIOUS
<1> QED
  BY <1>1, <1>2 DEF Has

LEMMA HasTail ==
    ASSUME NEW S, NEW s \in Seq(S), s # <<>>, NEW m
    PROVE  Has(s, m) <=> m = Head(s) \/ Has(Tail(s), m)
<1>1. /\ Len(s) \in Nat \ {0} /\ Len(Tail(s)) = Len(s) - 1 /\ Head(s) = s[1]
      /\ \A i \in 1..(Len(s) - 1) : Tail(s)[i] = s[i + 1]
  OBVIOUS
<1>2. ASSUME Has(s, m) PROVE m = Head(s) \/ Has(Tail(s), m)
  <2>1. PICK i \in 1..Len(s) : s[i] = m
    BY <1>2 DEF Has
  <2>2. CASE i = 1
    BY <1>1, <2>1, <2>2
  <2>3. CASE i # 1
    <3>1. i - 1 \in 1..(Len(s) - 1) /\ s[(i - 1) + 1] = m
      BY <1>1, <2>1, <2>3
    <3> QED
      BY <1>1, <3>1 DEF Has
  <2> QED
    BY <2>2, <2>3
<1>3. ASSUME Has(Tail(s), m) PROVE Has(s, m)
  <2>1. PICK i \in 1..(Len(s) - 1) : s[i + 1] = m
    BY <1>1, <1>3 DEF Has
  <2>2. i + 1 \in 1..Len(s)
    BY <1>1
  <2> QED
    BY <2>1, <2>2 DEF Has
<1>4. m = Head(s) => Has(s, m)
  BY <1>1 DEF Has
<1> QED
  BY <1>2, <1>3, <1>4

LEMMA HasGarbled ==
    ASSUME NEW S, NEW s \in Seq(S), s # <<>>, NEW g \in S, NEW m, Has(<<g>> \o Tail(s), m)
    PROVE  m = g \/ Has(s, m)
<1> DEFINE t == <<g>> \o Tail(s)
<1>1. /\ Tail(s) \in Seq(S) /\ <<g>> \in Seq(S) /\ Len(<<g>>) = 1
      /\ Len(t) = 1 + Len(Tail(s)) /\ t[1] = g
      /\ \A i \in 1..Len(Tail(s)) : t[i + 1] = Tail(s)[i]
  OBVIOUS
<1>2. PICK i \in 1..Len(t) : t[i] = m
  BY DEF Has
<1> HIDE DEF t
<1>3. CASE i = 1
  BY <1>1, <1>2, <1>3
<1>4. CASE i # 1
  <2>1. i - 1 \in 1..Len(Tail(s)) /\ t[(i - 1) + 1] = m
    BY <1>1, <1>2, <1>4
  <2>2. Has(Tail(s), m)
    BY <1>1, <2>1 DEF Has
  <2> QED
    BY <2>2, HasTail
<1> QED
  BY <1>3, <1>4

LEMMA HasNone == \A m : ~Has(<<>>, m)
BY DEF Has

-----------------------------------------------------------------------------
(* What each step of a script does.                                        *)

LEMMA Doings ==
    ASSUME TypeOK, NEW r \in Runs
    PROVE  /\ op[r] = "save" =>
                 /\ step[r] \in 1..6 /\ Len(Script(op[r])) = 6
                 /\ step[r] = 1 => Doing(r) = "list"
                 /\ step[r] = 2 => Doing(r) = "delete"
                 /\ step[r] = 3 => Doing(r) = "save"
                 /\ step[r] = 4 => Doing(r) = "await"
                 /\ step[r] = 5 => Doing(r) = "jobs"
                 /\ step[r] = 6 => Doing(r) = "confirm"
           /\ op[r] = "restore" =>
                 /\ step[r] \in 1..3 /\ Len(Script(op[r])) = 3
                 /\ step[r] = 1 => Doing(r) = "load"
                 /\ step[r] = 2 => Doing(r) = "await"
                 /\ step[r] = 3 => Doing(r) = "jobs"
           /\ op[r] = "delete" =>
                 step[r] = 1 /\ Len(Script(op[r])) = 1 /\ Doing(r) = "delete"
           /\ op[r] = "suspend" =>
                 step[r] = 1 /\ Len(Script(op[r])) = 1 /\ Doing(r) = "save"
<1>1. step[r] \in 1..Len(Script(op[r]))
  BY DEF TypeOK
<1>2. CASE op[r] = "save"
  <2>1. Script(op[r]) = <<"list", "delete", "save", "await", "jobs", "confirm">>
    BY <1>2 DEF Script
  <2>2. Len(Script(op[r])) = 6 /\ step[r] \in 1..6
    BY <1>1, <2>1
  <2>3. Doing(r) = <<"list", "delete", "save", "await", "jobs", "confirm">>[step[r]]
    BY <2>1 DEF Doing
  <2> QED
    BY <1>2, <2>2, <2>3
<1>3. CASE op[r] = "restore"
  <2>1. Script(op[r]) = <<"load", "await", "jobs">>
    BY <1>3 DEF Script
  <2>2. Len(Script(op[r])) = 3 /\ step[r] \in 1..3
    BY <1>1, <2>1
  <2>3. Doing(r) = <<"load", "await", "jobs">>[step[r]]
    BY <2>1 DEF Doing
  <2> QED
    BY <1>3, <2>2, <2>3
<1>4. CASE op[r] = "delete"
  <2>1. Script(op[r]) = <<"delete">>
    BY <1>4 DEF Script
  <2>2. Len(Script(op[r])) = 1 /\ step[r] \in 1..1
    BY <1>1, <2>1
  <2>3. Doing(r) = <<"delete">>[step[r]]
    BY <2>1 DEF Doing
  <2> QED
    BY <1>4, <2>2, <2>3
<1>5. CASE op[r] = "suspend"
  <2>1. Script(op[r]) = <<"save">>
    BY <1>5 DEF Script
  <2>2. Len(Script(op[r])) = 1 /\ step[r] \in 1..1
    BY <1>1, <2>1
  <2>3. Doing(r) = <<"save">>[step[r]]
    BY <2>1 DEF Doing
  <2> QED
    BY <1>5, <2>2, <2>3
<1> QED
  BY <1>2, <1>3, <1>4, <1>5 DEF TypeOK

LEMMA Placed ==
    ASSUME TypeOK, NEW r \in Runs, Doing(r) # "await"
    PROVE  PlaceOf(op[r], Doing(r)) = step[r] /\ Doing(r) \in Commands
<1>1. op[r] \in {"save", "restore", "delete", "suspend"}
  BY DEF TypeOK
<1>2. CASE op[r] = "save"
  BY <1>2, Doings DEF PlaceOf, Commands
<1>3. CASE op[r] = "restore"
  BY <1>3, Doings DEF PlaceOf, Commands
<1>4. CASE op[r] \in {"delete", "suspend"}
  BY <1>4, Doings DEF PlaceOf, Commands
<1> QED
  BY <1>1, <1>2, <1>3, <1>4

-----------------------------------------------------------------------------
(* A process reads: it ends, or it goes on with what it has not read.      *)

Garbage == Message("garbage", {})

\* The reply to query-jobs with which await_job is content.
Content(r) == \E m \in Messages : Has(fromQemu, m) /\ JobSucceeded(r, m)

HasEvent(i) == Has(pending, Event(i)) \/ Has(fromQemu, Event(i))

Proceeds(r) ==
    /\ step[r] < Len(Script(op[r]))
    /\ step' = [step EXCEPT ![r] = @ + 1]
    /\ waiting' = [waiting EXCEPT ![r] = FALSE]
    /\ Doing(r) = "await" => HasEvent(JobId(r))
    /\ Doing(r) = "jobs" => Content(r)

Reads(r) ==
    /\ UNCHANGED <<phase, monitor, toQemu, owed>>
    /\ UNCHANGED <<step, waiting>> \/ Proceeds(r)
    /\ fromQemu' \in Seq(Messages) /\ pending' \in Seq(Messages)
    /\ \A m : Has(fromQemu', m) => Has(fromQemu, m) \/ m = Garbage
    /\ \A m : Has(pending', m) => Has(pending, m) \/ Has(fromQemu, m)
    /\ HasEvent(JobId(r)) =>
          \/ Tolerant(r)
          \/ Proceeds(r) /\ Doing(r) = "await"
          \/ Has(pending', Event(JobId(r))) \/ Has(fromQemu', Event(JobId(r)))

Succeeds(r) ==
    /\ End(r, "ok")
    /\ step[r] = Len(Script(op[r]))
    /\ Doing(r) = "jobs" => Content(r)

ReadsOrEnds(r) ==
    /\ phase[r] = "running"
    /\ UNCHANGED <<op, tag, job, disk>>
    /\ End(r, "failed") \/ End(r, "killed") \/ Succeeds(r) \/ Reads(r)

LEMMA TolerantProceeds ==
    ASSUME TypeOK, NEW r \in Runs, Tolerant(r)
    PROVE  /\ step[r] < Len(Script(op[r])) /\ step[r] # Len(Script(op[r]))
           /\ Doing(r) \in {"list", "delete"}
<1>1. op[r] = "save" /\ step[r] \in {1, 2}
  BY DEF Tolerant
<1> DEFINE n == Len(Script(op[r]))
<1>2. n = 6 /\ Doing(r) \in {"list", "delete"}
  BY <1>1, Doings
<1> HIDE DEF n
<1>3. step[r] < n /\ step[r] # n
  BY <1>1, <1>2
<1> QED
  BY <1>2, <1>3 DEF n

LEMMA AwaitNotLast ==
    ASSUME TypeOK, NEW r \in Runs, Doing(r) = "await"
    PROVE  step[r] < Len(Script(op[r])) /\ step[r] # Len(Script(op[r]))
<1> DEFINE n == Len(Script(op[r]))
<1>1. (step[r] = 4 /\ n = 6) \/ (step[r] = 2 /\ n = 3)
  <2>1. CASE op[r] = "save"
    BY <2>1, Doings
  <2>2. CASE op[r] = "restore"
    BY <2>2, Doings
  <2>3. CASE op[r] \in {"delete", "suspend"}
    BY <2>3, Doings
  <2> QED
    BY <2>1, <2>2, <2>3 DEF TypeOK
<1> HIDE DEF n
<1>2. step[r] < n /\ step[r] # n
  BY <1>1
<1> QED
  BY <1>2 DEF n

LEMMA ReadMessageShape ==
    ASSUME TypeOK, NEW r \in Runs, Doing(r) # "await", ReadMessage(r)
    PROVE  ReadsOrEnds(r)
<1> DEFINE m == Head(fromQemu)
           rest == Tail(fromQemu)
<1> USE DEF TypeOK
<1>1. /\ phase[r] = "running" /\ fromQemu # <<>> /\ UNCHANGED <<op, tag, job, disk>>
      /\ fromQemu \in Seq(Messages) /\ pending \in Seq(Messages)
      /\ m \in Messages /\ rest \in Seq(Messages)
  BY DEF ReadMessage, ReadMessageKeeping
<1>2. \A x : Has(fromQemu, x) <=> x = m \/ Has(rest, x)
  BY <1>1, HasTail
<1>3. CASE /\ m.kind = "event"
           /\ fromQemu' = rest
           /\ pending' = Append(pending, m)
           /\ UNCHANGED <<phase, step, waiting, monitor, toQemu, owed>>
  <2>1. \A x : Has(pending', x) <=> Has(pending, x) \/ x = m
    BY <1>1, <1>3, HasAppend
  <2>2. pending' \in Seq(Messages)
    BY <1>1, <1>3
  <2>3. Reads(r)
    BY <1>1, <1>2, <1>3, <2>1, <2>2 DEF Reads, HasEvent
  <2> QED
    BY <1>1, <2>3 DEF ReadsOrEnds
<1>4. CASE m.kind # "event" /\ Accepts(r, m) /\ Advance(r, rest, pending)
  <2>1. Doing(r) = "jobs" => Content(r)
    BY <1>1, <1>2, <1>4 DEF Accepts, Judge, Content
  <2>2. CASE step[r] = Len(Script(op[r]))
    BY <1>1, <1>4, <2>1, <2>2 DEF Advance, AdvanceUnless, ReadsOrEnds, Succeeds
  <2>3. CASE step[r] # Len(Script(op[r]))
    <3>1. step[r] < Len(Script(op[r]))
      BY <2>3, Doings
    <3>2. Event(JobId(r)) # m
      BY <1>4 DEF Event, Message
    <3>3. /\ fromQemu' = rest /\ pending' = pending
          /\ Proceeds(r) /\ UNCHANGED <<phase, monitor, toQemu, owed>>
      BY <1>4, <2>1, <2>3, <3>1 DEF Advance, AdvanceUnless, Proceeds
    <3>4. Reads(r)
      BY <1>1, <1>2, <3>2, <3>3 DEF Reads, HasEvent
    <3> QED
      BY <1>1, <3>4 DEF ReadsOrEnds
  <2> QED
    BY <2>2, <2>3
<1>5. CASE m.kind # "event" /\ ~Accepts(r, m) /\ Err(r, rest)
  <2>1. CASE ~Tolerant(r)
    BY <1>1, <1>5, <2>1 DEF Err, ReadsOrEnds
  <2>2. CASE Tolerant(r)
    <3>1. /\ fromQemu' = rest /\ pending' = pending
          /\ Proceeds(r) /\ UNCHANGED <<phase, monitor, toQemu, owed>>
      BY <1>5, <2>2, TolerantProceeds DEF Err, Advance, AdvanceUnless, Proceeds
    <3>2. Reads(r)
      BY <1>1, <1>2, <2>2, <3>1 DEF Reads, HasEvent
    <3> QED
      BY <1>1, <3>2 DEF ReadsOrEnds
  <2> QED
    BY <2>1, <2>2
<1> QED
  BY <1>3, <1>4, <1>5 DEF ReadMessage, ReadMessageKeeping

LEMMA AwaitJobShape ==
    ASSUME TypeOK, NEW r \in Runs, AwaitJob(r)
    PROVE  ReadsOrEnds(r)
<1> DEFINE queued == pending # <<>>
           m == IF queued THEN Head(pending) ELSE Head(fromQemu)
           rest == IF queued THEN fromQemu ELSE Tail(fromQemu)
           events == IF queued THEN Tail(pending) ELSE pending
<1> USE DEF TypeOK
<1>1. /\ phase[r] = "running" /\ Doing(r) = "await" /\ UNCHANGED <<op, tag, job, disk>>
      /\ pending # <<>> \/ fromQemu # <<>>
  BY DEF AwaitJob
<1>2. rest \in Seq(Messages) /\ events \in Seq(Messages)
  BY <1>1
<1>3. \A x : Has(pending, x) \/ Has(fromQemu, x) <=>
             x = m \/ Has(rest, x) \/ Has(events, x)
  BY <1>1, HasTail, HasNone
<1>4. /\ \A x : Has(rest, x) => Has(fromQemu, x)
      /\ \A x : Has(events, x) => Has(pending, x)
  BY <1>1, HasTail
<1>5. \/ m = Event(JobId(r)) /\ Advance(r, rest, events)
      \/ m.kind = "garbage" /\ End(r, "failed")
      \/ /\ m # Event(JobId(r))
         /\ fromQemu' = rest
         /\ pending' = events
         /\ UNCHANGED <<phase, step, waiting, monitor, toQemu, owed>>
  BY DEF AwaitJob, Event
<1> HIDE DEF m, rest, events, queued
<1>6. CASE m = Event(JobId(r)) /\ Advance(r, rest, events)
  <2>1. step[r] < Len(Script(op[r])) /\ step[r] # Len(Script(op[r]))
    BY <1>1, AwaitNotLast
  <2>2. HasEvent(JobId(r))
    BY <1>3, <1>6 DEF HasEvent
  <2>3. /\ fromQemu' = rest /\ pending' = events
        /\ Proceeds(r) /\ UNCHANGED <<phase, monitor, toQemu, owed>>
    BY <1>1, <1>6, <2>1, <2>2 DEF Advance, AdvanceUnless, Proceeds
  <2>4. Reads(r)
    BY <1>1, <1>2, <1>4, <2>3 DEF Reads
  <2> QED
    BY <1>1, <2>4 DEF ReadsOrEnds
<1>7. CASE m.kind = "garbage" /\ End(r, "failed")
  BY <1>1, <1>7 DEF ReadsOrEnds
<1>8. CASE /\ m # Event(JobId(r))
           /\ fromQemu' = rest
           /\ pending' = events
           /\ UNCHANGED <<phase, step, waiting, monitor, toQemu, owed>>
  <2>1. Reads(r)
    BY <1>1, <1>2, <1>3, <1>4, <1>8 DEF Reads, HasEvent
  <2> QED
    BY <1>1, <2>1 DEF ReadsOrEnds
<1> QED
  BY <1>5, <1>6, <1>7, <1>8

LEMMA TimesOutShape ==
    ASSUME TypeOK, NEW r \in Runs, TimesOut(r)
    PROVE  ReadsOrEnds(r)
<1> USE DEF TypeOK
<1>1. phase[r] = "running" /\ UNCHANGED <<op, tag, job, disk>>
  BY DEF TimesOut, TimesOutWhen
<1>2. PICK rest \in {fromQemu} \cup {<<Garbage>> \o Tail(s) : s \in {fromQemu} \ {<<>>}} :
         IF Doing(r) = "await" THEN End(r, "failed") ELSE Err(r, rest)
  BY DEF TimesOut, TimesOutWhen, Garbage
<1>3. Garbage \in Messages
  BY DEF Garbage, Message, Messages
<1>4. /\ rest \in Seq(Messages)
      /\ \A x : Has(rest, x) => Has(fromQemu, x) \/ x = Garbage
  <2>1. CASE rest = fromQemu
    BY <2>1
  <2>2. CASE fromQemu # <<>> /\ rest = <<Garbage>> \o Tail(fromQemu)
    <3>1. rest \in Seq(Messages)
      BY <1>3, <2>2
    <3>2. \A x : Has(rest, x) => Has(fromQemu, x) \/ x = Garbage
      BY <1>3, <2>2, HasGarbled
    <3> QED
      BY <3>1, <3>2
  <2> QED
    BY <1>2, <2>1, <2>2
<1>5. CASE End(r, "failed")
  BY <1>1, <1>5 DEF ReadsOrEnds
<1>6. CASE Doing(r) # "await" /\ Tolerant(r)
  <2>1. /\ fromQemu' = rest /\ pending' = pending
        /\ Proceeds(r) /\ UNCHANGED <<phase, monitor, toQemu, owed>>
    BY <1>2, <1>6, TolerantProceeds DEF Err, Advance, AdvanceUnless, Proceeds
  <2>2. Reads(r)
    BY <1>4, <1>6, <2>1 DEF Reads
  <2> QED
    BY <1>1, <2>2 DEF ReadsOrEnds
<1> QED
  BY <1>2, <1>5, <1>6 DEF Err

LEMMA KilledShape ==
    ASSUME NEW r \in Runs, Killed(r)
    PROVE  ReadsOrEnds(r)
BY DEF Killed, ReadsOrEnds

\* Every step is one of these.
LEMMA Steps ==
    ASSUME TypeOK, Wire, [Next]_vars
    PROVE  \/ UNCHANGED vars
           \/ \E r \in Runs : Connect(r) \/ Write(r) \/ ReadsOrEnds(r)
           \/ Execute \/ ReplyOwed
           \/ \E i \in JobIds : Conclude(i)
<1>1. ASSUME NEW r \in Runs, ReadMessage(r)
      PROVE  ReadsOrEnds(r)
  <2>1. Doing(r) # "await"
    BY <1>1 DEF ReadMessage, ReadMessageKeeping, Wire
  <2> QED
    BY <1>1, <2>1, ReadMessageShape
<1> QED
  BY <1>1, AwaitJobShape, TimesOutShape, KilledShape DEF Next, ClientStep

-----------------------------------------------------------------------------
(* Types.                                                                  *)

LEMMA ReplyTypes ==
    ASSUME TypeOK
    PROVE  /\ Empty \in Messages /\ Message("error", {}) \in Messages
           /\ Message("tags", {t \in Tags : Exists(t)}) \in Messages
           /\ Message("jobs", {<<i, job[i].status>> : i \in JobIds}) \in Messages
           /\ \A i \in JobIds : Event(i) \in Messages
<1>1. Empty \in Messages /\ Message("error", {}) \in Messages
  BY DEF Empty, Message, Messages
<1>2. Message("tags", {t \in Tags : Exists(t)}) \in [kind : {"tags"}, val : SUBSET Tags]
  BY DEF Message
<1>3. {<<i, job[i].status>> : i \in JobIds} \in
         SUBSET (JobIds \X {"none", "running", "good", "bad"})
  BY DEF TypeOK
<1>4. Message("jobs", {<<i, job[i].status>> : i \in JobIds}) \in
         [kind : {"jobs"}, val : SUBSET (JobIds \X {"none", "running", "good", "bad"})]
  BY <1>3 DEF Message
<1>5. \A i \in JobIds : Event(i) \in [kind : {"event"}, val : {{j} : j \in JobIds}]
  BY DEF Event, Message
<1> QED
  BY <1>1, <1>2, <1>4, <1>5 DEF Messages

\* The cases of Execute.
ListCase ==
    /\ Head(toQemu) \in {"list", "confirm"}
    /\ Reply(Message("tags", {t \in Tags : Exists(t)}))
    /\ UNCHANGED <<owed, job, disk>>

JobsCase ==
    /\ Head(toQemu) = "jobs"
    /\ Reply(Message("jobs", {<<i, job[i].status>> : i \in JobIds}))
    /\ UNCHANGED <<owed, job, disk>>

DeleteCase(r) ==
    /\ Head(toQemu) = "delete"
    /\ Reply(Empty)
    /\ disk' = [disk EXCEPT ![tag[r]] = Nothing]
    /\ UNCHANGED <<owed, job>>

ErrorCase ==
    /\ Reply(Message("error", {}))
    /\ UNCHANGED <<owed, job, disk>>

StartCase(r) ==
    /\ Head(toQemu) \in {"save", "load"}
    /\ job[JobId(r)].status = "none"
    /\ job' = [job EXCEPT ![JobId(r)] = [status |-> "running", of |-> r,
                                         kind |-> Head(toQemu), tag |-> tag[r]]]
    /\ owed' = TRUE
    /\ UNCHANGED <<fromQemu, disk>>

LEMMA ExecuteShape ==
    ASSUME TypeOK, Wire, Execute
    PROVE  /\ monitor \in Runs /\ toQemu # <<>> /\ toQemu' = Tail(toQemu)
           /\ UNCHANGED <<clientVars, monitor, pending>>
           /\ \/ ListCase \/ JobsCase \/ DeleteCase(monitor) \/ ErrorCase
              \/ StartCase(monitor)
<1>1. monitor \in Runs /\ toQemu # <<>>
  BY DEF Execute, Wire, TypeOK
<1>2. toQemu' = Tail(toQemu) /\ UNCHANGED <<clientVars, monitor, pending>>
  BY DEF Execute
<1>3. ListCase \/ JobsCase \/ DeleteCase(monitor) \/ ErrorCase \/ StartCase(monitor)
  BY DEF Execute, ListCase, JobsCase, DeleteCase, ErrorCase, StartCase
<1> QED
  BY <1>1, <1>2, <1>3

LEMMA JobIdType == ASSUME NEW r \in Runs PROVE JobId(r) \in JobIds
BY DEF JobId, JobIds

LEMMA TypeNext ==
    ASSUME TypeOK, Wire, [Next]_vars
    PROVE  TypeOK'
<1>1. CASE UNCHANGED vars
  BY <1>1 DEF vars, clientVars, wireVars, qemuVars, TypeOK
<1>2. ASSUME NEW r \in Runs, Connect(r)
      PROVE  TypeOK'
  BY <1>2 DEF Connect, TypeOK, qemuVars
<1>3. ASSUME NEW r \in Runs, Write(r)
      PROVE  TypeOK'
  <2>1. Doing(r) \in Commands
    BY <1>3, Placed DEF Write
  <2> QED
    BY <1>3, <2>1 DEF Write, TypeOK, qemuVars
<1>4. ASSUME NEW r \in Runs, ReadsOrEnds(r)
      PROVE  TypeOK'
  <2>1. ASSUME NEW result \in {"ok", "failed", "killed"}, End(r, result)
        PROVE  TypeOK'
    <3>1. UNCHANGED <<op, tag, job, disk, step>> /\ owed' = FALSE /\ monitor' = Nothing
      BY <1>4, <2>1 DEF ReadsOrEnds, End
    <3>2. /\ phase' \in [Runs -> {"new", "running", "ok", "failed", "killed"}]
          /\ waiting' \in [Runs -> BOOLEAN]
      BY <2>1 DEF End, TypeOK
    <3>3. /\ toQemu' \in Seq(Commands)
          /\ fromQemu' \in Seq(Messages) /\ pending' \in Seq(Messages)
      BY <2>1 DEF End
    <3> QED
      BY <3>1, <3>2, <3>3 DEF TypeOK
  <2>2. CASE Reads(r)
    <3>1. UNCHANGED <<op, tag, job, disk, phase, monitor, toQemu, owed>>
      BY <1>4, <2>2 DEF ReadsOrEnds, Reads
    <3>2. fromQemu' \in Seq(Messages) /\ pending' \in Seq(Messages)
      BY <2>2 DEF Reads
    <3>3. waiting' \in [Runs -> BOOLEAN]
      BY <2>2 DEF Reads, Proceeds, TypeOK
    <3>4. step' \in [Runs -> Nat]
      BY <2>2 DEF Reads, Proceeds, TypeOK
    <3>5. ASSUME NEW q \in Runs PROVE step'[q] \in 1..Len(Script(op[q]))
      <4> DEFINE n == Len(Script(op[q]))
      <4>1. step[q] \in 1..n /\ n \in Nat
        BY Doings DEF TypeOK
      <4>2. step'[q] = step[q] \/ (step'[q] = step[q] + 1 /\ step[q] < n)
        BY <2>2 DEF Reads, Proceeds, TypeOK
      <4> HIDE DEF n
      <4>3. step'[q] \in 1..n
        BY <4>1, <4>2
      <4> QED
        BY <4>3 DEF n
    <3> QED
      BY <3>1, <3>2, <3>3, <3>4, <3>5 DEF TypeOK
  <2> QED
    BY <1>4, <2>1, <2>2 DEF ReadsOrEnds, Succeeds
<1>5. CASE Execute
  <2>1. /\ monitor \in Runs /\ toQemu' \in Seq(Commands)
        /\ UNCHANGED <<clientVars, monitor, pending>> /\ Head(toQemu) \in Commands
    <3>1. toQemu \in Seq(Commands)
      BY DEF TypeOK
    <3>2. /\ monitor \in Runs /\ toQemu # <<>> /\ toQemu' = Tail(toQemu)
          /\ UNCHANGED <<clientVars, monitor, pending>>
      BY <1>5, ExecuteShape
    <3>3. Tail(toQemu) \in Seq(Commands) /\ Head(toQemu) \in Commands
      BY <3>1, <3>2
    <3> QED
      BY <3>2, <3>3
  <2>2. CASE ListCase \/ JobsCase \/ ErrorCase
    <3>1. UNCHANGED <<owed, job, disk>>
      BY <2>2 DEF ListCase, JobsCase, ErrorCase
    <3>2. \E m \in Messages : fromQemu' = Append(fromQemu, m)
      <4>1. CASE ListCase
        BY <4>1, ReplyTypes DEF ListCase, Reply
      <4>2. CASE JobsCase
        BY <4>2, ReplyTypes DEF JobsCase, Reply
      <4>3. CASE ErrorCase
        BY <4>3, ReplyTypes DEF ErrorCase, Reply
      <4> QED
        BY <2>2, <4>1, <4>2, <4>3
    <3>3. fromQemu' \in Seq(Messages)
      BY <3>2 DEF TypeOK
    <3> QED
      BY <2>1, <3>1, <3>3 DEF TypeOK, clientVars
  <2>3. CASE DeleteCase(monitor)
    <3>1. fromQemu' \in Seq(Messages) /\ UNCHANGED <<owed, job>>
      BY <2>3, ReplyTypes DEF DeleteCase, Reply, TypeOK
    <3>2. disk' \in [Tags -> Runs \cup {Old, Nothing}]
      BY <2>3 DEF DeleteCase, TypeOK
    <3> QED
      BY <2>1, <3>1, <3>2 DEF TypeOK, clientVars
  <2>4. CASE StartCase(monitor)
    <3>1. JobId(monitor) \in JobIds
      BY <2>1, JobIdType
    <3>2. [status |-> "running", of |-> monitor, kind |-> Head(toQemu), tag |-> tag[monitor]]
            \in [status : {"none", "running", "good", "bad"},
                 of : Runs \cup {Nothing}, kind : {"save", "load"}, tag : Tags]
      BY <2>1, <2>4 DEF StartCase, TypeOK
    <3>3. job' \in [JobIds -> [status : {"none", "running", "good", "bad"},
                               of : Runs \cup {Nothing}, kind : {"save", "load"}, tag : Tags]]
      BY <2>4, <3>1, <3>2 DEF StartCase, TypeOK
    <3> QED
      BY <2>1, <2>4, <3>3 DEF StartCase, TypeOK, clientVars
  <2> QED
    BY <1>5, <2>2, <2>3, <2>4, ExecuteShape
<1>6. CASE ReplyOwed
  <2>1. fromQemu' \in Seq(Messages)
    BY <1>6, ReplyTypes DEF ReplyOwed, Reply, TypeOK
  <2> QED
    BY <1>6, <2>1 DEF ReplyOwed, TypeOK, clientVars
<1>7. ASSUME NEW i \in JobIds, Conclude(i)
      PROVE  TypeOK'
  <2>1. fromQemu' \in Seq(Messages)
    <3>1. fromQemu' = fromQemu \/ fromQemu' = Append(fromQemu, Event(i))
      BY <1>7 DEF Conclude, Reply, Event
    <3>2. fromQemu \in Seq(Messages) /\ Event(i) \in Messages
      BY ReplyTypes DEF TypeOK
    <3> QED
      BY <3>1, <3>2
  <2>2. job[i].tag \in Tags /\ (job[i].status = "running" => job[i].of \in Runs \cup {Nothing})
    BY DEF TypeOK
  <2>3. /\ disk' \in [Tags -> Runs \cup {Old, Nothing}]
        /\ \E s \in {"good", "bad"} : job' = [job EXCEPT ![i].status = s]
    BY <1>7, <2>2 DEF Conclude, TypeOK
  <2>4. job' \in [JobIds -> [status : {"none", "running", "good", "bad"},
                             of : Runs \cup {Nothing}, kind : {"save", "load"}, tag : Tags]]
    <3>1. PICK s \in {"good", "bad"} : job' = [job EXCEPT ![i].status = s]
      BY <2>3
    <3>2. [job[i] EXCEPT !.status = s]
            \in [status : {"none", "running", "good", "bad"},
                 of : Runs \cup {Nothing}, kind : {"save", "load"}, tag : Tags]
      BY DEF TypeOK
    <3>3. job' = [job EXCEPT ![i] = [job[i] EXCEPT !.status = s]]
      BY <3>1
    <3> QED
      BY <3>2, <3>3 DEF TypeOK
  <2> QED
    BY <1>7, <2>1, <2>3, <2>4 DEF Conclude, TypeOK, clientVars
<1> QED
  BY <1>1, <1>2, <1>3, <1>4, <1>5, <1>6, <1>7, Steps

-----------------------------------------------------------------------------
(* The connection.                                                         *)

LEMMA PlaceIsNat == ASSUME NEW o, NEW c PROVE PlaceOf(o, c) \in Nat
BY DEF PlaceOf

LEMMA WireConnect ==
    ASSUME TypeOK, Wire, NEW r \in Runs, Connect(r)
    PROVE  Wire'
<1> USE SnapshotAssumption DEF TypeOK, Wire
<1>1. UNCHANGED <<op, tag, step, waiting, toQemu, fromQemu, pending, owed>>
  BY DEF Connect, qemuVars
<1>2. phase[r] = "new" /\ monitor # r /\ Nothing \notin Runs
  BY DEF Connect
<1>3. \A q \in Runs : phase'[q] = "running" <=> monitor' = q
  BY <1>2 DEF Connect
<1>4. \A q \in Runs : phase'[q] = "new" => step'[q] = 1
  BY <1>1 DEF Connect
<1>5. \A q \in Runs : waiting'[q] => phase'[q] = "running" /\ Doing(q)' # "await"
  BY <1>1, <1>2 DEF Connect, Doing
<1>6. CASE monitor = Nothing
  <2>1. toQemu' = <<>> /\ fromQemu' = <<>> /\ pending' = <<>> /\ ~owed'
    BY <1>1, <1>6
  <2>2. InOrder'
    BY <2>1 DEF InOrder
  <2> QED
    BY <1>3, <1>4, <1>5, <2>1, <2>2
<1>7. CASE monitor # Nothing
  <2>1. monitor' = monitor /\ InOrder
    BY <1>7 DEF Connect
  <2>2. InOrder'
    BY <1>1, <2>1 DEF InOrder, Place
  <2> QED
    BY <1>3, <1>4, <1>5, <1>7, <2>1, <2>2
<1> QED
  BY <1>6, <1>7

LEMMA WireWrite ==
    ASSUME TypeOK, Wire, NEW r \in Runs, Write(r)
    PROVE  Wire'
<1> USE SnapshotAssumption DEF TypeOK, Wire
<1>1. /\ UNCHANGED <<phase, op, tag, step, monitor, fromQemu, pending, owed>>
      /\ monitor = r /\ ~waiting[r] /\ Doing(r) # "await"
      /\ waiting' = [waiting EXCEPT ![r] = TRUE] /\ toQemu' = Append(toQemu, Doing(r))
      /\ InOrder /\ Nothing \notin Runs
  BY DEF Write, qemuVars
<1>2. \A q \in Runs : waiting'[q] => phase'[q] = "running" /\ Doing(q)' # "await"
  BY <1>1 DEF Doing
<1>3. InOrder'
  <2> DEFINE n == Len(toQemu)
  <2>1. PlaceOf(op[r], Doing(r)) = step[r] /\ Doing(r) \in Commands
    BY <1>1, Placed
  <2>2. /\ Len(toQemu') = n + 1 /\ n \in Nat
        /\ toQemu'[n + 1] = Doing(r) /\ \A i \in 1..n : toQemu'[i] = toQemu[i]
    BY <1>1, <2>1
  <2>3. \A i \in 1..n : PlaceOf(op[r], toQemu'[i]) = PlaceOf(op[r], toQemu[i])
    BY <2>2
  <2>4. PlaceOf(op[r], toQemu'[n + 1]) = step[r] /\ step[r] \in Nat \ {0} /\ waiting'[r]
    BY <1>1, <2>1, <2>2
  <2>5. \A i \in 1..n :
          /\ PlaceOf(op[r], toQemu[i]) \in Nat
          /\ 1 <= PlaceOf(op[r], toQemu[i]) /\ PlaceOf(op[r], toQemu[i]) < step[r]
    <3>1. \A i \in 1..n :
            /\ PlaceOf(op[r], toQemu[i]) \in Nat
            /\ 1 <= PlaceOf(op[r], toQemu[i]) /\ PlaceOf(op[r], toQemu[i]) <= step[r]
            /\ PlaceOf(op[r], toQemu[i]) # step[r]
      BY <1>1, PlaceIsNat DEF InOrder, Place
    <3>2. step[r] \in Nat
      OBVIOUS
    <3> QED
      BY <3>1, <3>2
  <2>6. \A i, j \in 1..n : i < j => PlaceOf(op[r], toQemu[i]) < PlaceOf(op[r], toQemu[j])
    BY <1>1 DEF InOrder, Place
  <2>7. op'[monitor'] = op[r] /\ step'[monitor'] = step[r] /\ waiting'[monitor']
    BY <1>1, <2>4
  <2>8. \A i \in 1..(n + 1) :
          /\ 1 <= PlaceOf(op[r], toQemu'[i]) /\ PlaceOf(op[r], toQemu'[i]) <= step[r]
    <3>1. SUFFICES ASSUME NEW i \in 1..(n + 1)
                   PROVE  /\ 1 <= PlaceOf(op[r], toQemu'[i])
                          /\ PlaceOf(op[r], toQemu'[i]) <= step[r]
      OBVIOUS
    <3>2. CASE i \in 1..n
      BY <2>3, <2>4, <2>5, <3>2
    <3>3. CASE i = n + 1
      BY <2>4, <3>3
    <3> QED
      BY <2>2, <3>2, <3>3
  <2>9. \A i, j \in 1..(n + 1) :
          i < j => PlaceOf(op[r], toQemu'[i]) < PlaceOf(op[r], toQemu'[j])
    <3>1. SUFFICES ASSUME NEW i \in 1..(n + 1), NEW j \in 1..(n + 1), i < j
                   PROVE  PlaceOf(op[r], toQemu'[i]) < PlaceOf(op[r], toQemu'[j])
      OBVIOUS
    <3>2. i \in 1..n
      BY <2>2, <3>1
    <3>3. CASE j \in 1..n
      BY <2>3, <2>6, <3>1, <3>2, <3>3
    <3>4. CASE j = n + 1
      BY <2>3, <2>4, <2>5, <3>2, <3>4
    <3> QED
      BY <2>2, <3>3, <3>4
  <2> QED
    BY <2>2, <2>7, <2>8, <2>9 DEF InOrder, Place
<1> QED
  BY <1>1, <1>2, <1>3

LEMMA WireRead ==
    ASSUME TypeOK, Wire, NEW r \in Runs, ReadsOrEnds(r)
    PROVE  Wire'
<1> USE SnapshotAssumption DEF TypeOK, Wire
<1>1. phase[r] = "running" /\ monitor = r /\ UNCHANGED op /\ InOrder /\ Nothing \notin Runs
  BY DEF ReadsOrEnds
<1>2. ASSUME NEW result \in {"ok", "failed", "killed"}, End(r, result)
      PROVE  Wire'
  BY <1>1, <1>2 DEF End, Doing
<1>3. CASE Reads(r)
  <2>1. UNCHANGED <<phase, monitor, toQemu, owed>>
    BY <1>3 DEF Reads
  <2>2. CASE UNCHANGED <<step, waiting>>
    <3>1. InOrder'
      BY <1>1, <2>1, <2>2 DEF InOrder, Place
    <3> QED
      BY <1>1, <2>1, <2>2, <3>1 DEF Doing
  <2>3. CASE Proceeds(r)
    <3>1. /\ step' = [step EXCEPT ![r] = @ + 1] /\ waiting' = [waiting EXCEPT ![r] = FALSE]
      BY <2>3 DEF Proceeds
    <3>2. \A q \in Runs : waiting'[q] => phase'[q] = "running" /\ Doing(q)' # "await"
      BY <1>1, <2>1, <3>1 DEF Doing
    <3>3. InOrder'
      <4>1. \A i \in 1..Len(toQemu) : PlaceOf(op[r], toQemu[i]) \in Nat
        BY PlaceIsNat
      <4>2. step'[r] = step[r] + 1 /\ step[r] \in Nat
        BY <3>1
      <4>3. /\ \A i \in 1..Len(toQemu) :
                  /\ 1 <= PlaceOf(op[r], toQemu[i])
                  /\ PlaceOf(op[r], toQemu[i]) < step'[r]
            /\ \A i, j \in 1..Len(toQemu) :
                  i < j => PlaceOf(op[r], toQemu[i]) < PlaceOf(op[r], toQemu[j])
        BY <1>1, <4>1, <4>2 DEF InOrder, Place
      <4> QED
        BY <1>1, <2>1, <4>1, <4>2, <4>3 DEF InOrder, Place
    <3> QED
      BY <1>1, <2>1, <3>1, <3>2, <3>3
  <2> QED
    BY <1>3, <2>2, <2>3 DEF Reads
<1> QED
  BY <1>2, <1>3 DEF ReadsOrEnds, Succeeds

LEMMA WireQemu ==
    ASSUME TypeOK, Wire, Execute \/ ReplyOwed \/ \E i \in JobIds : Conclude(i)
    PROVE  Wire'
<1> USE SnapshotAssumption DEF TypeOK, Wire
<1>1. UNCHANGED <<phase, op, tag, step, waiting, monitor, pending>>
  BY DEF Execute, ReplyOwed, Conclude, clientVars
<1>2. \A q \in Runs : waiting'[q] => phase'[q] = "running" /\ Doing(q)' # "await"
  BY <1>1 DEF Doing
<1>3. CASE Execute
  <2>1. monitor \in Runs /\ toQemu # <<>> /\ toQemu' = Tail(toQemu) /\ InOrder
    BY <1>3, ExecuteShape
  <2>2. InOrder'
    <3> DEFINE n == Len(toQemu)
    <3>1. /\ n \in Nat \ {0} /\ Len(toQemu') = n - 1
          /\ \A i \in 1..(n - 1) : toQemu'[i] = toQemu[i + 1]
      BY <2>1
    <3>2. \A i \in 1..(n - 1) : Place(i)' = Place(i + 1) /\ i + 1 \in 1..n
      BY <1>1, <3>1 DEF Place
    <3> QED
      BY <1>1, <2>1, <3>1, <3>2 DEF InOrder
  <2> QED
    BY <1>1, <1>2, <2>1, <2>2
<1>4. CASE ReplyOwed \/ \E i \in JobIds : Conclude(i)
  <2>1. /\ UNCHANGED toQemu
        /\ monitor = Nothing => fromQemu' = fromQemu /\ owed' = owed
    BY <1>4 DEF ReplyOwed, Conclude
  <2>2. monitor \in Runs => InOrder'
    BY <1>1, <2>1 DEF InOrder, Place
  <2> QED
    BY <1>1, <1>2, <2>1, <2>2
<1> QED
  BY <1>3, <1>4

LEMMA WireNext ==
    ASSUME TypeOK, Wire, [Next]_vars
    PROVE  Wire'
<1>1. CASE UNCHANGED vars
  <2>1. UNCHANGED <<phase, op, step, waiting, monitor, toQemu, fromQemu, pending, owed>>
    BY <1>1 DEF vars, clientVars, wireVars, qemuVars
  <2> QED
    BY <2>1 DEF Wire, InOrder, Place, Doing
<1> QED
  BY <1>1, WireConnect, WireWrite, WireRead, WireQemu, Steps

-----------------------------------------------------------------------------
(* QEMU's jobs and their events.                                           *)

\* What an action is for does not change, and no process becomes new again.
LEMMA Fixed ==
    ASSUME TypeOK, Wire, [Next]_vars
    PROVE  /\ op' = op /\ tag' = tag
           /\ \A r \in Runs : phase'[r] = "new" => phase[r] = "new"
           /\ \A r : JobId(r)' = JobId(r)
<1>1. op' = op /\ tag' = tag
  BY Steps DEF vars, clientVars, Connect, Write, ReadsOrEnds, Execute, ReplyOwed, Conclude
<1>2. CASE UNCHANGED phase
  BY <1>1, <1>2 DEF JobId
<1>3. ASSUME NEW q \in Runs, Connect(q) \/ ReadsOrEnds(q)
      PROVE  \A r \in Runs : phase'[r] = "new" => phase[r] = "new"
  BY <1>3 DEF Connect, ReadsOrEnds, Reads, Succeeds, End, TypeOK
<1>4. \A r \in Runs : phase'[r] = "new" => phase[r] = "new"
  BY <1>2, <1>3, Steps DEF vars, clientVars, Write, Execute, ReplyOwed, Conclude
<1> QED
  BY <1>1, <1>4 DEF JobId

\* The command that QEMU executes next has its place in the script.
LEMMA HeadPlace ==
    ASSUME TypeOK, Wire, monitor \in Runs, toQemu # <<>>
    PROVE  LET c == Head(toQemu) IN
           /\ 1 <= PlaceOf(op[monitor], c) /\ PlaceOf(op[monitor], c) <= step[monitor]
           /\ Has(toQemu, c)
           /\ \A i \in 1..Len(Tail(toQemu)) :
                 PlaceOf(op[monitor], c) < PlaceOf(op[monitor], Tail(toQemu)[i])
<1>1. /\ Len(toQemu) \in Nat \ {0} /\ Head(toQemu) = toQemu[1]
      /\ Len(Tail(toQemu)) = Len(toQemu) - 1
      /\ \A i \in 1..(Len(toQemu) - 1) : Tail(toQemu)[i] = toQemu[i + 1]
  BY DEF TypeOK
<1>2. InOrder
  BY DEF Wire
<1> QED
  BY <1>1, <1>2 DEF InOrder, Place, Has

LEMMA PlacesOfJobs ==
    ASSUME TypeOK, NEW r \in Runs
    PROVE  /\ 1 <= PlaceOf(op[r], "save") =>
                 op[r] = "suspend" \/ (op[r] = "save" /\ PlaceOf(op[r], "save") = 3)
           /\ 1 <= PlaceOf(op[r], "load") => op[r] = "restore"
           /\ 1 <= PlaceOf(op[r], "jobs") =>
                 \/ op[r] = "save" /\ PlaceOf(op[r], "jobs") = 5
                 \/ op[r] = "restore" /\ PlaceOf(op[r], "jobs") = 3
           /\ op[r] = "save" => PlaceOf(op[r], "delete") = 2
           /\ op[r] = "restore" => PlaceOf(op[r], "delete") = 0
BY DEF PlaceOf, TypeOK

LEMMA OwnJob ==
    ASSUME TypeOK, Jobs, NEW r \in Runs, job[r].status # "none"
    PROVE  /\ job[r].of = r /\ phase[r] # "new" /\ job[r].tag = tag[r]
           /\ op[r] = "save" => job[r].kind = "save"
<1>1. r \in JobIds /\ r # Suspend
  BY SnapshotAssumption DEF JobIds
<1>2. job[r].of \in Runs /\ r = JobId(job[r].of)
  BY <1>1 DEF Jobs
<1>3. job[r].of = r
  BY <1>1, <1>2 DEF JobId
<1> QED
  BY <1>1, <1>3 DEF Jobs

LEMMA ConcludeShape ==
    ASSUME TypeOK, NEW i \in JobIds, Conclude(i)
    PROVE  /\ UNCHANGED <<clientVars, monitor, toQemu, pending, owed>>
           /\ job[i].status = "running"
           /\ \A j \in JobIds : j # i => job'[j] = job[j]
           /\ job'[i].of = job[i].of /\ job'[i].kind = job[i].kind /\ job'[i].tag = job[i].tag
           /\ job'[i].status \in {"good", "bad"}
           /\ job'[i].status = "good" /\ job[i].kind = "save" =>
                 disk' = [disk EXCEPT ![job[i].tag] = job[i].of]
           /\ disk' = disk \/ (~Exists(job[i].tag) /\
                                 disk' = [disk EXCEPT ![job[i].tag] = job[i].of])
           /\ monitor = Nothing => fromQemu' = fromQemu
           /\ monitor # Nothing => fromQemu' = Append(fromQemu, Event(i))
<1>1. /\ UNCHANGED <<clientVars, monitor, toQemu, pending, owed>>
      /\ job[i].status = "running"
      /\ monitor = Nothing => fromQemu' = fromQemu
      /\ monitor # Nothing => fromQemu' = Append(fromQemu, Event(i))
  BY DEF Conclude, Reply, Event
<1>2. /\ job[i].kind \in {"save", "load"}
      /\ job[i] \in [status : {"none", "running", "good", "bad"},
                     of : Runs \cup {Nothing}, kind : {"save", "load"}, tag : Tags]
      /\ i \in DOMAIN job
  BY DEF TypeOK
<1>3. PICK s \in {"good", "bad"} :
        /\ job' = [job EXCEPT ![i].status = s]
        /\ s = "good" /\ job[i].kind = "save" =>
                 disk' = [disk EXCEPT ![job[i].tag] = job[i].of]
        /\ disk' = disk \/ (~Exists(job[i].tag) /\
                              disk' = [disk EXCEPT ![job[i].tag] = job[i].of])
  BY <1>2 DEF Conclude
<1>4. /\ \A j \in JobIds : j # i => job'[j] = job[j]
      /\ job'[i] = [job[i] EXCEPT !.status = s]
  BY <1>3 DEF TypeOK
<1>5. /\ job'[i].of = job[i].of /\ job'[i].kind = job[i].kind /\ job'[i].tag = job[i].tag
      /\ job'[i].status = s
  BY <1>2, <1>4
<1> QED
  BY <1>1, <1>3, <1>4, <1>5

LEMMA StartShape ==
    ASSUME TypeOK, NEW r \in Runs, StartCase(r)
    PROVE  /\ JobId(r) \in JobIds /\ job[JobId(r)].status = "none"
           /\ \A j \in JobIds : j # JobId(r) => job'[j] = job[j]
           /\ job'[JobId(r)] = [status |-> "running", of |-> r,
                                kind |-> Head(toQemu), tag |-> tag[r]]
           /\ Head(toQemu) \in {"save", "load"}
           /\ UNCHANGED <<fromQemu, disk>>
BY JobIdType DEF StartCase, TypeOK

LEMMA JobsNext ==
    ASSUME TypeOK, Wire, Jobs, [Next]_vars
    PROVE  Jobs'
<1>1. /\ op' = op /\ tag' = tag
      /\ \A r \in Runs : phase'[r] = "new" => phase[r] = "new"
      /\ \A r : JobId(r)' = JobId(r)
  BY Fixed
<1>2. SUFFICES ASSUME NEW i \in JobIds, job'[i].status # "none"
               PROVE  LET r == job'[i].of IN
                      /\ r \in Runs /\ i = JobId(r) /\ phase'[r] # "new"
                      /\ op[r] \in {"save", "restore", "suspend"}
                      /\ job'[i].tag = tag[r]
                      /\ op[r] = "save" => job'[i].kind = "save"
  BY <1>1 DEF Jobs, JobIds
<1>3. CASE job'[i] = job[i]
  BY <1>1, <1>2, <1>3 DEF Jobs
<1>4. ASSUME NEW j \in JobIds, Conclude(j), j = i
      PROVE  /\ job'[i].of = job[i].of /\ job'[i].kind = job[i].kind
             /\ job'[i].tag = job[i].tag /\ job[i].status # "none"
  BY <1>4, ConcludeShape
<1>5. CASE Execute /\ StartCase(monitor) /\ i = JobId(monitor)
  <2>1. monitor \in Runs /\ toQemu # <<>> /\ phase'[monitor] = "running"
    BY <1>5, ExecuteShape DEF Wire, clientVars
  <2>2. job'[i] = [status |-> "running", of |-> monitor,
                   kind |-> Head(toQemu), tag |-> tag[monitor]]
        /\ Head(toQemu) \in {"save", "load"}
    BY <1>5, <2>1, StartShape
  <2>3. /\ Head(toQemu) = "save" => op[monitor] \in {"save", "suspend"}
        /\ Head(toQemu) = "load" => op[monitor] = "restore"
    BY <2>1, HeadPlace, PlacesOfJobs
  <2> QED
    BY <1>5, <2>1, <2>2, <2>3
<1>6. \/ job'[i] = job[i]
      \/ \E j \in JobIds : Conclude(j) /\ j = i
      \/ Execute /\ StartCase(monitor) /\ i = JobId(monitor)
  <2>1. CASE Execute
    <3>1. monitor \in Runs /\ (UNCHANGED job \/ StartCase(monitor))
      BY <2>1, ExecuteShape DEF ListCase, JobsCase, DeleteCase, ErrorCase
    <3> QED
      BY <2>1, <3>1, StartShape
  <2>2. ASSUME NEW j \in JobIds, Conclude(j)
        PROVE  job'[i] = job[i] \/ j = i
    BY <2>2, ConcludeShape
  <2> QED
    BY <2>1, <2>2, Steps DEF vars, qemuVars, Connect, Write, ReadsOrEnds, ReplyOwed
<1>7. CASE \E j \in JobIds : Conclude(j) /\ j = i
  BY <1>1, <1>2, <1>4, <1>7 DEF Jobs
<1> QED
  BY <1>3, <1>5, <1>6, <1>7

\* QEMU sends one message at a time, and an event only when a job ends.
LEMMA Replies ==
    ASSUME TypeOK, Wire, Execute \/ ReplyOwed
    PROVE  /\ UNCHANGED <<clientVars, monitor, pending>>
           /\ \/ UNCHANGED fromQemu
              \/ \E m \in Messages : m.kind # "event" /\ fromQemu' = Append(fromQemu, m)
           /\ \A m : Has(fromQemu', m) => Has(fromQemu, m) \/ m.kind # "event"
           /\ \A m : Has(fromQemu, m) => Has(fromQemu', m)
<1>1. UNCHANGED <<clientVars, monitor, pending>>
  BY DEF Execute, ReplyOwed
<1>2. \/ UNCHANGED fromQemu
      \/ \E m \in Messages : m.kind # "event" /\ fromQemu' = Append(fromQemu, m)
  <2>1. CASE ReplyOwed
    <3>1. Empty.kind # "event" /\ fromQemu' = Append(fromQemu, Empty)
      BY <2>1 DEF ReplyOwed, Reply, Empty, Message
    <3> QED
      BY <3>1, ReplyTypes
  <2>2. CASE ListCase
    <3> DEFINE m == Message("tags", {t \in Tags : Exists(t)})
    <3>1. m.kind # "event" /\ fromQemu' = Append(fromQemu, m) /\ m \in Messages
      BY <2>2, ReplyTypes DEF ListCase, Reply, Message
    <3> QED
      BY <3>1
  <2>3. CASE JobsCase
    <3> DEFINE m == Message("jobs", {<<i, job[i].status>> : i \in JobIds})
    <3>1. m.kind # "event" /\ fromQemu' = Append(fromQemu, m) /\ m \in Messages
      BY <2>3, ReplyTypes DEF JobsCase, Reply, Message
    <3> QED
      BY <3>1
  <2>4. CASE DeleteCase(monitor)
    <3>1. Empty.kind # "event" /\ fromQemu' = Append(fromQemu, Empty)
      BY <2>4 DEF DeleteCase, Reply, Empty, Message
    <3> QED
      BY <3>1, ReplyTypes
  <2>5. CASE ErrorCase
    <3> DEFINE m == Message("error", {})
    <3>1. m.kind # "event" /\ fromQemu' = Append(fromQemu, m) /\ m \in Messages
      BY <2>5, ReplyTypes DEF ErrorCase, Reply, Message
    <3> QED
      BY <3>1
  <2>6. CASE StartCase(monitor)
    BY <2>6 DEF StartCase
  <2> QED
    BY <2>1, <2>2, <2>3, <2>4, <2>5, <2>6, ExecuteShape
<1>3. fromQemu \in Seq(Messages)
  BY DEF TypeOK
<1>4. /\ \A m : Has(fromQemu', m) => Has(fromQemu, m) \/ m.kind # "event"
      /\ \A m : Has(fromQemu, m) => Has(fromQemu', m)
  <2>1. CASE UNCHANGED fromQemu
    BY <2>1
  <2>2. ASSUME NEW x \in Messages, x.kind # "event", fromQemu' = Append(fromQemu, x)
        PROVE  /\ \A m : Has(fromQemu', m) => Has(fromQemu, m) \/ m.kind # "event"
               /\ \A m : Has(fromQemu, m) => Has(fromQemu', m)
    <3>1. \A m : Has(fromQemu', m) <=> Has(fromQemu, m) \/ m = x
      BY <1>3, <2>2, HasAppend
    <3> QED
      BY <2>2, <3>1
  <2> QED
    BY <1>2, <2>1, <2>2
<1> QED
  BY <1>1, <1>2, <1>4

LEMMA EventKind == ASSUME NEW i PROVE Event(i).kind = "event" /\ Event(i) # Garbage
BY DEF Event, Message, Garbage

LEMMA EventOf == ASSUME NEW i, NEW j, Event(i) = Event(j) PROVE i = j
<1>1. {i} = {j}
  BY DEF Event, Message
<1> QED
  BY <1>1

LEMMA EventsNext ==
    ASSUME TypeOK, Wire, Events, [Next]_vars
    PROVE  Events'
<1>1. SUFFICES ASSUME NEW i \in JobIds, Has(fromQemu', Event(i)) \/ Has(pending', Event(i))
               PROVE  job'[i].status \in {"good", "bad"}
  BY DEF Events, Concluded, Event, JobIds
<1>2. CASE /\ Has(fromQemu, Event(i)) \/ Has(pending, Event(i))
           /\ job'[i] = job[i] \/ job'[i].status \in {"good", "bad"}
  BY <1>2 DEF Events, Concluded
<1>3. CASE UNCHANGED vars
  BY <1>1, <1>2, <1>3 DEF vars, wireVars, qemuVars
<1>4. ASSUME NEW r \in Runs, Connect(r) \/ Write(r)
      PROVE  job'[i].status \in {"good", "bad"}
  BY <1>1, <1>2, <1>4 DEF Connect, Write, qemuVars
<1>5. ASSUME NEW r \in Runs, ReadsOrEnds(r)
      PROVE  job'[i].status \in {"good", "bad"}
  <2>1. UNCHANGED job
    BY <1>5 DEF ReadsOrEnds
  <2>2. CASE fromQemu' = <<>> /\ pending' = <<>>
    BY <1>1, <2>2, HasNone
  <2>3. CASE Reads(r)
    BY <1>1, <1>2, <2>1, <2>3, EventKind DEF Reads
  <2> QED
    BY <1>5, <2>2, <2>3 DEF ReadsOrEnds, Succeeds, End
<1>6. CASE Execute \/ ReplyOwed
  <2>1. Has(fromQemu, Event(i)) \/ Has(pending, Event(i))
    BY <1>1, <1>6, Replies, EventKind
  <2>2. Concluded(i)
    BY <2>1 DEF Events
  <2>3. job'[i] = job[i]
    <3>1. CASE ReplyOwed
      BY <3>1 DEF ReplyOwed
    <3>2. CASE Execute
      <4>1. monitor \in Runs /\ (UNCHANGED job \/ StartCase(monitor))
        BY <3>2, ExecuteShape DEF ListCase, JobsCase, DeleteCase, ErrorCase
      <4> QED
        BY <2>2, <4>1, StartShape DEF Concluded
    <3> QED
      BY <1>6, <3>1, <3>2
  <2> QED
    BY <1>2, <2>1, <2>3
<1>7. ASSUME NEW j \in JobIds, Conclude(j)
      PROVE  job'[i].status \in {"good", "bad"}
  <2>1. job'[j].status \in {"good", "bad"} /\ (j # i => job'[i] = job[i])
    BY <1>7, ConcludeShape
  <2>2. CASE j # i
    <3>1. /\ pending' = pending
          /\ fromQemu' = fromQemu \/ fromQemu' = Append(fromQemu, Event(j))
      BY <1>7, ConcludeShape
    <3>2. fromQemu \in Seq(Messages) /\ Event(j) \in Messages
      BY ReplyTypes DEF TypeOK
    <3>3. Event(i) # Event(j)
      BY <2>2, EventOf
    <3>4. Has(fromQemu, Event(i)) \/ Has(pending, Event(i))
      <4>1. CASE fromQemu' = fromQemu
        BY <1>1, <3>1, <4>1
      <4>2. CASE fromQemu' = Append(fromQemu, Event(j))
        <5>1. \A m : Has(fromQemu', m) <=> Has(fromQemu, m) \/ m = Event(j)
          BY <3>2, <4>2, HasAppend
        <5> QED
          BY <1>1, <3>1, <3>3, <5>1
      <4> QED
        BY <3>1, <4>1, <4>2
    <3> QED
      BY <1>2, <2>1, <2>2, <3>4
  <2> QED
    BY <2>1, <2>2
<1> QED
  BY <1>3, <1>4, <1>5, <1>6, <1>7, Steps

-----------------------------------------------------------------------------
(* What a save or a restore can rely on.                                   *)

LEMMA AwaitSteps ==
    ASSUME TypeOK, NEW r \in Runs, Scripted(op[r])
    PROVE  /\ AwaitStep(op[r]) \in {2, 4} /\ step[r] \in Nat
           /\ op[r] = "save" => AwaitStep(op[r]) = 4
           /\ op[r] = "restore" => AwaitStep(op[r]) = 2
           /\ Doing(r) = "await" <=> step[r] = AwaitStep(op[r])
           /\ JobId(r) = r /\ r \in JobIds
<1>1. AwaitStep(op[r]) \in {2, 4} /\ step[r] \in Nat /\ JobId(r) = r /\ r \in JobIds
  BY DEF AwaitStep, TypeOK, JobId, JobIds, Scripted
<1>2. CASE op[r] = "save"
  BY <1>1, <1>2, Doings DEF AwaitStep
<1>3. CASE op[r] = "restore"
  BY <1>1, <1>3, Doings DEF AwaitStep
<1> QED
  BY <1>1, <1>2, <1>3 DEF Scripted

LEMMA OwnConnect ==
    ASSUME IInv, NEW q \in Runs, Connect(q),
           NEW r \in Runs, phase'[r] = "running", Scripted(op[r])
    PROVE  OwnOf(r)'
<1> USE DEF IInv
<1>1. UNCHANGED <<op, tag, step, waiting, toQemu, fromQemu, pending, owed, job, disk>>
  BY DEF Connect, qemuVars
<1>2. CASE phase[r] = "running"
  <2>1. OwnOf(r)
    BY <1>2 DEF Own
  <2> QED
    BY <1>1, <2>1 DEF OwnOf, Started, Announced, Awaited, Tabled, Confirmed, Stored, Concluded
<1>3. CASE phase[r] # "running"
  <2>1. q = r /\ phase[r] = "new" /\ monitor = Nothing
    BY <1>3 DEF Connect, TypeOK
  <2>2. job[r].status = "none"
    BY <2>1, OwnJob
  <2>3. fromQemu = <<>> /\ step[r] = 1
    BY <2>1 DEF Wire
  <2>4. AwaitStep(op[r]) \in {2, 4}
    BY AwaitSteps
  <2> QED
    BY <1>1, <2>2, <2>3, <2>4, HasNone
       DEF OwnOf, Started, Announced, Awaited, Tabled, Confirmed, Stored, Concluded
<1> QED
  BY <1>2, <1>3

LEMMA OwnWrite ==
    ASSUME IInv, NEW q \in Runs, Write(q),
           NEW r \in Runs, phase'[r] = "running", Scripted(op[r])
    PROVE  OwnOf(r)'
<1> USE DEF IInv
<1>1. /\ UNCHANGED <<phase, op, tag, step, fromQemu, pending, owed, job, disk>>
      /\ q = r /\ toQemu' = Append(toQemu, Doing(r)) /\ Doing(r) # "await"
  BY DEF Write, qemuVars, Wire
<1>2. OwnOf(r)
  BY <1>1 DEF Own
<1>3. Started(r)'
  <2>1. Doing(r) \in Commands /\ toQemu \in Seq(Commands)
    BY <1>1, Placed DEF TypeOK
  <2>2. Has(toQemu', "delete") <=> Has(toQemu, "delete") \/ Doing(r) = "delete"
    BY <1>1, <2>1, HasAppend
  <2>3. job[r].status # "none" => Doing(r) # "delete"
    <3>1. CASE op[r] = "save"
      BY <1>2, <3>1, AwaitSteps, Doings DEF OwnOf, Started
    <3>2. CASE op[r] = "restore"
      BY <3>2, Doings
    <3> QED
      BY <3>1, <3>2 DEF Scripted
  <2> QED
    BY <1>1, <1>2, <2>2, <2>3 DEF OwnOf, Started
<1> QED
  BY <1>1, <1>2, <1>3 DEF OwnOf, Announced, Awaited, Tabled, Confirmed, Stored, Concluded

LEMMA ContentIsGood ==
    ASSUME IInv, NEW r \in Runs, phase[r] = "running", Scripted(op[r]), Content(r)
    PROVE  job[r].status = "good"
<1> USE DEF IInv
<1>1. PICK m \in Messages : Has(fromQemu, m) /\ JobSucceeded(r, m)
  BY DEF Content
<1>2. PICK status \in {"running", "good"} : <<r, status>> \in m.val
  BY <1>1, AwaitSteps DEF JobSucceeded
<1>3. m.kind = "jobs"
  BY <1>1 DEF JobSucceeded
<1>4. Concluded(r) /\ status = job[r].status
  BY <1>1, <1>2, <1>3 DEF Own, OwnOf, Tabled, Statuses
<1> QED
  BY <1>4 DEF Concluded

LEMMA OwnRead ==
    ASSUME IInv, NEW q \in Runs, ReadsOrEnds(q),
           NEW r \in Runs, phase'[r] = "running", Scripted(op[r])
    PROVE  OwnOf(r)'
<1> USE DEF IInv
<1>1. UNCHANGED <<op, tag, job, disk>> /\ phase[q] = "running"
  BY DEF ReadsOrEnds
<1>2. r = q /\ Reads(r)
  <2>1. \A result : ~End(r, result) \/ result = "running"
    BY DEF End, TypeOK
  <2>2. r = q
    <3>1. r # q => phase'[r] = phase[r]
      BY DEF ReadsOrEnds, Reads, Succeeds, End, TypeOK
    <3> QED
      BY <1>1, <3>1 DEF Wire
  <2> QED
    BY <2>1, <2>2 DEF ReadsOrEnds, Succeeds
<1>3. OwnOf(r) /\ phase[r] = "running"
  BY <1>1, <1>2 DEF Own
<1>4. UNCHANGED toQemu /\ step[r] \in Nat /\ AwaitStep(op[r]) \in {2, 4}
  BY <1>2, AwaitSteps DEF Reads
<1>5. step'[r] = step[r] \/ (Proceeds(r) /\ step'[r] = step[r] + 1)
  BY <1>2 DEF Reads, Proceeds, TypeOK
<1>6. Started(r)'
  BY <1>1, <1>3, <1>4, <1>5 DEF OwnOf, Started
<1>7. Announced(r)'
  <2>1. SUFFICES ASSUME Concluded(r), step'[r] <= AwaitStep(op[r])
                 PROVE  Has(pending', Event(r)) \/ Has(fromQemu', Event(r))
    BY <1>1 DEF Announced, Concluded
  <2>2. HasEvent(r) /\ JobId(r) = r
    BY <1>3, <1>4, <1>5, <2>1, AwaitSteps DEF OwnOf, Announced, HasEvent
  <2>3. ~Tolerant(r)
    BY <1>3, <2>1, AwaitSteps DEF OwnOf, Started, Tolerant, Concluded
  <2>4. ~(Proceeds(r) /\ Doing(r) = "await")
    <3>1. SUFFICES ASSUME Proceeds(r), Doing(r) = "await" PROVE FALSE
      OBVIOUS
    <3>2. step'[r] = step[r] + 1 /\ step[r] = AwaitStep(op[r])
      BY <3>1, AwaitSteps DEF Proceeds, TypeOK
    <3> QED
      BY <1>4, <2>1, <3>2
  <2> QED
    BY <1>2, <2>2, <2>3, <2>4 DEF Reads
<1>8. Awaited(r)'
  <2>1. SUFFICES ASSUME step'[r] > AwaitStep(op[r]), ~(step[r] > AwaitStep(op[r]))
                 PROVE  Concluded(r)
    BY <1>1, <1>3 DEF OwnOf, Awaited, Concluded
  <2>2. Proceeds(r) /\ step[r] = AwaitStep(op[r])
    BY <1>4, <1>5, <2>1
  <2>3. HasEvent(r) /\ r \in JobIds
    BY <2>2, AwaitSteps DEF Proceeds
  <2> QED
    BY <2>3 DEF Events, HasEvent
<1>9. Tabled(r)'
  <2>1. \A m : Has(fromQemu', m) /\ m.kind = "jobs" => Has(fromQemu, m)
    BY <1>2 DEF Reads, Garbage, Message
  <2> QED
    BY <1>1, <1>3, <2>1 DEF OwnOf, Tabled, Concluded
<1>10. Confirmed(r)'
  <2>1. SUFFICES ASSUME op[r] = "save", step'[r] = 6, step[r] # 6
                 PROVE  job[r].status = "good"
    BY <1>1, <1>3 DEF OwnOf, Confirmed
  <2>2. Proceeds(r) /\ step[r] = 5
    BY <1>4, <1>5, <2>1
  <2>3. Doing(r) = "jobs"
    BY <2>1, <2>2, Doings
  <2> QED
    BY <1>3, <2>2, <2>3, ContentIsGood DEF Proceeds
<1>11. Stored(r)'
  BY <1>1, <1>3 DEF OwnOf, Stored
<1> QED
  BY <1>6, <1>7, <1>8, <1>9, <1>10, <1>11 DEF OwnOf

\* QEMU answers, and no job is touched.
LEMMA OwnAnswered ==
    ASSUME IInv, NEW r \in Runs, phase[r] = "running", Scripted(op[r]),
           UNCHANGED <<op, tag, step, pending, job>>,
           \A c : Has(toQemu', c) => Has(toQemu, c),
           \A m : Has(fromQemu, m) => Has(fromQemu', m),
           \A m : Has(fromQemu', m) /\ m.kind = "jobs" =>
               \/ Has(fromQemu, m)
               \/ /\ step[r] > AwaitStep(op[r])
                  /\ \A s \in Statuses : <<r, s>> \in m.val => s = job[r].status,
           disk'[tag[r]] = disk[tag[r]] \/ job[r].status = "none"
    PROVE  OwnOf(r)'
<1> USE DEF IInv
<1>1. OwnOf(r)
  BY DEF Own
<1>2. Started(r)'
  BY <1>1 DEF OwnOf, Started
<1>3. Announced(r)'
  BY <1>1 DEF OwnOf, Announced, Concluded
<1>4. Awaited(r)' /\ Confirmed(r)'
  BY <1>1 DEF OwnOf, Awaited, Confirmed, Concluded
<1>5. Tabled(r)'
  <2>1. step[r] > AwaitStep(op[r]) => Concluded(r)
    BY <1>1 DEF OwnOf, Awaited
  <2>2. \A m \in Messages : Has(fromQemu, m) /\ m.kind = "jobs" =>
          Concluded(r) /\ \A s \in Statuses : <<r, s>> \in m.val => s = job[r].status
    BY <1>1 DEF OwnOf, Tabled
  <2> QED
    BY <2>1, <2>2 DEF Tabled, Concluded
<1>6. Stored(r)'
  BY <1>1 DEF OwnOf, Stored
<1> QED
  BY <1>2, <1>3, <1>4, <1>5, <1>6 DEF OwnOf

LEMMA OwnExecute ==
    ASSUME IInv, Execute, NEW r \in Runs, phase'[r] = "running", Scripted(op[r])
    PROVE  OwnOf(r)'
<1> USE DEF IInv
<1>1. /\ monitor = r /\ toQemu # <<>> /\ toQemu' = Tail(toQemu)
      /\ UNCHANGED <<op, tag, step, pending, phase>>
      /\ ListCase \/ JobsCase \/ DeleteCase(r) \/ ErrorCase \/ StartCase(r)
  BY ExecuteShape DEF Wire, clientVars
<1>2. phase[r] = "running" /\ OwnOf(r)
  BY <1>1 DEF Own
<1>3. \A c : Has(toQemu', c) => Has(toQemu, c)
  BY <1>1, HasTail DEF TypeOK
<1>4. \A m : Has(fromQemu, m) => Has(fromQemu', m)
  BY Replies
<1>5. fromQemu \in Seq(Messages)
  BY DEF TypeOK
<1>6. CASE ListCase \/ ErrorCase
  <2>1. ASSUME NEW m, Has(fromQemu', m), m.kind = "jobs" PROVE Has(fromQemu, m)
    <3>1. CASE ListCase
      <4> DEFINE x == Message("tags", {t \in Tags : Exists(t)})
      <4>1. x \in Messages /\ x.kind = "tags" /\ fromQemu' = Append(fromQemu, x)
        BY <3>1, ReplyTypes DEF ListCase, Reply, Message
      <4> HIDE DEF x
      <4>2. Has(fromQemu', m) <=> Has(fromQemu, m) \/ m = x
        BY <1>5, <4>1, HasAppend
      <4> QED
        BY <2>1, <4>1, <4>2
    <3>2. CASE ErrorCase
      <4> DEFINE x == Message("error", {})
      <4>1. x \in Messages /\ x.kind = "error" /\ fromQemu' = Append(fromQemu, x)
        BY <3>2, ReplyTypes DEF ErrorCase, Reply, Message
      <4> HIDE DEF x
      <4>2. Has(fromQemu', m) <=> Has(fromQemu, m) \/ m = x
        BY <1>5, <4>1, HasAppend
      <4> QED
        BY <2>1, <4>1, <4>2
    <3> QED
      BY <1>6, <3>1, <3>2
  <2>2. UNCHANGED <<job, disk>>
    BY <1>6 DEF ListCase, ErrorCase
  <2> QED
    BY <1>1, <1>2, <1>3, <1>4, <2>1, <2>2, OwnAnswered
<1>7. CASE JobsCase
  <2> DEFINE x == Message("jobs", {<<i, job[i].status>> : i \in JobIds})
  <2>1. x \in Messages /\ fromQemu' = Append(fromQemu, x) /\ UNCHANGED <<job, disk>>
    BY <1>7, ReplyTypes DEF JobsCase, Reply
  <2>2. \A s : <<r, s>> \in x.val => s = job[r].status
    BY DEF Message
  <2> HIDE DEF x
  <2>3. step[r] > AwaitStep(op[r])
    <3>1. /\ Head(toQemu) = "jobs" /\ step[r] \in Nat
          /\ 1 <= PlaceOf(op[r], "jobs") /\ PlaceOf(op[r], "jobs") <= step[r]
      BY <1>1, <1>7, HeadPlace DEF JobsCase, TypeOK
    <3>2. CASE op[r] = "save"
      <4>1. PlaceOf(op[r], "jobs") = 5 /\ AwaitStep(op[r]) = 4
        BY <3>1, <3>2, PlacesOfJobs, AwaitSteps
      <4> QED
        BY <3>1, <4>1
    <3>3. CASE op[r] = "restore"
      <4>1. PlaceOf(op[r], "jobs") = 3 /\ AwaitStep(op[r]) = 2
        BY <3>1, <3>3, PlacesOfJobs, AwaitSteps
      <4> QED
        BY <3>1, <4>1
    <3> QED
      BY <3>2, <3>3 DEF Scripted
  <2>4. \A m : Has(fromQemu', m) <=> Has(fromQemu, m) \/ m = x
    BY <1>5, <2>1, HasAppend
  <2> QED
    BY <1>1, <1>2, <1>3, <1>4, <2>1, <2>2, <2>3, <2>4, OwnAnswered
<1>8. CASE DeleteCase(r)
  <2>1. Empty.kind = "return" /\ fromQemu' = Append(fromQemu, Empty) /\ UNCHANGED job
    BY <1>8 DEF DeleteCase, Reply, Empty, Message
  <2>2. \A m : Has(fromQemu', m) <=> Has(fromQemu, m) \/ m = Empty
    BY <1>5, <2>1, ReplyTypes, HasAppend
  <2>3. Has(toQemu, "delete")
    BY <1>1, <1>8, HeadPlace DEF DeleteCase
  <2>4. job[r].status = "none"
    BY <1>2, <2>3 DEF OwnOf, Started
  <2> QED
    BY <1>1, <1>2, <1>3, <1>4, <2>1, <2>2, <2>4, OwnAnswered
<1>9. CASE StartCase(r)
  <2>1. /\ job[r].status = "none" /\ job'[r].status = "running"
        /\ UNCHANGED <<fromQemu, disk>> /\ Head(toQemu) \in {"save", "load"}
    <3>1. JobId(r) = r
      BY AwaitSteps
    <3>2. job'[JobId(r)].status = "running"
      <4>1. job'[JobId(r)] = [status |-> "running", of |-> r,
                              kind |-> Head(toQemu), tag |-> tag[r]]
        BY <1>9, StartShape
      <4> QED
        BY <4>1
    <3> QED
      BY <1>9, <3>1, <3>2, StartShape
  <2>2. /\ 1 <= PlaceOf(op[r], Head(toQemu)) /\ PlaceOf(op[r], Head(toQemu)) <= step[r]
        /\ \A i \in 1..Len(Tail(toQemu)) :
              PlaceOf(op[r], Head(toQemu)) < PlaceOf(op[r], Tail(toQemu)[i])
        /\ step[r] \in Nat
    BY <1>1, HeadPlace DEF TypeOK
  <2>3. PlaceOf(op[r], Head(toQemu)) >= AwaitStep(op[r]) - 1
    <3>1. CASE op[r] = "save"
      <4>1. Head(toQemu) = "save"
        BY <2>1, <2>2, <3>1, PlacesOfJobs
      <4>2. PlaceOf(op[r], Head(toQemu)) = 3 /\ AwaitStep(op[r]) = 4
        BY <2>2, <3>1, <4>1, PlacesOfJobs, AwaitSteps
      <4> QED
        BY <4>2
    <3>2. CASE op[r] = "restore"
      <4>1. AwaitStep(op[r]) = 2
        BY <3>2, AwaitSteps
      <4> QED
        BY <2>2, <4>1, PlaceIsNat
    <3> QED
      BY <3>1, <3>2 DEF Scripted
  <2>4. ~Has(toQemu', "delete")
    <3>1. PlaceOf(op[r], "delete") \in {0, 2}
          /\ (op[r] = "save" => PlaceOf(op[r], Head(toQemu)) = 3)
      BY <2>1, <2>2, PlacesOfJobs DEF Scripted
    <3>2. ~(PlaceOf(op[r], Head(toQemu)) < PlaceOf(op[r], "delete"))
      <4>1. CASE op[r] = "save"
        BY <3>1, <4>1
      <4>2. CASE op[r] = "restore"
        <5>1. PlaceOf(op[r], "delete") = 0
          BY <4>2, PlacesOfJobs
        <5> QED
          BY <2>2, <5>1, PlaceIsNat
      <4> QED
        BY <4>1, <4>2 DEF Scripted
    <3> QED
      BY <1>1, <2>2, <3>2 DEF Has
  <2>5. Started(r)'
    <3>1. step[r] >= AwaitStep(op[r]) - 1
      BY <2>2, <2>3, PlaceIsNat, AwaitSteps
    <3> QED
      BY <1>1, <2>4, <3>1 DEF Started
  <2>6. /\ ~Concluded(r) /\ ~(step[r] > AwaitStep(op[r]))
        /\ ~(op[r] = "save" /\ step[r] = 6)
        /\ \A m \in Messages : ~(Has(fromQemu, m) /\ m.kind = "jobs")
    BY <1>2, <2>1 DEF OwnOf, Awaited, Tabled, Confirmed, Concluded
  <2>7. Announced(r)' /\ Awaited(r)' /\ Tabled(r)' /\ Confirmed(r)' /\ Stored(r)'
    BY <1>1, <2>1, <2>6 DEF Announced, Awaited, Tabled, Confirmed, Stored, Concluded
  <2> QED
    BY <2>5, <2>7 DEF OwnOf
<1> QED
  BY <1>1, <1>6, <1>7, <1>8, <1>9

LEMMA OwnReplyOwed ==
    ASSUME IInv, ReplyOwed, NEW r \in Runs, phase'[r] = "running", Scripted(op[r])
    PROVE  OwnOf(r)'
<1> USE DEF IInv
<1>1. UNCHANGED <<phase, op, tag, step, toQemu, pending, job, disk>>
  BY DEF ReplyOwed, clientVars
<1>2. Empty.kind = "return" /\ fromQemu' = Append(fromQemu, Empty)
  BY DEF ReplyOwed, Reply, Empty, Message
<1>3. \A m : Has(fromQemu', m) <=> Has(fromQemu, m) \/ m = Empty
  BY <1>2, ReplyTypes, HasAppend DEF TypeOK
<1> QED
  BY <1>1, <1>2, <1>3, OwnAnswered

LEMMA OwnConclude ==
    ASSUME IInv, NEW i \in JobIds, Conclude(i),
           NEW r \in Runs, phase'[r] = "running", Scripted(op[r])
    PROVE  OwnOf(r)'
<1> USE DEF IInv
<1>1. /\ UNCHANGED <<phase, op, tag, step, monitor, toQemu, pending>>
      /\ job[i].status = "running" /\ job'[i].status \in {"good", "bad"}
      /\ \A j \in JobIds : j # i => job'[j] = job[j]
  BY ConcludeShape DEF clientVars
<1>2. phase[r] = "running" /\ monitor = r /\ OwnOf(r) /\ r \in JobIds /\ r # Nothing
  BY <1>1, SnapshotAssumption DEF Own, Wire, JobIds
<1>3. fromQemu' = Append(fromQemu, Event(i))
  BY <1>2, ConcludeShape
<1>4. \A m : Has(fromQemu', m) <=> Has(fromQemu, m) \/ m = Event(i)
  BY <1>3, ReplyTypes, HasAppend DEF TypeOK
<1>5. Event(i).kind = "event"
  BY EventKind
<1>6. Concluded(r) => job'[r] = job[r]
  BY <1>1, <1>2 DEF Concluded
<1>7. Started(r)'
  BY <1>1, <1>2 DEF OwnOf, Started
<1>8. Announced(r)'
  BY <1>1, <1>2, <1>4 DEF OwnOf, Announced, Concluded
<1>9. Awaited(r)' /\ Confirmed(r)'
  BY <1>1, <1>2, <1>6 DEF OwnOf, Awaited, Confirmed, Concluded
<1>10. Tabled(r)'
  BY <1>1, <1>2, <1>4, <1>5, <1>6 DEF OwnOf, Tabled, Concluded
<1>11. Stored(r)'
  <2>1. SUFFICES ASSUME op[r] = "save", job'[r].status = "good"
                 PROVE  disk'[tag[r]] = r
    BY <1>1 DEF Stored
  <2>2. tag[r] \in Tags /\ disk \in [Tags -> Runs \cup {Old, Nothing}]
    BY DEF TypeOK
  <2>3. CASE i = r
    <3>1. job[r].of = r /\ job[r].kind = "save" /\ job[r].tag = tag[r]
      BY <1>1, <2>1, <2>3, OwnJob
    <3>2. disk' = [disk EXCEPT ![tag[r]] = r]
      BY <2>1, <2>3, <3>1, ConcludeShape
    <3> QED
      BY <2>2, <3>2
  <2>4. CASE i # r
    <3>1. disk[tag[r]] = r
      BY <1>1, <1>2, <2>1, <2>4 DEF OwnOf, Stored
    <3>2. \/ disk' = disk
          \/ disk[job[i].tag] = Nothing /\ disk' = [disk EXCEPT ![job[i].tag] = job[i].of]
      BY ConcludeShape DEF Exists
    <3> QED
      BY <1>2, <2>2, <3>1, <3>2
  <2> QED
    BY <2>3, <2>4
<1> QED
  BY <1>7, <1>8, <1>9, <1>10, <1>11 DEF OwnOf

LEMMA OwnNext ==
    ASSUME IInv, [Next]_vars
    PROVE  Own'
<1> USE DEF IInv
<1>1. op' = op
  BY Fixed
<1>2. SUFFICES ASSUME NEW r \in Runs, phase'[r] = "running", Scripted(op[r])
               PROVE  OwnOf(r)'
  BY <1>1 DEF Own, Scripted
<1>3. CASE UNCHANGED vars
  <2>1. UNCHANGED <<phase, op, tag, step, toQemu, fromQemu, pending, job, disk>>
    BY <1>3 DEF vars, clientVars, wireVars, qemuVars
  <2>2. OwnOf(r)
    BY <1>2, <2>1 DEF Own
  <2> QED
    BY <2>1, <2>2 DEF OwnOf, Started, Announced, Awaited, Tabled, Confirmed, Stored, Concluded
<1> QED
  BY <1>2, <1>3, OwnConnect, OwnWrite, OwnRead, OwnExecute, OwnReplyOwed, OwnConclude, Steps

-----------------------------------------------------------------------------
(* The theorems.                                                           *)

LEMMA InitIInv == Init => IInv
<1> SUFFICES ASSUME Init PROVE IInv
  OBVIOUS
<1>1. \A r \in Runs : Len(Script(op[r])) \in Nat \ {0}
  <2>1. SUFFICES ASSUME NEW r \in Runs PROVE Len(Script(op[r])) \in Nat \ {0}
    OBVIOUS
  <2>2. CASE op[r] = "save"
    BY <2>2 DEF Script
  <2>3. CASE op[r] = "restore"
    BY <2>3 DEF Script
  <2>4. CASE op[r] = "delete"
    BY <2>4 DEF Script
  <2>5. CASE op[r] = "suspend"
    BY <2>5 DEF Script
  <2> QED
    BY <2>2, <2>3, <2>4, <2>5 DEF Init
<1>2. \A r \in Runs : step[r] \in 1..Len(Script(op[r]))
  BY <1>1 DEF Init
<1>3. TypeOK
  <2>1. NoJob \in [status : {"none", "running", "good", "bad"},
                  of : Runs \cup {Nothing}, kind : {"save", "load"}, tag : Tags]
    BY SnapshotAssumption DEF NoJob
  <2>2. job \in [JobIds -> [status : {"none", "running", "good", "bad"},
                           of : Runs \cup {Nothing}, kind : {"save", "load"}, tag : Tags]]
    BY <2>1 DEF Init
  <2>3. /\ toQemu \in Seq(Commands) /\ fromQemu \in Seq(Messages)
        /\ pending \in Seq(Messages)
    BY DEF Init
  <2>4. /\ phase \in [Runs -> {"new", "running", "ok", "failed", "killed"}]
        /\ step \in [Runs -> Nat] /\ waiting \in [Runs -> BOOLEAN]
        /\ monitor \in Runs \cup {Nothing} /\ owed \in BOOLEAN
        /\ disk \in [Tags -> Runs \cup {Old, Nothing}]
    BY DEF Init
  <2> QED
    BY <1>2, <2>2, <2>3, <2>4 DEF Init, TypeOK
<1>4. Wire
  BY SnapshotAssumption DEF Init, Wire
<1>5. Jobs
  BY DEF Init, Jobs, NoJob
<1>6. Events
  BY HasNone DEF Init, Events
<1>7. Own
  BY DEF Init, Own
<1> QED
  BY <1>3, <1>4, <1>5, <1>6, <1>7 DEF IInv

LEMMA NextIInv == ASSUME IInv, [Next]_vars PROVE IInv'
BY TypeNext, WireNext, JobsNext, EventsNext, OwnNext DEF IInv

LEMMA Invariance == Spec => []IInv
<1>1. IInv /\ [Next]_vars => IInv'
  BY NextIInv
<1> QED
  BY <1>1, InitIInv, PTL DEF Spec

\* Every reachable state is of its types.
THEOREM SnapTypeCorrect == Spec => []TypeOK
<1>1. IInv => TypeOK
  BY DEF IInv
<1> QED
  BY <1>1, Invariance, PTL

\* What a save or a restore reports is so: ReadsOrEnds is the only way to end
\* well, and the table of jobs or the confirmation was read by then.
LEMMA SuccessStep ==
    ASSUME IInv, [Next]_vars, NEW r \in Runs, phase[r] = "running", phase'[r] = "ok"
    PROVE  /\ op[r] = "save" => disk[tag[r]] = r
           /\ op[r] = "restore" => job[r].status = "good"
<1> USE DEF IInv
<1>1. Succeeds(r)
  <2>1. \E q \in Runs : Connect(q) \/ Write(q) \/ ReadsOrEnds(q)
    <3>1. phase' # phase
      OBVIOUS
    <3> QED
      BY <3>1, Steps DEF vars, clientVars, Execute, ReplyOwed, Conclude
  <2>2. ASSUME NEW q \in Runs, Connect(q)
        PROVE  FALSE
    BY <2>2 DEF Connect, TypeOK
  <2>3. ASSUME NEW q \in Runs, Write(q)
        PROVE  FALSE
    BY <2>3 DEF Write
  <2>4. ASSUME NEW q \in Runs, ReadsOrEnds(q)
        PROVE  Succeeds(r)
    <3>1. phase[q] = "running" /\ q = r
      BY <2>4 DEF ReadsOrEnds, Wire
    <3> QED
      BY <2>4, <3>1 DEF ReadsOrEnds, Reads, End, TypeOK
  <2> QED
    BY <2>1, <2>2, <2>3, <2>4
<1>2. CASE op[r] = "save"
  <2>1. step[r] = 6
    BY <1>1, <1>2, Doings DEF Succeeds
  <2>2. OwnOf(r)
    BY <1>2 DEF Own, Scripted
  <2> QED
    BY <1>2, <2>1, <2>2 DEF OwnOf, Confirmed, Stored
<1>3. CASE op[r] = "restore"
  <2>1. step[r] = 3
    BY <1>1, <1>3, Doings DEF Succeeds
  <2>2. Content(r)
    BY <1>1, <1>3, <2>1, Doings DEF Succeeds
  <2> QED
    BY <1>3, <2>2, ContentIsGood DEF Scripted
<1> QED
  BY <1>2, <1>3

\* A save that reports success has put its own state under its tag, and a
\* restore that does has been carried out, however replies and events came.
THEOREM SnapSuccessIsReal == Spec => SuccessIsReal
<1>1. IInv /\ [Next]_vars => [ReportsWhatIs]_vars
  BY SuccessStep DEF ReportsWhatIs
<1> QED
  BY <1>1, Invariance, PTL DEF Spec, SuccessIsReal

\* The event a process waits for is still on its way to it, or kept.
THEOREM SnapConclusionNotLost == Spec => []ConclusionNotLost
<1>1. ASSUME IInv PROVE ConclusionNotLost
  <2> USE <1>1 DEF IInv
  <2>1. SUFFICES ASSUME NEW r \in Runs, phase[r] = "running", Doing(r) = "await",
                        Concluded(r)
                 PROVE  Contains(pending \o fromQemu, Event(r))
    BY DEF ConclusionNotLost, Concluded, Event
  <2>2. Scripted(op[r])
    BY <2>1, Doings DEF Scripted, TypeOK
  <2>3. HasEvent(r)
    BY <2>1, <2>2, AwaitSteps DEF Own, OwnOf, Announced, HasEvent
  <2>4. pending \in Seq(Messages) /\ fromQemu \in Seq(Messages)
    BY DEF TypeOK
  <2> DEFINE s == pending \o fromQemu
  <2>5. /\ Len(s) = Len(pending) + Len(fromQemu)
        /\ \A i \in 1..Len(pending) : s[i] = pending[i]
        /\ \A i \in 1..Len(fromQemu) : s[Len(pending) + i] = fromQemu[i]
        /\ Len(pending) \in Nat /\ Len(fromQemu) \in Nat
    BY <2>4
  <2> HIDE DEF s
  <2>6. \E i \in 1..Len(s) : s[i] = Event(r)
    <3>1. CASE Has(pending, Event(r))
      BY <2>5, <3>1 DEF Has
    <3>2. CASE Has(fromQemu, Event(r))
      <4>1. PICK i \in 1..Len(fromQemu) : fromQemu[i] = Event(r)
        BY <3>2 DEF Has
      <4>2. Len(pending) + i \in 1..Len(s)
        BY <2>5
      <4> QED
        BY <2>5, <4>1, <4>2
    <3> QED
      BY <2>3, <3>1, <3>2 DEF HasEvent
  <2> QED
    BY <2>6 DEF Contains, s
<1> QED
  BY <1>1, Invariance, PTL
=============================================================================
