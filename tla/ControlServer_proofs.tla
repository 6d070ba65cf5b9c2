------------------------- MODULE ControlServer_proofs -------------------------
(***************************************************************************)
(* Proofs about ControlServer, for any set of callers, any number of       *)
(* daemons one after another and any number of requests.                   *)
(***************************************************************************)
EXTENDS ControlServer, TLAPS

Outcomes == {"denied", "completed"}

\* Where the daemon is, and whether it serves a caller there.
Place ==
    /\ at \in {"off", "accept"} => caller = NoCaller
    /\ at \in {"read", "send"} => caller \in Callers
    /\ at \in {"text", "newline"} => (record.event = "started" <=> caller = NoCaller)

\* Which request of its caller the daemon is dealing with.
Turn ==
    caller \in Callers =>
        /\ link[caller] = "serving"
        /\ at = "read" => Len(taken[caller]) = Len(replies[caller])
        /\ at # "read" => /\ Len(taken[caller]) = Len(replies[caller]) + 1
                          /\ Current # "malformed"
        /\ at \in {"text", "newline"} =>
              /\ record.by = caller /\ record.n = Len(taken[caller])
              /\ record.event = "completed" => Current = "allowed"
              /\ record.event = "denied" => Current = "refused"

\* Nothing has been taken from a caller who waits, and each waits once.
Fresh == \A c \in Callers : link[c] \in {"new", "pending"} => taken[c] = <<>> /\ replies[c] = <<>>

Queue ==
    /\ \A i \in 1..Len(backlog) : link[backlog[i]] = "pending"
    /\ \A i, j \in 1..Len(backlog) : backlog[i] = backlog[j] => i = j

Session == Turn /\ Fresh /\ Queue

\* No outcome of the request stands in the journal yet.
Undecided(c, n) ==
    \A i \in 1..Len(journal) :
        journal[i].event \in Outcomes => journal[i].by # c \/ journal[i].n # n

Attempted(c, n) == \E i \in 1..Len(journal) : journal[i] = Record("request", c, n)

\* The records are of requests that were taken.
Known ==
    \A i \in 1..Len(journal) :
        journal[i].event \in Outcomes \cup {"request"} =>
            journal[i].by \in Callers /\ journal[i].n \in 1..Len(taken[journal[i].by])

\* The record being appended is the attempt, or the one outcome, of its request.
Underway ==
    /\ at \in {"text", "newline"} /\ record.event = "request" =>
          Undecided(record.by, record.n)
    /\ at = "newline" /\ record.event = "request" => Attempted(record.by, record.n)
    /\ at = "text" /\ record.event \in Outcomes =>
          Undecided(record.by, record.n) /\ Attempted(record.by, record.n)

\* A record on a line of its own that is finished, and so will stay.
OnLine(r) ==
    \E i \in 1..(Len(journal) - 1) :
        /\ journal[i] = r
        /\ i = 1 \/ journal[i - 1] = Newline
        /\ journal[i + 1] = Newline

\* The record of an outcome follows a newline, that of its attempt, and is followed
\* by its own before the reply.
Lines ==
    /\ at = "text" /\ record.event \in Outcomes =>
          Len(journal) > 0 /\ journal[Len(journal)] = Newline
    /\ at = "newline" /\ record.event \in Outcomes =>
          /\ Len(journal) > 1
          /\ journal[Len(journal)] = record
          /\ journal[Len(journal) - 1] = Newline
    /\ at = "send" /\ Current = "allowed" =>
          OnLine(Record("completed", caller, Len(taken[caller])))
    /\ at = "send" /\ Current = "refused" =>
          OnLine(Record("denied", caller, Len(taken[caller])))

Told ==
    \A c \in Callers : \A i \in 1..Len(replies[c]) :
        /\ replies[c][i] = "done" => OnLine(Record("completed", c, i))
        /\ replies[c][i] = "denied" => OnLine(Record("denied", c, i))

IInv == TypeOK /\ Place /\ Session /\ Known /\ Underway /\ AttemptBeforeOutcome
        /\ Lines /\ Told

-----------------------------------------------------------------------------
LEMMA InitIInv == Init => IInv
<1> SUFFICES ASSUME Init PROVE IInv
  OBVIOUS
<1> USE ControlAssumption
<1>1. TypeOK
  BY DEF Init, TypeOK, StartedRecord, Record, Events
<1>2. Place /\ Session
  BY DEF Init, Place, Session, Turn, Fresh, Queue
<1>3. Known /\ Underway /\ AttemptBeforeOutcome
  BY DEF Init, Known, Underway, AttemptBeforeOutcome
<1>4. Lines /\ Told
  BY DEF Init, Lines, Told
<1> QED
  BY <1>1, <1>2, <1>3, <1>4 DEF IInv

-----------------------------------------------------------------------------
(* What the pieces of the state are.                                       *)

LEMMA FragmentType ==
    ASSUME TypeOK PROVE record \in Fragments /\ Newline \in Fragments /\ Torn \in Fragments
BY DEF TypeOK, Fragments, Newline, Torn, Record

LEMMA GrowthType ==
    ASSUME TypeOK, NEW x \in Fragments, journal' \in {journal, Append(journal, x)}
    PROVE  journal' \in Seq(Fragments)
<1>1. journal \in Seq(Fragments)
  BY DEF TypeOK
<1>2. Append(journal, x) \in Seq(Fragments)
  BY <1>1
<1> QED
  BY <1>1, <1>2

Answers == {"ready", "done", "denied", "malformed"}

LEMMA RepliesType ==
    ASSUME TypeOK, NEW told \in Answers,
           replies' = [replies EXCEPT ![caller] = Append(@, told)]
    PROVE  replies' \in [Callers -> Seq(Answers)]
<1>1. replies \in [Callers -> Seq(Answers)]
  BY DEF TypeOK, Answers
<1>2. \A c \in Callers : Append(replies[c], told) \in Seq(Answers)
  BY <1>1
<1> QED
  BY <1>1, <1>2

LEMMA StartedType == StartedRecord \in [event : Events, by : Callers \cup {NoCaller}, n : Nat]
BY DEF StartedRecord, Record, Events

LEMMA ExitType == ASSUME TypeOK, Exit
                  PROVE  /\ at' = "off" /\ caller' = NoCaller /\ backlog' \in Seq(Callers)
                         /\ link' \in [Callers -> {"new", "pending", "serving", "closed"}]
BY DEF TypeOK, Exit

LEMMA EndSessionType ==
    ASSUME TypeOK, caller \in Callers, EndSession
    PROVE  /\ at' = "accept" /\ caller' = NoCaller
           /\ link' \in [Callers -> {"new", "pending", "serving", "closed"}]
BY DEF TypeOK, EndSession

-----------------------------------------------------------------------------
LEMMA TypeStep == ASSUME IInv, [Next]_vars PROVE TypeOK'
<1> USE ControlAssumption DEF IInv, callerVars
<1>1. ASSUME NEW c \in Callers, Connect(c) PROVE TypeOK'
  BY <1>1 DEF Connect, TypeOK
<1>2. ASSUME NEW c \in Callers, NEW k \in Kinds, SendRequest(c, k) PROVE TypeOK'
  BY <1>2 DEF SendRequest, TypeOK
<1>3. ASSUME NEW c \in Callers, HangUp(c) PROVE TypeOK'
  BY <1>3 DEF HangUp, TypeOK
<1>4. CASE Start
  BY <1>4, StartedType DEF Start, TypeOK
<1>5. CASE Accept
  BY <1>5 DEF Accept, TypeOK
<1>6. CASE Take
  <2> DEFINE kind == Head(inbox[caller])
  <2>1. caller \in Callers /\ inbox[caller] # <<>>
    BY <1>6 DEF Take, TakeAnd, Place
  <2>2. kind \in Kinds /\ inbox' \in [Callers -> Seq(Kinds)]
    BY <1>6, <2>1 DEF Take, TakeAnd, TypeOK
  <2>3. taken' \in [Callers -> Seq(Kinds)]
    BY <1>6, <2>1, <2>2 DEF Take, TakeAnd, TypeOK
  <2>4. CASE kind = "malformed"
    <3>1. replies' \in [Callers -> Seq(Answers)]
      BY <1>6, <2>4, RepliesType DEF Take, TakeAnd, Answers
    <3> QED
      BY <1>6, <2>1, <2>2, <2>3, <2>4, <3>1, EndSessionType DEF Take, TakeAnd, TypeOK, Answers
  <2>5. CASE kind # "malformed"
    <3>1. record' \in [event : Events, by : Callers \cup {NoCaller}, n : Nat]
      BY <1>6, <2>1, <2>5 DEF Take, TakeAnd, TypeOK, Record, Events
    <3> QED
      BY <1>6, <2>2, <2>3, <2>5, <3>1 DEF Take, TakeAnd, TypeOK
  <2> QED
    BY <2>4, <2>5
<1>7. CASE Disconnected
  BY <1>7, EndSessionType DEF Disconnected, Place, TypeOK
<1>8. CASE Reply
  <2>1. replies' \in [Callers -> Seq(Answers)]
    BY <1>8, RepliesType DEF Reply, ReplyWith, TypeOK, Answers
  <2> QED
    BY <1>8, <2>1, EndSessionType DEF Reply, ReplyWith, Place, TypeOK, Answers
<1>9. CASE WriteText
  BY <1>9, FragmentType DEF WriteText, TypeOK
<1>10. CASE WriteNewline
  <2>1. journal' \in Seq(Fragments)
    BY <1>10, FragmentType DEF WriteNewline, WriteNewlineThen, TypeOK
  <2>2. record' \in [event : Events, by : Callers \cup {NoCaller}, n : Nat]
    BY <1>10 DEF WriteNewline, WriteNewlineThen, Outcome, TypeOK, Events
  <2> QED
    BY <1>10, <2>1, <2>2 DEF WriteNewline, WriteNewlineThen, TypeOK
<1>11. CASE AppendFails
  <2>1. journal' \in Seq(Fragments)
    BY <1>11, FragmentType, GrowthType DEF AppendFails
  <2>2. CASE record.event = "started"
    BY <1>11, <2>1, <2>2, ExitType DEF AppendFails, TypeOK
  <2>3. CASE record.event # "started"
    <3>1. caller \in Callers
      BY <1>11, <2>3 DEF AppendFails, Place, TypeOK
    <3> QED
      BY <1>11, <2>1, <2>3, <3>1, EndSessionType DEF AppendFails, TypeOK
  <2> QED
    BY <2>2, <2>3
<1>12. CASE Crash
  <2>1. journal' \in Seq(Fragments)
    BY <1>12, FragmentType, GrowthType DEF Crash
  <2> QED
    BY <1>12, <2>1, ExitType DEF Crash, TypeOK
<1>13. CASE UNCHANGED vars
  BY <1>13 DEF vars, TypeOK
<1> QED
  BY <1>1, <1>2, <1>3, <1>4, <1>5, <1>6, <1>7, <1>8, <1>9, <1>10, <1>11, <1>12, <1>13
  DEF Next, DaemonStep

-----------------------------------------------------------------------------
LEMMA PlaceStep == ASSUME IInv, [Next]_vars PROVE Place'
<1> USE ControlAssumption DEF IInv, callerVars, TypeOK, Place
<1>1. ASSUME NEW c \in Callers, Connect(c) \/ HangUp(c) \/ \E k \in Kinds : SendRequest(c, k)
      PROVE  Place'
  BY <1>1 DEF Connect, HangUp, SendRequest
<1>2. CASE Start
  BY <1>2 DEF Start, StartedRecord, Record
<1>3. CASE Accept
  BY <1>3 DEF Accept
<1>4. CASE Take
  BY <1>4 DEF Take, TakeAnd, EndSession, Record
<1>5. CASE Disconnected \/ Reply
  BY <1>5 DEF Disconnected, Reply, ReplyWith, EndSession
<1>6. CASE WriteText
  BY <1>6 DEF WriteText
<1>7. CASE WriteNewline
  BY <1>7 DEF WriteNewline, WriteNewlineThen, Outcome, Events
<1>8. CASE AppendFails \/ Crash
  BY <1>8 DEF AppendFails, Crash, EndSession, Exit
<1>9. CASE UNCHANGED vars
  BY <1>9 DEF vars
<1> QED
  BY <1>1, <1>2, <1>3, <1>4, <1>5, <1>6, <1>7, <1>8, <1>9 DEF Next, DaemonStep

\* A session that ends, or a process that does, leaves the callers who wait as they are.
LEMMA EndSessionKeeps ==
    ASSUME IInv, caller \in Callers, EndSession, backlog' = backlog,
           \A c \in Callers \ {caller} : taken'[c] = taken[c] /\ replies'[c] = replies[c]
    PROVE  Session'
<1> USE ControlAssumption DEF IInv, Session
<1>1. Turn' /\ Fresh'
  BY DEF EndSession, TypeOK, Turn, Fresh
<1>2. \A c \in Callers \ {caller} : link'[c] = link[c]
  BY DEF EndSession, TypeOK
<1>3. \A i \in 1..Len(backlog) : backlog[i] \in Callers
  BY DEF TypeOK
<1>4. link[caller] = "serving"
  BY DEF Turn
<1>5. Queue'
  <2>1. \A i \in 1..Len(backlog) : link'[backlog[i]] = "pending"
    BY <1>2, <1>3, <1>4 DEF Queue
  <2> QED
    BY <2>1 DEF Queue
<1> QED
  BY <1>1, <1>5

LEMMA ExitKeeps ==
    ASSUME IInv, Exit, UNCHANGED <<taken, replies>>
    PROVE  Session'
BY ControlAssumption DEF IInv, TypeOK, Session, Exit, Turn, Fresh, Queue

LEMMA SessionStep == ASSUME IInv, [Next]_vars PROVE Session'
<1> USE ControlAssumption DEF IInv, callerVars, Session
<1>1. ASSUME NEW c \in Callers, Connect(c) PROVE Session'
  <2>1. link[c] = "new" /\ c # caller /\ \A i \in 1..Len(backlog) : backlog[i] # c
    BY <1>1 DEF Connect, Turn, Queue
  <2>2. Turn'
    BY <1>1, <2>1 DEF Connect, TypeOK, Turn, Current
  <2>3. Fresh'
    BY <1>1, <2>1 DEF Connect, TypeOK, Fresh
  <2>4. /\ Len(backlog') = Len(backlog) + 1 /\ backlog'[Len(backlog) + 1] = c
        /\ \A i \in 1..Len(backlog) : backlog'[i] = backlog[i] /\ backlog[i] \in Callers
        /\ link' = [link EXCEPT ![c] = "pending"]
    BY <1>1 DEF Connect, TypeOK
  <2>5. 1..Len(backlog') = 1..Len(backlog) \cup {Len(backlog) + 1}
    <3>1. Len(backlog) \in Nat
      BY DEF TypeOK
    <3> QED
      BY <2>4, <3>1
  <2>6. \A i \in 1..Len(backlog') : link'[backlog'[i]] = "pending"
    <3>1. link'[c] = "pending" /\ \A d \in Callers \ {c} : link'[d] = link[d]
      BY <2>4 DEF TypeOK
    <3> QED
      BY <2>1, <2>4, <2>5, <3>1 DEF Queue
  <2>7. \A i, j \in 1..Len(backlog') : backlog'[i] = backlog'[j] => i = j
    BY <2>1, <2>4, <2>5 DEF Queue
  <2> QED
    BY <2>2, <2>3, <2>6, <2>7 DEF Queue
<1>2. ASSUME NEW c \in Callers, HangUp(c) \/ \E k \in Kinds : SendRequest(c, k)
      PROVE  Session'
  <2>1. UNCHANGED <<at, record, caller, backlog, link, taken, replies>>
    BY <1>2 DEF HangUp, SendRequest
  <2> QED
    BY <2>1 DEF Turn, Fresh, Queue, Current
<1>3. CASE Start
  BY <1>3 DEF Start, Place, Turn, Fresh, Queue
<1>4. CASE Accept
  <2>1. /\ caller' = backlog[1] /\ caller' \in Callers
        /\ link' = [link EXCEPT ![caller'] = "serving"]
        /\ UNCHANGED <<taken, replies>> /\ at' = "read"
    BY <1>4 DEF Accept, TypeOK
  <2>2. link[caller'] = "pending"
    BY <1>4, <2>1 DEF Accept, TypeOK, Queue
  <2>3. Turn' /\ Fresh'
    BY <2>1, <2>2 DEF TypeOK, Turn, Fresh
  <2>4. /\ Len(backlog') = Len(backlog) - 1
        /\ \A i \in 1..Len(backlog') : backlog'[i] = backlog[i + 1]
        /\ \A i \in 1..Len(backlog) : backlog[i] \in Callers
    BY <1>4 DEF Accept, TypeOK
  <2>5. \A i \in 1..Len(backlog') : backlog'[i] # caller'
    BY <1>4, <2>1, <2>4 DEF Accept, TypeOK, Queue
  <2>6. \A i \in 1..Len(backlog') : i + 1 \in 1..Len(backlog)
    BY <2>4 DEF TypeOK
  <2>7. \A i \in 1..Len(backlog') : link'[backlog'[i]] = "pending"
    <3>1. \A i \in 1..Len(backlog') : /\ backlog'[i] \in Callers \ {caller'}
                                      /\ link[backlog'[i]] = "pending"
      BY <2>4, <2>5, <2>6 DEF Queue
    <3> QED
      BY <2>1, <3>1 DEF TypeOK
  <2>8. \A i, j \in 1..Len(backlog') : backlog'[i] = backlog'[j] => i = j
    <3> SUFFICES ASSUME NEW i \in 1..Len(backlog'), NEW j \in 1..Len(backlog'),
                        backlog'[i] = backlog'[j]
                 PROVE  i + 1 = j + 1
      OBVIOUS
    <3> QED
      BY <2>4, <2>6 DEF Queue
  <2> QED
    BY <2>3, <2>7, <2>8 DEF Queue
<1>5. CASE Take
  <2> DEFINE kind == Head(inbox[caller])
  <2>1. caller \in Callers /\ taken' = [taken EXCEPT ![caller] = Append(@, kind)]
    BY <1>5 DEF Take, TakeAnd, Place
  <2>2. CASE kind = "malformed"
    <3>1. EndSession /\ backlog' = backlog
      BY <1>5, <2>2 DEF Take, TakeAnd
    <3>2. \A c \in Callers \ {caller} : taken'[c] = taken[c] /\ replies'[c] = replies[c]
      BY <1>5, <2>1, <2>2 DEF Take, TakeAnd, TypeOK
    <3> QED
      BY <2>1, <3>1, <3>2, EndSessionKeeps
  <2>3. CASE kind # "malformed"
    <3>1. /\ Len(taken'[caller]) = Len(taken[caller]) + 1
          /\ taken'[caller][Len(taken[caller]) + 1] = kind
          /\ \A c \in Callers \ {caller} : taken'[c] = taken[c]
      BY <2>1 DEF TypeOK
    <3>2. Len(taken[caller]) = Len(replies[caller])
      BY <1>5, <2>1 DEF Take, TakeAnd, Turn
    <3>3. record' = Record("request", caller, Len(taken[caller]) + 1)
      BY <1>5, <2>3 DEF Take, TakeAnd
    <3>4. at' = "text" /\ UNCHANGED <<caller, link, replies, backlog>>
      BY <1>5, <2>3 DEF Take, TakeAnd
    <3>5. link[caller] = "serving"
      BY <2>1 DEF Turn
    <3>6. Turn'
      BY <2>1, <2>3, <3>1, <3>2, <3>3, <3>4, <3>5 DEF Turn, Current, Last, Record
    <3>7. Fresh' /\ Queue'
      BY <3>1, <3>4, <3>5 DEF Fresh, Queue
    <3> QED
      BY <3>6, <3>7
  <2> QED
    BY <2>2, <2>3
<1>6. CASE Disconnected
  BY <1>6, EndSessionKeeps DEF Disconnected, Place
<1>7. CASE Reply
  <2> DEFINE told == CASE Current = "hello"   -> "ready"
                       [] Current = "allowed" -> "done"
                       [] OTHER               -> "denied"
  <2>1. caller \in Callers
    BY <1>7 DEF Reply, ReplyWith, Place
  <2>2. CASE at' = "read"
    <3>1. replies' = [replies EXCEPT ![caller] = Append(@, told)]
      BY <1>7, <2>2 DEF Reply, ReplyWith, EndSession
    <3>2. /\ Len(replies'[caller]) = Len(replies[caller]) + 1
          /\ \A c \in Callers \ {caller} : replies'[c] = replies[c]
      BY <2>1, <3>1 DEF TypeOK
    <3>3. Len(taken[caller]) = Len(replies[caller]) + 1
      BY <1>7, <2>1 DEF Reply, ReplyWith, Turn
    <3>4. UNCHANGED <<caller, link, taken, backlog>>
      BY <1>7, <2>2 DEF Reply, ReplyWith, EndSession
    <3> QED
      BY <2>1, <2>2, <3>2, <3>3, <3>4 DEF Turn, Fresh, Queue
  <2>3. CASE at' # "read"
    BY <1>7, <2>1, <2>3, EndSessionKeeps DEF Reply, ReplyWith
  <2> QED
    BY <2>2, <2>3
<1>8. CASE WriteText
  BY <1>8 DEF WriteText, Turn, Fresh, Queue, Current
<1>9. CASE WriteNewline
  <2>1. /\ Turn => Turn' \/ record' # record
        /\ UNCHANGED <<caller, link, taken, replies, backlog>>
    BY <1>9 DEF WriteNewline, WriteNewlineThen, Turn, Current, TypeOK
  <2>2. Fresh' /\ Queue'
    BY <2>1 DEF Fresh, Queue
  <2>3. CASE record' = record
    BY <2>1, <2>2, <2>3
  <2>4. CASE record' # record
    <3>1. /\ record' = [record EXCEPT !.event = Outcome(Current)]
          /\ Outcome(Current) # "none" /\ at' = "text" /\ at = "newline"
      BY <1>9, <2>4 DEF WriteNewline, WriteNewlineThen
    <3>2. /\ record'.by = record.by /\ record'.n = record.n
          /\ record'.event = Outcome(Current)
      BY <3>1 DEF TypeOK
    <3>3. Current' = Current
      BY <2>1 DEF Current
    <3>4. Turn'
      <4> SUFFICES ASSUME caller \in Callers PROVE Turn'
        BY <2>1 DEF Turn
      <4>1. Current \in Kinds \ {"malformed"}
        BY <3>1 DEF Turn, TypeOK, Current, Last
      <4>2. /\ Outcome(Current) = "completed" => Current = "allowed"
            /\ Outcome(Current) = "denied" => Current = "refused"
        BY <4>1 DEF Outcome, Kinds
      <4> QED
        BY <2>1, <3>1, <3>2, <3>3, <4>2 DEF Turn
    <3> QED
      BY <2>2, <3>4
  <2> QED
    BY <2>3, <2>4
<1>10. CASE AppendFails
  <2>1. CASE record.event = "started"
    BY <1>10, <2>1, ExitKeeps DEF AppendFails
  <2>2. CASE record.event # "started"
    BY <1>10, <2>2, EndSessionKeeps DEF AppendFails, Place, TypeOK
  <2> QED
    BY <2>1, <2>2
<1>11. CASE Crash
  BY <1>11, ExitKeeps DEF Crash
<1>12. CASE UNCHANGED vars
  BY <1>12 DEF vars, Turn, Fresh, Queue, Current
<1> QED
  BY <1>1, <1>2, <1>3, <1>4, <1>5, <1>6, <1>7, <1>8, <1>9, <1>10, <1>11, <1>12
  DEF Next, DaemonStep

-----------------------------------------------------------------------------
(* The journal only grows, and what it has grown by is known.              *)

\* A step that leaves the journal, or adds a newline or a torn record to it.
Blank == journal' \in {journal, Append(journal, Newline), Append(journal, Torn)}

TakenGrows == \A c \in Callers : Len(taken'[c]) >= Len(taken[c])

\* The entries of the journal after an append.
LEMMA AppendEffect ==
    ASSUME TypeOK, NEW x \in Fragments, journal' = Append(journal, x)
    PROVE  /\ Len(journal) \in Nat
           /\ Len(journal') = Len(journal) + 1
           /\ 1..Len(journal') = 1..Len(journal) \cup {Len(journal) + 1}
           /\ \A i \in 1..Len(journal) : journal'[i] = journal[i]
           /\ journal'[Len(journal) + 1] = x
<1>1. journal \in Seq(Fragments)
  BY DEF TypeOK
<1> QED
  BY <1>1

\* After a step that adds nothing but blanks every record is an old one, where it was.
LEMMA BlankEffect ==
    ASSUME TypeOK, Blank
    PROVE  /\ \A i \in 1..Len(journal') :
                 \/ i \in 1..Len(journal) /\ journal'[i] = journal[i]
                 \/ i = Len(journal) + 1 /\ journal'[i] \in {Newline, Torn}
           /\ \A i \in 1..Len(journal) : i \in 1..Len(journal') /\ journal'[i] = journal[i]
<1>1. CASE journal' = journal
  BY <1>1
<1>2. CASE journal' = Append(journal, Newline)
  BY <1>2, FragmentType, AppendEffect
<1>3. CASE journal' = Append(journal, Torn)
  BY <1>3, FragmentType, AppendEffect
<1> QED
  BY <1>1, <1>2, <1>3 DEF Blank

LEMMA TakenStep == ASSUME IInv, [Next]_vars PROVE TakenGrows
<1> USE DEF IInv, callerVars
<1>1. CASE Take
  <2>1. caller \in Callers /\ taken' = [taken EXCEPT ![caller] = Append(@, Head(inbox[caller]))]
    BY <1>1 DEF Take, TakeAnd, Place
  <2>2. taken \in [Callers -> Seq(Kinds)] /\ Head(inbox[caller]) \in Kinds
    BY <1>1, <2>1 DEF Take, TakeAnd, TypeOK
  <2> QED
    BY <2>1, <2>2 DEF TakenGrows
<1>2. CASE taken' = taken
  BY <1>2 DEF TakenGrows, TypeOK
<1> QED
  BY <1>1, <1>2 DEF Next, DaemonStep, vars, Connect, SendRequest, HangUp, Start, Accept,
     Disconnected, Reply, ReplyWith, WriteText, WriteNewline, WriteNewlineThen, AppendFails, Crash

LEMMA BlankStep == ASSUME [Next]_vars, ~WriteText PROVE Blank
BY DEF Blank, Next, DaemonStep, vars, callerVars, Connect, SendRequest, HangUp, Start, Accept,
   Take, TakeAnd, Disconnected, Reply, ReplyWith, WriteNewline, WriteNewlineThen, AppendFails, Crash

\* Blanks are no records.
LEMMA NoRecord == Newline.event = "newline" /\ Torn.event = "torn"
BY DEF Newline, Torn, Record

\* The record that WriteText appends is one of the session's own request, or a start.
LEMMA TextOf ==
    ASSUME IInv, WriteText
    PROVE  /\ journal' = Append(journal, record) /\ taken' = taken /\ record' = record
           /\ record.event \in Outcomes \cup {"request"} =>
                 /\ caller \in Callers /\ record.by = caller
                 /\ record.n = Len(taken[caller]) /\ record.n \in Nat \ {0}
<1>1. record.event \in Outcomes \cup {"request"} => caller \in Callers
  BY DEF IInv, TypeOK, Place, WriteText, Outcomes
<1>2. caller \in Callers => Len(taken[caller]) \in Nat /\ Len(replies[caller]) \in Nat
  BY DEF IInv, TypeOK
<1> QED
  BY <1>1, <1>2 DEF IInv, Session, Turn, WriteText, callerVars

LEMMA KnownStep == ASSUME IInv, [Next]_vars PROVE Known'
<1> USE DEF IInv
<1>1. CASE WriteText
  <2>1. /\ record.event \in Outcomes \cup {"request"} =>
              record.by \in Callers /\ record.n \in 1..Len(taken[record.by])
        /\ taken' = taken
    BY <1>1, TextOf
  <2> QED
    BY <1>1, <2>1, TextOf, FragmentType, AppendEffect DEF Known
<1>2. CASE ~WriteText
  <2>1. Blank /\ TakenGrows
    BY <1>2, BlankStep, TakenStep
  <2>2. \A c \in Callers : Len(taken[c]) \in Nat /\ Len(taken'[c]) \in Nat
    <3>1. TypeOK /\ TypeOK'
      BY TypeStep
    <3>2. taken \in [Callers -> Seq(Kinds)] /\ taken' \in [Callers -> Seq(Kinds)]
      BY <3>1 DEF TypeOK
    <3> QED
      BY <3>2
  <2> QED
    BY <2>1, <2>2, BlankEffect, NoRecord DEF Known, TakenGrows, Outcomes
<1> QED
  BY <1>1, <1>2

LEMMA OrderStep == ASSUME IInv, [Next]_vars PROVE AttemptBeforeOutcome'
<1> USE DEF IInv
<1>1. CASE WriteText
  <2>1. record.event \in Outcomes =>
            Undecided(record.by, record.n) /\ Attempted(record.by, record.n)
    BY <1>1 DEF WriteText, Underway
  <2>2. /\ Len(journal) \in Nat
        /\ 1..Len(journal') = 1..Len(journal) \cup {Len(journal) + 1}
        /\ \A i \in 1..Len(journal) : journal'[i] = journal[i]
        /\ journal'[Len(journal) + 1] = record
    BY <1>1, TextOf, FragmentType, AppendEffect
  <2> DEFINE Ordered(i) ==
          /\ \E j \in 1..(i - 1) :
                journal'[j] = Record("request", journal'[i].by, journal'[i].n)
          /\ \A j \in 1..(i - 1) :
                journal'[j].event \in Outcomes =>
                    <<journal'[j].by, journal'[j].n>> # <<journal'[i].by, journal'[i].n>>
  <2>3. ASSUME NEW i \in 1..Len(journal), journal'[i].event \in Outcomes PROVE Ordered(i)
    <3>1. journal'[i] = journal[i] /\ \A j \in 1..(i - 1) : journal'[j] = journal[j]
      BY <2>2
    <3>2. /\ \E j \in 1..(i - 1) :
                journal[j] = Record("request", journal[i].by, journal[i].n)
          /\ \A j \in 1..(i - 1) :
                journal[j].event \in Outcomes =>
                    <<journal[j].by, journal[j].n>> # <<journal[i].by, journal[i].n>>
      BY <2>2, <2>3 DEF AttemptBeforeOutcome, Outcomes
    <3> QED
      BY <3>1, <3>2
  <2>4. ASSUME record.event \in Outcomes PROVE Ordered(Len(journal) + 1)
    BY <2>1, <2>2, <2>4 DEF Undecided, Attempted
  <2> QED
    BY <2>2, <2>3, <2>4 DEF AttemptBeforeOutcome, Outcomes
<1>2. CASE ~WriteText
  BY <1>2, BlankStep, BlankEffect, NoRecord DEF AttemptBeforeOutcome
<1> QED
  BY <1>1, <1>2

\* What stood in the journal before blanks were added still does, and no more.
LEMMA BlankKeeps ==
    ASSUME TypeOK, Blank, NEW c, NEW n
    PROVE  /\ Undecided(c, n) => Undecided(c, n)'
           /\ Attempted(c, n) => Attempted(c, n)'
BY BlankEffect, NoRecord DEF Undecided, Attempted, Outcomes

LEMMA UnderwayStep == ASSUME IInv, [Next]_vars PROVE Underway'
<1> USE DEF IInv, callerVars
<1>1. ASSUME at' = at, record' = record, Blank PROVE Underway'
  BY <1>1, BlankKeeps DEF Underway
<1>2. ASSUME NEW c \in Callers, Connect(c) \/ HangUp(c) \/ \E k \in Kinds : SendRequest(c, k)
      PROVE  Underway'
  BY <1>1, <1>2 DEF Connect, HangUp, SendRequest, Blank
<1>3. CASE Start
  BY <1>3 DEF Start, Underway, StartedRecord, Record, Outcomes
<1>4. CASE Take
  <2>1. CASE at' # "text"
    BY <1>4, <2>1 DEF Take, TakeAnd, EndSession, Underway
  <2>2. CASE at' = "text"
    <3>1. /\ caller \in Callers /\ journal' = journal
          /\ record' = Record("request", caller, Len(taken[caller]) + 1)
      BY <1>4, <2>2 DEF Take, TakeAnd, EndSession, Place
    <3>2. Undecided(caller, Len(taken[caller]) + 1)
      BY <3>1 DEF Known, Undecided, TypeOK
    <3> QED
      BY <2>2, <3>1, <3>2 DEF Underway, Undecided, Record, Outcomes
  <2> QED
    BY <2>1, <2>2
<1>5. CASE WriteText
  <2>1. /\ at = "text" /\ at' = "newline" /\ record' = record
        /\ record = [event |-> record.event, by |-> record.by, n |-> record.n]
    BY <1>5 DEF WriteText, TypeOK
  <2>2. CASE record.event = "request"
    <3>1. Undecided(record.by, record.n)
      BY <2>1, <2>2 DEF Underway
    <3>2. Undecided(record.by, record.n)'
      BY <1>5, <2>2, <3>1, TextOf, FragmentType, AppendEffect DEF Undecided, Outcomes
    <3>3. Attempted(record.by, record.n)'
      BY <1>5, <2>1, <2>2, TextOf, FragmentType, AppendEffect DEF Attempted, Record
    <3> QED
      BY <2>1, <2>2, <3>2, <3>3 DEF Underway, Outcomes
  <2> QED
    BY <2>1, <2>2 DEF Underway
<1>6. CASE WriteNewline
  <2>1. CASE at' # "text"
    BY <1>6, <2>1 DEF WriteNewline, WriteNewlineThen, Underway
  <2>2. CASE at' = "text"
    <3>1. /\ at = "newline" /\ record.event = "request"
          /\ record' = [record EXCEPT !.event = Outcome(Current)]
      BY <1>6, <2>2 DEF WriteNewline, WriteNewlineThen
    <3>2. /\ record'.by = record.by /\ record'.n = record.n
          /\ record'.event = Outcome(Current) /\ Outcome(Current) # "request"
      BY <3>1 DEF TypeOK, Outcome
    <3>3. Undecided(record.by, record.n) /\ Attempted(record.by, record.n)
      BY <3>1 DEF Underway
    <3>4. Blank
      BY <1>6 DEF WriteNewline, WriteNewlineThen, Blank
    <3> QED
      BY <2>2, <3>2, <3>3, <3>4, BlankKeeps DEF Underway, Outcomes
  <2> QED
    BY <2>1, <2>2
<1>7. CASE Accept \/ Disconnected \/ Reply \/ AppendFails \/ Crash
  BY <1>7 DEF Accept, Disconnected, Reply, ReplyWith, AppendFails, Crash, EndSession, Exit, Underway
<1>8. CASE UNCHANGED vars
  BY <1>1, <1>8 DEF vars, Blank
<1> QED
  BY <1>2, <1>3, <1>4, <1>5, <1>6, <1>7, <1>8 DEF Next, DaemonStep

-----------------------------------------------------------------------------
(* From the journal to the caller.                                         *)

LEMMA GrowthStep ==
    ASSUME IInv, [Next]_vars
    PROVE  \/ journal' = journal
           \/ \E x \in Fragments : journal' = Append(journal, x)
BY BlankStep, FragmentType DEF IInv, WriteText, Blank

\* A finished line stays.
LEMMA OnLineStays ==
    ASSUME IInv, [Next]_vars, NEW r, OnLine(r)
    PROVE  OnLine(r)'
<1>1. CASE journal' = journal
  BY <1>1 DEF OnLine
<1>2. CASE \E x \in Fragments : journal' = Append(journal, x)
  <2>1. PICK i \in 1..(Len(journal) - 1) : /\ journal[i] = r
                                           /\ i = 1 \/ journal[i - 1] = Newline
                                           /\ journal[i + 1] = Newline
    BY DEF OnLine
  <2>2. TypeOK
    BY DEF IInv
  <2>3. /\ i \in 1..(Len(journal') - 1)
        /\ journal'[i] = journal[i] /\ journal'[i + 1] = journal[i + 1]
        /\ i # 1 => journal'[i - 1] = journal[i - 1]
    BY <1>2, <2>2, AppendEffect
  <2>4. /\ journal'[i] = r
        /\ i = 1 \/ journal'[i - 1] = Newline
        /\ journal'[i + 1] = Newline
    BY <2>1, <2>3
  <2> QED
    BY <2>3, <2>4 DEF OnLine
<1> QED
  BY <1>1, <1>2, GrowthStep

LEMMA LinesStep == ASSUME IInv, [Next]_vars PROVE Lines'
<1> USE DEF IInv, callerVars
<1>1. ASSUME UNCHANGED <<at, record, caller, taken, journal>> PROVE Lines'
  BY <1>1 DEF Lines, Current, OnLine
<1>2. ASSUME at' \in {"off", "accept", "read"} \/ (at' = "text" /\ record'.event \notin Outcomes)
      PROVE  Lines'
  BY <1>2 DEF Lines
<1>3. ASSUME NEW c \in Callers, Connect(c) \/ HangUp(c) \/ \E k \in Kinds : SendRequest(c, k)
      PROVE  Lines'
  BY <1>1, <1>3 DEF Connect, HangUp, SendRequest
<1>4. CASE Start \/ Take
  BY <1>2, <1>4 DEF Start, StartedRecord, Take, TakeAnd, EndSession, Record, Outcomes
<1>5. CASE Accept \/ Disconnected \/ Reply \/ AppendFails \/ Crash
  BY <1>2, <1>5 DEF Accept, Disconnected, Reply, ReplyWith, AppendFails, Crash, EndSession, Exit
<1>6. CASE WriteText
  <2>1. at = "text" /\ at' = "newline" /\ record' = record /\ journal' = Append(journal, record)
    BY <1>6 DEF WriteText
  <2>2. record.event \in Outcomes => Len(journal) > 0 /\ journal[Len(journal)] = Newline
    BY <2>1 DEF Lines
  <2> QED
    BY <2>1, <2>2, FragmentType, AppendEffect DEF Lines
<1>7. CASE WriteNewline
  <2>1. /\ at = "newline" /\ journal' = Append(journal, Newline)
        /\ UNCHANGED <<caller, taken>>
    BY <1>7 DEF WriteNewline, WriteNewlineThen
  <2>2. /\ Len(journal) \in Nat /\ Len(journal') = Len(journal) + 1
        /\ journal'[Len(journal')] = Newline
    BY <2>1, FragmentType, AppendEffect
  <2>3. CASE at' \in {"accept", "text"}
    BY <2>2, <2>3 DEF Lines
  <2>4. CASE at' = "send"
    <3>1. CASE record.event = "request"
      <4>1. Current \notin {"allowed", "refused"}
        BY <1>7, <2>4, <3>1 DEF WriteNewline, WriteNewlineThen, Outcome
      <4> QED
        BY <2>1, <2>4, <4>1 DEF Lines, Current
    <3>2. CASE record.event \in Outcomes
      <4>1. /\ Len(journal) > 1 /\ journal[Len(journal)] = record
            /\ journal[Len(journal) - 1] = Newline
        BY <2>1, <3>2 DEF Lines
      <4>2. OnLine(record)'
        <5>1. /\ Len(journal) \in 1..(Len(journal') - 1)
              /\ journal'[Len(journal)] = record
              /\ journal'[Len(journal) - 1] = Newline
          BY <2>1, <2>2, <4>1, FragmentType, AppendEffect
        <5> QED
          BY <1>7, <2>2, <2>4, <3>2, <5>1
          DEF OnLine, WriteNewline, WriteNewlineThen, Outcomes
      <4>3. /\ Current = "allowed" => record = Record("completed", caller, Len(taken[caller]))
            /\ Current = "refused" => record = Record("denied", caller, Len(taken[caller]))
        BY <2>1, <3>2 DEF Place, Session, Turn, TypeOK, Record, Outcomes
      <4> QED
        BY <2>1, <2>4, <3>2, <4>2, <4>3 DEF Lines, Current, OnLine
    <3> QED
      BY <1>7, <2>4, <3>1, <3>2 DEF WriteNewline, WriteNewlineThen, Outcomes
  <2> QED
    BY <1>7, <2>3, <2>4 DEF WriteNewline, WriteNewlineThen
<1>8. CASE UNCHANGED vars
  BY <1>1, <1>8 DEF vars
<1> QED
  BY <1>3, <1>4, <1>5, <1>6, <1>7, <1>8 DEF Next, DaemonStep

LEMMA ToldStep == ASSUME IInv, [Next]_vars PROVE Told'
<1> USE DEF IInv, callerVars
<1>1. ASSUME replies' = replies PROVE Told'
  BY <1>1, OnLineStays DEF Told
<1>2. ASSUME caller \in Callers, NEW told \in Answers,
             replies' = [replies EXCEPT ![caller] = Append(@, told)],
             LET n == Len(replies[caller]) + 1 IN
                 /\ told = "done" => OnLine(Record("completed", caller, n))
                 /\ told = "denied" => OnLine(Record("denied", caller, n))
      PROVE  Told'
  <2>1. \A c \in Callers \ {caller} : replies'[c] = replies[c]
    BY <1>2 DEF TypeOK
  <2>2. /\ Len(replies[caller]) \in Nat
        /\ Len(replies'[caller]) = Len(replies[caller]) + 1
        /\ \A i \in 1..Len(replies[caller]) : replies'[caller][i] = replies[caller][i]
        /\ replies'[caller][Len(replies[caller]) + 1] = told
    BY <1>2 DEF TypeOK
  <2>3. \A c \in Callers : \A i \in 1..Len(replies'[c]) :
            /\ replies'[c][i] = "done" => OnLine(Record("completed", c, i))
            /\ replies'[c][i] = "denied" => OnLine(Record("denied", c, i))
    BY <1>2, <2>1, <2>2 DEF Told
  <2> QED
    BY <2>3, OnLineStays DEF Told
<1>3. CASE Take
  BY <1>1, <1>2, <1>3 DEF Take, TakeAnd, Place, Answers
<1>4. CASE Reply
  <2> DEFINE told == CASE Current = "hello"   -> "ready"
                       [] Current = "allowed" -> "done"
                       [] OTHER               -> "denied"
  <2>1. caller \in Callers /\ at = "send"
    BY <1>4 DEF Reply, ReplyWith, Place
  <2>2. CASE replies' = [replies EXCEPT ![caller] = Append(@, told)]
    <3>1. Len(taken[caller]) = Len(replies[caller]) + 1
      BY <2>1 DEF Session, Turn
    <3>2. Current \in {"hello", "allowed", "refused"}
      BY <2>1, <3>1 DEF Session, Turn, TypeOK, Current, Last, Kinds
    <3>3. /\ told \in Answers
          /\ told = "done" => Current = "allowed"
          /\ told = "denied" => Current = "refused"
      BY <3>2 DEF Answers
    <3>4. /\ told = "done" => OnLine(Record("completed", caller, Len(replies[caller]) + 1))
          /\ told = "denied" => OnLine(Record("denied", caller, Len(replies[caller]) + 1))
      BY <2>1, <3>1, <3>3 DEF Lines
    <3> HIDE DEF told
    <3> QED
      BY <1>2, <2>1, <2>2, <3>3, <3>4
  <2> QED
    BY <1>1, <1>4, <2>2 DEF Reply, ReplyWith
<1> QED
  BY <1>1, <1>3, <1>4 DEF Next, DaemonStep, vars, Connect, SendRequest, HangUp, Start, Accept,
     Disconnected, WriteText, WriteNewline, WriteNewlineThen, AppendFails, Crash

-----------------------------------------------------------------------------
LEMMA StepIInv == IInv /\ [Next]_vars => IInv'
BY TypeStep, PlaceStep, SessionStep, KnownStep, UnderwayStep, OrderStep, LinesStep,
   ToldStep DEF IInv

LEMMA Invariant == Spec => []IInv
BY InitIInv, StepIInv, PTL DEF Spec

\* Every reachable state is of its types.
THEOREM ControlTypeCorrect == Spec => []TypeOK
<1>1. IInv => TypeOK
  BY DEF IInv
<1> QED
  BY <1>1, Invariant, PTL

\* Outcomes follow their attempts, one each, for any number of callers, requests
\* and daemons, whichever appends fail.
THEOREM ControlAttemptFirst == Spec => []AttemptBeforeOutcome
<1>1. IInv => AttemptBeforeOutcome
  BY DEF IInv
<1> QED
  BY <1>1, Invariant, PTL

\* A finished line is one that tail() returns.
LEMMA OnLineIsOnRecord ==
    ASSUME TypeOK, NEW r, OnLine(r), r.event \notin {"newline", "torn"}
    PROVE  r \in OnRecord
<1>1. PICK i \in 1..(Len(journal) - 1) : /\ journal[i] = r
                                         /\ i = 1 \/ journal[i - 1] = Newline
                                         /\ journal[i + 1] = Newline
  BY DEF OnLine
<1>2. i \in 1..Len(journal)
  BY DEF TypeOK
<1>3. Readable(i)
  BY <1>1, <1>2 DEF Readable
<1> QED
  BY <1>1, <1>2, <1>3 DEF OnRecord

\* What a caller has been told is on record for whoever reads the journal, for any
\* number of callers, requests and daemons, whichever appends fail.
THEOREM ControlAnswersOnRecord == Spec => []AnswersOnRecord
<1>1. IInv => AnswersOnRecord
  <2> SUFFICES ASSUME IInv, NEW c \in Callers, NEW i \in 1..Len(replies[c])
               PROVE  /\ replies[c][i] = "done" => Record("completed", c, i) \in OnRecord
                      /\ replies[c][i] = "denied" => Record("denied", c, i) \in OnRecord
    BY DEF AnswersOnRecord
  <2>1. /\ Record("completed", c, i).event = "completed"
        /\ Record("denied", c, i).event = "denied"
    BY DEF Record
  <2> QED
    BY <2>1, OnLineIsOnRecord DEF IInv, Told
<1> QED
  BY <1>1, Invariant, PTL

===============================================================================
