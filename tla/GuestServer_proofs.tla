------------------------- MODULE GuestServer_proofs -------------------------
(***************************************************************************)
(* Proofs about GuestServer, for any number of connections, any ceiling    *)
(* and any number of requests, about the frames its connections carry, for *)
(* any payloads and reads, and about the pictures that screenshots return, *)
(* for any screens; Calls has both. Queue says that the backlog holds      *)
(* waiting connections, each once; Session relates what a connection's     *)
(* thread is doing to what it has received and answered so far. The reader *)
(* of a connection stands between two reads at a place of the stream, in a *)
(* header or in a payload, with the frames before it returned; the parser  *)
(* of a picture's header stands at a place of its bytes. These are         *)
(* recursive functions, of the reads and of the bytes, so what they return *)
(* is proved by induction over the natural numbers, from the library's     *)
(* theorem that < is well founded on them.                                 *)
(***************************************************************************)
EXTENDS GuestServer, Calls, TLAPS, WellFoundedInduction, FiniteSetTheorems,
        SequenceTheorems

Queue ==
    /\ \A i \in 1..Len(backlog) : stage[backlog[i]] = "pending"
    /\ \A i, j \in 1..Len(backlog) : backlog[i] = backlog[j] => i = j

\* No request before the n-th was a Hello of another version.
NoMismatchBefore(c, n) == \A i \in 1..Len(received[c]) : i < n => received[c][i] # "mismatch"

SessionOf(c) ==
    LET n == Len(received[c]) IN
    /\ stage[c] \in {"new", "pending", "accepted", "refused", "reading"} =>
          Len(replies[c]) = n /\ NoMismatchBefore(c, n + 1)
    /\ stage[c] \in {"working", "answering"} =>
          n = Len(replies[c]) + 1 /\ NoMismatchBefore(c, n)
    /\ stage[c] = "working" => received[c][n] # "malformed"
    /\ stage[c] = "answering" =>
          /\ answer[c].to = n
          /\ answer[c].result = "malformed" <=> received[c][n] = "malformed"

Session == \A c \in Conns : SessionOf(c)

SafeOf(c) ==
    /\ Len(replies[c]) <= Len(received[c])
    /\ \A i \in 1..Len(replies[c]) :
          /\ replies[c][i].to = i
          /\ replies[c][i].result = "malformed" <=> received[c][i] = "malformed"
    /\ \A i \in 1..Len(received[c]) : received[c][i] = "mismatch" => i = Len(received[c])

Safe == \A c \in Conns : SafeOf(c)

IInv == TypeOK /\ ConnectionsBounded /\ Queue /\ Session /\ Safe

USE ServerAssumption

-----------------------------------------------------------------------------
(* Types.                                                                  *)

LEMMA InServiceFinite ==
    IsFiniteSet(InService) /\ Cardinality(InService) \in Nat
<1>1. InService \in SUBSET Conns
  BY DEF InService
<1>2. IsFiniteSet(InService)
  BY <1>1, FS_Subset
<1> QED
  BY <1>2, FS_CardinalityType

\* A thread that is ending still has its slot.
LEMMA SlotHeld ==
    ASSUME ConnectionsBounded, NEW c \in Conns, stage[c] = "ending"
    PROVE  active - 1 \in Nat
<1>1. c \in InService
  BY DEF InService, Served
<1>2. InService # {}
  BY <1>1
<1>3. Cardinality(InService) # 0
  BY <1>2, InServiceFinite, FS_EmptySet
<1> QED
  BY <1>3, InServiceFinite DEF ConnectionsBounded

LEMMA InitType == Init => TypeOK
<1> SUFFICES ASSUME Init PROVE TypeOK
  OBVIOUS
<1>1. <<>> \in Seq(Kinds) /\ <<>> \in Seq(Frames) /\ <<>> \in Seq(Answers) /\ <<>> \in Seq(Conns)
  OBVIOUS
<1>2. NoAnswer \in Answers
  BY DEF NoAnswer, Answers
<1> QED
  BY <1>1, <1>2 DEF Init, TypeOK, Stages

LEMMA PeerType ==
    ASSUME TypeOK, NEW c \in Conns,
           Connect(c) \/ HangUp(c) \/ (\E kind \in Frames : Send(c, kind))
    PROVE  TypeOK'
<1>1. CASE Connect(c)
  BY <1>1 DEF TypeOK, Stages, Connect, stopVars
<1>2. CASE HangUp(c)
  BY <1>2 DEF TypeOK, HangUp, stopVars, loopVars
<1>3. CASE \E kind \in Frames : Send(c, kind)
  BY <1>3 DEF TypeOK, Send, stopVars, loopVars
<1> QED
  BY <1>1, <1>2, <1>3

LEMMA LoopType ==
    ASSUME TypeOK, LoopStep \/ SignalStop
    PROVE  TypeOK'
<1>1. CASE Poll
  BY <1>1 DEF TypeOK, Poll, PollIf, connVars, stopVars
<1>2. CASE AcceptNothing
  BY <1>2 DEF TypeOK, AcceptNothing, connVars, stopVars
<1>3. CASE Accept
  <2>1. Head(backlog) \in Conns /\ Tail(backlog) \in Seq(Conns)
    BY <1>3 DEF TypeOK, Accept
  <2> QED
    BY <1>3, <2>1 DEF TypeOK, Stages, Accept, stopVars
<1>4. CASE Admit
  <2>1. PICK c \in Conns : \/ stage' = [stage EXCEPT ![c] = "reading"]
                            \/ stage' = [stage EXCEPT ![c] = "refused"]
    BY <1>4 DEF Admit, AdmitIf
  <2>2. active' \in {active, active + 1}
    BY <1>4 DEF Admit, AdmitIf
  <2>3. stage' \in [Conns -> Stages]
    BY <2>1 DEF TypeOK, Stages, Served
  <2>4. active' \in Nat
    BY <2>2 DEF TypeOK
  <2> QED
    BY <1>4, <2>3, <2>4 DEF TypeOK, Stages, Admit, AdmitIf, stopVars
<1>5. CASE SignalStop
  BY <1>5 DEF TypeOK, SignalStop, connVars, loopVars
<1> QED
  BY <1>1, <1>2, <1>3, <1>4, <1>5 DEF LoopStep

\* A frame that is received holds a request.
LEMMA FrameReceived ==
    ASSUME TypeOK, NEW c \in Conns, Receive(c)
    PROVE  Head(inbox[c]) \in Kinds /\ Tail(inbox[c]) \in Seq(Frames)
<1>1. inbox[c] \in Seq(Frames) /\ inbox[c] # <<>> /\ Head(inbox[c]) # "oversize"
  BY DEF TypeOK, Receive, ReceiveWith
<1>2. Head(inbox[c]) \in Frames /\ Tail(inbox[c]) \in Seq(Frames)
  BY <1>1
<1> QED
  BY <1>1, <1>2 DEF Frames

LEMMA ThreadType ==
    ASSUME TypeOK, ConnectionsBounded, NEW c \in Conns,
           ThreadStep(c) \/ (\E n \in 1..MaxRequests : Finish(c, n))
    PROVE  TypeOK'
<1>1. CASE Receive(c)
  <2> DEFINE kind == Head(inbox[c])
             n == Current(c) + 1
  <2>1. kind \in Kinds /\ Tail(inbox[c]) \in Seq(Frames)
    BY <1>1, FrameReceived
  <2>2. n \in Nat
    BY DEF TypeOK, Current
  <2>3. [to |-> n, result |-> "malformed"] \in Answers
    BY <2>2 DEF Answers
  <2>4. /\ inbox' \in [Conns -> Seq(Frames)]
        /\ received' \in [Conns -> Seq(Kinds)]
    BY <1>1, <2>1 DEF TypeOK, Receive, ReceiveWith
  <2>5. /\ \/ stage' = [stage EXCEPT ![c] = "answering"]
           \/ stage' = [stage EXCEPT ![c] = "working"]
        /\ \/ answer' = [answer EXCEPT ![c] = [to |-> n, result |-> "malformed"]]
           \/ answer' = answer
        /\ workers' \in {workers, workers \cup {<<c, n>>}}
    BY <1>1 DEF Receive, ReceiveWith
  <2>6. stage' \in [Conns -> Stages]
    BY <2>5 DEF TypeOK, Stages, Served
  <2>7. answer' \in [Conns -> Answers]
    <3> HIDE DEF n
    <3> QED BY <2>3, <2>5 DEF TypeOK
  <2>8. workers' \subseteq Conns \X Nat
    <3> HIDE DEF n
    <3> QED BY <2>2, <2>5 DEF TypeOK
  <2> QED
    BY <1>1, <2>4, <2>6, <2>7, <2>8
    DEF TypeOK, Stages, Receive, ReceiveWith, loopVars, stopVars
<1>2. CASE ReceiveFails(c)
  BY <1>2 DEF TypeOK, Stages, ReceiveFails, loopVars, stopVars, Served
<1>3. CASE Overrun(c)
  <2>1. [to |-> Current(c), result |-> "late"] \in Answers
    BY DEF TypeOK, Current, Answers
  <2> QED
    BY <1>3, <2>1 DEF TypeOK, Stages, Overrun, loopVars, stopVars, Served
<1>4. CASE Respond(c)
  <2>1. NoAnswer \in Answers
    BY DEF NoAnswer, Answers
  <2>2. replies' \in [Conns -> Seq(Answers)]
    <3>1. answer[c] \in Answers
      BY DEF TypeOK
    <3>2. Append(replies[c], answer[c]) \in Seq(Answers)
      BY <3>1 DEF TypeOK
    <3>3. \/ replies' = [replies EXCEPT ![c] = Append(@, answer[c])]
          \/ replies' = replies
      BY <1>4 DEF Respond, RespondThen
    <3> QED
      BY <3>2, <3>3 DEF TypeOK
  <2>3. \/ stage' = [stage EXCEPT ![c] = "reading"]
        \/ stage' = [stage EXCEPT ![c] = "ending"]
    BY <1>4 DEF Respond, RespondThen
  <2>4. stage' \in [Conns -> Stages]
    BY <2>3 DEF TypeOK, Stages, Served
  <2>5. answer' \in [Conns -> Answers]
    BY <1>4, <2>1 DEF TypeOK, Respond, RespondThen
  <2> QED
    BY <1>4, <2>2, <2>4, <2>5 DEF TypeOK, Stages, Respond, RespondThen, loopVars, stopVars
<1>5. CASE Depart(c)
  <2>1. active - 1 \in Nat
    BY <1>5, SlotHeld DEF Depart, DepartReturning
  <2> QED
    BY <1>5, <2>1 DEF TypeOK, Stages, Depart, DepartReturning, stopVars
<1>6. CASE \E n \in 1..MaxRequests : Finish(c, n)
  <2>1. PICK n \in 1..MaxRequests : Finish(c, n)
    BY <1>6
  <2>2. [to |-> n, result |-> "done"] \in Answers
    BY DEF Answers
  <2>3. /\ stage' = [stage EXCEPT ![c] = "answering"] \/ stage' = stage
        /\ \/ answer' = [answer EXCEPT ![c] = [to |-> n, result |-> "done"]]
           \/ answer' = answer
        /\ workers' = workers \ {<<c, n>>}
    BY <2>1 DEF Finish, FinishFor
  <2>4. stage' \in [Conns -> Stages] /\ answer' \in [Conns -> Answers]
    BY <2>2, <2>3 DEF TypeOK, Stages, Served
  <2> QED
    BY <2>1, <2>3, <2>4 DEF TypeOK, Stages, Finish, FinishFor, loopVars, stopVars
<1> QED
  BY <1>1, <1>2, <1>3, <1>4, <1>5, <1>6 DEF ThreadStep

LEMMA NextType == TypeOK /\ ConnectionsBounded /\ [Next]_vars => TypeOK'
<1> SUFFICES ASSUME TypeOK, ConnectionsBounded, [Next]_vars PROVE TypeOK'
  OBVIOUS
<1>1. CASE UNCHANGED vars
  BY <1>1 DEF TypeOK, vars, connVars, loopVars, stopVars
<1>2. CASE Next
  BY <1>2, PeerType, LoopType, ThreadType DEF Next
<1> QED
  BY <1>1, <1>2

-----------------------------------------------------------------------------
(* The counter.                                                            *)

\* A step that moves nobody into or out of service keeps the bound.
LEMMA SlotsFrame ==
    ASSUME ConnectionsBounded, UNCHANGED active,
           \A c \in Conns : stage'[c] \in Served <=> stage[c] \in Served
    PROVE  ConnectionsBounded'
<1>1. InService' = InService
  BY DEF InService
<1> QED
  BY <1>1 DEF ConnectionsBounded

LEMMA SlotsAdmit ==
    ASSUME TypeOK, ConnectionsBounded, Admit
    PROVE  ConnectionsBounded'
<1>1. PICK c \in Conns :
        /\ stage[c] = "accepted"
        /\ \/ /\ active < MAX_CONNECTIONS
              /\ active' = active + 1
              /\ stage' = [stage EXCEPT ![c] = "reading"]
           \/ /\ stage' = [stage EXCEPT ![c] = "refused"]
              /\ UNCHANGED active
  BY DEF Admit, AdmitIf
<1>2. CASE /\ active < MAX_CONNECTIONS
           /\ active' = active + 1
           /\ stage' = [stage EXCEPT ![c] = "reading"]
  <2>1. c \notin InService /\ InService' = InService \cup {c}
    BY <1>1, <1>2 DEF TypeOK, InService, Served
  <2>2. Cardinality(InService') = Cardinality(InService) + 1
    BY <2>1, InServiceFinite, FS_AddElement
  <2> QED
    BY <1>2, <2>2 DEF ConnectionsBounded, TypeOK
<1>3. CASE /\ stage' = [stage EXCEPT ![c] = "refused"]
           /\ UNCHANGED active
  <2>1. \A d \in Conns : stage'[d] \in Served <=> stage[d] \in Served
    BY <1>1, <1>3 DEF TypeOK, Served
  <2> QED
    BY <1>3, <2>1, SlotsFrame
<1> QED
  BY <1>1, <1>2, <1>3

LEMMA SlotsDepart ==
    ASSUME TypeOK, ConnectionsBounded, NEW c \in Conns, Depart(c)
    PROVE  ConnectionsBounded'
<1>1. /\ stage[c] = "ending"
      /\ stage' = [stage EXCEPT ![c] = "ended"]
      /\ active' = active - 1
  BY DEF Depart, DepartReturning
<1>2. c \in InService /\ InService' = InService \ {c}
  BY <1>1 DEF TypeOK, InService, Served
<1>3. Cardinality(InService') = Cardinality(InService) - 1
  BY <1>2, InServiceFinite, FS_RemoveElement
<1> QED
  BY <1>1, <1>3 DEF ConnectionsBounded, TypeOK

LEMMA SlotsNext ==
    ASSUME TypeOK, ConnectionsBounded, Queue, [Next]_vars
    PROVE  ConnectionsBounded'
<1>1. CASE UNCHANGED vars
  BY <1>1, SlotsFrame DEF vars, connVars, loopVars
<1>2. CASE Poll \/ AcceptNothing \/ SignalStop
  BY <1>2, SlotsFrame DEF Poll, PollIf, AcceptNothing, SignalStop, connVars, loopVars
<1>3. CASE Accept
  <2>1. Head(backlog) \in Conns /\ stage[Head(backlog)] = "pending"
    BY <1>3 DEF TypeOK, Queue, Accept
  <2>2. \A c \in Conns : stage'[c] \in Served <=> stage[c] \in Served
    BY <1>3, <2>1 DEF TypeOK, Accept, Served
  <2> QED
    BY <1>3, <2>2, SlotsFrame DEF Accept
<1>4. ASSUME NEW c \in Conns, Connect(c) \/ HangUp(c) \/ (\E kind \in Frames : Send(c, kind))
      PROVE  ConnectionsBounded'
  <2>1. \A d \in Conns : stage'[d] \in Served <=> stage[d] \in Served
    BY <1>4 DEF TypeOK, Connect, HangUp, Send, Served
  <2> QED
    BY <1>4, <2>1, SlotsFrame DEF Connect, HangUp, Send, loopVars
<1>5. ASSUME NEW c \in Conns,
             \/ Receive(c) \/ ReceiveFails(c) \/ Overrun(c) \/ Respond(c)
             \/ \E n \in 1..MaxRequests : Finish(c, n)
      PROVE  ConnectionsBounded'
  <2>1. UNCHANGED active
    BY <1>5 DEF Receive, ReceiveWith, ReceiveFails, Overrun, Respond, RespondThen,
                Finish, FinishFor, loopVars
  <2>2. \/ stage' = stage
        \/ /\ stage[c] \in Served
           /\ \E x \in Served : stage' = [stage EXCEPT ![c] = x]
    BY <1>5 DEF Receive, ReceiveWith, ReceiveFails, Overrun, Respond, RespondThen,
                Finish, FinishFor, Served
  <2>3. \A d \in Conns : stage'[d] \in Served <=> stage[d] \in Served
    BY <2>2 DEF TypeOK
  <2> QED
    BY <2>1, <2>3, SlotsFrame
<1> QED
  BY <1>1, <1>2, <1>3, <1>4, <1>5, SlotsAdmit, SlotsDepart DEF Next, LoopStep, ThreadStep

-----------------------------------------------------------------------------
(* The backlog.                                                            *)

LEMMA QueueNext ==
    ASSUME TypeOK, Queue, [Next]_vars
    PROVE  Queue'
<1>1. CASE Accept
  <2>1. /\ backlog' = Tail(backlog)
        /\ \E x \in Stages : stage' = [stage EXCEPT ![backlog[1]] = x]
    <3>1. Head(backlog) = backlog[1]
      BY <1>1 DEF Accept, TypeOK
    <3>2. \/ stage' = [stage EXCEPT ![Head(backlog)] = "accepted"]
          \/ stage' = [stage EXCEPT ![Head(backlog)] = "refused"]
      BY <1>1 DEF Accept
    <3>3. "accepted" \in Stages /\ "refused" \in Stages
      BY DEF Stages
    <3> QED
      BY <1>1, <3>1, <3>2, <3>3 DEF Accept
  <2>2. /\ Len(backlog') = Len(backlog) - 1
        /\ \A i \in 1..Len(backlog') : backlog'[i] = backlog[i + 1]
        /\ \A i \in 1..Len(backlog) : backlog[i] \in Conns
        /\ 1 \in 1..Len(backlog)
    BY <1>1, <2>1 DEF Accept, TypeOK
  <2>3. \A i \in 1..Len(backlog') : i + 1 \in 1..Len(backlog) /\ i + 1 # 1
    BY <2>2 DEF TypeOK
  <2>4. \A i \in 1..Len(backlog') : backlog'[i] # backlog[1]
    BY <2>2, <2>3 DEF Queue
  <2>5. \A i \in 1..Len(backlog') : stage'[backlog'[i]] = stage[backlog[i + 1]]
    BY <2>1, <2>2, <2>3, <2>4 DEF TypeOK
  <2>6. \A i, j \in 1..Len(backlog') : backlog'[i] = backlog'[j] => i = j
    BY <2>2, <2>3 DEF Queue
  <2> QED
    BY <2>3, <2>5, <2>6 DEF Queue
<1>2. ASSUME NEW c \in Conns, Connect(c)
      PROVE  Queue'
  <2>1. /\ stage[c] = "new"
        /\ stage' = [stage EXCEPT ![c] = "pending"]
        /\ backlog' = Append(backlog, c)
    BY <1>2 DEF Connect
  <2>2. \A i \in 1..Len(backlog) : backlog[i] \in Conns /\ backlog[i] # c
    BY <2>1 DEF TypeOK, Queue
  <2>3. /\ Len(backlog') = Len(backlog) + 1
        /\ \A i \in 1..Len(backlog) : backlog'[i] = backlog[i]
        /\ backlog'[Len(backlog')] = c
        /\ Len(backlog) \in Nat
    BY <2>1 DEF TypeOK
  <2>4. \A i \in 1..Len(backlog') : i \in 1..Len(backlog) \/ i = Len(backlog')
    BY <2>3
  <2>5. \A i \in 1..Len(backlog') : stage'[backlog'[i]] = "pending"
    BY <2>1, <2>2, <2>3, <2>4 DEF Queue, TypeOK
  <2>6. \A i, j \in 1..Len(backlog') : backlog'[i] = backlog'[j] => i = j
    BY <2>2, <2>3, <2>4 DEF Queue
  <2> QED
    BY <2>5, <2>6 DEF Queue
<1>3. ASSUME backlog' = backlog,
             \A c \in Conns : stage[c] = "pending" => stage'[c] = "pending"
      PROVE  Queue'
  <2>1. \A i \in 1..Len(backlog) : backlog[i] \in Conns
    BY DEF TypeOK
  <2> QED
    BY <1>3, <2>1 DEF Queue
<1>4. CASE UNCHANGED vars
  BY <1>4, <1>3 DEF vars, connVars, loopVars
<1>5. CASE Poll \/ AcceptNothing \/ Admit \/ SignalStop
  <2>1. backlog' = backlog
    BY <1>5 DEF Poll, PollIf, AcceptNothing, Admit, AdmitIf, SignalStop, loopVars
  <2>2. \A c \in Conns : stage[c] = "pending" => stage'[c] = "pending"
    BY <1>5 DEF TypeOK, Poll, PollIf, AcceptNothing, Admit, AdmitIf, SignalStop, connVars
  <2> QED
    BY <2>1, <2>2, <1>3
<1>6. ASSUME NEW c \in Conns,
             \/ HangUp(c) \/ (\E kind \in Frames : Send(c, kind)) \/ ThreadStep(c)
             \/ \E n \in 1..MaxRequests : Finish(c, n)
      PROVE  Queue'
  <2>1. backlog' = backlog
    BY <1>6 DEF HangUp, Send, ThreadStep, Receive, ReceiveWith, ReceiveFails, Overrun,
                Respond, RespondThen, Depart, DepartReturning, Finish, FinishFor, loopVars
  <2>2. \/ stage' = stage
        \/ stage[c] # "pending" /\ \E x \in Stages : stage' = [stage EXCEPT ![c] = x]
    BY <1>6 DEF HangUp, Send, ThreadStep, Receive, ReceiveWith, ReceiveFails, Overrun,
                Respond, RespondThen, Depart, DepartReturning, Finish, FinishFor,
                Stages, Served
  <2>3. \A d \in Conns : stage[d] = "pending" => stage'[d] = "pending"
    BY <2>2 DEF TypeOK
  <2> QED
    BY <2>1, <2>3, <1>3
<1> QED
  BY <1>1, <1>2, <1>4, <1>5, <1>6 DEF Next, LoopStep

-----------------------------------------------------------------------------
(* The sessions.                                                           *)

\* A connection whose own state does not change keeps its session.
LEMMA SessionFrame ==
    ASSUME NEW c \in Conns, SessionOf(c),
           stage'[c] = stage[c], received'[c] = received[c],
           replies'[c] = replies[c], answer'[c] = answer[c]
    PROVE  SessionOf(c)'
BY DEF SessionOf, NoMismatchBefore

\* A new stage that asks nothing of the session, or the same as the old one.
LEMMA SessionMoves ==
    ASSUME NEW c \in Conns, SessionOf(c),
           \/ stage'[c] \in {"ending", "ended"}
           \/ /\ stage[c] \in {"new", "pending", "accepted", "refused", "reading"}
              /\ stage'[c] \in {"new", "pending", "accepted", "refused", "reading"},
           received' = received, replies' = replies
    PROVE  SessionOf(c)'
BY DEF SessionOf, NoMismatchBefore

LEMMA SessionReceive ==
    ASSUME TypeOK, NEW c \in Conns, SessionOf(c), Receive(c)
    PROVE  SessionOf(c)'
<1> DEFINE kind == Head(inbox[c])
           n == Len(received[c])
<1>1. /\ stage[c] = "reading"
      /\ received' = [received EXCEPT ![c] = Append(@, kind)]
      /\ replies' = replies
      /\ \/ /\ kind = "malformed"
            /\ stage' = [stage EXCEPT ![c] = "answering"]
            /\ answer' = [answer EXCEPT ![c] = [to |-> n + 1, result |-> "malformed"]]
         \/ /\ kind # "malformed"
            /\ stage' = [stage EXCEPT ![c] = "working"]
  BY DEF Receive, ReceiveWith, Current
<1>2. /\ n \in Nat
      /\ received'[c] = Append(received[c], kind)
      /\ kind \in Kinds
  BY <1>1, FrameReceived DEF TypeOK
<1>3. /\ Len(received'[c]) = n + 1
      /\ received'[c][n + 1] = kind
      /\ \A i \in 1..n : received'[c][i] = received[c][i]
  <2> HIDE DEF kind
  <2> QED BY <1>2 DEF TypeOK
<1>4. Len(replies'[c]) = n /\ \A i \in 1..n : received[c][i] # "mismatch"
  BY <1>1, <1>2 DEF SessionOf, NoMismatchBefore
<1>5. \A i \in 1..Len(received'[c]) : i < Len(received'[c]) => received'[c][i] # "mismatch"
  <2> HIDE DEF kind, n
  <2> QED BY <1>2, <1>3, <1>4
<1>6. \/ stage'[c] = "answering" /\ kind = "malformed"
         /\ answer'[c].to = n + 1 /\ answer'[c].result = "malformed"
      \/ stage'[c] = "working" /\ kind # "malformed"
  BY <1>1 DEF TypeOK
<1> QED
  <2> HIDE DEF kind, n
  <2> QED BY <1>2, <1>3, <1>4, <1>5, <1>6 DEF SessionOf, NoMismatchBefore

LEMMA SessionAnswering ==
    ASSUME TypeOK, NEW c \in Conns, SessionOf(c),
           Overrun(c) \/ (\E n \in 1..MaxRequests : Finish(c, n))
    PROVE  SessionOf(c)'
<1>1. CASE stage' = stage
  BY <1>1, SessionFrame DEF Overrun, Finish, FinishFor, TypeOK
<1>2. CASE stage' # stage
  <2>1. /\ stage[c] = "working"
        /\ stage'[c] = "answering"
        /\ received' = received /\ replies' = replies
        /\ answer'[c].to = Len(received[c])
        /\ answer'[c].result # "malformed"
    <3>1. CASE Overrun(c)
      BY <3>1 DEF Overrun, Current, TypeOK
    <3>2. CASE \E n \in 1..MaxRequests : Finish(c, n)
      <4>1. PICK n \in 1..MaxRequests : Finish(c, n)
        BY <3>2
      <4>2. /\ stage[c] = "working" /\ n = Len(received[c])
            /\ stage' = [stage EXCEPT ![c] = "answering"]
            /\ answer' = [answer EXCEPT ![c] = [to |-> n, result |-> "done"]]
            /\ received' = received /\ replies' = replies
        BY <1>2, <4>1 DEF Finish, FinishFor, Current
      <4> QED
        BY <4>2 DEF TypeOK
    <3> QED
      BY <3>1, <3>2
  <2> QED
    BY <2>1 DEF SessionOf, NoMismatchBefore
<1> QED
  BY <1>1, <1>2

LEMMA SessionRespond ==
    ASSUME TypeOK, NEW c \in Conns, SessionOf(c), Respond(c)
    PROVE  SessionOf(c)'
<1>1. /\ stage[c] = "answering"
      /\ received' = received
      /\ \/ /\ stage'[c] = "reading"
            /\ received[c][Len(received[c])] # "mismatch"
            /\ replies' = [replies EXCEPT ![c] = Append(@, answer[c])]
         \/ stage'[c] = "ending"
  BY DEF Respond, RespondThen, TypeOK, Last
<1>2. CASE stage'[c] = "ending"
  BY <1>2, <1>1 DEF SessionOf
<1>3. CASE stage'[c] = "reading"
  <2>1. Len(replies'[c]) = Len(received[c])
    BY <1>1, <1>3 DEF SessionOf, TypeOK
  <2>2. \A i \in 1..Len(received[c]) : received[c][i] # "mismatch"
    BY <1>1, <1>3 DEF SessionOf, NoMismatchBefore, TypeOK
  <2> QED
    BY <1>1, <1>3, <2>1, <2>2 DEF SessionOf, NoMismatchBefore
<1> QED
  BY <1>1, <1>2, <1>3

\* The steps of c leave the sessions of the others alone.
LEMMA OthersSame ==
    ASSUME TypeOK, NEW c \in Conns, NEW d \in Conns, d # c,
           \/ Connect(c) \/ HangUp(c) \/ (\E kind \in Frames : Send(c, kind))
           \/ ThreadStep(c) \/ \E n \in 1..MaxRequests : Finish(c, n)
    PROVE  /\ stage'[d] = stage[d] /\ received'[d] = received[d]
           /\ replies'[d] = replies[d] /\ answer'[d] = answer[d]
BY DEF TypeOK, Connect, HangUp, Send, ThreadStep, Receive, ReceiveWith, ReceiveFails,
       Overrun, Respond, RespondThen, Depart, DepartReturning, Finish, FinishFor

LEMMA SessionNext ==
    ASSUME TypeOK, Queue, Session, [Next]_vars
    PROVE  Session'
<1> SUFFICES ASSUME NEW d \in Conns PROVE SessionOf(d)'
  BY DEF Session
<1>0. SessionOf(d)
  BY DEF Session
<1>1. CASE UNCHANGED vars \/ Poll \/ AcceptNothing \/ SignalStop
  BY <1>0, <1>1, SessionFrame DEF vars, connVars, Poll, PollIf, AcceptNothing, SignalStop
<1>2. CASE Accept
  <2>1. stage[Head(backlog)] = "pending"
    BY <1>2 DEF Accept, TypeOK, Queue
  <2>2. /\ received' = received /\ replies' = replies /\ answer' = answer
        /\ \/ stage' = [stage EXCEPT ![Head(backlog)] = "accepted"]
           \/ stage' = [stage EXCEPT ![Head(backlog)] = "refused"]
    BY <1>2 DEF Accept
  <2>3. CASE d = Head(backlog)
    BY <1>0, <2>1, <2>2, <2>3, SessionMoves DEF TypeOK
  <2>4. CASE d # Head(backlog)
    BY <1>0, <2>2, <2>4, SessionFrame DEF TypeOK
  <2> QED
    BY <2>3, <2>4
<1>3. CASE Admit
  <2>1. PICK c \in Conns :
          /\ stage[c] = "accepted"
          /\ \/ stage' = [stage EXCEPT ![c] = "reading"]
             \/ stage' = [stage EXCEPT ![c] = "refused"]
    BY <1>3 DEF Admit, AdmitIf
  <2>2. received' = received /\ replies' = replies /\ answer' = answer
    BY <1>3 DEF Admit, AdmitIf
  <2>3. CASE d = c
    BY <1>0, <2>1, <2>2, <2>3, SessionMoves DEF TypeOK
  <2>4. CASE d # c
    BY <1>0, <2>1, <2>2, <2>4, SessionFrame DEF TypeOK
  <2> QED
    BY <2>3, <2>4
<1>4. ASSUME NEW c \in Conns, d # c,
             \/ Connect(c) \/ HangUp(c) \/ (\E kind \in Frames : Send(c, kind))
             \/ ThreadStep(c) \/ \E n \in 1..MaxRequests : Finish(c, n)
      PROVE  SessionOf(d)'
  BY <1>0, <1>4, OthersSame, SessionFrame
<1>5. CASE HangUp(d) \/ (\E kind \in Frames : Send(d, kind))
  BY <1>0, <1>5, SessionFrame DEF HangUp, Send
<1>6. CASE Connect(d) \/ ReceiveFails(d) \/ Depart(d)
  <2>1. received' = received /\ replies' = replies
    BY <1>6 DEF Connect, ReceiveFails, Depart, DepartReturning
  <2>2. \/ stage[d] = "new" /\ stage'[d] = "pending"
        \/ stage'[d] \in {"ending", "ended"}
    BY <1>6 DEF Connect, ReceiveFails, Depart, DepartReturning, TypeOK
  <2> QED
    BY <1>0, <2>1, <2>2, SessionMoves
<1> QED
  BY <1>0, <1>1, <1>2, <1>3, <1>4, <1>5, <1>6, SessionReceive, SessionAnswering,
     SessionRespond
  DEF Next, LoopStep, ThreadStep

-----------------------------------------------------------------------------
(* What has been answered, and what ends a session.                        *)

LEMMA SafeFrame ==
    ASSUME NEW c \in Conns, SafeOf(c),
           received'[c] = received[c], replies'[c] = replies[c]
    PROVE  SafeOf(c)'
BY DEF SafeOf

LEMMA SafeReceive ==
    ASSUME TypeOK, NEW c \in Conns, SafeOf(c), SessionOf(c), Receive(c)
    PROVE  SafeOf(c)'
<1> DEFINE kind == Head(inbox[c])
           n == Len(received[c])
<1>0. kind \in Kinds
  BY FrameReceived
<1>1. /\ stage[c] = "reading"
      /\ received'[c] = Append(received[c], kind)
      /\ replies' = replies
      /\ kind \in Kinds
      /\ n \in Nat
  BY <1>0 DEF Receive, ReceiveWith, TypeOK
<1>2. /\ Len(received'[c]) = n + 1
      /\ \A i \in 1..n : received'[c][i] = received[c][i]
  <2> HIDE DEF kind
  <2> QED BY <1>1 DEF TypeOK
<1>3. Len(replies[c]) = n /\ \A i \in 1..n : received[c][i] # "mismatch"
  BY <1>1 DEF SessionOf, NoMismatchBefore
<1> QED
  <2> HIDE DEF kind, n
  <2>1. \A i \in 1..(n + 1) : i \in 1..n \/ i = n + 1
    BY <1>1
  <2> QED
    BY <1>1, <1>2, <1>3, <2>1 DEF SafeOf

LEMMA SafeRespond ==
    ASSUME TypeOK, NEW c \in Conns, SafeOf(c), SessionOf(c), Respond(c)
    PROVE  SafeOf(c)'
<1>1. /\ stage[c] = "answering"
      /\ received' = received
      /\ \/ replies'[c] = replies[c]
         \/ replies'[c] = Append(replies[c], answer[c])
  BY DEF Respond, RespondThen, TypeOK
<1>2. CASE replies'[c] = replies[c]
  BY <1>1, <1>2, SafeFrame
<1>3. CASE replies'[c] = Append(replies[c], answer[c])
  <2> DEFINE n == Len(received[c])
  <2>1. n = Len(replies[c]) + 1 /\ Len(replies[c]) \in Nat
    BY <1>1 DEF SessionOf, TypeOK
  <2>2. answer[c].to = n /\ (answer[c].result = "malformed" <=> received[c][n] = "malformed")
    BY <1>1 DEF SessionOf
  <2>3. /\ Len(replies'[c]) = n
        /\ replies'[c][n] = answer[c]
        /\ \A i \in 1..Len(replies[c]) : replies'[c][i] = replies[c][i]
    BY <1>3, <2>1 DEF TypeOK
  <2>4. \A i \in 1..n : i \in 1..Len(replies[c]) \/ i = n
    BY <2>1
  <2> HIDE DEF n
  <2> QED
    BY <1>1, <2>1, <2>2, <2>3, <2>4 DEF SafeOf, n
<1> QED
  BY <1>1, <1>2, <1>3

LEMMA SafeNext ==
    ASSUME TypeOK, Session, Safe, [Next]_vars
    PROVE  Safe'
<1> SUFFICES ASSUME NEW d \in Conns PROVE SafeOf(d)'
  BY DEF Safe
<1>0. SafeOf(d) /\ SessionOf(d)
  BY DEF Safe, Session
<1>1. CASE UNCHANGED vars \/ LoopStep \/ SignalStop
  <2>1. received' = received /\ replies' = replies
    BY <1>1 DEF vars, connVars, LoopStep, Poll, PollIf, AcceptNothing, Accept, Admit,
                AdmitIf, SignalStop
  <2> QED
    BY <1>0, <2>1, SafeFrame
<1>2. ASSUME NEW c \in Conns, d # c,
             \/ Connect(c) \/ HangUp(c) \/ (\E kind \in Frames : Send(c, kind))
             \/ ThreadStep(c) \/ \E n \in 1..MaxRequests : Finish(c, n)
      PROVE  SafeOf(d)'
  BY <1>0, <1>2, OthersSame, SafeFrame
<1>3. CASE \/ Connect(d) \/ HangUp(d) \/ (\E kind \in Frames : Send(d, kind))
           \/ ReceiveFails(d) \/ Overrun(d) \/ Depart(d)
           \/ \E n \in 1..MaxRequests : Finish(d, n)
  <2>1. received' = received /\ replies' = replies
    BY <1>3 DEF Connect, HangUp, Send, ReceiveFails, Overrun, Depart, DepartReturning,
                Finish, FinishFor
  <2> QED
    BY <1>0, <2>1, SafeFrame
<1> QED
  BY <1>0, <1>1, <1>2, <1>3, SafeReceive, SafeRespond DEF Next, ThreadStep

-----------------------------------------------------------------------------
LEMMA InitIInv == Init => IInv
<1> SUFFICES ASSUME Init PROVE IInv
  OBVIOUS
<1>1. TypeOK
  BY InitType
<1>2. ConnectionsBounded
  <2>1. InService = {}
    BY DEF Init, InService, Served
  <2> QED
    BY <2>1, FS_EmptySet DEF Init, ConnectionsBounded
<1>3. Queue
  BY DEF Init, Queue
<1>4. Session
  BY DEF Init, Session, SessionOf, NoMismatchBefore
<1>5. Safe
  BY DEF Init, Safe, SafeOf
<1> QED
  BY <1>1, <1>2, <1>3, <1>4, <1>5 DEF IInv

LEMMA IInvNext == IInv /\ [Next]_vars => IInv'
BY NextType, SlotsNext, QueueNext, SessionNext, SafeNext DEF IInv

LEMMA Inductive == Spec => []IInv
BY InitIInv, IInvNext, PTL DEF Spec

\* In every state of the guest server each variable has its type; the counter
\* of connections never goes below zero.
THEOREM ServerTypeCorrect == Spec => []TypeOK
<1>1. IInv => TypeOK
  BY DEF IInv
<1> QED
  BY <1>1, Inductive, PTL

\* However many peers connect and however their connections end, no more than
\* MAX_CONNECTIONS are served and ACTIVE_CONNECTIONS is their exact number.
THEOREM ServerBounded == Spec => []ConnectionsBounded
<1>1. IInv => ConnectionsBounded
  BY DEF IInv
<1> QED
  BY <1>1, Inductive, PTL

\* For any number of requests on a connection and any timing of workers and
\* deadlines, the i-th response answers the i-th request.
THEOREM ServerRepliesMatch == Spec => []RepliesMatchRequests
<1>1. IInv => RepliesMatchRequests
  BY DEF IInv, Safe, SafeOf, RepliesMatchRequests
<1> QED
  BY <1>1, Inductive, PTL

\* A Hello of another version is the last request a connection is served.
THEOREM ServerMismatchEnds == Spec => []MismatchEndsSession
<1>1. IInv => MismatchEndsSession
  BY DEF IInv, Safe, SafeOf, MismatchEndsSession
<1> QED
  BY <1>1, Inductive, PTL

-----------------------------------------------------------------------------
(* Induction, over sets of natural numbers.                                *)

Below == {p \in Nat \X Nat : p[1] < p[2]}

LEMMA BelowWellFounded == IsWellFoundedOn(Below, Nat)
<1>1. OpToRel(<, Nat) = Below
  BY DEF OpToRel, Below
<1> QED
  BY <1>1, NatLessThanWellFounded

LEMMA Induction ==
    ASSUME NEW S, 0 \in S, \A n \in Nat : n \in S => n + 1 \in S
    PROVE  Nat \subseteq S
<1>1. SUFFICES ASSUME Nat \ S # {} PROVE FALSE
  OBVIOUS
<1>2. PICK x \in Nat \ S : \A y \in Nat \ S : ~(<<y, x>> \in Below)
  BY <1>1, BelowWellFounded, WFMin
<1>3. x - 1 \in Nat /\ <<x - 1, x>> \in Below
  BY <1>2 DEF Below
<1>4. x - 1 \in S
  BY <1>2, <1>3
<1> QED
  BY <1>2, <1>3, <1>4

LEMMA InductionUpTo ==
    ASSUME NEW n \in Nat, NEW S, 0 \in S, \A i \in 0 .. (n - 1) : i \in S => i + 1 \in S
    PROVE  0 .. n \subseteq S
<1> DEFINE T == {i \in Nat : i <= n => i \in S}
<1>1. 0 \in T
  OBVIOUS
<1>2. \A i \in Nat : i \in T => i + 1 \in T
  OBVIOUS
<1>3. Nat \subseteq T
  <2> HIDE DEF T
  <2> QED
    BY <1>1, <1>2, Induction
<1> QED
  BY <1>3

\* A function of the naturals up to n, defined by its first value and by its step.
StepFunctions(n, V) == [0 .. n -> [V -> V]]

Follows(f, n, V, base, next) ==
    /\ f \in [0 .. n -> V] /\ f[0] = base
    /\ \A i \in 0 .. (n - 1) : f[i + 1] = next[i][f[i]]

LEMMA Recursion ==
    ASSUME NEW n \in Nat, NEW V, NEW base \in V, NEW next \in StepFunctions(n, V)
    PROVE  \E f : Follows(f, n, V, base, next)
<1> USE DEF StepFunctions
<1> DEFINE Steps(k, f) == \A i \in 0 .. (k - 1) : f[i + 1] = next[i][f[i]]
           S == {k \in 0 .. n : \E f \in [0 .. k -> V] : f[0] = base /\ Steps(k, f)}
<1>1. 0 \in S
  <2>1. [i \in 0 .. 0 |-> base] \in [0 .. 0 -> V]
    OBVIOUS
  <2>2. [i \in 0 .. 0 |-> base][0] = base /\ Steps(0, [i \in 0 .. 0 |-> base])
    OBVIOUS
  <2> HIDE DEF Steps
  <2> QED
    BY <2>1, <2>2
<1>2. ASSUME NEW k \in 0 .. (n - 1), k \in S PROVE k + 1 \in S
  <2>1. PICK f \in [0 .. k -> V] : f[0] = base /\ Steps(k, f)
    BY <1>2
  <2> DEFINE v == next[k][f[k]]
             g == [i \in 0 .. (k + 1) |-> IF i = k + 1 THEN v ELSE f[i]]
  <2>2. v \in V
    OBVIOUS
  <2> HIDE DEF v
  <2>3. g \in [0 .. (k + 1) -> V]
    BY <2>2
  <2>4. g[k + 1] = v /\ \A i \in 0 .. k : g[i] = f[i]
    OBVIOUS
  <2> HIDE DEF g
  <2>5. Steps(k + 1, g)
    <3> SUFFICES ASSUME NEW i \in 0 .. k PROVE g[i + 1] = next[i][g[i]]
      OBVIOUS
    <3>1. CASE i = k
      BY <3>1, <2>4 DEF v
    <3>2. CASE i \in 0 .. (k - 1)
      <4>1. g[i + 1] = f[i + 1] /\ g[i] = f[i]
        BY <3>2, <2>4
      <4> QED
        BY <4>1, <3>2, <2>1
    <3> QED
      BY <3>1, <3>2
  <2> HIDE DEF Steps
  <2>6. g[0] = base
    BY <2>1, <2>4
  <2> QED
    BY <2>3, <2>5, <2>6
<1>3. n \in S
  <2> HIDE DEF S
  <2>1. 0 .. n \subseteq S
    BY <1>1, <1>2, InductionUpTo
  <2> QED
    BY <2>1
<1> QED
  BY <1>3 DEF Follows

\* Two functions with the same first value and the same step are the same.
LEMMA SameRecursion ==
    ASSUME NEW n \in Nat, NEW V, NEW W, NEW f \in [0 .. n -> V], NEW g \in [0 .. n -> W],
           f[0] = g[0], \A i \in 0 .. (n - 1) : f[i] = g[i] => f[i + 1] = g[i + 1]
    PROVE  f = g
<1> DEFINE S == {i \in 0 .. n : f[i] = g[i]}
<1>1. 0 \in S
  OBVIOUS
<1>2. ASSUME NEW i \in 0 .. (n - 1), i \in S PROVE i + 1 \in S
  <2>1. f[i] = g[i]
    BY <1>2
  <2> QED
    BY <2>1
<1>3. 0 .. n \subseteq S
  <2> HIDE DEF S
  <2> QED
    BY <1>1, <1>2, InductionUpTo
<1> QED
  BY <1>3

\* What is defined by a first value and a step, for values of a set V, follows them.
LEMMA Unfolding ==
    ASSUME NEW n \in Nat, NEW V, NEW base \in V, NEW next \in StepFunctions(n, V),
           NEW h, h = [i \in 0 .. n |-> h[i]], h[0] = base,
           \A i \in 0 .. (n - 1) : h[i] \in V => h[i + 1] = next[i][h[i]]
    PROVE  Follows(h, n, V, base, next)
<1> DEFINE S == {i \in 0 .. n : h[i] \in V}
<1>1. 0 \in S
  OBVIOUS
<1>2. ASSUME NEW i \in 0 .. (n - 1), i \in S PROVE i + 1 \in S
  <2>1. h[i] \in V /\ next[i] \in [V -> V]
    BY <1>2 DEF StepFunctions
  <2>2. next[i][h[i]] \in V
    BY <2>1
  <2>3. h[i + 1] = next[i][h[i]]
    BY <2>1, Zenon
  <2>4. i + 1 \in 0 .. n
    OBVIOUS
  <2> QED
    BY <2>2, <2>3, <2>4
<1>3. 0 .. n \subseteq S
  <2> HIDE DEF S
  <2> QED
    BY <1>1, <1>2, InductionUpTo
<1>4. \A i \in 0 .. n : h[i] \in V
  BY <1>3
<1>5. h \in [0 .. n -> V]
  BY <1>4
<1>6. ASSUME NEW i \in 0 .. (n - 1) PROVE h[i + 1] = next[i][h[i]]
  <2>1. i \in 0 .. n
    OBVIOUS
  <2>2. h[i] \in V
    BY <1>4, <2>1
  <2> QED
    BY <2>2, Zenon
<1> QED
  BY <1>5, <1>6 DEF Follows

-----------------------------------------------------------------------------
(* Frames on the wire.                                                     *)

Framed(payload, limited) == IF limited THEN WriteFrame(payload) ELSE WriteFrameUnchecked(payload)

\* The payloads whose length fits the four bytes of a header.
Payload == {p \in Seq(Byte) : FitsHeader(Len(p))}

LEMMA HeaderTyped ==
    ASSUME NEW n \in Nat, FitsHeader(n)
    PROVE  /\ BigEndian(n) \in Seq(Byte) /\ Len(BigEndian(n)) = 4
           /\ FromBigEndian(BigEndian(n)) = n
<1> DEFINE a == n \div 16777216
           b == (n \div 65536) % 256
           c == (n \div 256) % 256
           d == n % 256
<1>1. a \in 0 .. 255 /\ b \in 0 .. 255 /\ c \in 0 .. 255 /\ d \in 0 .. 255
  BY SMT DEF FitsHeader, Byte
<1>2. n = ((a * 256 + b) * 256 + c) * 256 + d
  BY SMT
<1>3. BigEndian(n) = <<a, b, c, d>>
  BY SMT DEF BigEndian
<1> HIDE DEF a, b, c, d
<1>4. BigEndian(n) \in Seq(Byte) /\ Len(BigEndian(n)) = 4
  BY <1>1, <1>3 DEF Byte
<1>5. FromBigEndian(<<a, b, c, d>>) = ((a * 256 + b) * 256 + c) * 256 + d
  BY DEF FromBigEndian
<1> QED
  BY <1>2, <1>3, <1>4, <1>5

LEMMA FramedTyped ==
    ASSUME NEW p \in Payload, NEW limited
    PROVE  /\ Framed(p, limited) \in Seq(Byte)
           /\ Framed(p, limited) = IF limited /\ Len(p) > MAX_FRAME_LEN THEN <<>>
                                   ELSE BigEndian(Len(p)) \o p
<1>1. Framed(p, limited) = IF limited /\ Len(p) > MAX_FRAME_LEN THEN <<>>
                           ELSE BigEndian(Len(p)) \o p
  BY DEF Framed, WriteFrame, WriteFrameUnchecked
<1>2. p \in Seq(Byte) /\ BigEndian(Len(p)) \in Seq(Byte)
  BY HeaderTyped, LenProperties DEF Payload
<1> QED
  BY <1>1, <1>2

\* What is on the wire, what was sent, and where each payload ends, step by step.
WrittenBy(w, payloads, limited) ==
    /\ w \in [0 .. Len(payloads) -> Seq(Byte)] /\ w[0] = <<>>
    /\ \A i \in 1 .. Len(payloads) : w[i] = w[i - 1] \o Framed(payloads[i], limited)

SentBy(s, payloads, limited) ==
    /\ s \in [0 .. Len(payloads) -> Seq(Payload)] /\ s[0] = <<>>
    /\ \A i \in 1 .. Len(payloads) :
         s[i] = IF limited /\ Len(payloads[i]) > MAX_FRAME_LEN THEN s[i - 1]
                ELSE Append(s[i - 1], payloads[i])

EndsBy(e, sent) ==
    /\ e \in [0 .. Len(sent) -> Nat] /\ e[0] = 0
    /\ \A i \in 1 .. Len(sent) : e[i] = e[i - 1] + 4 + Len(sent[i])

LEMMA WrittenUnfolds ==
    ASSUME NEW payloads \in Seq(Payload), NEW limited
    PROVE  \E w : WrittenBy(w, payloads, limited) /\ Written(payloads, limited) = w[Len(payloads)]
<1> DEFINE n == Len(payloads)
           V == Seq(Byte)
           base == <<>>
           After(before, i) == before \o Framed(payloads[i], limited)
           next == [i \in 0 .. n |->
                      [before \in V |-> IF i < n THEN After(before, i + 1) ELSE before]]
           Def(h) == h = [i \in 0 .. n |-> IF i = 0 THEN base ELSE After(h[i - 1], i)]
<1>1. \A i \in 1 .. n, before \in V : After(before, i) \in V
  <2> TAKE i \in 1 .. n, before \in V
  <2>1. payloads[i] \in Payload
    OBVIOUS
  <2>2. Framed(payloads[i], limited) \in Seq(Byte)
    BY <2>1, FramedTyped
  <2> QED
    BY <2>2
<1>2. Written(payloads, limited) = (CHOOSE h : Def(h))[n]
  BY DEF Written, Framed
<1>3. n \in Nat /\ base \in V
  BY LenProperties
<1> HIDE DEF After, n, V, base
<1>4. next \in StepFunctions(n, V)
  BY <1>1, <1>3 DEF StepFunctions
<1>5. \A i \in 0 .. (n - 1), before \in V : next[i][before] = After(before, i + 1)
  BY <1>3
<1> HIDE DEF next
<1>6. \E h : Def(h)
  <2>1. PICK f : Follows(f, n, V, base, next)
    BY <1>3, <1>4, Recursion
  <2>2. f \in [0 .. n -> V] /\ f[0] = base
    BY <2>1 DEF Follows
  <2>3. \A i \in 1 .. n : f[i] = After(f[i - 1], i)
    <3> TAKE i \in 1 .. n
    <3> DEFINE j == i - 1
    <3>1. j \in 0 .. (n - 1) /\ j + 1 = i
      BY <1>3
    <3> HIDE DEF j
    <3>2. f[j + 1] = next[j][f[j]] /\ f[j] \in V
      BY <1>3, <2>1, <2>2, <3>1 DEF Follows
    <3>3. f[i] = After(f[j], i)
      BY <1>5, <3>1, <3>2
    <3> QED
      BY <3>3 DEF j
  <2>4. Def(f)
    BY <1>3, <2>2, <2>3
  <2> QED
    BY <2>4
<1>7. PICK h : h = (CHOOSE g : Def(g)) /\ Def(h)
  BY <1>6
<1>8. \A i \in 0 .. (n - 1) : h[i + 1] = After(h[i], i + 1)
  <2> TAKE i \in 0 .. (n - 1)
  <2> DEFINE j == i + 1
  <2>1. j \in 0 .. n /\ j # 0 /\ j - 1 = i
    BY <1>3
  <2> HIDE DEF j
  <2>2. h[j] = After(h[j - 1], j)
    BY <1>7, <2>1, Zenon
  <2> QED
    BY <2>1, <2>2 DEF j
<1>9. h = [i \in 0 .. n |-> h[i]] /\ h[0] = base
  <2>1. 0 \in 0 .. n
    BY <1>3
  <2>2. h = [i \in 0 .. n |-> IF i = 0 THEN base ELSE After(h[i - 1], i)]
    BY <1>7, Zenon
  <2> QED
    BY <2>1, <2>2, Zenon
<1>10. \A i \in 0 .. (n - 1) : h[i] \in V => h[i + 1] = next[i][h[i]]
  BY <1>5, <1>8
<1> HIDE DEF Def
<1>11. Follows(h, n, V, base, next)
  BY <1>3, <1>4, <1>9, <1>10, Unfolding
<1>12. h \in [0 .. n -> V] /\ \A i \in 1 .. n : h[i] = After(h[i - 1], i)
  <2>1. h \in [0 .. n -> V]
    BY <1>11 DEF Follows
  <2>2. ASSUME NEW i \in 1 .. n PROVE h[i] = After(h[i - 1], i)
    <3> DEFINE j == i - 1
    <3>1. j \in 0 .. (n - 1) /\ j + 1 = i
      BY <1>3
    <3> HIDE DEF j
    <3>2. h[i] = After(h[j], i)
      BY <1>8, <3>1
    <3> QED
      BY <3>2 DEF j
  <2> QED
    BY <2>1, <2>2
<1>13. Written(payloads, limited) = h[n]
  BY <1>2, <1>7
<1> QED
  BY <1>9, <1>12, <1>13 DEF After, n, V, base, WrittenBy

LEMMA SentUnfolds ==
    ASSUME NEW payloads \in Seq(Payload), NEW limited
    PROVE  \E s : SentBy(s, payloads, limited) /\ Sent(payloads, limited) = s[Len(payloads)]
<1> DEFINE n == Len(payloads)
           V == Seq(Payload)
           base == <<>>
           After(before, i) == IF limited /\ Len(payloads[i]) > MAX_FRAME_LEN THEN before
                               ELSE Append(before, payloads[i])
           next == [i \in 0 .. n |->
                      [before \in V |-> IF i < n THEN After(before, i + 1) ELSE before]]
           Def(h) == h = [i \in 0 .. n |-> IF i = 0 THEN base ELSE After(h[i - 1], i)]
<1>1. \A i \in 1 .. n, before \in V : After(before, i) \in V
  <2> TAKE i \in 1 .. n, before \in V
  <2>1. payloads[i] \in Payload
    OBVIOUS
  <2> QED
    BY <2>1
<1>2. Sent(payloads, limited) = (CHOOSE h : Def(h))[n]
  BY DEF Sent
<1>3. n \in Nat /\ base \in V
  BY LenProperties
<1> HIDE DEF After, n, V, base
<1>4. next \in StepFunctions(n, V)
  BY <1>1, <1>3 DEF StepFunctions
<1>5. \A i \in 0 .. (n - 1), before \in V : next[i][before] = After(before, i + 1)
  BY <1>3
<1> HIDE DEF next
<1>6. \E h : Def(h)
  <2>1. PICK f : Follows(f, n, V, base, next)
    BY <1>3, <1>4, Recursion
  <2>2. f \in [0 .. n -> V] /\ f[0] = base
    BY <2>1 DEF Follows
  <2>3. \A i \in 1 .. n : f[i] = After(f[i - 1], i)
    <3> TAKE i \in 1 .. n
    <3> DEFINE j == i - 1
    <3>1. j \in 0 .. (n - 1) /\ j + 1 = i
      BY <1>3
    <3> HIDE DEF j
    <3>2. f[j + 1] = next[j][f[j]] /\ f[j] \in V
      BY <1>3, <2>1, <2>2, <3>1 DEF Follows
    <3>3. f[i] = After(f[j], i)
      BY <1>5, <3>1, <3>2
    <3> QED
      BY <3>3 DEF j
  <2>4. Def(f)
    BY <1>3, <2>2, <2>3
  <2> QED
    BY <2>4
<1>7. PICK h : h = (CHOOSE g : Def(g)) /\ Def(h)
  BY <1>6
<1>8. \A i \in 0 .. (n - 1) : h[i + 1] = After(h[i], i + 1)
  <2> TAKE i \in 0 .. (n - 1)
  <2> DEFINE j == i + 1
  <2>1. j \in 0 .. n /\ j # 0 /\ j - 1 = i
    BY <1>3
  <2> HIDE DEF j
  <2>2. h[j] = After(h[j - 1], j)
    BY <1>7, <2>1, Zenon
  <2> QED
    BY <2>1, <2>2 DEF j
<1>9. h = [i \in 0 .. n |-> h[i]] /\ h[0] = base
  <2>1. 0 \in 0 .. n
    BY <1>3
  <2>2. h = [i \in 0 .. n |-> IF i = 0 THEN base ELSE After(h[i - 1], i)]
    BY <1>7, Zenon
  <2> QED
    BY <2>1, <2>2, Zenon
<1>10. \A i \in 0 .. (n - 1) : h[i] \in V => h[i + 1] = next[i][h[i]]
  BY <1>5, <1>8
<1> HIDE DEF Def
<1>11. Follows(h, n, V, base, next)
  BY <1>3, <1>4, <1>9, <1>10, Unfolding
<1>12. h \in [0 .. n -> V] /\ \A i \in 1 .. n : h[i] = After(h[i - 1], i)
  <2>1. h \in [0 .. n -> V]
    BY <1>11 DEF Follows
  <2>2. ASSUME NEW i \in 1 .. n PROVE h[i] = After(h[i - 1], i)
    <3> DEFINE j == i - 1
    <3>1. j \in 0 .. (n - 1) /\ j + 1 = i
      BY <1>3
    <3> HIDE DEF j
    <3>2. h[i] = After(h[j], i)
      BY <1>8, <3>1
    <3> QED
      BY <3>2 DEF j
  <2> QED
    BY <2>1, <2>2
<1>13. Sent(payloads, limited) = h[n]
  BY <1>2, <1>7
<1> QED
  BY <1>9, <1>12, <1>13 DEF After, n, V, base, SentBy

LEMMA EndsUnfolds ==
    ASSUME NEW sent \in Seq(Payload)
    PROVE  EndsBy(Ends(sent), sent)
<1> DEFINE n == Len(sent)
           V == Nat
           base == 0
           After(before, i) == before + 4 + Len(sent[i])
           next == [i \in 0 .. n |->
                      [before \in V |-> IF i < n THEN After(before, i + 1) ELSE before]]
           Def(h) == h = [i \in 0 .. n |-> IF i = 0 THEN base ELSE After(h[i - 1], i)]
<1>1. \A i \in 1 .. n, before \in V : After(before, i) \in V
  <2> TAKE i \in 1 .. n, before \in V
  <2>1. sent[i] \in Seq(Byte)
    BY DEF Payload
  <2>2. Len(sent[i]) \in Nat
    BY <2>1, LenProperties
  <2> DEFINE m == Len(sent[i])
  <2> HIDE DEF m
  <2>0. before \in Nat /\ m \in Nat
    BY <2>2 DEF m
  <2>3. before + 4 + m \in Nat
    BY <2>0
  <2> QED
    BY <2>3 DEF m
<1>2. Ends(sent) = (CHOOSE h : Def(h))
  BY DEF Ends
<1>3. n \in Nat /\ base \in V
  BY LenProperties
<1> HIDE DEF After, n, V, base
<1>4. next \in StepFunctions(n, V)
  BY <1>1, <1>3 DEF StepFunctions
<1>5. \A i \in 0 .. (n - 1), before \in V : next[i][before] = After(before, i + 1)
  BY <1>3
<1> HIDE DEF next
<1>6. \E h : Def(h)
  <2>1. PICK f : Follows(f, n, V, base, next)
    BY <1>3, <1>4, Recursion
  <2>2. f \in [0 .. n -> V] /\ f[0] = base
    BY <2>1 DEF Follows
  <2>3. \A i \in 1 .. n : f[i] = After(f[i - 1], i)
    <3> TAKE i \in 1 .. n
    <3> DEFINE j == i - 1
    <3>1. j \in 0 .. (n - 1) /\ j + 1 = i
      BY <1>3
    <3> HIDE DEF j
    <3>2. f[j + 1] = next[j][f[j]] /\ f[j] \in V
      BY <1>3, <2>1, <2>2, <3>1 DEF Follows
    <3>3. f[i] = After(f[j], i)
      BY <1>5, <3>1, <3>2
    <3> QED
      BY <3>3 DEF j
  <2>4. Def(f)
    BY <1>3, <2>2, <2>3
  <2> QED
    BY <2>4
<1>7. PICK h : h = (CHOOSE g : Def(g)) /\ Def(h)
  BY <1>6
<1>8. \A i \in 0 .. (n - 1) : h[i + 1] = After(h[i], i + 1)
  <2> TAKE i \in 0 .. (n - 1)
  <2> DEFINE j == i + 1
  <2>1. j \in 0 .. n /\ j # 0 /\ j - 1 = i
    BY <1>3
  <2> HIDE DEF j
  <2>2. h[j] = After(h[j - 1], j)
    BY <1>7, <2>1, Zenon
  <2> QED
    BY <2>1, <2>2 DEF j
<1>9. h = [i \in 0 .. n |-> h[i]] /\ h[0] = base
  <2>1. 0 \in 0 .. n
    BY <1>3
  <2>2. h = [i \in 0 .. n |-> IF i = 0 THEN base ELSE After(h[i - 1], i)]
    BY <1>7, Zenon
  <2> QED
    BY <2>1, <2>2, Zenon
<1>10. \A i \in 0 .. (n - 1) : h[i] \in V => h[i + 1] = next[i][h[i]]
  BY <1>5, <1>8
<1> HIDE DEF Def
<1>11. Follows(h, n, V, base, next)
  BY <1>3, <1>4, <1>9, <1>10, Unfolding
<1>12. h \in [0 .. n -> V] /\ \A i \in 1 .. n : h[i] = After(h[i - 1], i)
  <2>1. h \in [0 .. n -> V]
    BY <1>11 DEF Follows
  <2>2. ASSUME NEW i \in 1 .. n PROVE h[i] = After(h[i - 1], i)
    <3> DEFINE j == i - 1
    <3>1. j \in 0 .. (n - 1) /\ j + 1 = i
      BY <1>3
    <3> HIDE DEF j
    <3>2. h[i] = After(h[j], i)
      BY <1>8, <3>1
    <3> QED
      BY <3>2 DEF j
  <2> QED
    BY <2>1, <2>2
<1>13. Ends(sent) = h
  BY <1>2, <1>7
<1> QED
  BY <1>9, <1>12, <1>13 DEF After, n, V, base, EndsBy


-----------------------------------------------------------------------------
(* The reader.                                                             *)

Readers ==
    {s \in [stream : Seq(Byte), filled : Seq(Byte), length : Nat \cup {-1},
            frames : Seq(Seq(Byte)),
            end : {"open", "closed", "truncated", "too_large", "io"}] :
        Wanted(s) >= 0}

ReadBy(r, stream, arrivals) ==
    /\ r \in [0 .. Len(arrivals) -> Readers] /\ r[0] = NewSession(stream)
    /\ \A i \in 1 .. Len(arrivals) : r[i] = ReadCall(r[i - 1], arrivals[i])

LEMMA SessionFields ==
    ASSUME NEW t \in Readers
    PROVE  /\ t.stream \in Seq(Byte) /\ t.filled \in Seq(Byte) /\ t.length \in Nat \cup {-1}
           /\ t.frames \in Seq(Seq(Byte)) /\ Wanted(t) >= 0
           /\ t.end \in {"open", "closed", "truncated", "too_large", "io"}
           /\ t = [stream |-> t.stream, filled |-> t.filled, length |-> t.length,
                   frames |-> t.frames, end |-> t.end]
BY DEF Readers

LEMMA SessionChanged ==
    ASSUME NEW t \in Readers, NEW l, NEW f
    PROVE  /\ [t EXCEPT !.length = l, !.filled = <<>>] =
                [stream |-> t.stream, filled |-> <<>>, length |-> l,
                 frames |-> t.frames, end |-> t.end]
           /\ [t EXCEPT !.frames = f, !.filled = <<>>, !.length = -1] =
                [stream |-> t.stream, filled |-> <<>>, length |-> -1,
                 frames |-> f, end |-> t.end]
<1>1. PICK a, b, c, d, e :
        t = [stream |-> a, filled |-> b, length |-> c, frames |-> d, end |-> e]
  BY SessionFields
<1>2. t.stream = a /\ t.frames = d /\ t.end = e
  BY <1>1
<1>3. PICK r : r = [t EXCEPT !.length = l, !.filled = <<>>]
  OBVIOUS
<1>4. r = [stream |-> a, filled |-> <<>>, length |-> l, frames |-> d, end |-> e]
  BY <1>1, <1>3
<1>5. PICK q : q = [t EXCEPT !.frames = f, !.filled = <<>>, !.length = -1]
  OBVIOUS
<1>6. q = [stream |-> a, filled |-> <<>>, length |-> -1, frames |-> f, end |-> e]
  BY <1>1, <1>5
<1> QED
  BY <1>2, <1>3, <1>4, <1>5, <1>6, Zenon

LEMMA NewSessionTyped == ASSUME NEW stream \in Seq(Byte) PROVE NewSession(stream) \in Readers
<1>1. Wanted(NewSession(stream)) = 4
  BY DEF Wanted, NewSession
<1> QED
  BY <1>1 DEF NewSession, Readers

LEMMA LeastOfThree ==
    ASSUME NEW a \in Int, NEW b \in Int, NEW c \in Int
    PROVE  /\ Min({a, b, c}) \in {a, b, c}
           /\ Min({a, b, c}) <= a /\ Min({a, b, c}) <= b /\ Min({a, b, c}) <= c
<1> DEFINE S == {a, b, c}
<1>1. \E x \in S : \A y \in S : x =< y
  <2>1. CASE a <= b /\ a <= c
    BY <2>1
  <2>2. CASE b <= a /\ b <= c
    BY <2>2
  <2>3. CASE c <= a /\ c <= b
    BY <2>3
  <2> QED
    BY <2>1, <2>2, <2>3
<1>2. Min(S) \in S /\ \A y \in S : Min(S) =< y
  <2> HIDE DEF S
  <2> QED
    BY <1>1, Zenon DEF Min
<1> QED
  BY <1>2

\* What one read takes from the stream.
Got(s, n) == Min({n, Wanted(s), Len(s.stream)})

\* A sequence of bytes, taken apart after its first n bytes.
IsSplit(s, n, head, tail) ==
    /\ head \in Seq(Byte) /\ Len(head) = n /\ \A i \in 1 .. n : head[i] = s[i]
    /\ tail \in Seq(Byte) /\ Len(tail) = Len(s) - n
    /\ \A i \in 1 .. (Len(s) - n) : tail[i] = s[n + i]

LEMMA SplitAt ==
    ASSUME NEW s \in Seq(Byte), NEW n \in Nat, n <= Len(s)
    PROVE  IsSplit(s, n, SubSeq(s, 1, n), SubSeq(s, n + 1, Len(s)))
<1> DEFINE m == Len(s)
           head == SubSeq(s, 1, n)
           tail == SubSeq(s, n + 1, m)
<1>1. m \in Nat /\ n <= m
  BY LenProperties
<1> HIDE DEF m
<1>2. head \in Seq(Byte) /\ Len(head) = n /\ \A i \in 1 .. n : head[i] = s[i]
  BY <1>1 DEF m
<1>3. tail \in Seq(Byte) /\ Len(tail) = m - n
  BY <1>1 DEF m
<1>4. \A i \in 1 .. (m - n) : tail[i] = s[n + i]
  BY <1>1 DEF m
<1> HIDE DEF head, tail
<1>5. IsSplit(s, n, head, tail)
  BY <1>2, <1>3, <1>4 DEF IsSplit, m
<1> QED
  BY <1>5 DEF head, tail, m

LEMMA ReadAtMostTakes ==
    ASSUME NEW s \in Readers, NEW n \in Nat
    PROVE  /\ Got(s, n) \in Nat /\ Got(s, n) <= Wanted(s) /\ Got(s, n) <= Len(s.stream)
           /\ n > 0 /\ Wanted(s) > 0 /\ s.stream # <<>> => Got(s, n) > 0
           /\ ReadAtMost(s, n) =
                [s EXCEPT !.filled = s.filled \o SubSeq(s.stream, 1, Got(s, n)),
                          !.stream = SubSeq(s.stream, Got(s, n) + 1, Len(s.stream))]
           /\ ReadAtMost(s, n) \in Readers
           /\ Wanted(ReadAtMost(s, n)) = Wanted(s) - Got(s, n)
           /\ Len(ReadAtMost(s, n).filled) = Len(s.filled) + Got(s, n)
           /\ Len(ReadAtMost(s, n).stream) = Len(s.stream) - Got(s, n)
<1> DEFINE taken == Got(s, n)
           r == ReadAtMost(s, n)
<1>1. /\ s.stream \in Seq(Byte) /\ s.filled \in Seq(Byte) /\ s.length \in Nat \cup {-1}
      /\ s.frames \in Seq(Seq(Byte)) /\ Wanted(s) >= 0
      /\ s.end \in {"open", "closed", "truncated", "too_large", "io"}
      /\ s = [stream |-> s.stream, filled |-> s.filled, length |-> s.length,
              frames |-> s.frames, end |-> s.end]
  BY SessionFields
<1>2. Len(s.stream) \in Nat /\ Len(s.filled) \in Nat
  BY <1>1, LenProperties
<1>3. Wanted(s) = (IF s.length = -1 THEN 4 ELSE s.length) - Len(s.filled) /\ Wanted(s) \in Nat
  BY <1>1, <1>2 DEF Wanted
<1>4. taken \in {n, Wanted(s), Len(s.stream)} /\ taken <= Wanted(s) /\ taken <= Len(s.stream)
  <2> DEFINE b == Wanted(s)
             c == Len(s.stream)
  <2>1. taken = Min({n, b, c}) /\ b \in Int /\ c \in Int
    BY <1>2, <1>3 DEF Got
  <2> HIDE DEF taken, b, c
  <2>2. taken \in {n, b, c} /\ taken <= b /\ taken <= c
    <3>1. n \in Int
      OBVIOUS
    <3> QED
      BY <2>1, <3>1, LeastOfThree, Zenon
  <2> QED
    BY <2>2 DEF b, c
<1>5. taken \in Nat
  BY <1>2, <1>3, <1>4
<1>6. n > 0 /\ Wanted(s) > 0 /\ s.stream # <<>> => taken > 0
  <2>1. s.stream # <<>> => Len(s.stream) > 0
    BY <1>1, <1>2, EmptySeq
  <2> HIDE DEF taken
  <2> QED
    BY <1>2, <1>3, <1>4, <2>1
<1>7. r = [s EXCEPT !.filled = s.filled \o SubSeq(s.stream, 1, taken),
                    !.stream = SubSeq(s.stream, taken + 1, Len(s.stream))]
  BY DEF ReadAtMost, Got
<1> HIDE DEF r, taken
<1> DEFINE head == SubSeq(s.stream, 1, taken)
           tail == SubSeq(s.stream, taken + 1, Len(s.stream))
<1>8. /\ head \in Seq(Byte) /\ Len(head) = taken
      /\ tail \in Seq(Byte) /\ Len(tail) = Len(s.stream) - taken
  <2>1. IsSplit(s.stream, taken, head, tail)
    BY <1>1, <1>4, <1>5, SplitAt
  <2> HIDE DEF head, tail
  <2> QED
    BY <2>1 DEF IsSplit
<1> HIDE DEF head, tail
<1>9. /\ r.filled = s.filled \o head /\ r.stream = tail /\ r.length = s.length
      /\ r.frames = s.frames /\ r.end = s.end
      /\ r = [stream |-> tail, filled |-> s.filled \o head, length |-> s.length,
              frames |-> s.frames, end |-> s.end]
  BY <1>1, <1>7 DEF head, tail
<1>10. s.filled \o head \in Seq(Byte) /\ Len(s.filled \o head) = Len(s.filled) + taken
  BY <1>1, <1>8, ConcatProperties
<1>11. Wanted(r) = Wanted(s) - taken
  <2>1. Len(r.filled) = Len(s.filled) + taken /\ r.length = s.length
    BY <1>9, <1>10
  <2>2. Wanted(r) = (IF r.length = -1 THEN 4 ELSE r.length) - Len(r.filled)
    BY DEF Wanted
  <2> QED
    BY <1>1, <1>2, <1>3, <1>5, <2>1, <2>2
<1>12. r \in Readers
  BY <1>1, <1>3, <1>4, <1>5, <1>8, <1>9, <1>10, <1>11 DEF Readers
<1> QED
  BY <1>4, <1>5, <1>6, <1>7, <1>8, <1>9, <1>10, <1>11, <1>12 DEF taken, r

LEMMA ReadCallTyped ==
    ASSUME NEW s \in Readers, NEW arrival \in Nat \cup {Failed}
    PROVE  ReadCall(s, arrival) \in Readers
<1>1. ASSUME NEW t \in Readers, NEW e \in {"open", "closed", "truncated", "too_large", "io"}
      PROVE  [t EXCEPT !.end = e] \in Readers
  <2>1. Wanted([t EXCEPT !.end = e]) = Wanted(t)
    BY DEF Wanted, Readers
  <2> QED
    BY <2>1 DEF Readers
<1>2. EndOfStream(s) \in Readers
  BY <1>1 DEF EndOfStream
<1>3. ASSUME NEW t \in Readers PROVE DeclareLength(t) \in Readers
  <2> DEFINE declared == FromBigEndian(t.filled)
  <2>1. CASE t.length # -1 \/ Wanted(t) # 0
    BY <2>1 DEF DeclareLength
  <2>2. CASE t.length = -1 /\ Wanted(t) = 0
    <3>1. t.filled \in Seq(Byte) /\ Len(t.filled) = 4
      BY <2>2, LenProperties DEF Readers, Wanted
    <3>2. declared \in Nat
      <4> DEFINE a == t.filled[1]
                 b == t.filled[2]
                 c == t.filled[3]
                 d == t.filled[4]
      <4>1. a \in Nat /\ b \in Nat /\ c \in Nat /\ d \in Nat
        <5>1. \A i \in 1 .. 4 : t.filled[i] \in Byte
          BY <3>1
        <5>2. \A v \in Byte : v \in Nat
          BY DEF Byte
        <5> QED
          BY <5>1, <5>2
      <4>2. declared = ((a * 256 + b) * 256 + c) * 256 + d
        BY DEF FromBigEndian
      <4> HIDE DEF a, b, c, d, declared
      <4> QED
        BY <4>1, <4>2
    <3>3. DeclareLength(t) = IF declared > MAX_FRAME_LEN THEN [t EXCEPT !.end = "too_large"]
                             ELSE [t EXCEPT !.length = declared, !.filled = <<>>]
      BY <2>2 DEF DeclareLength
    <3> HIDE DEF declared
    <3> DEFINE r == [t EXCEPT !.length = declared, !.filled = <<>>]
    <3>4. r.length = declared /\ r.filled = <<>>
      BY DEF Readers
    <3>5. Wanted(r) = declared
      <4> HIDE DEF r
      <4> QED
        BY <3>2, <3>4 DEF Wanted
    <3>6. r \in Readers
      <4>1. r = [stream |-> t.stream, filled |-> <<>>, length |-> declared,
                 frames |-> t.frames, end |-> t.end]
        BY SessionChanged
      <4>2. /\ t.stream \in Seq(Byte) /\ t.frames \in Seq(Seq(Byte))
            /\ t.end \in {"open", "closed", "truncated", "too_large", "io"}
        BY DEF Readers
      <4> HIDE DEF r
      <4>3. <<>> \in Seq(Byte)
        OBVIOUS
      <4>4. Wanted(r) >= 0
        BY <3>2, <3>5
      <4> QED
        BY <3>2, <4>1, <4>2, <4>3, <4>4 DEF Readers
    <3> QED
      BY <1>1, <3>3, <3>6
  <2> QED
    BY <2>1, <2>2
<1>4. ASSUME NEW t \in Readers PROVE Deliver(t) \in Readers
  <2> DEFINE r == [t EXCEPT !.frames = Append(@, t.filled), !.filled = <<>>, !.length = -1]
  <2>1. r.length = -1 /\ r.filled = <<>>
    BY DEF Readers
  <2>2. Wanted(r) = 4
    <3> HIDE DEF r
    <3> QED
      BY <2>1 DEF Wanted
  <2>3. r \in Readers
    <3>1. r = [stream |-> t.stream, filled |-> <<>>, length |-> -1,
               frames |-> Append(t.frames, t.filled), end |-> t.end]
      <4> DEFINE f == Append(t.frames, t.filled)
      <4> HIDE DEF f
      <4>1. [t EXCEPT !.frames = f, !.filled = <<>>, !.length = -1] =
                [stream |-> t.stream, filled |-> <<>>, length |-> -1,
                 frames |-> f, end |-> t.end]
        BY SessionChanged
      <4> QED
        BY <4>1 DEF f
    <3>2. /\ t.stream \in Seq(Byte) /\ t.frames \in Seq(Seq(Byte)) /\ t.filled \in Seq(Byte)
          /\ t.end \in {"open", "closed", "truncated", "too_large", "io"}
      BY DEF Readers
    <3> HIDE DEF r
    <3>3. <<>> \in Seq(Byte) /\ Append(t.frames, t.filled) \in Seq(Seq(Byte))
      BY <3>2
    <3> QED
      BY <2>2, <3>1, <3>2, <3>3 DEF Readers
  <2> QED
    BY <2>3 DEF Deliver
<1>5. CASE arrival = Failed
  BY <1>1, <1>5 DEF ReadCall
<1>6. CASE arrival \in Nat
  <2>1. ReadAtMost(s, arrival) \in Readers
    BY <1>6, ReadAtMostTakes
  <2> QED
    BY <1>1, <1>2, <1>3, <1>4, <2>1 DEF ReadCall
<1> QED
  BY <1>5, <1>6

LEMMA ReadFramesUnfolds ==
    ASSUME NEW stream \in Seq(Byte), NEW arrivals \in Seq(Nat \cup {Failed})
    PROVE  \E s : ReadBy(s, stream, arrivals) /\ ReadFrames(stream, arrivals) = s[Len(arrivals)]
<1> DEFINE n == Len(arrivals)
           V == Readers
           base == NewSession(stream)
           After(before, i) == ReadCall(before, arrivals[i])
           next == [i \in 0 .. n |->
                      [before \in V |-> IF i < n THEN After(before, i + 1) ELSE before]]
           Def(h) == h = [i \in 0 .. n |-> IF i = 0 THEN base ELSE After(h[i - 1], i)]
<1>1. \A i \in 1 .. n, before \in V : After(before, i) \in V
  <2> TAKE i \in 1 .. n, before \in V
  <2>1. arrivals[i] \in Nat \cup {Failed}
    OBVIOUS
  <2> QED
    BY <2>1, ReadCallTyped
<1>2. ReadFrames(stream, arrivals) = (CHOOSE h : Def(h))[n]
  BY DEF ReadFrames
<1>3. n \in Nat /\ base \in V
  BY LenProperties, NewSessionTyped
<1> HIDE DEF After, n, V, base
<1>4. next \in StepFunctions(n, V)
  BY <1>1, <1>3 DEF StepFunctions
<1>5. \A i \in 0 .. (n - 1), before \in V : next[i][before] = After(before, i + 1)
  BY <1>3
<1> HIDE DEF next
<1>6. \E h : Def(h)
  <2>1. PICK f : Follows(f, n, V, base, next)
    BY <1>3, <1>4, Recursion
  <2>2. f \in [0 .. n -> V] /\ f[0] = base
    BY <2>1 DEF Follows
  <2>3. \A i \in 1 .. n : f[i] = After(f[i - 1], i)
    <3> TAKE i \in 1 .. n
    <3> DEFINE j == i - 1
    <3>1. j \in 0 .. (n - 1) /\ j + 1 = i
      BY <1>3
    <3> HIDE DEF j
    <3>2. f[j + 1] = next[j][f[j]] /\ f[j] \in V
      BY <1>3, <2>1, <2>2, <3>1 DEF Follows
    <3>3. f[i] = After(f[j], i)
      BY <1>5, <3>1, <3>2
    <3> QED
      BY <3>3 DEF j
  <2>4. Def(f)
    BY <1>3, <2>2, <2>3
  <2> QED
    BY <2>4
<1>7. PICK h : h = (CHOOSE g : Def(g)) /\ Def(h)
  BY <1>6
<1>8. \A i \in 0 .. (n - 1) : h[i + 1] = After(h[i], i + 1)
  <2> TAKE i \in 0 .. (n - 1)
  <2> DEFINE j == i + 1
  <2>1. j \in 0 .. n /\ j # 0 /\ j - 1 = i
    BY <1>3
  <2> HIDE DEF j
  <2>2. h[j] = After(h[j - 1], j)
    BY <1>7, <2>1, Zenon
  <2> QED
    BY <2>1, <2>2 DEF j
<1>9. h = [i \in 0 .. n |-> h[i]] /\ h[0] = base
  <2>1. 0 \in 0 .. n
    BY <1>3
  <2>2. h = [i \in 0 .. n |-> IF i = 0 THEN base ELSE After(h[i - 1], i)]
    BY <1>7, Zenon
  <2> QED
    BY <2>1, <2>2, Zenon
<1>10. \A i \in 0 .. (n - 1) : h[i] \in V => h[i + 1] = next[i][h[i]]
  BY <1>5, <1>8
<1> HIDE DEF Def
<1>11. Follows(h, n, V, base, next)
  BY <1>3, <1>4, <1>9, <1>10, Unfolding
<1>12. h \in [0 .. n -> V] /\ \A i \in 1 .. n : h[i] = After(h[i - 1], i)
  <2>1. h \in [0 .. n -> V]
    BY <1>11 DEF Follows
  <2>2. ASSUME NEW i \in 1 .. n PROVE h[i] = After(h[i - 1], i)
    <3> DEFINE j == i - 1
    <3>1. j \in 0 .. (n - 1) /\ j + 1 = i
      BY <1>3
    <3> HIDE DEF j
    <3>2. h[i] = After(h[j], i)
      BY <1>8, <3>1
    <3> QED
      BY <3>2 DEF j
  <2> QED
    BY <2>1, <2>2
<1>13. ReadFrames(stream, arrivals) = h[n]
  BY <1>2, <1>7
<1> QED
  BY <1>9, <1>12, <1>13 DEF After, n, V, base, ReadBy


\* On the wire the payloads lie one after another, each behind its header.
Laid(w, sent, e) ==
    /\ Len(w) = e[Len(sent)]
    /\ \A k \in 1 .. Len(sent) :
          /\ \A i \in 1 .. 4 : w[e[k - 1] + i] = BigEndian(Len(sent[k]))[i]
          /\ \A i \in 1 .. Len(sent[k]) : w[e[k - 1] + 4 + i] = sent[k][i]

LEMMA EndsGrow ==
    ASSUME NEW sent \in Seq(Payload), NEW e, EndsBy(e, sent), NEW j \in 0 .. Len(sent)
    PROVE  \A k \in j .. Len(sent) : e[j] <= e[k]
<1> DEFINE n == Len(sent)
           S == {k \in 0 .. n : k >= j => e[j] <= e[k]}
<1>1. n \in Nat
  BY LenProperties
<1>2. e \in [0 .. n -> Nat]
  BY DEF EndsBy
<1>3. 0 \in S
  BY <1>1, <1>2
<1>4. ASSUME NEW k \in 0 .. (n - 1), k \in S PROVE k + 1 \in S
  <2>1. sent[k + 1] \in Seq(Byte)
    BY <1>1 DEF Payload
  <2>2. e[k + 1] = e[k] + 4 + Len(sent[k + 1]) /\ Len(sent[k + 1]) \in Nat
    <3> DEFINE m == k + 1
    <3>1. m \in 1 .. n /\ m - 1 = k
      BY <1>1
    <3> HIDE DEF m
    <3>2. e[m] = e[m - 1] + 4 + Len(sent[m])
      BY <3>1 DEF EndsBy
    <3> QED
      BY <2>1, <3>1, <3>2, LenProperties DEF m
  <2>3. e[k] \in Nat /\ e[j] \in Nat /\ k + 1 \in 0 .. n
    BY <1>1, <1>2
  <2>4. CASE k + 1 = j
    BY <2>3, <2>4
  <2>5. CASE k >= j
    <3>1. e[j] <= e[k]
      BY <1>4, <2>5
    <3> QED
      BY <2>2, <2>3, <3>1
  <2>6. k + 1 = j \/ k >= j \/ ~(k + 1 >= j)
    BY <1>1
  <2> QED
    BY <2>3, <2>4, <2>5, <2>6
<1>5. 0 .. n \subseteq S
  <2> HIDE DEF S, n
  <2> QED
    BY <1>1, <1>3, <1>4, InductionUpTo
<1> QED
  BY <1>1, <1>5

LEMMA EndsUnique ==
    ASSUME NEW sent \in Seq(Payload), NEW e, NEW d, EndsBy(e, sent), EndsBy(d, sent)
    PROVE  e = d
<1> DEFINE n == Len(sent)
<1>1. n \in Nat
  BY LenProperties
<1>2. e \in [0 .. n -> Nat] /\ d \in [0 .. n -> Nat] /\ e[0] = d[0]
  BY DEF EndsBy
<1>3. ASSUME NEW i \in 0 .. (n - 1), e[i] = d[i] PROVE e[i + 1] = d[i + 1]
  <2> DEFINE m == i + 1
  <2>1. m \in 1 .. n /\ m - 1 = i
    BY <1>1
  <2> HIDE DEF m
  <2>2. e[m] = e[m - 1] + 4 + Len(sent[m]) /\ d[m] = d[m - 1] + 4 + Len(sent[m])
    BY <2>1 DEF EndsBy
  <2> QED
    BY <1>3, <2>1, <2>2 DEF m
<1> HIDE DEF n
<1> QED
  BY <1>1, <1>2, <1>3, SameRecursion, Zenon

IsConcat(c, a, b) ==
    /\ c \in Seq(Byte) /\ Len(c) = Len(a) + Len(b)
    /\ \A i \in 1 .. Len(a) : c[i] = a[i]
    /\ \A i \in 1 .. Len(b) : c[Len(a) + i] = b[i]

LEMMA ConcatAt ==
    ASSUME NEW a \in Seq(Byte), NEW b \in Seq(Byte)
    PROVE  IsConcat(a \o b, a, b)
<1> DEFINE c == a \o b
<1>1. Len(a) \in Nat /\ Len(b) \in Nat
  BY LenProperties
<1>2. /\ c \in Seq(Byte) /\ Len(c) = Len(a) + Len(b)
      /\ \A i \in 1 .. (Len(a) + Len(b)) : c[i] = IF i <= Len(a) THEN a[i] ELSE b[i - Len(a)]
  BY ConcatProperties
<1> HIDE DEF c
<1>3. ASSUME NEW i \in 1 .. Len(b) PROVE c[Len(a) + i] = b[i]
  <2> DEFINE j == Len(a) + i
  <2>1. j \in 1 .. (Len(a) + Len(b)) /\ ~(j <= Len(a)) /\ j - Len(a) = i
    BY <1>1
  <2> HIDE DEF j
  <2>2. c[j] = b[i]
    BY <1>2, <2>1
  <2> QED
    BY <2>2 DEF j
<1>4. ASSUME NEW i \in 1 .. Len(a) PROVE c[i] = a[i]
  BY <1>1, <1>2
<1>5. IsConcat(c, a, b)
  BY <1>2, <1>3, <1>4 DEF IsConcat
<1> QED
  BY <1>5 DEF c

\* A header and a payload behind what is on the wire.
IsThreeParts(v, w, h, p) ==
    /\ v \in Seq(Byte) /\ Len(v) = Len(w) + 4 + Len(p)
    /\ \A i \in 1 .. Len(w) : v[i] = w[i]
    /\ \A i \in 1 .. 4 : v[Len(w) + i] = h[i]
    /\ \A i \in 1 .. Len(p) : v[Len(w) + 4 + i] = p[i]

LEMMA ThreeParts ==
    ASSUME NEW w \in Seq(Byte), NEW h \in Seq(Byte), Len(h) = 4, NEW p \in Seq(Byte)
    PROVE  IsThreeParts(w \o (h \o p), w, h, p)
<1> DEFINE t == h \o p
<1>1. Len(w) \in Nat /\ Len(p) \in Nat
  BY LenProperties
<1>2. /\ t \in Seq(Byte) /\ Len(t) = 4 + Len(p)
      /\ \A i \in 1 .. 4 : t[i] = h[i]
      /\ \A i \in 1 .. Len(p) : t[4 + i] = p[i]
  <2>1. /\ t \in Seq(Byte) /\ Len(t) = Len(h) + Len(p)
        /\ \A i \in 1 .. Len(h) : t[i] = h[i]
        /\ \A i \in 1 .. Len(p) : t[Len(h) + i] = p[i]
    <3>1. IsConcat(t, h, p)
      BY ConcatAt
    <3> HIDE DEF t
    <3> QED
      BY <3>1 DEF IsConcat
  <2> HIDE DEF t
  <2> QED
    BY <2>1
<1> HIDE DEF t
<1> DEFINE v == w \o t
<1>3. /\ v \in Seq(Byte) /\ Len(v) = Len(w) + Len(t)
      /\ \A i \in 1 .. Len(w) : v[i] = w[i]
      /\ \A i \in 1 .. Len(t) : v[Len(w) + i] = t[i]
  <2>1. IsConcat(v, w, t)
    BY <1>2, ConcatAt
  <2> HIDE DEF v
  <2> QED
    BY <2>1 DEF IsConcat
<1> HIDE DEF v
<1>4. ASSUME NEW i \in 1 .. 4 PROVE v[Len(w) + i] = h[i]
  BY <1>1, <1>2, <1>3
<1>5. ASSUME NEW i \in 1 .. Len(p) PROVE v[Len(w) + 4 + i] = p[i]
  <2> DEFINE j == 4 + i
  <2>1. j \in 1 .. Len(t) /\ Len(w) + j = Len(w) + 4 + i /\ t[j] = p[i]
    BY <1>1, <1>2
  <2> HIDE DEF j
  <2>2. v[Len(w) + j] = p[i]
    BY <1>3, <2>1
  <2> QED
    BY <2>1, <2>2
<1>6. Len(v) = Len(w) + 4 + Len(p)
  BY <1>1, <1>2, <1>3
<1>7. v \in Seq(Byte) /\ \A i \in 1 .. Len(w) : v[i] = w[i]
  BY <1>3
<1>8. IsThreeParts(v, w, h, p)
  BY <1>4, <1>5, <1>6, <1>7, Zenon DEF IsThreeParts
<1> QED
  BY <1>8 DEF v, t

LEMMA OneMoreLaid ==
    ASSUME NEW sent \in Seq(Payload), NEW e, EndsBy(e, sent), NEW w \in Seq(Byte), Laid(w, sent, e),
           NEW p \in Payload
    PROVE  \E d : /\ EndsBy(d, Append(sent, p))
                  /\ Laid(w \o (BigEndian(Len(p)) \o p), Append(sent, p), d)
<1> DEFINE n == Len(sent)
           more == Append(sent, p)
           header == BigEndian(Len(p))
           v == w \o (header \o p)
           d == [k \in 0 .. (n + 1) |-> IF k = n + 1 THEN e[n] + 4 + Len(p) ELSE e[k]]
<1>1. n \in Nat /\ p \in Seq(Byte) /\ Len(p) \in Nat /\ Len(w) \in Nat
  BY LenProperties DEF Payload
<1>2. e \in [0 .. n -> Nat] /\ e[0] = 0
  BY DEF EndsBy
<1>3. header \in Seq(Byte) /\ Len(header) = 4
  BY <1>1, HeaderTyped DEF Payload
<1> HIDE DEF header
<1>5. /\ Len(v) = Len(w) + 4 + Len(p)
      /\ \A i \in 1 .. Len(w) : v[i] = w[i]
      /\ \A i \in 1 .. 4 : v[Len(w) + i] = header[i]
      /\ \A i \in 1 .. Len(p) : v[Len(w) + 4 + i] = p[i]
  <2>1. IsThreeParts(v, w, header, p)
    BY <1>1, <1>3, ThreeParts, Zenon
  <2> HIDE DEF v
  <2> QED
    BY <2>1, Zenon DEF IsThreeParts
<1>6. /\ more \in Seq(Payload) /\ Len(more) = n + 1 /\ more[n + 1] = p
      /\ \A k \in 1 .. n : more[k] = sent[k]
  BY <1>1
<1>4. n = Len(sent)
  OBVIOUS
<1> HIDE DEF n, more, v
<1>7. \A k \in 0 .. n : d[k] = e[k]
  BY <1>1
<1>8. d[n + 1] = e[n] + 4 + Len(p) /\ d \in [0 .. (n + 1) -> Nat]
  <2> DEFINE last == e[n] + 4 + Len(p)
  <2>1. last \in Nat
    <3>1. e[n] \in Nat
      BY <1>1, <1>2
    <3> QED
      BY <1>1, <3>1
  <2> HIDE DEF last
  <2>2. d = [k \in 0 .. (n + 1) |-> IF k = n + 1 THEN last ELSE e[k]]
    BY DEF last
  <2> HIDE DEF d
  <2>3. \A k \in 0 .. (n + 1) : d[k] \in Nat
    BY <1>1, <1>2, <2>1, <2>2
  <2>4. d[n + 1] = last
    BY <1>1, <2>2
  <2> QED
    BY <2>2, <2>3, <2>4 DEF last
<1> HIDE DEF d
<1>9. EndsBy(d, more)
  <2>1. ASSUME NEW i \in 1 .. (n + 1) PROVE d[i] = d[i - 1] + 4 + Len(more[i])
    <3>1. CASE i = n + 1
      <4>1. i - 1 = n /\ n \in 0 .. n
        BY <1>1, <3>1
      <4>2. d[i] = e[n] + 4 + Len(p) /\ d[n] = e[n] /\ more[i] = p
        BY <1>6, <1>7, <1>8, <3>1, <4>1
      <4> QED
        BY <4>1, <4>2
    <3>2. CASE i \in 1 .. n
      <4>1. e[i] = e[i - 1] + 4 + Len(sent[i])
        BY <1>4, <3>2 DEF EndsBy
      <4>2. i \in 0 .. n /\ i - 1 \in 0 .. n
        BY <1>1, <3>2
      <4>3. d[i] = e[i] /\ d[i - 1] = e[i - 1] /\ more[i] = sent[i]
        BY <1>6, <1>7, <3>2, <4>2
      <4> QED
        BY <4>1, <4>3
    <3> QED
      BY <1>1, <3>1, <3>2
  <2> QED
    BY <1>1, <1>2, <1>6, <1>7, <1>8, <2>1 DEF EndsBy
<1>10. Laid(v, more, d)
  <2>1. Len(w) = e[n]
    BY <1>4 DEF Laid
  <2>2. Len(v) = d[Len(more)]
    BY <1>1, <1>5, <1>6, <1>8, <2>1
  <2>3. ASSUME NEW k \in 1 .. (n + 1)
        PROVE  /\ \A i \in 1 .. 4 : v[d[k - 1] + i] = BigEndian(Len(more[k]))[i]
               /\ \A i \in 1 .. Len(more[k]) : v[d[k - 1] + 4 + i] = more[k][i]
    <3>1. CASE k = n + 1
      <4>1. more[k] = p /\ d[k - 1] = Len(w)
        BY <1>1, <1>6, <1>7, <2>1, <3>1
      <4> QED
        BY <1>5, <4>1 DEF header
    <3>2. CASE k \in 1 .. n
      <4>1. more[k] = sent[k] /\ d[k - 1] = e[k - 1] /\ e[k - 1] \in Nat
        <5>1. k - 1 \in 0 .. n /\ k - 1 # n + 1
          BY <1>1, <3>2
        <5>2. d[k - 1] = e[k - 1]
          BY <1>7, <5>1
        <5>3. e[k - 1] \in Nat
          BY <1>2, <5>1
        <5>4. more[k] = sent[k]
          BY <1>6, <3>2
        <5> QED
          BY <5>2, <5>3, <5>4
      <4>2. sent[k] \in Seq(Byte) /\ Len(sent[k]) \in Nat
        BY <1>4, <3>2, LenProperties DEF Payload
      <4>3. e[k] = e[k - 1] + 4 + Len(sent[k]) /\ e[k] <= e[n]
        <5>1. e[k] = e[k - 1] + 4 + Len(sent[k])
          BY <1>4, <3>2 DEF EndsBy
        <5>2. k \in 0 .. Len(sent) /\ Len(sent) \in k .. Len(sent)
          BY <1>1, <1>4, <3>2
        <5>3. e[k] <= e[Len(sent)]
          BY <5>2, EndsGrow
        <5> QED
          BY <1>4, <5>1, <5>3
      <4>4. \A i \in 1 .. (4 + Len(sent[k])) : v[e[k - 1] + i] = w[e[k - 1] + i]
        <5> TAKE i \in 1 .. (4 + Len(sent[k]))
        <5> DEFINE l == Len(sent[k])
                   b == e[k - 1]
                   c == e[n]
        <5>2. l \in Nat /\ b \in Nat /\ i \in 1 .. (4 + l) /\ b + 4 + l <= c /\ c = Len(w)
          BY <2>1, <4>1, <4>2, <4>3
        <5>3. Len(w) \in Nat
          BY <1>1
        <5> HIDE DEF l, b, c
        <5>4. b + i \in 1 .. Len(w)
          BY <5>2, <5>3
        <5>1. e[k - 1] + i \in 1 .. Len(w)
          BY <5>4 DEF b
        <5> QED
          BY <1>5, <5>1
      <4>5. /\ \A i \in 1 .. 4 : w[e[k - 1] + i] = BigEndian(Len(sent[k]))[i]
            /\ \A i \in 1 .. Len(sent[k]) : w[e[k - 1] + 4 + i] = sent[k][i]
        BY <1>4, <3>2 DEF Laid
      <4>6. \A i \in 1 .. Len(sent[k]) : v[e[k - 1] + 4 + i] = w[e[k - 1] + 4 + i]
        <5> TAKE i \in 1 .. Len(sent[k])
        <5> DEFINE j == 4 + i
        <5> DEFINE l == Len(sent[k])
                   b == e[k - 1]
        <5>0. l \in Nat /\ b \in Nat /\ i \in 1 .. l
          BY <4>1, <4>2
        <5> HIDE DEF l, b
        <5>2. j \in 1 .. (4 + l) /\ b + j = b + 4 + i
          BY <5>0
        <5>1. j \in 1 .. (4 + Len(sent[k])) /\ e[k - 1] + j = e[k - 1] + 4 + i
          BY <5>2 DEF l, b
        <5> HIDE DEF j
        <5> QED
          BY <4>4, <5>1
      <4>7. \A i \in 1 .. 4 : v[e[k - 1] + i] = w[e[k - 1] + i]
        <5>1. \A i \in 1 .. 4 : i \in 1 .. (4 + Len(sent[k]))
          BY <4>2
        <5> QED
          BY <4>4, <5>1
      <4> QED
        BY <4>1, <4>5, <4>6, <4>7
    <3> QED
      BY <1>1, <3>1, <3>2
  <2> QED
    BY <1>6, <2>2, <2>3 DEF Laid
<1> QED
  BY <1>9, <1>10 DEF more, v, header, n

LEMMA WrittenIsLaid ==
    ASSUME NEW payloads \in Seq(Payload), NEW limited
    PROVE  LET sent == Sent(payloads, limited) IN
           /\ sent \in Seq(Payload) /\ Written(payloads, limited) \in Seq(Byte)
           /\ EndsBy(Ends(sent), sent) /\ Laid(Written(payloads, limited), sent, Ends(sent))
<1> DEFINE n == Len(payloads)
<1>1. n \in Nat
  BY LenProperties
<1>2. PICK w : WrittenBy(w, payloads, limited) /\ Written(payloads, limited) = w[n]
  BY WrittenUnfolds
<1>3. PICK s : SentBy(s, payloads, limited) /\ Sent(payloads, limited) = s[n]
  BY SentUnfolds
<1>4. w \in [0 .. n -> Seq(Byte)] /\ w[0] = <<>>
  BY <1>2 DEF WrittenBy
<1>5. s \in [0 .. n -> Seq(Payload)] /\ s[0] = <<>>
  BY <1>3 DEF SentBy
<1> DEFINE Good(i) == \E e : EndsBy(e, s[i]) /\ Laid(w[i], s[i], e)
           S == {i \in 0 .. n : Good(i)}
<1>6. Good(0)
  <2> DEFINE e == [k \in 0 .. 0 |-> 0]
  <2>1. EndsBy(e, <<>>)
    BY DEF EndsBy
  <2>2. Laid(<<>>, <<>>, e)
    BY DEF Laid
  <2> QED
    BY <1>4, <1>5, <2>1, <2>2
<1>7. ASSUME NEW i \in 0 .. (n - 1), Good(i) PROVE Good(i + 1)
  <2> DEFINE m == i + 1
             p == payloads[m]
  <2>1. m \in 1 .. n /\ m - 1 = i
    BY <1>1
  <2>2. p \in Payload
    BY <2>1
  <2> HIDE DEF m
  <2>3. w[m] = w[i] \o Framed(p, limited)
    BY <1>2, <2>1 DEF WrittenBy
  <2>4. s[m] = IF limited /\ Len(p) > MAX_FRAME_LEN THEN s[i] ELSE Append(s[i], p)
    BY <1>3, <2>1 DEF SentBy
  <2> HIDE DEF p
  <2>5. Framed(p, limited) = IF limited /\ Len(p) > MAX_FRAME_LEN THEN <<>>
                             ELSE BigEndian(Len(p)) \o p
    BY <2>2, FramedTyped
  <2>6. w[i] \in Seq(Byte) /\ s[i] \in Seq(Payload)
    <3> HIDE DEF n, Good, S
    <3>1. i \in 0 .. n
      BY <1>1
    <3> QED
      BY <3>1, <1>4, <1>5
  <2>7. PICK e : EndsBy(e, s[i]) /\ Laid(w[i], s[i], e)
    BY <1>7
  <2>8. CASE limited /\ Len(p) > MAX_FRAME_LEN
    <3>1. Framed(p, limited) = <<>>
      BY <2>5, <2>8, Zenon
    <3>2. s[m] = s[i]
      BY <2>4, <2>8, Zenon
    <3>3. w[i] \o <<>> = w[i]
      BY <2>6
    <3>4. w[m] = w[i]
      BY <2>3, <3>1, <3>3, Zenon
    <3> QED
      BY <2>7, <3>2, <3>4 DEF m
  <2>9. CASE ~(limited /\ Len(p) > MAX_FRAME_LEN)
    <3>1. w[m] = w[i] \o (BigEndian(Len(p)) \o p) /\ s[m] = Append(s[i], p)
      BY <2>3, <2>4, <2>5, <2>9
    <3>2. \E d : EndsBy(d, s[m]) /\ Laid(w[m], s[m], d)
      BY <2>2, <2>6, <2>7, <3>1, OneMoreLaid
    <3> QED
      BY <3>2 DEF m
  <2> QED
    BY <2>8, <2>9
<1>8. Good(n)
  <2> HIDE DEF Good, n
  <2>1. 0 \in S /\ \A i \in 0 .. (n - 1) : i \in S => i + 1 \in S
    BY <1>1, <1>6, <1>7
  <2> HIDE DEF S
  <2>2. 0 .. n \subseteq S
    BY <1>1, <2>1, InductionUpTo
  <2>3. n \in S
    BY <1>1, <2>2
  <2> QED
    BY <2>3 DEF S
<1>9. PICK e : EndsBy(e, s[n]) /\ Laid(w[n], s[n], e)
  BY <1>8
<1>10. s[n] \in Seq(Payload) /\ w[n] \in Seq(Byte)
  BY <1>1, <1>4, <1>5
<1>11. EndsBy(Ends(s[n]), s[n])
  BY <1>10, EndsUnfolds
<1>12. e = Ends(s[n])
  BY <1>9, <1>10, <1>11, EndsUnique
<1> QED
  BY <1>2, <1>3, <1>9, <1>10, <1>11, <1>12

\* A stream that breaks off somewhere carries what it has of the payloads.
Carries(stream, sent, e) ==
    /\ Len(stream) <= e[Len(sent)]
    /\ \A k \in 1 .. Len(sent) :
          /\ \A i \in 1 .. 4 : e[k - 1] + i <= Len(stream) =>
                stream[e[k - 1] + i] = BigEndian(Len(sent[k]))[i]
          /\ \A i \in 1 .. Len(sent[k]) : e[k - 1] + 4 + i <= Len(stream) =>
                stream[e[k - 1] + 4 + i] = sent[k][i]

LEMMA CutCarries ==
    ASSUME NEW sent \in Seq(Payload), NEW e, EndsBy(e, sent), NEW w \in Seq(Byte), Laid(w, sent, e),
           NEW cut \in 0 .. Len(w)
    PROVE  /\ SubSeq(w, 1, cut) \in Seq(Byte) /\ Len(SubSeq(w, 1, cut)) = cut
           /\ Carries(SubSeq(w, 1, cut), sent, e)
<1> DEFINE stream == SubSeq(w, 1, cut)
<1>1. Len(w) \in Nat /\ cut \in Nat /\ Len(sent) \in Nat
  BY LenProperties
<1>2. stream \in Seq(Byte) /\ Len(stream) = cut /\ \A i \in 1 .. cut : stream[i] = w[i]
  BY <1>1
<1> HIDE DEF stream
<1>3. e \in [0 .. Len(sent) -> Nat]
  BY DEF EndsBy
<1>4. Len(stream) <= e[Len(sent)]
  BY <1>1, <1>2 DEF Laid
<1>5. ASSUME NEW k \in 1 .. Len(sent)
      PROVE  /\ \A i \in 1 .. 4 : e[k - 1] + i <= Len(stream) =>
                    stream[e[k - 1] + i] = BigEndian(Len(sent[k]))[i]
             /\ \A i \in 1 .. Len(sent[k]) : e[k - 1] + 4 + i <= Len(stream) =>
                    stream[e[k - 1] + 4 + i] = sent[k][i]
  <2> DEFINE b == e[k - 1]
             l == Len(sent[k])
  <2>1. b \in Nat /\ l \in Nat
    <3>1. sent[k] \in Seq(Byte)
      BY DEF Payload
    <3>2. l \in Nat
      BY <3>1, LenProperties
    <3>3. k - 1 \in 0 .. Len(sent)
      BY <1>1
    <3> HIDE DEF l
    <3> QED
      BY <1>3, <3>2, <3>3
  <2>2. /\ \A i \in 1 .. 4 : w[b + i] = BigEndian(l)[i]
        /\ \A i \in 1 .. l : w[b + 4 + i] = sent[k][i]
    BY DEF Laid
  <2> HIDE DEF b, l
  <2>3. ASSUME NEW i \in 1 .. 4, b + i <= cut PROVE stream[b + i] = BigEndian(l)[i]
    <3>1. b + i \in 1 .. cut
      BY <1>1, <2>1, <2>3
    <3> QED
      BY <1>2, <2>2, <3>1
  <2>4. ASSUME NEW i \in 1 .. l, b + 4 + i <= cut PROVE stream[b + 4 + i] = sent[k][i]
    <3>1. b + 4 + i \in 1 .. cut
      BY <1>1, <2>1, <2>4
    <3> QED
      BY <1>2, <2>2, <3>1
  <2> QED
    BY <1>2, <2>3, <2>4 DEF b, l
<1> QED
  BY <1>2, <1>4, <1>5 DEF Carries, stream

\* Where a reader stands: what is left of the stream, the payloads it returned,
\* the part of a header or of a payload that it holds, and why it ended.
Position(s, stream) == Len(stream) - Len(s.stream)

Remains(s, stream) ==
    /\ Len(s.stream) <= Len(stream)
    /\ \A i \in 1 .. Len(s.stream) : s.stream[i] = stream[Position(s, stream) + i]

Returned(s, sent) ==
    /\ Len(s.frames) <= Len(sent)
    /\ \A i \in 1 .. Len(s.frames) : s.frames[i] = sent[i]

InHeader(s, stream, e) ==
    s.length = -1 =>
        /\ Position(s, stream) = e[Len(s.frames)] + Len(s.filled)
        /\ \A i \in 1 .. Len(s.filled) : s.filled[i] = stream[e[Len(s.frames)] + i]

InPayload(s, stream, sent, e) ==
    s.length # -1 =>
        /\ Len(s.frames) < Len(sent)
        /\ s.length = Len(sent[Len(s.frames) + 1]) /\ s.length <= MAX_FRAME_LEN
        /\ Position(s, stream) = e[Len(s.frames)] + 4 + Len(s.filled)
        /\ \A i \in 1 .. Len(s.filled) : s.filled[i] = stream[e[Len(s.frames)] + 4 + i]

Ended(s, sent) ==
    /\ s.end = "open" => Wanted(s) > 0
    /\ s.end = "closed" => s.stream = <<>> /\ s.length = -1 /\ s.filled = <<>>
    /\ s.end = "truncated" =>
          s.stream = <<>> /\ Wanted(s) > 0 /\ ~(s.length = -1 /\ s.filled = <<>>)
    /\ s.end = "too_large" =>
          /\ s.length = -1 /\ Len(s.filled) = 4 /\ Len(s.frames) < Len(sent)
          /\ Len(sent[Len(s.frames) + 1]) > MAX_FRAME_LEN

Reading(s, stream, sent, e) ==
    /\ Remains(s, stream) /\ Returned(s, sent)
    /\ InHeader(s, stream, e) /\ InPayload(s, stream, sent, e)

\* The reader's lemmas are about one stream.
Stream(stream, sent, e) ==
    /\ stream \in Seq(Byte) /\ sent \in Seq(Payload)
    /\ EndsBy(e, sent) /\ Carries(stream, sent, e)

LEMMA ReadsOn ==
    ASSUME NEW stream, NEW sent, NEW e, Stream(stream, sent, e), NEW s \in Readers, NEW n \in Nat,
           Reading(s, stream, sent, e)
    PROVE  Reading(ReadAtMost(s, n), stream, sent, e)
<1> DEFINE r == ReadAtMost(s, n)
           taken == Got(s, n)
           head == SubSeq(s.stream, 1, taken)
           tail == SubSeq(s.stream, taken + 1, Len(s.stream))
           L == Len(stream)
           m == Len(s.stream)
           q == Len(s.filled)
           pos == L - m
<1>1. taken \in Nat /\ taken <= Wanted(s) /\ taken <= m
  BY ReadAtMostTakes
<1>2. r = [s EXCEPT !.filled = s.filled \o head, !.stream = tail]
  BY ReadAtMostTakes
<1>3. /\ s.stream \in Seq(Byte) /\ s.filled \in Seq(Byte) /\ s.length \in Nat \cup {-1}
      /\ s = [stream |-> s.stream, filled |-> s.filled, length |-> s.length,
              frames |-> s.frames, end |-> s.end]
  BY SessionFields
<1>4. L \in Nat /\ m \in Nat /\ q \in Nat /\ Len(s.frames) \in Nat
  BY <1>3, SessionFields, LenProperties DEF Stream
<1> HIDE DEF r, taken
<1>5. /\ head \in Seq(Byte) /\ Len(head) = taken /\ \A i \in 1 .. taken : head[i] = s.stream[i]
      /\ tail \in Seq(Byte) /\ Len(tail) = m - taken
      /\ \A i \in 1 .. (m - taken) : tail[i] = s.stream[taken + i]
  <2>1. IsSplit(s.stream, taken, head, tail)
    BY <1>1, <1>3, SplitAt
  <2> HIDE DEF head, tail
  <2> QED
    BY <2>1 DEF IsSplit
<1> HIDE DEF head, tail
<1>6. /\ r.filled = s.filled \o head /\ r.stream = tail /\ r.length = s.length
      /\ r.frames = s.frames
  BY <1>2, <1>3
<1>7. IsConcat(s.filled \o head, s.filled, head)
  BY <1>3, <1>5, ConcatAt
<1>8. /\ Len(r.filled) = q + taken
      /\ \A i \in 1 .. q : r.filled[i] = s.filled[i]
      /\ \A i \in 1 .. taken : r.filled[q + i] = s.stream[i]
  BY <1>5, <1>6, <1>7 DEF IsConcat
<1>9. m <= L /\ \A i \in 1 .. m : s.stream[i] = stream[pos + i]
  BY DEF Reading, Remains, Position
<1>10. Len(r.stream) = m - taken /\ Position(r, stream) = pos + taken
  <2>1. Len(r.stream) = m - taken
    BY <1>5, <1>6
  <2>2. Position(r, stream) = L - Len(r.stream)
    BY DEF Position
  <2> QED
    BY <1>1, <1>4, <2>1, <2>2
<1> HIDE DEF L, m, q
<1>11. Remains(r, stream)
  <2>1. ASSUME NEW i \in 1 .. (m - taken) PROVE r.stream[i] = stream[pos + taken + i]
    <3>1. taken + i \in 1 .. m /\ pos + (taken + i) = pos + taken + i
      BY <1>1, <1>4
    <3> DEFINE j == taken + i
    <3> HIDE DEF j
    <3>2. s.stream[j] = stream[pos + j]
      BY <1>9, <3>1 DEF j
    <3>3. r.stream[i] = s.stream[j]
      BY <1>5, <1>6 DEF j
    <3> QED
      BY <3>1, <3>2, <3>3 DEF j
  <2>2. m - taken <= Len(stream)
    BY <1>1, <1>4, <1>9 DEF L
  <2> QED
    BY <1>10, <2>1, <2>2 DEF Remains
<1>12. Returned(r, sent)
  BY <1>6 DEF Reading, Returned
<1>13. ASSUME NEW b \in Nat, pos = b + q, \A i \in 1 .. q : s.filled[i] = stream[b + i]
       PROVE  \A i \in 1 .. (q + taken) : r.filled[i] = stream[b + i]
  <2> TAKE i \in 1 .. (q + taken)
  <2>1. CASE i \in 1 .. q
    BY <1>8, <1>13, <2>1
  <2>2. CASE i > q
    <3> DEFINE j == i - q
    <3>1. j \in 1 .. taken /\ q + j = i /\ j \in 1 .. m /\ pos + j = b + i
      BY <1>1, <1>4, <1>13, <2>2
    <3> HIDE DEF j
    <3>2. r.filled[q + j] = s.stream[j] /\ s.stream[j] = stream[pos + j]
      BY <1>8, <1>9, <3>1
    <3> QED
      BY <3>1, <3>2
  <2> QED
    BY <1>1, <1>4, <2>1, <2>2
<1>14. Len(s.frames) <= Len(sent) /\ e \in [0 .. Len(sent) -> Nat] /\ Len(sent) \in Nat
  BY LenProperties DEF Reading, Returned, Stream, EndsBy
<1>15. e[Len(s.frames)] \in Nat /\ e[Len(s.frames)] + 4 \in Nat
  BY <1>4, <1>14
<1>16. InHeader(r, stream, e)
  <2> SUFFICES ASSUME s.length = -1
               PROVE  /\ Position(r, stream) = e[Len(s.frames)] + Len(r.filled)
                      /\ \A i \in 1 .. Len(r.filled) : r.filled[i] = stream[e[Len(s.frames)] + i]
    BY <1>6 DEF InHeader
  <2> DEFINE b == e[Len(s.frames)]
  <2>1. pos = b + q /\ \A i \in 1 .. q : s.filled[i] = stream[b + i]
    BY DEF Reading, InHeader, Position, L, m, q
  <2>2. b \in Nat
    BY <1>15
  <2> HIDE DEF b
  <2>3. \A i \in 1 .. (q + taken) : r.filled[i] = stream[b + i]
    BY <1>13, <2>1, <2>2
  <2>4. Position(r, stream) = b + Len(r.filled)
    BY <1>1, <1>4, <1>8, <1>10, <2>1, <2>2
  <2> QED
    BY <1>8, <2>3, <2>4 DEF b
<1>17. InPayload(r, stream, sent, e)
  <2> SUFFICES ASSUME s.length # -1
               PROVE  /\ Len(s.frames) < Len(sent)
                      /\ s.length = Len(sent[Len(s.frames) + 1]) /\ s.length <= MAX_FRAME_LEN
                      /\ Position(r, stream) = e[Len(s.frames)] + 4 + Len(r.filled)
                      /\ \A i \in 1 .. Len(r.filled) :
                            r.filled[i] = stream[e[Len(s.frames)] + 4 + i]
    BY <1>6 DEF InPayload
  <2> DEFINE b == e[Len(s.frames)] + 4
  <2>1. pos = b + q /\ \A i \in 1 .. q : s.filled[i] = stream[b + i]
    BY DEF Reading, InPayload, Position, L, m, q
  <2>2. b \in Nat
    BY <1>15
  <2>3. /\ Len(s.frames) < Len(sent)
        /\ s.length = Len(sent[Len(s.frames) + 1]) /\ s.length <= MAX_FRAME_LEN
    BY DEF Reading, InPayload
  <2> HIDE DEF b
  <2>4. \A i \in 1 .. (q + taken) : r.filled[i] = stream[b + i]
    BY <1>13, <2>1, <2>2
  <2>5. Position(r, stream) = b + Len(r.filled)
    BY <1>1, <1>4, <1>8, <1>10, <2>1, <2>2
  <2> QED
    BY <1>8, <2>3, <2>4, <2>5 DEF b
<1> QED
  BY <1>11, <1>12, <1>16, <1>17 DEF Reading, r

LEMMA ReadingTyped ==
    ASSUME NEW stream, NEW sent, NEW e, Stream(stream, sent, e), NEW s \in Readers,
           Reading(s, stream, sent, e)
    PROVE  /\ Len(stream) \in Nat /\ Len(s.stream) \in Nat /\ Len(s.filled) \in Nat
           /\ Len(sent) \in Nat /\ Len(s.frames) \in 0 .. Len(sent)
           /\ Position(s, stream) \in 0 .. Len(stream) /\ e \in [0 .. Len(sent) -> Nat]
           /\ Len(stream) <= e[Len(sent)]
<1>1. /\ s.stream \in Seq(Byte) /\ s.filled \in Seq(Byte) /\ s.frames \in Seq(Seq(Byte))
      /\ stream \in Seq(Byte) /\ sent \in Seq(Payload)
  BY SessionFields DEF Stream
<1>2. /\ Len(stream) \in Nat /\ Len(s.stream) \in Nat /\ Len(s.filled) \in Nat
      /\ Len(sent) \in Nat /\ Len(s.frames) \in Nat
  BY <1>1, LenProperties
<1>3. Len(s.frames) <= Len(sent) /\ Len(s.stream) <= Len(stream)
  BY DEF Reading, Returned, Remains
<1>4. e \in [0 .. Len(sent) -> Nat] /\ Len(stream) <= e[Len(sent)]
  BY DEF Stream, EndsBy, Carries
<1> QED
  BY <1>2, <1>3, <1>4 DEF Position

\* A reader that has something of a header or of a payload is not past the last one.
LEMMA MoreToCome ==
    ASSUME NEW stream, NEW sent, NEW e, Stream(stream, sent, e), NEW s \in Readers,
           Reading(s, stream, sent, e), Position(s, stream) > e[Len(s.frames)]
    PROVE  Len(s.frames) < Len(sent)
<1>1. SUFFICES ASSUME Len(s.frames) = Len(sent) PROVE FALSE
  BY ReadingTyped
<1>2. Position(s, stream) <= e[Len(s.frames)]
  BY <1>1, ReadingTyped
<1>3. e[Len(s.frames)] \in Nat
  BY ReadingTyped
<1> QED
  BY <1>2, <1>3, ReadingTyped

\* The payload that comes next.
LEMMA NextPayload ==
    ASSUME NEW stream, NEW sent, NEW e, Stream(stream, sent, e), NEW k \in 0 .. (Len(sent) - 1)
    PROVE  LET b == e[k]
               p == sent[k + 1] IN
           /\ b \in Nat /\ p \in Payload /\ p \in Seq(Byte) /\ Len(p) \in Nat /\ FitsHeader(Len(p))
           /\ e[k + 1] = b + 4 + Len(p)
           /\ \A i \in 1 .. 4 : b + i <= Len(stream) => stream[b + i] = BigEndian(Len(p))[i]
           /\ \A i \in 1 .. Len(p) : b + 4 + i <= Len(stream) => stream[b + 4 + i] = p[i]
<1> DEFINE j == k + 1
<1>1. Len(sent) \in Nat
  BY LenProperties DEF Stream
<1>2. j \in 1 .. Len(sent) /\ j - 1 = k
  BY <1>1
<1> HIDE DEF j
<1>3. sent[j] \in Payload /\ sent[j] \in Seq(Byte) /\ FitsHeader(Len(sent[j]))
  BY <1>2 DEF Stream, Payload
<1>4. Len(sent[j]) \in Nat
  BY <1>3, LenProperties
<1>5. e \in [0 .. Len(sent) -> Nat] /\ e[j] = e[j - 1] + 4 + Len(sent[j])
  BY <1>2 DEF Stream, EndsBy
<1>6. /\ \A i \in 1 .. 4 : e[j - 1] + i <= Len(stream) =>
            stream[e[j - 1] + i] = BigEndian(Len(sent[j]))[i]
      /\ \A i \in 1 .. Len(sent[j]) : e[j - 1] + 4 + i <= Len(stream) =>
            stream[e[j - 1] + 4 + i] = sent[j][i]
  BY <1>2 DEF Stream, Carries
<1>7. e[k] \in Nat
  BY <1>1, <1>5
<1> QED
  BY <1>2, <1>3, <1>4, <1>5, <1>6, <1>7 DEF j

\* A complete header says how long the next payload is.
LEMMA HeaderRead ==
    ASSUME NEW stream, NEW sent, NEW e, Stream(stream, sent, e), NEW s \in Readers,
           Reading(s, stream, sent, e), s.length = -1, Len(s.filled) = 4
    PROVE  /\ Len(s.frames) < Len(sent)
           /\ FromBigEndian(s.filled) = Len(sent[Len(s.frames) + 1])
<1> DEFINE k == Len(s.frames)
           b == e[k]
           p == sent[k + 1]
<1>1. Position(s, stream) = b + 4 /\ \A i \in 1 .. 4 : s.filled[i] = stream[b + i]
  BY DEF Reading, InHeader
<1>2. b \in Nat /\ Position(s, stream) <= Len(stream) /\ Len(stream) \in Nat
  BY ReadingTyped
<1>3. k < Len(sent)
  <2>1. Position(s, stream) > b
    <3> HIDE DEF b
    <3> QED
      BY <1>1, <1>2
  <2> QED
    BY <2>1, MoreToCome
<1>4. k \in 0 .. (Len(sent) - 1)
  BY <1>3, ReadingTyped
<1> HIDE DEF k
<1>5. /\ Len(p) \in Nat /\ FitsHeader(Len(p))
      /\ \A i \in 1 .. 4 : b + i <= Len(stream) => stream[b + i] = BigEndian(Len(p))[i]
  BY <1>4, NextPayload
<1> HIDE DEF b, p
<1>6. \A i \in 1 .. 4 : s.filled[i] = BigEndian(Len(p))[i]
  BY <1>1, <1>2, <1>5
<1>7. FromBigEndian(s.filled) = FromBigEndian(BigEndian(Len(p)))
  BY <1>6 DEF FromBigEndian
<1>8. FromBigEndian(BigEndian(Len(p))) = Len(p)
  BY <1>5, HeaderTyped
<1> QED
  BY <1>3, <1>7, <1>8 DEF p, k

LEMMA DeclaresLength ==
    ASSUME NEW stream, NEW sent, NEW e, Stream(stream, sent, e), NEW s \in Readers,
           Reading(s, stream, sent, e), s.length = -1, Wanted(s) = 0
    PROVE  \/ /\ DeclareLength(s) = [s EXCEPT !.end = "too_large"]
              /\ Len(s.filled) = 4 /\ Len(s.frames) < Len(sent)
              /\ Len(sent[Len(s.frames) + 1]) > MAX_FRAME_LEN
           \/ /\ DeclareLength(s) = [s EXCEPT !.length = Len(sent[Len(s.frames) + 1]), !.filled = <<>>]
              /\ Len(sent[Len(s.frames) + 1]) \in Nat
              /\ Reading(DeclareLength(s), stream, sent, e)
<1> DEFINE k == Len(s.frames)
           declared == Len(sent[k + 1])
           r == [s EXCEPT !.length = declared, !.filled = <<>>]
<1>1. Len(s.filled) = 4
  BY ReadingTyped DEF Wanted
<1>2. k < Len(sent) /\ FromBigEndian(s.filled) = declared
  BY <1>1, HeaderRead
<1>3. k \in 0 .. (Len(sent) - 1)
  BY <1>2, ReadingTyped
<1>4. declared \in Nat
  <2> HIDE DEF k
  <2> QED
    BY <1>3, NextPayload
<1>5. DeclareLength(s) = IF declared > MAX_FRAME_LEN THEN [s EXCEPT !.end = "too_large"] ELSE r
  BY <1>2 DEF DeclareLength
<1>6. ASSUME ~(declared > MAX_FRAME_LEN) PROVE Reading(r, stream, sent, e)
  <2>1. /\ r.stream = s.stream /\ r.frames = s.frames /\ r.length = declared /\ r.filled = <<>>
    <3> HIDE DEF declared
    <3>1. r = [stream |-> s.stream, filled |-> <<>>, length |-> declared,
               frames |-> s.frames, end |-> s.end]
      BY SessionChanged
    <3> HIDE DEF r
    <3> QED
      BY <3>1
  <2> HIDE DEF r
  <2>2. Position(r, stream) = Position(s, stream)
    BY <2>1 DEF Position
  <2>3. Remains(r, stream) /\ Returned(r, sent)
    BY <2>1, <2>2 DEF Reading, Remains, Returned
  <2>4. Position(s, stream) = e[k] + 4
    BY <1>1 DEF Reading, InHeader
  <2>5. InHeader(r, stream, e)
    BY <1>4, <2>1 DEF InHeader
  <2>6. declared <= MAX_FRAME_LEN
    BY <1>4, <1>6, MaxFrameAssumption
  <2>7. Len(r.filled) = 0 /\ e[k] + 4 + 0 = e[k] + 4
    <3>1. e[k] \in Nat
      BY <1>3, ReadingTyped
    <3> QED
      BY <2>1, <3>1
  <2>8. Len(r.frames) = k
    BY <2>1
  <2> HIDE DEF k, declared
  <2>9. InPayload(r, stream, sent, e)
    BY <1>2, <2>1, <2>2, <2>4, <2>6, <2>7, <2>8 DEF InPayload, declared
  <2> QED
    BY <2>3, <2>5, <2>9 DEF Reading
<1> QED
  BY <1>1, <1>2, <1>4, <1>5, <1>6

\* A complete payload is the one that was sent.
LEMMA Delivers ==
    ASSUME NEW stream, NEW sent, NEW e, Stream(stream, sent, e), NEW s \in Readers,
           Reading(s, stream, sent, e), s.length # -1, Wanted(s) = 0
    PROVE  /\ Reading(Deliver(s), stream, sent, e)
           /\ Deliver(s).stream = s.stream /\ Deliver(s).end = s.end /\ Wanted(Deliver(s)) = 4
<1> DEFINE k == Len(s.frames)
           b == e[k]
           p == sent[k + 1]
           frames == Append(s.frames, s.filled)
           r == [s EXCEPT !.frames = frames, !.filled = <<>>, !.length = -1]
<1>1. /\ k < Len(sent) /\ s.length = Len(p) /\ s.length <= MAX_FRAME_LEN
      /\ Position(s, stream) = b + 4 + Len(s.filled)
      /\ \A i \in 1 .. Len(s.filled) : s.filled[i] = stream[b + 4 + i]
  BY DEF Reading, InPayload
<1>2. k \in 0 .. (Len(sent) - 1)
  BY <1>1, ReadingTyped
<1>3. /\ b \in Nat /\ p \in Seq(Byte) /\ Len(p) \in Nat
      /\ e[k + 1] = b + 4 + Len(p)
      /\ \A i \in 1 .. Len(p) : b + 4 + i <= Len(stream) => stream[b + 4 + i] = p[i]
  <2> HIDE DEF k
  <2> QED
    BY <1>2, NextPayload
<1>4. Len(s.filled) = Len(p)
  <2>1. Wanted(s) = s.length - Len(s.filled)
    BY DEF Wanted
  <2> HIDE DEF p
  <2> QED
    BY <1>1, <1>3, <2>1, ReadingTyped
<1>5. s.filled \in Seq(Byte) /\ s.frames \in Seq(Seq(Byte))
  BY SessionFields
<1>6. Position(s, stream) <= Len(stream) /\ Len(stream) \in Nat /\ Position(s, stream) \in Nat
  BY ReadingTyped
<1> HIDE DEF b, p
<1>7. s.filled = p
  <2>1. ASSUME NEW i \in 1 .. Len(p) PROVE s.filled[i] = p[i]
    <3>1. b + 4 + i <= Len(stream)
      BY <1>1, <1>3, <1>4, <1>6
    <3> QED
      BY <1>1, <1>3, <1>4, <3>1
  <2> QED
    BY <1>3, <1>4, <1>5, <2>1, SeqEqual
<1>8. Deliver(s) = r
  BY DEF Deliver
<1> HIDE DEF k
<1>9. /\ frames \in Seq(Seq(Byte)) /\ Len(frames) = k + 1 /\ frames[k + 1] = p
      /\ \A i \in 1 .. k : frames[i] = s.frames[i]
  BY <1>5, <1>7 DEF k
<1> HIDE DEF frames
<1>10. /\ r.stream = s.stream /\ r.frames = frames /\ r.length = -1 /\ r.filled = <<>>
       /\ r.end = s.end
  <2>1. r = [stream |-> s.stream, filled |-> <<>>, length |-> -1,
             frames |-> frames, end |-> s.end]
    BY SessionChanged
  <2> HIDE DEF r
  <2> QED
    BY <2>1
<1> HIDE DEF r
<1>11. Position(r, stream) = Position(s, stream)
  BY <1>10 DEF Position
<1>12. Remains(r, stream)
  BY <1>10, <1>11 DEF Reading, Remains
<1>13. Returned(r, sent)
  <2>1. \A i \in 1 .. k : s.frames[i] = sent[i]
    BY DEF Reading, Returned, k
  <2>2. \A i \in 1 .. (k + 1) : frames[i] = sent[i]
    BY <1>2, <1>9, <2>1 DEF p
  <2> QED
    BY <1>2, <1>9, <1>10, <2>2 DEF Returned
<1>14. InHeader(r, stream, e)
  <2>1. Len(r.filled) = 0 /\ Len(r.frames) = k + 1
    BY <1>9, <1>10
  <2>2. Position(r, stream) = e[k + 1] + 0
    <3>1. Position(r, stream) = b + 4 + Len(p) /\ e[k + 1] = b + 4 + Len(p)
      BY <1>1, <1>3, <1>4, <1>11
    <3>2. b + 4 + Len(p) = b + 4 + Len(p) + 0
      BY <1>3
    <3> QED
      BY <3>1, <3>2
  <2> QED
    BY <2>1, <2>2 DEF InHeader
<1>15. InPayload(r, stream, sent, e)
  BY <1>10 DEF InPayload
<1>16. Wanted(r) = 4
  BY <1>10 DEF Wanted
<1> QED
  BY <1>8, <1>10, <1>12, <1>13, <1>14, <1>15, <1>16 DEF Reading

\* Only why a reader ended differs between two sessions that stand at the same place.
LEMMA EndChanged ==
    ASSUME NEW s \in Readers, NEW reason
    PROVE  LET r == [s EXCEPT !.end = reason] IN
           /\ r.stream = s.stream /\ r.filled = s.filled /\ r.length = s.length
           /\ r.frames = s.frames /\ r.end = reason /\ Wanted(r) = Wanted(s)
<1> DEFINE r == [s EXCEPT !.end = reason]
<1>1. /\ r.stream = s.stream /\ r.filled = s.filled /\ r.length = s.length
      /\ r.frames = s.frames /\ r.end = reason
  BY SessionFields
<1> HIDE DEF r
<1>2. Wanted(r) = Wanted(s)
  BY <1>1 DEF Wanted
<1> QED
  BY <1>1, <1>2 DEF r

LEMMA ReadingEnds ==
    ASSUME NEW stream, NEW sent, NEW e, NEW s \in Readers, Reading(s, stream, sent, e), NEW reason
    PROVE  Reading([s EXCEPT !.end = reason], stream, sent, e)
<1> DEFINE r == [s EXCEPT !.end = reason]
<1>1. /\ r.stream = s.stream /\ r.filled = s.filled /\ r.length = s.length
      /\ r.frames = s.frames
  BY EndChanged
<1> HIDE DEF r
<1>2. Reading(r, stream, sent, e)
  BY <1>1 DEF Reading, Remains, Returned, InHeader, InPayload, Position
<1> QED
  BY <1>2 DEF r

Standing(s, stream, sent, e) == s \in Readers /\ Reading(s, stream, sent, e) /\ Ended(s, sent)

\* A read that finds bytes.
LEMMA ReadsBytes ==
    ASSUME NEW stream, NEW sent, NEW e, Stream(stream, sent, e), NEW s,
           Standing(s, stream, sent, e), s.end = "open", s.stream # <<>>, NEW n \in Nat \ {0}
    PROVE  LET r == Deliver(DeclareLength(ReadAtMost(s, n))) IN
           /\ Reading(r, stream, sent, e) /\ Ended(r, sent) /\ r.end # "io"
           /\ Len(r.stream) < Len(s.stream)
<1> DEFINE a == ReadAtMost(s, n)
<1>1. s \in Readers /\ Reading(s, stream, sent, e) /\ Wanted(s) > 0
  BY DEF Standing, Ended
<1>2. /\ a \in Readers /\ Reading(a, stream, sent, e) /\ Len(a.stream) = Len(s.stream) - Got(s, n)
      /\ Got(s, n) \in Nat /\ Got(s, n) > 0 /\ a.end = "open" /\ Wanted(a) >= 0
  <2>1. /\ Got(s, n) \in Nat /\ Got(s, n) > 0 /\ a \in Readers
        /\ Len(a.stream) = Len(s.stream) - Got(s, n)
        /\ a = [s EXCEPT !.filled = s.filled \o SubSeq(s.stream, 1, Got(s, n)),
                         !.stream = SubSeq(s.stream, Got(s, n) + 1, Len(s.stream))]
    <3>1. n \in Nat /\ n > 0
      OBVIOUS
    <3>2. Got(s, n) \in Nat /\ Got(s, n) > 0
      BY <1>1, <3>1, ReadAtMostTakes
    <3>3. a \in Readers /\ Len(a.stream) = Len(s.stream) - Got(s, n)
      BY <1>1, <3>1, ReadAtMostTakes
    <3>4. a = [s EXCEPT !.filled = s.filled \o SubSeq(s.stream, 1, Got(s, n)),
                        !.stream = SubSeq(s.stream, Got(s, n) + 1, Len(s.stream))]
      BY <1>1, <3>1, ReadAtMostTakes
    <3> QED
      BY <3>2, <3>3, <3>4
  <2>2. Reading(a, stream, sent, e)
    BY <1>1, ReadsOn
  <2>3. a.end = s.end
    BY <1>1, <2>1, SessionFields
  <2>4. Wanted(a) >= 0
    BY <2>1, SessionFields
  <2> QED
    BY <2>1, <2>2, <2>3, <2>4
<1> HIDE DEF a
<1>3. Len(a.stream) < Len(s.stream)
  BY <1>1, <1>2, ReadingTyped
<1>4. Wanted(a) \in Int
  BY <1>2, SessionFields, LenProperties DEF Wanted
<1>5. CASE a.length = -1 /\ Wanted(a) # 0
  <2>1. DeclareLength(a) = a /\ Deliver(a) = a
    BY <1>5 DEF DeclareLength, Deliver
  <2>2. Ended(a, sent)
    BY <1>2, <1>4, <1>5 DEF Ended
  <2> QED
    BY <1>2, <1>3, <2>1, <2>2 DEF a
<1>6. CASE a.length # -1
  <2>1. DeclareLength(a) = a
    BY <1>6 DEF DeclareLength
  <2>2. CASE Wanted(a) # 0
    <3>1. Deliver(a) = a
      BY <2>2 DEF Deliver
    <3>2. Ended(a, sent)
      BY <1>2, <1>4, <2>2 DEF Ended
    <3> QED
      BY <1>2, <1>3, <2>1, <3>1, <3>2 DEF a
  <2>3. CASE Wanted(a) = 0
    <3> DEFINE d == Deliver(a)
    <3>1. /\ Reading(d, stream, sent, e) /\ d.stream = a.stream /\ d.end = a.end
          /\ Wanted(d) = 4
      BY <1>2, <1>6, <2>3, Delivers
    <3> HIDE DEF d
    <3>2. Ended(d, sent)
      BY <1>2, <3>1 DEF Ended
    <3> QED
      BY <1>2, <1>3, <2>1, <3>1, <3>2 DEF a, d
  <2> QED
    BY <2>2, <2>3
<1>7. CASE a.length = -1 /\ Wanted(a) = 0
  <2> DEFINE declared == Len(sent[Len(a.frames) + 1])
             d == DeclareLength(a)
  <2>1. CASE /\ d = [a EXCEPT !.end = "too_large"]
             /\ Len(a.filled) = 4 /\ Len(a.frames) < Len(sent)
             /\ declared > MAX_FRAME_LEN
    <3>1. /\ Reading(d, stream, sent, e) /\ d.stream = a.stream /\ d.filled = a.filled
          /\ d.length = a.length /\ d.frames = a.frames /\ d.end = "too_large"
      <4>1. LET q == [a EXCEPT !.end = "too_large"] IN
            /\ q.end = "too_large" /\ q.stream = a.stream /\ q.filled = a.filled
            /\ q.length = a.length /\ q.frames = a.frames
        BY <1>2, EndChanged
      <4>2. Reading([a EXCEPT !.end = "too_large"], stream, sent, e)
        BY <1>2, ReadingEnds
      <4> QED
        BY <2>1, <4>1, <4>2
    <3> HIDE DEF d
    <3>2. Deliver(d) = d
      BY <1>7, <3>1 DEF Deliver
    <3>3. Ended(d, sent)
      BY <1>7, <2>1, <3>1 DEF Ended
    <3> QED
      BY <1>3, <3>1, <3>2, <3>3 DEF a, d
  <2>2. CASE /\ d = [a EXCEPT !.length = declared, !.filled = <<>>]
             /\ declared \in Nat
             /\ Reading(d, stream, sent, e)
    <3>1. /\ d.stream = a.stream /\ d.length = declared /\ d.filled = <<>>
          /\ d.frames = a.frames /\ d.end = "open"
          /\ d = [stream |-> a.stream, filled |-> <<>>, length |-> declared,
                  frames |-> a.frames, end |-> a.end]
      <4> DEFINE l == declared
      <4>1. [a EXCEPT !.length = l, !.filled = <<>>] =
                [stream |-> a.stream, filled |-> <<>>, length |-> l,
                 frames |-> a.frames, end |-> a.end]
        <5> HIDE DEF l
        <5> QED
          BY <1>2, SessionChanged
      <4>2. d = [stream |-> a.stream, filled |-> <<>>, length |-> l,
                 frames |-> a.frames, end |-> a.end]
        BY <2>2, <4>1
      <4> HIDE DEF l, d
      <4>3. /\ d.stream = a.stream /\ d.length = l /\ d.filled = <<>>
            /\ d.frames = a.frames /\ d.end = "open"
        BY <1>2, <4>2
      <4> QED
        BY <4>2, <4>3 DEF l
    <3> HIDE DEF d, declared
    <3>2. Wanted(d) = declared
      BY <2>2, <3>1 DEF Wanted
    <3>3. d.length # -1
      BY <2>2, <3>1
    <3>4. CASE declared # 0
      <4>1. Deliver(d) = d
        BY <3>2, <3>4 DEF Deliver
      <4>2. Ended(d, sent)
        BY <2>2, <3>1, <3>2, <3>4 DEF Ended
      <4> QED
        BY <1>3, <2>2, <3>1, <4>1, <4>2 DEF a, d
    <3>5. CASE declared = 0
      <4>1. d \in Readers
        <5>1. a.stream \in Seq(Byte) /\ a.frames \in Seq(Seq(Byte)) /\ a.end = "open"
          BY <1>2, SessionFields
        <5>2. <<>> \in Seq(Byte) /\ Wanted(d) >= 0
          BY <3>2, <3>5
        <5> QED
          BY <2>2, <3>1, <5>1, <5>2 DEF Readers
      <4> DEFINE f == Deliver(d)
      <4>2. /\ Reading(f, stream, sent, e) /\ f.stream = d.stream /\ f.end = d.end
            /\ Wanted(f) = 4
        <5>1. Reading(d, stream, sent, e) /\ Wanted(d) = 0
          BY <2>2, <3>2, <3>5
        <5> QED
          BY <3>3, <4>1, <5>1, Delivers
      <4> HIDE DEF f
      <4>3. Ended(f, sent)
        BY <3>1, <4>2 DEF Ended
      <4> QED
        BY <1>3, <3>1, <4>2, <4>3 DEF a, d, f
    <3> QED
      BY <3>4, <3>5
  <2> QED
    <3>1. \/ /\ d = [a EXCEPT !.end = "too_large"]
             /\ Len(a.filled) = 4 /\ Len(a.frames) < Len(sent)
             /\ declared > MAX_FRAME_LEN
          \/ /\ d = [a EXCEPT !.length = declared, !.filled = <<>>]
             /\ declared \in Nat
             /\ Reading(d, stream, sent, e)
      BY <1>2, <1>7, DeclaresLength
    <3> HIDE DEF d, declared
    <3> QED
      BY <2>1, <2>2, <3>1
<1> QED
  BY <1>5, <1>6, <1>7

LEMMA ReadCallStands ==
    ASSUME NEW stream, NEW sent, NEW e, Stream(stream, sent, e), NEW s,
           Standing(s, stream, sent, e), NEW arrival \in Nat \cup {Failed}
    PROVE  LET r == ReadCall(s, arrival) IN
           /\ Standing(r, stream, sent, e)
           /\ r.end = "io" => s.end = "io" \/ arrival = Failed
           /\ r.end = "open" =>
                 s.end = "open" /\ (arrival > 0 => Len(r.stream) < Len(s.stream))
<1> DEFINE r == ReadCall(s, arrival)
<1>1. s \in Readers /\ Reading(s, stream, sent, e) /\ Ended(s, sent)
  BY DEF Standing
<1>2. r \in Readers
  BY <1>1, ReadCallTyped
<1>3. CASE s.end # "open" \/ arrival = 0
  <2>1. r = s
    BY <1>3 DEF ReadCall, Interrupted
  <2> QED
    BY <1>3, <2>1
<1>4. CASE s.end = "open" /\ arrival = Failed
  <2>1. r = [s EXCEPT !.end = "io"]
    BY <1>4 DEF ReadCall, Interrupted, Failed
  <2>2. r.end = "io" /\ Reading(r, stream, sent, e)
    BY <1>1, <2>1, EndChanged, ReadingEnds
  <2> HIDE DEF r
  <2>3. Ended(r, sent)
    BY <2>2 DEF Ended
  <2> QED
    BY <1>2, <1>4, <2>2, <2>3 DEF Standing, r
<1>5. CASE s.end = "open" /\ arrival \in Nat \ {0} /\ s.stream = <<>>
  <2> DEFINE reason == IF s.length = -1 /\ s.filled = <<>> THEN "closed" ELSE "truncated"
  <2>1. r = [s EXCEPT !.end = reason]
    BY <1>5 DEF ReadCall, Interrupted, Failed, EndOfStream
  <2>2. /\ r.end = reason /\ Reading(r, stream, sent, e)
        /\ r.stream = s.stream /\ r.filled = s.filled /\ r.length = s.length
        /\ r.frames = s.frames /\ Wanted(r) = Wanted(s)
    <3> HIDE DEF reason
    <3>1. LET q == [s EXCEPT !.end = reason] IN
          /\ q.end = reason /\ q.stream = s.stream /\ q.filled = s.filled
          /\ q.length = s.length /\ q.frames = s.frames /\ Wanted(q) = Wanted(s)
      BY <1>1, EndChanged
    <3>2. Reading([s EXCEPT !.end = reason], stream, sent, e)
      BY <1>1, ReadingEnds
    <3> QED
      BY <2>1, <3>1, <3>2
  <2> HIDE DEF r
  <2>3. Wanted(s) > 0
    BY <1>1, <1>5 DEF Ended
  <2>4. Ended(r, sent)
    BY <1>5, <2>2, <2>3 DEF Ended
  <2>5. r.end # "open" /\ r.end # "io"
    BY <2>2
  <2> QED
    BY <1>2, <2>2, <2>4, <2>5 DEF Standing, r
<1>6. CASE s.end = "open" /\ arrival \in Nat \ {0} /\ s.stream # <<>>
  <2> DEFINE d == Deliver(DeclareLength(ReadAtMost(s, arrival)))
  <2>1. r = d
    BY <1>6 DEF ReadCall, Interrupted, Failed
  <2>2. /\ Reading(d, stream, sent, e) /\ Ended(d, sent) /\ d.end # "io"
        /\ Len(d.stream) < Len(s.stream)
    BY <1>6, ReadsBytes
  <2> HIDE DEF d
  <2> QED
    BY <1>2, <1>6, <2>1, <2>2 DEF Standing
<1> QED
  BY <1>3, <1>4, <1>5, <1>6 DEF Failed

LEMMA NewSessionStands ==
    ASSUME NEW stream, NEW sent, NEW e, Stream(stream, sent, e)
    PROVE  Standing(NewSession(stream), stream, sent, e) /\ NewSession(stream).end = "open"
<1> DEFINE s == NewSession(stream)
<1>1. /\ s.stream = stream /\ s.filled = <<>> /\ s.length = -1 /\ s.frames = <<>>
      /\ s.end = "open"
  BY DEF NewSession
<1>2. s \in Readers
  BY NewSessionTyped DEF Stream
<1> HIDE DEF s
<1>3. Len(stream) \in Nat /\ Len(sent) \in Nat /\ e[0] = 0
  BY LenProperties DEF Stream, EndsBy
<1>4. Position(s, stream) = 0 /\ Len(s.frames) = 0 /\ Len(s.filled) = 0
  BY <1>1, <1>3 DEF Position
<1>5. Remains(s, stream)
  BY <1>1, <1>3, <1>4 DEF Remains
<1>6. Returned(s, sent)
  BY <1>3, <1>4 DEF Returned
<1>7. InHeader(s, stream, e) /\ InPayload(s, stream, sent, e)
  BY <1>1, <1>3, <1>4 DEF InHeader, InPayload
<1>8. Wanted(s) = 4
  BY <1>1, <1>4 DEF Wanted
<1>9. Ended(s, sent)
  BY <1>1, <1>8 DEF Ended
<1> QED
  BY <1>1, <1>2, <1>5, <1>6, <1>7, <1>9 DEF Standing, Reading, s

\* Every read takes something while there is something, so that the reader ends.
LEMMA ReaderEnds ==
    ASSUME NEW stream, NEW sent, NEW e, Stream(stream, sent, e),
           NEW arrivals \in Seq(Nat \cup {Failed}), NEW all,
           all = [i \in 1 .. (Len(stream) + 1) |-> Len(stream) + 1]
    PROVE  LET r == ReadFrames(stream, arrivals \o all) IN
           /\ Standing(r, stream, sent, e) /\ r.end # "open"
           /\ r.end = "io" => \E i \in DOMAIN arrivals : arrivals[i] = Failed
<1> DEFINE m == Len(arrivals)
           l == Len(stream)
           reads == arrivals \o all
           n == Len(reads)
<1>1. m \in Nat /\ l \in Nat /\ stream \in Seq(Byte)
  BY LenProperties DEF Stream
<1>2. all \in Seq(Nat \cup {Failed}) /\ Len(all) = l + 1 /\ \A i \in 1 .. (l + 1) : all[i] = l + 1
  <2> HIDE DEF l
  <2>1. all = [i \in 1 .. (l + 1) |-> l + 1]
    BY DEF l
  <2>2. \A i \in 1 .. (l + 1) : all[i] = l + 1 /\ all[i] \in Nat \cup {Failed}
    BY <1>1, <2>1
  <2>3. all \in [1 .. (l + 1) -> Nat \cup {Failed}]
    BY <2>1, <2>2
  <2>4. l + 1 \in Nat
    BY <1>1
  <2>5. all \in Seq(Nat \cup {Failed}) /\ Len(all) = l + 1
    BY <2>3, <2>4
  <2> QED
    BY <2>2, <2>5
<1>3. /\ reads \in Seq(Nat \cup {Failed}) /\ n = m + l + 1 /\ n \in Nat
      /\ \A i \in 1 .. m : reads[i] = arrivals[i]
      /\ \A i \in (m + 1) .. n : reads[i] = l + 1
  <2>1. /\ reads \in Seq(Nat \cup {Failed}) /\ Len(reads) = Len(arrivals) + Len(all)
        /\ \A i \in 1 .. (Len(arrivals) + Len(all)) :
              reads[i] = IF i <= Len(arrivals) THEN arrivals[i] ELSE all[i - Len(arrivals)]
    BY <1>2, ConcatProperties
  <2> HIDE DEF reads, m, l
  <2>2. n = m + (l + 1)
    BY <1>2, <2>1 DEF m
  <2>3. ASSUME NEW i \in 1 .. m PROVE reads[i] = arrivals[i]
    <3>1. i \in 1 .. (m + Len(all)) /\ i <= m
      BY <1>1, <1>2
    <3> QED
      BY <2>1, <3>1 DEF m
  <2>4. ASSUME NEW i \in (m + 1) .. n PROVE reads[i] = l + 1
    <3>1. i \in 1 .. (m + Len(all)) /\ ~(i <= m) /\ i - m \in 1 .. (l + 1)
      BY <1>1, <1>2, <2>2
    <3> QED
      BY <1>2, <2>1, <3>1 DEF m
  <2>5. n = m + l + 1 /\ n \in Nat
    BY <1>1, <2>2
  <2> QED
    BY <2>1, <2>3, <2>4, <2>5
<1> HIDE DEF reads, m, l
<1>4. PICK r : ReadBy(r, stream, reads) /\ ReadFrames(stream, reads) = r[n]
  BY <1>1, <1>3, ReadFramesUnfolds
<1> HIDE DEF n
<1> DEFINE Good(i) ==
             /\ Standing(r[i], stream, sent, e)
             /\ r[i].end = "io" => \E j \in 1 .. m : arrivals[j] = Failed
             /\ i >= m /\ r[i].end = "open" => Len(r[i].stream) + (i - m) <= l
           S == {i \in 0 .. n : Good(i)}
<1>5. r[0] = NewSession(stream) /\ \A i \in 1 .. n : r[i] = ReadCall(r[i - 1], reads[i])
  BY <1>4 DEF ReadBy, n
<1>6. Good(0)
  <2>1. Standing(r[0], stream, sent, e) /\ r[0].end = "open"
    BY <1>5, NewSessionStands
  <2>2. r[0].stream = stream
    BY <1>5 DEF NewSession
  <2> QED
    BY <1>1, <2>1, <2>2 DEF l
<1>7. ASSUME NEW i \in 0 .. (n - 1), Good(i) PROVE Good(i + 1)
  <2> DEFINE j == i + 1
             a == reads[j]
             t == r[j]
  <2>1. j \in 1 .. n /\ j - 1 = i
    BY <1>3
  <2>2. a \in Nat \cup {Failed}
    BY <1>3, <2>1 DEF n
  <2>3. t = ReadCall(r[i], a)
    BY <1>5, <2>1
  <2>4. /\ Standing(t, stream, sent, e)
        /\ t.end = "io" => r[i].end = "io" \/ a = Failed
        /\ t.end = "open" => r[i].end = "open" /\ (a > 0 => Len(t.stream) < Len(r[i].stream))
    <3>1. Standing(r[i], stream, sent, e)
      BY <1>7
    <3> DEFINE before == r[i]
    <3>2. t = ReadCall(before, a) /\ Standing(before, stream, sent, e)
      BY <2>3, <3>1
    <3> HIDE DEF a, t, before, Good, S
    <3>3. /\ Standing(t, stream, sent, e)
          /\ t.end = "io" => before.end = "io" \/ a = Failed
          /\ t.end = "open" => before.end = "open" /\ (a > 0 => Len(t.stream) < Len(before.stream))
      BY <2>2, <3>2, ReadCallStands
    <3> QED
      BY <3>3 DEF before
  <2> HIDE DEF t
  <2>5. Len(t.stream) \in Nat /\ Len(r[i].stream) \in Nat
    BY <1>7, <2>4, SessionFields, LenProperties DEF Standing
  <2>6. CASE j > m
    <3>1. a = l + 1 /\ i >= m /\ j - m = (i - m) + 1
      BY <1>1, <1>3, <2>1, <2>6
    <3>2. a # Failed /\ a > 0
      BY <1>1, <3>1 DEF Failed
    <3>3. t.end = "open" => Len(t.stream) + (j - m) <= l
      <4> HAVE t.end = "open"
      <4>1. Len(r[i].stream) + (i - m) <= l /\ Len(t.stream) < Len(r[i].stream)
        BY <1>7, <2>4, <3>1, <3>2
      <4> DEFINE before == Len(r[i].stream)
                 after == Len(t.stream)
                 done == i - m
      <4>2. /\ before \in Nat /\ after \in Nat /\ done \in Int /\ j - m = done + 1
            /\ before + done <= l /\ after < before
        BY <1>1, <2>5, <3>1, <4>1
      <4> HIDE DEF j, a, before, after, done, Good, S
      <4>3. after + (done + 1) <= l
        BY <1>1, <4>2
      <4> QED
        BY <4>2, <4>3, Zenon DEF after
    <3> QED
      BY <1>7, <2>4, <3>2, <3>3 DEF t
  <2>7. CASE j <= m
    <3>1. a = arrivals[j] /\ j \in 1 .. m
      BY <1>1, <1>3, <2>1, <2>7
    <3>2. t.end = "io" => \E h \in 1 .. m : arrivals[h] = Failed
      BY <1>7, <2>4, <3>1
    <3>3. Len(t.stream) <= l
      <4>1. Remains(t, stream)
        BY <2>4 DEF Standing, Reading
      <4> QED
        BY <4>1 DEF Remains, l
    <3>4. j >= m => j - m = 0
      BY <1>1, <2>1, <2>7
    <3>5. j >= m /\ t.end = "open" => Len(t.stream) + (j - m) <= l
      <4> HAVE j >= m /\ t.end = "open"
      <4> DEFINE d == j - m
                 length == Len(t.stream)
      <4>1. d = 0 /\ length \in Nat /\ length <= l
        BY <2>5, <3>3, <3>4
      <4> HIDE DEF d, length
      <4>2. length + d <= l
        BY <1>1, <4>1
      <4> QED
        BY <4>2 DEF d, length
    <3>6. /\ Standing(t, stream, sent, e)
          /\ t.end = "io" => \E h \in 1 .. m : arrivals[h] = Failed
          /\ j >= m /\ t.end = "open" => Len(t.stream) + (j - m) <= l
      BY <2>4, <3>2, <3>5
    <3> QED
      BY <3>6, Zenon DEF t
  <2>8. j > m \/ j <= m
    BY <1>1, <1>3
  <2> HIDE DEF Good, S, j
  <2> QED
    BY <2>6, <2>7, <2>8, Zenon
<1>8. Good(n)
  <2> HIDE DEF Good
  <2>1. 0 \in S /\ \A i \in 0 .. (n - 1) : i \in S => i + 1 \in S
    BY <1>3, <1>6, <1>7
  <2> HIDE DEF S
  <2>2. 0 .. n \subseteq S
    BY <1>3, <2>1, InductionUpTo
  <2>3. n \in S
    BY <1>3, <2>2
  <2> QED
    BY <2>3 DEF S
<1>9. r[n].end # "open"
  <2>1. Len(r[n].stream) \in Nat
    BY <1>8, SessionFields, LenProperties DEF Standing
  <2>2. n >= m /\ n - m = l + 1
    BY <1>1, <1>3
  <2> SUFFICES ASSUME r[n].end = "open" PROVE FALSE
    OBVIOUS
  <2>3. Len(r[n].stream) + (n - m) <= l
    BY <1>8, <2>2
  <2> DEFINE length == Len(r[n].stream)
             d == n - m
  <2>4. length + d <= l /\ d = l + 1 /\ length \in Nat
    BY <2>1, <2>2, <2>3
  <2> HIDE DEF length, d, S, Good
  <2> QED
    BY <1>1, <2>4
<1>10. DOMAIN arrivals = 1 .. m
  BY DEF m
<1> QED
  BY <1>4, <1>8, <1>9, <1>10 DEF reads

\* How ReceiveFrames may end: after whole frames, left bytes behind them, and next the
\* length of the frame that those bytes begin.
Ending(reply, arrivals, sent, whole, left, next) ==
    /\ whole <= Len(sent) /\ reply.frames = SubSeq(sent, 1, whole)
    /\ \/ reply.end = "closed" /\ left = 0
       \/ /\ reply.end = "too_large"
          /\ whole < Len(sent) /\ left >= 4 /\ next > MAX_FRAME_LEN
       \/ /\ reply.end = "truncated"
          /\ whole < Len(sent) /\ left > 0
          /\ left < 4 \/ (next <= MAX_FRAME_LEN /\ left < 4 + next)
       \/ /\ reply.end = "io"
          /\ \E i \in DOMAIN arrivals : arrivals[i] = Failed

Received(payloads, limited, stream, arrivals, reply) ==
    LET sent  == Sent(payloads, limited)
        whole == Len(reply.frames)
    IN  Ending(reply, arrivals, sent, whole,
               Len(stream) - Ends(sent)[whole], Len(sent[whole + 1]))

LEMMA ReceivesWhole ==
    ASSUME NEW payloads \in Seq(Payload), NEW limited, NEW arrivals \in Seq(Nat \cup {Failed}),
           NEW stream, Stream(stream, Sent(payloads, limited), Ends(Sent(payloads, limited))),
           NEW all, all = [i \in 1 .. (Len(stream) + 1) |-> Len(stream) + 1]
    PROVE  Received(payloads, limited, stream, arrivals, ReadFrames(stream, arrivals \o all))
<1> DEFINE sent == Sent(payloads, limited)
           e == Ends(sent)
           r == ReadFrames(stream, arrivals \o all)
           k == Len(r.frames)
           l == Len(stream)
           q == Len(r.filled)
<1>1. Stream(stream, sent, e)
  OBVIOUS
<1> HIDE DEF sent, e
<1>2. /\ Standing(r, stream, sent, e) /\ r.end # "open"
      /\ r.end = "io" => \E i \in DOMAIN arrivals : arrivals[i] = Failed
  BY <1>1, ReaderEnds
<1> HIDE DEF r
<1>3. r \in Readers /\ Reading(r, stream, sent, e) /\ Ended(r, sent)
  BY <1>2 DEF Standing
<1>4. /\ l \in Nat /\ q \in Nat /\ Len(sent) \in Nat /\ k \in 0 .. Len(sent)
      /\ Position(r, stream) \in 0 .. l /\ e[k] \in Nat
  BY <1>1, <1>3, ReadingTyped
<1>5. r.end \in {"closed", "truncated", "too_large", "io"} /\ r.length \in Nat \cup {-1}
  BY <1>2, <1>3, SessionFields
<1>6. r.frames = SubSeq(sent, 1, k)
  <2>1. \A i \in 1 .. k : r.frames[i] = sent[i]
    BY <1>3 DEF Reading, Returned
  <2>2. r.frames \in Seq(Seq(Byte)) /\ sent \in Seq(Payload)
    BY <1>1, <1>3, SessionFields DEF Stream
  <2>3. SubSeq(sent, 1, k) \in Seq(Payload) /\ Len(SubSeq(sent, 1, k)) = k
        /\ \A i \in 1 .. k : SubSeq(sent, 1, k)[i] = sent[i]
    <3> HIDE DEF k
    <3> QED
      BY <1>4, <2>2
  <2>4. SubSeq(sent, 1, k) \in Seq(Seq(Byte))
    <3>1. \A p \in Payload : p \in Seq(Byte)
      BY DEF Payload
    <3>2. \A i \in 1 .. k : SubSeq(sent, 1, k)[i] \in Seq(Byte)
      BY <2>2, <2>3, <3>1
    <3> DEFINE u == SubSeq(sent, 1, k)
    <3> HIDE DEF u
    <3>3. Len(u) = k /\ u \in Seq(Payload)
      BY <2>3 DEF u
    <3> QED
      BY <3>1, <3>2, <3>3, SeqMonotonic DEF u
  <2> QED
    BY <2>1, <2>2, <2>3, <2>4, SeqEqual
<1> DEFINE left == l - e[k]
           next == Len(sent[k + 1])
<1>7. left \in Int
  BY <1>4
<1>8. k < Len(sent) => next \in Nat
  <2> HAVE k < Len(sent)
  <2>1. k \in 0 .. (Len(sent) - 1)
    BY <1>4
  <2> HIDE DEF k
  <2> QED
    BY <1>1, <2>1, NextPayload
<1>9. r.length = -1 => Position(r, stream) = e[k] + q
  BY <1>3 DEF Reading, InHeader
<1>10. r.length # -1 =>
          k < Len(sent) /\ r.length = next /\ next <= MAX_FRAME_LEN
          /\ Position(r, stream) = e[k] + 4 + q
  BY <1>3 DEF Reading, InPayload
<1>11. r.stream = <<>> => Position(r, stream) = l
  BY <1>4 DEF Position
<1>12. left > 0 => k < Len(sent)
  <2> HAVE left > 0
  <2>1. l <= e[Len(sent)] /\ e \in [0 .. Len(sent) -> Nat]
    BY <1>1, <1>3, ReadingTyped
  <2>2. k # Len(sent)
    <3> HIDE DEF l, k
    <3> QED
      BY <1>4, <2>1
  <2> HIDE DEF k
  <2> QED
    BY <1>4, <2>2
<1>13. Wanted(r) = (IF r.length = -1 THEN 4 ELSE r.length) - q
  BY DEF Wanted
<1> HIDE DEF l, k, q, next
<1>14. ASSUME r.end = "closed" PROVE Ending(r, arrivals, sent, k, left, next)
  <2>1. r.stream = <<>> /\ r.length = -1 /\ q = 0
    BY <1>3, <1>14 DEF Ended, q
  <2>2. left = 0
    BY <1>4, <1>9, <1>11, <2>1
  <2> QED
    BY <1>4, <1>6, <1>14, <2>2 DEF Ending
<1>15. ASSUME r.end = "too_large" PROVE Ending(r, arrivals, sent, k, left, next)
  <2>1. r.length = -1 /\ q = 4 /\ k < Len(sent) /\ next > MAX_FRAME_LEN
    BY <1>3, <1>15 DEF Ended, q, k, next
  <2>2. left >= 4
    BY <1>4, <1>9, <2>1
  <2> QED
    BY <1>4, <1>6, <1>15, <2>1, <2>2 DEF Ending
<1>16. ASSUME r.end = "truncated" PROVE Ending(r, arrivals, sent, k, left, next)
  <2>1. r.stream = <<>> /\ Wanted(r) > 0 /\ ~(r.length = -1 /\ r.filled = <<>>)
    BY <1>3, <1>16 DEF Ended
  <2>2. q = 0 => r.filled = <<>>
    BY <1>3, SessionFields, EmptySeq DEF q
  <2>3. CASE r.length = -1
    <3>1. Wanted(r) = 4 - q /\ q # 0
      BY <1>13, <2>1, <2>2, <2>3
    <3>2. q > 0 /\ q < 4
      BY <1>4, <2>1, <3>1
    <3>3. left = q
      BY <1>4, <1>9, <1>11, <2>1, <2>3
    <3>4. left > 0 /\ left < 4 /\ k < Len(sent)
      BY <1>4, <1>12, <3>2, <3>3
    <3> HIDE DEF left
    <3> QED
      BY <1>4, <1>6, <1>16, <3>4 DEF Ending
  <2>4. CASE r.length # -1
    <3>0. /\ k < Len(sent) /\ r.length = next /\ next <= MAX_FRAME_LEN /\ next \in Nat
          /\ Wanted(r) = next - q
      BY <1>8, <1>10, <1>13, <2>4
    <3>3. left = 4 + q
      BY <1>4, <1>10, <1>11, <2>1, <2>4
    <3>4. q < next
      BY <1>4, <2>1, <3>0
    <3>1. left = 4 + q /\ q < next /\ next <= MAX_FRAME_LEN /\ k < Len(sent)
      BY <3>0, <3>3, <3>4
    <3>2. left > 0 /\ left < 4 + next
      BY <1>4, <1>8, <3>1
    <3> HIDE DEF left
    <3> QED
      BY <1>4, <1>6, <1>16, <3>1, <3>2 DEF Ending
  <2> QED
    BY <2>3, <2>4
<1>17. ASSUME r.end = "io" PROVE Ending(r, arrivals, sent, k, left, next)
  BY <1>2, <1>4, <1>6, <1>17 DEF Ending
<1>18. Ending(r, arrivals, sent, k, left, next)
  <2> HIDE DEF left
  <2> QED
    BY <1>5, <1>14, <1>15, <1>16, <1>17
<1> QED
  BY <1>18 DEF Received, r, sent, e, l, k, next, left

-----------------------------------------------------------------------------
(* A call of ReceiveFrames.                                                *)

Receipt(payloads, limited, arrivals, stream) ==
    [op |-> "receive", payloads |-> payloads, limited |-> limited, stream |-> stream,
     arrivals |-> arrivals,
     result |-> ReadFrames(stream,
                           arrivals \o [i \in 1 .. (Len(stream) + 1) |-> Len(stream) + 1])]

LEMMA ReceivedAll ==
    ASSUME NEW payloads \in Payloads, NEW limited, NEW arrivals \in Arrivals,
           NEW cut \in 0 .. Len(Written(payloads, limited)),
           NEW stream, stream = SubSeq(Written(payloads, limited), 1, cut)
    PROVE  Received(payloads, limited, stream, arrivals,
                    Receipt(payloads, limited, arrivals, stream).result)
<1>1. payloads \in Seq(Payload) /\ arrivals \in Seq(Nat \cup {Failed})
  <2>1. payloads \in Seq(Seq(Byte)) /\ (\A i \in DOMAIN payloads : FitsHeader(Len(payloads[i])))
        /\ arrivals \in Seq(Nat \cup {Failed})
    BY FramesAssumption DEF FramesTyped
  <2>2. \A i \in 1 .. Len(payloads) : payloads[i] \in Payload
    BY <2>1 DEF Payload
  <2>3. payloads = [i \in 1 .. Len(payloads) |-> payloads[i]] /\ Len(payloads) \in Nat
    BY <2>1
  <2> DEFINE n == Len(payloads)
  <2> HIDE DEF n
  <2>4. payloads \in [1 .. n -> Payload] /\ n \in Nat
    BY <2>2, <2>3 DEF n
  <2>5. payloads \in Seq(Payload)
    BY <2>4, SeqDef
  <2> QED
    BY <2>1, <2>5
<1> DEFINE sent == Sent(payloads, limited)
           w == Written(payloads, limited)
           e == Ends(sent)
<1>2. sent \in Seq(Payload) /\ w \in Seq(Byte) /\ EndsBy(e, sent) /\ Laid(w, sent, e)
  BY <1>1, WrittenIsLaid
<1> HIDE DEF w, e, sent
<1>3. stream \in Seq(Byte) /\ Carries(stream, sent, e)
  BY <1>2, CutCarries DEF w
<1>4. Stream(stream, sent, e)
  BY <1>2, <1>3 DEF Stream
<1>5. Stream(stream, Sent(payloads, limited), Ends(Sent(payloads, limited)))
  BY <1>4 DEF e, sent
<1> DEFINE all == [i \in 1 .. (Len(stream) + 1) |-> Len(stream) + 1]
<1>6. Received(payloads, limited, stream, arrivals, ReadFrames(stream, arrivals \o all))
  BY <1>1, <1>5, ReceivesWhole
<1> QED
  BY <1>6 DEF Receipt

LEMMA ReceiptWhole ==
    ASSUME ReceiveFrames
    PROVE  FramesArriveWhole'
<1>1. PICK payloads \in Payloads, limited \in BOOLEAN, arrivals \in Arrivals :
        \E cut \in 0 .. Len(Written(payloads, limited)) :
           call' = Receipt(payloads, limited, arrivals,
                           SubSeq(Written(payloads, limited), 1, cut))
  BY Zenon DEF ReceiveFrames, Receipt
<1>2. PICK cut \in 0 .. Len(Written(payloads, limited)) :
        call' = Receipt(payloads, limited, arrivals,
                        SubSeq(Written(payloads, limited), 1, cut))
  BY <1>1
<1> DEFINE stream == SubSeq(Written(payloads, limited), 1, cut)
           reply == Receipt(payloads, limited, arrivals, stream).result
<1>3. Received(payloads, limited, stream, arrivals, reply)
  BY ReceivedAll
<1>4. call' = Receipt(payloads, limited, arrivals, stream)
  BY <1>2
<1> HIDE DEF stream
<1>5. /\ call'.payloads = payloads /\ call'.limited = limited /\ call'.stream = stream
      /\ call'.arrivals = arrivals /\ call'.result = reply
  BY <1>4 DEF Receipt
<1> HIDE DEF reply
<1>6. Received(call'.payloads, call'.limited, call'.stream, call'.arrivals, call'.result)
  BY <1>3, <1>5, Zenon
<1> QED
  BY <1>6, Zenon DEF FramesArriveWhole, Received, Ending

\* Which action a call was made by.
LEMMA CalledBy ==
    ASSUME [CallNext]_call, call' # call
    PROVE  /\ call'.op = "plan" => PlanTransfer
           /\ call'.op = "authorise" => AuthoriseTransfer
           /\ call'.op = "receive" => ReceiveFrames
           /\ call'.op = "launch" => LaunchVm
           /\ call'.op = "encode" => EncodeBytes
           /\ call'.op = "decode" => DecodeText
           /\ call'.op = "screenshot" => Screenshot \/ CaptureInGuest
<1>1. PlanTransfer => call'.op = "plan"
  BY DEF PlanTransfer
<1>2. AuthoriseTransfer => call'.op = "authorise"
  BY DEF AuthoriseTransfer
<1>3. ReceiveFrames => call'.op = "receive"
  BY DEF ReceiveFrames
<1>4. EncodeBytes => call'.op = "encode"
  BY DEF EncodeBytes
<1>5. DecodeText => call'.op = "decode"
  BY DEF DecodeText
<1>6. Screenshot => call'.op = "screenshot"
  BY DEF Screenshot
<1>7. CaptureInGuest => call'.op = "screenshot"
  BY DEF CaptureInGuest
<1>8. LaunchVm => call'.op = "launch"
  BY DEF LaunchVm
<1>9. Return => call'.op = "none"
  BY DEF Return, Idle
<1> QED
  BY <1>1, <1>2, <1>3, <1>4, <1>5, <1>6, <1>7, <1>8, <1>9 DEF CallNext

\* However a connection's bytes arrive, the reader returns the payloads that were sent, in
\* their order and each whole, and ends as the stream did: framing.rs, for every payload
\* whose length fits a header, every cut of the stream and every size of a read.
THEOREM FramesWhole == CallSpec => []FramesArriveWhole
<1>1. CallInit => FramesArriveWhole
  BY DEF CallInit, Idle, FramesArriveWhole
<1>2. FramesArriveWhole /\ [CallNext]_call => FramesArriveWhole'
  <2> SUFFICES ASSUME FramesArriveWhole, [CallNext]_call PROVE FramesArriveWhole'
    OBVIOUS
  <2>1. CASE UNCHANGED call
    BY <2>1 DEF FramesArriveWhole
  <2>2. CASE ReceiveFrames
    BY <2>2, ReceiptWhole
  <2>3. CASE call'.op # "receive"
    BY <2>3, Zenon DEF FramesArriveWhole
  <2> QED
    BY <2>1, <2>2, <2>3, CalledBy
<1> QED
  BY <1>1, <1>2, PTL DEF CallSpec

-----------------------------------------------------------------------------
(* Pictures.  The header of a dump: what is skipped, and its numbers.      *)

HIDE ServerAssumption

LEMMA Division ==
    ASSUME NEW a \in Nat, NEW b \in Nat \ {0}
    PROVE  a \div b \in Nat /\ (a \div b) * b <= a /\ a < (a \div b) * b + b
OBVIOUS

LEMMA Quotient ==
    ASSUME NEW a \in Nat, NEW b \in Nat \ {0}, NEW q \in Nat, q * b <= a, a < (q + 1) * b
    PROVE  a \div b = q
OBVIOUS

LEMMA LeastIs ==
    ASSUME NEW S, S \subseteq Int, NEW x \in S, \A y \in S : x <= y
    PROVE  Min(S) = x
<1>1. \E m \in S : \A y \in S : m =< y
  OBVIOUS
<1>2. Min(S) \in S /\ \A y \in S : Min(S) =< y
  BY <1>1, Zenon DEF Min
<1>3. Min(S) \in Int /\ x \in Int /\ Min(S) <= x /\ x <= Min(S)
  BY <1>2
<1> QED
  BY <1>3

LEMMA HasLeast ==
    ASSUME NEW S, S \subseteq Nat, S # {}
    PROVE  \E m \in S : \A i \in S : m <= i
<1>1. PICK m \in S : \A i \in S : ~(<<i, m>> \in Below)
  BY BelowWellFounded, WFMin
<1>2. ASSUME NEW i \in S PROVE m <= i
  <2>1. m \in Nat /\ i \in Nat
    OBVIOUS
  <2>2. ~(i < m)
    <3>1. i < m => <<i, m>> \in Below
      BY <2>1 DEF Below
    <3> QED
      BY <1>1, <3>1
  <2> QED
    BY <2>1, <2>2
<1> QED
  BY <1>2

LEMMA FirstNotInIs ==
    ASSUME NEW b, Len(b) \in Nat, NEW set, NEW at \in Nat, NEW stop \in Nat,
           at <= stop, stop <= Len(b),
           \A i \in at .. (stop - 1) : b[i] \in set, b[stop] \notin set
    PROVE  FirstNotIn(b, at, set) = stop
<1> DEFINE n == Len(b)
           S == {i \in at .. n : b[i] \notin set} \cup {n + 1}
<1>1. n \in Nat /\ stop <= n
  OBVIOUS
<1>2. FirstNotIn(b, at, set) = Min(S)
  BY DEF FirstNotIn
<1> HIDE DEF n
<1>3. S \subseteq Int /\ stop \in S
  BY <1>1
<1>4. \A i \in S : stop <= i
  <2> SUFFICES ASSUME NEW i \in S, i < stop PROVE FALSE
    BY <1>3
  <2>1. i \in at .. (stop - 1) /\ b[i] \notin set
    BY <1>1
  <2> QED
    BY <2>1
<1> HIDE DEF S
<1> QED
  BY <1>2, <1>3, <1>4, LeastIs

\* Before `to' in a gap no comment is open at p.
IsClear(b, from, p) ==
    \A i \in from .. (p - 1) : b[i] = Hash => \E j \in i .. p : b[j] = Newline

\* What ends a gap is a digit, so neither a blank nor the start of a comment.
LEMMA DigitEndsGap ==
    ASSUME NEW x \in Digits
    PROVE  x \notin Whitespace /\ x # Hash
BY DEF Digits, Whitespace, Hash, Newline, Space

LEMMA SkipsOnce ==
    ASSUME NEW b, Len(b) \in Nat, NEW from \in Nat, NEW to \in Nat, from <= to, to <= Len(b),
           IsGap(b, from, to), b[to] \in Digits,
           NEW p \in from .. to, IsClear(b, from, p)
    PROVE  /\ SkipOnce(b, p) \in from .. to
           /\ IsClear(b, from, SkipOnce(b, p))
           /\ SkipOnce(b, p) = to \/ SkipOnce(b, p) > p
<1> DEFINE n == Len(b)
           start == FirstNotIn(b, p, Whitespace)
           W == {i \in p .. to : b[i] \notin Whitespace}
<1>1. n \in Nat /\ to <= n /\ p \in Nat /\ to \in W
  BY DigitEndsGap
<1>2. PICK m \in W : \A i \in W : m <= i
  <2>1. W \subseteq Nat /\ W # {}
    BY <1>1
  <2> HIDE DEF W
  <2> QED
    BY <2>1, HasLeast
<1>3. \A i \in p .. (m - 1) : b[i] \in Whitespace
  <2> SUFFICES ASSUME NEW i \in p .. (m - 1), b[i] \notin Whitespace PROVE FALSE
    OBVIOUS
  <2>1. i \in W /\ i < m
    BY <1>1
  <2> QED
    BY <1>2, <2>1
<1>4. m \in p .. to /\ b[m] \notin Whitespace
  BY <1>2
<1> HIDE DEF W
<1>5. start = m
  BY <1>1, <1>3, <1>4, FirstNotInIs
<1> HIDE DEF n, start
<1>6. CASE m = to
  <2>1. b[m] # Hash
    BY <1>6, DigitEndsGap
  <2>2. SkipOnce(b, p) = to
    BY <1>5, <1>6, <2>1 DEF SkipOnce, start
  <2>3. IsClear(b, from, to)
    <3> SUFFICES ASSUME NEW i \in from .. (to - 1), b[i] = Hash
                 PROVE  \E j \in i .. to : b[j] = Newline
      BY DEF IsClear
    <3>1. PICK j \in i .. (to - 1) : b[j] = Newline
      BY DEF IsGap
    <3>2. j \in i .. to
      OBVIOUS
    <3> QED
      BY <3>1, <3>2
  <2> QED
    BY <2>2, <2>3
<1>7. CASE m < to
  <2>1. m \in from .. (to - 1)
    BY <1>1, <1>4, <1>7
  <2>2. PICK j \in from .. m : b[j] = Hash /\ \A k \in j .. m : b[k] # Newline
    BY <1>4, <2>1 DEF IsGap
  <2>3. b[m] = Hash
    <3>1. CASE j < p
      <4>1. j \in from .. (p - 1)
        BY <3>1
      <4>2. PICK k \in j .. p : b[k] = Newline
        BY <2>2, <4>1 DEF IsClear
      <4>3. k \in j .. m
        BY <1>4, <4>2
      <4> QED
        BY <2>2, <4>2, <4>3
    <3>2. CASE j \in p .. (m - 1)
      <4>1. b[j] \in Whitespace /\ b[j] = Hash
        BY <1>3, <2>2, <3>2
      <4> QED
        BY <4>1 DEF Whitespace, Hash, Newline, Space
    <3>3. CASE j = m
      BY <2>2, <3>3
    <3> QED
      BY <1>4, <3>1, <3>2, <3>3
  <2> DEFINE N == {i \in m .. n : b[i] = Newline}
             E == N \cup {n + 1}
  <2>4. PICK l \in m .. (to - 1) : b[l] = Newline
    BY <2>1, <2>3 DEF IsGap
  <2>5. l \in E
    BY <1>1, <2>4
  <2>6. PICK e \in E : \A i \in E : e <= i
    <3>1. E \subseteq Nat /\ E # {}
      BY <1>1, <2>1
    <3> HIDE DEF E
    <3> QED
      BY <3>1, HasLeast
  <2>7. e <= l /\ e \in m .. n /\ b[e] = Newline
    BY <1>1, <2>4, <2>5, <2>6
  <2>8. e > m
    <3>1. e # m
      BY <2>3, <2>7 DEF Hash, Newline
    <3> QED
      BY <1>1, <1>4, <2>7, <3>1
  <2>9. Min(E) = e
    <3>1. E \subseteq Int
      BY <1>1, <2>1
    <3> HIDE DEF E
    <3> QED
      BY <2>6, <3>1, LeastIs
  <2>10. SkipOnce(b, p) = e
    <3>1. m <= Len(b)
      BY <1>1, <1>4 DEF n
    <3> QED
      BY <1>5, <2>3, <2>9, <3>1 DEF SkipOnce, start, n
  <2>11. e \in from .. to /\ e > p
    BY <1>4, <2>1, <2>4, <2>7, <2>8
  <2>12. IsClear(b, from, e)
    <3> SUFFICES ASSUME NEW i \in from .. (e - 1)
                 PROVE  \E k \in i .. e : b[k] = Newline
      BY DEF IsClear
    <3>1. e \in i .. e
      BY <2>11
    <3> QED
      BY <2>7, <3>1
  <2> QED
    BY <2>10, <2>11, <2>12
<1> QED
  BY <1>4, <1>6, <1>7

LEMMA SkipsTheGap ==
    ASSUME NEW b, Len(b) \in Nat, NEW from \in Nat \ {0}, NEW to \in Nat,
           from <= to, to <= Len(b), IsGap(b, from, to), b[to] \in Digits
    PROVE  SkipWhitespaceAndComments(b, from) = to
<1> DEFINE n == Len(b)
           Def(f) == f = [i \in 0 .. n |-> IF i = 0 THEN from ELSE SkipOnce(b, f[i - 1])]
           V == {p \in from .. to : IsClear(b, from, p)}
           next == [i \in 0 .. n |-> [p \in V |-> SkipOnce(b, p)]]
<1>1. n \in Nat /\ to <= n
  OBVIOUS
<1>2. ASSUME NEW p \in V
      PROVE  SkipOnce(b, p) \in V /\ (SkipOnce(b, p) = to \/ SkipOnce(b, p) > p)
  BY SkipsOnce
<1>3. from \in V /\ V \subseteq from .. to
  BY DEF IsClear
<1>4. SkipWhitespaceAndComments(b, from) = (CHOOSE f : Def(f))[n]
  BY DEF SkipWhitespaceAndComments
<1> HIDE DEF n, V
<1>5. next \in StepFunctions(n, V)
  BY <1>2 DEF StepFunctions
<1>6. \A i \in 0 .. (n - 1), p \in V : next[i][p] = SkipOnce(b, p)
  BY <1>1
<1> HIDE DEF next
<1>7. PICK f : Follows(f, n, V, from, next)
  BY <1>1, <1>3, <1>5, Recursion
<1>8. /\ f \in [0 .. n -> V] /\ f[0] = from
      /\ \A i \in 0 .. (n - 1) : f[i + 1] = SkipOnce(b, f[i])
  BY <1>1, <1>6, <1>7 DEF Follows
<1>9. Def(f)
  <2>1. ASSUME NEW i \in 1 .. n PROVE f[i] = SkipOnce(b, f[i - 1])
    <3>1. PICK j : j = i - 1 /\ j \in 0 .. (n - 1) /\ j + 1 = i
      BY <1>1
    <3> QED
      BY <1>8, <3>1
  <2> QED
    BY <1>1, <1>8, <2>1
<1>10. PICK h : h = (CHOOSE g : Def(g)) /\ Def(h)
  BY <1>9
<1> DEFINE S == {i \in 0 .. n : h[i] \in V /\ (h[i] = to \/ h[i] >= from + i)}
<1>11. h[0] = from /\ \A i \in 0 .. (n - 1) : h[i + 1] = SkipOnce(b, h[i])
  <2>1. h[0] = from
    <3>1. 0 \in 0 .. n
      BY <1>1
    <3> QED
      BY <1>10, <3>1, Zenon
  <2>2. ASSUME NEW i \in 0 .. (n - 1) PROVE h[i + 1] = SkipOnce(b, h[i])
    <3>1. PICK j : j = i + 1 /\ j \in 0 .. n /\ j # 0 /\ j - 1 = i
      BY <1>1
    <3>2. h[j] = SkipOnce(b, h[j - 1])
      BY <1>10, <3>1, Zenon
    <3> QED
      BY <3>1, <3>2
  <2> QED
    BY <2>1, <2>2
<1> HIDE DEF Def
<1>12. 0 \in S
  BY <1>1, <1>3, <1>11
<1>13. ASSUME NEW i \in 0 .. (n - 1), i \in S PROVE i + 1 \in S
  <2> DEFINE p == h[i]
  <2>1. p \in V /\ (p = to \/ p >= from + i)
    BY <1>13
  <2>2. h[i + 1] = SkipOnce(b, p)
    BY <1>11
  <2> HIDE DEF p
  <2>3. h[i + 1] \in V /\ (h[i + 1] = to \/ h[i + 1] > p)
    BY <1>2, <2>1, <2>2
  <2>4. p \in from .. to /\ h[i + 1] \in from .. to
    BY <1>3, <2>1, <2>3
  <2>5. h[i + 1] = to \/ h[i + 1] >= from + (i + 1)
    BY <2>1, <2>3, <2>4
  <2> QED
    BY <1>1, <2>3, <2>5
<1>14. n \in S
  <2>1. 0 .. n \subseteq S
    <3> HIDE DEF S
    <3> QED
      BY <1>1, <1>12, <1>13, InductionUpTo
  <2> QED
    BY <1>1, <2>1
<1>15. h[n] = to
  <2>1. h[n] \in V /\ (h[n] = to \/ h[n] >= from + n)
    BY <1>14
  <2>2. h[n] \in from .. to /\ from >= 1
    <3> HIDE DEF S
    <3>1. h[n] \in from .. to
      BY <1>3, <2>1, Zenon
    <3> QED
      BY <3>1
  <2> QED
    BY <1>1, <2>1, <2>2
<1> QED
  BY <1>4, <1>10, <1>15

\* A field is read between two places, whatever was read before.
Reads(b, from, stop, value) ==
    \A fields : ReadField(b, [ok |-> TRUE, at |-> from, fields |-> fields])
                  = [ok |-> TRUE, at |-> stop, fields |-> Append(fields, value)]

LEMMA FieldIsRead ==
    ASSUME NEW b, Len(b) \in Nat, NEW from \in Nat \ {0}, NEW to \in Nat, NEW stop \in Nat,
           from <= to, stop <= Len(b), IsGap(b, from, to), NEW value, IsNumber(b, to, stop, value),
           b[stop] \notin Digits
    PROVE  Reads(b, from, stop, value)
<1> SUFFICES ASSUME NEW fields
             PROVE  ReadField(b, [ok |-> TRUE, at |-> from, fields |-> fields])
                      = [ok |-> TRUE, at |-> stop, fields |-> Append(fields, value)]
  BY DEF Reads
<1>1. to < stop /\ (\A i \in to .. (stop - 1) : b[i] \in Digits)
      /\ Decimal(SubSeq(b, to, stop - 1)) = value
  BY DEF IsNumber
<1>2. b[to] \in Digits /\ to <= Len(b)
  BY <1>1
<1>3. SkipWhitespaceAndComments(b, from) = to
  BY <1>2, SkipsTheGap
<1>4. FirstNotIn(b, to, Digits) = stop
  BY <1>1, FirstNotInIs
<1> DEFINE s == [ok |-> TRUE, at |-> from, fields |-> fields]
<1>5. s.ok /\ s.at = from /\ s.fields = fields
  OBVIOUS
<1> HIDE DEF s
<1>6. ReadField(b, s) = [ok |-> TRUE, at |-> stop,
                         fields |-> Append(fields, Decimal(SubSeq(b, to, stop - 1)))]
  <2>1. ~(~s.ok \/ to = stop)
    BY <1>1, <1>5
  <2> QED
    BY <1>3, <1>4, <1>5, <2>1 DEF ReadField
<1> QED
  BY <1>1, <1>6 DEF s

\* Of a dump its header is the beginning, and what follows the header does not matter.
Begins(b, header) ==
    /\ b \in Seq(Byte) /\ header \in Seq(Byte) /\ Len(header) <= Len(b)
    /\ \A i \in 1 .. Len(header) : b[i] = header[i]

LEMMA SameGap ==
    ASSUME NEW b, NEW header, Begins(b, header), NEW from \in Nat \ {0},
           NEW to \in Nat, to <= Len(header), IsGap(header, from, to)
    PROVE  IsGap(b, from, to)
<1>1. \A i \in from .. (to - 1) : b[i] = header[i]
  <2>1. Len(header) \in Nat
    BY LenProperties DEF Begins
  <2> QED
    BY <2>1 DEF Begins
<1>2. ASSUME NEW i \in from .. (to - 1), b[i] = Hash
      PROVE  \E j \in i .. (to - 1) : b[j] = Newline
  <2>1. PICK j \in i .. (to - 1) : header[j] = Newline
    BY <1>1, <1>2 DEF IsGap
  <2>2. j \in from .. (to - 1)
    OBVIOUS
  <2> QED
    BY <1>1, <2>1, <2>2
<1>3. ASSUME NEW i \in from .. (to - 1), b[i] \notin Whitespace
      PROVE  \E j \in from .. i : b[j] = Hash /\ \A k \in j .. i : b[k] # Newline
  <2>1. PICK j \in from .. i : header[j] = Hash /\ \A k \in j .. i : header[k] # Newline
    BY <1>1, <1>3 DEF IsGap
  <2>2. \A k \in j .. i : k \in from .. (to - 1)
    OBVIOUS
  <2>3. j \in from .. (to - 1)
    OBVIOUS
  <2> QED
    BY <1>1, <2>1, <2>2, <2>3
<1> QED
  BY <1>2, <1>3 DEF IsGap

LEMMA SamePart ==
    ASSUME NEW b, NEW header, Begins(b, header), NEW from \in Nat \ {0},
           NEW to \in Nat, to <= Len(header)
    PROVE  SubSeq(b, from, to) = SubSeq(header, from, to)
<1>1. Len(header) \in Nat /\ Len(b) \in Nat /\ b \in Seq(Byte) /\ header \in Seq(Byte)
      /\ Len(header) <= Len(b)
  BY LenProperties DEF Begins
<1>2. \A i \in 1 .. (1 + to - from) : b[i + from - 1] = header[i + from - 1]
  <2> TAKE i \in 1 .. (1 + to - from)
  <2>1. i + from - 1 \in 1 .. Len(header)
    BY <1>1
  <2> QED
    BY <2>1 DEF Begins
<1>3. SubSeq(b, from, to) = [i \in 1 .. (1 + to - from) |-> b[i + from - 1]]
  BY <1>1
<1>4. SubSeq(header, from, to) = [i \in 1 .. (1 + to - from) |-> header[i + from - 1]]
  BY <1>1
<1> QED
  BY <1>2, <1>3, <1>4

LEMMA SameNumber ==
    ASSUME NEW b, NEW header, Begins(b, header), NEW from \in Nat \ {0},
           NEW to \in Nat, to <= Len(header), NEW value, IsNumber(header, from, to, value)
    PROVE  IsNumber(b, from, to, value)
<1>1. from < to /\ (\A i \in from .. (to - 1) : header[i] \in Digits)
      /\ Decimal(SubSeq(header, from, to - 1)) = value
  BY DEF IsNumber
<1>2. Len(header) \in Nat
  BY LenProperties DEF Begins
<1>3. \A i \in from .. (to - 1) : b[i] = header[i]
  BY <1>2 DEF Begins
<1>4. to - 1 \in Nat /\ to - 1 <= Len(header)
  BY <1>1, <1>2
<1>5. SubSeq(b, from, to - 1) = SubSeq(header, from, to - 1)
  BY <1>4, SamePart
<1> QED
  BY <1>1, <1>3, <1>5 DEF IsNumber

LEMMA AppendedTuples ==
    ASSUME NEW x, NEW y, NEW z
    PROVE  /\ Append(<<>>, x) = <<x>> /\ Append(<<x>>, y) = <<x, y>>
           /\ Append(<<x, y>>, z) = <<x, y, z>>
<1> DEFINE S == {x, y, z}
<1>1. /\ <<>> \in Seq(S) /\ <<x>> \in Seq(S) /\ <<x, y>> \in Seq(S)
      /\ <<x, y, z>> \in Seq(S)
  OBVIOUS
<1>2. x \in S /\ y \in S /\ z \in S
  OBVIOUS
<1> HIDE DEF S
<1>3. Append(<<>>, x) = <<x>>
  BY <1>1, <1>2
<1>4. Append(<<x>>, y) = <<x, y>>
  <2> DEFINE s == Append(<<x>>, y)
  <2>1. s \in Seq(S) /\ Len(s) = 2 /\ s[1] = x /\ s[2] = y
    BY <1>1, <1>2
  <2> DEFINE t == <<x, y>>
  <2>2. t \in Seq(S) /\ Len(t) = 2 /\ t[1] = x /\ t[2] = y
    BY <1>1
  <2> HIDE DEF s, t
  <2>3. \A i \in 1 .. 2 : s[i] = t[i]
    BY <2>1, <2>2
  <2>4. s = t
    BY <2>1, <2>2, <2>3, SeqEqual
  <2> QED
    BY <2>4 DEF s, t
<1>5. Append(<<x, y>>, z) = <<x, y, z>>
  <2> DEFINE s == Append(<<x, y>>, z)
  <2>1. s \in Seq(S) /\ Len(s) = 3 /\ s[1] = x /\ s[2] = y /\ s[3] = z
    BY <1>1, <1>2
  <2> DEFINE t == <<x, y, z>>
  <2>2. t \in Seq(S) /\ Len(t) = 3 /\ t[1] = x /\ t[2] = y /\ t[3] = z
    BY <1>1
  <2> HIDE DEF s, t
  <2>3. \A i \in 1 .. 3 : s[i] = t[i]
    BY <2>1, <2>2
  <2>4. s = t
    BY <2>1, <2>2, <2>3, SeqEqual
  <2> QED
    BY <2>4 DEF s, t
<1> QED
  BY <1>3, <1>4, <1>5

LEMMA HeaderIsRead ==
    ASSUME NEW size, NEW header, IsHeader(header, size), NEW b, Begins(b, header)
    PROVE  ReadHeader(b) = [ok |-> TRUE, at |-> Len(header),
                            fields |-> <<size[1], size[2], 255>>]
<1> DEFINE n == Len(header)
<1>1. n \in Nat /\ n > 2 /\ Len(b) \in Nat /\ n <= Len(b)
  BY LenProperties DEF IsHeader, Begins
<1>2. header[n] \in Whitespace
  BY DEF IsHeader
<1>3. PICK first \in 3 .. n, second \in 3 .. n :
        /\ IsGap(header, 3, first) /\ IsNumber(header, first, second, size[1])
        /\ \E third, fourth \in (second + 1) .. n :
              /\ IsGap(header, second, third) /\ IsNumber(header, third, fourth, size[2])
              /\ \E fifth \in (fourth + 1) .. n :
                    IsGap(header, fourth, fifth) /\ IsNumber(header, fifth, n, 255)
  BY DEF IsHeader
<1>4. PICK third \in (second + 1) .. n, fourth \in (second + 1) .. n :
        /\ IsGap(header, second, third) /\ IsNumber(header, third, fourth, size[2])
        /\ \E fifth \in (fourth + 1) .. n :
              IsGap(header, fourth, fifth) /\ IsNumber(header, fifth, n, 255)
  BY <1>3
<1>5. PICK fifth \in (fourth + 1) .. n :
        IsGap(header, fourth, fifth) /\ IsNumber(header, fifth, n, 255)
  BY <1>4
<1> HIDE DEF n
\* What follows a number is the start of a gap, or the byte that ends the header.
<1>6. ASSUME NEW from \in Nat, NEW to \in (from + 1) .. n, IsGap(header, from, to)
      PROVE  header[from] \notin Digits
  <2> SUFFICES ASSUME header[from] \notin Whitespace PROVE header[from] \notin Digits
    BY DigitEndsGap
  <2>1. from \in from .. (to - 1)
    OBVIOUS
  <2>2. \E j \in from .. from : header[j] = Hash
    BY <1>6, <2>1 DEF IsGap
  <2> QED
    BY <2>2, DigitEndsGap
<1>7. header[n] \notin Digits
  BY <1>2, DigitEndsGap
<1>8. /\ first \in Nat \ {0} /\ second \in Nat \ {0} /\ third \in Nat \ {0}
      /\ fourth \in Nat \ {0} /\ fifth \in Nat \ {0} /\ n \in Nat \ {0}
      /\ 3 <= first /\ second <= third /\ fourth <= fifth
      /\ first <= n /\ second <= n /\ third <= n /\ fourth <= n /\ fifth <= n
      /\ third \in (second + 1) .. n /\ fifth \in (fourth + 1) .. n
  BY <1>1, <1>3, <1>4, <1>5
<1>9. \A i \in 1 .. n : b[i] = header[i]
  BY DEF Begins, n
<1>10. b[second] \notin Digits /\ b[fourth] \notin Digits /\ b[n] \notin Digits
  BY <1>4, <1>5, <1>6, <1>7, <1>8, <1>9
<1>11. IsGap(b, 3, first) /\ IsGap(b, second, third) /\ IsGap(b, fourth, fifth)
  BY <1>3, <1>4, <1>5, <1>8, SameGap DEF n
<1>12. /\ IsNumber(b, first, second, size[1]) /\ IsNumber(b, third, fourth, size[2])
       /\ IsNumber(b, fifth, n, 255)
  BY <1>3, <1>4, <1>5, <1>8, SameNumber DEF n
<1>13. Reads(b, 3, second, size[1])
  <2>1. second <= Len(b) /\ 3 <= first /\ 3 \in Nat \ {0}
    BY <1>1, <1>8
  <2> QED
    BY <1>1, <1>8, <1>10, <1>11, <1>12, <2>1, FieldIsRead
<1>14. Reads(b, second, fourth, size[2])
  <2>1. fourth <= Len(b)
    BY <1>1, <1>8
  <2> QED
    BY <1>1, <1>8, <1>10, <1>11, <1>12, <2>1, FieldIsRead
<1>15. Reads(b, fourth, n, 255)
  BY <1>1, <1>8, <1>10, <1>11, <1>12, FieldIsRead
<1> DEFINE At(place, fields) == [ok |-> TRUE, at |-> place, fields |-> fields]
<1>16. /\ Append(<<>>, size[1]) = <<size[1]>>
       /\ Append(<<size[1]>>, size[2]) = <<size[1], size[2]>>
       /\ Append(<<size[1], size[2]>>, 255) = <<size[1], size[2], 255>>
  BY AppendedTuples
<1>17. ReadHeader(b) = At(n, <<size[1], size[2], 255>>)
  <2>1. ReadHeader(b) = ReadField(b, ReadField(b, ReadField(b, At(3, <<>>))))
    BY Zenon DEF ReadHeader, At
  <2> QED
    <3>1. ReadField(b, At(3, <<>>)) = At(second, <<size[1]>>)
      BY <1>13, <1>16, Zenon DEF Reads, At
    <3>2. ReadField(b, At(second, <<size[1]>>)) = At(fourth, <<size[1], size[2]>>)
      BY <1>14, <1>16, Zenon DEF Reads, At
    <3>3. ReadField(b, At(fourth, <<size[1], size[2]>>)) = At(n, <<size[1], size[2], 255>>)
      BY <1>15, <1>16, Zenon DEF Reads, At
    <3> QED
      BY <2>1, <3>1, <3>2, <3>3, Zenon
<1> QED
  BY <1>17 DEF At, n

-----------------------------------------------------------------------------
(* The pixels of a dump.                                                   *)

\* The n pixels of rgb, each followed by an opaque alpha.
Opaque(rgba, rgb, n) ==
    /\ rgba \in Seq(Byte) /\ Len(rgba) = n * 4
    /\ \A p \in 0 .. (n - 1) :
          /\ rgba[p * 4 + 1] = rgb[p * 3 + 1]
          /\ rgba[p * 4 + 2] = rgb[p * 3 + 2]
          /\ rgba[p * 4 + 3] = rgb[p * 3 + 3]
          /\ rgba[p * 4 + 4] = 255

LEMMA Quarter ==
    ASSUME NEW n \in Nat, NEW p \in 0 .. (n - 1), NEW k \in 1 .. 4
    PROVE  /\ p * 4 + k \in 1 .. (n * 4) /\ (p * 4 + k - 1) \div 4 = p
           /\ (p * 4 + k) % 4 = IF k = 4 THEN 0 ELSE k
OBVIOUS

LEMMA QuarterOf ==
    ASSUME NEW n \in Nat, NEW i \in 1 .. (n * 4)
    PROVE  \E p \in 0 .. (n - 1), k \in 1 .. 4 : i = p * 4 + k
<1> DEFINE p == (i - 1) \div 4
           k == ((i - 1) % 4) + 1
<1>1. p \in 0 .. (n - 1) /\ k \in 1 .. 4 /\ i = p * 4 + k
  OBVIOUS
<1> QED
  BY <1>1

\* What GDI returns for the pixels of rgb.
Captured(rgb, n) ==
    [i \in 1 .. (n * 4) |->
        LET pixel == ((i - 1) \div 4) * 3
        IN  IF i % 4 = 0 THEN 0 ELSE rgb[pixel + 4 - (i % 4)]]

LEMMA ToRgbaIsOpaque ==
    ASSUME NEW n \in Nat, NEW rgb \in Seq(Byte), Len(rgb) = n * 3
    PROVE  Opaque(ToRgba(rgb), rgb, n)
<1> DEFINE r == ToRgba(rgb)
           Sample(i) == IF i % 4 = 0 THEN 255 ELSE rgb[((i - 1) \div 4) * 3 + ((i - 1) % 4) + 1]
<1>1. (Len(rgb) \div 3) * 4 = n * 4
  OBVIOUS
<1>2. r = [i \in 1 .. (n * 4) |-> Sample(i)]
  BY <1>1 DEF ToRgba
<1>3. ASSUME NEW i \in 1 .. (n * 4), i % 4 # 0
      PROVE  rgb[((i - 1) \div 4) * 3 + ((i - 1) % 4) + 1] \in Byte
  <2>1. ((i - 1) \div 4) * 3 + ((i - 1) % 4) + 1 \in 1 .. (n * 3)
    BY <1>3
  <2> QED
    BY <2>1, ElementOfSeq
<1>4. \A i \in 1 .. (n * 4) : Sample(i) \in Byte
  <2>1. 255 \in Byte
    BY DEF Byte
  <2> QED
    BY <1>3, <2>1
<1> HIDE DEF r
<1>5. \A i \in 1 .. (n * 4) : r[i] = Sample(i)
  BY <1>2
<1> HIDE DEF Sample
<1>6. r \in Seq(Byte) /\ Len(r) = n * 4
  <2>1. n * 4 \in Nat
    OBVIOUS
  <2>2. r \in [1 .. (n * 4) -> Byte]
    BY <1>2, <1>4
  <2> DEFINE m == n * 4
  <2> HIDE DEF m
  <2> QED
    BY <2>1, <2>2, SeqDef, LenProperties DEF m
<1>7. ASSUME NEW p \in 0 .. (n - 1)
      PROVE  /\ r[p * 4 + 1] = rgb[p * 3 + 1] /\ r[p * 4 + 2] = rgb[p * 3 + 2]
             /\ r[p * 4 + 3] = rgb[p * 3 + 3] /\ r[p * 4 + 4] = 255
  <2>1. \A k \in 1 .. 4 : p * 4 + k \in 1 .. (n * 4)
    OBVIOUS
  <2>2. ASSUME NEW k \in 1 .. 3 PROVE Sample(p * 4 + k) = rgb[p * 3 + k]
    <3>1. (p * 4 + k) % 4 # 0 /\ (p * 4 + k - 1) \div 4 = p /\ (p * 4 + k - 1) % 4 = k - 1
      OBVIOUS
    <3>2. p * 3 + (k - 1) + 1 = p * 3 + k
      OBVIOUS
    <3> QED
      BY <3>1, <3>2 DEF Sample
  <2>3. Sample(p * 4 + 4) = 255
    <3>1. (p * 4 + 4) % 4 = 0
      OBVIOUS
    <3> QED
      BY <3>1 DEF Sample
  <2> QED
    BY <1>5, <2>1, <2>2, <2>3
<1> QED
  BY <1>6, <1>7 DEF Opaque, r

LEMMA SwapIsOpaque ==
    ASSUME NEW n \in Nat, NEW rgb \in Seq(Byte), Len(rgb) = n * 3
    PROVE  Opaque(SwapRedAndBlue(Captured(rgb, n)), rgb, n)
<1> DEFINE bgra == Captured(rgb, n)
           r == SwapRedAndBlue(bgra)
<1>1. DOMAIN bgra = 1 .. (n * 4)
  BY DEF Captured
<1>2. ASSUME NEW p \in 0 .. (n - 1)
      PROVE  /\ bgra[p * 4 + 1] = rgb[p * 3 + 3]
             /\ bgra[p * 4 + 2] = rgb[p * 3 + 2]
             /\ bgra[p * 4 + 3] = rgb[p * 3 + 1]
  <2>1. ASSUME NEW k \in 1 .. 3 PROVE bgra[p * 4 + k] = rgb[p * 3 + 4 - k]
    <3>1. PICK i : i = p * 4 + k
      OBVIOUS
    <3>2. i \in 1 .. (n * 4) /\ i % 4 = k /\ (i - 1) \div 4 = p
      BY <3>1, Quarter
    <3>3. bgra[i] = rgb[((i - 1) \div 4) * 3 + 4 - (i % 4)]
      <4>1. i % 4 # 0
        BY <3>2
      <4> QED
        BY <3>2, <4>1, Zenon DEF Captured
    <3> QED
      BY <3>1, <3>2, <3>3
  <2>2. bgra[p * 4 + 1] = rgb[p * 3 + 4 - 1] /\ bgra[p * 4 + 2] = rgb[p * 3 + 4 - 2]
        /\ bgra[p * 4 + 3] = rgb[p * 3 + 4 - 3]
    BY <2>1
  <2>3. p * 3 + 4 - 1 = p * 3 + 3 /\ p * 3 + 4 - 2 = p * 3 + 2 /\ p * 3 + 4 - 3 = p * 3 + 1
    OBVIOUS
  <2> HIDE DEF bgra
  <2> QED
    BY <2>2, <2>3
<1> HIDE DEF bgra
<1>3. /\ DOMAIN r = 1 .. (n * 4)
      /\ \A i \in 1 .. (n * 4) : /\ i % 4 = 0 => r[i] = 255
                                 /\ i % 4 = 1 => r[i] = bgra[i + 2]
                                 /\ i % 4 = 2 => r[i] = bgra[i]
                                 /\ i % 4 = 3 => r[i] = bgra[i - 2]
  BY <1>1 DEF SwapRedAndBlue
<1>4. r = [i \in 1 .. (n * 4) |-> r[i]]
  BY <1>1 DEF SwapRedAndBlue
<1> HIDE DEF r
<1>5. ASSUME NEW p \in 0 .. (n - 1)
      PROVE  /\ r[p * 4 + 1] = rgb[p * 3 + 1] /\ r[p * 4 + 2] = rgb[p * 3 + 2]
             /\ r[p * 4 + 3] = rgb[p * 3 + 3] /\ r[p * 4 + 4] = 255
  <2>1. \A k \in 1 .. 4 : p * 4 + k \in 1 .. (n * 4)
    BY Quarter
  <2>2. /\ (p * 4 + 1) % 4 = 1 /\ (p * 4 + 2) % 4 = 2 /\ (p * 4 + 3) % 4 = 3
        /\ (p * 4 + 4) % 4 = 0 /\ p * 4 + 1 + 2 = p * 4 + 3 /\ p * 4 + 3 - 2 = p * 4 + 1
    OBVIOUS
  <2>3. r[p * 4 + 1] = bgra[p * 4 + 3] /\ r[p * 4 + 2] = bgra[p * 4 + 2]
        /\ r[p * 4 + 3] = bgra[p * 4 + 1] /\ r[p * 4 + 4] = 255
    <3>1. /\ p * 4 + 1 \in 1 .. (n * 4) /\ p * 4 + 2 \in 1 .. (n * 4)
          /\ p * 4 + 3 \in 1 .. (n * 4) /\ p * 4 + 4 \in 1 .. (n * 4)
      BY <2>1
    <3>2. r[p * 4 + 1] = bgra[p * 4 + 1 + 2] /\ r[p * 4 + 3] = bgra[p * 4 + 3 - 2]
      <4>1. PICK i, j : i = p * 4 + 1 /\ j = p * 4 + 3
        OBVIOUS
      <4>2. i \in 1 .. (n * 4) /\ i % 4 = 1 /\ j \in 1 .. (n * 4) /\ j % 4 = 3
        BY <2>2, <3>1, <4>1
      <4>3. r[i] = bgra[i + 2] /\ r[j] = bgra[j - 2]
        BY <1>3, <4>2, Zenon
      <4> QED
        BY <4>1, <4>3
    <3>3. r[p * 4 + 2] = bgra[p * 4 + 2] /\ r[p * 4 + 4] = 255
      BY <1>3, <2>2, <3>1, Zenon
    <3> QED
      BY <2>2, <3>2, <3>3, Zenon
  <2> QED
    BY <1>2, <2>3
<1>6. ASSUME NEW i \in 1 .. (n * 4) PROVE r[i] \in Byte
  <2>1. PICK p \in 0 .. (n - 1), k \in 1 .. 4 : i = p * 4 + k
    BY QuarterOf
  <2>2. \A j \in 1 .. 3 : rgb[p * 3 + j] \in Byte
    <3> TAKE j \in 1 .. 3
    <3>1. p * 3 + j \in 1 .. (n * 3)
      OBVIOUS
    <3> QED
      BY <3>1, ElementOfSeq
  <2> QED
    <3>1. 255 \in Byte
      BY DEF Byte
    <3>2. CASE k = 4
      BY <1>5, <2>1, <3>1, <3>2
    <3>3. CASE k \in 1 .. 3
      <4>1. r[p * 4 + k] = rgb[p * 3 + 1] \/ r[p * 4 + k] = rgb[p * 3 + 2]
            \/ r[p * 4 + k] = rgb[p * 3 + 3]
        BY <1>5, <3>3
      <4>2. rgb[p * 3 + 1] \in Byte /\ rgb[p * 3 + 2] \in Byte /\ rgb[p * 3 + 3] \in Byte
        BY <2>2
      <4> QED
        BY <2>1, <4>1, <4>2
    <3> QED
      BY <3>2, <3>3
<1>7. r \in Seq(Byte) /\ Len(r) = n * 4
  <2>1. n * 4 \in Nat
    OBVIOUS
  <2>2. r \in [1 .. (n * 4) -> Byte]
    BY <1>4, <1>6
  <2> DEFINE m == n * 4
  <2> HIDE DEF m
  <2> QED
    BY <2>1, <2>2, SeqDef, LenProperties DEF m
<1> QED
  BY <1>5, <1>7 DEF Opaque, r, bgra

\* Of a dump that is one byte short its header is still there, but not all of its pixels.
Samples(size) == size[1] * size[2] * 3

LEMMA Decoded ==
    ASSUME NEW size, NEW header, IsHeader(header, size),
           size[1] \in Nat \ {0}, size[2] \in Nat \ {0},
           NEW rgb \in Seq(Byte), Len(rgb) = Samples(size), NEW missing \in {0, 1}
    PROVE  LET ppm   == header \o rgb
               image == DecodePpm(SubSeq(ppm, 1, Len(ppm) - missing))
           IN  /\ image.ok <=> missing = 0
               /\ missing = 0 => image = [ok |-> TRUE, width |-> size[1], height |-> size[2],
                                          rgba |-> ToRgba(rgb)]
<1> DEFINE n == Len(header)
           m == Len(rgb)
           ppm == header \o rgb
           b == SubSeq(ppm, 1, Len(ppm) - missing)
<1>1. header \in Seq(Byte) /\ n \in Nat /\ n > 2 /\ SubSeq(header, 1, 2) = <<CharP, 54>>
  BY LenProperties DEF IsHeader
<1>2. m \in Nat /\ m >= 3
  <2>1. size[1] * size[2] >= 1 /\ size[1] * size[2] \in Nat
    OBVIOUS
  <2> DEFINE a == size[1] * size[2]
  <2>2. Len(rgb) = a * 3 /\ a >= 1 /\ a \in Nat
    BY <2>1 DEF Samples
  <2> HIDE DEF a
  <2> QED
    BY <2>2
<1>3. /\ ppm \in Seq(Byte) /\ Len(ppm) = n + m
      /\ \A i \in 1 .. (n + m) : ppm[i] = IF i <= n THEN header[i] ELSE rgb[i - n]
  BY <1>1, ConcatProperties
<1> HIDE DEF n, m, ppm
<1>4. b \in Seq(Byte) /\ Len(b) = n + m - missing
      /\ \A i \in 1 .. (n + m - missing) : b[i] = ppm[i]
  <2> DEFINE u == Len(ppm) - missing
  <2>1. u \in Int /\ u = n + m - missing /\ 1 <= u /\ \A i \in 1 .. u : i \in 1 .. Len(ppm)
    BY <1>1, <1>2, <1>3
  <2>2. \A i \in 1 .. u : ppm[i] \in Byte
    BY <1>3, <2>1, ElementOfSeq
  <2> HIDE DEF u
  <2>3. /\ SubSeq(ppm, 1, u) \in Seq(Byte) /\ Len(SubSeq(ppm, 1, u)) = u - 1 + 1
        /\ \A i \in 1 .. (u - 1 + 1) : SubSeq(ppm, 1, u)[i] = ppm[1 + i - 1]
    BY <2>1, <2>2, SubSeqProperties
  <2>4. /\ SubSeq(ppm, 1, u) \in Seq(Byte) /\ Len(SubSeq(ppm, 1, u)) = u
        /\ \A i \in 1 .. u : SubSeq(ppm, 1, u)[i] = ppm[i]
    BY <2>1, <2>3
  <2> QED
    BY <2>1, <2>4 DEF u
<1> HIDE DEF b
<1>5. Begins(b, header)
  <2>1. \A i \in 1 .. n : b[i] = header[i]
    BY <1>1, <1>2, <1>3, <1>4
  <2> QED
    BY <1>1, <1>2, <1>4, <2>1 DEF Begins, n
<1>6. ReadHeader(b) = [ok |-> TRUE, at |-> n, fields |-> <<size[1], size[2], 255>>]
  BY <1>5, HeaderIsRead DEF n
<1>7. SubSeq(b, 1, 2) = <<CharP, 54>> /\ ~(Len(b) < 2)
  <2>1. 2 <= Len(header)
    BY <1>1 DEF n
  <2>2. SubSeq(b, 1, 2) = SubSeq(header, 1, 2)
    BY <1>5, <2>1, SamePart
  <2>3. ~(Len(b) < 2)
    BY <1>1, <1>2, <1>4
  <2> QED
    BY <1>1, <2>2, <2>3, Zenon
<1> DEFINE h == ReadHeader(b)
           start == PixelsAt(b, n)
           needed == Samples(size)
<1>8. start = n + 1 /\ needed = m
  BY DEF PixelsAt, m
<1>9. h.ok /\ h.at = n /\ h.fields[1] = size[1] /\ h.fields[2] = size[2] /\ h.fields[3] = 255
  BY <1>6
<1> HIDE DEF h, start, needed
<1>10. DecodePpm(b) =
         IF n > Len(b) \/ Len(b) - start + 1 < needed THEN NoImage
         ELSE [ok |-> TRUE, width |-> size[1], height |-> size[2],
               rgba |-> ToRgba(SubSeq(b, start, start + needed - 1))]
  <2>1. size[1] # 0 /\ size[2] # 0
    OBVIOUS
  <2> QED
    BY <1>7, <1>9, <2>1 DEF DecodePpm, h, start, needed, Samples
<1>11. missing = 1 => DecodePpm(b) = NoImage
  <2>1. missing = 1 => Len(b) - (n + 1) + 1 < m
    BY <1>1, <1>2, <1>4
  <2> QED
    BY <1>8, <1>10, <2>1
<1>12. missing = 0 => DecodePpm(b) = [ok |-> TRUE, width |-> size[1], height |-> size[2],
                                     rgba |-> ToRgba(rgb)]
  <2> HAVE missing = 0
  <2>1. ~(n > Len(b)) /\ ~(Len(b) - (n + 1) + 1 < m)
    BY <1>1, <1>2, <1>4
  <2>2. SubSeq(b, n + 1, n + 1 + m - 1) = rgb
    <3>1. n + 1 \in 1 .. (Len(b) + 1) /\ n + m \in n .. Len(b) /\ n + 1 + m - 1 = n + m
      BY <1>1, <1>2, <1>4
    <3> DEFINE t == SubSeq(b, n + 1, n + m)
    <3>2. t \in Seq(Byte) /\ Len(t) = m /\ \A i \in 1 .. m : t[i] = b[n + i]
      <4>1. \A i \in (n + 1) .. (n + m) : i \in 1 .. Len(b)
        BY <1>1, <1>2, <3>1
      <4>2. \A i \in (n + 1) .. (n + m) : b[i] \in Byte
        BY <1>4, <4>1, ElementOfSeq
      <4> DEFINE from == n + 1
                 to == n + m
      <4>3. from \in Int /\ to \in Int /\ from <= to /\ to - from + 1 = m
        BY <1>1, <1>2
      <4>4. \A i \in 1 .. m : from + i - 1 = n + i
        BY <1>1, <1>2
      <4> HIDE DEF from, to
      <4>5. \A i \in from .. to : b[i] \in Byte
        BY <4>2 DEF from, to
      <4>6. /\ SubSeq(b, from, to) \in Seq(Byte)
            /\ Len(SubSeq(b, from, to)) = to - from + 1
            /\ \A i \in 1 .. (to - from + 1) : SubSeq(b, from, to)[i] = b[from + i - 1]
        BY <4>3, <4>5, SubSeqProperties
      <4>7. /\ SubSeq(b, from, to) \in Seq(Byte)
            /\ Len(SubSeq(b, from, to)) = m
            /\ \A i \in 1 .. m : SubSeq(b, from, to)[i] = b[n + i]
        BY <4>3, <4>4, <4>6
      <4> QED
        BY <4>7 DEF from, to
    <3> HIDE DEF t
    <3>3. \A i \in 1 .. m : b[n + i] = rgb[i]
      <4> TAKE i \in 1 .. m
      <4>1. n + i \in 1 .. (n + m) /\ ~(n + i <= n) /\ n + i - n = i
        BY <1>1, <1>2
      <4>2. n + i \in 1 .. (n + m - missing)
        BY <1>1, <1>2, <4>1
      <4> DEFINE j == n + i
      <4>3. j \in 1 .. (n + m) /\ ~(j <= n) /\ j - n = i /\ j \in 1 .. (n + m - missing)
        BY <1>1, <1>2, <4>1, <4>2
      <4> HIDE DEF j
      <4>4. b[j] = ppm[j]
        BY <1>4, <4>3
      <4>5. ppm[j] = rgb[j - n]
        BY <1>3, <4>3
      <4>6. b[j] = rgb[i]
        BY <4>3, <4>4, <4>5
      <4> QED
        BY <4>6 DEF j
    <3>4. t = rgb
      BY <3>2, <3>3, SeqEqual DEF m
    <3> QED
      BY <3>1, <3>4 DEF t
  <2> QED
    BY <1>8, <1>10, <2>1, <2>2
<1>13. NoImage.ok = FALSE
  BY DEF NoImage
<1>14. DecodePpm(b).ok <=> missing = 0
  BY <1>11, <1>12, <1>13
<1> QED
  BY <1>12, <1>14, Zenon DEF b, ppm

\* The two sums of the PNG's checksum, by what each of their steps adds.
Summed(f, terms) ==
    /\ f \in [0 .. Len(terms) -> Nat] /\ f[0] = 0
    /\ \A i \in 0 .. (Len(terms) - 1) : f[i + 1] = f[i] + terms[i + 1]

LEMMA TotalIs ==
    ASSUME NEW n \in Nat, NEW terms, Len(terms) = n, \A i \in 1 .. n : terms[i] \in Nat
    PROVE  \E f : Summed(f, terms) /\ Total(terms) = f[n]
<1> DEFINE Def(f) == f = [i \in 0 .. n |-> IF i = 0 THEN 0 ELSE f[i - 1] + terms[i]]
           next == [i \in 0 .. n |-> [s \in Nat |-> IF i = n THEN 0 ELSE s + terms[i + 1]]]
<1>1. Total(terms) = (CHOOSE f : Def(f))[n]
  BY DEF Total
<1>2. next \in StepFunctions(n, Nat)
  <2>1. ASSUME NEW i \in 0 .. n, NEW s \in Nat
        PROVE  (IF i = n THEN 0 ELSE s + terms[i + 1]) \in Nat
    <3>1. i # n => i + 1 \in 1 .. n
      OBVIOUS
    <3> QED
      BY <3>1
  <2> QED
    BY <2>1 DEF StepFunctions
<1>3. \A i \in 0 .. (n - 1), s \in Nat : next[i][s] = s + terms[i + 1]
  OBVIOUS
<1> HIDE DEF next
<1>4. PICK f : Follows(f, n, Nat, 0, next)
  BY <1>2, Recursion
<1>5. f \in [0 .. n -> Nat] /\ f[0] = 0 /\ \A i \in 0 .. (n - 1) : f[i + 1] = f[i] + terms[i + 1]
  <2>1. f \in [0 .. n -> Nat] /\ f[0] = 0 /\ \A i \in 0 .. (n - 1) : f[i + 1] = next[i][f[i]]
    BY <1>4 DEF Follows
  <2>2. \A i \in 0 .. (n - 1) : f[i] \in Nat
    BY <2>1
  <2> QED
    BY <1>3, <2>1, <2>2
<1>6. Def(f)
  <2>1. ASSUME NEW i \in 1 .. n PROVE f[i] = f[i - 1] + terms[i]
    <3>1. PICK j : j = i - 1 /\ j \in 0 .. (n - 1) /\ j + 1 = i
      OBVIOUS
    <3> QED
      BY <1>5, <3>1
  <2> QED
    BY <1>5, <2>1
<1>7. PICK h : h = (CHOOSE g : Def(g)) /\ Def(h)
  BY <1>6
<1>8. h[0] = 0 /\ \A i \in 0 .. (n - 1) : h[i + 1] = h[i] + terms[i + 1]
  <2>1. h[0] = 0
    <3>1. 0 \in 0 .. n
      OBVIOUS
    <3> QED
      BY <1>7, <3>1, Zenon
  <2>2. ASSUME NEW i \in 0 .. (n - 1) PROVE h[i + 1] = h[i] + terms[i + 1]
    <3>1. PICK j : j = i + 1 /\ j \in 0 .. n /\ j # 0 /\ j - 1 = i
      OBVIOUS
    <3>2. h[j] = h[j - 1] + terms[j]
      BY <1>7, <3>1, Zenon
    <3> QED
      BY <3>1, <3>2
  <2> QED
    BY <2>1, <2>2
<1>9. h = [i \in 0 .. n |-> h[i]]
  BY <1>7
<1> HIDE DEF Def
<1>10. Follows(h, n, Nat, 0, next)
  <2>1. \A i \in 0 .. (n - 1) : h[i] \in Nat => h[i + 1] = next[i][h[i]]
    BY <1>3, <1>8
  <2> QED
    BY <1>2, <1>8, <1>9, <2>1, Unfolding
<1>11. Summed(h, terms)
  BY <1>8, <1>10 DEF Follows, Summed
<1> QED
  BY <1>1, <1>7, <1>11

\* Adler-32 as it is computed: both sums are reduced at every byte.
Residues == {x % 65521 : x \in Nat}

Reduced == [a : Residues, b : Residues]

LEMMA ResiduesAreNatural == \A x \in Residues : x \in Nat
BY DEF Residues

Fed(s, byte) == [a |-> (s.a + byte) % 65521, b |-> (s.b + ((s.a + byte) % 65521)) % 65521]

LEMMA AdlerIs ==
    ASSUME NEW n \in Nat, NEW data \in Seq(Byte), Len(data) = n
    PROVE  \E f : /\ f \in [0 .. n -> Reduced] /\ f[0] = [a |-> 1, b |-> 0]
                  /\ \A i \in 0 .. (n - 1) : f[i + 1] = Fed(f[i], data[i + 1])
                  /\ Adler32(data) = f[n]
<1> DEFINE Def(f) == f = [i \in 0 .. n |->
                            IF i = 0 THEN [a |-> 1, b |-> 0] ELSE Fed(f[i - 1], data[i])]
           first == [a |-> 1, b |-> 0]
           next == [i \in 0 .. n |-> [s \in Reduced |->
                       IF i = n THEN first ELSE Fed(s, data[i + 1])]]
<1>1. Adler32(data) = (CHOOSE f : Def(f))[n]
  BY DEF Adler32, Fed
<1>2. first \in Reduced
  <2>1. 1 % 65521 = 1 /\ 0 % 65521 = 0
    OBVIOUS
  <2>2. 1 \in Residues /\ 0 \in Residues
    <3>1. \E x \in Nat : 1 = x % 65521
      <4> WITNESS 1 \in Nat
      <4> QED
        BY <2>1
    <3>2. \E x \in Nat : 0 = x % 65521
      <4> WITNESS 0 \in Nat
      <4> QED
        BY <2>1
    <3> QED
      BY <3>1, <3>2 DEF Residues
  <2> QED
    BY <2>2 DEF Reduced
<1>3. ASSUME NEW s \in Reduced, NEW byte \in Byte PROVE Fed(s, byte) \in Reduced
  <2>1. s.a \in Nat /\ s.b \in Nat /\ byte \in Nat
    BY ResiduesAreNatural DEF Reduced, Byte
  <2>2. \A x \in Nat : x % 65521 \in Residues
    BY DEF Residues
  <2>3. (s.a + byte) % 65521 \in Residues /\ (s.a + byte) % 65521 \in Nat
    BY <2>1, <2>2, ResiduesAreNatural
  <2>4. (s.b + ((s.a + byte) % 65521)) % 65521 \in Residues
    BY <2>1, <2>2, <2>3
  <2> QED
    BY <2>3, <2>4 DEF Reduced, Fed
<1>4. ASSUME NEW i \in 1 .. n PROVE data[i] \in Byte
  BY ElementOfSeq
<1> HIDE DEF first
<1>5. next \in StepFunctions(n, Reduced)
  <2>1. ASSUME NEW i \in 0 .. n, NEW s \in Reduced
        PROVE  (IF i = n THEN first ELSE Fed(s, data[i + 1])) \in Reduced
    <3>1. i # n => i + 1 \in 1 .. n
      OBVIOUS
    <3> QED
      BY <1>2, <1>3, <1>4, <3>1
  <2> QED
    BY <2>1 DEF StepFunctions
<1>6. \A i \in 0 .. (n - 1), s \in Reduced : next[i][s] = Fed(s, data[i + 1])
  OBVIOUS
<1> HIDE DEF next
<1>7. PICK f : Follows(f, n, Reduced, first, next)
  BY <1>2, <1>5, Recursion
<1>8. /\ f \in [0 .. n -> Reduced] /\ f[0] = first
      /\ \A i \in 0 .. (n - 1) : f[i + 1] = Fed(f[i], data[i + 1])
  BY <1>6, <1>7 DEF Follows
<1>9. Def(f)
  <2>1. ASSUME NEW i \in 1 .. n PROVE f[i] = Fed(f[i - 1], data[i])
    <3>1. PICK j : j = i - 1 /\ j \in 0 .. (n - 1) /\ j + 1 = i
      OBVIOUS
    <3> QED
      BY <1>8, <3>1
  <2> QED
    BY <1>8, <2>1 DEF first
<1>10. PICK h : h = (CHOOSE g : Def(g)) /\ Def(h)
  BY <1>9
<1>11. h[0] = first /\ \A i \in 0 .. (n - 1) : h[i + 1] = Fed(h[i], data[i + 1])
  <2>1. h[0] = first
    <3>1. 0 \in 0 .. n
      OBVIOUS
    <3> QED
      BY <1>10, <3>1, Zenon DEF first
  <2>2. ASSUME NEW i \in 0 .. (n - 1) PROVE h[i + 1] = Fed(h[i], data[i + 1])
    <3>1. PICK j : j = i + 1 /\ j \in 0 .. n /\ j # 0 /\ j - 1 = i
      OBVIOUS
    <3>2. h[j] = Fed(h[j - 1], data[j])
      BY <1>10, <3>1, Zenon
    <3> QED
      BY <3>1, <3>2
  <2> QED
    BY <2>1, <2>2
<1>12. h = [i \in 0 .. n |-> h[i]]
  BY <1>10
<1> HIDE DEF Def
<1>13. Follows(h, n, Reduced, first, next)
  <2> HIDE DEF first, next
  <2>1. \A i \in 0 .. (n - 1) : h[i] \in Reduced => h[i + 1] = next[i][h[i]]
    BY <1>6, <1>11
  <2>2. h[0] = first
    BY <1>11
  <2> QED
    BY <1>2, <1>5, <1>12, <2>1, <2>2, Unfolding
<1>14. h \in [0 .. n -> Reduced]
  BY <1>13 DEF Follows
<1> QED
  BY <1>1, <1>10, <1>11, <1>14 DEF first

\* Adding a byte's weight keeps what the two sums say of each other.
LEMMA Weighed ==
    ASSUME NEW k \in Nat, NEW a \in Nat, NEW d \in Nat, NEW c \in Nat
    PROVE  c + k * d - (k - 1) * (a + d) = c - k * a + (a + d)
OBVIOUS

LEMMA AdlerIsTheChecksum ==
    ASSUME NEW data \in Seq(Byte)
    PROVE  Adler32(data) = CheckSums(data)
<1> DEFINE n == Len(data)
           weighted == [i \in 1 .. n |-> (n - i + 1) * data[i]]
<1>1. n \in Nat
  BY LenProperties
<1>2. \A i \in 1 .. n : data[i] \in Byte /\ data[i] \in Nat
  <2>1. \A i \in 1 .. n : data[i] \in Byte
    BY ElementOfSeq
  <2>2. \A x \in Byte : x \in Nat
    BY DEF Byte
  <2> QED
    BY <2>1, <2>2
<1>3. CheckSums(data) = [a |-> (1 + Total(data)) % 65521, b |-> (n + Total(weighted)) % 65521]
  BY DEF CheckSums
<1> HIDE DEF n
<1>4. /\ Len(weighted) = n
      /\ \A i \in 1 .. n : weighted[i] = (n - i + 1) * data[i] /\ weighted[i] \in Nat
  <2>1. \A i \in 1 .. n : (n - i + 1) * data[i] \in Nat
    BY <1>1, <1>2
  <2>2. weighted \in Seq(Nat) /\ DOMAIN weighted = 1 .. n
    BY <1>1, <2>1
  <2>3. Len(weighted) = n
    BY <1>1, <2>2, LenProperties
  <2> QED
    BY <2>1, <2>3
<1> HIDE DEF weighted
<1>5. PICK f : Summed(f, data) /\ Total(data) = f[n]
  BY <1>1, <1>2, TotalIs DEF n
<1>6. PICK g : Summed(g, weighted) /\ Total(weighted) = g[n]
  BY <1>1, <1>4, TotalIs
<1>7. PICK s : /\ s \in [0 .. n -> Reduced] /\ s[0] = [a |-> 1, b |-> 0]
               /\ \A i \in 0 .. (n - 1) : s[i + 1] = Fed(s[i], data[i + 1])
               /\ Adler32(data) = s[n]
  BY <1>1, AdlerIs DEF n
<1>8. f \in [0 .. n -> Nat] /\ f[0] = 0 /\ \A i \in 0 .. (n - 1) : f[i + 1] = f[i] + data[i + 1]
  BY <1>5 DEF Summed, n
<1>9. /\ g \in [0 .. n -> Nat] /\ g[0] = 0
      /\ \A i \in 0 .. (n - 1) : g[i + 1] = g[i] + weighted[i + 1]
  BY <1>4, <1>6 DEF Summed
<1> DEFINE Second(i) == n + g[i] - (n - i) * (1 + f[i])
           S == {i \in 0 .. n : /\ s[i].a = (1 + f[i]) % 65521 /\ Second(i) \in Nat
                                /\ s[i].b = Second(i) % 65521}
<1>10. 0 \in S
  <2>1. Second(0) = 0
    BY <1>1, <1>8, <1>9
  <2> HIDE DEF Second
  <2> QED
    BY <1>1, <1>7, <1>8, <2>1
<1>11. ASSUME NEW i \in 0 .. (n - 1), i \in S PROVE i + 1 \in S
  <2> DEFINE d == data[i + 1]
             a == 1 + f[i]
             x == Second(i)
  <2>1. i + 1 \in 1 .. n /\ i \in 0 .. n
    BY <1>1
  <2>2. d \in Nat /\ a \in Nat /\ g[i] \in Nat /\ f[i] \in Nat
    BY <1>2, <1>8, <1>9, <2>1
  <2>3. f[i + 1] = f[i] + d /\ 1 + f[i + 1] = a + d
    BY <1>8, <2>2
  <2>4. g[i + 1] = g[i] + (n - i) * d
    <3>1. weighted[i + 1] = (n - (i + 1) + 1) * d
      BY <1>4, <2>1
    <3>2. n - (i + 1) + 1 = n - i
      BY <1>1
    <3> QED
      BY <1>9, <3>1, <3>2
  <2>5. Second(i + 1) = x + (a + d)
    <3> DEFINE k == n - i
               c == n + g[i]
    <3>1. k \in Nat /\ c \in Nat /\ n - (i + 1) = k - 1
      BY <1>1, <2>2
    <3>2. Second(i + 1) = n + (g[i] + k * d) - (k - 1) * (a + d)
      <4>1. Second(i + 1) = n + g[i + 1] - (n - (i + 1)) * (1 + f[i + 1])
        OBVIOUS
      <4> HIDE DEF Second, d, a
      <4> QED
        BY <2>3, <2>4, <3>1, <4>1
    <3>3. x = c - k * a
      <4>1. x = n + g[i] - (n - i) * (1 + f[i])
        OBVIOUS
      <4> QED
        BY <1>1, <2>2, <4>1
    <3> HIDE DEF Second, d, a, x
    <3>4. k * d \in Int /\ (k - 1) * (a + d) \in Int
      BY <2>2, <3>1
    <3>5. Second(i + 1) = c + k * d - (k - 1) * (a + d)
      BY <1>1, <2>2, <3>2, <3>4
    <3> HIDE DEF c, k
    <3> QED
      BY <2>2, <3>1, <3>3, <3>5, Weighed
  <2>6. s[i].a = a % 65521 /\ x \in Nat /\ s[i].b = x % 65521
    BY <1>11
  <2>7. s[i + 1] = [a |-> (s[i].a + d) % 65521, b |-> (s[i].b + ((s[i].a + d) % 65521)) % 65521]
    BY <1>7 DEF Fed
  <2> HIDE DEF Second, d, a, x
  <2>8. ((a % 65521) + d) % 65521 = (a + d) % 65521
    BY <2>2
  <2>9. ((x % 65521) + ((a + d) % 65521)) % 65521 = (x + (a + d)) % 65521
    BY <2>2, <2>6
  <2>10. s[i + 1].a = (a + d) % 65521
    BY <2>6, <2>7, <2>8
  <2>11. s[i + 1].b = (x + (a + d)) % 65521
    BY <2>6, <2>7, <2>8, <2>9
  <2>12. x + (a + d) \in Nat
    BY <2>2, <2>6
  <2> QED
    BY <2>1, <2>3, <2>5, <2>10, <2>11, <2>12
<1>12. n \in S
  <2>1. 0 .. n \subseteq S
    <3> HIDE DEF S
    <3> QED
      BY <1>1, <1>10, <1>11, InductionUpTo
  <2> QED
    BY <1>1, <2>1
<1>13. Second(n) = n + g[n]
  BY <1>1, <1>8, <1>9
<1>14. s[n].a = (1 + Total(data)) % 65521 /\ s[n].b = (n + Total(weighted)) % 65521
  <2> HIDE DEF Second
  <2> QED
    BY <1>5, <1>6, <1>12, <1>13
<1>15. s[n] = [a |-> s[n].a, b |-> s[n].b]
  <2>1. s[n] \in Reduced
    BY <1>1, <1>7
  <2> QED
    BY <2>1 DEF Reduced
<1> QED
  BY <1>3, <1>7, <1>14, <1>15

LEMMA Listed ==
    ASSUME NEW k \in Nat, NEW s, s = [i \in 1 .. k |-> s[i]]
    PROVE  Len(s) = k /\ DOMAIN s = 1 .. k
<1> DEFINE S == {s[i] : i \in 1 .. k}
<1>1. s \in [1 .. k -> S]
  OBVIOUS
<1>2. s \in Seq(S)
  BY <1>1
<1> QED
  BY <1>1, <1>2, LenProperties

LEMMA SmallerOfTwo ==
    ASSUME NEW x \in Int, NEW y \in Int
    PROVE  Min({x, y}) = IF x <= y THEN x ELSE y
<1>1. CASE x <= y
  BY <1>1, LeastIs
<1>2. CASE ~(x <= y)
  <2>1. y <= x
    BY <1>2
  <2> QED
    BY <1>2, <2>1, LeastIs
<1> QED
  BY <1>1, <1>2

\* Where a block ends: after MaxBlock more bytes, or where the data does.
After(i) == i * MaxBlock

BlockEnd(i, n) == IF After(i) <= n THEN After(i) ELSE n

Counted(k, n) == k \in Nat \ {0} /\ After(k - 1) < n /\ n <= After(k)

LEMMA CountOfBlocks ==
    ASSUME NEW n \in Nat \ {0}
    PROVE  Counted((n + MaxBlock - 1) \div MaxBlock, n)
<1> DEFINE a == n + MaxBlock - 1
           q == a \div MaxBlock
           t == q * MaxBlock
<1>1. MaxBlock \in Nat \ {0} /\ a \in Nat
  BY MaxBlockAssumption
<1> HIDE DEF a
<1>2. q \in Nat /\ t <= a /\ a < t + MaxBlock
  BY <1>1, Division
<1> HIDE DEF q
<1>3. t \in Nat /\ (q = 0 => t = 0) /\ (q - 1) * MaxBlock = t - MaxBlock
  BY <1>1, <1>2
<1> HIDE DEF t
<1>4. n <= t /\ t - MaxBlock < n /\ q # 0
  BY <1>1, <1>2, <1>3 DEF a
<1> QED
  BY <1>2, <1>3, <1>4 DEF Counted, After, q, a, t

LEMMA AfterGrows ==
    ASSUME NEW i \in Nat, NEW j \in Nat, i <= j
    PROVE  After(i) \in Nat /\ After(i) <= After(j) /\ After(i + 1) = After(i) + MaxBlock
<1>1. MaxBlock \in Nat
  BY MaxBlockAssumption
<1>2. PICK d \in Nat : j = i + d
  OBVIOUS
<1>3. j * MaxBlock = i * MaxBlock + d * MaxBlock /\ d * MaxBlock \in Nat /\ i * MaxBlock \in Nat
  BY <1>1, <1>2
<1>4. (i + 1) * MaxBlock = i * MaxBlock + MaxBlock
  BY <1>1
<1> QED
  BY <1>3, <1>4 DEF After

Bounded(i, k, n) ==
    /\ After(i - 1) \in Nat /\ After(i - 1) < n /\ BlockEnd(i - 1, n) = After(i - 1)
    /\ BlockEnd(i, n) \in (After(i - 1) + 1) .. n
    /\ BlockEnd(i, n) - After(i - 1) <= 65535
    /\ Min({i * MaxBlock, n}) = BlockEnd(i, n)
    /\ i * MaxBlock >= n <=> i = k

LEMMA BlockBounds ==
    ASSUME NEW n \in Nat \ {0}, NEW k, Counted(k, n), NEW i \in 1 .. k
    PROVE  Bounded(i, k, n)
<1>1. MaxBlock \in Nat \ {0} /\ MaxBlock <= 65535
  BY MaxBlockAssumption
<1>2. k \in Nat \ {0} /\ After(k - 1) < n /\ n <= After(k)
  BY DEF Counted
<1>3. PICK j : j = i - 1 /\ j \in Nat /\ j + 1 = i /\ j <= k - 1 /\ k - 1 \in Nat /\ k \in Nat
  BY <1>2
<1>4. After(j) \in Nat /\ After(j) <= After(k - 1) /\ After(i) = After(j) + MaxBlock
  BY <1>3, AfterGrows
<1>5. After(k - 1) \in Nat
  BY <1>3, AfterGrows
<1>6. After(j) < n
  BY <1>1, <1>2, <1>4, <1>5
<1>7. After(i) \in Nat
  BY <1>1, <1>2, <1>4
<1>8. BlockEnd(j, n) = After(j)
  BY <1>4, <1>6 DEF BlockEnd
<1>9. BlockEnd(i, n) \in (After(j) + 1) .. n /\ BlockEnd(i, n) - After(j) <= 65535
  BY <1>1, <1>2, <1>4, <1>6, <1>7 DEF BlockEnd
<1>10. Min({After(i), n}) = BlockEnd(i, n)
  BY <1>7, SmallerOfTwo DEF BlockEnd
<1>11. After(i) >= n <=> i = k
  <2>1. CASE i = k
    BY <1>1, <1>2, <1>7, <2>1
  <2>2. CASE i # k
    <3>1. i <= k - 1 /\ i \in Nat
      BY <1>1, <1>2, <2>2
    <3>2. After(i) <= After(k - 1)
      BY <1>3, <3>1, AfterGrows
    <3>3. ~(After(i) >= n)
      BY <1>1, <1>2, <1>5, <1>7, <3>2
    <3> QED
      BY <2>2, <3>3
  <2> QED
    BY <2>1, <2>2
<1>12. After(i) = i * MaxBlock
  BY DEF After
<1> QED
  BY <1>3, <1>4, <1>6, <1>8, <1>9, <1>10, <1>11, <1>12 DEF Bounded

\* The bytes of one block.
Part(data, i) == SubSeq(data, After(i - 1) + 1, BlockEnd(i, Len(data)))

LEMMA PartIs ==
    ASSUME NEW data \in Seq(Byte), Len(data) # 0, NEW k, Counted(k, Len(data)), NEW i \in 1 .. k
    PROVE  Part(data, i) \in Seq(Byte) /\ Len(Part(data, i)) \in Nat /\ Len(Part(data, i)) <= 65535
<1> DEFINE n == Len(data)
           from == After(i - 1) + 1
           to == BlockEnd(i, n)
<1>1. n \in Nat \ {0}
  BY LenProperties
<1>2. Counted(k, n)
  OBVIOUS
<1>3. /\ from \in Int /\ to \in Int /\ from <= to /\ to - from + 1 <= 65535
      /\ \A j \in from .. to : j \in 1 .. n
  <2> HIDE DEF n
  <2>1. /\ After(i - 1) \in Nat /\ BlockEnd(i, n) \in (After(i - 1) + 1) .. n
        /\ BlockEnd(i, n) - After(i - 1) <= 65535
    <3>1. Bounded(i, k, n)
      BY <1>1, <1>2, BlockBounds
    <3> QED
      BY <3>1 DEF Bounded
  <2> QED
    BY <1>1, <2>1
<1>4. \A j \in from .. to : data[j] \in Byte
  BY <1>3, ElementOfSeq
<1> HIDE DEF from, to
<1>5. SubSeq(data, from, to) \in Seq(Byte) /\ Len(SubSeq(data, from, to)) = to - from + 1
  BY <1>3, <1>4, SubSeqProperties
<1> QED
  BY <1>3, <1>5 DEF Part, from, to

\* One part after the other is the data again.
LEMMA PartsJoined ==
    ASSUME NEW data \in Seq(Byte), Len(data) # 0, NEW k, Counted(k, Len(data)),
           NEW parts, parts = [i \in 1 .. k |-> Part(data, i)]
    PROVE  FlattenSeq(parts) = data
<1> DEFINE n == Len(data)
           Def(f) == f = [i \in 1 .. k |-> IF i = 1 THEN parts[i] ELSE f[i - 1] \o parts[i]]
           JoinedUpTo(i) == SubSeq(data, 1, BlockEnd(i, n))
           c == [i \in 1 .. k |-> JoinedUpTo(i)]
<1>1. n \in Nat \ {0} /\ k \in Nat \ {0}
  BY LenProperties DEF Counted
<1>2. Len(parts) = k /\ \A i \in 1 .. k : parts[i] = Part(data, i)
  BY <1>1, Listed
<1>3. FlattenSeq(parts) = (CHOOSE f : Def(f))[k]
  BY <1>1, <1>2 DEF FlattenSeq
<1>4. JoinedUpTo(1) = Part(data, 1)
  <2>1. After(1 - 1) + 1 = 1
    <3>1. MaxBlock \in Nat
      BY MaxBlockAssumption
    <3>2. 1 - 1 = 0 /\ 0 * MaxBlock = 0
      BY <3>1
    <3> QED
      BY <3>2 DEF After
  <2> QED
    BY <2>1 DEF Part
<1>5. ASSUME NEW i \in 2 .. k PROVE JoinedUpTo(i - 1) \o Part(data, i) = JoinedUpTo(i)
  <2> DEFINE x == After(i - 1)
             y == BlockEnd(i, n)
  <2>1. i \in 1 .. k
    BY <1>1
  <2>2. x \in Nat /\ x < n /\ BlockEnd(i - 1, n) = x /\ y \in (x + 1) .. n
    <3>1. Counted(k, n)
      OBVIOUS
    <3> HIDE DEF n
    <3>2. Bounded(i, k, n)
      BY <1>1, <2>1, <3>1, BlockBounds
    <3> QED
      BY <3>2 DEF Bounded, x, y
  <2> HIDE DEF x, y
  <2>3. x \in 0 .. n /\ y \in x .. n /\ x \in (1 - 1) .. n /\ 1 \in 1 .. (n + 1)
    <3> HIDE DEF n
    <3> QED
      BY <1>1, <2>2
  <2>4. SubSeq(data, 1, x) \o SubSeq(data, x + 1, y) = SubSeq(data, 1, y)
    BY <2>3, ConcatAdjacentSubSeq
  <2>5. JoinedUpTo(i - 1) = SubSeq(data, 1, x)
    BY <2>2, Zenon
  <2>6. Part(data, i) = SubSeq(data, x + 1, y) /\ JoinedUpTo(i) = SubSeq(data, 1, y)
    BY DEF Part, x, y
  <2> QED
    BY <2>4, <2>5, <2>6
<1>6. \A i \in 1 .. k : c[i] = JoinedUpTo(i)
  OBVIOUS
<1>7. JoinedUpTo(k) = data
  <2>1. BlockEnd(k, n) = n
    <3>1. n <= After(k) /\ After(k) \in Nat
      BY <1>1, AfterGrows DEF Counted
    <3> QED
      BY <1>1, <3>1 DEF BlockEnd
  <2> QED
    BY <2>1, SubSeqFull
<1> HIDE DEF Joined
<1>8. Def(c)
  <2>1. ASSUME NEW i \in 1 .. k
        PROVE  JoinedUpTo(i) = IF i = 1 THEN parts[i] ELSE c[i - 1] \o parts[i]
    <3>1. CASE i = 1
      BY <1>2, <1>4, <3>1
    <3>2. CASE i # 1
      <4>1. i \in 2 .. k /\ i - 1 \in 1 .. k
        BY <1>1, <3>2
      <4> QED
        BY <1>2, <1>5, <1>6, <3>2, <4>1
    <3> QED
      BY <3>1, <3>2
  <2> QED
    BY <2>1, Zenon
<1> HIDE DEF c
<1>9. PICK h : h = (CHOOSE f : Def(f)) /\ Def(h)
  <2> HIDE DEF Def
  <2>1. Def(CHOOSE f : Def(f))
    BY <1>8, Zenon
  <2> QED
    BY <2>1, Zenon
<1>10. ASSUME NEW i \in 1 .. k PROVE h[i] = IF i = 1 THEN parts[i] ELSE h[i - 1] \o parts[i]
  BY <1>9, Zenon
<1> HIDE DEF Def
<1> DEFINE S == {i \in 0 .. k : i = 0 \/ h[i] = c[i]}
<1>11. 0 \in S
  BY <1>1
<1>12. ASSUME NEW i \in 0 .. (k - 1), i \in S PROVE i + 1 \in S
  <2> DEFINE j == i + 1
  <2>1. j \in 1 .. k /\ j - 1 = i /\ (j = 1 <=> i = 0)
    BY <1>1
  <2> HIDE DEF j
  <2>2. h[j] = IF j = 1 THEN parts[j] ELSE h[j - 1] \o parts[j]
    BY <1>10, <2>1
  <2>3. h[j] = c[j]
    <3>1. CASE j = 1
      BY <1>2, <1>4, <1>6, <2>1, <2>2, <3>1
    <3>2. CASE j # 1
      <4>1. j \in 2 .. k /\ j - 1 \in 1 .. k
        BY <1>1, <2>1, <3>2
      <4>2. h[j - 1] = JoinedUpTo(j - 1)
        BY <1>6, <1>12, <2>1, <3>2, <4>1
      <4> QED
        BY <1>2, <1>5, <1>6, <2>1, <2>2, <3>2, <4>1, <4>2
    <3> QED
      BY <3>1, <3>2
  <2>4. j \in 0 .. k
    BY <1>1, <2>1
  <2> QED
    BY <2>3, <2>4 DEF j
<1>13. k \in S
  <2>1. 0 .. k \subseteq S
    <3> HIDE DEF S
    <3> QED
      BY <1>1, <1>11, <1>12, InductionUpTo
  <2> QED
    BY <1>1, <2>1
<1>14. h[k] = c[k] /\ k \in 1 .. k
  BY <1>1, <1>13
<1> QED
  BY <1>3, <1>6, <1>7, <1>9, <1>14

\* What is stored is inflated again, by any decoder.
LEMMA StoredIsInflated ==
    ASSUME NEW data \in Seq(Byte), Len(data) # 0
    PROVE  Inflated(ZlibStored(data)) = data /\ SoundStream(ZlibStored(data))
<1> DEFINE n == Len(data)
           k == (n + MaxBlock - 1) \div MaxBlock
           blocks == Blocks(data)
           parts == [i \in DOMAIN blocks |-> blocks[i].data]
<1>1. n \in Nat \ {0}
  BY LenProperties
<1>2. Counted(k, n)
  BY <1>1, CountOfBlocks
<1>3. k \in Nat \ {0}
  BY <1>2 DEF Counted
<1>4. data # <<>>
  <2>1. Len(<<>>) = 0
    BY EmptySeq
  <2> QED
    BY <2>1
<1>5. blocks = [i \in 1 .. k |-> Block(SubSeq(data, (i - 1) * MaxBlock + 1, Min({i * MaxBlock, n})),
                                       i * MaxBlock >= n)]
  BY <1>4 DEF Blocks
<1> HIDE DEF k, blocks
<1>6. Len(blocks) = k /\ DOMAIN blocks = 1 .. k
  BY <1>3, <1>5, Listed
<1>7. ASSUME NEW i \in 1 .. k PROVE blocks[i] = Block(Part(data, i), i = k)
  <2>1. Min({i * MaxBlock, n}) = BlockEnd(i, n) /\ (i * MaxBlock >= n) = (i = k)
    <3> HIDE DEF n
    <3>1. Bounded(i, k, n)
      BY <1>1, <1>2, BlockBounds
    <3>2. i * MaxBlock >= n <=> i = k
      BY <3>1 DEF Bounded
    <3> QED
      BY <3>1, <3>2 DEF Bounded
  <2>2. blocks[i] = Block(SubSeq(data, (i - 1) * MaxBlock + 1, Min({i * MaxBlock, n})),
                          i * MaxBlock >= n)
    BY <1>5, Zenon
  <2>3. SubSeq(data, (i - 1) * MaxBlock + 1, BlockEnd(i, n)) = Part(data, i)
    BY DEF Part, After
  <2> QED
    BY <2>1, <2>2, <2>3, Zenon
<1>8. ASSUME NEW i \in 1 .. k
      PROVE  /\ blocks[i].last = (i = k) /\ blocks[i].data = Part(data, i)
             /\ blocks[i].len = Len(blocks[i].data)
             /\ blocks[i].len + blocks[i].nlen = 65535
  <2>1. Len(Part(data, i)) \in Nat
    BY <1>1, <1>2, PartIs
  <2>2. /\ blocks[i].last = (i = k) /\ blocks[i].data = Part(data, i)
        /\ blocks[i].len = Len(Part(data, i)) /\ blocks[i].nlen = 65535 - Len(Part(data, i))
    <3> DEFINE p == Part(data, i)
               l == i = k
    <3>1. blocks[i] = Block(p, l)
      BY <1>7
    <3> HIDE DEF p, l
    <3>2. /\ blocks[i].last = l /\ blocks[i].data = p
          /\ blocks[i].len = Len(p) /\ blocks[i].nlen = 65535 - Len(p)
      BY <3>1 DEF Block
    <3> QED
      BY <3>2 DEF p, l
  <2> QED
    BY <2>1, <2>2
<1>9. parts = [i \in 1 .. k |-> Part(data, i)]
  BY <1>6, <1>8
<1> HIDE DEF parts
<1>10. FlattenSeq(parts) = data
  BY <1>1, <1>2, <1>9, PartsJoined
<1>11. ZlibStored(data).blocks = blocks /\ ZlibStored(data).adler = Adler32(data)
  BY DEF ZlibStored, blocks
<1>12. Inflated(ZlibStored(data)) = data
  BY <1>10, <1>11 DEF Inflated, parts
<1>13. blocks # <<>>
  <2>1. Len(<<>>) = 0
    BY EmptySeq
  <2> QED
    BY <1>3, <1>6, <2>1
<1>14. SoundStream(ZlibStored(data))
  BY <1>6, <1>8, <1>11, <1>12, <1>13, AdlerIsTheChecksum DEF SoundStream
<1> QED
  BY <1>12, <1>14

-----------------------------------------------------------------------------
(* The lines of a picture.                                                 *)

\* Where the byte i of h lines stands: in which line, and where in it.
LEMMA LineOf ==
    ASSUME NEW line \in Nat \ {0}, NEW h \in Nat, NEW i \in 1 .. (line * h)
    PROVE  (i - 1) \div line \in 0 .. (h - 1) /\ (i - 1) % line \in 0 .. (line - 1)
<1> DEFINE q == (i - 1) \div line
<1>1. line * h \in Nat /\ i - 1 \in Nat
  OBVIOUS
<1>2. q \in Nat /\ q * line <= i - 1
  BY <1>1, Division
<1> HIDE DEF q
<1>3. q < h
  <2>1. SUFFICES ASSUME h <= q PROVE FALSE
    BY <1>2
  <2>2. PICK d \in Nat : q = h + d
    BY <1>2, <2>1
  <2>3. q * line = line * h + d * line /\ d * line \in Nat
    BY <2>2
  <2> QED
    BY <1>1, <1>2, <2>3
<1>4. (i - 1) % line \in 0 .. (line - 1)
  BY <1>1
<1> QED
  BY <1>2, <1>3, <1>4 DEF q

\* A place of a picture of h lines.
IsPlace(line, h, row, c) ==
    line \in Nat \ {0} /\ h \in Nat /\ row \in 0 .. (h - 1) /\ c \in 0 .. (line - 1)

LEMMA InLine ==
    ASSUME NEW line, NEW h, NEW row, NEW c, IsPlace(line, h, row, c),
           NEW i, i = row * line + c + 1
    PROVE  i \in 1 .. (line * h) /\ (i - 1) \div line = row /\ (i - 1) % line = c
<1> DEFINE x == row * line
<1>0. line \in Nat \ {0} /\ h \in Nat /\ row \in 0 .. (h - 1) /\ c \in 0 .. (line - 1)
  BY DEF IsPlace
<1>1. PICK d \in Nat : h = row + 1 + d
  <2>1. h - row - 1 \in Nat /\ h = row + 1 + (h - row - 1)
    BY <1>0
  <2> QED
    BY <2>1
<1>2. line * h = x + line + d * line /\ d * line \in Nat /\ x \in Nat
  BY <1>0, <1>1
<1>3. (row + 1) * line = x + line
  BY <1>0
<1> HIDE DEF x
<1>4. i - 1 = x + c /\ i - 1 \in Nat
  BY <1>0, <1>2 DEF x
<1>5. (i - 1) \div line = row
  BY <1>0, <1>2, <1>3, <1>4, Quotient DEF x
<1>6. (i - 1) % line = c
  <2>1. (i - 1) = line * ((i - 1) \div line) + ((i - 1) % line)
    BY <1>0, <1>4
  <2>2. line * ((i - 1) \div line) = x
    BY <1>0, <1>5 DEF x
  <2> QED
    BY <1>0, <1>2, <1>4, <2>1, <2>2
<1> QED
  BY <1>0, <1>2, <1>4, <1>5, <1>6

\* A line is its filter byte and its pixels.
Lined(lines, rgba, w, h) ==
    /\ lines \in Seq(Byte) /\ Len(lines) = (w * 4 + 1) * h
    /\ \A row \in 0 .. (h - 1), c \in 1 .. (w * 4) :
          /\ row * (w * 4 + 1) + c + 1 \in 1 .. Len(lines)
          /\ lines[row * (w * 4 + 1) + c + 1] = rgba[row * (w * 4) + c]

LEMMA ScanlinesAreLined ==
    ASSUME NEW w \in Nat \ {0}, NEW h \in Nat \ {0}, NEW image,
           image.width = w, image.height = h,
           image.rgba \in Seq(Byte), Len(image.rgba) = w * h * 4
    PROVE  Lined(Scanlines(image), image.rgba, w, h)
<1> DEFINE stride == w * 4
           line == stride + 1
           rgba == image.rgba
           row(i) == (i - 1) \div line
           column(i) == (i - 1) % line
           Sample(i) == IF column(i) = 0 THEN 0 ELSE rgba[row(i) * stride + column(i)]
           lines == Scanlines(image)
<1>1. stride \in Nat /\ line \in Nat \ {0} /\ line * h \in Nat
  OBVIOUS
<1>2. lines = [i \in 1 .. (line * h) |-> Sample(i)]
  BY DEF Scanlines
<1>3. w * h * 4 = stride * h
  OBVIOUS
<1> HIDE DEF stride
<1>4. ASSUME NEW r \in 0 .. (h - 1), NEW c \in 1 .. stride PROVE rgba[r * stride + c] \in Byte
  <2>1. PICK d \in Nat : h = r + 1 + d
    <3>1. h - r - 1 \in Nat /\ h = r + 1 + (h - r - 1)
      OBVIOUS
    <3> QED
      BY <3>1
  <2>2. stride * h = r * stride + stride + d * stride /\ d * stride \in Nat /\ r * stride \in Nat
    BY <1>1, <2>1
  <2>3. r * stride + c \in 1 .. (stride * h)
    BY <1>1, <2>2
  <2> QED
    BY <1>3, <2>3, ElementOfSeq
<1>5. ASSUME NEW i \in 1 .. (line * h) PROVE Sample(i) \in Byte
  <2>1. row(i) \in 0 .. (h - 1) /\ column(i) \in 0 .. (line - 1)
    <3> HIDE DEF line
    <3> QED
      BY <1>1, LineOf
  <2>2. 0 \in Byte
    BY DEF Byte
  <2>3. CASE column(i) = 0
    BY <2>2, <2>3
  <2>4. CASE column(i) # 0
    <3> DEFINE r == row(i)
               c == column(i)
    <3>1. r \in 0 .. (h - 1) /\ c \in 1 .. stride
      <4>1. line - 1 = stride
        BY <1>1
      <4> HIDE DEF line
      <4> QED
        BY <1>1, <2>1, <2>4, <4>1
    <3>2. Sample(i) = rgba[r * stride + c]
      BY <2>4
    <3> HIDE DEF r, c
    <3> QED
      BY <1>4, <3>1, <3>2
  <2> QED
    BY <2>3, <2>4
<1>6. lines \in Seq(Byte) /\ Len(lines) = line * h
  <2> DEFINE n == line * h
  <2>1. lines \in [1 .. n -> Byte]
    <3> HIDE DEF Sample
    <3> QED
      BY <1>2, <1>5
  <2> HIDE DEF n, lines
  <2>2. n \in Nat
    BY <1>1 DEF n
  <2> QED
    BY <2>1, <2>2, SeqDef, LenProperties DEF n
<1>7. ASSUME NEW r \in 0 .. (h - 1), NEW c \in 1 .. stride
      PROVE  /\ r * line + c + 1 \in 1 .. (line * h)
             /\ lines[r * line + c + 1] = rgba[r * stride + c]
  <2> DEFINE i == r * line + c + 1
  <2>1. c \in 0 .. (line - 1) /\ c # 0
    BY <1>1
  <2>2. i = r * line + c + 1
    OBVIOUS
  <2> HIDE DEF line, i
  <2>3. i \in 1 .. (line * h) /\ (i - 1) \div line = r /\ (i - 1) % line = c
    <3>1. IsPlace(line, h, r, c)
      BY <1>1, <2>1 DEF IsPlace
    <3> QED
      BY <2>2, <3>1, InLine
  <2>4. lines[i] = Sample(i)
    <3> HIDE DEF Sample
    <3> QED
      BY <1>2, <2>3
  <2> QED
    BY <2>1, <2>3, <2>4 DEF i
<1> QED
  <2> HIDE DEF lines, rgba
  <2> QED
    BY <1>6, <1>7 DEF Lined, stride, lines, rgba

\* The pixel at the row r and the column c of a picture of w columns, both from 0.
Pixel(rgb, w, r, c) ==
    LET pixel == (r * w + c) * 3
    IN  Append(SubSeq(rgb, pixel + 1, pixel + 3), 255)

LEMMA FourOf ==
    ASSUME NEW s \in Seq(Byte), NEW a \in Nat, a + 4 <= Len(s)
    PROVE  /\ SubSeq(s, a + 1, a + 4) \in Seq(Byte) /\ Len(SubSeq(s, a + 1, a + 4)) = 4
           /\ \A k \in 1 .. 4 : SubSeq(s, a + 1, a + 4)[k] = s[a + k]
<1> DEFINE from == a + 1
           to == a + 4
<1>1. from \in Int /\ to \in Int /\ from <= to /\ to - from + 1 = 4
  OBVIOUS
<1>2. \A i \in from .. to : s[i] \in Byte
  <2>1. \A i \in from .. to : i \in 1 .. Len(s)
    BY LenProperties
  <2> QED
    BY <2>1, ElementOfSeq
<1>3. \A k \in 1 .. 4 : from + k - 1 = a + k
  OBVIOUS
<1> HIDE DEF from, to
<1>4. /\ SubSeq(s, from, to) \in Seq(Byte) /\ Len(SubSeq(s, from, to)) = to - from + 1
      /\ \A k \in 1 .. (to - from + 1) : SubSeq(s, from, to)[k] = s[from + k - 1]
  BY <1>1, <1>2, SubSeqProperties
<1> QED
  BY <1>1, <1>3, <1>4 DEF from, to

LEMMA AppendedByte ==
    ASSUME NEW s \in Seq(Byte), NEW byte \in Byte
    PROVE  /\ Append(s, byte) \in Seq(Byte) /\ Len(Append(s, byte)) = Len(s) + 1
           /\ \A k \in 1 .. Len(s) : Append(s, byte)[k] = s[k]
           /\ Append(s, byte)[Len(s) + 1] = byte
BY AppendProperties

LEMMA ThreeAndOpaque ==
    ASSUME NEW s \in Seq(Byte), NEW a \in Nat, a + 3 <= Len(s)
    PROVE  LET t == Append(SubSeq(s, a + 1, a + 3), 255)
           IN  /\ t \in Seq(Byte) /\ Len(t) = 4 /\ t[4] = 255
               /\ t[1] = s[a + 1] /\ t[2] = s[a + 2] /\ t[3] = s[a + 3]
<1> DEFINE from == a + 1
           to == a + 3
           three == SubSeq(s, from, to)
<1>1. from \in Int /\ to \in Int /\ from <= to /\ to - from + 1 = 3
  OBVIOUS
<1>2. \A i \in from .. to : s[i] \in Byte
  <2>1. \A i \in from .. to : i \in 1 .. Len(s)
    BY LenProperties
  <2> QED
    BY <2>1, ElementOfSeq
<1>3. \A k \in 1 .. 3 : from + k - 1 = a + k
  OBVIOUS
<1> HIDE DEF from, to
<1>4. /\ three \in Seq(Byte) /\ Len(three) = 3
      /\ three[1] = s[a + 1] /\ three[2] = s[a + 2] /\ three[3] = s[a + 3]
  <2>1. /\ three \in Seq(Byte) /\ Len(three) = to - from + 1
        /\ \A k \in 1 .. (to - from + 1) : three[k] = s[from + k - 1]
    BY <1>1, <1>2, SubSeqProperties
  <2> HIDE DEF three
  <2>2. /\ three \in Seq(Byte) /\ Len(three) = 3
        /\ \A k \in 1 .. 3 : three[k] = s[a + k]
    BY <1>1, <1>3, <2>1
  <2> QED
    BY <2>2
<1>5. 255 \in Byte
  BY DEF Byte
<1> HIDE DEF three
<1>6. /\ Append(three, 255) \in Seq(Byte) /\ Len(Append(three, 255)) = 4
      /\ Append(three, 255)[4] = 255
      /\ \A k \in 1 .. 3 : Append(three, 255)[k] = three[k]
  <2>1. /\ Append(three, 255) \in Seq(Byte) /\ Len(Append(three, 255)) = Len(three) + 1
        /\ \A k \in 1 .. Len(three) : Append(three, 255)[k] = three[k]
        /\ Append(three, 255)[Len(three) + 1] = 255
    BY <1>4, <1>5, AppendedByte
  <2> QED
    BY <1>4, <2>1
<1> QED
  BY <1>4, <1>6 DEF three, from, to

\* What a viewer shows of a pixel is that pixel, opaque.
Shows(lines, rgb, w, h) ==
    \A r \in 0 .. (h - 1), c \in 0 .. (w - 1) :
       SubSeq(lines, r * (w * 4 + 1) + c * 4 + 2, r * (w * 4 + 1) + c * 4 + 5)
          = Pixel(rgb, w, r, c)

LEMMA PixelsAreShown ==
    ASSUME NEW w \in Nat \ {0}, NEW h \in Nat \ {0}, NEW rgb \in Seq(Byte),
           Len(rgb) = w * h * 3, NEW rgba, Opaque(rgba, rgb, w * h),
           NEW lines, Lined(lines, rgba, w, h)
    PROVE  Shows(lines, rgb, w, h)
<1> SUFFICES ASSUME NEW r \in 0 .. (h - 1), NEW c \in 0 .. (w - 1)
             PROVE  SubSeq(lines, r * (w * 4 + 1) + c * 4 + 2, r * (w * 4 + 1) + c * 4 + 5)
                       = Pixel(rgb, w, r, c)
  BY DEF Shows
<1> DEFINE n == w * h
           p == r * w + c
           a == r * (w * 4 + 1) + c * 4 + 1
           q == p * 3
<1>1. p \in 0 .. (n - 1) /\ r * (w * 4) + c * 4 = p * 4 /\ n \in Nat
  <2>1. PICK d \in Nat : h = r + 1 + d
    <3>1. h - r - 1 \in Nat /\ h = r + 1 + (h - r - 1)
      OBVIOUS
    <3> QED
      BY <3>1
  <2>2. n = r * w + w + d * w /\ d * w \in Nat /\ r * w \in Nat
    BY <2>1
  <2>3. r * (w * 4) + c * 4 = (r * w + c) * 4
    OBVIOUS
  <2> HIDE DEF n
  <2> QED
    BY <2>2, <2>3
<1>2. a \in Nat
  OBVIOUS
<1>3. ASSUME NEW k \in 1 .. 4 PROVE a + k \in 1 .. Len(lines) /\ lines[a + k] = rgba[p * 4 + k]
  <2> DEFINE x == c * 4 + k
  <2>1. x \in 1 .. (w * 4)
    OBVIOUS
  <2>2. r * (w * 4 + 1) + x + 1 = a + k /\ r * (w * 4) + x = p * 4 + k
    BY <1>1
  <2> HIDE DEF x, a, p
  <2>3. /\ r * (w * 4 + 1) + x + 1 \in 1 .. Len(lines)
        /\ lines[r * (w * 4 + 1) + x + 1] = rgba[r * (w * 4) + x]
    BY <2>1 DEF Lined
  <2> QED
    BY <2>2, <2>3
<1>4. r * (w * 4 + 1) + c * 4 + 2 = a + 1 /\ r * (w * 4 + 1) + c * 4 + 5 = a + 4
  OBVIOUS
<1>5. Pixel(rgb, w, r, c) = Append(SubSeq(rgb, q + 1, q + 3), 255)
  BY DEF Pixel
<1>6. lines \in Seq(Byte)
  BY DEF Lined
<1>7. /\ rgba[p * 4 + 1] = rgb[q + 1] /\ rgba[p * 4 + 2] = rgb[q + 2]
      /\ rgba[p * 4 + 3] = rgb[q + 3] /\ rgba[p * 4 + 4] = 255
  <2> HIDE DEF p
  <2> QED
    BY <1>1 DEF Opaque
<1>8. q \in Nat /\ q + 3 <= Len(rgb)
  <2>1. Len(rgb) = n * 3
    OBVIOUS
  <2> HIDE DEF p, n
  <2> QED
    BY <1>1, <2>1
<1> HIDE DEF a, q, p
<1>9. /\ SubSeq(lines, a + 1, a + 4) \in Seq(Byte) /\ Len(SubSeq(lines, a + 1, a + 4)) = 4
      /\ \A k \in 1 .. 4 : SubSeq(lines, a + 1, a + 4)[k] = lines[a + k]
  <2>1. a + 4 <= Len(lines)
    BY <1>3
  <2> QED
    BY <1>2, <1>6, <2>1, FourOf
<1> DEFINE shown == SubSeq(lines, a + 1, a + 4)
           t == Append(SubSeq(rgb, q + 1, q + 3), 255)
<1>10. /\ t \in Seq(Byte) /\ Len(t) = 4 /\ t[4] = 255
       /\ t[1] = rgb[q + 1] /\ t[2] = rgb[q + 2] /\ t[3] = rgb[q + 3]
  BY <1>8, ThreeAndOpaque
<1> HIDE DEF shown, t
<1>11. ASSUME NEW k \in 1 .. 4 PROVE shown[k] = t[k]
  <2>1. shown[k] = rgba[p * 4 + k]
    BY <1>3, <1>9 DEF shown
  <2>2. k = 1 \/ k = 2 \/ k = 3 \/ k = 4
    OBVIOUS
  <2> QED
    BY <1>7, <1>10, <2>1, <2>2
<1>12. shown \in Seq(Byte) /\ Len(shown) = 4
  BY <1>9 DEF shown
<1>13. shown = t
  BY <1>10, <1>11, <1>12, SeqEqual
<1> QED
  BY <1>4, <1>5, <1>13 DEF shown, t

\* What is encoded is a sound PNG, and shows the pixels.
LEMMA EncodedIsSound ==
    ASSUME NEW w \in Nat \ {0}, NEW h \in Nat \ {0}, NEW rgb \in Seq(Byte),
           Len(rgb) = w * h * 3, NEW image, image.width = w, image.height = h,
           Opaque(image.rgba, rgb, w * h)
    PROVE  /\ SoundPng(EncodePng(image))
           /\ Shown(EncodePng(image)) =
                 [row \in 1 .. h |-> [column \in 1 .. w |-> Pixel(rgb, w, row - 1, column - 1)]]
<1> DEFINE png == EncodePng(image)
           lines == Scanlines(image)
           rgba == image.rgba
           stream == ZlibStored(lines)
           size == [width |-> w, height |-> h, depth |-> 8, colour |-> "rgba"]
<1>1. image.rgba \in Seq(Byte) /\ Len(image.rgba) = w * h * 4
  BY DEF Opaque
<1>2. Lined(lines, image.rgba, w, h)
  BY <1>1, ScanlinesAreLined
<1>3. lines \in Seq(Byte) /\ Len(lines) = (w * 4 + 1) * h /\ Len(lines) # 0
  <2>1. (w * 4 + 1) * h # 0
    OBVIOUS
  <2> QED
    BY <1>2, <2>1 DEF Lined
<1>4. Inflated(stream) = lines /\ SoundStream(stream)
  BY <1>3, StoredIsInflated
<1>5. png = << WriteChunk("IHDR", size), WriteChunk("IDAT", stream), WriteChunk("IEND", <<>>) >>
  BY DEF EncodePng
<1>21. Lined(lines, rgba, w, h) /\ Opaque(rgba, rgb, w * h)
  BY <1>2
<1> HIDE DEF png, stream, lines, size, rgba
<1>22. Shows(lines, rgb, w, h)
  BY <1>21, PixelsAreShown, Zenon
<1>6. DOMAIN png = 1 .. 3 /\ png[1] = WriteChunk("IHDR", size)
      /\ png[2] = WriteChunk("IDAT", stream) /\ png[3] = WriteChunk("IEND", <<>>)
  BY <1>5
<1>7. /\ png[1] = [kind |-> "IHDR", data |-> size, crc |-> <<"IHDR", size>>]
      /\ png[2] = [kind |-> "IDAT", data |-> stream, crc |-> <<"IDAT", stream>>]
      /\ png[3] = [kind |-> "IEND", data |-> <<>>, crc |-> <<"IEND", <<>> >>]
  BY <1>6, Zenon DEF WriteChunk
<1>8. /\ png[1].kind = "IHDR" /\ png[2].kind = "IDAT" /\ png[3].kind = "IEND"
      /\ png[1].data = size /\ png[2].data = stream
      /\ \A i \in 1 .. 3 : png[i].crc = <<png[i].kind, png[i].data>>
  <2>1. png[1].kind = "IHDR" /\ png[1].data = size /\ png[1].crc = <<"IHDR", size>>
    BY <1>7
  <2>2. png[2].kind = "IDAT" /\ png[2].data = stream /\ png[2].crc = <<"IDAT", stream>>
    BY <1>7
  <2>3. png[3].kind = "IEND" /\ png[3].data = <<>> /\ png[3].crc = <<"IEND", <<>> >>
    BY <1>7
  <2>4. \A i \in 1 .. 3 : i = 1 \/ i = 2 \/ i = 3
    OBVIOUS
  <2> QED
    BY <2>1, <2>2, <2>3, <2>4, Zenon
<1>9. size.width = w /\ size.height = h
  BY DEF size
<1>10. [i \in DOMAIN png |-> png[i].kind] = <<"IHDR", "IDAT", "IEND">>
  BY <1>6, <1>8
<1>11. Len(Inflated(png[2].data)) = png[1].data.height * (png[1].data.width * 4 + 1)
  <2>1. (w * 4 + 1) * h = h * (w * 4 + 1)
    OBVIOUS
  <2> QED
    BY <1>3, <1>4, <1>8, <1>9, <2>1
<1>12. SoundPng(png)
  BY <1>4, <1>6, <1>8, <1>10, <1>11 DEF SoundPng
<1> DEFINE Found(row, column) ==
              SubSeq(lines, (row - 1) * (w * 4 + 1) + (column - 1) * 4 + 2,
                            (row - 1) * (w * 4 + 1) + (column - 1) * 4 + 5)
           Meant(row, column) == Pixel(rgb, w, row - 1, column - 1)
<1>13. Shown(png) = [row \in 1 .. h |-> [column \in 1 .. w |-> Found(row, column)]]
  BY <1>4, <1>8, <1>9 DEF Shown
<1>14. ASSUME NEW row \in 1 .. h, NEW column \in 1 .. w
       PROVE  Found(row, column) = Meant(row, column)
  <2> DEFINE r == row - 1
             c == column - 1
  <2>1. r \in 0 .. (h - 1) /\ c \in 0 .. (w - 1)
    OBVIOUS
  <2> HIDE DEF r, c
  <2>2. SubSeq(lines, r * (w * 4 + 1) + c * 4 + 2, r * (w * 4 + 1) + c * 4 + 5) = Pixel(rgb, w, r, c)
    BY <1>22, <2>1 DEF Shows
  <2> QED
    BY <2>2 DEF r, c
<1>15. Shown(png) = [row \in 1 .. h |-> [column \in 1 .. w |-> Meant(row, column)]]
  <2> HIDE DEF Found, Meant
  <2> QED
    BY <1>13, <1>14
<1> QED
  BY <1>12, <1>15 DEF png

\* A size of the instance, and the pixels of a screen of that size.
LEMMA ScreenTyped ==
    ASSUME NEW size \in Sizes, NEW rgb \in Pixels[size]
    PROVE  /\ size[1] \in Nat \ {0} /\ size[2] \in Nat \ {0}
           /\ rgb \in Seq(Byte) /\ Len(rgb) = size[1] * size[2] * 3
           /\ \A header \in Headers : IsHeader(header[size], size)
<1>1. 1 \in {1, 2} /\ 2 \in {1, 2}
  OBVIOUS
<1> QED
  BY <1>1, ScreensAssumption, Zenon DEF ScreensTyped

Faithful(c) ==
    /\ c.ok <=> c.missing = 0
    /\ c.ok => /\ SoundPng(c.result)
               /\ Shown(c.result) = [row \in 1 .. c.size[2] |-> [column \in 1 .. c.size[1] |->
                                       Pixel(c.rgb, c.size[1], row - 1, column - 1)]]

LEMMA PictureOf ==
    ASSUME NEW size \in Sizes, NEW rgb \in Pixels[size], NEW image,
           image.width = size[1], image.height = size[2],
           Opaque(image.rgba, rgb, size[1] * size[2])
    PROVE  /\ SoundPng(EncodePng(image))
           /\ Shown(EncodePng(image)) = [row \in 1 .. size[2] |-> [column \in 1 .. size[1] |->
                                           Pixel(rgb, size[1], row - 1, column - 1)]]
<1>1. /\ size[1] \in Nat \ {0} /\ size[2] \in Nat \ {0}
      /\ rgb \in Seq(Byte) /\ Len(rgb) = size[1] * size[2] * 3
  BY ScreenTyped
<1>2. Opaque(image.rgba, rgb, size[1] * size[2]) /\ image.width = size[1] /\ image.height = size[2]
  OBVIOUS
<1> QED
  BY <1>1, <1>2, EncodedIsSound

LEMMA ScreenshotIsFaithful ==
    ASSUME Screenshot
    PROVE  Faithful(call')
<1> DEFINE Shot(size, header, missing, rgb) ==
              LET ppm   == header[size] \o rgb
                  image == DecodePpm(SubSeq(ppm, 1, Len(ppm) - missing))
              IN  call' = [op |-> "screenshot", size |-> size, rgb |-> rgb,
                           missing |-> missing, ok |-> image.ok,
                           result |-> IF image.ok THEN EncodePng(image) ELSE <<>>]
<1> PICK size \in Sizes, header \in Headers, missing \in {0, 1} :
       \E rgb \in Pixels[size] : Shot(size, header, missing, rgb)
  BY Zenon DEF Screenshot
<1>1. PICK rgb \in Pixels[size] : Shot(size, header, missing, rgb)
  OBVIOUS
<1> DEFINE ppm == header[size] \o rgb
           image == DecodePpm(SubSeq(ppm, 1, Len(ppm) - missing))
           n == size[1] * size[2]
<1>2. /\ size[1] \in Nat \ {0} /\ size[2] \in Nat \ {0}
      /\ rgb \in Seq(Byte) /\ Len(rgb) = n * 3 /\ IsHeader(header[size], size)
  BY ScreenTyped
<1>3. /\ image.ok <=> missing = 0
      /\ missing = 0 => image = [ok |-> TRUE, width |-> size[1], height |-> size[2],
                                 rgba |-> ToRgba(rgb)]
  <2>1. Len(rgb) = Samples(size)
    BY <1>2 DEF Samples
  <2> QED
    BY <1>2, <2>1, Decoded
<1>4. call' = [op |-> "screenshot", size |-> size, rgb |-> rgb, missing |-> missing,
               ok |-> image.ok, result |-> IF image.ok THEN EncodePng(image) ELSE <<>>]
  BY <1>1
<1> HIDE DEF image
<1>5. /\ call'.size = size /\ call'.rgb = rgb /\ call'.missing = missing
      /\ call'.ok = image.ok
      /\ image.ok => call'.result = EncodePng(image)
  BY <1>4
<1>6. ASSUME image.ok
      PROVE  /\ SoundPng(EncodePng(image))
             /\ Shown(EncodePng(image)) = [row \in 1 .. size[2] |-> [column \in 1 .. size[1] |->
                                             Pixel(rgb, size[1], row - 1, column - 1)]]
  <2>1. image.width = size[1] /\ image.height = size[2] /\ image.rgba = ToRgba(rgb)
    BY <1>3, <1>6
  <2>2. n \in Nat
    BY <1>2
  <2>3. Opaque(image.rgba, rgb, n)
    BY <1>2, <2>1, <2>2, ToRgbaIsOpaque
  <2> QED
    BY <2>1, <2>3, PictureOf
<1>7. call'.ok <=> call'.missing = 0
  BY <1>3, <1>5
<1>8. CASE image.ok
  <2>1. SoundPng(call'.result)
    BY <1>5, <1>6, <1>8
  <2>2. Shown(call'.result) = [row \in 1 .. call'.size[2] |-> [column \in 1 .. call'.size[1] |->
                                 Pixel(call'.rgb, call'.size[1], row - 1, column - 1)]]
    <3>1. call'.size = size /\ call'.rgb = rgb
      BY <1>5, Zenon
    <3>2. call'.result = EncodePng(image)
      BY <1>5, <1>8, Zenon
    <3>3. Shown(EncodePng(image)) =
             [row \in 1 .. size[2] |-> [column \in 1 .. size[1] |->
                Pixel(rgb, size[1], row - 1, column - 1)]]
      BY <1>6, <1>8, Zenon
    <3> QED
      BY <3>1, <3>2, <3>3
  <2> QED
    BY <1>7, <2>1, <2>2, Zenon DEF Faithful
<1>9. CASE ~image.ok
  BY <1>5, <1>7, <1>9, Zenon DEF Faithful
<1> QED
  BY <1>8, <1>9

LEMMA CaptureIsFaithful ==
    ASSUME CaptureInGuest
    PROVE  Faithful(call')
<1> PICK size \in Sizes :
       \E rgb \in Pixels[size] :
         call' = [op |-> "screenshot", size |-> size, rgb |-> rgb, missing |-> 0, ok |-> TRUE,
                  result |-> CaptureGdi(size[1], size[2], Captured(rgb, size[1] * size[2]))]
  BY Zenon DEF CaptureInGuest, Captured
<1>1. PICK rgb \in Pixels[size] :
         call' = [op |-> "screenshot", size |-> size, rgb |-> rgb, missing |-> 0, ok |-> TRUE,
                  result |-> CaptureGdi(size[1], size[2], Captured(rgb, size[1] * size[2]))]
  OBVIOUS
<1> DEFINE n == size[1] * size[2]
           image == [width |-> size[1], height |-> size[2],
                     rgba |-> SwapRedAndBlue(Captured(rgb, n))]
<1>2. /\ size[1] \in Nat \ {0} /\ size[2] \in Nat \ {0}
      /\ rgb \in Seq(Byte) /\ Len(rgb) = n * 3
  BY ScreenTyped
<1>3. n \in Nat
  BY <1>2
<1>4. Opaque(image.rgba, rgb, n)
  BY <1>2, <1>3, SwapIsOpaque
<1>5. /\ SoundPng(EncodePng(image))
      /\ Shown(EncodePng(image)) = [row \in 1 .. size[2] |-> [column \in 1 .. size[1] |->
                                      Pixel(rgb, size[1], row - 1, column - 1)]]
  <2>1. image.width = size[1] /\ image.height = size[2]
    OBVIOUS
  <2> HIDE DEF image
  <2> QED
    BY <1>4, <2>1, PictureOf
<1>6. /\ call'.size = size /\ call'.rgb = rgb /\ call'.missing = 0 /\ call'.ok = TRUE
      /\ call'.result = EncodePng(image)
  BY <1>1 DEF CaptureGdi
<1> HIDE DEF image
<1> QED
  BY <1>5, <1>6, Zenon DEF Faithful

\* A PNG shows the screen it was made of, from the host's dump as from the guest's
\* own capture, pixel by pixel and opaque, and every decoder accepts it; a dump that
\* is one byte short is no picture: image.rs, capture.rs.
THEOREM PicturesFaithful == CallSpec => []ScreenshotFaithful
<1>1. ASSUME Faithful(call) PROVE ScreenshotFaithful
  BY <1>1, Zenon DEF Faithful, ScreenshotFaithful, Pixel
<1>2. CallInit => ScreenshotFaithful
  <2>1. Idle.op # "screenshot"
    BY DEF Idle
  <2> QED
    BY <2>1 DEF CallInit, ScreenshotFaithful
<1>3. ScreenshotFaithful /\ [CallNext]_call => ScreenshotFaithful'
  <2> SUFFICES ASSUME ScreenshotFaithful, [CallNext]_call PROVE ScreenshotFaithful'
    OBVIOUS
  <2>1. CASE call' = call
    BY <2>1 DEF ScreenshotFaithful
  <2>2. CASE call' # call
    <3>1. call'.op = "screenshot" => Screenshot \/ CaptureInGuest
      BY <2>2, CalledBy
    <3>2. Faithful(call') => ScreenshotFaithful'
      BY Zenon DEF Faithful, ScreenshotFaithful, Pixel
    <3>3. call'.op = "screenshot" => Faithful(call')
      BY <3>1, ScreenshotIsFaithful, CaptureIsFaithful
    <3>4. call'.op # "screenshot" => ScreenshotFaithful'
      BY DEF ScreenshotFaithful
    <3> QED
      BY <3>2, <3>3, <3>4
  <2> QED
    BY <2>1, <2>2
<1> QED
  BY <1>2, <1>3, PTL DEF CallSpec
=============================================================================
