---------------------------- MODULE GuestServer ----------------------------
(***************************************************************************)
(* How the guest serves connections: the accept loop (wvm-guest/src/       *)
(* main.rs), the thread of each connection (dispatch.rs: serve), the       *)
(* worker each request runs on and its deadline (deadline.rs), and the     *)
(* stop request of the Windows service manager (service.rs).               *)
(*                                                                         *)
(* A request is only its kind here; what its handler does is the business  *)
(* of other modules.  A worker may run for ever.                           *)
(***************************************************************************)
EXTENDS Naturals, Sequences, FiniteSets, SequencesExt

CONSTANTS Conns,          \* connections a peer may open
          MAX_CONNECTIONS,
          MaxRequests     \* bound: requests sent over all connections

ASSUME ServerAssumption ==
    /\ IsFiniteSet(Conns)
    /\ MAX_CONNECTIONS \in Nat \ {0}
    /\ MaxRequests \in Nat

VARIABLES
    stage,      \* where a connection and its thread are
    gone,       \* the peer has hung up
    inbox,      \* frames on the wire, not yet received
    received,   \* requests received so far
    answer,     \* the response about to be sent
    replies,    \* responses sent so far, each with the request it answers
    workers,    \* worker threads running: <<connection, request>>
    backlog,    \* connections the listener has not accepted yet
    loop,       \* where the accept loop is
    active,     \* ACTIVE_CONNECTIONS
    signalled,  \* the flag in STOPPING, which the control handler sets
    stopFlag    \* the flag should_stop() reads

connVars == <<stage, gone, inbox, received, answer, replies, workers>>
loopVars == <<backlog, loop, active>>
stopVars == <<signalled, stopFlag>>
vars == <<connVars, loopVars, stopVars>>

-----------------------------------------------------------------------------
Kinds == {"request", "mismatch", "malformed"} \* "mismatch": a Hello of another version

\* A frame holds a request, or its header declares more than MAX_FRAME_LEN.
Frames == Kinds \cup {"oversize"}

Served == {"reading", "working", "answering", "ending"}
NoAnswer == [to |-> 0, result |-> "none"]

InService == {c \in Conns : stage[c] \in Served}

\* The request a connection's thread is dealing with.
Current(c) == Len(received[c])

Init ==
    /\ stage = [c \in Conns |-> "new"]
    /\ gone = [c \in Conns |-> FALSE]
    /\ inbox = [c \in Conns |-> <<>>]
    /\ received = [c \in Conns |-> <<>>]
    /\ answer = [c \in Conns |-> NoAnswer]
    /\ replies = [c \in Conns |-> <<>>]
    /\ workers = {}
    /\ backlog = <<>>
    /\ loop = "poll"
    /\ active = 0
    /\ signalled = FALSE
    /\ stopFlag = FALSE     \* run_service makes a second flag and gives it this value

-----------------------------------------------------------------------------
(* The peer.  The connect completes before the guest accepts it.           *)

Connect(c) ==
    /\ stage[c] = "new"
    /\ stage' = [stage EXCEPT ![c] = "pending"]
    /\ backlog' = Append(backlog, c)
    /\ UNCHANGED <<gone, inbox, received, answer, replies, workers,
                   loop, active, stopVars>>

RequestsSent == FoldFunction(LAMBDA s, n : Len(s) + n, 0, inbox)
                + FoldFunction(LAMBDA s, n : Len(s) + n, 0, received)

Send(c, kind) ==
    /\ stage[c] \notin {"new", "refused", "ended"}
    /\ ~gone[c]
    /\ RequestsSent < MaxRequests
    /\ inbox' = [inbox EXCEPT ![c] = Append(@, kind)]
    /\ UNCHANGED <<stage, gone, received, answer, replies, workers, loopVars, stopVars>>

HangUp(c) ==
    /\ stage[c] # "new"
    /\ ~gone[c]
    /\ gone' = [gone EXCEPT ![c] = TRUE]
    /\ UNCHANGED <<stage, inbox, received, answer, replies, workers, loopVars, stopVars>>

\* The service manager's Stop or Shutdown.
SignalStop ==
    /\ ~signalled
    /\ signalled' = TRUE
    /\ UNCHANGED <<connVars, loopVars, stopFlag>>

-----------------------------------------------------------------------------
(* The accept loop: serve_loop.                                            *)

\* Each turn begins with should_stop().
PollIf(ready) ==
    /\ loop = "poll"
    /\ ready
    /\ loop' = IF stopFlag THEN "stopped" ELSE "accept"
    /\ UNCHANGED <<connVars, backlog, active, stopVars>>

\* Variant: a connection is served on the accept loop's own thread.
PollWhenIdle == PollIf(\A c \in Conns : stage[c] \notin Served)

Poll == PollIf(TRUE)

\* Nothing pending: sleep and poll again.
AcceptNothing ==
    /\ loop = "accept"
    /\ backlog = <<>>
    /\ loop' = "poll"
    /\ UNCHANGED <<connVars, backlog, active, stopVars>>

\* A connection is taken from the listener, or lost to an error in doing so.
Accept ==
    /\ loop = "accept"
    /\ backlog # <<>>
    /\ backlog' = Tail(backlog)
    /\ \/ /\ stage' = [stage EXCEPT ![Head(backlog)] = "accepted"]
          /\ loop' = "admit"
       \/ /\ stage' = [stage EXCEPT ![Head(backlog)] = "refused"]
          /\ loop' = "poll"
    /\ UNCHANGED <<gone, inbox, received, answer, replies, workers, active, stopVars>>

\* Beyond MAX_CONNECTIONS the connection is dropped; otherwise it is counted
\* and gets a thread.
AdmitIf(room) ==
    /\ loop = "admit"
    /\ \E c \in Conns :
          /\ stage[c] = "accepted"
          /\ \/ /\ room
                /\ active' = active + 1
                /\ stage' = [stage EXCEPT ![c] = "reading"]
             \/ /\ ~room
                /\ stage' = [stage EXCEPT ![c] = "refused"]
                /\ UNCHANGED active
    /\ loop' = "poll"
    /\ UNCHANGED <<gone, inbox, received, answer, replies, workers, backlog, stopVars>>

\* Variant: the ceiling is off by one.
AdmitOneMore == AdmitIf(active <= MAX_CONNECTIONS)

Admit == AdmitIf(active < MAX_CONNECTIONS)

-----------------------------------------------------------------------------
(* A connection's thread: serve.                                           *)

\* One frame.  What does not parse is answered at once; a request starts a
\* worker and is waited for.
ReceiveWith(c, malformedGoesTo) ==
    LET kind == Head(inbox[c])
        n == Current(c) + 1
    IN
    /\ stage[c] = "reading"
    /\ inbox[c] # <<>> /\ kind # "oversize"
    /\ inbox' = [inbox EXCEPT ![c] = Tail(@)]
    /\ received' = [received EXCEPT ![c] = Append(@, kind)]
    /\ \/ /\ kind = "malformed"
          /\ stage' = [stage EXCEPT ![c] = malformedGoesTo]
          /\ answer' = [answer EXCEPT ![c] = [to |-> n, result |-> "malformed"]]
          /\ UNCHANGED workers
       \/ /\ kind # "malformed"
          /\ stage' = [stage EXCEPT ![c] = "working"]
          /\ workers' = workers \cup {<<c, n>>}
          /\ UNCHANGED answer
    /\ UNCHANGED <<gone, replies, loopVars, stopVars>>

\* Variant: a malformed request is ignored.
ReceiveIgnoring(c) == ReceiveWith(c, "reading")

Receive(c) == ReceiveWith(c, "answering")

\* recv() fails: the peer has hung up, perhaps in the middle of a frame, or a
\* header declares more than the limit.
ReceiveFails(c) ==
    /\ stage[c] = "reading"
    /\ gone[c] \/ (inbox[c] # <<>> /\ Head(inbox[c]) = "oversize")
    /\ stage' = [stage EXCEPT ![c] = "ending"]
    /\ UNCHANGED <<gone, inbox, received, answer, replies, workers, loopVars, stopVars>>

\* A worker returns.  Its result goes through a channel of its own, which
\* nobody reads any more once the deadline has passed.
FinishFor(c, n, heard) ==
    /\ <<c, n>> \in workers
    /\ workers' = workers \ {<<c, n>>}
    /\ \/ /\ heard
          /\ stage' = [stage EXCEPT ![c] = "answering"]
          /\ answer' = [answer EXCEPT ![c] = [to |-> n, result |-> "done"]]
       \/ /\ ~heard
          /\ UNCHANGED <<stage, answer>>
    /\ UNCHANGED <<gone, inbox, received, replies, loopVars, stopVars>>

\* Variant: the workers of a connection share one channel.
FinishOnShared(c, n) == FinishFor(c, n, stage[c] = "working")

Finish(c, n) == FinishFor(c, n, stage[c] = "working" /\ n = Current(c))

\* The deadline: the thread stops waiting, the worker keeps running.
Overrun(c) ==
    /\ stage[c] = "working"
    /\ stage' = [stage EXCEPT ![c] = "answering"]
    /\ answer' = [answer EXCEPT ![c] = [to |-> Current(c), result |-> "late"]]
    /\ UNCHANGED <<gone, inbox, received, replies, workers, loopVars, stopVars>>

\* What a request is answered with may be longer than a frame can be: the output
\* of an exec is not limited.  All other responses are short.
MayNotFit(c) == answer[c].result = "done" /\ Last(received[c]) = "request"

\* The response is sent, and the next frame awaited unless the request was a
\* Hello of another version; or sending fails, since the peer has gone or the
\* response does not fit into a frame, and serve() returns.
RespondThen(c, next) ==
    /\ stage[c] = "answering"
    /\ \/ /\ replies' = [replies EXCEPT ![c] = Append(@, answer[c])]
          /\ stage' = [stage EXCEPT ![c] = next]
       \/ /\ gone[c] \/ MayNotFit(c)
          /\ stage' = [stage EXCEPT ![c] = "ending"]
          /\ UNCHANGED replies
    /\ answer' = [answer EXCEPT ![c] = NoAnswer]
    /\ UNCHANGED <<gone, inbox, received, workers, loopVars, stopVars>>

\* Variant: a version mismatch is answered and the session goes on.
RespondAnyVersion(c) == RespondThen(c, "reading")

Respond(c) ==
    RespondThen(c, IF Last(received[c]) = "mismatch" THEN "ending" ELSE "reading")

\* serve() has returned: the connection closes and the slot is given back.
DepartReturning(c, slots) ==
    /\ stage[c] = "ending"
    /\ stage' = [stage EXCEPT ![c] = "ended"]
    /\ active' = active - slots
    /\ UNCHANGED <<gone, inbox, received, answer, replies, workers,
                   backlog, loop, stopVars>>

Depart(c) == DepartReturning(c, 1)

-----------------------------------------------------------------------------
LoopStep == Poll \/ AcceptNothing \/ Accept \/ Admit

ThreadStep(c) ==
    Receive(c) \/ ReceiveFails(c) \/ Overrun(c) \/ Respond(c) \/ Depart(c)

Next ==
    \/ SignalStop
    \/ LoopStep
    \/ \E c \in Conns :
          \/ Connect(c) \/ HangUp(c) \/ ThreadStep(c)
          \/ \E kind \in Frames : Send(c, kind)
          \/ \E n \in 1..MaxRequests : Finish(c, n)

Spec == Init /\ [][Next]_vars

\* The guest's threads run and the deadline timer fires.  Nothing is assumed
\* of the peer, of the service manager or of the workers.
FairSpec ==
    /\ Spec
    /\ WF_vars(LoopStep)
    /\ \A c \in Conns : WF_vars(ThreadStep(c))
-----------------------------------------------------------------------------
(* Properties.                                                             *)

Answers == [to : Nat, result : {"none", "malformed", "done", "late"}]

Stages == Served \cup {"new", "pending", "accepted", "refused", "ended"}

TypeOK ==
    /\ stage \in [Conns -> Stages]
    /\ gone \in [Conns -> BOOLEAN]
    /\ inbox \in [Conns -> Seq(Frames)]
    /\ received \in [Conns -> Seq(Kinds)]
    /\ answer \in [Conns -> Answers]
    /\ replies \in [Conns -> Seq(Answers)]
    /\ workers \subseteq Conns \X Nat
    /\ backlog \in Seq(Conns)
    /\ loop \in {"poll", "accept", "admit", "stopped"}
    /\ active \in Nat
    /\ signalled \in BOOLEAN
    /\ stopFlag \in BOOLEAN

\* Never more than MAX_CONNECTIONS connections are served, and the counter
\* that decides it is exact: however a connection ends (hang-up, failed send,
\* version mismatch, deadline), its slot is given back once and only then.
ConnectionsBounded ==
    /\ active = Cardinality(InService)
    /\ active <= MAX_CONNECTIONS

\* The i-th response on a connection answers its i-th request: a worker that
\* was abandoned at its deadline and finishes later answers nothing, though
\* its thread may be waiting for the worker of a later request by then.
RepliesMatchRequests ==
    \A c \in Conns :
        /\ Len(replies[c]) <= Len(received[c])
        /\ \A i \in 1..Len(replies[c]) :
              /\ replies[c][i].to = i
              /\ replies[c][i].result = "malformed" <=> received[c][i] = "malformed"

\* Nothing is taken from a connection after a Hello of another version, even
\* when the Hello itself overran its deadline or more requests were queued
\* behind it.
MismatchEndsSession ==
    \A c \in Conns : \A i \in 1..Len(received[c]) :
        received[c][i] = "mismatch" => i = Len(received[c])

\* The listener stays available: whatever connections being served are doing,
\* wedged workers and silent peers included, a new one is served or refused.
ListenerAvailable ==
    \A c \in Conns : stage[c] = "pending" ~> stage[c] \in Served \cup {"refused", "ended"}

\* A request that was received is answered, with its result or with the
\* deadline's error, or the peer hangs up first.  The one exception: when the
\* result of a request that was carried out does not fit into a frame, the guest
\* closes the connection instead.  No request, no malformed frame and no Hello of
\* another version leaves the host waiting on an open connection.
NobodyLeftWaiting ==
    \A c \in Conns : \A n \in 1..MaxRequests :
        Len(received[c]) >= n ~>
            \/ Len(replies[c]) >= n
            \/ gone[c]
            \/ stage[c] = "ended" /\ n <= Len(received[c]) /\ received[c][n] = "request"

\* "a stop request is noticed within the poll interval rather than never"
\* (wvm-guest/src/service.rs:102-103).
StopIsNoticed == signalled ~> loop = "stopped"
=============================================================================
