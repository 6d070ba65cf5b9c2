---------------------------- MODULE ControlServer ----------------------------
(***************************************************************************)
(* The host's control socket and its journal (wvm-host/src/server.rs and   *)
(* journal.rs).                                                            *)
(*                                                                         *)
(* The daemon serves one caller at a time.  It records each request in an  *)
(* append-only file before it authorises it, and its outcome before it     *)
(* replies.  A record is appended in two writes, the text and the newline, *)
(* and either may fail; a reader of the journal skips every line that is   *)
(* not exactly one record.  The daemon may be killed at any point, and     *)
(* another one started on the same file.                                   *)
(*                                                                         *)
(* One daemon runs at a time, which is what bind() asks of its operator    *)
(* ("if a daemon is running, stop it first"); nothing enforces it.         *)
(***************************************************************************)
EXTENDS Naturals, Sequences, SequencesExt, Functions

CONSTANTS Callers,     \* connections to the control socket
          NoCaller,    \* no session
          MaxStarts,   \* bound: daemons started
          MaxRequests  \* bound: requests sent over all connections

ASSUME ControlAssumption ==
    /\ NoCaller \notin Callers
    /\ MaxStarts \in Nat
    /\ MaxRequests \in Nat

VARIABLES
    at,       \* where the daemon is
    starts,   \* daemons started so far
    record,   \* the record being appended
    caller,   \* the caller of the session
    backlog,  \* connections not accepted yet
    journal,  \* the journal file, as fragments: records, pieces of one, newlines
    link,     \* where a caller's connection is
    gone,     \* the caller has hung up
    inbox,    \* requests on the wire
    taken,    \* requests the daemon has read
    replies   \* what the caller has been told

callerVars == <<link, gone, inbox, taken, replies>>
vars == <<at, starts, record, caller, backlog, journal, callerVars>>

-----------------------------------------------------------------------------
\* A request as authorise() and execute() tell it apart: a handshake of either
\* outcome, one that is authorised, one that is not, and a frame that is none.
Kinds == {"hello", "allowed", "refused", "malformed"}

Record(event, c, n) == [event |-> event, by |-> c, n |-> n]
StartedRecord == Record("started", NoCaller, 0)
Newline == Record("newline", NoCaller, 0)
Torn    == Record("torn", NoCaller, 0)      \* a part of a record's text

\* The request being dealt with.
Current == Last(taken[caller])

\* What parses: a record on a line of its own.  The last line may be unfinished.
Readable(i) ==
    /\ journal[i].event \notin {"newline", "torn"}
    /\ i = 1 \/ journal[i - 1] = Newline
    /\ i = Len(journal) \/ journal[i + 1] = Newline

\* The records tail() returns.
OnRecord == {journal[i] : i \in {j \in 1..Len(journal) : Readable(j)}}

Init ==
    /\ at = "off"
    /\ starts = 0
    /\ record = StartedRecord
    /\ caller = NoCaller
    /\ backlog = <<>>
    /\ journal = <<>>
    /\ link = [c \in Callers |-> "new"]
    /\ gone = [c \in Callers |-> FALSE]
    /\ inbox = [c \in Callers |-> <<>>]
    /\ taken = [c \in Callers |-> <<>>]
    /\ replies = [c \in Callers |-> <<>>]

-----------------------------------------------------------------------------
(* Callers.                                                                *)

Connect(c) ==
    /\ link[c] = "new"
    /\ at # "off"
    /\ link' = [link EXCEPT ![c] = "pending"]
    /\ backlog' = Append(backlog, c)
    /\ UNCHANGED <<at, starts, record, caller, journal, gone, inbox, taken, replies>>

RequestsSent == FoldFunction(LAMBDA s, n : Len(s) + n, 0, inbox)
                + FoldFunction(LAMBDA s, n : Len(s) + n, 0, taken)

\* A caller waits for each reply before it sends again, as client::Client does.
SendRequest(c, kind) ==
    /\ link[c] \in {"pending", "serving"}
    /\ ~gone[c]
    /\ Len(taken[c]) + Len(inbox[c]) = Len(replies[c])
    /\ RequestsSent < MaxRequests
    /\ inbox' = [inbox EXCEPT ![c] = Append(@, kind)]
    /\ UNCHANGED <<at, starts, record, caller, backlog, journal, link, gone, taken, replies>>

HangUp(c) ==
    /\ link[c] \in {"pending", "serving"}
    /\ ~gone[c]
    /\ gone' = [gone EXCEPT ![c] = TRUE]
    /\ UNCHANGED <<at, starts, record, caller, backlog, journal, link, inbox, taken, replies>>

-----------------------------------------------------------------------------
(* Server::bind and run().                                                 *)

\* The process ends, and every connection with it.
Exit ==
    /\ at' = "off"
    /\ caller' = NoCaller
    /\ backlog' = <<>>
    /\ link' = [c \in Callers |-> IF link[c] = "new" THEN "new" ELSE "closed"]

\* A socket file left behind is removed, the socket bound, the journal opened,
\* and the start is recorded.  A bind() that fails leaves no trace in this state.
Start ==
    /\ at = "off"
    /\ starts < MaxStarts
    /\ starts' = starts + 1
    /\ at' = "text"
    /\ record' = StartedRecord
    /\ UNCHANGED <<caller, backlog, journal, callerVars>>

Accept ==
    /\ at = "accept"
    /\ backlog # <<>>
    /\ caller' = Head(backlog)
    /\ backlog' = Tail(backlog)
    /\ link' = [link EXCEPT ![Head(backlog)] = "serving"]
    /\ at' = "read"
    /\ UNCHANGED <<starts, record, journal, gone, inbox, taken, replies>>

-----------------------------------------------------------------------------
(* handle().                                                               *)

EndSession ==
    /\ at' = "accept"
    /\ caller' = NoCaller
    /\ link' = [link EXCEPT ![caller] = "closed"]

\* A frame is read.  One that is not a request is answered, which ends the
\* session, with no record; for any other its record is begun.
TakeAnd(answered, first) ==
    LET kind == Head(inbox[caller]) IN
    /\ at = "read"
    /\ inbox[caller] # <<>>
    /\ inbox' = [inbox EXCEPT ![caller] = Tail(@)]
    /\ taken' = [taken EXCEPT ![caller] = Append(@, kind)]
    /\ \/ /\ kind = "malformed" /\ answered
          /\ replies' = [replies EXCEPT ![caller] = Append(@, "malformed")]
          /\ EndSession
          /\ UNCHANGED record
       \/ /\ kind = "malformed" /\ ~answered
          /\ UNCHANGED <<at, record, caller, link, replies>>
       \/ /\ kind # "malformed"
          /\ at' = "text"
          /\ record' = Record(first, caller, Len(taken[caller]) + 1)
          /\ UNCHANGED <<caller, link, replies>>
    /\ UNCHANGED <<starts, backlog, journal, gone>>

\* Variants: a malformed frame is skipped; the attempt itself is not recorded.
TakeSilently == TakeAnd(FALSE, "request")
TakeUnrecorded == TakeAnd(TRUE, "completed")

Take == TakeAnd(TRUE, "request")

\* Variant: the end of the stream is read again and again.
DisconnectedNever == FALSE

\* The end of the stream, at a frame boundary or inside a frame.
Disconnected ==
    /\ at = "read"
    /\ inbox[caller] = <<>>
    /\ gone[caller]
    /\ EndSession
    /\ UNCHANGED <<starts, record, backlog, journal, gone, inbox, taken, replies>>

\* The response is sent and the next frame read; or the caller has gone.
ReplyWith(told) ==
    /\ at = "send"
    /\ \/ /\ replies' = [replies EXCEPT ![caller] = Append(@, told)]
          /\ at' = "read"
          /\ UNCHANGED <<caller, link>>
       \/ /\ gone[caller]
          /\ EndSession
          /\ UNCHANGED replies
    /\ UNCHANGED <<starts, record, backlog, journal, gone, inbox, taken>>

Reply ==
    ReplyWith(CASE Current = "hello"   -> "ready"
                [] Current = "allowed" -> "done"
                [] OTHER               -> "denied")

-----------------------------------------------------------------------------
(* Journal::append, and what the daemon does next.                         *)

WriteText ==
    /\ at = "text"
    /\ journal' = Append(journal, record)
    /\ at' = "newline"
    /\ UNCHANGED <<starts, record, caller, backlog, callerVars>>

\* authorise() and execute(): what is recorded of a request before the reply.
Outcome(kind) ==
    CASE kind = "hello" -> "none" [] kind = "allowed" -> "completed" [] OTHER -> "denied"

\* Variant: a denial is logged and not recorded.
OutcomeIfDone(kind) == IF kind = "allowed" THEN "completed" ELSE "none"

WriteNewlineThen(outcome) ==
    /\ at = "newline"
    /\ journal' = Append(journal, Newline)
    /\ \/ /\ record.event = "started"
          /\ at' = "accept"
          /\ UNCHANGED record
       \/ /\ record.event = "request" /\ outcome # "none"
          /\ at' = "text"
          /\ record' = [record EXCEPT !.event = outcome]
       \/ /\ record.event = "request" /\ outcome = "none"
          /\ at' = "send"
          /\ UNCHANGED record
       \/ /\ record.event \in {"completed", "denied"}
          /\ at' = "send"
          /\ UNCHANGED record
    /\ UNCHANGED <<starts, caller, backlog, callerVars>>

WriteNewlineForDone == WriteNewlineThen(OutcomeIfDone(Current))

WriteNewline == WriteNewlineThen(Outcome(Current))

\* A write fails, after a part of the text or without the newline.  The session
\* ends with no reply; a daemon that cannot record its start stops.
AppendFails ==
    /\ at \in {"text", "newline"}
    /\ \/ UNCHANGED journal
       \/ at = "text" /\ journal' = Append(journal, Torn)
    /\ \/ /\ record.event = "started"
          /\ Exit
       \/ /\ record.event # "started"
          /\ EndSession
          /\ UNCHANGED backlog
    /\ UNCHANGED <<starts, record, gone, inbox, taken, replies>>

\* The daemon is killed, perhaps in the middle of a write.
Crash ==
    /\ at # "off"
    /\ \/ UNCHANGED journal
       \/ at = "text" /\ journal' = Append(journal, Torn)
    /\ Exit
    /\ UNCHANGED <<starts, record, gone, inbox, taken, replies>>

-----------------------------------------------------------------------------
DaemonStep ==
    \/ Accept \/ Take \/ Disconnected \/ Reply
    \/ WriteText \/ WriteNewline \/ AppendFails

Next ==
    \/ Start \/ DaemonStep \/ Crash
    \/ \E c \in Callers :
          \/ Connect(c) \/ HangUp(c)
          \/ \E kind \in Kinds : SendRequest(c, kind)

Spec == Init /\ [][Next]_vars

\* A daemon that runs takes its steps.  Nothing is assumed of the callers.
FairSpec == Spec /\ WF_vars(DaemonStep)
-----------------------------------------------------------------------------
(* Properties.                                                             *)

Events == {"started", "request", "denied", "completed"}
Fragments == [event : Events \cup {"newline", "torn"},
              by : Callers \cup {NoCaller}, n : Nat]

TypeOK ==
    /\ at \in {"off", "accept", "read", "text", "newline", "send"}
    /\ starts \in Nat
    /\ record \in [event : Events, by : Callers \cup {NoCaller}, n : Nat]
    /\ caller \in Callers \cup {NoCaller}
    /\ backlog \in Seq(Callers)
    /\ journal \in Seq(Fragments)
    /\ link \in [Callers -> {"new", "pending", "serving", "closed"}]
    /\ gone \in [Callers -> BOOLEAN]
    /\ inbox \in [Callers -> Seq(Kinds)]
    /\ taken \in [Callers -> Seq(Kinds)]
    /\ replies \in [Callers -> Seq({"ready", "done", "denied", "malformed"})]

\* Whatever a caller has been told, that a request was carried out or denied, a
\* reader of the journal finds: on a line of its own, whichever append failed
\* before and wherever the daemon was killed since.  (The record of the request
\* may share a line with the remains of another; that of its outcome never does.)
AnswersOnRecord ==
    \A c \in Callers : \A i \in 1..Len(replies[c]) :
        /\ replies[c][i] = "done"   => Record("completed", c, i) \in OnRecord
        /\ replies[c][i] = "denied" => Record("denied", c, i) \in OnRecord

\* An outcome stands in the journal after the attempt it belongs to, and an
\* attempt has at most one, across sessions and daemons.
AttemptBeforeOutcome ==
    \A i \in 1..Len(journal) :
        journal[i].event \in {"denied", "completed"} =>
            /\ \E j \in 1..(i - 1) :
                  journal[j] = Record("request", journal[i].by, journal[i].n)
            /\ \A j \in 1..(i - 1) :
                  journal[j].event \in {"denied", "completed"} =>
                      <<journal[j].by, journal[j].n>> # <<journal[i].by, journal[i].n>>

\* A request on the wire of a session is answered, malformed ones included, or
\* the session ends: no caller is left waiting by silence.
RequestAnswered ==
    \A c \in Callers : \A n \in 1..MaxRequests :
        link[c] = "serving" /\ Len(taken[c]) + Len(inbox[c]) >= n
            ~> Len(replies[c]) >= n \/ link[c] = "closed"

\* Callers are served one at a time, so a silent one holds up the rest; but if
\* the others hang up sooner or later, one that waits is accepted (or loses its
\* daemon), whatever they had sent and whichever append failed.
WaitingCallerServed ==
    \A c \in Callers :
        (\A e \in Callers \ {c} : <>(gone[e] \/ link[e] = "closed"))
            => (link[c] = "pending" ~> link[c] # "pending")

\* "a journal that loses its last entry on a crash is not an audit log"
\* (wvm-host/src/journal.rs:114-115): a record that can be read stays readable.
LastEntrySurvives == [][OnRecord \subseteq OnRecord']_journal
=============================================================================
