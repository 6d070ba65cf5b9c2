------------------------- MODULE ChunkedPush_proofs -------------------------
(***************************************************************************)
(* Proofs about ChunkedPush, for any number of pushes, paths and units.    *)
(* The control invariant relates where the host, its request and the reply *)
(* are; Homes says that every inode belongs to one path; Own says what an  *)
(* undisturbed push can rely on at each point of its course.               *)
(***************************************************************************)
EXTENDS ChunkedPush, TLAPS

Control ==
    \A p \in Pushes :
        /\ host[p] = "idle" => handler[p] = "none" /\ reply[p].kind = "none"
        /\ host[p] \in {"idle", "opening"} => sent[p] = 0
        /\ host[p] \in {"sending", "ok", "refused"} =>
              handler[p] = "none" /\ reply[p].kind = "none"
        /\ handler[p] \in {"check", "cleanup", "create", "insert"} =>
              host[p] \in {"opening", "failed"}
        /\ handler[p] = "chunk" => host[p] \in {"waiting", "failed"}
        /\ handler[p] # "none" => reply[p].kind = "none"
        /\ reply[p].kind \in {"opened", "exists"} => host[p] = "opening"
        /\ reply[p].kind \in {"written", "protocol"} => host[p] = "waiting"
        /\ host[p] = "waiting" => chunk[p].offset = sent[p]
        /\ handler[p] = "insert" => handle[p] # NoFile

Home(i) == IF i \in Paths THEN i ELSE dst[i]

Homes ==
    /\ \A a \in Paths : disk[a] # NoFile => Home(disk[a]) = a
    /\ \A a \in Paths : open[a] # Closed =>
          open[a].inode # NoFile /\ Home(open[a].inode) = a
    /\ \A p \in Pushes : handle[p] # NoFile => Home(handle[p]) = dst[p]

NoneOpen == \A a \in Paths : open[a] = Closed

\* The file of p is there and, unless a program rewrote it, holds n units of p's source.
Partway(p, n) ==
    /\ disk[dst[p]] # NoFile
    /\ ~changed[p] => data[disk[dst[p]]] = Source(p, n)

\* The transfer of p is the only one open, and its next chunk begins at n.
Standing(p, n) ==
    /\ \A a \in Paths : open[a] # Closed => a = dst[p]
    /\ open[dst[p]] = [inode |-> disk[dst[p]], expected |-> n]
    /\ Partway(p, n)

\* The transfer of p is closed after n units.
Landed(p, n) ==
    /\ open[dst[p]] = Closed
    /\ Partway(p, n)

OwnBegin(p) ==
    /\ handler[p] = "create" => NoneOpen
    /\ handler[p] = "insert" => /\ NoneOpen
                                /\ disk[dst[p]] = handle[p]
                                /\ ~changed[p] => data[handle[p]] = <<>>
    /\ reply[p].kind = "opened" => Standing(p, 0)

OwnSend(p) ==
    /\ host[p] = "sending" => Standing(p, sent[p])
    /\ host[p] = "waiting" /\ handler[p] = "chunk" => Standing(p, sent[p])
    /\ reply[p].kind = "written" =>
          LET n == sent[p] + chunk[p].len IN
          IF chunk[p].eof THEN Landed(p, n) ELSE Standing(p, n)
    /\ reply[p].kind # "protocol"
    /\ host[p] # "refused"
    /\ host[p] = "ok" => Landed(p, total[p])

OwnOf(p) == ~disturbed[p] => OwnBegin(p) /\ OwnSend(p)

Own == \A p \in Pushes : OwnOf(p)

IInv == TypeOK /\ Control /\ Homes /\ Own

-----------------------------------------------------------------------------
\* n units of a source are a sequence of n units.
LEMMA SourceIsSeq ==
    ASSUME NEW p \in Pushes, NEW n \in Nat
    PROVE  Source(p, n) \in Seq(Units) /\ Len(Source(p, n)) = n
BY DEF Source, Units

\* write_chunk's seek and write yield a sequence of units.
LEMMA WrittenIsSeq ==
    ASSUME NEW s \in Seq(Units), NEW off \in Nat, NEW p \in Pushes, NEW n \in Nat
    PROVE  Written(s, off, p, n) \in Seq(Units)
<1> DEFINE m == IF n = 0 THEN Len(s) ELSE Longer(Len(s), off + n)
<1>1. m \in Nat
  BY DEF Longer
<1>2. \A i \in 1..m : (IF off < i /\ i <= off + n THEN <<p, i>>
                       ELSE IF i <= Len(s) THEN s[i] ELSE Hole) \in Units
  <2> SUFFICES ASSUME NEW i \in 1..m
               PROVE  (IF off < i /\ i <= off + n THEN <<p, i>>
                       ELSE IF i <= Len(s) THEN s[i] ELSE Hole) \in Units
    OBVIOUS
  <2>1. <<p, i>> \in Units /\ Hole \in Units
    BY <1>1 DEF Units, Hole
  <2>2. i <= Len(s) => s[i] \in Units
    BY <1>1
  <2> QED
    BY <2>1, <2>2
<1> DEFINE f == [i \in 1..m |-> IF off < i /\ i <= off + n THEN <<p, i>>
                               ELSE IF i <= Len(s) THEN s[i] ELSE Hole]
<1>3. f \in [1..m -> Units]
  BY <1>2
<1>4. f \in Seq(Units)
  <2> HIDE DEF m, f
  <2> QED BY <1>1, <1>3
<1> QED
  BY <1>4 DEF Written, Put

\* Writing the next n units of a source where the file ends extends it.
LEMMA WrittenExtends ==
    ASSUME NEW p \in Pushes, NEW k \in Nat, NEW n \in Nat
    PROVE  Written(Source(p, k), k, p, n) = Source(p, k + n)
<1>1. Len(Source(p, k)) = k
  BY SourceIsSeq
<1>2. (IF n = 0 THEN k ELSE Longer(k, k + n)) = k + n
  BY DEF Longer
<1>3. \A i \in 1..(k + n) : (IF k < i /\ i <= k + n THEN <<p, i>>
                             ELSE IF i <= k THEN Source(p, k)[i] ELSE Hole) = <<p, i>>
  BY DEF Source
<1> QED
  BY <1>1, <1>2, <1>3 DEF Written, Put, Source

-----------------------------------------------------------------------------
(* Type correctness.                                                       *)

LEMMA InitType == Init => TypeOK
<1> SUFFICES ASSUME Init PROVE TypeOK
  OBVIOUS
<1>1. data \in [Inodes -> Seq(Units)]
  <2>1. \A i \in Paths : <<i, 1>> \in Units
    BY DEF Units
  <2>2. \A i \in Paths : Local(i) \in Seq(Units)
    <3>1. \A u \in Units : <<u>> \in Seq(Units)
      OBVIOUS
    <3> QED
      BY <2>1, <3>1 DEF Local
  <2> QED
    BY <2>2 DEF Init, Inodes
<1> QED
  BY <1>1, PushAssumption DEF Init, TypeOK, Phases, Steps, NoChunk, NoReply, Closed, Inodes

\* A handler's answer is a reply, and the handler is done.
LEMMA AnswerType ==
    ASSUME TypeOK, NEW p \in Pushes, NEW n \in Nat,
           NEW kind \in {"opened", "written", "exists", "protocol", "io"},
           Answer(p, kind, n)
    PROVE  /\ handler' \in [Pushes -> Steps]
           /\ reply' \in [Pushes -> [kind : {"none", "opened", "written", "exists",
                                             "protocol", "io"}, total : Nat]]
BY DEF TypeOK, Answer, Steps

LEMMA DisturbType ==
    ASSUME NEW q \in Pushes, Disturb(q)
    PROVE  disturbed' \in [Pushes -> BOOLEAN]
BY DEF Disturb

\* write_chunk leaves every inode with a sequence of units.
LEMMA DataType ==
    ASSUME data \in [Inodes -> Seq(Units)],
           NEW p \in Pushes, NEW i, NEW off \in Nat, NEW n \in Nat,
           data' = [data EXCEPT ![i] = Written(@, off, p, n)]
    PROVE  data' \in [Inodes -> Seq(Units)]
<1>1. \A j \in Inodes : data[j] \in Seq(Units)
  OBVIOUS
<1>2. \A j \in Inodes : Written(data[j], off, p, n) \in Seq(Units)
  BY <1>1, WrittenIsSeq
<1> QED
  BY <1>1, <1>2

LEMMA HostType ==
    ASSUME TypeOK, NEW p \in Pushes, HostNext(p)
    PROVE  TypeOK'
<1> USE PushAssumption DEF TypeOK, hostVars, guestVars, history, Phases, Steps, NoReply
<1>1. CASE Start(p)
  BY <1>1 DEF Start
<1>2. CASE Opened(p)
  BY <1>2 DEF Opened
<1>3. CASE SendChunk(p)
  <2>1. PICK now \in 0..MaxLen, n \in 0..ChunkSize :
            SendChunk(p)!2!(now, n)
    BY <1>3 DEF SendChunk
  <2> DEFINE c == [offset |-> sent[p], len |-> n, eof |-> sent[p] + n >= total[p]]
  <2>2. c \in [offset : Nat, len : Nat, eof : BOOLEAN]
    BY <2>1
  <2>3. chunk' = chunk \/ chunk' = [chunk EXCEPT ![p] = c]
    BY <2>1
  <2>4. chunk' \in [Pushes -> [offset : Nat, len : Nat, eof : BOOLEAN]]
    BY <2>2, <2>3
  <2>5. host' \in [Pushes -> Phases] /\ handler' \in [Pushes -> Steps]
    BY <2>1
  <2> QED
    BY <1>3, <2>4, <2>5 DEF SendChunk
<1>4. CASE Acknowledged(p)
  BY <1>4 DEF Acknowledged, Acknowledge
<1>5. CASE Refused(p)
  BY <1>5 DEF Refused
<1>6. CASE GiveUp(p)
  BY <1>6 DEF GiveUp
<1>7. CASE LoseRequest(p)
  BY <1>7 DEF LoseRequest
<1> QED
  BY <1>1, <1>2, <1>3, <1>4, <1>5, <1>6, <1>7 DEF HostNext

LEMMA WriteFailsType ==
    ASSUME TypeOK, NEW p \in Pushes, WriteFails(p)
    PROVE  TypeOK'
<1>1. chunk[p].offset \in Nat /\ chunk[p].len \in Nat /\ data \in [Inodes -> Seq(Units)]
  BY DEF TypeOK
<1>2. PICK a \in OpenPaths, n \in 0..chunk[p].len :
          data' = [data EXCEPT ![open[a].inode] = Written(@, chunk[p].offset, p, n)]
  BY DEF WriteFails
<1>3. n \in Nat
  BY <1>1
<1>4. data' \in [Inodes -> Seq(Units)]
  BY <1>1, <1>2, <1>3, DataType
<1>5. Answer(p, "io", 0) /\ Disturb(p)
  BY DEF WriteFails
<1> QED
  BY <1>4, <1>5, AnswerType, DisturbType DEF WriteFails, TypeOK, hostVars

LEMMA WriteChunkType ==
    ASSUME TypeOK, NEW p \in Pushes, WriteChunk(p)
    PROVE  TypeOK'
<1>1. PICK a \in OpenPaths : WriteChunk(p)!2!(a)
  BY DEF WriteChunk
<1> DEFINE now == chunk[p].offset + chunk[p].len
<1>2. /\ now \in Nat /\ a \in Paths
      /\ chunk[p].len \in Nat /\ chunk[p].offset \in Nat
      /\ data \in [Inodes -> Seq(Units)]
  BY DEF OpenPaths, TypeOK
<1>3. data' \in [Inodes -> Seq(Units)]
  BY <1>1, <1>2, DataType
<1>4. open' = [open EXCEPT ![a].expected = now] \/ open' = [open EXCEPT ![a] = Closed]
  BY <1>1
<1>5. open' \in [Paths -> [inode : Inodes \cup {NoFile}, expected : Nat]]
  <2> DEFINE Entry == [inode : Inodes \cup {NoFile}, expected : Nat]
  <2>1. open \in [Paths -> Entry]
    BY DEF TypeOK
  <2>2. [open[a] EXCEPT !.expected = now] \in Entry /\ Closed \in Entry
    BY <1>2, <2>1 DEF Closed
  <2> QED
    BY <1>2, <1>4, <2>1, <2>2
<1>6. Answer(p, "written", now) \/ Answer(p, "io", 0)
  BY <1>1
<1>7. Disturb(p)
  BY DEF WriteChunk
<1>8. /\ handler' \in [Pushes -> Steps]
      /\ reply' \in [Pushes -> [kind : {"none", "opened", "written", "exists",
                                        "protocol", "io"}, total : Nat]]
  BY <1>2, <1>6, AnswerType
<1> QED
  BY <1>3, <1>5, <1>7, <1>8, DisturbType DEF WriteChunk, TypeOK, hostVars

LEMMA GuestType ==
    ASSUME TypeOK, NEW p \in Pushes, GuestNext(p)
    PROVE  TypeOK'
<1> USE PushAssumption DEF TypeOK, hostVars, guestVars, history
<1>1. CASE BeginCheck(p)
  <2>1. CASE Answer(p, "exists", 0)
    BY <1>1, <2>1, AnswerType DEF BeginCheck
  <2>2. CASE handler' = [handler EXCEPT ![p] = "cleanup"] /\ UNCHANGED reply
    BY <1>1, <2>2 DEF BeginCheck, Steps
  <2> QED
    BY <1>1, <2>1, <2>2 DEF BeginCheck
<1>2. CASE BeginCleanup(p)
  BY <1>2, DisturbType DEF BeginCleanup, Cleanup, OpenPaths, Closed, Steps
<1>3. CASE BeginCreate(p)
  <2>1. <<>> \in Seq(Units) /\ p \in Inodes /\ dst[p] \in Paths
    BY DEF Inodes
  <2> QED
    BY <1>3, <2>1, DisturbType DEF BeginCreate, Steps
<1>4. CASE BeginInsert(p)
  <2>1. Answer(p, "opened", 0) /\ Disturb(p)
    BY <1>4 DEF BeginInsert
  <2> QED
    BY <1>4, <2>1, AnswerType, DisturbType DEF BeginInsert
<1>5. CASE BeginFails(p)
  BY <1>5, AnswerType DEF BeginFails
<1>6. CASE WriteRefused(p)
  BY <1>6, AnswerType DEF WriteRefused, RefuseChunk
<1>7. CASE WriteFails(p)
  BY <1>7, WriteFailsType
<1>8. CASE WriteChunk(p)
  BY <1>8, WriteChunkType
<1> QED
  BY <1>1, <1>2, <1>3, <1>4, <1>5, <1>6, <1>7, <1>8 DEF GuestNext

LEMMA SaveType ==
    ASSUME TypeOK, NEW a \in Paths, Save(a)
    PROVE  TypeOK'
<1>1. Local(a) \in Seq(Units)
  <2>1. <<a, 1>> \in Units
    BY DEF Units
  <2> QED
    BY <2>1 DEF Local
<1>2. a \in Inodes
  BY DEF Inodes
<1>3. data' \in [Inodes -> Seq(Units)] /\ disk' \in [Paths -> Inodes \cup {NoFile}]
  BY <1>1, <1>2 DEF Save, TypeOK
<1>4. changed' \in [Pushes -> BOOLEAN]
  BY DEF Save, TypeOK, Relies
<1> QED
  BY <1>3, <1>4 DEF Save, TypeOK, hostVars

LEMMA NextType == TypeOK /\ [Next]_vars => TypeOK'
<1>1. CASE UNCHANGED vars
  BY <1>1 DEF vars, hostVars, guestVars, history, TypeOK
<1> QED
  BY <1>1, HostType, GuestType, SaveType DEF Next

\* Every reachable state of the push protocol is well typed.
THEOREM PushTypeCorrect == Spec => []TypeOK
<1> QED
  BY InitType, NextType, PTL DEF Spec

-----------------------------------------------------------------------------
(* The inductive invariant.                                                *)

LEMMA InitIInv == Init => IInv
<1> SUFFICES ASSUME Init PROVE IInv
  OBVIOUS
<1>1. TypeOK
  BY InitType
<1>2. Control
  BY DEF Control, Init, NoReply
<1>3. Homes
  BY DEF Homes, Init, Home
<1>4. Own
  BY DEF Own, OwnOf, OwnBegin, OwnSend, Init, NoReply
<1> QED
  BY <1>1, <1>2, <1>3, <1>4 DEF IInv

LEMMA ControlHost ==
    ASSUME TypeOK, Control, NEW p \in Pushes, HostNext(p)
    PROVE  Control'
<1> USE DEF TypeOK, Control, hostVars, NoReply, Active
<1>1. CASE Start(p)
  BY <1>1 DEF Start
<1>2. CASE Opened(p)
  BY <1>2 DEF Opened
<1>3. CASE SendChunk(p)
  <2>1. host[p] = "sending" /\ handler[p] = "none" /\ reply[p].kind = "none"
    BY <1>3 DEF SendChunk
  <2>2. \A q \in Pushes \ {p} :
           /\ host'[q] = host[q] /\ handler'[q] = handler[q] /\ chunk'[q] = chunk[q]
    BY <1>3 DEF SendChunk
  <2>3. UNCHANGED <<sent, handle, reply>>
    BY <1>3 DEF SendChunk
  <2>4. \/ host'[p] = "failed" /\ handler'[p] = "none"
        \/ host'[p] = "waiting" /\ handler'[p] = "chunk" /\ chunk'[p].offset = sent[p]
    BY <1>3, <2>1 DEF SendChunk
  <2> QED
    BY <2>1, <2>2, <2>3, <2>4
<1>4. CASE Acknowledged(p)
  BY <1>4 DEF Acknowledged, Acknowledge
<1>5. CASE Refused(p)
  BY <1>5 DEF Refused
<1>6. CASE GiveUp(p)
  BY <1>6 DEF GiveUp
<1>7. CASE LoseRequest(p)
  BY <1>7 DEF LoseRequest
<1> QED
  BY <1>1, <1>2, <1>3, <1>4, <1>5, <1>6, <1>7 DEF HostNext

\* A chunk that is written is answered, and opens no transfer.
LEMMA WriteChunkOutcome ==
    ASSUME TypeOK, NEW p \in Pushes, WriteChunk(p)
    PROVE  /\ \E kind \in {"written", "io"}, n \in Nat : Answer(p, kind, n)
           /\ \A b \in Paths : open'[b] # Closed =>
                 open[b] # Closed /\ open'[b].inode = open[b].inode
<1>1. PICK a \in OpenPaths : WriteChunk(p)!2!(a)
  BY DEF WriteChunk
<1> DEFINE now == chunk[p].offset + chunk[p].len
<1>2. Answer(p, "written", now) \/ Answer(p, "io", 0)
  BY <1>1
<1>3. now \in Nat
  BY DEF TypeOK
<1>4. open' = [open EXCEPT ![a].expected = now] \/ open' = [open EXCEPT ![a] = Closed]
  BY <1>1
<1>5. ASSUME NEW b \in Paths, open'[b] # Closed
      PROVE  open[b] # Closed /\ open'[b].inode = open[b].inode
  <2>1. open[b] \in [inode : Inodes \cup {NoFile}, expected : Nat] /\ open[a] # Closed
    BY DEF TypeOK, OpenPaths
  <2>2. CASE b = a
    BY <1>4, <1>5, <2>1, <2>2 DEF TypeOK
  <2>3. CASE b # a
    BY <1>4, <1>5, <2>3 DEF TypeOK
  <2> QED
    BY <2>2, <2>3
<1> QED
  BY <1>2, <1>3, <1>5

LEMMA ControlGuest ==
    ASSUME TypeOK, Control, NEW p \in Pushes, GuestNext(p)
    PROVE  Control'
<1> USE PushAssumption DEF TypeOK, Control, hostVars, NoReply, Active, Answer
<1>1. CASE BeginCheck(p)
  BY <1>1 DEF BeginCheck
<1>2. CASE BeginCleanup(p)
  BY <1>2 DEF BeginCleanup, Cleanup
<1>3. CASE BeginCreate(p)
  BY <1>3 DEF BeginCreate, Inodes
<1>4. CASE BeginInsert(p)
  BY <1>4 DEF BeginInsert
<1>5. CASE BeginFails(p)
  BY <1>5 DEF BeginFails
<1>6. CASE WriteRefused(p)
  BY <1>6 DEF WriteRefused, RefuseChunk
<1>7. CASE WriteFails(p)
  BY <1>7 DEF WriteFails
<1>8. CASE WriteChunk(p)
  <2>1. \E kind \in {"written", "io"}, n \in Nat : Answer(p, kind, n)
    BY <1>8, WriteChunkOutcome
  <2>2. UNCHANGED <<hostVars, chunk, handle>> /\ handler[p] = "chunk"
    BY <1>8 DEF WriteChunk
  <2> QED
    BY <2>1, <2>2
<1> QED
  BY <1>1, <1>2, <1>3, <1>4, <1>5, <1>6, <1>7, <1>8 DEF GuestNext

LEMMA HomesNext ==
    ASSUME TypeOK, Homes, NEW p \in Pushes, HostNext(p) \/ GuestNext(p), Control
    PROVE  Homes'
<1>1. CASE HostNext(p) \/ BeginCheck(p) \/ BeginFails(p) \/ WriteRefused(p)
  <2>1. CASE HostNext(p)
    <3>1. UNCHANGED <<dst, disk, open, handle>>
      BY <2>1 DEF HostNext, Start, Opened, SendChunk, Acknowledged, Acknowledge, Refused,
                  GiveUp, LoseRequest, hostVars, guestVars, history
    <3> QED
      BY <3>1 DEF Homes, Home
  <2>2. CASE BeginCheck(p) \/ BeginFails(p) \/ WriteRefused(p)
    <3>1. UNCHANGED <<dst, disk, open, handle>>
      BY <2>2 DEF BeginCheck, BeginFails, WriteRefused, RefuseChunk,
                  hostVars, guestVars, history
    <3> QED
      BY <3>1 DEF Homes, Home
  <2> QED
    BY <1>1, <2>1, <2>2
<1>2. CASE BeginCleanup(p)
  <2>1. UNCHANGED <<dst, handle>>
    BY <1>2 DEF BeginCleanup, Cleanup, hostVars
  <2>2. \A a \in Paths : disk'[a] \in {disk[a], NoFile} /\ open'[a] \in {open[a], Closed}
    BY <1>2 DEF BeginCleanup, Cleanup
  <2> QED
    BY <2>1, <2>2 DEF Homes, Home
<1>3. CASE BeginCreate(p)
  <2> DEFINE inode == IF disk[dst[p]] = NoFile THEN p ELSE disk[dst[p]]
  <2>1. UNCHANGED <<dst, open>>
    BY <1>3 DEF BeginCreate, hostVars
  <2>2. \A a \in Paths : disk'[a] = IF a = dst[p] THEN inode ELSE disk[a]
    BY <1>3 DEF BeginCreate, TypeOK
  <2>3. \A q \in Pushes : handle'[q] = IF q = p THEN inode ELSE handle[q]
    BY <1>3 DEF BeginCreate, TypeOK
  <2>4. Home(inode) = dst[p]
    BY PushAssumption DEF Homes, Home, TypeOK
  <2> QED
    BY <2>1, <2>2, <2>3, <2>4 DEF Homes, Home
<1>4. CASE BeginInsert(p)
  <2>1. UNCHANGED <<dst, disk>> /\ handle[p] # NoFile
    BY <1>4 DEF BeginInsert, Control, hostVars
  <2>2. \A a \in Paths : open'[a] = IF a = dst[p]
                                   THEN [inode |-> handle[p], expected |-> 0]
                                   ELSE open[a]
    BY <1>4 DEF BeginInsert, TypeOK
  <2>3. \A q \in Pushes : handle'[q] = IF q = p THEN NoFile ELSE handle[q]
    BY <1>4 DEF BeginInsert, TypeOK
  <2> QED
    BY <2>1, <2>2, <2>3 DEF Homes, Home
<1> USE PushAssumption DEF TypeOK, Homes, Home, hostVars, guestVars, Closed
<1>5. CASE WriteFails(p)
  BY <1>5 DEF WriteFails
<1>6. CASE WriteChunk(p)
  <2>2. \A b \in Paths : open'[b] # Closed =>
            open[b] # Closed /\ open'[b].inode = open[b].inode
    BY <1>6, WriteChunkOutcome
  <2>3. UNCHANGED <<hostVars, disk, handle>>
    BY <1>6 DEF WriteChunk
  <2> QED
    BY <2>2, <2>3
<1> QED
  BY <1>1, <1>2, <1>3, <1>4, <1>5, <1>6 DEF GuestNext

-----------------------------------------------------------------------------
(* What an undisturbed push relies on: steps of other pushes.              *)

Same(q) ==
    /\ host'[q] = host[q] /\ dst'[q] = dst[q] /\ overwrite'[q] = overwrite[q]
    /\ total'[q] = total[q] /\ sent'[q] = sent[q] /\ handler'[q] = handler[q]
    /\ chunk'[q] = chunk[q] /\ handle'[q] = handle[q] /\ reply'[q] = reply[q]

LEMMA OthersSame ==
    ASSUME TypeOK, NEW p \in Pushes, NEW q \in Pushes \ {p}, HostNext(p) \/ GuestNext(p)
    PROVE  Same(q)
<1> USE DEF TypeOK, Same, hostVars, Answer
<1>1. CASE HostNext(p)
  BY <1>1 DEF HostNext, Start, Opened, SendChunk, Acknowledged, Acknowledge, Refused,
              GiveUp, LoseRequest
<1>2. CASE WriteChunk(p)
  <2>1. UNCHANGED <<hostVars, chunk, handle>>
    BY <1>2 DEF WriteChunk
  <2>2. \E kind \in {"written", "io"}, n \in Nat : Answer(p, kind, n)
    BY <1>2, WriteChunkOutcome
  <2> QED
    BY <2>1, <2>2
<1>3. CASE GuestNext(p) /\ ~WriteChunk(p)
  BY <1>3 DEF GuestNext, BeginCheck, BeginCleanup, Cleanup, BeginCreate,
              BeginInsert, BeginFails, WriteRefused, RefuseChunk, WriteFails
<1> QED
  BY <1>1, <1>2, <1>3

\* A step that leaves the guest and q alone preserves what q relies on.
LEMMA OwnFrame ==
    ASSUME NEW q \in Pushes, OwnOf(q), Same(q), UNCHANGED guestVars,
           disturbed'[q] = disturbed[q], changed'[q] = changed[q]
    PROVE  OwnOf(q)'
BY DEF OwnOf, OwnBegin, OwnSend, Same, guestVars, Standing, Landed, Partway, NoneOpen

\* No closed file but the one p names is changed.
Kept(p) ==
    \A b \in Paths \ {dst[p]} :
        open[b] = Closed /\ disk[b] # NoFile =>
            open'[b] = Closed /\ disk'[b] = disk[b] /\ data'[disk[b]] = data[disk[b]]

\* When the handler of p changes the guest, what q still relies on is a
\* completed file at another path.
LEMMA OwnOther ==
    ASSUME TypeOK, Control, NEW p \in Pushes, NEW q \in Pushes \ {p},
           OwnOf(q), Same(q), Disturb(p), Kept(p), changed' = changed
    PROVE  OwnOf(q)'
<1> SUFFICES ASSUME ~disturbed'[q]
             PROVE  (OwnBegin(q) /\ OwnSend(q))'
  BY DEF OwnOf
<1>1. /\ ~disturbed[q]
      /\ host[q] \notin Active /\ handler[q] = "none"
      /\ host[q] = "ok" => dst[q] # dst[p]
  BY DEF Disturb
<1>2. OwnSend(q)
  BY <1>1 DEF OwnOf
<1>3. reply[q].kind \in {"none", "io"}
  BY <1>1 DEF Control, TypeOK, Active
<1>4. OwnBegin(q)'
  BY <1>1, <1>3 DEF OwnBegin, Same
<1>5. host[q] = "ok" => Landed(q, total[q])'
  BY <1>1, <1>2 DEF OwnSend, Landed, Partway, Kept, Same, TypeOK
<1>6. OwnSend(q)'
  BY <1>1, <1>2, <1>3, <1>5 DEF OwnSend, Same, Active
<1> QED
  BY <1>4, <1>6

LEMMA GuestKeeps ==
    ASSUME TypeOK, Homes, NEW p \in Pushes,
           \/ BeginCleanup(p) \/ BeginCreate(p) \/ BeginInsert(p)
           \/ WriteFails(p) \/ WriteChunk(p)
    PROVE  Kept(p) /\ Disturb(p) /\ changed' = changed
<1> USE PushAssumption DEF Kept, TypeOK
<1>1. CASE BeginCleanup(p)
  BY <1>1 DEF BeginCleanup, Cleanup, OpenPaths
<1>2. CASE BeginCreate(p)
  BY <1>2 DEF BeginCreate, Homes, Home, Inodes
<1>3. CASE BeginInsert(p)
  BY <1>3 DEF BeginInsert
<1>4. CASE WriteFails(p)
  BY <1>4 DEF WriteFails, OpenPaths, Homes
<1>5. CASE WriteChunk(p)
  <2>1. PICK a \in OpenPaths :
            data' = [data EXCEPT ![open[a].inode] =
                        Written(@, chunk[p].offset, p, chunk[p].len)]
    BY <1>5 DEF WriteChunk
  <2>2. \A b \in Paths : open[b] = Closed => open'[b] = Closed
    BY <1>5, WriteChunkOutcome
  <2>3. UNCHANGED <<disk, changed>> /\ Disturb(p)
    BY <1>5 DEF WriteChunk
  <2> QED
    BY <2>1, <2>2, <2>3 DEF OpenPaths, Homes
<1> QED
  BY <1>1, <1>2, <1>3, <1>4, <1>5

-----------------------------------------------------------------------------
(* What an undisturbed push relies on: its own steps.                      *)

LEMMA OwnHost ==
    ASSUME TypeOK, Control, NEW p \in Pushes, OwnOf(p), HostNext(p)
    PROVE  OwnOf(p)'
<1> SUFFICES ASSUME ~disturbed[p], UNCHANGED <<guestVars, history>>
             PROVE  (OwnBegin(p) /\ OwnSend(p))'
  BY DEF OwnOf, history, HostNext, Start, Opened, SendChunk, Acknowledged, Acknowledge, Refused,
         GiveUp, LoseRequest
<1> USE DEF OwnOf, OwnBegin, OwnSend, Standing, Landed, Partway, NoneOpen,
            TypeOK, Control, hostVars, guestVars, history, NoReply
<1>1. CASE Start(p)
  BY <1>1 DEF Start
<1>2. CASE Opened(p)
  BY <1>2 DEF Opened
<1>3. CASE SendChunk(p)
  BY <1>3 DEF SendChunk
<1>4. CASE Acknowledged(p)
  BY <1>4 DEF Acknowledged, Acknowledge
<1>5. CASE Refused(p)
  BY <1>5 DEF Refused
<1>6. CASE GiveUp(p)
  BY <1>6 DEF GiveUp
<1>7. CASE LoseRequest(p)
  BY <1>7 DEF LoseRequest
<1> QED
  BY <1>1, <1>2, <1>3, <1>4, <1>5, <1>6, <1>7 DEF HostNext

\* While its transfer stands, a push's chunk is in sequence.
LEMMA StandingInSequence ==
    ASSUME TypeOK, NEW p \in Pushes, Standing(p, chunk[p].offset), NEW a \in Paths
    PROVE  (a \in OpenPaths => a = dst[p]) /\ InSequence(p, dst[p]) /\ dst[p] \in OpenPaths
BY DEF Standing, InSequence, OpenPaths, Partway, Closed, TypeOK

LEMMA OwnBeginSteps ==
    ASSUME TypeOK, Control, NEW p \in Pushes, OwnOf(p),
           \/ BeginCheck(p) \/ BeginCleanup(p) \/ BeginCreate(p)
           \/ BeginInsert(p) \/ BeginFails(p)
    PROVE  OwnOf(p)'
<1> SUFFICES ASSUME ~disturbed[p]
             PROVE  (OwnBegin(p) /\ OwnSend(p))'
  BY DEF OwnOf, BeginCheck, BeginCleanup, Cleanup, BeginCreate, BeginInsert,
         BeginFails, Disturb, history
<1> USE DEF OwnOf, OwnBegin, OwnSend, NoneOpen, TypeOK, Control, hostVars,
            guestVars, history, Answer, Active
<1>1. CASE BeginCheck(p)
  BY <1>1 DEF BeginCheck, Standing
<1>2. CASE BeginCleanup(p)
  BY <1>2 DEF BeginCleanup, Cleanup, OpenPaths
<1>3. CASE BeginCreate(p)
  BY <1>3 DEF BeginCreate, Inodes
<1>4. CASE BeginInsert(p)
  <2>1. Source(p, 0) = <<>>
    BY DEF Source
  <2>2. reply'[p].kind = "opened" => Standing(p, 0)'
    BY <1>4, <2>1 DEF BeginInsert, Standing, Partway
  <2> QED
    BY <1>4, <2>2 DEF BeginInsert
<1>5. CASE BeginFails(p)
  BY <1>5 DEF BeginFails
<1> QED
  BY <1>1, <1>2, <1>3, <1>4, <1>5

LEMMA OwnWriteSteps ==
    ASSUME TypeOK, Control, NEW p \in Pushes, OwnOf(p),
           WriteRefused(p) \/ WriteFails(p) \/ WriteChunk(p)
    PROVE  OwnOf(p)'
<1> SUFFICES ASSUME ~disturbed[p]
             PROVE  (OwnBegin(p) /\ OwnSend(p))'
  BY DEF OwnOf, WriteRefused, RefuseChunk, WriteFails, WriteChunk, Disturb, history
<1>1. /\ handler[p] = "chunk" /\ host[p] \in {"waiting", "failed"}
      /\ reply[p].kind = "none"
  BY DEF Control, WriteRefused, RefuseChunk, WriteFails, WriteChunk
<1>2. /\ handler' = [handler EXCEPT ![p] = "none"]
      /\ UNCHANGED <<hostVars, chunk, handle>>
  BY DEF WriteRefused, RefuseChunk, WriteFails, WriteChunk, Answer
<1>3. ASSUME host[p] = "failed"
      PROVE  (OwnBegin(p) /\ OwnSend(p))'
  <2>1. reply' = reply
    BY <1>3 DEF WriteRefused, RefuseChunk, WriteFails, WriteChunk, Answer, Active
  <2> QED
    BY <1>1, <1>2, <1>3, <2>1 DEF OwnBegin, OwnSend, hostVars, TypeOK
<1>4. ASSUME host[p] = "waiting"
      PROVE  (OwnBegin(p) /\ OwnSend(p))'
  <2>1. Standing(p, sent[p]) /\ chunk[p].offset = sent[p]
    BY <1>1, <1>4 DEF OwnOf, OwnSend, Control
  <2>2. InSequence(p, dst[p]) /\ dst[p] \in OpenPaths
    BY <2>1, StandingInSequence DEF TypeOK
  <2>3. \A a \in OpenPaths : a = dst[p]
    BY <2>1, StandingInSequence DEF OpenPaths
  <2> DEFINE n == sent[p] + chunk[p].len
  <2>4. ASSUME reply'[p].kind = "io"
        PROVE  (OwnBegin(p) /\ OwnSend(p))'
    BY <1>2, <1>4, <2>4 DEF OwnBegin, OwnSend, hostVars, TypeOK
  <2>5. ASSUME reply'[p].kind = "written",
               IF chunk[p].eof THEN Landed(p, n)' ELSE Standing(p, n)'
        PROVE  (OwnBegin(p) /\ OwnSend(p))'
    BY <1>2, <1>4, <2>5 DEF OwnBegin, OwnSend, hostVars, TypeOK
  <2>6. CASE WriteRefused(p)
    BY <2>2, <2>6 DEF WriteRefused, RefuseChunk
  <2>7. CASE WriteFails(p)
    BY <1>4, <2>4, <2>7 DEF WriteFails, Answer, Active, TypeOK
  <2>8. CASE WriteChunk(p)
    <3>1. WriteChunk(p)!2!(dst[p])
      BY <2>3, <2>8 DEF WriteChunk
    <3>2. /\ ~changed[p] => data' = [data EXCEPT ![disk[dst[p]]] = Source(p, n)]
          /\ UNCHANGED <<disk, changed>>
      <4>1. /\ open[dst[p]].inode = disk[dst[p]]
            /\ ~changed[p] => data[disk[dst[p]]] = Source(p, sent[p])
        BY <2>1 DEF Standing, Partway
      <4>2. Written(Source(p, sent[p]), sent[p], p, chunk[p].len) = Source(p, n)
        BY WrittenExtends DEF TypeOK
      <4>3. data' = [data EXCEPT ![disk[dst[p]]] =
                        Written(@, chunk[p].offset, p, chunk[p].len)]
        BY <3>1, <4>1
      <4> QED
        BY <2>1, <2>8, <4>1, <4>2, <4>3 DEF WriteChunk
    <3>3. Partway(p, n)' /\ dst[p] \in Paths
      BY <1>2, <2>1, <3>2 DEF Partway, Standing, Source, hostVars, TypeOK
    <3>4. CASE Answer(p, "io", 0)
      BY <1>4, <2>4, <3>4 DEF Answer, Active, TypeOK
    <3>5. CASE /\ ~chunk[p].eof
               /\ open' = [open EXCEPT ![dst[p]].expected = n]
               /\ Answer(p, "written", n)
      <4>1. Standing(p, n)'
        BY <1>2, <2>1, <3>2, <3>3, <3>5 DEF Standing, hostVars, TypeOK
      <4> QED
        BY <1>4, <2>5, <3>5, <4>1 DEF Answer, Active, TypeOK
    <3>6. CASE /\ chunk[p].eof
               /\ open' = [open EXCEPT ![dst[p]] = Closed]
               /\ Answer(p, "written", n)
      <4>1. Landed(p, n)'
        BY <1>2, <3>3, <3>6 DEF Landed, hostVars, TypeOK
      <4> QED
        BY <1>4, <2>5, <3>6, <4>1 DEF Answer, Active, TypeOK
    <3> QED
      BY <2>1, <3>1, <3>4, <3>5, <3>6
  <2> QED
    BY <2>6, <2>7, <2>8
<1> QED
  BY <1>1, <1>3, <1>4

-----------------------------------------------------------------------------
(* The theorems.                                                           *)

LEMMA OwnNext ==
    ASSUME IInv, NEW p \in Pushes, HostNext(p) \/ GuestNext(p), NEW q \in Pushes
    PROVE  OwnOf(q)'
<1> USE DEF IInv, Own
<1>1. CASE q = p
  BY <1>1, OwnHost, OwnBeginSteps, OwnWriteSteps DEF GuestNext
<1>2. CASE q # p
  <2>1. Same(q)
    BY <1>2, OthersSame
  <2>2. CASE HostNext(p) \/ BeginCheck(p) \/ BeginFails(p) \/ WriteRefused(p)
    <3>1. UNCHANGED guestVars /\ UNCHANGED history
      BY <2>2 DEF HostNext, Start, Opened, SendChunk, Acknowledged, Acknowledge, Refused,
                  GiveUp, LoseRequest, BeginCheck, BeginFails, WriteRefused, RefuseChunk
    <3> QED
      BY <2>1, <3>1, OwnFrame DEF history
  <2>3. CASE \/ BeginCleanup(p) \/ BeginCreate(p) \/ BeginInsert(p)
             \/ WriteFails(p) \/ WriteChunk(p)
    BY <1>2, <2>1, <2>3, GuestKeeps, OwnOther
  <2> QED
    BY <2>2, <2>3 DEF GuestNext
<1> QED
  BY <1>1, <1>2

\* What a program saves at the destination leaves the file of p in its place.
LEMMA SavePartway ==
    ASSUME TypeOK, Homes, NEW a \in Paths, Save(a), NEW p \in Pushes, Relies(p),
           NEW n \in Nat, Partway(p, n)
    PROVE  Partway(p, n)' /\ disk'[dst[p]] = disk[dst[p]]
<1> DEFINE inode == IF disk[a] = NoFile THEN a ELSE disk[a]
<1>1. /\ disk' = [disk EXCEPT ![a] = inode]
      /\ data' = [data EXCEPT ![inode] = Local(a)]
      /\ changed'[p] = (changed[p] \/ dst[p] = a)
      /\ dst' = dst
  BY DEF Save, hostVars, TypeOK
<1>2. dst[p] \in Paths /\ disk[dst[p]] # NoFile
  BY DEF Partway, TypeOK
<1>3. disk'[dst[p]] = disk[dst[p]]
  BY <1>1, <1>2 DEF TypeOK
<1>4. CASE dst[p] = a
  BY <1>1, <1>2, <1>3, <1>4 DEF Partway
<1>5. CASE dst[p] # a
  <2>1. Home(inode) = a /\ Home(disk[dst[p]]) = dst[p]
    BY <1>2 DEF Homes, Home
  <2>2. data'[disk[dst[p]]] = data[disk[dst[p]]]
    BY <1>1, <1>2, <1>5, <2>1 DEF TypeOK
  <2> QED
    BY <1>1, <1>2, <1>3, <2>2 DEF Partway, Source
<1> QED
  BY <1>4, <1>5, <1>3

LEMMA SaveStanding ==
    ASSUME TypeOK, Homes, NEW a \in Paths, Save(a), NEW p \in Pushes, Relies(p),
           NEW n \in Nat, Standing(p, n)
    PROVE  Standing(p, n)'
<1>1. Partway(p, n)' /\ disk'[dst[p]] = disk[dst[p]]
  BY SavePartway DEF Standing
<1>2. UNCHANGED <<open, dst>>
  BY DEF Save, hostVars
<1> QED
  BY <1>1, <1>2 DEF Standing

LEMMA SaveOwn ==
    ASSUME IInv, NEW a \in Paths, Save(a), NEW q \in Pushes
    PROVE  OwnOf(q)'
<1> USE DEF IInv
<1> SUFFICES ASSUME ~disturbed[q]
             PROVE  (OwnBegin(q) /\ OwnSend(q))'
  BY DEF OwnOf, Save
<1>1. OwnBegin(q) /\ OwnSend(q)
  BY DEF Own, OwnOf
<1>2. Same(q) /\ open' = open
  BY DEF Save, Same, hostVars
<1>3. /\ sent[q] \in Nat /\ total[q] \in Nat
      /\ sent[q] + chunk[q].len \in Nat
  BY DEF TypeOK
<1>4. ASSUME NEW n \in Nat, Relies(q), Landed(q, n) PROVE Landed(q, n)'
  <2>1. Partway(q, n)'
    BY <1>4, SavePartway DEF Landed
  <2> QED
    BY <1>2, <1>4, <2>1 DEF Landed, Same
<1>7. ASSUME NEW n \in Nat, Relies(q), Standing(q, n) PROVE Standing(q, n)'
  BY <1>7, SaveStanding
<1>5. OwnBegin(q)'
  <2>1. CASE handler[q] = "insert"
    <3>1. disk[dst[q]] = handle[q] /\ handle[q] # NoFile /\ dst[q] \in Paths
      BY <1>1, <2>1 DEF OwnBegin, Control, TypeOK
    <3>2. Relies(q)
      BY <2>1 DEF Relies
    <3>3. reply[q].kind = "none"
      BY <2>1 DEF Control
    <3> DEFINE inode == IF disk[a] = NoFile THEN a ELSE disk[a]
    <3>4. /\ disk' = [disk EXCEPT ![a] = inode]
          /\ data' = [data EXCEPT ![inode] = Local(a)]
          /\ changed'[q] = (changed[q] \/ dst[q] = a)
      BY <3>2 DEF Save, TypeOK
    <3>5. disk'[dst[q]] = handle[q]
      BY <3>1, <3>4 DEF TypeOK
    <3>6. ~changed'[q] => data'[handle[q]] = <<>>
      <4>1. CASE dst[q] = a
        BY <3>4, <4>1
      <4>2. CASE dst[q] # a
        <5>1. Home(inode) = a /\ Home(handle[q]) = dst[q]
          BY <3>1 DEF Homes, Home
        <5>2. handle[q] # inode
          BY <4>2, <5>1
        <5> QED
          BY <1>1, <2>1, <3>1, <3>4, <4>2, <5>2 DEF OwnBegin, TypeOK
      <4> QED
        BY <4>1, <4>2
    <3> QED
      BY <1>1, <1>2, <2>1, <3>3, <3>5, <3>6 DEF OwnBegin, Same, NoneOpen
  <2>2. CASE handler[q] # "insert"
    <3>1. reply[q].kind = "opened" => Standing(q, 0)'
      BY <1>1, SaveStanding DEF OwnBegin, Relies
    <3> QED
      BY <1>1, <1>2, <2>2, <3>1 DEF OwnBegin, Same, NoneOpen
  <2> QED
    BY <2>1, <2>2
<1>6. OwnSend(q)'
  <2>1. host[q] = "sending" => Standing(q, sent[q])'
    BY <1>1, <1>2, <1>3, <1>7 DEF OwnSend, Relies, Same, Standing, Partway
  <2>2. host[q] = "waiting" /\ handler[q] = "chunk" => Standing(q, sent[q])'
    BY <1>1, <1>2, <1>3, <1>7 DEF OwnSend, Relies, Same, Standing, Partway
  <2>3. ASSUME reply[q].kind = "written"
        PROVE  IF chunk[q].eof THEN Landed(q, sent[q] + chunk[q].len)'
                               ELSE Standing(q, sent[q] + chunk[q].len)'
    <3>1. Relies(q)
      BY <2>3 DEF Relies, Control
    <3> QED
      BY <1>1, <1>2, <1>3, <1>4, <1>7, <2>3, <3>1
         DEF OwnSend, Same, Standing, Landed, Partway
  <2>4. host[q] = "ok" => Landed(q, total[q])'
    BY <1>1, <1>2, <1>3, <1>4 DEF OwnSend, Relies, Same, Landed, Partway
  <2>5. /\ host'[q] = host[q] /\ handler'[q] = handler[q] /\ reply'[q] = reply[q]
        /\ UNCHANGED <<sent, chunk, total>>
    BY DEF Save, hostVars
  <2> QED
    BY <1>1, <2>1, <2>2, <2>3, <2>4, <2>5 DEF OwnSend, Standing, Landed, Partway
<1> QED
  BY <1>5, <1>6

LEMMA SaveIInv ==
    ASSUME IInv, NEW a \in Paths, Save(a)
    PROVE  IInv'
<1> USE DEF IInv
<1>1. Control'
  BY DEF Save, Control, hostVars
<1>2. Homes'
  BY DEF Save, Homes, Home, TypeOK, hostVars
<1>3. Own'
  BY SaveOwn DEF Own
<1> QED
  BY <1>1, <1>2, <1>3, SaveType

LEMMA IInvNext == IInv /\ [Next]_vars => IInv'
<1> SUFFICES ASSUME IInv, [Next]_vars PROVE IInv'
  OBVIOUS
<1>1. CASE UNCHANGED vars
  <2>1. TypeOK' /\ Control'
    BY <1>1 DEF vars, hostVars, guestVars, history, IInv, TypeOK, Control
  <2>2. Homes'
    BY <1>1 DEF vars, hostVars, guestVars, history, IInv, Homes, Home
  <2>3. ASSUME NEW q \in Pushes PROVE OwnOf(q)'
    BY <1>1, <2>3, OwnFrame DEF vars, hostVars, history, IInv, Own, Same, guestVars
  <2> QED
    BY <2>1, <2>2, <2>3 DEF IInv, Own
<1>2. ASSUME NEW p \in Pushes, HostNext(p) \/ GuestNext(p)
      PROVE  IInv'
  <2>1. TypeOK'
    BY <1>2, HostType, GuestType DEF IInv
  <2>2. Control'
    BY <1>2, ControlHost, ControlGuest DEF IInv
  <2>3. Homes'
    BY <1>2, HomesNext DEF IInv
  <2>4. Own'
    BY <1>2, OwnNext DEF Own
  <2> QED
    BY <2>1, <2>2, <2>3, <2>4 DEF IInv
<1> QED
  BY <1>1, <1>2, SaveIInv DEF Next

LEMMA Inductive == Spec => []IInv
<1> QED
  BY InitIInv, IInvNext, PTL DEF Spec

\* However many pushes there are and however they interleave, fail and are
\* abandoned: a push that reports success, and that no other push's handler
\* disturbed, has put its whole source at its destination, and it stays there
\* until a program rewrites it.
THEOREM PushDelivers == Spec => []Delivered
<1>1. IInv => Delivered
  BY DEF IInv, Own, OwnOf, OwnSend, Landed, Partway, Holds, Delivered
<1> QED
  BY <1>1, Inductive, PTL

\* No leftover of earlier pushes makes the guest refuse the chunks of a push
\* that is left alone.
THEOREM PushNotWedged == Spec => []RefusalMeansInterference
<1>1. IInv => RefusalMeansInterference
  BY DEF IInv, Own, OwnOf, OwnSend, RefusalMeansInterference
<1> QED
  BY <1>1, Inductive, PTL

-----------------------------------------------------------------------------
(* When pushes do not overlap, the chunked push is a file delivery.  This  *)
(* rests on two more facts about exclusive pushes: one at a time is in     *)
(* progress, at the host or in the guest, and it has not been disturbed.   *)
(* From these it also follows that the guest confirms whole files only.    *)

Busy(p) == host[p] \in Active \/ handler[p] # "none"

OneAtATime ==
    /\ \A p, q \in Pushes : Busy(p) /\ Busy(q) => p = q
    /\ \A p \in Pushes : host[p] \in Active \cup {"idle"} => ~disturbed[p]

XInv == IInv /\ OneAtATime

-----------------------------------------------------------------------------
(* One push at a time.                                                     *)

LEMMA HostAlone ==
    ASSUME Exclusive, XInv, NEW p \in Pushes, HostNext(p)
    PROVE  OneAtATime'
<1> USE DEF XInv, IInv, TypeOK
<1>1. disturbed' = disturbed
  BY DEF history, HostNext, Start, Opened, SendChunk, Acknowledged, Acknowledge, Refused, GiveUp,
         LoseRequest
<1>2. \A q \in Pushes \ {p} : host'[q] = host[q] /\ handler'[q] = handler[q]
  BY OthersSame DEF Same
<1>3. CASE Start(p)
  <2>1. \A q \in Pushes : ~Busy(q)
    BY <1>3 DEF Start, Busy
  <2>2. host[p] = "idle"
    BY <1>3 DEF Start
  <2> QED
    BY <1>1, <1>2, <2>1, <2>2 DEF OneAtATime, Busy
<1>4. CASE ~Start(p)
  <2>1. host'[p] \in Active => host[p] \in Active
    BY <1>4 DEF HostNext, Opened, SendChunk, Acknowledged, Acknowledge, Refused, GiveUp,
                LoseRequest, hostVars, Active
  <2>2. Busy(p)' => Busy(p)
    BY <1>4 DEF HostNext, Opened, SendChunk, Acknowledged, Acknowledge, Refused, GiveUp,
                LoseRequest, hostVars, Active, Busy
  <2>3. host'[p] # "idle" \/ host[p] = "idle"
    BY <1>4 DEF HostNext, Opened, SendChunk, Acknowledged, Acknowledge, Refused, GiveUp,
                LoseRequest, hostVars
  <2> QED
    BY <1>1, <1>2, <2>1, <2>2, <2>3 DEF OneAtATime, Busy
<1> QED
  BY <1>3, <1>4

\* What a guest's step does to the histories.
LEMMA GuestDisturbs ==
    ASSUME TypeOK, NEW p \in Pushes, GuestNext(p)
    PROVE  /\ UNCHANGED hostVars /\ handler[p] # "none"
           /\ changed' = changed
           /\ \/ UNCHANGED <<guestVars, disturbed>>
              \/ Disturb(p)
<1>1. CASE BeginCheck(p) \/ BeginFails(p) \/ WriteRefused(p)
  BY <1>1 DEF BeginCheck, BeginFails, WriteRefused, RefuseChunk, history
<1>2. CASE BeginCleanup(p) \/ BeginCreate(p) \/ BeginInsert(p)
  BY <1>2 DEF BeginCleanup, Cleanup, BeginCreate, BeginInsert
<1>3. CASE WriteFails(p) \/ WriteChunk(p)
  BY <1>3 DEF WriteFails, WriteChunk
<1> QED
  BY <1>1, <1>2, <1>3 DEF GuestNext

LEMMA GuestAlone ==
    ASSUME XInv, NEW p \in Pushes, GuestNext(p)
    PROVE  OneAtATime'
<1> USE DEF XInv, IInv
<1>1. Busy(p) /\ host' = host
  BY GuestDisturbs DEF Busy, hostVars
<1>2. \A q \in Pushes \ {p} : handler'[q] = handler[q]
  BY OthersSame DEF Same
<1>3. \A q \in Pushes : Busy(q)' => Busy(q)
  BY <1>1, <1>2 DEF Busy
<1>4. ASSUME NEW q \in Pushes, host[q] \in Active \cup {"idle"}
      PROVE  ~disturbed'[q]
  <2>1. ~disturbed[q]
    BY <1>4 DEF OneAtATime
  <2>2. q = p \/ (~Busy(q) /\ host[q] = "idle")
    BY <1>1, <1>4 DEF OneAtATime, Busy
  <2>3. CASE Disturb(p)
    BY <2>1, <2>2, <2>3 DEF Disturb, Busy
  <2>4. CASE UNCHANGED disturbed
    BY <2>1, <2>4
  <2> QED
    BY <2>3, <2>4, GuestDisturbs
<1> QED
  BY <1>1, <1>3, <1>4 DEF OneAtATime

LEMMA XInvariant == ASSUME Exclusive PROVE Spec => []XInv
<1>1. Init => OneAtATime
  BY DEF Init, OneAtATime, Busy, Active
<1>2. OneAtATime /\ IInv /\ [Next]_vars => OneAtATime'
  <2> SUFFICES ASSUME OneAtATime, IInv, [Next]_vars PROVE OneAtATime'
    OBVIOUS
  <2>1. CASE UNCHANGED vars
    BY <2>1 DEF vars, hostVars, history, OneAtATime, Busy
  <2>2. ASSUME NEW p \in Pushes, HostNext(p) \/ GuestNext(p)
        PROVE  OneAtATime'
    BY <2>2, HostAlone, GuestAlone DEF XInv
  <2>3. ASSUME NEW a \in Paths, Save(a)
        PROVE  OneAtATime'
    BY <2>3 DEF Save, OneAtATime, Busy, hostVars
  <2> QED
    BY <2>1, <2>2, <2>3 DEF Next
<1> QED
  BY <1>1, <1>2, Inductive, PTL DEF Spec, XInv

-----------------------------------------------------------------------------
(* Every step is a step of a file delivery, or none.                       *)

Wants == [p \in Pushes |-> Source(p, total[p])]
Reports == [p \in Pushes |-> Report(p)]
Store == [a \in Paths |-> IF disk[a] = NoFile THEN NoFile ELSE data[disk[a]]]
Promised == {dst[p] : p \in {q \in Pushes :
                                 host[q] = "ok" /\ ~disturbed[q] /\ ~changed[q]}}
Touched == {p \in Pushes : changed[p]}

\* The guest works on the path of p: what is promised elsewhere stays.
LEMMA GuestWorks ==
    ASSUME XInv, XInv', NEW p \in Pushes, GuestNext(p)
    PROVE  Delivery!Work(p)
<1> USE DEF XInv, IInv
<1>1. UNCHANGED hostVars /\ handler[p] # "none"
  BY GuestDisturbs
<1>2. Report(p) \in {"running", "failed"}
  BY <1>1 DEF Control, TypeOK, Phases, Steps, Report, Active
<1>3. UNCHANGED <<dst, Wants, Reports>>
  BY <1>1 DEF hostVars, Wants, Source, Reports, Report
<1>4. Promised' \in {Promised, Promised \ {dst[p]}}
  <2>1. CASE UNCHANGED disturbed
    BY <1>1, <2>1, GuestDisturbs DEF hostVars, Promised
  <2>2. CASE Disturb(p)
    <3>1. ASSUME NEW q \in Pushes, host[q] = "ok"
          PROVE  ~disturbed'[q] <=> ~disturbed[q] /\ dst[q] # dst[p]
      <4>1. q # p /\ handler[q] = "none"
        BY <1>1, <3>1 DEF Control
      <4> QED
        BY <2>2, <3>1, <4>1 DEF Disturb, Active
    <3>2. Promised' = Promised \ {dst[p]}
      BY <1>1, <3>1, GuestDisturbs DEF Promised, hostVars
    <3> QED
      BY <3>2
  <2> QED
    BY <2>1, <2>2, GuestDisturbs
<1>5. ASSUME NEW a \in Promised' PROVE Store'[a] = Store[a]
  <2>1. PICK q \in Pushes :
            a = dst[q] /\ host[q] = "ok" /\ ~disturbed'[q] /\ ~changed[q] /\ ~changed'[q]
    BY <1>1, GuestDisturbs DEF Promised, hostVars
  <2>2. ~disturbed[q]
    BY <2>1, GuestDisturbs DEF Disturb, TypeOK
  <2>3. Holds(a, Source(q, total[q])) /\ Holds(a, Source(q, total[q]))'
    BY <1>1, <2>1, <2>2 DEF Own, OwnOf, OwnSend, Landed, Partway, hostVars, Holds
  <2>4. a \in Paths
    BY <2>1 DEF TypeOK
  <2> QED
    BY <1>1, <2>3, <2>4 DEF Holds, Store, hostVars, Source
<1>6. Touched' = Touched
  BY GuestDisturbs DEF Touched
<1> QED
  BY <1>2, <1>3, <1>4, <1>5, <1>6
     DEF Delivery!Work, Wants, Reports, Store, Promised, Touched

\* A program's file takes the place of what was promised there, and of nothing else.
LEMMA SaveRewrites ==
    ASSUME XInv, NEW a \in Paths, Save(a)
    PROVE  Delivery!Rewrite(a)
<1> USE DEF XInv, IInv
<1> DEFINE inode == IF disk[a] = NoFile THEN a ELSE disk[a]
<1>1. /\ disk' = [disk EXCEPT ![a] = inode]
      /\ data' = [data EXCEPT ![inode] = Local(a)]
      /\ UNCHANGED <<hostVars, handler, reply, disturbed>>
      /\ \A p \in Pushes : changed'[p] = (changed[p] \/ (dst[p] = a /\ Relies(p)))
  BY DEF Save, TypeOK
<1>2. UNCHANGED <<dst, Wants, Reports>>
  BY <1>1 DEF hostVars, Wants, Source, Reports, Report
<1>3. ASSUME NEW b \in Paths \ {a} PROVE Store'[b] = Store[b]
  <2>1. disk'[b] = disk[b]
    BY <1>1 DEF TypeOK
  <2>2. CASE disk[b] = NoFile
    BY <2>1, <2>2 DEF Store
  <2>3. CASE disk[b] # NoFile
    <3>1. Home(inode) = a /\ Home(disk[b]) = b
      BY <2>3 DEF Homes, Home
    <3>2. data'[disk[b]] = data[disk[b]]
      BY <1>1, <2>3, <3>1 DEF TypeOK
    <3> QED
      BY <2>1, <3>2 DEF Store
  <2> QED
    BY <2>2, <2>3
<1>4. Promised' = Promised \ {a}
  BY <1>1 DEF Promised, Relies, hostVars
<1>5. Touched \subseteq Touched'
  BY <1>1 DEF Touched
<1>6. ASSUME NEW p \in Touched' \ Touched PROVE dst[p] = a /\ Reports[p] # "pending"
  <2>1. p \in Pushes /\ dst[p] = a /\ Relies(p)
    BY <1>1 DEF Touched
  <2>2. host[p] # "idle"
    BY <2>1 DEF Relies, Control
  <2> QED
    BY <2>1, <2>2 DEF Reports, Report, Active
<1> QED
  BY <1>2, <1>3, <1>4, <1>5, <1>6
     DEF Delivery!Rewrite, Wants, Reports, Store, Promised, Touched

LEMMA HostDelivers ==
    ASSUME XInv, XInv', NEW p \in Pushes, HostNext(p)
    PROVE  [Delivery!Next]_(Delivery!vars)
<1> USE DEF XInv, IInv
<1>1. UNCHANGED <<dst, guestVars, disturbed, changed, Touched>>
  BY DEF history, Touched, HostNext, Start, Opened, SendChunk, Acknowledged, Acknowledge, Refused, GiveUp,
         LoseRequest, hostVars
<1>2. Store' = Store
  BY <1>1 DEF guestVars, Store
<1>3. \A q \in Pushes \ {p} : /\ host'[q] = host[q] /\ total'[q] = total[q]
  BY OthersSame DEF Same
<1>4. \A q \in Pushes \ {p} : Reports'[q] = Reports[q] /\ Wants'[q] = Wants[q]
  BY <1>3 DEF Reports, Report, Wants, Source
<1>5. /\ Reports' = [Reports EXCEPT ![p] = Report(p)']
      /\ total'[p] = total[p] => Wants' = Wants
  BY <1>4 DEF Reports, Wants, Source
<1>6. host'[p] # "ok" /\ host[p] # "ok" => Promised' = Promised
  BY <1>1, <1>3 DEF Promised
<1>7. CASE Start(p)
  <2>1. Report(p) = "pending" /\ Report(p)' = "running" /\ Promised' = Promised
    BY <1>6, <1>7 DEF Start, Report, Active, TypeOK
  <2> QED
    BY <1>1, <1>2, <1>4, <1>5, <2>1
       DEF Delivery!Next, Delivery!Begin, Wants, Reports, Store, Promised, Touched
<1>8. CASE ~Start(p)
  <2>1. Wants' = Wants
    BY <1>5, <1>8 DEF HostNext, Opened, SendChunk, Acknowledged, Acknowledge, Refused, GiveUp,
                      LoseRequest, hostVars
  <2>2. /\ host[p] = host'[p] \/ host[p] \in Active
        /\ host'[p] \in {host[p], "ok", "failed", "refused"} \cup Active
    BY <1>8 DEF HostNext, Opened, SendChunk, Acknowledged, Acknowledge, Refused, GiveUp,
                LoseRequest, hostVars, Active, TypeOK
  <2>3. CASE host'[p] = host[p] \/ (host[p] \in Active /\ host'[p] \in Active)
    <3>1. Reports' = Reports
      BY <1>5, <2>3 DEF Reports, Report, Active
    <3>2. Promised' = Promised
      BY <1>1, <1>3, <2>3 DEF Promised, Active
    <3> QED
      BY <1>1, <1>2, <2>1, <3>1, <3>2 DEF Delivery!vars, Wants, Reports, Store, Promised, Touched
  <2>4. CASE host[p] \in Active /\ host'[p] \in {"failed", "refused"}
    <3>1. Report(p) = "running" /\ Report(p)' = "failed" /\ Promised' = Promised
      BY <1>6, <2>4 DEF Report, Active
    <3> QED
      BY <1>1, <1>2, <1>5, <2>1, <3>1
         DEF Delivery!Next, Delivery!Fail, Wants, Reports, Store, Promised, Touched
  <2>5. CASE host[p] \in Active /\ host'[p] = "ok"
    <3>1. Report(p) = "running" /\ Report(p)' = "ok"
      BY <2>5 DEF Report, Active
    <3>2. ~disturbed[p]
      BY <2>5 DEF OneAtATime
    <3>3. CASE changed[p]
      <4>1. Promised' = Promised /\ p \in Touched
        BY <1>1, <1>3, <2>5, <3>3 DEF Promised, Touched, Active
      <4> QED
        BY <1>1, <1>2, <1>5, <2>1, <3>1, <4>1
           DEF Delivery!Next, Delivery!Succeed, Wants, Reports, Store, Promised, Touched
    <3>4. CASE ~changed[p]
      <4>1. Promised' = Promised \cup {dst[p]} /\ p \notin Touched
        BY <1>1, <1>3, <2>5, <3>2, <3>4 DEF Promised, Touched, Active
      <4>2. Holds(dst[p], Source(p, total[p]))'
        BY <1>1, <2>5, <3>2, <3>4 DEF Own, OwnOf, OwnSend, Landed, Partway, Holds
      <4>3. Store[dst[p]] = Wants[p]
        BY <1>1, <1>2, <2>1, <4>2 DEF Holds, Store, Wants, TypeOK
      <4> QED
        BY <1>1, <1>2, <1>5, <2>1, <3>1, <4>1, <4>3
           DEF Delivery!Next, Delivery!Succeed, Wants, Reports, Store, Promised, Touched
    <3> QED
      BY <3>3, <3>4
  <2> QED
    BY <2>2, <2>3, <2>4, <2>5
<1> QED
  BY <1>7, <1>8

\* When a push starts only after every earlier one has ended, its chunks, handlers and
\* lost requests cannot be told from one delivery of a whole file: success promises the
\* file, and no later transfer to another path takes the promise back.
THEOREM PushImplementsDelivery == ASSUME Exclusive PROVE Spec => ImplementsDelivery
<1>1. Init => Delivery!Init
  <2> SUFFICES ASSUME Init PROVE Delivery!Init
    OBVIOUS
  <2>1. Reports = [p \in Pushes |-> "pending"] /\ dst \in [Pushes -> Paths]
    BY DEF Init, Reports, Report, Active
  <2>2. Promised = {} /\ Touched = {}
    BY DEF Init, Promised, Touched
  <2> QED
    BY <2>1, <2>2 DEF Delivery!Init, Reports, Promised, Touched
<1>2. XInv /\ XInv' /\ [Next]_vars => [Delivery!Next]_(Delivery!vars)
  <2> SUFFICES ASSUME XInv, XInv', [Next]_vars
               PROVE  [Delivery!Next]_(Delivery!vars)
    OBVIOUS
  <2>1. CASE UNCHANGED vars
    BY <2>1 DEF vars, hostVars, guestVars, history, Delivery!vars, Source, Report
  <2>2. ASSUME NEW p \in Pushes, HostNext(p)
        PROVE  [Delivery!Next]_(Delivery!vars)
    BY <2>2, HostDelivers
  <2>3. ASSUME NEW p \in Pushes, GuestNext(p)
        PROVE  [Delivery!Next]_(Delivery!vars)
    BY <2>3, GuestWorks DEF Delivery!Next
  <2>4. ASSUME NEW a \in Paths, Save(a)
        PROVE  [Delivery!Next]_(Delivery!vars)
    BY <2>4, SaveRewrites DEF Delivery!Next
  <2> QED
    BY <2>1, <2>2, <2>3, <2>4 DEF Next
<1> QED
  BY <1>1, <1>2, XInvariant, PTL DEF Spec, ImplementsDelivery, Delivery!Spec
-----------------------------------------------------------------------------
(* What is confirmed, also to nobody.                                      *)

\* A chunk that is under way finds the file as far as its offset, whether its
\* host still waits for it or has given up.
ChunksStand == \A p \in Pushes : handler[p] = "chunk" => Standing(p, chunk[p].offset)

LEMMA ChunksKeep ==
    ASSUME XInv, ChunksStand, NEW p \in Pushes, HostNext(p) \/ GuestNext(p)
    PROVE  ChunksStand'
<1> USE DEF XInv, IInv
<1> SUFFICES ASSUME NEW q \in Pushes, handler'[q] = "chunk"
             PROVE  Standing(q, chunk[q].offset)'
  BY DEF ChunksStand
<1>1. CASE q # p
  <2>1. handler[q] = "chunk" /\ chunk'[q] = chunk[q] /\ dst'[q] = dst[q]
    BY <1>1, OthersSame DEF Same
  <2>2. ~GuestNext(p)
    BY <1>1, <2>1, GuestDisturbs DEF OneAtATime, Busy
  <2>3. UNCHANGED <<guestVars, history>>
    BY <2>2 DEF HostNext, Start, Opened, SendChunk, Acknowledged, Acknowledge, Refused,
                GiveUp, LoseRequest
  <2> QED
    BY <2>1, <2>3 DEF ChunksStand, Standing, Partway, Source, guestVars, history
<1>2. CASE q = p
  <2>1. ~GuestNext(p)
    BY <1>2 DEF GuestNext, BeginCheck, BeginCleanup, Cleanup, BeginCreate, BeginInsert,
                BeginFails, WriteRefused, RefuseChunk, WriteFails, WriteChunk, Answer, TypeOK
  <2>2. UNCHANGED <<dst, guestVars, history>>
    BY <2>1 DEF HostNext, Start, Opened, SendChunk, Acknowledged, Acknowledge, Refused,
                GiveUp, LoseRequest, hostVars
  <2>3. CASE SendChunk(p)
    <3>1. Standing(p, sent[p]) /\ handler[p] = "none"
      BY <2>3 DEF SendChunk, OneAtATime, Active, Own, OwnOf, OwnSend, Control
    <3>2. chunk'[p].offset = sent[p]
      BY <1>2, <2>3, <3>1 DEF SendChunk, TypeOK
    <3> QED
      BY <1>2, <2>2, <3>1, <3>2 DEF Standing, Partway, Source, guestVars, history
  <2>4. CASE ~SendChunk(p)
    <3>1. handler[p] = "chunk" /\ chunk' = chunk
      BY <1>2, <2>1, <2>4 DEF HostNext, Start, Opened, Acknowledged, Acknowledge, Refused,
                              GiveUp, LoseRequest, TypeOK, hostVars
    <3> QED
      BY <1>2, <2>2, <3>1 DEF ChunksStand, Standing, Partway, Source, guestVars, history
  <2> QED
    BY <2>3, <2>4
<1> QED
  BY <1>1, <1>2

LEMMA ChunksInvariant == ASSUME Exclusive PROVE Spec => []ChunksStand
<1>1. Init => ChunksStand
  BY DEF Init, ChunksStand
<1>2. XInv /\ ChunksStand /\ [Next]_vars => ChunksStand'
  <2> SUFFICES ASSUME XInv, ChunksStand, [Next]_vars PROVE ChunksStand'
    OBVIOUS
  <2>1. CASE UNCHANGED vars
    BY <2>1 DEF vars, hostVars, guestVars, history, ChunksStand, Standing, Partway, Source
  <2>2. ASSUME NEW a \in Paths, Save(a)
        PROVE  ChunksStand'
    <3>1. ASSUME NEW q \in Pushes, handler[q] = "chunk"
          PROVE  Standing(q, chunk[q].offset)'
      <4>1. Relies(q) /\ chunk[q].offset \in Nat
        BY <3>1 DEF Relies, XInv, IInv, TypeOK
      <4>2. Standing(q, chunk[q].offset) /\ chunk' = chunk
        BY <2>2, <3>1 DEF ChunksStand, Save
      <4> DEFINE k == chunk[q].offset
      <4>3. Standing(q, k)'
        <5> SUFFICES ASSUME NEW n \in Nat, n = k PROVE Standing(q, n)'
          BY <4>1, <4>2 DEF Standing, Partway
        <5> QED
          BY <2>2, <4>1, <4>2, SaveStanding DEF XInv, IInv
      <4> QED
        BY <4>3
    <3> QED
      BY <2>2, <3>1 DEF ChunksStand, Save
  <2> QED
    BY <2>1, <2>2, ChunksKeep DEF Next
<1> QED
  BY <1>1, <1>2, XInvariant, PTL DEF Spec

\* With one push at a time, what the guest confirms is a whole file, even when the host
\* that sent its last chunk has given up waiting.
THEOREM PushConfirmsWholeFiles == ASSUME Exclusive PROVE Spec => ConfirmedFileIsWhole
<1>1. ASSUME XInv, ChunksStand, Next, NEW a \in Paths, NEW p \in Pushes,
             handler[p] = "chunk", handler'[p] = "none", open[a] # Closed, open'[a] = Closed,
             ~changed[p]
      PROVE  Holds(a, Source(p, Len(data[disk[a]])))'
  <2> USE DEF XInv, IInv
  <2>1. WriteChunk(p)
    <3>1. PICK q \in Pushes : HostNext(q) \/ GuestNext(q)
      BY <1>1 DEF Next, Save
    <3>2. q = p
      BY <1>1, <3>1, OthersSame DEF Same
    <3>3. ~HostNext(p)
      BY <1>1 DEF HostNext, Start, Opened, SendChunk, Acknowledged, Acknowledge, Refused,
                  GiveUp, LoseRequest, guestVars
    <3> QED
      BY <1>1, <3>1, <3>2, <3>3
         DEF GuestNext, BeginCheck, BeginCleanup, Cleanup, BeginCreate, BeginInsert,
             BeginFails, WriteRefused, RefuseChunk, WriteFails, guestVars
  <2> DEFINE k == chunk[p].offset
             n == chunk[p].len
  <2>2. Standing(p, k) /\ k \in Nat /\ n \in Nat
    BY <1>1 DEF ChunksStand, TypeOK
  <2>3. a = dst[p]
    BY <1>1, <2>2 DEF Standing
  <2>4. data' = [data EXCEPT ![disk[a]] = Written(@, k, p, n)] /\ disk' = disk
    <3>1. PICK b \in OpenPaths : WriteChunk(p)!2!(b)
      BY <2>1 DEF WriteChunk
    <3>2. b = a
      BY <2>2, <2>3 DEF Standing, OpenPaths
    <3>3. open[a].inode = disk[a]
      BY <2>2, <2>3 DEF Standing
    <3>4. disk' = disk
      BY <2>1 DEF WriteChunk
    <3> QED
      BY <3>1, <3>2, <3>3, <3>4
  <2>5. disk[a] \in Inodes /\ disk[a] # NoFile /\ data[disk[a]] = Source(p, k)
    BY <1>1, <2>2, <2>3 DEF Standing, Partway, TypeOK
  <2>6. data'[disk'[a]] = Source(p, k + n)
    BY <1>1, <2>2, <2>4, <2>5, WrittenExtends DEF TypeOK
  <2>7. Len(data'[disk'[a]]) = k + n
    BY <2>2, <2>6, SourceIsSeq
  <2>8. disk'[a] # NoFile /\ data'[disk'[a]] = Source(p, Len(data'[disk'[a]]))
    BY <2>4, <2>5, <2>6, <2>7
  <2> QED
    BY <2>8 DEF Holds, Source
<1>2. XInv /\ ChunksStand /\ [Next]_vars => [ConfirmsWhole]_vars
  BY <1>1 DEF ConfirmsWhole
<1> QED
  BY <1>2, XInvariant, ChunksInvariant, PTL DEF Spec, ConfirmedFileIsWhole
=============================================================================
