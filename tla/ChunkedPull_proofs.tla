------------------------- MODULE ChunkedPull_proofs -------------------------
(***************************************************************************)
(* Proofs about ChunkedPull, for any number of pulls, sources, names and   *)
(* units.  Control relates where the host, its request and the reply are;  *)
(* Homes keeps pulls of different stems apart, and Apart the files that    *)
(* are written to from those at the destinations; Accounted says why a     *)
(* source is open; Own says what a pull that nobody disturbed can rely on  *)
(* at each point of its course.                                            *)
(***************************************************************************)
EXTENDS ChunkedPull, TLAPS

\* How the places of the host, of the guest's handler and of the reply fit.
Control ==
    \A p \in Pulls :
        /\ host[p] \notin {"opening", "waiting"} => reply[p].kind = "none"
        /\ host[p] \in {"idle", "asking", "renaming", "ok"} => handler[p] = "none"
        /\ handler[p] = "begin" => host[p] \in {"opening", "failed", "refused"}
        /\ handler[p] \in {"select", "read"} => host[p] \in {"waiting", "failed", "refused"}
        /\ handler[p] # "none" => reply[p].kind = "none"
        /\ reply[p].kind = "opened" => host[p] = "opening"
        /\ reply[p].kind = "read" => host[p] = "waiting"
        /\ handler[p] = "read" => picked[p] \in Sources
        /\ host[p] \in {"asking", "waiting", "renaming", "ok"} => handle[p] # NoFile
        /\ host[p] \in {"idle", "opening"} => got[p] = 0

\* Every inode belongs to one stem, in the directory and in the handles: no
\* pull reaches a file of another stem.
Stem(i) == IF i \in Pulls THEN dst[i][1] ELSE i[1]

Homes ==
    /\ \A n \in Names : dir[n] # NoFile => Stem(dir[n]) = n[1]
    /\ \A p \in Pulls : handle[p] # NoFile => Stem(handle[p]) = dst[p][1]

\* Pull p is the reason why its source may still be open: it has not been told
\* of the end, and its handler has not chosen another file to read.
Responsible(p) ==
    \/ host[p] \in {"failed", "refused"}
    \/ /\ host[p] \in {"opening", "asking", "waiting"}
       /\ ~(reply[p].kind = "read" /\ reply[p].eof)
       /\ ~(handler[p] = "read" /\ picked[p] # src[p])

Accounted ==
    \A s \in OpenSources : \E p \in Pulls : src[p] = s /\ Responsible(p)

\* A file has one name, one that a program saved is at the destination it was
\* saved under, and an undisturbed pull writes to the file that has its
\* temporary name.
Apart ==
    /\ \A m, n \in Names : dir[m] # NoFile /\ dir[m] = dir[n] => m = n
    /\ \A n \in Names : dir[n] \in Names => dir[n] = n /\ n \in Dests
    /\ \A n \in Names, p \in Pulls : dir[n] = p => host[p] \notin {"idle", "opening"}
    /\ \A p \in Pulls : ~disturbed[p] /\ host[p] \in {"asking", "waiting"}
           => dir[Temp(dst[p])] = handle[p]

\* The first n units of version v of a source.
Prefix(s, v, n) == [i \in 1..n |-> <<s, v, i>>]

\* The n units that follow the first k.
Segment(s, v, k, n) == [i \in 1..n |-> <<s, v, k + i>>]

\* The temporary file of p is its own and holds what p has received.
Partially(p) ==
    /\ dir[Temp(dst[p])] = handle[p]
    /\ data[handle[p]] = Prefix(src[p], file[src[p]].version, got[p])
    /\ total[p] = file[src[p]].len
    /\ got[p] <= total[p]

\* The guest still serves the source of p, as it was opened.
Served(p) == open[src[p]] = file[src[p]].len

\* The reply continues what p has received.
Continues(p) ==
    LET n == Len(reply[p].units) IN
    /\ reply[p].offset = got[p] /\ reply[p].total = total[p]
    /\ got[p] + n <= total[p]
    /\ reply[p].units = Segment(src[p], file[src[p]].version, got[p], n)
    /\ IF reply[p].eof THEN got[p] + n = total[p] ELSE Served(p)

OwnOf(p) ==
    ~disturbed[p] /\ ~changed[p] =>
        /\ reply[p].kind = "opened" => Served(p) /\ reply[p].total = file[src[p]].len
        /\ host[p] = "asking" => Partially(p) /\ Served(p)
        /\ host[p] = "waiting" =>
              /\ Partially(p)
              /\ handler[p] # "none" => Served(p)
              /\ handler[p] = "read" => picked[p] = src[p]
              /\ reply[p].kind = "read" => Continues(p)
        /\ host[p] = "renaming" => Partially(p) /\ got[p] = total[p]
        /\ host[p] = "ok" =>
              /\ dir[dst[p]] = handle[p]
              /\ \E v \in 0..MaxVersion : data[handle[p]] = Prefix(src[p], v, total[p])

Own == \A p \in Pulls : OwnOf(p)

IInv == TypeOK /\ Control /\ Homes /\ Apart /\ Accounted /\ Own

HostStep(p) ==
    Start(p) \/ Opened(p) \/ Ask(p) \/ Receive(p) \/ Rename(p) \/ Fail(p)

GuestStep(p) ==
    BeginSource(p) \/ Select(p) \/ Refused(p) \/ ReadChunk(p) \/ GuestError(p)

-----------------------------------------------------------------------------
(* Sequences of units.                                                     *)

LEMMA PrefixIsSeq ==
    ASSUME NEW s \in Sources, NEW v \in 0..MaxVersion, NEW n \in Nat
    PROVE  Prefix(s, v, n) \in Seq(Units) /\ Len(Prefix(s, v, n)) = n
BY DEF Prefix, Units

LEMMA EmptyPrefix ==
    ASSUME NEW s, NEW v
    PROVE  Prefix(s, v, 0) = <<>>
BY DEF Prefix

\* What is read from position k to position m of a file of n units.
Part(s, v, n, k, m) == SubSeq(Prefix(s, v, n), k + 1, m)

LEMMA PartOfPrefix ==
    ASSUME NEW s \in Sources, NEW v \in 0..MaxVersion, NEW n \in Nat,
           NEW k \in Nat, NEW m \in Nat, k <= m, m <= n
    PROVE  /\ Len(Part(s, v, n, k, m)) = m - k
           /\ Part(s, v, n, k, m) = Segment(s, v, k, m - k)
<1> DEFINE part == SubSeq(Prefix(s, v, n), k + 1, m)
<1>1. Prefix(s, v, n) \in Seq(Units) /\ Len(Prefix(s, v, n)) = n
  BY PrefixIsSeq
<1>2. \A i \in 1..(m - k) : Prefix(s, v, n)[k + i] = <<s, v, k + i>>
  BY DEF Prefix
<1>3. part \in Seq(Units) /\ Len(part) = m - k
  BY <1>1
<1>4. \A i \in 1..(m - k) : part[i] = Prefix(s, v, n)[k + i]
  BY <1>1
<1>5. part = [i \in 1..(m - k) |-> part[i]]
  BY <1>3
<1> QED
  BY <1>2, <1>3, <1>4, <1>5 DEF Part, Segment

LEMMA SubSeqIsSeq ==
    ASSUME NEW s \in Seq(Units), NEW k \in Nat, NEW m \in Nat, m <= Len(s)
    PROVE  SubSeq(s, k + 1, m) \in Seq(Units)
OBVIOUS

LEMMA HoleIsUnit == Hole \in Units
BY PullAssumption DEF Hole, Units

\* write_all yields a sequence of units.
LEMMA WrittenIsSeq ==
    ASSUME NEW s \in Seq(Units), NEW off \in Nat, NEW units \in Seq(Units)
    PROVE  WrittenAt(s, off, units) \in Seq(Units)
<1> DEFINE m == IF units = <<>> THEN Len(s) ELSE Longer(Len(s), off + Len(units))
<1>1. m \in Nat
  BY DEF Longer
<1> DEFINE u(i) == IF off < i /\ i <= off + Len(units) THEN units[i - off]
                   ELSE IF i <= Len(s) THEN s[i] ELSE Hole
<1>2. ASSUME NEW i \in 1..m PROVE u(i) \in Units
  <2>1. CASE off < i /\ i <= off + Len(units)
    <3>1. i - off \in 1..Len(units)
      BY <1>1, <2>1
    <3> QED
      BY <2>1, <3>1
  <2>2. CASE ~(off < i /\ i <= off + Len(units)) /\ i <= Len(s)
    BY <1>1, <2>2
  <2>3. CASE ~(off < i /\ i <= off + Len(units)) /\ ~(i <= Len(s))
    BY <2>3, HoleIsUnit
  <2> QED
    BY <2>1, <2>2, <2>3
<1>3. [i \in 1..m |-> u(i)] \in Seq(Units)
  <2> HIDE DEF m, u
  <2> QED BY <1>1, <1>2
<1> QED
  BY <1>3 DEF WrittenAt

\* Writing what comes next where the file ends extends it.
LEMMA WrittenExtends ==
    ASSUME NEW s \in Sources, NEW v \in 0..MaxVersion, NEW k \in Nat, NEW n \in Nat,
           NEW units \in Seq(Units), Len(units) = n,
           units = Segment(s, v, k, n)
    PROVE  WrittenAt(Prefix(s, v, k), k, units) = Prefix(s, v, k + n)
<1>1. Len(Prefix(s, v, k)) = k
  BY PrefixIsSeq
<1>2. (IF units = <<>> THEN k ELSE Longer(k, k + n)) = k + n
  BY DEF Longer
<1>3. \A i \in 1..(k + n) : (IF k < i /\ i <= k + n THEN units[i - k]
                             ELSE IF i <= k THEN Prefix(s, v, k)[i] ELSE Hole) = <<s, v, i>>
  <2>1. ASSUME NEW i \in 1..(k + n), k < i PROVE units[i - k] = <<s, v, i>>
    <3>1. i - k \in 1..n /\ k + (i - k) = i
      BY <2>1
    <3> QED
      BY <3>1 DEF Segment
  <2>2. ASSUME NEW i \in 1..(k + n), i <= k PROVE Prefix(s, v, k)[i] = <<s, v, i>>
    BY <2>2 DEF Prefix
  <2> QED
    BY <2>1, <2>2
<1>4. WrittenAt(Prefix(s, v, k), k, units) =
         [i \in 1..(k + n) |-> IF k < i /\ i <= k + n THEN units[i - k]
                               ELSE IF i <= k THEN Prefix(s, v, k)[i] ELSE Hole]
  BY <1>1, <1>2 DEF WrittenAt
<1> QED
  BY <1>3, <1>4 DEF Prefix

\* The bytes a read_chunk returns are units.
LEMMA ReadIsSeq ==
    ASSUME TypeOK, NEW s \in Sources, NEW pos \in Nat
    PROVE  LET upto == Shorter(pos + ChunkSize, Shorter(open[s], file[s].len)) IN
           /\ upto \in Nat
           /\ SubSeq(Contents(s), pos + 1, upto) \in Seq(Units)
<1> USE PullAssumption DEF TypeOK
<1>1. file[s].len \in Nat /\ file[s].version \in 0..MaxVersion /\ open[s] \in Nat
  BY DEF Shut
<1>2. Contents(s) = Prefix(s, file[s].version, file[s].len)
  BY DEF Contents, Prefix
<1>3. Contents(s) \in Seq(Units) /\ Len(Contents(s)) = file[s].len
  BY <1>1, <1>2, PrefixIsSeq
<1> DEFINE upto == Shorter(pos + ChunkSize, Shorter(open[s], file[s].len))
<1>4. upto \in Nat /\ upto <= file[s].len
  BY <1>1 DEF Shorter
<1>5. SubSeq(Contents(s), pos + 1, upto) \in Seq(Units)
  <2> HIDE DEF upto
  <2> QED BY <1>3, <1>4, SubSeqIsSeq
<1> QED
  BY <1>4, <1>5

-----------------------------------------------------------------------------
(* Type correctness and control.                                           *)

LEMMA InitType == Init => TypeOK
<1> SUFFICES ASSUME Init PROVE TypeOK
  OBVIOUS
<1>0. <<NoFile, 0, 1>> \in Units
  BY PullAssumption DEF Units
<1>1. data \in [Inodes -> Seq(Units)]
  <2>1. Local \in Seq(Units) /\ <<>> \in Seq(Units)
    BY <1>0 DEF Local
  <2> QED
    BY <2>1 DEF Init
<1>2. reply \in [Pulls -> Replies]
  BY DEF Init, NoReply, Replies
<1>3. dir \in [Names -> Inodes \cup {NoFile}]
  BY DEF Init, Inodes, Names
<1>4. /\ open \in [Sources -> 0..Shut]
      /\ file \in [Sources -> [len : 0..MaxLen, version : 0..MaxVersion]]
  BY PullAssumption DEF Init, Shut
<1> QED
  BY <1>1, <1>2, <1>3, <1>4 DEF Init, TypeOK

LEMMA NamesOfDest ==
    ASSUME NEW d \in Dests
    PROVE  /\ d \in Names /\ Temp(d) \in Names /\ Temp(d)[1] = d[1]
           /\ Temp(d) \notin Dests
BY PullAssumption DEF Dests, Names, Temp

\* The replies that are made of NoReply.
LEMMA OtherReplies ==
    ASSUME NEW n \in Nat
    PROVE  /\ NoReply \in Replies
           /\ [NoReply EXCEPT !.kind = "opened", !.total = n] \in Replies
           /\ [NoReply EXCEPT !.kind = "protocol"] \in Replies
           /\ [NoReply EXCEPT !.kind = "opened", !.total = n].kind = "opened"
           /\ [NoReply EXCEPT !.kind = "opened", !.total = n].total = n
           /\ [NoReply EXCEPT !.kind = "protocol"].kind = "protocol"
<1>1. NoReply \in Replies
  BY DEF NoReply, Replies
<1>2. ASSUME NEW r \in Replies, NEW k \in {"opened", "protocol"}
      PROVE  [r EXCEPT !.kind = k] \in Replies /\ [r EXCEPT !.kind = k].kind = k
  BY <1>2 DEF Replies
<1>3. ASSUME NEW r \in Replies
      PROVE  /\ [r EXCEPT !.total = n] \in Replies
             /\ [r EXCEPT !.total = n].total = n
             /\ [r EXCEPT !.total = n].kind = r.kind
  BY <1>3 DEF Replies
<1>4. [NoReply EXCEPT !.kind = "opened"] \in Replies
  BY <1>1, <1>2
<1> QED
  BY <1>1, <1>2, <1>3, <1>4

LEMMA HostType ==
    ASSUME TypeOK, Control, NEW p \in Pulls, HostStep(p)
    PROVE  TypeOK'
<1>0. dst[p] \in Names /\ Temp(dst[p]) \in Names /\ NoReply \in Replies
  BY NamesOfDest DEF TypeOK, NoReply, Replies
<1> USE DEF TypeOK, args, hostVars, diskVars, guestVars, history, Active
<1>1. CASE Start(p)
  BY <1>1 DEF Start
<1>2. CASE Opened(p)
  <2> DEFINE inode == IF dir[Temp(dst[p])] = NoFile THEN p ELSE dir[Temp(dst[p])]
  <2>1. inode \in Inodes /\ <<>> \in Seq(Units) /\ reply[p].total \in Nat
    BY <1>0 DEF Inodes, Replies
  <2>2. /\ dir' = [dir EXCEPT ![Temp(dst[p])] = inode]
        /\ data' = [data EXCEPT ![inode] = <<>>]
        /\ handle' = [handle EXCEPT ![p] = inode]
    BY <1>2 DEF Opened
  <2>3. /\ dir' \in [Names -> Inodes \cup {NoFile}]
        /\ data' \in [Inodes -> Seq(Units)]
        /\ handle' \in [Pulls -> Inodes \cup {NoFile}]
    <3> HIDE DEF inode
    <3> QED BY <1>0, <2>1, <2>2
  <2> QED
    BY <1>0, <1>2, <2>1, <2>3 DEF Opened, DisturbDisk
<1>3. CASE Ask(p)
  BY <1>3 DEF Ask
<1>4. CASE Receive(p)
  <2>1. /\ reply[p].units \in Seq(Units) /\ handle[p] \in Inodes /\ got[p] \in Nat
        /\ data[handle[p]] \in Seq(Units) /\ Len(reply[p].units) \in Nat
    BY <1>4 DEF Receive, Control, Replies
  <2>2. WrittenAt(data[handle[p]], got[p], reply[p].units) \in Seq(Units)
    BY <2>1, WrittenIsSeq
  <2>3. data' \in [Inodes -> Seq(Units)] /\ got' \in [Pulls -> Nat]
    BY <1>4, <2>1, <2>2 DEF Receive
  <2>4. dir' \in [Names -> Inodes \cup {NoFile}]
    BY <1>0, <1>4 DEF Receive
  <2>5. host' \in [Pulls -> Active \cup {"idle", "ok", "failed", "refused"}]
    BY <1>4 DEF Receive
  <2> QED
    BY <1>0, <1>4, <2>3, <2>4, <2>5 DEF Receive, DisturbDisk
<1>5. CASE Rename(p)
  <2>1. dir' \in [Names -> Inodes \cup {NoFile}]
    BY <1>0, <1>5 DEF Rename
  <2> QED
    BY <1>0, <1>5, <2>1 DEF Rename, DisturbDisk
<1>6. CASE Fail(p)
  <2>1. dir' \in [Names -> Inodes \cup {NoFile}] /\ disturbed' \in [Pulls -> BOOLEAN]
    BY <1>0, <1>6 DEF Fail, DisturbDisk
  <2> QED
    BY <1>0, <1>6, <2>1 DEF Fail
<1> QED
  BY <1>1, <1>2, <1>3, <1>4, <1>5, <1>6 DEF HostStep

\* read_chunk, with what it reads given a name.
ReadReply(p, units, eof) ==
    [kind |-> "read", offset |-> got[p], units |-> units, eof |-> eof,
     total |-> open[picked[p]]]

ReadsAs(p, units, eof) ==
    /\ handler[p] = "read" /\ picked[p] \in Sources
    /\ open[picked[p]] # Shut /\ got[p] <= open[picked[p]]
    /\ units = SubSeq(Contents(picked[p]), got[p] + 1,
                      Shorter(got[p] + ChunkSize,
                              Shorter(open[picked[p]], file[picked[p]].len)))
    /\ eof = (got[p] + Len(units) >= open[picked[p]])
    /\ Answer(p, ReadReply(p, units, eof))
    /\ \/ eof /\ open' = [open EXCEPT ![picked[p]] = Shut] /\ DisturbGuest(p)
       \/ ~eof /\ UNCHANGED <<open, disturbed>>
    /\ picked' = [picked EXCEPT ![p] = NoFile]
    /\ UNCHANGED <<args, hostVars, file, diskVars, changed>>

LEMMA ReadShape ==
    ASSUME TypeOK, Control, NEW p \in Pulls, ReadChunk(p)
    PROVE  \E units \in Seq(Units), eof \in BOOLEAN : ReadsAs(p, units, eof)
<1> DEFINE units == SubSeq(Contents(picked[p]), got[p] + 1,
                           Shorter(got[p] + ChunkSize,
                                   Shorter(open[picked[p]], file[picked[p]].len)))
           eof == got[p] + Len(units) >= open[picked[p]]
<1>1. handler[p] = "read"
  BY DEF ReadChunk, ReadAt
<1>2. picked[p] \in Sources /\ got[p] \in Nat
  BY <1>1 DEF Control, TypeOK
<1>3. units \in Seq(Units) /\ eof \in BOOLEAN
  BY <1>2, ReadIsSeq
<1>4. ReadsAs(p, units, eof)
  BY <1>2 DEF ReadChunk, ReadAt, ReadsAs, ReadReply
<1> QED
  <2> HIDE DEF units, eof
  <2> QED BY <1>3, <1>4

LEMMA GuestType ==
    ASSUME TypeOK, Control, NEW p \in Pulls, GuestStep(p)
    PROVE  TypeOK'
<1> USE PullAssumption DEF TypeOK, args, hostVars, diskVars, guestVars, history
<1>1. CASE BeginSource(p)
  <2> DEFINE n == file[src[p]].len
  <2>1. n \in Nat /\ n \in 0..Shut
    <3>1. n \in 0..MaxLen
      OBVIOUS
    <3> QED
      BY <3>1 DEF Shut
  <2>2. [NoReply EXCEPT !.kind = "opened", !.total = n] \in Replies
    <3> HIDE DEF n
    <3> QED BY <2>1, OtherReplies
  <2> QED
    BY <1>1, <2>1, <2>2 DEF BeginSource, Answer, DisturbGuest
<1>2. CASE Select(p)
  BY <1>2 DEF Select, OpenSources
<1>3. CASE Refused(p)
  <2>1. [NoReply EXCEPT !.kind = "protocol"] \in Replies
    BY OtherReplies
  <2> QED
    BY <1>3, <2>1 DEF Refused, Refuse, Answer
<1>4. CASE ReadChunk(p)
  <2>1. PICK units \in Seq(Units), eof \in BOOLEAN : ReadsAs(p, units, eof)
    BY <1>4, ReadShape
  <2>2. ReadReply(p, units, eof) \in Replies /\ open[picked[p]] \in Nat
    BY <2>1 DEF ReadReply, Replies, ReadsAs, Shut
  <2>3. /\ reply' \in [Pulls -> Replies]
        /\ handler' \in [Pulls -> {"none", "begin", "select", "read"}]
    BY <2>1, <2>2 DEF Answer, ReadsAs
  <2>4. Shut \in 0..Shut
    BY DEF Shut
  <2>5. open' \in [Sources -> 0..Shut]
    BY <2>1, <2>4 DEF ReadsAs
  <2>6. disturbed' \in [Pulls -> BOOLEAN]
    BY <2>1 DEF ReadsAs, DisturbGuest
  <2> QED
    BY <2>1, <2>3, <2>5, <2>6 DEF ReadsAs
<1>5. CASE GuestError(p)
  BY <1>5 DEF GuestError
<1> QED
  BY <1>1, <1>2, <1>3, <1>4, <1>5 DEF GuestStep

LEMMA RewriteType ==
    ASSUME TypeOK, NEW s \in Sources, Rewrite(s)
    PROVE  TypeOK'
<1>1. PICK n \in 0..MaxLen : file' = [file EXCEPT ![s] = [len |-> n, version |-> @.version + 1]]
  BY DEF Rewrite
<1>2. file[s].version + 1 \in 0..MaxVersion
  BY PullAssumption DEF Rewrite, TypeOK
<1>3. file' \in [Sources -> [len : 0..MaxLen, version : 0..MaxVersion]]
  BY <1>1, <1>2 DEF TypeOK
<1>4. changed' \in [Pulls -> BOOLEAN]
  BY DEF Rewrite, TypeOK
<1> QED
  BY <1>3, <1>4 DEF Rewrite, TypeOK, args, hostVars, diskVars

LEMMA ControlHost ==
    ASSUME TypeOK, Control, NEW p \in Pulls, HostStep(p)
    PROVE  Control'
<1> USE DEF TypeOK, Control, hostVars, args, diskVars, guestVars, history, NoReply
<1>1. CASE Start(p)
  BY <1>1 DEF Start
<1>2. CASE Opened(p)
  <2>1. p # NoFile
    BY PullAssumption
  <2>2. handle'[p] # NoFile /\ \A q \in Pulls \ {p} : handle'[q] = handle[q]
    BY <1>2, <2>1 DEF Opened
  <2> QED
    BY <1>2, <2>2 DEF Opened
<1>3. CASE Ask(p)
  BY <1>3 DEF Ask
<1>4. CASE Receive(p)
  <2>1. /\ host'[p] \in {"asking", "renaming", "failed"} /\ host[p] = "waiting"
        /\ \A q \in Pulls \ {p} : host'[q] = host[q] /\ got'[q] = got[q]
                                  /\ reply'[q] = reply[q]
        /\ reply'[p].kind = "none"
        /\ UNCHANGED <<handler, picked, handle>>
    BY <1>4 DEF Receive
  <2>2. handler[p] = "none"
    BY <1>4 DEF Receive
  <2> QED
    BY <2>1, <2>2
<1>5. CASE Rename(p)
  BY <1>5 DEF Rename
<1>6. CASE Fail(p)
  BY <1>6 DEF Fail
<1> QED
  BY <1>1, <1>2, <1>3, <1>4, <1>5, <1>6 DEF HostStep

LEMMA ControlGuest ==
    ASSUME TypeOK, Control, NEW p \in Pulls, GuestStep(p)
    PROVE  Control'
<1> USE DEF TypeOK, Control, hostVars, args, diskVars, guestVars, history, NoReply,
            Answer, Active
<1>1. CASE BeginSource(p)
  BY <1>1 DEF BeginSource
<1>2. CASE Select(p)
  BY <1>2 DEF Select, OpenSources
<1>3. CASE Refused(p)
  BY <1>3 DEF Refused, Refuse
<1>4. CASE ReadChunk(p)
  <2>1. PICK units, eof : ReadsAs(p, units, eof)
    BY <1>4, ReadShape
  <2>2. ReadReply(p, units, eof).kind = "read" /\ Answer(p, ReadReply(p, units, eof))
    BY <2>1 DEF ReadReply, ReadsAs
  <2>3. /\ handler[p] = "read" /\ picked' = [picked EXCEPT ![p] = NoFile]
        /\ UNCHANGED <<hostVars, handle>>
    BY <2>1 DEF ReadsAs
  <2> QED
    BY <2>2, <2>3
<1>5. CASE GuestError(p)
  BY <1>5 DEF GuestError
<1> QED
  BY <1>1, <1>2, <1>3, <1>4, <1>5 DEF GuestStep

-----------------------------------------------------------------------------
(* What a step of p leaves alone.                                          *)

\* Only the guest's map, the disk and the histories are shared.
Same(q) ==
    /\ host'[q] = host[q] /\ src'[q] = src[q] /\ dst'[q] = dst[q]
    /\ overwrite'[q] = overwrite[q] /\ total'[q] = total[q] /\ got'[q] = got[q]
    /\ handler'[q] = handler[q] /\ picked'[q] = picked[q]
    /\ reply'[q] = reply[q] /\ handle'[q] = handle[q]

LEMMA OthersSame ==
    ASSUME TypeOK, Control, NEW p \in Pulls, HostStep(p) \/ GuestStep(p),
           NEW q \in Pulls \ {p}
    PROVE  Same(q)
<1> USE DEF TypeOK, Same, hostVars, args, diskVars, guestVars, history
<1>1. CASE Start(p)
  BY <1>1 DEF Start
<1>2. CASE Opened(p)
  BY <1>2 DEF Opened
<1>3. CASE Ask(p)
  BY <1>3 DEF Ask
<1>4. CASE Receive(p)
  BY <1>4 DEF Receive
<1>5. CASE Rename(p)
  BY <1>5 DEF Rename
<1>6. CASE Fail(p)
  BY <1>6 DEF Fail
<1>7. CASE BeginSource(p)
  BY <1>7 DEF BeginSource, Answer
<1>8. CASE Select(p)
  BY <1>8 DEF Select
<1>9. CASE Refused(p)
  BY <1>9 DEF Refused, Refuse, Answer
<1>10. CASE ReadChunk(p)
  <2>1. PICK units, eof : ReadsAs(p, units, eof)
    BY <1>10, ReadShape
  <2> QED
    BY <2>1 DEF ReadsAs, Answer
<1>11. CASE GuestError(p)
  BY <1>11 DEF GuestError
<1> QED
  BY <1>1, <1>2, <1>3, <1>4, <1>5, <1>6, <1>7, <1>8, <1>9, <1>10, <1>11
     DEF HostStep, GuestStep

\* The guest does not touch the host's disk, nor what it was told to do.
LEMMA GuestKeepsDisk ==
    ASSUME TypeOK, Control, NEW p \in Pulls, GuestStep(p)
    PROVE  UNCHANGED <<diskVars, hostVars, args, file, changed>>
BY ReadShape DEF GuestStep, BeginSource, Select, Refused, Refuse, ReadsAs, GuestError,
                 guestVars, history

\* The host does not touch the guest.
LEMMA HostKeepsGuest ==
    ASSUME NEW p \in Pulls, HostStep(p)
    PROVE  UNCHANGED <<guestVars, args, picked, changed>>
BY DEF HostStep, Start, Opened, Ask, Receive, Rename, Fail, history

\* No disturbance is forgotten.
LEMMA DisturbedStays ==
    ASSUME TypeOK, Control, NEW p \in Pulls, HostStep(p) \/ GuestStep(p),
           NEW q \in Pulls, disturbed[q]
    PROVE  disturbed'[q]
<1> USE DEF history, TypeOK, DisturbDisk, DisturbGuest
<1>1. CASE HostStep(p)
  BY <1>1 DEF HostStep, Start, Opened, Ask, Receive, Rename, Fail
<1>2. CASE GuestStep(p)
  BY <1>2, ReadShape DEF GuestStep, BeginSource, Select, Refused, Refuse, ReadsAs, GuestError
<1> QED
  BY <1>1, <1>2

-----------------------------------------------------------------------------
(* Inodes and their stems.                                                 *)

LEMMA HomesStep ==
    ASSUME TypeOK, Control, Homes, NEW p \in Pulls, HostStep(p) \/ GuestStep(p)
    PROVE  Homes'
<1>0. /\ dst[p] \in Names /\ Temp(dst[p]) \in Names
      /\ Temp(dst[p])[1] = dst[p][1] /\ Temp(dst[p]) # dst[p]
  BY NamesOfDest DEF TypeOK
<1>1. CASE GuestStep(p) \/ Start(p) \/ Ask(p)
  <2>1. UNCHANGED <<dst, dir, handle>>
    BY <1>1, GuestKeepsDisk DEF Start, Ask, args, diskVars
  <2> QED
    BY <2>1 DEF Homes, Stem
<1>2. CASE Opened(p)
  <2> DEFINE inode == IF dir[Temp(dst[p])] = NoFile THEN p ELSE dir[Temp(dst[p])]
  <2>1. dst' = dst
    BY <1>2 DEF Opened, args
  <2>2. Stem(inode) = dst[p][1]
    BY <1>0 DEF Homes, Stem
  <2>3. \A n \in Names : dir'[n] = IF n = Temp(dst[p]) THEN inode ELSE dir[n]
    BY <1>2 DEF Opened, TypeOK
  <2>4. \A q \in Pulls : handle'[q] = IF q = p THEN inode ELSE handle[q]
    BY <1>2 DEF Opened, TypeOK
  <2> QED
    BY <1>0, <2>1, <2>2, <2>3, <2>4 DEF Homes, Stem
<1>3. CASE Receive(p) \/ Fail(p)
  <2>1. UNCHANGED <<dst, handle>>
    BY <1>3 DEF Receive, Fail, args
  <2>2. \A n \in Names : dir'[n] \in {dir[n], NoFile}
    BY <1>3 DEF Receive, Fail, TypeOK
  <2> QED
    BY <2>1, <2>2 DEF Homes, Stem
<1>4. CASE Rename(p)
  <2>1. UNCHANGED <<dst, handle>>
    BY <1>4 DEF Rename, args
  <2>2. \A n \in Names : dir'[n] = IF n = Temp(dst[p]) THEN NoFile
                                   ELSE IF n = dst[p] THEN dir[Temp(dst[p])] ELSE dir[n]
    BY <1>0, <1>4 DEF Rename, TypeOK
  <2> QED
    BY <1>0, <2>1, <2>2 DEF Homes, Stem
<1> QED
  BY <1>1, <1>2, <1>3, <1>4 DEF HostStep

-----------------------------------------------------------------------------
(* Sources and those who opened them.                                      *)

LEMMA ResponsibleFrame ==
    ASSUME NEW q \in Pulls, Same(q), Responsible(q)
    PROVE  Responsible(q)'
BY DEF Same, Responsible

\* A step of p ends its responsibility only by closing its source, or by
\* choosing another while its own is closed.
LEMMA AccountedBy ==
    ASSUME TypeOK, Control, Accounted, NEW p \in Pulls, HostStep(p) \/ GuestStep(p),
           \A s \in OpenSources' : \/ s \in OpenSources
                                   \/ s = src[p] /\ Responsible(p)',
           Responsible(p) => Responsible(p)' \/ src[p] \notin OpenSources'
    PROVE  Accounted'
<1> SUFFICES ASSUME NEW s \in OpenSources'
             PROVE  \E q \in Pulls : src'[q] = s /\ Responsible(q)'
  BY DEF Accounted
<1>1. src' = src
  BY HostKeepsGuest, GuestKeepsDisk DEF args
<1>2. CASE s = src[p] /\ Responsible(p)'
  BY <1>1, <1>2
<1>3. CASE s \in OpenSources
  <2>1. PICK q \in Pulls : src[q] = s /\ Responsible(q)
    BY <1>3 DEF Accounted
  <2>2. CASE q = p
    BY <1>1, <2>1, <2>2
  <2>3. CASE q # p
    <3>1. Same(q)
      BY <2>3, OthersSame
    <3> QED
      BY <1>1, <2>1, <3>1, ResponsibleFrame
  <2> QED
    BY <2>2, <2>3
<1> QED
  BY <1>2, <1>3

LEMMA AccountedHost ==
    ASSUME TypeOK, Control, Accounted, NEW p \in Pulls, HostStep(p)
    PROVE  Accounted'
<1>1. OpenSources' = OpenSources /\ picked' = picked /\ src' = src
  BY HostKeepsGuest DEF guestVars, args, OpenSources, Shut
<1>2. Responsible(p) => Responsible(p)'
  <2> USE <1>1 DEF Responsible, TypeOK, NoReply
  <2>1. CASE Start(p)
    BY <2>1 DEF Start
  <2>2. CASE Opened(p)
    BY <2>2 DEF Opened, Control
  <2>3. CASE Ask(p)
    BY <2>3 DEF Ask
  <2>4. CASE Receive(p)
    <3>1. /\ host[p] = "waiting" /\ reply[p].kind = "read" /\ handler' = handler
          /\ reply[p].eof \/ host'[p] = "asking"
          /\ reply'[p].kind = "none"
      BY <2>4 DEF Receive
    <3>2. handler[p] = "none"
      BY <3>1 DEF Control
    <3> QED
      BY <3>1, <3>2
  <2>5. CASE Rename(p)
    BY <2>5 DEF Rename
  <2>6. CASE Fail(p)
    BY <2>6 DEF Fail
  <2> QED
    BY <2>1, <2>2, <2>3, <2>4, <2>5, <2>6 DEF HostStep
<1> QED
  BY <1>1, <1>2, AccountedBy

LEMMA AccountedGuest ==
    ASSUME TypeOK, Control, Accounted, NEW p \in Pulls, GuestStep(p)
    PROVE  Accounted'
<1>0. UNCHANGED <<host, src>>
  BY GuestKeepsDisk DEF hostVars, args
<1> USE <1>0 DEF Responsible, TypeOK, OpenSources, Answer
<1>1. CASE BeginSource(p)
  <2>1. host[p] \in {"opening", "failed", "refused"} /\ handler'[p] = "none"
    BY <1>1 DEF BeginSource, Control
  <2>2. reply[p].kind = "none"
    BY <1>1 DEF BeginSource, Control
  <2>3. reply'[p].kind # "read"
    <3>1. file[src[p]].len \in Nat
      BY PullAssumption
    <3>2. [NoReply EXCEPT !.kind = "opened", !.total = file[src[p]].len].kind = "opened"
      BY <3>1, OtherReplies
    <3> QED
      BY <1>1, <2>2, <3>2 DEF BeginSource
  <2>4. Responsible(p)'
    BY <2>1, <2>3
  <2>5. \A s \in OpenSources' : s \in OpenSources \/ s = src[p]
    BY <1>1 DEF BeginSource, Shut
  <2> QED
    BY <2>4, <2>5, AccountedBy
<1>2. CASE Select(p)
  <2>1. OpenSources' = OpenSources /\ reply' = reply
    BY <1>2 DEF Select, guestVars, Shut
  <2>2. picked'[p] # src[p] => src[p] \notin OpenSources
    BY <1>2 DEF Select
  <2>3. Responsible(p) => Responsible(p)' \/ src[p] \notin OpenSources'
    BY <2>1, <2>2
  <2> QED
    BY <2>1, <2>3, AccountedBy
<1>3. CASE Refused(p)
  <2>1. OpenSources' = OpenSources
    BY <1>3 DEF Refused, Refuse, guestVars, Shut
  <2>2. /\ handler'[p] = "none"
        /\ reply'[p] = reply[p] \/ reply'[p] = [NoReply EXCEPT !.kind = "protocol"]
    BY <1>3 DEF Refused, Refuse
  <2>3. Responsible(p) => Responsible(p)'
    BY <2>2, OtherReplies
  <2> QED
    BY <2>1, <2>3, AccountedBy
<1>4. CASE ReadChunk(p)
  <2>1. PICK units, eof : ReadsAs(p, units, eof)
    BY <1>4, ReadShape
  <2>2. /\ handler[p] = "read" /\ handler'[p] = "none"
        /\ reply'[p] = reply[p] \/ reply'[p].eof = eof
    BY <2>1 DEF ReadsAs, ReadReply
  <2>3. /\ OpenSources' \subseteq OpenSources
        /\ eof => picked[p] \notin OpenSources'
    BY <2>1 DEF ReadsAs, Shut
  <2>4. Responsible(p) => Responsible(p)' \/ src[p] \notin OpenSources'
    BY <2>2, <2>3
  <2> QED
    BY <2>3, <2>4, AccountedBy
<1>5. CASE GuestError(p)
  <2>1. OpenSources' = OpenSources /\ reply' = reply /\ handler'[p] = "none"
    BY <1>5 DEF GuestError, guestVars, Shut
  <2>2. Responsible(p) => Responsible(p)'
    BY <2>1
  <2> QED
    BY <2>1, <2>2, AccountedBy
<1> QED
  BY <1>1, <1>2, <1>3, <1>4, <1>5 DEF GuestStep

-----------------------------------------------------------------------------
(* Pulls that no step of another disturbs.                                 *)

LEMMA StemsApart ==
    ASSUME NEW d \in Dests, NEW e \in Dests, Temp(d) # Temp(e)
    PROVE  /\ d[1] # e[1]
           /\ e \notin {d, Temp(d)} /\ Temp(e) \notin {d, Temp(d)}
BY NamesOfDest DEF Temp

\* A step of p that writes, renames or removes disturbs those that share its
\* temporary name; the others find their names and contents as they were.
LEMMA DiskFrame ==
    ASSUME TypeOK, Control, Homes, NEW p \in Pulls, HostStep(p),
           NEW q \in Pulls \ {p}, ~disturbed'[q], host[q] \in Active \cup {"ok"}
    PROVE  /\ dir'[dst[q]] = dir[dst[q]] /\ dir'[Temp(dst[q])] = dir[Temp(dst[q])]
           /\ handle[q] # NoFile => data'[handle[q]] = data[handle[q]]
<1>0. /\ dst[q] \in Dests /\ dst[p] \in Dests
      /\ dst[q] \in Names /\ Temp(dst[q]) \in Names
      /\ dst[p] \in Names /\ Temp(dst[p]) \in Names
      /\ Temp(dst[p])[1] = dst[p][1]
  BY NamesOfDest DEF TypeOK
<1>1. CASE UNCHANGED <<dir, data>>
  BY <1>1
<1>2. CASE DisturbDisk(p)
  <2>1. Temp(dst[p]) # Temp(dst[q])
    BY <1>2 DEF DisturbDisk
  <2>2. /\ dst[p][1] # dst[q][1]
        /\ dst[q] \notin {dst[p], Temp(dst[p])} /\ Temp(dst[q]) \notin {dst[p], Temp(dst[p])}
    BY <1>0, <2>1, StemsApart
  <2>3. handle[q] # NoFile => Stem(handle[q]) = dst[q][1]
    BY DEF Homes
  <2>4. CASE Opened(p)
    <3> DEFINE inode == IF dir[Temp(dst[p])] = NoFile THEN p ELSE dir[Temp(dst[p])]
    <3>1. Stem(inode) = dst[p][1]
      BY <1>0 DEF Homes, Stem
    <3>2. handle[q] # NoFile => inode # handle[q]
      BY <2>2, <2>3, <3>1
    <3>3. /\ dir' = [dir EXCEPT ![Temp(dst[p])] = inode]
          /\ data' = [data EXCEPT ![inode] = <<>>]
      BY <2>4 DEF Opened
    <3> QED
      <4> HIDE DEF inode
      <4> QED BY <1>0, <2>2, <3>2, <3>3 DEF TypeOK
  <2>5. CASE Receive(p)
    <3>1. handle[p] # NoFile
      BY <2>5 DEF Receive, Control
    <3>2. handle[q] # NoFile => handle[p] # handle[q]
      BY <2>2, <2>3, <3>1 DEF Homes
    <3>3. /\ \E x : data' = [data EXCEPT ![handle[p]] = x]
          /\ dir' = dir \/ dir' = [dir EXCEPT ![Temp(dst[p])] = NoFile]
      BY <2>5 DEF Receive
    <3> QED
      BY <1>0, <2>2, <3>2, <3>3 DEF TypeOK
  <2>6. CASE Rename(p) \/ Fail(p)
    <3>1. /\ data' = data
          /\ \/ dir' = dir \/ dir' = [dir EXCEPT ![Temp(dst[p])] = NoFile]
             \/ dir' = [dir EXCEPT ![dst[p]] = dir[Temp(dst[p])], ![Temp(dst[p])] = NoFile]
      BY <2>6 DEF Rename, Fail
    <3> QED
      BY <1>0, <2>2, <3>1 DEF TypeOK
  <2>7. CASE Start(p) \/ Ask(p)
    BY <2>7 DEF Start, Ask, diskVars
  <2> QED
    BY <2>4, <2>5, <2>6, <2>7 DEF HostStep
<1> QED
  BY <1>1, <1>2 DEF HostStep, Start, Opened, Ask, Receive, Rename, Fail,
                    diskVars

LEMMA GuestFrame ==
    ASSUME TypeOK, Control, NEW p \in Pulls, GuestStep(p),
           NEW q \in Pulls \ {p}, ~disturbed'[q], host[q] \in Active
    PROVE  open' = open
<1>1. CASE DisturbGuest(p)
  BY <1>1 DEF DisturbGuest
<1>2. CASE UNCHANGED open
  BY <1>2
<1> QED
  BY <1>1, <1>2, ReadShape
     DEF GuestStep, BeginSource, Select, Refused, Refuse, ReadsAs, GuestError, guestVars

-----------------------------------------------------------------------------
(* Files that are written to, and files at a destination.                  *)

\* What the steps of the host do to the directory and the contents.
LEMMA DiskStep ==
    ASSUME TypeOK, Control, NEW p \in Pulls, HostStep(p)
    PROVE  \/ UNCHANGED <<dir, data>>
           \/ /\ Opened(p)
              /\ \E inode \in Inodes :
                    /\ inode = IF dir[Temp(dst[p])] = NoFile THEN p ELSE dir[Temp(dst[p])]
                    /\ \A n \in Names : dir'[n] = IF n = Temp(dst[p]) THEN inode ELSE dir[n]
                    /\ \A i \in Inodes \ {inode} : data'[i] = data[i]
                    /\ handle'[p] = inode
           \/ /\ Receive(p)
              /\ \A n \in Names : dir'[n] = dir[n] \/ (n = Temp(dst[p]) /\ dir'[n] = NoFile)
              /\ \A i \in Inodes \ {handle[p]} : data'[i] = data[i]
           \/ /\ Rename(p)
              /\ \A n \in Names : dir'[n] = IF n = Temp(dst[p]) THEN NoFile
                                            ELSE IF n = dst[p] THEN dir[Temp(dst[p])] ELSE dir[n]
              /\ data' = data
           \/ /\ Fail(p)
              /\ \A n \in Names : dir'[n] = dir[n] \/ (n = Temp(dst[p]) /\ dir'[n] = NoFile)
              /\ data' = data
<1>0. dst[p] \in Names /\ Temp(dst[p]) \in Names /\ Temp(dst[p]) # dst[p]
  BY NamesOfDest DEF TypeOK
<1>1. CASE Start(p) \/ Ask(p)
  BY <1>1 DEF Start, Ask, diskVars
<1>2. CASE Opened(p)
  <2> DEFINE inode == IF dir[Temp(dst[p])] = NoFile THEN p ELSE dir[Temp(dst[p])]
  <2>1. inode \in Inodes
    BY <1>0 DEF TypeOK, Inodes
  <2>2. /\ dir' = [dir EXCEPT ![Temp(dst[p])] = inode]
        /\ data' = [data EXCEPT ![inode] = <<>>]
        /\ handle' = [handle EXCEPT ![p] = inode]
    BY <1>2 DEF Opened
  <2>3. /\ \A n \in Names : dir'[n] = IF n = Temp(dst[p]) THEN inode ELSE dir[n]
        /\ \A i \in Inodes \ {inode} : data'[i] = data[i]
        /\ handle'[p] = inode
    <3> HIDE DEF inode
    <3> QED BY <2>2 DEF TypeOK
  <2> QED
    BY <1>2, <2>1, <2>3
<1>3. CASE Receive(p)
  <2>1. \E x : data' = [data EXCEPT ![handle[p]] = x]
    BY <1>3 DEF Receive
  <2>2. dir' = dir \/ dir' = [dir EXCEPT ![Temp(dst[p])] = NoFile]
    BY <1>3 DEF Receive
  <2> QED
    BY <1>3, <2>1, <2>2 DEF TypeOK
<1>4. CASE Rename(p)
  <2>1. /\ dir' = [dir EXCEPT ![dst[p]] = dir[Temp(dst[p])], ![Temp(dst[p])] = NoFile]
        /\ data' = data
    BY <1>4 DEF Rename
  <2> QED
    BY <1>0, <1>4, <2>1 DEF TypeOK
<1>5. CASE Fail(p)
  BY <1>5 DEF Fail, TypeOK
<1> QED
  BY <1>1, <1>2, <1>3, <1>4, <1>5 DEF HostStep

LEMMA ApartHost ==
    ASSUME TypeOK, Control, Homes, Apart, NEW p \in Pulls, HostStep(p)
    PROVE  Apart'
<1>0. /\ dst[p] \in Dests /\ dst[p] \in Names /\ Temp(dst[p]) \in Names
      /\ Temp(dst[p]) \notin Dests /\ dst' = dst /\ p \notin Names /\ p # NoFile
      /\ NoFile \notin Names
  BY NamesOfDest, HostKeepsGuest, PullAssumption DEF TypeOK, args
<1>1. \A q \in Pulls : host[q] \notin {"idle", "opening"} => host'[q] \notin {"idle", "opening"}
  <2>1. host[p] \notin {"idle", "opening"} => host'[p] \notin {"idle", "opening"}
    BY DEF HostStep, Start, Opened, Ask, Receive, Rename, Fail, TypeOK
  <2> QED
    BY <2>1, OthersSame DEF Same
<1>2. ASSUME NEW q \in Pulls, ~disturbed'[q], host'[q] \in {"asking", "waiting"}
      PROVE  dir'[Temp(dst[q])] = handle'[q]
  <2>1. ~disturbed[q]
    BY <1>2, DisturbedStays
  <2>2. CASE q # p
    <3>1. host'[q] = host[q] /\ handle'[q] = handle[q]
      BY <2>2, OthersSame DEF Same
    <3>2. dir'[Temp(dst[q])] = dir[Temp(dst[q])]
      BY <1>2, <2>2, <3>1, DiskFrame DEF Active
    <3> QED
      BY <1>2, <2>1, <3>1, <3>2 DEF Apart
  <2>3. CASE q = p
    <3>1. CASE Opened(p)
      BY <1>0, <2>3, <3>1, DiskStep DEF Opened, Receive, Rename, Fail, TypeOK
    <3>2. CASE Ask(p)
      BY <2>1, <2>3, <3>2 DEF Ask, diskVars, Apart
    <3>3. CASE Receive(p)
      <4>1. dir' = dir /\ handle' = handle /\ host[p] = "waiting"
        BY <1>2, <2>3, <3>3 DEF Receive, TypeOK
      <4> QED
        BY <2>1, <2>3, <4>1 DEF Apart
    <3>4. CASE Start(p) \/ Rename(p) \/ Fail(p)
      BY <1>2, <2>3, <3>4 DEF Start, Rename, Fail, TypeOK
    <3> QED
      BY <3>1, <3>2, <3>3, <3>4 DEF HostStep
  <2> QED
    BY <2>2, <2>3
<1>3. /\ \A m, n \in Names : dir'[m] # NoFile /\ dir'[m] = dir'[n] => m = n
      /\ \A n \in Names : dir'[n] \in Names => dir'[n] = n /\ n \in Dests
      /\ \A n \in Names, q \in Pulls : dir'[n] = q => host'[q] \notin {"idle", "opening"}
  <2>1. CASE UNCHANGED <<dir, data>>
    BY <1>1, <2>1 DEF Apart
  <2>2. CASE Opened(p)
    <3> DEFINE inode == IF dir[Temp(dst[p])] = NoFile THEN p ELSE dir[Temp(dst[p])]
    <3>1. \A n \in Names : dir'[n] = IF n = Temp(dst[p]) THEN inode ELSE dir[n]
      BY <1>0, <2>2, DiskStep DEF Opened, Receive, Rename, Fail, TypeOK
    <3>2. host[p] = "opening" /\ host'[p] = "asking"
      BY <2>2 DEF Opened, TypeOK
    <3>3. inode \notin Names /\ \A n \in Names \ {Temp(dst[p])} : dir[n] # inode
      BY <1>0, <3>2 DEF Apart
    <3>4. \A q \in Pulls : inode = q => host'[q] \notin {"idle", "opening"}
      BY <1>0, <1>1, <3>2 DEF Apart
    <3> QED
      <4> HIDE DEF inode
      <4> QED BY <1>1, <3>1, <3>3, <3>4 DEF Apart
  <2>3. CASE Receive(p) \/ Fail(p)
    <3>1. \A n \in Names : dir'[n] = dir[n] \/ dir'[n] = NoFile
      BY <2>3 DEF Receive, Fail, TypeOK
    <3>2. \A q \in Pulls : q # NoFile
      BY PullAssumption
    <3> QED
      BY <1>0, <1>1, <3>1, <3>2 DEF Apart
  <2>4. CASE Rename(p)
    <3>1. \A n \in Names : dir'[n] = IF n = Temp(dst[p]) THEN NoFile
                                     ELSE IF n = dst[p] THEN dir[Temp(dst[p])] ELSE dir[n]
      BY <1>0, <2>4 DEF Rename, TypeOK
    <3>2. dir[Temp(dst[p])] \notin Names /\ \A q \in Pulls : q # NoFile
      BY <1>0, PullAssumption DEF Apart
    <3> QED
      BY <1>0, <1>1, <3>1, <3>2 DEF Apart
  <2> QED
    BY <2>1, <2>2, <2>3, <2>4, DiskStep
<1> QED
  BY <1>0, <1>2, <1>3 DEF Apart

LEMMA ApartStep ==
    ASSUME TypeOK, Control, Homes, Apart, NEW p \in Pulls, HostStep(p) \/ GuestStep(p)
    PROVE  Apart'
<1>1. CASE GuestStep(p)
  <2>1. UNCHANGED <<dir, handle, host, dst>>
    BY <1>1, GuestKeepsDisk DEF diskVars, hostVars, args
  <2>2. \A q \in Pulls : disturbed[q] => disturbed'[q]
    BY DisturbedStays
  <2> QED
    BY <2>1, <2>2 DEF Apart
<1> QED
  BY <1>1, ApartHost

\* What a step of a pull does to the file at a destination.
LEMMA OriginalKept ==
    ASSUME TypeOK, Control, Apart, NEW p \in Pulls, HostStep(p) \/ GuestStep(p),
           NEW d \in Dests
    PROVE  OriginalSurvives(d)
<1> SUFFICES ASSUME dir[d] # NoFile, ~(dst[p] = d /\ Rename(p)),
                    ~(handle[p] = dir[d] /\ disturbed[p] /\ Receive(p))
             PROVE  dir'[d] # NoFile /\ data'[dir'[d]] = data[dir[d]]
  BY DEF OriginalSurvives
<1>0. /\ d \in Names /\ dst[p] \in Dests /\ Temp(dst[p]) \in Names /\ d # Temp(dst[p])
      /\ dir[d] \in Inodes
  BY NamesOfDest DEF TypeOK
<1>1. CASE GuestStep(p)
  BY <1>1, GuestKeepsDisk DEF diskVars
<1>2. CASE UNCHANGED <<dir, data>>
  BY <1>2
<1>3. CASE Opened(p)
  <2>1. host[p] = "opening"
    BY <1>3 DEF Opened
  <2>2. dir[d] # p /\ dir[d] # dir[Temp(dst[p])]
    BY <1>0, <2>1 DEF Apart
  <2> QED
    BY <1>0, <1>3, <2>2, DiskStep DEF Opened, Receive, Rename, Fail, TypeOK
<1>4. CASE Receive(p)
  <2>1. host[p] = "waiting"
    BY <1>4 DEF Receive
  <2>2. handle[p] # dir[d]
    BY <1>0, <1>4, <2>1 DEF Apart
  <2>3. /\ dir'[d] = dir[d]
        /\ \E x : data' = [data EXCEPT ![handle[p]] = x]
    BY <1>0, <1>4 DEF Receive, TypeOK
  <2> QED
    BY <1>0, <2>2, <2>3 DEF TypeOK
<1>5. CASE Rename(p)
  BY <1>0, <1>5 DEF Rename, TypeOK
<1>6. CASE Fail(p)
  BY <1>0, <1>6 DEF Fail, TypeOK
<1> QED
  BY <1>1, <1>2, <1>3, <1>4, <1>5, <1>6, DiskStep

-----------------------------------------------------------------------------
(* What an undisturbed pull relies on.                                     *)

\* It keeps what it relies on when only others move and leave its names, its
\* contents and its source as they are.
LEMMA OwnFrame ==
    ASSUME Control, NEW q \in Pulls, OwnOf(q), Same(q),
           disturbed[q] => disturbed'[q], changed[q] => changed'[q],
           ~disturbed'[q] /\ ~changed'[q] =>
              /\ host[q] \in Active =>
                    open'[src[q]] = open[src[q]] /\ file'[src[q]] = file[src[q]]
              /\ host[q] = "ok" => dir'[dst[q]] = dir[dst[q]]
              /\ host[q] \in Active \cup {"ok"} =>
                    /\ dir'[Temp(dst[q])] = dir[Temp(dst[q])]
                    /\ handle[q] # NoFile => data'[handle[q]] = data[handle[q]]
    PROVE  OwnOf(q)'
<1> SUFFICES ASSUME ~disturbed'[q], ~changed'[q]
             PROVE  OwnOf(q)'
  BY DEF OwnOf
<1> USE DEF Same, OwnOf, Control, Active, Partially, Served, Continues
<1>1. CASE host[q] \in {"opening", "asking", "renaming", "ok"}
  BY <1>1
<1>2. CASE host[q] = "waiting"
  <2>1. ~disturbed[q] /\ ~changed[q]
    OBVIOUS
  <2>2. /\ Partially(q)
        /\ handler[q] # "none" => Served(q)
        /\ handler[q] = "read" => picked[q] = src[q]
        /\ reply[q].kind = "read" => Continues(q)
        /\ reply[q].kind # "opened" /\ handle[q] # NoFile
    BY <1>2, <2>1
  <2>3. Partially(q)' /\ (Served(q) => Served(q)')
    BY <1>2, <2>2
  <2>4. Continues(q) => Continues(q)'
    BY <1>2, <2>3
  <2> QED
    BY <1>2, <2>2, <2>3, <2>4
<1>3. CASE host[q] \notin {"opening", "asking", "renaming", "ok", "waiting"}
  BY <1>3
<1> QED
  BY <1>1, <1>2, <1>3

LEMMA OwnOther ==
    ASSUME TypeOK, Control, Homes, NEW p \in Pulls, HostStep(p) \/ GuestStep(p),
           NEW q \in Pulls \ {p}, OwnOf(q)
    PROVE  OwnOf(q)'
<1>1. Same(q) /\ (disturbed[q] => disturbed'[q]) /\ changed' = changed
  BY OthersSame, DisturbedStays, HostKeepsGuest, GuestKeepsDisk
<1>2. CASE HostStep(p)
  <2>1. UNCHANGED guestVars
    BY <1>2, HostKeepsGuest
  <2> QED
    BY <1>1, <1>2, <2>1, DiskFrame, OwnFrame DEF guestVars
<1>3. CASE GuestStep(p)
  <2>1. UNCHANGED <<diskVars, file>>
    BY <1>3, GuestKeepsDisk
  <2>2. ~disturbed'[q] /\ host[q] \in Active => open' = open
    BY <1>3, GuestFrame
  <2> QED
    BY <1>1, <2>1, <2>2, OwnFrame DEF diskVars
<1> QED
  BY <1>2, <1>3

LEMMA OwnReceive ==
    ASSUME TypeOK, Control, NEW p \in Pulls, OwnOf(p), Receive(p)
    PROVE  OwnOf(p)'
<1> SUFFICES ASSUME ~disturbed[p], ~changed[p]
             PROVE  OwnOf(p)'
  BY DisturbedStays, HostKeepsGuest DEF HostStep, OwnOf
<1> DEFINE s == src[p]
           v == file[src[p]].version
           n == Len(reply[p].units)
<1>1. /\ host[p] = "waiting" /\ reply[p].kind = "read" /\ handle[p] # NoFile
      /\ handle[p] \in Inodes /\ s \in Sources /\ v \in 0..MaxVersion
      /\ got[p] \in Nat /\ total[p] \in Nat
      /\ reply[p].units \in Seq(Units) /\ n \in Nat
      /\ dst[p] \in Names /\ Temp(dst[p]) \in Names
  BY NamesOfDest DEF Receive, Control, TypeOK, Replies
<1>2. Partially(p) /\ Continues(p)
  BY <1>1 DEF OwnOf
<1>3. data'[handle[p]] = Prefix(s, v, got[p] + n)
  <2>1. reply[p].units = Segment(s, v, got[p], n)
    BY <1>2 DEF Continues
  <2>2. WrittenAt(Prefix(s, v, got[p]), got[p], reply[p].units) = Prefix(s, v, got[p] + n)
    BY <1>1, <2>1, WrittenExtends
  <2>3. data[handle[p]] = Prefix(s, v, got[p])
    BY <1>2 DEF Partially
  <2>4. data'[handle[p]] = WrittenAt(data[handle[p]], got[p], reply[p].units)
    BY <1>1 DEF Receive, TypeOK
  <2> QED
    BY <2>2, <2>3, <2>4
<1>4. Len(data'[handle[p]]) = got[p] + n
  <2>1. got[p] + n \in Nat
    BY <1>1
  <2>2. Len(Prefix(s, v, got[p] + n)) = got[p] + n
    BY <1>1, <2>1, PrefixIsSeq
  <2> QED
    BY <1>3, <2>2
<1>5. /\ got'[p] = got[p] + n /\ UNCHANGED <<src, dst, total, file, open, handle, handler>>
      /\ reply'[p].kind = "none"
  BY <1>1 DEF Receive, TypeOK, args, guestVars, NoReply
<1>6. CASE reply[p].eof
  <2>1. dir[Temp(dst[p])] = handle[p] /\ got[p] + n = total[p]
    BY <1>2, <1>6 DEF Partially, Continues
  <2>2. host'[p] = "renaming" /\ dir' = dir
    BY <1>1, <1>4, <1>6, <2>1 DEF Receive, TypeOK
  <2>3. Partially(p)' /\ got'[p] = total'[p]
    BY <1>1, <1>2, <1>3, <1>5, <2>1, <2>2 DEF Partially
  <2> QED
    BY <1>5, <2>2, <2>3 DEF OwnOf
<1>7. CASE ~reply[p].eof
  <2>1. got[p] + n <= total[p] /\ Served(p)
    BY <1>2, <1>7 DEF Continues
  <2>2. host'[p] = "asking" /\ dir' = dir
    BY <1>1, <1>7 DEF Receive, TypeOK
  <2>3. Partially(p)' /\ Served(p)'
    BY <1>1, <1>2, <1>3, <1>5, <2>1, <2>2 DEF Partially, Served
  <2> QED
    BY <1>5, <2>2, <2>3 DEF OwnOf
<1> QED
  BY <1>6, <1>7

LEMMA AnswerIs ==
    ASSUME TypeOK, NEW p \in Pulls, NEW r, Answer(p, r)
    PROVE  reply'[p] = reply[p] \/ reply'[p] = r
BY DEF Answer, TypeOK

LEMMA OwnHost ==
    ASSUME TypeOK, Control, NEW p \in Pulls, OwnOf(p), HostStep(p)
    PROVE  OwnOf(p)'
<1> SUFFICES ASSUME ~disturbed[p], ~changed[p]
             PROVE  OwnOf(p)'
  BY DisturbedStays, HostKeepsGuest DEF OwnOf
<1>0. /\ UNCHANGED <<src, dst, file, open>>
      /\ dst[p] \in Names /\ Temp(dst[p]) \in Names /\ Temp(dst[p]) # dst[p]
      /\ src[p] \in Sources /\ file[src[p]].version \in 0..MaxVersion
      /\ file[src[p]].len \in Nat
  BY HostKeepsGuest, NamesOfDest, PullAssumption DEF args, guestVars, TypeOK
<1>1. CASE Start(p)
  <2>1. host'[p] \in {"opening", "failed"} /\ reply'[p].kind = "none"
    BY <1>1 DEF Start, Control, TypeOK
  <2> QED
    BY <2>1 DEF OwnOf
<1>2. CASE Opened(p)
  <2> DEFINE inode == IF dir[Temp(dst[p])] = NoFile THEN p ELSE dir[Temp(dst[p])]
  <2>1. /\ Served(p) /\ reply[p].total = file[src[p]].len /\ got[p] = 0
    BY <1>2 DEF Opened, OwnOf, Control
  <2>2. /\ host'[p] = "asking" /\ reply'[p].kind = "none"
        /\ total'[p] = reply[p].total /\ got' = got
    BY <1>2 DEF Opened, TypeOK, NoReply
  <2>3. inode \in Inodes
    BY <1>0 DEF TypeOK, Inodes
  <2>4. /\ dir' = [dir EXCEPT ![Temp(dst[p])] = inode]
        /\ data' = [data EXCEPT ![inode] = <<>>]
        /\ handle' = [handle EXCEPT ![p] = inode]
    BY <1>2 DEF Opened
  <2>5. dir'[Temp(dst[p])] = handle'[p] /\ data'[handle'[p]] = <<>>
    <3> HIDE DEF inode
    <3> QED BY <1>0, <2>3, <2>4 DEF TypeOK
  <2>6. Partially(p)' /\ Served(p)'
    BY <1>0, <2>1, <2>2, <2>5, EmptyPrefix DEF Partially, Served
  <2> QED
    BY <2>2, <2>6 DEF OwnOf
<1>3. CASE Ask(p)
  <2>1. /\ host[p] = "asking" /\ host'[p] = "waiting" /\ handler'[p] = "select"
        /\ reply'[p].kind = "none" /\ UNCHANGED <<total, got, dir, data, handle>>
    BY <1>3 DEF Ask, Control, TypeOK, diskVars
  <2>2. Partially(p)' /\ Served(p)'
    BY <1>0, <2>1 DEF OwnOf, Partially, Served
  <2> QED
    BY <2>1, <2>2 DEF OwnOf
<1>4. CASE Receive(p)
  BY <1>4, OwnReceive
<1>5. CASE Rename(p)
  <2>1. /\ host[p] = "renaming" /\ host'[p] = "ok" /\ reply'[p].kind = "none"
        /\ UNCHANGED <<total, data, handle>>
        /\ dir'[dst[p]] = dir[Temp(dst[p])]
    BY <1>0, <1>5 DEF Rename, Control, TypeOK
  <2>2. Partially(p) /\ got[p] = total[p]
    BY <2>1 DEF OwnOf
  <2>3. /\ dir'[dst'[p]] = handle'[p]
        /\ data'[handle'[p]] = Prefix(src'[p], file[src[p]].version, total'[p])
    BY <1>0, <2>1, <2>2 DEF Partially
  <2> QED
    BY <1>0, <2>1, <2>3 DEF OwnOf
<1>6. CASE Fail(p)
  <2>1. host'[p] \in {"failed", "refused"} /\ reply'[p].kind = "none"
    BY <1>6 DEF Fail, TypeOK, NoReply
  <2> QED
    BY <2>1 DEF OwnOf
<1> QED
  BY <1>1, <1>2, <1>3, <1>4, <1>5, <1>6 DEF HostStep

\* What the guest answers an undisturbed pull continues what it has received.
LEMMA OwnRead ==
    ASSUME TypeOK, Control, NEW p \in Pulls, ReadChunk(p),
           host[p] = "waiting", Partially(p), Served(p), picked[p] = src[p]
    PROVE  Continues(p)'
<1> DEFINE s == src[p]
           v == file[src[p]].version
           len == file[src[p]].len
           upto == Shorter(got[p] + ChunkSize, len)
<1>1. PICK units \in Seq(Units), eof \in BOOLEAN : ReadsAs(p, units, eof)
  BY ReadShape
<1>2. /\ s \in Sources /\ v \in 0..MaxVersion /\ len \in Nat /\ got[p] \in Nat
      /\ total[p] = len /\ got[p] <= len /\ open[s] = len
      /\ ChunkSize \in Nat
  BY PullAssumption DEF TypeOK, Partially, Served
<1>3. UNCHANGED <<src, got, total, file>>
  BY <1>1 DEF ReadsAs, args, hostVars
<1>4. upto \in Nat /\ got[p] <= upto /\ upto <= len
  BY <1>2 DEF Shorter
<1>5. units = Part(s, v, len, got[p], upto)
  <2>1. Contents(s) = Prefix(s, v, len)
    BY DEF Contents, Prefix
  <2>2. Shorter(open[s], len) = len
    BY <1>2 DEF Shorter
  <2> QED
    BY <1>1, <2>1, <2>2 DEF ReadsAs, Part
<1>6. /\ Len(units) = upto - got[p]
      /\ units = Segment(s, v, got[p], upto - got[p])
  <2> HIDE DEF s, v, len, upto
  <2>1. PICK w \in 0..MaxVersion, k \in Nat, m \in Nat, n \in Nat :
           w = v /\ k = got[p] /\ m = upto /\ n = len
    BY <1>2, <1>4
  <2>2. k <= m /\ m <= n /\ s \in Sources
    BY <1>2, <1>4, <2>1
  <2>3. Len(Part(s, w, n, k, m)) = m - k /\ Part(s, w, n, k, m) = Segment(s, w, k, m - k)
    BY <2>2, PartOfPrefix
  <2> QED
    BY <1>5, <2>1, <2>3
<1>7. eof => got[p] + Len(units) >= len
  BY <1>1, <1>2 DEF ReadsAs
<1>8. reply'[p] = ReadReply(p, units, eof)
  BY <1>1 DEF ReadsAs, Answer, Active, TypeOK
<1>9. /\ reply'[p].offset = got[p] /\ reply'[p].total = len
      /\ reply'[p].units = units /\ reply'[p].eof = eof
  BY <1>1, <1>2, <1>8 DEF ReadReply
<1>10. IF eof THEN got[p] + Len(units) = len ELSE Served(p)'
  <2>1. CASE eof
    <3> HIDE DEF len, upto
    <3> QED BY <1>2, <1>4, <1>6, <1>7, <2>1
  <2>2. CASE ~eof
    BY <1>1, <1>3, <2>2 DEF ReadsAs, Served
  <2> QED
    BY <2>1, <2>2
<1>11. got[p] + Len(units) <= len
  BY <1>2, <1>4, <1>6
<1> QED
  BY <1>2, <1>3, <1>6, <1>9, <1>10, <1>11 DEF Continues

LEMMA OwnGuest ==
    ASSUME TypeOK, Control, NEW p \in Pulls, OwnOf(p), GuestStep(p)
    PROVE  OwnOf(p)'
<1> SUFFICES ASSUME ~disturbed[p], ~changed[p]
             PROVE  OwnOf(p)'
  BY DisturbedStays, GuestKeepsDisk DEF OwnOf
<1>0. /\ UNCHANGED <<host, src, dst, total, got, file, dir, data, handle>>
      /\ src[p] \in Sources /\ file[src[p]].len \in 0..MaxLen
  BY GuestKeepsDisk DEF args, hostVars, diskVars, TypeOK
<1>1. CASE BeginSource(p)
  <2>1. host[p] \in {"opening", "failed", "refused"} /\ reply[p].kind = "none"
    BY <1>1 DEF BeginSource, Control
  <2>2. Served(p)'
    BY <1>0, <1>1 DEF BeginSource, Served, TypeOK
  <2>3. reply'[p].kind = "opened" => reply'[p].total = file[src[p]].len
    <3>1. file[src[p]].len \in Nat
      BY <1>0, PullAssumption
    <3>2. [NoReply EXCEPT !.kind = "opened", !.total = file[src[p]].len].total
             = file[src[p]].len
      BY <3>1, OtherReplies
    <3> QED
      BY <1>1, <2>1, <3>2 DEF BeginSource, Answer, TypeOK
  <2> QED
    BY <1>0, <2>1, <2>2, <2>3 DEF OwnOf
<1>2. CASE Select(p)
  <2>1. /\ host[p] \in {"waiting", "failed", "refused"} /\ reply' = reply
        /\ handler[p] = "select" /\ open' = open /\ reply[p].kind = "none"
    BY <1>2 DEF Select, Control, guestVars
  <2>2. CASE host[p] = "waiting"
    <3>1. Partially(p) /\ Served(p)
      BY <2>1, <2>2 DEF OwnOf
    <3>2. src[p] \in OpenSources
      BY <1>0, <3>1, PullAssumption DEF OpenSources, Shut, Served
    <3>3. picked'[p] = src[p]
      BY <1>2, <3>2 DEF Select, TypeOK
    <3>4. Partially(p)' /\ Served(p)'
      BY <1>0, <2>1, <3>1 DEF Partially, Served
    <3> QED
      BY <1>0, <2>1, <2>2, <3>3, <3>4 DEF OwnOf
  <2>3. CASE host[p] # "waiting"
    BY <1>0, <2>1, <2>3 DEF OwnOf
  <2> QED
    BY <2>2, <2>3
<1>3. CASE Refused(p) \/ GuestError(p)
  <2>1. /\ handler'[p] = "none" /\ handler[p] # "none" /\ reply[p].kind = "none"
        /\ reply'[p].kind \in {"none", "protocol"}
    <3>1. handler[p] # "none" /\ reply[p].kind = "none" /\ handler'[p] = "none"
      BY <1>3 DEF Refused, Refuse, GuestError, Answer, Control, TypeOK
    <3>2. reply'[p] = reply[p] \/ reply'[p] = [NoReply EXCEPT !.kind = "protocol"]
      BY <1>3, AnswerIs DEF Refused, Refuse, GuestError
    <3> QED
      BY <3>1, <3>2, OtherReplies
  <2>2. host[p] \in {"opening", "waiting", "failed", "refused"}
    BY <2>1 DEF Control, TypeOK
  <2>3. Partially(p) => Partially(p)'
    BY <1>0 DEF Partially
  <2> QED
    BY <1>0, <2>1, <2>2, <2>3 DEF OwnOf
<1>4. CASE ReadChunk(p)
  <2>1. PICK units, eof : ReadsAs(p, units, eof)
    BY <1>4, ReadShape
  <2>2. /\ handler[p] = "read" /\ handler'[p] = "none"
        /\ host[p] \in {"waiting", "failed", "refused"} /\ reply[p].kind = "none"
    BY <2>1 DEF ReadsAs, Answer, Control, TypeOK
  <2>3. CASE host[p] = "waiting"
    <3>1. Partially(p) /\ Served(p) /\ picked[p] = src[p]
      BY <2>2, <2>3 DEF OwnOf
    <3>2. Continues(p)'
      BY <1>4, <2>3, <3>1, OwnRead
    <3>3. Partially(p)'
      BY <1>0, <3>1 DEF Partially
    <3>4. reply'[p].kind = "read"
      BY <2>1, <2>3 DEF ReadsAs, Answer, ReadReply, Active, TypeOK
    <3> QED
      BY <1>0, <2>2, <2>3, <3>2, <3>3, <3>4 DEF OwnOf
  <2>4. CASE host[p] # "waiting"
    <3>1. reply' = reply
      BY <2>1, <2>2, <2>4 DEF ReadsAs, Answer, Active
    <3> QED
      BY <1>0, <2>2, <2>4, <3>1 DEF OwnOf
  <2> QED
    BY <2>3, <2>4
<1> QED
  BY <1>1, <1>2, <1>3, <1>4 DEF GuestStep

-----------------------------------------------------------------------------
(* The theorems.                                                           *)

LEMMA InitIInv == Init => IInv
<1> SUFFICES ASSUME Init PROVE IInv
  OBVIOUS
<1>1. Control
  BY DEF Init, Control, NoReply
<1>2. Homes
  BY PullAssumption DEF Init, Homes, Stem, Names, Dests
<1>3. Accounted
  BY DEF Init, Accounted, OpenSources
<1>4. Own
  BY DEF Init, Own, OwnOf, NoReply
<1>5. Apart
  BY PullAssumption DEF Init, Apart, Names
<1> QED
  BY <1>1, <1>2, <1>3, <1>4, <1>5, InitType DEF IInv

LEMMA RewriteKeeps ==
    ASSUME IInv, NEW s \in Sources, Rewrite(s)
    PROVE  IInv'
<1>1. UNCHANGED <<args, hostVars, handler, picked, reply, open, diskVars, disturbed>>
  BY DEF Rewrite
<1>2. TypeOK'
  BY RewriteType DEF IInv
<1>3. Control'
  BY <1>1 DEF IInv, Control, hostVars, diskVars
<1>4. Homes'
  BY <1>1 DEF IInv, Homes, Stem, diskVars, args
<1>5. Accounted'
  BY <1>1 DEF IInv, Accounted, OpenSources, Responsible, hostVars, args, Shut
<1>6. Apart'
  BY <1>1 DEF IInv, Apart, hostVars, args, diskVars
<1>7. ASSUME NEW q \in Pulls PROVE OwnOf(q)'
  <2>1. Same(q)
    BY <1>1 DEF Same, hostVars, args, diskVars
  <2>2. changed'[q] = (changed[q] \/ host[q] \in Active)
    BY DEF Rewrite
  <2>3. Control /\ OwnOf(q)
    BY DEF IInv, Own
  <2> QED
    BY <1>1, <2>1, <2>2, <2>3, OwnFrame DEF diskVars
<1> QED
  BY <1>2, <1>3, <1>4, <1>5, <1>6, <1>7 DEF IInv, Own

LEMMA SaveKeeps ==
    ASSUME IInv, NEW d \in Dests, Save(d)
    PROVE  IInv'
<1>1. /\ UNCHANGED <<args, hostVars, handler, picked, reply, guestVars, data, handle, disturbed>>
      /\ dir' = [dir EXCEPT ![d] = d] /\ d \in Names /\ d \notin Pulls /\ d # NoFile
      /\ changed' \in [Pulls -> BOOLEAN]
  <2>1. d \in Names /\ d \notin Pulls /\ d # NoFile
    BY NamesOfDest, PullAssumption
  <2>2. changed' \in [Pulls -> BOOLEAN]
    BY DEF Save, IInv, TypeOK
  <2> QED
    BY <2>1, <2>2 DEF Save
<1>2. \A n \in Names : dir'[n] = IF n = d THEN d ELSE dir[n]
  BY <1>1 DEF IInv, TypeOK
<1>3. TypeOK'
  BY <1>1 DEF IInv, TypeOK, args, hostVars, guestVars, Inodes
<1>4. Control'
  BY <1>1 DEF IInv, Control, hostVars
<1>5. Homes'
  BY <1>1, <1>2 DEF IInv, Homes, Stem, args
<1>6. Apart'
  <2>1. UNCHANGED <<host, dst, handle, disturbed>>
    BY <1>1 DEF hostVars, args
  <2>2. \A p \in Pulls : Temp(dst[p]) \in Names /\ Temp(dst[p]) # d
    BY NamesOfDest DEF IInv, TypeOK
  <2>3. \A n \in Names : dir[n] = d => n = d
    BY <1>1 DEF IInv, Apart
  <2> QED
    BY <1>1, <1>2, <2>1, <2>2, <2>3 DEF IInv, Apart
<1>7. Accounted'
  BY <1>1 DEF IInv, Accounted, OpenSources, Responsible, hostVars, args, guestVars, Shut
<1>8. ASSUME NEW q \in Pulls PROVE OwnOf(q)'
  <2>1. Same(q)
    BY <1>1 DEF Same, hostVars, args
  <2>2. changed'[q] = (changed[q] \/ (dst[q] = d /\ host[q] = "ok"))
    BY DEF Save
  <2>3. Temp(dst[q]) \in Names /\ Temp(dst[q]) # d /\ dst[q] \in Names
    <3>1. dst[q] \in Dests
      BY DEF IInv, TypeOK
    <3> QED
      BY <3>1, NamesOfDest
  <2>4. Control /\ OwnOf(q)
    BY DEF IInv, Own
  <2> QED
    BY <1>1, <1>2, <2>1, <2>2, <2>3, <2>4, OwnFrame DEF guestVars
<1> QED
  BY <1>3, <1>4, <1>5, <1>6, <1>7, <1>8 DEF IInv, Own

LEMMA IInvNext == IInv /\ [Next]_vars => IInv'
<1> SUFFICES ASSUME IInv, [Next]_vars PROVE IInv'
  OBVIOUS
<1>1. CASE UNCHANGED vars
  <2> USE <1>1 DEF vars, args, hostVars, diskVars, guestVars, history, IInv
  <2>1. TypeOK' /\ Control' /\ Apart'
    BY DEF TypeOK, Control, Apart
  <2>2. Homes' /\ Accounted'
    BY DEF Homes, Stem, Accounted, OpenSources, Responsible, Shut
  <2>3. ASSUME NEW q \in Pulls PROVE OwnOf(q)'
    BY OwnFrame DEF Own, Same
  <2> QED
    BY <2>1, <2>2, <2>3 DEF Own
<1>2. ASSUME NEW p \in Pulls, HostStep(p) \/ GuestStep(p)
      PROVE  IInv'
  <2> USE DEF IInv
  <2>1. TypeOK'
    BY <1>2, HostType, GuestType
  <2>2. Control'
    BY <1>2, ControlHost, ControlGuest
  <2>3. Homes'
    BY <1>2, HomesStep
  <2>4. Accounted'
    BY <1>2, AccountedHost, AccountedGuest
  <2>5. Apart'
    BY <1>2, ApartStep
  <2>6. ASSUME NEW q \in Pulls PROVE OwnOf(q)'
    <3>1. OwnOf(q)
      BY DEF Own
    <3>2. CASE q = p
      BY <1>2, <3>1, <3>2, OwnHost, OwnGuest
    <3>3. CASE q # p
      BY <1>2, <3>1, <3>3, OwnOther
    <3> QED
      BY <3>2, <3>3
  <2> QED
    BY <2>1, <2>2, <2>3, <2>4, <2>5, <2>6 DEF Own
<1>3. ASSUME NEW s \in Sources, Rewrite(s)
      PROVE  IInv'
  BY <1>3, RewriteKeeps
<1>4. ASSUME NEW d \in Dests, Save(d)
      PROVE  IInv'
  BY <1>4, SaveKeeps
<1> QED
  BY <1>1, <1>2, <1>3, <1>4 DEF Next, HostStep, GuestStep

LEMMA Invariant == Spec => []IInv
BY InitIInv, IInvNext, PTL DEF Spec

\* Every reachable state of the pull protocol is of its types.
THEOREM PullTypeCorrect == Spec => []TypeOK
<1>1. IInv => TypeOK
  BY DEF IInv
<1> QED
  BY <1>1, Invariant, PTL

\* However many pulls there are and whatever earlier ones left behind: a pull that
\* reports success, and that nobody disturbed, has put the guest's whole file at its
\* destination.
THEOREM PullDelivers == Spec => []Delivered
<1>1. IInv => Delivered
  <2> SUFFICES ASSUME IInv, NEW p \in Pulls,
                      host[p] = "ok", ~disturbed[p], ~changed[p]
               PROVE  /\ dir[dst[p]] # NoFile
                      /\ \E v \in 0..MaxVersion :
                            data[dir[dst[p]]] = [i \in 1..total[p] |-> <<src[p], v, i>>]
    BY DEF Delivered
  <2>1. OwnOf(p) /\ handle[p] # NoFile
    BY DEF IInv, Own, Control
  <2> QED
    BY <2>1 DEF OwnOf, Prefix
<1> QED
  BY <1>1, Invariant, PTL

\* A source stays open only on account of a pull that runs or did not complete,
\* however many pulls share the guest's map.
THEOREM PullLeavesNothingOpen == Spec => []LeftoversAreInterrupted
<1>1. IInv => LeftoversAreInterrupted
  BY DEF IInv, Accounted, Responsible, LeftoversAreInterrupted
<1> QED
  BY <1>1, Invariant, PTL

\* However many pulls fail, in whatever order and at whatever point: the file at a
\* destination stays until a program or a completed pull to that name replaces it.
THEOREM PullKeepsOriginals == Spec => OriginalsSurvive
<1>1. IInv /\ [Next]_vars => [\A d \in Dests : OriginalSurvives(d)]_vars
  <2> SUFFICES ASSUME IInv, Next, NEW d \in Dests
               PROVE  OriginalSurvives(d)
    OBVIOUS
  <2>1. ASSUME NEW p \in Pulls, HostStep(p) \/ GuestStep(p)
        PROVE  OriginalSurvives(d)
    BY <2>1, OriginalKept DEF IInv
  <2>2. ASSUME NEW s \in Sources, Rewrite(s)
        PROVE  OriginalSurvives(d)
    BY <2>2 DEF Rewrite, OriginalSurvives, diskVars
  <2>3. ASSUME NEW e \in Dests, Save(e)
        PROVE  OriginalSurvives(d)
    <3>1. d \in Names /\ e \in Names
      BY NamesOfDest
    <3>2. e # d => dir'[d] = dir[d] /\ data' = data
      BY <2>3, <3>1 DEF Save, IInv, TypeOK
    <3> QED
      BY <2>3, <3>2 DEF OriginalSurvives
  <2> QED
    BY <2>1, <2>2, <2>3 DEF Next, HostStep, GuestStep
<1> QED
  BY <1>1, Invariant, PTL DEF Spec, OriginalsSurvive
=============================================================================
