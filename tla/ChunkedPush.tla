---------------------------- MODULE ChunkedPush ----------------------------
(***************************************************************************)
(* A chunked push, host and guest together.                                *)
(*                                                                         *)
(* `wvm push` (wvm-host/src/push.rs) opens a destination with one Transfer *)
(* request and then sends the file as TransferChunk requests, each on a    *)
(* TCP connection of its own and each awaited before the next.  The guest  *)
(* (wvm-guest/src/chunk.rs) keeps one process-wide map OPEN of transfers   *)
(* in progress; a chunk carries no path and no session, only an offset.    *)
(*                                                                         *)
(* A member of Pushes is one invocation of push().  Files are inodes, so   *)
(* that a handle may outlive the name it was opened under; contents are    *)
(* sequences of units <<p, i>>, the i-th unit of the source of push p.     *)
(* Requests and replies may be lost, the host may stop waiting at any      *)
(* time, and a request handler whose host is gone keeps running.           *)
(***************************************************************************)
EXTENDS Naturals, Sequences

CONSTANTS Pushes,     \* invocations of push()
          Paths,      \* destinations inside the staging root
          NoFile,     \* "nothing has this name"
          MaxLen,     \* bound: longest source file, in units
          ChunkSize,  \* CHUNK_SIZE, in units
          Exclusive   \* TRUE: a push starts only when every earlier one has
                      \* ended and its handler has returned

ASSUME PushAssumption ==
    /\ MaxLen \in Nat
    /\ ChunkSize \in Nat \ {0}
    /\ Exclusive \in BOOLEAN
    /\ Pushes \cap Paths = {}
    /\ NoFile \notin Pushes \cup Paths

VARIABLES
    host,       \* where push() is
    dst,        \* its guest_path argument
    overwrite,  \* its overwrite argument
    total,      \* total_bytes, read from the metadata when it started
    sent,       \* its `offset`
    handler,    \* where the guest's handler of its request is
    chunk,      \* the TransferChunk it last sent
    handle,     \* the inode its `begin` has created but not yet inserted
    reply,      \* the response on its way to the host
    disk,       \* the guest directory: path -> inode
    data,       \* inode -> contents
    open,       \* the guest's OPEN map
    disturbed,  \* history: another push's handler changed the guest meanwhile
    changed     \* history: a program rewrote the file since this push created it

hostVars  == <<host, dst, overwrite, total, sent>>
guestVars == <<disk, data, open>>
history   == <<disturbed, changed>>
vars == <<hostVars, handler, chunk, handle, reply, guestVars, history>>

-----------------------------------------------------------------------------
Inodes == Pushes \cup Paths   \* one per creating push, one per file of old
Units  == (Pushes \cup Paths \cup {NoFile}) \X Nat
Hole   == <<NoFile, 0>>       \* what a write beyond the end leaves behind
Closed == [inode |-> NoFile, expected |-> 0]
Local(a) == <<<<a, 1>>>>      \* what a program of the guest saves at a
NoReply == [kind |-> "none", total |-> 0]
NoChunk == [offset |-> 0, len |-> 0, eof |-> FALSE]

Active == {"opening", "sending", "waiting"}

\* The units of push p's source up to position n.
Source(p, n) == [i \in 1..n |-> <<p, i>>]

Longer(m, n) == IF m >= n THEN m ELSE n

\* The contents s after seek(off) and the write of n units of push p's source.
Put(s, off, p, n) ==
    [i \in 1..(IF n = 0 THEN Len(s) ELSE Longer(Len(s), off + n)) |->
        IF off < i /\ i <= off + n THEN <<p, i>>
        ELSE IF i <= Len(s) THEN s[i] ELSE Hole]

\* Variant: one write() whose short count is ignored, instead of write_all().
WrittenShort(s, off, p, n) == Put(s, off, p, IF n > 1 THEN n - 1 ELSE n)

Written(s, off, p, n) == Put(s, off, p, n)

OpenPaths == {a \in Paths : open[a] # Closed}

\* The size metadata() reports for a path, 0 when there is no such file.
SizeAt(a) == IF disk[a] = NoFile THEN 0 ELSE Len(data[disk[a]])

Init ==
    /\ host = [p \in Pushes |-> "idle"]
    /\ dst \in [Pushes -> Paths]
    /\ overwrite \in [Pushes -> BOOLEAN]
    /\ total = [p \in Pushes |-> 0]
    /\ sent = [p \in Pushes |-> 0]
    /\ handler = [p \in Pushes |-> "none"]
    /\ chunk = [p \in Pushes |-> NoChunk]
    /\ handle = [p \in Pushes |-> NoFile]
    /\ reply = [p \in Pushes |-> NoReply]
    /\ \E old \in SUBSET Paths : disk = [a \in Paths |-> IF a \in old THEN a ELSE NoFile]
    /\ data = [i \in Inodes |-> IF i \in Paths THEN Local(i) ELSE <<>>]
    /\ open = [a \in Paths |-> Closed]
    /\ disturbed = [p \in Pushes |-> FALSE]
    /\ changed = [p \in Pushes |-> FALSE]

-----------------------------------------------------------------------------
(* The host: push().                                                       *)

Start(p) ==
    /\ host[p] = "idle"
    /\ Exclusive => \A q \in Pushes : host[q] \notin Active /\ handler[q] = "none"
    /\ \E n \in 0..MaxLen : total' = [total EXCEPT ![p] = n]
    /\ host' = [host EXCEPT ![p] = "opening"]
    /\ handler' = [handler EXCEPT ![p] = "check"]
    /\ UNCHANGED <<dst, overwrite, sent, chunk, handle, reply, guestVars, history>>

Opened(p) ==
    /\ host[p] = "opening"
    /\ reply[p].kind = "opened"
    /\ host' = [host EXCEPT ![p] = "sending"]
    /\ reply' = [reply EXCEPT ![p] = NoReply]
    /\ UNCHANGED <<dst, overwrite, total, sent, handler, chunk, handle,
                   guestVars, history>>

\* One turn of the loop: read, decide whether this is the last chunk, send.
\* read() may return fewer units than asked for and returns 0 at the end; the
\* source is an ordinary file, `now` units long when it is read.
SendChunk(p) ==
    /\ host[p] = "sending"
    /\ \E now \in 0..MaxLen, n \in 0..ChunkSize :
          /\ IF sent[p] < now THEN n \in 1..(now - sent[p]) ELSE n = 0
          /\ LET last == sent[p] + n >= total[p] IN
             IF n = 0 /\ ~last
             THEN /\ host' = [host EXCEPT ![p] = "failed"]
                  /\ UNCHANGED <<handler, chunk>>
             ELSE /\ host' = [host EXCEPT ![p] = "waiting"]
                  /\ handler' = [handler EXCEPT ![p] = "chunk"]
                  /\ chunk' = [chunk EXCEPT ![p] =
                                  [offset |-> sent[p], len |-> n, eof |-> last]]
    /\ UNCHANGED <<dst, overwrite, total, sent, handle, reply, guestVars, history>>

\* A ChunkWritten reply: compare the guest's total with our own, and finish
\* after the chunk that was marked last.
Acknowledge(p, complete) ==
    /\ host[p] = "waiting"
    /\ reply[p].kind = "written"
    /\ LET offset == sent[p] + chunk[p].len IN
       /\ sent' = [sent EXCEPT ![p] = offset]
       /\ host' = [host EXCEPT ![p] =
                     IF reply[p].total # offset THEN "failed"
                     ELSE IF ~chunk[p].eof THEN "sending"
                     ELSE IF complete THEN "ok" ELSE "failed"]
    /\ reply' = [reply EXCEPT ![p] = NoReply]
    /\ UNCHANGED <<dst, overwrite, total, handler, chunk, handle, guestVars, history>>

\* Variant: the size sent is not compared with the size announced.
AcknowledgedUnchecked(p) == Acknowledge(p, TRUE)

Acknowledged(p) == Acknowledge(p, sent[p] + chunk[p].len = total[p])

\* Response::Error.  The three kinds are told apart only for the properties.
Refused(p) ==
    /\ host[p] \in {"opening", "waiting"}
    /\ reply[p].kind \in {"exists", "protocol", "io"}
    /\ host' = [host EXCEPT ![p] = IF reply[p].kind = "protocol" THEN "refused" ELSE "failed"]
    /\ reply' = [reply EXCEPT ![p] = NoReply]
    /\ UNCHANGED <<dst, overwrite, total, sent, handler, chunk, handle,
                   guestVars, history>>

\* guestclient::request returns an error: no connection, a torn reply or
\* REPLY_TIMEOUT.  Nothing tells the guest.
GiveUp(p) ==
    /\ host[p] \in {"opening", "waiting"}
    /\ host' = [host EXCEPT ![p] = "failed"]
    /\ reply' = [reply EXCEPT ![p] = NoReply]
    /\ UNCHANGED <<dst, overwrite, total, sent, handler, chunk, handle,
                   guestVars, history>>

\* The request never reaches the guest, or its connection is refused.
LoseRequest(p) ==
    /\ handler[p] \in {"check", "chunk"}
    /\ handler' = [handler EXCEPT ![p] = "none"]
    /\ UNCHANGED <<hostVars, chunk, handle, reply, guestVars, history>>

-----------------------------------------------------------------------------
(* The guest: chunk::begin, in the steps other threads can come between.   *)

\* A handler ends by answering; nobody listens once the host has given up.
Answer(p, kind, n) ==
    /\ handler' = [handler EXCEPT ![p] = "none"]
    /\ reply' = IF host[p] \in Active
                THEN [reply EXCEPT ![p] = [kind |-> kind, total |-> n]]
                ELSE reply

\* The handler of q changes the guest: a push in progress, at the host or in
\* the guest, or one that has reported success for the same path, can no longer
\* rely on what it saw.
Disturb(q) ==
    disturbed' = [p \in Pushes |->
        \/ disturbed[p]
        \/ /\ p # q
           /\ \/ host[p] \in Active
              \/ handler[p] # "none"
              \/ host[p] = "ok" /\ dst[p] = dst[q]]

\* metadata() and the overwrite refusal, create_dir_all.
BeginCheck(p) ==
    /\ handler[p] = "check"
    /\ \/ /\ SizeAt(dst[p]) > 0 /\ ~overwrite[p]
          /\ Answer(p, "exists", 0)
       \/ /\ SizeAt(dst[p]) = 0 \/ overwrite[p]
          /\ handler' = [handler EXCEPT ![p] = "cleanup"]
          /\ UNCHANGED reply
    /\ UNCHANGED <<hostVars, chunk, handle, guestVars, history>>

\* Under the lock: forget every open transfer and remove its file, ignoring
\* a removal that fails.
Cleanup(p, stale) ==
    /\ handler[p] = "cleanup"
    /\ \E removed \in SUBSET stale :
          disk' = [a \in Paths |-> IF a \in removed THEN NoFile ELSE disk[a]]
    /\ open' = [a \in Paths |-> IF a \in stale THEN Closed ELSE open[a]]
    /\ handler' = [handler EXCEPT ![p] = "create"]
    /\ Disturb(p)
    /\ UNCHANGED <<hostVars, chunk, handle, reply, data, changed>>

\* Variant: only a stale entry for the same path is forgotten.
BeginCleanupOwnPath(p) == Cleanup(p, OpenPaths \cap {dst[p]})

BeginCleanup(p) == Cleanup(p, OpenPaths)

\* File::create, outside the lock: a new file, or the one that is there by now,
\* truncated.
BeginCreate(p) ==
    /\ handler[p] = "create"
    /\ LET inode == IF disk[dst[p]] = NoFile THEN p ELSE disk[dst[p]] IN
       /\ disk' = [disk EXCEPT ![dst[p]] = inode]
       /\ data' = [data EXCEPT ![inode] = <<>>]
       /\ handle' = [handle EXCEPT ![p] = inode]
    /\ handler' = [handler EXCEPT ![p] = "insert"]
    /\ Disturb(p)
    /\ UNCHANGED <<hostVars, chunk, reply, open, changed>>

\* Under the lock again: the transfer is open from here on.
BeginInsert(p) ==
    /\ handler[p] = "insert"
    /\ open' = [open EXCEPT ![dst[p]] = [inode |-> handle[p], expected |-> 0]]
    /\ handle' = [handle EXCEPT ![p] = NoFile]
    /\ Answer(p, "opened", 0)
    /\ Disturb(p)
    /\ UNCHANGED <<hostVars, chunk, disk, data, changed>>

\* The directory or the file cannot be created, or the path is refused.
BeginFails(p) ==
    /\ handler[p] \in {"check", "create"}
    /\ Answer(p, "io", 0)
    /\ UNCHANGED <<hostVars, chunk, handle, guestVars, history>>

-----------------------------------------------------------------------------
(* The guest: chunk::write_chunk, which holds the lock throughout.         *)

\* The only open transfer, and the chunk begins where it stands.
InSequence(p, a) ==
    /\ OpenPaths = {a}
    /\ chunk[p].offset = open[a].expected

RefuseChunk(p, kind) ==
    /\ handler[p] = "chunk"
    /\ ~ \E a \in OpenPaths : InSequence(p, a)
    /\ Answer(p, kind, 0)
    /\ UNCHANGED <<hostVars, chunk, handle, guestVars, history>>

WriteRefused(p) == RefuseChunk(p, "protocol")

\* write_all fails, perhaps having written a part: the offset stays.
WriteFails(p) ==
    /\ handler[p] = "chunk"
    /\ \E a \in OpenPaths :
          /\ InSequence(p, a)
          /\ \E n \in 0..chunk[p].len :
                /\ n = 0 \/ n < chunk[p].len
                /\ data' = [data EXCEPT ![open[a].inode] = Written(@, chunk[p].offset, p, n)]
    /\ Answer(p, "io", 0)
    /\ Disturb(p)
    /\ UNCHANGED <<hostVars, chunk, handle, disk, open, changed>>

\* The chunk is in place.  After the last one the file is flushed, its size
\* on disk is confirmed and the transfer is closed; when flushing fails or
\* the size differs the transfer stays open and the reply is an error.
WriteChunk(p) ==
    /\ handler[p] = "chunk"
    /\ \E a \in OpenPaths :
          LET inode == open[a].inode
              now == chunk[p].offset + chunk[p].len
              size == IF disk[a] = NoFile THEN 0 ELSE Len(data'[disk[a]])
              confirmed == disk[a] # NoFile /\ size = now
          IN
          /\ InSequence(p, a)
          /\ data' = [data EXCEPT ![inode] =
                         Written(@, chunk[p].offset, p, chunk[p].len)]
          /\ \/ /\ ~chunk[p].eof
                /\ open' = [open EXCEPT ![a].expected = now]
                /\ Answer(p, "written", now)
             \/ /\ chunk[p].eof
                /\ confirmed
                /\ open' = [open EXCEPT ![a] = Closed]
                /\ Answer(p, "written", now)
             \/ /\ chunk[p].eof    \* flush or sync_all failed, or ~confirmed
                /\ open' = [open EXCEPT ![a].expected = now]
                /\ Answer(p, "io", 0)
    /\ Disturb(p)
    /\ UNCHANGED <<hostVars, chunk, handle, disk, changed>>

-----------------------------------------------------------------------------
(* The guest's other programs.                                             *)

\* begin() has truncated the file for p, and p or its caller counts on it.
Relies(p) ==
    \/ handler[p] \in {"insert", "chunk"}
    \/ reply[p].kind = "opened"
    \/ host[p] \in {"sending", "waiting", "ok"}

\* A program in the guest saves a file at a, which may be the destination of a
\* push at any point of its course.  A new file has the inode a: as a bound, no
\* program makes one while a handle of an earlier one is left.
Save(a) ==
    /\ disk[a] = NoFile => /\ \A q \in Pushes : handle[q] # a
                           /\ \A b \in Paths : open[b].inode # a
    /\ LET inode == IF disk[a] = NoFile THEN a ELSE disk[a] IN
       /\ disk' = [disk EXCEPT ![a] = inode]
       /\ data' = [data EXCEPT ![inode] = Local(a)]
    /\ changed' = [p \in Pushes |-> changed[p] \/ (dst[p] = a /\ Relies(p))]
    /\ UNCHANGED <<hostVars, handler, chunk, handle, reply, open, disturbed>>

-----------------------------------------------------------------------------
HostNext(p) ==
    \/ Start(p) \/ Opened(p) \/ SendChunk(p)
    \/ Acknowledged(p) \/ Refused(p) \/ GiveUp(p) \/ LoseRequest(p)

GuestNext(p) ==
    \/ BeginCheck(p) \/ BeginCleanup(p) \/ BeginCreate(p) \/ BeginInsert(p)
    \/ BeginFails(p) \/ WriteRefused(p) \/ WriteFails(p) \/ WriteChunk(p)

Next ==
    \/ \E p \in Pushes : HostNext(p) \/ GuestNext(p)
    \/ \E a \in Paths : Save(a)

Spec == Init /\ [][Next]_vars
-----------------------------------------------------------------------------
(* Properties.                                                             *)

Phases == {"idle", "opening", "sending", "waiting", "ok", "failed", "refused"}
Steps == {"none", "check", "cleanup", "create", "insert", "chunk"}

TypeOK ==
    /\ host \in [Pushes -> Phases]
    /\ dst \in [Pushes -> Paths]
    /\ overwrite \in [Pushes -> BOOLEAN]
    /\ total \in [Pushes -> Nat]
    /\ sent \in [Pushes -> Nat]
    /\ handler \in [Pushes -> Steps]
    /\ chunk \in [Pushes -> [offset : Nat, len : Nat, eof : BOOLEAN]]
    /\ handle \in [Pushes -> Inodes \cup {NoFile}]
    /\ reply \in [Pushes -> [kind : {"none", "opened", "written", "exists", "protocol", "io"},
                             total : Nat]]
    /\ disk \in [Paths -> Inodes \cup {NoFile}]
    /\ data \in [Inodes -> Seq(Units)]
    /\ open \in [Paths -> [inode : Inodes \cup {NoFile}, expected : Nat]]
    /\ disturbed \in [Pushes -> BOOLEAN]
    /\ changed \in [Pushes -> BOOLEAN]

\* The file named a exists and its contents are s.
Holds(a, s) == disk[a] # NoFile /\ data[disk[a]] = s

\* push() reports success only for a file that is at the destination with
\* every byte of the source, and keeps its word: unless the handler of
\* another push changed the guest while this one was running, or a push to
\* the same path did so since, or a program rewrote the file itself.
\* Transfers to other paths, abandoned ones and the removal of their files
\* never reach a completed file, and what a program saved at the destination
\* before it was truncated never shows in it.
Delivered ==
    \A p \in Pushes :
        host[p] = "ok" /\ ~disturbed[p] /\ ~changed[p] =>
            Holds(dst[p], Source(p, total[p]))

\* Whatever interrupted pushes leave behind (open transfers, partial files,
\* lost replies), and whatever programs do to the files, a push that no other
\* push interferes with is never refused with "no transfer is open",
\* "transfers are open" or "chunk claims offset": one interrupted client does
\* not take the verb out of service.
RefusalMeansInterference ==
    \A p \in Pushes : host[p] = "refused" => disturbed[p]

\* "a caller that did not ask to overwrite must not end up with a truncated file"
\* (wvm-guest/src/chunk.rs:82): a push without the flag truncates no file with
\* contents.  begin() looks at the size first, but File::create truncates what
\* a program has saved there since the look.
TruncatesWithLeave ==
    \A p \in Pushes :
        handler[p] = "create" /\ handler'[p] = "insert" /\ ~overwrite[p] => SizeAt(dst[p]) = 0

OverwriteHonoured == [][TruncatesWithLeave]_vars

ConfirmsWhole ==
    \A a \in Paths, p \in Pushes :
        /\ handler[p] = "chunk" /\ handler'[p] = "none"
        /\ open[a] # Closed /\ open'[a] = Closed
        /\ ~changed[p]
        => \E q \in Pushes : Holds(a, Source(q, Len(data[disk[a]])))'

\* A file the guest confirms as complete (last chunk written, size on disk
\* compared, transfer closed) is the source of one push from end to end, unless
\* a program rewrote it meanwhile: the offset check leaves no gap, no overlap
\* and no unit of another push in it.
ConfirmedFileIsWhole == [][ConfirmsWhole]_vars

-----------------------------------------------------------------------------
(* The abstract file delivery this implements when pushes do not overlap.  *)

Report(p) ==
    CASE host[p] = "idle" -> "pending"
      [] host[p] \in Active -> "running"
      [] host[p] = "ok" -> "ok"
      [] OTHER -> "failed"

Delivery == INSTANCE FileDelivery WITH
    Absent   <- NoFile,
    target   <- dst,
    want     <- [p \in Pushes |-> Source(p, total[p])],
    report   <- [p \in Pushes |-> Report(p)],
    store    <- [a \in Paths |-> IF disk[a] = NoFile THEN NoFile ELSE data[disk[a]]],
    promised <- {dst[p] : p \in {q \in Pushes :
                                    host[q] = "ok" /\ ~disturbed[q] /\ ~changed[q]}},
    touched  <- {p \in Pushes : changed[p]}

\* With one push at a time, the protocol is a file delivery.
ImplementsDelivery == Delivery!Spec
=============================================================================
