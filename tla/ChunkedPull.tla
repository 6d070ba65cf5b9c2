---------------------------- MODULE ChunkedPull ----------------------------
(***************************************************************************)
(* A chunked pull, host and guest together.                                *)
(*                                                                         *)
(* `wvm pull` (wvm-host/src/pull.rs) asks the guest to open a file with    *)
(* one Transfer request, then asks for it chunk by chunk with PullChunk    *)
(* requests that name an offset but no file, writes what it receives to a  *)
(* temporary file and renames that into place.  The guest                  *)
(* (wvm-guest/src/pull.rs) keeps a process-wide map OPEN of files being    *)
(* served and serves whichever file is alone in it.                        *)
(*                                                                         *)
(* A member of Pulls is one invocation of pull().  A host name is a pair   *)
(* <<stem, extension>>; a unit of a guest file is <<source, version, i>>.  *)
(***************************************************************************)
EXTENDS Naturals, Sequences

CONSTANTS Pulls,       \* invocations of pull()
          Sources,     \* guest files inside the staging root
          Stems, Exts, \* the host names a pull may be asked to write
          Partial,     \* the extension "wvm-partial"
          NoFile,      \* "nothing has this name"
          MaxLen,      \* bound: longest guest file, in units
          MaxVersion,  \* bound: no rewrite once a file has this version
          ChunkSize,   \* CHUNK_SIZE, in units
          Exclusive    \* TRUE: a pull starts only when every earlier one has
                       \* ended and its handler has returned

Dests == Stems \X Exts
Names == Dests \cup (Stems \X {Partial})

ASSUME PullAssumption ==
    /\ MaxLen \in Nat /\ MaxVersion \in Nat
    /\ ChunkSize \in Nat \ {0}
    /\ Exclusive \in BOOLEAN
    /\ Partial \notin Exts
    /\ NoFile \notin Pulls \cup Names \cup Sources
    /\ Pulls \cap Names = {}

VARIABLES
    host,       \* where pull() is
    src,        \* its guest_path argument, as the file it names
    dst,        \* its host_path argument
    overwrite,  \* its overwrite argument
    total,      \* the size the guest announced
    got,        \* its `offset`
    handler,    \* where the guest's handler of its request is
    picked,     \* the source a PullChunk handler has chosen
    reply,      \* the response on its way to the host
    open,       \* the guest's OPEN map: source -> size at open, or Shut
    file,       \* the guest's files: length and version
    dir,        \* the host's directory: name -> inode
    data,       \* host inode -> contents
    handle,     \* the inode pull() writes to
    disturbed,  \* history: another pull changed what this one relies on
    changed     \* history: a program rewrote the guest's file during the pull,
                \* or the host's after it

args      == <<src, dst, overwrite>>
hostVars  == <<host, total, got>>
diskVars  == <<dir, data, handle>>
history   == <<disturbed, changed>>
guestVars == <<open, file>>
vars == <<args, hostVars, handler, picked, reply, guestVars, diskVars, history>>

-----------------------------------------------------------------------------
Shut == MaxLen + 1         \* the source is not open
Inodes == Pulls \cup Names \* one per creating pull, one per file a program saved
Hole == <<NoFile, 0, 0>>   \* what a write beyond the end leaves behind
Local == <<<<NoFile, 0, 1>>>>   \* what a program of the host saves
OpenSources == {s \in Sources : open[s] # Shut}
NoReply == [kind |-> "none", offset |-> 0, units |-> <<>>, eof |-> FALSE, total |-> 0]

Active == {"opening", "asking", "waiting", "renaming"}

Shorter(m, n) == IF m <= n THEN m ELSE n
Longer(m, n) == IF m >= n THEN m ELSE n

\* Variant: what is received is written to the destination itself.
TempInPlace(d) == d

\* host_path.with_extension("wvm-partial")
Temp(d) == <<d[1], Partial>>

Contents(s) == [i \in 1..file[s].len |-> <<s, file[s].version, i>>]

\* The contents s after write_all(units) at position off.
WrittenAt(s, off, units) ==
    [i \in 1..(IF units = <<>> THEN Len(s) ELSE Longer(Len(s), off + Len(units))) |->
        IF off < i /\ i <= off + Len(units) THEN units[i - off]
        ELSE IF i <= Len(s) THEN s[i] ELSE Hole]

Init ==
    /\ host = [p \in Pulls |-> "idle"]
    /\ src \in [Pulls -> Sources]
    /\ dst \in [Pulls -> Dests]
    /\ overwrite \in [Pulls -> BOOLEAN]
    /\ total = [p \in Pulls |-> 0]
    /\ got = [p \in Pulls |-> 0]
    /\ handler = [p \in Pulls |-> "none"]
    /\ picked = [p \in Pulls |-> NoFile]
    /\ reply = [p \in Pulls |-> NoReply]
    /\ open = [s \in Sources |-> Shut]
    /\ \E n \in 0..MaxLen : file = [s \in Sources |-> [len |-> n, version |-> 0]]
    /\ \E old \in SUBSET Dests : dir = [d \in Names |-> IF d \in old THEN d ELSE NoFile]
    /\ data = [i \in Inodes |-> IF i \in Pulls THEN <<>> ELSE Local]
    /\ handle = [p \in Pulls |-> NoFile]
    /\ disturbed = [p \in Pulls |-> FALSE]
    /\ changed = [p \in Pulls |-> FALSE]

-----------------------------------------------------------------------------
\* Pull q changes the guest's map, which every pull in progress relies on.
DisturbGuest(q) ==
    disturbed' = [p \in Pulls |->
        disturbed[p] \/ (p # q /\ (host[p] \in Active \/ handler[p] # "none"))]

\* Pull q writes, renames or removes its temporary file: that concerns a pull
\* in progress with the same temporary name, and one that put a file there.
DisturbDisk(q) ==
    disturbed' = [p \in Pulls |->
        \/ disturbed[p]
        \/ /\ p # q
           /\ Temp(dst[p]) = Temp(dst[q])
           /\ host[p] \in Active \cup {"ok"}]

-----------------------------------------------------------------------------
(* The host: pull().                                                       *)

\* An existing destination is refused before the guest hears of anything.
Start(p) ==
    /\ host[p] = "idle"
    /\ Exclusive => \A q \in Pulls : host[q] \notin Active /\ handler[q] = "none"
    /\ \/ /\ dir[dst[p]] # NoFile /\ ~overwrite[p]
          /\ host' = [host EXCEPT ![p] = "failed"]
          /\ UNCHANGED handler
       \/ /\ dir[dst[p]] = NoFile \/ overwrite[p]
          /\ host' = [host EXCEPT ![p] = "opening"]
          /\ handler' = [handler EXCEPT ![p] = "begin"]
    /\ UNCHANGED <<args, total, got, picked, reply, guestVars, diskVars, history>>

\* The guest opened the source and echoed the path as it was spelled.  The
\* temporary file is created, or truncated.
Opened(p) ==
    /\ host[p] = "opening"
    /\ reply[p].kind = "opened"
    /\ LET temp == Temp(dst[p])
           inode == IF dir[temp] = NoFile THEN p ELSE dir[temp] IN
       /\ dir' = [dir EXCEPT ![temp] = inode]
       /\ data' = [data EXCEPT ![inode] = <<>>]
       /\ handle' = [handle EXCEPT ![p] = inode]
    /\ host' = [host EXCEPT ![p] = "asking"]
    /\ total' = [total EXCEPT ![p] = reply[p].total]
    /\ reply' = [reply EXCEPT ![p] = NoReply]
    /\ DisturbDisk(p)
    /\ UNCHANGED <<args, got, handler, picked, guestVars, changed>>

Ask(p) ==
    /\ host[p] = "asking"
    /\ host' = [host EXCEPT ![p] = "waiting"]
    /\ handler' = [handler EXCEPT ![p] = "select"]
    /\ UNCHANGED <<args, total, got, picked, reply, guestVars, diskVars, history>>

\* A ChunkRead reply that describes what was asked for is written.  After the
\* last one the size announced is compared with our count and with the size
\* on disk of the file that has the temporary name.
Receive(p) ==
    LET r == reply[p]
        at == got[p] + Len(r.units)
        temp == Temp(dst[p])
        complete == at = total[p] /\ dir[temp] # NoFile /\ Len(data'[dir[temp]]) = at
    IN
    /\ host[p] = "waiting"
    /\ r.kind = "read"
    /\ r.offset = got[p] /\ r.total = total[p]
    /\ r.units # <<>> \/ r.eof
    /\ data' = [data EXCEPT ![handle[p]] = WrittenAt(@, got[p], r.units)]
    /\ got' = [got EXCEPT ![p] = at]
    /\ host' = [host EXCEPT ![p] = IF ~r.eof THEN "asking"
                                   ELSE IF complete THEN "renaming" ELSE "failed"]
    /\ dir' = IF r.eof /\ ~complete THEN [dir EXCEPT ![temp] = NoFile] ELSE dir
    /\ reply' = [reply EXCEPT ![p] = NoReply]
    /\ DisturbDisk(p)
    /\ UNCHANGED <<args, total, handler, picked, guestVars, handle, changed>>

\* The rename that makes the file appear, in the place of whatever is there by now.
Rename(p) ==
    /\ host[p] = "renaming"
    /\ dir[Temp(dst[p])] # NoFile
    /\ host' = [host EXCEPT ![p] = "ok"]
    /\ dir' = [dir EXCEPT ![dst[p]] = dir[Temp(dst[p])], ![Temp(dst[p])] = NoFile]
    /\ DisturbDisk(p)
    /\ UNCHANGED <<args, total, got, handler, picked, reply, guestVars, data, handle, changed>>

\* pull() returns an error: Response::Error, any other unwelcome reply, none at
\* all (REPLY_TIMEOUT, a lost connection), a failed write, flush or rename.  One
\* such reply follows from the argument alone: the guest echoes the path with
\* its slashes turned into backslashes, and pull() stops at the difference.
\* While chunks are being received the temporary file is removed; before and
\* after that it is left alone.  The refusal that blames the protocol is told
\* apart for the properties.
Fail(p) ==
    /\ host[p] \in {"opening", "waiting", "renaming"}
    /\ host' = [host EXCEPT ![p] = IF reply[p].kind = "protocol" THEN "refused" ELSE "failed"]
    /\ reply' = [reply EXCEPT ![p] = NoReply]
    /\ \/ /\ host[p] = "waiting"
          /\ dir' = [dir EXCEPT ![Temp(dst[p])] = NoFile]
          /\ DisturbDisk(p)
       \/ /\ host[p] # "waiting"
          /\ UNCHANGED <<dir, disturbed>>
    /\ UNCHANGED <<args, total, got, handler, picked, guestVars, data, handle, changed>>

-----------------------------------------------------------------------------
(* The guest: begin_source, only_open_source and read_chunk.               *)

\* A handler ends by answering; nobody listens once the host has given up.
Answer(p, r) ==
    /\ handler' = [handler EXCEPT ![p] = "none"]
    /\ reply' = IF host[p] \in Active THEN [reply EXCEPT ![p] = r] ELSE reply

\* metadata() and File::open, then the insertion, which replaces an entry for
\* the same path and leaves every other one.  Only the insertion is visible to
\* others, and a rewrite between the two is no different from one just after.
BeginSource(p) ==
    /\ handler[p] = "begin"
    /\ open' = [open EXCEPT ![src[p]] = file[src[p]].len]
    /\ Answer(p, [NoReply EXCEPT !.kind = "opened", !.total = file[src[p]].len])
    /\ DisturbGuest(p)
    /\ UNCHANGED <<args, hostVars, picked, file, diskVars, changed>>

\* only_open_source, under the lock: the chunk request names no file.
Select(p) ==
    /\ handler[p] = "select"
    /\ \E s \in OpenSources :
          /\ OpenSources = {s}
          /\ picked' = [picked EXCEPT ![p] = s]
    /\ handler' = [handler EXCEPT ![p] = "read"]
    /\ UNCHANGED <<args, hostVars, reply, guestVars, diskVars, history>>

\* None is open, or several; or the one selected has been closed since, or is
\* shorter than the offset asked for.
Refuse(p, kind) ==
    /\ \/ handler[p] = "select" /\ \A s \in OpenSources : OpenSources # {s}
       \/ handler[p] = "read" /\ (open[picked[p]] = Shut \/ got[p] > open[picked[p]])
    /\ Answer(p, [NoReply EXCEPT !.kind = kind])
    /\ picked' = [picked EXCEPT ![p] = NoFile]
    /\ UNCHANGED <<args, hostVars, guestVars, diskVars, history>>

Refused(p) == Refuse(p, "protocol")

\* read_chunk, under the lock again: seek, read up to ChunkSize units but not
\* beyond the size the file had when it was opened, and close on the last one.
ReadAt(p, pos, close) ==
    LET s == picked[p]
        upto == Shorter(pos + ChunkSize, Shorter(open[s], file[s].len))
        units == SubSeq(Contents(s), pos + 1, upto)
        eof == got[p] + Len(units) >= open[s]
    IN
    /\ handler[p] = "read"
    /\ open[s] # Shut /\ got[p] <= open[s]
    /\ Answer(p, [kind |-> "read", offset |-> got[p], units |-> units,
                  eof |-> eof, total |-> open[s]])
    /\ \/ /\ eof
          /\ open' = [open EXCEPT ![s] = close]
          /\ DisturbGuest(p)
       \/ /\ ~eof
          /\ UNCHANGED <<open, disturbed>>
    /\ picked' = [picked EXCEPT ![p] = NoFile]
    /\ UNCHANGED <<args, hostVars, file, diskVars, changed>>

\* Variants: the seek is forgotten; the last chunk leaves its source open.
ReadWithoutSeek(p) == ReadAt(p, 0, Shut)
ReadLeavesOpen(p) == ReadAt(p, got[p], open[picked[p]])

ReadChunk(p) == ReadAt(p, got[p], Shut)

\* The request is lost, the path refused, the file missing or unreadable, and
\* the map as it was.  An error reply is left out: the host does with it what
\* it does when none arrives.
GuestError(p) ==
    /\ handler[p] # "none"
    /\ handler' = [handler EXCEPT ![p] = "none"]
    /\ picked' = [picked EXCEPT ![p] = NoFile]
    /\ UNCHANGED <<args, hostVars, reply, guestVars, diskVars, history>>

\* A program in the guest rewrites a file.
Rewrite(s) ==
    /\ \A t \in Sources : file[t].version < MaxVersion
    /\ \E n \in 0..MaxLen :
          file' = [file EXCEPT ![s] = [len |-> n, version |-> @.version + 1]]
    /\ changed' = [p \in Pulls |-> changed[p] \/ host[p] \in Active]
    /\ UNCHANGED <<args, hostVars, handler, picked, reply, open, diskVars, disturbed>>

\* A program on the host, or its user, saves a file at a destination.  Nobody
\* but pull() uses the temporary names.
Save(d) ==
    /\ dir[d] # d
    /\ dir' = [dir EXCEPT ![d] = d]
    /\ changed' = [p \in Pulls |-> changed[p] \/ (dst[p] = d /\ host[p] = "ok")]
    /\ UNCHANGED <<args, hostVars, handler, picked, reply, guestVars, data, handle, disturbed>>

-----------------------------------------------------------------------------
Next ==
    \/ \E p \in Pulls :
          \/ Start(p) \/ Opened(p) \/ Ask(p) \/ Receive(p) \/ Rename(p) \/ Fail(p)
          \/ BeginSource(p) \/ Select(p) \/ Refused(p) \/ ReadChunk(p) \/ GuestError(p)
    \/ \E s \in Sources : Rewrite(s)
    \/ \E d \in Dests : Save(d)

Spec == Init /\ [][Next]_vars
-----------------------------------------------------------------------------
(* Properties.                                                             *)

Units == (Sources \cup {NoFile}) \X (0..MaxVersion) \X Nat
Replies == [kind : {"none", "opened", "read", "protocol"}, offset : Nat,
            units : Seq(Units), eof : BOOLEAN, total : Nat]

TypeOK ==
    /\ host \in [Pulls -> Active \cup {"idle", "ok", "failed", "refused"}]
    /\ src \in [Pulls -> Sources]
    /\ dst \in [Pulls -> Dests]
    /\ overwrite \in [Pulls -> BOOLEAN]
    /\ total \in [Pulls -> Nat]
    /\ got \in [Pulls -> Nat]
    /\ handler \in [Pulls -> {"none", "begin", "select", "read"}]
    /\ picked \in [Pulls -> Sources \cup {NoFile}]
    /\ reply \in [Pulls -> Replies]
    /\ open \in [Sources -> 0..Shut]
    /\ file \in [Sources -> [len : 0..MaxLen, version : 0..MaxVersion]]
    /\ dir \in [Names -> Inodes \cup {NoFile}]
    /\ data \in [Inodes -> Seq(Units)]
    /\ handle \in [Pulls -> Inodes \cup {NoFile}]
    /\ disturbed \in [Pulls -> BOOLEAN]
    /\ changed \in [Pulls -> BOOLEAN]

\* pull() reports success only when the destination holds the guest's file,
\* every unit in its place, provided no other pull touched the guest's map or
\* the same temporary name meanwhile and no program rewrote the file, on the
\* guest during the pull or on the host after it.  What earlier pulls left behind
\* (open sources, temporary files, handlers still running) never reaches the
\* destination, nor does what a program saved there during the pull stay.
Delivered ==
    \A p \in Pulls :
        host[p] = "ok" /\ ~disturbed[p] /\ ~changed[p] =>
            /\ dir[dst[p]] # NoFile
            /\ \E v \in 0..MaxVersion :
                  data[dir[dst[p]]] = [i \in 1..total[p] |-> <<src[p], v, i>>]

\* The guest holds a source open only on account of a pull that is still
\* running or that did not complete: a pull that succeeds leaves nothing
\* behind that could refuse the next one, however many pulls overlap.
LeftoversAreInterrupted ==
    \A s \in OpenSources :
        \E p \in Pulls : src[p] = s /\ host[p] \notin {"idle", "ok"}

\* "A pull that clobbered a local file and then failed would have destroyed the
\* original for nothing" (wvm-host/src/pull.rs:60-61): what is at a destination,
\* a program's file or one pulled earlier, stays as it is through every step of
\* every pull, a failing one's included, until a program saves another or a
\* pull to this name renames its file there.  The exception is a pull whose
\* temporary file another one has renamed to this destination: it goes on
\* writing to it.
OriginalSurvives(d) ==
    dir[d] # NoFile =>
        \/ dir'[d] # NoFile /\ data'[dir'[d]] = data[dir[d]]
        \/ Save(d)
        \/ \E p \in Pulls : dst[p] = d /\ Rename(p)
        \/ \E p \in Pulls : handle[p] = dir[d] /\ disturbed[p] /\ Receive(p)

OriginalsSurvive == [][\A d \in Dests : OriginalSurvives(d)]_vars

\* "refusing to overwrite ...; pass --overwrite to replace it"
\* (wvm-host/src/pull.rs:62-69): a pull without the flag replaces no file.  The
\* rename does replace what a program saved there after the look.
ReplacesWithLeave ==
    \A p \in Pulls :
        host[p] = "renaming" /\ host'[p] = "ok" /\ ~overwrite[p] => dir[dst[p]] = NoFile

OverwriteHonoured == [][ReplacesWithLeave]_vars

\* "More than one open means the caller has broken the lockstep protocol"
\* (wvm-guest/src/pull.rs:183-184): callers that wait for each other's end
\* are never told so.
LockstepNeverRefused == \A p \in Pulls : host[p] # "refused"

\* "Only a COMPLETE file should ever appear at the destination path"
\* (wvm-host/src/pull.rs:117): whatever a rename puts in place has the size
\* the pull announced.
OnlyCompleteAppears ==
    [][\A p \in Pulls :
          host[p] = "renaming" /\ host'[p] = "ok"
          => Len(data[dir'[dst[p]]]) = total[p]]_vars
=============================================================================
