# WVM: specifications and proofs

TLA+ specifications of WVM (a host-side control plane and a guest-side service
for driving a Windows VM as a typed tool), the configurations that model-check
them, and machine-checked proofs about the core. Everything here is translated
from the Rust sources; the comments and documents of the repository appear only
where a property quotes what they promise.

1. [The system](#the-system)
2. [The modules](#the-modules)
3. [The runs](#the-runs)
4. [Fairness](#fairness)
5. [What is proved](#what-is-proved)
6. [Disagreements found](#disagreements-found)
7. [What is not modelled](#what-is-not-modelled)
8. [Plan](#plan)

## The system

WVM is three crates. `wvm-guest` runs inside Windows as a service and answers
typed requests over TCP. `wvm-host` holds the command line (`wvm push`, `wvm
pull`, `wvm vm ...`), the control daemon with its journal, and the client that
talks to QEMU over QMP. `wvm-ipc` is the wire format both share.

| component | state it keeps | operations | hard part | correct means |
|---|---|---|---|---|
| push: `wvm-host/push.rs`, `wvm-guest/chunk.rs` | guest: one process-wide map OPEN (path -> file, offset), the files; host: offset, size | `Transfer`, `TransferChunk`; `begin`, `write_chunk` | a chunk names no file; `begin` is four steps with the lock released; lost requests, abandoned handlers | success means the whole file is there; an interrupted push never wedges the next |
| pull: `wvm-host/pull.rs`, `wvm-guest/pull.rs` | guest: map OPEN (path -> handle, size); host: temporary file, offset | `Transfer`, `PullChunk`; `begin_source`, `only_open_source`, `read_chunk` | source chosen and read under two locks; temporary names; files rewritten meanwhile | success means the guest's file is there; completed pulls leave nothing open |
| guest service: `main.rs`, `dispatch.rs`, `deadline.rs`, `service.rs` | connection threads, workers, slot counter, stop flags | accept loop, `serve`, `with_deadline` | abandoned workers finish late; slots counted by hand; silent peers | slots bounded and returned; reply n answers request n; listener stays available; stop noticed |
| control daemon: `server.rs`, `journal.rs` | the journal file, the socket, one caller at a time | `bind`, `run`, `handle`, `append` | crash or failed write between record, newline, reply | what a caller was told is on record; nobody waits on silence |
| QMP client: `supervisor.rs` (Qmp), `lifecycle.rs` | connection, queue of events; QEMU: jobs, snapshots | save, restore, delete, list, suspend | replies without ids after swallowed timeouts; events before replies; jobs outliving their client | success is real; a conclusion is not missed; the command line always returns |
| VM supervisor: `supervisor.rs`, `display.rs` | pid file, process table, disk image, variable store, QMP | state, prepare, start, shutdown, show, hide, status | check then act in four steps; recycled pids; a failed copy left under its final name | at most one VM; launched on whole files; "started" means responsive |
| guest exec: `win32.rs`, `job.rs` | child, job object, pipes, two readers | `run` | the window before the child is in the job; a deadline against pipes held by grandchildren | nothing survives; output complete; no writer blocked for ever |
| input and display: `input.rs`, `supervisor.rs` (input half of Qmp), `main.rs` | what is held down, where the pointer is | text, chord, click, capture | a press and its release in two calls; a guest that reads the pointer late | what was sent arrives; nothing stays held |
| wire format: `wvm-ipc`, `guest/base64.rs` | none | frames, base64 | lengths at the limits, short reads, padding | frames arrive whole and in order; both decoders agree |
| policy and paths: `policy.rs`, `paths.rs`, `transfer.rs`, `server.rs` (`authorise`) | none | canonicalise, resolve, plan, authorise | `..`, case, separators, a root that prefixes its sibling, direction | nothing resolves outside a root, everything inside does |
| images: `image.rs`, `capture.rs` (host and guest) | none | PPM to PNG, BGRA to PNG | where a header ends; sizes of blocks | the picture shows the screen |
| VM definition: `vm.rs`, `supervisor.rs` (`prepare`) | none | validate, paths, QEMU arguments | names that must resolve across arguments | QEMU starts from what was validated |
| guest log, doctor, capability document, command line, scripts | - | reports, parsing, printing | - | - |

How they interact: every `wvm push`/`wvm pull` request is a TCP connection of
its own through QEMU's forwarded port; the guest serves each on a thread and
runs each request on a further worker thread under a deadline, so handlers of
different clients, and abandoned handlers of the same one, meet in the two
process-wide OPEN maps. `wvm vm ...` processes do not share memory: they meet in
QEMU (one QMP client at a time, jobs and snapshots that outlive them) and in the
files of the VM's state directory. The control daemon serves one caller at a
time over a Unix socket and shares its journal with earlier daemons.

## The modules

| module | models | notes |
|---|---|---|
| `ChunkedPush` | `push()` and the guest's `begin` and `write_chunk` | any number of pushes, paths, units |
| `FileDelivery` | abstract: what a file transfer promises its caller | refined by `ChunkedPush` in exclusive mode |
| `ChunkedPull` | `pull()` and the guest's `begin_source`, `only_open_source`, `read_chunk` | |
| `GuestServer` | `serve_loop`, `serve`, `with_deadline`, the service's stop flags | |
| `ControlServer` | `Server::bind/run/handle` with `Journal::append/tail` | crashes and restarts |
| `Snapshots` | `Qmp`, `save`, `restore`, `delete`, `list`, `await_job`, `suspend`, against QEMU | QEMU is external |
| `ExecJob` | `win32::run` with `job.rs`: the child and what it starts, the pipes, the readers, the deadline | one exec |
| `VmSupervisor` | `state`, `prepare`, `start`, `wait_until_responsive`, the shutdown wait, `show`, `hide`, `status` | commands over one process table |
| `GuestConsole` | `translate`, `parse_chord`, `send_keys`, `send_chord`, pointer and buttons, the screendump | commands over one monitor |
| `PathPolicy` | `paths.rs` and `transfer.rs` of the guest, the path half of `policy.rs`, `authorise` | operators |
| `WireCodec` | `framing.rs`, both base64 codecs | operators |
| `ImageCodec` | `image.rs`, the guest's conversion in `capture.rs` | operators |
| `VmDefinition` | `vm.rs`, the directories `prepare` makes | operators |
| `Calls` | composes the four: one call at a time over bounded inputs | reference definitions |
| `*_proofs` | theorems about the module of that name; `GuestServer_proofs`: also about the frames and the pictures of `Calls`; `Data_proofs`: about `GuestConsole`, and the base64, the command line and the paths of `Calls` | see below |
| `MC_*` | instances for TLC: inputs and symmetry sets | |

**ChunkedPush.** Files are inodes, because a handle outlives the name it was
opened under when another `begin` removes the file. Contents are sequences of
units `<<push, i>>`, so a chunk of the wrong push, a gap or an overlap shows. A
handler is in one of the steps of `begin` between which the code releases the
lock (`BeginCheck`, `BeginCleanup`, `BeginCreate`, `BeginInsert`), or it is
`write_chunk`, which holds the lock throughout and is one action with three
outcomes (`WriteChunk`, `WriteFails`, `WriteRefused`). The host is `Start`,
`Opened`, `SendChunk`, `Acknowledged`, `Refused`; `GiveUp` is any error of
`guestclient::request`, after which the handler goes on running and its answer
is dropped. `SendChunk` may read less than asked for, and a file that grew or
shrank. Other programs of the guest save files at the destinations at any moment of a
push (`Save`): between `begin`'s look and the truncation, while chunks are written, when
the host has been told of success. Two history variables say who interfered:
`disturbed`, another push's handler has changed the guest while this one was relying
on it; `changed`, a program has rewritten the file since this push created it. As a
bound, a program makes a new file only where no handle of an earlier one is left.

**ChunkedPull.** The same on the other side. The host's directory maps names to
inodes; a name is a stem with an extension, because the temporary name replaces
the extension. The guest chooses the source under one lock (`Select`) and reads
it under the next (`ReadChunk`). Files of the
guest are rewritten (`Rewrite`), and programs of the host save files at the
destinations (`Save`), at any moment. A file that was saved has its destination as its
inode, so that `OriginalsSurvive` can follow it through every step of every pull.

**FileDelivery.** A transfer that reports success has put the whole file at its target,
and there it stays until a transfer to the same target or another program touches it
(`Rewrite`). A transfer whose file a program rewrote while it ran may succeed too, and
then promises nothing.

**GuestServer.** The loop (`Poll`, `Accept`, `AcceptNothing`, `Admit`), a thread
per connection (`Receive`, `ReceiveFails`, `Overrun`, `Respond`, `Depart`) and a
worker per request (`Finish`), which may finish after it was abandoned or never.
A frame holds any well-formed request, a Hello of another version or something
that cannot be parsed, or its header declares more than `MAX_FRAME_LEN`, which ends the
session with the peer still there. So does a result that does not fit into a frame
(`MayNotFit`): `write_frame` refuses it, and `serve` returns. The model has the two stop flags of the service:
the one the control handler sets and the one the loop polls.

**ControlServer.** The journal is the sequence of what was written: the text of
records, newlines, and torn text. A record is readable when it is alone on its
line, which is what `tail()` returns. `append` is two steps, as in the code, and
a failure or a crash may come at each of them. One daemon runs at a time, as the
comment in `bind` asks of the operator; nothing enforces it (see hazards).

**Snapshots.** A process runs the script of its action: commands to be answered,
and the wait for the event that ends its job. The wire carries messages without
identification, as QMP does for a client that sends no ids. A read that times
out leaves the reply on its way, or half of it read and lost. `save()` swallows
errors in its first two commands, so the replies it reads later may belong to
earlier commands. QEMU is modelled from the way `lifecycle.rs` describes and
handles it: jobs keep running when their client goes, concluded jobs keep their
id, an event says that a job ended and not how.

**ExecJob.** The thread in `run` goes through `CreateJob`, `Spawn`, `Assign`,
`Drain`, then polls. The look at the child (`PollExited`, `PollRunning`) and the look
at the clock (`NotYet`, `TimeOut`) are two steps, as in the code, and the child may end
or the deadline pass between them. Then `Kill` and `Join`, with the failures
of each. A reader may fail or panic (`ReadFails`): what it had, or nothing, is then
the output, and no one is told. Processes inherit the job of the one that starts them and any of its
pipe ends; a pipe ends when its last holder is gone and holds `Capacity` units.
The deadline may pass at any moment. Two history variables: `escaped`, some
process was started by one outside the job, which can happen between `spawn()`
and `assign()`; `punctual`, the child ended by itself, and early enough for a look at it
that comes before the deadline.

**VmSupervisor.** The three steps of `state()` (the pid file, the scan of the
processes, QMP) are three actions, and `start` is a look, then `prepare`, then
the removal of the pid file, the launch and the record of the new one. A pid that
is free may be given to any new process; a process that has ended keeps its pid
until its parent ends. `MaxLooks` is how often a waiting loop can look within its
timeout. Three history variables: `raced` (another launch or another `prepare`
fell into this one), `overtaken` (a VM was launched while a start waited for its
own), `spoiled` (a `prepare` failed). The properties say what holds outside these
cases.

**GuestConsole.** A command is turned into calls of `input-send-event`, each a
list of presses and releases that QEMU applies together. Any call may fail
half-way, and a failure leaves open whether it was carried out. The tables of
`input.rs` have one entry for each case. The guest's layout (the legends of a UK
keyboard, which is what `input.rs` says the tables are for) and the guest's
reading of the pointer are external. One axis is modelled. `stale` records that the
resolution changed under a command, `interrupted` that one of several calls failed.

**Calls.** The functions without state, each called with every input of a
bounded set; the state is the last call with its inputs and result. The
properties compare with definitions that go about it another way: `Walk` and
`WindowsInside` follow a path component by component as Windows does, while the
code compares strings; `SoundPng` and `Shown` decode the picture again;
`Resolves` and `DirectoriesExist` look names up as QEMU would. Bytes, Base64
digits and path names are members of small sets chosen for the cases the code
distinguishes.

## The runs

| run | question | bounds | distinct states |
|---|---|---|---|
| `push_concurrent` | two pushes in any interleaving, files saved at the destinations meanwhile | 2 pushes, 2 paths, files up to 2 chunks | 5 134 778 |
| `push_exclusive` | one push at a time: whole files, refinement of `FileDelivery` | 2 pushes, 2 paths, files up to 3 units, chunks of 2 | 4 032 992 |
| `pull_concurrent` | two pulls in any interleaving, sources rewritten, files saved at the destinations meanwhile | 2 pulls, 2 sources, 1 stem and 2 extensions, files up to 2 units, 1 rewrite | 5 624 178 |
| `pull_wedge` | violated: a well-behaved pull is refused | pulls one after another | |
| `guest_server` | bounds, pairing, progress of the service | 2 connections, 1 slot, 2 requests | 72 684 |
| `service_stop` | violated: a stop is not noticed | 1 connection | |
| `control_server` | record before reply, progress, over restarts | 2 callers, 2 daemons in succession, 2 requests | 136 828 |
| `snapshots` | success is real, no conclusion missed, every process ends | 2 processes, 2 tags, all pairs of actions | 516 776 |
| `exec_job` | nothing survives, output complete, nobody blocked, exec returns unless held | 2 processes, pipes of 1 unit, 4 units of output in all | 135 480 |
| `vm_supervisor` | one VM, one viewer, whole files, true reports, every command returns | 2 commands of any kind, 2 pids, 2 looks | 388 294 |
| `guest_console` | what was sent arrives, nothing stays held, clicks land | 2 commands, 14 jobs, screens of 8 and 640 | 242 960 |
| `calls` | the functions agree with what they are for | see `MC_Calls`; frames up to 2 bytes, stored blocks up to 5 | 1 034 705 |

Eleven more configurations stand beside the runs: `push_two_clients`, `push_overwrite`,
`pull_partial`, `pull_overwrite`,
`journal_glued`, `suspend_durable`, `exec_deadline`, `stale_pid`, `checks_agree`,
`spice_directory` and `uk_layout` each find the counterexample of a disagreement listed below.

Why the bounds are enough to be of interest. Interference in the OPEN maps takes
two clients; a chunk boundary takes a file of two chunks; a short last chunk
takes a file whose length is not a multiple of `ChunkSize` (3 and 2 in
`push_exclusive`). Two paths distinguish "my entry" from "any entry". For the
pulls, two extensions of one stem are the smallest case of a shared temporary
name. One slot and two connections make the refusal happen; two requests make a
worker of the first late for the second. Two daemons make a restart, and two
requests a record that follows a failed one. Two `wvm` processes cover jobs that
outlive their process, a second save under the same tag, a restore of what a
save is writing and the monitor being taken; a third would be another instance
of one of these. Two processes of one exec are the child and one that it starts, with
any of its pipes and in the job or not; a pipe of one unit is full after the first
write, and four units of output let both writers meet a full pipe on both.
Programs save one file at a time at each path: which program it was, and what else it
wrote, no transfer can tell. Two `wvm vm` commands race each other, and two pids are enough for a
stale one to be given away while the VM has the other. On a screen of 8 one pixel
is a large step of the pointer's scale, on one of 640 a small one, and clicks fall
inside, at and beyond the edges of both.
Frames of at most 2 bytes and stored blocks of at most 5 make the limits of
`MAX_FRAME_LEN` and of a deflate block part of every input set.
For the modules with proofs the theorems hold without bounds.

`MaxLen`, `MaxVersion`, `MaxRequests`, `MaxStarts`, `MaxOutput` and `MaxLooks`
are the only bounds in guards; `MaxLooks` stands for a timeout of the code, the
others cap what would grow without end. Pushes and paths, and pulls, are model
values that no definition tells apart, `FileDelivery` included, so their symmetry is
used in the runs of these modules, none of which checks a liveness property.

Deadlock is checked in `guest_server` and `service_stop`, where the loop polls for
ever, and in `calls`. In the other runs the system may stop: transfers, commands
and processes end, and a daemon need not be started again.

Every property of a passing run has a mutant: a variant of one operator, named
"Variant" in the modules, that changes the code the way a plausible mistake
would, and under which TLC finds the property violated.

## Fairness

`ChunkedPush`, `ChunkedPull` and `GuestConsole` have no fairness and no liveness
property: their host may always give up. Elsewhere:

- `GuestServer`: weak fairness of the accept loop and of each connection thread,
  which the operating system schedules. Nothing is assumed of peers (they may
  stay silent for ever) nor of workers (a request may never return). `Overrun`
  is a step of the thread, since `recv_timeout` returns.
- `ControlServer`: weak fairness of the daemon's steps while it runs. None of
  callers, crashes or restarts. `WaitingCallerServed` is conditional on the other
  callers hanging up or being dropped, because the code has no read timeout.
- `Snapshots`: weak fairness of each `wvm` process; its reads have timeouts, so a
  step is always enabled. None of QEMU, which may hang.
- `ExecJob`: weak fairness of the thread in `run`, of the readers, of the clock
  (`Expire`) and of a write that fits. None of the command: it need not end nor
  close its pipes, so `ReturnsUnlessHeld` says that `run` returns or else some
  process other than the child holds a pipe for ever. `WritersProceed` does not
  follow from fairness alone: it needs that both pipes are read.
- `VmSupervisor`: weak fairness of each command, whose calls have timeouts. None
  of QEMU, which may never boot, answer or end, nor of other processes.

## What is proved

All theorems are about the specification of their module (`Spec`; `CallSpec` of `Calls`), for every value of the constants
that the module's named assumption allows: any set of pushes, paths, pulls,
connections, callers, processes or commands, any chunk size, any bound.

`ChunkedPush_proofs`:

- `PushTypeCorrect`: `Spec => []TypeOK`.
- `PushDelivers`: `Spec => []Delivered`. `Delivered` is far from inductive: it
  says nothing of a push under way. The invariant adds `Control` (how the places
  of host, handler and reply fit together: a host that waits for a chunk has at
  most one request or reply on its way, and a reply that counts what was sent),
  `Homes` (an inode is only ever
  found under one path, that under which it was first made or that of the push that created
  it, in the directory as in the open map and in the handles)
  and `Own` (for a push nobody has disturbed: what its handler or the open map
  holds is its own, with exactly the units sent so far in place unless a program rewrote
  the file). Of a disturbed push
  nothing more is needed than `Homes` and that whatever its handler does to the
  guest marks the others disturbed.
- `PushNotWedged`: `Spec => []RefusalMeansInterference`, from `Own`: the cleanup
  of every entry, and not only its own, leaves an undisturbed push alone in the
  map with its offset.

Under `Exclusive`, the same module adds `OneAtATime`: at most one push is busy, at the host or in the guest, and none that is still in play was disturbed.

- `PushImplementsDelivery`: `Spec => ImplementsDelivery`, the refinement: the
  initial states map to initial states, and each action maps to a step of
  `FileDelivery` or leaves its variables alone; what a program saves is its `Rewrite`.
- `PushConfirmsWholeFiles`: `Spec => ConfirmedFileIsWhole`. A host that gave up
  leaves a handler behind that may still confirm the last chunk, so `Own`, which
  speaks of pushes under way, does not reach it; `ChunksStand` says of any
  handler of a chunk that the file holds what its host had sent before.

`ChunkedPull_proofs`: the invariant is `Control`, `Homes` (a temporary file is
found under one stem only), `Accounted` (every open source has a pull to blame),
`Apart` (a file has one name, and an undisturbed pull writes to the one that has its
temporary name) and `Own` (an undisturbed
pull's temporary file holds the first units of one version of its source).

- `PullTypeCorrect`, `PullDelivers` (`Delivered`), `PullLeavesNothingOpen`
  (`LeftoversAreInterrupted`), `PullKeepsOriginals` (`OriginalsSurvive`: what stands at a
  destination is whole and untouched through every step of every pull, failing ones
  included, until a pull renames its own file there). The last does not ask that
  the destination was free when the pull looked: that is what `pull_overwrite` refutes.

`GuestServer_proofs`:

- `ServerTypeCorrect`, `ServerBounded`: the counter is the cardinality of the set
  of connections being served and at most `MAX_CONNECTIONS`. Inductive with the
  type invariant and `Queue` (what waits in the backlog is pending and not
  served, and is there once).
- `ServerRepliesMatch`, `ServerMismatchEnds`: from `Session`, a predicate of one
  connection that ties its stage to the numbers of requests and replies and to
  the answer it holds, and `Safe`. Each action touches one connection; a frame
  lemma carries the predicate of the others over.

Then, about the frames its connections carry, which `Calls` has, from
`FramesAssumption`: payloads are sequences of bytes whose length a u32 holds (`FitsHeader`; for a longer payload
`write_frame` has no header to write), and a read finds some number of bytes, is
interrupted or fails. What is written lies on the wire as headers and payloads
end to end (`WrittenIsLaid`), and so does every prefix of it (`CutCarries`). Between
two reads the reader stands at a place of the stream: so many payloads returned,
in a header or in a payload, and the bytes it holds are the ones of that place
(`Standing`, kept by `ReadCallStands`; `DeclaresLength` and `Delivers` are the two
moments when a header and a payload are complete). A read takes something while
there is something (`ReaderEnds`), so the reader ends, and where it ends says how. The
reader is a recursive function of the reads, and the proof an induction over them
(`Induction`, as in `Data_proofs` below).

- `FramesWhole` (`FramesArriveWhole`).

And about the pictures that a screenshot returns, also of `Calls`, from
`ScreensAssumption` (a dump's header is `P6`, three numbers, blanks and comments before
each, and one whitespace byte; the sides are positive and a u32 holds them) and
`MaxBlockAssumption`. The header's parser finds each number whatever stands before it
(`SkipsTheGap`, an induction over the bytes of the gap; `FieldIsRead`, `HeaderIsRead`), and
takes nothing of the pixels for a part of the header, even where the first pixel looks
like whitespace; a dump that is one byte short still has its header but not its pixels
(`Decoded`). The two running sums of `adler32`, reduced at every byte, are the checksum that
RFC 1950 defines (`AdlerIsTheChecksum`, by induction over the bytes). The blocks end to end
are the data again, each but the last is full and only the last is marked
(`BlockBounds`, `PartsJoined`, `StoredIsInflated`). A line is its filter byte and its pixels
(`ScanlinesAreLined`), so a viewer shows them in their places (`PixelsAreShown`).

- `PicturesFaithful` (`ScreenshotFaithful`).

`ControlServer_proofs`: the invariant is `Place` and `Session` (which request of
which caller the daemon is at), `Known` and `Underway` (the record being written
is the attempt, or the one outcome, of a request that was taken), `Lines` (an
outcome is written after a newline, and stands on a line of its own before its
caller hears of it) and `Told`.

- `ControlTypeCorrect`, `ControlAttemptFirst` (`AttemptBeforeOutcome`),
  `ControlAnswersOnRecord` (`AnswersOnRecord`). The last is why torn text does no
  harm to what was told: a record that a later append could join to another is one
  whose newline failed, and then the daemon has not answered.

`ExecJob_proofs`: the invariant is `Place`, `Tree` (before the child is in the job
it runs alone or something has escaped; afterwards what runs is in the job, and
nothing in a closed job runs) and `Flow` (what was written is captured or in the
pipe, unless the reader failed, and then no more than that; only the living hold an
end; a reader that is through stays through). `Place` also says that a child which ended
punctually is not being timed out: between the look at it and the look at the clock
it counts as punctual only if the clock says that there is time for another look.

- `ExecTypeCorrect`, `ExecLeavesNothing` (`NothingOutlivesExec`),
  `ExecOutputComplete` (`OutputComplete`), `ExecPunctual` (`PunctualNotTimedOut`).

`VmSupervisor_proofs`: the invariant is `Control` (what a place says of the kind
of command), `Machines` (unless raced: no VM runs while a start is on its way to
launch, no viewer while a show is on its way to open one) and, unless raced or
spoiled, `Made` (which of the files are whole at each place of `prepare`).

- `VmTypeCorrect`, `VmNeverTwo` (`NoSecondVm`), `VmSingleViewer` (`SingleViewer`),
  `VmLaunchesOnWholeFiles`, `VmReportsAreTrue` (`ReportsAreTrue`).

`Snapshots_proofs`: a process runs a script of commands, and what it concludes
rests on which reply it took for which command. The invariant is `Wire` (one
process is connected, and its commands under way stand in the order of its script
and not beyond its step), `Jobs` (a job belongs to the process that started it and
does what that one asked), `Events` (an event is only ever of a job that has ended)
and `Own`, of a connected save or restore: no deletion is under way any more once
its job was started; a job that ended has announced it in an event that is still
to be read, or that the process has read; what a table says of its own job is so; a save
past the table has ended well and is on disk under its tag.

- `SnapTypeCorrect`, `SnapSuccessIsReal` (`SuccessIsReal`), `SnapConclusionNotLost`
  (`ConclusionNotLost`).

`Data_proofs`, first about `GuestConsole`: a command sends a script of calls. The invariant is `Control`
(what a command's stage says of the rest of its state) and `CommandInv`: a command
under way stands before call n of its script, and what the guest has seen of it and
still holds down is what the first n calls make of it; a command that is over has
sent all of its script, or something of it failed. What a call does to the guest is the value of
functions that recurse over its events, and what the guest reads is one that recurses
over the strokes, so the proofs rest on induction over natural numbers, which is
derived from the library's theorem that < is well founded on them
(`Induction`, `InductionUpTo`), and on a lemma that such a function exists and
satisfies its equation (`Recursion`).

- `ConsoleTypeCorrect`, `ConsoleInvariant` and `NothingStaysHeld` (`NothingLeftHeld`):
  every script lets go of what it presses, call by call or at its end.
- `RefusalIsWhole` (`RefusedSendsNothing`).
- `KeystrokesArrive` (`KeysArrive`), under the hypothesis that no text has one of
  `#`, `|` and `~`, which are the characters `uk_layout` is about: for all others
  the table of `input.rs` is right.
- `ClicksLand` (`ClickLands`), for screens up to 16 385 pixels wide or high: on these
  a pixel is two steps of the pointer's scale, and rounding down twice loses at
  most one pixel. Some larger screens lose two; the first is 16 452 pixels wide.

`Data_proofs`, then about the base64 of `Calls`, from `TextsAssumption` (bytes are 0 to
255, characters are those of the alphabet, padding, blank or anything else): a group of four
characters padded on its right stands for one to three bytes (`Meaning`), and all
three codecs are measured by that. The encoder writes for a group of bytes one that
stands for it (`EncodedGroup`, where the digits are divided out), the host's decoder
reads a group as what it stands for (`HostGroup`), and so does the guest's, although it
shifts each digit through a buffer and knows of no groups (`GuestGroup`, from what the
fourteen bits of the buffer are after each digit: `FirstOut`, `SecondOut`, `ThirdOut`).
The rest is that groups end to end are a text that falls into the same groups again
(`PiecesJoin`, `ChunksOfThree`, `ChunksOfFour`), and an induction over the groups that
the guest, between two of them, has an empty buffer and what they stand for so far
(`GuestFollows`).

- `Base64RoundTrips` (`Base64Faithful`).

About the launch of `Calls`, from `LaunchAssumption`: paths are sequences of strings,
and a disk with a system on it has a boot sector, and an EFI partition exactly if the
system was installed under UEFI firmware. The command line is put together from nine sections. Each has its
names, its uses, its boot places and the files it opens (`Section`), and needs of what
stands before it no more than the two ports of the machine; whatever keeps to that may
be added without breaking what stands there (`FitsOn`, `Adds`). The files are
then those of `OwnFiles` and the ISOs, and the directory of each is one that
`prepare` makes.

- `LaunchPrepared` (`LaunchIsPrepared`).

About the paths of `Calls`. A path is split, resolved and joined by folds over its
pieces, and each is followed by induction over the sequence (`SeqInduction`,
`FoldOfOneMore`). Three facts carry both theorems: names that were joined are split
into the same names again (`SegmentsJoined`); lower case and separators change nothing
of how a text is split and resolved (`SegmentsLower`, `NamedLowers`,
`SegmentsSeparated`); and of two texts joined from names, one is the other or begins
with it and a separator exactly if the names of the one begin the names of the other
(`JoinedPrefixes`), which is why comparing strings is as good as comparing paths.

- `PlanExact` (`PlanIsExact`), from `PathsAssumption`: a path begins with its drive, and a
  root names a directory below it. A staging root that is a bare drive is excluded
  because it admits nothing but itself: its canonical form `c:/` ends in a separator, and
  `is_within_root` looks for one more. From `LowerAssumption` only that lower case is
  stable and makes no separator, dot or double dot of a name.
- `AuthoriseExact` (`AuthoriseIsExact`), from `GrantsAssumption` as well. The host's side
  is short: the components of a resolved path are those of its walk below the root
  directory (`LexicalNames`). On the guest's side `check_guest_path` treats the drive as
  one more name, so a `..` may take it away; `ClimbsAlways` shows by induction that the
  drive stands first as long as at every place there were no more `..` than names, and
  that afterwards no drive is left. For this a path must have a separator after its
  drive and no drive's name further on, which Windows does not allow in a file name. A
  guest root must be written without `.`, `..` or doubled separators: the host compares it
  as it stands, and a grant with any other root admits nothing.

Only model-checked: all liveness properties, which are out of the prover's reach.

## Disagreements found

| configuration | the code | a doc says |
|---|---|---|
| `pull_wedge` (run) | a failed pull leaves its source open, and nothing ever closes it | `pull.rs:183-184` (guest): more than one open means the caller broke the protocol |
| `service_stop` (run) | the control handler sets one flag, the loop polls another | `service.rs:102-103`: a stop is noticed within the poll interval |
| `push_two_clients` | an offset identifies no push: two clients whose offsets agree mix their chunks into one confirmed file | `chunk.rs:38-41`: a gap or overlap becomes a loud error; `:26`: nothing is concurrent |
| `pull_partial` | the temporary name replaces the extension, so two pulls may share it | `pull.rs:117` (host): only a complete file should appear |
| `push_overwrite` | `begin` looks at the size, then `File::create` truncates what a program has saved there since | `chunk.rs:82`: a caller that did not ask to overwrite must not end up with a truncated file |
| `pull_overwrite` | the destination is looked at before the transfer, and the rename replaces what was saved there during it | `pull.rs:65` (host): refusing to overwrite; pass --overwrite to replace it |
| `journal_glued` | record and newline are two writes | `journal.rs:114-115`: must not lose its last entry on a crash |
| `suspend_durable` | success on the reply that a job has begun | `supervisor.rs:737-738`: a suspend is durable |
| `exec_deadline` | after the kill, the readers are joined without a limit | `win32.rs:232`: the deadline means what it says |
| `stale_pid` | any process under the recorded pid, also an ended one, passes for the VM when QMP does not answer | `supervisor.rs:8-13`: a recycled pid is not believed |
| `checks_agree` | a guest path that climbs above its drive is clamped by the guest and refused by the host | `paths.rs`, at `is_within_root`: mirrors the host's check |
| `uk_layout` | `#`, `\|` and `~` are given the keys of a US keyboard | `input.rs:23-25`: the map is written for the UK layout the guests use |
| `spice_directory` | `prepare` makes the runtime directory only, though a name with `/` puts the socket below it | `supervisor.rs`, in `prepare`: the directory must exist to bind |

`pull_wedge` needs no fault at all when the guest path is spelled with slashes:
the guest opens the source, echoes the path with backslashes, and the host gives
up on the difference.

Met while modelling, without a configuration of their own:

- A malformed request to the control daemon is answered but not journalled,
  although `server.rs:15-16` says that it is.
- A response that does not fit into a frame is not sent, and the connection is closed
  without an answer, although `dispatch.rs:39` says that silence leaves the host waiting
  on the socket. The host sees the end of the stream (`NobodyLeftWaiting`).
- A child that ends between `try_wait` (`win32.rs:247`) and the look at the clock
  (`win32.rs:258`) is reported as timed out, although it ended in time.
- The output of a reader that failed (`win32.rs:335-337`) or panicked (`win32.rs:316-323`)
  is cut short or empty, and nothing in the outcome says so.
- `begin` removes stale partial files by name. When a program has put a file of its own
  there since, that one is removed.
- `capture.rs` of the guest gives the frame limit as 16 MiB; `framing.rs` has 64.
- `log.rs:26` says that each line is stamped with an increasing sequence number;
  none is written.
- `Qmp::wait_for_event` reads on without looking at the events that were put aside.
- The guest's base64 decoder says that it is strict about padding; it stops at the
  first `=` and does not ask for the rest. `Base64Faithful` asks only that it agrees
  with the host's where the host's accepts.
- `parse_verb` in `main.rs` does not know the verb `display`, so a daemon cannot be
  started with a grant of it.
- `canonicalise` in `paths.rs` says that it refuses to go above the root "rather
  than silently discarding the traversal"; it discards it.
- `split_prefix` says that it keeps server and share of a UNC path together and
  cuts after the server.
- `is_within_root` with a bare drive as root contains that drive only.
- Two definitions of one name in different state directories share a SPICE socket.
- `quote_arg` and `build_command_line` are not used by `run`.

## What is not modelled

- `abort` and `end_source` are called by nothing. The 4 GiB ceilings and the JSON
  of requests are data no property depends on.
- Two control daemons at once are excluded by assumption (listed as a hazard: a
  second `bind` takes over the socket, and both append to the journal).
- `suspend` reports a job that has begun; it is modelled, and what it promises is
  in `suspend_durable`, but no passing run has a property of it.
- Failures of single GDI calls, and the refusal of a PNG above its size limit.
- A host path may hold a backslash in one of its names, which `policy.rs` on Linux takes as
  it is; the inputs of `AuthoriseIsExact` have none.
- `parse_chord` accepts any single ASCII character as a key name; the model has those of this
  keyboard.
- Parsing of the VM definition and of the grant file, the per-program rules of
  `exec`, the environment and working directory of an exec and the conversion of its
  output to text, the window and process listings, the registration of the
  service, `display enable`, installation of a viewer.
- The guest log, `doctor`, the capability document, argument parsing and printing,
  and the scripts: reports and text, without state that anything else reads.

## Plan

Done: every component with control flow of its own has a module, a passing run and
mutants, and each of these modules has proofs, the push with its refinement; of
`Calls`, the framing, the base64, the pictures, the launch and the paths.

Left:

1. A composition of `GuestServer` with `ChunkedPush`, where the deadline is what
   abandons a handler; today the push has the abandonment, and the service has
   requests without content.
2. `pull` as a refinement of `FileDelivery`, which needs a version of the source
   in the abstract state.
3. A guest whose programs make a new file while a handle of the one it replaces is left.
