--------------------------------- MODULE Calls ---------------------------------
(***************************************************************************)
(* The functions of the program that keep no state of their own, each      *)
(* called with every input of a bounded set and compared with what it is   *)
(* for: the containment checks (PathPolicy), the framing and the base64    *)
(* (WireCodec), the screenshot (ImageCodec) and the QEMU                   *)
(* command line (VmDefinition).  A behaviour is a sequence of calls; `call'*)
(* holds the last one, its inputs and its result.                          *)
(***************************************************************************)
EXTENDS PathPolicy, WireCodec, ImageCodec, VmDefinition

CONSTANTS
    GuestRoots, GuestPaths,     \* absolute Windows paths
    DefaultRoot,                \* the staging root without an override
    HostRoots, HostPaths,       \* absolute POSIX paths
    Payloads,                   \* the messages of a connection, in order
    Arrivals,                   \* how many bytes each read finds
    ByteStrings, Base64Texts,
    Sizes, Pixels, Headers,     \* of a screen: its size, its bytes, their header
    Configs, Disks, Files       \* VM definitions, their disks, the ISOs there are

(* The length of a payload is a u32; a read finds bytes or fails.          *)
FramesTyped ==
    /\ \A payloads \in Payloads :
          /\ payloads \in Seq(Seq(Byte))
          /\ \A i \in DOMAIN payloads : FitsHeader(Len(payloads[i]))
    /\ Arrivals \subseteq Seq(Nat \cup {Failed})

ASSUME FramesAssumption == FramesTyped

(* A character of base64 is one of the alphabet, the padding, a blank or   *)
(* one that is not allowed.                                                *)
TextsTyped ==
    /\ ByteStrings \subseteq Seq(Byte)
    /\ Base64Texts \subseteq Seq(0..INVALID)

ASSUME TextsAssumption == TextsTyped

(* A path is a sequence of strings, and a system is installed in one of    *)
(* two ways: with the partition its firmware boots from, or with none.     *)
LaunchTyped ==
    /\ {StateHome, RuntimeDir} \subseteq Seq(STRING)
    /\ \A config \in Configs :
          config.name \in Seq(STRING) /\ config.state_dir \subseteq Seq(STRING)
    /\ \A disk \in Disks :
          /\ disk.installed \in {"none", "uefi", "bios"}
          /\ disk.installed # "none" =>
                disk.boot_signature /\ (disk.efi_partition <=> disk.installed = "uefi")

ASSUME LaunchAssumption == LaunchTyped

(* A Windows path begins with its drive.  A root names a directory below   *)
(* it: no path is inside a root that is a drive and its separator.         *)
PathsTyped ==
    /\ \A path \in GuestPaths \cup GuestRoots \cup {DefaultRoot} :
          path \in Seq(STRING) /\ IsDrivePath(path)
    /\ \A root \in GuestRoots \cup {DefaultRoot} : Walk(Tail(root)) # <<>>

ASSUME PathsAssumption == PathsTyped

(* What the host decides about: paths from the root directory, and paths   *)
(* from that of a drive with no drive's name below it.  A grant's guest    *)
(* root is a path without ".", ".." or a doubled separator: the host       *)
(* compares it as it is written.                                           *)
GrantsTyped ==
    /\ \A path \in HostRoots \cup HostPaths :
          path \in Seq(STRING) /\ path # <<>> /\ path[1] = "/"
    /\ \A path \in GuestRoots \cup GuestPaths :
          LET below == Segments(Tail(path))
          IN  /\ Len(path) > 1 => path[2] \in Separators
              /\ \A i \in DOMAIN below, drive \in Drives :
                    Lowercase(below[i]) # Lowercase(<<drive>>)
    /\ \A root \in GuestRoots :
          /\ StaysBelow(Tail(root))
          /\ NormalisedRoot(root) = Lowercase(Joined(Resolved(root), "\\"))

ASSUME GrantsAssumption == GrantsTyped

(* The header of a dump: three numbers, what may stand before each, and    *)
(* one whitespace byte.  A comment runs to the end of its line.            *)
IsGap(bytes, from, to) ==
    /\ \A i \in from..(to - 1) : bytes[i] = Hash =>
          \E j \in i..(to - 1) : bytes[j] = Newline
    /\ \A i \in from..(to - 1) : bytes[i] \notin Whitespace =>
          \E j \in from..i : bytes[j] = Hash /\ \A k \in j..i : bytes[k] # Newline

IsNumber(bytes, from, to, number) ==
    /\ from < to
    /\ \A i \in from..(to - 1) : bytes[i] \in Digits
    /\ Decimal(SubSeq(bytes, from, to - 1)) = number

IsHeader(bytes, size) ==
    /\ bytes \in Seq(Byte) /\ Len(bytes) > 2 /\ SubSeq(bytes, 1, 2) = <<CharP, 54>>
    /\ bytes[Len(bytes)] \in Whitespace
    /\ \E first, second \in 3..Len(bytes) :
          /\ IsGap(bytes, 3, first) /\ IsNumber(bytes, first, second, size[1])
          /\ \E third, fourth \in (second + 1)..Len(bytes) :
                /\ IsGap(bytes, second, third) /\ IsNumber(bytes, third, fourth, size[2])
                /\ \E fifth \in (fourth + 1)..Len(bytes) :
                      /\ IsGap(bytes, fourth, fifth)
                      /\ IsNumber(bytes, fifth, Len(bytes), 255)

(* The sides of a screen are positive and a u32 holds them.                *)
ScreensTyped ==
    \A size \in Sizes :
       /\ \A side \in {1, 2} : size[side] \in Nat \ {0} /\ FitsHeader(size[side])
       /\ \A header \in Headers : IsHeader(header[size], size)
       /\ \A rgb \in Pixels[size] :
             rgb \in Seq(Byte) /\ Len(rgb) = size[1] * size[2] * 3

ASSUME ScreensAssumption == ScreensTyped

VARIABLE call

Idle == [op |-> "none"]

CallInit == call = Idle

-----------------------------------------------------------------------------

(* An opening Transfer reaches the guest: dispatch.rs calls plan_from with *)
(* the staging roots, the guest's one overridden or not.                   *)
PlanTransfer ==
    \E override \in GuestRoots \cup {<<>>}, path \in GuestPaths \cup {<<>>} :
        LET roots == StagingRoots([guest |-> DefaultRoot, host |-> DefaultRoot],
                                  [guest |-> override, host |-> <<>>])
        IN  call' = [op |-> "plan", root |-> roots["guest"], path |-> path,
                     result |-> PlanFrom(roots, path)]

(* The host decides about a request, a transfer or a program to run.       *)
AuthoriseTransfer ==
    \E verbs \in {{"transfer"}, {"inspect"}}, guest_root \in GuestRoots \cup {<<>>},
       roots \in SUBSET HostRoots, granted \in {"host_to_guest", "guest_to_host"},
       direction \in {"host_to_guest", "guest_to_host"},
       host_path \in {{}} \cup {{path} : path \in HostPaths},
       guest_path \in GuestPaths :
        LET grant   == [verbs |-> verbs, guest_root |-> guest_root,
                        read_roots |-> IF granted = "guest_to_host" THEN roots ELSE {},
                        write_roots |-> IF granted = "host_to_guest" THEN roots ELSE {}]
            request == [op |-> "transfer", direction |-> direction,
                        host_path |-> host_path, guest_path |-> guest_path]
        IN  /\ Len(guest_path) <= 4 \/ host_path = {}
            /\ call' = [op |-> "authorise", grant |-> grant, request |-> request,
                        result |-> Authorise(grant, {}, request)]

Written(payloads, limited) ==
    LET wire[n \in 0..Len(payloads)] ==
            IF n = 0 THEN <<>>
            ELSE wire[n - 1] \o (IF limited THEN WriteFrame(payloads[n])
                                 ELSE WriteFrameUnchecked(payloads[n]))
    IN  wire[Len(payloads)]

(* A connection carries the payloads, as write_frame sends them or as a    *)
(* peer without its limit would, and breaks off after `cut' bytes.         *)
ReceiveFrames ==
    \E payloads \in Payloads, limited \in BOOLEAN, arrivals \in Arrivals :
        LET wire == Written(payloads, limited)
        IN  \E cut \in 0..Len(wire) :
              LET stream == SubSeq(wire, 1, cut)
                  all    == [i \in 1..(Len(stream) + 1) |-> Len(stream) + 1]
              IN  call' = [op |-> "receive", payloads |-> payloads,
                           limited |-> limited, stream |-> stream,
                           arrivals |-> arrivals,
                           result |-> ReadFrames(stream, arrivals \o all)]

EncodeBytes ==
    \E bytes \in ByteStrings :
        call' = [op |-> "encode", bytes |-> bytes, result |-> Encode(bytes)]

DecodeText ==
    \E text \in Base64Texts :
        call' = [op |-> "decode", text |-> text, guest |-> GuestDecode(text),
                 host |-> HostDecode(text)]

(* A screendump of the VM, whole or without its last `missing' bytes.      *)
Screenshot ==
    \E size \in Sizes, header \in Headers, missing \in {0, 1} :
        \E rgb \in Pixels[size] :
            LET ppm   == header[size] \o rgb
                image == DecodePpm(SubSeq(ppm, 1, Len(ppm) - missing))
            IN  call' = [op |-> "screenshot", size |-> size, rgb |-> rgb,
                         missing |-> missing, ok |-> image.ok,
                         result |-> IF image.ok THEN EncodePng(image) ELSE <<>>]

(* The guest's own capture: the pixels with blue first and alpha 0.        *)
CaptureInGuest ==
    \E size \in Sizes :
        \E rgb \in Pixels[size] :
            LET bgra == [i \in 1..(size[1] * size[2] * 4) |->
                            LET pixel == ((i - 1) \div 4) * 3
                            IN  IF i % 4 = 0 THEN 0 ELSE rgb[pixel + 4 - (i % 4)]]
            IN  call' = [op |-> "screenshot", size |-> size, rgb |-> rgb,
                         missing |-> 0, ok |-> TRUE,
                         result |-> CaptureGdi(size[1], size[2], bgra)]

(* A VM definition is loaded, prepared and turned into a command line.     *)
LaunchVm ==
    \E config \in Configs, disk \in Disks :
        call' = [op |-> "launch", config |-> config, disk |-> disk,
                 valid |-> Valid(config, Files), prepared |-> Prepare(config, disk),
                 result |-> QemuArgs(config)]

Return == call # Idle /\ call' = Idle

CallNext ==
    \/ call = Idle /\ \/ PlanTransfer
                      \/ AuthoriseTransfer
                      \/ ReceiveFrames
                      \/ EncodeBytes
                      \/ DecodeText
                      \/ Screenshot
                      \/ CaptureInGuest
                      \/ LaunchVm
    \/ Return

CallSpec == CallInit /\ [][CallNext]_call

-----------------------------------------------------------------------------

(* The guest plans exactly the transfers whose path, as Windows walks it,  *)
(* lies in the staging root, and the path it returns names the same file:  *)
(* transfer.rs, plan; paths.rs, resolve_within.                            *)
PlanIsExact ==
    call.op = "plan" =>
        /\ call.result.ok <=> call.path # <<>> /\ WindowsInside(call.root, call.path)
        /\ call.result.ok =>
              /\ Walk(call.result.path) = Walk(call.path)
              /\ \A i \in DOMAIN call.result.path : call.result.path[i] # "/"

(* The host lets a transfer through exactly when the verb is granted, the  *)
(* host's path lies in a root for that direction and the guest's path in   *)
(* the guest root; a guest path that climbs above its drive is refused:    *)
(* server.rs, authorise.                                                   *)
AuthoriseIsExact ==
    call.op = "authorise" =>
        LET grant == call.grant
            roots == IF call.request.direction = "host_to_guest"
                     THEN grant.write_roots ELSE grant.read_roots
        IN  call.result = "ok" <=>
              /\ "transfer" \in grant.verbs
              /\ \A path \in call.request.host_path :
                    \E root \in roots : HostInside(root, path)
              /\ grant.guest_root # <<>>
              /\ WindowsInside(grant.guest_root, call.request.guest_path)
              /\ StaysBelow(Tail(call.request.guest_path))

(* The guest's check mirrors the host's: the two agree on every guest path *)
(* (the comment on is_within_root in paths.rs).                            *)
ChecksAgree ==
    call.op = "plan" =>
        (call.result.ok <=> CheckGuestPath(call.root, call.path) = "ok")

(* The payloads that are written, and where each of them ends on the wire. *)
Sent(payloads, limited) ==
    LET sent[n \in 0..Len(payloads)] ==
            IF n = 0 THEN <<>>
            ELSE IF limited /\ Len(payloads[n]) > MAX_FRAME_LEN THEN sent[n - 1]
            ELSE Append(sent[n - 1], payloads[n])
    IN  sent[Len(payloads)]

Ends(sent) ==
    LET ends[n \in 0..Len(sent)] == IF n = 0 THEN 0 ELSE ends[n - 1] + 4 + Len(sent[n])
    IN  ends

(* However a connection's bytes arrive, the reader returns the payloads in *)
(* the order they were sent, each whole, and ends as the stream did: at a  *)
(* boundary, in the middle of a message, or at a header that asks for too  *)
(* much.  A refused payload leaves nothing behind: framing.rs.             *)
FramesArriveWhole ==
    call.op = "receive" =>
        LET sent  == Sent(call.payloads, call.limited)
            whole == Len(call.result.frames)
            left  == Len(call.stream) - Ends(sent)[whole]
            next  == Len(sent[whole + 1])
        IN  /\ whole <= Len(sent) /\ call.result.frames = SubSeq(sent, 1, whole)
            /\ \/ call.result.end = "closed" /\ left = 0
               \/ /\ call.result.end = "too_large"
                  /\ whole < Len(sent) /\ left >= 4 /\ next > MAX_FRAME_LEN
               \/ /\ call.result.end = "truncated"
                  /\ whole < Len(sent) /\ left > 0
                  /\ left < 4 \/ (next <= MAX_FRAME_LEN /\ left < 4 + next)
               \/ /\ call.result.end = "io"
                  /\ \E i \in DOMAIN call.arrivals : call.arrivals[i] = Failed

(* What is encoded is decoded again by either side, and a text the host's  *)
(* decoder accepts means the same bytes to the guest's: base64.rs, lib.rs. *)
Base64Faithful ==
    /\ call.op = "encode" =>
          /\ HostDecode(call.result) = [ok |-> TRUE, bytes |-> call.bytes]
          /\ GuestDecode(call.result) = [ok |-> TRUE, bytes |-> call.bytes]
    /\ call.op = "decode" => (call.host.ok => call.guest = call.host)

(* A PNG shows the screen that was dumped, pixel by pixel and opaque, and  *)
(* is one every decoder accepts; a dump cut short is no picture at all:    *)
(* image.rs, capture.rs.                                                   *)
ScreenshotFaithful ==
    call.op = "screenshot" =>
        /\ call.ok <=> call.missing = 0
        /\ call.ok =>
              /\ SoundPng(call.result)
              /\ Shown(call.result) =
                    [row \in 1..call.size[2] |-> [column \in 1..call.size[1] |->
                        LET pixel == ((row - 1) * call.size[1] + column - 1) * 3
                        IN  Append(SubSeq(call.rgb, pixel + 1, pixel + 3), 255)]]

Launchable == call.op = "launch" /\ call.valid /\ call.prepared.ok

(* QEMU starts from a definition that was validated and prepared: every    *)
(* name on its command line resolves, the firmware is the one the disk was *)
(* installed under, and the directories of its files were made, for a VM   *)
(* whose name is a single file name: vm.rs, supervisor.rs.                 *)
LaunchIsPrepared ==
    Launchable =>
        /\ Resolves(call.result)
        /\ call.disk.exists /\ call.disk.readable /\ call.disk.installed # "none" =>
              call.disk.installed = call.config.firmware
        /\ (\A i \in DOMAIN call.config.name : call.config.name[i] # "/") =>
              DirectoriesExist(call.config, call.prepared.dirs)

(* prepare makes every directory QEMU needs, whatever the VM is called: it *)
(* "cannot bind a socket in a directory that does not exist".              *)
EveryDirectoryMade ==
    Launchable => DirectoriesExist(call.config, call.prepared.dirs)

=============================================================================
