------------------------------ MODULE PathPolicy ------------------------------
(***************************************************************************)
(* What a request may touch.  The host decides first (wvm-host policy.rs   *)
(* and server.rs, authorise): the verb is granted, the program is on the   *)
(* allowlist, both paths of a transfer lie inside the roots of the grant.  *)
(* The guest then plans the transfer against its own staging root          *)
(* (wvm-guest fsio.rs, transfer.rs, paths.rs).                             *)
(*                                                                         *)
(* A path is written as the sequence of its separators and pieces of names:*)
(* "C:\wvm/x" is <<"C:", "\\", "wvm", "/", "x">> and the directory wvmdata, *)
(* whose name begins with that of wvm, is <<"wvm", "data">>.  A path of    *)
(* nothing but blanks is the empty sequence.                               *)
(***************************************************************************)
EXTENDS Naturals, Sequences, FiniteSets, SequencesExt

CONSTANTS
    Drives,     \* the names that are a drive letter and a colon
    Lower       \* [pieces -> pieces]: to_lowercase, on the pieces it changes

Separators == {"\\", "/"}

(* No piece of a name is a separator, and "." and ".." have no capitals.   *)
NamePiece == STRING \ (Separators \cup {".", ".."})

LowercaseIsStable ==
    /\ Drives \cup DOMAIN Lower \subseteq NamePiece
    /\ \A piece \in DOMAIN Lower : Lower[piece] \in NamePiece \ DOMAIN Lower

ASSUME LowerAssumption == LowercaseIsStable

Lowered(piece) == IF piece \in DOMAIN Lower THEN Lower[piece] ELSE piece

Lowercase(path) == [i \in DOMAIN path |-> Lowered(path[i])]

Separated(path, separator) ==
    [i \in DOMAIN path |-> IF path[i] \in Separators THEN separator ELSE path[i]]

(* split: the runs of pieces between the separators.                       *)
Split(segments, piece) ==
    IF piece \in Separators THEN Append(segments, <<>>)
    ELSE Append(Front(segments), Append(Last(segments), piece))

Segments(path) ==
    LET segments[i \in 0..Len(path)] ==
            IF i = 0 THEN << <<>> >> ELSE Split(segments[i - 1], path[i])
    IN  segments[Len(path)]

Join(text, name, separator) ==
    IF text = <<>> THEN name ELSE text \o <<separator>> \o name

Joined(names, separator) ==
    LET text[i \in 0..Len(names)] ==
            IF i = 0 THEN <<>> ELSE Join(text[i - 1], names[i], separator)
    IN  text[Len(names)]

(* Resolve "." and ".." segment by segment; ".." at the start is dropped.  *)
Nothing == {<<>>, <<".">>}

Parent == <<"..">>

Push(names, segment) ==
    IF segment \in Nothing THEN names
    ELSE IF segment # Parent THEN Append(names, segment)
    ELSE IF names = <<>> THEN names ELSE Front(names)

Resolved(path) ==
    LET segments == Segments(path)
        names[i \in 0..Len(segments)] ==
            IF i = 0 THEN <<>> ELSE Push(names[i - 1], segments[i])
    IN  names[Len(segments)]

-----------------------------------------------------------------------------
(* The guest: paths.rs                                                     *)

IsDrivePath(path) == path # <<>> /\ path[1] \in Drives

IsServerPath(path) ==
    /\ Len(path) >= 2
    /\ path[1] \in Separators /\ path[2] = path[1]

(* A UNC path is cut at the separator after the server's name.             *)
ServerEnd(path) ==
    LET after == {i \in 3..Len(path) : path[i] \in Separators}
    IN  IF after = {} THEN Len(path) ELSE Min(after) - 1

PrefixLength(path) ==
    CASE IsDrivePath(path)  -> 1
      [] IsServerPath(path) -> ServerEnd(path)
      [] OTHER              -> 0

Prefix(path) == SubSeq(path, 1, PrefixLength(path))

Rest(path) == SubSeq(path, PrefixLength(path) + 1, Len(path))

Canonicalise(path) ==
    LET joined == Lowercase(Joined(Resolved(Rest(path)), "/"))
    IN  IF Prefix(path) = <<>> THEN joined
        ELSE Lowercase(Separated(Prefix(path), "/")) \o <<"/">> \o joined

IsWithinRootByPrefix(root, path) ==
    /\ Canonicalise(root) # <<>>
    /\ IsPrefix(Canonicalise(root), Canonicalise(path))

IsWithinRoot(root, path) ==
    LET root_c == Canonicalise(root)
        path_c == Canonicalise(path)
    IN  /\ root_c # <<>>
        /\ path_c = root_c \/ IsPrefix(Append(root_c, "/"), path_c)

Refused == [ok |-> FALSE, path |-> <<>>]

Planned(path) == [ok |-> TRUE, path |-> path]

ResolveWithin(root, path) ==
    IF root # <<>> /\ path # <<>> /\ IsWithinRoot(root, path)
    THEN Planned(Separated(path, "\\"))
    ELSE Refused

(* transfer.rs, plan: the host's path is recorded and not looked at.       *)
Plan(guest_root, host_root, guest_path) ==
    IF guest_root = <<>> \/ host_root = <<>> THEN Refused
    ELSE ResolveWithin(guest_root, guest_path)

(* fsio.rs: the roots of the installed service, each unless overridden.    *)
StagingRoots(default, override) ==
    [side \in {"guest", "host"} |->
        IF override[side] # <<>> THEN override[side] ELSE default[side]]

PlanFrom(roots, guest_path) == Plan(roots["guest"], roots["host"], guest_path)

-----------------------------------------------------------------------------
(* The host: policy.rs                                                     *)

Permits(allowlist, program) ==
    Lowercase(program) \in {Lowercase(entry) : entry \in allowlist}

CheckExec(allowlist, program) ==
    IF Permits(allowlist, program) THEN "ok" ELSE "program_not_allowlisted"

TrimEnd(path) ==
    SubSeq(path, 1, Max({i \in DOMAIN path : path[i] # "\\"} \cup {0}))

NormalisedRoot(root) == Lowercase(TrimEnd(Separated(root, "\\")))

CheckGuestPath(guest_root, guest_path) ==
    LET root     == NormalisedRoot(guest_root)
        resolved == Lowercase(Joined(Resolved(guest_path), "\\"))
    IN  IF guest_root = <<>> \/ root = <<>> THEN "no_transfer_root"
        ELSE IF resolved = root \/ IsPrefix(Append(root, "\\"), resolved) THEN "ok"
        ELSE "path_outside_roots"

(* A POSIX path: an empty first component stands for the root directory.   *)
HostPush(components, segment) ==
    CASE segment = Parent -> IF components \in {<<>>, << <<>> >>} THEN components
                             ELSE Front(components)
      [] segment \in Nothing -> components
      [] OTHER -> Append(components, segment)

LexicalResolve(path) ==
    LET segments == Segments(path)
        top          == IF path # <<>> /\ path[1] = "/" THEN << <<>> >> ELSE <<>>
        components[i \in 0..Len(segments)] ==
            IF i = 0 THEN top ELSE HostPush(components[i - 1], segments[i])
    IN  components[Len(segments)]

PathWithinRootsAsWritten(path, roots) ==
    \E root \in roots : IsPrefix(Segments(root), Segments(path))

PathWithinRoots(path, roots) ==
    \E root \in roots : IsPrefix(LexicalResolve(root), LexicalResolve(path))

CheckHostTransfer(grant, direction, host_path) ==
    LET roots == IF direction = "host_to_guest" THEN grant.write_roots
                 ELSE grant.read_roots
    IN  IF roots = {} THEN "no_transfer_root"
        ELSE IF PathWithinRoots(host_path, roots) THEN "ok"
        ELSE "path_outside_roots"

-----------------------------------------------------------------------------
(* The capability gate: lib.rs, required_verb and permits; server.rs,      *)
(* authorise.  A request's host_path is the set of the path it names, or {}.*)

RequiredVerb(op) ==
    CASE op \in {"hello", "inspect"} -> "inspect"
      [] op \in {"transfer", "transfer_chunk", "pull_chunk"} -> "transfer"
      [] OTHER -> op

Authorise(grant, allowlist, request) ==
    IF RequiredVerb(request.op) \notin grant.verbs THEN "verb_not_granted"
    ELSE CASE request.op = "exec" -> CheckExec(allowlist, request.program)
           [] request.op = "transfer" ->
                LET refusals == {CheckHostTransfer(grant, request.direction, path) :
                                     path \in request.host_path} \ {"ok"}
                IN  IF refusals # {} THEN CHOOSE reason \in refusals : TRUE
                    ELSE CheckGuestPath(grant.guest_root, request.guest_path)
           [] OTHER -> "ok"

-----------------------------------------------------------------------------
(* The reference: which file a path names.  An absolute path is walked     *)
(* from the root of its volume, one name at a time; a volume's root is its *)
(* own parent, and names are the same in either case on Windows.           *)

Enter(directory, name) ==
    CASE name \in Nothing -> directory
      [] name = Parent    -> [n \in 1..(Len(directory) - 1) |-> directory[n]]
      [] OTHER            -> Append(directory, name)

Walk(path) ==
    LET segments == Segments(path)
        at[i \in 0..Len(segments)] ==
            IF i = 0 THEN <<>> ELSE Enter(at[i - 1], segments[i])
    IN  at[Len(segments)]

WindowsInside(root, path) ==
    /\ Lowercase(<<root[1]>>) = Lowercase(<<path[1]>>)
    /\ IsPrefix(Walk(Lowercase(Tail(root))), Walk(Lowercase(Tail(path))))

HostInside(root, path) == IsPrefix(Walk(root), Walk(path))

(* No ".." of the path climbs above the root of its volume.                *)
StaysBelow(path) ==
    LET segments == Segments(path)
        Count(i, kind) == Cardinality({n \in 1..i : kind = (segments[n] = Parent)
                                                   /\ segments[n] \notin Nothing})
    IN  \A i \in DOMAIN segments : Count(i, TRUE) <= Count(i, FALSE)

=============================================================================
