---------------------------- MODULE FileDelivery ----------------------------
(***************************************************************************)
(* What a file transfer promises its caller, with no chunks, handlers or   *)
(* messages: a transfer that reports success has put the whole file at its *)
(* target, and the file stays there until a transfer to the same target    *)
(* or another program touches it.  A transfer that has not succeeded may   *)
(* leave anything under its own target, and may change every file that is  *)
(* not promised.                                                           *)
(***************************************************************************)
CONSTANTS Pushes, Paths, Absent

VARIABLES target,   \* the path each transfer writes to
          want,     \* the contents it is to put there
          report,   \* what its caller has been told
          store,    \* what each path holds
          promised, \* the paths a caller may rely on
          touched   \* the transfers whose file a program has rewritten

vars == <<target, want, report, store, promised, touched>>

Init ==
    /\ target \in [Pushes -> Paths]
    /\ report = [p \in Pushes |-> "pending"]
    /\ promised = {}
    /\ touched = {}

Begin(p) ==
    /\ report[p] = "pending"
    /\ report' = [report EXCEPT ![p] = "running"]
    /\ \A q \in Pushes \ {p} : want'[q] = want[q]
    /\ UNCHANGED <<target, store, promised, touched>>

Work(p) ==
    /\ report[p] \in {"running", "failed"}
    /\ promised' \in {promised, promised \ {target[p]}}
    /\ \A a \in promised' : store'[a] = store[a]
    /\ UNCHANGED <<target, want, report, touched>>

Succeed(p) ==
    /\ report[p] = "running"
    /\ \/ /\ p \notin touched
          /\ store[target[p]] = want[p]
          /\ promised' = promised \cup {target[p]}
       \/ /\ p \in touched
          /\ promised' = promised
    /\ report' = [report EXCEPT ![p] = "ok"]
    /\ UNCHANGED <<target, want, store, touched>>

Fail(p) ==
    /\ report[p] = "running"
    /\ report' = [report EXCEPT ![p] = "failed"]
    /\ UNCHANGED <<target, want, store, promised, touched>>

\* A program rewrites the file at a: what was promised of it is void, and a
\* transfer to a that has begun may be told of success for another file.
Rewrite(a) ==
    /\ \A b \in Paths \ {a} : store'[b] = store[b]
    /\ promised' = promised \ {a}
    /\ touched \subseteq touched'
    /\ \A p \in touched' \ touched : target[p] = a /\ report[p] # "pending"
    /\ UNCHANGED <<target, want, report>>

Next ==
    \/ \E p \in Pushes : Begin(p) \/ Work(p) \/ Succeed(p) \/ Fail(p)
    \/ \E a \in Paths : Rewrite(a)

Spec == Init /\ [][Next]_vars
=============================================================================
