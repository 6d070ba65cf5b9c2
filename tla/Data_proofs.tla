------------------------------ MODULE Data_proofs ------------------------------
(***************************************************************************)
(* Proofs that need induction over data: about GuestConsole, for any       *)
(* commands, jobs and screens, and about the base64, the command line and  *)
(* the paths of Calls, for any bytes and texts, any definitions and disks, *)
(* any roots and paths.  A command of the console sends a script of calls; *)
(* the invariant says for the n-th call of it what the guest has seen of   *)
(* the command so far and what is held.  A decoder stands between two      *)
(* groups of characters with what they stand for.  A command line is put   *)
(* together from sections that say what they declare, use and open.  A     *)
(* path is split, entered and joined one piece at a time, and stands at    *)
(* each piece at a list of names.  All of these are recursive functions or *)
(* sequences, so the proofs begin with induction over the natural numbers, *)
(* from the library's theorem that < is well founded on them.              *)
(***************************************************************************)
EXTENDS GuestConsole, Calls, TLAPS, WellFoundedInduction, FiniteSetTheorems,
        SequenceTheorems

-----------------------------------------------------------------------------
(* Induction, over sets of natural numbers.                                *)

Below == {p \in Nat \X Nat : p[1] < p[2]}

LEMMA BelowWellFounded == IsWellFoundedOn(Below, Nat)
<1>1. OpToRel(<, Nat) = Below
  BY DEF OpToRel, Below
<1> QED
  BY <1>1, NatLessThanWellFounded

LEMMA Induction ==
    ASSUME NEW S, 0 \in S, \A n \in Nat : n \in S => n + 1 \in S
    PROVE  Nat \subseteq S
<1>1. SUFFICES ASSUME Nat \ S # {} PROVE FALSE
  OBVIOUS
<1>2. PICK x \in Nat \ S : \A y \in Nat \ S : ~(<<y, x>> \in Below)
  BY <1>1, BelowWellFounded, WFMin
<1>3. x - 1 \in Nat /\ <<x - 1, x>> \in Below
  BY <1>2 DEF Below
<1>4. x - 1 \in S
  BY <1>2, <1>3
<1> QED
  BY <1>2, <1>3, <1>4

LEMMA InductionUpTo ==
    ASSUME NEW n \in Nat, NEW S, 0 \in S, \A i \in 0 .. (n - 1) : i \in S => i + 1 \in S
    PROVE  0 .. n \subseteq S
<1> DEFINE T == {i \in Nat : i <= n => i \in S}
<1>1. 0 \in T
  OBVIOUS
<1>2. \A i \in Nat : i \in T => i + 1 \in T
  OBVIOUS
<1>3. Nat \subseteq T
  <2> HIDE DEF T
  <2> QED
    BY <1>1, <1>2, Induction
<1> QED
  BY <1>3

\* A function of the naturals up to n, defined by its first value and by its step.
StepFunctions(n, V) == [0 .. n -> [V -> V]]

Follows(f, n, V, base, next) ==
    /\ f \in [0 .. n -> V] /\ f[0] = base
    /\ \A i \in 0 .. (n - 1) : f[i + 1] = next[i][f[i]]

LEMMA Recursion ==
    ASSUME NEW n \in Nat, NEW V, NEW base \in V, NEW next \in StepFunctions(n, V)
    PROVE  \E f : Follows(f, n, V, base, next)
<1> USE DEF StepFunctions
<1> DEFINE Steps(k, f) == \A i \in 0 .. (k - 1) : f[i + 1] = next[i][f[i]]
           S == {k \in 0 .. n : \E f \in [0 .. k -> V] : f[0] = base /\ Steps(k, f)}
<1>1. 0 \in S
  <2>1. [i \in 0 .. 0 |-> base] \in [0 .. 0 -> V]
    OBVIOUS
  <2>2. [i \in 0 .. 0 |-> base][0] = base /\ Steps(0, [i \in 0 .. 0 |-> base])
    OBVIOUS
  <2> HIDE DEF Steps
  <2> QED
    BY <2>1, <2>2
<1>2. ASSUME NEW k \in 0 .. (n - 1), k \in S PROVE k + 1 \in S
  <2>1. PICK f \in [0 .. k -> V] : f[0] = base /\ Steps(k, f)
    BY <1>2
  <2> DEFINE v == next[k][f[k]]
             g == [i \in 0 .. (k + 1) |-> IF i = k + 1 THEN v ELSE f[i]]
  <2>2. v \in V
    OBVIOUS
  <2> HIDE DEF v
  <2>3. g \in [0 .. (k + 1) -> V]
    BY <2>2
  <2>4. g[k + 1] = v /\ \A i \in 0 .. k : g[i] = f[i]
    OBVIOUS
  <2> HIDE DEF g
  <2>5. Steps(k + 1, g)
    <3> SUFFICES ASSUME NEW i \in 0 .. k PROVE g[i + 1] = next[i][g[i]]
      OBVIOUS
    <3>1. CASE i = k
      BY <3>1, <2>4 DEF v
    <3>2. CASE i \in 0 .. (k - 1)
      <4>1. g[i + 1] = f[i + 1] /\ g[i] = f[i]
        BY <3>2, <2>4
      <4> QED
        BY <4>1, <3>2, <2>1
    <3> QED
      BY <3>1, <3>2
  <2> HIDE DEF Steps
  <2>6. g[0] = base
    BY <2>1, <2>4
  <2> QED
    BY <2>3, <2>5, <2>6
<1>3. n \in S
  <2> HIDE DEF S
  <2>1. 0 .. n \subseteq S
    BY <1>1, <1>2, InductionUpTo
  <2> QED
    BY <2>1
<1> QED
  BY <1>3 DEF Follows

\* Two functions with the same first value and the same step are the same.
LEMMA SameRecursion ==
    ASSUME NEW n \in Nat, NEW V, NEW W, NEW f \in [0 .. n -> V], NEW g \in [0 .. n -> W],
           f[0] = g[0], \A i \in 0 .. (n - 1) : f[i] = g[i] => f[i + 1] = g[i + 1]
    PROVE  f = g
<1> DEFINE S == {i \in 0 .. n : f[i] = g[i]}
<1>1. 0 \in S
  OBVIOUS
<1>2. ASSUME NEW i \in 0 .. (n - 1), i \in S PROVE i + 1 \in S
  <2>1. f[i] = g[i]
    BY <1>2
  <2> QED
    BY <2>1
<1>3. 0 .. n \subseteq S
  <2> HIDE DEF S
  <2> QED
    BY <1>1, <1>2, InductionUpTo
<1> QED
  BY <1>3

\* What is defined by a first value and a step, for values of a set V, follows them.
LEMMA Unfolding ==
    ASSUME NEW n \in Nat, NEW V, NEW base \in V, NEW next \in StepFunctions(n, V),
           NEW h, h = [i \in 0 .. n |-> h[i]], h[0] = base,
           \A i \in 0 .. (n - 1) : h[i] \in V => h[i + 1] = next[i][h[i]]
    PROVE  Follows(h, n, V, base, next)
<1> DEFINE S == {i \in 0 .. n : h[i] \in V}
<1>1. 0 \in S
  OBVIOUS
<1>2. ASSUME NEW i \in 0 .. (n - 1), i \in S PROVE i + 1 \in S
  <2>1. h[i] \in V /\ next[i] \in [V -> V]
    BY <1>2 DEF StepFunctions
  <2>2. next[i][h[i]] \in V
    BY <2>1
  <2>3. h[i + 1] = next[i][h[i]]
    BY <2>1, Zenon
  <2>4. i + 1 \in 0 .. n
    OBVIOUS
  <2> QED
    BY <2>2, <2>3, <2>4
<1>3. 0 .. n \subseteq S
  <2> HIDE DEF S
  <2> QED
    BY <1>1, <1>2, InductionUpTo
<1>4. \A i \in 0 .. n : h[i] \in V
  BY <1>3
<1>5. h \in [0 .. n -> V]
  BY <1>4
<1>6. ASSUME NEW i \in 0 .. (n - 1) PROVE h[i + 1] = next[i][h[i]]
  <2>1. i \in 0 .. n
    OBVIOUS
  <2>2. h[i] \in V
    BY <1>4, <2>1
  <2> QED
    BY <2>2, Zenon
<1> QED
  BY <1>5, <1>6 DEF Follows

LEMMA HeldUnfolds ==
    ASSUME NEW events \in Seq(Event), held \in SUBSET KeyNames
    PROVE  LET h == HeldAfter(events) IN
           /\ h \in [0 .. Len(events) -> SUBSET KeyNames]
           /\ h[0] = held
           /\ \A i \in 1 .. Len(events) :
                h[i] = IF events[i].down THEN h[i - 1] \cup {events[i].key}
                       ELSE h[i - 1] \ {events[i].key}
<1> DEFINE n == Len(events)
           V == SUBSET KeyNames
           After(before, i) == IF events[i].down THEN before \cup {events[i].key}
                              ELSE before \ {events[i].key}
           next == [i \in 0 .. n |->
                      [before \in V |-> IF i < n THEN After(before, i + 1) ELSE before]]
           Def(h) == h = [i \in 0 .. n |-> IF i = 0 THEN held ELSE After(h[i - 1], i)]
<1>1. \A i \in 1 .. n, before \in V : After(before, i) \in V
  <2> SUFFICES ASSUME NEW i \in 1 .. n, NEW before \in V PROVE After(before, i) \in V
    OBVIOUS
  <2>1. events[i] \in Event
    OBVIOUS
  <2> QED
    BY <2>1 DEF Event
<1>2. HeldAfter(events) = CHOOSE h : Def(h)
  BY DEF HeldAfter
<1>3. n \in Nat /\ held \in V
  BY LenProperties
<1> HIDE DEF After, n, V
<1>4. next \in StepFunctions(n, V)
  BY <1>1, <1>3 DEF StepFunctions
<1>5. \A i \in 0 .. (n - 1), before \in V : next[i][before] = After(before, i + 1)
  BY <1>3
<1> HIDE DEF next
<1>6. PICK f : Follows(f, n, V, held, next)
  BY <1>3, <1>4, Recursion
<1> USE DEF Follows
<1>7. \A i \in 0 .. (n - 1) : f[i + 1] = After(f[i], i + 1)
  BY <1>3, <1>5, <1>6
<1>8. \A i \in 1 .. n : f[i] = After(f[i - 1], i)
  <2> TAKE i \in 1 .. n
  <2>1. i - 1 \in 0 .. (n - 1) /\ (i - 1) + 1 = i
    BY <1>3
  <2> QED
    BY <2>1, <1>7
<1>9. Def(f)
  <2>1. f \in [0 .. n -> V]
    BY <1>6
  <2>2. \A i \in 0 .. n : f[i] = IF i = 0 THEN held ELSE After(f[i - 1], i)
    BY <1>3, <1>6, <1>8
  <2> HIDE DEF Follows
  <2> QED
    BY <2>1, <2>2
<1>10. PICK h : h = HeldAfter(events) /\ Def(h)
  BY <1>2, <1>9
<1>11. h = f
  <2>1. h \in [0 .. n -> {h[i] : i \in 0 .. n}]
    BY <1>10
  <2>2. h[0] = held
    BY <1>3, <1>10
  <2>3. \A i \in 0 .. (n - 1) : h[i + 1] = After(h[i], i + 1)
    BY <1>3, <1>10
  <2>4. \A i \in 0 .. (n - 1) : h[i] = f[i] => h[i + 1] = f[i + 1]
    BY <1>7, <2>3
  <2>5. f \in [0 .. n -> V] /\ h[0] = f[0]
    BY <1>6, <2>2
  <2> DEFINE W == {h[i] : i \in 0 .. n}
  <2> HIDE DEF Def, W, Follows
  <2>6. h \in [0 .. n -> W]
    BY <2>1 DEF W
  <2> QED
    BY <1>3, <2>4, <2>5, <2>6, SameRecursion, Zenon
<1> QED
  BY <1>6, <1>8, <1>10, <1>11 DEF After, n, V

\* The strokes are those of the keys that went down, each with what was held.
PressedBy(p, events, h) ==
    /\ p \in [0 .. Len(events) -> Seq(Stroke)]
    /\ p[0] = <<>>
    /\ \A i \in 1 .. Len(events) :
         p[i] = IF events[i].down
                THEN Append(p[i - 1], [key |-> events[i].key, with |-> h[i - 1]])
                ELSE p[i - 1]

LEMMA PressedUnfolds ==
    ASSUME NEW events \in Seq(Event), held \in SUBSET KeyNames
    PROVE  \E p : PressedBy(p, events, HeldAfter(events)) /\ Pressed(events) = p[Len(events)]
<1> DEFINE n == Len(events)
           V == Seq(Stroke)
           held_at == HeldAfter(events)
           After(before, i) ==
               IF events[i].down
               THEN Append(before, [key |-> events[i].key, with |-> held_at[i - 1]])
               ELSE before
           next == [i \in 0 .. n |->
                      [before \in V |-> IF i < n THEN After(before, i + 1) ELSE before]]
           Def(h) == h = [i \in 0 .. n |-> IF i = 0 THEN <<>> ELSE After(h[i - 1], i)]
<1>0. held_at \in [0 .. n -> SUBSET KeyNames]
  BY HeldUnfolds
<1>1. \A i \in 1 .. n, before \in V : After(before, i) \in V
  <2> SUFFICES ASSUME NEW i \in 1 .. n, NEW before \in V PROVE After(before, i) \in V
    OBVIOUS
  <2>1. events[i] \in Event
    OBVIOUS
  <2>2. held_at[i - 1] \in SUBSET KeyNames
    <3> HIDE DEF held_at
    <3> QED
      BY <1>0
  <2> HIDE DEF held_at
  <2>3. [key |-> events[i].key, with |-> held_at[i - 1]] \in Stroke
    BY <2>1, <2>2 DEF Event, Stroke
  <2> QED
    BY <2>3
<1>2. Pressed(events) = (CHOOSE h : Def(h))[n]
  BY DEF Pressed
<1>3. n \in Nat /\ <<>> \in V
  BY LenProperties
<1> HIDE DEF After, n, V, held_at
<1>4. next \in StepFunctions(n, V)
  BY <1>1, <1>3 DEF StepFunctions
<1>5. \A i \in 0 .. (n - 1), before \in V : next[i][before] = After(before, i + 1)
  BY <1>3
<1> HIDE DEF next
<1>6. PICK f : Follows(f, n, V, <<>>, next)
  BY <1>3, <1>4, Recursion
<1> USE DEF Follows
<1>7. \A i \in 0 .. (n - 1) : f[i + 1] = After(f[i], i + 1)
  BY <1>3, <1>5, <1>6
<1>8. \A i \in 1 .. n : f[i] = After(f[i - 1], i)
  <2> TAKE i \in 1 .. n
  <2>1. i - 1 \in 0 .. (n - 1) /\ (i - 1) + 1 = i
    BY <1>3
  <2> QED
    BY <2>1, <1>7
<1>9. Def(f)
  BY <1>3, <1>6, <1>8
<1>10. PICK h : h = (CHOOSE g : Def(g)) /\ Def(h)
  BY <1>9
<1>11. h = f
  <2>1. h \in [0 .. n -> {h[i] : i \in 0 .. n}]
    BY <1>10
  <2>2. h[0] = <<>>
    BY <1>3, <1>10
  <2>3. \A i \in 0 .. (n - 1) : h[i + 1] = After(h[i], i + 1)
    <3> TAKE i \in 0 .. (n - 1)
    <3> DEFINE j == i + 1
    <3>0. j \in 0 .. n /\ j # 0
      BY <1>3
    <3> HIDE DEF j
    <3>1. h[j] = After(h[j - 1], j)
      BY <3>0, <1>10, Zenon
    <3>2. j = i + 1 /\ j - 1 = i
      BY <1>3 DEF j
    <3> QED
      BY <3>1, <3>2
  <2>4. \A i \in 0 .. (n - 1) : h[i] = f[i] => h[i + 1] = f[i + 1]
    BY <1>7, <2>3
  <2>5. f \in [0 .. n -> V] /\ h[0] = f[0]
    BY <1>6, <2>2
  <2> HIDE DEF Def
  <2> DEFINE W == {h[i] : i \in 0 .. n}
  <2> HIDE DEF W, Follows
  <2>6. h \in [0 .. n -> W]
    BY <2>1 DEF W
  <2> QED
    BY <1>3, <2>4, <2>5, <2>6, SameRecursion, Zenon
<1>12. Pressed(events) = f[n]
  BY <1>2, <1>10, <1>11
<1>13. PressedBy(f, events, held_at)
  BY <1>6, <1>8 DEF After, n, V, PressedBy
<1> QED
  BY <1>12, <1>13 DEF n, held_at

\* The text is that of the strokes, one after another; shift itself types nothing.
LegendsOf(strokes) ==
    {Legend(strokes[i].key, TRUE) : i \in 1 .. Len(strokes)}
    \cup {Legend(strokes[i].key, FALSE) : i \in 1 .. Len(strokes)}

TypedBy(t, strokes) ==
    /\ t \in [0 .. Len(strokes) -> Seq(LegendsOf(strokes))]
    /\ t[0] = <<>>
    /\ \A i \in 1 .. Len(strokes) :
         t[i] = IF strokes[i].key = "shift" THEN t[i - 1]
                ELSE Append(t[i - 1], Legend(strokes[i].key, "shift" \in strokes[i].with))

LEMMA TypedUnfolds ==
    ASSUME NEW strokes \in Seq(Stroke)
    PROVE  \E t : TypedBy(t, strokes) /\ Typed(strokes) = t[Len(strokes)]
<1> DEFINE n == Len(strokes)
           V == Seq(LegendsOf(strokes))
           After(before, i) ==
               IF strokes[i].key = "shift" THEN before
               ELSE Append(before, Legend(strokes[i].key, "shift" \in strokes[i].with))
           next == [i \in 0 .. n |->
                      [before \in V |-> IF i < n THEN After(before, i + 1) ELSE before]]
           Def(h) == h = [i \in 0 .. n |-> IF i = 0 THEN <<>> ELSE After(h[i - 1], i)]
<1>1. \A i \in 1 .. n, before \in V : After(before, i) \in V
  <2> SUFFICES ASSUME NEW i \in 1 .. n, NEW before \in V PROVE After(before, i) \in V
    OBVIOUS
  <2>1. Legend(strokes[i].key, "shift" \in strokes[i].with) \in LegendsOf(strokes)
    <3>1. CASE "shift" \in strokes[i].with
      <4>1. ("shift" \in strokes[i].with) = TRUE
        BY <3>1
      <4> QED
        BY <4>1 DEF LegendsOf
    <3>2. CASE "shift" \notin strokes[i].with
      <4>1. ("shift" \in strokes[i].with) = FALSE
        BY <3>2
      <4> QED
        BY <4>1 DEF LegendsOf
    <3> QED
      BY <3>1, <3>2
  <2> QED
    BY <2>1
<1>2. Typed(strokes) = (CHOOSE h : Def(h))[n]
  BY DEF Typed
<1>3. n \in Nat /\ <<>> \in V
  BY LenProperties
<1> HIDE DEF After, n, V
<1>4. next \in StepFunctions(n, V)
  BY <1>1, <1>3 DEF StepFunctions
<1>5. \A i \in 0 .. (n - 1), before \in V : next[i][before] = After(before, i + 1)
  BY <1>3
<1> HIDE DEF next
<1>6. PICK f : Follows(f, n, V, <<>>, next)
  BY <1>3, <1>4, Recursion
<1> USE DEF Follows
<1>7. \A i \in 0 .. (n - 1) : f[i + 1] = After(f[i], i + 1)
  BY <1>3, <1>5, <1>6
<1>8. \A i \in 1 .. n : f[i] = After(f[i - 1], i)
  <2> TAKE i \in 1 .. n
  <2>1. i - 1 \in 0 .. (n - 1) /\ (i - 1) + 1 = i
    BY <1>3
  <2> QED
    BY <2>1, <1>7
<1>9. Def(f)
  BY <1>3, <1>6, <1>8
<1>10. PICK h : h = (CHOOSE g : Def(g)) /\ Def(h)
  BY <1>9
<1>11. h = f
  <2>1. h \in [0 .. n -> {h[i] : i \in 0 .. n}]
    BY <1>10
  <2>2. h[0] = <<>>
    BY <1>3, <1>10
  <2>3. \A i \in 0 .. (n - 1) : h[i + 1] = After(h[i], i + 1)
    <3> TAKE i \in 0 .. (n - 1)
    <3> DEFINE j == i + 1
    <3>0. j \in 0 .. n /\ j # 0
      BY <1>3
    <3> HIDE DEF j
    <3>1. h[j] = After(h[j - 1], j)
      BY <3>0, <1>10, Zenon
    <3>2. j = i + 1 /\ j - 1 = i
      BY <1>3 DEF j
    <3> QED
      BY <3>1, <3>2
  <2>4. \A i \in 0 .. (n - 1) : h[i] = f[i] => h[i + 1] = f[i + 1]
    BY <1>7, <2>3
  <2>5. f \in [0 .. n -> V] /\ h[0] = f[0]
    BY <1>6, <2>2
  <2> HIDE DEF Def
  <2> DEFINE W == {h[i] : i \in 0 .. n}
  <2> HIDE DEF W, Follows
  <2>6. h \in [0 .. n -> W]
    BY <2>1 DEF W
  <2> QED
    BY <1>3, <2>4, <2>5, <2>6, SameRecursion, Zenon
<1>12. Typed(strokes) = f[n]
  BY <1>2, <1>10, <1>11
<1>13. TypedBy(f, strokes)
  BY <1>6, <1>8 DEF After, n, V, TypedBy
<1> QED
  BY <1>12, <1>13 DEF n

LEMMA TypedOfNothing == Typed(<<>>) = <<>>
<1>1. <<>> \in Seq(Stroke) /\ Len(<<>>) = 0
  OBVIOUS
<1>2. PICK t : TypedBy(t, <<>>) /\ Typed(<<>>) = t[Len(<<>>)]
  BY <1>1, TypedUnfolds
<1> QED
  BY <1>1, <1>2 DEF TypedBy

LEMMA TypedOfOneMore ==
    ASSUME NEW strokes \in Seq(Stroke), NEW stroke \in Stroke
    PROVE  Typed(Append(strokes, stroke)) =
               IF stroke.key = "shift" THEN Typed(strokes)
               ELSE Append(Typed(strokes), Legend(stroke.key, "shift" \in stroke.with))
<1> DEFINE n == Len(strokes)
           more == Append(strokes, stroke)
<1>1. /\ n \in Nat /\ more \in Seq(Stroke) /\ Len(more) = n + 1
      /\ more[n + 1] = stroke /\ \A i \in 1 .. n : more[i] = strokes[i]
  OBVIOUS
<1>2. PICK t : TypedBy(t, strokes) /\ Typed(strokes) = t[n]
  BY TypedUnfolds
<1>3. PICK u : TypedBy(u, more) /\ Typed(more) = u[n + 1]
  BY <1>1, TypedUnfolds
<1> HIDE DEF n, more
<1> DEFINE v == [i \in 0 .. n |-> u[i]]
<1>4. t = v
  <2>1. t \in [0 .. n -> Seq(LegendsOf(strokes))] /\ t[0] = <<>>
    BY <1>2 DEF TypedBy, n
  <2>2. v \in [0 .. n -> Seq(LegendsOf(more))] /\ v[0] = <<>>
    BY <1>1, <1>3 DEF TypedBy
  <2>3. ASSUME NEW i \in 0 .. (n - 1), t[i] = v[i] PROVE t[i + 1] = v[i + 1]
    <3> DEFINE j == i + 1
    <3>1. j \in 1 .. n /\ j \in 1 .. Len(more) /\ j - 1 = i /\ j \in 0 .. n /\ i \in 0 .. n
      BY <1>1
    <3> HIDE DEF j
    <3>2. t[j] = IF strokes[j].key = "shift" THEN t[j - 1]
                 ELSE Append(t[j - 1], Legend(strokes[j].key, "shift" \in strokes[j].with))
      BY <1>2, <3>1, Zenon DEF TypedBy, n
    <3>3. u[j] = IF more[j].key = "shift" THEN u[j - 1]
                 ELSE Append(u[j - 1], Legend(more[j].key, "shift" \in more[j].with))
      BY <1>3, <3>1, Zenon DEF TypedBy
    <3>4. more[j] = strokes[j] /\ v[j] = u[j] /\ v[i] = u[i]
      BY <1>1, <3>1
    <3>5. t[j] = v[j]
      BY <3>1, <3>2, <3>3, <3>4, <2>3
    <3> QED
      BY <3>5 DEF j
  <2> DEFINE V == Seq(LegendsOf(strokes))
             W == Seq(LegendsOf(more))
  <2> HIDE DEF v
  <2>4. t \in [0 .. n -> V] /\ v \in [0 .. n -> W] /\ t[0] = v[0]
    BY <2>1, <2>2
  <2>5. \A i \in 0 .. (n - 1) : t[i] = v[i] => t[i + 1] = v[i + 1]
    BY <2>3
  <2>6. n \in Nat
    BY <1>1
  <2> HIDE DEF V, W
  <2> QED
    BY <2>4, <2>5, <2>6, SameRecursion, Zenon
<1>5. t[n] = u[n]
  BY <1>1, <1>4
<1>6. n + 1 \in 1 .. Len(more) /\ (n + 1) - 1 = n
  BY <1>1
<1>7. u[n + 1] = IF more[n + 1].key = "shift" THEN u[n]
                 ELSE Append(u[n], Legend(more[n + 1].key, "shift" \in more[n + 1].with))
  BY <1>3, <1>6 DEF TypedBy
<1> QED
  BY <1>1, <1>2, <1>3, <1>5, <1>7 DEF more

Presses(events, keys) ==
    /\ Len(keys) <= Len(events)
    /\ \A i \in 1 .. Len(keys) : events[i].key = keys[i] /\ events[i].down

Releases(events, m, keys) ==
    /\ m + Len(keys) = Len(events)
    /\ \A i \in 1 .. Len(keys) :
         events[m + i].key = keys[Len(keys) + 1 - i] /\ ~events[m + i].down

FirstOf(keys, i) == {keys[j] : j \in 1 .. i}

LastOf(keys, i) == {keys[j] : j \in (Len(keys) + 1 - i) .. Len(keys)}

LEMMA HeldByPresses ==
    ASSUME NEW events \in Seq(Event), NEW keys \in Seq(KeyNames), held \in SUBSET KeyNames,
           Presses(events, keys), NEW i \in 0 .. Len(keys)
    PROVE  HeldAfter(events)[i] = held \cup FirstOf(keys, i)
<1> DEFINE n == Len(keys)
           h == HeldAfter(events)
           S == {k \in 0 .. n : h[k] = held \cup FirstOf(keys, k)}
<1>0. n \in Nat /\ Len(events) \in Nat
  OBVIOUS
<1>1. /\ h[0] = held
      /\ \A k \in 1 .. Len(events) :
            h[k] = IF events[k].down THEN h[k - 1] \cup {events[k].key}
                   ELSE h[k - 1] \ {events[k].key}
  BY HeldUnfolds
<1> HIDE DEF h
<1>2. 0 \in S
  BY <1>0, <1>1 DEF FirstOf
<1>3. ASSUME NEW k \in 0 .. (n - 1), k \in S PROVE k + 1 \in S
  <2>1. k + 1 \in 1 .. n /\ k + 1 \in 1 .. Len(events) /\ (k + 1) - 1 = k
    BY <1>0 DEF Presses
  <2>2. h[k + 1] = h[k] \cup {keys[k + 1]}
    BY <1>1, <2>1 DEF Presses
  <2>3. FirstOf(keys, k + 1) = FirstOf(keys, k) \cup {keys[k + 1]}
    <3>1. 1 .. (k + 1) = (1 .. k) \cup {k + 1}
      BY <2>1
    <3> QED
      BY <3>1 DEF FirstOf
  <2>4. h[k] = held \cup FirstOf(keys, k)
    BY <1>3
  <2> QED
    BY <2>1, <2>2, <2>3, <2>4
<1> HIDE DEF S
<1>4. 0 .. n \subseteq S
  BY <1>0, <1>2, <1>3, InductionUpTo
<1> QED
  BY <1>4 DEF S, h

LEMMA HeldByReleases ==
    ASSUME NEW events \in Seq(Event), NEW keys \in Seq(KeyNames), held \in SUBSET KeyNames,
           NEW m \in Nat, Releases(events, m, keys), NEW i \in 0 .. Len(keys)
    PROVE  HeldAfter(events)[m + i] = HeldAfter(events)[m] \ LastOf(keys, i)
<1> DEFINE n == Len(keys)
           h == HeldAfter(events)
           S == {k \in 0 .. n : h[m + k] = h[m] \ LastOf(keys, k)}
<1>0. n \in Nat /\ Len(events) \in Nat
  OBVIOUS
<1>1. \A k \in 1 .. Len(events) :
            h[k] = IF events[k].down THEN h[k - 1] \cup {events[k].key}
                   ELSE h[k - 1] \ {events[k].key}
  BY HeldUnfolds
<1> HIDE DEF h
<1>2. 0 \in S
  <2>1. LastOf(keys, 0) = {} /\ m + 0 = m
    BY <1>0 DEF LastOf
  <2> QED
    BY <1>0, <2>1
<1>3. ASSUME NEW k \in 0 .. (n - 1), k \in S PROVE k + 1 \in S
  <2> DEFINE l == n + 1 - (k + 1)
  <2>1. /\ k + 1 \in 1 .. n /\ m + (k + 1) \in 1 .. Len(events)
        /\ (m + (k + 1)) - 1 = m + k
    BY <1>0 DEF Releases
  <2>2. h[m + (k + 1)] = h[m + k] \ {keys[l]}
    BY <1>1, <2>1 DEF Releases
  <2>3. LastOf(keys, k + 1) = LastOf(keys, k) \cup {keys[l]}
    <3>1. l .. n = ((n + 1 - k) .. n) \cup {l}
      BY <1>0
    <3> QED
      BY <3>1 DEF LastOf
  <2>4. h[m + k] = h[m] \ LastOf(keys, k)
    BY <1>3
  <2> QED
    BY <2>1, <2>2, <2>3, <2>4
<1> HIDE DEF S
<1>4. 0 .. n \subseteq S
  BY <1>0, <1>2, <1>3, InductionUpTo
<1> QED
  BY <1>4 DEF S, h

LEMMA NoStrokesByReleases ==
    ASSUME NEW events \in Seq(Event), NEW keys \in Seq(KeyNames), NEW m \in Nat,
           Releases(events, m, keys), NEW p, NEW h, PressedBy(p, events, h)
    PROVE  p[m + Len(keys)] = p[m]
<1> DEFINE n == Len(keys)
           S == {k \in 0 .. n : p[m + k] = p[m]}
<1>0. n \in Nat /\ Len(events) \in Nat
  OBVIOUS
<1>2. 0 \in S
  BY <1>0
<1>3. ASSUME NEW k \in 0 .. (n - 1), k \in S PROVE k + 1 \in S
  <2>1. /\ k + 1 \in 1 .. n /\ m + (k + 1) \in 1 .. Len(events)
        /\ (m + (k + 1)) - 1 = m + k
    BY <1>0 DEF Releases
  <2>2. p[m + (k + 1)] = p[m + k]
    BY <2>1 DEF Releases, PressedBy
  <2> QED
    BY <1>3, <2>1, <2>2
<1> HIDE DEF S
<1>4. 0 .. n \subseteq S
  BY <1>0, <1>2, <1>3, InductionUpTo
<1> QED
  BY <1>0, <1>4 DEF S

-----------------------------------------------------------------------------
(* Characters and keys.                                                    *)

Misplaced == {"#", "|", "~"}

ButtonNames == {"btn_left", "btn_right", "btn_middle"}

LEMMA LookupFinds ==
    ASSUME NEW table, NEW ch \in Characters(table)
    PROVE  \E row \in table : row[1] = ch /\ Lookup(table, ch) = row[2]
BY DEF Characters, Lookup

LEMMA PlainKeys ==
    \A ch \in Characters(PLAIN) :
        /\ Lookup(PLAIN, ch) \in KeyNames \ (ButtonNames \cup {"shift"})
        /\ Legend(Lookup(PLAIN, ch), FALSE) = ch
<1> SUFFICES ASSUME NEW ch \in Characters(PLAIN)
             PROVE  /\ Lookup(PLAIN, ch) \in KeyNames \ (ButtonNames \cup {"shift"})
                    /\ Legend(Lookup(PLAIN, ch), FALSE) = ch
  OBVIOUS
<1>1. PICK row \in PLAIN : row[1] = ch /\ Lookup(PLAIN, ch) = row[2]
  BY LookupFinds
<1>2. \E r \in Keyboard : r[1] = row[2] /\ r[2] = row[1]
  BY DEF PLAIN, Keyboard
<1>3. \A q, r \in Keyboard : q[1] = r[1] => q = r
  BY DEF Keyboard
<1>4. row[2] \in KeyNames
  BY DEF KeyNames
<1>5. row[2] \notin ButtonNames /\ row[2] # "shift"
  BY DEF PLAIN, ButtonNames
<1> QED
  BY <1>1, <1>2, <1>3, <1>4, <1>5 DEF Legend

LEMMA ShiftedKeys ==
    \A ch \in Characters(SHIFTED) :
        /\ Lookup(SHIFTED, ch) \in KeyNames \ (ButtonNames \cup {"shift"})
        /\ ch \notin Misplaced => Legend(Lookup(SHIFTED, ch), TRUE) = ch
<1> SUFFICES ASSUME NEW ch \in Characters(SHIFTED)
             PROVE  /\ Lookup(SHIFTED, ch) \in KeyNames \ (ButtonNames \cup {"shift"})
                    /\ ch \notin Misplaced => Legend(Lookup(SHIFTED, ch), TRUE) = ch
  OBVIOUS
<1>1. PICK row \in SHIFTED : row[1] = ch /\ Lookup(SHIFTED, ch) = row[2]
  BY LookupFinds
<1>2. row[1] \notin Misplaced => \E r \in Keyboard : r[1] = row[2] /\ r[3] = row[1]
  BY DEF SHIFTED, Keyboard, Misplaced
<1>3. \A q, r \in Keyboard : q[1] = r[1] => q = r
  BY DEF Keyboard
<1>4. row[2] \in KeyNames
  BY DEF KeyNames
<1>5. row[2] \notin ButtonNames /\ row[2] # "shift"
  BY DEF SHIFTED, ButtonNames
<1> QED
  BY <1>1, <1>2, <1>3, <1>4, <1>5 DEF Legend

LEMMA LowerKeys ==
    \A ch \in Unshifted : /\ ch \in KeyNames \ (ButtonNames \cup {"shift"})
                     /\ Legend(ch, FALSE) = ch
<1> SUFFICES ASSUME NEW ch \in Unshifted
             PROVE  /\ ch \in KeyNames \ (ButtonNames \cup {"shift"})
                    /\ Legend(ch, FALSE) = ch
  OBVIOUS
<1>2. \E r \in Keyboard : r[1] = ch /\ r[2] = ch
  BY DEF Unshifted, Keyboard
<1>3. \A q, r \in Keyboard : q[1] = r[1] => q = r
  BY DEF Keyboard
<1>4. ch \in KeyNames
  BY DEF KeyNames
<1>5. ch \notin ButtonNames /\ ch # "shift"
  BY DEF Unshifted, ButtonNames
<1> QED
  BY <1>2, <1>3, <1>4, <1>5 DEF Legend

LEMMA LetterKeys ==
    \A ch \in DOMAIN Letters :
        /\ Letters[ch] \in KeyNames \ (ButtonNames \cup {"shift"})
        /\ Legend(Letters[ch], TRUE) = ch
<1> SUFFICES ASSUME NEW ch \in DOMAIN Letters
             PROVE  /\ Letters[ch] \in KeyNames \ (ButtonNames \cup {"shift"})
                    /\ Legend(Letters[ch], TRUE) = ch
  OBVIOUS
<1>1. ch \in {"A", "B"} /\ Letters[ch] = IF ch = "A" THEN "a" ELSE "b"
  BY DEF Letters
<1>2. \E r \in Keyboard : r[1] = Letters[ch] /\ r[3] = ch
  BY <1>1 DEF Keyboard
<1>3. \A q, r \in Keyboard : q[1] = r[1] => q = r
  BY DEF Keyboard
<1>4. Letters[ch] \in KeyNames
  BY <1>1 DEF KeyNames, Unshifted
<1>5. Letters[ch] \notin ButtonNames /\ Letters[ch] # "shift"
  BY <1>1 DEF ButtonNames
<1> QED
  BY <1>2, <1>3, <1>4, <1>5 DEF Legend

\* The keys of a character, shift first.
Stroked(ch) == Append(Modifiers(ch), KeyOf(ch))

IsShifted(ch) == ch \in DOMAIN Letters \cup Characters(SHIFTED)

LEMMA KeysOfCharacter ==
    ASSUME NEW ch, Typable(ch)
    PROVE  /\ KeyOf(ch) \in KeyNames \ (ButtonNames \cup {"shift"})
           /\ Modifiers(ch) = IF IsShifted(ch) THEN <<"shift">> ELSE <<>>
           /\ ch \notin Misplaced => Legend(KeyOf(ch), IsShifted(ch)) = ch
<1>1. \A c \in Unshifted \cup Characters(PLAIN) : ~IsShifted(c)
  BY DEF IsShifted, Unshifted, Characters, PLAIN, SHIFTED, Letters
<1>0. \A c \in Unshifted : c \notin DOMAIN Letters /\ c \notin Characters(PLAIN)
  BY DEF Unshifted, Characters, PLAIN, Letters
<1>6. \A c \in DOMAIN Letters : c \notin Characters(PLAIN)
  BY DEF Characters, PLAIN, Letters
<1>2. CASE ch \in Unshifted
  <2>1. IsShifted(ch) = FALSE
    BY <1>1, <1>2 DEF IsShifted
  <2>2. KeyOf(ch) = ch
    BY <1>0, <1>2 DEF KeyOf
  <2> QED
    BY <1>2, <2>1, <2>2, LowerKeys DEF Modifiers, IsShifted
<1>3. CASE ch \in DOMAIN Letters /\ ch \notin Unshifted
  <2>1. IsShifted(ch) = TRUE
    BY <1>3 DEF IsShifted
  <2>2. KeyOf(ch) = Letters[ch]
    BY <1>3, <1>6 DEF KeyOf
  <2> QED
    BY <1>3, <2>1, <2>2, LetterKeys DEF Modifiers, IsShifted
<1>4. CASE ch \in Characters(PLAIN) /\ ch \notin Unshifted \cup DOMAIN Letters
  <2>1. IsShifted(ch) = FALSE /\ KeyOf(ch) = Lookup(PLAIN, ch)
    BY <1>1, <1>4 DEF IsShifted, KeyOf
  <2> QED
    BY <1>4, <2>1, PlainKeys DEF Modifiers, IsShifted
<1>5. CASE ch \in Characters(SHIFTED) /\ ch \notin Unshifted \cup DOMAIN Letters \cup Characters(PLAIN)
  <2>1. IsShifted(ch) = TRUE /\ KeyOf(ch) = Lookup(SHIFTED, ch)
    BY <1>5 DEF IsShifted, KeyOf
  <2> QED
    BY <1>5, <2>1, ShiftedKeys DEF Modifiers, IsShifted
<1> QED
  BY <1>2, <1>3, <1>4, <1>5 DEF Typable

-----------------------------------------------------------------------------
(* Calls: what one does to what is held, and which strokes it makes.       *)

All(keys) == {keys[i] : i \in 1 .. Len(keys)}

LEMMA EventsTyped ==
    ASSUME NEW keys \in Seq(KeyNames)
    PROVE  /\ Down(keys) \in Seq(Event) /\ Len(Down(keys)) = Len(keys)
           /\ Up(keys) \in Seq(Event) /\ Len(Up(keys)) = Len(keys)
           /\ Presses(Down(keys), keys) /\ Releases(Up(keys), 0, keys)
<1> DEFINE n == Len(keys)
<1>1. n \in Nat /\ DOMAIN keys = 1 .. n /\ \A i \in 1 .. n : keys[i] \in KeyNames
  OBVIOUS
<1>2. \A i \in 1 .. n : n + 1 - i \in 1 .. n
  BY <1>1
<1> HIDE DEF n
<1>3. Down(keys) \in [1 .. n -> Event]
  BY <1>1 DEF Down, Event, n
<1>4. Up(keys) \in [1 .. n -> Event]
  BY <1>1, <1>2 DEF Up, Event, n
<1>5. /\ Down(keys) \in Seq(Event) /\ Len(Down(keys)) = n
      /\ Up(keys) \in Seq(Event) /\ Len(Up(keys)) = n
  BY <1>1, <1>3, <1>4
<1>6. \A i \in 1 .. n : /\ Down(keys)[i].key = keys[i] /\ Down(keys)[i].down
                       /\ Up(keys)[i].key = keys[n + 1 - i] /\ ~Up(keys)[i].down
  BY <1>1 DEF Down, Up, n
<1>7. \A i \in 1 .. n : 0 + i = i
  BY <1>1
<1> QED
  BY <1>1, <1>5, <1>6, <1>7 DEF Presses, Releases, n

\* Everything that went down comes up.
LEMMA LastOfAll ==
    ASSUME NEW keys \in Seq(KeyNames)
    PROVE  LastOf(keys, Len(keys)) = All(keys) /\ FirstOf(keys, Len(keys)) = All(keys)
<1>1. Len(keys) \in Nat /\ Len(keys) + 1 - Len(keys) = 1
  OBVIOUS
<1> QED
  BY <1>1 DEF LastOf, FirstOf, All

LEMMA PressHolds ==
    ASSUME NEW keys \in Seq(KeyNames), held \in SUBSET KeyNames
    PROVE  HeldAfter(Down(keys))[Len(Down(keys))] = held \cup All(keys)
<1>1. Len(keys) \in 0 .. Len(keys)
  OBVIOUS
<1> QED
  BY <1>1, EventsTyped, HeldByPresses, LastOfAll

LEMMA ReleaseFrees ==
    ASSUME NEW keys \in Seq(KeyNames), held \in SUBSET KeyNames
    PROVE  /\ HeldAfter(Up(keys))[Len(Up(keys))] = held \ All(keys)
           /\ Pressed(Up(keys)) = <<>>
<1>1. Len(keys) \in 0 .. Len(keys) /\ 0 + Len(keys) = Len(keys)
  OBVIOUS
<1>2. HeldAfter(Up(keys))[0] = held
  BY EventsTyped, HeldUnfolds
<1>3. HeldAfter(Up(keys))[0 + Len(keys)] = HeldAfter(Up(keys))[0] \ LastOf(keys, Len(keys))
  BY <1>1, EventsTyped, HeldByReleases
<1>4. PICK p : PressedBy(p, Up(keys), HeldAfter(Up(keys))) /\ Pressed(Up(keys)) = p[Len(Up(keys))]
  BY EventsTyped, PressedUnfolds
<1>5. p[0 + Len(keys)] = p[0]
  BY <1>4, EventsTyped, NoStrokesByReleases
<1>6. p[0] = <<>>
  BY <1>4 DEF PressedBy
<1> QED
  BY <1>1, <1>2, <1>3, <1>4, <1>5, <1>6, EventsTyped, LastOfAll

LEMMA ChordEvents ==
    ASSUME NEW keys \in Seq(KeyNames)
    PROVE  LET events == Down(keys) \o Up(keys) IN
           /\ events \in Seq(Event) /\ Len(events) = 2 * Len(keys)
           /\ Presses(events, keys) /\ Releases(events, Len(keys), keys)
<1> DEFINE n == Len(keys)
           d == Down(keys)
           u == Up(keys)
           events == d \o u
<1>1. /\ n \in Nat /\ d \in Seq(Event) /\ u \in Seq(Event) /\ Len(d) = n /\ Len(u) = n
      /\ Presses(d, keys) /\ Releases(u, 0, keys)
  BY EventsTyped
<1>2. \A i \in 1 .. n : 0 + i = i
  BY <1>1
<1>3. \A i \in 1 .. n : /\ d[i].key = keys[i] /\ d[i].down
                       /\ u[i].key = keys[n + 1 - i] /\ ~u[i].down
  BY <1>1, <1>2 DEF Presses, Releases
<1> HIDE DEF n, d, u
<1>4. events \in Seq(Event) /\ Len(events) = 2 * n
  BY <1>1
<1>5. \A i \in 1 .. n : events[i] = d[i] /\ events[n + i] = u[i]
  BY <1>1
<1> HIDE DEF events
<1>6. n <= Len(events) /\ n + n = Len(events)
  BY <1>1, <1>4
<1>7. Presses(events, keys) /\ Releases(events, n, keys)
  BY <1>3, <1>5, <1>6 DEF Presses, Releases, n
<1> QED
  BY <1>4, <1>7 DEF events, n, d, u

LEMMA ChordStrikes ==
    ASSUME NEW keys \in Seq(KeyNames), keys # <<>>, held \in SUBSET KeyNames
    PROVE  LET events == Down(keys) \o Up(keys) IN
           /\ HeldAfter(events)[Len(events)] = held \ All(keys)
           /\ Pressed(events) \in Seq(Stroke) /\ Pressed(events) # <<>>
           /\ held = {} => Pressed(events)[Len(Pressed(events))]
                  = [key |-> keys[Len(keys)], with |-> FirstOf(keys, Len(keys) - 1)]
<1> DEFINE n == Len(keys)
           events == Down(keys) \o Up(keys)
           h == HeldAfter(events)
<1>1. n \in Nat /\ n > 0 /\ n \in 0 .. n /\ n - 1 \in 0 .. n /\ n + n = 2 * n
  BY EmptySeq, LenProperties
<1>2. /\ events \in Seq(Event) /\ Len(events) = 2 * n
      /\ Presses(events, keys) /\ Releases(events, n, keys)
  BY ChordEvents
<1> HIDE DEF events
<1>3. h[n] = held \cup All(keys) /\ h[n - 1] = held \cup FirstOf(keys, n - 1)
  BY <1>1, <1>2, HeldByPresses, LastOfAll
<1>4. h[n + n] = h[n] \ All(keys)
  BY <1>1, <1>2, HeldByReleases, LastOfAll
<1>5. h[Len(events)] = held \ All(keys)
  BY <1>1, <1>2, <1>3, <1>4
<1>6. PICK p : PressedBy(p, events, h) /\ Pressed(events) = p[Len(events)]
  BY <1>2, PressedUnfolds
<1> HIDE DEF h
<1>7. p[n + n] = p[n]
  BY <1>1, <1>2, <1>6, NoStrokesByReleases
<1>8. n \in 1 .. Len(events) /\ n - 1 \in 0 .. Len(events) /\ n \in 1 .. n
  BY <1>1, <1>2
<1>9. events[n].down /\ events[n].key = keys[n]
  BY <1>2, <1>8 DEF Presses
<1>10. p[n] = Append(p[n - 1], [key |-> keys[n], with |-> h[n - 1]])
  BY <1>6, <1>8, <1>9 DEF PressedBy
<1>11. p[n - 1] \in Seq(Stroke) /\ p[n] \in Seq(Stroke)
  BY <1>1, <1>6, <1>8 DEF PressedBy
<1>12. Pressed(events) = p[n]
  BY <1>1, <1>2, <1>6, <1>7
<1>13. p[n] # <<>> /\ p[n][Len(p[n])] = [key |-> keys[n], with |-> h[n - 1]]
  BY <1>10, <1>11
<1>14. held = {} => h[n - 1] = FirstOf(keys, n - 1)
  BY <1>3
<1> QED
  BY <1>5, <1>11, <1>12, <1>13, <1>14 DEF h, events, n

LEMMA KeysTyped ==
    ASSUME NEW ch, Typable(ch)
    PROVE  /\ Stroked(ch) \in Seq(KeyNames) /\ Stroked(ch)[1] \notin ButtonNames
           /\ IF IsShifted(ch) THEN Len(Stroked(ch)) = 2 /\ Stroked(ch)[1] = "shift"
                                   /\ Stroked(ch)[2] = KeyOf(ch)
              ELSE Len(Stroked(ch)) = 1 /\ Stroked(ch)[1] = KeyOf(ch)
<1>1. "shift" \in KeyNames /\ "shift" \notin ButtonNames
  BY DEF KeyNames, NAMED_KEYS, ButtonNames
<1>2. KeyOf(ch) \in KeyNames \ ButtonNames
  BY KeysOfCharacter
<1>3. CASE IsShifted(ch)
  <2>1. Modifiers(ch) = <<"shift">>
    BY <1>3, KeysOfCharacter
  <2> QED
    BY <1>1, <1>2, <1>3, <2>1 DEF Stroked
<1>4. CASE ~IsShifted(ch)
  <2>1. Modifiers(ch) = <<>>
    BY <1>4, KeysOfCharacter
  <2> QED
    BY <1>1, <1>2, <1>4, <2>1 DEF Stroked
<1> QED
  BY <1>3, <1>4

\* The keys of a character, struck while nothing is held, type that character.
LEMMA CharacterTypes ==
    ASSUME NEW ch, Typable(ch), NEW strokes \in Seq(Stroke), held = {}
    PROVE  Typed(strokes \o Pressed(Down(Stroked(ch))))
               = Append(Typed(strokes), Legend(KeyOf(ch), IsShifted(ch)))
<1> DEFINE keys == Stroked(ch)
           n == Len(keys)
           events == Down(keys)
           h == HeldAfter(events)
<1>1. /\ keys \in Seq(KeyNames) /\ n \in {1, 2}
      /\ events \in Seq(Event) /\ Len(events) = n /\ Presses(events, keys)
  BY KeysTyped, EventsTyped
<1>2. held \in SUBSET KeyNames
  OBVIOUS
<1>3. \A i \in 1 .. n : events[i].down /\ events[i].key = keys[i]
  BY <1>1 DEF Presses
<1>4. \A i \in 0 .. n : h[i] = FirstOf(keys, i)
  BY <1>1, <1>2, HeldByPresses
<1>5. PICK p : PressedBy(p, events, h) /\ Pressed(events) = p[n]
  BY <1>1, <1>2, PressedUnfolds
<1> DEFINE first == [key |-> keys[1], with |-> {}]
           second == [key |-> keys[2], with |-> {keys[1]}]
<1>6. FirstOf(keys, 0) = {} /\ FirstOf(keys, 1) = {keys[1]}
  BY DEF FirstOf
<1>7. first \in Stroke /\ (n = 2 => second \in Stroke)
  BY <1>1 DEF Stroke
<1> HIDE DEF h, events, n, keys
<1>8. p[1] = <<first>>
  <2>1. 1 \in 1 .. Len(events) /\ 1 \in 1 .. n /\ 0 \in 0 .. n /\ 1 - 1 = 0
    BY <1>1
  <2>5. events[1].down /\ events[1].key = keys[1]
    BY <2>1, <1>3
  <2>2. p[1] = Append(p[1 - 1], [key |-> keys[1], with |-> h[1 - 1]])
    BY <2>1, <2>5, <1>5, Zenon DEF PressedBy
  <2>3. p[0] = <<>>
    BY <1>5 DEF PressedBy
  <2>4. h[0] = {}
    BY <1>4, <1>6, <2>1
  <2> QED
    <3>1. [key |-> keys[1], with |-> h[1 - 1]] = first
      BY <2>1, <2>4
    <3> HIDE DEF first
    <3>2. p[1] = Append(<<>>, first)
      BY <2>1, <2>2, <2>3, <3>1
    <3> QED
      BY <3>2, <1>7
<1>9. n = 2 => p[2] = Append(<<first>>, second)
  <2> HAVE n = 2
  <2>1. 2 \in 1 .. Len(events) /\ 2 \in 1 .. n /\ 1 \in 0 .. n /\ 2 - 1 = 1
    BY <1>1
  <2>5. events[2].down /\ events[2].key = keys[2]
    BY <2>1, <1>3
  <2>2. p[2] = Append(p[2 - 1], [key |-> keys[2], with |-> h[2 - 1]])
    BY <2>1, <2>5, <1>5, Zenon DEF PressedBy
  <2>4. h[1] = {keys[1]}
    BY <1>4, <1>6, <2>1
  <2> QED
    BY <1>8, <2>1, <2>2, <2>4
<1>12. ASSUME NEW a \in Stroke PROVE strokes \o <<a>> = Append(strokes, a)
  OBVIOUS
<1>13. ASSUME NEW a \in Stroke, NEW b \in Stroke
       PROVE  strokes \o Append(<<a>>, b) = Append(Append(strokes, a), b)
  OBVIOUS
<1>10. CASE ~IsShifted(ch)
  <2>1. n = 1 /\ keys[1] = KeyOf(ch)
    BY <1>10, KeysTyped DEF n, keys
  <2>2. strokes \o Pressed(events) = Append(strokes, first)
    <3> HIDE DEF first
    <3> QED
      BY <1>5, <1>7, <1>8, <1>12, <2>1
  <2>3. KeyOf(ch) # "shift" /\ "shift" \notin first.with /\ first.key = KeyOf(ch)
    BY <2>1, KeysOfCharacter
  <2>4. ("shift" \in first.with) = IsShifted(ch)
    BY <1>10, <2>3 DEF IsShifted
  <2> HIDE DEF first
  <2>5. Typed(Append(strokes, first)) = Append(Typed(strokes), Legend(first.key, "shift" \in first.with))
    BY <1>7, <2>3, TypedOfOneMore
  <2> QED
    BY <2>2, <2>3, <2>4, <2>5 DEF events, keys
<1>11. CASE IsShifted(ch)
  <2>1. n = 2 /\ keys[1] = "shift" /\ keys[2] = KeyOf(ch)
    BY <1>11, KeysTyped DEF n, keys
  <2>2. strokes \o Pressed(events) = Append(Append(strokes, first), second)
    <3> HIDE DEF first, second
    <3> QED
      BY <1>5, <1>7, <1>9, <1>13, <2>1
  <2>3. KeyOf(ch) # "shift" /\ first.key = "shift" /\ "shift" \in second.with /\ second.key = KeyOf(ch)
    BY <2>1, KeysOfCharacter
  <2>4. ("shift" \in second.with) = IsShifted(ch)
    BY <1>11, <2>3 DEF IsShifted
  <2> HIDE DEF first, second
  <2>5. Typed(Append(strokes, first)) = Typed(strokes)
    BY <1>7, <2>3, TypedOfOneMore
  <2>6. Append(strokes, first) \in Seq(Stroke) /\ second \in Stroke
    BY <1>7, <2>1
  <2>7. Typed(Append(Append(strokes, first), second))
          = Append(Typed(Append(strokes, first)), Legend(second.key, "shift" \in second.with))
    BY <2>3, <2>6, TypedOfOneMore
  <2> QED
    BY <2>2, <2>3, <2>4, <2>5, <2>7 DEF events, keys
<1> QED
  BY <1>10, <1>11

-----------------------------------------------------------------------------
(* Positions.                                                              *)

LEMMA Division ==
    ASSUME NEW a \in Nat, NEW b \in Nat \ {0}
    PROVE  a \div b \in Nat /\ (a \div b) * b <= a /\ a < (a \div b) * b + b
OBVIOUS

LEMMA Quotient ==
    ASSUME NEW a \in Nat, NEW b \in Nat \ {0}, NEW q \in Nat, q * b <= a, a < (q + 1) * b
    PROVE  a \div b = q
OBVIOUS

LEMMA ClampedTyped == ASSUME NEW q \in Nat PROVE Clamped(q) \in 0 .. Scale
<1>1. Scale \in Nat
  BY DEF Scale
<1>2. Clamped(q) = IF q > Scale THEN Scale ELSE q
  BY DEF Clamped
<1> QED
  BY <1>1, <1>2

LEMMA PositionTyped ==
    ASSUME NEW x \in Int, NEW w \in Nat \ {0}
    PROVE  Scaled(x, w) \in 0 .. Scale
<1>1. x >= 0 => (x * Scale) \div w \in Nat
  <2> HAVE x >= 0
  <2>1. x * Scale \in Nat
    BY DEF Scale
  <2> QED
    BY <2>1, Division
<1> DEFINE q == (x * Scale) \div w
<1>2. Scaled(x, w) = IF x < 0 THEN 0 ELSE Clamped(q)
  BY DEF Scaled
<1>3. x >= 0 => q \in Nat
  BY <1>1
<1> HIDE DEF q
<1>4. x >= 0 => Clamped(q) \in 0 .. Scale
  BY <1>3, ClampedTyped
<1>5. x < 0 \/ x >= 0
  OBVIOUS
<1>6. 0 \in 0 .. Scale
  BY DEF Scale
<1> QED
  BY <1>2, <1>4, <1>5, <1>6, Zenon

LEMMA PixelTyped ==
    ASSUME NEW position \in Nat, NEW w \in Nat \ {0}
    PROVE  PixelAt(position, w) \in Nat
<1>1. position * w \in Nat
  OBVIOUS
<1> QED
  BY <1>1, Division DEF PixelAt, Scale

\* On screens up to this width both roundings together lose at most one pixel; the
\* first width at which they can lose two is 16452.
Widest == 16385

Clipped(x, w) == IF x < 0 THEN 0 ELSE IF x >= w THEN w - 1 ELSE x

LEMMA PixelNear ==
    ASSUME NEW x \in Int, NEW w \in 1 .. Widest
    PROVE  PixelAt(Scaled(x, w), w) - Clipped(x, w) \in -1 .. 1
<1> DEFINE s == (x * Scale) \div w
           Pixel(position) == (position * w) \div (Scale + 1)
<1>1. w \in Nat \ {0} /\ w <= Widest
  BY DEF Widest
<1>2. CASE x < 0
  <2>1. Scaled(x, w) = 0
    BY <1>2 DEF Scaled
  <2>2. PixelAt(0, w) = 0
    BY <1>1, Quotient DEF PixelAt, Scale
  <2> QED
    BY <1>2, <2>1, <2>2 DEF Clipped
<1>3. CASE x >= 0 /\ x >= w
  <2>1. x * Scale \in Nat /\ x * Scale >= Scale * w
    BY <1>1, <1>3 DEF Scale
  <2>2. s \in Nat /\ x * Scale < s * w + w
    BY <1>1, <2>1, Division
  <2>3. s >= Scale
    <3> SUFFICES ASSUME s < Scale PROVE FALSE
      BY <2>2 DEF Scale
    <3>1. s \in Nat /\ s + 1 <= Scale
      BY <2>2 DEF Scale
    <3> HIDE DEF s
    <3>2. (s + 1) * w <= Scale * w
      BY <1>1, <3>1 DEF Scale
    <3>3. (s + 1) * w = s * w + w
      BY <1>1, <3>1
    <3>4. s * w + w <= x * Scale /\ x * Scale < s * w + w /\ s * w + w \in Nat
      <4> DEFINE a == s * w
                 b == Scale * w
      <4>1. a \in Nat /\ b \in Nat
        BY <1>1, <3>1 DEF Scale
      <4>2. a + w <= b
        BY <3>2, <3>3
      <4>3. x * Scale < a + w
        BY <2>2 DEF s
      <4> HIDE DEF a
      <4>4. a + w <= x * Scale
        BY <1>1, <2>1, <4>1, <4>2
      <4> QED
        BY <1>1, <4>1, <4>3, <4>4 DEF a
    <3> QED
      BY <2>1, <3>4
  <2>4. Scaled(x, w) = Scale
    BY <1>3, <2>2, <2>3 DEF Scaled, Clamped, Scale
  <2>5. PixelAt(Scale, w) = w - 1
    <3>1. Scale * w \in Nat /\ (w - 1) * 32768 <= Scale * w /\ Scale * w < ((w - 1) + 1) * 32768
      BY <1>1 DEF Scale, Widest
    <3>2. w - 1 \in Nat
      BY <1>1
    <3> QED
      BY <3>1, <3>2, Quotient DEF PixelAt, Scale
  <2> QED
    BY <1>1, <1>3, <2>4, <2>5 DEF Clipped
<1>4. CASE x >= 0 /\ x < w
  <2>1. x * Scale \in Nat /\ x * Scale < Scale * w
    BY <1>1, <1>4 DEF Scale
  <2>2. s \in Nat /\ s * w <= x * Scale /\ x * Scale < s * w + w
    BY <1>1, <2>1, Division
  <2> HIDE DEF s
  <2>3. s <= Scale
    <3> SUFFICES ASSUME s > Scale PROVE FALSE
      BY <2>2 DEF Scale
    <3>1. s * w >= Scale * w
      BY <1>1, <2>2 DEF Scale
    <3>2. s * w \in Nat
      BY <1>1, <2>2
    <3> DEFINE a == s * w
               b == Scale * w
    <3>3. a \in Nat /\ b \in Nat /\ a >= b /\ a <= x * Scale /\ x * Scale < b
      BY <1>1, <2>1, <2>2, <3>1, <3>2 DEF Scale
    <3> HIDE DEF a, b
    <3> QED
      BY <2>1, <3>3
  <2>4. Scaled(x, w) = s
    BY <1>4, <2>2, <2>3 DEF Scaled, Clamped, Scale, s
  <2> DEFINE a == s * w
             p == a \div 32768
  <2>5. a \in Nat /\ a <= x * 32767 /\ x * 32767 < a + w
    BY <1>1, <2>2 DEF Scale
  <2> HIDE DEF a
  <2>6. p \in Nat /\ p * 32768 <= a /\ a < p * 32768 + 32768
    BY <2>5, Division
  <2> HIDE DEF p
  <2>7. p - x \in -1 .. 1
    BY <1>1, <1>4, <2>5, <2>6 DEF Widest
  <2>8. PixelAt(s, w) = p
    BY DEF PixelAt, Scale, p, a
  <2> QED
    BY <1>4, <2>4, <2>7, <2>8 DEF Clipped
<1> QED
  BY <1>2, <1>3, <1>4

-----------------------------------------------------------------------------
(* Scripts: the calls a command makes, once it knows how wide the screen   *)
(* is.                                                                     *)

Script(j, w) ==
    IF j.kind = "text" THEN Translate(j.text)
    ELSE IF j.kind = "key" THEN Chord(j.keys)
    ELSE Click(j, w)

LEMMA CallsTyped ==
    /\ \A events \in Seq(Event) : Keys(events) \in Call /\ Keys(events).op = "keys"
    /\ \A p \in 0 .. Scale : [op |-> "move", to |-> p] \in Call
    /\ [op |-> "settle"] \in Call /\ [op |-> "refused"] \in Call
BY DEF Call, Keys

LEMMA RejectionTyped == Rejection \in Seq(Call) /\ Len(Rejection) = 1 /\ Rejection[1].op = "refused"
BY CallsTyped DEF Rejection

TextCall(text, i) ==
    LET keys == Stroked(text[(i + 1) \div 2])
    IN  Keys(IF i % 2 = 1 THEN Down(keys) ELSE Up(keys))

LEMMA TextScript ==
    ASSUME NEW text, IsSequence(text), Translate(text) # Rejection
    PROVE  /\ \A i \in 1 .. Len(text) : Typable(text[i])
           /\ Len(Translate(text)) = 2 * Len(text)
           /\ Translate(text) \in Seq(Call)
           /\ \A i \in 1 .. 2 * Len(text) : Translate(text)[i] = TextCall(text, i)
<1> DEFINE n == Len(text)
<1>1. n \in Nat /\ DOMAIN text = 1 .. n
  BY DEF IsSequence
<1>2. \A i \in 1 .. n : Typable(text[i])
  BY <1>1 DEF Translate, TranslateWith
<1>3. Translate(text) = [i \in 1 .. 2 * n |-> TextCall(text, i)]
  BY <1>1, <1>2 DEF Translate, TranslateWith, TypeWith, TextCall, Stroked
<1>4. \A i \in 1 .. 2 * n : TextCall(text, i) \in Call
  <2> TAKE i \in 1 .. 2 * n
  <2>1. (i + 1) \div 2 \in 1 .. n
    BY <1>1
  <2>2. Stroked(text[(i + 1) \div 2]) \in Seq(KeyNames)
    BY <1>2, <2>1, KeysTyped
  <2> QED
    BY <2>2, EventsTyped, CallsTyped DEF TextCall
<1> HIDE DEF n
<1>5. Translate(text) \in [1 .. 2 * n -> Call]
  BY <1>3, <1>4
<1>6. 2 * n \in Nat
  BY <1>1
<1>7. Translate(text) \in Seq(Call) /\ Len(Translate(text)) = 2 * n
  BY <1>5, <1>6
<1> QED
  BY <1>2, <1>3, <1>7 DEF n

LEMMA ChordScript ==
    ASSUME NEW keys, IsSequence(keys), Chord(keys) # Rejection
    PROVE  /\ keys \in Seq(KeyNames) /\ keys # <<>> /\ keys[1] \notin ButtonNames
           /\ Chord(keys) = <<Keys(Down(keys) \o Up(keys))>>
           /\ Chord(keys) \in Seq(Call)
<1>1. ChordOK(keys) /\ Chord(keys) = <<Keys(Down(keys) \o Up(keys))>>
  BY DEF Chord
<1>2. DOMAIN keys = 1 .. Len(keys) /\ Len(keys) \in Nat /\ keys # <<>>
  BY <1>1 DEF IsSequence, ChordOK
<1>3. \A k \in NAMED_KEYS \cup Unshifted : k \in KeyNames /\ k \notin ButtonNames
  <2>1. \A k \in NAMED_KEYS : k \notin ButtonNames
    BY DEF NAMED_KEYS, ButtonNames
  <2>2. \A k \in Unshifted : k \notin ButtonNames
    BY DEF Unshifted, ButtonNames
  <2> QED
    BY <2>1, <2>2 DEF KeyNames
<1>4. keys \in Seq(KeyNames)
  <2>1. \A i \in 1 .. Len(keys) : keys[i] \in KeyNames
    BY <1>1, <1>2, <1>3 DEF ChordOK
  <2>2. keys = [i \in 1 .. Len(keys) |-> keys[i]]
    BY DEF IsSequence
  <2> QED
    BY <1>2, <2>1, <2>2
<1>5. 1 \in 1 .. Len(keys)
  BY <1>2, <1>4, EmptySeq, LenProperties
<1>6. keys[1] \notin ButtonNames
  BY <1>1, <1>2, <1>3, <1>5 DEF ChordOK
<1>7. Down(keys) \o Up(keys) \in Seq(Event)
  BY <1>4, ChordEvents
<1>8. Chord(keys) \in Seq(Call)
  <2> DEFINE nth == Keys(Down(keys) \o Up(keys))
  <2>1. nth \in Call
    BY <1>7, CallsTyped
  <2>2. Chord(keys) = <<nth>>
    BY <1>1
  <2> HIDE DEF nth
  <2> QED
    BY <2>1, <2>2
<1> QED
  BY <1>1, <1>2, <1>4, <1>6, <1>8

Clicks(j) == j.press /\ j.button \in DOMAIN Buttons

LEMMA JoinedRun ==
    ASSUME NEW a, NEW b, NEW c, NEW d
    PROVE  /\ <<a, b>> \o <<c, d>> = <<a, b, c, d>>
           /\ <<a, b>> \o <<c>> = <<a, b, c>>
           /\ <<a, b>> \o <<>> = <<a, b>>
<1> DEFINE S == {a, b, c, d}
<1>1. /\ <<a, b>> \in Seq(S) /\ <<c, d>> \in Seq(S) /\ <<c>> \in Seq(S) /\ <<>> \in Seq(S)
      /\ <<a, b, c, d>> \in Seq(S) /\ <<a, b, c>> \in Seq(S)
  OBVIOUS
<1> HIDE DEF S
<1>2. <<a, b>> \o <<c, d>> = <<a, b, c, d>>
  <2>1. /\ <<a, b>> \o <<c, d>> \in Seq(S) /\ Len(<<a, b>> \o <<c, d>>) = 4
        /\ \A i \in 1 .. 4 : (<<a, b>> \o <<c, d>>)[i] =
              IF i <= 2 THEN <<a, b>>[i] ELSE <<c, d>>[i - 2]
    BY <1>1, ConcatProperties
  <2>2. \A i \in 1 .. 4 : (<<a, b>> \o <<c, d>>)[i] = <<a, b, c, d>>[i]
    <3> TAKE i \in 1 .. 4
    <3>1. i = 1 \/ i = 2 \/ i = 3 \/ i = 4
      OBVIOUS
    <3> QED
      BY <2>1, <3>1
  <2> QED
    BY <1>1, <2>1, <2>2, SeqEqual
<1>3. <<a, b>> \o <<c>> = <<a, b, c>>
  <2>1. /\ <<a, b>> \o <<c>> \in Seq(S) /\ Len(<<a, b>> \o <<c>>) = 3
        /\ \A i \in 1 .. 3 : (<<a, b>> \o <<c>>)[i] =
              IF i <= 2 THEN <<a, b>>[i] ELSE <<c>>[i - 2]
    BY <1>1, ConcatProperties
  <2>2. \A i \in 1 .. 3 : (<<a, b>> \o <<c>>)[i] = <<a, b, c>>[i]
    <3> TAKE i \in 1 .. 3
    <3>1. i = 1 \/ i = 2 \/ i = 3
      OBVIOUS
    <3> QED
      BY <2>1, <3>1
  <2> QED
    BY <1>1, <2>1, <2>2, SeqEqual
<1>4. <<a, b>> \o <<>> = <<a, b>>
  BY <1>1, ConcatEmptySeq
<1> QED
  BY <1>2, <1>3, <1>4

LEMMA ClickScript ==
    ASSUME NEW j, j.x \in Int, j.press \in BOOLEAN, NEW w \in Nat \ {0}
    PROVE  /\ Click(j, w) \in Seq(Call)
           /\ Len(Click(j, w)) = IF Clicks(j) THEN 4 ELSE IF j.press THEN 3 ELSE 2
           /\ Click(j, w)[1] = [op |-> "move", to |-> Scaled(j.x, w)]
           /\ Click(j, w)[2] = [op |-> "settle"]
           /\ Clicks(j) =>
                /\ Buttons[j.button] \in ButtonNames /\ Buttons[j.button] \in KeyNames
                /\ Click(j, w)[3] = Keys(Down(<<Buttons[j.button]>>))
                /\ Click(j, w)[4] = Keys(Up(<<Buttons[j.button]>>))
           /\ j.press /\ ~Clicks(j) => Click(j, w)[3] = [op |-> "refused"]
<1> DEFINE move == [op |-> "move", to |-> Scaled(j.x, w)]
           settle == [op |-> "settle"]
           b == Buttons[j.button]
           down == Keys(Down(<<b>>))
           up == Keys(Up(<<b>>))
           refused == [op |-> "refused"]
<1>1. move \in Call /\ settle \in Call /\ refused \in Call
  BY PositionTyped, CallsTyped
<1>2. Clicks(j) => b \in ButtonNames /\ b \in KeyNames /\ down \in Call /\ up \in Call
  <2> HAVE Clicks(j)
  <2>1. b \in ButtonNames
    BY DEF Clicks, Buttons, ButtonNames
  <2>2. b \in KeyNames
    BY DEF Clicks, KeyNames
  <2> HIDE DEF b
  <2>3. <<b>> \in Seq(KeyNames)
    BY <2>2
  <2>4. Down(<<b>>) \in Seq(Event) /\ Up(<<b>>) \in Seq(Event)
    BY <2>3, EventsTyped
  <2>5. down \in Call /\ up \in Call
    BY <2>4, CallsTyped
  <2> QED
    BY <2>1, <2>2, <2>5
<1>3. Click(j, w) = <<move, settle>> \o
          (IF j.press THEN (IF Clicks(j) THEN <<down, up>> ELSE <<refused>>) ELSE <<>>)
  BY DEF Click, Press, Clicks, Rejection
<1>4. Clicks(j) => j.press
  BY DEF Clicks
<1> HIDE DEF move, settle, down, up, refused, b, Clicks
<1>5. CASE Clicks(j)
  <2>1. Click(j, w) = <<move, settle>> \o <<down, up>>
    BY <1>3, <1>4, <1>5, Zenon
  <2>2. Click(j, w) = <<move, settle, down, up>>
    BY <2>1, JoinedRun, Zenon
  <2> QED
    BY <1>1, <1>2, <1>4, <1>5, <2>2 DEF move, settle, down, up, b
<1>6. CASE j.press /\ ~Clicks(j)
  <2>1. Click(j, w) = <<move, settle>> \o <<refused>>
    BY <1>3, <1>6, Zenon
  <2>2. Click(j, w) = <<move, settle, refused>>
    BY <2>1, JoinedRun, Zenon
  <2> QED
    BY <1>1, <1>6, <2>2 DEF move, settle, refused
<1>7. CASE ~j.press
  <2>1. Click(j, w) = <<move, settle>>
    BY <1>3, <1>7
  <2> QED
    BY <1>1, <1>4, <1>7, <2>1 DEF move, settle
<1> QED
  BY <1>5, <1>6, <1>7

LEMMA ClickOperations ==
    ASSUME NEW j, j.x \in Int, j.press \in BOOLEAN, NEW w \in Nat \ {0}
    PROVE  /\ Click(j, w)[1].op = "move" /\ Click(j, w)[1].to = Scaled(j.x, w)
           /\ Click(j, w)[2].op = "settle"
           /\ Clicks(j) => Click(j, w)[3].op = "keys" /\ Click(j, w)[4].op = "keys"
           /\ j.press /\ ~Clicks(j) => Click(j, w)[3].op = "refused"
<1>1. Click(j, w)[1] = [op |-> "move", to |-> Scaled(j.x, w)] /\ Click(j, w)[2] = [op |-> "settle"]
  BY ClickScript
<1>2. Clicks(j) => /\ Click(j, w)[3] = Keys(Down(<<Buttons[j.button]>>))
                  /\ Click(j, w)[4] = Keys(Up(<<Buttons[j.button]>>))
  BY ClickScript
<1>3. j.press /\ ~Clicks(j) => Click(j, w)[3] = [op |-> "refused"]
  BY ClickScript
<1> QED
  BY <1>1, <1>2, <1>3 DEF Keys

LEMMA JobTyped ==
    ASSUME NEW j \in Jobs
    PROVE  /\ j.kind \in {"text", "key", "click", "capture"}
           /\ j.kind = "text" => IsSequence(j.text)
           /\ j.kind = "key" => IsSequence(j.keys)
           /\ j.kind = "click" => j.x \in Int /\ j.press \in BOOLEAN
BY ConsoleAssumption DEF ConsoleAssumption

LEMMA ScriptTyped ==
    ASSUME NEW j \in Jobs, NEW w \in Widths, j.kind # "capture"
    PROVE  Script(j, w) \in Seq(Call)
<1>1. CASE j.kind = "text"
  BY <1>1, JobTyped, TextScript, RejectionTyped DEF Script
<1>2. CASE j.kind = "key"
  BY <1>2, JobTyped, ChordScript, RejectionTyped DEF Script
<1>3. CASE j.kind = "click"
  <2>1. w \in Nat \ {0}
    BY ConsoleAssumption DEF ConsoleAssumption
  <2> QED
    BY <1>3, <2>1, JobTyped, ClickScript DEF Script
<1> QED
  BY <1>1, <1>2, <1>3, JobTyped

-----------------------------------------------------------------------------
(* The types.                                                              *)

LEMMA StrokesTyped ==
    ASSUME NEW events \in Seq(Event), held \in SUBSET KeyNames
    PROVE  /\ Pressed(events) \in Seq(Stroke)
           /\ HeldAfter(events)[Len(events)] \in SUBSET KeyNames
<1>1. Len(events) \in 0 .. Len(events)
  OBVIOUS
<1>2. PICK p : PressedBy(p, events, HeldAfter(events)) /\ Pressed(events) = p[Len(events)]
  BY PressedUnfolds
<1>3. Pressed(events) \in Seq(Stroke)
  BY <1>1, <1>2 DEF PressedBy
<1> QED
  BY <1>1, <1>3, HeldUnfolds

LEMMA ApplyTyped ==
    ASSUME TypeOK, NEW c \in Commands, NEW nth \in Call, Apply(c, nth)
    PROVE  /\ got' \in [Commands -> Seq(Stroke)]
           /\ landed' \in [Commands -> Nat \cup {-1}]
           /\ held' \in SUBSET KeyNames /\ axis' \in 0 .. Scale
<1>1. CASE nth.op = "keys"
  <2>1. nth.events \in Seq(Event)
    BY <1>1 DEF Call
  <2>2. /\ Pressed(nth.events) \in Seq(Stroke)
        /\ HeldAfter(nth.events)[Len(nth.events)] \in SUBSET KeyNames
    BY <2>1, StrokesTyped DEF TypeOK
  <2>3. PixelAt(pointer, width) \in Nat
    BY PixelTyped, ConsoleAssumption DEF TypeOK, ConsoleAssumption
  <2>4. /\ got' = [got EXCEPT ![c] = @ \o Pressed(nth.events)]
        /\ held' = HeldAfter(nth.events)[Len(nth.events)] /\ axis' = axis
        /\ landed' = landed \/ landed' = [landed EXCEPT ![c] = PixelAt(pointer, width)]
    BY <1>1 DEF Apply
  <2>5. got[c] \o Pressed(nth.events) \in Seq(Stroke)
    BY <2>2 DEF TypeOK
  <2> QED
    BY <2>2, <2>3, <2>4, <2>5 DEF TypeOK
<1>2. CASE nth.op = "move"
  <2>1. nth.to \in 0 .. Scale
    BY <1>2 DEF Call
  <2> QED
    BY <1>2, <2>1 DEF Apply, TypeOK
<1> QED
  BY <1>1, <1>2 DEF Apply

LEMMA TypeStep == TypeOK /\ [Next]_vars => TypeOK'
<1> SUFFICES ASSUME TypeOK, [Next]_vars PROVE TypeOK'
  OBVIOUS
<1> USE DEF TypeOK
<1>1. ASSUME NEW c \in Commands, NEW answer \in {"ok", "failed", "refused"}, End(c, answer)
      PROVE  /\ at' \in [Commands -> {"begin", "dump", "send", "done"}]
             /\ result' \in [Commands -> {"none", "ok", "failed", "refused"}]
             /\ monitor' \in Commands \cup {Nobody}
  BY <1>1 DEF End
<1>2. ASSUME NEW c \in Commands, Unreachable(c) PROVE TypeOK'
  BY <1>1, <1>2 DEF Unreachable
<1>3. ASSUME NEW c \in Commands, Connect(c) PROVE TypeOK'
  <2>1. Translate(job[c].text) \in Seq(Call) \/ job[c].kind # "text"
    BY JobTyped, TextScript, RejectionTyped
  <2>2. Chord(job[c].keys) \in Seq(Call) \/ job[c].kind # "key"
    BY JobTyped, ChordScript, RejectionTyped
  <2>3. <<>> \in Seq(Call)
    OBVIOUS
  <2> DEFINE calls == IF job[c].kind = "text" THEN Translate(job[c].text)
                      ELSE IF job[c].kind = "key" THEN Chord(job[c].keys) ELSE <<>>
  <2>4. calls \in Seq(Call)
    BY <2>1, <2>2, <2>3
  <2>5. todo' = [todo EXCEPT ![c] = calls]
    BY <1>3 DEF Connect
  <2> HIDE DEF calls
  <2>6. todo' \in [Commands -> Seq(Call)]
    BY <2>4, <2>5
  <2> QED
    BY <1>3, <2>6 DEF Connect
<1>4. ASSUME NEW c \in Commands, Screendump(c) PROVE TypeOK'
  <2>1. CASE job[c].kind = "click"
    <3>1. width \in Nat \ {0}
      BY ConsoleAssumption DEF ConsoleAssumption
    <3>2. Click(job[c], width) \in Seq(Call)
      BY <2>1, <3>1, JobTyped, ClickScript
    <3> QED
      BY <1>4, <2>1, <3>2 DEF Screendump
  <2>2. CASE job[c].kind # "click"
    <3>1. End(c, "ok") \/ End(c, "failed")
      BY <1>4, <2>2 DEF Screendump
    <3> QED
      BY <1>1, <1>4, <2>2, <3>1 DEF Screendump
  <2> QED
    BY <2>1, <2>2
<1>5. ASSUME NEW c \in Commands, ScreendumpFails(c) PROVE TypeOK'
  BY <1>1, <1>5 DEF ScreendumpFails
<1>6. ASSUME NEW c \in Commands, todo[c] # <<>>
      PROVE  Head(todo[c]) \in Call /\ Tail(todo[c]) \in Seq(Call)
  BY <1>6, HeadTailProperties
<1>7. ASSUME NEW c \in Commands, Send(c) PROVE TypeOK'
  <2>1. Head(todo[c]) \in Call /\ Tail(todo[c]) \in Seq(Call)
    BY <1>6, <1>7 DEF Send
  <2>2. /\ got' \in [Commands -> Seq(Stroke)] /\ landed' \in [Commands -> Nat \cup {-1}]
        /\ held' \in SUBSET KeyNames /\ axis' \in 0 .. Scale
    BY <1>7, <2>1, ApplyTyped DEF Send
  <2>3. todo' \in [Commands -> Seq(Call)]
    BY <1>7, <2>1 DEF Send
  <2> QED
    BY <1>7, <2>2, <2>3 DEF Send
<1>8. ASSUME NEW c \in Commands, SendFails(c) PROVE TypeOK'
  <2>1. /\ got' \in [Commands -> Seq(Stroke)] /\ landed' \in [Commands -> Nat \cup {-1}]
        /\ held' \in SUBSET KeyNames /\ axis' \in 0 .. Scale
    <3>1. CASE Apply(c, Head(todo[c]))
      BY <1>6, <1>8, <3>1, ApplyTyped DEF SendFails
    <3>2. CASE UNCHANGED <<got, landed, held, axis>>
      BY <3>2
    <3> QED
      BY <1>8, <3>1, <3>2 DEF SendFails
  <2>2. interrupted' \in BOOLEAN
    BY <1>8 DEF SendFails
  <2> QED
    BY <1>1, <1>8, <2>1, <2>2 DEF SendFails
<1>9. ASSUME NEW c \in Commands, Refuse(c) PROVE TypeOK'
  BY <1>1, <1>9 DEF Refuse
<1>10. ASSUME NEW c \in Commands, Settle(c) PROVE TypeOK'
  <2>1. todo' \in [Commands -> Seq(Call)]
    BY <1>6, <1>10 DEF Settle
  <2> QED
    BY <1>10, <2>1 DEF Settle, deviceVars
<1>11. ASSUME NEW c \in Commands, Finish(c) PROVE TypeOK'
  BY <1>1, <1>11 DEF Finish
<1>12. CASE GuestReadsAxis
  BY <1>12 DEF GuestReadsAxis, cmdVars
<1>13. ASSUME NEW w \in Widths, GuestResizes(w) PROVE TypeOK'
  BY <1>13 DEF GuestResizes, cmdVars
<1>14. CASE UNCHANGED vars
  BY <1>14 DEF vars, cmdVars, deviceVars
<1> QED
  BY <1>2, <1>3, <1>4, <1>5, <1>7, <1>8, <1>9, <1>10, <1>11, <1>12, <1>13, <1>14 DEF Next, Step, Guest

\* Every reachable state is of its types.
THEOREM ConsoleTypeCorrect == Spec => []TypeOK
<1>1. Init => TypeOK
  <2> SUFFICES ASSUME Init PROVE TypeOK
    OBVIOUS
  <2>1. <<>> \in Seq(Call) /\ <<>> \in Seq(Stroke)
    OBVIOUS
  <2>2. /\ todo \in [Commands -> Seq(Call)] /\ got \in [Commands -> Seq(Stroke)]
        /\ landed \in [Commands -> Nat \cup {-1}]
    BY <2>1 DEF Init
  <2>3. /\ at \in [Commands -> {"begin", "dump", "send", "done"}]
        /\ result \in [Commands -> {"none", "ok", "failed", "refused"}]
    BY DEF Init
  <2>4. axis \in 0 .. Scale /\ pointer \in 0 .. Scale
    BY DEF Init, Scale
  <2>5. /\ job \in [Commands -> Jobs] /\ monitor \in Commands \cup {Nobody}
        /\ held \in SUBSET KeyNames /\ width \in Widths /\ stale \subseteq Commands
        /\ interrupted \in BOOLEAN
    BY DEF Init
  <2> QED
    BY <2>2, <2>3, <2>4, <2>5 DEF TypeOK
<1> QED
  BY <1>1, TypeStep, PTL DEF Spec

-----------------------------------------------------------------------------
(* The invariant: where each command stands in its script, and what the    *)
(* keyboard and the tablet hold because of it.                             *)

OnLayout(text) == \A i \in DOMAIN text : text[i] \notin Misplaced

\* After n calls of a text: two for each character.
TextAt(c, n) ==
    LET text == job[c].text IN
    /\ landed[c] = -1
    /\ n = 0 => got[c] = <<>>
    /\ ~interrupted =>
        /\ held = IF n % 2 = 0 THEN {} ELSE All(Stroked(text[(n + 1) \div 2]))
        /\ OnLayout(text) => Typed(got[c]) = SubSeq(text, 1, (n + 1) \div 2)

\* After n calls of a chord: it is one.
KeyAt(c, n) ==
    /\ landed[c] = -1
    /\ n = 0 => got[c] = <<>>
    /\ ~interrupted =>
        /\ held = {}
        /\ n = 1 => got[c][Len(got[c])] = Struck(c)

\* After n calls of a click: the move, the pause, the press and the release.
ClickAt(c, n, w) ==
    LET position == Scaled(job[c].x, w) IN
    /\ n < 3 => landed[c] = -1
    /\ n >= 1 => axis = position
    /\ n >= 2 => pointer = axis
    /\ n >= 3 /\ c \notin stale => landed[c] = PixelAt(position, w)
    /\ ~interrupted => held = IF n = 3 THEN {Buttons[job[c].button]} ELSE {}

StandsAt(c, n, w) ==
    /\ job[c].kind = "text" => TextAt(c, n)
    /\ job[c].kind = "key" => KeyAt(c, n)
    /\ job[c].kind = "click" => ClickAt(c, n, w)

SendingAt(c, n, w) ==
    /\ todo[c] = SubSeq(Script(job[c], w), n + 1, Len(Script(job[c], w)))
    /\ n > 0 => Script(job[c], w)[n].op # "refused"
    /\ c \notin stale => w = width
    /\ StandsAt(c, n, w)

Sending(c) == \E w \in Widths : \E n \in 0 .. Len(Script(job[c], w)) : SendingAt(c, n, w)

\* What a command that has ended well leaves behind.
Arrived(c) ==
    /\ job[c].kind = "text" /\ OnLayout(job[c].text) => Typed(got[c]) = job[c].text
    /\ job[c].kind = "key" => got[c][Len(got[c])] = Struck(c)

CommandInv(c) ==
    /\ at[c] \in {"begin", "dump"} => result[c] = "none" /\ got[c] = <<>> /\ landed[c] = -1
    /\ at[c] = "dump" => job[c].kind \in {"click", "capture"} /\ (~interrupted => held = {})
    /\ at[c] = "send" => result[c] = "none" /\ job[c].kind # "capture" /\ Sending(c)
    /\ at[c] = "done" =>
        /\ result[c] # "none"
        /\ result[c] = "refused" /\ job[c].kind \in {"text", "key"} => got[c] = <<>>
        /\ result[c] = "ok" /\ ~interrupted => Arrived(c)

Control ==
    /\ \A c \in Commands : monitor = c <=> at[c] \in {"dump", "send"}
    /\ monitor = Nobody /\ ~interrupted => held = {}

ConsoleInv == Control /\ \A c \in Commands : CommandInv(c)

LEMMA Ahead ==
    ASSUME NEW S, NEW s \in Seq(S), NEW n \in 0 .. Len(s), NEW t, t = SubSeq(s, n + 1, Len(s))
    PROVE  /\ t = <<>> <=> n = Len(s)
           /\ Len(t) = Len(s) - n
           /\ n < Len(s) => Head(t) = s[n + 1] /\ Tail(t) = SubSeq(s, n + 2, Len(s))
<1>1. Len(s) \in Nat /\ n \in Nat /\ n + 1 \in Int
  OBVIOUS
<1>2. CASE n = Len(s)
  <2>1. t = <<>>
    BY <1>1, <1>2, SubSeqEmpty
  <2> QED
    BY <1>1, <1>2, <2>1
<1>3. CASE n < Len(s)
  <2>1. n + 1 \in 1 .. Len(s) /\ Len(s) \in (n + 1) .. Len(s) /\ (n + 1) + 1 = n + 2
    BY <1>1, <1>3
  <2>2. Head(t) = s[n + 1] /\ Tail(t) = SubSeq(s, n + 2, Len(s))
    BY <2>1, HeadTailOfSubSeq
  <2>3. \A i \in (n + 1) .. Len(s) : s[i] \in S
    BY <1>1
  <2>4. Len(t) = Len(s) - n /\ t \in Seq(S)
    <3>1. t \in Seq(S) /\ Len(t) = IF n + 1 <= Len(s) THEN Len(s) - (n + 1) + 1 ELSE 0
      BY <1>1, <2>3, SubSeqProperties
    <3> QED
      BY <1>1, <1>3, <3>1
  <2>5. t # <<>>
    <3> SUFFICES ASSUME t = <<>> PROVE FALSE
      OBVIOUS
    <3>1. Len(t) = 0
      BY EmptySeq
    <3> QED
      BY <1>1, <1>3, <2>4, <3>1
  <2> QED
    BY <1>3, <2>2, <2>4, <2>5
<1> QED
  BY <1>1, <1>2, <1>3

LEMMA ButtonIsNamed == \A b \in DOMAIN Buttons : Buttons[b] \in ButtonNames
BY DEF Buttons, ButtonNames

LEMMA Halves ==
    ASSUME NEW n \in Nat
    PROVE  IF (n + 1) % 2 = 1
           THEN \E k \in Nat : n % 2 = 0 /\ (n + 1) \div 2 = k /\ ((n + 1) + 1) \div 2 = k + 1
           ELSE n % 2 = 1 /\ (n + 1) \div 2 = ((n + 1) + 1) \div 2 /\ (n + 1) % 2 = 0
<1> DEFINE q == n \div 2
<1>1. q \in Nat /\ (n = 2 * q \/ n = 2 * q + 1)
  OBVIOUS
<1>2. CASE n = 2 * q
  <2>1. n % 2 = 0 /\ (n + 1) \div 2 = q /\ ((n + 1) + 1) \div 2 = q + 1
    BY <1>1, <1>2
  <2> QED
    BY <1>1, <2>1
<1>3. CASE n = 2 * q + 1
  BY <1>1, <1>3
<1> QED
  BY <1>1, <1>2, <1>3

LEMMA OneMore ==
    ASSUME NEW text, IsSequence(text), NEW k \in Nat, k + 1 \in 1 .. Len(text)
    PROVE  SubSeq(text, 1, k + 1) = Append(SubSeq(text, 1, k), text[k + 1])
<1> DEFINE S == {text[i] : i \in DOMAIN text}
<1>1. text \in Seq(S)
  BY DEF IsSequence
<1> HIDE DEF S
<1>2. 1 \in 1 .. Len(text) /\ k + 1 \in 1 .. Len(text) /\ (k + 1) - 1 = k
  BY <1>1
<1> QED
  BY <1>1, <1>2, SubSeqRecursiveSecond

\* One more call of a text.
LEMMA TextAdvances ==
    ASSUME TypeOK, NEW c \in Commands, job[c].kind = "text",
           NEW n \in 0 .. (Len(Translate(job[c].text)) - 1), TextAt(c, n),
           Apply(c, Translate(job[c].text)[n + 1]), Translate(job[c].text)[n + 1].op # "refused",
           job' = job, interrupted' = interrupted
    PROVE  TextAt(c, n + 1)'
<1> DEFINE text == job[c].text
           m == n + 1
           ch == text[(m + 1) \div 2]
           keys == Stroked(ch)
           nth == Translate(text)[m]
<1>1. IsSequence(text)
  BY JobTyped DEF TypeOK
<1>2. Translate(text) # Rejection
  <2> SUFFICES ASSUME Translate(text) = Rejection PROVE FALSE
    OBVIOUS
  <2>1. m = 1
    BY RejectionTyped
  <2> QED
    BY <2>1, RejectionTyped
<1>3. Len(text) \in Nat /\ DOMAIN text = 1 .. Len(text)
  BY <1>1 DEF IsSequence
<1>4. /\ \A i \in 1 .. Len(text) : Typable(text[i])
      /\ Len(Translate(text)) = 2 * Len(text)
      /\ \A i \in 1 .. 2 * Len(text) : Translate(text)[i] = TextCall(text, i)
  BY <1>1, <1>2, TextScript
<1>5. m \in 1 .. 2 * Len(text) /\ n \in Nat /\ (m + 1) \div 2 \in 1 .. Len(text)
  BY <1>3, <1>4
<1>6. Typable(ch) /\ nth = TextCall(text, m)
  BY <1>4, <1>5
<1> HIDE DEF ch, nth, text, m
<1>7. keys \in Seq(KeyNames) /\ keys[1] \notin ButtonNames /\ Len(keys) >= 1
  BY <1>6, KeysTyped
<1> USE DEF nth, text, m
<1>8. got[c] \in Seq(Stroke) /\ c \in DOMAIN got /\ c \in DOMAIN landed
  BY DEF TypeOK
<1>9. held \in SUBSET KeyNames
  BY DEF TypeOK
<1> HIDE DEF keys
<1>10. CASE m % 2 = 1
  <2>1. nth.op = "keys" /\ nth.events = Down(keys)
    BY <1>6, <1>10 DEF TextCall, Keys, keys, ch
  <2>2. /\ held' = HeldAfter(Down(keys))[Len(Down(keys))]
        /\ got'[c] = got[c] \o Pressed(Down(keys))
    BY <1>8, <2>1 DEF Apply
  <2>3. landed'[c] = landed[c]
    <3>1. 1 \in 1 .. Len(keys) /\ Down(keys)[1].key = keys[1]
      BY <1>7, EventsTyped DEF Presses
    <3> QED
      BY <1>7, <2>1, <3>1, ButtonIsNamed DEF Apply
  <2>4. PICK k \in Nat : n % 2 = 0 /\ (n + 1) \div 2 = k /\ (m + 1) \div 2 = k + 1
    BY <1>5, <1>10, Halves
  <2>5. ASSUME ~interrupted PROVE held = {}
    BY <2>4, <2>5 DEF TextAt
  <2>6. ASSUME ~interrupted PROVE held' = All(keys)
    <3>1. held' = held \cup All(keys)
      BY <1>7, <1>9, <2>2, PressHolds
    <3> QED
      BY <2>5, <2>6, <3>1
  <2>7. ASSUME ~interrupted, OnLayout(text) PROVE Typed(got'[c]) = SubSeq(text, 1, k + 1)
    <3>1. Typed(got[c]) = SubSeq(text, 1, k)
      BY <2>4, <2>7 DEF TextAt
    <3>2. Typed(got'[c]) = Append(Typed(got[c]), Legend(KeyOf(ch), IsShifted(ch)))
      BY <1>6, <1>8, <2>2, <2>5, <2>7, CharacterTypes DEF keys
    <3>3. ch = text[k + 1] /\ k + 1 \in 1 .. Len(text)
      BY <1>5, <2>4 DEF ch
    <3>4. Legend(KeyOf(ch), IsShifted(ch)) = ch
      BY <1>3, <1>6, <2>7, <3>3, KeysOfCharacter DEF OnLayout
    <3>5. SubSeq(text, 1, k + 1) = Append(SubSeq(text, 1, k), text[k + 1])
      BY <1>1, <3>3, OneMore
    <3> QED
      BY <3>1, <3>2, <3>3, <3>4, <3>5
  <2>8. job'[c].text = text /\ landed'[c] = -1 /\ n + 1 # 0 /\ n + 1 \in Nat
    BY <1>5, <2>3 DEF TextAt
  <2>9. held' = All(Stroked(text[((n + 1) + 1) \div 2])) \/ interrupted'
    BY <2>6 DEF keys, ch
  <2>10. ~interrupted' /\ OnLayout(text) => Typed(got'[c]) = SubSeq(text, 1, ((n + 1) + 1) \div 2)
    BY <2>4, <2>7
  <2>11. (n + 1) % 2 # 0
    BY <1>10
  <2> HIDE DEF text
  <2> QED
    BY <2>8, <2>9, <2>10, <2>11 DEF TextAt
<1>11. CASE m % 2 # 1
  <2>1. nth.op = "keys" /\ nth.events = Up(keys)
    BY <1>6, <1>11 DEF TextCall, Keys, keys, ch
  <2>2. held' = held \ All(keys) /\ got'[c] = got[c]
    <3>1. /\ held' = HeldAfter(Up(keys))[Len(Up(keys))]
          /\ got'[c] = got[c] \o Pressed(Up(keys))
      BY <1>8, <2>1 DEF Apply
    <3>2. Pressed(Up(keys)) = <<>> /\ HeldAfter(Up(keys))[Len(Up(keys))] = held \ All(keys)
      BY <1>7, <1>9, ReleaseFrees
    <3> QED
      BY <1>8, <3>1, <3>2
  <2>3. landed'[c] = landed[c]
    <3>1. 1 \in 1 .. Len(keys) /\ 0 + 1 = 1 /\ ~Up(keys)[1].down
      BY <1>7, EventsTyped DEF Releases
    <3> QED
      BY <2>1, <3>1 DEF Apply
  <2>4. n % 2 = 1 /\ (n + 1) \div 2 = (m + 1) \div 2 /\ m % 2 = 0
    BY <1>5, <1>11, Halves
  <2>5. ASSUME ~interrupted PROVE held' = {}
    BY <2>2, <2>4, <2>5 DEF TextAt, keys, ch
  <2>6. job'[c].text = text /\ landed'[c] = -1 /\ n + 1 # 0 /\ n + 1 \in Nat
    BY <1>5, <2>3 DEF TextAt
  <2>7. (n + 1) % 2 = 0 /\ ((n + 1) + 1) \div 2 = (n + 1) \div 2
    BY <2>4
  <2>8. ASSUME ~interrupted, OnLayout(text)
        PROVE  Typed(got'[c]) = SubSeq(text, 1, ((n + 1) + 1) \div 2)
    BY <2>2, <2>7, <2>8 DEF TextAt
  <2> HIDE DEF text
  <2> QED
    BY <2>5, <2>6, <2>7, <2>8 DEF TextAt
<1> QED
  BY <1>10, <1>11

\* The call of a chord.
LEMMA KeyAdvances ==
    ASSUME TypeOK, NEW c \in Commands, job[c].kind = "key",
           NEW n \in 0 .. (Len(Chord(job[c].keys)) - 1), KeyAt(c, n),
           Apply(c, Chord(job[c].keys)[n + 1]), Chord(job[c].keys)[n + 1].op # "refused",
           job' = job, interrupted' = interrupted
    PROVE  KeyAt(c, n + 1)'
<1> DEFINE keys == job[c].keys
           events == Down(keys) \o Up(keys)
           nth == Chord(keys)[n + 1]
<1>1. IsSequence(keys)
  BY JobTyped DEF TypeOK
<1>2. Chord(keys) # Rejection
  <2> SUFFICES ASSUME Chord(keys) = Rejection PROVE FALSE
    OBVIOUS
  <2>1. n + 1 = 1
    BY RejectionTyped
  <2> QED
    BY <2>1, RejectionTyped
<1>3. /\ keys \in Seq(KeyNames) /\ keys # <<>> /\ keys[1] \notin ButtonNames
      /\ Chord(keys) = <<Keys(events)>>
  BY <1>1, <1>2, ChordScript
<1>4. n = 0 /\ nth = Keys(events)
  <2> DEFINE one == Keys(events)
  <2>1. Chord(keys) = <<one>>
    BY <1>3
  <2> HIDE DEF one
  <2>2. Len(Chord(keys)) = 1 /\ Chord(keys)[1] = one
    BY <2>1
  <2>3. n = 0
    BY <2>2
  <2> QED
    BY <2>2, <2>3 DEF one
<1>5. nth.op = "keys" /\ nth.events = events
  BY <1>4 DEF Keys
<1>6. got[c] \in Seq(Stroke) /\ c \in DOMAIN got /\ c \in DOMAIN landed /\ held \in SUBSET KeyNames
  BY DEF TypeOK
<1>7. /\ held' = HeldAfter(events)[Len(events)]
      /\ got'[c] = got[c] \o Pressed(events)
  BY <1>5, <1>6 DEF Apply
<1>8. landed'[c] = -1
  <2>1. 1 \in 1 .. Len(keys)
    BY <1>3, EmptySeq, LenProperties
  <2>2. events[1].key = keys[1]
    BY <1>3, <2>1, ChordEvents DEF Presses
  <2>3. landed[c] = -1
    BY DEF KeyAt
  <2>4. ~ \E b \in DOMAIN Buttons : keys[1] = Buttons[b]
    BY <1>3, ButtonIsNamed
  <2>5. landed' = IF /\ events[1].down
                     /\ \E b \in DOMAIN Buttons : events[1].key = Buttons[b]
                  THEN [landed EXCEPT ![c] = PixelAt(pointer, width)] ELSE landed
    BY <1>5 DEF Apply
  <2>6. landed' = landed
    BY <2>2, <2>4, <2>5, Zenon
  <2> QED
    BY <2>3, <2>6
<1>9. held = {} => /\ held' = {}
                   /\ got'[c][Len(got'[c])] = Struck(c)
  <2> HAVE held = {}
  <2>1. held' = held \ All(keys)
    BY <1>3, <1>6, <1>7, ChordStrikes
  <2> DEFINE strokes == Pressed(events)
             last == strokes[Len(strokes)]
  <2>2. /\ strokes \in Seq(Stroke) /\ strokes # <<>>
        /\ last = [key |-> keys[Len(keys)], with |-> FirstOf(keys, Len(keys) - 1)]
    BY <1>3, <1>6, ChordStrikes
  <2>3. last = Struck(c)
    BY <2>2 DEF Struck, FirstOf
  <2> HIDE DEF strokes
  <2>4. got'[c][Len(got'[c])] = last
    <3>1. Len(strokes) \in Nat /\ Len(strokes) > 0 /\ Len(got[c]) \in Nat
      BY <1>6, <2>2, EmptySeq, LenProperties
    <3>2. got'[c] = got[c] \o strokes
      BY <1>7 DEF strokes
    <3> QED
      BY <1>6, <2>2, <3>1, <3>2, ConcatProperties
  <2> QED
    BY <2>1, <2>3, <2>4
<1>10. Struck(c)' = Struck(c)
  BY DEF Struck
<1>11. ~interrupted' => held' = {} /\ got'[c][Len(got'[c])] = Struck(c)'
  BY <1>9, <1>10 DEF KeyAt
<1>12. n + 1 = 1
  BY <1>4
<1> QED
  BY <1>8, <1>11, <1>12 DEF KeyAt

\* The move, the press or the release of a click.
LEMMA ClickAdvances ==
    ASSUME TypeOK, NEW c \in Commands, job[c].kind = "click", NEW w \in Widths,
           NEW n \in 0 .. (Len(Click(job[c], w)) - 1), ClickAt(c, n, w),
           c \notin stale => w = width,
           Apply(c, Click(job[c], w)[n + 1]), Click(job[c], w)[n + 1].op \in {"keys", "move"},
           UNCHANGED <<job, interrupted, stale, width, pointer>>
    PROVE  ClickAt(c, n + 1, w)'
<1> DEFINE j == job[c]
           nth == Click(j, w)[n + 1]
           b == Buttons[j.button]
           position == Scaled(j.x, w)
<1>1. w \in Nat \ {0}
  BY ConsoleAssumption DEF ConsoleAssumption
<1>2. j.x \in Int /\ j.press \in BOOLEAN
  BY JobTyped DEF TypeOK
<1>3. /\ Len(Click(j, w)) = IF Clicks(j) THEN 4 ELSE IF j.press THEN 3 ELSE 2
      /\ Clicks(j) =>
          /\ b \in ButtonNames /\ b \in KeyNames
          /\ Click(j, w)[3] = Keys(Down(<<b>>))
          /\ Click(j, w)[4] = Keys(Up(<<b>>))
  BY <1>1, <1>2, ClickScript
<1>7. /\ Click(j, w)[1].op = "move" /\ Click(j, w)[1].to = position
      /\ Click(j, w)[2].op = "settle"
      /\ j.press /\ ~Clicks(j) => Click(j, w)[3].op = "refused"
  BY <1>1, <1>2, ClickOperations
<1>4. /\ c \in DOMAIN landed /\ held \in SUBSET KeyNames
  BY DEF TypeOK
<1>5. CASE n = 0
  <2>1. nth.op = "move" /\ nth.to = position
    BY <1>5, <1>7
  <2>2. axis' = position /\ UNCHANGED <<held, got, landed>>
    BY <2>1 DEF Apply
  <2> HIDE DEF position
  <2>3. landed'[c] = -1 /\ (~interrupted' => held' = {})
    BY <1>5, <2>2 DEF ClickAt
  <2>4. Scaled(job'[c].x, w) = position
    BY DEF position
  <2> QED
    BY <1>5, <2>2, <2>3, <2>4 DEF ClickAt
<1>6. CASE n # 0
  <2>1. n \in {2, 3} /\ Clicks(j)
    <3>1. n # 1
      BY <1>7
    <3>2. n \in {2, 3}
      BY <1>3, <1>6, <3>1
    <3>3. j.press
      BY <1>3, <3>2 DEF Clicks
    <3>4. Clicks(j)
      <4> SUFFICES ASSUME ~Clicks(j) PROVE FALSE
        OBVIOUS
      <4>1. n = 2
        BY <1>3, <3>2
      <4> QED
        BY <1>7, <3>3, <4>1
    <3> QED
      BY <3>2, <3>4
  <2>2. axis = position /\ pointer = position
    BY <2>1 DEF ClickAt
  <2>3. job'[c] = j /\ Buttons[job'[c].button] = b /\ Scaled(job'[c].x, w) = position
    OBVIOUS
  <2> DEFINE keys == <<b>>
  <2>4. keys \in Seq(KeyNames) /\ All(keys) = {b} /\ Len(keys) = 1 /\ keys[1] = b
    <3>1. b \in KeyNames
      BY <1>3, <2>1
    <3> HIDE DEF b
    <3> QED
      BY <3>1 DEF All
  <2>5. CASE n = 2
    <3>1. nth.op = "keys" /\ nth.events = Down(keys)
      BY <1>3, <2>1, <2>5 DEF Keys
    <3> HIDE DEF keys, position, b
    <3>2. Down(keys)[1].down /\ Down(keys)[1].key = b
      BY <2>4, EventsTyped DEF Presses
    <3>3. \E name \in DOMAIN Buttons : b = Buttons[name]
      BY <2>1 DEF b, Clicks
    <3>4. landed'[c] = PixelAt(position, width) /\ axis' = axis
      BY <1>4, <2>2, <3>1, <3>2, <3>3 DEF Apply
    <3>5. held' = held \cup {b}
      BY <1>4, <2>4, <3>1, PressHolds DEF Apply
    <3>6. ~interrupted' => held' = {b}
      BY <2>5, <3>5 DEF ClickAt
    <3>7. c \notin stale' => landed'[c] = PixelAt(position, w)
      BY <3>4
    <3>8. n + 1 = 3
      BY <2>5
    <3> QED
      BY <2>2, <2>3, <3>4, <3>6, <3>7, <3>8 DEF ClickAt
  <2>6. CASE n = 3
    <3>1. nth.op = "keys" /\ nth.events = Up(keys)
      BY <1>3, <2>1, <2>6 DEF Keys
    <3> HIDE DEF keys, position
    <3>2. ~Up(keys)[1].down
      <4>1. 1 \in 1 .. Len(keys) /\ 0 + 1 = 1
        BY <2>4
      <4> QED
        BY <2>4, <4>1, EventsTyped DEF Releases
    <3>3. landed' = landed /\ axis' = axis
      BY <3>1, <3>2 DEF Apply
    <3>4. held' = held \ {b}
      BY <1>4, <2>4, <3>1, ReleaseFrees DEF Apply
    <3>5. ~interrupted' => held' = {}
      BY <2>6, <3>4 DEF ClickAt
    <3>6. c \notin stale' => landed'[c] = PixelAt(position, w)
      BY <2>6, <3>3 DEF ClickAt, position
    <3>7. n + 1 = 4
      BY <2>6
    <3> QED
      BY <2>2, <2>3, <3>3, <3>5, <3>6, <3>7 DEF ClickAt
  <2> QED
    BY <2>1, <2>5, <2>6
<1> QED
  BY <1>5, <1>6

\* The pause of a click.
LEMMA ClickSettles ==
    ASSUME TypeOK, NEW c \in Commands, job[c].kind = "click", NEW w \in Widths,
           NEW n \in 0 .. (Len(Click(job[c], w)) - 1), ClickAt(c, n, w),
           Click(job[c], w)[n + 1].op = "settle", pointer = axis,
           UNCHANGED <<job, landed, held, interrupted, stale, axis, pointer>>
    PROVE  ClickAt(c, n + 1, w)'
<1> DEFINE j == job[c]
<1>1. w \in Nat \ {0} /\ j.x \in Int /\ j.press \in BOOLEAN
  BY JobTyped, ConsoleAssumption DEF TypeOK, ConsoleAssumption
<1>6. Len(Click(j, w)) = IF Clicks(j) THEN 4 ELSE IF j.press THEN 3 ELSE 2
  BY <1>1, ClickScript
<1>2. /\ Len(Click(j, w)) = IF Clicks(j) THEN 4 ELSE IF j.press THEN 3 ELSE 2
      /\ Click(j, w)[1].op = "move"
      /\ Clicks(j) => Click(j, w)[3].op = "keys" /\ Click(j, w)[4].op = "keys"
      /\ j.press /\ ~Clicks(j) => Click(j, w)[3].op = "refused"
  BY <1>1, <1>6, ClickOperations
<1>3. n = 1
  <2>1. n \in {0, 1, 2, 3}
    BY <1>2
  <2>2. n # 0 /\ n # 3
    BY <1>2
  <2>3. n # 2
    BY <1>2 DEF Clicks
  <2> QED
    BY <2>1, <2>2, <2>3
<1>4. landed[c] = -1 /\ axis = Scaled(j.x, w) /\ (~interrupted => held = {})
  BY <1>3 DEF ClickAt
<1>5. n + 1 = 2
  BY <1>3
<1> QED
  BY <1>4, <1>5 DEF ClickAt

LEMMA ScriptAdvances ==
    ASSUME TypeOK, NEW c \in Commands, job[c].kind # "capture", NEW w \in Widths,
           NEW n \in 0 .. (Len(Script(job[c], w)) - 1), StandsAt(c, n, w),
           c \notin stale => w = width,
           Script(job[c], w)[n + 1].op \in {"keys", "move"},
           Apply(c, Script(job[c], w)[n + 1]),
           UNCHANGED <<job, interrupted, stale, width, pointer>>
    PROVE  StandsAt(c, n + 1, w)'
<1>1. job[c].kind \in {"text", "key", "click"} /\ job'[c].kind = job[c].kind
  BY JobTyped DEF TypeOK
<1>2. CASE job[c].kind = "text"
  <2>1. TextAt(c, n + 1)'
    BY <1>2, TextAdvances DEF Script, StandsAt
  <2> QED
    BY <1>1, <1>2, <2>1 DEF StandsAt
<1>3. CASE job[c].kind = "key"
  <2>1. KeyAt(c, n + 1)'
    BY <1>3, KeyAdvances DEF Script, StandsAt
  <2> QED
    BY <1>1, <1>3, <2>1 DEF StandsAt
<1>4. CASE job[c].kind = "click"
  <2>1. ClickAt(c, n + 1, w)'
    BY <1>4, ClickAdvances DEF Script, StandsAt
  <2> QED
    BY <1>1, <1>4, <2>1 DEF StandsAt
<1> QED
  BY <1>1, <1>2, <1>3, <1>4

\* Before the first call.
LEMMA ScriptBegins ==
    ASSUME TypeOK, NEW c \in Commands, NEW w \in Widths,
           got[c] = <<>>, landed[c] = -1, ~interrupted => held = {}
    PROVE  StandsAt(c, 0, w)
<1>1. 0 % 2 = 0 /\ (0 + 1) \div 2 = 0
  OBVIOUS
<1>2. job[c].kind = "text" => SubSeq(job[c].text, 1, 0) = <<>>
  BY SubSeqEmpty
<1>3. Typed(got[c]) = <<>>
  BY TypedOfNothing
<1>4. job[c].kind = "text" => TextAt(c, 0)
  BY <1>1, <1>2, <1>3 DEF TextAt
<1>5. KeyAt(c, 0)
  BY DEF KeyAt
<1>6. ClickAt(c, 0, w)
  BY DEF ClickAt
<1> QED
  BY <1>4, <1>5, <1>6 DEF StandsAt

\* After the last call.
LEMMA ScriptEnds ==
    ASSUME TypeOK, NEW c \in Commands, job[c].kind # "capture", NEW w \in Widths,
           NEW n, n = Len(Script(job[c], w)), n > 0 => Script(job[c], w)[n].op # "refused",
           StandsAt(c, n, w), ~interrupted
    PROVE  held = {} /\ Arrived(c)
<1> DEFINE j == job[c]
<1>1. j.kind \in {"text", "key", "click"}
  BY JobTyped DEF TypeOK
<1>2. CASE j.kind = "text"
  <2>1. IsSequence(j.text)
    BY <1>2, JobTyped DEF TypeOK
  <2>2. n = Len(Translate(j.text)) /\ (n > 0 => Translate(j.text)[n].op # "refused")
    BY <1>2 DEF Script
  <2>3. Translate(j.text) # Rejection
    <3> SUFFICES ASSUME Translate(j.text) = Rejection PROVE FALSE
      OBVIOUS
    <3>1. n = 1
      BY <2>2, RejectionTyped
    <3> QED
      BY <2>2, <3>1, RejectionTyped
  <2>4. n = 2 * Len(j.text) /\ Len(j.text) \in Nat
    BY <2>1, <2>2, <2>3, TextScript DEF IsSequence
  <2>5. n % 2 = 0 /\ (n + 1) \div 2 = Len(j.text)
    <3> DEFINE l == Len(j.text)
    <3>1. l \in Nat /\ n = 2 * l
      BY <2>4
    <3> HIDE DEF l
    <3>2. n % 2 = 0 /\ (n + 1) \div 2 = l
      BY <3>1
    <3> QED
      BY <3>2 DEF l
  <2>6. SubSeq(j.text, 1, Len(j.text)) = j.text
    BY <2>1, SubSeqFull DEF IsSequence
  <2>7. TextAt(c, n)
    BY <1>2 DEF StandsAt
  <2> QED
    BY <1>2, <2>5, <2>6, <2>7 DEF TextAt, Arrived
<1>3. CASE j.kind = "key"
  <2>1. IsSequence(j.keys)
    BY <1>3, JobTyped DEF TypeOK
  <2>2. n = Len(Chord(j.keys))
    BY <1>3 DEF Script
  <2>3. n = 1
    <3>1. CASE Chord(j.keys) = Rejection
      BY <2>2, <3>1, RejectionTyped
    <3>2. CASE Chord(j.keys) # Rejection
      <4> DEFINE one == Keys(Down(j.keys) \o Up(j.keys))
      <4>1. Chord(j.keys) = <<one>>
        BY <2>1, <3>2, ChordScript
      <4> HIDE DEF one
      <4> QED
        BY <2>2, <4>1
    <3> QED
      BY <3>1, <3>2
  <2>4. KeyAt(c, n)
    BY <1>3 DEF StandsAt
  <2> QED
    BY <1>3, <2>3, <2>4 DEF KeyAt, Arrived
<1>4. CASE j.kind = "click"
  <2>1. w \in Nat \ {0} /\ j.x \in Int /\ j.press \in BOOLEAN
    BY <1>4, JobTyped, ConsoleAssumption DEF TypeOK, ConsoleAssumption
  <2>2. n = Len(Click(j, w)) /\ (n > 0 => Click(j, w)[n].op # "refused")
    BY <1>4 DEF Script
  <2>3. n # 3
    <3> SUFFICES ASSUME n = 3 PROVE FALSE
      OBVIOUS
    <3>2. Len(Click(j, w)) = IF Clicks(j) THEN 4 ELSE IF j.press THEN 3 ELSE 2
      BY <2>1, ClickScript
    <3>3. j.press /\ ~Clicks(j) => Click(j, w)[3].op = "refused"
      BY <2>1, ClickOperations
    <3> HIDE DEF j
    <3> QED
      BY <2>1, <2>2, <3>2, <3>3
  <2>4. ClickAt(c, n, w)
    BY <1>4 DEF StandsAt
  <2> QED
    BY <1>4, <2>3, <2>4 DEF ClickAt, Arrived
<1> QED
  BY <1>1, <1>2, <1>3, <1>4

\* Where a command is refused, it has sent nothing that it would have to take back.
LEMMA ScriptRefused ==
    ASSUME TypeOK, NEW c \in Commands, job[c].kind # "capture", NEW w \in Widths,
           NEW n \in 0 .. (Len(Script(job[c], w)) - 1),
           Script(job[c], w)[n + 1].op = "refused", StandsAt(c, n, w)
    PROVE  /\ ~interrupted => held = {}
           /\ job[c].kind \in {"text", "key"} => got[c] = <<>>
<1> DEFINE j == job[c]
<1>1. j.kind \in {"text", "key", "click"}
  BY JobTyped DEF TypeOK
<1>2. CASE j.kind = "text"
  <2>1. IsSequence(j.text)
    BY <1>2, JobTyped DEF TypeOK
  <2>2. n \in 0 .. (Len(Translate(j.text)) - 1) /\ Translate(j.text)[n + 1].op = "refused"
    BY <1>2 DEF Script
  <2>3. Translate(j.text) = Rejection
    <3> SUFFICES ASSUME Translate(j.text) # Rejection PROVE FALSE
      OBVIOUS
    <3>1. Len(j.text) \in Nat
      BY <2>1 DEF IsSequence
    <3>2. n + 1 \in 1 .. 2 * Len(j.text) /\ Translate(j.text)[n + 1] = TextCall(j.text, n + 1)
      BY <2>1, <2>2, <3>1, TextScript
    <3> QED
      BY <2>2, <3>2 DEF TextCall, Keys
  <2>4. n = 0
    BY <2>2, <2>3, RejectionTyped
  <2>5. TextAt(c, n)
    BY <1>2 DEF StandsAt
  <2> QED
    BY <2>4, <2>5 DEF TextAt
<1>3. CASE j.kind = "key"
  <2>1. IsSequence(j.keys)
    BY <1>3, JobTyped DEF TypeOK
  <2>2. n \in 0 .. (Len(Chord(j.keys)) - 1)
    BY <1>3 DEF Script
  <2>3. n = 0
    <3>1. CASE Chord(j.keys) = Rejection
      BY <2>2, <3>1, RejectionTyped
    <3>2. CASE Chord(j.keys) # Rejection
      <4> DEFINE one == Keys(Down(j.keys) \o Up(j.keys))
      <4>1. Chord(j.keys) = <<one>>
        BY <2>1, <3>2, ChordScript
      <4> HIDE DEF one
      <4> QED
        BY <2>2, <4>1
    <3> QED
      BY <3>1, <3>2
  <2>4. KeyAt(c, n)
    BY <1>3 DEF StandsAt
  <2> QED
    BY <2>3, <2>4 DEF KeyAt
<1>4. CASE j.kind = "click"
  <2>1. w \in Nat \ {0} /\ j.x \in Int /\ j.press \in BOOLEAN
    BY <1>4, JobTyped, ConsoleAssumption DEF TypeOK, ConsoleAssumption
  <2>2. n \in 0 .. (Len(Click(j, w)) - 1) /\ Click(j, w)[n + 1].op = "refused"
    BY <1>4 DEF Script
  <2>3. n # 3
    <3> SUFFICES ASSUME n = 3 PROVE FALSE
      OBVIOUS
    <3>2. Len(Click(j, w)) = IF Clicks(j) THEN 4 ELSE IF j.press THEN 3 ELSE 2
      BY <2>1, ClickScript
    <3>3. Clicks(j) => Click(j, w)[4].op = "keys"
      BY <2>1, ClickOperations
    <3> HIDE DEF j
    <3> QED
      BY <2>1, <2>2, <3>2, <3>3
  <2>4. ClickAt(c, n, w)
    BY <1>4 DEF StandsAt
  <2> QED
    BY <1>4, <2>3, <2>4 DEF ClickAt
<1> QED
  BY <1>1, <1>2, <1>3, <1>4

\* What a command stands at is told by these variables.
LEMMA StandsStill ==
    ASSUME NEW c \in Commands, NEW n, NEW w, StandsAt(c, n, w),
           UNCHANGED <<job, got, landed, held, interrupted, axis, pointer, stale>>
    PROVE  StandsAt(c, n, w)'
<1>1. TextAt(c, n) => TextAt(c, n)'
  BY DEF TextAt
<1>2. KeyAt(c, n) => KeyAt(c, n)'
  BY DEF KeyAt, Struck
<1>3. ClickAt(c, n, w) => ClickAt(c, n, w)'
  BY DEF ClickAt
<1> QED
  BY <1>1, <1>2, <1>3 DEF StandsAt

LEMMA NobodyIsNone == \A c \in Commands : Nobody # c
BY ConsoleAssumption DEF ConsoleAssumption

\* What one command does, another that is not sending does not see; and only the
\* client of the monitor does anything.
LEMMA OthersStay ==
    ASSUME TypeOK, NEW c \in Commands, CommandInv(c),
           job' = job, interrupted => interrupted', interrupted' \in BOOLEAN,
           at'[c] = at[c], todo'[c] = todo[c], result'[c] = result[c], got'[c] = got[c],
           landed'[c] = landed[c],
           at[c] \in {"dump", "send"} =>
               UNCHANGED <<held, axis, pointer, width, stale, interrupted>>
    PROVE  CommandInv(c)'
<1>1. at[c] \in {"begin", "dump", "send", "done"}
  BY DEF TypeOK
<1>2. CASE at[c] = "begin"
  BY <1>2 DEF CommandInv
<1>3. CASE at[c] = "dump"
  BY <1>3 DEF CommandInv
<1>4. CASE at[c] = "send"
  <2>0. PICK w \in Widths : \E n \in 0 .. Len(Script(job[c], w)) : SendingAt(c, n, w)
    BY <1>4 DEF CommandInv, Sending
  <2>1. PICK n \in 0 .. Len(Script(job[c], w)) : SendingAt(c, n, w)
    BY <2>0
  <2>2. UNCHANGED <<held, axis, pointer, width, stale, interrupted>>
    BY <1>4
  <2>3. StandsAt(c, n, w)'
    <3>1. StandsAt(c, n, w)
      BY <2>1 DEF SendingAt
    <3>2. TextAt(c, n) => TextAt(c, n)'
      BY <2>2 DEF TextAt
    <3>3. KeyAt(c, n) => KeyAt(c, n)'
      BY <2>2 DEF KeyAt, Struck
    <3>4. ClickAt(c, n, w) => ClickAt(c, n, w)'
      BY <2>2 DEF ClickAt
    <3> QED
      BY <3>1, <3>2, <3>3, <3>4 DEF StandsAt
  <2>4. SendingAt(c, n, w)'
    BY <2>1, <2>2, <2>3 DEF SendingAt
  <2>5. n \in 0 .. Len(Script(job'[c], w))
    OBVIOUS
  <2>6. Sending(c)'
    BY <2>4, <2>5 DEF Sending
  <2> QED
    BY <1>4, <2>6 DEF CommandInv
<1>5. CASE at[c] = "done"
  <2>1. Arrived(c) => Arrived(c)'
    BY DEF Arrived, Struck
  <2> QED
    BY <1>5, <2>1 DEF CommandInv
<1> QED
  BY <1>1, <1>2, <1>3, <1>4, <1>5

LEMMA NextCall ==
    ASSUME TypeOK, NEW c \in Commands, job[c].kind # "capture", NEW w \in Widths,
           NEW n \in 0 .. Len(Script(job[c], w)), SendingAt(c, n, w)
    PROVE  /\ todo[c] = <<>> <=> n = Len(Script(job[c], w))
           /\ todo[c] # <<>> =>
                /\ n \in 0 .. (Len(Script(job[c], w)) - 1)
                /\ n + 1 \in 0 .. Len(Script(job[c], w))
                /\ Head(todo[c]) = Script(job[c], w)[n + 1]
                /\ Tail(todo[c]) = SubSeq(Script(job[c], w), (n + 1) + 1, Len(Script(job[c], w)))
<1> DEFINE s == Script(job[c], w)
<1>1. s \in Seq(Call) /\ todo[c] = SubSeq(s, n + 1, Len(s))
  BY ScriptTyped DEF TypeOK, SendingAt
<1> HIDE DEF s
<1>2. n \in 0 .. Len(s)
  BY DEF s
<1>3. /\ todo[c] = <<>> <=> n = Len(s)
      /\ n < Len(s) => Head(todo[c]) = s[n + 1] /\ Tail(todo[c]) = SubSeq(s, n + 2, Len(s))
  BY <1>1, <1>2, Ahead
<1>4. (n + 1) + 1 = n + 2 /\ (n # Len(s) => n \in 0 .. (Len(s) - 1) /\ n + 1 \in 0 .. Len(s) /\ n < Len(s))
  BY <1>1, <1>2
<1> QED
  BY <1>3, <1>4 DEF s

\* What a step of one command leaves to the others.
Frame(c) ==
    /\ job' = job /\ (interrupted => interrupted')
    /\ \A d \in Commands \ {c} :
          /\ at'[d] = at[d] /\ todo'[d] = todo[d] /\ result'[d] = result[d]
          /\ got'[d] = got[d] /\ landed'[d] = landed[d]
    /\ monitor \in {c, Nobody} \/ UNCHANGED <<held, axis, pointer, width, stale, interrupted>>

\* A step of a command that leaves the command itself right leaves all right.
LEMMA OneSteps ==
    ASSUME TypeOK, TypeOK', ConsoleInv, NEW c \in Commands, Frame(c), CommandInv(c)',
           \/ /\ at'[c] = "done" /\ monitor' = IF monitor = c THEN Nobody ELSE monitor
              /\ \/ monitor = c /\ (~interrupted' => held' = {})
                 \/ monitor # c /\ UNCHANGED <<held, interrupted>>
           \/ at'[c] \in {"dump", "send"} /\ monitor' = c /\ monitor \in {c, Nobody}
    PROVE  ConsoleInv'
<1>1. ASSUME NEW d \in Commands \ {c} PROVE CommandInv(d)'
  <2>1. CommandInv(d) /\ (monitor = d <=> at[d] \in {"dump", "send"}) /\ Nobody # d
    BY NobodyIsNone DEF ConsoleInv, Control
  <2>2. at[d] \in {"dump", "send"} => UNCHANGED <<held, axis, pointer, width, stale, interrupted>>
    BY <2>1 DEF Frame
  <2>3. interrupted' \in BOOLEAN
    BY DEF TypeOK
  <2> QED
    BY <2>1, <2>2, <2>3, OthersStay DEF Frame
<1>2. ASSUME NEW d \in Commands PROVE monitor' = d <=> at'[d] \in {"dump", "send"}
  BY NobodyIsNone DEF ConsoleInv, Control, Frame
<1>3. monitor' = Nobody /\ ~interrupted' => held' = {}
  BY NobodyIsNone DEF ConsoleInv, Control
<1> QED
  BY <1>1, <1>2, <1>3 DEF ConsoleInv, Control

\* The end of a command whose script is over, cut short or never begun.
LEMMA CommandEnds ==
    ASSUME TypeOK, NEW c \in Commands, NEW answer \in {"ok", "failed", "refused"}, End(c, answer),
           answer = "refused" /\ job'[c].kind \in {"text", "key"} => got'[c] = <<>>,
           answer = "ok" /\ ~interrupted' => Arrived(c)'
    PROVE  CommandInv(c)'
<1>1. at'[c] = "done" /\ result'[c] = answer
  BY DEF End, TypeOK
<1> QED
  BY <1>1 DEF CommandInv

LEMMA UnreachableStep ==
    ASSUME TypeOK, TypeOK', ConsoleInv, NEW c \in Commands, Unreachable(c)
    PROVE  ConsoleInv'
<1>1. Frame(c)
  BY DEF Frame, Unreachable, End, TypeOK
<1>2. CommandInv(c)'
  BY CommandEnds DEF Unreachable
<1>3. monitor # c
  BY DEF Unreachable, ConsoleInv, Control
<1> QED
  BY <1>1, <1>2, <1>3, OneSteps DEF Unreachable, End, TypeOK

\* The first call is yet to be made.
LEMMA Starts ==
    ASSUME TypeOK, NEW c \in Commands, job[c].kind # "capture",
           result[c] = "none", got[c] = <<>>, landed[c] = -1, ~interrupted => held = {},
           at'[c] = "send", todo'[c] = Script(job[c], width),
           UNCHANGED <<job, result, got, landed, held, axis, pointer, width, stale, interrupted>>
    PROVE  CommandInv(c)'
<1>1. PICK w \in Widths : w = width
  BY DEF TypeOK
<1> DEFINE s == Script(job[c], w)
<1>2. todo'[c] = s /\ job'[c] = job[c]
  BY <1>1
<1>3. s \in Seq(Call)
  BY ScriptTyped DEF TypeOK
<1>4. StandsAt(c, 0, w)
  BY ScriptBegins
<1>5. StandsAt(c, 0, w)'
  BY <1>4, StandsStill
<1> HIDE DEF s
<1>6. s = SubSeq(s, 0 + 1, Len(s)) /\ 0 \in 0 .. Len(s)
  BY <1>3, SubSeqFull
<1>7. \E n \in 0 .. Len(Script(job'[c], w)) :
          /\ todo'[c] = SubSeq(Script(job'[c], w), n + 1, Len(Script(job'[c], w)))
          /\ n > 0 => Script(job'[c], w)[n].op # "refused"
          /\ c \notin stale' => w = width'
          /\ StandsAt(c, n, w)'
  <2>1. /\ todo'[c] = SubSeq(s, 0 + 1, Len(s))
        /\ 0 > 0 => s[0].op # "refused"
        /\ c \notin stale' => w = width'
        /\ StandsAt(c, 0, w)'
    BY <1>1, <1>2, <1>5, <1>6
  <2> QED
    BY <1>2, <1>6, <2>1 DEF s
<1>8. Sending(c)'
  BY <1>7 DEF Sending, SendingAt
<1> QED
  BY <1>8 DEF CommandInv

LEMMA ConnectStep ==
    ASSUME TypeOK, TypeOK', ConsoleInv, NEW c \in Commands, Connect(c)
    PROVE  ConsoleInv'
<1> DEFINE calls == IF job[c].kind = "text" THEN Translate(job[c].text)
                    ELSE IF job[c].kind = "key" THEN Chord(job[c].keys) ELSE <<>>
<1>1. /\ at[c] = "begin" /\ monitor = Nobody
      /\ todo' = [todo EXCEPT ![c] = calls]
      /\ at' = [at EXCEPT ![c] = IF job[c].kind \in {"click", "capture"} THEN "dump" ELSE "send"]
      /\ monitor' = c
      /\ UNCHANGED <<job, result, got, landed, held, axis, pointer, width, stale, interrupted>>
  BY DEF Connect
<1>2. Frame(c)
  BY <1>1 DEF Frame, TypeOK
<1>3. result[c] = "none" /\ got[c] = <<>> /\ landed[c] = -1 /\ (~interrupted => held = {})
  BY <1>1 DEF ConsoleInv, Control, CommandInv
<1>4. job[c].kind \in {"text", "key", "click", "capture"}
  BY JobTyped DEF TypeOK
<1>5. CASE job[c].kind \in {"click", "capture"}
  <2>1. at'[c] = "dump"
    BY <1>1, <1>5 DEF TypeOK
  <2>2. CommandInv(c)'
    BY <1>1, <1>3, <1>5, <2>1 DEF CommandInv
  <2> QED
    BY <1>1, <1>2, <2>1, <2>2, OneSteps
<1>6. CASE job[c].kind \in {"text", "key"}
  <2>1. at'[c] = "send"
    BY <1>1, <1>6 DEF TypeOK
  <2>2. todo'[c] = calls
    BY <1>1 DEF TypeOK
  <2>3. calls = Script(job[c], width)
    BY <1>6 DEF Script
  <2>4. CommandInv(c)'
    BY <1>1, <1>3, <1>6, <2>1, <2>2, <2>3, Starts
  <2> QED
    BY <1>1, <1>2, <2>1, <2>4, OneSteps
<1> QED
  BY <1>4, <1>5, <1>6

LEMMA ScreendumpStep ==
    ASSUME TypeOK, TypeOK', ConsoleInv, NEW c \in Commands, Screendump(c)
    PROVE  ConsoleInv'
<1>1. /\ monitor = c /\ job[c].kind \in {"click", "capture"} /\ (~interrupted => held = {})
      /\ result[c] = "none" /\ got[c] = <<>> /\ landed[c] = -1
  BY DEF Screendump, ConsoleInv, Control, CommandInv
<1>2. UNCHANGED <<job, got, landed, held, axis, pointer, width, stale, interrupted>>
  BY DEF Screendump
<1>3. Frame(c)
  BY <1>1, <1>2 DEF Screendump, Frame, End, TypeOK
<1>4. CASE job[c].kind = "click"
  <2>1. /\ todo' = [todo EXCEPT ![c] = Click(job[c], width)]
        /\ at' = [at EXCEPT ![c] = "send"]
        /\ UNCHANGED <<result, monitor>>
    BY <1>4 DEF Screendump
  <2>2. at'[c] = "send" /\ todo'[c] = Script(job[c], width)
    BY <1>4, <2>1 DEF TypeOK, Script
  <2>3. CommandInv(c)'
    BY <1>1, <1>2, <1>4, <2>1, <2>2, Starts
  <2> QED
    BY <1>1, <1>3, <2>1, <2>2, <2>3, OneSteps
<1>5. CASE job[c].kind = "capture"
  <2>1. PICK answer \in {"ok", "failed"} : End(c, answer)
    BY <1>5 DEF Screendump
  <2>2. answer = "ok" => Arrived(c)'
    BY <1>2, <1>5 DEF Arrived
  <2>3. CommandInv(c)'
    BY <1>2, <1>5, <2>1, <2>2, CommandEnds
  <2>4. at'[c] = "done" /\ monitor' = Nobody
    BY <1>1, <2>1 DEF End, TypeOK
  <2> QED
    BY <1>1, <1>2, <1>3, <2>3, <2>4, OneSteps
<1> QED
  BY <1>1, <1>4, <1>5

LEMMA ScreendumpFailsStep ==
    ASSUME TypeOK, TypeOK', ConsoleInv, NEW c \in Commands, ScreendumpFails(c)
    PROVE  ConsoleInv'
<1>1. monitor = c /\ (~interrupted => held = {})
  BY DEF ScreendumpFails, ConsoleInv, Control, CommandInv
<1>2. Frame(c)
  BY <1>1 DEF ScreendumpFails, Frame, End, TypeOK
<1>3. CommandInv(c)'
  BY CommandEnds DEF ScreendumpFails
<1>4. at'[c] = "done" /\ monitor' = Nobody /\ UNCHANGED <<held, interrupted>>
  BY <1>1 DEF ScreendumpFails, End, TypeOK
<1> QED
  BY <1>1, <1>2, <1>3, <1>4, OneSteps

\* A command that sends is the client of the monitor and stands within its script.
LEMMA Sends ==
    ASSUME ConsoleInv, NEW c \in Commands, at[c] = "send"
    PROVE  /\ monitor = c /\ result[c] = "none" /\ job[c].kind # "capture"
           /\ \E w \in Widths : \E n \in 0 .. Len(Script(job[c], w)) : SendingAt(c, n, w)
BY DEF ConsoleInv, Control, CommandInv, Sending

\* A step within the script.
LEMMA Continues ==
    ASSUME TypeOK, NEW c \in Commands, at[c] = "send", result[c] = "none",
           job[c].kind # "capture", NEW w \in Widths,
           NEW n \in 0 .. Len(Script(job[c], w)), SendingAt(c, n, w),
           todo[c] # <<>>, Head(todo[c]).op # "refused", todo' = [todo EXCEPT ![c] = Tail(@)],
           UNCHANGED <<job, at, result, width, stale>>, StandsAt(c, n + 1, w)'
    PROVE  CommandInv(c)'
<1> DEFINE s == Script(job[c], w)
           m == n + 1
<1>1. m \in 0 .. Len(s) /\ Head(todo[c]) = s[m] /\ Tail(todo[c]) = SubSeq(s, m + 1, Len(s))
  BY NextCall
<1>2. todo'[c] = SubSeq(s, m + 1, Len(s)) /\ s = Script(job'[c], w)
  BY <1>1 DEF TypeOK
<1>3. s[m].op # "refused"
  BY <1>1
<1>4. c \notin stale' => w = width'
  BY DEF SendingAt
<1>5. \E k \in 0 .. Len(Script(job'[c], w)) :
          /\ todo'[c] = SubSeq(Script(job'[c], w), k + 1, Len(Script(job'[c], w)))
          /\ k > 0 => Script(job'[c], w)[k].op # "refused"
          /\ c \notin stale' => w = width'
          /\ StandsAt(c, k, w)'
  <2>1. StandsAt(c, m, w)'
    OBVIOUS
  <2> HIDE DEF s, m
  <2> QED
    BY <1>1, <1>2, <1>3, <1>4, <2>1
<1>6. Sending(c)'
  BY <1>5 DEF Sending, SendingAt
<1> QED
  BY <1>6 DEF CommandInv

LEMMA SendStep ==
    ASSUME TypeOK, TypeOK', ConsoleInv, NEW c \in Commands, Send(c)
    PROVE  ConsoleInv'
<1>1. at[c] = "send" /\ todo[c] # <<>> /\ Head(todo[c]).op \in {"keys", "move"}
  BY DEF Send
<1>2. monitor = c /\ result[c] = "none" /\ job[c].kind # "capture"
  BY <1>1, Sends
<1>3. PICK w \in Widths : \E n \in 0 .. Len(Script(job[c], w)) : SendingAt(c, n, w)
  BY <1>1, Sends
<1>4. PICK n \in 0 .. Len(Script(job[c], w)) : SendingAt(c, n, w)
  BY <1>3
<1>5. n \in 0 .. (Len(Script(job[c], w)) - 1) /\ Head(todo[c]) = Script(job[c], w)[n + 1]
  BY <1>1, <1>2, <1>4, NextCall
<1>6. /\ Apply(c, Head(todo[c])) /\ todo' = [todo EXCEPT ![c] = Tail(@)]
      /\ UNCHANGED <<job, at, result, monitor, pointer, width, stale, interrupted>>
  BY DEF Send
<1>7. StandsAt(c, n, w) /\ (c \notin stale => w = width)
  BY <1>4 DEF SendingAt
<1>8. Apply(c, Script(job[c], w)[n + 1]) /\ Script(job[c], w)[n + 1].op \in {"keys", "move"}
  BY <1>1, <1>5, <1>6
<1>9. StandsAt(c, n + 1, w)'
  BY <1>2, <1>5, <1>6, <1>7, <1>8, ScriptAdvances
<1>10. CommandInv(c)'
  BY <1>1, <1>2, <1>4, <1>6, <1>9, Continues
<1>11. Frame(c)
  <2> DEFINE doing == Head(todo[c])
  <2> HIDE DEF doing
  <2>1. /\ got \in [Commands -> Seq(Stroke)] /\ landed \in [Commands -> Nat \cup {-1}]
        /\ c \in DOMAIN todo /\ DOMAIN todo = Commands
    BY DEF TypeOK
  <2>2. \A d \in Commands \ {c} : got'[d] = got[d] /\ landed'[d] = landed[d]
    <3>1. Apply(c, doing)
      BY <1>6 DEF doing
    <3>2. got' = [got EXCEPT ![c] = @ \o Pressed(doing.events)] \/ got' = got
      BY <3>1, Zenon DEF Apply
    <3>3. landed' = [landed EXCEPT ![c] = PixelAt(pointer, width)] \/ landed' = landed
      BY <3>1, Zenon DEF Apply
    <3>4. \A d \in Commands \ {c} : got'[d] = got[d]
      BY <2>1, <3>2
    <3>5. \A d \in Commands \ {c} : landed'[d] = landed[d]
      BY <2>1, <3>3
    <3> QED
      BY <3>4, <3>5
  <2>3. \A d \in Commands \ {c} : todo'[d] = todo[d]
    BY <1>6, <2>1
  <2> QED
    BY <1>2, <1>6, <2>2, <2>3, Zenon DEF Frame
<1> QED
  BY <1>1, <1>2, <1>6, <1>10, <1>11, OneSteps

LEMMA SendFailsStep ==
    ASSUME TypeOK, TypeOK', ConsoleInv, NEW c \in Commands, SendFails(c)
    PROVE  ConsoleInv'
<1>1. at[c] = "send" /\ todo[c] # <<>> /\ Head(todo[c]).op \in {"keys", "move"}
  BY DEF SendFails
<1>2. monitor = c /\ job[c].kind # "capture"
  BY <1>1, Sends
<1>3. PICK w \in Widths : \E n \in 0 .. Len(Script(job[c], w)) : SendingAt(c, n, w)
  BY <1>1, Sends
<1>4. PICK n \in 0 .. Len(Script(job[c], w)) : SendingAt(c, n, w)
  BY <1>3
<1>5. /\ n \in 0 .. (Len(Script(job[c], w)) - 1) /\ Head(todo[c]) = Script(job[c], w)[n + 1]
      /\ StandsAt(c, n, w)
  BY <1>1, <1>2, <1>4, NextCall DEF SendingAt
<1>6. /\ End(c, "failed")
      /\ Apply(c, Head(todo[c])) \/ UNCHANGED <<got, landed, held, axis>>
      /\ interrupted' = (interrupted \/ job[c].kind # "key")
      /\ UNCHANGED <<job, todo, pointer, width, stale>>
  BY DEF SendFails
<1>7. ~interrupted' => held' = {}
  <2> SUFFICES ASSUME ~interrupted' PROVE held' = {}
    OBVIOUS
  <2>1. ~interrupted /\ interrupted' = interrupted /\ job[c].kind = "key" /\ job'[c].kind = "key"
    BY <1>6 DEF TypeOK
  <2>2. KeyAt(c, n) /\ Script(job[c], w) = Chord(job[c].keys)
    BY <1>5, <2>1 DEF StandsAt, Script
  <2>3. CASE Apply(c, Head(todo[c]))
    <3>1. /\ n \in 0 .. (Len(Chord(job[c].keys)) - 1) /\ job' = job
          /\ Apply(c, Chord(job[c].keys)[n + 1]) /\ Chord(job[c].keys)[n + 1].op # "refused"
      BY <1>1, <1>5, <1>6, <2>2, <2>3
    <3>2. KeyAt(c, n + 1)'
      BY <2>1, <2>2, <3>1, KeyAdvances
    <3> QED
      BY <3>2 DEF KeyAt
  <2>4. CASE UNCHANGED <<got, landed, held, axis>>
    BY <2>1, <2>2, <2>4 DEF KeyAt
  <2> QED
    BY <1>6, <2>3, <2>4
<1>8. CommandInv(c)'
  BY <1>6, CommandEnds
<1>9. Frame(c)
  BY <1>2, <1>6 DEF Frame, Apply, End, TypeOK
<1>10. at'[c] = "done" /\ monitor' = Nobody
  BY <1>2, <1>6 DEF End, TypeOK
<1> QED
  BY <1>2, <1>7, <1>8, <1>9, <1>10, OneSteps

LEMMA RefuseStep ==
    ASSUME TypeOK, TypeOK', ConsoleInv, NEW c \in Commands, Refuse(c)
    PROVE  ConsoleInv'
<1>1. at[c] = "send" /\ todo[c] = Rejection /\ todo[c] # <<>> /\ Head(todo[c]).op = "refused"
  BY DEF Refuse, Rejection
<1>2. monitor = c /\ job[c].kind # "capture"
  BY <1>1, Sends
<1>3. PICK w \in Widths : \E n \in 0 .. Len(Script(job[c], w)) : SendingAt(c, n, w)
  BY <1>1, Sends
<1>4. PICK n \in 0 .. Len(Script(job[c], w)) : SendingAt(c, n, w)
  BY <1>3
<1>5. /\ n \in 0 .. (Len(Script(job[c], w)) - 1) /\ Head(todo[c]) = Script(job[c], w)[n + 1]
      /\ StandsAt(c, n, w)
  BY <1>1, <1>2, <1>4, NextCall DEF SendingAt
<1>6. /\ ~interrupted => held = {}
      /\ job[c].kind \in {"text", "key"} => got[c] = <<>>
  BY <1>1, <1>2, <1>5, ScriptRefused
<1>7. /\ End(c, "refused")
      /\ UNCHANGED <<job, todo, got, landed, held, axis, pointer, width, stale, interrupted>>
  BY DEF Refuse
<1>8. CommandInv(c)'
  BY <1>6, <1>7, CommandEnds
<1>9. Frame(c)
  BY <1>2, <1>7 DEF Frame, End, TypeOK
<1>10. at'[c] = "done" /\ monitor' = Nobody
  BY <1>2, <1>7 DEF End, TypeOK
<1> QED
  BY <1>2, <1>6, <1>7, <1>8, <1>9, <1>10, OneSteps

LEMMA FinishStep ==
    ASSUME TypeOK, TypeOK', ConsoleInv, NEW c \in Commands, Finish(c)
    PROVE  ConsoleInv'
<1>1. at[c] = "send" /\ todo[c] = <<>>
  BY DEF Finish
<1>2. monitor = c /\ job[c].kind # "capture"
  BY <1>1, Sends
<1>3. PICK w \in Widths : \E n \in 0 .. Len(Script(job[c], w)) : SendingAt(c, n, w)
  BY <1>1, Sends
<1>4. PICK n \in 0 .. Len(Script(job[c], w)) : SendingAt(c, n, w)
  BY <1>3
<1>5. /\ n = Len(Script(job[c], w)) /\ StandsAt(c, n, w)
      /\ n > 0 => Script(job[c], w)[n].op # "refused"
  BY <1>1, <1>2, <1>4, NextCall DEF SendingAt
<1>6. ~interrupted => held = {} /\ Arrived(c)
  BY <1>2, <1>5, ScriptEnds
<1>7. /\ End(c, "ok")
      /\ UNCHANGED <<job, todo, got, landed, held, axis, pointer, width, stale, interrupted>>
  BY DEF Finish
<1>8. ~interrupted' => Arrived(c)'
  BY <1>6, <1>7 DEF Arrived, Struck
<1>9. CommandInv(c)'
  BY <1>7, <1>8, CommandEnds
<1>10. Frame(c)
  BY <1>2, <1>7 DEF Frame, End, TypeOK
<1>11. at'[c] = "done" /\ monitor' = Nobody
  BY <1>2, <1>7 DEF End, TypeOK
<1> QED
  BY <1>2, <1>6, <1>7, <1>9, <1>10, <1>11, OneSteps

LEMMA GuestReadsAxisStep ==
    ASSUME TypeOK, ConsoleInv, GuestReadsAxis
    PROVE  ConsoleInv'
<1>1. /\ pointer' = axis
      /\ UNCHANGED <<job, at, todo, result, got, landed, monitor, held, axis, width, stale, interrupted>>
  BY DEF GuestReadsAxis, cmdVars
<1>2. ASSUME NEW c \in Commands PROVE CommandInv(c)'
  <2>1. ASSUME NEW n, NEW w, StandsAt(c, n, w) PROVE StandsAt(c, n, w)'
    BY <1>1, <2>1 DEF StandsAt, TextAt, KeyAt, ClickAt, Struck
  <2>2. Sending(c) => Sending(c)'
    BY <1>1, <2>1 DEF Sending, SendingAt
  <2>3. Arrived(c) => Arrived(c)'
    BY <1>1 DEF Arrived, Struck
  <2> QED
    BY <1>1, <2>2, <2>3 DEF ConsoleInv, CommandInv
<1> QED
  BY <1>1, <1>2 DEF ConsoleInv, Control

LEMMA GuestResizesStep ==
    ASSUME TypeOK, ConsoleInv, NEW v \in Widths, GuestResizes(v)
    PROVE  ConsoleInv'
<1>1. /\ stale' = stale \cup {c \in Commands : at[c] = "send"}
      /\ UNCHANGED <<job, at, todo, result, got, landed, monitor, held, axis, pointer, interrupted>>
  BY DEF GuestResizes, cmdVars
<1>2. ASSUME NEW c \in Commands PROVE CommandInv(c)'
  <2>1. ASSUME NEW n, NEW w, StandsAt(c, n, w) PROVE StandsAt(c, n, w)'
    BY <1>1, <2>1 DEF StandsAt, TextAt, KeyAt, ClickAt, Struck
  <2>2. at[c] = "send" => c \in stale'
    BY <1>1
  <2>3. at[c] = "send" /\ Sending(c) => Sending(c)'
    BY <1>1, <2>1, <2>2 DEF Sending, SendingAt
  <2>4. Arrived(c) => Arrived(c)'
    BY <1>1 DEF Arrived, Struck
  <2> QED
    BY <1>1, <2>3, <2>4 DEF ConsoleInv, CommandInv
<1> QED
  BY <1>1, <1>2 DEF ConsoleInv, Control

LEMMA OnlyClicksSettle ==
    ASSUME NEW j \in Jobs, j.kind # "capture", NEW w \in Widths,
           NEW n \in 0 .. (Len(Script(j, w)) - 1), Script(j, w)[n + 1].op = "settle"
    PROVE  j.kind = "click"
<1>1. j.kind \in {"text", "key", "click"}
  BY JobTyped
<1>2. CASE j.kind = "text"
  <2>1. IsSequence(j.text)
    BY <1>2, JobTyped
  <2>2. n \in 0 .. (Len(Translate(j.text)) - 1) /\ Translate(j.text)[n + 1].op = "settle"
    BY <1>2 DEF Script
  <2>3. CASE Translate(j.text) = Rejection
    <3>1. n + 1 = 1
      BY <2>2, <2>3, RejectionTyped
    <3> QED
      BY <2>2, <2>3, <3>1, RejectionTyped
  <2>4. CASE Translate(j.text) # Rejection
    <3>1. Len(j.text) \in Nat
      BY <2>1 DEF IsSequence
    <3>2. n + 1 \in 1 .. 2 * Len(j.text) /\ Translate(j.text)[n + 1] = TextCall(j.text, n + 1)
      BY <2>1, <2>2, <2>4, <3>1, TextScript
    <3> QED
      BY <2>2, <3>2 DEF TextCall, Keys
  <2> QED
    BY <2>3, <2>4
<1>3. CASE j.kind = "key"
  <2>1. IsSequence(j.keys)
    BY <1>3, JobTyped
  <2>2. n \in 0 .. (Len(Chord(j.keys)) - 1) /\ Chord(j.keys)[n + 1].op = "settle"
    BY <1>3 DEF Script
  <2>3. CASE Chord(j.keys) = Rejection
    <3>1. n + 1 = 1
      BY <2>2, <2>3, RejectionTyped
    <3> QED
      BY <2>2, <2>3, <3>1, RejectionTyped
  <2>4. CASE Chord(j.keys) # Rejection
    <3> DEFINE one == Keys(Down(j.keys) \o Up(j.keys))
    <3>1. Chord(j.keys) = <<one>> /\ one.op = "keys"
      BY <2>1, <2>4, ChordScript DEF Keys
    <3> HIDE DEF one
    <3>2. n + 1 = 1
      BY <2>2, <3>1
    <3> QED
      BY <2>2, <3>1, <3>2
  <2> QED
    BY <2>3, <2>4
<1> QED
  BY <1>1, <1>2, <1>3

LEMMA SettleStep ==
    ASSUME TypeOK, TypeOK', ConsoleInv, NEW c \in Commands, Settle(c)
    PROVE  ConsoleInv'
<1>1. at[c] = "send" /\ todo[c] # <<>> /\ Head(todo[c]).op = "settle" /\ pointer = axis
  BY DEF Settle
<1>2. monitor = c /\ result[c] = "none" /\ job[c].kind # "capture"
  BY <1>1, Sends
<1>3. PICK w \in Widths : \E n \in 0 .. Len(Script(job[c], w)) : SendingAt(c, n, w)
  BY <1>1, Sends
<1>4. PICK n \in 0 .. Len(Script(job[c], w)) : SendingAt(c, n, w)
  BY <1>3
<1>5. /\ n \in 0 .. (Len(Script(job[c], w)) - 1) /\ Head(todo[c]) = Script(job[c], w)[n + 1]
      /\ StandsAt(c, n, w)
  BY <1>1, <1>2, <1>4, NextCall DEF SendingAt
<1>6. /\ todo' = [todo EXCEPT ![c] = Tail(@)]
      /\ UNCHANGED <<job, at, result, got, landed, monitor, held, axis, pointer, width, stale, interrupted>>
  BY DEF Settle, deviceVars
<1>7. job[c].kind = "click" /\ job'[c].kind = "click"
  BY <1>1, <1>2, <1>5, <1>6, OnlyClicksSettle DEF TypeOK
<1>8. ClickAt(c, n, w) /\ Script(job[c], w) = Click(job[c], w)
  BY <1>5, <1>7 DEF StandsAt, Script
<1>9. n \in 0 .. (Len(Click(job[c], w)) - 1) /\ Click(job[c], w)[n + 1].op = "settle"
  BY <1>1, <1>5, <1>8
<1>10. ClickAt(c, n + 1, w)'
  BY <1>1, <1>6, <1>7, <1>8, <1>9, ClickSettles
<1>11. StandsAt(c, n + 1, w)'
  BY <1>7, <1>10 DEF StandsAt
<1>12. CommandInv(c)'
  BY <1>1, <1>2, <1>4, <1>6, <1>11, Continues
<1>13. Frame(c)
  BY <1>6 DEF Frame, TypeOK
<1> QED
  BY <1>1, <1>2, <1>6, <1>12, <1>13, OneSteps

LEMMA ConsoleStep == TypeOK /\ TypeOK' /\ ConsoleInv /\ [Next]_vars => ConsoleInv'
<1> SUFFICES ASSUME TypeOK, TypeOK', ConsoleInv, [Next]_vars PROVE ConsoleInv'
  OBVIOUS
<1>1. ASSUME NEW c \in Commands, Step(c) PROVE ConsoleInv'
  BY <1>1, UnreachableStep, ConnectStep, ScreendumpStep, ScreendumpFailsStep, SendStep,
     SendFailsStep, RefuseStep, SettleStep, FinishStep DEF Step
<1>2. ASSUME Guest PROVE ConsoleInv'
  BY <1>2, GuestReadsAxisStep, GuestResizesStep DEF Guest
<1>3. CASE UNCHANGED vars
  <2>1. UNCHANGED <<job, at, todo, result, got, landed, monitor, held, axis, pointer, width, stale,
                    interrupted>>
    BY <1>3 DEF vars, cmdVars, deviceVars
  <2>2. ASSUME NEW c \in Commands PROVE CommandInv(c)'
    <3>1. CommandInv(c)
      BY DEF ConsoleInv
    <3>2. interrupted' \in BOOLEAN
      BY DEF TypeOK
    <3> QED
      BY <2>1, <3>1, <3>2, OthersStay
  <2> QED
    BY <2>1, <2>2 DEF ConsoleInv, Control
<1> QED
  BY <1>1, <1>2, <1>3 DEF Next

\* Every command that is sending stands at a call of its script, and what the
\* guest has seen, and what is held, are what that place in the script says; a
\* command that has ended has left nothing behind.
THEOREM ConsoleInvariant == Spec => []ConsoleInv
<1>1. Init => ConsoleInv
  BY NobodyIsNone DEF Init, ConsoleInv, Control, CommandInv
<1>2. TypeOK /\ TypeOK' /\ ConsoleInv /\ [Next]_vars => ConsoleInv'
  BY ConsoleStep
<1> QED
  BY <1>1, <1>2, ConsoleTypeCorrect, PTL DEF Spec

\* Between commands no key and no button is down, unless one of the several calls
\* of a text or a click failed.
THEOREM NothingStaysHeld == Spec => []NothingLeftHeld
<1>1. ConsoleInv => NothingLeftHeld
  BY DEF ConsoleInv, Control, NothingLeftHeld
<1> QED
  BY <1>1, ConsoleInvariant, PTL

\* A text with one character that has no key, or a chord with one key that has no
\* name, sends nothing.
THEOREM RefusalIsWhole == Spec => []RefusedSendsNothing
<1>1. TypeOK /\ ConsoleInv => RefusedSendsNothing
  BY DEF TypeOK, ConsoleInv, CommandInv, RefusedSendsNothing
<1> QED
  BY <1>1, ConsoleTypeCorrect, ConsoleInvariant, PTL

\* The text and the chords that are sent arrive, if no text holds one of the three
\* characters whose keys are elsewhere on the guest's layout.
THEOREM KeystrokesArrive ==
    ASSUME \A j \in Jobs : j.kind = "text" => OnLayout(j.text)
    PROVE  Spec => []KeysArrive
<1>1. TypeOK /\ ConsoleInv => KeysArrive
  <2> SUFFICES ASSUME TypeOK, ConsoleInv, NEW c \in Commands, result[c] = "ok", ~interrupted
               PROVE  /\ job[c].kind = "text" => Typed(got[c]) = job[c].text
                      /\ job[c].kind = "key" => got[c][Len(got[c])] = Struck(c)
    BY DEF KeysArrive
  <2>1. at[c] = "done"
    BY DEF TypeOK, ConsoleInv, CommandInv
  <2>2. Arrived(c) /\ job[c] \in Jobs
    BY <2>1 DEF TypeOK, ConsoleInv, CommandInv
  <2> QED
    BY <2>2 DEF Arrived
<1> QED
  BY <1>1, ConsoleTypeCorrect, ConsoleInvariant, PTL

\* A button goes down within a pixel of where it was asked for, on every screen
\* that has no more than Widest pixels in a row.
THEOREM ClicksLand ==
    ASSUME Widths \subseteq 1 .. Widest
    PROVE  Spec => []ClickLands
<1>1. TypeOK /\ ConsoleInv => ClickLands
  <2> SUFFICES ASSUME TypeOK, ConsoleInv,
                      NEW c \in Commands, result[c] = "none", landed[c] >= 0, c \notin stale
               PROVE  landed[c] - Clipped(job[c].x, width) \in -1 .. 1
    BY DEF ClickLands, Clipped
  <2>1. landed[c] # -1
    BY DEF TypeOK
  <2>2. at[c] = "send"
    BY <2>1 DEF TypeOK, ConsoleInv, CommandInv
  <2>3. job[c].kind # "capture"
    BY <2>2, Sends
  <2>4. PICK w \in Widths : \E n \in 0 .. Len(Script(job[c], w)) : SendingAt(c, n, w)
    BY <2>2, Sends
  <2>5. PICK n \in 0 .. Len(Script(job[c], w)) : SendingAt(c, n, w)
    BY <2>4
  <2>6. StandsAt(c, n, w) /\ w = width
    BY <2>5 DEF SendingAt
  <2>7. job[c].kind = "click"
    BY <2>1, <2>3, <2>6, JobTyped DEF TypeOK, StandsAt, TextAt, KeyAt
  <2>8. landed[c] = PixelAt(Scaled(job[c].x, w), w)
    BY <2>1, <2>6, <2>7 DEF StandsAt, ClickAt
  <2>9. job[c].x \in Int /\ w \in 1 .. Widest
    BY <2>7, JobTyped DEF TypeOK
  <2>10. PixelAt(Scaled(job[c].x, w), w) - Clipped(job[c].x, w) \in -1 .. 1
    BY <2>9, PixelNear
  <2> QED
    BY <2>6, <2>8, <2>10
<1> QED
  BY <1>1, ConsoleTypeCorrect, ConsoleInvariant, PTL

-----------------------------------------------------------------------------
(* A call.                                                                 *)

\* Which action a call was made by.
LEMMA CalledBy ==
    ASSUME [CallNext]_call, call' # call
    PROVE  /\ call'.op = "plan" => PlanTransfer
           /\ call'.op = "authorise" => AuthoriseTransfer
           /\ call'.op = "receive" => ReceiveFrames
           /\ call'.op = "launch" => LaunchVm
           /\ call'.op = "encode" => EncodeBytes
           /\ call'.op = "decode" => DecodeText
<1>1. PlanTransfer => call'.op = "plan"
  BY DEF PlanTransfer
<1>2. AuthoriseTransfer => call'.op = "authorise"
  BY DEF AuthoriseTransfer
<1>3. ReceiveFrames => call'.op = "receive"
  BY DEF ReceiveFrames
<1>4. EncodeBytes => call'.op = "encode"
  BY DEF EncodeBytes
<1>5. DecodeText => call'.op = "decode"
  BY DEF DecodeText
<1>6. Screenshot => call'.op = "screenshot"
  BY DEF Screenshot
<1>7. CaptureInGuest => call'.op = "screenshot"
  BY DEF CaptureInGuest
<1>8. LaunchVm => call'.op = "launch"
  BY DEF LaunchVm
<1>9. Return => call'.op = "none"
  BY DEF Return, Idle
<1> QED
  BY <1>1, <1>2, <1>3, <1>4, <1>5, <1>6, <1>7, <1>8, <1>9 DEF CallNext

-----------------------------------------------------------------------------
(* The command line of a VM is put together from blocks.  What the proofs  *)
(* need of a block, and of the line so far, is which names and files it    *)
(* stays within, and that each use follows a declaration, in the block or  *)
(* among the names that are expected of the line before it.                *)

IsSeq(s) == \E S : s \in Seq(S)

\* The names, the boot places and the files an argument may have at most.
Within(a, D, U, B, F) ==
    a.declares \subseteq D /\ a.uses \subseteq U /\ a.boot \subseteq B /\ a.opens \subseteq F

Apart(a, b) ==
    /\ a.declares \cap b.declares = {}
    /\ a.uses \cap b.uses = {}
    /\ a.boot \cap b.boot = {}

\* A section of the line whose uses are declared earlier in it, or expected in N.
Section(s, N, D, U, B, F) ==
    /\ IsSeq(s)
    /\ \A i \in 1 .. Len(s) : Within(s[i], D, U, B, F)
    /\ \A i \in 1 .. Len(s) : \A id \in s[i].uses :
          id \in N \/ \E j \in 1 .. (i - 1) : id \in s[j].declares
    /\ \A i, j \in 1 .. Len(s) : i # j => Apart(s[i], s[j])

Provides(s, N) == \A id \in N : \E i \in 1 .. Len(s) : id \in s[i].declares

\* One sequence and another after it.
IsJoin(c, s, t) ==
    /\ IsSeq(c)
    /\ Len(s) \in Nat /\ Len(t) \in Nat /\ Len(c) = Len(s) + Len(t)
    /\ \A i \in 1 .. Len(s) : c[i] = s[i]
    /\ \A i \in 1 .. Len(t) : c[Len(s) + i] = t[i]
    /\ \A k \in 1 .. Len(c) :
          \/ k \in 1 .. Len(s)
          \/ \E i \in 1 .. Len(t) : k = Len(s) + i

LEMMA JoinAt ==
    ASSUME NEW s, NEW t, IsSeq(s), IsSeq(t)
    PROVE  IsJoin(s \o t, s, t)
<1>1. PICK S : s \in Seq(S)
  BY DEF IsSeq
<1>2. PICK T : t \in Seq(T)
  BY DEF IsSeq
<1> DEFINE V == S \cup T
<1>3. s \in Seq(V) /\ t \in Seq(V)
  BY <1>1, <1>2, SeqMonotonic
<1> DEFINE c == s \o t
<1>4. /\ c \in Seq(V)
      /\ Len(c) = Len(s) + Len(t)
      /\ \A i \in 1 .. Len(s) + Len(t) : c[i] = IF i <= Len(s) THEN s[i] ELSE t[i - Len(s)]
  BY <1>3, ConcatProperties
<1>5. Len(s) \in Nat /\ Len(t) \in Nat
  BY <1>3
<1>6. IsSeq(c)
  BY <1>4 DEF IsSeq
<1> HIDE DEF c
<1>7. \A i \in 1 .. Len(s) : c[i] = s[i]
  BY <1>4, <1>5
<1>8. \A i \in 1 .. Len(t) : c[Len(s) + i] = t[i]
  <2> TAKE i \in 1 .. Len(t)
  <2>1. Len(s) + i \in 1 .. Len(s) + Len(t) /\ ~(Len(s) + i <= Len(s)) /\ Len(s) + i - Len(s) = i
    BY <1>5
  <2> QED
    BY <1>4, <2>1
<1>9. ASSUME NEW k \in 1 .. Len(c)
      PROVE  k \in 1 .. Len(s) \/ \E i \in 1 .. Len(t) : k = Len(s) + i
  <2>1. CASE k <= Len(s)
    BY <2>1, <1>5
  <2>2. CASE ~(k <= Len(s))
    <3>1. k - Len(s) \in 1 .. Len(t) /\ k = Len(s) + (k - Len(s))
      BY <2>2, <1>4, <1>5
    <3> QED
      BY <3>1
  <2> QED
    BY <2>1, <2>2
<1>10. IsJoin(c, s, t)
  BY <1>4, <1>5, <1>6, <1>7, <1>8, <1>9 DEF IsJoin
<1> QED
  BY <1>10 DEF c

LEMMA Joins ==
    ASSUME NEW s, NEW t, NEW N, NEW M, NEW D, NEW U, NEW B, NEW F,
           NEW D2, NEW U2, NEW B2, NEW F2,
           Section(s, N, D, U, B, F), Section(t, M, D2, U2, B2, F2), Provides(s, M),
           D \cap D2 = {}, U \cap U2 = {}, B \cap B2 = {}
    PROVE  Section(s \o t, N, D \cup D2, U \cup U2, B \cup B2, F \cup F2)
<1>1. IsJoin(s \o t, s, t)
  BY JoinAt DEF Section
<1> DEFINE c == s \o t
<1>2. IsJoin(c, s, t)
  BY <1>1
<1> HIDE DEF c
<1>3. ASSUME NEW k \in 1 .. Len(c)
      PROVE  Within(c[k], D \cup D2, U \cup U2, B \cup B2, F \cup F2)
  <2>1. CASE k \in 1 .. Len(s)
    <3>1. c[k] = s[k] /\ Within(s[k], D, U, B, F)
      BY <2>1, <1>2 DEF IsJoin, Section
    <3> QED
      BY <3>1 DEF Within
  <2>2. ASSUME NEW i \in 1 .. Len(t), k = Len(s) + i
        PROVE  Within(c[k], D \cup D2, U \cup U2, B \cup B2, F \cup F2)
    <3>1. c[k] = t[i] /\ Within(t[i], D2, U2, B2, F2)
      BY <2>2, <1>2 DEF IsJoin, Section
    <3> QED
      BY <3>1 DEF Within
  <2> QED
    BY <2>1, <2>2, <1>2 DEF IsJoin
<1>4. ASSUME NEW k \in 1 .. Len(c), NEW id \in c[k].uses
      PROVE  id \in N \/ \E j \in 1 .. (k - 1) : id \in c[j].declares
  <2>1. CASE k \in 1 .. Len(s)
    <3>1. c[k] = s[k]
      BY <2>1, <1>2 DEF IsJoin
    <3>2. id \in N \/ \E j \in 1 .. (k - 1) : id \in s[j].declares
      BY <2>1, <3>1 DEF Section
    <3>3. ASSUME NEW j \in 1 .. (k - 1), id \in s[j].declares
          PROVE  id \in c[j].declares
      <4>1. j \in 1 .. Len(s)
        BY <2>1, <1>2 DEF IsJoin
      <4> QED
        BY <4>1, <3>3, <1>2 DEF IsJoin
    <3> QED
      BY <3>2, <3>3
  <2>2. ASSUME NEW i \in 1 .. Len(t), k = Len(s) + i
        PROVE  \E j \in 1 .. (k - 1) : id \in c[j].declares
    <3>1. c[k] = t[i]
      BY <2>2, <1>2 DEF IsJoin
    <3>2. id \in M \/ \E j \in 1 .. (i - 1) : id \in t[j].declares
      BY <3>1 DEF Section
    <3>3. CASE id \in M
      <4>1. PICK j \in 1 .. Len(s) : id \in s[j].declares
        BY <3>3 DEF Provides
      <4>2. c[j] = s[j]
        BY <4>1, <1>2 DEF IsJoin
      <4>3. j \in 1 .. (k - 1)
        BY <2>2, <1>2 DEF IsJoin
      <4> QED
        BY <4>1, <4>2, <4>3
    <3>4. ASSUME NEW j \in 1 .. (i - 1), id \in t[j].declares
          PROVE  \E h \in 1 .. (k - 1) : id \in c[h].declares
      <4>1. j \in 1 .. Len(t) /\ Len(s) + j \in 1 .. (k - 1)
        BY <2>2, <1>2 DEF IsJoin
      <4>2. c[Len(s) + j] = t[j]
        BY <4>1, <1>2 DEF IsJoin
      <4> QED
        BY <4>1, <4>2, <3>4
    <3> QED
      BY <3>2, <3>3, <3>4
  <2> QED
    BY <2>1, <2>2, <1>2 DEF IsJoin
<1>5. ASSUME NEW k \in 1 .. Len(c), NEW h \in 1 .. Len(c), k # h
      PROVE  Apart(c[k], c[h])
  <2>1. ASSUME NEW i \in 1 .. Len(s), NEW j \in 1 .. Len(t)
        PROVE  Apart(s[i], t[j]) /\ Apart(t[j], s[i])
    <3>1. Within(s[i], D, U, B, F) /\ Within(t[j], D2, U2, B2, F2)
      BY DEF Section
    <3> QED
      BY <3>1 DEF Within, Apart
  <2>2. CASE k \in 1 .. Len(s) /\ h \in 1 .. Len(s)
    <3>1. c[k] = s[k] /\ c[h] = s[h]
      BY <2>2, <1>2 DEF IsJoin
    <3>2. Apart(s[k], s[h])
      BY <2>2, <1>5 DEF Section
    <3> QED
      BY <3>1, <3>2
  <2>3. ASSUME k \in 1 .. Len(s), NEW j \in 1 .. Len(t), h = Len(s) + j
        PROVE  Apart(c[k], c[h])
    <3>1. c[k] = s[k] /\ c[h] = t[j]
      BY <2>3, <1>2 DEF IsJoin
    <3> QED
      BY <3>1, <2>1, <2>3
  <2>4. ASSUME h \in 1 .. Len(s), NEW i \in 1 .. Len(t), k = Len(s) + i
        PROVE  Apart(c[k], c[h])
    <3>1. c[h] = s[h] /\ c[k] = t[i]
      BY <2>4, <1>2 DEF IsJoin
    <3> QED
      BY <3>1, <2>1, <2>4
  <2>5. ASSUME NEW i \in 1 .. Len(t), k = Len(s) + i, NEW j \in 1 .. Len(t), h = Len(s) + j
        PROVE  Apart(c[k], c[h])
    <3>1. c[k] = t[i] /\ c[h] = t[j]
      BY <2>5, <1>2 DEF IsJoin
    <3>2. i # j
      BY <2>5, <1>5
    <3>3. Apart(t[i], t[j])
      BY <3>2 DEF Section
    <3> QED
      BY <3>1, <3>3
  <2>6. /\ k \in 1 .. Len(s) \/ \E i \in 1 .. Len(t) : k = Len(s) + i
        /\ h \in 1 .. Len(s) \/ \E j \in 1 .. Len(t) : h = Len(s) + j
    BY <1>2 DEF IsJoin
  <2> QED
    BY <2>2, <2>3, <2>4, <2>5, <2>6
<1>6. IsSeq(c)
  BY <1>2 DEF IsJoin
<1>7. Section(c, N, D \cup D2, U \cup U2, B \cup B2, F \cup F2)
  BY <1>3, <1>4, <1>5, <1>6 DEF Section
<1> QED
  BY <1>7 DEF c

LEMMA StillProvides ==
    ASSUME NEW s, NEW t, NEW N, IsSeq(s), IsSeq(t), Provides(s, N)
    PROVE  Provides(s \o t, N)
<1>1. IsJoin(s \o t, s, t)
  BY JoinAt
<1> DEFINE c == s \o t
<1>2. IsJoin(c, s, t)
  BY <1>1
<1> HIDE DEF c
<1>3. ASSUME NEW id \in N PROVE \E k \in 1 .. Len(c) : id \in c[k].declares
  <2>1. PICK i \in 1 .. Len(s) : id \in s[i].declares
    BY DEF Provides
  <2>2. i \in 1 .. Len(c) /\ c[i] = s[i]
    BY <1>2 DEF IsJoin
  <2> QED
    BY <2>1, <2>2
<1>4. Provides(c, N)
  BY <1>3 DEF Provides
<1> QED
  BY <1>4 DEF c

-----------------------------------------------------------------------------
(* The blocks of a command line.                                           *)

\* What an argument declares, uses, opens, and its boot place.
Has(a, D, U, B, F) == a.declares = D /\ a.uses = U /\ a.boot = B /\ a.opens = F

LEMMA DeclaresHas == ASSUME NEW D PROVE Has(Declares(D), D, {}, {}, {})
  BY SMT DEF Has, Declares, Argument

LEMMA OpensHas == ASSUME NEW D, NEW f PROVE Has(Opens(D, f), D, {}, {}, {f})
  BY SMT DEF Has, Opens, Argument

LEMMA UsesHas == ASSUME NEW U PROVE Has(Uses(U), {}, U, {}, {})
  BY SMT DEF Has, Uses, Argument

LEMMA DeclaresUsingHas ==
    ASSUME NEW D, NEW U PROVE Has([Declares(D) EXCEPT !.uses = U], D, U, {}, {})
  BY SMT DEF Has, Declares, Argument

LEMMA DeclaresOpeningHas ==
    ASSUME NEW D, NEW F PROVE Has([Declares(D) EXCEPT !.opens = F], D, {}, {}, F)
  BY SMT DEF Has, Declares, Argument

LEMMA UsesBootingHas ==
    ASSUME NEW U, NEW B PROVE Has([Uses(U) EXCEPT !.boot = B], {}, U, B, {})
  BY SMT DEF Has, Uses, Argument

LEMMA EmptyBlock == ASSUME NEW N, NEW D, NEW U, NEW B, NEW F PROVE Section(<<>>, N, D, U, B, F)
<1>1. <<>> \in Seq({}) /\ Len(<<>>) = 0
  OBVIOUS
<1> QED
  BY <1>1 DEF Section, IsSeq

LEMMA MachineBlock ==
    /\ Section(MachineArgs, {}, {"ide.0", "ide.1"}, {}, {}, {})
    /\ Provides(MachineArgs, {"ide.0", "ide.1"})
<1> DEFINE a == Declares({"ide.0", "ide.1"})
           s == <<a>>
<1>1. s \in Seq({a}) /\ Len(s) = 1 /\ s[1] = a
  OBVIOUS
<1>2. Has(a, {"ide.0", "ide.1"}, {}, {}, {})
  BY DeclaresHas
<1>3. IsSeq(s)
  BY <1>1 DEF IsSeq
<1> HIDE DEF a, s
<1>4. Section(s, {}, {"ide.0", "ide.1"}, {}, {}, {}) /\ Provides(s, {"ide.0", "ide.1"})
  BY <1>1, <1>2, <1>3 DEF Section, Has, Within, Apart, Provides
<1> QED
  BY <1>4 DEF s, a, MachineArgs

LEMMA FirmwareBlock ==
    ASSUME NEW config
    PROVE  Section(FirmwareArgs(config), {}, {}, {}, {},
                 {OVMF_CODE, InStateDir(config, OVMF_VARS)})
<1>1. CASE config.firmware # "uefi"
  BY <1>1, EmptyBlock DEF FirmwareArgs
<1>2. CASE config.firmware = "uefi"
  <2> DEFINE nvram == InStateDir(config, OVMF_VARS)
             a == Opens({}, OVMF_CODE)
             b == Opens({}, nvram)
             s == <<a, b>>
  <2>1. s \in Seq({a, b}) /\ Len(s) = 2 /\ s[1] = a /\ s[2] = b
    OBVIOUS
  <2>2. Has(a, {}, {}, {}, {OVMF_CODE}) /\ Has(b, {}, {}, {}, {nvram})
    BY OpensHas
  <2>3. IsSeq(s)
    BY <2>1 DEF IsSeq
  <2>4. FirmwareArgs(config) = s
    BY <1>2 DEF FirmwareArgs
  <2> HIDE DEF nvram, a, b, s
  <2>5. Section(s, {}, {}, {}, {}, {OVMF_CODE, nvram})
    BY <2>1, <2>2, <2>3 DEF Section, Has, Within, Apart
  <2> QED
    BY <2>4, <2>5 DEF nvram
<1> QED
  BY <1>1, <1>2

LEMMA DiskBlock ==
    ASSUME NEW config
    PROVE  Section(DiskArgs(config), {}, {"disk0.file", "disk0"}, {"disk0.file", "disk0"},
                 {1}, {config.disk})
<1> DEFINE a == Opens({"disk0.file"}, config.disk)
           b == [Declares({"disk0"}) EXCEPT !.uses = {"disk0.file"}]
           c == [Uses({"disk0"}) EXCEPT !.boot = {1}]
           s == <<a, b, c>>
<1>1. s \in Seq({a, b, c}) /\ Len(s) = 3 /\ s[1] = a /\ s[2] = b /\ s[3] = c
  OBVIOUS
<1>2. /\ Has(a, {"disk0.file"}, {}, {}, {config.disk})
      /\ Has(b, {"disk0"}, {"disk0.file"}, {}, {})
      /\ Has(c, {}, {"disk0"}, {1}, {})
  BY OpensHas, DeclaresUsingHas, UsesBootingHas
<1>3. IsSeq(s)
  BY <1>1 DEF IsSeq
<1>4. DiskArgs(config) = s
  BY DEF DiskArgs
<1> HIDE DEF a, b, c, s
<1>5. Section(s, {}, {"disk0.file", "disk0"}, {"disk0.file", "disk0"}, {1}, {config.disk})
  BY <1>1, <1>2, <1>3 DEF Section, Has, Within, Apart
<1> QED
  BY <1>4, <1>5

LEMMA CdBlock ==
    ASSUME NEW iso, NEW id, NEW bus, NEW boot, id # bus
    PROVE  Section(CdArgs(iso, id, bus, boot), {bus}, {id}, {id, bus}, boot, iso)
<1>1. CASE iso = {}
  BY <1>1, EmptyBlock DEF CdArgs
<1>2. CASE iso # {}
  <2> DEFINE a == [Declares({id}) EXCEPT !.opens = iso]
             b == [Uses({id, bus}) EXCEPT !.boot = boot]
             s == <<a, b>>
  <2>1. s \in Seq({a, b}) /\ Len(s) = 2 /\ s[1] = a /\ s[2] = b
    OBVIOUS
  <2>2. Has(a, {id}, {}, {}, iso) /\ Has(b, {}, {id, bus}, boot, {})
    BY DeclaresOpeningHas, UsesBootingHas
  <2>3. IsSeq(s)
    BY <2>1 DEF IsSeq
  <2>4. CdArgs(iso, id, bus, boot) = s
    BY <1>2 DEF CdArgs
  <2> HIDE DEF a, b, s
  <2>5. Section(s, {bus}, {id}, {id, bus}, boot, iso)
    BY <2>1, <2>2, <2>3 DEF Section, Has, Within, Apart
  <2> QED
    BY <2>4, <2>5
<1> QED
  BY <1>1, <1>2

\* A device, declared and used.
LEMMA DeviceBlock ==
    ASSUME NEW id
    PROVE  Section(<<Declares({id}), Uses({id})>>, {}, {id}, {id}, {}, {})
<1> DEFINE a == Declares({id})
           b == Uses({id})
           s == <<a, b>>
<1>1. s \in Seq({a, b}) /\ Len(s) = 2 /\ s[1] = a /\ s[2] = b
  OBVIOUS
<1>2. Has(a, {id}, {}, {}, {}) /\ Has(b, {}, {id}, {}, {})
  BY DeclaresHas, UsesHas
<1>3. IsSeq(s)
  BY <1>1 DEF IsSeq
<1> HIDE DEF a, b, s
<1>4. Section(s, {}, {id}, {id}, {}, {})
  BY <1>1, <1>2, <1>3 DEF Section, Has, Within, Apart
<1> QED
  BY <1>4 DEF s, a, b

LEMMA ViewerBlock ==
    ASSUME NEW config
    PROVE  Section(ViewerArgs(config), {}, {"spice", "snd0", "hda"}, {"spice", "snd0", "hda"},
                 {}, {SpiceSocket(config)})
<1> DEFINE socket == SpiceSocket(config)
           a == Opens({"spice"}, socket)
           b == [Declares({"snd0"}) EXCEPT !.uses = {"spice"}]
           c == Declares({"hda"})
           d == Uses({"snd0", "hda"})
           s == <<a, b, c, d>>
<1>1. /\ s \in Seq({a, b, c, d}) /\ Len(s) = 4
      /\ s[1] = a /\ s[2] = b /\ s[3] = c /\ s[4] = d
  OBVIOUS
<1>2. /\ Has(a, {"spice"}, {}, {}, {socket})
      /\ Has(b, {"snd0"}, {"spice"}, {}, {})
      /\ Has(c, {"hda"}, {}, {}, {})
      /\ Has(d, {}, {"snd0", "hda"}, {}, {})
  BY OpensHas, DeclaresUsingHas, DeclaresHas, UsesHas
<1>3. IsSeq(s)
  BY <1>1 DEF IsSeq
<1>4. ViewerArgs(config) = s
  BY DEF ViewerArgs
<1> HIDE DEF socket, a, b, c, d, s
<1>5. Section(s, {}, {"spice", "snd0", "hda"}, {"spice", "snd0", "hda"}, {}, {socket})
  BY <1>1, <1>2, <1>3 DEF Section, Has, Within, Apart
<1> QED
  BY <1>4, <1>5 DEF socket

LEMMA ControlBlock ==
    ASSUME NEW config
    PROVE  Section(ControlArgs(config), {}, {"serial0", "qmp"}, {}, {},
                 {InStateDir(config, "serial.log"), InStateDir(config, "qmp.sock")})
<1> DEFINE log == InStateDir(config, "serial.log")
           socket == InStateDir(config, "qmp.sock")
           a == Opens({"serial0"}, log)
           b == Opens({"qmp"}, socket)
           s == <<a, b>>
<1>1. s \in Seq({a, b}) /\ Len(s) = 2 /\ s[1] = a /\ s[2] = b
  OBVIOUS
<1>2. Has(a, {"serial0"}, {}, {}, {log}) /\ Has(b, {"qmp"}, {}, {}, {socket})
  BY OpensHas
<1>3. IsSeq(s)
  BY <1>1 DEF IsSeq
<1>4. ControlArgs(config) = s
  BY DEF ControlArgs
<1> HIDE DEF log, socket, a, b, s
<1>5. Section(s, {}, {"serial0", "qmp"}, {}, {}, {log, socket})
  BY <1>1, <1>2, <1>3 DEF Section, Has, Within, Apart
<1> QED
  BY <1>4, <1>5 DEF log, socket

LEMMA BlocksResolve ==
    ASSUME NEW s, NEW D, NEW U, NEW B, NEW F, Section(s, {}, D, U, B, F)
    PROVE  Resolves(s) /\ FilesOpened(s) \subseteq F
<1>1. PICK S : s \in Seq(S)
  BY DEF Section, IsSeq
<1>2. DOMAIN s = 1 .. Len(s)
  BY <1>1
<1>3. ASSUME NEW i \in DOMAIN s, NEW id \in s[i].uses
      PROVE  \E j \in 1 .. (i - 1) : id \in s[j].declares
  BY <1>2, <1>3 DEF Section
<1>4. ASSUME NEW i \in DOMAIN s, NEW j \in DOMAIN s, i # j PROVE Apart(s[i], s[j])
  BY <1>2, <1>4 DEF Section
<1>5. ASSUME NEW i \in DOMAIN s PROVE s[i].opens \subseteq F
  BY <1>2 DEF Section, Within
<1>6. Resolves(s)
  BY <1>3, <1>4 DEF Resolves, Apart
<1>7. FilesOpened(s) \subseteq F
  BY <1>5 DEF FilesOpened
<1> QED
  BY <1>6, <1>7

\* The files QEMU opens, the ISOs apart.
OwnFiles(config) ==
    {OVMF_CODE, InStateDir(config, OVMF_VARS), config.disk, SpiceSocket(config),
     InStateDir(config, "serial.log"), InStateDir(config, "qmp.sock")}

\* A command line that is whole so far, with the ports P, and a section that fits on to it.
WholeSoFar(s, P, D, U, B, F) == Section(s, {}, D, U, B, F) /\ Provides(s, P)

FitsOn(t, P, D, U, B, D2, U2, B2, F2) ==
    /\ \E M \in SUBSET P : Section(t, M, D2, U2, B2, F2)
    /\ D \cap D2 = {} /\ U \cap U2 = {} /\ B \cap B2 = {}

LEMMA Adds ==
    ASSUME NEW s, NEW t, NEW P, NEW D, NEW U, NEW B, NEW F,
           NEW D2, NEW U2, NEW B2, NEW F2,
           WholeSoFar(s, P, D, U, B, F), FitsOn(t, P, D, U, B, D2, U2, B2, F2)
    PROVE  WholeSoFar(s \o t, P, D \cup D2, U \cup U2, B \cup B2, F \cup F2)
<1>1. PICK M \in SUBSET P : Section(t, M, D2, U2, B2, F2)
  BY DEF FitsOn
<1>2. Section(s, {}, D, U, B, F) /\ Provides(s, P)
  BY DEF WholeSoFar
<1>3. Provides(s, M)
  BY <1>1, <1>2 DEF Provides
<1>4. IsSeq(s) /\ IsSeq(t)
  BY <1>1, <1>2 DEF Section
<1>5. D \cap D2 = {} /\ U \cap U2 = {} /\ B \cap B2 = {}
  BY DEF FitsOn
<1>6. Section(s \o t, {}, D \cup D2, U \cup U2, B \cup B2, F \cup F2)
  BY <1>1, <1>2, <1>3, <1>5, Joins
<1>7. Provides(s \o t, P)
  BY <1>2, <1>4, StillProvides
<1> QED
  BY <1>6, <1>7 DEF WholeSoFar

LEMMA CommandLine ==
    ASSUME NEW config
    PROVE  /\ Resolves(QemuArgs(config))
           /\ FilesOpened(QemuArgs(config))
                 \subseteq OwnFiles(config) \cup config.install_iso \cup config.driver_iso
<1> DEFINE ports == {"ide.0", "ide.1"}
           s1 == MachineArgs
           s2 == s1 \o FirmwareArgs(config)
           s3 == s2 \o DiskArgs(config)
           s4 == s3 \o CdArgs(config.install_iso, "cd0", "ide.0", {2})
           s5 == s4 \o CdArgs(config.driver_iso, "cd1", "ide.1", {})
           s6 == s5 \o NetworkArgs(config)
           s7 == s6 \o PointerArgs
           s8 == s7 \o ViewerArgs(config)
           s9 == s8 \o ControlArgs(config)
           F2 == {OVMF_CODE, InStateDir(config, OVMF_VARS)}
           D3 == ports \cup {"disk0.file", "disk0"}
           U3 == {"disk0.file", "disk0"}
           B3 == {1}
           F3 == F2 \cup {config.disk}
           D4 == D3 \cup {"cd0"}
           U4 == U3 \cup {"cd0", "ide.0"}
           B4 == B3 \cup {2}
           F4 == F3 \cup config.install_iso
           D5 == D4 \cup {"cd1"}
           U5 == U4 \cup {"cd1", "ide.1"}
           F5 == F4 \cup config.driver_iso
           D6 == D5 \cup {"net0"}
           U6 == U5 \cup {"net0"}
           D7 == D6 \cup {"xhci0.0"}
           U7 == U6 \cup {"xhci0.0"}
           D8 == D7 \cup {"spice", "snd0", "hda"}
           U8 == U7 \cup {"spice", "snd0", "hda"}
           F8 == F5 \cup {SpiceSocket(config)}
           D9 == D8 \cup {"serial0", "qmp"}
           F9 == F8 \cup {InStateDir(config, "serial.log"), InStateDir(config, "qmp.sock")}
<1>1. WholeSoFar(s1, ports, ports, {}, {}, {})
  BY MachineBlock DEF WholeSoFar
<1>2. s9 = QemuArgs(config)
  BY DEF QemuArgs
<1>3. F9 \subseteq OwnFiles(config) \cup config.install_iso \cup config.driver_iso
  BY DEF OwnFiles
<1> HIDE DEF ports, s1, s2, s3, s4, s5, s6, s7, s8, s9, F2, D3, U3, B3, F3, D4, U4, B4,
           F4, D5, U5, F5, D6, U6, D7, U7, D8, U8, F8, D9, F9
<1>4. WholeSoFar(s2, ports, ports, {}, {}, F2)
  <2> DEFINE t == FirmwareArgs(config)
             needed == {}
             declared == {}
             used == {}
             places == {}
             files == {OVMF_CODE, InStateDir(config, OVMF_VARS)}
  <2>1. Section(t, needed, declared, used, places, files)
    BY FirmwareBlock
  <2>2. ports \cap declared = {} /\ {} \cap used = {} /\ {} \cap places = {}
    OBVIOUS
  <2>3. needed \subseteq ports
    BY DEF ports
  <2>4. /\ s1 \o t = s2
        /\ ports \cup declared = ports
        /\ {} \cup used = {}
        /\ {} \cup places = {}
        /\ {} \cup files = F2
    BY DEF s2, F2
  <2> HIDE DEF t, needed, declared, used, places, files
  <2>5. FitsOn(t, ports, ports, {}, {}, declared, used, places, files)
    BY <2>1, <2>2, <2>3 DEF FitsOn
  <2>6. WholeSoFar(s1 \o t, ports, ports \cup declared, {} \cup used, {} \cup places,
                   {} \cup files)
    BY <1>1, <2>5, Adds
  <2> QED
    BY <2>4, <2>6
<1>5. WholeSoFar(s3, ports, D3, U3, B3, F3)
  <2> DEFINE t == DiskArgs(config)
             needed == {}
             declared == {"disk0.file", "disk0"}
             used == {"disk0.file", "disk0"}
             places == {1}
             files == {config.disk}
  <2>1. Section(t, needed, declared, used, places, files)
    BY DiskBlock
  <2>2. ports \cap declared = {} /\ {} \cap used = {} /\ {} \cap places = {}
    BY DEF ports
  <2>3. needed \subseteq ports
    BY DEF ports
  <2>4. /\ s2 \o t = s3
        /\ ports \cup declared = D3
        /\ {} \cup used = U3
        /\ {} \cup places = B3
        /\ F2 \cup files = F3
    BY DEF s3, D3, U3, B3, F3
  <2> HIDE DEF t, needed, declared, used, places, files
  <2>5. FitsOn(t, ports, ports, {}, {}, declared, used, places, files)
    BY <2>1, <2>2, <2>3 DEF FitsOn
  <2>6. WholeSoFar(s2 \o t, ports, ports \cup declared, {} \cup used, {} \cup places,
                   F2 \cup files)
    BY <1>4, <2>5, Adds
  <2> QED
    BY <2>4, <2>6
<1>6. WholeSoFar(s4, ports, D4, U4, B4, F4)
  <2> DEFINE t == CdArgs(config.install_iso, "cd0", "ide.0", {2})
             needed == {"ide.0"}
             declared == {"cd0"}
             used == {"cd0", "ide.0"}
             places == {2}
             files == config.install_iso
  <2>1. Section(t, needed, declared, used, places, files)
    BY CdBlock
  <2>2. D3 \cap declared = {} /\ U3 \cap used = {} /\ B3 \cap places = {}
    BY DEF D3, ports, U3, B3
  <2>3. needed \subseteq ports
    BY DEF ports
  <2>4. /\ s3 \o t = s4
        /\ D3 \cup declared = D4
        /\ U3 \cup used = U4
        /\ B3 \cup places = B4
        /\ F3 \cup files = F4
    BY DEF s4, D4, U4, B4, F4
  <2> HIDE DEF t, needed, declared, used, places, files
  <2>5. FitsOn(t, ports, D3, U3, B3, declared, used, places, files)
    BY <2>1, <2>2, <2>3 DEF FitsOn
  <2>6. WholeSoFar(s3 \o t, ports, D3 \cup declared, U3 \cup used, B3 \cup places,
                   F3 \cup files)
    BY <1>5, <2>5, Adds
  <2> QED
    BY <2>4, <2>6
<1>7. WholeSoFar(s5, ports, D5, U5, B4, F5)
  <2> DEFINE t == CdArgs(config.driver_iso, "cd1", "ide.1", {})
             needed == {"ide.1"}
             declared == {"cd1"}
             used == {"cd1", "ide.1"}
             places == {}
             files == config.driver_iso
  <2>1. Section(t, needed, declared, used, places, files)
    BY CdBlock
  <2>2. D4 \cap declared = {} /\ U4 \cap used = {} /\ B4 \cap places = {}
    BY DEF D4, D3, ports, U4, U3
  <2>3. needed \subseteq ports
    BY DEF ports
  <2>4. /\ s4 \o t = s5
        /\ D4 \cup declared = D5
        /\ U4 \cup used = U5
        /\ B4 \cup places = B4
        /\ F4 \cup files = F5
    BY DEF s5, D5, U5, F5
  <2> HIDE DEF t, needed, declared, used, places, files
  <2>5. FitsOn(t, ports, D4, U4, B4, declared, used, places, files)
    BY <2>1, <2>2, <2>3 DEF FitsOn
  <2>6. WholeSoFar(s4 \o t, ports, D4 \cup declared, U4 \cup used, B4 \cup places,
                   F4 \cup files)
    BY <1>6, <2>5, Adds
  <2> QED
    BY <2>4, <2>6
<1>8. WholeSoFar(s6, ports, D6, U6, B4, F5)
  <2> DEFINE t == NetworkArgs(config)
             needed == {}
             declared == {"net0"}
             used == {"net0"}
             places == {}
             files == {}
  <2>1. Section(t, needed, declared, used, places, files)
    BY DeviceBlock DEF NetworkArgs
  <2>2. D5 \cap declared = {} /\ U5 \cap used = {} /\ B4 \cap places = {}
    BY DEF D5, D4, D3, ports, U5, U4, U3
  <2>3. needed \subseteq ports
    BY DEF ports
  <2>4. /\ s5 \o t = s6
        /\ D5 \cup declared = D6
        /\ U5 \cup used = U6
        /\ B4 \cup places = B4
        /\ F5 \cup files = F5
    BY DEF s6, D6, U6
  <2> HIDE DEF t, needed, declared, used, places, files
  <2>5. FitsOn(t, ports, D5, U5, B4, declared, used, places, files)
    BY <2>1, <2>2, <2>3 DEF FitsOn
  <2>6. WholeSoFar(s5 \o t, ports, D5 \cup declared, U5 \cup used, B4 \cup places,
                   F5 \cup files)
    BY <1>7, <2>5, Adds
  <2> QED
    BY <2>4, <2>6
<1>9. WholeSoFar(s7, ports, D7, U7, B4, F5)
  <2> DEFINE t == PointerArgs
             needed == {}
             declared == {"xhci0.0"}
             used == {"xhci0.0"}
             places == {}
             files == {}
  <2>1. Section(t, needed, declared, used, places, files)
    BY DeviceBlock DEF PointerArgs
  <2>2. D6 \cap declared = {} /\ U6 \cap used = {} /\ B4 \cap places = {}
    BY DEF D6, D5, D4, D3, ports, U6, U5, U4, U3
  <2>3. needed \subseteq ports
    BY DEF ports
  <2>4. /\ s6 \o t = s7
        /\ D6 \cup declared = D7
        /\ U6 \cup used = U7
        /\ B4 \cup places = B4
        /\ F5 \cup files = F5
    BY DEF s7, D7, U7
  <2> HIDE DEF t, needed, declared, used, places, files
  <2>5. FitsOn(t, ports, D6, U6, B4, declared, used, places, files)
    BY <2>1, <2>2, <2>3 DEF FitsOn
  <2>6. WholeSoFar(s6 \o t, ports, D6 \cup declared, U6 \cup used, B4 \cup places,
                   F5 \cup files)
    BY <1>8, <2>5, Adds
  <2> QED
    BY <2>4, <2>6
<1>10. WholeSoFar(s8, ports, D8, U8, B4, F8)
  <2> DEFINE t == ViewerArgs(config)
             needed == {}
             declared == {"spice", "snd0", "hda"}
             used == {"spice", "snd0", "hda"}
             places == {}
             files == {SpiceSocket(config)}
  <2>1. Section(t, needed, declared, used, places, files)
    BY ViewerBlock
  <2>2. D7 \cap declared = {} /\ U7 \cap used = {} /\ B4 \cap places = {}
    BY DEF D7, D6, D5, D4, D3, ports, U7, U6, U5, U4, U3
  <2>3. needed \subseteq ports
    BY DEF ports
  <2>4. /\ s7 \o t = s8
        /\ D7 \cup declared = D8
        /\ U7 \cup used = U8
        /\ B4 \cup places = B4
        /\ F5 \cup files = F8
    BY DEF s8, D8, U8, F8
  <2> HIDE DEF t, needed, declared, used, places, files
  <2>5. FitsOn(t, ports, D7, U7, B4, declared, used, places, files)
    BY <2>1, <2>2, <2>3 DEF FitsOn
  <2>6. WholeSoFar(s7 \o t, ports, D7 \cup declared, U7 \cup used, B4 \cup places,
                   F5 \cup files)
    BY <1>9, <2>5, Adds
  <2> QED
    BY <2>4, <2>6
<1>11. WholeSoFar(s9, ports, D9, U8, B4, F9)
  <2> DEFINE t == ControlArgs(config)
             needed == {}
             declared == {"serial0", "qmp"}
             used == {}
             places == {}
             files == {InStateDir(config, "serial.log"), InStateDir(config, "qmp.sock")}
  <2>1. Section(t, needed, declared, used, places, files)
    BY ControlBlock
  <2>2. D8 \cap declared = {} /\ U8 \cap used = {} /\ B4 \cap places = {}
    BY DEF D8, D7, D6, D5, D4, D3, ports
  <2>3. needed \subseteq ports
    BY DEF ports
  <2>4. /\ s8 \o t = s9
        /\ D8 \cup declared = D9
        /\ U8 \cup used = U8
        /\ B4 \cup places = B4
        /\ F8 \cup files = F9
    BY DEF s9, D9, F9
  <2> HIDE DEF t, needed, declared, used, places, files
  <2>5. FitsOn(t, ports, D8, U8, B4, declared, used, places, files)
    BY <2>1, <2>2, <2>3 DEF FitsOn
  <2>6. WholeSoFar(s8 \o t, ports, D8 \cup declared, U8 \cup used, B4 \cup places,
                   F8 \cup files)
    BY <1>10, <2>5, Adds
  <2> QED
    BY <2>4, <2>6
<1>12. Resolves(s9) /\ FilesOpened(s9) \subseteq F9
  BY <1>11, BlocksResolve DEF WholeSoFar
<1> QED
  BY <1>2, <1>3, <1>12

-----------------------------------------------------------------------------
(* The directory of a file that is named below it.                         *)

LEMMA MaxIs ==
    ASSUME NEW S, NEW m \in S, S \subseteq Nat, \A x \in S : m >= x
    PROVE  Max(S) = m
<1> DEFINE c == CHOOSE x \in S : \A y \in S : x >= y
<1>1. c \in S /\ \A y \in S : c >= y
  OBVIOUS
<1>2. c = m
  <2> HIDE DEF c
  <2> QED
    BY <1>1
<1> QED
  BY <1>2 DEF Max

LEMMA DirectoryOf ==
    ASSUME NEW S, NEW dir \in Seq(S), NEW tail \in Seq(S), NEW file,
           file = dir \o tail, Len(tail) >= 1, tail[1] = "/",
           \A i \in 2 .. Len(tail) : tail[i] # "/"
    PROVE  Directory(file) = dir
<1>1. /\ file \in Seq(S)
      /\ Len(file) = Len(dir) + Len(tail)
      /\ \A i \in 1 .. Len(dir) + Len(tail) :
            file[i] = IF i <= Len(dir) THEN dir[i] ELSE tail[i - Len(dir)]
  BY ConcatProperties
<1>2. Len(dir) \in Nat /\ Len(tail) \in Nat /\ DOMAIN file = 1 .. Len(file)
  BY <1>1
<1> DEFINE m == Len(dir) + 1
           slashes == {i \in DOMAIN file : file[i] = "/"} \cup {1}
<1>3. m \in DOMAIN file /\ file[m] = "/"
  <2>1. m \in 1 .. Len(dir) + Len(tail) /\ ~(m <= Len(dir)) /\ m - Len(dir) = 1
    BY <1>2
  <2> QED
    BY <1>1, <1>2, <2>1
<1>4. ASSUME NEW i \in slashes PROVE m >= i
  <2>1. CASE i = 1
    BY <2>1, <1>2
  <2>2. CASE i \in DOMAIN file /\ file[i] = "/"
    <3> SUFFICES ASSUME i > m PROVE FALSE
      BY <2>2, <1>2
    <3>1. i \in 1 .. Len(dir) + Len(tail) /\ ~(i <= Len(dir)) /\ i - Len(dir) \in 2 .. Len(tail)
      BY <2>2, <1>1, <1>2
    <3>2. file[i] = tail[i - Len(dir)]
      BY <3>1, <1>1
    <3> QED
      BY <3>1, <3>2, <2>2
  <2> QED
    BY <2>1, <2>2
<1>5. m \in slashes /\ slashes \subseteq Nat
  BY <1>2, <1>3
<1>6. Max(slashes) = m
  <2> HIDE DEF m, slashes
  <2> QED
    BY <1>4, <1>5, MaxIs
<1>7. Directory(file) = SubSeq(file, 1, Len(dir))
  <2>1. m - 1 = Len(dir)
    BY <1>2
  <2> QED
    BY <1>6, <2>1 DEF Directory
<1> DEFINE front == SubSeq(file, 1, Len(dir))
<1>8. /\ front \in Seq(S)
      /\ Len(front) = Len(dir)
      /\ \A i \in 1 .. Len(dir) : front[i] = dir[i]
  <2>1. \A i \in 1 .. Len(dir) : file[i] \in S /\ file[i] = dir[i]
    BY <1>1, <1>2
  <2>2. /\ front \in Seq(S)
        /\ Len(front) = IF 1 <= Len(dir) THEN Len(dir) - 1 + 1 ELSE 0
        /\ \A i \in 1 .. Len(dir) - 1 + 1 : front[i] = file[1 + i - 1]
    BY <2>1, <1>2, SubSeqProperties
  <2>3. Len(dir) - 1 + 1 = Len(dir) /\ \A i \in 1 .. Len(dir) : 1 + i - 1 = i
    BY <1>2
  <2>4. Len(front) = Len(dir)
    BY <2>2, <2>3, <1>2
  <2> HIDE DEF front
  <2>5. ASSUME NEW i \in 1 .. Len(dir) PROVE front[i] = dir[i]
    BY <2>1, <2>2, <2>3
  <2> QED
    BY <2>2, <2>4, <2>5
<1>9. front = dir
  <2> HIDE DEF front
  <2> QED
    BY <1>8
<1> QED
  BY <1>7, <1>9

\* A path of one name below a directory.
LEMMA FileOf ==
    ASSUME NEW S, NEW dir \in Seq(S), NEW name, name # "/"
    PROVE  Directory(dir \o <<"/", name>>) = dir
<1> DEFINE V == S \cup {"/", name}
           tail == <<"/", name>>
<1>1. dir \in Seq(V)
  BY SeqMonotonic
<1>2. tail \in Seq(V) /\ Len(tail) = 2 /\ tail[1] = "/" /\ tail[2] = name
  OBVIOUS
<1>3. \A i \in 2 .. Len(tail) : tail[i] # "/"
  BY <1>2
<1>4. Len(tail) >= 1
  BY <1>2
<1> HIDE DEF V, tail
<1>5. Directory(dir \o tail) = dir
  BY <1>1, <1>2, <1>3, <1>4, DirectoryOf
<1> QED
  BY <1>5 DEF tail

LEMMA StateDirTyped ==
    ASSUME LaunchTyped, NEW config \in Configs
    PROVE  \E S : StateDir(config) \in Seq(S)
<1>1. CASE config.state_dir # {}
  BY <1>1 DEF StateDir, LaunchTyped
<1>2. CASE config.state_dir = {}
  <2> DEFINE S == STRING \cup {"/", "wvm"}
             home == StateHome
             below == <<"/", "wvm", "/">>
  <2>1. home \in Seq(S) /\ config.name \in Seq(S)
    BY SeqMonotonic DEF LaunchTyped
  <2>2. below \in Seq(S)
    OBVIOUS
  <2>3. StateDir(config) = home \o below \o config.name
    BY <1>2 DEF StateDir
  <2> HIDE DEF S, home, below
  <2>4. home \o below \in Seq(S)
    BY <2>1, <2>2, ConcatProperties
  <2>5. home \o below \o config.name \in Seq(S)
    BY <2>1, <2>4, ConcatProperties
  <2> QED
    BY <2>3, <2>5
<1> QED
  BY <1>1, <1>2

LEMMA InStateDirOf ==
    ASSUME LaunchTyped, NEW config \in Configs, NEW name, name # "/"
    PROVE  Directory(InStateDir(config, name)) = StateDir(config)
<1>1. PICK S : StateDir(config) \in Seq(S)
  BY StateDirTyped
<1> QED
  BY <1>1, FileOf DEF InStateDir

\* What is left of a path below a directory: a separator, and none after it.
BelowDirectory(tail) ==
    Len(tail) >= 1 /\ tail[1] = "/" /\ \A i \in 2 .. Len(tail) : tail[i] # "/"

LEMMA JoinedNames ==
    ASSUME NEW S, NEW slash \in Seq(S), NEW name \in Seq(S), NEW ending \in Seq(S),
           Len(slash) = 1, slash[1] = "/", Len(ending) = 1, ending[1] # "/",
           \A i \in 1 .. Len(name) : name[i] # "/"
    PROVE  slash \o (name \o ending) \in Seq(S) /\ BelowDirectory(slash \o (name \o ending))
<1> DEFINE rest == name \o ending
           tail == slash \o rest
<1>1. /\ rest \in Seq(S) /\ Len(rest) = Len(name) + Len(ending)
      /\ \A i \in 1 .. Len(name) + Len(ending) :
            rest[i] = IF i <= Len(name) THEN name[i] ELSE ending[i - Len(name)]
  BY ConcatProperties
<1>2. Len(name) \in Nat
  OBVIOUS
<1> HIDE DEF rest
<1>0. rest \in Seq(S)
  BY <1>1
<1>3. /\ tail \in Seq(S) /\ Len(tail) = Len(slash) + Len(rest)
      /\ \A i \in 1 .. Len(slash) + Len(rest) :
            tail[i] = IF i <= Len(slash) THEN slash[i] ELSE rest[i - Len(slash)]
  BY <1>0, ConcatProperties
<1> HIDE DEF tail
<1>4. ASSUME NEW i \in 1 .. Len(name) + 1 PROVE rest[i] # "/"
  <2>1. CASE i <= Len(name)
    BY <2>1, <1>1, <1>2
  <2>2. CASE ~(i <= Len(name))
    <3>1. i - Len(name) = 1
      BY <2>2, <1>2
    <3> QED
      BY <3>1, <2>2, <1>1, <1>2
  <2> QED
    BY <2>1, <2>2
<1>5. ASSUME NEW i \in 2 .. Len(tail) PROVE tail[i] # "/"
  <2>1. i \in 1 .. Len(slash) + Len(rest) /\ ~(i <= Len(slash))
    BY <1>1, <1>2, <1>3
  <2>2. i - Len(slash) \in 1 .. Len(name) + 1
    BY <1>1, <1>2, <1>3
  <2>3. tail[i] = rest[i - Len(slash)]
    BY <2>1, <1>3
  <2> QED
    BY <2>2, <2>3, <1>4
<1>6. Len(tail) >= 1 /\ tail[1] = "/"
  BY <1>1, <1>2, <1>3
<1>7. tail \in Seq(S) /\ BelowDirectory(tail)
  BY <1>3, <1>5, <1>6 DEF BelowDirectory
<1> QED
  BY <1>7 DEF tail, rest

Associates(s, t, u) == (s \o t) \o u = s \o (t \o u)

LEMMA Associated ==
    ASSUME NEW S, NEW s \in Seq(S), NEW t \in Seq(S), NEW u \in Seq(S)
    PROVE  Associates(s, t, u)
  BY ConcatAssociative DEF Associates

Regroups(run, wvm, slash, name, ending) ==
    run \o (wvm \o slash) \o name \o ending = (run \o wvm) \o (slash \o (name \o ending))

LEMMA Regrouped ==
    ASSUME NEW S, NEW run \in Seq(S), NEW wvm \in Seq(S), NEW slash \in Seq(S),
           NEW name \in Seq(S), NEW ending \in Seq(S)
    PROVE  Regroups(run, wvm, slash, name, ending)
<1> DEFINE dir == run \o wvm
           rest == name \o ending
           below == dir \o slash
<1>1. dir \in Seq(S) /\ rest \in Seq(S)
  BY ConcatProperties
<1>2. below \in Seq(S)
  <2> HIDE DEF dir
  <2> QED
    BY <1>1, ConcatProperties
<1>3. Associates(run, wvm, slash)
  BY Associated
<1>4. Associates(below, name, ending)
  <2> HIDE DEF below
  <2> QED
    BY <1>2, Associated
<1>5. Associates(dir, slash, rest)
  <2> HIDE DEF dir, rest
  <2> QED
    BY <1>1, Associated
<1>6. run \o (wvm \o slash) = below
  BY <1>3 DEF Associates
<1>7. (below \o name) \o ending = below \o rest
  BY <1>4 DEF Associates
<1>8. below \o rest = dir \o (slash \o rest)
  BY <1>5 DEF Associates
<1> QED
  BY <1>6, <1>7, <1>8 DEF Regroups

\* A name without a separator: the socket lies in the directory that prepare makes.
LEMMA SpiceSocketOf ==
    ASSUME LaunchTyped, NEW config \in Configs, \A i \in DOMAIN config.name : config.name[i] # "/"
    PROVE  Directory(SpiceSocket(config)) = RuntimeDir \o <<"/", "wvm">>
<1> DEFINE S == STRING \cup {"/", "wvm", ".spice.sock"}
           run == RuntimeDir
           wvm == <<"/", "wvm">>
           slash == <<"/">>
           name == config.name
           ending == <<".spice.sock">>
           below == <<"/", "wvm", "/">>
           tail == slash \o (name \o ending)
           dir == run \o wvm
           file == SpiceSocket(config)
<1>1. run \in Seq(S) /\ name \in Seq(S)
  BY SeqMonotonic DEF LaunchTyped
<1>2. /\ wvm \in Seq(S) /\ slash \in Seq(S) /\ ending \in Seq(S)
      /\ Len(slash) = 1 /\ slash[1] = "/" /\ Len(ending) = 1 /\ ending[1] # "/"
  OBVIOUS
<1>3. below = wvm \o slash
  OBVIOUS
<1>4. file = run \o below \o name \o ending
  BY DEF SpiceSocket
<1>5. \A i \in 1 .. Len(name) : name[i] # "/"
  BY <1>1
<1>6. dir \in Seq(S)
  <2> HIDE DEF S, run, wvm
  <2> QED
    BY <1>1, <1>2, ConcatProperties
<1>7. tail \in Seq(S) /\ BelowDirectory(tail)
  <2> HIDE DEF S, slash, name, ending
  <2> QED
    BY <1>1, <1>2, <1>5, JoinedNames
<1>8. file = dir \o tail
  <2>1. run \o (wvm \o slash) \o name \o ending = dir \o tail
    <3> HIDE DEF S, run, wvm, slash, name, ending, below, tail, dir, file
    <3>2. /\ run \in Seq(S) /\ wvm \in Seq(S) /\ slash \in Seq(S)
          /\ name \in Seq(S) /\ ending \in Seq(S)
      BY <1>1, <1>2
    <3>1. Regroups(run, wvm, slash, name, ending)
      BY <3>2, Regrouped, Zenon
    <3> QED
      BY <3>1 DEF Regroups, dir, tail
  <2> QED
    BY <1>3, <1>4, <2>1
<1>9. Directory(file) = dir
  <2> HIDE DEF S, file, dir, tail
  <2> QED
    BY <1>6, <1>7, <1>8, DirectoryOf DEF BelowDirectory
<1> QED
  BY <1>9

\* A definition that is prepared, on a disk that carries a system, has that system's firmware.
LEMMA FirmwareAgrees ==
    ASSUME LaunchTyped, NEW config, NEW disk \in Disks, Prepare(config, disk).ok,
           disk.exists, disk.readable, disk.installed # "none"
    PROVE  disk.installed = config.firmware
<1>1. /\ disk.boot_signature
      /\ disk.efi_partition <=> disk.installed = "uefi"
      /\ disk.installed \in {"uefi", "bios"}
  BY DEF LaunchTyped
<1>2. DetectInstalledFirmware(disk) = {disk.installed}
  BY <1>1 DEF DetectInstalledFirmware
<1>3. DetectInstalledFirmware(disk) \subseteq {config.firmware}
  BY DEF Prepare
<1> QED
  BY <1>2, <1>3

LEMMA PreparedDirectories ==
    ASSUME LaunchTyped, NEW config \in Configs, NEW disk,
           \A i \in DOMAIN config.name : config.name[i] # "/"
    PROVE  DirectoriesExist(config, Prepare(config, disk).dirs)
<1> DEFINE dirs == Prepare(config, disk).dirs
<1>1. /\ StateDir(config) \in dirs
      /\ RuntimeDir \o <<"/", "wvm">> \in dirs
      /\ Directory(config.disk) \in dirs
  BY DEF Prepare
<1> HIDE DEF dirs
<1>2. Directory(SpiceSocket(config)) \in dirs
  BY <1>1, SpiceSocketOf
<1>3. OVMF_VARS # "/"
  BY DEF OVMF_VARS
<1>4. /\ Directory(InStateDir(config, OVMF_VARS)) \in dirs
      /\ Directory(InStateDir(config, "serial.log")) \in dirs
      /\ Directory(InStateDir(config, "qmp.sock")) \in dirs
  BY <1>1, <1>3, InStateDirOf
<1>5. ASSUME NEW file \in OwnFiles(config)
      PROVE  Directory(file) \in dirs \/ file = OVMF_CODE
  BY <1>1, <1>2, <1>4 DEF OwnFiles
<1>6. DirectoriesExist(config, dirs)
  BY <1>5, CommandLine DEF DirectoriesExist
<1> QED
  BY <1>6 DEF dirs

LEMMA VmLaunches == ASSUME LaunchVm PROVE LaunchIsPrepared'
<1>1. LaunchTyped
  BY LaunchAssumption
<1>2. PICK config \in Configs, disk \in Disks :
         call' = [op |-> "launch", config |-> config, disk |-> disk,
                  valid |-> Valid(config, Files), prepared |-> Prepare(config, disk),
                  result |-> QemuArgs(config)]
  BY DEF LaunchVm
<1>3. /\ call'.config = config /\ call'.disk = disk
      /\ call'.prepared = Prepare(config, disk) /\ call'.result = QemuArgs(config)
  BY <1>2
<1>4. Resolves(QemuArgs(config))
  BY CommandLine
<1>5. Prepare(config, disk).ok =>
         (disk.exists /\ disk.readable /\ disk.installed # "none" =>
             disk.installed = config.firmware)
  BY <1>1, FirmwareAgrees
<1>6. (\A i \in DOMAIN config.name : config.name[i] # "/") =>
         DirectoriesExist(config, Prepare(config, disk).dirs)
  BY <1>1, PreparedDirectories
<1> QED
  BY <1>3, <1>4, <1>5, <1>6 DEF LaunchIsPrepared, Launchable

\* QEMU starts from a definition that was validated and prepared: every name on its command
\* line is declared once and before its use, each drive, port and boot place has one user,
\* the firmware is the one the disk was installed under, and the directories of the files
\* it opens were made: vm.rs and supervisor.rs, for every definition and every disk.
THEOREM LaunchPrepared == CallSpec => []LaunchIsPrepared
<1>1. CallInit => LaunchIsPrepared
  BY DEF CallInit, Idle, LaunchIsPrepared, Launchable
<1>2. LaunchIsPrepared /\ [CallNext]_call => LaunchIsPrepared'
  <2> SUFFICES ASSUME LaunchIsPrepared, [CallNext]_call PROVE LaunchIsPrepared'
    OBVIOUS
  <2>1. CASE UNCHANGED call
    BY <2>1 DEF LaunchIsPrepared, Launchable
  <2>2. CASE LaunchVm
    BY <2>2, VmLaunches
  <2>3. CASE call'.op # "launch"
    BY <2>3, Zenon DEF LaunchIsPrepared, Launchable
  <2> QED
    BY <2>1, <2>2, <2>3, CalledBy
<1> QED
  BY <1>1, <1>2, PTL DEF CallSpec

-----------------------------------------------------------------------------
(* Base64.                                                                 *)

LEMMA LeastOfThree ==
    ASSUME NEW a \in Int, NEW b \in Int, NEW c \in Int
    PROVE  /\ Min({a, b, c}) \in {a, b, c}
           /\ Min({a, b, c}) <= a /\ Min({a, b, c}) <= b /\ Min({a, b, c}) <= c
<1> DEFINE S == {a, b, c}
<1>1. \E x \in S : \A y \in S : x =< y
  <2>1. CASE a <= b /\ a <= c
    BY <2>1
  <2>2. CASE b <= a /\ b <= c
    BY <2>2
  <2>3. CASE c <= a /\ c <= b
    BY <2>3
  <2> QED
    BY <2>1, <2>2, <2>3
<1>2. Min(S) \in S /\ \A y \in S : Min(S) =< y
  <2> HIDE DEF S
  <2> QED
    BY <1>1, Zenon DEF Min
<1> QED
  BY <1>2

Character == 0 .. INVALID

Digit == 0..63

\* The three bytes of four digits.
Byte1(v1, v2) == v1 * 4 + v2 \div 16
Byte2(v2, v3) == (v2 % 16) * 16 + v3 \div 4
Byte3(v3, v4) == (v3 % 4) * 64 + v4

\* A number of 24 bits is three bytes, and four digits of six bits.
LEMMA FirstOfThree ==
    ASSUME NEW v1 \in Digit, NEW v2 \in Digit, NEW v3 \in Digit, NEW v4 \in Digit
    PROVE  LET n == FromDigits(v1, v2, v3, v4)
           IN  /\ n \div 65536 = Byte1(v1, v2)
               /\ (n \div 256) % 256 = Byte2(v2, v3)
               /\ n % 256 = Byte3(v3, v4)
<1> USE DEF Digit
<1> DEFINE n == ((v1 * 64 + v2) * 64 + v3) * 64 + v4
           a == v2 \div 16
           b == v2 % 16
           c == v3 \div 4
           d == v3 % 4
<1>1. /\ a \in 0..3 /\ b \in 0..15 /\ v2 = 16 * a + b
      /\ c \in 0..15 /\ d \in 0..3 /\ v3 = 4 * c + d
  BY SMT
<1> HIDE DEF a, b, c, d
<1>2. n = 65536 * (4 * v1 + a) + 256 * (16 * b + c) + (64 * d + v4)
  BY <1>1
<1> DEFINE x == 4 * v1 + a
           y == 16 * b + c
           z == 64 * d + v4
<1>3. x \in 0..255 /\ y \in 0..255 /\ z \in 0..255 /\ n = 65536 * x + 256 * y + z
  BY <1>1, <1>2
<1> HIDE DEF x, y, z, n
<1>4. n \div 65536 = x
  BY <1>3
<1>5. n \div 256 = 256 * x + y
  BY <1>3
<1>6. (n \div 256) % 256 = y
  BY <1>3, <1>5
<1>7. n % 256 = z
  BY <1>3
<1>8. x = Byte1(v1, v2) /\ y = Byte2(v2, v3) /\ z = Byte3(v3, v4)
  BY <1>1 DEF x, y, z, a, b, c, d, Byte1, Byte2, Byte3
<1>9. n = FromDigits(v1, v2, v3, v4)
  BY DEF n, FromDigits
<1> QED
  BY <1>4, <1>6, <1>7, <1>8, <1>9

LEMMA ByteTyped ==
    ASSUME NEW v \in Digit, NEW w \in Digit
    PROVE  Byte1(v, w) \in Byte /\ Byte2(v, w) \in Byte /\ Byte3(v, w) \in Byte
  BY SMT DEF Digit, Byte1, Byte2, Byte3, Byte

\* The buffer takes one digit: of what was in it, eight bits are left.
\* The large numeral is kept out of the provers' way.
Fourteen == 16384

Buffer == {b \in Nat : b < Fourteen}

IsShift(b, c, x) == x = 64 * (b % 256) + c

LEMMA LastByte ==
    ASSUME NEW a \in Nat
    PROVE  a % 256 \in Byte
  BY SMT DEF Byte

LEMMA SplitByte ==
    ASSUME NEW b \in Nat, NEW q, q = b \div 256, NEW r, r = b % 256
    PROVE  q \in Nat /\ r \in Byte /\ b = 256 * q + r
  BY SMT DEF Byte

LEMMA Remainder14 ==
    ASSUME NEW q \in Nat, NEW y \in Nat, y < Fourteen
    PROVE  (Fourteen * q + y) % Fourteen = y
  BY SMT DEF Fourteen

LEMMA ShiftedByte ==
    ASSUME NEW r \in Byte, NEW c \in Digit
    PROVE  64 * r + c \in Nat /\ 64 * r + c < Fourteen
  BY SMT DEF Byte, Digit, Fourteen

LEMMA ShiftedSum ==
    ASSUME NEW q \in Nat, NEW r \in Byte, NEW c \in Digit
    PROVE  (256 * q + r) * 64 + c = Fourteen * q + (64 * r + c)
  BY SMT DEF Byte, Digit, Fourteen

LEMMA ShiftedRest ==
    ASSUME NEW q \in Nat, NEW r \in Byte, NEW c \in Digit
    PROVE  ((256 * q + r) * 64 + c) % Fourteen = 64 * r + c
<1> DEFINE y == 64 * r + c
           x == (256 * q + r) * 64 + c
<1>1. y \in Nat /\ y < Fourteen
  BY ShiftedByte, Zenon
<1>2. x = Fourteen * q + y
  BY ShiftedSum
<1> HIDE DEF x, y
<1>3. (Fourteen * q + y) % Fourteen = y
  BY <1>1, Remainder14, Zenon
<1>4. x % Fourteen = y
  BY <1>2, <1>3, Zenon
<1> QED
  BY <1>4, Zenon DEF x, y

LEMMA ShiftInIs ==
    ASSUME NEW b, NEW c
    PROVE  ShiftIn(b, c) = (b * 64 + c) % Fourteen
  BY DEF ShiftIn, Fourteen

LEMMA Shifted ==
    ASSUME NEW b \in Buffer, NEW c \in Digit
    PROVE  IsShift(b, c, ShiftIn(b, c))
<1> DEFINE q == b \div 256
           r == b % 256
<1>1. b \in Nat
  BY Zenon DEF Buffer
<1>2. q = b \div 256 /\ r = b % 256
  OBVIOUS
<1> HIDE DEF q, r
<1>3. q \in Nat /\ r \in Byte
  BY <1>1, <1>2, SplitByte
<1>4. b = 256 * q + r
  BY <1>1, <1>2, SplitByte
<1>5. ((256 * q + r) * 64 + c) % Fourteen = 64 * r + c
  BY <1>3, ShiftedRest
<1>6. ShiftIn(b, c) = 64 * r + c
  BY <1>4, <1>5, ShiftInIs, Zenon
<1> QED
  BY <1>6, Zenon DEF r, IsShift

LEMMA ShiftTyped ==
    ASSUME NEW b \in Buffer, NEW c \in Digit, NEW x, IsShift(b, c, x)
    PROVE  x \in Buffer
<1> DEFINE r == b % 256
<1>1. b \in Nat
  BY Zenon DEF Buffer
<1>2. r \in Byte
  BY <1>1, LastByte, Zenon
<1>3. x = 64 * r + c
  BY Zenon DEF IsShift
<1> HIDE DEF r
<1>4. x \in Nat /\ x < Fourteen
  BY <1>2, <1>3, ShiftedByte, Zenon
<1> QED
  BY <1>4, Zenon DEF Buffer

LEMMA Quotients ==
    ASSUME NEW b \in Nat
    PROVE  b \div 1 \in Nat /\ b \div 4 \in Nat /\ b \div 16 \in Nat
  BY SMT

LEMMA ByteAboveIs ==
    ASSUME NEW b \in Buffer
    PROVE  /\ ByteAbove(b, 0) = (b \div 1) % 256
           /\ ByteAbove(b, 2) = (b \div 4) % 256
           /\ ByteAbove(b, 4) = (b \div 16) % 256
           /\ \A n \in {0, 2, 4} : ByteAbove(b, n) \in Byte
<1>1. ByteAbove(b, 0) = (b \div 1) % 256
  BY DEF ByteAbove
<1>2. ByteAbove(b, 2) = (b \div 4) % 256
  BY DEF ByteAbove
<1>3. ByteAbove(b, 4) = (b \div 16) % 256
  BY DEF ByteAbove
<1>4. b \div 1 \in Nat /\ b \div 4 \in Nat /\ b \div 16 \in Nat
  BY Quotients, Zenon DEF Buffer
<1>5. (b \div 1) % 256 \in Byte
  BY <1>4, LastByte, Zenon
<1>6. (b \div 4) % 256 \in Byte
  BY <1>4, LastByte, Zenon
<1>7. (b \div 16) % 256 \in Byte
  BY <1>4, LastByte, Zenon
<1>8. ByteAbove(b, 0) \in Byte /\ ByteAbove(b, 2) \in Byte /\ ByteAbove(b, 4) \in Byte
  BY <1>1, <1>2, <1>3, <1>5, <1>6, <1>7, Zenon
<1> QED
  BY <1>1, <1>2, <1>3, <1>8, Zenon

LEMMA FirstOut ==
    ASSUME NEW b \in Buffer, NEW c1 \in Digit, NEW c2 \in Digit,
           NEW x1, IsShift(b, c1, x1), NEW x2, IsShift(x1, c2, x2)
    PROVE  ByteAbove(x2, 4) = Byte1(c1, c2)
<1> USE DEF Digit
<1> DEFINE r == b % 256
<1>1. r \in 0..255
  BY LastByte, Zenon DEF Buffer, Byte
<1>2. x1 = 64 * r + c1
  BY DEF IsShift
<1> HIDE DEF r
<1> DEFINE s == r \div 4
           t == r % 4
<1>3. s \in 0..63 /\ t \in 0..3 /\ r = 4 * s + t
  BY <1>1, SMT
<1> HIDE DEF s, t
<1>4. x1 = 256 * s + (64 * t + c1) /\ 64 * t + c1 \in 0..255
  BY <1>2, <1>3
<1>5. x1 % 256 = 64 * t + c1
  BY <1>3, <1>4
<1>6. x2 = 4096 * t + 64 * c1 + c2
  BY <1>3, <1>5 DEF IsShift
<1> DEFINE u == c2 \div 16
           v == c2 % 16
<1>7. u \in 0..3 /\ v \in 0..15 /\ c2 = 16 * u + v
  BY SMT
<1> HIDE DEF u, v
<1>8. x2 \div 16 = 256 * t + (4 * c1 + u) /\ 4 * c1 + u \in 0..255
  BY <1>3, <1>6, <1>7
<1>9. (x2 \div 16) % 256 = 4 * c1 + u
  BY <1>3, <1>7, <1>8
<1>10. 4 * c1 + u = Byte1(c1, c2)
  BY <1>7 DEF Byte1, u
<1>20. (x2 \div 16) % 256 = Byte1(c1, c2)
  BY <1>9, <1>10
<1>21. x2 \in Buffer
  BY ShiftTyped
<1> QED
  BY <1>20, <1>21, ByteAboveIs

LEMMA SecondOut ==
    ASSUME NEW x1 \in Buffer, NEW c2 \in Digit, NEW c3 \in Digit,
           NEW x2, IsShift(x1, c2, x2), NEW x3, IsShift(x2, c3, x3)
    PROVE  ByteAbove(x3, 2) = Byte2(c2, c3)
<1> USE DEF Digit
<1> DEFINE r == x1 % 256
<1>1. r \in 0..255
  BY LastByte, Zenon DEF Buffer, Byte
<1>2. x2 = 64 * r + c2
  BY DEF IsShift
<1> HIDE DEF r
<1> DEFINE s == r \div 4
           t == r % 4
           u == c2 \div 16
           v == c2 % 16
           w == c3 \div 4
           z == c3 % 4
<1>3. s \in 0..63 /\ t \in 0..3 /\ r = 4 * s + t
  BY <1>1, SMT
<1>4. u \in 0..3 /\ v \in 0..15 /\ c2 = 16 * u + v
  BY SMT
<1>5. w \in 0..15 /\ z \in 0..3 /\ c3 = 4 * w + z
  BY SMT
<1> HIDE DEF s, t, u, v, w, z
<1>6. x2 % 256 = 64 * t + c2
  BY <1>2, <1>3
<1>7. x3 = 4096 * t + 1024 * u + 64 * v + 4 * w + z
  BY <1>3, <1>4, <1>5, <1>6 DEF IsShift
<1>8. x3 \div 4 = 256 * (4 * t + u) + (16 * v + w) /\ 16 * v + w \in 0..255
  BY <1>3, <1>4, <1>5, <1>7
<1>9. (x3 \div 4) % 256 = 16 * v + w
  BY <1>3, <1>4, <1>5, <1>8
<1>10. 16 * v + w = Byte2(c2, c3)
  BY <1>4, <1>5 DEF Byte2, v, w
<1>20. (x3 \div 4) % 256 = Byte2(c2, c3)
  BY <1>9, <1>10
<1>21. x3 \in Buffer
  BY ShiftTyped
<1> QED
  BY <1>20, <1>21, ByteAboveIs

LEMMA ThirdOut ==
    ASSUME NEW x2 \in Buffer, NEW c3 \in Digit, NEW c4 \in Digit,
           NEW x3, IsShift(x2, c3, x3), NEW x4, IsShift(x3, c4, x4)
    PROVE  ByteAbove(x4, 0) = Byte3(c3, c4)
<1> USE DEF Digit
<1> DEFINE r == x2 % 256
<1>1. r \in 0..255
  BY LastByte, Zenon DEF Buffer, Byte
<1>2. x3 = 64 * r + c3
  BY DEF IsShift
<1> HIDE DEF r
<1> DEFINE s == r \div 4
           t == r % 4
           w == c3 \div 4
           z == c3 % 4
<1>3. s \in 0..63 /\ t \in 0..3 /\ r = 4 * s + t
  BY <1>1, SMT
<1>4. w \in 0..15 /\ z \in 0..3 /\ c3 = 4 * w + z
  BY SMT
<1> HIDE DEF s, t, w, z
<1>5. x3 % 256 = 64 * t + c3
  BY <1>2, <1>3
<1>6. x4 = 256 * (16 * t + w) + (64 * z + c4) /\ 64 * z + c4 \in 0..255
  BY <1>3, <1>4, <1>5 DEF IsShift
<1>7. x4 \div 1 = x4
  BY <1>3, <1>4, <1>6
<1>8. x4 % 256 = 64 * z + c4
  BY <1>3, <1>4, <1>6
<1>9. 64 * z + c4 = Byte3(c3, c4)
  BY <1>4 DEF Byte3, z
<1>20. (x4 \div 1) % 256 = Byte3(c3, c4)
  BY <1>7, <1>8, <1>9, Zenon
<1>21. x4 \in Buffer
  BY ShiftTyped
<1> QED
  BY <1>20, <1>21, ByteAboveIs

\* The guest's decoder, between two characters.
Decoder == [buffer : Buffer, bits : {0, 2, 4, 6}, out : Seq(Byte), done : BOOLEAN, ok : BOOLEAN]

Open(s) == s \in Decoder /\ ~s.done /\ s.ok

\* What the decoder makes of a digit: its buffer takes it, and when the buffer then holds
\* a byte, the byte is written.
Digested(s, c, d) ==
    /\ Open(d) /\ d.buffer = ShiftIn(s.buffer, c)
    /\ s.bits = 0 => d.bits = 6 /\ d.out = s.out
    /\ s.bits # 0 => d.bits = s.bits - 2 /\ d.out = Append(s.out, ByteAbove(d.buffer, d.bits))

LEMMA DecodesDigit ==
    ASSUME NEW s, Open(s), NEW c \in Digit
    PROVE  Digested(s, c, DecodeCharacter(s, c))
<1> DEFINE x == ShiftIn(s.buffer, c)
<1>1. PICK d : d = DecodeCharacter(s, c)
  OBVIOUS
<1>2. /\ s \in Decoder /\ ~s.done /\ s.ok /\ s.buffer \in Buffer /\ s.bits \in {0, 2, 4, 6}
      /\ s.out \in Seq(Byte)
  BY DEF Open, Decoder
<1>3. x \in Buffer
  BY <1>2, Shifted, ShiftTyped
<1>4. c # BLANK /\ c # PAD /\ c # INVALID
  BY DEF Digit, BLANK, PAD, INVALID
<1>5. d = TakeDigit(s, c)
  BY <1>1, <1>2, <1>4 DEF DecodeCharacter
<1> HIDE DEF x
<1>6. CASE s.bits = 0
  <2>1. d = [s EXCEPT !.buffer = x, !.bits = 6]
    BY <1>5, <1>6 DEF TakeDigit, x
  <2>2. Open(d) /\ d.buffer = x /\ d.bits = 6 /\ d.out = s.out
    BY <1>2, <1>3, <2>1 DEF Open, Decoder
  <2> QED
    BY <1>1, <1>6, <2>2 DEF Digested, x
<1>7. CASE s.bits # 0
  <2> DEFINE n == s.bits - 2
             out == Append(s.out, ByteAbove(x, n))
  <2>1. n \in {0, 2, 4} /\ s.bits + 6 >= 8 /\ s.bits + 6 - 8 = n
    BY <1>2, <1>7
  <2>2. d = Emit(s, x, n)
    BY <1>5, <2>1 DEF TakeDigit, x
  <2>3. out \in Seq(Byte)
    BY <1>2, <1>3, <2>1, ByteAboveIs
  <2>5. d = [s EXCEPT !.buffer = x, !.bits = n, !.out = out]
    BY <2>2, Zenon DEF Emit
  <2>4. Open(d) /\ d.buffer = x /\ d.bits = n /\ d.out = out
    <3> HIDE DEF n, out
    <3> QED
      BY <1>2, <1>3, <2>1, <2>3, <2>5 DEF Open, Decoder
  <2> QED
    BY <1>1, <1>7, <2>4 DEF Digested, x
<1> QED
  BY <1>6, <1>7

LEMMA DecodesPadding ==
    ASSUME NEW s, Open(s)
    PROVE  LET d == DecodeCharacter(s, PAD)
           IN  d \in Decoder /\ d.done /\ d.ok /\ d.out = s.out
<1>1. PAD # BLANK
  BY DEF PAD, BLANK
<1>2. DecodeCharacter(s, PAD) = [s EXCEPT !.done = TRUE]
  BY <1>1 DEF DecodeCharacter, Open
<1> QED
  BY <1>2 DEF Open, Decoder

LEMMA DecodesNothing == ASSUME NEW s, s.done, NEW c PROVE DecodeCharacter(s, c) = s
  BY DEF DecodeCharacter

LEMMA DecoderTyped ==
    ASSUME NEW s \in Decoder, NEW c \in Character
    PROVE  DecodeCharacter(s, c) \in Decoder
<1> DEFINE d == DecodeCharacter(s, c)
<1>1. CASE s.done \/ ~s.ok \/ c = BLANK
  <2>1. d = s
    BY <1>1 DEF DecodeCharacter
  <2> QED
    BY <2>1
<1>2. CASE ~(s.done \/ ~s.ok \/ c = BLANK)
  <2>0. Open(s)
    BY <1>2 DEF Open, Decoder
  <2>1. CASE c = PAD
    BY <2>0, <2>1, DecodesPadding
  <2>2. CASE c = INVALID
    <3>1. d = [s EXCEPT !.ok = FALSE]
      BY <1>2, <2>2 DEF DecodeCharacter, PAD, INVALID
    <3> QED
      BY <3>1 DEF Decoder
  <2>3. CASE c # PAD /\ c # INVALID
    <3>1. c \in Digit
      BY <1>2, <2>3 DEF Character, Digit, PAD, INVALID, BLANK
    <3>2. Digested(s, c, d)
      BY <2>0, <3>1, DecodesDigit
    <3> QED
      BY <3>2 DEF Digested, Open
  <2> QED
    BY <2>1, <2>2, <2>3
<1> QED
  BY <1>1, <1>2

\* A group of four characters, padded on its right.
Group == {g \in Seq(0..PAD) :
             /\ Len(g) = 4 /\ g[1] # PAD /\ g[2] # PAD
             /\ g[3] = PAD => g[4] = PAD}

\* What a group stands for.
Meaning(g) ==
    IF g[3] = PAD THEN <<Byte1(g[1], g[2])>>
    ELSE IF g[4] = PAD THEN <<Byte1(g[1], g[2]), Byte2(g[2], g[3])>>
    ELSE <<Byte1(g[1], g[2]), Byte2(g[2], g[3]), Byte3(g[3], g[4])>>

LEMMA GroupDigits ==
    ASSUME NEW g \in Group
    PROVE  /\ g[1] \in Digit /\ g[2] \in Digit
           /\ g[3] # PAD => g[3] \in Digit
           /\ g[4] # PAD => g[3] \in Digit /\ g[4] \in Digit
<1>1. g \in Seq(0..PAD) /\ Len(g) = 4 /\ g[1] # PAD /\ g[2] # PAD /\ (g[3] = PAD => g[4] = PAD)
  BY DEF Group
<1>2. \A i \in 1..Len(g) : g[i] \in 0..PAD
  BY <1>1, ElementOfSeq
<1>3. g[1] \in 0..PAD /\ g[2] \in 0..PAD /\ g[3] \in 0..PAD /\ g[4] \in 0..PAD
  BY <1>1, <1>2
<1> QED
  BY <1>1, <1>3 DEF PAD, Digit

LEMMA MeaningTyped == ASSUME NEW g \in Group PROVE Meaning(g) \in Seq(Byte)
<1>1. g[3] # PAD => Byte1(g[1], g[2]) \in Byte /\ Byte2(g[2], g[3]) \in Byte
  BY GroupDigits, ByteTyped
<1>2. g[4] # PAD => Byte3(g[3], g[4]) \in Byte
  BY GroupDigits, ByteTyped
<1>3. Byte1(g[1], g[2]) \in Byte
  BY GroupDigits, ByteTyped
<1>4. g[3] = PAD => g[4] = PAD
  BY DEF Group
<1> DEFINE a == Byte1(g[1], g[2])
           b == Byte2(g[2], g[3])
           c == Byte3(g[3], g[4])
<1>5. CASE g[3] = PAD
  <2>1. Meaning(g) = <<a>> /\ a \in Byte
    BY <1>3, <1>5 DEF Meaning
  <2> HIDE DEF a
  <2> QED
    BY <2>1
<1>6. CASE g[3] # PAD /\ g[4] = PAD
  <2>1. Meaning(g) = <<a, b>> /\ a \in Byte /\ b \in Byte
    BY <1>1, <1>6 DEF Meaning
  <2> HIDE DEF a, b
  <2> QED
    BY <2>1
<1>7. CASE g[4] # PAD
  <2>1. Meaning(g) = <<a, b, c>> /\ a \in Byte /\ b \in Byte /\ c \in Byte
    BY <1>1, <1>2, <1>4, <1>7 DEF Meaning
  <2> HIDE DEF a, b, c
  <2> QED
    BY <2>1
<1> QED
  BY <1>5, <1>6, <1>7

\* The host's decoder, one group: the number of its digits, and as many of its bytes as
\* there are digits but one.
LEMMA PadsCounted ==
    ASSUME NEW g \in Group
    PROVE  Cardinality({j \in 1..4 : g[j] = PAD})
              = IF g[3] = PAD THEN 2 ELSE IF g[4] = PAD THEN 1 ELSE 0
<1> DEFINE P == {j \in 1..4 : g[j] = PAD}
<1>1. g[1] # PAD /\ g[2] # PAD /\ (g[3] = PAD => g[4] = PAD)
  BY DEF Group
<1>2. CASE g[3] = PAD
  <2>1. P = {3} \cup {4}
    BY <1>1, <1>2
  <2>2. IsFiniteSet({3}) /\ Cardinality({3}) = 1
    BY FS_Singleton
  <2>3. 4 \notin {3}
    OBVIOUS
  <2>4. Cardinality({3} \cup {4}) = Cardinality({3}) + 1
    BY <2>2, <2>3, FS_AddElement
  <2> QED
    BY <1>2, <2>1, <2>2, <2>4
<1>3. CASE g[3] # PAD /\ g[4] = PAD
  <2>1. P = {4}
    BY <1>1, <1>3
  <2>2. Cardinality({4}) = 1
    BY FS_Singleton
  <2> QED
    BY <1>3, <2>1, <2>2
<1>4. CASE g[3] # PAD /\ g[4] # PAD
  <2>1. P = {}
    BY <1>1, <1>4
  <2>2. Cardinality({}) = 0
    BY FS_EmptySet
  <2> QED
    BY <1>4, <2>1, <2>2
<1> QED
  BY <1>2, <1>3, <1>4

LEMMA FirstOfTuple ==
    ASSUME NEW a, NEW b, NEW c
    PROVE  /\ SubSeq(<<a, b, c>>, 1, 1) = <<a>>
           /\ SubSeq(<<a, b, c>>, 1, 2) = <<a, b>>
           /\ SubSeq(<<a, b, c>>, 1, 3) = <<a, b, c>>
<1> DEFINE S == {a, b, c}
           t == <<a, b, c>>
<1>1. /\ t \in Seq(S) /\ Len(t) = 3 /\ t[1] = a /\ t[2] = b /\ t[3] = c
  OBVIOUS
<1>2. <<a>> \in Seq(S) /\ Len(<<a>>) = 1 /\ <<a>>[1] = a
  OBVIOUS
<1>3. <<a, b>> \in Seq(S) /\ Len(<<a, b>>) = 2 /\ <<a, b>>[1] = a /\ <<a, b>>[2] = b
  OBVIOUS
<1>4. PICK u : u = t /\ u \in Seq(S) /\ Len(u) = 3 /\ u[1] = a /\ u[2] = b /\ u[3] = c
  BY <1>1
<1>5. PICK v : v = <<a>> /\ v \in Seq(S) /\ Len(v) = 1 /\ v[1] = a
  BY <1>2
<1>6. PICK w : w = <<a, b>> /\ w \in Seq(S) /\ Len(w) = 2 /\ w[1] = a /\ w[2] = b
  BY <1>3
<1>6a. u[1] \in S /\ u[2] \in S /\ u[3] \in S
  BY <1>4
<1> HIDE DEF S, t
<1>7. \A n \in 1..3 : /\ SubSeq(u, 1, n) \in Seq(S) /\ Len(SubSeq(u, 1, n)) = n
                      /\ \A i \in 1..n : SubSeq(u, 1, n)[i] = u[i]
  <2> SUFFICES ASSUME NEW n \in 1..3
               PROVE  /\ SubSeq(u, 1, n) \in Seq(S) /\ Len(SubSeq(u, 1, n)) = n
                      /\ \A i \in 1..n : SubSeq(u, 1, n)[i] = u[i]
    OBVIOUS
  <2>1. \A i \in 1..n : u[i] \in S
    BY <1>6a
  <2>2. /\ SubSeq(u, 1, n) \in Seq(S)
        /\ Len(SubSeq(u, 1, n)) = IF 1 <= n THEN n - 1 + 1 ELSE 0
        /\ \A i \in 1..n - 1 + 1 : SubSeq(u, 1, n)[i] = u[1 + i - 1]
    BY <2>1, SubSeqProperties
  <2> QED
    BY <2>2
<1>8. SubSeq(u, 1, 1) = v
  <2>1. SubSeq(u, 1, 1)[1] = u[1] /\ Len(SubSeq(u, 1, 1)) = 1 /\ SubSeq(u, 1, 1) \in Seq(S)
    BY <1>7
  <2> QED
    <3>1. \A i \in 1..Len(SubSeq(u, 1, 1)) : SubSeq(u, 1, 1)[i] = v[i]
      BY <2>1, <1>4, <1>5
    <3>2. Len(SubSeq(u, 1, 1)) = Len(v)
      BY <2>1, <1>5
    <3> QED
      BY <2>1, <3>1, <3>2, <1>5, SeqEqual, Zenon
<1>9. SubSeq(u, 1, 2) = w
  <2>1. /\ SubSeq(u, 1, 2)[1] = u[1] /\ SubSeq(u, 1, 2)[2] = u[2]
        /\ Len(SubSeq(u, 1, 2)) = 2 /\ SubSeq(u, 1, 2) \in Seq(S)
    BY <1>7
  <2>2. \A i \in 1..2 : SubSeq(u, 1, 2)[i] = w[i]
    BY <2>1, <1>4, <1>6
  <2> QED
    BY <2>1, <2>2, <1>6, SeqEqual
<1>10. SubSeq(u, 1, 3) = u
  BY <1>4, <1>7, SeqEqual
<1> QED
  BY <1>4, <1>5, <1>6, <1>8, <1>9, <1>10, Zenon DEF t

LEMMA BytesOfDigits ==
    ASSUME NEW v1 \in Digit, NEW v2 \in Digit, NEW v3 \in Digit, NEW v4 \in Digit
    PROVE  ThreeBytes(FromDigits(v1, v2, v3, v4)) = <<Byte1(v1, v2), Byte2(v2, v3), Byte3(v3, v4)>>
<1>1. PICK n : n = FromDigits(v1, v2, v3, v4)
  OBVIOUS
<1>2. n \div 65536 = Byte1(v1, v2) /\ (n \div 256) % 256 = Byte2(v2, v3) /\ n % 256 = Byte3(v3, v4)
  BY <1>1, FirstOfThree
<1>3. ThreeBytes(n) = <<n \div 65536, (n \div 256) % 256, n % 256>>
  BY DEF ThreeBytes
<1> QED
  BY <1>1, <1>2, <1>3

LEMMA HostGroup ==
    ASSUME NEW g \in Group
    PROVE  DecodeGroup(g) = Meaning(g)
<1> DEFINE v1 == DigitOrZero(g, 1)
           v2 == DigitOrZero(g, 2)
           v3 == DigitOrZero(g, 3)
           v4 == DigitOrZero(g, 4)
           pad == Cardinality({j \in 1..4 : g[j] = PAD})
           a == Byte1(v1, v2)
           b == Byte2(v2, v3)
           c == Byte3(v3, v4)
<1>1. /\ g[1] # PAD /\ g[2] # PAD /\ (g[3] = PAD => g[4] = PAD)
      /\ g[1] \in Digit /\ g[2] \in Digit
  BY GroupDigits DEF Group
<1>2. v1 = g[1] /\ v2 = g[2] /\ (g[3] # PAD => v3 = g[3]) /\ (g[4] # PAD => v4 = g[4])
  BY <1>1 DEF DigitOrZero
<1>2a. 0 \in Digit
  BY DEF Digit
<1>3. v1 \in Digit /\ v2 \in Digit /\ v3 \in Digit /\ v4 \in Digit
  BY <1>1, <1>2, <1>2a, GroupDigits DEF DigitOrZero
<1>4. pad = IF g[3] = PAD THEN 2 ELSE IF g[4] = PAD THEN 1 ELSE 0
  BY PadsCounted
<1>5. DecodeGroup(g) = SubSeq(ThreeBytes(FromDigits(v1, v2, v3, v4)), 1, 3 - pad)
  BY Zenon DEF DecodeGroup
<1> HIDE DEF v1, v2, v3, v4, pad
<1>6. DecodeGroup(g) = SubSeq(<<a, b, c>>, 1, 3 - pad)
  <2>1. ThreeBytes(FromDigits(v1, v2, v3, v4)) = <<a, b, c>>
    BY <1>3, BytesOfDigits
  <2> QED
    BY <1>5, <2>1
<1>7. a = Byte1(g[1], g[2])
  BY <1>2
<1>8. g[3] # PAD => b = Byte2(g[2], g[3])
  BY <1>2
<1>9. g[4] # PAD => c = Byte3(g[3], g[4])
  BY <1>1, <1>2
<1> HIDE DEF a, b, c
<1>10. CASE g[3] = PAD
  <2>1. DecodeGroup(g) = SubSeq(<<a, b, c>>, 1, 1)
    BY <1>4, <1>6, <1>10
  <2>2. DecodeGroup(g) = <<a>>
    BY <2>1, FirstOfTuple
  <2> QED
    BY <1>7, <1>10, <2>2, Zenon DEF Meaning
<1>11. CASE g[3] # PAD /\ g[4] = PAD
  <2>1. DecodeGroup(g) = SubSeq(<<a, b, c>>, 1, 2)
    BY <1>4, <1>6, <1>11
  <2>2. DecodeGroup(g) = <<a, b>>
    BY <2>1, FirstOfTuple
  <2> QED
    BY <1>7, <1>8, <1>11, <2>2, Zenon DEF Meaning
<1>12. CASE g[3] # PAD /\ g[4] # PAD
  <2>1. DecodeGroup(g) = SubSeq(<<a, b, c>>, 1, 3)
    BY <1>4, <1>6, <1>12
  <2>2. DecodeGroup(g) = <<a, b, c>>
    BY <2>1, FirstOfTuple
  <2> QED
    BY <1>7, <1>8, <1>9, <1>12, <2>2, Zenon DEF Meaning
<1> QED
  BY <1>1, <1>10, <1>11, <1>12

\* The guest's decoder, one group.
LEMMA OneByteMore ==
    ASSUME NEW s \in Seq(Byte), NEW a \in Byte
    PROVE  Append(s, a) = s \o <<a>>
<1> DEFINE x == Append(s, a)
           y == s \o <<a>>
<1>1. x \in Seq(Byte) /\ Len(x) = Len(s) + 1 /\ y \in Seq(Byte) /\ Len(y) = Len(s) + 1
  OBVIOUS
<1>2. \A i \in 1..Len(s) + 1 : x[i] = y[i]
  OBVIOUS
<1> HIDE DEF x, y
<1>3. x = y
  BY <1>1, <1>2, SeqEqual
<1> QED
  BY <1>3 DEF x, y

LEMMA TwoBytesMore ==
    ASSUME NEW s \in Seq(Byte), NEW a \in Byte, NEW b \in Byte
    PROVE  Append(Append(s, a), b) = s \o <<a, b>>
<1> DEFINE x == Append(Append(s, a), b)
           y == s \o <<a, b>>
<1>1. x \in Seq(Byte) /\ Len(x) = Len(s) + 2 /\ y \in Seq(Byte) /\ Len(y) = Len(s) + 2
  OBVIOUS
<1>2. \A i \in 1..Len(s) + 2 : x[i] = y[i]
  OBVIOUS
<1> HIDE DEF x, y
<1>3. x = y
  BY <1>1, <1>2, SeqEqual
<1> QED
  BY <1>3 DEF x, y

LEMMA ThreeBytesMore ==
    ASSUME NEW s \in Seq(Byte), NEW a \in Byte, NEW b \in Byte, NEW c \in Byte
    PROVE  Append(Append(Append(s, a), b), c) = s \o <<a, b, c>>
<1> DEFINE x == Append(Append(Append(s, a), b), c)
           y == s \o <<a, b, c>>
<1>1. x \in Seq(Byte) /\ Len(x) = Len(s) + 3 /\ y \in Seq(Byte) /\ Len(y) = Len(s) + 3
  OBVIOUS
<1>2. \A i \in 1..Len(s) + 3 : x[i] = y[i]
  OBVIOUS
<1> HIDE DEF x, y
<1>3. x = y
  BY <1>1, <1>2, SeqEqual
<1> QED
  BY <1>3 DEF x, y

Took(s, c, d) ==
    /\ Open(d) /\ d \in Decoder /\ d.buffer \in Buffer /\ d.out \in Seq(Byte)
    /\ IsShift(s.buffer, c, d.buffer)
    /\ s.bits = 0 => d.bits = 6 /\ d.out = s.out
    /\ s.bits = 6 => d.bits = 4 /\ d.out = Append(s.out, ByteAbove(d.buffer, 4))
    /\ s.bits = 4 => d.bits = 2 /\ d.out = Append(s.out, ByteAbove(d.buffer, 2))
    /\ s.bits = 2 => d.bits = 0 /\ d.out = Append(s.out, ByteAbove(d.buffer, 0))

LEMMA TakesDigit ==
    ASSUME NEW s, Open(s), NEW c \in Digit, NEW d, d = DecodeCharacter(s, c)
    PROVE  Took(s, c, d)
<1>1. Digested(s, c, d)
  BY DecodesDigit
<1>2. /\ Open(d) /\ d.buffer = ShiftIn(s.buffer, c)
      /\ s.bits = 0 => d.bits = 6 /\ d.out = s.out
      /\ s.bits # 0 => d.bits = s.bits - 2 /\ d.out = Append(s.out, ByteAbove(d.buffer, d.bits))
  BY <1>1 DEF Digested
<1>3. s.buffer \in Buffer /\ d \in Decoder /\ d.buffer \in Buffer /\ d.out \in Seq(Byte)
  BY <1>2 DEF Open, Decoder
<1>4. IsShift(s.buffer, c, d.buffer)
  BY <1>2, <1>3, Shifted
<1>6. s.bits = 6 => d.bits = 4 /\ d.out = Append(s.out, ByteAbove(d.buffer, 4))
  BY <1>2
<1>7. s.bits = 4 => d.bits = 2 /\ d.out = Append(s.out, ByteAbove(d.buffer, 2))
  BY <1>2
<1>8. s.bits = 2 => d.bits = 0 /\ d.out = Append(s.out, ByteAbove(d.buffer, 0))
  BY <1>2
<1> QED
  BY <1>2, <1>3, <1>4, <1>6, <1>7, <1>8 DEF Took

\* After a group the guest has what it stands for, and goes on or is done.
AfterGroup(s, g, d) ==
    /\ d \in Decoder /\ d.ok /\ d.out = s.out \o Meaning(g)
    /\ g[4] # PAD => Open(d) /\ d.bits = 0
    /\ g[4] = PAD => d.done

LEMMA GuestGroup ==
    ASSUME NEW s, Open(s), s.bits = 0, NEW g \in Group, NEW d1, NEW d2, NEW d3, NEW d4,
           d1 = DecodeCharacter(s, g[1]), d2 = DecodeCharacter(d1, g[2]),
           d3 = DecodeCharacter(d2, g[3]), d4 = DecodeCharacter(d3, g[4])
    PROVE  AfterGroup(s, g, d4)
<1> DEFINE a == Byte1(g[1], g[2])
           b == Byte2(g[2], g[3])
           c == Byte3(g[3], g[4])
<1>1. /\ g[1] \in Digit /\ g[2] \in Digit /\ (g[3] = PAD => g[4] = PAD)
      /\ g[3] # PAD => g[3] \in Digit
      /\ g[4] # PAD => g[4] \in Digit
  BY GroupDigits DEF Group
<1>2. s.buffer \in Buffer /\ s.out \in Seq(Byte)
  BY DEF Open, Decoder
<1>3. /\ Open(d1) /\ d1.buffer \in Buffer /\ IsShift(s.buffer, g[1], d1.buffer)
      /\ d1.bits = 6 /\ d1.out = s.out
  <2>1. Took(s, g[1], d1)
    BY <1>1, TakesDigit
  <2> QED
    BY <2>1 DEF Took
<1>4. /\ Open(d2) /\ d2.buffer \in Buffer /\ IsShift(d1.buffer, g[2], d2.buffer)
      /\ d2.bits = 4 /\ d2.out = Append(d1.out, ByteAbove(d2.buffer, 4))
  <2>1. Took(d1, g[2], d2)
    BY <1>1, <1>3, TakesDigit
  <2> QED
    BY <1>3, <2>1 DEF Took
<1>5. ByteAbove(d2.buffer, 4) = a
  BY <1>1, <1>2, <1>3, <1>4, FirstOut
<1>6. a \in Byte /\ (g[3] # PAD => b \in Byte) /\ (g[4] # PAD => c \in Byte)
  BY <1>1, ByteTyped
<1>7. d2.out = Append(s.out, a)
  BY <1>3, <1>4, <1>5
<1>8. CASE g[3] = PAD
  <2>1. d3 \in Decoder /\ d3.done /\ d3.ok /\ d3.out = d2.out
    BY <1>4, <1>8, DecodesPadding
  <2>2. d4 = d3
    BY <2>1, DecodesNothing
  <2>3. Meaning(g) = <<a>>
    BY <1>8 DEF Meaning
  <2> HIDE DEF a, b, c
  <2>3a. Append(s.out, a) = s.out \o <<a>>
    BY <1>2, <1>6, OneByteMore
  <2>4. d4.out = s.out \o Meaning(g)
    BY <1>2, <1>6, <1>7, <2>1, <2>2, <2>3, <2>3a
  <2> QED
    BY <1>1, <1>8, <2>1, <2>2, <2>4 DEF AfterGroup
<1>9. ASSUME g[3] # PAD
      PROVE  /\ Open(d3) /\ d3.buffer \in Buffer /\ IsShift(d2.buffer, g[3], d3.buffer)
             /\ d3.bits = 2 /\ d3.out = Append(Append(s.out, a), b)
  <2>1. /\ Open(d3) /\ d3.buffer \in Buffer /\ IsShift(d2.buffer, g[3], d3.buffer)
        /\ d3.bits = 2 /\ d3.out = Append(d2.out, ByteAbove(d3.buffer, 2))
    <3>1. g[3] \in Digit /\ Open(d2)
      BY <1>1, <1>4, <1>9
    <3>2. Took(d2, g[3], d3)
      BY <3>1, TakesDigit
    <3> QED
      BY <1>4, <3>2 DEF Took
  <2>2. ByteAbove(d3.buffer, 2) = b
    BY <1>1, <1>3, <1>4, <1>9, <2>1, SecondOut
  <2> QED
    BY <1>7, <2>1, <2>2
<1>10. CASE g[3] # PAD /\ g[4] = PAD
  <2>1. d4 \in Decoder /\ d4.done /\ d4.ok /\ d4.out = d3.out
    BY <1>9, <1>10, DecodesPadding
  <2>3. Meaning(g) = <<a, b>>
    BY <1>10 DEF Meaning
  <2> HIDE DEF a, b, c
  <2>3a. Append(Append(s.out, a), b) = s.out \o <<a, b>>
    BY <1>2, <1>6, <1>10, TwoBytesMore
  <2>4. d4.out = s.out \o Meaning(g)
    BY <1>2, <1>6, <1>9, <1>10, <2>1, <2>3, <2>3a
  <2> QED
    BY <1>10, <2>1, <2>4 DEF AfterGroup
<1>11. CASE g[3] # PAD /\ g[4] # PAD
  <2>1. /\ Open(d4) /\ d4 \in Decoder /\ IsShift(d3.buffer, g[4], d4.buffer)
        /\ d4.bits = 0 /\ d4.out = Append(d3.out, ByteAbove(d4.buffer, 0))
    <3>1. g[4] \in Digit /\ Open(d3) /\ d3.bits = 2
      BY <1>1, <1>9, <1>11
    <3>2. Took(d3, g[4], d4)
      BY <3>1, TakesDigit
    <3> QED
      BY <3>1, <3>2 DEF Took
  <2>2. ByteAbove(d4.buffer, 0) = c
    BY <1>1, <1>4, <1>9, <1>11, <2>1, ThirdOut
  <2>3. Meaning(g) = <<a, b, c>>
    BY <1>11 DEF Meaning
  <2>5. d4.out = Append(Append(Append(s.out, a), b), c)
    BY <1>9, <1>11, <2>1, <2>2
  <2> HIDE DEF a, b, c
  <2>3a. Append(Append(Append(s.out, a), b), c) = s.out \o <<a, b, c>>
    <3>1. b \in Byte /\ c \in Byte
      BY <1>6, <1>11
    <3> QED
      BY <1>2, <1>6, <3>1, ThreeBytesMore
  <2>4. d4.out = s.out \o Meaning(g)
    BY <1>2, <1>6, <1>11, <2>5, <2>3, <2>3a
  <2>6. d4.ok
    BY <2>1 DEF Open
  <2> QED
    BY <1>11, <2>1, <2>4, <2>6 DEF AfterGroup
<1> QED
  BY <1>8, <1>10, <1>11

\* The encoder, one group: the digits of three bytes are ones whose bytes they are.
AreDigits(n, v1, v2, v3, v4) ==
    /\ n \div 262144 = v1 /\ (n \div 4096) % 64 = v2
    /\ (n \div 64) % 64 = v3 /\ n % 64 = v4

AreBytes(v1, v2, v3, v4, a, b, c) ==
    Byte1(v1, v2) = a /\ Byte2(v2, v3) = b /\ Byte3(v3, v4) = c

LEMMA DigitsOfBytes ==
    ASSUME NEW a \in Byte, NEW b \in Byte, NEW c \in Byte,
           NEW n, n = (a * 256 + b) * 256 + c
    PROVE  \E v1, v2, v3, v4 \in Digit :
              AreDigits(n, v1, v2, v3, v4) /\ AreBytes(v1, v2, v3, v4, a, b, c)
<1> DEFINE a1 == a \div 4
           a2 == a % 4
           b1 == b \div 16
           b2 == b % 16
           c1 == c \div 64
           c2 == c % 64
<1>1. /\ a1 \in 0..63 /\ a2 \in 0..3 /\ a = 4 * a1 + a2
      /\ b1 \in 0..15 /\ b2 \in 0..15 /\ b = 16 * b1 + b2
      /\ c1 \in 0..3 /\ c2 \in 0..63 /\ c = 64 * c1 + c2
  BY SMT DEF Byte
<1> HIDE DEF a1, a2, b1, b2, c1, c2
<1> DEFINE v2 == 16 * a2 + b1
           v3 == 4 * b2 + c1
<1>2. v2 \in 0..63 /\ v3 \in 0..63
  BY <1>1
<1>3. n = 262144 * a1 + 4096 * v2 + 64 * v3 + c2
  BY <1>1
<1>4. a1 * 4 + v2 \div 16 = a /\ (v2 % 16) * 16 + v3 \div 4 = b /\ (v3 % 4) * 64 + c2 = c
  <2>1. v2 \div 16 = a2
    BY <1>1
  <2>2. v2 % 16 = b1
    BY <1>1
  <2>3. v3 \div 4 = b2
    BY <1>1
  <2>4. v3 % 4 = c1
    BY <1>1
  <2> HIDE DEF v2, v3
  <2> QED
    BY <1>1, <2>1, <2>2, <2>3, <2>4
<1> HIDE DEF v2, v3
<1>5. n \div 262144 = a1
  BY <1>1, <1>2, <1>3
<1>6. (n \div 4096) % 64 = v2
  <2>1. n \div 4096 = 64 * a1 + v2
    BY <1>1, <1>2, <1>3
  <2> QED
    BY <1>1, <1>2, <2>1
<1>7. (n \div 64) % 64 = v3
  <2>1. n \div 64 = 4096 * a1 + 64 * v2 + v3
    BY <1>1, <1>2, <1>3
  <2> QED
    BY <1>1, <1>2, <2>1
<1>8. n % 64 = c2
  BY <1>1, <1>2, <1>3
<1>9. a1 \in Digit /\ v2 \in Digit /\ v3 \in Digit /\ c2 \in Digit
  BY <1>1, <1>2 DEF Digit
<1>10. AreBytes(a1, v2, v3, c2, a, b, c)
  BY <1>4 DEF Byte1, Byte2, Byte3, AreBytes
<1>11. AreDigits(n, a1, v2, v3, c2)
  BY <1>5, <1>6, <1>7, <1>8 DEF AreDigits
<1> QED
  BY <1>9, <1>10, <1>11

\* What is encoded of one to three bytes stands for them, and is padded if they are less
\* than three.
Encodes(g, bytes) ==
    /\ g \in Group /\ Meaning(g) = bytes
    /\ g[4] # PAD <=> Len(bytes) = 3

LEMMA EncodedGroup ==
    ASSUME NEW bytes \in Seq(Byte), Len(bytes) \in 1..3
    PROVE  Encodes(EncodeGroup(bytes), bytes)
<1> DEFINE a == bytes[1]
           b == ByteOrZero(bytes, 2)
           c == ByteOrZero(bytes, 3)
<1>1. 0 \in Byte
  BY DEF Byte
<1>2. a \in Byte
  OBVIOUS
<1>3. b \in Byte /\ (Len(bytes) > 1 => b = bytes[2])
  BY <1>1 DEF ByteOrZero
<1>4. c \in Byte /\ (Len(bytes) > 2 => c = bytes[3])
  BY <1>1 DEF ByteOrZero
<1> DEFINE n == Combined(bytes)
<1>5. n = (a * 256 + b) * 256 + c
  BY DEF Combined
<1> HIDE DEF a, b, c, n
<1>6. PICK v1, v2, v3, v4 \in Digit :
         AreDigits(n, v1, v2, v3, v4) /\ AreBytes(v1, v2, v3, v4, a, b, c)
  BY <1>2, <1>3, <1>4, <1>5, DigitsOfBytes
<1> DEFINE w3 == IF Len(bytes) > 1 THEN v3 ELSE PAD
           w4 == IF Len(bytes) > 2 THEN v4 ELSE PAD
           g == <<v1, v2, w3, w4>>
<1>7. EncodeGroup(bytes) = g
  <2>1. EncodeGroup(bytes) = << n \div 262144, (n \div 4096) % 64,
                                IF Len(bytes) > 1 THEN (n \div 64) % 64 ELSE PAD,
                                IF Len(bytes) > 2 THEN n % 64 ELSE PAD >>
    BY DEF EncodeGroup, n
  <2> QED
    BY <1>6, <2>1 DEF AreDigits
<1>8. \A v \in Digit : v \in 0..PAD /\ v # PAD
  BY DEF Digit, PAD
<1>9. PAD \in 0..PAD
  BY DEF PAD
<1>9a. v3 \in 0..PAD /\ v3 # PAD /\ v4 \in 0..PAD /\ v4 # PAD
  BY <1>8
<1>9b. PICK k \in 1..3 : k = Len(bytes)
  OBVIOUS
<1>9c. w3 = (IF k > 1 THEN v3 ELSE PAD) /\ w4 = (IF k > 2 THEN v4 ELSE PAD)
  BY <1>9b
<1>9d. /\ w3 \in 0..PAD /\ w4 \in 0..PAD
       /\ w3 = PAD <=> k = 1
       /\ w4 # PAD <=> k = 3
  <2> HIDE DEF w3, w4
  <2>1. CASE k = 1
    BY <1>9, <1>9a, <1>9c, <2>1
  <2>2. CASE k = 2
    BY <1>9, <1>9a, <1>9c, <2>2
  <2>3. CASE k = 3
    BY <1>9, <1>9a, <1>9c, <2>3
  <2> QED
    BY <2>1, <2>2, <2>3
<1>10. /\ w3 \in 0..PAD /\ w4 \in 0..PAD
       /\ w3 = PAD <=> Len(bytes) = 1
       /\ w4 # PAD <=> Len(bytes) = 3
  BY <1>9b, <1>9d
<1> HIDE DEF w3, w4
<1>11. /\ g \in Seq(0..PAD) /\ Len(g) = 4
       /\ g[1] = v1 /\ g[2] = v2 /\ g[3] = w3 /\ g[4] = w4
  BY <1>8, <1>10
<1> HIDE DEF g
<1>12. g \in Group
  BY <1>8, <1>10, <1>11 DEF Group
<1>13. CASE Len(bytes) = 1
  <2>1. bytes = <<a>>
    BY <1>13 DEF a
  <2>2. Meaning(g) = <<Byte1(v1, v2)>>
    BY <1>10, <1>11, <1>13 DEF Meaning
  <2> QED
    BY <1>6, <1>7, <1>10, <1>11, <1>12, <2>1, <2>2 DEF Encodes, AreBytes
<1>14. CASE Len(bytes) = 2
  <2>1. bytes = <<a, b>>
    BY <1>3, <1>14 DEF a
  <2>2. w3 = v3 /\ w3 # PAD /\ w4 = PAD
    BY <1>10, <1>14 DEF w3
  <2>3. Meaning(g) = <<Byte1(v1, v2), Byte2(v2, v3)>>
    BY <1>11, <2>2 DEF Meaning
  <2> QED
    BY <1>6, <1>7, <1>10, <1>11, <1>12, <2>1, <2>3 DEF Encodes, AreBytes
<1>15. CASE Len(bytes) = 3
  <2>1. bytes = <<a, b, c>>
    BY <1>3, <1>4, <1>15 DEF a
  <2>2. w3 = v3 /\ w3 # PAD /\ w4 = v4 /\ w4 # PAD
    BY <1>10, <1>15 DEF w3, w4
  <2>3. Meaning(g) = <<Byte1(v1, v2), Byte2(v2, v3), Byte3(v3, v4)>>
    BY <1>11, <2>2 DEF Meaning
  <2> QED
    BY <1>6, <1>7, <1>10, <1>11, <1>12, <2>1, <2>3 DEF Encodes, AreBytes
<1> QED
  BY <1>13, <1>14, <1>15

\* What is written one part after another, and what the guest's decoder makes of a text.
JoinedBy(w, parts, S) ==
    /\ w \in [0 .. Len(parts) -> Seq(S)] /\ w[0] = <<>>
    /\ \A i \in 1 .. Len(parts) : w[i] = w[i - 1] \o parts[i]

DecodedBy(a, text) ==
    /\ a \in [0 .. Len(text) -> Decoder] /\ a[0] = NewDecoder
    /\ \A i \in 1 .. Len(text) : a[i] = DecodeCharacter(a[i - 1], text[i])

LEMMA ConcatenatedUnfolds ==
    ASSUME NEW S, NEW parts \in Seq(Seq(S))
    PROVE  \E w : JoinedBy(w, parts, S) /\ Concatenated(parts) = w[Len(parts)]
<1> DEFINE n == Len(parts)
           V == Seq(S)
           base == <<>>
           After(before, i) == before \o parts[i]
           next == [i \in 0 .. n |->
                      [before \in V |-> IF i < n THEN After(before, i + 1) ELSE before]]
           Def(h) == h = [i \in 0 .. n |-> IF i = 0 THEN base ELSE After(h[i - 1], i)]
<1>1. \A i \in 1 .. n, before \in V : After(before, i) \in V
  <2> TAKE i \in 1 .. n, before \in V
  <2>1. parts[i] \in Seq(S)
    OBVIOUS
  <2> QED
    BY <2>1
<1>2. Concatenated(parts) = (CHOOSE h : Def(h))[n]
  BY DEF Concatenated
<1>3. n \in Nat /\ base \in V
  BY LenProperties
<1> HIDE DEF After, n, V, base
<1>4. next \in StepFunctions(n, V)
  BY <1>1, <1>3 DEF StepFunctions
<1>5. \A i \in 0 .. (n - 1), before \in V : next[i][before] = After(before, i + 1)
  BY <1>3
<1> HIDE DEF next
<1>6. \E h : Def(h)
  <2>1. PICK f : Follows(f, n, V, base, next)
    BY <1>3, <1>4, Recursion
  <2>2. f \in [0 .. n -> V] /\ f[0] = base
    BY <2>1 DEF Follows
  <2>3. \A i \in 1 .. n : f[i] = After(f[i - 1], i)
    <3> TAKE i \in 1 .. n
    <3> DEFINE j == i - 1
    <3>1. j \in 0 .. (n - 1) /\ j + 1 = i
      BY <1>3
    <3> HIDE DEF j
    <3>2. f[j + 1] = next[j][f[j]] /\ f[j] \in V
      BY <1>3, <2>1, <2>2, <3>1 DEF Follows
    <3>3. f[i] = After(f[j], i)
      BY <1>5, <3>1, <3>2
    <3> QED
      BY <3>3 DEF j
  <2>4. Def(f)
    BY <1>3, <2>2, <2>3
  <2> QED
    BY <2>4
<1>7. PICK h : h = (CHOOSE g : Def(g)) /\ Def(h)
  BY <1>6
<1>8. \A i \in 0 .. (n - 1) : h[i + 1] = After(h[i], i + 1)
  <2> TAKE i \in 0 .. (n - 1)
  <2> DEFINE j == i + 1
  <2>1. j \in 0 .. n /\ j # 0 /\ j - 1 = i
    BY <1>3
  <2> HIDE DEF j
  <2>2. h[j] = After(h[j - 1], j)
    BY <1>7, <2>1, Zenon
  <2> QED
    BY <2>1, <2>2 DEF j
<1>9. h = [i \in 0 .. n |-> h[i]] /\ h[0] = base
  <2>1. 0 \in 0 .. n
    BY <1>3
  <2>2. h = [i \in 0 .. n |-> IF i = 0 THEN base ELSE After(h[i - 1], i)]
    BY <1>7, Zenon
  <2> QED
    BY <2>1, <2>2, Zenon
<1>10. \A i \in 0 .. (n - 1) : h[i] \in V => h[i + 1] = next[i][h[i]]
  BY <1>5, <1>8
<1> HIDE DEF Def
<1>11. Follows(h, n, V, base, next)
  BY <1>3, <1>4, <1>9, <1>10, Unfolding
<1>12. h \in [0 .. n -> V] /\ \A i \in 1 .. n : h[i] = After(h[i - 1], i)
  <2>1. h \in [0 .. n -> V]
    BY <1>11 DEF Follows
  <2>2. ASSUME NEW i \in 1 .. n PROVE h[i] = After(h[i - 1], i)
    <3> DEFINE j == i - 1
    <3>1. j \in 0 .. (n - 1) /\ j + 1 = i
      BY <1>3
    <3> HIDE DEF j
    <3>2. h[i] = After(h[j], i)
      BY <1>8, <3>1
    <3> QED
      BY <3>2 DEF j
  <2> QED
    BY <2>1, <2>2
<1>13. Concatenated(parts) = h[n]
  BY <1>2, <1>7
<1> QED
  BY <1>9, <1>12, <1>13 DEF JoinedBy, n, V, base, After

LEMMA NewDecoderTyped ==
    /\ NewDecoder \in Decoder /\ Open(NewDecoder)
    /\ NewDecoder.bits = 0 /\ NewDecoder.out = <<>>
  BY DEF NewDecoder, Open, Decoder, Buffer, Fourteen

LEMMA GuestDecodeUnfolds ==
    ASSUME NEW text \in Seq(Character)
    PROVE  \E a : /\ DecodedBy(a, text)
                 /\ GuestDecode(text) = [ok |-> a[Len(text)].ok,
                                         bytes |-> IF a[Len(text)].ok THEN a[Len(text)].out
                                                   ELSE <<>>]
<1> DEFINE n == Len(text)
           V == Decoder
           base == NewDecoder
           After(before, i) == DecodeCharacter(before, text[i])
           next == [i \in 0 .. n |->
                      [before \in V |-> IF i < n THEN After(before, i + 1) ELSE before]]
           Def(h) == h = [i \in 0 .. n |-> IF i = 0 THEN base ELSE After(h[i - 1], i)]
<1>1. \A i \in 1 .. n, before \in V : After(before, i) \in V
  <2> TAKE i \in 1 .. n, before \in V
  <2>1. text[i] \in Character
    OBVIOUS
  <2> QED
    BY <2>1, DecoderTyped
<1>2. LET end == (CHOOSE h : Def(h))[n]
      IN  GuestDecode(text) = [ok |-> end.ok, bytes |-> IF end.ok THEN end.out ELSE <<>>]
  BY Zenon DEF GuestDecode
<1>3. n \in Nat /\ base \in V
  BY LenProperties, NewDecoderTyped
<1> HIDE DEF After, n, V, base
<1>4. next \in StepFunctions(n, V)
  BY <1>1, <1>3 DEF StepFunctions
<1>5. \A i \in 0 .. (n - 1), before \in V : next[i][before] = After(before, i + 1)
  BY <1>3
<1> HIDE DEF next
<1>6. \E h : Def(h)
  <2>1. PICK f : Follows(f, n, V, base, next)
    BY <1>3, <1>4, Recursion
  <2>2. f \in [0 .. n -> V] /\ f[0] = base
    BY <2>1 DEF Follows
  <2>3. \A i \in 1 .. n : f[i] = After(f[i - 1], i)
    <3> TAKE i \in 1 .. n
    <3> DEFINE j == i - 1
    <3>1. j \in 0 .. (n - 1) /\ j + 1 = i
      BY <1>3
    <3> HIDE DEF j
    <3>2. f[j + 1] = next[j][f[j]] /\ f[j] \in V
      BY <1>3, <2>1, <2>2, <3>1 DEF Follows
    <3>3. f[i] = After(f[j], i)
      BY <1>5, <3>1, <3>2
    <3> QED
      BY <3>3 DEF j
  <2>4. Def(f)
    BY <1>3, <2>2, <2>3
  <2> QED
    BY <2>4
<1>7. PICK h : h = (CHOOSE g : Def(g)) /\ Def(h)
  BY <1>6
<1>8. \A i \in 0 .. (n - 1) : h[i + 1] = After(h[i], i + 1)
  <2> TAKE i \in 0 .. (n - 1)
  <2> DEFINE j == i + 1
  <2>1. j \in 0 .. n /\ j # 0 /\ j - 1 = i
    BY <1>3
  <2> HIDE DEF j
  <2>2. h[j] = After(h[j - 1], j)
    BY <1>7, <2>1, Zenon
  <2> QED
    BY <2>1, <2>2 DEF j
<1>9. h = [i \in 0 .. n |-> h[i]] /\ h[0] = base
  <2>1. 0 \in 0 .. n
    BY <1>3
  <2>2. h = [i \in 0 .. n |-> IF i = 0 THEN base ELSE After(h[i - 1], i)]
    BY <1>7, Zenon
  <2> QED
    BY <2>1, <2>2, Zenon
<1>10. \A i \in 0 .. (n - 1) : h[i] \in V => h[i + 1] = next[i][h[i]]
  BY <1>5, <1>8
<1> HIDE DEF Def
<1>11. Follows(h, n, V, base, next)
  BY <1>3, <1>4, <1>9, <1>10, Unfolding
<1>12. h \in [0 .. n -> V] /\ \A i \in 1 .. n : h[i] = After(h[i - 1], i)
  <2>1. h \in [0 .. n -> V]
    BY <1>11 DEF Follows
  <2>2. ASSUME NEW i \in 1 .. n PROVE h[i] = After(h[i - 1], i)
    <3> DEFINE j == i - 1
    <3>1. j \in 0 .. (n - 1) /\ j + 1 = i
      BY <1>3
    <3> HIDE DEF j
    <3>2. h[i] = After(h[j], i)
      BY <1>8, <3>1
    <3> QED
      BY <3>2 DEF j
  <2> QED
    BY <2>1, <2>2
<1>13. GuestDecode(text) = [ok |-> h[n].ok, bytes |-> IF h[n].ok THEN h[n].out ELSE <<>>]
  BY <1>2, <1>7
<1> QED
  BY <1>9, <1>12, <1>13 DEF DecodedBy, n, V, base, After

\* Parts that are the pieces of a sequence, up to the places e, are together that sequence.
PiecesOf(parts, t, e) ==
    /\ e \in [0 .. Len(parts) -> Nat] /\ e[0] = 0 /\ e[Len(parts)] = Len(t)
    /\ \A i \in 1 .. Len(parts) :
          /\ e[i] = e[i - 1] + Len(parts[i])
          /\ \A j \in 1 .. Len(parts[i]) : parts[i][j] = t[e[i - 1] + j]

LEMMA PiecesJoin ==
    ASSUME NEW S, NEW parts \in Seq(Seq(S)), NEW t \in Seq(S), NEW e, PiecesOf(parts, t, e)
    PROVE  Concatenated(parts) = t
<1> DEFINE m == Len(parts)
<1>1. PICK w : JoinedBy(w, parts, S) /\ Concatenated(parts) = w[m]
  BY ConcatenatedUnfolds
<1>2. m \in Nat
  OBVIOUS
<1>3. /\ w \in [0 .. m -> Seq(S)] /\ w[0] = <<>>
      /\ \A i \in 1 .. m : w[i] = w[i - 1] \o parts[i]
  BY <1>1 DEF JoinedBy
<1>4. /\ e \in [0 .. m -> Nat] /\ e[0] = 0 /\ e[m] = Len(t)
      /\ \A i \in 1 .. m :
            /\ e[i] = e[i - 1] + Len(parts[i])
            /\ \A j \in 1 .. Len(parts[i]) : parts[i][j] = t[e[i - 1] + j]
  BY DEF PiecesOf
<1>5. \A i \in 1 .. m : parts[i] \in Seq(S)
  OBVIOUS
<1> HIDE DEF m
<1> DEFINE Agrees(i) == Len(w[i]) = e[i] /\ \A k \in 1 .. e[i] : w[i][k] = t[k]
           I == {i \in 0 .. m : Agrees(i)}
<1>6. 0 \in I
  <2>1. Agrees(0)
    BY <1>3, <1>4
  <2> QED
    BY <1>2, <2>1
<1>7. ASSUME NEW i \in 0 .. (m - 1), i \in I PROVE i + 1 \in I
  <2>1. Agrees(i)
    BY <1>7
  <2>2. PICK n : n = i + 1 /\ n \in 1 .. m /\ n - 1 = i /\ i \in 0 .. m /\ n \in 0 .. m
    BY <1>2
  <2>3. PICK p \in Seq(S) : p = parts[n]
    BY <1>5, <2>2
  <2>4. PICK v \in Seq(S) : v = w[i]
    BY <1>3, <2>2
  <2>5. PICK u \in Seq(S) : u = w[n]
    BY <1>3, <2>2
  <2>6. u = v \o p
    BY <1>3, <2>2, <2>3, <2>4, <2>5
  <2>7. IsSeq(v) /\ IsSeq(p)
    BY DEF IsSeq
  <2>8. IsJoin(u, v, p)
    BY <2>6, <2>7, JoinAt
  <2>9. /\ e[i] \in Nat /\ e[n] = e[i] + Len(p)
        /\ \A j \in 1 .. Len(p) : p[j] = t[e[i] + j]
    BY <1>4, <2>2, <2>3
  <2>10. Len(v) = e[i] /\ \A k \in 1 .. e[i] : v[k] = t[k]
    BY <2>1, <2>4
  <2> HIDE DEF Agrees
  <2>11. Len(u) = e[n]
    BY <2>8, <2>9, <2>10 DEF IsJoin
  <2>12. ASSUME NEW k \in 1 .. e[n] PROVE u[k] = t[k]
    <3>1. k \in 1 .. Len(v) \/ \E j \in 1 .. Len(p) : k = Len(v) + j
      BY <2>8, <2>11 DEF IsJoin
    <3>2. CASE k \in 1 .. Len(v)
      BY <2>8, <2>10, <3>2 DEF IsJoin
    <3>3. CASE \E j \in 1 .. Len(p) : k = Len(v) + j
      <4>1. PICK j \in 1 .. Len(p) : k = Len(v) + j
        BY <3>3
      <4>2. u[k] = p[j]
        BY <2>8, <4>1 DEF IsJoin
      <4> QED
        BY <2>9, <2>10, <4>1, <4>2
    <3> QED
      BY <3>1, <3>2, <3>3
  <2>13. Agrees(n)
    BY <2>5, <2>11, <2>12 DEF Agrees
  <2> QED
    BY <2>2, <2>13
<1>8. Agrees(m)
  <2> HIDE DEF I
  <2>1. 0 .. m \subseteq I
    BY <1>2, <1>6, <1>7, InductionUpTo
  <2>2. m \in I
    BY <1>2, <2>1
  <2> QED
    BY <2>2 DEF I
<1>9. w[m] \in Seq(S)
  BY <1>2, <1>3
<1>10. PICK u \in Seq(S) : u = w[m]
  BY <1>9
<1>11. Len(u) = Len(t) /\ \A k \in 1 .. Len(u) : u[k] = t[k]
  BY <1>4, <1>8, <1>10
<1>12. u = t
  BY <1>11, SeqEqual
<1> QED
  BY <1>1, <1>10, <1>12

LEMMA Piece ==
    ASSUME NEW S, NEW s \in Seq(S), NEW lo \in Nat, NEW hi \in Nat, lo < hi, hi <= Len(s)
    PROVE  /\ SubSeq(s, lo + 1, hi) \in Seq(S) /\ Len(SubSeq(s, lo + 1, hi)) = hi - lo
           /\ \A j \in 1 .. hi - lo : SubSeq(s, lo + 1, hi)[j] = s[lo + j]
<1>1. \A i \in lo + 1 .. hi : s[i] \in S
  OBVIOUS
<1> DEFINE u == SubSeq(s, lo + 1, hi)
<1>2. /\ u \in Seq(S)
      /\ Len(u) = IF lo + 1 <= hi THEN hi - (lo + 1) + 1 ELSE 0
      /\ \A j \in 1 .. hi - (lo + 1) + 1 : u[j] = s[lo + 1 + j - 1]
  BY <1>1, SubSeqProperties
<1> HIDE DEF u
<1>3. Len(u) = hi - lo
  BY <1>2
<1>4. \A j \in 1 .. hi - lo : u[j] = s[lo + j]
  <2> TAKE j \in 1 .. hi - lo
  <2>1. j \in 1 .. hi - (lo + 1) + 1 /\ lo + 1 + j - 1 = lo + j
    OBVIOUS
  <2> QED
    BY <1>2, <2>1
<1> QED
  BY <1>2, <1>3, <1>4 DEF u

LEMMA LeastOfTwo ==
    ASSUME NEW a \in Int, NEW b \in Int
    PROVE  Min({a, b}) = IF a <= b THEN a ELSE b
<1>1. {a, b} = {a, b, b}
  OBVIOUS
<1>2. Min({a, b, b}) \in {a, b, b} /\ Min({a, b, b}) <= a /\ Min({a, b, b}) <= b
  BY LeastOfThree
<1>3. PICK x : x = Min({a, b, b})
  OBVIOUS
<1>4. x \in {a, b} /\ x <= a /\ x <= b
  BY <1>2, <1>3
<1>5. x = IF a <= b THEN a ELSE b
  BY <1>4
<1> QED
  BY <1>1, <1>3, <1>5

\* A text in groups of four characters, and bytes in groups of three.
InFours(c, text, m, S) ==
    /\ c \in Seq(Seq(S)) /\ Len(c) = m
    /\ \A i \in 1 .. m :
          Len(c[i]) = 4 /\ \A j \in 1 .. 4 : c[i][j] = text[4 * (i - 1) + j]

InThrees(c, bytes, m, S) ==
    /\ c \in Seq(Seq(S)) /\ Len(c) = m /\ Len(bytes) <= 3 * m /\ 3 * m < Len(bytes) + 3
    /\ \A i \in 1 .. m :
          /\ Len(c[i]) = IF i < m THEN 3 ELSE Len(bytes) - 3 * (m - 1)
          /\ \A j \in 1 .. Len(c[i]) : c[i][j] = bytes[3 * (i - 1) + j]

LEMMA ChunksOfFour ==
    ASSUME NEW S, NEW text \in Seq(S), NEW m \in Nat, Len(text) = 4 * m
    PROVE  InFours(Chunks(text, 4), text, m, S)
<1> DEFINE c == Chunks(text, 4)
           Chunk(i) == SubSeq(text, (i - 1) * 4 + 1, Min({i * 4, Len(text)}))
<1>1. (Len(text) + 4 - 1) \div 4 = m
  OBVIOUS
<1>2. c = [i \in 1 .. m |-> Chunk(i)]
  BY <1>1 DEF Chunks
<1>3. ASSUME NEW i \in 1 .. m
      PROVE  /\ Chunk(i) \in Seq(S) /\ Len(Chunk(i)) = 4
             /\ \A j \in 1 .. 4 : Chunk(i)[j] = text[4 * (i - 1) + j]
  <2>1. PICK lo \in Nat : lo = (i - 1) * 4 /\ lo = 4 * (i - 1)
    OBVIOUS
  <2>2. PICK hi \in Nat : hi = i * 4 /\ hi <= Len(text) /\ lo < hi /\ hi - lo = 4
    BY <2>1
  <2>3. Min({i * 4, Len(text)}) = hi
    <3>1. hi \in Int /\ Len(text) \in Int
      OBVIOUS
    <3>2. Min({hi, Len(text)}) = IF hi <= Len(text) THEN hi ELSE Len(text)
      BY <3>1, LeastOfTwo
    <3> QED
      BY <2>2, <3>2
  <2>4. Chunk(i) = SubSeq(text, lo + 1, hi)
    BY <2>1, <2>3
  <2>5. /\ SubSeq(text, lo + 1, hi) \in Seq(S) /\ Len(SubSeq(text, lo + 1, hi)) = hi - lo
        /\ \A j \in 1 .. hi - lo : SubSeq(text, lo + 1, hi)[j] = text[lo + j]
    BY <2>2, Piece
  <2> QED
    BY <2>1, <2>2, <2>4, <2>5
<1> HIDE DEF Chunk, c
<1>4. c \in Seq(Seq(S)) /\ Len(c) = m /\ \A i \in 1 .. m : c[i] = Chunk(i)
  <2>1. c \in [1 .. m -> Seq(S)]
    BY <1>2, <1>3
  <2> QED
    BY <1>2, <2>1
<1>5. InFours(c, text, m, S)
  BY <1>3, <1>4 DEF InFours
<1> QED
  BY <1>5 DEF c

LEMMA ChunksOfThree ==
    ASSUME NEW S, NEW bytes \in Seq(S), NEW m, m = (Len(bytes) + 2) \div 3
    PROVE  m \in Nat /\ InThrees(Chunks(bytes, 3), bytes, m, S)
<1> DEFINE c == Chunks(bytes, 3)
           n == Len(bytes)
           Chunk(i) == SubSeq(bytes, (i - 1) * 3 + 1, Min({i * 3, n}))
<1>0. n \in Nat
  OBVIOUS
<1>1. c = [i \in 1 .. m |-> Chunk(i)]
  <2>1. (n + 3 - 1) \div 3 = m
    OBVIOUS
  <2> QED
    BY <2>1 DEF Chunks
<1>2. m \in Nat /\ n <= 3 * m /\ 3 * m < n + 3
  <2> HIDE DEF n
  <2>1. m = (n + 2) \div 3
    BY DEF n
  <2> QED
    BY <1>0, <2>1
<1>3. ASSUME NEW i \in 1 .. m
      PROVE  /\ Chunk(i) \in Seq(S)
             /\ Len(Chunk(i)) = IF i < m THEN 3 ELSE n - 3 * (m - 1)
             /\ \A j \in 1 .. Len(Chunk(i)) : Chunk(i)[j] = bytes[3 * (i - 1) + j]
  <2>1. PICK lo \in Nat : lo = (i - 1) * 3 /\ lo = 3 * (i - 1)
    BY <1>2
  <2>2. PICK hi \in Nat : hi = IF i < m THEN i * 3 ELSE n
    BY <1>0, <1>2
  <2>3. /\ hi <= n /\ lo < hi
        /\ hi - lo = IF i < m THEN 3 ELSE n - 3 * (m - 1)
        /\ hi = IF i * 3 <= n THEN i * 3 ELSE n
    <3> HIDE DEF n
    <3>1. CASE i < m
      <4>1. hi = i * 3 /\ i + 1 <= m
        BY <1>2, <2>2, <3>1
      <4>2. i * 3 <= n
        BY <1>0, <1>2, <4>1
      <4> QED
        BY <1>0, <1>2, <2>1, <3>1, <4>1, <4>2
    <3>2. CASE ~(i < m)
      <4>1. hi = n /\ i = m
        BY <1>2, <2>2, <3>2
      <4> QED
        BY <1>0, <1>2, <2>1, <3>2, <4>1
    <3> QED
      BY <3>1, <3>2
  <2>4. Min({i * 3, n}) = hi
    <3>1. i * 3 \in Int /\ n \in Int
      BY <1>0
    <3>2. Min({i * 3, n}) = IF i * 3 <= n THEN i * 3 ELSE n
      BY <3>1, LeastOfTwo
    <3> QED
      BY <2>3, <3>2
  <2>5. Chunk(i) = SubSeq(bytes, lo + 1, hi)
    BY <2>1, <2>4
  <2>6. /\ SubSeq(bytes, lo + 1, hi) \in Seq(S) /\ Len(SubSeq(bytes, lo + 1, hi)) = hi - lo
        /\ \A j \in 1 .. hi - lo : SubSeq(bytes, lo + 1, hi)[j] = bytes[lo + j]
    BY <2>3, Piece
  <2> QED
    BY <2>1, <2>3, <2>5, <2>6
<1> HIDE DEF Chunk, c, n
<1>4. c \in Seq(Seq(S)) /\ Len(c) = m /\ \A i \in 1 .. m : c[i] = Chunk(i)
  <2>1. c \in [1 .. m -> Seq(S)]
    BY <1>1, <1>3
  <2> QED
    BY <1>1, <1>2, <2>1
<1>5. InThrees(c, bytes, m, S)
  BY <1>2, <1>3, <1>4 DEF InThrees, n
<1> QED
  BY <1>2, <1>5 DEF c

\* Groups of which only the last is padded.
WellPadded(c, m) == \A i \in 1 .. m : c[i] \in Group /\ (c[i][4] = PAD => i = m)

Meanings(c, m) == [i \in 1 .. m |-> Meaning(c[i])]

LEMMA MeaningsTyped ==
    ASSUME NEW c, NEW m \in Nat, WellPadded(c, m)
    PROVE  /\ Meanings(c, m) \in Seq(Seq(Byte)) /\ Len(Meanings(c, m)) = m
           /\ \A i \in 1 .. m : Meanings(c, m)[i] = Meaning(c[i])
<1>1. \A i \in 1 .. m : Meaning(c[i]) \in Seq(Byte)
  BY MeaningTyped DEF WellPadded
<1>2. Meanings(c, m) \in [1 .. m -> Seq(Byte)]
  BY <1>1 DEF Meanings
<1> QED
  BY <1>2 DEF Meanings

\* The guest's decoder, group by group.
LEMMA GuestFollows ==
    ASSUME NEW text \in Seq(Character), NEW m \in Nat, Len(text) = 4 * m,
           NEW c, InFours(c, text, m, Character), WellPadded(c, m)
    PROVE  GuestDecode(text) = [ok |-> TRUE, bytes |-> Concatenated(Meanings(c, m))]
<1> DEFINE parts == Meanings(c, m)
<1>1. PICK a : /\ DecodedBy(a, text)
               /\ GuestDecode(text) = [ok |-> a[Len(text)].ok,
                                       bytes |-> IF a[Len(text)].ok THEN a[Len(text)].out
                                                 ELSE <<>>]
  BY GuestDecodeUnfolds
<1>2. parts \in Seq(Seq(Byte)) /\ Len(parts) = m /\ \A i \in 1 .. m : parts[i] = Meaning(c[i])
  BY MeaningsTyped
<1> HIDE DEF parts
<1>3. PICK w : JoinedBy(w, parts, Byte) /\ Concatenated(parts) = w[Len(parts)]
  BY <1>2, ConcatenatedUnfolds
<1>4. /\ w \in [0 .. m -> Seq(Byte)] /\ w[0] = <<>>
      /\ \A i \in 1 .. m : w[i] = w[i - 1] \o parts[i]
  BY <1>2, <1>3 DEF JoinedBy
<1>5. /\ a \in [0 .. 4 * m -> Decoder] /\ a[0] = NewDecoder
      /\ \A i \in 1 .. 4 * m : a[i] = DecodeCharacter(a[i - 1], text[i])
  BY <1>1 DEF DecodedBy
<1> DEFINE Agrees(i) ==
             /\ a[4 * i] \in Decoder /\ a[4 * i].ok /\ a[4 * i].out = w[i]
             /\ i < m => Open(a[4 * i]) /\ a[4 * i].bits = 0
           I == {i \in 0 .. m : Agrees(i)}
<1>6. 0 \in I
  <2>1. a[4 * 0] = NewDecoder
    BY <1>5
  <2>2. NewDecoder.ok
    BY DEF NewDecoder
  <2>3. Agrees(0)
    BY <1>4, <2>1, <2>2, NewDecoderTyped
  <2> QED
    BY <2>3
<1>7. ASSUME NEW i \in 0 .. (m - 1), i \in I PROVE i + 1 \in I
  <2>1. Agrees(i)
    BY <1>7
  <2>2. PICK n : n = i + 1 /\ n \in 1 .. m /\ n - 1 = i
    OBVIOUS
  <2>3. PICK k : k = 4 * i /\ k \in Nat /\ k + 4 = 4 * n /\ k + 4 <= 4 * m
    BY <2>2
  <2>4. /\ a[k + 1] = DecodeCharacter(a[k], text[k + 1])
        /\ a[k + 2] = DecodeCharacter(a[k + 1], text[k + 2])
        /\ a[k + 3] = DecodeCharacter(a[k + 2], text[k + 3])
        /\ a[k + 4] = DecodeCharacter(a[k + 3], text[k + 4])
    <3>1. /\ k + 1 \in 1 .. 4 * m /\ k + 2 \in 1 .. 4 * m /\ k + 3 \in 1 .. 4 * m
          /\ k + 4 \in 1 .. 4 * m
          /\ (k + 1) - 1 = k /\ (k + 2) - 1 = k + 1 /\ (k + 3) - 1 = k + 2 /\ (k + 4) - 1 = k + 3
      BY <2>3
    <3> QED
      BY <1>5, <3>1
  <2>5. PICK g : g = c[n] /\ g \in Group /\ (g[4] = PAD => n = m)
    BY <2>2 DEF WellPadded
  <2>6. /\ g[1] = text[k + 1] /\ g[2] = text[k + 2] /\ g[3] = text[k + 3]
        /\ g[4] = text[k + 4]
    BY <2>2, <2>3, <2>5 DEF InFours
  <2>7. Open(a[k]) /\ a[k].bits = 0 /\ a[k].out = w[i]
    BY <2>1, <2>3
  <2> HIDE DEF Agrees
  <2>8. PICK s, d1, d2, d3, d4 :
           /\ s = a[k] /\ d1 = a[k + 1] /\ d2 = a[k + 2] /\ d3 = a[k + 3] /\ d4 = a[k + 4]
    OBVIOUS
  <2>9. /\ d1 = DecodeCharacter(s, g[1]) /\ d2 = DecodeCharacter(d1, g[2])
        /\ d3 = DecodeCharacter(d2, g[3]) /\ d4 = DecodeCharacter(d3, g[4])
    BY <2>4, <2>6, <2>8
  <2>10. Open(s) /\ s.bits = 0
    BY <2>7, <2>8
  <2>11. AfterGroup(s, g, d4)
    BY <2>5, <2>9, <2>10, GuestGroup
  <2>12. w[n] = w[i] \o Meaning(g)
    BY <1>2, <1>4, <2>2, <2>5
  <2>13. d4 \in Decoder /\ d4.ok /\ d4.out = w[n] /\ (n < m => Open(d4) /\ d4.bits = 0)
    <3>1. n < m => g[4] # PAD
      BY <2>2, <2>5
    <3> QED
      BY <2>7, <2>8, <2>11, <2>12, <3>1 DEF AfterGroup
  <2>14. a[4 * n] = d4
    BY <2>3, <2>8
  <2>15. Agrees(n)
    BY <2>13, <2>14 DEF Agrees
  <2> QED
    BY <2>2, <2>15
<1>8. Agrees(m)
  <2> HIDE DEF I
  <2>1. 0 .. m \subseteq I
    BY <1>6, <1>7, InductionUpTo
  <2>2. m \in I
    BY <2>1
  <2> QED
    BY <2>2 DEF I
<1>9. a[Len(text)].ok /\ a[Len(text)].out = Concatenated(parts)
  BY <1>2, <1>3, <1>8
<1> QED
  BY <1>1, <1>9 DEF parts

\* The host's decoder, group by group.
LEMMA SameFours ==
    ASSUME NEW S, NEW text, NEW m \in Nat, NEW c, InFours(c, text, m, S),
           NEW d, InFours(d, text, m, S)
    PROVE  c = d
<1>1. /\ c \in Seq(Seq(S)) /\ Len(c) = m /\ d \in Seq(Seq(S)) /\ Len(d) = m
  BY DEF InFours
<1>2. ASSUME NEW i \in 1 .. m PROVE c[i] = d[i]
  <2>1. c[i] \in Seq(S) /\ d[i] \in Seq(S)
    BY <1>1
  <2>2. Len(c[i]) = 4 /\ Len(d[i]) = 4
    BY DEF InFours
  <2>3. \A j \in 1 .. 4 : c[i][j] = d[i][j]
    BY DEF InFours
  <2>4. PICK x \in Seq(S), y \in Seq(S) : x = c[i] /\ y = d[i]
    BY <2>1
  <2>5. Len(x) = Len(y) /\ \A j \in 1 .. Len(x) : x[j] = y[j]
    BY <2>2, <2>3, <2>4
  <2>6. x = y
    BY <2>5, SeqEqual
  <2> QED
    BY <2>4, <2>6
<1>3. PICK u \in Seq(Seq(S)), v \in Seq(Seq(S)) : u = c /\ v = d
  BY <1>1
<1>4. Len(u) = Len(v) /\ \A i \in 1 .. Len(u) : u[i] = v[i]
  BY <1>1, <1>2, <1>3
<1>5. u = v
  BY <1>4, SeqEqual
<1> QED
  BY <1>3, <1>5

Accepted(text) ==
    /\ Len(text) % 4 = 0
    /\ \A i \in DOMAIN Chunks(text, 4) :
          PaddedRight(Chunks(text, 4)[i], i = Len(Chunks(text, 4)))
    /\ \A i \in DOMAIN text : text[i] \notin {BLANK, INVALID}

LEMMA HostDecodes ==
    ASSUME NEW text
    PROVE  /\ HostDecode(text).ok = Accepted(text)
           /\ Accepted(text) =>
                 HostDecode(text) = [ok |-> TRUE, bytes |-> ForEach(Chunks(text, 4), DecodeGroup)]
<1> DEFINE groups == Chunks(text, 4)
           ok == Accepted(text)
<1>1. HostDecode(text) = [ok |-> ok, bytes |-> IF ok THEN ForEach(groups, DecodeGroup) ELSE <<>>]
  BY DEF HostDecode, Accepted
<1> HIDE DEF ok, groups
<1>2. HostDecode(text).ok = ok
  BY <1>1
<1>3. ok => HostDecode(text) = [ok |-> TRUE, bytes |-> ForEach(groups, DecodeGroup)]
  <2> SUFFICES ASSUME ok
               PROVE  HostDecode(text) = [ok |-> TRUE, bytes |-> ForEach(groups, DecodeGroup)]
    OBVIOUS
  <2>1. ok = TRUE
    BY DEF ok, Accepted
  <2> QED
    BY <1>1, <2>1
<1> QED
  BY <1>2, <1>3 DEF ok, groups

LEMMA PaddedIsGroup ==
    ASSUME NEW g \in Seq(Character), Len(g) = 4, NEW last,
           \A j \in 1 .. 4 : g[j] \notin {BLANK, INVALID}
    PROVE  PaddedRight(g, last) <=> g \in Group /\ (g[4] = PAD => last)
<1>1. g[1] \in 0..PAD /\ g[2] \in 0..PAD /\ g[3] \in 0..PAD /\ g[4] \in 0..PAD
  <2>1. \A x \in Character : x \notin {BLANK, INVALID} => x \in 0..PAD
    BY DEF Character, BLANK, INVALID, PAD
  <2>2. \A j \in 1 .. Len(g) : g[j] \in Character
    BY ElementOfSeq
  <2>3. g[1] \in Character /\ g[2] \in Character /\ g[3] \in Character /\ g[4] \in Character
    BY <2>2
  <2> QED
    BY <2>1, <2>3
<1>2. g \in Seq(0..PAD)
  <2>1. \A j \in 1 .. 4 : g[j] \in 0..PAD
    BY <1>1
  <2>2. g = [j \in 1 .. 4 |-> g[j]]
    OBVIOUS
  <2>3. g \in [1 .. 4 -> 0..PAD]
    BY <2>1, <2>2
  <2> DEFINE P == 0..PAD
  <2> HIDE DEF P
  <2>4. \A n \in Nat : \A f \in [1 .. n -> P] : f \in Seq(P)
    OBVIOUS
  <2>5. g \in [1 .. 4 -> P]
    BY <2>3 DEF P
  <2>6. g \in Seq(P)
    BY <2>4, <2>5
  <2> QED
    BY <2>6 DEF P
<1>3. DOMAIN g = 1 .. 4
  OBVIOUS
<1>4. PaddedRight(g, last) <=>
        \A j \in 1 .. 4 : g[j] = PAD => last /\ j > 2 /\ \A k \in j .. 4 : g[k] = PAD
  BY <1>3 DEF PaddedRight
<1>5. (\A j \in 1 .. 4 : g[j] = PAD => last /\ j > 2 /\ \A k \in j .. 4 : g[k] = PAD)
        <=> /\ g[1] # PAD /\ g[2] # PAD
            /\ g[3] = PAD => last /\ g[4] = PAD
            /\ g[4] = PAD => last
  OBVIOUS
<1> QED
  BY <1>2, <1>4, <1>5 DEF Group

LEMMA HostFollows ==
    ASSUME NEW text \in Seq(Character), NEW m \in Nat, Len(text) = 4 * m,
           NEW c, InFours(c, text, m, Character),
           \A i \in 1 .. 4 * m : text[i] \notin {BLANK, INVALID}
    PROVE  /\ Accepted(text) <=> WellPadded(c, m)
           /\ Accepted(text) =>
                 HostDecode(text) = [ok |-> TRUE, bytes |-> Concatenated(Meanings(c, m))]
<1>1. Chunks(text, 4) = c
  BY ChunksOfFour, SameFours
<1>2. /\ c \in Seq(Seq(Character)) /\ Len(c) = m
      /\ \A i \in 1 .. m :
            Len(c[i]) = 4 /\ \A j \in 1 .. 4 : c[i][j] = text[4 * (i - 1) + j]
  BY DEF InFours
<1>3. DOMAIN c = 1 .. m
  BY <1>2
<1>4. Len(text) % 4 = 0
  OBVIOUS
<1>5. DOMAIN text = 1 .. 4 * m
  OBVIOUS
<1>6. ASSUME NEW i \in 1 .. m
      PROVE  PaddedRight(c[i], i = m) <=> c[i] \in Group /\ (c[i][4] = PAD => i = m)
  <2>1. \A j \in 1 .. 4 : 4 * (i - 1) + j \in 1 .. 4 * m
    OBVIOUS
  <2>2. \A j \in 1 .. 4 : c[i][j] \notin {BLANK, INVALID}
    BY <1>2, <2>1
  <2>3. c[i] \in Seq(Character) /\ Len(c[i]) = 4
    BY <1>2
  <2> QED
    BY <2>2, <2>3, PaddedIsGroup
<1>7. Accepted(text) <=> \A i \in 1 .. m : PaddedRight(c[i], i = m)
  BY <1>1, <1>2, <1>3, <1>4, <1>5 DEF Accepted
<1>8. Accepted(text) <=> WellPadded(c, m)
  BY <1>6, <1>7 DEF WellPadded
<1>9. ASSUME Accepted(text)
      PROVE  HostDecode(text) = [ok |-> TRUE, bytes |-> Concatenated(Meanings(c, m))]
  <2>1. HostDecode(text) = [ok |-> TRUE, bytes |-> ForEach(c, DecodeGroup)]
    BY <1>1, <1>9, HostDecodes
  <2>2. [i \in DOMAIN c |-> DecodeGroup(c[i])] = Meanings(c, m)
    <3>1. \A i \in 1 .. m : DecodeGroup(c[i]) = Meaning(c[i])
      BY <1>8, <1>9, HostGroup DEF WellPadded
    <3> QED
      BY <1>3, <3>1 DEF Meanings
  <2>3. ForEach(c, DecodeGroup) = Concatenated([i \in DOMAIN c |-> DecodeGroup(c[i])])
    BY DEF ForEach
  <2> QED
    BY <2>1, <2>2, <2>3
<1> QED
  BY <1>8, <1>9

\* A text the host accepts means the same to the guest.
LEMMA GuestAgrees ==
    ASSUME NEW text \in Seq(Character), HostDecode(text).ok
    PROVE  GuestDecode(text) = HostDecode(text)
<1>1. Accepted(text)
  BY HostDecodes
<1>2. Len(text) % 4 = 0 /\ \A i \in DOMAIN text : text[i] \notin {BLANK, INVALID}
  BY <1>1 DEF Accepted
<1>3. PICK m \in Nat : Len(text) = 4 * m
  <2>1. Len(text) = 4 * (Len(text) \div 4) /\ Len(text) \div 4 \in Nat
    BY <1>2
  <2> QED
    BY <2>1
<1>4. \A i \in 1 .. 4 * m : text[i] \notin {BLANK, INVALID}
  BY <1>2, <1>3
<1> DEFINE c == Chunks(text, 4)
<1>5. InFours(c, text, m, Character)
  BY <1>3, ChunksOfFour
<1> HIDE DEF c
<1>6. WellPadded(c, m) /\ HostDecode(text) = [ok |-> TRUE, bytes |-> Concatenated(Meanings(c, m))]
  BY <1>1, <1>3, <1>4, <1>5, HostFollows
<1> QED
  BY <1>3, <1>5, <1>6, GuestFollows

\* Bytes in groups of three are those bytes.
LEMMA ThreesJoin ==
    ASSUME NEW bytes \in Seq(Byte), NEW m \in Nat, NEW c, InThrees(c, bytes, m, Byte)
    PROVE  Concatenated(c) = bytes
<1> DEFINE n == Len(bytes)
           e == [i \in 0 .. m |-> IF i < m THEN 3 * i ELSE n]
<1>1. n \in Nat
  OBVIOUS
<1>2. /\ c \in Seq(Seq(Byte)) /\ Len(c) = m /\ n <= 3 * m /\ 3 * m < n + 3
      /\ \A i \in 1 .. m :
            /\ Len(c[i]) = IF i < m THEN 3 ELSE n - 3 * (m - 1)
            /\ \A j \in 1 .. Len(c[i]) : c[i][j] = bytes[3 * (i - 1) + j]
  BY DEF InThrees
<1> HIDE DEF n
<1>3. e \in [0 .. m -> Nat]
  BY <1>1
<1>4. \A i \in 0 .. m : e[i] = IF i < m THEN 3 * i ELSE n
  OBVIOUS
<1> HIDE DEF e
<1>5. e[0] = 0 /\ e[m] = n
  BY <1>1, <1>2, <1>4
<1>6. ASSUME NEW i \in 1 .. m
      PROVE  /\ e[i] = e[i - 1] + Len(c[i])
             /\ \A j \in 1 .. Len(c[i]) : c[i][j] = bytes[e[i - 1] + j]
  <2>1. i - 1 \in 0 .. m /\ i \in 0 .. m /\ i - 1 < m
    OBVIOUS
  <2>2. e[i - 1] = 3 * (i - 1)
    BY <1>4, <2>1
  <2>3. e[i] = IF i < m THEN 3 * i ELSE n
    BY <1>4, <2>1
  <2>4. Len(c[i]) = IF i < m THEN 3 ELSE n - 3 * (m - 1)
    BY <1>2
  <2>5. e[i] = e[i - 1] + Len(c[i])
    <3>1. CASE i < m
      BY <2>2, <2>3, <2>4, <3>1
    <3>2. CASE i = m
      BY <1>1, <2>2, <2>3, <2>4, <3>2
    <3> QED
      BY <3>1, <3>2
  <2> QED
    BY <1>2, <2>2, <2>5
<1>7. PiecesOf(c, bytes, e)
  BY <1>2, <1>3, <1>5, <1>6 DEF PiecesOf, n
<1> QED
  BY <1>2, <1>7, PiecesJoin

LEMMA PlaceInFour ==
    ASSUME NEW q \in Nat, NEW r \in 0 .. 3, NEW x \in Int, x = 4 * q + r
    PROVE  x \div 4 = q /\ x % 4 = r
<1>1. x \div 4 = q
  OBVIOUS
<1>2. x % 4 = r
  OBVIOUS
<1> QED
  BY <1>1, <1>2

\* Groups of four characters one after another are a text that has them as its groups.
LEMMA FoursJoin ==
    ASSUME NEW S, NEW m \in Nat, NEW parts \in Seq(Seq(S)), Len(parts) = m,
           \A i \in 1 .. m : Len(parts[i]) = 4
    PROVE  \E text \in Seq(S) :
              Len(text) = 4 * m /\ InFours(parts, text, m, S) /\ Concatenated(parts) = text
<1> DEFINE text == [p \in 1 .. 4 * m |-> parts[((p - 1) \div 4) + 1][((p - 1) % 4) + 1]]
           e == [i \in 0 .. m |-> 4 * i]
<1>1. \A i \in 1 .. m : parts[i] \in Seq(S)
  OBVIOUS
<1>2. \A i \in 1 .. m, j \in 1 .. 4 : parts[i][j] \in S
  <2> TAKE i \in 1 .. m, j \in 1 .. 4
  <2>1. PICK x \in Seq(S) : x = parts[i] /\ Len(x) = 4
    BY <1>1
  <2>2. x[j] \in S
    BY <2>1, ElementOfSeq
  <2> QED
    BY <2>1, <2>2
<1>3. \A p \in 1 .. 4 * m : ((p - 1) \div 4) + 1 \in 1 .. m /\ ((p - 1) % 4) + 1 \in 1 .. 4
  OBVIOUS
<1>4. text \in [1 .. 4 * m -> S]
  <2>1. \A p \in 1 .. 4 * m : parts[((p - 1) \div 4) + 1][((p - 1) % 4) + 1] \in S
    BY <1>2, <1>3
  <2> QED
    BY <2>1
<1>5. text \in Seq(S) /\ Len(text) = 4 * m
  <2> HIDE DEF text
  <2>1. 4 * m \in Nat
    OBVIOUS
  <2> QED
    BY <1>4, <2>1
<1>6. \A i \in 1 .. m, j \in 1 .. 4 : text[4 * (i - 1) + j] = parts[i][j]
  <2> TAKE i \in 1 .. m, j \in 1 .. 4
  <2>1. PICK p : p = 4 * (i - 1) + j /\ p \in 1 .. 4 * m
    OBVIOUS
  <2>2. (p - 1) \div 4 = i - 1 /\ (p - 1) % 4 = j - 1
    <3>1. PICK q \in Nat, r \in 0 .. 3 : q = i - 1 /\ r = j - 1 /\ p - 1 = 4 * q + r
      BY <2>1
    <3>2. p - 1 \in Int
      BY <2>1
    <3> QED
      BY <3>1, <3>2, PlaceInFour
  <2>3. ((p - 1) \div 4) + 1 = i /\ ((p - 1) % 4) + 1 = j
    BY <2>2
  <2>4. text[p] = parts[((p - 1) \div 4) + 1][((p - 1) % 4) + 1]
    BY <2>1
  <2> QED
    BY <2>1, <2>3, <2>4
<1> HIDE DEF text
<1>7. InFours(parts, text, m, S)
  BY <1>6 DEF InFours
<1>8. PiecesOf(parts, text, e)
  <2>1. e \in [0 .. m -> Nat] /\ \A i \in 0 .. m : e[i] = 4 * i
    OBVIOUS
  <2> HIDE DEF e
  <2>2. e[0] = 0 /\ e[Len(parts)] = Len(text)
    BY <1>5, <2>1
  <2>3. ASSUME NEW i \in 1 .. m
        PROVE  /\ e[i] = e[i - 1] + Len(parts[i])
               /\ \A j \in 1 .. Len(parts[i]) : parts[i][j] = text[e[i - 1] + j]
    <3>1. i - 1 \in 0 .. m /\ i \in 0 .. m
      OBVIOUS
    <3>2. e[i - 1] = 4 * (i - 1) /\ e[i] = 4 * i
      BY <2>1, <3>1
    <3>3. Len(parts[i]) = 4
      OBVIOUS
    <3>4. e[i] = e[i - 1] + Len(parts[i])
      BY <3>2, <3>3
    <3>5. \A j \in 1 .. 4 : parts[i][j] = text[e[i - 1] + j]
      BY <1>6, <3>2
    <3> QED
      BY <3>3, <3>4, <3>5
  <2> QED
    BY <2>1, <2>2, <2>3 DEF PiecesOf
<1>9. Concatenated(parts) = text
  BY <1>5, <1>8, PiecesJoin
<1> QED
  BY <1>5, <1>7, <1>9

\* What is encoded is decoded again, by either side.
LEMMA EncodedDecodes ==
    ASSUME NEW bytes \in Seq(Byte)
    PROVE  /\ HostDecode(Encode(bytes)) = [ok |-> TRUE, bytes |-> bytes]
           /\ GuestDecode(Encode(bytes)) = [ok |-> TRUE, bytes |-> bytes]
<1>1. PICK m : m = (Len(bytes) + 2) \div 3
  OBVIOUS
<1> DEFINE c == Chunks(bytes, 3)
           parts == [i \in 1 .. m |-> EncodeGroup(c[i])]
<1>2. m \in Nat /\ InThrees(c, bytes, m, Byte)
  BY <1>1, ChunksOfThree
<1>3. Concatenated(c) = bytes
  BY <1>2, ThreesJoin
<1>4. Encode(bytes) = Concatenated(parts)
  <2>1. DOMAIN c = 1 .. m
    BY <1>2 DEF InThrees
  <2>2. Encode(bytes) = Concatenated([i \in DOMAIN c |-> EncodeGroup(c[i])])
    BY DEF Encode, ForEach
  <2> QED
    BY <2>1, <2>2
<1> HIDE DEF c
<1>5. /\ c \in Seq(Seq(Byte)) /\ Len(c) = m /\ Len(bytes) <= 3 * m /\ 3 * m < Len(bytes) + 3
      /\ \A i \in 1 .. m : Len(c[i]) = IF i < m THEN 3 ELSE Len(bytes) - 3 * (m - 1)
  BY <1>2 DEF InThrees
<1>6. ASSUME NEW i \in 1 .. m
      PROVE  /\ Encodes(parts[i], c[i]) /\ Len(parts[i]) = 4 /\ parts[i] \in Seq(Character)
             /\ i < m => Len(c[i]) = 3
             /\ \A j \in 1 .. 4 : parts[i][j] \notin {BLANK, INVALID}
  <2>1. PICK g : g = parts[i] /\ g = EncodeGroup(c[i])
    OBVIOUS
  <2>2. Len(c[i]) \in 1..3 /\ (i < m => Len(c[i]) = 3)
    <3>1. PICK k \in Nat : k = Len(bytes)
      OBVIOUS
    <3>2. Len(c[i]) = IF i < m THEN 3 ELSE k - 3 * (m - 1)
      BY <1>5, <3>1
    <3>3. k <= 3 * m /\ 3 * m < k + 3
      BY <1>5, <3>1
    <3> QED
      BY <1>2, <3>2, <3>3
  <2>3. c[i] \in Seq(Byte)
    BY <1>5
  <2>4. Encodes(g, c[i])
    BY <2>1, <2>2, <2>3, EncodedGroup
  <2>5. g \in Group
    BY <2>4 DEF Encodes
  <2>6. g \in Seq(0..PAD) /\ Len(g) = 4
    BY <2>5 DEF Group
  <2>7. 0..PAD \subseteq Character
    BY DEF PAD, Character, INVALID
  <2>8. g \in Seq(Character)
    BY <2>6, <2>7, SeqMonotonic
  <2>9. \A x \in 0..PAD : x \notin {BLANK, INVALID}
    BY DEF PAD, BLANK, INVALID
  <2>10. \A j \in 1 .. Len(g) : g[j] \in 0..PAD
    BY <2>6, ElementOfSeq
  <2>11. \A j \in 1 .. 4 : g[j] \notin {BLANK, INVALID}
    BY <2>6, <2>9, <2>10
  <2> QED
    BY <2>1, <2>2, <2>4, <2>6, <2>8, <2>11
<1>7. parts \in Seq(Seq(Character)) /\ Len(parts) = m
  <2>1. parts \in [1 .. m -> Seq(Character)]
    BY <1>6
  <2> HIDE DEF parts
  <2> QED
    BY <1>2, <2>1
<1> HIDE DEF parts
<1>8. PICK text \in Seq(Character) :
         Len(text) = 4 * m /\ InFours(parts, text, m, Character) /\ Concatenated(parts) = text
  BY <1>2, <1>6, <1>7, FoursJoin
<1>9. WellPadded(parts, m)
  <2> SUFFICES ASSUME NEW i \in 1 .. m
               PROVE  parts[i] \in Group /\ (parts[i][4] = PAD => i = m)
    BY DEF WellPadded
  <2>1. parts[i] \in Group /\ (parts[i][4] # PAD <=> Len(c[i]) = 3)
    BY <1>6 DEF Encodes
  <2>2. i < m => Len(c[i]) = 3
    BY <1>6
  <2> QED
    BY <1>2, <2>1, <2>2
<1>10. Meanings(parts, m) = c
  <2>1. \A i \in 1 .. m : Meaning(parts[i]) = c[i]
    BY <1>6 DEF Encodes
  <2>2. c = [i \in 1 .. m |-> c[i]]
    BY <1>5
  <2> QED
    BY <2>1, <2>2 DEF Meanings
<1>11. \A p \in 1 .. 4 * m : text[p] \notin {BLANK, INVALID}
  <2> TAKE p \in 1 .. 4 * m
  <2>1. PICK i \in 1 .. m, j \in 1 .. 4 : p = 4 * (i - 1) + j
    <3>1. ((p - 1) \div 4) + 1 \in 1 .. m /\ ((p - 1) % 4) + 1 \in 1 .. 4
      BY <1>2
    <3>2. p = 4 * ((((p - 1) \div 4) + 1) - 1) + (((p - 1) % 4) + 1)
      BY <1>2
    <3> QED
      BY <3>1, <3>2
  <2>2. text[p] = parts[i][j]
    BY <1>8, <2>1 DEF InFours
  <2> QED
    BY <1>6, <2>2
<1>12. /\ Accepted(text)
       /\ HostDecode(text) = [ok |-> TRUE, bytes |-> Concatenated(Meanings(parts, m))]
  BY <1>2, <1>8, <1>9, <1>11, HostFollows
<1>13. GuestDecode(text) = [ok |-> TRUE, bytes |-> Concatenated(Meanings(parts, m))]
  BY <1>2, <1>8, <1>9, GuestFollows
<1> QED
  BY <1>3, <1>4, <1>8, <1>10, <1>12, <1>13

LEMMA EncodingFaithful ==
    ASSUME EncodeBytes
    PROVE  Base64Faithful'
<1>1. PICK bytes \in ByteStrings :
         call' = [op |-> "encode", bytes |-> bytes, result |-> Encode(bytes)]
  BY DEF EncodeBytes
<1>2. bytes \in Seq(Byte)
  BY TextsAssumption DEF TextsTyped
<1>3. /\ HostDecode(Encode(bytes)) = [ok |-> TRUE, bytes |-> bytes]
      /\ GuestDecode(Encode(bytes)) = [ok |-> TRUE, bytes |-> bytes]
  BY <1>2, EncodedDecodes
<1>4. call'.op = "encode" /\ call'.bytes = bytes /\ call'.result = Encode(bytes)
  BY <1>1
<1> QED
  BY <1>3, <1>4 DEF Base64Faithful

LEMMA DecodingFaithful ==
    ASSUME DecodeText
    PROVE  Base64Faithful'
<1>1. PICK text \in Base64Texts :
         call' = [op |-> "decode", text |-> text, guest |-> GuestDecode(text),
                  host |-> HostDecode(text)]
  BY DEF DecodeText
<1>2. text \in Seq(Character)
  BY TextsAssumption DEF TextsTyped, Character
<1>3. HostDecode(text).ok => GuestDecode(text) = HostDecode(text)
  BY <1>2, GuestAgrees
<1>4. call'.op = "decode" /\ call'.guest = GuestDecode(text) /\ call'.host = HostDecode(text)
  BY <1>1
<1> QED
  BY <1>3, <1>4 DEF Base64Faithful

\* What the guest or the host encodes is decoded again by either side, and a text that the
\* host's decoder accepts means the same bytes to the guest's, which keeps a running buffer
\* where the host takes groups: base64.rs, push.rs and lib.rs, for any bytes and any text.
THEOREM Base64RoundTrips == CallSpec => []Base64Faithful
<1>1. CallInit => Base64Faithful
  BY DEF CallInit, Idle, Base64Faithful
<1>2. Base64Faithful /\ [CallNext]_call => Base64Faithful'
  <2> SUFFICES ASSUME Base64Faithful, [CallNext]_call PROVE Base64Faithful'
    OBVIOUS
  <2>1. CASE UNCHANGED call
    BY <2>1 DEF Base64Faithful
  <2>2. CASE EncodeBytes
    BY <2>2, EncodingFaithful
  <2>3. CASE DecodeText
    BY <2>3, DecodingFaithful
  <2>4. CASE call'.op # "encode" /\ call'.op # "decode"
    BY <2>4, Zenon DEF Base64Faithful
  <2> QED
    BY <2>1, <2>2, <2>3, <2>4, CalledBy
<1> QED
  BY <1>1, <1>2, PTL DEF CallSpec

-----------------------------------------------------------------------------
(* Folds over a sequence: a first value, and a step for each element.      *)

LEMMA SeqInduction ==
    ASSUME NEW E, NEW S, <<>> \in S,
           \A s \in Seq(E), e \in E : s \in S => Append(s, e) \in S
    PROVE  Seq(E) \subseteq S
<1> DEFINE T == {n \in Nat : \A s \in Seq(E) : Len(s) = n => s \in S}
<1>1. 0 \in T
  <2>1. \A s \in Seq(E) : Len(s) = 0 => s = <<>>
    BY EmptySeq
  <2> QED
    BY <2>1
<1>2. ASSUME NEW n \in Nat, n \in T PROVE n + 1 \in T
  <2> SUFFICES ASSUME NEW s \in Seq(E), Len(s) = n + 1 PROVE s \in S
    OBVIOUS
  <2>1. s # <<>>
    BY EmptySeq
  <2>2. PICK f \in Seq(E), e \in E : s = Append(f, e)
    BY <2>1, SequenceEmptyOrAppend
  <2>3. Len(f) = n
    BY <2>2, AppendProperties, LenProperties
  <2> QED
    BY <1>2, <2>2, <2>3
<1>3. Nat \subseteq T
  <2> HIDE DEF T
  <2> QED
    BY <1>1, <1>2, Induction
<1> QED
  BY <1>3, LenProperties

FoldSteps(V, E) == [V -> [E -> V]]

FoldedBy(h, V, step, base, s) ==
    /\ h \in [0 .. Len(s) -> V] /\ h[0] = base
    /\ \A i \in 1 .. Len(s) : h[i] = step[h[i - 1]][s[i]]

Fold(V, step, base, s) == (CHOOSE h : FoldedBy(h, V, step, base, s))[Len(s)]

LEMMA FoldExists ==
    ASSUME NEW V, NEW E, NEW base \in V, NEW step \in FoldSteps(V, E), NEW s \in Seq(E)
    PROVE  \E h : FoldedBy(h, V, step, base, s)
<1> DEFINE n == Len(s)
           next == [i \in 0 .. n |->
                      [v \in V |-> IF i < n THEN step[v][s[i + 1]] ELSE v]]
<1>1. n \in Nat
  BY LenProperties
<1>2. \A i \in 1 .. n, v \in V : step[v][s[i]] \in V
  <2> TAKE i \in 1 .. n, v \in V
  <2>1. s[i] \in E
    BY ElementOfSeq
  <2> QED
    BY <2>1 DEF FoldSteps
<1> HIDE DEF n
<1>3. next \in StepFunctions(n, V)
  <2>1. \A i \in 0 .. n, v \in V : i < n => step[v][s[i + 1]] \in V
    BY <1>1, <1>2
  <2> QED
    BY <2>1 DEF StepFunctions
<1>4. \A i \in 0 .. (n - 1), v \in V : next[i][v] = step[v][s[i + 1]]
  BY <1>1
<1> HIDE DEF next
<1>5. PICK h : Follows(h, n, V, base, next)
  BY <1>1, <1>3, Recursion
<1>6. h \in [0 .. n -> V] /\ h[0] = base
  BY <1>5 DEF Follows
<1>7. ASSUME NEW i \in 1 .. n PROVE h[i] = step[h[i - 1]][s[i]]
  <2>1. PICK j : j = i - 1 /\ j \in 0 .. (n - 1) /\ i = j + 1
    BY <1>1
  <2>2. h[j] \in V /\ h[j + 1] = next[j][h[j]]
    BY <1>1, <1>5, <1>6, <2>1 DEF Follows
  <2>3. h[j + 1] = step[h[j]][s[j + 1]]
    BY <1>4, <2>1, <2>2
  <2> QED
    BY <2>1, <2>3
<1> QED
  BY <1>6, <1>7 DEF FoldedBy, n

\* Whatever has the first value and takes the steps is the fold.
LEMMA FoldUnique ==
    ASSUME NEW V, NEW E, NEW base \in V, NEW step \in FoldSteps(V, E), NEW s \in Seq(E),
           NEW h, FoldedBy(h, V, step, base, s), NEW g, FoldedBy(g, V, step, base, s)
    PROVE  h = g
<1> DEFINE n == Len(s)
<1>1. n \in Nat
  BY LenProperties
<1>2. /\ h \in [0 .. n -> V] /\ g \in [0 .. n -> V] /\ h[0] = g[0]
      /\ \A i \in 1 .. n : h[i] = step[h[i - 1]][s[i]]
      /\ \A i \in 1 .. n : g[i] = step[g[i - 1]][s[i]]
  BY DEF FoldedBy
<1> HIDE DEF n
<1>3. ASSUME NEW i \in 0 .. (n - 1), h[i] = g[i] PROVE h[i + 1] = g[i + 1]
  <2>1. PICK j : j = i + 1 /\ j \in 1 .. n /\ j - 1 = i
    BY <1>1
  <2>2. h[j] = step[h[j - 1]][s[j]] /\ g[j] = step[g[j - 1]][s[j]]
    BY <1>2, <2>1
  <2> QED
    BY <1>3, <2>1, <2>2
<1>4. \A i \in 0 .. (n - 1) : h[i] = g[i] => h[i + 1] = g[i + 1]
  BY <1>3
<1>5. h \in [0 .. n -> V] /\ g \in [0 .. n -> V] /\ h[0] = g[0]
  BY <1>2
<1> QED
  BY <1>1, <1>4, <1>5, SameRecursion, Zenon

LEMMA FoldIs ==
    ASSUME NEW V, NEW E, NEW base \in V, NEW step \in FoldSteps(V, E), NEW s \in Seq(E),
           NEW h, FoldedBy(h, V, step, base, s)
    PROVE  Fold(V, step, base, s) = h[Len(s)]
<1> DEFINE g == CHOOSE f : FoldedBy(f, V, step, base, s)
<1>1. FoldedBy(g, V, step, base, s)
  OBVIOUS
<1>2. Fold(V, step, base, s) = g[Len(s)]
  BY DEF Fold
<1> HIDE DEF g
<1>3. g = h
  BY <1>1, FoldUnique
<1> QED
  BY <1>2, <1>3

\* A recursive function that takes the steps as long as it stays in V is the fold.
LEMMA FoldFrom ==
    ASSUME NEW V, NEW E, NEW base \in V, NEW step \in FoldSteps(V, E), NEW s \in Seq(E),
           NEW h, h = [i \in 0 .. Len(s) |-> h[i]], h[0] = base,
           \A i \in 1 .. Len(s) : h[i - 1] \in V => h[i] = step[h[i - 1]][s[i]]
    PROVE  Fold(V, step, base, s) = h[Len(s)]
<1> DEFINE n == Len(s)
           S == {i \in 0 .. n : h[i] \in V}
<1>1. n \in Nat
  BY LenProperties
<1>2. 0 \in S
  BY <1>1
<1>3. ASSUME NEW i \in 0 .. (n - 1), i \in S PROVE i + 1 \in S
  <2>1. PICK j : j = i + 1 /\ j \in 1 .. n /\ j - 1 = i
    BY <1>1
  <2>2. h[i] \in V
    BY <1>3
  <2>3. h[j] = step[h[i]][s[j]]
    BY <2>1, <2>2
  <2>4. s[j] \in E
    BY <2>1, ElementOfSeq
  <2>5. h[j] \in V
    BY <2>2, <2>3, <2>4 DEF FoldSteps
  <2> QED
    BY <2>1, <2>5
<1>4. 0 .. n \subseteq S
  <2> HIDE DEF S, n
  <2> QED
    BY <1>1, <1>2, <1>3, InductionUpTo
<1>5. \A i \in 0 .. n : h[i] \in V
  BY <1>4
<1>6. h \in [0 .. n -> V]
  BY <1>5
<1>7. ASSUME NEW i \in 1 .. n PROVE h[i] = step[h[i - 1]][s[i]]
  <2>1. i - 1 \in 0 .. n
    BY <1>1
  <2>2. h[i - 1] \in V
    BY <1>5, <2>1
  <2> QED
    BY <2>2
<1>8. FoldedBy(h, V, step, base, s)
  BY <1>6, <1>7 DEF FoldedBy
<1> QED
  BY <1>8, FoldIs

LEMMA FoldTyped ==
    ASSUME NEW V, NEW E, NEW base \in V, NEW step \in FoldSteps(V, E), NEW s \in Seq(E)
    PROVE  Fold(V, step, base, s) \in V
<1>1. PICK h : FoldedBy(h, V, step, base, s)
  BY FoldExists
<1>2. Fold(V, step, base, s) = h[Len(s)]
  BY <1>1, FoldIs
<1>3. Len(s) \in 0 .. Len(s) /\ h \in [0 .. Len(s) -> V]
  BY <1>1, LenProperties DEF FoldedBy
<1> QED
  BY <1>2, <1>3

LEMMA FoldOfNothing ==
    ASSUME NEW V, NEW E, NEW base \in V, NEW step \in FoldSteps(V, E)
    PROVE  Fold(V, step, base, <<>>) = base
<1>1. PICK s \in Seq(E) : s = <<>> /\ Len(s) = 0
  BY EmptySeq
<1>2. PICK h : FoldedBy(h, V, step, base, s)
  BY FoldExists
<1>3. Fold(V, step, base, s) = h[Len(s)]
  BY <1>2, FoldIs
<1>4. h[0] = base
  BY <1>2, Zenon DEF FoldedBy
<1> QED
  BY <1>1, <1>3, <1>4, Zenon

TakesStep(V, step, base, s, e) ==
    Fold(V, step, base, Append(s, e)) = step[Fold(V, step, base, s)][e]

LEMMA FoldOfOneMore ==
    ASSUME NEW V, NEW E, NEW base \in V, NEW step \in FoldSteps(V, E),
           NEW s \in Seq(E), NEW e \in E
    PROVE  TakesStep(V, step, base, s, e)
<1> DEFINE n == Len(s)
           t == Append(s, e)
<1>1. n \in Nat /\ t \in Seq(E) /\ Len(t) = n + 1 /\ t[n + 1] = e
      /\ \A i \in 1 .. n : t[i] = s[i]
  BY AppendProperties, LenProperties
<1> HIDE DEF n, t
<1>2. PICK h : FoldedBy(h, V, step, base, t)
  BY <1>1, FoldExists
<1>3. /\ h \in [0 .. (n + 1) -> V] /\ h[0] = base
      /\ \A i \in 1 .. (n + 1) : h[i] = step[h[i - 1]][t[i]]
  BY <1>1, <1>2 DEF FoldedBy
<1> DEFINE g == [i \in 0 .. n |-> h[i]]
<1>4. g \in [0 .. n -> V] /\ \A i \in 0 .. n : g[i] = h[i]
  BY <1>1, <1>3
<1> HIDE DEF g
<1>5. ASSUME NEW i \in 1 .. n PROVE g[i] = step[g[i - 1]][s[i]]
  <2>1. i \in 0 .. n /\ i - 1 \in 0 .. n /\ i \in 1 .. (n + 1)
    BY <1>1
  <2>2. h[i] = step[h[i - 1]][t[i]]
    BY <1>3, <2>1
  <2>3. g[i] = h[i] /\ g[i - 1] = h[i - 1]
    BY <1>4, <2>1
  <2> QED
    BY <1>1, <2>2, <2>3
<1>6. g[0] = base
  BY <1>1, <1>3, <1>4
<1>7. FoldedBy(g, V, step, base, s)
  BY <1>4, <1>5, <1>6 DEF FoldedBy, n
<1>8. Fold(V, step, base, s) = h[n]
  <2>1. Fold(V, step, base, s) = g[n]
    BY <1>7, FoldIs DEF n
  <2> QED
    BY <1>1, <1>4, <2>1
<1>9. Fold(V, step, base, t) = h[n + 1]
  BY <1>1, <1>2, FoldIs
<1>10. h[n + 1] = step[h[n]][e]
  <2>1. PICK j : j = n + 1 /\ j \in 1 .. (n + 1) /\ j - 1 = n
    BY <1>1
  <2>2. h[j] = step[h[j - 1]][t[j]]
    BY <1>3, <2>1
  <2> QED
    BY <1>1, <2>1, <2>2
<1> QED
  BY <1>8, <1>9, <1>10 DEF t, TakesStep

-----------------------------------------------------------------------------
(* Paths.  A text is a sequence of strings; a segment has no separator.    *)

\* The strings, those the code names spelled out.
Str == STRING \cup {"/", "\\", ".", ".."}

Text == Seq(Str)

Plain == Str \ Separators

Segment == Seq(Plain)

Splits == Seq(Segment) \ {<<>>}

Proper == Segment \ {<<>>, <<".">>, <<"..">>}

LEMMA Single == ASSUME NEW S, NEW x \in S PROVE <<x>> \in Seq(S) /\ Len(<<x>>) = 1 /\ <<x>>[1] = x
  OBVIOUS

LEMMA FrontLast ==
    ASSUME NEW S, NEW v \in Seq(S), v # <<>>
    PROVE  Front(v) \in Seq(S) /\ Last(v) \in S /\ v = Append(Front(v), Last(v))
<1>1. Len(v) \in Nat \ {0}
  BY EmptySeq
<1>2. \A i \in 1 .. Len(v) : v[i] \in S
  BY ElementOfSeq
<1>3. \A i \in 1 .. (Len(v) - 1) : v[i] \in S
  BY <1>1, <1>2
<1>4. SubSeq(v, 1, Len(v) - 1) \in Seq(S)
  BY <1>1, <1>3, SubSeqProperties
<1>5. /\ Len(SubSeq(v, 1, Len(v) - 1)) = Len(v) - 1
      /\ \A i \in 1 .. (Len(v) - 1) : SubSeq(v, 1, Len(v) - 1)[i] = v[i]
  <2>1. Len(SubSeq(v, 1, Len(v) - 1))
           = IF 1 <= Len(v) - 1 THEN (Len(v) - 1) - 1 + 1 ELSE 0
    BY <1>1, <1>3, SubSeqProperties
  <2>2. \A i \in 1 .. ((Len(v) - 1) - 1 + 1) :
           SubSeq(v, 1, Len(v) - 1)[i] = v[1 + i - 1]
    BY <1>1, <1>3, SubSeqProperties
  <2>3. \A i \in 1 .. (Len(v) - 1) : i \in 1 .. ((Len(v) - 1) - 1 + 1) /\ 1 + i - 1 = i
    BY <1>1
  <2>4. \A i \in 1 .. (Len(v) - 1) : SubSeq(v, 1, Len(v) - 1)[i] = v[i]
    BY <2>2, <2>3
  <2>5. Len(SubSeq(v, 1, Len(v) - 1)) = Len(v) - 1
    <3> DEFINE n == Len(v)
               m == Len(SubSeq(v, 1, n - 1))
    <3>1. n \in Nat \ {0} /\ m = IF 1 <= n - 1 THEN (n - 1) - 1 + 1 ELSE 0
      BY <1>1, <2>1
    <3> HIDE DEF n, m
    <3>2. m = n - 1
      BY <3>1
    <3> QED
      BY <3>2 DEF n, m
  <2> QED
    BY <2>4, <2>5, Zenon
<1>6. Last(v) \in S /\ Last(v) = v[Len(v)]
  BY <1>1, <1>2 DEF Last
<1>7. Front(v) = SubSeq(v, 1, Len(v) - 1)
  BY DEF Front
<1> DEFINE f == Front(v)
           e == Last(v)
           n == Len(v)
<1>8. /\ f \in Seq(S) /\ Len(f) = n - 1 /\ e \in S /\ e = v[n] /\ n \in Nat \ {0}
      /\ \A i \in 1 .. (n - 1) : f[i] = v[i]
  BY <1>1, <1>4, <1>5, <1>6, <1>7
<1> HIDE DEF f, e
<1>9. /\ Append(f, e) \in Seq(S) /\ Len(Append(f, e)) = n
      /\ Append(f, e)[n] = v[n]
      /\ \A i \in 1 .. (n - 1) : Append(f, e)[i] = v[i]
  BY <1>8, AppendProperties
<1>10. \A i \in 1 .. n : Append(f, e)[i] = v[i]
  BY <1>8, <1>9
<1>11. Append(f, e) = v
  BY <1>9, <1>10, SeqEqual
<1> QED
  BY <1>8, <1>11 DEF f, e

FrontAndLast(v, s, e) == Front(v) = s /\ Last(v) = e

LEMMA FrontOfAppend ==
    ASSUME NEW S, NEW s \in Seq(S), NEW e \in S, NEW v, v = Append(s, e)
    PROVE  FrontAndLast(v, s, e)
<1>1. Append(s, e) \in Seq(S) /\ Append(s, e) # <<>>
  BY AppendProperties
<1>2. /\ Front(Append(s, e)) \in Seq(S) /\ Last(Append(s, e)) \in S
      /\ Append(s, e) = Append(Front(Append(s, e)), Last(Append(s, e)))
  BY <1>1, FrontLast
<1>3. Front(Append(s, e)) = s /\ Last(Append(s, e)) = e
  BY <1>2, AppendInjective
<1> QED
  BY <1>3, Zenon DEF FrontAndLast

LEMMA SplitTyped ==
    ASSUME NEW v \in Splits, NEW x \in Str
    PROVE  Split(v, x) \in Splits
<1>1. v \in Seq(Segment) /\ v # <<>>
  BY DEF Splits
<1>2. CASE x \in Separators
  <2>1. Split(v, x) = Append(v, <<>>)
    BY <1>2 DEF Split
  <2>2. <<>> \in Segment
    BY EmptySeq DEF Segment
  <2> QED
    BY <1>1, <2>1, <2>2, AppendProperties DEF Splits
<1>3. CASE x \notin Separators
  <2>1. Split(v, x) = Append(Front(v), Append(Last(v), x))
    BY <1>3 DEF Split
  <2>2. Front(v) \in Seq(Segment) /\ Last(v) \in Segment
    BY <1>1, FrontLast
  <2>3. x \in Plain
    BY <1>3 DEF Plain
  <2>4. Append(Last(v), x) \in Segment
    BY <2>2, <2>3, AppendProperties DEF Segment
  <2>5. PICK f \in Seq(Segment), e \in Segment : Split(v, x) = Append(f, e)
    BY <2>1, <2>2, <2>4, Zenon
  <2> QED
    BY <2>5, AppendProperties DEF Splits
<1> QED
  BY <1>2, <1>3

SplitStep == [v \in Splits |-> [x \in Str |-> Split(v, x)]]

OneEmpty == << <<>> >>

LEMMA SplitStepTyped ==
    OneEmpty \in Splits /\ SplitStep \in FoldSteps(Splits, Str)
<1>1. <<>> \in Segment
  BY EmptySeq DEF Segment
<1>2. << <<>> >> \in Seq(Segment) /\ << <<>> >> # <<>>
  BY <1>1
<1>3. SplitStep \in FoldSteps(Splits, Str)
  BY SplitTyped DEF SplitStep, FoldSteps
<1> QED
  BY <1>2, <1>3 DEF Splits, OneEmpty

LEMMA SegmentsFold ==
    ASSUME NEW p \in Text
    PROVE  Segments(p) = Fold(Splits, SplitStep, OneEmpty, p)
<1> DEFINE n == Len(p)
           base == OneEmpty
           Def(h) == h = [i \in 0 .. n |-> IF i = 0 THEN base ELSE Split(h[i - 1], p[i])]
<1>1. Segments(p) = (CHOOSE h : Def(h))[n]
  BY DEF Segments, OneEmpty
<1>2. n \in Nat /\ p \in Seq(Str) /\ \A i \in 1 .. n : p[i] \in Str
  BY LenProperties, ElementOfSeq DEF Text
<1>3. \A i \in 1 .. n, v \in Splits : SplitStep[v][p[i]] = Split(v, p[i])
  BY <1>2 DEF SplitStep
<1>4. base \in Splits /\ SplitStep \in FoldSteps(Splits, Str)
  BY SplitStepTyped
<1> HIDE DEF n, base
<1>5. \E h : Def(h)
  <2>1. PICK h : FoldedBy(h, Splits, SplitStep, base, p)
    BY <1>2, <1>4, FoldExists
  <2>2. /\ h \in [0 .. n -> Splits] /\ h[0] = base
        /\ \A i \in 1 .. n : h[i] = SplitStep[h[i - 1]][p[i]]
    BY <2>1 DEF FoldedBy, n
  <2>3. \A i \in 1 .. n : h[i] = Split(h[i - 1], p[i])
    <3> TAKE i \in 1 .. n
    <3>1. i - 1 \in 0 .. n
      BY <1>2
    <3>2. h[i - 1] \in Splits
      BY <2>2, <3>1
    <3> QED
      BY <1>3, <2>2, <3>2
  <2> QED
    BY <1>2, <2>2, <2>3
<1>6. PICK h : h = (CHOOSE g : Def(g)) /\ Def(h)
  BY <1>5
<1>7. h = [i \in 0 .. n |-> h[i]] /\ h[0] = base
      /\ \A i \in 1 .. n : h[i] = Split(h[i - 1], p[i])
  <2>1. h = [i \in 0 .. n |-> IF i = 0 THEN base ELSE Split(h[i - 1], p[i])]
    BY <1>6, Zenon
  <2>2. 0 \in 0 .. n /\ \A i \in 1 .. n : i \in 0 .. n /\ i # 0
    BY <1>2
  <2>3. h = [i \in 0 .. n |-> h[i]] /\ h[0] = base
    BY <2>1, <2>2, Zenon
  <2>4. \A i \in 1 .. n : h[i] = Split(h[i - 1], p[i])
    BY <2>1, <2>2, Zenon
  <2> QED
    BY <2>3, <2>4, Zenon
<1> HIDE DEF Def
<1>8. \A i \in 1 .. n : h[i - 1] \in Splits => h[i] = SplitStep[h[i - 1]][p[i]]
  BY <1>3, <1>7
<1>9. Fold(Splits, SplitStep, base, p) = h[n]
  BY <1>2, <1>4, <1>7, <1>8, FoldFrom DEF n
<1> QED
  BY <1>1, <1>6, <1>9, Zenon DEF base

LEMMA SegmentsTyped == ASSUME NEW p \in Text PROVE Segments(p) \in Splits
  BY SegmentsFold, SplitStepTyped, FoldTyped DEF Text

LEMMA SegmentsOfNothing == Segments(<<>>) = << <<>> >>
<1>1. <<>> \in Text
  BY EmptySeq DEF Text
<1> QED
  BY <1>1, SegmentsFold, SplitStepTyped, FoldOfNothing DEF OneEmpty

LEMMA SegmentsOfOneMore ==
    ASSUME NEW p \in Text, NEW x \in Str
    PROVE  Segments(Append(p, x)) = Split(Segments(p), x)
<1>1. p \in Seq(Str) /\ Append(p, x) \in Text
  BY AppendProperties DEF Text
<1>2. Segments(Append(p, x)) = SplitStep[Segments(p)][x]
  <2>1. /\ Segments(Append(p, x)) = Fold(Splits, SplitStep, OneEmpty, Append(p, x))
        /\ Segments(p) = Fold(Splits, SplitStep, OneEmpty, p)
    BY <1>1, SegmentsFold
  <2>2. TakesStep(Splits, SplitStep, OneEmpty, p, x)
    BY <1>1, SplitStepTyped, FoldOfOneMore, Zenon
  <2> QED
    BY <2>1, <2>2, Zenon DEF TakesStep
<1>3. Segments(p) \in Splits
  BY SegmentsTyped
<1> QED
  BY <1>2, <1>3 DEF SplitStep

\* A text is joined from names.
JoinStep(sep) == [t \in Text |-> [name \in Text |-> Join(t, name, sep)]]

LEMMA JoinTyped ==
    ASSUME NEW t \in Text, NEW name \in Text, NEW sep \in Str
    PROVE  Join(t, name, sep) \in Text
<1>1. <<sep>> \in Text
  BY Single DEF Text
<1>2. t \o <<sep>> \in Text
  BY <1>1, ConcatProperties DEF Text
<1>3. (t \o <<sep>>) \o name \in Text
  BY <1>2, ConcatProperties DEF Text
<1> QED
  BY <1>3, Zenon DEF Join

LEMMA JoinStepTyped ==
    ASSUME NEW sep \in Str
    PROVE  <<>> \in Text /\ JoinStep(sep) \in FoldSteps(Text, Text)
<1>1. <<>> \in Text
  BY EmptySeq DEF Text
<1>2. JoinStep(sep) \in FoldSteps(Text, Text)
  BY JoinTyped DEF JoinStep, FoldSteps
<1> QED
  BY <1>1, <1>2

LEMMA JoinedFold ==
    ASSUME NEW names \in Seq(Text), NEW sep \in Str
    PROVE  Joined(names, sep) = Fold(Text, JoinStep(sep), <<>>, names)
<1> DEFINE n == Len(names)
           base == <<>>
           Def(h) == h = [i \in 0 .. n |-> IF i = 0 THEN base ELSE Join(h[i - 1], names[i], sep)]
<1>1. Joined(names, sep) = (CHOOSE h : Def(h))[n]
  BY DEF Joined
<1>2. n \in Nat /\ names \in Seq(Text) /\ \A i \in 1 .. n : names[i] \in Text
  BY LenProperties, ElementOfSeq
<1>3. \A i \in 1 .. n, v \in Text : JoinStep(sep)[v][names[i]] = Join(v, names[i], sep)
  BY <1>2 DEF JoinStep
<1>4. base \in Text /\ JoinStep(sep) \in FoldSteps(Text, Text)
  BY JoinStepTyped
<1> HIDE DEF n, base
<1>5. \E h : Def(h)
  <2>1. PICK h : FoldedBy(h, Text, JoinStep(sep), base, names)
    BY <1>2, <1>4, FoldExists
  <2>2. /\ h \in [0 .. n -> Text] /\ h[0] = base
        /\ \A i \in 1 .. n : h[i] = JoinStep(sep)[h[i - 1]][names[i]]
    BY <2>1 DEF FoldedBy, n
  <2>3. \A i \in 1 .. n : h[i] = Join(h[i - 1], names[i], sep)
    <3> TAKE i \in 1 .. n
    <3>1. i - 1 \in 0 .. n
      BY <1>2
    <3>2. h[i - 1] \in Text
      BY <2>2, <3>1
    <3> QED
      BY <1>3, <2>2, <3>2
  <2>4. \A i \in 0 .. n : h[i] = IF i = 0 THEN base ELSE Join(h[i - 1], names[i], sep)
    <3>1. \A i \in 0 .. n : i # 0 => i \in 1 .. n
      BY <1>2
    <3> QED
      BY <2>2, <2>3, <3>1, Zenon
  <2>5. h = [i \in 0 .. n |-> h[i]]
    BY <2>2
  <2>6. Def(h)
    BY <2>4, <2>5, Zenon
  <2> QED
    BY <2>6, Zenon
<1>6. PICK h : h = (CHOOSE g : Def(g)) /\ Def(h)
  BY <1>5
<1>7. /\ h = [i \in 0 .. n |-> h[i]] /\ h[0] = base
      /\ \A i \in 1 .. n : h[i] = Join(h[i - 1], names[i], sep)
  <2>1. h = [i \in 0 .. n |-> IF i = 0 THEN base ELSE Join(h[i - 1], names[i], sep)]
    BY <1>6, Zenon
  <2>2. 0 \in 0 .. n /\ \A i \in 1 .. n : i \in 0 .. n /\ i # 0
    BY <1>2
  <2>3. h = [i \in 0 .. n |-> h[i]] /\ h[0] = base
    BY <2>1, <2>2, Zenon
  <2>4. \A i \in 1 .. n : h[i] = Join(h[i - 1], names[i], sep)
    BY <2>1, <2>2, Zenon
  <2> QED
    BY <2>3, <2>4, Zenon
<1> HIDE DEF Def
<1>8. \A i \in 1 .. n : h[i - 1] \in Text => h[i] = JoinStep(sep)[h[i - 1]][names[i]]
  BY <1>3, <1>7
<1>9. Fold(Text, JoinStep(sep), base, names) = h[n]
  BY <1>2, <1>4, <1>7, <1>8, FoldFrom DEF n
<1> QED
  BY <1>1, <1>6, <1>9, Zenon DEF base

LEMMA JoinedTyped ==
    ASSUME NEW names \in Seq(Text), NEW sep \in Str
    PROVE  Joined(names, sep) \in Text
  BY JoinedFold, JoinStepTyped, FoldTyped

LEMMA JoinedOfNothing == ASSUME NEW sep \in Str PROVE Joined(<<>>, sep) = <<>>
<1>1. <<>> \in Seq(Text)
  BY EmptySeq
<1> QED
  BY <1>1, JoinedFold, JoinStepTyped, FoldOfNothing

LEMMA JoinedOfOneMore ==
    ASSUME NEW names \in Seq(Text), NEW name \in Text, NEW sep \in Str
    PROVE  Joined(Append(names, name), sep) = Join(Joined(names, sep), name, sep)
<1>1. Append(names, name) \in Seq(Text)
  BY AppendProperties
<1>2. Joined(Append(names, name), sep) = JoinStep(sep)[Joined(names, sep)][name]
  <2>1. /\ Joined(Append(names, name), sep)
              = Fold(Text, JoinStep(sep), <<>>, Append(names, name))
        /\ Joined(names, sep) = Fold(Text, JoinStep(sep), <<>>, names)
    BY <1>1, JoinedFold
  <2>2. TakesStep(Text, JoinStep(sep), <<>>, names, name)
    BY JoinStepTyped, FoldOfOneMore, Zenon
  <2> QED
    BY <2>1, <2>2, Zenon DEF TakesStep
<1>3. Joined(names, sep) \in Text
  BY JoinedTyped
<1> QED
  BY <1>2, <1>3 DEF JoinStep

\* Names are what segments resolve to.
Names == Seq(Proper)

PushStep == [names \in Names |-> [s \in Segment |-> Push(names, s)]]

Named(segments) == Fold(Names, PushStep, <<>>, segments)

LEMMA PushTyped ==
    ASSUME NEW names \in Names, NEW s \in Segment
    PROVE  Push(names, s) \in Names
<1>1. s \notin Nothing /\ s # Parent => s \in Proper
  BY DEF Nothing, Parent, Proper
<1>2. s \notin Nothing /\ s # Parent => Append(names, s) \in Names
  BY <1>1, AppendProperties DEF Names
<1>3. names # <<>> => Front(names) \in Names
  BY FrontLast DEF Names
<1> QED
  BY <1>2, <1>3, Zenon DEF Push

LEMMA PushStepTyped ==
    <<>> \in Names /\ PushStep \in FoldSteps(Names, Segment)
<1>1. <<>> \in Names
  BY EmptySeq DEF Names
<1>2. PushStep \in FoldSteps(Names, Segment)
  BY PushTyped DEF PushStep, FoldSteps
<1> QED
  BY <1>1, <1>2

LEMMA NamedTyped == ASSUME NEW segments \in Seq(Segment) PROVE Named(segments) \in Names
  BY PushStepTyped, FoldTyped DEF Named

LEMMA NamedOfNothing == Named(<<>>) = <<>>
  BY PushStepTyped, FoldOfNothing DEF Named

LEMMA NamedOfOneMore ==
    ASSUME NEW segments \in Seq(Segment), NEW s \in Segment
    PROVE  Named(Append(segments, s)) = Push(Named(segments), s)
<1>1. TakesStep(Names, PushStep, <<>>, segments, s)
  BY PushStepTyped, FoldOfOneMore, Zenon
<1>2. Named(Append(segments, s)) = PushStep[Named(segments)][s]
  BY <1>1, Zenon DEF TakesStep, Named
<1>3. Named(segments) \in Names
  BY NamedTyped
<1> QED
  BY <1>2, <1>3 DEF PushStep

LEMMA ResolvedNames ==
    ASSUME NEW p \in Text
    PROVE  Resolved(p) = Named(Segments(p))
<1> DEFINE segments == Segments(p)
<1>0. segments \in Seq(Segment)
  BY SegmentsTyped DEF Splits
<1> DEFINE n == Len(segments)
           base == <<>>
           Def(h) == h = [i \in 0 .. n |-> IF i = 0 THEN base ELSE Push(h[i - 1], segments[i])]
<1>1. Resolved(p) = (CHOOSE h : Def(h))[n]
  BY DEF Resolved
<1>2. n \in Nat /\ segments \in Seq(Segment) /\ \A i \in 1 .. n : segments[i] \in Segment
  BY <1>0, LenProperties, ElementOfSeq
<1>3. \A i \in 1 .. n, v \in Names : PushStep[v][segments[i]] = Push(v, segments[i])
  BY <1>2 DEF PushStep
<1>4. base \in Names /\ PushStep \in FoldSteps(Names, Segment)
  BY PushStepTyped
<1> HIDE DEF n, base, segments
<1>5. \E h : Def(h)
  <2>1. PICK h : FoldedBy(h, Names, PushStep, base, segments)
    BY <1>2, <1>4, FoldExists
  <2>2. /\ h \in [0 .. n -> Names] /\ h[0] = base
        /\ \A i \in 1 .. n : h[i] = PushStep[h[i - 1]][segments[i]]
    BY <2>1 DEF FoldedBy, n
  <2>3. \A i \in 1 .. n : h[i] = Push(h[i - 1], segments[i])
    <3> TAKE i \in 1 .. n
    <3>1. i - 1 \in 0 .. n
      BY <1>2
    <3>2. h[i - 1] \in Names
      BY <2>2, <3>1
    <3> QED
      BY <1>3, <2>2, <3>2
  <2>4. \A i \in 0 .. n : h[i] = IF i = 0 THEN base ELSE Push(h[i - 1], segments[i])
    <3>1. \A i \in 0 .. n : i # 0 => i \in 1 .. n
      BY <1>2
    <3> QED
      BY <2>2, <2>3, <3>1, Zenon
  <2>5. h = [i \in 0 .. n |-> h[i]]
    BY <2>2
  <2>6. Def(h)
    BY <2>4, <2>5, Zenon
  <2> QED
    BY <2>6, Zenon
<1>6. PICK h : h = (CHOOSE g : Def(g)) /\ Def(h)
  BY <1>5
<1>7. /\ h = [i \in 0 .. n |-> h[i]] /\ h[0] = base
      /\ \A i \in 1 .. n : h[i] = Push(h[i - 1], segments[i])
  <2>1. h = [i \in 0 .. n |-> IF i = 0 THEN base ELSE Push(h[i - 1], segments[i])]
    BY <1>6, Zenon
  <2>2. 0 \in 0 .. n /\ \A i \in 1 .. n : i \in 0 .. n /\ i # 0
    BY <1>2
  <2>3. h = [i \in 0 .. n |-> h[i]] /\ h[0] = base
    BY <2>1, <2>2, Zenon
  <2>4. \A i \in 1 .. n : h[i] = Push(h[i - 1], segments[i])
    BY <2>1, <2>2, Zenon
  <2> QED
    BY <2>3, <2>4, Zenon
<1> HIDE DEF Def
<1>8. \A i \in 1 .. n : h[i - 1] \in Names => h[i] = PushStep[h[i - 1]][segments[i]]
  BY <1>3, <1>7
<1>9. Fold(Names, PushStep, base, segments) = h[n]
  BY <1>2, <1>4, <1>7, <1>8, FoldFrom DEF n
<1> QED
  BY <1>1, <1>6, <1>9, Zenon DEF base, segments, Named

\* The reference takes the same steps.
LEMMA EntersAsPushed ==
    ASSUME NEW names \in Names, NEW s \in Segment
    PROVE  Enter(names, s) = Push(names, s)
<1> DEFINE n == Len(names)
           up == [i \in 1 .. (n - 1) |-> names[i]]
<1>0. s \in Nothing => s # Parent
  BY DEF Nothing, Parent
<1>1. CASE s \in Nothing
  BY <1>0, <1>1, Zenon DEF Enter, Push
<1>2. CASE s \notin Nothing /\ s # Parent
  BY <1>2, Zenon DEF Enter, Push
<1>3. CASE s \notin Nothing /\ s = Parent
  <2>1. Enter(names, s) = up
    BY <1>3, Zenon DEF Enter
  <2>2. CASE names = <<>>
    <3>1. Push(names, s) = <<>>
      BY <1>3, <2>2, Zenon DEF Push
    <3>2. n = 0
      BY <2>2, EmptySeq
    <3>3. up = <<>>
      BY <3>2
    <3> QED
      BY <2>1, <3>1, <3>3, Zenon
  <2>3. CASE names # <<>>
    <3>1. Push(names, s) = Front(names)
      BY <1>3, <2>3, Zenon DEF Push
    <3>2. PICK f : f = Front(names) /\ f \in Names /\ names = Append(f, Last(names)) /\ Last(names) \in Proper
      BY <2>3, FrontLast DEF Names
    <3>3. /\ Len(f) \in Nat /\ n = Len(f) + 1
          /\ \A i \in 1 .. Len(f) : names[i] = f[i]
      BY <3>2, AppendProperties, LenProperties DEF Names
    <3>4. f = [i \in 1 .. Len(f) |-> f[i]]
      BY <3>2, LenProperties DEF Names
    <3>5. n - 1 = Len(f)
      BY <3>3
    <3> HIDE DEF n
    <3>6. up = f
      BY <3>3, <3>4, <3>5
    <3> QED
      BY <2>1, <3>1, <3>2, <3>6, Zenon
  <2> QED
    BY <2>2, <2>3
<1> QED
  BY <1>1, <1>2, <1>3

LEMMA WalkNames ==
    ASSUME NEW p \in Text
    PROVE  Walk(p) = Named(Segments(p))
<1> DEFINE segments == Segments(p)
<1>0. segments \in Seq(Segment)
  BY SegmentsTyped DEF Splits
<1> DEFINE n == Len(segments)
           base == <<>>
           Def(h) == h = [i \in 0 .. n |-> IF i = 0 THEN base ELSE Enter(h[i - 1], segments[i])]
<1>1. Walk(p) = (CHOOSE h : Def(h))[n]
  BY DEF Walk
<1>2. n \in Nat /\ segments \in Seq(Segment) /\ \A i \in 1 .. n : segments[i] \in Segment
  BY <1>0, LenProperties, ElementOfSeq
<1>3. \A i \in 1 .. n, v \in Names : PushStep[v][segments[i]] = Enter(v, segments[i])
  BY <1>2, EntersAsPushed DEF PushStep
<1>4. base \in Names /\ PushStep \in FoldSteps(Names, Segment)
  BY PushStepTyped
<1> HIDE DEF n, base, segments
<1>5. \E h : Def(h)
  <2>1. PICK h : FoldedBy(h, Names, PushStep, base, segments)
    BY <1>2, <1>4, FoldExists
  <2>2. /\ h \in [0 .. n -> Names] /\ h[0] = base
        /\ \A i \in 1 .. n : h[i] = PushStep[h[i - 1]][segments[i]]
    BY <2>1 DEF FoldedBy, n
  <2>3. \A i \in 1 .. n : h[i] = Enter(h[i - 1], segments[i])
    <3> TAKE i \in 1 .. n
    <3>1. i - 1 \in 0 .. n
      BY <1>2
    <3>2. h[i - 1] \in Names
      BY <2>2, <3>1
    <3> QED
      BY <1>3, <2>2, <3>2
  <2>4. \A i \in 0 .. n : h[i] = IF i = 0 THEN base ELSE Enter(h[i - 1], segments[i])
    <3>1. \A i \in 0 .. n : i # 0 => i \in 1 .. n
      BY <1>2
    <3> QED
      BY <2>2, <2>3, <3>1, Zenon
  <2>5. h = [i \in 0 .. n |-> h[i]]
    BY <2>2
  <2>6. Def(h)
    BY <2>4, <2>5, Zenon
  <2> QED
    BY <2>6, Zenon
<1>6. PICK h : h = (CHOOSE g : Def(g)) /\ Def(h)
  BY <1>5
<1>7. /\ h = [i \in 0 .. n |-> h[i]] /\ h[0] = base
      /\ \A i \in 1 .. n : h[i] = Enter(h[i - 1], segments[i])
  <2>1. h = [i \in 0 .. n |-> IF i = 0 THEN base ELSE Enter(h[i - 1], segments[i])]
    BY <1>6, Zenon
  <2>2. 0 \in 0 .. n /\ \A i \in 1 .. n : i \in 0 .. n /\ i # 0
    BY <1>2
  <2>3. h = [i \in 0 .. n |-> h[i]] /\ h[0] = base
    BY <2>1, <2>2, Zenon
  <2>4. \A i \in 1 .. n : h[i] = Enter(h[i - 1], segments[i])
    BY <2>1, <2>2, Zenon
  <2> QED
    BY <2>3, <2>4, Zenon
<1> HIDE DEF Def
<1>8. \A i \in 1 .. n : h[i - 1] \in Names => h[i] = PushStep[h[i - 1]][segments[i]]
  BY <1>3, <1>7
<1>9. Fold(Names, PushStep, base, segments) = h[n]
  BY <1>2, <1>4, <1>7, <1>8, FoldFrom DEF n
<1> QED
  BY <1>1, <1>6, <1>9, Zenon DEF base, segments, Named

-----------------------------------------------------------------------------
(* Case and separators: what is done to each element of a sequence.        *)

Mapped(m, s) == [i \in DOMAIN s |-> m[s[i]]]

IsMapped(u, m, s, T) ==
    u \in Seq(T) /\ Len(u) = Len(s) /\ \A i \in 1 .. Len(s) : u[i] = m[s[i]]

LEMMA MappedTyped ==
    ASSUME NEW S, NEW T, NEW m \in [S -> T], NEW s \in Seq(S)
    PROVE  IsMapped(Mapped(m, s), m, s, T)
<1>1. Len(s) \in Nat /\ DOMAIN s = 1 .. Len(s) /\ \A i \in 1 .. Len(s) : s[i] \in S
  BY LenProperties, ElementOfSeq
<1> DEFINE n == Len(s)
           u == Mapped(m, s)
<1>2. u = [i \in 1 .. n |-> m[s[i]]] /\ n \in Nat
  BY <1>1 DEF Mapped
<1>3. \A i \in 1 .. n : m[s[i]] \in T
  BY <1>1
<1> HIDE DEF u, n
<1>4. u \in [1 .. n -> T]
  BY <1>2, <1>3
<1>5. u \in Seq(T) /\ Len(u) = n
  BY <1>2, <1>4
<1> QED
  BY <1>2, <1>5 DEF u, n, IsMapped

LEMMA MappedNothing == ASSUME NEW m PROVE Mapped(m, <<>>) = <<>>
  BY DEF Mapped

MapsConcat(m, s, t) == Mapped(m, s \o t) = Mapped(m, s) \o Mapped(m, t)

ConcatIs(w, u, v, T) ==
    /\ w \in Seq(T) /\ Len(w) = Len(u) + Len(v)
    /\ \A i \in 1 .. Len(u) + Len(v) : w[i] = IF i <= Len(u) THEN u[i] ELSE v[i - Len(u)]

LEMMA ConcatIsSo ==
    ASSUME NEW T, NEW u \in Seq(T), NEW v \in Seq(T)
    PROVE  ConcatIs(u \o v, u, v, T)
  BY ConcatProperties DEF ConcatIs

LEMMA MappedConcat ==
    ASSUME NEW S, NEW T, NEW m \in [S -> T], NEW s \in Seq(S), NEW t \in Seq(S)
    PROVE  MapsConcat(m, s, t)
<1> DEFINE n == Len(s)
           k == Len(t)
           u == Mapped(m, s)
           v == Mapped(m, t)
           w == Mapped(m, s \o t)
<1>1. n \in Nat /\ k \in Nat
  BY LenProperties
<1>2. s \o t \in Seq(S) /\ Len(s \o t) = n + k
      /\ \A i \in 1 .. n + k : (s \o t)[i] = IF i <= n THEN s[i] ELSE t[i - n]
  BY ConcatProperties
<1>3. u \in Seq(T) /\ Len(u) = n /\ \A i \in 1 .. n : u[i] = m[s[i]]
  <2>1. IsMapped(u, m, s, T)
    BY MappedTyped, Zenon
  <2> QED
    BY <2>1 DEF IsMapped
<1>4. v \in Seq(T) /\ Len(v) = k /\ \A i \in 1 .. k : v[i] = m[t[i]]
  <2>1. IsMapped(v, m, t, T)
    BY MappedTyped, Zenon
  <2> QED
    BY <2>1 DEF IsMapped
<1>5. w \in Seq(T) /\ Len(w) = n + k /\ \A i \in 1 .. n + k : w[i] = m[(s \o t)[i]]
  <2>1. IsMapped(w, m, s \o t, T)
    BY <1>2, MappedTyped, Zenon
  <2> QED
    BY <1>2, <2>1 DEF IsMapped
<1> HIDE DEF n, k, u, v, w
<1>6. u \o v \in Seq(T) /\ Len(u \o v) = n + k
      /\ \A i \in 1 .. n + k : (u \o v)[i] = IF i <= n THEN u[i] ELSE v[i - n]
  <2>1. u \in Seq(T) /\ v \in Seq(T) /\ Len(u) = n /\ Len(v) = k
    BY <1>3, <1>4
  <2>2. ConcatIs(u \o v, u, v, T)
    BY <2>1, ConcatIsSo, Zenon
  <2> QED
    BY <2>1, <2>2, Zenon DEF ConcatIs
<1>7. \A i \in 1 .. n + k : w[i] = (u \o v)[i]
  <2> TAKE i \in 1 .. n + k
  <2>1. CASE i <= n
    <3>1. i \in 1 .. n
      BY <1>1, <2>1
    <3>2. w[i] = m[s[i]]
      BY <1>2, <1>5, <2>1
    <3>3. (u \o v)[i] = u[i]
      BY <1>6, <2>1
    <3> QED
      BY <1>3, <3>1, <3>2, <3>3
  <2>2. CASE ~(i <= n)
    <3>1. i - n \in 1 .. k
      BY <1>1, <2>2
    <3>2. w[i] = m[t[i - n]]
      BY <1>2, <1>5, <2>2
    <3>3. (u \o v)[i] = v[i - n]
      BY <1>6, <2>2
    <3> QED
      BY <1>4, <3>1, <3>2, <3>3
  <2> QED
    BY <2>1, <2>2
<1>8. w = u \o v
  BY <1>5, <1>6, <1>7, SeqEqual
<1> QED
  BY <1>8 DEF u, v, w, MapsConcat

MapsAppend(m, s, e) == Mapped(m, Append(s, e)) = Append(Mapped(m, s), m[e])

LEMMA MappedAppend ==
    ASSUME NEW S, NEW T, NEW m \in [S -> T], NEW s \in Seq(S), NEW e \in S
    PROVE  MapsAppend(m, s, e)
<1>1. <<e>> \in Seq(S) /\ Len(<<e>>) = 1 /\ <<e>>[1] = e
  BY Single
<1>2. m[e] \in T
  OBVIOUS
<1>3. <<m[e]>> \in Seq(T) /\ Len(<<m[e]>>) = 1 /\ <<m[e]>>[1] = m[e]
  BY <1>2, Single
<1>4. Mapped(m, <<e>>) \in Seq(T) /\ Len(Mapped(m, <<e>>)) = 1
      /\ Mapped(m, <<e>>)[1] = m[e]
  <2>1. PICK t \in Seq(S) : t = <<e>> /\ Len(t) = 1 /\ t[1] = e
    BY <1>1
  <2>2. Mapped(m, t) \in Seq(T) /\ Len(Mapped(m, t)) = 1 /\ Mapped(m, t)[1] = m[t[1]]
    <3>1. IsMapped(Mapped(m, t), m, t, T)
      BY MappedTyped, Zenon
    <3> QED
      BY <2>1, <3>1 DEF IsMapped
  <2> QED
    BY <2>1, <2>2
<1>5. Mapped(m, <<e>>) = <<m[e]>>
  <2>1. \A i \in 1 .. 1 : Mapped(m, <<e>>)[i] = <<m[e]>>[i]
    BY <1>3, <1>4
  <2> QED
    BY <1>3, <1>4, <2>1, SeqEqual
<1>6. Mapped(m, s) \in Seq(T)
  BY MappedTyped, Zenon DEF IsMapped
<1>7. Append(s, e) = s \o <<e>> /\ Append(Mapped(m, s), m[e]) = Mapped(m, s) \o <<m[e]>>
  BY <1>2, <1>6, AppendIsConcat
<1>8. MapsConcat(m, s, <<e>>)
  BY <1>1, MappedConcat, Zenon
<1> QED
  BY <1>5, <1>7, <1>8, Zenon DEF MapsAppend, MapsConcat

LowerMap == [x \in Str |-> Lowered(x)]

LEMMA LoweredIs ==
    ASSUME NEW x \in Str
    PROVE  /\ Lowered(x) \in Str
           /\ Lowered(x) \in Separators <=> x \in Separators
           /\ x \in Separators => Lowered(x) = x
           /\ Lowered(x) = "." <=> x = "."
           /\ Lowered(x) = ".." <=> x = ".."
<1>1. CASE x \in DOMAIN Lower
  <2>1. Lowered(x) = Lower[x]
    BY <1>1 DEF Lowered
  <2>2. x \in NamePiece /\ Lower[x] \in NamePiece
    BY <1>1, LowerAssumption DEF LowercaseIsStable
  <2> QED
    BY <2>1, <2>2 DEF NamePiece, Str
<1>2. CASE x \notin DOMAIN Lower
  BY <1>2 DEF Lowered
<1> QED
  BY <1>1, <1>2

LEMMA LowerMapTyped ==
    LowerMap \in [Str -> Str] /\ \A x \in Str : LowerMap[x] = Lowered(x)
  BY LoweredIs DEF LowerMap

LEMMA LowercaseMapped == ASSUME NEW p \in Text PROVE Lowercase(p) = Mapped(LowerMap, p)
<1>1. DOMAIN p = 1 .. Len(p) /\ \A i \in 1 .. Len(p) : p[i] \in Str
  BY LenProperties, ElementOfSeq DEF Text
<1>2. \A i \in DOMAIN p : LowerMap[p[i]] = Lowered(p[i])
  BY <1>1, LowerMapTyped
<1> QED
  BY <1>2 DEF Lowercase, Mapped

LEMMA LowercaseTyped ==
    ASSUME NEW p \in Text
    PROVE  /\ Lowercase(p) \in Text /\ Len(Lowercase(p)) = Len(p)
           /\ \A i \in 1 .. Len(p) : Lowercase(p)[i] = Lowered(p[i])
<1>1. /\ Mapped(LowerMap, p) \in Seq(Str) /\ Len(Mapped(LowerMap, p)) = Len(p)
      /\ \A i \in 1 .. Len(p) : Mapped(LowerMap, p)[i] = LowerMap[p[i]]
  <2>1. IsMapped(Mapped(LowerMap, p), LowerMap, p, Str)
    BY LowerMapTyped, MappedTyped, Zenon DEF Text
  <2> QED
    BY <2>1 DEF IsMapped
<1>2. \A i \in 1 .. Len(p) : p[i] \in Str
  BY ElementOfSeq DEF Text
<1> QED
  BY <1>1, <1>2, LowercaseMapped, LowerMapTyped DEF Text

LEMMA LowercaseNothing == Lowercase(<<>>) = <<>>
  BY DEF Lowercase

LEMMA LowercaseAppend ==
    ASSUME NEW p \in Text, NEW x \in Str
    PROVE  Lowercase(Append(p, x)) = Append(Lowercase(p), Lowered(x))
<1>1. p \in Seq(Str) /\ Append(p, x) \in Text
  BY AppendProperties DEF Text
<1>2. Mapped(LowerMap, Append(p, x)) = Append(Mapped(LowerMap, p), LowerMap[x])
  BY <1>1, LowerMapTyped, MappedAppend, Zenon DEF MapsAppend
<1> QED
  BY <1>1, <1>2, LowercaseMapped, LowerMapTyped

LEMMA LowercaseConcat ==
    ASSUME NEW p \in Text, NEW q \in Text
    PROVE  Lowercase(p \o q) = Lowercase(p) \o Lowercase(q)
<1>1. p \in Seq(Str) /\ q \in Seq(Str) /\ p \o q \in Text
  BY ConcatProperties DEF Text
<1>2. MapsConcat(LowerMap, p, q)
  BY <1>1, LowerMapTyped, MappedConcat, Zenon
<1> QED
  BY <1>1, <1>2, LowercaseMapped DEF MapsConcat

LEMMA SegmentIsText == \A s \in Segment : s \in Text
  BY SeqMonotonic DEF Segment, Text, Plain

LEMMA LowercaseSegment ==
    ASSUME NEW s \in Segment
    PROVE  /\ Lowercase(s) \in Segment
           /\ Lowercase(s) = <<>> <=> s = <<>>
           /\ Lowercase(s) = <<".">> <=> s = <<".">>
           /\ Lowercase(s) = <<"..">> <=> s = <<"..">>
<1>1. s \in Text /\ Len(s) \in Nat /\ \A i \in 1 .. Len(s) : s[i] \in Plain
  BY SegmentIsText, LenProperties, ElementOfSeq DEF Segment
<1> DEFINE t == Lowercase(s)
<1>2. /\ t \in Text /\ Len(t) = Len(s) /\ Len(t) \in Nat
      /\ \A i \in 1 .. Len(s) : t[i] = Lowered(s[i])
  BY <1>1, LowercaseTyped
<1> HIDE DEF t
<1>3. \A i \in 1 .. Len(t) : t[i] \in Plain
  <2> TAKE i \in 1 .. Len(t)
  <2>1. s[i] \in Str /\ s[i] \notin Separators /\ t[i] = Lowered(s[i])
    BY <1>1, <1>2 DEF Plain
  <2>2. Lowered(s[i]) \in Str /\ Lowered(s[i]) \notin Separators
    BY <2>1, LoweredIs, Zenon
  <2> QED
    BY <2>1, <2>2 DEF Plain
<1>4. t \in Segment
  <2>1. t \in [1 .. Len(t) -> Str]
    BY <1>2, LenProperties DEF Text
  <2>2. t \in [1 .. Len(t) -> Plain]
    BY <1>3, <2>1
  <2> QED
    BY <1>2, <2>2 DEF Segment
<1>5. t = <<>> <=> s = <<>>
  BY <1>1, <1>2, EmptySeq DEF Text
<1>6. \A x \in {".", ".."} : t = <<x>> <=> s = <<x>>
  <2> SUFFICES ASSUME NEW x \in {".", ".."} PROVE t = <<x>> <=> s = <<x>>
    OBVIOUS
  <2>1. <<x>> \in Text /\ Len(<<x>>) = 1 /\ <<x>>[1] = x
    <3>1. x \in Str
      BY DEF Str
    <3> QED
      BY <3>1, Single, Zenon DEF Text
  <2>2. t = <<x>> => Len(s) = 1 /\ Lowered(s[1]) = x
    BY <1>2, <2>1
  <2>3. Len(s) = 1 /\ Lowered(s[1]) = x => t = <<x>>
    <3> SUFFICES ASSUME Len(s) = 1, Lowered(s[1]) = x PROVE t = <<x>>
      OBVIOUS
    <3>1. Len(t) = 1 /\ t[1] = x
      BY <1>2
    <3>2. \A i \in 1 .. Len(t) : t[i] = <<x>>[i]
      BY <2>1, <3>1
    <3> QED
      BY <1>2, <2>1, <3>1, <3>2, SeqEqual DEF Text
  <2>4. s = <<x>> => Len(s) = 1 /\ s[1] = x
    BY <2>1
  <2>5. Len(s) = 1 /\ s[1] = x => s = <<x>>
    <3> SUFFICES ASSUME Len(s) = 1, s[1] = x PROVE s = <<x>>
      OBVIOUS
    <3>1. \A i \in 1 .. Len(s) : s[i] = <<x>>[i]
      BY <2>1
    <3> QED
      BY <1>1, <2>1, <3>1, SeqEqual DEF Text
  <2>6. Len(s) = 1 => (Lowered(s[1]) = x <=> s[1] = x)
    <3>1. Len(s) = 1 => s[1] \in Str
      BY <1>1 DEF Plain
    <3> QED
      BY <3>1, LoweredIs
  <2> QED
    BY <2>2, <2>3, <2>4, <2>5, <2>6
<1> QED
  BY <1>4, <1>5, <1>6 DEF t

SegmentMap == [s \in Segment |-> Lowercase(s)]

LowerAll(names) == Mapped(SegmentMap, names)

LEMMA SegmentMapTyped ==
    /\ SegmentMap \in [Segment -> Segment]
    /\ \A s \in Segment : SegmentMap[s] = Lowercase(s)
  BY LowercaseSegment DEF SegmentMap

LEMMA LowerAllTyped ==
    ASSUME NEW names \in Seq(Segment)
    PROVE  /\ LowerAll(names) \in Seq(Segment) /\ Len(LowerAll(names)) = Len(names)
           /\ LowerAll(names) = <<>> <=> names = <<>>
<1>1. IsMapped(LowerAll(names), SegmentMap, names, Segment)
  BY SegmentMapTyped, MappedTyped, Zenon DEF LowerAll
<1>2. LowerAll(names) \in Seq(Segment) /\ Len(LowerAll(names)) = Len(names)
  BY <1>1 DEF IsMapped
<1> QED
  BY <1>2, EmptySeq

LEMMA LowerAllNothing == LowerAll(<<>>) = <<>>
  BY MappedNothing DEF LowerAll

LEMMA LowerAllAppend ==
    ASSUME NEW names \in Seq(Segment), NEW s \in Segment
    PROVE  LowerAll(Append(names, s)) = Append(LowerAll(names), Lowercase(s))
<1>1. MapsAppend(SegmentMap, names, s)
  BY SegmentMapTyped, MappedAppend, Zenon
<1> QED
  BY <1>1, SegmentMapTyped, Zenon DEF MapsAppend, LowerAll

\* To split and then to lowercase is to lowercase and then to split.
LEMMA SplitLowers ==
    ASSUME NEW v \in Splits, NEW x \in Str
    PROVE  Split(LowerAll(v), Lowered(x)) = LowerAll(Split(v, x))
<1>1. v \in Seq(Segment) /\ v # <<>> /\ <<>> \in Segment
  BY EmptySeq DEF Splits, Segment
<1>2. Lowered(x) \in Str /\ (Lowered(x) \in Separators <=> x \in Separators)
  BY LoweredIs
<1>3. CASE x \in Separators
  <2>1. Split(LowerAll(v), Lowered(x)) = Append(LowerAll(v), <<>>)
    BY <1>2, <1>3, Zenon DEF Split
  <2>2. Split(v, x) = Append(v, <<>>)
    BY <1>3, Zenon DEF Split
  <2>3. LowerAll(Append(v, <<>>)) = Append(LowerAll(v), Lowercase(<<>>))
    BY <1>1, LowerAllAppend, Zenon
  <2> QED
    BY <2>1, <2>2, <2>3, LowercaseNothing, Zenon
<1>4. CASE x \notin Separators
  <2>1. PICK f \in Seq(Segment), l \in Segment :
           f = Front(v) /\ l = Last(v) /\ v = Append(f, l)
    BY <1>1, FrontLast, Zenon
  <2>2. LowerAll(f) \in Seq(Segment) /\ Lowercase(l) \in Segment
    BY LowerAllTyped, LowercaseSegment
  <2>3. LowerAll(v) = Append(LowerAll(f), Lowercase(l))
    BY <2>1, LowerAllAppend, Zenon
  <2>4. FrontAndLast(LowerAll(v), LowerAll(f), Lowercase(l))
    BY <2>2, <2>3, FrontOfAppend, Zenon
  <2>5. Split(LowerAll(v), Lowered(x))
           = Append(LowerAll(f), Append(Lowercase(l), Lowered(x)))
    BY <1>2, <1>4, <2>4, Zenon DEF Split, FrontAndLast
  <2>6. Split(v, x) = Append(f, Append(l, x))
    BY <1>4, <2>1, Zenon DEF Split
  <2>7. Append(l, x) \in Segment
    <3>1. x \in Plain
      BY <1>4 DEF Plain
    <3> QED
      BY <3>1, AppendProperties DEF Segment
  <2>8. Lowercase(Append(l, x)) = Append(Lowercase(l), Lowered(x))
    BY SegmentIsText, LowercaseAppend
  <2>9. LowerAll(Append(f, Append(l, x))) = Append(LowerAll(f), Lowercase(Append(l, x)))
    BY <2>7, LowerAllAppend, Zenon
  <2> QED
    BY <2>5, <2>6, <2>8, <2>9, Zenon
<1> QED
  BY <1>3, <1>4

LEMMA SegmentsLower ==
    ASSUME NEW p \in Text
    PROVE  Segments(Lowercase(p)) = LowerAll(Segments(p))
<1> DEFINE S == {q \in Text : Segments(Lowercase(q)) = LowerAll(Segments(q))}
<1>1. <<>> \in S
  <2>1. <<>> \in Text
    BY EmptySeq DEF Text
  <2>2. <<>> \in Seq(Segment) /\ <<>> \in Segment
    BY EmptySeq DEF Segment
  <2>3. Append(<<>>, <<>>) = OneEmpty
    BY DEF OneEmpty
  <2>4. LowerAll(Append(<<>>, <<>>)) = Append(LowerAll(<<>>), Lowercase(<<>>))
    BY <2>2, LowerAllAppend, Zenon
  <2>5. LowerAll(OneEmpty) = OneEmpty
    BY <2>3, <2>4, LowerAllNothing, LowercaseNothing, Zenon
  <2> QED
    BY <2>1, <2>5, SegmentsOfNothing, LowercaseNothing DEF OneEmpty
<1>2. ASSUME NEW q \in Seq(Str), NEW x \in Str, q \in S PROVE Append(q, x) \in S
  <2>1. q \in Text /\ Append(q, x) \in Text /\ Segments(Lowercase(q)) = LowerAll(Segments(q))
    BY <1>2, AppendProperties DEF Text
  <2>2. Lowercase(Append(q, x)) = Append(Lowercase(q), Lowered(x))
    BY <2>1, LowercaseAppend, Zenon
  <2>3. Lowercase(q) \in Text /\ Lowered(x) \in Str
    BY <2>1, LowercaseTyped, LoweredIs
  <2>4. Segments(Lowercase(Append(q, x))) = Split(LowerAll(Segments(q)), Lowered(x))
    BY <2>1, <2>2, <2>3, SegmentsOfOneMore, Zenon
  <2>5. Segments(Append(q, x)) = Split(Segments(q), x) /\ Segments(q) \in Splits
    BY <2>1, SegmentsOfOneMore, SegmentsTyped, Zenon
  <2> QED
    BY <2>1, <2>4, <2>5, SplitLowers, Zenon
<1>3. Seq(Str) \subseteq S
  <2> HIDE DEF S
  <2> QED
    BY <1>1, <1>2, SeqInduction
<1> QED
  BY <1>3 DEF Text

LEMMA NamesAreSegments == \A names \in Names : names \in Seq(Segment)
  BY SeqMonotonic DEF Names, Proper

LEMMA PushLowers ==
    ASSUME NEW names \in Names, NEW s \in Segment
    PROVE  Push(LowerAll(names), Lowercase(s)) = LowerAll(Push(names, s))
<1>1. names \in Seq(Segment)
  BY NamesAreSegments
<1>2. /\ Lowercase(s) \in Nothing <=> s \in Nothing
      /\ Lowercase(s) = Parent <=> s = Parent
      /\ LowerAll(names) = <<>> <=> names = <<>>
  BY <1>1, LowercaseSegment, LowerAllTyped DEF Nothing, Parent
<1>3. CASE s \in Nothing
  BY <1>2, <1>3, Zenon DEF Push
<1>4. CASE s \notin Nothing /\ s # Parent
  BY <1>1, <1>2, <1>4, LowerAllAppend, Zenon DEF Push
<1>5. CASE s \notin Nothing /\ s = Parent /\ names = <<>>
  BY <1>2, <1>5, Zenon DEF Push
<1>6. CASE s \notin Nothing /\ s = Parent /\ names # <<>>
  <2>1. Push(names, s) = Front(names) /\ Push(LowerAll(names), Lowercase(s)) = Front(LowerAll(names))
    BY <1>2, <1>6, Zenon DEF Push
  <2>2. PICK f \in Seq(Segment), l \in Segment : f = Front(names) /\ names = Append(f, l)
    BY <1>1, <1>6, FrontLast, Zenon
  <2>3. LowerAll(names) = Append(LowerAll(f), Lowercase(l))
    BY <2>2, LowerAllAppend, Zenon
  <2>4. LowerAll(f) \in Seq(Segment) /\ Lowercase(l) \in Segment
    BY LowerAllTyped, LowercaseSegment
  <2>5. FrontAndLast(LowerAll(names), LowerAll(f), Lowercase(l))
    BY <2>3, <2>4, FrontOfAppend, Zenon
  <2> QED
    BY <2>1, <2>2, <2>5, Zenon DEF FrontAndLast
<1> QED
  BY <1>3, <1>4, <1>5, <1>6

LEMMA NamedLowers ==
    ASSUME NEW segments \in Seq(Segment)
    PROVE  Named(LowerAll(segments)) = LowerAll(Named(segments))
<1> DEFINE S == {t \in Seq(Segment) : Named(LowerAll(t)) = LowerAll(Named(t))}
<1>1. <<>> \in S
  BY EmptySeq, NamedOfNothing, LowerAllNothing
<1>2. ASSUME NEW t \in Seq(Segment), NEW s \in Segment, t \in S PROVE Append(t, s) \in S
  <2>1. Append(t, s) \in Seq(Segment) /\ Named(LowerAll(t)) = LowerAll(Named(t))
    BY <1>2, AppendProperties
  <2>2. LowerAll(Append(t, s)) = Append(LowerAll(t), Lowercase(s))
    BY LowerAllAppend, Zenon
  <2>3. LowerAll(t) \in Seq(Segment) /\ Lowercase(s) \in Segment /\ Named(t) \in Names
    BY LowerAllTyped, LowercaseSegment, NamedTyped
  <2>4. Named(LowerAll(Append(t, s))) = Push(LowerAll(Named(t)), Lowercase(s))
    BY <2>1, <2>2, <2>3, NamedOfOneMore, Zenon
  <2>5. Named(Append(t, s)) = Push(Named(t), s)
    BY NamedOfOneMore, Zenon
  <2> QED
    BY <2>1, <2>3, <2>4, <2>5, PushLowers, Zenon
<1>3. Seq(Segment) \subseteq S
  <2> HIDE DEF S
  <2> QED
    BY <1>1, <1>2, SeqInduction
<1> QED
  BY <1>3

LEMMA WalkLower ==
    ASSUME NEW p \in Text
    PROVE  Walk(Lowercase(p)) = LowerAll(Named(Segments(p)))
<1>1. Lowercase(p) \in Text /\ Segments(p) \in Seq(Segment)
  BY LowercaseTyped, SegmentsTyped DEF Splits
<1> QED
  BY <1>1, WalkNames, SegmentsLower, NamedLowers, Zenon

LEMMA SegmentsAreTexts == \A names \in Seq(Segment) : names \in Seq(Text)
<1>1. Segment \subseteq Text
  BY SegmentIsText
<1> QED
  BY <1>1, SeqMonotonic

LEMMA JoinLowers ==
    ASSUME NEW t \in Text, NEW name \in Text, NEW sep \in Separators
    PROVE  Lowercase(Join(t, name, sep)) = Join(Lowercase(t), Lowercase(name), sep)
<1>1. sep \in Str /\ Lowered(sep) = sep
  BY LoweredIs DEF Separators, Str
<1>2. Lowercase(t) = <<>> <=> t = <<>>
  BY LowercaseTyped, EmptySeq DEF Text
<1>3. <<>> \in Text /\ <<sep>> \in Text
  BY <1>1, EmptySeq, Single, Zenon DEF Text
<1>4. Append(<<>>, sep) = <<sep>>
  OBVIOUS
<1>5. Lowercase(Append(<<>>, sep)) = Append(<<>>, sep)
  BY <1>1, <1>3, LowercaseAppend, LowercaseNothing, Zenon
<1>6. Lowercase(<<sep>>) = <<sep>>
  BY <1>4, <1>5, Zenon
<1>7. t \o <<sep>> \in Text
  BY <1>3, ConcatProperties DEF Text
<1>8. Lowercase((t \o <<sep>>) \o name) = (Lowercase(t) \o <<sep>>) \o Lowercase(name)
  BY <1>3, <1>6, <1>7, LowercaseConcat, Zenon
<1> QED
  BY <1>2, <1>8, Zenon DEF Join

LEMMA JoinedLowers ==
    ASSUME NEW names \in Seq(Segment), NEW sep \in Separators
    PROVE  Lowercase(Joined(names, sep)) = Joined(LowerAll(names), sep)
<1>0. sep \in Str
  BY DEF Separators, Str
<1> DEFINE S == {t \in Seq(Segment) : Lowercase(Joined(t, sep)) = Joined(LowerAll(t), sep)}
<1>1. <<>> \in S
  BY <1>0, EmptySeq, JoinedOfNothing, LowerAllNothing, LowercaseNothing
<1>2. ASSUME NEW t \in Seq(Segment), NEW s \in Segment, t \in S PROVE Append(t, s) \in S
  <2>1. Append(t, s) \in Seq(Segment) /\ Lowercase(Joined(t, sep)) = Joined(LowerAll(t), sep)
    BY <1>2, AppendProperties
  <2>2. LowerAll(Append(t, s)) = Append(LowerAll(t), Lowercase(s))
    BY LowerAllAppend, Zenon
  <2>3. LowerAll(t) \in Seq(Text) /\ Lowercase(s) \in Text /\ t \in Seq(Text) /\ s \in Text
    BY LowerAllTyped, LowercaseSegment, SegmentIsText, SegmentsAreTexts
  <2>4. Joined(LowerAll(Append(t, s)), sep) = Join(Joined(LowerAll(t), sep), Lowercase(s), sep)
    BY <1>0, <2>2, <2>3, JoinedOfOneMore, Zenon
  <2>5. Joined(Append(t, s), sep) = Join(Joined(t, sep), s, sep) /\ Joined(t, sep) \in Text
    BY <1>0, <2>3, JoinedOfOneMore, JoinedTyped, Zenon
  <2> QED
    BY <2>1, <2>3, <2>4, <2>5, JoinLowers, Zenon
<1>3. Seq(Segment) \subseteq S
  <2> HIDE DEF S
  <2> QED
    BY <1>1, <1>2, SeqInduction
<1> QED
  BY <1>3

\* Which separator stands between the names does not matter to the segments.
SeparatorMap(sep) == [x \in Str |-> IF x \in Separators THEN sep ELSE x]

LEMMA SeparatedMapped ==
    ASSUME NEW p \in Text, NEW sep \in Separators
    PROVE  /\ SeparatorMap(sep) \in [Str -> Str]
           /\ Separated(p, sep) = Mapped(SeparatorMap(sep), p)
<1>1. sep \in Str
  BY DEF Separators, Str
<1>2. DOMAIN p = 1 .. Len(p) /\ \A i \in 1 .. Len(p) : p[i] \in Str
  BY LenProperties, ElementOfSeq DEF Text
<1>3. \A i \in DOMAIN p : SeparatorMap(sep)[p[i]] = IF p[i] \in Separators THEN sep ELSE p[i]
  BY <1>2 DEF SeparatorMap
<1>4. Separated(p, sep) = Mapped(SeparatorMap(sep), p)
  BY <1>3, Zenon DEF Separated, Mapped
<1>5. SeparatorMap(sep) \in [Str -> Str]
  BY <1>1 DEF SeparatorMap
<1> QED
  BY <1>4, <1>5

LEMMA SeparatedTyped ==
    ASSUME NEW p \in Text, NEW sep \in Separators
    PROVE  Separated(p, sep) \in Text
<1>1. IsMapped(Mapped(SeparatorMap(sep), p), SeparatorMap(sep), p, Str)
  BY SeparatedMapped, MappedTyped, Zenon DEF Text
<1> QED
  BY <1>1, SeparatedMapped DEF IsMapped, Text

LEMMA SegmentsSeparated ==
    ASSUME NEW p \in Text, NEW sep \in Separators
    PROVE  Segments(Separated(p, sep)) = Segments(p)
<1> DEFINE S == {q \in Text : Segments(Separated(q, sep)) = Segments(q)}
<1>1. <<>> \in S
  <2>1. <<>> \in Text
    BY EmptySeq DEF Text
  <2>2. Separated(<<>>, sep) = <<>>
    BY <2>1, SeparatedMapped, MappedNothing, Zenon
  <2> QED
    BY <2>1, <2>2
<1>2. ASSUME NEW q \in Seq(Str), NEW x \in Str, q \in S PROVE Append(q, x) \in S
  <2> DEFINE y == SeparatorMap(sep)[x]
  <2>1. q \in Text /\ Append(q, x) \in Text /\ Segments(Separated(q, sep)) = Segments(q)
    BY <1>2, AppendProperties DEF Text
  <2>2. MapsAppend(SeparatorMap(sep), q, x)
    BY <2>1, SeparatedMapped, MappedAppend, Zenon
  <2>3. Separated(Append(q, x), sep) = Append(Separated(q, sep), y)
    BY <2>1, <2>2, SeparatedMapped, Zenon DEF MapsAppend
  <2>4. y \in Str /\ y = (IF x \in Separators THEN sep ELSE x)
    BY <2>1, SeparatedMapped DEF SeparatorMap
  <2> HIDE DEF y
  <2>5. Segments(Separated(Append(q, x), sep)) = Split(Segments(q), y)
    <3>1. Separated(q, sep) \in Text
      BY <2>1, SeparatedTyped
    <3>2. Segments(Append(Separated(q, sep), y)) = Split(Segments(Separated(q, sep)), y)
      BY <2>4, <3>1, SegmentsOfOneMore
    <3> QED
      BY <2>1, <2>3, <3>2, Zenon
  <2>6. Split(Segments(q), y) = Split(Segments(q), x)
    BY <2>4, Zenon DEF Split
  <2>7. Segments(Append(q, x)) = Split(Segments(q), x)
    BY <2>1, SegmentsOfOneMore, Zenon
  <2> QED
    BY <2>1, <2>5, <2>6, <2>7, Zenon
<1>3. Seq(Str) \subseteq S
  <2> HIDE DEF S
  <2> QED
    BY <1>1, <1>2, SeqInduction
<1> QED
  BY <1>3 DEF Text

\* What stands on either side of a separator is split apart.
AppendsLast(s, t, e) == s \o Append(t, e) = Append(s \o t, e)

LEMMA ConcatAppend ==
    ASSUME NEW S, NEW s \in Seq(S), NEW t \in Seq(S), NEW e \in S
    PROVE  AppendsLast(s, t, e)
<1>1. <<e>> \in Seq(S) /\ s \o t \in Seq(S)
  BY Single, ConcatProperties
<1>2. Append(t, e) = t \o <<e>> /\ Append(s \o t, e) = (s \o t) \o <<e>>
  BY <1>1, AppendIsConcat
<1>3. (s \o t) \o <<e>> = s \o (t \o <<e>>)
  BY <1>1, ConcatAssociative
<1> QED
  BY <1>2, <1>3, Zenon DEF AppendsLast

LEMMA SplitConcat ==
    ASSUME NEW a \in Seq(Segment), NEW v \in Splits, NEW x \in Str
    PROVE  Split(a \o v, x) = a \o Split(v, x)
<1>1. v \in Seq(Segment) /\ v # <<>> /\ <<>> \in Segment
  BY EmptySeq DEF Splits, Segment
<1>2. CASE x \in Separators
  <2>1. AppendsLast(a, v, <<>>)
    BY <1>1, ConcatAppend, Zenon
  <2> QED
    BY <1>2, <2>1, Zenon DEF Split, AppendsLast
<1>3. CASE x \notin Separators
  <2>1. PICK f \in Seq(Segment), l \in Segment :
           f = Front(v) /\ l = Last(v) /\ v = Append(f, l)
    BY <1>1, FrontLast, Zenon
  <2>2. a \o v = Append(a \o f, l) /\ a \o f \in Seq(Segment)
    <3>1. AppendsLast(a, f, l)
      BY ConcatAppend, Zenon
    <3>2. a \o f \in Seq(Segment)
      BY ConcatProperties
    <3> QED
      BY <2>1, <3>1, <3>2, Zenon DEF AppendsLast
  <2>3. FrontAndLast(a \o v, a \o f, l)
    BY <2>2, FrontOfAppend, Zenon
  <2>4. Append(l, x) \in Segment
    <3>1. x \in Plain
      BY <1>3 DEF Plain
    <3> QED
      BY <3>1, AppendProperties DEF Segment
  <2>5. AppendsLast(a, f, Append(l, x))
    BY <2>4, ConcatAppend, Zenon
  <2> QED
    BY <1>3, <2>1, <2>3, <2>5, Zenon DEF Split, AppendsLast, FrontAndLast
<1> QED
  BY <1>2, <1>3

LEMMA SegmentsConcat ==
    ASSUME NEW p \in Text, NEW sep \in Separators, NEW t \in Text
    PROVE  Segments(Append(p, sep) \o t) = Segments(p) \o Segments(t)
<1> DEFINE a == Segments(p)
           q == Append(p, sep)
           S == {u \in Text : Segments(q \o u) = a \o Segments(u)}
<1>1. sep \in Str /\ p \in Seq(Str) /\ q \in Seq(Str) /\ q \in Text
  BY AppendProperties DEF Separators, Str, Text
<1>2. a \in Splits /\ a \in Seq(Segment)
  BY SegmentsTyped DEF Splits
<1>3. Segments(q) = Append(a, <<>>)
  BY <1>1, SegmentsOfOneMore DEF Split
<1> HIDE DEF a, q
<1>4. <<>> \in S
  <2>1. <<>> \in Text /\ <<>> \in Segment
    BY EmptySeq DEF Text, Segment
  <2>2. q \o <<>> = q
    BY <1>1, ConcatEmptySeq
  <2>3. Append(a, <<>>) = a \o <<<<>>>>
    BY <1>2, <2>1, AppendIsConcat, Zenon
  <2> QED
    BY <1>3, <2>1, <2>2, <2>3, SegmentsOfNothing
<1>5. ASSUME NEW u \in Seq(Str), NEW x \in Str, u \in S PROVE Append(u, x) \in S
  <2>1. u \in Text /\ Append(u, x) \in Text /\ Segments(q \o u) = a \o Segments(u)
    BY <1>5, AppendProperties DEF Text
  <2>2. q \o Append(u, x) = Append(q \o u, x) /\ q \o u \in Text
    <3>1. AppendsLast(q, u, x)
      BY <1>1, ConcatAppend, Zenon
    <3> QED
      BY <1>1, <3>1, ConcatProperties DEF Text, AppendsLast
  <2>3. Segments(q \o Append(u, x)) = Split(a \o Segments(u), x)
    BY <2>1, <2>2, SegmentsOfOneMore, Zenon
  <2>4. Segments(Append(u, x)) = Split(Segments(u), x) /\ Segments(u) \in Splits
    BY <2>1, SegmentsOfOneMore, SegmentsTyped, Zenon
  <2>5. Split(a \o Segments(u), x) = a \o Split(Segments(u), x)
    BY <1>2, <2>4, SplitConcat, Zenon
  <2> QED
    BY <2>1, <2>3, <2>4, <2>5, Zenon
<1>6. Seq(Str) \subseteq S
  <2> HIDE DEF S
  <2> QED
    BY <1>4, <1>5, SeqInduction
<1> QED
  BY <1>6 DEF Text, a, q

LEMMA SegmentsOfSegment ==
    ASSUME NEW s \in Segment
    PROVE  Segments(s) = Append(<<>>, s)
<1> DEFINE S == {t \in Segment : Segments(t) = Append(<<>>, t)}
<1>1. <<>> \in S
  BY EmptySeq, SegmentsOfNothing DEF Segment
<1>2. ASSUME NEW t \in Seq(Plain), NEW x \in Plain, t \in S PROVE Append(t, x) \in S
  <2>1. t \in Segment /\ Append(t, x) \in Segment /\ Segments(t) = Append(<<>>, t)
    BY <1>2, AppendProperties DEF Segment
  <2>2. t \in Text /\ x \in Str /\ x \notin Separators
    BY <2>1, SegmentIsText DEF Plain
  <2>3. Segments(Append(t, x)) = Split(Append(<<>>, t), x)
    BY <2>1, <2>2, SegmentsOfOneMore, Zenon
  <2>4. <<>> \in Seq(Segment)
    BY EmptySeq
  <2>5. FrontAndLast(Append(<<>>, t), <<>>, t)
    BY <2>1, <2>4, FrontOfAppend, Zenon
  <2>6. Split(Append(<<>>, t), x) = Append(<<>>, Append(t, x))
    BY <2>2, <2>5, Zenon DEF Split, FrontAndLast
  <2> QED
    BY <2>1, <2>3, <2>6, Zenon
<1>3. Seq(Plain) \subseteq S
  <2> HIDE DEF S
  <2> QED
    BY <1>1, <1>2, SeqInduction
<1> QED
  BY <1>3 DEF Segment

LEMMA JoinMore ==
    ASSUME NEW t \in Text, t # <<>>, NEW name \in Text, NEW sep \in Separators
    PROVE  Join(t, name, sep) = Append(t, sep) \o name
<1>1. sep \in Str
  BY DEF Separators, Str
<1>2. Append(t, sep) = t \o <<sep>>
  BY <1>1, AppendIsConcat DEF Text
<1> QED
  BY <1>2, Zenon DEF Join

LEMMA NotEmpty ==
    ASSUME NEW t \in Text, NEW x \in Str, NEW u \in Text
    PROVE  Append(t, x) \o u # <<>>
<1>1. Append(t, x) \in Seq(Str) /\ Append(t, x) # <<>>
  BY AppendProperties DEF Text
<1> QED
  BY <1>1, ConcatEqualIffEmpty DEF Text

\* Names that were joined are split into the same names again.
LEMMA SegmentsJoined ==
    ASSUME NEW names \in Names, names # <<>>, NEW sep \in Separators
    PROVE  Joined(names, sep) # <<>> /\ Segments(Joined(names, sep)) = names
<1>0. sep \in Str
  BY DEF Separators, Str
<1> DEFINE S == {t \in Names : t # <<>> => /\ Joined(t, sep) # <<>>
                                          /\ Segments(Joined(t, sep)) = t}
<1>1. <<>> \in S
  BY EmptySeq DEF Names
<1>2. ASSUME NEW t \in Seq(Proper), NEW s \in Proper, t \in S PROVE Append(t, s) \in S
  <2> DEFINE j == Joined(t, sep)
  <2>1. /\ t \in Names /\ Append(t, s) \in Names
        /\ t # <<>> => j # <<>> /\ Segments(j) = t
    BY <1>2, AppendProperties DEF Names
  <2>2. t \in Seq(Text) /\ s \in Segment /\ s \in Text /\ s # <<>> /\ t \in Seq(Segment)
    BY <2>1, NamesAreSegments, SegmentsAreTexts, SegmentIsText DEF Proper
  <2>3. j \in Text /\ Joined(Append(t, s), sep) = Join(j, s, sep)
    BY <1>0, <2>2, JoinedTyped, JoinedOfOneMore
  <2>4. Segments(s) = Append(<<>>, s)
    BY <2>2, SegmentsOfSegment
  <2> HIDE DEF j
  <2>5. CASE t = <<>>
    <3>1. j = <<>>
      BY <1>0, <2>5, JoinedOfNothing DEF j
    <3>2. Joined(Append(t, s), sep) = s
      BY <2>3, <3>1, Zenon DEF Join
    <3> QED
      BY <2>1, <2>2, <2>4, <2>5, <3>2, Zenon
  <2>6. CASE t # <<>>
    <3>1. Joined(Append(t, s), sep) = Append(j, sep) \o s
      BY <2>1, <2>2, <2>3, <2>6, JoinMore, Zenon
    <3>2. Append(j, sep) \o s # <<>>
      BY <1>0, <2>2, <2>3, NotEmpty, Zenon
    <3>3. Segments(Append(j, sep) \o s) = t \o Append(<<>>, s)
      BY <2>1, <2>2, <2>3, <2>4, <2>6, SegmentsConcat, Zenon
    <3>4. t \o Append(<<>>, s) = Append(t, s)
      <4>1. <<>> \in Seq(Segment) /\ t \o <<>> = t
        BY <2>2, EmptySeq, ConcatEmptySeq
      <4>2. AppendsLast(t, <<>>, s)
        BY <2>2, <4>1, ConcatAppend, Zenon
      <4> QED
        BY <4>1, <4>2, Zenon DEF AppendsLast
    <3> QED
      BY <2>1, <3>1, <3>2, <3>3, <3>4, Zenon
  <2> QED
    BY <2>5, <2>6
<1>3. Seq(Proper) \subseteq S
  <2> HIDE DEF S
  <2> QED
    BY <1>1, <1>2, SeqInduction
<1> QED
  BY <1>3 DEF Names

LEMMA PrefixIs ==
    ASSUME NEW S, NEW s \in Seq(S), NEW t \in Seq(S)
    PROVE  IsPrefix(s, t) <=> \E u \in Seq(S) : t = s \o u
<1> DEFINE n == Len(s)
           m == Len(t)
<1>1. n \in Nat /\ m \in Nat
  BY LenProperties
<1>2. SubSeq(s, 1, n) = s
  BY SubSeqFull
<1>3. ASSUME IsPrefix(s, t) PROVE \E u \in Seq(S) : t = s \o u
  <2>1. n <= m /\ s = SubSeq(t, 1, n)
    BY <1>2, <1>3, Zenon DEF IsPrefix
  <2>2. SubSeq(t, 1, n) \o SubSeq(t, n + 1, m) = SubSeq(t, 1, m)
    <3>1. 1 \in 1 .. Len(t) + 1 /\ n \in (1 - 1) .. Len(t) /\ m \in n .. Len(t)
      BY <1>1, <2>1
    <3> QED
      BY <3>1, ConcatAdjacentSubSeq, Zenon
  <2>3. SubSeq(t, 1, m) = t
    BY SubSeqFull
  <2>4. SubSeq(t, n + 1, m) \in Seq(S)
    <3>1. \A i \in (n + 1) .. m : t[i] \in S
      BY <1>1, ElementOfSeq
    <3>2. n + 1 \in Int /\ m \in Int
      BY <1>1
    <3> QED
      BY <3>1, <3>2, SubSeqProperties
  <2>5. t = s \o SubSeq(t, n + 1, m)
    BY <2>1, <2>2, <2>3, Zenon
  <2> QED
    BY <2>4, <2>5, Zenon
<1>4. ASSUME NEW u \in Seq(S), t = s \o u PROVE IsPrefix(s, t)
  <2>1. m = n + Len(u) /\ Len(u) \in Nat
    BY <1>4, ConcatProperties, LenProperties
  <2>2. n <= m
    BY <1>1, <2>1
  <2>3. SubSeq(t, 1, n) = s
    <3>1. CASE n = 0
      <4>1. SubSeq(t, 1, n) = <<>>
        BY <3>1, SubSeqEmpty
      <4>2. s = <<>>
        BY <3>1, EmptySeq
      <4> QED
        BY <4>1, <4>2
    <3>2. CASE n # 0
      <4>1. 1 \in 1 .. Len(s) /\ n \in 1 .. Len(s)
        BY <1>1, <3>2
      <4>2. SubSeq(s \o u, 1, n) = SubSeq(s, 1, n)
        BY <4>1, SubSeqOfConcat1
      <4> QED
        BY <1>2, <1>4, <4>2, Zenon
    <3> QED
      BY <3>1, <3>2
  <2> QED
    BY <1>2, <2>2, <2>3, Zenon DEF IsPrefix
<1> QED
  BY <1>3, <1>4

LEMMA JoinedStays ==
    ASSUME NEW a \in Names, a # <<>>, NEW sep \in Separators, NEW u \in Seq(Segment)
    PROVE  \/ Joined(a \o u, sep) = Joined(a, sep)
           \/ \E v \in Text : Joined(a \o u, sep) = Append(Joined(a, sep), sep) \o v
<1>0. sep \in Str /\ a \in Seq(Segment) /\ a \in Seq(Text)
  BY NamesAreSegments, SegmentsAreTexts DEF Separators, Str
<1> DEFINE j == Joined(a, sep)
           Stays(w) == /\ w \in Text /\ w # <<>>
                       /\ w = j \/ \E v \in Text : w = Append(j, sep) \o v
           S == {t \in Seq(Segment) : Stays(Joined(a \o t, sep))}
<1>1. j \in Text /\ j # <<>>
  BY <1>0, JoinedTyped, SegmentsJoined
<1> HIDE DEF j
<1>2. <<>> \in S
  <2>1. a \o <<>> = a /\ <<>> \in Seq(Segment)
    BY <1>0, EmptySeq, ConcatEmptySeq
  <2> QED
    BY <1>1, <2>1 DEF j
<1>3. ASSUME NEW t \in Seq(Segment), NEW s \in Segment, t \in S PROVE Append(t, s) \in S
  <2> DEFINE w == Joined(a \o t, sep)
             z == Append(w, sep) \o s
  <2>1. Stays(w)
    BY <1>3
  <2>2. /\ a \o t \in Seq(Segment) /\ a \o t \in Seq(Text) /\ s \in Text
        /\ Append(t, s) \in Seq(Segment)
    BY <1>0, ConcatProperties, AppendProperties, SegmentsAreTexts, SegmentIsText
  <2>3. AppendsLast(a, t, s)
    BY <1>0, ConcatAppend, Zenon
  <2>4. Joined(a \o Append(t, s), sep) = Join(w, s, sep)
    BY <1>0, <2>2, <2>3, JoinedOfOneMore, Zenon DEF AppendsLast
  <2> HIDE DEF w
  <2>5. Join(w, s, sep) = z
    BY <2>1, <2>2, JoinMore, Zenon
  <2>6. z \in Text /\ z # <<>>
    <3>1. Append(w, sep) \in Text
      BY <1>0, <2>1, AppendProperties DEF Text
    <3>2. Append(w, sep) \o s \in Text
      BY <2>2, <3>1, ConcatProperties DEF Text
    <3> QED
      BY <1>0, <2>1, <2>2, <3>2, NotEmpty, Zenon
  <2>7. CASE w = j
    <3>1. z = Append(j, sep) \o s
      BY <2>7
    <3>2. Stays(z)
      BY <2>2, <2>6, <3>1, Zenon
    <3> QED
      BY <2>2, <2>4, <2>5, <3>2, Zenon
  <2>8. ASSUME NEW v \in Text, w = Append(j, sep) \o v PROVE Append(t, s) \in S
    <3> DEFINE q == Append(j, sep)
               y == Append(v, sep)
    <3>1. q \in Seq(Str) /\ y \in Seq(Str) /\ v \in Seq(Str) /\ s \in Seq(Str)
      BY <1>0, <1>1, <2>2, AppendProperties DEF Text
    <3>2. AppendsLast(q, v, sep)
      BY <1>0, <3>1, ConcatAppend, Zenon
    <3>3. Append(w, sep) = q \o y
      BY <2>8, <3>2, Zenon DEF AppendsLast
    <3> HIDE DEF q, y
    <3>4. (q \o y) \o s = q \o (y \o s) /\ y \o s \in Text
      BY <3>1, ConcatAssociative, ConcatProperties DEF Text
    <3>5. z = q \o (y \o s)
      BY <3>3, <3>4, Zenon
    <3>6. Stays(z)
      BY <2>6, <3>4, <3>5, Zenon DEF q
    <3> QED
      BY <2>2, <2>4, <2>5, <3>6, Zenon
  <2> QED
    BY <2>1, <2>7, <2>8, Zenon
<1>4. Seq(Segment) \subseteq S
  <2> HIDE DEF S
  <2> QED
    BY <1>2, <1>3, SeqInduction
<1> QED
  BY <1>4 DEF j

\* Two texts joined from names are equal or one begins with the other and a separator, when
\* the names of the one begin the names of the other: never in the middle of a name.
GoesOn(x, y, sep) == y = x \/ \E u \in Text : y = Append(x, sep) \o u

LEMMA JoinedPrefixes ==
    ASSUME NEW a \in Names, a # <<>>, NEW b \in Names, NEW sep \in Separators
    PROVE  GoesOn(Joined(a, sep), Joined(b, sep), sep) <=> IsPrefix(a, b)
<1> DEFINE x == Joined(a, sep)
           y == Joined(b, sep)
<1>0. /\ sep \in Str /\ a \in Seq(Segment) /\ a \in Seq(Text)
      /\ b \in Seq(Segment) /\ b \in Seq(Text)
  BY NamesAreSegments, SegmentsAreTexts DEF Separators, Str
<1>1. x \in Text /\ x # <<>> /\ Segments(x) = a /\ y \in Text
  BY <1>0, JoinedTyped, SegmentsJoined
<1>2. b = <<>> => y = <<>>
  BY <1>0, JoinedOfNothing
<1>3. b # <<>> => Segments(y) = b
  BY SegmentsJoined
<1>4. IsPrefix(a, b) <=> \E u \in Seq(Segment) : b = a \o u
  BY <1>0, PrefixIs, Zenon
<1>5. ASSUME IsPrefix(a, b) PROVE GoesOn(x, y, sep)
  <2>1. PICK u \in Seq(Segment) : b = a \o u
    BY <1>4, <1>5
  <2> QED
    BY <2>1, JoinedStays, Zenon DEF GoesOn
<1> HIDE DEF x, y
<1>6. ASSUME y = x PROVE IsPrefix(a, b)
  <2>1. b = a
    BY <1>1, <1>2, <1>3, <1>6, Zenon
  <2>2. a \o <<>> = a /\ <<>> \in Seq(Segment)
    BY <1>0, EmptySeq, ConcatEmptySeq
  <2> QED
    BY <1>4, <2>1, <2>2, Zenon
<1>7. ASSUME NEW u \in Text, y = Append(x, sep) \o u PROVE IsPrefix(a, b)
  <2>1. y # <<>>
    BY <1>0, <1>1, <1>7, NotEmpty, Zenon
  <2>2. Segments(y) = a \o Segments(u)
    BY <1>1, <1>7, SegmentsConcat, Zenon
  <2>3. Segments(u) \in Seq(Segment)
    BY SegmentsTyped DEF Splits
  <2> QED
    BY <1>2, <1>3, <1>4, <2>1, <2>2, <2>3, Zenon
<1> QED
  BY <1>5, <1>6, <1>7, Zenon DEF GoesOn, x, y

\* A path from a drive.
FromDrive(p) == p \in Text /\ p # <<>> /\ p[1] \in Drives

LEMMA DriveIs == \A d \in Drives : d \in Str /\ d \notin Separators
  BY LowerAssumption DEF LowercaseIsStable, NamePiece, Str

NamesBelow(p) == Walk(Lowercase(Tail(p)))

LEMMA NamesBelowAre ==
    ASSUME NEW p, FromDrive(p)
    PROVE  /\ Tail(p) \in Text /\ NamesBelow(p) \in Names
           /\ NamesBelow(p) = LowerAll(Walk(Tail(p)))
           /\ NamesBelow(p) = <<>> <=> Walk(Tail(p)) = <<>>
<1>1. Tail(p) \in Text
  BY HeadTailProperties DEF FromDrive, Text
<1>2. NamesBelow(p) = LowerAll(Walk(Tail(p)))
  BY <1>1, WalkLower, WalkNames, Zenon DEF NamesBelow
<1>3. Lowercase(Tail(p)) \in Text /\ Segments(Lowercase(Tail(p))) \in Seq(Segment)
  BY <1>1, LowercaseTyped, SegmentsTyped DEF Splits
<1>4. NamesBelow(p) \in Names
  BY <1>3, WalkNames, NamedTyped DEF NamesBelow
<1>5. Segments(Tail(p)) \in Seq(Segment)
  BY <1>1, SegmentsTyped DEF Splits
<1>6. Walk(Tail(p)) \in Seq(Segment)
  BY <1>1, <1>5, WalkNames, NamedTyped, NamesAreSegments
<1> QED
  BY <1>1, <1>2, <1>4, <1>6, LowerAllTyped

Head2(d) == Append(Append(<<>>, d), "/")

LEMMA LowercaseOne ==
    ASSUME NEW d \in Str
    PROVE  Lowercase(<<d>>) = Append(<<>>, Lowered(d))
<1>1. <<>> \in Text /\ Append(<<>>, d) = <<d>>
  BY EmptySeq DEF Text
<1> QED
  BY <1>1, LowercaseAppend, LowercaseNothing, Zenon

LEMMA CanonicalPath ==
    ASSUME NEW p, FromDrive(p)
    PROVE  Canonicalise(p) = Head2(Lowered(p[1])) \o Joined(NamesBelow(p), "/")
<1> DEFINE d == p[1]
           one == Append(<<>>, Lowered(d))
<1>1. p \in Seq(Str) /\ p # <<>> /\ d \in Drives /\ d \in Str /\ d \notin Separators
  BY DriveIs DEF FromDrive, Text
<1>2. Len(p) \in Nat \ {0}
  BY <1>1, EmptySeq
<1>3. PrefixLength(p) = 1
  BY <1>1, Zenon DEF PrefixLength, IsDrivePath, IsServerPath
<1>4. Prefix(p) = <<d>>
  <2>1. 1 \in 1 .. Len(p) /\ 1 \in 1 .. Len(p)
    BY <1>2
  <2>2. SubSeq(p, 1, 1) \in Seq(Str) /\ Len(SubSeq(p, 1, 1)) = 1 /\ SubSeq(p, 1, 1)[1] = d
    <3>1. \A i \in 1 .. 1 : p[i] \in Str
      BY <1>1
    <3>2. /\ SubSeq(p, 1, 1) \in Seq(Str)
          /\ Len(SubSeq(p, 1, 1)) = IF 1 <= 1 THEN 1 - 1 + 1 ELSE 0
          /\ \A i \in 1 .. 1 - 1 + 1 : SubSeq(p, 1, 1)[i] = p[1 + i - 1]
      BY <3>1, SubSeqProperties
    <3> QED
      BY <3>2
  <2>3. <<d>> \in Seq(Str) /\ Len(<<d>>) = 1 /\ <<d>>[1] = d
    BY <1>1, Single
  <2>4. \A i \in 1 .. Len(SubSeq(p, 1, 1)) : SubSeq(p, 1, 1)[i] = <<d>>[i]
    BY <2>2, <2>3
  <2>5. SubSeq(p, 1, 1) = <<d>>
    BY <2>2, <2>3, <2>4, SeqEqual
  <2> QED
    BY <1>3, <2>5, Zenon DEF Prefix
<1>5. Rest(p) = Tail(p)
  <2>1. Rest(p) = SubSeq(p, 2, Len(p))
    BY <1>3 DEF Rest
  <2> QED
    BY <1>1, <2>1, TailIsSubSeq
<1>6. Tail(p) \in Text /\ NamesBelow(p) = LowerAll(Walk(Tail(p)))
  BY NamesBelowAre
<1>7. Lowercase(Joined(Resolved(Tail(p)), "/")) = Joined(NamesBelow(p), "/")
  <2>1. Resolved(Tail(p)) = Walk(Tail(p))
    BY <1>6, ResolvedNames, WalkNames
  <2>2. Walk(Tail(p)) \in Seq(Segment)
    <3>1. Segments(Tail(p)) \in Seq(Segment)
      BY <1>6, SegmentsTyped DEF Splits
    <3> QED
      BY <1>6, <3>1, WalkNames, NamedTyped, NamesAreSegments
  <2>3. "/" \in Separators
    BY DEF Separators
  <2> QED
    BY <1>6, <2>1, <2>2, <2>3, JoinedLowers, Zenon
<1>8. Separated(<<d>>, "/") = <<d>>
  <2>1. DOMAIN <<d>> = {1} /\ <<d>>[1] = d
    OBVIOUS
  <2>2. Separated(<<d>>, "/") = [i \in DOMAIN <<d>> |-> <<d>>[i]]
    BY <1>1, <2>1 DEF Separated
  <2>3. <<d>> = [i \in DOMAIN <<d>> |-> <<d>>[i]]
    OBVIOUS
  <2> QED
    BY <2>2, <2>3, Zenon
<1>9. Lowercase(<<d>>) = one
  BY <1>1, LowercaseOne
<1>10. Canonicalise(p) = one \o <<"/">> \o Joined(NamesBelow(p), "/")
  <2>1. <<d>> # <<>>
    OBVIOUS
  <2> QED
    BY <1>4, <1>5, <1>7, <1>8, <1>9, <2>1, Zenon DEF Canonicalise
<1>11. one \o <<"/">> = Append(one, "/")
  <2>1. <<>> \in Seq(Str) /\ Lowered(d) \in Str /\ "/" \in Str
    BY <1>1, EmptySeq, LoweredIs DEF Str
  <2>2. one \in Seq(Str)
    BY <2>1, AppendProperties
  <2> QED
    BY <2>1, <2>2, AppendIsConcat
<1> QED
  BY <1>10, <1>11, Zenon DEF Head2

\* A drive and its separator before two texts: equal when the drives are and the texts are.
HeadsAgree(d, x, e, y) == Head2(d) \o x = Head2(e) \o y <=> d = e /\ x = y

StartsAs(t, s) == t # <<>> /\ Len(t) \in Nat \ {0} /\ t[1] = s[1]

LEMMA AppendStarts ==
    ASSUME NEW S, NEW s \in Seq(S), Len(s) \in Nat \ {0}, NEW e \in S
    PROVE  Append(s, e) \in Seq(S) /\ StartsAs(Append(s, e), s)
<1>1. 1 \in 1 .. Len(s) /\ Len(s) + 1 \in Nat \ {0}
  OBVIOUS
<1> QED
  BY <1>1, AppendProperties DEF StartsAs

LEMMA HeadIs ==
    ASSUME NEW d \in Str
    PROVE  Head2(d) \in Text /\ Head2(d) # <<>> /\ Len(Head2(d)) \in Nat \ {0} /\ Head2(d)[1] = d
<1> DEFINE one == Append(<<>>, d)
<1>1. one \in Seq(Str) /\ Len(one) = 1 /\ one[1] = d
  BY EmptySeq, AppendProperties
<1>2. "/" \in Str
  BY DEF Str
<1>3. Len(one) \in Nat \ {0}
  BY <1>1
<1> HIDE DEF one
<1>4. Append(one, "/") \in Seq(Str) /\ StartsAs(Append(one, "/"), one)
  BY <1>1, <1>2, <1>3, AppendStarts, Zenon
<1> QED
  BY <1>1, <1>4, Zenon DEF StartsAs, Head2, one, Text

SameFirst(s, t) == s[1] = t[1]

LEMMA FirstOfConcat ==
    ASSUME NEW S, NEW s \in Seq(S), Len(s) \in Nat \ {0}, NEW t \in Seq(S)
    PROVE  SameFirst(s \o t, s)
<1>1. Len(t) \in Nat /\ 1 \in 1 .. Len(s) + Len(t) /\ 1 <= Len(s)
  BY LenProperties
<1> QED
  BY <1>1, ConcatProperties DEF SameFirst

LEMMA HeadsCancel ==
    ASSUME NEW d \in Str, NEW e \in Str, NEW x \in Text, NEW y \in Text
    PROVE  HeadsAgree(d, x, e, y)
<1> DEFINE h == Head2(d)
           k == Head2(e)
<1>1. h \in Text /\ k \in Text /\ (h \o x)[1] = d /\ (k \o y)[1] = e
  <2>1. h \in Text /\ Len(h) \in Nat \ {0} /\ h[1] = d
    BY HeadIs
  <2>2. k \in Text /\ Len(k) \in Nat \ {0} /\ k[1] = e
    BY HeadIs
  <2> HIDE DEF h, k
  <2>3. SameFirst(h \o x, h) /\ SameFirst(k \o y, k)
    BY <2>1, <2>2, FirstOfConcat, Zenon DEF Text
  <2> QED
    BY <2>1, <2>2, <2>3, Zenon DEF SameFirst
<1>2. ASSUME h \o x = k \o y PROVE d = e /\ x = y
  <2>1. d = e
    BY <1>1, <1>2, Zenon
  <2>2. h \o x = h \o y
    BY <1>2, <2>1, Zenon
  <2> HIDE DEF h, k
  <2>3. x = y
    BY <1>1, <2>2, ConcatSimplifications, Zenon DEF Text
  <2> QED
    BY <2>1, <2>3
<1> QED
  BY <1>2, Zenon DEF HeadsAgree

\* The comparison of the canonical forms, as the code writes it, and the names below the
\* drives: is_within_root says what Windows would.
LEMMA WithinIsInside ==
    ASSUME NEW root, FromDrive(root), Walk(Tail(root)) # <<>>,
           NEW path, FromDrive(path)
    PROVE  IsWithinRoot(root, path) <=> WindowsInside(root, path)
<1> DEFINE d == Lowered(root[1])
           e == Lowered(path[1])
           a == NamesBelow(root)
           b == NamesBelow(path)
           x == Joined(a, "/")
           y == Joined(b, "/")
           rc == Canonicalise(root)
           pc == Canonicalise(path)
<1>1. "/" \in Separators /\ "/" \in Str
  BY DEF Separators, Str
<1>2. root[1] \in Str /\ path[1] \in Str /\ d \in Str /\ e \in Str
  BY DriveIs, LoweredIs, Zenon DEF FromDrive
<1>3. a \in Names /\ a # <<>> /\ b \in Names
  BY NamesBelowAre
<1>4. rc = Head2(d) \o x /\ pc = Head2(e) \o y
  BY CanonicalPath
<1>5. WindowsInside(root, path) <=> d = e /\ IsPrefix(a, b)
  <2>1. Lowercase(<<root[1]>>) = Append(<<>>, d) /\ Lowercase(<<path[1]>>) = Append(<<>>, e)
    BY <1>2, LowercaseOne
  <2>2. Append(<<>>, d) = Append(<<>>, e) <=> d = e
    <3>1. Append(<<>>, d)[1] = d /\ Append(<<>>, e)[1] = e
      BY <1>2, EmptySeq, AppendProperties
    <3> QED
      BY <3>1, Zenon
  <2> QED
    BY <2>1, <2>2, Zenon DEF WindowsInside, NamesBelow
<1>6. GoesOn(x, y, "/") <=> IsPrefix(a, b)
  BY <1>1, <1>3, JoinedPrefixes
<1>7. x \in Text /\ y \in Text
  BY <1>1, <1>3, NamesAreSegments, SegmentsAreTexts, JoinedTyped
<1>8. \A f \in Str : Head2(f) \in Text /\ Head2(f) # <<>>
  BY HeadIs, Zenon
<1> HIDE DEF d, e, a, b, x, y, rc, pc
<1> DEFINE h == Head2(d)
           k == Head2(e)
           z == Append(x, "/")
<1>9. h \in Text /\ k \in Text /\ z \in Text
  BY <1>1, <1>2, <1>7, <1>8, AppendProperties DEF Text
<1>10. rc \in Text /\ pc \in Text /\ rc # <<>>
  <2>1. h # <<>>
    BY <1>2, <1>8, Zenon
  <2> HIDE DEF h, k
  <2>2. rc = h \o x /\ pc = k \o y
    BY <1>4, Zenon DEF h, k
  <2> QED
    BY <1>7, <1>9, <2>1, <2>2, ConcatProperties, ConcatEqualIffEmpty DEF Text
<1>11. Append(rc, "/") = h \o z
  <2> HIDE DEF h
  <2>1. AppendsLast(h, x, "/")
    BY <1>1, <1>7, <1>9, ConcatAppend, Zenon DEF Text
  <2>2. rc = h \o x
    BY <1>4, Zenon DEF h
  <2> QED
    BY <2>1, <2>2, Zenon DEF AppendsLast
<1>12. pc = rc <=> d = e /\ y = x
  <2>1. HeadsAgree(e, y, d, x)
    BY <1>2, <1>7, HeadsCancel, Zenon
  <2>2. pc = rc <=> e = d /\ y = x
    BY <1>4, <2>1, Zenon DEF HeadsAgree
  <2> QED
    BY <2>2, Zenon
<1>13. IsPrefix(Append(rc, "/"), pc) <=> \E u \in Text : pc = Append(rc, "/") \o u
  <2>1. Append(rc, "/") \in Seq(Str) /\ pc \in Seq(Str)
    BY <1>1, <1>10, AppendProperties DEF Text
  <2> QED
    BY <2>1, PrefixIs, Zenon DEF Text
<1>14. ASSUME NEW u \in Text
       PROVE  pc = Append(rc, "/") \o u <=> d = e /\ y = z \o u
  <2> HIDE DEF z
  <2>1. (h \o z) \o u = h \o (z \o u) /\ z \o u \in Text
    <3> HIDE DEF h
    <3> QED
      BY <1>9, ConcatAssociative, ConcatProperties DEF Text
  <2>2. HeadsAgree(e, y, d, z \o u)
    BY <1>2, <1>7, <2>1, HeadsCancel, Zenon
  <2>3. k \o y = h \o (z \o u) <=> e = d /\ y = z \o u
    BY <2>2, Zenon DEF HeadsAgree
  <2> QED
    BY <1>4, <1>11, <2>1, <2>3, Zenon
<1>15. IsWithinRoot(root, path) <=> pc = rc \/ IsPrefix(Append(rc, "/"), pc)
  BY <1>10, Zenon DEF IsWithinRoot, rc, pc
<1>16. GoesOn(x, y, "/") <=> y = x \/ \E u \in Text : y = z \o u
  BY Zenon DEF GoesOn
<1> HIDE DEF h, k, z
<1> QED
  BY <1>5, <1>6, <1>12, <1>13, <1>14, <1>15, <1>16, Zenon

\* The path the plan returns: the same names, and no separator but the one of Windows.
LEMMA SeparatedWalks ==
    ASSUME NEW p \in Text
    PROVE  /\ Walk(Separated(p, "\\")) = Walk(p)
           /\ \A i \in DOMAIN Separated(p, "\\") : Separated(p, "\\")[i] # "/"
<1>1. "\\" \in Separators /\ "\\" # "/" /\ "/" \in Separators
  BY DEF Separators
<1>2. Walk(Separated(p, "\\")) = Walk(p)
  BY <1>1, SeparatedTyped, SegmentsSeparated, WalkNames
<1>3. \A i \in DOMAIN Separated(p, "\\") : Separated(p, "\\")[i] # "/"
  BY <1>1, Zenon DEF Separated
<1> QED
  BY <1>2, <1>3

LEMMA PathsAre ==
    /\ \A path \in GuestPaths : FromDrive(path)
    /\ \A root \in GuestRoots \cup {DefaultRoot} : FromDrive(root) /\ Walk(Tail(root)) # <<>>
<1>1. \A p \in Seq(STRING) : p \in Text
  BY SeqMonotonic DEF Text, Str
<1> QED
  BY <1>1, PathsAssumption, Zenon DEF PathsTyped, FromDrive, IsDrivePath

LEMMA PlanningIsExact ==
    ASSUME PlanTransfer
    PROVE  PlanIsExact'
<1> DEFINE roots(override) ==
               StagingRoots([guest |-> DefaultRoot, host |-> DefaultRoot],
                            [guest |-> override, host |-> <<>>])
<1>1. PICK override \in GuestRoots \cup {<<>>}, path \in GuestPaths \cup {<<>>} :
          call' = [op |-> "plan", root |-> roots(override)["guest"], path |-> path,
                   result |-> PlanFrom(roots(override), path)]
  BY DEF PlanTransfer
<1> DEFINE root == roots(override)["guest"]
           reply == Plan(root, DefaultRoot, path)
<1>2. root \in GuestRoots \cup {DefaultRoot} /\ roots(override)["host"] = DefaultRoot
  BY DEF StagingRoots
<1>3. FromDrive(root) /\ Walk(Tail(root)) # <<>> /\ FromDrive(DefaultRoot)
  BY <1>2, PathsAre
<1>4. call'.op = "plan" /\ call'.root = root /\ call'.path = path /\ call'.result = reply
  BY <1>1, <1>2 DEF PlanFrom
<1> HIDE DEF root
<1>5. root # <<>> /\ DefaultRoot # <<>>
  BY <1>3 DEF FromDrive
<1>6. CASE path = <<>>
  <2>1. reply = Refused
    BY <1>5, <1>6, Zenon DEF Plan, ResolveWithin
  <2> QED
    BY <1>4, <1>6, <2>1 DEF PlanIsExact, Refused
<1>7. CASE path \in GuestPaths
  <2>1. FromDrive(path) /\ path # <<>> /\ path \in Text
    BY <1>7, PathsAre DEF FromDrive
  <2>2. IsWithinRoot(root, path) <=> WindowsInside(root, path)
    BY <1>3, <2>1, WithinIsInside
  <2>3. reply = IF IsWithinRoot(root, path) THEN Planned(Separated(path, "\\")) ELSE Refused
    BY <1>5, <2>1, Zenon DEF Plan, ResolveWithin
  <2>4. CASE IsWithinRoot(root, path)
    <3>1. reply.ok /\ reply.path = Separated(path, "\\")
      BY <2>3, <2>4 DEF Planned
    <3> HIDE DEF reply
    <3>2. /\ Walk(reply.path) = Walk(path)
          /\ \A i \in DOMAIN reply.path : reply.path[i] # "/"
      BY <2>1, <3>1, SeparatedWalks, Zenon
    <3>3. reply.ok <=> path # <<>> /\ WindowsInside(root, path)
      BY <2>1, <2>2, <2>4, <3>1
    <3> QED
      BY <1>4, <3>2, <3>3, Zenon DEF PlanIsExact
  <2>5. CASE ~IsWithinRoot(root, path)
    <3>1. ~reply.ok
      BY <2>3, <2>5 DEF Refused
    <3> HIDE DEF reply
    <3>2. reply.ok <=> path # <<>> /\ WindowsInside(root, path)
      BY <2>2, <2>5, <3>1
    <3> QED
      BY <1>4, <3>1, <3>2, Zenon DEF PlanIsExact
  <2> QED
    BY <2>4, <2>5
<1> QED
  BY <1>6, <1>7

\* The guest plans exactly the transfers whose path, walked as Windows does, lies in the
\* staging root, in any case and with any separators, "." and "..", and returns a path of the
\* same file: transfer.rs, plan; paths.rs, is_within_root and resolve_within, for any roots
\* and paths of a drive.
THEOREM PlanExact == CallSpec => []PlanIsExact
<1>1. CallInit => PlanIsExact
  BY DEF CallInit, Idle, PlanIsExact
<1>2. PlanIsExact /\ [CallNext]_call => PlanIsExact'
  <2> SUFFICES ASSUME PlanIsExact, [CallNext]_call PROVE PlanIsExact'
    OBVIOUS
  <2>1. CASE UNCHANGED call
    BY <2>1 DEF PlanIsExact
  <2>2. CASE PlanTransfer
    BY <2>2, PlanningIsExact
  <2>3. CASE call'.op # "plan"
    BY <2>3, Zenon DEF PlanIsExact
  <2> QED
    BY <2>1, <2>2, <2>3, CalledBy
<1> QED
  BY <1>1, <1>2, PTL DEF CallSpec

-----------------------------------------------------------------------------
(* The host's own paths: the components of a resolved path are those of the*)
(* walk, below the empty one of the root directory.                        *)

Rooted == {OneEmpty \o names : names \in Names}

PushedBelow(names, s) == HostPush(OneEmpty \o names, s) = OneEmpty \o Push(names, s)

LEMMA HostPushed ==
    ASSUME NEW names \in Names, NEW s \in Segment
    PROVE  PushedBelow(names, s)
<1>1. /\ OneEmpty \in Seq(Segment) /\ OneEmpty # <<>> /\ OneEmpty \o <<>> = OneEmpty
      /\ names \in Seq(Segment)
  <2>1. <<>> \in Segment
    BY EmptySeq DEF Segment
  <2>2. OneEmpty \in Seq(Segment) /\ OneEmpty # <<>>
    BY <2>1, Single DEF OneEmpty
  <2> QED
    BY <2>2, ConcatEmptySeq, NamesAreSegments
<1>2. Parent \notin Nothing
  BY DEF Parent, Nothing
<1>3. CASE s \in Nothing
  BY <1>2, <1>3, Zenon DEF PushedBelow, HostPush, Push
<1>4. CASE s \notin Nothing /\ s # Parent
  <2>1. AppendsLast(OneEmpty, names, s)
    BY <1>1, ConcatAppend, Zenon
  <2> QED
    BY <1>4, <2>1, Zenon DEF PushedBelow, HostPush, Push, AppendsLast
<1>5. CASE s = Parent /\ names = <<>>
  <2>1. HostPush(OneEmpty \o names, s) = OneEmpty \o names
    <3>1. OneEmpty \o names \in {<<>>, << <<>> >>}
      BY <1>1, <1>5, Zenon DEF OneEmpty
    <3> QED
      BY <1>2, <1>5, <3>1, Zenon DEF HostPush
  <2>2. Push(names, s) = names
    BY <1>2, <1>5, Zenon DEF Push
  <2> QED
    BY <2>1, <2>2, Zenon DEF PushedBelow
<1>6. CASE s = Parent /\ names # <<>>
  <2>1. PICK f \in Seq(Segment), l \in Segment :
           f = Front(names) /\ l = Last(names) /\ names = Append(f, l)
    BY <1>1, <1>6, FrontLast, Zenon
  <2>2. AppendsLast(OneEmpty, f, l) /\ OneEmpty \o f \in Seq(Segment)
    BY <1>1, ConcatAppend, ConcatProperties, Zenon
  <2>3. FrontAndLast(OneEmpty \o names, OneEmpty \o f, l)
    BY <2>1, <2>2, FrontOfAppend, Zenon DEF AppendsLast
  <2>4. OneEmpty \o names \notin {<<>>, << <<>> >>}
    <3>1. OneEmpty \o names # OneEmpty
      BY <1>1, <1>6, ConcatEqualIffEmpty
    <3>2. OneEmpty \o names # <<>>
      BY <1>1, ConcatEqualIffEmpty
    <3> QED
      BY <3>1, <3>2, Zenon DEF OneEmpty
  <2>5. HostPush(OneEmpty \o names, s) = OneEmpty \o f
    BY <1>2, <1>6, <2>3, <2>4, Zenon DEF HostPush, FrontAndLast
  <2>6. Push(names, s) = f
    BY <1>2, <1>6, <2>1, Zenon DEF Push
  <2> QED
    BY <2>5, <2>6, Zenon DEF PushedBelow
<1> QED
  BY <1>3, <1>4, <1>5, <1>6

HostStep == [c \in Rooted |-> [s \in Segment |-> HostPush(c, s)]]

LEMMA HostStepTyped == OneEmpty \in Rooted /\ HostStep \in FoldSteps(Rooted, Segment)
<1>1. OneEmpty \in Rooted
  <2>1. <<>> \in Segment /\ <<>> \in Names
    BY EmptySeq DEF Segment, Names
  <2>2. OneEmpty \in Seq(Segment)
    BY <2>1, Single DEF OneEmpty
  <2>3. OneEmpty \o <<>> = OneEmpty
    BY <2>2, ConcatEmptySeq
  <2> QED
    BY <2>1, <2>3, Zenon DEF Rooted
<1>2. ASSUME NEW c \in Rooted, NEW s \in Segment PROVE HostPush(c, s) \in Rooted
  <2>1. PICK names \in Names : c = OneEmpty \o names
    BY Zenon DEF Rooted
  <2>2. HostPush(c, s) = OneEmpty \o Push(names, s)
    BY <2>1, HostPushed, Zenon DEF PushedBelow
  <2> QED
    BY <2>2, PushTyped, Zenon DEF Rooted
<1>3. HostStep \in FoldSteps(Rooted, Segment)
  BY <1>2 DEF HostStep, FoldSteps
<1> QED
  BY <1>1, <1>3

LEMMA LexicalFold ==
    ASSUME NEW p \in Text, p # <<>>, p[1] = "/"
    PROVE  LexicalResolve(p) = Fold(Rooted, HostStep, OneEmpty, Segments(p))
<1> DEFINE segments == Segments(p)
           top == IF p # <<>> /\ p[1] = "/" THEN << <<>> >> ELSE <<>>
<1>0. segments \in Seq(Segment) /\ top = OneEmpty
  BY SegmentsTyped DEF Splits, OneEmpty
<1> DEFINE n == Len(segments)
           base == top
           Def(h) == h = [i \in 0 .. n |-> IF i = 0 THEN base ELSE HostPush(h[i - 1], segments[i])]
<1>1. LexicalResolve(p) = (CHOOSE h : Def(h))[n]
  BY DEF LexicalResolve, top
<1>2. n \in Nat /\ segments \in Seq(Segment) /\ \A i \in 1 .. n : segments[i] \in Segment
  BY <1>0, LenProperties, ElementOfSeq
<1>3. \A i \in 1 .. n, v \in Rooted : HostStep[v][segments[i]] = HostPush(v, segments[i])
  BY <1>2 DEF HostStep
<1>4. base \in Rooted /\ HostStep \in FoldSteps(Rooted, Segment)
  BY <1>0, HostStepTyped
<1> HIDE DEF n, base, top, segments
<1>5. \E h : Def(h)
  <2>1. PICK h : FoldedBy(h, Rooted, HostStep, base, segments)
    BY <1>2, <1>4, FoldExists
  <2>2. /\ h \in [0 .. n -> Rooted] /\ h[0] = base
        /\ \A i \in 1 .. n : h[i] = HostStep[h[i - 1]][segments[i]]
    BY <2>1 DEF FoldedBy, n
  <2>3. \A i \in 1 .. n : h[i] = HostPush(h[i - 1], segments[i])
    <3> TAKE i \in 1 .. n
    <3>1. i - 1 \in 0 .. n
      BY <1>2
    <3>2. h[i - 1] \in Rooted
      BY <2>2, <3>1
    <3> QED
      BY <1>3, <2>2, <3>2
  <2>4. \A i \in 0 .. n : h[i] = IF i = 0 THEN base ELSE HostPush(h[i - 1], segments[i])
    <3>1. \A i \in 0 .. n : i # 0 => i \in 1 .. n
      BY <1>2
    <3> QED
      BY <2>2, <2>3, <3>1, Zenon
  <2>5. h = [i \in 0 .. n |-> h[i]]
    BY <2>2
  <2>6. Def(h)
    BY <2>4, <2>5, Zenon
  <2> QED
    BY <2>6, Zenon
<1>6. PICK h : h = (CHOOSE g : Def(g)) /\ Def(h)
  BY <1>5
<1>7. /\ h = [i \in 0 .. n |-> h[i]] /\ h[0] = base
      /\ \A i \in 1 .. n : h[i] = HostPush(h[i - 1], segments[i])
  <2>1. h = [i \in 0 .. n |-> IF i = 0 THEN base ELSE HostPush(h[i - 1], segments[i])]
    BY <1>6, Zenon
  <2>2. 0 \in 0 .. n /\ \A i \in 1 .. n : i \in 0 .. n /\ i # 0
    BY <1>2
  <2>3. h = [i \in 0 .. n |-> h[i]] /\ h[0] = base
    BY <2>1, <2>2, Zenon
  <2>4. \A i \in 1 .. n : h[i] = HostPush(h[i - 1], segments[i])
    BY <2>1, <2>2, Zenon
  <2> QED
    BY <2>3, <2>4, Zenon
<1> HIDE DEF Def
<1>8. \A i \in 1 .. n : h[i - 1] \in Rooted => h[i] = HostStep[h[i - 1]][segments[i]]
  BY <1>3, <1>7
<1>9. Fold(Rooted, HostStep, base, segments) = h[n]
  BY <1>2, <1>4, <1>7, <1>8, FoldFrom DEF n
<1> QED
  BY <1>0, <1>1, <1>6, <1>9, Zenon DEF base, segments

LEMMA LexicalNames ==
    ASSUME NEW p \in Text, p # <<>>, p[1] = "/"
    PROVE  LexicalResolve(p) = OneEmpty \o Walk(p)
<1> DEFINE F(u) == Fold(Rooted, HostStep, OneEmpty, u)
           S == {u \in Seq(Segment) : F(u) = OneEmpty \o Named(u)}
<1>1. <<>> \in S
  <2>1. <<>> \in Seq(Segment) /\ <<>> \in Segment
    BY EmptySeq DEF Segment
  <2>2. OneEmpty \in Seq(Segment)
    BY <2>1, Single DEF OneEmpty
  <2>3. OneEmpty \o <<>> = OneEmpty
    BY <2>2, ConcatEmptySeq
  <2>4. F(<<>>) = OneEmpty
    BY HostStepTyped, FoldOfNothing
  <2> QED
    BY <2>1, <2>3, <2>4, NamedOfNothing, Zenon
<1>2. ASSUME NEW u \in Seq(Segment), NEW s \in Segment, u \in S PROVE Append(u, s) \in S
  <2>1. F(u) = OneEmpty \o Named(u) /\ Named(u) \in Names /\ Append(u, s) \in Seq(Segment)
    BY <1>2, NamedTyped, AppendProperties
  <2>2. TakesStep(Rooted, HostStep, OneEmpty, u, s)
    BY HostStepTyped, FoldOfOneMore, Zenon
  <2>3. F(u) \in Rooted
    BY <2>1, Zenon DEF Rooted
  <2>4. F(Append(u, s)) = HostPush(F(u), s)
    BY <2>2, <2>3, Zenon DEF TakesStep, HostStep
  <2>5. PushedBelow(Named(u), s)
    BY <2>1, HostPushed, Zenon
  <2>6. F(Append(u, s)) = OneEmpty \o Named(Append(u, s))
    BY <2>1, <2>4, <2>5, NamedOfOneMore, Zenon DEF PushedBelow
  <2> QED
    BY <2>1, <2>6, Zenon
<1>3. Seq(Segment) \subseteq S
  <2> HIDE DEF S
  <2> QED
    BY <1>1, <1>2, SeqInduction
<1>4. Segments(p) \in S
  BY <1>3, SegmentsTyped DEF Splits
<1> QED
  BY <1>4, LexicalFold, WalkNames, Zenon

PrefixBelow(c, a, b) == IsPrefix(c \o a, c \o b) <=> IsPrefix(a, b)

LEMMA PrefixBelowIs ==
    ASSUME NEW S, NEW c \in Seq(S), NEW a \in Seq(S), NEW b \in Seq(S)
    PROVE  PrefixBelow(c, a, b)
<1>1. c \o a \in Seq(S) /\ c \o b \in Seq(S)
  BY ConcatProperties
<1>2. IsPrefix(a, b) <=> \E u \in Seq(S) : b = a \o u
  BY PrefixIs, Zenon
<1>3. IsPrefix(c \o a, c \o b) <=> \E u \in Seq(S) : c \o b = (c \o a) \o u
  <2> DEFINE x == c \o a
             y == c \o b
  <2>1. x \in Seq(S) /\ y \in Seq(S)
    BY <1>1
  <2> HIDE DEF x, y
  <2>2. IsPrefix(x, y) <=> \E u \in Seq(S) : y = x \o u
    BY <2>1, PrefixIs, Zenon
  <2> QED
    BY <2>2, Zenon DEF x, y
<1>4. ASSUME NEW u \in Seq(S) PROVE c \o b = (c \o a) \o u <=> b = a \o u
  <2>1. (c \o a) \o u = c \o (a \o u) /\ a \o u \in Seq(S)
    BY ConcatAssociative, ConcatProperties
  <2>2. c \o b = c \o (a \o u) => b = a \o u
    BY <2>1, ConcatSimplifications, Zenon
  <2> QED
    BY <2>1, <2>2, Zenon
<1> QED
  BY <1>2, <1>3, <1>4, Zenon DEF PrefixBelow

FromTop(p) == p \in Text /\ p # <<>> /\ p[1] = "/"

\* The host's check resolves both paths and compares their components, whole ones: it says
\* whether the walk of the path passes through the root.
LEMMA HostCheck ==
    ASSUME NEW root, FromTop(root), NEW path, FromTop(path)
    PROVE  IsPrefix(LexicalResolve(root), LexicalResolve(path)) <=> HostInside(root, path)
<1>1. LexicalResolve(root) = OneEmpty \o Walk(root) /\ LexicalResolve(path) = OneEmpty \o Walk(path)
  BY LexicalNames DEF FromTop
<1>2. Walk(root) \in Seq(Segment) /\ Walk(path) \in Seq(Segment)
  <2>1. Segments(root) \in Seq(Segment) /\ Segments(path) \in Seq(Segment)
    BY SegmentsTyped DEF Splits, FromTop
  <2>2. Named(Segments(root)) \in Seq(Segment) /\ Named(Segments(path)) \in Seq(Segment)
    BY <2>1, NamedTyped, NamesAreSegments
  <2> QED
    BY <2>2, WalkNames DEF FromTop
<1>3. OneEmpty \in Seq(Segment)
  <2>1. <<>> \in Segment
    BY EmptySeq DEF Segment
  <2> QED
    BY <2>1, Single DEF OneEmpty
<1>4. PrefixBelow(OneEmpty, Walk(root), Walk(path))
  BY <1>2, <1>3, PrefixBelowIs, Zenon
<1> QED
  BY <1>1, <1>4, Zenon DEF PrefixBelow, HostInside

-----------------------------------------------------------------------------
(* The guest's paths, as the host checks them: the drive is one of the     *)
(* names, the first, and a ".." that climbs above it takes it away.        *)

FoldsOver(V, step, base, s, t) ==
    Fold(V, step, base, s \o t) = Fold(V, step, Fold(V, step, base, s), t)

LEMMA FoldConcat ==
    ASSUME NEW V, NEW E, NEW base \in V, NEW step \in FoldSteps(V, E),
           NEW s \in Seq(E), NEW t \in Seq(E)
    PROVE  FoldsOver(V, step, base, s, t)
<1> DEFINE mid == Fold(V, step, base, s)
           F(u) == Fold(V, step, base, s \o u)
           G(u) == Fold(V, step, mid, u)
           S == {u \in Seq(E) : F(u) = G(u)}
<1>1. mid \in V
  BY FoldTyped
<1> HIDE DEF mid
<1>2. <<>> \in S
  <2>1. <<>> \in Seq(E) /\ s \o <<>> = s
    BY EmptySeq, ConcatEmptySeq
  <2>2. G(<<>>) = mid
    BY <1>1, FoldOfNothing
  <2> QED
    BY <2>1, <2>2, Zenon DEF mid
<1>3. ASSUME NEW u \in Seq(E), NEW e \in E, u \in S PROVE Append(u, e) \in S
  <2>1. F(u) = G(u) /\ Append(u, e) \in Seq(E) /\ s \o u \in Seq(E)
    BY <1>3, AppendProperties, ConcatProperties
  <2>2. AppendsLast(s, u, e)
    BY ConcatAppend, Zenon
  <2>3. TakesStep(V, step, base, s \o u, e)
    BY <2>1, FoldOfOneMore, Zenon
  <2>4. TakesStep(V, step, mid, u, e)
    BY <1>1, FoldOfOneMore, Zenon
  <2>5. F(Append(u, e)) = step[F(u)][e]
    BY <2>2, <2>3, Zenon DEF AppendsLast, TakesStep
  <2>6. G(Append(u, e)) = step[G(u)][e]
    BY <2>4, Zenon DEF TakesStep
  <2>7. F(Append(u, e)) = G(Append(u, e))
    BY <2>1, <2>5, <2>6, Zenon
  <2> HIDE DEF F, G
  <2> QED
    BY <2>1, <2>7
<1>4. Seq(E) \subseteq S
  <2> HIDE DEF S
  <2> QED
    BY <1>2, <1>3, SeqInduction
<1>5. F(t) = G(t)
  BY <1>4
<1> QED
  BY <1>5, Zenon DEF FoldsOver, mid

One(x) == Append(<<>>, x)

LEMMA OneIs ==
    ASSUME NEW S, NEW x \in S
    PROVE  One(x) \in Seq(S) /\ One(x) # <<>> /\ Len(One(x)) = 1 /\ One(x)[1] = x /\ One(x) = <<x>>
<1>1. One(x) \in Seq(S) /\ One(x) # <<>> /\ Len(One(x)) = 1 /\ One(x)[1] = x
  BY EmptySeq, AppendProperties DEF One
<1>2. One(x) = <<x>>
  BY DEF One
<1> QED
  BY <1>1, <1>2

BeginsWith(s) == s = One(s[1]) \o Tail(s)

LEMMA HeadTail ==
    ASSUME NEW S, NEW s \in Seq(S), s # <<>>
    PROVE  BeginsWith(s) /\ s[1] \in S /\ Tail(s) \in Seq(S)
<1> DEFINE x == s[1]
           t == Tail(s)
           c == One(x) \o t
<1>1. Len(s) \in Nat \ {0} /\ x \in S
  BY EmptySeq, ElementOfSeq
<1>2. t \in Seq(S) /\ Len(t) = Len(s) - 1 /\ \A i \in 1 .. Len(t) : t[i] = s[i + 1]
  BY HeadTailProperties
<1> HIDE DEF x, t
<1>3. One(x) \in Seq(S) /\ Len(One(x)) = 1 /\ One(x)[1] = x
  BY <1>1, OneIs
<1>4. ConcatIs(c, One(x), t, S)
  BY <1>2, <1>3, ConcatIsSo, Zenon
<1>5. /\ c \in Seq(S) /\ Len(c) = 1 + Len(t)
      /\ \A i \in 1 .. 1 + Len(t) : c[i] = IF i <= 1 THEN One(x)[i] ELSE t[i - 1]
  BY <1>3, <1>4, Zenon DEF ConcatIs
<1> HIDE DEF c
<1>6. Len(c) = Len(s)
  BY <1>1, <1>2, <1>5
<1>7. ASSUME NEW i \in 1 .. Len(s) PROVE c[i] = s[i]
  <2>1. CASE i = 1
    BY <1>1, <1>2, <1>3, <1>5, <2>1 DEF x
  <2>2. CASE i # 1
    <3>1. i \in 1 .. 1 + Len(t) /\ ~(i <= 1) /\ i - 1 \in 1 .. Len(t) /\ (i - 1) + 1 = i
      BY <1>1, <1>2, <2>2
    <3>2. c[i] = t[i - 1] /\ t[i - 1] = s[(i - 1) + 1]
      BY <1>2, <1>5, <3>1, Zenon
    <3> QED
      BY <3>1, <3>2, Zenon
  <2> QED
    BY <2>1, <2>2
<1>8. c = s
  BY <1>5, <1>6, <1>7, SeqEqual
<1> QED
  BY <1>1, <1>2, <1>8, Zenon DEF BeginsWith, c, x, t

\* A path of a drive is absolute.
Absolute(p) == FromDrive(p) /\ (Len(p) > 1 => p[2] \in Separators)

LEMMA DriveIsName == \A d \in Drives : One(d) \in Proper
<1> SUFFICES ASSUME NEW d \in Drives PROVE One(d) \in Proper
  OBVIOUS
<1>1. d \in Plain /\ d # "." /\ d # ".."
  <2>1. d \in NamePiece
    BY LowerAssumption DEF LowercaseIsStable
  <2> QED
    BY <2>1 DEF NamePiece, Plain, Str
<1>2. One(d) \in Seq(Plain) /\ One(d) = <<d>>
  BY <1>1, OneIs
<1>3. <<d>> # <<>> /\ <<d>> # <<".">> /\ <<d>> # <<"..">>
  BY <1>1
<1> QED
  BY <1>2, <1>3 DEF Proper, Segment

LEMMA AbsoluteSegments ==
    ASSUME NEW p, Absolute(p)
    PROVE  \E u \in Seq(Segment) :
              /\ Segments(p) = One(One(p[1])) \o u
              /\ Segments(Tail(p)) = OneEmpty \o u
<1> DEFINE d == p[1]
<1>1. p \in Seq(Str) /\ p # <<>> /\ d \in Drives /\ Len(p) \in Nat \ {0}
  BY EmptySeq DEF Absolute, FromDrive, Text
<1>2. One(d) \in Segment /\ d \in Str /\ One(d) \in Seq(Str)
  BY <1>1, DriveIs, DriveIsName, OneIs DEF Proper
<1>3. Segments(One(d)) = One(One(d)) /\ One(One(d)) \in Seq(Segment)
  BY <1>2, SegmentsOfSegment, OneIs DEF One
<1>4. OneEmpty \in Seq(Segment) /\ <<>> \in Seq(Segment) /\ Segments(<<>>) = OneEmpty
  <2>1. <<>> \in Segment
    BY EmptySeq DEF Segment
  <2>2. OneEmpty \in Seq(Segment)
    BY <2>1, Single DEF OneEmpty
  <2> QED
    BY <2>2, EmptySeq, SegmentsOfNothing DEF OneEmpty
<1>5. p = One(d) \o Tail(p) /\ Tail(p) \in Seq(Str)
  BY <1>1, HeadTail, Zenon DEF BeginsWith
<1> HIDE DEF d
<1>6. CASE Tail(p) = <<>>
  <2>1. p = One(d)
    BY <1>2, <1>5, <1>6, ConcatEmptySeq
  <2>2. One(One(d)) \o <<>> = One(One(d)) /\ OneEmpty \o <<>> = OneEmpty
    BY <1>3, <1>4, ConcatEmptySeq
  <2> QED
    BY <1>3, <1>4, <1>6, <2>1, <2>2, Zenon DEF d
<1>7. CASE Tail(p) # <<>>
  <2> DEFINE sep == Tail(p)[1]
             t == Tail(Tail(p))
  <2>1. Tail(p) = One(sep) \o t /\ sep \in Str /\ t \in Seq(Str)
    BY <1>5, <1>7, HeadTail, Zenon DEF BeginsWith
  <2>2. sep \in Separators
    <3>1. /\ Len(Tail(p)) = Len(p) - 1 /\ Len(Tail(p)) \in Nat \ {0}
          /\ \A i \in 1 .. Len(Tail(p)) : Tail(p)[i] = p[i + 1]
      BY <1>1, <1>5, <1>7, HeadTailProperties, EmptySeq
    <3>2. Len(p) > 1 /\ 1 \in 1 .. Len(Tail(p)) /\ 1 + 1 = 2
      BY <1>1, <3>1
    <3>3. Tail(p)[1] = p[2]
      BY <3>1, <3>2, Zenon
    <3> QED
      BY <3>2, <3>3, Zenon DEF Absolute
  <2> HIDE DEF sep, t
  <2>3. Segments(t) \in Seq(Segment) /\ t \in Text
    BY <2>1, SegmentsTyped DEF Text, Splits
  <2>4. Segments(Tail(p)) = OneEmpty \o Segments(t)
    <3>1. <<>> \in Text /\ One(sep) = Append(<<>>, sep)
      BY EmptySeq DEF Text, One
    <3>2. Segments(Append(<<>>, sep) \o t) = Segments(<<>>) \o Segments(t)
      BY <2>2, <2>3, <3>1, SegmentsConcat
    <3> QED
      BY <1>4, <2>1, <3>1, <3>2, Zenon
  <2>5. p = Append(One(d), sep) \o t
    <3>1. One(sep) \in Seq(Str) /\ One(sep) = <<sep>>
      BY <2>1, OneIs
    <3>2. (One(d) \o One(sep)) \o t = One(d) \o (One(sep) \o t)
      BY <1>2, <2>1, <3>1, ConcatAssociative
    <3>3. Append(One(d), sep) = One(d) \o <<sep>>
      BY <1>2, <2>1, AppendIsConcat
    <3> QED
      BY <1>5, <2>1, <3>1, <3>2, <3>3, Zenon
  <2>6. Segments(p) = One(One(d)) \o Segments(t)
    <3>1. Segments(Append(One(d), sep) \o t) = Segments(One(d)) \o Segments(t)
      BY <1>2, <2>2, <2>3, SegmentsConcat DEF Text
    <3> QED
      BY <1>3, <2>5, <3>1, Zenon
  <2> QED
    BY <2>3, <2>4, <2>6, Zenon DEF d
<1> QED
  BY <1>6, <1>7

\* The names from a drive: the same steps as below it, from the drive on.
Based(top, u) == Fold(Names, PushStep, One(top), u)

LEMMA ResolvedFromDrive ==
    ASSUME NEW p, Absolute(p)
    PROVE  Resolved(p) = Based(One(p[1]), Segments(Tail(p)))
<1> DEFINE top == One(p[1])
<1>1. p \in Text /\ top \in Proper
  BY DriveIsName DEF Absolute, FromDrive
<1> HIDE DEF top
<1>2. PICK u \in Seq(Segment) : Segments(p) = One(top) \o u /\ Segments(Tail(p)) = OneEmpty \o u
  BY AbsoluteSegments DEF top
<1>3. One(top) \in Names /\ One(top) \in Seq(Segment) /\ top \in Segment /\ <<>> \in Names
  BY <1>1, OneIs, EmptySeq DEF Names, Proper
<1>4. <<>> \in Segment /\ OneEmpty \in Seq(Segment) /\ OneEmpty = One(<<>>)
  BY EmptySeq, OneIs DEF Segment, OneEmpty
<1>5. Named(One(top)) = One(top)
  <2>1. <<>> \in Seq(Segment)
    BY EmptySeq
  <2>2. Named(One(top)) = Push(<<>>, top)
    BY <1>3, <2>1, NamedOfOneMore, NamedOfNothing, Zenon DEF One
  <2>3. top \notin Nothing /\ top # Parent
    BY <1>1 DEF Proper, Nothing, Parent
  <2> QED
    BY <2>2, <2>3, Zenon DEF Push, One
<1>6. Based(top, OneEmpty) = One(top)
  <2>1. <<>> \in Seq(Segment)
    BY EmptySeq
  <2>2. TakesStep(Names, PushStep, One(top), <<>>, <<>>)
    BY <1>3, <1>4, <2>1, PushStepTyped, FoldOfOneMore, Zenon
  <2>3. Fold(Names, PushStep, One(top), <<>>) = One(top)
    BY <1>3, PushStepTyped, FoldOfNothing
  <2>4. Based(top, OneEmpty) = PushStep[One(top)][<<>>]
    BY <1>4, <2>2, <2>3, Zenon DEF TakesStep, Based, One
  <2>5. PushStep[One(top)][<<>>] = Push(One(top), <<>>)
    BY <1>3, <1>4, Zenon DEF PushStep
  <2>6. <<>> \in Nothing
    BY DEF Nothing
  <2> QED
    BY <2>4, <2>5, <2>6, Zenon DEF Push
<1>7. FoldsOver(Names, PushStep, <<>>, One(top), u) /\ FoldsOver(Names, PushStep, One(top), OneEmpty, u)
  BY <1>3, <1>4, PushStepTyped, FoldConcat, Zenon
<1>8. Resolved(p) = Named(One(top) \o u)
  BY <1>1, <1>2, ResolvedNames, Zenon
<1> QED
  BY <1>2, <1>5, <1>6, <1>7, <1>8, Zenon DEF FoldsOver, Named, Based, top

\* How many of the first i segments are in A.
Tally(u, i, A) == Cardinality({n \in 1 .. i : u[n] \in A})

LEMMA TallyTyped ==
    ASSUME NEW u, NEW i \in Nat, NEW A
    PROVE  IsFiniteSet({n \in 1 .. i : u[n] \in A}) /\ Tally(u, i, A) \in Nat
<1> DEFINE S == {n \in 1 .. i : u[n] \in A}
<1>1. IsFiniteSet(1 .. i)
  BY FS_Interval
<1>2. S \subseteq 1 .. i
  OBVIOUS
<1>3. IsFiniteSet(S)
  BY <1>1, <1>2, FS_Subset, Zenon
<1> HIDE DEF S
<1>4. Cardinality(S) \in Nat
  BY <1>3, FS_CardinalityType
<1> QED
  BY <1>3, <1>4 DEF Tally, S

LEMMA TallySame ==
    ASSUME NEW E, NEW u \in Seq(E), NEW s \in E, NEW i \in 0 .. Len(u), NEW A
    PROVE  Tally(Append(u, s), i, A) = Tally(u, i, A)
<1>1. Len(u) \in Nat /\ \A n \in 1 .. Len(u) : Append(u, s)[n] = u[n]
  BY LenProperties, AppendProperties
<1>2. \A n \in 1 .. i : Append(u, s)[n] = u[n]
  BY <1>1
<1>3. {n \in 1 .. i : Append(u, s)[n] \in A} = {n \in 1 .. i : u[n] \in A}
  BY <1>2, Zenon
<1> QED
  BY <1>3, Zenon DEF Tally

LEMMA TallyMore ==
    ASSUME NEW E, NEW u \in Seq(E), NEW s \in E, NEW A
    PROVE  Tally(Append(u, s), Len(u) + 1, A) = Tally(u, Len(u), A) + (IF s \in A THEN 1 ELSE 0)
<1> DEFINE w == Append(u, s)
           k == Len(u)
           S == {n \in 1 .. k : u[n] \in A}
           T == {n \in 1 .. (k + 1) : w[n] \in A}
<1>1. k \in Nat /\ w[k + 1] = s /\ \A n \in 1 .. k : w[n] = u[n]
  BY LenProperties, AppendProperties
<1> HIDE DEF w, k
<1>2. IsFiniteSet(S) /\ Cardinality(S) \in Nat
  BY <1>1, TallyTyped DEF Tally
<1>3. k + 1 \notin S
  BY <1>1
<1>4. CASE s \in A
  <2>1. T = S \cup {k + 1}
    BY <1>1, <1>4
  <2> HIDE DEF S, T
  <2>2. Cardinality(T) = Cardinality(S) + 1
    BY <1>2, <1>3, <2>1, FS_AddElement
  <2> QED
    BY <1>4, <2>2 DEF Tally, S, T, w, k
<1>5. CASE s \notin A
  <2>1. T = S
    BY <1>1, <1>5
  <2> HIDE DEF S, T
  <2>2. Cardinality(T) = Cardinality(S) + 0
    BY <1>2, <2>1
  <2> QED
    BY <1>5, <2>2 DEF Tally, S, T, w, k
<1> QED
  BY <1>4, <1>5

Ups(u, i) == Tally(u, i, {Parent})

Downs(u, i) == Tally(u, i, Proper)

NoClimb(u) == \A i \in 1 .. Len(u) : Ups(u, i) <= Downs(u, i)

\* The sets that are counted, as StaysBelow writes them.
LEMMA StaysBelowIs ==
    ASSUME NEW p \in Text
    PROVE  StaysBelow(p) <=> NoClimb(Segments(p))
<1> DEFINE u == Segments(p)
           Count(i, kind) == Cardinality({n \in 1 .. i : kind = (u[n] = Parent) /\ u[n] \notin Nothing})
<1>1. /\ DOMAIN u = 1 .. Len(u) /\ Len(u) \in Nat
      /\ \A n \in 1 .. Len(u) : u[n] \in Segment
  BY SegmentsTyped, LenProperties, ElementOfSeq DEF Splits
<1> HIDE DEF u
<1>2. StaysBelow(p) <=> \A i \in DOMAIN u : Count(i, TRUE) <= Count(i, FALSE)
  BY Zenon DEF StaysBelow, u
<1>3. ASSUME NEW i \in DOMAIN u PROVE Count(i, TRUE) = Ups(u, i) /\ Count(i, FALSE) = Downs(u, i)
  <2>1. \A n \in 1 .. i : u[n] \in Segment
    BY <1>1
  <2>2. {n \in 1 .. i : TRUE = (u[n] = Parent) /\ u[n] \notin Nothing}
            = {n \in 1 .. i : u[n] \in {Parent}}
    <3>1. Parent \notin Nothing
      BY DEF Parent, Nothing
    <3> QED
      BY <3>1, Zenon
  <2>3. {n \in 1 .. i : FALSE = (u[n] = Parent) /\ u[n] \notin Nothing}
            = {n \in 1 .. i : u[n] \in Proper}
    BY <2>1 DEF Parent, Nothing, Proper
  <2> QED
    BY <2>2, <2>3, Zenon DEF Ups, Downs, Tally
<1> QED
  BY <1>1, <1>2, <1>3, Zenon DEF NoClimb, u

\* What is below a name is pushed below it; ".." takes the name itself when nothing is.
PushesBelow(top, names, s) == Push(One(top) \o names, s) = One(top) \o Push(names, s)

LEMMA PushedUnder ==
    ASSUME NEW top \in Proper, NEW names \in Names, NEW s \in Segment,
           ~(s = Parent /\ names = <<>>)
    PROVE  PushesBelow(top, names, s)
<1>1. /\ One(top) \in Seq(Segment) /\ One(top) # <<>> /\ names \in Seq(Segment)
  BY OneIs, NamesAreSegments DEF Proper
<1>2. Parent \notin Nothing
  BY DEF Parent, Nothing
<1>3. CASE s \in Nothing
  BY <1>3, Zenon DEF PushesBelow, Push
<1>4. CASE s \notin Nothing /\ s # Parent
  <2>1. AppendsLast(One(top), names, s)
    BY <1>1, ConcatAppend, Zenon
  <2> QED
    BY <1>4, <2>1, Zenon DEF PushesBelow, Push, AppendsLast
<1>5. CASE s = Parent /\ names # <<>>
  <2>1. PICK f \in Seq(Segment), l \in Segment :
           f = Front(names) /\ l = Last(names) /\ names = Append(f, l)
    BY <1>1, <1>5, FrontLast, Zenon
  <2>2. AppendsLast(One(top), f, l) /\ One(top) \o f \in Seq(Segment)
    BY <1>1, ConcatAppend, ConcatProperties, Zenon
  <2>3. FrontAndLast(One(top) \o names, One(top) \o f, l)
    BY <2>1, <2>2, FrontOfAppend, Zenon DEF AppendsLast
  <2>4. One(top) \o names # <<>>
    BY <1>1, ConcatEqualIffEmpty
  <2>5. Push(One(top) \o names, s) = One(top) \o f
    BY <1>2, <1>5, <2>3, <2>4, Zenon DEF Push, FrontAndLast
  <2>6. Push(names, s) = f
    BY <1>2, <1>5, <2>1, Zenon DEF Push
  <2> QED
    BY <2>5, <2>6, Zenon DEF PushesBelow
<1> QED
  BY <1>3, <1>4, <1>5

LEMMA PushLength ==
    ASSUME NEW names \in Names, NEW s \in Segment
    PROVE  /\ s \in Nothing => Push(names, s) = names /\ s \notin {Parent} /\ s \notin Proper
           /\ s = Parent => /\ s \in {Parent} /\ s \notin Proper
                            /\ names # <<>> => Len(Push(names, s)) = Len(names) - 1
           /\ s \notin Nothing /\ s # Parent =>
                 s \in Proper /\ s \notin {Parent} /\ Len(Push(names, s)) = Len(names) + 1
<1>1. Parent \notin Nothing
  BY DEF Parent, Nothing
<1>2. s \in Proper <=> s \notin Nothing /\ s # Parent
  BY DEF Proper, Nothing, Parent
<1>3. Len(Append(names, s)) = Len(names) + 1
  BY NamesAreSegments, AppendProperties
<1>4. names # <<>> => Len(Front(names)) = Len(names) - 1
  <2> SUFFICES ASSUME names # <<>> PROVE Len(Front(names)) = Len(names) - 1
    OBVIOUS
  <2>1. Front(names) \in Seq(Proper) /\ Last(names) \in Proper /\ names = Append(Front(names), Last(names))
    BY FrontLast DEF Names
  <2>2. PICK f \in Seq(Proper), l \in Proper : f = Front(names) /\ names = Append(f, l)
    BY <2>1
  <2>3. Len(names) = Len(f) + 1 /\ Len(f) \in Nat
    BY <2>2, AppendProperties, LenProperties
  <2> QED
    BY <2>2, <2>3
<1>5. s \in Nothing => Push(names, s) = names
  BY Zenon DEF Push
<1>6. s = Parent /\ names # <<>> => Push(names, s) = Front(names)
  BY <1>1, Zenon DEF Push
<1>7. s \notin Nothing /\ s # Parent => Push(names, s) = Append(names, s)
  BY Zenon DEF Push
<1> QED
  BY <1>1, <1>2, <1>3, <1>4, <1>5, <1>6, <1>7, Zenon

LEMMA PushWithin ==
    ASSUME NEW A \in SUBSET Segment, NEW names \in Names, names \in Seq(A), NEW s \in A
    PROVE  Push(names, s) \in Seq(A)
<1>1. names # <<>> => Front(names) \in Seq(A)
  BY FrontLast
<1>2. Append(names, s) \in Seq(A)
  BY AppendProperties
<1> QED
  BY <1>1, <1>2, Zenon DEF Push

\* The drive is the first of the names as long as no ".." climbs above it, and once it is gone
\* what is left are later segments.
Climbs(u, top, A) ==
    /\ NoClimb(u) => /\ Based(top, u) = One(top) \o Named(u)
                     /\ Len(Named(u)) = Downs(u, Len(u)) - Ups(u, Len(u))
    /\ ~NoClimb(u) => Based(top, u) \in Seq(A)

LEMMA ClimbStarts ==
    ASSUME NEW top \in Proper, NEW A
    PROVE  Climbs(<<>>, top, A)
<1>1. One(top) \in Names /\ One(top) \in Seq(Segment)
  BY OneIs DEF Names, Proper
<1>2. Based(top, <<>>) = One(top)
  BY <1>1, PushStepTyped, FoldOfNothing DEF Based
<1>3. One(top) \o <<>> = One(top)
  BY <1>1, ConcatEmptySeq
<1>4. Downs(<<>>, 0) = 0 /\ Ups(<<>>, 0) = 0
  <2>1. \A B : {n \in 1 .. 0 : <<>>[n] \in B} = {}
    OBVIOUS
  <2>2. Cardinality({}) = 0
    BY FS_EmptySet
  <2> QED
    BY <2>1, <2>2, Zenon DEF Downs, Ups, Tally
<1>5. Len(<<>>) = 0 /\ NoClimb(<<>>)
  BY DEF NoClimb
<1>6. Len(Named(<<>>)) = Downs(<<>>, Len(<<>>)) - Ups(<<>>, Len(<<>>))
  BY <1>4, <1>5, NamedOfNothing
<1> QED
  BY <1>2, <1>3, <1>5, <1>6, NamedOfNothing, Zenon DEF Climbs

LEMMA NoClimbMore ==
    ASSUME NEW u \in Seq(Segment), NEW s \in Segment
    PROVE  /\ NoClimb(Append(u, s)) <=>
                 NoClimb(u) /\ Ups(Append(u, s), Len(u) + 1) <= Downs(Append(u, s), Len(u) + 1)
           /\ Ups(Append(u, s), Len(u) + 1)
                 = Ups(u, Len(u)) + (IF s \in {Parent} THEN 1 ELSE 0)
           /\ Downs(Append(u, s), Len(u) + 1)
                 = Downs(u, Len(u)) + (IF s \in Proper THEN 1 ELSE 0)
           /\ Len(Append(u, s)) = Len(u) + 1
           /\ Ups(u, Len(u)) \in Nat /\ Downs(u, Len(u)) \in Nat
           /\ NoClimb(u) => Ups(u, Len(u)) <= Downs(u, Len(u))
<1> DEFINE w == Append(u, s)
           k == Len(u)
<1>1. k \in Nat /\ Len(w) = k + 1
  BY LenProperties, AppendProperties
<1>2. \A i \in 0 .. k : Ups(w, i) = Ups(u, i) /\ Downs(w, i) = Downs(u, i)
  BY TallySame DEF Ups, Downs
<1>3. /\ Ups(w, k + 1) = Ups(u, k) + (IF s \in {Parent} THEN 1 ELSE 0)
      /\ Downs(w, k + 1) = Downs(u, k) + (IF s \in Proper THEN 1 ELSE 0)
  BY TallyMore DEF Ups, Downs
<1>4. Ups(u, k) \in Nat /\ Downs(u, k) \in Nat
  BY <1>1, TallyTyped DEF Ups, Downs
<1> HIDE DEF w, k
<1>5. NoClimb(w) <=> NoClimb(u) /\ Ups(w, k + 1) <= Downs(w, k + 1)
  <2>1. NoClimb(w) <=> \A i \in 1 .. k + 1 : Ups(w, i) <= Downs(w, i)
    BY <1>1, Zenon DEF NoClimb
  <2>2. NoClimb(u) <=> \A i \in 1 .. k : Ups(u, i) <= Downs(u, i)
    BY Zenon DEF NoClimb, k
  <2>3. \A i \in 1 .. k + 1 : i \in 1 .. k \/ i = k + 1
    BY <1>1
  <2>4. k + 1 \in 1 .. k + 1 /\ \A i \in 1 .. k : i \in 1 .. k + 1 /\ i \in 0 .. k
    BY <1>1
  <2> QED
    BY <1>2, <2>1, <2>2, <2>3, <2>4, Zenon
<1>6. NoClimb(u) => Ups(u, k) <= Downs(u, k)
  <2>1. CASE k = 0
    <3>1. Ups(u, 0) = 0
      <4>1. {n \in 1 .. 0 : u[n] \in {Parent}} = {}
        OBVIOUS
      <4> QED
        BY <4>1, FS_EmptySet DEF Ups, Tally
    <3> QED
      BY <1>4, <2>1, <3>1
  <2>2. CASE k # 0
    <3>1. k \in 1 .. k
      BY <1>1, <2>2
    <3> QED
      BY <3>1, Zenon DEF NoClimb, k
  <2> QED
    BY <2>1, <2>2
<1> QED
  BY <1>1, <1>3, <1>4, <1>5, <1>6, Zenon DEF w, k

LEMMA ClimbGoesOn ==
    ASSUME NEW A \in SUBSET Segment, NEW top \in Proper, NEW u \in Seq(A), NEW s \in A,
           Climbs(u, top, A)
    PROVE  Climbs(Append(u, s), top, A)
<1> DEFINE w == Append(u, s)
           k == Len(u)
           names == Named(u)
           base == Based(top, u)
           up == Ups(u, k)
           down == Downs(u, k)
<1>1. u \in Seq(Segment) /\ s \in Segment
  BY SeqMonotonic
<1>2. One(top) \in Names /\ names \in Names /\ base \in Names
  <2>1. One(top) \in Names
    BY OneIs DEF Names
  <2> QED
    BY <1>1, <2>1, NamedTyped, PushStepTyped, FoldTyped DEF Based
<1>3. Named(w) = Push(names, s) /\ Based(top, w) = Push(base, s)
  <2>1. TakesStep(Names, PushStep, One(top), u, s)
    BY <1>1, <1>2, PushStepTyped, FoldOfOneMore, Zenon
  <2>2. Based(top, w) = PushStep[base][s]
    BY <2>1, Zenon DEF TakesStep, Based
  <2>3. PushStep[base][s] = Push(base, s)
    BY <1>1, <1>2, Zenon DEF PushStep
  <2> QED
    BY <1>1, <2>2, <2>3, NamedOfOneMore, Zenon
<1>4. /\ NoClimb(w) <=> NoClimb(u) /\ Ups(w, k + 1) <= Downs(w, k + 1)
      /\ Ups(w, k + 1) = up + (IF s \in {Parent} THEN 1 ELSE 0)
      /\ Downs(w, k + 1) = down + (IF s \in Proper THEN 1 ELSE 0)
      /\ Len(w) = k + 1 /\ up \in Nat /\ down \in Nat
      /\ NoClimb(u) => up <= down
  BY <1>1, NoClimbMore, Zenon
<1>5. /\ s \in Nothing => Push(names, s) = names /\ s \notin {Parent} /\ s \notin Proper
      /\ s = Parent => /\ s \in {Parent} /\ s \notin Proper
                       /\ names # <<>> => Len(Push(names, s)) = Len(names) - 1
      /\ s \notin Nothing /\ s # Parent =>
            s \in Proper /\ s \notin {Parent} /\ Len(Push(names, s)) = Len(names) + 1
  BY <1>1, <1>2, PushLength, Zenon
<1>6. /\ NoClimb(u) => base = One(top) \o names /\ Len(names) = down - up
      /\ ~NoClimb(u) => base \in Seq(A)
  BY Zenon DEF Climbs
<1>7. Len(names) \in Nat /\ (names = <<>> <=> Len(names) = 0)
  BY <1>2, EmptySeq DEF Names
<1> HIDE DEF w, k, names, base, up, down
<1>8. CASE ~NoClimb(u)
  <2>1. Push(base, s) \in Seq(A)
    BY <1>2, <1>6, <1>8, PushWithin, Zenon
  <2> QED
    BY <1>3, <1>4, <1>8, <2>1, Zenon DEF Climbs, w
<1>9. CASE NoClimb(u) /\ s = Parent /\ names = <<>>
  <2>1. ~NoClimb(w)
    BY <1>4, <1>5, <1>6, <1>7, <1>9
  <2>2. base = One(top)
    <3>1. One(top) \o <<>> = One(top)
      BY <1>2, ConcatEmptySeq DEF Names
    <3> QED
      BY <1>6, <1>9, <3>1, Zenon
  <2>3. Push(base, s) = <<>>
    <3>1. Parent \notin Nothing /\ <<>> \in Seq(Proper)
      BY EmptySeq DEF Parent, Nothing
    <3>2. FrontAndLast(One(top), <<>>, top)
      BY <3>1, FrontOfAppend, Zenon DEF One
    <3>3. One(top) # <<>>
      BY OneIs
    <3> QED
      BY <1>9, <2>2, <3>1, <3>2, <3>3, Zenon DEF Push, FrontAndLast
  <2>4. <<>> \in Seq(A)
    BY EmptySeq
  <2> QED
    BY <1>3, <2>1, <2>3, <2>4, Zenon DEF Climbs, w
<1>10. CASE NoClimb(u) /\ ~(s = Parent /\ names = <<>>)
  <2>1. PushesBelow(top, names, s)
    BY <1>1, <1>2, <1>10, PushedUnder, Zenon
  <2>2. Based(top, w) = One(top) \o Named(w)
    BY <1>3, <1>6, <1>10, <2>1, Zenon DEF PushesBelow
  <2>3. Len(Push(names, s)) = Downs(w, k + 1) - Ups(w, k + 1)
    <3>1. PICK q, r : q = Ups(w, k + 1) /\ r = Downs(w, k + 1)
      OBVIOUS
    <3>2. CASE s \in Nothing
      <4>1. q = up + 0 /\ r = down + 0
        BY <1>4, <1>5, <3>1, <3>2
      <4> QED
        BY <1>4, <1>5, <1>6, <1>10, <3>1, <3>2, <4>1
    <3>3. CASE s = Parent
      <4>1. q = up + 1 /\ r = down + 0
        BY <1>4, <1>5, <3>1, <3>3
      <4>2. Len(Push(names, s)) = Len(names) - 1
        BY <1>5, <1>10, <3>3
      <4> QED
        BY <1>4, <1>6, <1>10, <3>1, <4>1, <4>2
    <3>4. CASE s \notin Nothing /\ s # Parent
      <4>1. q = up + 0 /\ r = down + 1
        BY <1>4, <1>5, <3>1, <3>4
      <4> QED
        BY <1>4, <1>5, <1>6, <1>10, <3>1, <3>4, <4>1
    <3> QED
      BY <3>2, <3>3, <3>4
  <2>4. NoClimb(w)
    BY <1>4, <1>5, <1>6, <1>7, <1>10
  <2> QED
    BY <1>3, <1>4, <2>2, <2>3, <2>4, Zenon DEF Climbs, w
<1> QED
  BY <1>8, <1>9, <1>10

LEMMA ClimbsAlways ==
    ASSUME NEW A \in SUBSET Segment, NEW top \in Proper, NEW u \in Seq(A)
    PROVE  Climbs(u, top, A)
<1> DEFINE S == {v \in Seq(A) : Climbs(v, top, A)}
<1>1. <<>> \in S
  BY ClimbStarts, EmptySeq
<1>2. ASSUME NEW v \in Seq(A), NEW s \in A, v \in S PROVE Append(v, s) \in S
  <2>1. Append(v, s) \in Seq(A) /\ Climbs(v, top, A)
    BY <1>2, AppendProperties
  <2> QED
    BY <2>1, ClimbGoesOn
<1>3. Seq(A) \subseteq S
  <2> HIDE DEF S
  <2> QED
    BY <1>1, <1>2, SeqInduction
<1> QED
  BY <1>3

LEMMA LowerAllConcat ==
    ASSUME NEW a \in Seq(Segment), NEW b \in Seq(Segment)
    PROVE  LowerAll(a \o b) = LowerAll(a) \o LowerAll(b)
<1>1. MapsConcat(SegmentMap, a, b)
  BY SegmentMapTyped, MappedConcat, Zenon
<1> QED
  BY <1>1, Zenon DEF MapsConcat, LowerAll

LEMMA LowerAllNames ==
    ASSUME NEW names \in Names
    PROVE  LowerAll(names) \in Names
<1>1. names \in Seq(Segment) /\ SegmentMap \in [Segment -> Segment]
  BY NamesAreSegments, SegmentMapTyped
<1>2. /\ LowerAll(names) \in Seq(Segment) /\ Len(LowerAll(names)) = Len(names)
      /\ \A i \in 1 .. Len(names) : LowerAll(names)[i] = SegmentMap[names[i]]
  BY <1>1, MappedTyped DEF LowerAll, IsMapped
<1>3. ASSUME NEW i \in 1 .. Len(names) PROVE LowerAll(names)[i] \in Proper
  <2>1. names[i] \in Proper
    BY ElementOfSeq DEF Names
  <2>2. Lowercase(names[i]) \in Proper
    BY <2>1, LowercaseSegment DEF Proper
  <2>3. SegmentMap[names[i]] = Lowercase(names[i])
    BY <2>1, SegmentMapTyped DEF Proper
  <2> QED
    BY <1>2, <2>2, <2>3
<1>4. LowerAll(names) \in Seq(Proper)
  BY <1>2, <1>3, LenProperties, IsASeq
<1> QED
  BY <1>4 DEF Names

\* The names of a path from its drive, in lower case.
Far == {s \in Segment : \A d \in Drives : Lowercase(s) # One(Lowered(d))}

ApartFromDrives(p) == Segments(Tail(p)) \in Seq(Far)

FullNames(p) == LowerAll(Resolved(p))

LEMMA FullNamesAre ==
    ASSUME NEW p, Absolute(p), ApartFromDrives(p)
    PROVE  /\ FullNames(p) \in Names /\ Resolved(p) \in Names
           /\ StaysBelow(Tail(p)) =>
                 FullNames(p) = One(One(Lowered(p[1]))) \o NamesBelow(p)
           /\ ~StaysBelow(Tail(p)) => \/ FullNames(p) = <<>>
                                      \/ \A d \in Drives : FullNames(p)[1] # One(Lowered(d))
<1> DEFINE top == One(p[1])
           u == Segments(Tail(p))
           r == Resolved(p)
<1>1. /\ FromDrive(p) /\ p \in Text /\ Tail(p) \in Text
      /\ p[1] \in Drives /\ p[1] \in Str /\ top \in Proper
  BY DriveIs, DriveIsName, NamesBelowAre DEF Absolute, FromDrive
<1>2. r \in Names
  <2>1. Segments(p) \in Seq(Segment)
    BY <1>1, SegmentsTyped DEF Splits
  <2> QED
    BY <1>1, <2>1, ResolvedNames, NamedTyped
<1>3. u \in Seq(Far) /\ Far \in SUBSET Segment
  BY DEF ApartFromDrives, Far
<1>4. Climbs(u, top, Far) /\ r = Based(top, u)
  BY <1>1, <1>3, ClimbsAlways, ResolvedFromDrive, Zenon
<1>5. StaysBelow(Tail(p)) <=> NoClimb(u)
  BY <1>1, StaysBelowIs
<1>6. NamesBelow(p) = LowerAll(Named(u)) /\ Named(u) \in Seq(Segment)
  <2>1. u \in Seq(Segment)
    BY <1>3, SeqMonotonic
  <2>2. Walk(Tail(p)) = Named(u)
    BY <1>1, WalkNames
  <2> QED
    BY <1>1, <2>1, <2>2, NamesBelowAre, NamedTyped, NamesAreSegments
<1> HIDE DEF u, r
<1>7. LowerAll(One(top)) = One(One(Lowered(p[1]))) /\ One(top) \in Seq(Segment)
  <2>1. top \in Segment /\ <<>> \in Seq(Segment) /\ One(top) \in Seq(Segment)
    BY <1>1, OneIs, EmptySeq DEF Proper
  <2>2. Lowercase(top) = One(Lowered(p[1]))
    BY <1>1, OneIs, LowercaseOne DEF One
  <2> HIDE DEF top
  <2>3. LowerAll(One(top)) = Append(LowerAll(<<>>), Lowercase(top))
    BY <2>1, LowerAllAppend, Zenon DEF One
  <2> QED
    BY <2>1, <2>2, <2>3, LowerAllNothing, Zenon DEF One
<1>8. ASSUME StaysBelow(Tail(p)) PROVE FullNames(p) = One(One(Lowered(p[1]))) \o NamesBelow(p)
  <2>1. r = One(top) \o Named(u)
    BY <1>4, <1>5, <1>8, Zenon DEF Climbs
  <2>2. LowerAll(One(top) \o Named(u)) = LowerAll(One(top)) \o LowerAll(Named(u))
    BY <1>6, <1>7, LowerAllConcat
  <2> QED
    BY <1>6, <1>7, <2>1, <2>2, Zenon DEF FullNames, r
<1>9. ASSUME ~StaysBelow(Tail(p)), FullNames(p) # <<>>, NEW d \in Drives
      PROVE  FullNames(p)[1] # One(Lowered(d))
  <2>1. r \in Seq(Far)
    BY <1>4, <1>5, <1>9, Zenon DEF Climbs
  <2>2. r \in Seq(Segment) /\ FullNames(p) = LowerAll(r)
    BY <1>2, NamesAreSegments DEF FullNames, r
  <2>3. r # <<>>
    BY <1>9, <2>2, LowerAllNothing, Zenon
  <2>4. Len(r) \in Nat \ {0} /\ r[1] \in Far
    BY <2>1, <2>3, EmptySeq, ElementOfSeq
  <2>5. IsMapped(LowerAll(r), SegmentMap, r, Segment)
    BY <2>2, SegmentMapTyped, MappedTyped, Zenon DEF LowerAll
  <2>6. 1 \in 1 .. Len(r)
    BY <2>4
  <2>7. LowerAll(r)[1] = Lowercase(r[1])
    BY <2>4, <2>5, <2>6, SegmentMapTyped, Zenon DEF IsMapped, Far
  <2> QED
    BY <2>2, <2>4, <2>7, Zenon DEF Far
<1>10. FullNames(p) \in Names
  BY <1>2, LowerAllNames DEF FullNames, r
<1> QED
  BY <1>2, <1>8, <1>9, <1>10, Zenon DEF r

\* One name before two sequences.
PrefixAfter(x, a, y, b) == IsPrefix(One(x) \o a, One(y) \o b) <=> x = y /\ IsPrefix(a, b)

LEMMA PrefixAfterIs ==
    ASSUME NEW S, NEW x \in S, NEW y \in S, NEW a \in Seq(S), NEW b \in Seq(S)
    PROVE  PrefixAfter(x, a, y, b)
<1> DEFINE s == One(x) \o a
           t == One(y) \o b
<1>1. One(x) \in Seq(S) /\ One(y) \in Seq(S) /\ s \in Seq(S) /\ t \in Seq(S)
  BY OneIs, ConcatProperties
<1>2. SameFirst(s, One(x)) /\ SameFirst(t, One(y)) /\ One(x)[1] = x /\ One(y)[1] = y
  <2>1. Len(One(x)) \in Nat \ {0} /\ Len(One(y)) \in Nat \ {0} /\ One(x)[1] = x /\ One(y)[1] = y
    BY OneIs
  <2> QED
    BY <1>1, <2>1, FirstOfConcat, Zenon
<1>3. Len(s) \in Nat \ {0}
  <2>1. Len(One(x)) = 1 /\ Len(a) \in Nat
    BY OneIs, LenProperties
  <2>2. Len(s) = Len(One(x)) + Len(a)
    BY <1>1, ConcatProperties
  <2> QED
    BY <2>1, <2>2
<1>4. ASSUME x = y PROVE IsPrefix(s, t) <=> IsPrefix(a, b)
  BY <1>1, <1>4, PrefixBelowIs, Zenon DEF PrefixBelow
<1>5. ASSUME IsPrefix(s, t) PROVE x = y
  <2>1. s[1] = x /\ t[1] = y
    BY <1>2, Zenon DEF SameFirst
  <2> HIDE DEF s, t
  <2>2. PICK u \in Seq(S) : t = s \o u
    BY <1>1, <1>5, PrefixIs, Zenon
  <2>3. SameFirst(t, s)
    BY <1>1, <1>3, <2>2, FirstOfConcat, Zenon
  <2> QED
    BY <2>1, <2>3, Zenon DEF SameFirst
<1> QED
  BY <1>4, <1>5, Zenon DEF PrefixAfter

\* A guest root as a grant has it.
GrantedRoot(root) ==
    /\ Absolute(root) /\ ApartFromDrives(root) /\ StaysBelow(Tail(root))
    /\ NormalisedRoot(root) = Lowercase(Joined(Resolved(root), "\\"))

\* The host resolves the path and compares it, in lower case, with the root as it is written.
LEMMA GuestCheck ==
    ASSUME NEW root, GrantedRoot(root), NEW path, Absolute(path), ApartFromDrives(path)
    PROVE  CheckGuestPath(root, path) = "ok" <=>
               WindowsInside(root, path) /\ StaysBelow(Tail(path))
<1> DEFINE a == FullNames(root)
           b == FullNames(path)
           x == Joined(a, "\\")
           y == Joined(b, "\\")
           d == One(Lowered(root[1]))
           e == One(Lowered(path[1]))
<1>1. "\\" \in Separators /\ "\\" \in Str
  BY DEF Separators, Str
<1>2. /\ FromDrive(root) /\ FromDrive(path) /\ root # <<>>
      /\ root[1] \in Str /\ path[1] \in Str /\ root[1] \in Drives
  BY DriveIs DEF GrantedRoot, Absolute, FromDrive
<1>3. /\ a \in Names /\ b \in Names
      /\ a = One(d) \o NamesBelow(root)
      /\ StaysBelow(Tail(path)) => b = One(e) \o NamesBelow(path)
      /\ ~StaysBelow(Tail(path)) => b = <<>> \/ b[1] # d
  BY <1>2, FullNamesAre, Zenon DEF GrantedRoot
<1>4. /\ Lowercase(Joined(Resolved(root), "\\")) = x
      /\ Lowercase(Joined(Resolved(path), "\\")) = y
  <2>1. Resolved(root) \in Seq(Segment) /\ Resolved(path) \in Seq(Segment)
    BY FullNamesAre, NamesAreSegments DEF GrantedRoot
  <2> QED
    BY <1>1, <2>1, JoinedLowers, Zenon DEF FullNames
<1>5. d \in Segment /\ e \in Segment /\ (d = e <=> Lowered(root[1]) = Lowered(path[1]))
  <2>1. \A c \in Drives : One(Lowered(c)) \in Segment
    <3> SUFFICES ASSUME NEW c \in Drives PROVE One(Lowered(c)) \in Segment
      OBVIOUS
    <3>1. One(c) \in Segment /\ One(c) = <<c>> /\ c \in Str
      BY DriveIs, DriveIsName, OneIs DEF Proper
    <3>2. Lowercase(One(c)) = One(Lowered(c))
      BY <3>1, LowercaseOne DEF One
    <3> QED
      BY <3>1, <3>2, LowercaseSegment
  <2>2. d[1] = Lowered(root[1]) /\ e[1] = Lowered(path[1])
    BY <1>2, LoweredIs, OneIs
  <2>3. path[1] \in Drives
    BY <1>2 DEF FromDrive
  <2> QED
    BY <1>2, <2>1, <2>2, <2>3, Zenon
<1>6. WindowsInside(root, path) <=> d = e /\ IsPrefix(NamesBelow(root), NamesBelow(path))
  <2>1. Lowercase(<<root[1]>>) = d /\ Lowercase(<<path[1]>>) = e
    BY <1>2, LowercaseOne DEF One
  <2> QED
    BY <2>1, Zenon DEF WindowsInside, NamesBelow
<1>7. NamesBelow(root) \in Seq(Segment) /\ NamesBelow(path) \in Seq(Segment)
  BY <1>2, NamesBelowAre, NamesAreSegments
<1>8. a # <<>> /\ a[1] = d
  <2>1. One(d) \in Seq(Segment) /\ One(d) # <<>> /\ Len(One(d)) \in Nat \ {0} /\ One(d)[1] = d
    BY <1>5, OneIs
  <2> HIDE DEF a, b, d, e
  <2>2. SameFirst(One(d) \o NamesBelow(root), One(d))
    BY <1>7, <2>1, FirstOfConcat, Zenon
  <2>3. One(d) \o NamesBelow(root) # <<>>
    BY <1>7, <2>1, ConcatEqualIffEmpty
  <2> QED
    BY <1>3, <2>1, <2>2, <2>3, Zenon DEF SameFirst
<1> HIDE DEF a, b, d, e
<1>9. IsPrefix(a, b) <=> WindowsInside(root, path) /\ StaysBelow(Tail(path))
  <2>1. CASE StaysBelow(Tail(path))
    <3>1. PrefixAfter(d, NamesBelow(root), e, NamesBelow(path))
      BY <1>5, <1>7, PrefixAfterIs, Zenon
    <3> QED
      BY <1>3, <1>6, <2>1, <3>1, Zenon DEF PrefixAfter
  <2>2. CASE ~StaysBelow(Tail(path))
    <3>1. ~IsPrefix(a, b)
      <4> SUFFICES ASSUME IsPrefix(a, b) PROVE FALSE
        OBVIOUS
      <4>1. a \in Seq(Segment) /\ b \in Seq(Segment)
        BY <1>3, NamesAreSegments
      <4>2. PICK u \in Seq(Segment) : b = a \o u
        BY <4>1, PrefixIs, Zenon
      <4>3. Len(a) \in Nat \ {0}
        BY <1>8, <4>1, EmptySeq
      <4>4. SameFirst(b, a)
        BY <4>1, <4>2, <4>3, FirstOfConcat, Zenon
      <4>5. b # <<>>
        BY <1>8, <4>1, <4>2, ConcatEqualIffEmpty
      <4> QED
        BY <1>3, <1>8, <2>2, <4>4, <4>5, Zenon DEF SameFirst
    <3> QED
      BY <2>2, <3>1
  <2> QED
    BY <2>1, <2>2
<1>10. GoesOn(x, y, "\\") <=> IsPrefix(a, b)
  BY <1>1, <1>3, <1>8, JoinedPrefixes
<1>11. x \in Text /\ y \in Text /\ x # <<>>
  BY <1>1, <1>3, <1>8, NamesAreSegments, SegmentsAreTexts, JoinedTyped, SegmentsJoined
<1> HIDE DEF x, y
<1>12. IsPrefix(Append(x, "\\"), y) <=> \E u \in Text : y = Append(x, "\\") \o u
  <2>1. Append(x, "\\") \in Seq(Str) /\ y \in Seq(Str)
    BY <1>1, <1>11, AppendProperties DEF Text
  <2> QED
    BY <2>1, PrefixIs, Zenon DEF Text
<1>13. GoesOn(x, y, "\\") <=> y = x \/ IsPrefix(Append(x, "\\"), y)
  BY <1>12, Zenon DEF GoesOn
<1>14. CheckGuestPath(root, path) =
           IF y = x \/ IsPrefix(Append(x, "\\"), y) THEN "ok" ELSE "path_outside_roots"
  BY <1>2, <1>4, <1>11, Zenon DEF CheckGuestPath, GrantedRoot
<1>15. CheckGuestPath(root, path) = "ok" <=> y = x \/ IsPrefix(Append(x, "\\"), y)
  BY <1>14
<1> QED
  BY <1>9, <1>10, <1>13, <1>15, Zenon

LEMMA GrantsAre ==
    /\ \A path \in HostRoots \cup HostPaths : FromTop(path)
    /\ \A path \in GuestRoots \cup GuestPaths : Absolute(path) /\ ApartFromDrives(path)
    /\ \A root \in GuestRoots : GrantedRoot(root)
<1>1. \A p \in Seq(STRING) : p \in Text
  BY SeqMonotonic DEF Text, Str
<1>2. \A path \in HostRoots \cup HostPaths : FromTop(path)
  BY <1>1, GrantsAssumption, Zenon DEF GrantsTyped, FromTop
<1>3. ASSUME NEW path \in GuestRoots \cup GuestPaths
      PROVE  Absolute(path) /\ ApartFromDrives(path)
  <2>1. FromDrive(path) /\ path \in Text
    BY PathsAre DEF FromDrive
  <2>2. Absolute(path)
    BY <2>1, GrantsAssumption, Zenon DEF GrantsTyped, Absolute
  <2> DEFINE below == Segments(Tail(path))
  <2>3. below \in Seq(Segment) /\ Len(below) \in Nat /\ DOMAIN below = 1 .. Len(below)
    BY <2>1, NamesBelowAre, SegmentsTyped, LenProperties DEF Splits
  <2>4. \A i \in DOMAIN below, d \in Drives : Lowercase(below[i]) # Lowercase(<<d>>)
    BY GrantsAssumption, Zenon DEF GrantsTyped
  <2> HIDE DEF below
  <2>5. ASSUME NEW d \in Drives PROVE Lowercase(<<d>>) = One(Lowered(d))
    <3>1. d \in Str
      BY DriveIs
    <3> QED
      BY <3>1, LowercaseOne, Zenon DEF One
  <2>6. \A i \in 1 .. Len(below) : below[i] \in Far
    <3> TAKE i \in 1 .. Len(below)
    <3>1. below[i] \in Segment
      BY <2>3, ElementOfSeq
    <3> QED
      BY <2>3, <2>4, <2>5, <3>1, Zenon DEF Far
  <2>7. below \in Seq(Far)
    BY <2>3, <2>6, IsASeq
  <2> QED
    BY <2>2, <2>7 DEF ApartFromDrives, below
<1>4. \A root \in GuestRoots : GrantedRoot(root)
  BY <1>3, GrantsAssumption, Zenon DEF GrantsTyped, GrantedRoot
<1> QED
  BY <1>2, <1>3, <1>4

LEMMA HostChecks ==
    ASSUME NEW roots \in SUBSET HostRoots, NEW path \in HostPaths
    PROVE  PathWithinRoots(path, roots) <=> \E root \in roots : HostInside(root, path)
<1>1. \A root \in roots :
          IsPrefix(LexicalResolve(root), LexicalResolve(path)) <=> HostInside(root, path)
  BY GrantsAre, HostCheck
<1> QED
  BY <1>1, Zenon DEF PathWithinRoots

\* The request is let through when no check refuses it.
LEMMA AuthorisedTransfer ==
    ASSUME NEW grant, NEW request, request.op = "transfer"
    PROVE  Authorise(grant, {}, request) = "ok" <=>
              /\ "transfer" \in grant.verbs
              /\ \A path \in request.host_path :
                    CheckHostTransfer(grant, request.direction, path) = "ok"
              /\ CheckGuestPath(grant.guest_root, request.guest_path) = "ok"
<1> DEFINE refusals == {CheckHostTransfer(grant, request.direction, path) :
                            path \in request.host_path} \ {"ok"}
           guest == CheckGuestPath(grant.guest_root, request.guest_path)
<1>1. RequiredVerb(request.op) = "transfer"
  BY DEF RequiredVerb
<1>2. CASE "transfer" \notin grant.verbs
  <2>1. Authorise(grant, {}, request) = "verb_not_granted"
    BY <1>1, <1>2, Zenon DEF Authorise
  <2> QED
    BY <1>2, <2>1
<1>3. CASE "transfer" \in grant.verbs
  <2>1. Authorise(grant, {}, request) =
            IF refusals # {} THEN CHOOSE reason \in refusals : TRUE ELSE guest
    BY <1>1, <1>3 DEF Authorise
  <2>2. refusals = {} <=> \A path \in request.host_path :
                              CheckHostTransfer(grant, request.direction, path) = "ok"
    BY Zenon
  <2> HIDE DEF guest
  <2>3. CASE refusals = {}
    BY <1>3, <2>1, <2>2, <2>3, Zenon DEF guest
  <2>4. CASE refusals # {}
    <3>1. (CHOOSE reason \in refusals : TRUE) \in refusals
      <4> HIDE DEF refusals
      <4> QED
        BY <2>4, Zenon
    <3>2. (CHOOSE reason \in refusals : TRUE) # "ok"
      BY <3>1, Zenon
    <3>3. Authorise(grant, {}, request) # "ok"
      BY <2>1, <2>4, <3>2, Zenon
    <3> QED
      BY <2>2, <2>4, <3>3, Zenon
  <2> QED
    BY <2>3, <2>4
<1> QED
  BY <1>2, <1>3

LEMMA AuthorisingIsExact ==
    ASSUME AuthoriseTransfer
    PROVE  AuthoriseIsExact'
<1>1. PICK verbs \in {{"transfer"}, {"inspect"}}, guest_root \in GuestRoots \cup {<<>>},
           roots \in SUBSET HostRoots, granted \in {"host_to_guest", "guest_to_host"},
           direction \in {"host_to_guest", "guest_to_host"},
           host_path \in {{}} \cup {{path} : path \in HostPaths},
           guest_path \in GuestPaths :
         LET grant   == [verbs |-> verbs, guest_root |-> guest_root,
                         read_roots |-> IF granted = "guest_to_host" THEN roots ELSE {},
                         write_roots |-> IF granted = "host_to_guest" THEN roots ELSE {}]
             request == [op |-> "transfer", direction |-> direction,
                         host_path |-> host_path, guest_path |-> guest_path]
         IN  /\ Len(guest_path) <= 4 \/ host_path = {}
             /\ call' = [op |-> "authorise", grant |-> grant, request |-> request,
                         result |-> Authorise(grant, {}, request)]
  BY DEF AuthoriseTransfer
<1> DEFINE grant   == [verbs |-> verbs, guest_root |-> guest_root,
                       read_roots |-> IF granted = "guest_to_host" THEN roots ELSE {},
                       write_roots |-> IF granted = "host_to_guest" THEN roots ELSE {}]
           request == [op |-> "transfer", direction |-> direction,
                       host_path |-> host_path, guest_path |-> guest_path]
           reply == Authorise(grant, {}, request)
           sided   == IF direction = "host_to_guest" THEN grant.write_roots ELSE grant.read_roots
<1>2. /\ call'.op = "authorise" /\ call'.grant = grant /\ call'.request = request
      /\ call'.result = reply
  BY <1>1
<1>3. /\ request.op = "transfer" /\ request.direction = direction
      /\ request.host_path = host_path /\ request.guest_path = guest_path
      /\ grant.verbs = verbs /\ grant.guest_root = guest_root
      /\ sided = grant[IF direction = "host_to_guest" THEN "write_roots" ELSE "read_roots"]
      /\ sided \in SUBSET HostRoots
  OBVIOUS
<1> HIDE DEF grant, request
<1>4. reply = "ok" <=>
          /\ "transfer" \in verbs
          /\ \A path \in host_path : CheckHostTransfer(grant, direction, path) = "ok"
          /\ CheckGuestPath(guest_root, guest_path) = "ok"
  BY <1>3, AuthorisedTransfer
<1>5. ASSUME NEW path \in host_path
      PROVE  CheckHostTransfer(grant, direction, path) = "ok"
                 <=> \E root \in sided : HostInside(root, path)
  <2>1. path \in HostPaths
    OBVIOUS
  <2>2. CheckHostTransfer(grant, direction, path) =
            IF sided = {} THEN "no_transfer_root"
            ELSE IF PathWithinRoots(path, sided) THEN "ok" ELSE "path_outside_roots"
    BY Zenon DEF CheckHostTransfer
  <2>3. PathWithinRoots(path, sided) <=> \E root \in sided : HostInside(root, path)
    BY <1>3, <2>1, HostChecks, Zenon
  <2> HIDE DEF sided
  <2>4. "no_transfer_root" # "ok" /\ "path_outside_roots" # "ok"
    OBVIOUS
  <2> QED
    BY <2>2, <2>3, <2>4, Zenon
<1>6. CheckGuestPath(guest_root, guest_path) = "ok" <=>
          /\ guest_root # <<>> /\ WindowsInside(guest_root, guest_path)
          /\ StaysBelow(Tail(guest_path))
  <2>1. CASE guest_root = <<>>
    <3>1. CheckGuestPath(guest_root, guest_path) = "no_transfer_root"
      BY <2>1, Zenon DEF CheckGuestPath
    <3> QED
      BY <2>1, <3>1
  <2>2. CASE guest_root \in GuestRoots
    <3>1. guest_root # <<>>
      BY <2>2, GrantsAre, Zenon DEF Absolute, FromDrive
    <3> QED
      BY <2>2, <3>1, GrantsAre, GuestCheck, Zenon
  <2> QED
    BY <2>1, <2>2
<1>7. reply = "ok" <=>
          /\ "transfer" \in verbs
          /\ \A path \in host_path : \E root \in sided : HostInside(root, path)
          /\ guest_root # <<>>
          /\ WindowsInside(guest_root, guest_path)
          /\ StaysBelow(Tail(guest_path))
  BY <1>4, <1>5, <1>6, Zenon
<1>8. sided = IF call'.request.direction = "host_to_guest"
              THEN call'.grant.write_roots ELSE call'.grant.read_roots
  BY <1>2, <1>3, Zenon
<1> HIDE DEF sided, reply
<1> QED
  BY <1>2, <1>3, <1>7, <1>8, Zenon DEF AuthoriseIsExact

\* The host lets a transfer through exactly when the verb is granted, the host's path, walked
\* from the root directory, passes through a root for that direction, and the guest's path,
\* walked as Windows does, lies in the guest root without climbing above its drive:
\* server.rs, authorise; policy.rs, check_host_transfer and check_guest_path, for any grants
\* and absolute paths.
THEOREM AuthoriseExact == CallSpec => []AuthoriseIsExact
<1>1. CallInit => AuthoriseIsExact
  BY DEF CallInit, Idle, AuthoriseIsExact
<1>2. AuthoriseIsExact /\ [CallNext]_call => AuthoriseIsExact'
  <2> SUFFICES ASSUME AuthoriseIsExact, [CallNext]_call PROVE AuthoriseIsExact'
    OBVIOUS
  <2>1. CASE UNCHANGED call
    BY <2>1, Zenon DEF AuthoriseIsExact
  <2>2. CASE AuthoriseTransfer
    BY <2>2, AuthorisingIsExact
  <2>3. CASE call'.op # "authorise"
    BY <2>3, Zenon DEF AuthoriseIsExact
  <2> QED
    BY <2>1, <2>2, <2>3, CalledBy
<1> QED
  BY <1>1, <1>2, PTL DEF CallSpec

================================================================================
