--------------------------------- MODULE Induction ---------------------------------
(***************************************************************************)
(* Induction and recursion for the proof modules, in the forms the provers *)
(* can use: over sets and functions, with no operator for a parameter.     *)
(***************************************************************************)
EXTENDS Integers, TLAPS
LOCAL INSTANCE WellFoundedInduction

(* A set of natural numbers that is not empty has a least element.         *)
LEMMA LeastNumber ==
    ASSUME NEW T, T \subseteq Nat, T # {}
    PROVE  \E m \in T : \A k \in T : m <= k
<1>1. PICK m \in T : \A k \in T : ~(<<k, m>> \in OpToRel(<, Nat))
  BY WFMin, NatLessThanWellFounded
<1>2. \A k \in T : ~(k < m)
  BY <1>1 DEF OpToRel
<1> QED
  BY <1>2

(* Induction: a set that holds 0 and the successor of each of its members  *)
(* holds every natural number. *)
LEMMA SetInduction ==
    ASSUME NEW T, 0 \in T, \A n \in Nat : n \in T => n + 1 \in T
    PROVE  Nat \subseteq T
<1> SUFFICES ASSUME Nat \ T # {} PROVE FALSE
  OBVIOUS
<1>1. PICK m \in Nat \ T : \A k \in Nat \ T : m <= k
  <2>1. Nat \ T \subseteq Nat
    OBVIOUS
  <2> QED BY <2>1, LeastNumber
<1>2. m # 0 /\ m - 1 \in Nat /\ m - 1 \in T
  BY <1>1
<1> QED BY <1>1, <1>2

(***************************************************************************)
(* What a walk with successor function N over S that stops in T can meet:  *)
(* the least set that holds its start and the successor of every member    *)
(* it does not stop at.                                                    *)
(***************************************************************************)
ClosedWalk(S, N, T) ==
    {R \in SUBSET S : \A x \in R : x \notin T => N[x] \in R}

Met(S, N, T, c) ==
    {x \in S : \A R \in ClosedWalk(S, N, T) : c \in R => x \in R}

LEMMA MetUnfold ==
    ASSUME NEW S, NEW N \in [S -> S], NEW T, NEW c \in S
    PROVE  Met(S, N, T, c) =
              IF c \in T THEN {c} ELSE {c} \cup Met(S, N, T, N[c])
<1>1. CASE c \in T
  <2>1. {c} \in ClosedWalk(S, N, T)
    BY <1>1 DEF ClosedWalk
  <2> QED BY <1>1, <2>1 DEF Met
<1>2. CASE c \notin T
  <2> DEFINE M == Met(S, N, T, N[c])
  <2>1. M \in ClosedWalk(S, N, T)
    BY DEF Met, ClosedWalk
  <2>2. N[c] \in M /\ N[c] \in S
    BY DEF Met
  <2>3. {c} \cup M \in ClosedWalk(S, N, T)
    BY <2>1, <2>2 DEF ClosedWalk
  <2>4. Met(S, N, T, c) \subseteq {c} \cup M
    BY <2>3 DEF Met
  <2>5. \A R \in ClosedWalk(S, N, T) : c \in R => N[c] \in R
    BY <1>2 DEF ClosedWalk
  <2>6. {c} \cup M \subseteq Met(S, N, T, c)
    BY <2>5 DEF Met
  <2> QED BY <1>2, <2>4, <2>6
<1> QED BY <1>1, <1>2

(* The end of a walk is a function of its start, also where the walk has   *)
(* no end. *)
LEMMA WalkExists ==
    ASSUME NEW S, NEW N \in [S -> S], NEW T
    PROVE  \E F : F = [c \in S |-> IF c \in T THEN c ELSE F[N[c]]]
<1> DEFINE E(c) == {e \in Met(S, N, T, c) : e \in T}
           F == [c \in S |-> CHOOSE e : e \in E(c)]
<1>1. ASSUME NEW c \in S PROVE F[c] = IF c \in T THEN c ELSE F[N[c]]
  <2>1. CASE c \in T
    <3>1. E(c) = {c}
      BY <2>1, MetUnfold
    <3>2. F[c] = CHOOSE e : e \in {c}
      BY <3>1
    <3> QED BY <2>1, <3>2
  <2>2. CASE c \notin T
    <3>1. N[c] \in S
      OBVIOUS
    <3>2. E(c) = E(N[c])
      BY <2>2, MetUnfold
    <3>3. F[c] = F[N[c]]
      BY <3>1, <3>2
    <3> QED BY <2>2, <3>3
  <2> QED BY <2>1, <2>2
<1>2. F = [c \in S |-> F[c]]
  OBVIOUS
<1>3. F = [c \in S |-> IF c \in T THEN c ELSE F[N[c]]]
  <2> HIDE DEF F
  <2> QED BY <1>1, <1>2
<1> QED BY <1>3

(* So is the set of the elements it passes before it stops.                *)
IsTrail(F, S, N, T) ==
    /\ F \in [S -> SUBSET S]
    /\ \A c \in S, x \in S :
           x \in F[c] <=> c \notin T /\ (x = c \/ x \in F[N[c]])

LEMMA TrailExists ==
    ASSUME NEW S, NEW N \in [S -> S], NEW T
    PROVE  \E F : IsTrail(F, S, N, T)
<1> DEFINE F == [c \in S |-> {x \in Met(S, N, T, c) : c \notin T /\ x \notin T}]
<1>1. F \in [S -> SUBSET S]
  BY DEF Met
<1>2. ASSUME NEW c \in S, NEW x \in S
      PROVE  x \in F[c] <=> c \notin T /\ (x = c \/ x \in F[N[c]])
  <2>1. N[c] \in S
    OBVIOUS
  <2>2. c \notin T => Met(S, N, T, c) = {c} \cup Met(S, N, T, N[c])
    BY MetUnfold
  <2>3. N[c] \in T => Met(S, N, T, N[c]) = {N[c]}
    BY <2>1, MetUnfold
  <2> QED
    BY <2>1, <2>2, <2>3
<1> QED BY <1>1, <1>2 DEF IsTrail

(* The partial sums of W: sizes that are added up, one after the other.    *)
IsSum(F, W, n) ==
    /\ F \in [1 .. (n + 1) -> Nat]
    /\ F[1] = 0
    /\ \A j \in 1 .. n : F[j + 1] = F[j] + W[j]

LEMMA SumsExist ==
    ASSUME NEW n \in Nat, NEW W \in [1 .. n -> Nat]
    PROVE  \E F : IsSum(F, W, n)
<1> DEFINE T == {m \in Nat : m <= n => \E F : IsSum(F, W, m)}
<1>1. 0 \in T
  <2>1. IsSum([j \in 1 .. 1 |-> 0], W, 0)
    BY DEF IsSum
  <2> QED
    BY <2>1
<1>2. ASSUME NEW m \in Nat, m \in T PROVE m + 1 \in T
  <2> SUFFICES ASSUME m + 1 <= n PROVE \E F : IsSum(F, W, m + 1)
    OBVIOUS
  <2>1. PICK F : IsSum(F, W, m)
    BY <1>2
  <2>2. /\ F \in [1 .. (m + 1) -> Nat] /\ F[1] = 0
        /\ \A j \in 1 .. m : F[j + 1] = F[j] + W[j]
    BY <2>1 DEF IsSum
  <2>3. W[m + 1] \in Nat /\ F[m + 1] \in Nat
    BY <2>2
  <2> DEFINE G == [j \in 1 .. ((m + 1) + 1) |->
                      IF j = (m + 1) + 1 THEN F[m + 1] + W[m + 1] ELSE F[j]]
  <2>4. G \in [1 .. ((m + 1) + 1) -> Nat]
    BY <2>2, <2>3
  <2>5. G[1] = 0
    BY <2>2
  <2>6. ASSUME NEW j \in 1 .. (m + 1) PROVE G[j + 1] = G[j] + W[j]
    <3>1. CASE j = m + 1
      BY <3>1
    <3>2. CASE j \in 1 .. m
      BY <2>2, <3>2
    <3> QED
      BY <3>1, <3>2
  <2>7. IsSum(G, W, m + 1)
    <3> HIDE DEF G
    <3> QED
      BY <2>4, <2>5, <2>6 DEF IsSum
  <2> QED
    BY <2>7
<1>3. Nat \subseteq T
  <2> HIDE DEF T
  <2> QED
    BY <1>1, <1>2, SetInduction
<1> QED
  BY <1>3

(* A later sum is at least an earlier one with what was added to it. *)
LEMMA SumsGrow ==
    ASSUME NEW n \in Nat, NEW W \in [1 .. n -> Nat], NEW F, IsSum(F, W, n),
           NEW j \in 1 .. n, NEW k \in (j + 1) .. (n + 1)
    PROVE  F[j] + W[j] <= F[k]
<1>1. /\ \A i \in 1 .. (n + 1) : F[i] \in Nat
      /\ \A i \in 1 .. n : F[i + 1] = F[i] + W[i]
  BY DEF IsSum
<1> DEFINE T == {m \in Nat : j + 1 + m <= n + 1 => F[j] + W[j] <= F[j + 1 + m]}
<1>2. 0 \in T
  BY <1>1
<1>3. ASSUME NEW m \in Nat, m \in T PROVE m + 1 \in T
  <2> SUFFICES ASSUME j + 1 + (m + 1) <= n + 1 PROVE F[j] + W[j] <= F[j + 1 + (m + 1)]
    OBVIOUS
  <2> DEFINE i == j + 1 + m
  <2>1. i \in 1 .. n /\ i \in 1 .. (n + 1) /\ j + 1 + (m + 1) = i + 1 /\ i + 1 \in 1 .. (n + 1)
    OBVIOUS
  <2>2. F[j] + W[j] <= F[i]
    BY <1>3
  <2>3. F[i + 1] = F[i] + W[i] /\ W[i] \in Nat /\ F[i] \in Nat /\ F[j] \in Nat /\ W[j] \in Nat
    BY <1>1, <2>1
  <2> HIDE DEF i
  <2>4. F[i + 1] \in Nat
    BY <1>1, <2>1
  <2>5. F[j] + W[j] <= F[i + 1]
    BY <2>2, <2>3, <2>4
  <2> QED
    BY <2>1, <2>5
<1>4. Nat \subseteq T
  <2> HIDE DEF T
  <2> QED
    BY <1>2, <1>3, SetInduction
<1>5. PICK m \in Nat : j + 1 + m = k
  <2>1. k - (j + 1) \in Nat /\ j + 1 + (k - (j + 1)) = k
    OBVIOUS
  <2> QED
    BY <2>1
<1>6. j + 1 + m <= n + 1
  BY <1>5
<1>7. F[j] + W[j] <= F[j + 1 + m]
  <2>1. m \in T
    <3> HIDE DEF T
    <3> QED
      BY <1>4
  <2> QED
    BY <1>6, <2>1
<1> QED
  BY <1>5, <1>7

(* A function defined step by step from its value at 0, and only one. *)
Iterates(F, a, G, n) ==
    /\ F = [k \in 0 .. n |-> F[k]]
    /\ F[0] = a
    /\ \A k \in 1 .. n : F[k] = G[k][F[k - 1]]

LEMMA IterationTyped ==
    ASSUME NEW S, NEW a \in S, NEW n \in Nat, NEW G \in [1 .. n -> [S -> S]],
           NEW F, Iterates(F, a, G, n)
    PROVE  \A k \in 0 .. n : F[k] \in S
<1> DEFINE T == {k \in Nat : k <= n => F[k] \in S}
<1>1. 0 \in T
  BY DEF Iterates
<1>2. ASSUME NEW k \in Nat, k \in T PROVE k + 1 \in T
  <2> SUFFICES ASSUME k + 1 <= n PROVE F[k + 1] \in S
    OBVIOUS
  <2>1. k + 1 \in 1 .. n /\ (k + 1) - 1 = k /\ F[k] \in S
    BY <1>2
  <2>2. F[k + 1] = G[k + 1][F[k]]
    BY <2>1 DEF Iterates
  <2> QED
    BY <2>1, <2>2
<1>3. Nat \subseteq T
  <2> HIDE DEF T
  <2> QED
    BY <1>1, <1>2, SetInduction
<1> QED
  BY <1>3

LEMMA IterationExists ==
    ASSUME NEW S, NEW a \in S, NEW n \in Nat, NEW G \in [1 .. n -> [S -> S]]
    PROVE  \E F : Iterates(F, a, G, n)
<1> DEFINE Good(m, F) == /\ F \in [0 .. m -> S]
                         /\ F[0] = a
                         /\ \A k \in 1 .. m : F[k] = G[k][F[k - 1]]
           T == {m \in Nat : m <= n => \E F : Good(m, F)}
<1>1. 0 \in T
  <2>1. Good(0, [k \in 0 .. 0 |-> a])
    OBVIOUS
  <2> HIDE DEF Good
  <2> QED
    BY <2>1
<1>2. ASSUME NEW m \in Nat, m \in T PROVE m + 1 \in T
  <2> SUFFICES ASSUME m + 1 <= n PROVE \E F : Good(m + 1, F)
    OBVIOUS
  <2>1. PICK F : Good(m, F)
    <3>1. m <= n => \E F : Good(m, F)
      <4> HIDE DEF Good
      <4> QED BY <1>2
    <3> QED
      BY <3>1
  <2> DEFINE H == [k \in 0 .. (m + 1) |-> IF k = m + 1 THEN G[m + 1][F[m]] ELSE F[k]]
  <2>2. G[m + 1][F[m]] \in S
    <3>1. m + 1 \in 1 .. n /\ F[m] \in S
      BY <2>1
    <3> QED
      BY <3>1
  <2>3. H \in [0 .. (m + 1) -> S] /\ H[0] = a
    BY <2>1, <2>2
  <2>4. ASSUME NEW k \in 1 .. (m + 1) PROVE H[k] = G[k][H[k - 1]]
    <3>1. CASE k = m + 1
      <4>1. H[k] = G[m + 1][F[m]] /\ k - 1 = m /\ H[m] = F[m]
        BY <3>1
      <4> HIDE DEF H
      <4> QED
        BY <3>1, <4>1
    <3>2. CASE k \in 1 .. m
      <4>1. H[k] = F[k] /\ H[k - 1] = F[k - 1]
        BY <3>2
      <4> HIDE DEF H
      <4> QED
        BY <2>1, <3>2, <4>1
    <3> QED
      BY <3>1, <3>2
  <2>5. Good(m + 1, H)
    <3> HIDE DEF H
    <3> QED
      BY <2>3, <2>4
  <2> HIDE DEF Good
  <2> QED
    BY <2>5
<1>3. Nat \subseteq T
  <2> HIDE DEF T
  <2> QED
    BY <1>1, <1>2, SetInduction
<1>4. \E F : Good(n, F)
  <2>1. n \in T
    <3> HIDE DEF T
    <3> QED BY <1>3
  <2> HIDE DEF Good
  <2> QED
    BY <2>1
<1> QED
  BY <1>4 DEF Iterates

LEMMA IterationUnique ==
    ASSUME NEW n \in Nat, NEW m \in 0 .. n, NEW a, NEW G, NEW H,
           NEW E, Iterates(E, a, G, m), NEW F, Iterates(F, a, H, n),
           \A k \in 1 .. m : G[k] = H[k]
    PROVE  \A k \in 0 .. m : E[k] = F[k]
<1> DEFINE T == {k \in Nat : k <= m => E[k] = F[k]}
<1>1. 0 \in T
  BY DEF Iterates
<1>2. ASSUME NEW k \in Nat, k \in T PROVE k + 1 \in T
  <2> SUFFICES ASSUME k + 1 <= m PROVE E[k + 1] = F[k + 1]
    OBVIOUS
  <2>1. k + 1 \in 1 .. m /\ k + 1 \in 1 .. n /\ (k + 1) - 1 = k /\ E[k] = F[k]
    BY <1>2
  <2>2. E[k + 1] = G[k + 1][E[k]] /\ F[k + 1] = H[k + 1][F[k]]
    BY <2>1 DEF Iterates
  <2> QED
    BY <2>1, <2>2
<1>3. Nat \subseteq T
  <2> HIDE DEF T
  <2> QED
    BY <1>1, <1>2, SetInduction
<1> QED
  BY <1>3

(* Doubling step by step from 1. *)
Doubles(F, n) == F = [k \in 0 .. n |-> IF k = 0 THEN 1 ELSE 2 * F[k - 1]]

LEMMA DoublingIterates ==
    ASSUME NEW n \in Nat, NEW F
    PROVE  Doubles(F, n) <=>
              Iterates(F, 1, [k \in 1 .. n |-> [x \in Nat |-> 2 * x]], n)
                /\ \A k \in 0 .. n : F[k] \in Nat
<1> DEFINE step == [x \in Nat |-> 2 * x]
           G == [k \in 1 .. n |-> step]
<1>1. G \in [1 .. n -> [Nat -> Nat]] /\ 1 \in Nat
  OBVIOUS
<1>2. ASSUME Doubles(F, n) PROVE \A k \in 0 .. n : F[k] \in Nat
  <2> DEFINE T == {k \in Nat : k <= n => F[k] \in Nat}
  <2>1. \A k \in 0 .. n : F[k] = IF k = 0 THEN 1 ELSE 2 * F[k - 1]
    BY <1>2 DEF Doubles
  <2>2. 0 \in T
    BY <2>1
  <2>3. ASSUME NEW k \in Nat, k \in T PROVE k + 1 \in T
    <3> SUFFICES ASSUME k + 1 <= n PROVE F[k + 1] \in Nat
      OBVIOUS
    <3>1. k + 1 \in 0 .. n /\ k + 1 # 0 /\ (k + 1) - 1 = k /\ F[k] \in Nat
      BY <2>3
    <3>2. F[k + 1] = 2 * F[k]
      BY <2>1, <3>1
    <3> QED
      BY <3>1, <3>2
  <2>4. Nat \subseteq T
    <3> HIDE DEF T
    <3> QED
      BY <2>2, <2>3, SetInduction
  <2> QED
    BY <2>4
<1>3. ASSUME \A k \in 0 .. n : F[k] \in Nat
      PROVE  Doubles(F, n) <=> Iterates(F, 1, G, n)
  <2>1. \A k \in 1 .. n : k \in 0 .. n /\ k - 1 \in 0 .. n /\ k # 0
    OBVIOUS
  <2>2. \A k \in 1 .. n : G[k][F[k - 1]] = 2 * F[k - 1]
    BY <1>3, <2>1
  <2> HIDE DEF G
  <2>3. ASSUME Doubles(F, n) PROVE Iterates(F, 1, G, n)
    <3>1. /\ \A k \in 0 .. n : F[k] = IF k = 0 THEN 1 ELSE 2 * F[k - 1]
          /\ F = [k \in 0 .. n |-> F[k]]
      BY <2>3 DEF Doubles
    <3>2. F[0] = 1 /\ 0 \in 0 .. n
      BY <3>1
    <3>3. \A k \in 1 .. n : F[k] = 2 * F[k - 1]
      BY <2>1, <3>1
    <3> QED
      BY <2>2, <3>1, <3>2, <3>3 DEF Iterates
  <2>4. ASSUME Iterates(F, 1, G, n) PROVE Doubles(F, n)
    <3>1. \A k \in 0 .. n : k = 0 \/ k \in 1 .. n
      OBVIOUS
    <3>2. \A k \in 0 .. n : F[k] = IF k = 0 THEN 1 ELSE 2 * F[k - 1]
      BY <2>2, <2>4, <3>1 DEF Iterates
    <3>3. F = [k \in 0 .. n |-> F[k]]
      BY <2>4 DEF Iterates
    <3> QED
      BY <3>2, <3>3, Zenon DEF Doubles
  <2> QED
    BY <2>3, <2>4
<1> QED
  BY <1>2, <1>3

LEMMA DoublingExists ==
    ASSUME NEW n \in Nat
    PROVE  \E F : Doubles(F, n)
<1> DEFINE step == [x \in Nat |-> 2 * x]
           G == [k \in 1 .. n |-> step]
<1>1. G \in [1 .. n -> [Nat -> Nat]] /\ 1 \in Nat
  OBVIOUS
<1>2. PICK F : Iterates(F, 1, G, n)
  <2> HIDE DEF G
  <2> QED
    BY <1>1, IterationExists
<1>3. \A k \in 0 .. n : F[k] \in Nat
  <2> HIDE DEF G
  <2> QED
    BY <1>1, <1>2, IterationTyped
<1> QED
  BY <1>2, <1>3, DoublingIterates

(* Its values are positive, and do not depend on how far it is taken.      *)
LEMMA DoublingFacts ==
    ASSUME NEW n \in Nat, NEW F, Doubles(F, n)
    PROVE  /\ \A k \in 0 .. n : F[k] \in Nat /\ F[k] >= 1
           /\ F[0] = 1
           /\ \A k \in 1 .. n : F[k] = 2 * F[k - 1] /\ F[k] >= 2
<1>1. \A k \in 0 .. n : F[k] \in Nat
  BY DoublingIterates
<1>2. \A k \in 0 .. n : F[k] = IF k = 0 THEN 1 ELSE 2 * F[k - 1]
  BY DEF Doubles
<1>3. \A k \in 1 .. n : k \in 0 .. n /\ k - 1 \in 0 .. n /\ k # 0
  OBVIOUS
<1> DEFINE T == {k \in Nat : k <= n => F[k] >= 1}
<1>4. 0 \in T
  BY <1>2
<1>5. ASSUME NEW k \in Nat, k \in T PROVE k + 1 \in T
  <2> SUFFICES ASSUME k + 1 <= n PROVE F[k + 1] >= 1
    OBVIOUS
  <2>1. k + 1 \in 0 .. n /\ k + 1 # 0 /\ (k + 1) - 1 = k /\ F[k] >= 1 /\ k \in 0 .. n
    BY <1>5
  <2>2. F[k + 1] = 2 * F[k] /\ F[k] \in Nat
    BY <1>1, <1>2, <2>1
  <2> QED
    BY <2>1, <2>2
<1>6. Nat \subseteq T
  <2> HIDE DEF T
  <2> QED
    BY <1>4, <1>5, SetInduction
<1>7. \A k \in 0 .. n : F[k] >= 1
  BY <1>6
<1>8. \A k \in 1 .. n : F[k] = 2 * F[k - 1]
  BY <1>2, <1>3
<1>9. \A k \in 1 .. n : F[k] >= 2
  <2> SUFFICES ASSUME NEW k \in 1 .. n PROVE F[k] >= 2
    OBVIOUS
  <2>1. F[k] = 2 * F[k - 1] /\ F[k - 1] \in Nat /\ F[k - 1] >= 1
    BY <1>1, <1>3, <1>7, <1>8
  <2> QED
    BY <2>1
<1>10. F[0] = 1 /\ 0 \in 0 .. n
  BY <1>2
<1> QED
  BY <1>1, <1>7, <1>8, <1>9, <1>10

LEMMA DoublingUnique ==
    ASSUME NEW n \in Nat, NEW m \in 0 .. n,
           NEW E, Doubles(E, m), NEW F, Doubles(F, n)
    PROVE  \A k \in 0 .. m : E[k] = F[k]
<1> DEFINE G(l) == [k \in 1 .. l |-> [x \in Nat |-> 2 * x]]
<1>1. Iterates(E, 1, G(m), m) /\ Iterates(F, 1, G(n), n)
  <2>1. m \in Nat
    OBVIOUS
  <2>2. Iterates(E, 1, [k \in 1 .. m |-> [x \in Nat |-> 2 * x]], m)
    BY <2>1, DoublingIterates
  <2>3. Iterates(F, 1, [k \in 1 .. n |-> [x \in Nat |-> 2 * x]], n)
    BY DoublingIterates
  <2> QED
    BY <2>2, <2>3
<1>2. \A k \in 1 .. m : G(m)[k] = G(n)[k]
  OBVIOUS
<1> HIDE DEF G
<1> QED
  BY <1>1, <1>2, IterationUnique
====================================================================================
