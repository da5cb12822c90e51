----------------------------- MODULE OfferProofs -----------------------------
(***************************************************************************)
(* The arithmetic of one offer, for every offer, every demand of the nodes *)
(* and every number of them: no group is overdrawn, nothing is given twice *)
(* or lost, no port is given to two nodes, the ranges sent to Mesos are    *)
(* the ports taken, and the master can perform every answer.               *)
(***************************************************************************)
EXTENDS OfferHelper, FiniteSetTheorems, SequenceTheorems, TLAPS

-----------------------------------------------------------------------------
(* The sum of an amount over a finite set. Facts about it are proved from a *)
(* set without a smaller one for which they fail.                           *)

\* Among sets of nodes there is one that has no other as a subset.
LEMMA SmallestSet ==
    ASSUME NEW N, IsFiniteSet(N), NEW Bad, Bad \subseteq SUBSET N, Bad # {}
    PROVE  \E T \in Bad : \A U \in Bad : U \subseteq T => U = T
  <1>1. IsWellFoundedOn(StrictSubsetOrdering(N), SUBSET N)
    BY FS_StrictSubsetOrderingWellFounded, FS_FiniteSubsetsOfFinite
  <1>2. PICK T \in Bad : \A U \in Bad : ~(<<U, T>> \in StrictSubsetOrdering(N))
    BY <1>1, WFMin
  <1>3. \A U \in Bad : U \subseteq T => U = T
    BY <1>2 DEF StrictSubsetOrdering
  <1>. QED
    BY <1>3

\* The element that the fold takes from a set next.
Pick(s) == CHOOSE x \in s : TRUE

\* g is a sum on the subsets of T, the way the fold computes it.
IsSum(g, T, amount) ==
    g = [s \in SUBSET T |-> IF s = {} THEN 0 ELSE amount[Pick(s)] + g[s \ {Pick(s)}]]

\* Total() is the value of some function that is a sum, if there is one.
LEMMA TotalIsSum ==
    ASSUME NEW T, NEW amount
    PROVE  Total(T, amount) = (CHOOSE g : IsSum(g, T, amount))[T]
  BY DEF Total, SumFunctionOnSet, FoldFunctionOnSet, MapThenFoldSet, IsSum, Pick

\* A sum on the subsets of a set, element by element.
Adds(g, T, amount) ==
    /\ g[{}] = 0
    /\ \A s \in SUBSET T : s # {} => /\ Pick(s) \in s
                                     /\ s \ {Pick(s)} \in SUBSET T
                                     /\ g[s] = amount[Pick(s)] + g[s \ {Pick(s)}]

\* The fold adds one element after the other.
LEMMA SumStep ==
    ASSUME NEW T, NEW amount, NEW g, IsSum(g, T, amount)
    PROVE  Adds(g, T, amount)
  <1>1. \A s \in SUBSET T : s # {} => Pick(s) \in s /\ s \ {Pick(s)} \in SUBSET T
    BY DEF Pick
  <1>2. \A s \in SUBSET T : g[s] = IF s = {} THEN 0 ELSE amount[Pick(s)] + g[s \ {Pick(s)}]
    BY DEF IsSum
  <1>. QED
    BY <1>1, <1>2 DEF Adds

\* There is at most one.
LEMMA SumUnique ==
    ASSUME NEW T, IsFiniteSet(T), NEW amount,
           NEW g, IsSum(g, T, amount), NEW h, IsSum(h, T, amount)
    PROVE  g = h
  <1>. DEFINE Bad == {s \in SUBSET T : g[s] # h[s]}
  <1>. Adds(g, T, amount) /\ Adds(h, T, amount)
    BY SumStep
  <1>1. ASSUME Bad # {} PROVE FALSE
    <2>. Bad \subseteq SUBSET T
      OBVIOUS
    <2>1. PICK s \in Bad : \A U \in Bad : U \subseteq s => U = s
      <3>. HIDE DEF Bad
      <3>. QED
        BY <1>1, SmallestSet
    <2>2. s # {}
      BY <2>1 DEF Adds
    <2>3. s \ {Pick(s)} \notin Bad
      BY <2>1, <2>2 DEF Adds
    <2>. QED
      BY <2>1, <2>2, <2>3 DEF Adds
  <1>2. g = [s \in SUBSET T |-> g[s]] /\ h = [s \in SUBSET T |-> h[s]]
    BY DEF IsSum
  <1>3. [s \in SUBSET T |-> g[s]] = [s \in SUBSET T |-> h[s]]
    BY <1>1
  <1>. QED
    BY <1>2, <1>3

\* A sum on the subsets of T is one on those of a smaller set.
LEMMA SumRestricted ==
    ASSUME NEW T, NEW U \in SUBSET T, NEW amount, NEW g, IsSum(g, T, amount)
    PROVE  IsSum(Restrict(g, SUBSET U), U, amount)
  <1>. DEFINE h == Restrict(g, SUBSET U)
  <1>. Adds(g, T, amount)
    BY SumStep
  <1>. USE DEF Restrict
  <1>1. ASSUME NEW s \in SUBSET U, s # {}
        PROVE  h[s] = amount[Pick(s)] + h[s \ {Pick(s)}]
    <2>1. s \in SUBSET T /\ s \ {Pick(s)} \in SUBSET U
      OBVIOUS
    <2>2. g[s] = amount[Pick(s)] + g[s \ {Pick(s)}]
      BY <1>1, <2>1 DEF Adds
    <2>. QED
      BY <2>1, <2>2
  <1>2. h[{}] = 0
    BY DEF Adds
  <1>3. h = [s \in SUBSET U |-> h[s]]
    OBVIOUS
  <1>4. h = [s \in SUBSET U |-> IF s = {} THEN 0 ELSE amount[Pick(s)] + h[s \ {Pick(s)}]]
    BY <1>1, <1>2, <1>3
  <1>. QED
    BY <1>4 DEF IsSum

\* Sums on the subsets of different sets agree.
LEMMA SumAgrees ==
    ASSUME NEW T, IsFiniteSet(T), NEW U \in SUBSET T, NEW amount,
           NEW g, IsSum(g, T, amount), NEW h, IsSum(h, U, amount)
    PROVE  g[U] = h[U]
  <1>1. IsSum(Restrict(g, SUBSET U), U, amount)
    BY SumRestricted
  <1>2. Restrict(g, SUBSET U) = h
    BY <1>1, SumUnique, FS_Subset
  <1>3. Restrict(g, SUBSET U)[U] = g[U]
    BY DEF Restrict
  <1>. QED
    BY <1>2, <1>3

\* There is one: that of a smallest set without one could be put together from
\* those of its subsets.
LEMMA SumExists ==
    ASSUME NEW N, IsFiniteSet(N), NEW amount
    PROVE  \A T \in SUBSET N : \E g : IsSum(g, T, amount)
  <1>. DEFINE Bad == {T \in SUBSET N : ~\E g : IsSum(g, T, amount)}
              G(s) == CHOOSE g : IsSum(g, s, amount)
  <1>1. ASSUME Bad # {} PROVE FALSE
    <2>. Bad \subseteq SUBSET N
      OBVIOUS
    <2>1. PICK T \in Bad : \A U \in Bad : U \subseteq T => U = T
      <3>. HIDE DEF Bad
      <3>. QED
        BY <1>1, SmallestSet
    <2>2. \A s \in SUBSET T : s # T => IsSum(G(s), s, amount)
      BY <2>1
    <2>3. \A s \in SUBSET T : IsFiniteSet(s)
      BY <2>1, FS_Subset
    <2>4. ASSUME NEW s \in SUBSET T, s # T, NEW u \in SUBSET s
          PROVE  G(s)[u] = G(u)[u]
      <3>1. IsSum(G(s), s, amount) /\ IsSum(G(u), u, amount)
        BY <2>2, <2>4
      <3>. HIDE DEF G
      <3>. QED
        BY <2>3, <3>1, SumAgrees
    <2>. DEFINE f == [s \in SUBSET T |-> IF s = {} THEN 0 ELSE amount[Pick(s)] + G(s \ {Pick(s)})[s \ {Pick(s)}]]
    <2>5. ASSUME NEW s \in SUBSET T, s # {}
          PROVE  f[s \ {Pick(s)}] = G(s \ {Pick(s)})[s \ {Pick(s)}]
      <3>. DEFINE u == s \ {Pick(s)}
      <3>1. u \in SUBSET T /\ u # T
        BY <2>5 DEF Pick
      <3>2. IsSum(G(u), u, amount)
        BY <2>2, <3>1
      <3>3. CASE u = {}
        <4>1. Adds(G(u), u, amount)
          BY <3>2, SumStep
        <4>. QED
          BY <4>1, <3>3 DEF Adds
      <3>4. CASE u # {}
        <4>1. Pick(u) \in u /\ u \ {Pick(u)} \in SUBSET u
          BY <3>4 DEF Pick
        <4>2. G(u)[u] = amount[Pick(u)] + G(u)[u \ {Pick(u)}]
          <5>1. Adds(G(u), u, amount)
            BY <3>2, SumStep
          <5>. HIDE DEF G, u
          <5>. QED
            BY <5>1, <3>4 DEF Adds
        <4>3. G(u)[u \ {Pick(u)}] = G(u \ {Pick(u)})[u \ {Pick(u)}]
          BY <4>1, <3>1, <2>4
        <4>4. f[u] = amount[Pick(u)] + G(u \ {Pick(u)})[u \ {Pick(u)}]
          BY <3>1, <3>4
        <4>. QED
          BY <4>2, <4>3, <4>4
      <3>. QED
        BY <3>3, <3>4
    <2>6. f = [s \in SUBSET T |-> IF s = {} THEN 0 ELSE amount[Pick(s)] + f[s \ {Pick(s)}]]
      <3>. HIDE DEF G
      <3>. QED
        BY <2>5
    <2>7. IsSum(f, T, amount)
      BY <2>6 DEF IsSum
    <2>. QED
      BY <2>1, <2>7
  <1>. QED
    BY <1>1

\* Total() adds one element after the other.
LEMMA TotalStep ==
    ASSUME NEW N, IsFiniteSet(N), NEW amount
    PROVE  /\ Total({}, amount) = 0
           /\ \A s \in SUBSET N : s # {} =>
                 /\ Pick(s) \in s
                 /\ Total(s, amount) = amount[Pick(s)] + Total(s \ {Pick(s)}, amount)
  <1>. DEFINE G(s) == CHOOSE g : IsSum(g, s, amount)
  <1>1. \A s \in SUBSET N : IsSum(G(s), s, amount) /\ IsFiniteSet(s)
    BY SumExists, FS_Subset
  <1>2. \A s : Total(s, amount) = G(s)[s]
    BY TotalIsSum
  <1>. HIDE DEF G
  <1>3. Total({}, amount) = 0
    <2>1. Adds(G({}), {}, amount)
      BY <1>1, SumStep
    <2>. QED
      BY <1>2, <2>1 DEF Adds
  <1>4. ASSUME NEW s \in SUBSET N, s # {}
        PROVE  Pick(s) \in s /\ Total(s, amount) = amount[Pick(s)] + Total(s \ {Pick(s)}, amount)
    <2>. DEFINE u == s \ {Pick(s)}
    <2>1. u \in SUBSET s /\ u \in SUBSET N
      OBVIOUS
    <2>2. Adds(G(s), s, amount)
      BY <1>1, SumStep
    <2>3. Pick(s) \in s /\ G(s)[s] = amount[Pick(s)] + G(s)[u]
      BY <2>2, <1>4 DEF Adds
    <2>4. G(s)[u] = G(u)[u]
      <3>. HIDE DEF u
      <3>. QED
        BY <1>1, <2>1, SumAgrees
    <2>. QED
      BY <1>2, <2>3, <2>4
  <1>. QED
    BY <1>3, <1>4

\* The sum of natural numbers is one.
LEMMA TotalNat ==
    ASSUME NEW N, IsFiniteSet(N), NEW amount \in [N -> Nat]
    PROVE  \A s \in SUBSET N : Total(s, amount) \in Nat
  <1>. DEFINE Bad == {s \in SUBSET N : Total(s, amount) \notin Nat}
  <1>1. ASSUME Bad # {} PROVE FALSE
    <2>. Bad \subseteq SUBSET N
      OBVIOUS
    <2>1. PICK s \in Bad : \A U \in Bad : U \subseteq s => U = s
      <3>. HIDE DEF Bad
      <3>. QED
        BY <1>1, SmallestSet
    <2>2. s # {}
      <3>1. Total({}, amount) = 0
        BY TotalStep
      <3>. QED
        BY <2>1, <3>1
    <2>3. Pick(s) \in s /\ Total(s, amount) = amount[Pick(s)] + Total(s \ {Pick(s)}, amount)
      BY <2>2, TotalStep
    <2>4. Total(s \ {Pick(s)}, amount) \in Nat
      BY <2>1, <2>3
    <2>. QED
      BY <2>1, <2>3, <2>4
  <1>. QED
    BY <1>1

\* One more element adds its amount, whichever the fold would have taken next.
LEMMA TotalRemove ==
    ASSUME NEW N, IsFiniteSet(N), NEW amount \in [N -> Nat]
    PROVE  \A s \in SUBSET N : \A x \in s : Total(s, amount) = Total(s \ {x}, amount) + amount[x]
  <1>. DEFINE Fine(s) == \A x \in s : Total(s, amount) = Total(s \ {x}, amount) + amount[x]
              Bad == {s \in SUBSET N : ~Fine(s)}
  <1>1. ASSUME Bad # {} PROVE FALSE
    <2>. Bad \subseteq SUBSET N
      OBVIOUS
    <2>1. PICK s \in Bad : \A U \in Bad : U \subseteq s => U = s
      <3>. HIDE DEF Bad
      <3>. QED
        BY <1>1, SmallestSet
    <2>2. PICK x \in s : Total(s, amount) # Total(s \ {x}, amount) + amount[x]
      BY <2>1
    <2>. DEFINE y == Pick(s)
    <2>3. y \in s /\ Total(s, amount) = amount[y] + Total(s \ {y}, amount)
      BY <2>2, TotalStep
    <2>4. Total(s \ {y}, amount) \in Nat /\ Total((s \ {y}) \ {x}, amount) \in Nat /\ amount[x] \in Nat /\ amount[y] \in Nat
      BY <2>3, TotalNat
    <2>5. x # y
      BY <2>2, <2>3, <2>4
    <2>6. Fine(s \ {x}) /\ Fine(s \ {y})
      BY <2>1, <2>3
    <2>7. Total(s \ {y}, amount) = Total((s \ {y}) \ {x}, amount) + amount[x]
      BY <2>5, <2>6
    <2>8. Total(s \ {x}, amount) = Total((s \ {x}) \ {y}, amount) + amount[y]
      BY <2>3, <2>5, <2>6
    <2>9. (s \ {x}) \ {y} = (s \ {y}) \ {x}
      OBVIOUS
    <2>. HIDE DEF y
    <2>. QED
      BY <2>2, <2>3, <2>4, <2>7, <2>8, <2>9
  <1>. QED
    BY <1>1

\* One more node adds what it asks for.
LEMMA TotalAdd ==
    ASSUME NEW N, IsFiniteSet(N), NEW amount \in [N -> Nat], NEW s \in SUBSET N, NEW x \in N, x \notin s
    PROVE  /\ Total(s \union {x}, amount) = Total(s, amount) + amount[x]
           /\ Total(s, amount) \in Nat
  <1>1. (s \union {x}) \ {x} = s /\ s \union {x} \in SUBSET N
    OBVIOUS
  <1>2. Total(s \union {x}, amount) = Total((s \union {x}) \ {x}, amount) + amount[x]
    BY <1>1, TotalRemove
  <1>. QED
    BY <1>1, <1>2, TotalNat

-----------------------------------------------------------------------------
(* The fold of a sequence. That there is one, and that it goes from the    *)
(* first element to the last, is proved from a smallest number of elements *)
(* for which it is not so.                                                 *)

\* A set of natural numbers has a smallest.
LEMMA SmallestNat ==
    ASSUME NEW Bad, Bad \subseteq Nat, Bad # {}
    PROVE  \E n \in Bad : \A m \in Bad : n <= m
  <1>1. PICK n \in Bad : \A m \in Bad : ~(<<m, n>> \in OpToRel(<, Nat))
    BY NatLessThanWellFounded, WFMin
  <1>2. \A m \in Bad : ~(m < n)
    BY <1>1 DEF OpToRel
  <1>. QED
    BY <1>2

\* A set of positions has a last.
LEMMA LastPosition ==
    ASSUME NEW n \in Nat, NEW s \in SUBSET (1 .. n), s # {}
    PROVE  Max(s) \in s /\ \A i \in s : i <= Max(s)
  <1>. DEFINE back == {n - i : i \in s}
  <1>1. back \subseteq Nat /\ back # {}
    <2>1. \A i \in s : n - i \in Nat
      OBVIOUS
    <2>2. PICK i \in s : TRUE
      OBVIOUS
    <2>3. n - i \in back
      OBVIOUS
    <2>. QED
      BY <2>1, <2>3
  <1>2. PICK b \in back : \A c \in back : b <= c
    <2>. HIDE DEF back
    <2>. QED
      BY <1>1, SmallestNat
  <1>3. PICK x \in s : b = n - x
    BY <1>2
  <1>4. \A y \in s : n - y \in back
    OBVIOUS
  <1>5. ASSUME NEW y \in s PROVE x >= y
    <2>1. b <= n - y
      BY <1>2, <1>4
    <2>. QED
      BY <1>3, <2>1
  <1>6. \E z \in s : \A y \in s : z >= y
    BY <1>5
  <1>7. Max(s) \in s /\ \A y \in s : Max(s) >= y
    BY <1>6 DEF Max
  <1>. QED
    BY <1>7

\* A fold over the first n positions, the way FoldLeft computes it.
IsFold(it, n, base, step) ==
    /\ it[{}] = base
    /\ \A s \in SUBSET (1 .. n) : s # {} => it[s] = step[<<Max(s), it[s \ {Max(s)}]>>]

\* There is one, for any number of positions.
LEMMA FoldExists ==
    ASSUME NEW N \in Nat, NEW A, NEW base \in A, NEW step \in [(1 .. N) \X A -> A]
    PROVE  \E it \in [SUBSET (1 .. N) -> A] : IsFold(it, N, base, step)
  <1>. DEFINE Good(n) == \E it \in [SUBSET (1 .. n) -> A] : IsFold(it, n, base, step)
              Bad == {n \in 0 .. N : ~Good(n)}
  <1>1. ASSUME Bad # {} PROVE FALSE
    <2>1. Bad \subseteq Nat
      OBVIOUS
    <2>2. \E n \in Bad : \A m \in Bad : n <= m
      <3>. HIDE DEF Bad
      <3>. QED
        BY <1>1, <2>1, SmallestNat
    <2>. HIDE DEF Good
    <2>3. PICK n \in 0 .. N : ~Good(n) /\ \A m \in 0 .. N : ~Good(m) => n <= m
      BY <2>2
    <2>4. CASE n = 0
      <3>. DEFINE it == [s \in SUBSET (1 .. 0) |-> base]
      <3>1. 1 .. 0 = {}
        OBVIOUS
      <3>2. it \in [SUBSET (1 .. 0) -> A] /\ it[{}] = base /\ \A s \in SUBSET (1 .. 0) : s = {}
        BY <3>1
      <3>3. IsFold(it, 0, base, step)
        BY <3>2 DEF IsFold
      <3>. QED
        BY <2>3, <2>4, <3>2, <3>3 DEF Good
    <2>5. CASE n # 0
      <3>1. n \in 1 .. N /\ n - 1 \in 0 .. N /\ ~(n <= n - 1)
        BY <2>3, <2>5
      <3>2. Good(n - 1)
        BY <2>3, <3>1
      <3>3. PICK it \in [SUBSET (1 .. (n - 1)) -> A] : IsFold(it, n - 1, base, step)
        BY <3>2 DEF Good
      <3>4. \A s \in SUBSET (1 .. n) : s \ {n} \in SUBSET (1 .. (n - 1)) /\ (n \notin s => s \in SUBSET (1 .. (n - 1)))
        BY <3>1
      <3>. DEFINE more == [s \in SUBSET (1 .. n) |-> IF n \in s THEN step[<<n, it[s \ {n}]>>] ELSE it[s]]
      <3>5. more \in [SUBSET (1 .. n) -> A]
        <4>. SUFFICES ASSUME NEW s \in SUBSET (1 .. n)
                      PROVE  (IF n \in s THEN step[<<n, it[s \ {n}]>>] ELSE it[s]) \in A
          OBVIOUS
        <4>1. it[s \ {n}] \in A /\ (n \notin s => it[s] \in A)
          BY <3>4
        <4>2. <<n, it[s \ {n}]>> \in (1 .. N) \X A
          BY <3>1, <4>1
        <4>. QED
          BY <4>1, <4>2
      <3>6. more[{}] = base
        BY <3>3 DEF IsFold
      <3>7. ASSUME NEW s \in SUBSET (1 .. n), s # {}
            PROVE  more[s] = step[<<Max(s), more[s \ {Max(s)}]>>]
        <4>1. Max(s) \in s /\ Max(s) \in 1 .. n /\ \A i \in s : i <= Max(s)
          <5>1. n \in Nat
            BY <3>1
          <5>. HIDE DEF more
          <5>. QED
            BY <3>7, <5>1, LastPosition
        <4>2. CASE n \in s
          <5>1. Max(s) = n
            BY <3>1, <4>1, <4>2
          <5>2. more[s \ {n}] = it[s \ {n}] /\ more[s] = step[<<n, it[s \ {n}]>>]
            BY <3>4, <4>2
          <5>. QED
            BY <5>1, <5>2
        <4>3. CASE n \notin s
          <5>1. s \in SUBSET (1 .. (n - 1)) /\ s \ {Max(s)} \in SUBSET (1 .. n) /\ n \notin s \ {Max(s)}
            BY <3>4, <4>3
          <5>2. it[s] = step[<<Max(s), it[s \ {Max(s)}]>>]
            BY <3>3, <3>7, <5>1 DEF IsFold
          <5>3. more[s] = it[s] /\ more[s \ {Max(s)}] = it[s \ {Max(s)}]
            BY <4>3, <5>1
          <5>. QED
            BY <5>2, <5>3
        <4>. QED
          BY <4>2, <4>3
      <3>. HIDE DEF more
      <3>8. IsFold(more, n, base, step)
        BY <3>6, <3>7 DEF IsFold
      <3>. QED
        BY <2>3, <3>5, <3>8 DEF Good
    <2>. QED
      BY <2>4, <2>5
  <1>2. Good(N)
    <2>1. N \in 0 .. N
      OBVIOUS
    <2>. HIDE DEF Good
    <2>. QED
      BY <1>1, <2>1
  <1>. QED
    BY <1>2

\* The results of a fold, after each position.
IsRun(h, n, base, step) == h[0] = base /\ \A k \in 1 .. n : h[k] = step[<<k, h[k - 1]>>]

\* A function that folds, as far as its values are known to be in A.
FoldsIn(it, A, n, base, step) ==
    /\ base \in A /\ step \in [(1 .. n) \X A -> A] /\ it[{}] = base
    /\ \A s \in SUBSET (1 .. n) : s # {} /\ it[s \ {Max(s)}] \in A => it[s] = step[<<Max(s), it[s \ {Max(s)}]>>]

\* Whatever function the fold stands for, it goes through the positions in turn.
LEMMA FoldRuns ==
    ASSUME NEW N \in Nat, NEW A, NEW base, NEW step, NEW it, FoldsIn(it, A, N, base, step)
    PROVE  \E h \in [0 .. N -> A] : IsRun(h, N, base, step) /\ h[N] = it[1 .. N]
  <1>. base \in A /\ step \in [(1 .. N) \X A -> A] /\ it[{}] = base
    BY DEF FoldsIn
  <1>1. ASSUME NEW k \in 1 .. N, it[1 .. (k - 1)] \in A
        PROVE  it[1 .. k] = step[<<k, it[1 .. (k - 1)]>>] /\ it[1 .. k] \in A
    <2>1. 1 .. k \in SUBSET (1 .. N) /\ 1 .. k # {} /\ k \in 1 .. k /\ k \in Nat
      OBVIOUS
    <2>2. Max(1 .. k) \in 1 .. k /\ \A i \in 1 .. k : i <= Max(1 .. k)
      BY <2>1, LastPosition
    <2>3. Max(1 .. k) = k
      BY <2>1, <2>2
    <2>4. (1 .. k) \ {k} = 1 .. (k - 1)
      OBVIOUS
    <2>5. it[1 .. k] = step[<<k, it[1 .. (k - 1)]>>]
      BY <1>1, <2>1, <2>3, <2>4 DEF FoldsIn
    <2>. QED
      BY <1>1, <2>5
  <1>2. 1 .. 0 = {}
    OBVIOUS
  <1>. DEFINE Bad == {k \in 0 .. N : it[1 .. k] \notin A}
  <1>3. ASSUME Bad # {} PROVE FALSE
    <2>1. Bad \subseteq Nat
      OBVIOUS
    <2>2. PICK k \in Bad : \A m \in Bad : k <= m
      <3>. HIDE DEF Bad
      <3>. QED
        BY <1>3, <2>1, SmallestNat
    <2>3. k # 0
      BY <1>2, <2>2
    <2>4. k \in 1 .. N /\ k - 1 \in 0 .. N /\ ~(k <= k - 1)
      BY <2>2, <2>3
    <2>5. it[1 .. (k - 1)] \in A
      BY <2>2, <2>4
    <2>. QED
      BY <1>1, <2>2, <2>4, <2>5
  <1>. DEFINE h == [k \in 0 .. N |-> it[1 .. k]]
  <1>4. h \in [0 .. N -> A] /\ h[N] = it[1 .. N] /\ h[0] = base
    BY <1>2, <1>3
  <1>5. ASSUME NEW k \in 1 .. N PROVE h[k] = step[<<k, h[k - 1]>>]
    <2>1. k - 1 \in 0 .. N /\ k \in 0 .. N
      OBVIOUS
    <2>2. it[1 .. (k - 1)] \in A
      BY <1>3, <2>1
    <2>. QED
      BY <1>1, <2>1, <2>2
  <1>. HIDE DEF h
  <1>. QED
    BY <1>4, <1>5 DEF IsRun

\* Two runs begin alike and go on alike.
GoAlike(g, f, m) == g[0] = f[0] /\ \A k \in 1 .. m : g[k - 1] = f[k - 1] => g[k] = f[k]

\* Folds over sequences that begin alike begin alike.
LEMMA RunsAgree ==
    ASSUME NEW m \in Nat, NEW g, NEW f, GoAlike(g, f, m)
    PROVE  g[m] = f[m]
  <1>. g[0] = f[0] /\ \A k \in 1 .. m : g[k - 1] = f[k - 1] => g[k] = f[k]
    BY DEF GoAlike
  <1>. DEFINE Bad == {k \in 0 .. m : g[k] # f[k]}
  <1>1. ASSUME Bad # {} PROVE FALSE
    <2>1. Bad \subseteq Nat
      OBVIOUS
    <2>2. PICK k \in Bad : \A i \in Bad : k <= i
      <3>. HIDE DEF Bad
      <3>. QED
        BY <1>1, <2>1, SmallestNat
    <2>3. k # 0
      BY <2>2
    <2>4. k \in 1 .. m /\ k - 1 \in 0 .. m /\ ~(k <= k - 1)
      BY <2>2, <2>3
    <2>5. g[k - 1] = f[k - 1]
      BY <2>2, <2>4
    <2>. QED
      BY <2>2, <2>4, <2>5
  <1>. QED
    BY <1>1

\* What one resource of an offer adds to an amount.
Adding(r, name, w) == IF r.name = name /\ r.reserved = w THEN r.value ELSE 0

\* it is the fold that getResource() stands for.
IsResourceFold(it, o, name, w) ==
    it = [s \in SUBSET DOMAIN o |->
              IF s = {} THEN 0 ELSE it[s \ {Max(s)}] + Adding(o[Max(s)], name, w)]

\* getResource() adds up the resources of an offer one after the other.
LEMMA ResourceRuns ==
    ASSUME NEW o \in Offers, NEW name, NEW w
    PROVE  /\ Len(o) \in Nat /\ DOMAIN o = 1 .. Len(o)
           /\ \A k \in 1 .. Len(o) : Adding(o[k], name, w) \in Nat
           /\ \E h \in [0 .. Len(o) -> Nat] :
                 /\ h[0] = 0 /\ \A k \in 1 .. Len(o) : h[k] = h[k - 1] + Adding(o[k], name, w)
                 /\ getResource(name, o, w) = h[Len(o)]
  <1>. DEFINE N == Len(o)
              step == [x \in (1 .. N) \X Nat |-> x[2] + Adding(o[x[1]], name, w)]
              iter == CHOOSE it : IsResourceFold(it, o, name, w)
  <1>1. N \in Nat /\ DOMAIN o = 1 .. N /\ \A r \in Range(o) : r.value \in Nat
    BY OfferAssumption
  <1>2. \A k \in 1 .. N : Adding(o[k], name, w) \in Nat
    BY <1>1 DEF Range, Adding
  <1>3. getResource(name, o, w) = iter[1 .. N]
    BY <1>1 DEF getResource, FoldLeft, MapThenFoldSet, IsResourceFold, Adding
  <1>. HIDE DEF N
  <1>4. \A k \in 1 .. N, a \in Nat : step[<<k, a>>] = a + Adding(o[k], name, w)
    OBVIOUS
  <1>5. step \in [(1 .. N) \X Nat -> Nat]
    <2>1. \A x \in (1 .. N) \X Nat : x[2] + Adding(o[x[1]], name, w) \in Nat
      BY <1>2
    <2>. QED
      BY <2>1
  <1>. HIDE DEF step
  <1>6. IsResourceFold(iter, o, name, w)
    <2>1. PICK it \in [SUBSET (1 .. N) -> Nat] : IsFold(it, N, 0, step)
      BY <1>1, <1>5, FoldExists
    <2>2. ASSUME NEW s \in SUBSET (1 .. N), s # {}
          PROVE  it[s] = it[s \ {Max(s)}] + Adding(o[Max(s)], name, w)
      <3>1. Max(s) \in 1 .. N /\ it[s \ {Max(s)}] \in Nat
        BY <1>1, <2>2, LastPosition
      <3>. QED
        BY <1>4, <2>1, <2>2, <3>1 DEF IsFold
    <2>3. it[{}] = 0
      BY <2>1 DEF IsFold
    <2>4. it = [s \in SUBSET (1 .. N) |-> it[s]]
      OBVIOUS
    <2>5. IsResourceFold(it, o, name, w)
      BY <1>1, <2>2, <2>3, <2>4 DEF IsResourceFold
    <2>. QED
      BY <2>5
  <1>. HIDE DEF iter
  <1>7. iter[{}] = 0
    BY <1>6 DEF IsResourceFold
  <1>8. ASSUME NEW s \in SUBSET (1 .. N), s # {}, iter[s \ {Max(s)}] \in Nat
        PROVE  iter[s] = step[<<Max(s), iter[s \ {Max(s)}]>>]
    <2>1. Max(s) \in 1 .. N
      BY <1>1, <1>8, LastPosition
    <2>2. iter[s] = iter[s \ {Max(s)}] + Adding(o[Max(s)], name, w)
      BY <1>1, <1>6, <1>8 DEF IsResourceFold
    <2>. QED
      BY <1>4, <1>8, <2>1, <2>2
  <1>9. PICK h \in [0 .. N -> Nat] : IsRun(h, N, 0, step) /\ h[N] = iter[1 .. N]
    <2>1. FoldsIn(iter, Nat, N, 0, step)
      BY <1>5, <1>7, <1>8 DEF FoldsIn
    <2>. QED
      BY <1>1, <2>1, FoldRuns
  <1>10. \A k \in 1 .. N : h[k] = h[k - 1] + Adding(o[k], name, w)
    <2>. SUFFICES ASSUME NEW k \in 1 .. N PROVE h[k] = h[k - 1] + Adding(o[k], name, w)
      OBVIOUS
    <2>1. k - 1 \in 0 .. N
      BY <1>1
    <2>2. h[k - 1] \in Nat
      BY <2>1
    <2>. QED
      BY <1>4, <1>9, <2>2 DEF IsRun
  <1>. QED
    BY <1>1, <1>2, <1>3, <1>9, <1>10 DEF IsRun, N

-----------------------------------------------------------------------------
(* Sorting, and ranges of ports *)

\* p puts the first n of N positions of s in order, before all others.
Orders(p, s, n, N) ==
    /\ p \in Bijection(1 .. N, 1 .. N)
    /\ \A i \in 1 .. n, j \in 1 .. N : i < j => s[p[i]] <= s[p[j]]

\* The smallest of the others comes next.
LEMMA OrderOneMore ==
    ASSUME NEW N \in Nat, NEW s \in [1 .. N -> Nat], NEW n \in 1 .. N, NEW p, Orders(p, s, n - 1, N)
    PROVE  \E q : Orders(q, s, n, N)
  <1>1. /\ p \in [1 .. N -> 1 .. N] /\ \A i, j \in 1 .. N : p[i] = p[j] => i = j
        /\ \A v \in 1 .. N : \E i \in 1 .. N : p[i] = v
    BY DEF Orders, Bijection, Injection, Surjection, IsInjective
  <1>. DEFINE values == {s[p[m]] : m \in n .. N}
  <1>2. values \subseteq Nat /\ values # {}
    <2>1. \A m \in n .. N : s[p[m]] \in Nat
      <3>1. \A m \in n .. N : m \in 1 .. N
        OBVIOUS
      <3>2. \A m \in 1 .. N : p[m] \in 1 .. N
        BY <1>1
      <3>. QED
        BY <3>1, <3>2
    <2>2. n \in n .. N
      OBVIOUS
    <2>3. s[p[n]] \in values
      BY <2>2
    <2>. QED
      BY <2>1, <2>3
  <1>3. PICK m \in n .. N : \A k \in n .. N : s[p[m]] <= s[p[k]]
    <2>1. PICK v \in values : \A u \in values : v <= u
      <3>. HIDE DEF values
      <3>. QED
        BY <1>2, SmallestNat
    <2>2. PICK m \in n .. N : v = s[p[m]]
      BY <2>1
    <2>3. \A k \in n .. N : s[p[k]] \in values
      OBVIOUS
    <2>. QED
      BY <2>1, <2>2, <2>3
  <1>4. m \in 1 .. N /\ m >= n
    OBVIOUS
  <1>. DEFINE at(i) == IF i = n THEN m ELSE IF i = m THEN n ELSE i
              q == [i \in 1 .. N |-> p[at(i)]]
  <1>5. \A i \in 1 .. N : at(i) \in 1 .. N /\ at(at(i)) = i /\ q[i] = p[at(i)]
    BY <1>4
  <1>6. \A i \in 1 .. N : (i < n => at(i) = i) /\ (i >= n => at(i) >= n)
    BY <1>4
  <1>. HIDE DEF at
  <1>7. q \in Bijection(1 .. N, 1 .. N)
    <2>1. q \in [1 .. N -> 1 .. N]
      BY <1>1, <1>5
    <2>2. ASSUME NEW i \in 1 .. N, NEW j \in 1 .. N, q[i] = q[j] PROVE i = j
      <3>1. at(i) = at(j)
        BY <1>1, <1>5, <2>2
      <3>. QED
        BY <1>5, <3>1
    <2>3. ASSUME NEW v \in 1 .. N PROVE \E i \in 1 .. N : q[i] = v
      <3>1. PICK j \in 1 .. N : p[j] = v
        BY <1>1
      <3>2. at(j) \in 1 .. N /\ q[at(j)] = v
        BY <1>5, <3>1
      <3>. QED
        BY <3>2
    <2>. HIDE DEF q
    <2>4. IsInjective(q)
      BY <2>1, <2>2 DEF IsInjective
    <2>. QED
      BY <2>1, <2>3, <2>4 DEF Bijection, Injection, Surjection
  <1>8. ASSUME NEW i \in 1 .. n, NEW j \in 1 .. N, i < j PROVE s[q[i]] <= s[q[j]]
    <2>1. i \in 1 .. N /\ at(j) \in 1 .. N
      BY <1>5
    <2>2. CASE i < n
      <3>1. at(i) = i /\ i \in 1 .. (n - 1) /\ i < at(j)
        BY <1>6, <1>8, <2>1, <2>2
      <3>2. s[p[i]] <= s[p[at(j)]]
        BY <2>1, <3>1 DEF Orders
      <3>. QED
        BY <1>5, <2>1, <3>1, <3>2
    <2>3. CASE i = n
      <3>1. at(i) = m /\ at(j) \in n .. N
        BY <1>6, <1>8, <2>1, <2>3 DEF at
      <3>2. s[p[m]] <= s[p[at(j)]]
        BY <1>3, <3>1
      <3>. QED
        BY <1>5, <2>1, <3>1, <3>2
    <2>. QED
      BY <2>2, <2>3
  <1>. HIDE DEF q
  <1>9. Orders(q, s, n, N)
    BY <1>7, <1>8 DEF Orders
  <1>. QED
    BY <1>9

\* Every sequence of numbers can be put in order.
LEMMA OrderExists ==
    ASSUME NEW N \in Nat, NEW s \in [1 .. N -> Nat]
    PROVE  \E p : Orders(p, s, N, N)
  <1>. DEFINE Good(n) == \E p : Orders(p, s, n, N)
              Bad == {n \in 0 .. N : ~Good(n)}
  <1>1. Good(0)
    <2>. DEFINE p == [i \in 1 .. N |-> i]
    <2>1. p \in [1 .. N -> 1 .. N] /\ \A i \in 1 .. N : p[i] = i
      OBVIOUS
    <2>. HIDE DEF p
    <2>2. p \in Bijection(1 .. N, 1 .. N)
      BY <2>1 DEF Bijection, Injection, Surjection, IsInjective
    <2>3. Orders(p, s, 0, N)
      BY <2>2 DEF Orders
    <2>. QED
      BY <2>3
  <1>2. \A n \in 1 .. N : Good(n - 1) => Good(n)
    BY OrderOneMore
  <1>. HIDE DEF Good
  <1>3. ASSUME Bad # {} PROVE FALSE
    <2>1. Bad \subseteq Nat
      OBVIOUS
    <2>2. \E n \in Bad : \A m \in Bad : n <= m
      <3>. HIDE DEF Bad
      <3>. QED
        BY <1>3, <2>1, SmallestNat
    <2>3. PICK n \in 0 .. N : ~Good(n) /\ \A m \in 0 .. N : ~Good(m) => n <= m
      BY <2>2
    <2>4. n # 0
      BY <1>1, <2>3
    <2>5. n \in 1 .. N /\ n - 1 \in 0 .. N /\ ~(n <= n - 1)
      BY <2>3, <2>4
    <2>. QED
      BY <1>2, <2>3, <2>5
  <1>4. N \in 0 .. N
    OBVIOUS
  <1>. QED
    BY <1>3, <1>4 DEF Good

\* Sorted() keeps the ports and puts them in order, each before the greater ones.
LEMMA SortedPorts ==
    ASSUME NEW ports \in Seq(Nat), IsInjective(ports)
    PROVE  /\ Sorted(ports) \in Seq(Nat) /\ Len(Sorted(ports)) = Len(ports)
           /\ \A i \in 1 .. Len(ports) : Sorted(ports)[i] \in Range(ports)
           /\ \A i, j \in 1 .. Len(ports) : i < j => Sorted(ports)[i] < Sorted(ports)[j]
  <1>. DEFINE N == Len(ports)
              InOrder(p) == \A i, j \in 1 .. N : i < j => ports[p[i]] <= ports[p[j]]
              order == CHOOSE p \in Bijection(1 .. N, 1 .. N) : InOrder(p)
              sorted == [i \in 1 .. N |-> ports[order[i]]]
  <1>1. N \in Nat /\ ports \in [1 .. N -> Nat] /\ DOMAIN ports = 1 .. N
    BY LenProperties
  <1>2. Sorted(ports) = sorted
    BY <1>1 DEF Sorted
  <1>. HIDE DEF N
  <1>3. \E p \in Bijection(1 .. N, 1 .. N) : InOrder(p)
    BY <1>1, OrderExists DEF Orders
  <1>4. order \in Bijection(1 .. N, 1 .. N) /\ InOrder(order)
    BY <1>3
  <1>. HIDE DEF order
  <1>5. order \in [1 .. N -> 1 .. N] /\ \A i, j \in 1 .. N : order[i] = order[j] => i = j
    BY <1>4 DEF Bijection, Injection, IsInjective
  <1>6. \A i \in 1 .. N : sorted[i] = ports[order[i]] /\ order[i] \in 1 .. N
    BY <1>5
  <1>7. sorted \in [1 .. N -> Nat]
    BY <1>1, <1>5
  <1>8. sorted \in Seq(Nat) /\ Len(sorted) = N
    <2>1. sorted \in Seq(Nat)
      BY <1>1, <1>7, SeqDef
    <2>2. DOMAIN sorted = 1 .. N /\ DOMAIN sorted = 1 .. Len(sorted) /\ Len(sorted) \in Nat
      BY <1>7, <2>1, LenProperties
    <2>. QED
      BY <1>1, <2>1, <2>2
  <1>. HIDE DEF sorted
  <1>9. \A i \in 1 .. N : sorted[i] \in Range(ports)
    BY <1>1, <1>6 DEF Range
  <1>10. ASSUME NEW i \in 1 .. N, NEW j \in 1 .. N, i < j PROVE sorted[i] < sorted[j]
    <2>1. ports[order[i]] <= ports[order[j]] /\ i # j
      BY <1>4, <1>10
    <2>2. order[i] # order[j]
      BY <1>5, <2>1
    <2>3. ports[order[i]] # ports[order[j]]
      BY <1>1, <1>6, <2>2 DEF IsInjective
    <2>4. ports[order[i]] \in Nat /\ ports[order[j]] \in Nat
      BY <1>1, <1>6
    <2>. QED
      BY <1>6, <2>1, <2>3, <2>4
  <1>. QED
    BY <1>2, <1>8, <1>9, <1>10 DEF N

\* Ranges of ports, from the first to the last, and the ports of one.
Spans == {r \in Nat \X Nat : r[1] <= r[2]}
PortsOf(r) == [i \in 1 .. (r[2] - r[1] + 1) |-> r[1] + i - 1]

\* The ports of a range, one more than the difference of its ends.
LEMMA PortsOfSpan ==
    ASSUME NEW a \in Nat, NEW b \in Nat, a <= b
    PROVE  /\ <<a, b>> \in Spans
           /\ PortsOf(<<a, b>>) \in Seq(Nat) /\ Len(PortsOf(<<a, b>>)) = b - a + 1
           /\ \A i \in 1 .. (b - a + 1) : PortsOf(<<a, b>>)[i] = a + i - 1
  <1>. DEFINE n == b - a + 1
              ports == [i \in 1 .. n |-> a + i - 1]
  <1>1. n \in Nat /\ PortsOf(<<a, b>>) = ports /\ <<a, b>> \in Spans
    BY DEF PortsOf, Spans
  <1>2. \A i \in 1 .. n : a + i - 1 \in Nat
    OBVIOUS
  <1>. HIDE DEF n
  <1>3. ports \in [1 .. n -> Nat] /\ \A i \in 1 .. n : ports[i] = a + i - 1
    BY <1>2
  <1>. HIDE DEF ports
  <1>4. ports \in Seq(Nat)
    BY <1>1, <1>3, SeqDef
  <1>5. DOMAIN ports = 1 .. n /\ DOMAIN ports = 1 .. Len(ports) /\ Len(ports) \in Nat
    BY <1>3, <1>4, LenProperties
  <1>6. Len(ports) = n
    BY <1>1, <1>5
  <1>. QED
    BY <1>1, <1>3, <1>4, <1>6 DEF n

\* The same for a range that is not taken apart.
LEMMA PortsOfType ==
    ASSUME NEW r \in Spans
    PROVE  PortsOf(r) \in Seq(Nat)
  <1>1. r \in Nat \X Nat /\ r[1] <= r[2]
    BY DEF Spans
  <1>2. PICK a \in Nat, b \in Nat : r = <<a, b>>
    BY <1>1
  <1>3. a <= b
    BY <1>1, <1>2
  <1>. QED
    BY <1>2, <1>3, PortsOfSpan

\* One port more, at the end of a range.
LEMMA PortsOfLonger ==
    ASSUME NEW a \in Nat, NEW b \in Nat, a <= b
    PROVE  PortsOf(<<a, b + 1>>) = Append(PortsOf(<<a, b>>), b + 1)
  <1>. DEFINE long == PortsOf(<<a, b + 1>>)
              short == PortsOf(<<a, b>>)
  <1>1. b + 1 \in Nat /\ a <= b + 1
    OBVIOUS
  <1>2. long \in Seq(Nat) /\ Len(long) = (b + 1) - a + 1 /\ \A i \in 1 .. ((b + 1) - a + 1) : long[i] = a + i - 1
    BY <1>1, PortsOfSpan
  <1>3. short \in Seq(Nat) /\ Len(short) = b - a + 1 /\ \A i \in 1 .. (b - a + 1) : short[i] = a + i - 1
    BY PortsOfSpan
  <1>. HIDE DEF long, short
  <1>4. /\ Append(short, b + 1) \in Seq(Nat) /\ Len(Append(short, b + 1)) = Len(short) + 1
        /\ \A i \in 1 .. Len(short) : Append(short, b + 1)[i] = short[i]
        /\ Append(short, b + 1)[Len(short) + 1] = b + 1
    BY <1>1, <1>3, AppendProperties
  <1>5. Len(long) = Len(short) + 1 /\ Len(short) \in Nat /\ Len(short) = b - a + 1
    BY <1>2, <1>3
  <1>6. ASSUME NEW i \in 1 .. Len(long) PROVE long[i] = Append(short, b + 1)[i]
    <2>1. CASE i = Len(short) + 1
      <3>1. long[i] = b + 1
        BY <1>2, <1>5, <2>1
      <3>. QED
        BY <1>4, <2>1, <3>1
    <2>2. CASE i # Len(short) + 1
      <3>1. i \in 1 .. Len(short)
        BY <1>5, <2>2
      <3>. QED
        BY <1>2, <1>3, <1>4, <1>5, <3>1
    <2>. QED
      BY <2>1, <2>2
  <1>7. long = Append(short, b + 1)
    BY <1>2, <1>4, <1>5, <1>6, SeqEqual
  <1>. QED
    BY <1>7 DEF long, short

\* A range of one port.
LEMMA PortsOfOne ==
    ASSUME NEW a \in Nat
    PROVE  PortsOf(<<a, a>>) = <<a>>
  <1>. DEFINE ports == PortsOf(<<a, a>>)
  <1>0. a <= a
    OBVIOUS
  <1>1. ports \in Seq(Nat) /\ Len(ports) = a - a + 1 /\ \A i \in 1 .. (a - a + 1) : ports[i] = a + i - 1
    BY <1>0, PortsOfSpan
  <1>. HIDE DEF ports
  <1>2. Len(ports) = 1 /\ ports[1] = a
    BY <1>1
  <1>3. <<a>> \in Seq(Nat) /\ Len(<<a>>) = 1 /\ <<a>>[1] = a
    OBVIOUS
  <1>4. \A i \in 1 .. Len(ports) : ports[i] = <<a>>[i]
    BY <1>2
  <1>5. ports = <<a>>
    BY <1>1, <1>2, <1>3, <1>4, SeqEqual
  <1>. QED
    BY <1>5 DEF ports

\* it is the fold that RangesToArray() stands for.
IsArrayFold(it, R) ==
    it = [s \in SUBSET DOMAIN R |-> IF s = {} THEN <<>> ELSE it[s \ {Max(s)}] \o PortsOf(R[Max(s)])]

\* RangesToArray() puts the ports of one range behind those of the others.
LEMMA ArrayRuns ==
    ASSUME NEW R \in Seq(Spans)
    PROVE  \E h \in [0 .. Len(R) -> Seq(Nat)] :
              /\ h[0] = <<>> /\ \A k \in 1 .. Len(R) : h[k] = h[k - 1] \o PortsOf(R[k])
              /\ RangesToArray(R) = h[Len(R)]
  <1>. DEFINE N == Len(R)
              A == Seq(Nat)
              step == [x \in (1 .. N) \X A |-> x[2] \o PortsOf(R[x[1]])]
              iter == CHOOSE it : IsArrayFold(it, R)
  <1>1. N \in Nat /\ DOMAIN R = 1 .. N /\ \A k \in 1 .. N : R[k] \in Spans
    BY LenProperties, ElementOfSeq
  <1>2. <<>> \in A /\ \A a \in A, b \in A : a \o b \in A
    BY EmptySeq, ConcatProperties
  <1>3. \A k \in 1 .. N : PortsOf(R[k]) \in A
    BY <1>1, PortsOfType
  <1>4. RangesToArray(R) = iter[1 .. N]
    BY <1>1 DEF RangesToArray, FoldLeft, MapThenFoldSet, IsArrayFold, PortsOf
  <1>. HIDE DEF N, A
  <1>5. \A k \in 1 .. N, a \in A : step[<<k, a>>] = a \o PortsOf(R[k])
    OBVIOUS
  <1>6. step \in [(1 .. N) \X A -> A]
    <2>1. \A x \in (1 .. N) \X A : x[2] \o PortsOf(R[x[1]]) \in A
      BY <1>2, <1>3
    <2>. QED
      BY <2>1
  <1>. HIDE DEF step
  <1>7. IsArrayFold(iter, R)
    <2>1. PICK it \in [SUBSET (1 .. N) -> A] : IsFold(it, N, <<>>, step)
      BY <1>1, <1>2, <1>6, FoldExists
    <2>2. ASSUME NEW s \in SUBSET (1 .. N), s # {}
          PROVE  it[s] = it[s \ {Max(s)}] \o PortsOf(R[Max(s)])
      <3>1. Max(s) \in 1 .. N /\ it[s \ {Max(s)}] \in A
        BY <1>1, <2>2, LastPosition
      <3>. QED
        BY <1>5, <2>1, <2>2, <3>1 DEF IsFold
    <2>3. it[{}] = <<>> /\ it = [s \in SUBSET (1 .. N) |-> it[s]]
      BY <2>1 DEF IsFold
    <2>4. IsArrayFold(it, R)
      BY <1>1, <2>2, <2>3 DEF IsArrayFold
    <2>. QED
      BY <2>4
  <1>. HIDE DEF iter
  <1>8. iter[{}] = <<>>
    BY <1>7 DEF IsArrayFold
  <1>9. ASSUME NEW s \in SUBSET (1 .. N), s # {}, iter[s \ {Max(s)}] \in A
        PROVE  iter[s] = step[<<Max(s), iter[s \ {Max(s)}]>>]
    <2>1. Max(s) \in 1 .. N
      BY <1>1, <1>9, LastPosition
    <2>2. iter[s] = iter[s \ {Max(s)}] \o PortsOf(R[Max(s)])
      BY <1>1, <1>7, <1>9 DEF IsArrayFold
    <2>. QED
      BY <1>5, <1>9, <2>1, <2>2
  <1>10. PICK h \in [0 .. N -> A] : IsRun(h, N, <<>>, step) /\ h[N] = iter[1 .. N]
    <2>1. FoldsIn(iter, A, N, <<>>, step)
      BY <1>2, <1>6, <1>8, <1>9 DEF FoldsIn
    <2>. QED
      BY <1>1, <2>1, FoldRuns
  <1>11. \A k \in 1 .. N : h[k] = h[k - 1] \o PortsOf(R[k])
    <2>. SUFFICES ASSUME NEW k \in 1 .. N PROVE h[k] = h[k - 1] \o PortsOf(R[k])
      OBVIOUS
    <2>1. k - 1 \in 0 .. N
      BY <1>1
    <2>2. h[k - 1] \in A
      BY <2>1
    <2>. QED
      BY <1>5, <1>10, <2>2 DEF IsRun
  <1>. QED
    BY <1>4, <1>10, <1>11 DEF IsRun, N, A

\* So it does for a range that is appended.
LEMMA ArrayAppend ==
    ASSUME NEW R \in Seq(Spans), NEW r \in Spans
    PROVE  RangesToArray(R) \in Seq(Nat) /\ RangesToArray(Append(R, r)) = RangesToArray(R) \o PortsOf(r)
  <1>. DEFINE N == Len(R)
              more == Append(R, r)
  <1>1. N \in Nat /\ more \in Seq(Spans) /\ Len(more) = N + 1 /\ more[N + 1] = r /\ \A i \in 1 .. N : more[i] = R[i]
    BY LenProperties, AppendProperties
  <1>2. PICK h \in [0 .. N -> Seq(Nat)] :
           /\ h[0] = <<>> /\ \A k \in 1 .. N : h[k] = h[k - 1] \o PortsOf(R[k])
           /\ RangesToArray(R) = h[N]
    BY ArrayRuns
  <1>. HIDE DEF N, more
  <1>3. PICK g \in [0 .. (N + 1) -> Seq(Nat)] :
           /\ g[0] = <<>> /\ \A k \in 1 .. (N + 1) : g[k] = g[k - 1] \o PortsOf(more[k])
           /\ RangesToArray(more) = g[N + 1]
    BY <1>1, ArrayRuns
  <1>4. ASSUME NEW k \in 1 .. N, g[k - 1] = h[k - 1] PROVE g[k] = h[k]
    <2>1. k \in 1 .. (N + 1)
      BY <1>1
    <2>. QED
      BY <1>1, <1>2, <1>3, <1>4, <2>1
  <1>5. g[N] = h[N]
    <2>1. GoAlike(g, h, N)
      BY <1>2, <1>3, <1>4 DEF GoAlike
    <2>. QED
      BY <1>1, <2>1, RunsAgree
  <1>6. N + 1 \in 1 .. (N + 1) /\ (N + 1) - 1 = N /\ N \in 0 .. N
    BY <1>1
  <1>7. g[N + 1] = g[N] \o PortsOf(more[N + 1])
    BY <1>3, <1>6
  <1>. QED
    BY <1>1, <1>2, <1>3, <1>5, <1>6, <1>7 DEF more

\* And there is nothing to begin with.
LEMMA ArrayEmpty == RangesToArray(<<>>) = <<>>
  <1>1. <<>> \in Seq(Spans) /\ Len(<<>>) = 0
    BY EmptySeq
  <1>. QED
    BY <1>1, ArrayRuns

\* A port goes into a range of its own, or into the last range.
LEMMA AddPortType ==
    ASSUME NEW R \in Seq(Nat \X Nat), NEW p \in Nat
    PROVE  AddPort(R, p) \in Seq(Nat \X Nat)
  <1>. DEFINE N == Len(R)
  <1>1. N \in Nat /\ R \in [1 .. N -> Nat \X Nat]
    BY LenProperties
  <1>2. <<p, p>> \in Nat \X Nat
    OBVIOUS
  <1>3. Append(R, <<p, p>>) \in Seq(Nat \X Nat)
    BY <1>2, AppendProperties
  <1>4. ASSUME R # <<>> PROVE [R EXCEPT ![N][2] = p] \in Seq(Nat \X Nat)
    <2>1. N \in 1 .. N
      BY <1>1, <1>4, EmptySeq
    <2>0. R[N] \in Nat \X Nat
      BY <1>1, <2>1
    <2>2. PICK x \in Nat, y \in Nat : R[N] = <<x, y>>
      <3>. HIDE DEF N
      <3>. QED
        BY <2>0
    <2>3. [R[N] EXCEPT ![2] = p] = <<x, p>>
      BY <2>2
    <2>4. <<x, p>> \in Nat \X Nat
      OBVIOUS
    <2>. HIDE DEF N
    <2>5. [R EXCEPT ![N][2] = p] \in [1 .. N -> Nat \X Nat]
      BY <1>1, <2>1, <2>3, <2>4
    <2>. QED
      BY <1>1, <2>5, SeqDef
  <1>. QED
    BY <1>3, <1>4 DEF AddPort

\* A port that follows the last one makes the last range longer.
LEMMA AddPortNext ==
    ASSUME NEW F \in Seq(Nat \X Nat), NEW a \in Nat, NEW b \in Nat
    PROVE  AddPort(Append(F, <<a, b>>), b + 1) = Append(F, <<a, b + 1>>)
  <1>. DEFINE N == Len(F) + 1
              R == Append(F, <<a, b>>)
              Q == Append(F, <<a, b + 1>>)
              X == [R EXCEPT ![N][2] = b + 1]
  <1>1. <<a, b>> \in Nat \X Nat /\ <<a, b + 1>> \in Nat \X Nat
    OBVIOUS
  <1>2. Len(F) \in Nat /\ N \in 1 .. N /\ N \in Nat
    BY LenProperties
  <1>3. R \in Seq(Nat \X Nat) /\ R # <<>> /\ Len(R) = N /\ R[N] = <<a, b>> /\ \A i \in 1 .. Len(F) : R[i] = F[i]
    <2>1. R \in Seq(Nat \X Nat) /\ Len(R) = N /\ R[N] = <<a, b>> /\ \A i \in 1 .. Len(F) : R[i] = F[i]
      BY <1>1, AppendProperties
    <2>. QED
      BY <1>2, <2>1, EmptySeq
  <1>4. Q \in Seq(Nat \X Nat) /\ Len(Q) = N /\ Q[N] = <<a, b + 1>> /\ \A i \in 1 .. Len(F) : Q[i] = F[i]
    BY <1>1, AppendProperties
  <1>5. R[Len(R)][2] = b
    BY <1>3
  <1>. HIDE DEF R, Q, N
  <1>6. AddPort(R, b + 1) = X
    BY <1>3, <1>5 DEF AddPort
  <1>7. [R[N] EXCEPT ![2] = b + 1] = <<a, b + 1>>
    BY <1>3
  <1>8. R \in [1 .. N -> Nat \X Nat] /\ Q \in [1 .. N -> Nat \X Nat]
    BY <1>3, <1>4, LenProperties
  <1>9. \A i \in 1 .. N : i # N => i \in 1 .. Len(F)
    BY <1>2 DEF N
  <1>10. X = [i \in 1 .. N |-> IF i = N THEN <<a, b + 1>> ELSE R[i]]
    BY <1>2, <1>7, <1>8
  <1>11. \A i \in 1 .. N : Q[i] = IF i = N THEN <<a, b + 1>> ELSE R[i]
    BY <1>3, <1>4, <1>9
  <1>12. Q = [i \in 1 .. N |-> Q[i]]
    BY <1>8
  <1>13. X = Q
    BY <1>10, <1>11, <1>12
  <1>. QED
    BY <1>6, <1>13 DEF R, Q

\* it is the fold that ArrayToRanges() stands for.
IsPortFold(it, s) ==
    it = [t \in SUBSET DOMAIN s |-> IF t = {} THEN <<>> ELSE AddPort(it[t \ {Max(t)}], s[Max(t)])]

\* ArrayToRanges() takes the sorted ports one after the other.
LEMMA PortRuns ==
    ASSUME NEW s \in Seq(Nat)
    PROVE  \E h \in [0 .. Len(s) -> Seq(Nat \X Nat)] :
              /\ h[0] = <<>> /\ \A k \in 1 .. Len(s) : h[k] = AddPort(h[k - 1], s[k])
              /\ FoldLeft(AddPort, <<>>, s) = h[Len(s)]
  <1>. DEFINE N == Len(s)
              A == Seq(Nat \X Nat)
              step == [x \in (1 .. N) \X A |-> AddPort(x[2], s[x[1]])]
              iter == CHOOSE it : IsPortFold(it, s)
  <1>1. N \in Nat /\ DOMAIN s = 1 .. N /\ \A k \in 1 .. N : s[k] \in Nat
    BY LenProperties, ElementOfSeq
  <1>2. <<>> \in A /\ \A a \in A, p \in Nat : AddPort(a, p) \in A
    BY EmptySeq, AddPortType
  <1>4. FoldLeft(AddPort, <<>>, s) = iter[1 .. N]
    BY <1>1 DEF FoldLeft, MapThenFoldSet, IsPortFold
  <1>. HIDE DEF N, A
  <1>5. \A k \in 1 .. N, a \in A : step[<<k, a>>] = AddPort(a, s[k])
    OBVIOUS
  <1>6. step \in [(1 .. N) \X A -> A]
    <2>1. \A x \in (1 .. N) \X A : AddPort(x[2], s[x[1]]) \in A
      BY <1>1, <1>2
    <2>. QED
      BY <2>1
  <1>. HIDE DEF step
  <1>7. IsPortFold(iter, s)
    <2>1. PICK it \in [SUBSET (1 .. N) -> A] : IsFold(it, N, <<>>, step)
      BY <1>1, <1>2, <1>6, FoldExists
    <2>2. ASSUME NEW t \in SUBSET (1 .. N), t # {}
          PROVE  it[t] = AddPort(it[t \ {Max(t)}], s[Max(t)])
      <3>1. Max(t) \in 1 .. N /\ it[t \ {Max(t)}] \in A
        BY <1>1, <2>2, LastPosition
      <3>. QED
        BY <1>5, <2>1, <2>2, <3>1 DEF IsFold
    <2>3. it[{}] = <<>> /\ it = [t \in SUBSET (1 .. N) |-> it[t]]
      BY <2>1 DEF IsFold
    <2>4. IsPortFold(it, s)
      BY <1>1, <2>2, <2>3 DEF IsPortFold
    <2>. QED
      BY <2>4
  <1>. HIDE DEF iter
  <1>8. iter[{}] = <<>>
    BY <1>7 DEF IsPortFold
  <1>9. ASSUME NEW t \in SUBSET (1 .. N), t # {}, iter[t \ {Max(t)}] \in A
        PROVE  iter[t] = step[<<Max(t), iter[t \ {Max(t)}]>>]
    <2>1. Max(t) \in 1 .. N
      BY <1>1, <1>9, LastPosition
    <2>2. iter[t] = AddPort(iter[t \ {Max(t)}], s[Max(t)])
      BY <1>1, <1>7, <1>9 DEF IsPortFold
    <2>. QED
      BY <1>5, <1>9, <2>1, <2>2
  <1>10. PICK h \in [0 .. N -> A] : IsRun(h, N, <<>>, step) /\ h[N] = iter[1 .. N]
    <2>1. FoldsIn(iter, A, N, <<>>, step)
      BY <1>2, <1>6, <1>8, <1>9 DEF FoldsIn
    <2>. QED
      BY <1>1, <2>1, FoldRuns
  <1>11. \A k \in 1 .. N : h[k] = AddPort(h[k - 1], s[k])
    <2>. SUFFICES ASSUME NEW k \in 1 .. N PROVE h[k] = AddPort(h[k - 1], s[k])
      OBVIOUS
    <2>1. k - 1 \in 0 .. N
      BY <1>1
    <2>2. h[k - 1] \in A
      BY <2>1
    <2>. QED
      BY <1>5, <1>10, <2>2 DEF IsRun
  <1>. QED
    BY <1>4, <1>10, <1>11 DEF IsRun, N, A

\* Between two ranges there is a port that belongs to none.
Gapped(R) == \A i \in 1 .. (Len(R) - 1) : R[i][2] + 1 < R[i + 1][1]

\* R is what ArrayToRanges() has made of the first k ports: ranges that end with
\* the last of these, hold them all in order, and are as few as possible.
Covers(R, s, k) ==
    \E F \in Seq(Spans), a \in Nat :
        /\ a <= s[k] /\ R = Append(F, <<a, s[k]>>)
        /\ RangesToArray(R) = SubSeq(s, 1, k)
        /\ Gapped(R)

\* A port more behind the others is a longer beginning of the ports.
LEMMA SubSeqMore ==
    ASSUME NEW s \in Seq(Nat), NEW k \in 1 .. Len(s)
    PROVE  /\ SubSeq(s, 1, k) = Append(SubSeq(s, 1, k - 1), s[k])
           /\ SubSeq(s, 1, k - 1) \in Seq(Nat) /\ s[k] \in Nat
  <1>1. Len(s) \in Nat /\ k \in 1 .. Len(s) + 1 /\ \A i \in 1 .. Len(s) : s[i] \in Nat
    BY LenProperties, ElementOfSeq
  <1>2. SubSeq(s, 1, k - 1) \in Seq(Nat)
    BY <1>1, SubSeqProperties
  <1>3. SubSeq(s, 1, k) = Append(SubSeq(s, 1, k - 1), s[k])
    BY <1>1, SubSeqRecursiveSecond
  <1>. QED
    BY <1>1, <1>2, <1>3

\* A port appended to a part is appended to the whole.
LEMMA ConcatAppend ==
    ASSUME NEW s \in Seq(Nat), NEW t \in Seq(Nat), NEW x \in Nat
    PROVE  s \o Append(t, x) = Append(s \o t, x) /\ s \o <<x>> = Append(s, x)
  <1>1. <<x>> \in Seq(Nat) /\ s \o t \in Seq(Nat)
    BY ConcatProperties
  <1>2. Append(t, x) = t \o <<x>> /\ Append(s, x) = s \o <<x>>
    BY AppendIsConcat
  <1>3. Append(s \o t, x) = (s \o t) \o <<x>>
    BY <1>1, AppendIsConcat
  <1>4. (s \o t) \o <<x>> = s \o (t \o <<x>>)
    BY <1>1, ConcatAssociative
  <1>. QED
    BY <1>2, <1>3, <1>4

\* The first port opens a range.
LEMMA CoversFirst ==
    ASSUME NEW s \in Seq(Nat), 1 \in 1 .. Len(s)
    PROVE  Covers(AddPort(<<>>, s[1]), s, 1)
  <1>. DEFINE R == Append(<<>>, <<s[1], s[1]>>)
  <1>1. s[1] \in Nat /\ s[1] <= s[1]
    BY SubSeqMore
  <1>2. AddPort(<<>>, s[1]) = R
    BY DEF AddPort
  <1>3. <<s[1], s[1]>> \in Spans /\ PortsOf(<<s[1], s[1]>>) = <<s[1]>>
    BY <1>1, PortsOfSpan, PortsOfOne
  <1>4. <<>> \in Seq(Spans) /\ <<>> \in Seq(Nat)
    BY EmptySeq
  <1>5. RangesToArray(R) = <<>> \o <<s[1]>>
    BY <1>3, <1>4, ArrayAppend, ArrayEmpty
  <1>6. <<>> \o <<s[1]>> = Append(<<>>, s[1])
    BY <1>1, <1>4, ConcatAppend
  <1>7. SubSeq(s, 1, 1) = Append(<<>>, s[1])
    <2>1. SubSeq(s, 1, 1) = Append(SubSeq(s, 1, 1 - 1), s[1])
      BY SubSeqMore
    <2>2. SubSeq(s, 1, 1 - 1) = <<>>
      BY SubSeqEmpty
    <2>. QED
      BY <2>1, <2>2
  <1>8. Len(R) = 1
    BY <1>3, <1>4, AppendProperties
  <1>. HIDE DEF R
  <1>9. Gapped(R)
    BY <1>8 DEF Gapped
  <1>10. RangesToArray(R) = SubSeq(s, 1, 1)
    BY <1>5, <1>6, <1>7
  <1>. QED
    BY <1>1, <1>2, <1>4, <1>9, <1>10 DEF Covers, R

\* One range more.
LEMMA AppendSpan ==
    ASSUME NEW F \in Seq(Spans), NEW r \in Spans
    PROVE  /\ Append(F, r) \in Seq(Spans) /\ Append(F, r) # <<>> /\ Len(F) \in Nat
           /\ Len(Append(F, r)) = Len(F) + 1 /\ Append(F, r)[Len(F) + 1] = r
           /\ \A i \in 1 .. Len(F) : Append(F, r)[i] = F[i]
  BY AppendProperties, LenProperties

\* Ranges are pairs of ports.
LEMMA SpansArePairs ==
    ASSUME NEW F \in Seq(Spans)
    PROVE  F \in Seq(Nat \X Nat)
  <1>. DEFINE P == Nat \X Nat
  <1>1. Spans \subseteq P
    BY DEF Spans
  <1>. HIDE DEF P
  <1>2. Len(F) \in Nat /\ F \in [1 .. Len(F) -> Spans]
    BY LenProperties
  <1>3. F \in [1 .. Len(F) -> P]
    BY <1>1, <1>2
  <1>4. F \in Seq(P)
    BY <1>2, <1>3, SeqDef
  <1>. QED
    BY <1>4 DEF P

\* The next port makes the last range longer, or opens another one behind a gap.
LEMMA CoversNext ==
    ASSUME NEW s \in Seq(Nat), NEW k \in 2 .. Len(s), s[k - 1] < s[k], NEW R, Covers(R, s, k - 1)
    PROVE  Covers(AddPort(R, s[k]), s, k)
  <1>0. PICK F \in Seq(Spans), a \in Nat :
          /\ a <= s[k - 1] /\ R = Append(F, <<a, s[k - 1]>>)
          /\ RangesToArray(R) = SubSeq(s, 1, k - 1)
          /\ Gapped(R)
    BY DEF Covers
  <1>1. Len(s) \in Nat /\ k \in 1 .. Len(s) /\ k - 1 \in 1 .. Len(s)
    BY LenProperties
  <1>2. PICK b \in Nat, p \in Nat : b = s[k - 1] /\ p = s[k]
    BY <1>1, SubSeqMore
  <1>3. a <= b /\ b < p /\ R = Append(F, <<a, b>>)
    BY <1>0, <1>2
  <1>4. SubSeq(s, 1, k) = Append(RangesToArray(R), p)
    BY <1>0, <1>1, <1>2, SubSeqMore
  <1>5. <<a, b>> \in Spans /\ PortsOf(<<a, b>>) \in Seq(Nat)
    BY <1>3, PortsOfSpan
  <1>6. RangesToArray(F) \in Seq(Nat) /\ RangesToArray(R) = RangesToArray(F) \o PortsOf(<<a, b>>)
    BY <1>3, <1>5, ArrayAppend
  <1>7. /\ R \in Seq(Spans) /\ R # <<>> /\ Len(F) \in Nat /\ Len(R) = Len(F) + 1 /\ R[Len(F) + 1] = <<a, b>>
        /\ \A i \in 1 .. Len(F) : R[i] = F[i]
    BY <1>3, <1>5, AppendSpan
  <1>8. CASE p = b + 1
    <2>. DEFINE Q == Append(F, <<a, p>>)
    <2>1. F \in Seq(Nat \X Nat)
      BY SpansArePairs
    <2>2. AddPort(R, p) = Q
      BY <1>3, <1>8, <2>1, AddPortNext
    <2>3. a <= p /\ <<a, p>> \in Spans
      <3>1. a <= p
        BY <1>3
      <3>. QED
        BY <3>1, PortsOfSpan
    <2>4. RangesToArray(Q) = RangesToArray(F) \o PortsOf(<<a, p>>)
      BY <2>3, ArrayAppend
    <2>5. PortsOf(<<a, p>>) = Append(PortsOf(<<a, b>>), p)
      BY <1>3, <1>8, PortsOfLonger
    <2>6. RangesToArray(Q) = SubSeq(s, 1, k)
      <3>1. RangesToArray(F) \o Append(PortsOf(<<a, b>>), p) = Append(RangesToArray(F) \o PortsOf(<<a, b>>), p)
        BY <1>5, <1>6, ConcatAppend
      <3>. QED
        BY <1>4, <1>6, <2>4, <2>5, <3>1
    <2>7. Len(Q) = Len(F) + 1 /\ Q[Len(F) + 1] = <<a, p>> /\ \A i \in 1 .. Len(F) : Q[i] = F[i]
      BY <2>3, AppendSpan
    <2>. HIDE DEF Q
    <2>8. ASSUME NEW i \in 1 .. (Len(Q) - 1) PROVE Q[i][2] + 1 < Q[i + 1][1]
      <3>1. i \in 1 .. Len(F) /\ i \in 1 .. (Len(R) - 1)
        BY <1>7, <2>7
      <3>2. Q[i] = R[i] /\ R[i][2] + 1 < R[i + 1][1]
        BY <1>0, <1>7, <2>7, <3>1 DEF Gapped
      <3>3. Q[i + 1][1] = R[i + 1][1]
        <4>1. CASE i = Len(F)
          BY <1>7, <2>7, <4>1
        <4>2. CASE i # Len(F)
          <5>1. i + 1 \in 1 .. Len(F)
            BY <1>7, <3>1, <4>2
          <5>. QED
            BY <1>7, <2>7, <5>1
        <4>. QED
          BY <4>1, <4>2
      <3>. QED
        BY <3>2, <3>3
    <2>9. Gapped(Q)
      BY <2>8 DEF Gapped
    <2>. QED
      BY <1>2, <2>2, <2>3, <2>6, <2>9 DEF Covers, Q
  <1>9. CASE p # b + 1
    <2>. DEFINE Q == Append(R, <<p, p>>)
    <2>1. R # <<>> /\ R[Len(R)][2] = b
      BY <1>7
    <2>2. AddPort(R, p) = Q
      <3>1. ~(p <= b + 1)
        BY <1>3, <1>9
      <3>. HIDE DEF Q
      <3>2. ~(p <= R[Len(R)][2] + 1)
        BY <2>1, <3>1
      <3>. QED
        BY <3>2 DEF AddPort, Q
    <2>3. p <= p /\ <<p, p>> \in Spans /\ PortsOf(<<p, p>>) = <<p>>
      <3>1. p <= p
        OBVIOUS
      <3>. QED
        BY <3>1, PortsOfSpan, PortsOfOne
    <2>4. RangesToArray(R) \in Seq(Nat) /\ RangesToArray(Q) = RangesToArray(R) \o PortsOf(<<p, p>>)
      BY <1>7, <2>3, ArrayAppend
    <2>5. RangesToArray(Q) = SubSeq(s, 1, k)
      BY <1>4, <2>3, <2>4, ConcatAppend
    <2>6. Len(Q) = Len(R) + 1 /\ Q[Len(R) + 1] = <<p, p>> /\ \A i \in 1 .. Len(R) : Q[i] = R[i]
      BY <1>7, <2>3, AppendSpan
    <2>. HIDE DEF Q
    <2>7. ASSUME NEW i \in 1 .. (Len(Q) - 1) PROVE Q[i][2] + 1 < Q[i + 1][1]
      <3>1. i \in 1 .. Len(R) /\ Q[i] = R[i]
        BY <1>7, <2>6
      <3>2. CASE i = Len(R)
        <4>1. Q[i][2] = b /\ Q[i + 1][1] = p
          BY <1>7, <2>6, <3>1, <3>2
        <4>. QED
          BY <1>3, <1>9, <4>1
      <3>3. CASE i # Len(R)
        <4>1. i + 1 \in 1 .. Len(R) /\ i \in 1 .. (Len(R) - 1)
          BY <1>7, <3>1, <3>3
        <4>. QED
          BY <1>0, <2>6, <3>1, <4>1 DEF Gapped
      <3>. QED
        BY <3>2, <3>3
    <2>8. Gapped(Q)
      BY <2>7 DEF Gapped
    <2>. QED
      BY <1>2, <1>7, <2>2, <2>3, <2>5, <2>8 DEF Covers, Q
  <1>. QED
    BY <1>8, <1>9

\* The ranges made of sorted ports hold these ports, and there is a gap between them.
LEMMA RangesOfSorted ==
    ASSUME NEW s \in Seq(Nat), \A i, j \in 1 .. Len(s) : i < j => s[i] < s[j]
    PROVE  RangesToArray(FoldLeft(AddPort, <<>>, s)) = s /\ Gapped(FoldLeft(AddPort, <<>>, s))
  <1>. DEFINE N == Len(s)
  <1>1. N \in Nat
    BY LenProperties
  <1>2. PICK h \in [0 .. N -> Seq(Nat \X Nat)] :
           /\ h[0] = <<>> /\ \A k \in 1 .. N : h[k] = AddPort(h[k - 1], s[k])
           /\ FoldLeft(AddPort, <<>>, s) = h[N]
    BY PortRuns
  <1>. DEFINE Bad == {k \in 1 .. N : ~Covers(h[k], s, k)}
  <1>3. ASSUME Bad # {} PROVE FALSE
    <2>1. Bad \subseteq Nat
      OBVIOUS
    <2>2. PICK k \in Bad : \A m \in Bad : k <= m
      <3>. HIDE DEF Bad
      <3>. QED
        BY <1>3, <2>1, SmallestNat
    <2>3. k \in 1 .. N /\ ~Covers(h[k], s, k) /\ h[k] = AddPort(h[k - 1], s[k])
      BY <1>2, <2>2
    <2>4. CASE k = 1
      <3>1. 1 \in 1 .. Len(s) /\ h[1] = AddPort(<<>>, s[1])
        BY <1>2, <2>3, <2>4
      <3>. QED
        BY <2>3, <2>4, <3>1, CoversFirst
    <2>5. CASE k # 1
      <3>1. k \in 2 .. N /\ k - 1 \in 1 .. N /\ k - 1 < k /\ ~(k <= k - 1)
        BY <2>3, <2>5
      <3>2. Covers(h[k - 1], s, k - 1)
        BY <2>2, <3>1
      <3>3. s[k - 1] < s[k]
        BY <2>3, <3>1
      <3>. HIDE DEF Bad
      <3>. QED
        BY <2>3, <3>1, <3>2, <3>3, CoversNext
    <2>. QED
      BY <2>4, <2>5
  <1>4. CASE N = 0
    <2>1. s = <<>> /\ FoldLeft(AddPort, <<>>, s) = <<>>
      BY <1>2, <1>4, EmptySeq
    <2>2. Len(<<>>) = 0
      OBVIOUS
    <2>3. Gapped(<<>>)
      BY <2>2 DEF Gapped
    <2>. QED
      BY <2>1, <2>3, ArrayEmpty
  <1>5. CASE N # 0
    <2>1. N \in 1 .. N
      BY <1>1, <1>5
    <2>2. Covers(h[N], s, N)
      BY <1>3, <2>1
    <2>3. RangesToArray(h[N]) = SubSeq(s, 1, N) /\ Gapped(h[N])
      BY <2>2 DEF Covers
    <2>4. SubSeq(s, 1, N) = s
      BY SubSeqFull
    <2>. QED
      BY <1>2, <2>3, <2>4
  <1>. QED
    BY <1>4, <1>5

-----------------------------------------------------------------------------
(* Types *)

Group == [cpus : Nat, mem : Nat, disk : Nat, ports : Seq(Nat)]

\* Groups hold amounts, and each node that ApplyOffer has been through has a task,
\* a reservation, or nothing.
OfferTypeOK ==
    /\ compatibilityMode \in BOOLEAN
    /\ offer \in Offers
    /\ reserved \in Group /\ unreserved \in Group
    /\ seen \subseteq Nodes
    /\ LaunchedNodes \subseteq seen /\ toReserve \subseteq seen
    /\ LaunchedNodes \intersect toReserve = {}
    /\ \A t \in tasks : t.taking \in Seq(Nat)
    /\ answered \in BOOLEAN

\* What a node asks for.
LEMMA NeedType ==
    ASSUME NEW n \in Nodes
    PROVE  /\ Need[n].cpus \in Nat /\ Need[n].mem \in Nat /\ Need[n].disk \in Nat
           /\ CPUS_PER_EXECUTOR \in Nat /\ MEM_PER_EXECUTOR \in Nat /\ PORTS_PER_TASK \in Nat
           /\ Cpus[n] = Need[n].cpus /\ Mem[n] = Need[n].mem /\ Disk[n] = Need[n].disk
  BY OfferAssumption DEF Cpus, Mem, Disk

\* The amounts by node.
LEMMA AmountType == Cpus \in [Nodes -> Nat] /\ Mem \in [Nodes -> Nat] /\ Disk \in [Nodes -> Nat]
  BY OfferAssumption DEF Cpus, Mem, Disk

\* apply() cuts its ports out of the sequence: what it takes and what it leaves are
\* the ports that were there, none of them twice, wherever it cuts.
LEMMA Slice ==
    ASSUME NEW g \in Group, NEW k \in Nat, Len(g.ports) >= k, NEW loc \in SliceLocs(g, k)
    PROVE  /\ TakingPorts(g, loc, k) \in Seq(Nat)
           /\ LeavingPorts(g, loc, k) \in Seq(Nat)
           /\ (IF k > 0 THEN LeavingPorts(g, loc, k) ELSE g.ports) = LeavingPorts(g, loc, k)
           /\ Range(TakingPorts(g, loc, k)) \subseteq Range(g.ports)
           /\ Range(LeavingPorts(g, loc, k)) \subseteq Range(g.ports)
           /\ IsInjective(g.ports) =>
                 /\ IsInjective(TakingPorts(g, loc, k))
                 /\ IsInjective(LeavingPorts(g, loc, k))
                 /\ Range(TakingPorts(g, loc, k)) \intersect Range(LeavingPorts(g, loc, k)) = {}
  <1>. DEFINE n == Len(g.ports)
              taking == TakingPorts(g, loc, k)
              leaving == LeavingPorts(g, loc, k)
  <1>1. g.ports \in Seq(Nat) /\ n \in Nat /\ DOMAIN g.ports = 1 .. n /\ \A i \in 1 .. n : g.ports[i] \in Nat
    BY DEF Group
  <1>2. loc \in Nat /\ loc + k <= n
    BY <1>1 DEF SliceLocs
  <1>. HIDE DEF n
  <1>3. DOMAIN taking = 1 .. k /\ \A i \in 1 .. k : loc + i \in 1 .. n /\ taking[i] = g.ports[loc + i]
    BY <1>1, <1>2 DEF TakingPorts
  <1>4. /\ DOMAIN leaving = 1 .. (n - k)
        /\ \A i \in 1 .. (n - k) :
              /\ i \in 1 .. n /\ i + k \in 1 .. n
              /\ leaving[i] = IF i <= loc THEN g.ports[i] ELSE g.ports[i + k]
    BY <1>1, <1>2 DEF LeavingPorts, n
  <1>5. taking \in Seq(Nat)
    <2>1. taking \in [1 .. k -> Nat]
      BY <1>1, <1>3 DEF TakingPorts
    <2>. QED
      BY <2>1
  <1>6. leaving \in Seq(Nat)
    <2>1. leaving \in [1 .. (n - k) -> Nat] /\ n - k \in Nat
      BY <1>1, <1>2, <1>4 DEF LeavingPorts, n
    <2>. QED
      BY <2>1
  <1>10. (IF k > 0 THEN leaving ELSE g.ports) = leaving
    <2>1. ASSUME k = 0 PROVE leaving = g.ports
      <3>1. DOMAIN leaving = DOMAIN g.ports /\ \A i \in DOMAIN leaving : leaving[i] = g.ports[i]
        BY <1>1, <1>4, <2>1
      <3>2. leaving = [i \in DOMAIN leaving |-> leaving[i]]
        BY DEF LeavingPorts
      <3>3. g.ports = [i \in DOMAIN g.ports |-> g.ports[i]]
        BY <1>1, LenProperties
      <3>. HIDE DEF leaving
      <3>. QED
        BY <3>1, <3>2, <3>3
    <2>. QED
      BY <2>1
  <1>. HIDE DEF taking, leaving
  <1>7. Range(taking) \subseteq Range(g.ports)
    BY <1>1, <1>3 DEF Range
  <1>8. Range(leaving) \subseteq Range(g.ports)
    BY <1>1, <1>4 DEF Range
  <1>9. ASSUME IsInjective(g.ports)
        PROVE  /\ IsInjective(taking)
               /\ IsInjective(leaving)
               /\ Range(taking) \intersect Range(leaving) = {}
    <2>1. \A i, j \in 1 .. n : g.ports[i] = g.ports[j] => i = j
      BY <1>1, <1>9 DEF IsInjective
    <2>2. IsInjective(taking)
      <3>. SUFFICES ASSUME NEW i \in 1 .. k, NEW j \in 1 .. k, taking[i] = taking[j] PROVE i = j
        BY <1>3 DEF IsInjective
      <3>1. loc + i = loc + j
        BY <1>3, <2>1
      <3>. QED
        BY <1>2, <3>1
    <2>3. IsInjective(leaving)
      <3>. SUFFICES ASSUME NEW i \in 1 .. (n - k), NEW j \in 1 .. (n - k), leaving[i] = leaving[j] PROVE i = j
        BY <1>4 DEF IsInjective
      <3>1. (IF i <= loc THEN i ELSE i + k) = (IF j <= loc THEN j ELSE j + k)
        BY <1>4, <2>1
      <3>. QED
        BY <1>1, <1>2, <3>1
    <2>4. ASSUME NEW i \in 1 .. k, NEW j \in 1 .. (n - k), taking[i] = leaving[j] PROVE FALSE
      <3>1. CASE j <= loc
        <4>1. g.ports[loc + i] = g.ports[j] /\ loc + i \in 1 .. n /\ j \in 1 .. n
          BY <1>3, <1>4, <2>4, <3>1
        <4>. QED
          BY <1>2, <2>1, <3>1, <4>1
      <3>2. CASE ~(j <= loc)
        <4>1. g.ports[loc + i] = g.ports[j + k] /\ loc + i \in 1 .. n /\ j + k \in 1 .. n
          BY <1>3, <1>4, <2>4, <3>2
        <4>. QED
          BY <1>2, <2>1, <3>2, <4>1
      <3>. QED
        BY <3>1, <3>2
    <2>5. Range(taking) \intersect Range(leaving) = {}
      BY <1>3, <1>4, <2>4 DEF Range
    <2>. QED
      BY <2>2, <2>3, <2>5
  <1>. QED
    BY <1>5, <1>6, <1>7, <1>8, <1>9, <1>10 DEF taking, leaving

\* A group that lacks some of another one, and has these ports.
Lacks(left, g, cpus, mem, disk, ports) ==
    /\ left \in Group
    /\ left.cpus = g.cpus - cpus
    /\ left.mem = g.mem - mem
    /\ left.disk = g.disk - disk
    /\ left.ports = ports

\* What apply() leaves of a group from which CanFit said it may take.
LEMMA LeftType ==
    ASSUME NEW g \in Group, NEW cpus \in Nat, NEW mem \in Nat, NEW disk \in Nat, NEW k \in Nat,
           CanFit(g, cpus, mem, disk, k), NEW loc \in SliceLocs(g, k)
    PROVE  Lacks(Left(g, cpus, mem, disk, k, loc), g, cpus, mem, disk, LeavingPorts(g, loc, k))
  <1>1. Len(g.ports) >= k /\ g.cpus >= cpus /\ g.mem >= mem /\ g.disk >= disk
    BY DEF CanFit
  <1>2. /\ LeavingPorts(g, loc, k) \in Seq(Nat)
        /\ (IF k > 0 THEN LeavingPorts(g, loc, k) ELSE g.ports) = LeavingPorts(g, loc, k)
    BY <1>1, Slice
  <1>3. Left(g, cpus, mem, disk, k, loc)
          = [cpus |-> g.cpus - cpus, mem |-> g.mem - mem, disk |-> g.disk - disk, ports |-> LeavingPorts(g, loc, k)]
    BY <1>2 DEF Left
  <1>4. g.cpus - cpus \in Nat /\ g.mem - mem \in Nat /\ g.disk - disk \in Nat
    BY <1>1 DEF Group
  <1>. QED
    BY <1>2, <1>3, <1>4 DEF Group, Lacks

\* The same when no ports are asked for.
LEMMA LeftScalars ==
    ASSUME NEW g \in Group, NEW cpus \in Nat, NEW mem \in Nat, NEW disk \in Nat,
           CanFit(g, cpus, mem, disk, 0)
    PROVE  Lacks(Left(g, cpus, mem, disk, 0, 0), g, cpus, mem, disk, g.ports)
  <1>1. Left(g, cpus, mem, disk, 0, 0)
          = [cpus |-> g.cpus - cpus, mem |-> g.mem - mem, disk |-> g.disk - disk, ports |-> g.ports]
    BY DEF Left
  <1>2. g.cpus - cpus \in Nat /\ g.mem - mem \in Nat /\ g.disk - disk \in Nat
    BY DEF Group, CanFit
  <1>. QED
    BY <1>1, <1>2 DEF Group, Lacks

\* A check that covers two demands covers the first, and then the second.
LEMMA FitTwice ==
    ASSUME NEW g \in Group, NEW k \in Nat,
           NEW c1 \in Nat, NEW m1 \in Nat, NEW d1 \in Nat, NEW c2 \in Nat, NEW m2 \in Nat, NEW d2 \in Nat,
           CanFit(g, c1 + c2, m1 + m2, d1 + d2, k)
    PROVE  /\ CanFit(g, c1, m1, d1, k)
           /\ \A r, ports : Lacks(r, g, c1, m1, d1, ports) =>
                 /\ CanFit(r, c2, m2, d2, 0)
                 /\ \A l : Lacks(l, r, c2, m2, d2, ports) => Lacks(l, g, c1 + c2, m1 + m2, d1 + d2, ports)
  <1>1. PICK c \in Nat, m \in Nat, d \in Nat : c = g.cpus /\ m = g.mem /\ d = g.disk
    BY DEF Group
  <1>2. c >= c1 + c2 /\ m >= m1 + m2 /\ d >= d1 + d2 /\ Len(g.ports) >= k
    BY <1>1 DEF CanFit
  <1>3. CanFit(g, c1, m1, d1, k)
    BY <1>1, <1>2 DEF CanFit
  <1>4. c - c1 >= c2 /\ m - m1 >= m2 /\ d - d1 >= d2
    BY <1>2
  <1>5. (c - c1) - c2 = c - (c1 + c2) /\ (m - m1) - m2 = m - (m1 + m2) /\ (d - d1) - d2 = d - (d1 + d2)
    OBVIOUS
  <1>6. ASSUME NEW r, NEW ports, Lacks(r, g, c1, m1, d1, ports)
        PROVE  /\ CanFit(r, c2, m2, d2, 0)
               /\ \A l : Lacks(l, r, c2, m2, d2, ports) => Lacks(l, g, c1 + c2, m1 + m2, d1 + d2, ports)
    <2>1. r.cpus = c - c1 /\ r.mem = m - m1 /\ r.disk = d - d1 /\ r \in Group
      BY <1>1, <1>6 DEF Lacks
    <2>2. Len(r.ports) >= 0
      BY <2>1 DEF Group
    <2>3. CanFit(r, c2, m2, d2, 0)
      BY <1>4, <2>1, <2>2 DEF CanFit
    <2>4. ASSUME NEW l, Lacks(l, r, c2, m2, d2, ports)
          PROVE  Lacks(l, g, c1 + c2, m1 + m2, d1 + d2, ports)
      BY <1>1, <1>5, <2>1, <2>4 DEF Lacks
    <2>. QED
      BY <2>3, <2>4
  <1>. QED
    BY <1>3, <1>6

\* Two calls of apply(), the first of them for the ports.
LEMMA LeftTwice ==
    ASSUME NEW g \in Group, NEW k \in Nat, NEW loc \in SliceLocs(g, k),
           NEW c1 \in Nat, NEW m1 \in Nat, NEW d1 \in Nat, NEW c2 \in Nat, NEW m2 \in Nat, NEW d2 \in Nat,
           CanFit(g, c1 + c2, m1 + m2, d1 + d2, k)
    PROVE  Lacks(Left(Left(g, c1, m1, d1, k, loc), c2, m2, d2, 0, 0),
                 g, c1 + c2, m1 + m2, d1 + d2, LeavingPorts(g, loc, k))
  <1>. DEFINE rest == Left(g, c1, m1, d1, k, loc)
              left == Left(rest, c2, m2, d2, 0, 0)
  <1>1. CanFit(g, c1, m1, d1, k)
    BY FitTwice
  <1>2. Lacks(rest, g, c1, m1, d1, LeavingPorts(g, loc, k))
    BY <1>1, LeftType
  <1>. HIDE DEF rest
  <1>3. CanFit(rest, c2, m2, d2, 0)
    <2>1. \A r, ports : Lacks(r, g, c1, m1, d1, ports) => CanFit(r, c2, m2, d2, 0)
      BY FitTwice
    <2>. QED
      BY <1>2, <2>1
  <1>4. rest \in Group /\ rest.ports = LeavingPorts(g, loc, k)
    BY <1>2 DEF Lacks
  <1>5. Lacks(left, rest, c2, m2, d2, LeavingPorts(g, loc, k))
    BY <1>3, <1>4, LeftScalars
  <1>. HIDE DEF left
  <1>6. Lacks(left, g, c1 + c2, m1 + m2, d1 + d2, LeavingPorts(g, loc, k))
    BY <1>2, <1>5, FitTwice
  <1>. QED
    BY <1>6 DEF left, rest

\* What a step takes out of the unreserved group, with a slice of its ports.
Taken(cpus, mem, disk, loc) ==
    /\ Lacks(unreserved', unreserved, cpus, mem, disk, LeavingPorts(unreserved, loc, PORTS_PER_TASK))
    /\ Len(unreserved.ports) >= PORTS_PER_TASK
    /\ loc \in SliceLocs(unreserved, PORTS_PER_TASK)

\* A launch without reservations takes the task and its executor out of the offer.
LaunchesWhole(n, loc) ==
    /\ compatibilityMode
    /\ Taken(Need[n].cpus + CPUS_PER_EXECUTOR, Need[n].mem + MEM_PER_EXECUTOR, Need[n].disk, loc)
    /\ reserved' = reserved /\ toReserve' = toReserve
    /\ tasks' = tasks \union {TaskInfo(n, TakingPorts(unreserved, loc, PORTS_PER_TASK))}

\* A launch with reservations takes the executor out of what is not reserved.
LaunchesReserved(n, loc) ==
    /\ ~compatibilityMode
    /\ Taken(CPUS_PER_EXECUTOR, MEM_PER_EXECUTOR, 0, loc)
    /\ Lacks(reserved', reserved, Need[n].cpus, Need[n].mem, Need[n].disk, reserved.ports)
    /\ toReserve' = toReserve
    /\ tasks' = tasks \union {TaskInfo(n, TakingPorts(unreserved, loc, PORTS_PER_TASK))}

\* A reservation takes what the launch will need too.
Reserves(n, loc) ==
    /\ ~compatibilityMode
    /\ Taken(Need[n].cpus + CPUS_PER_EXECUTOR, Need[n].mem + MEM_PER_EXECUTOR, Need[n].disk, loc)
    /\ reserved' = reserved /\ tasks' = tasks
    /\ toReserve' = toReserve \union {n}

\* The calls of apply() for a node together: its launch (ApplyReservedOffer).
LEMMA LaunchTakes ==
    ASSUME OfferTypeOK, NEW n \in Nodes, ApplyReservedOffer(n)
    PROVE  \E loc : LaunchesWhole(n, loc) \/ LaunchesReserved(n, loc)
  <1>. DEFINE P == PORTS_PER_TASK
  <1>1. PICK loc \in SliceLocs(unreserved, P) :
          LET task == IF compatibilityMode THEN Need[n] ELSE [cpus |-> 0, mem |-> 0, disk |-> 0]
              rest == Left(unreserved, task.cpus, task.mem, task.disk, P, loc)
          IN  /\ unreserved' = Left(rest, CPUS_PER_EXECUTOR, MEM_PER_EXECUTOR, 0, 0, 0)
              /\ tasks' = tasks \union {TaskInfo(n, TakingPorts(unreserved, loc, P))}
    BY DEF ApplyReservedOffer
  <1>2. /\ CanLaunch(n) /\ toReserve' = toReserve
        /\ reserved' = IF compatibilityMode THEN reserved
                       ELSE Left(reserved, Need[n].cpus, Need[n].mem, Need[n].disk, 0, 0)
    BY DEF ApplyReservedOffer
  <1>3. reserved \in Group /\ unreserved \in Group
    BY DEF OfferTypeOK
  <1>. /\ Need[n].cpus \in Nat /\ Need[n].mem \in Nat /\ Need[n].disk \in Nat
       /\ CPUS_PER_EXECUTOR \in Nat /\ MEM_PER_EXECUTOR \in Nat /\ PORTS_PER_TASK \in Nat
    BY NeedType
  <1>. PICK c \in Nat, m \in Nat, d \in Nat : c = Need[n].cpus /\ m = Need[n].mem /\ d = Need[n].disk
    OBVIOUS
  <1>4. CASE compatibilityMode
    <2>1. CanFit(unreserved, c + CPUS_PER_EXECUTOR, m + MEM_PER_EXECUTOR, d, P)
      BY <1>2, <1>4 DEF CanLaunch
    <2>2. unreserved' = Left(Left(unreserved, c, m, d, P, loc), CPUS_PER_EXECUTOR, MEM_PER_EXECUTOR, 0, 0, 0)
      BY <1>1, <1>4
    <2>3. d + 0 = d /\ Len(unreserved.ports) >= P
      BY <2>1 DEF CanFit
    <2>4. Lacks(unreserved', unreserved, c + CPUS_PER_EXECUTOR, m + MEM_PER_EXECUTOR, d + 0,
                LeavingPorts(unreserved, loc, P))
      BY <1>3, <2>1, <2>2, <2>3, LeftTwice
    <2>5. Taken(c + CPUS_PER_EXECUTOR, m + MEM_PER_EXECUTOR, d, loc)
      BY <2>3, <2>4 DEF Taken
    <2>. QED
      BY <1>1, <1>2, <1>4, <2>5 DEF LaunchesWhole
  <1>5. CASE ~compatibilityMode
    <2>1. CanFit(reserved, c, m, d, 0) /\ CanFit(unreserved, CPUS_PER_EXECUTOR, MEM_PER_EXECUTOR, 0, P)
      BY <1>2, <1>5 DEF CanLaunch
    <2>2. unreserved' = Left(Left(unreserved, 0, 0, 0, P, loc), CPUS_PER_EXECUTOR, MEM_PER_EXECUTOR, 0, 0, 0)
      BY <1>1, <1>5
    <2>3. /\ 0 + CPUS_PER_EXECUTOR = CPUS_PER_EXECUTOR /\ 0 + MEM_PER_EXECUTOR = MEM_PER_EXECUTOR /\ 0 + 0 = 0
          /\ Len(unreserved.ports) >= P
      BY <2>1 DEF CanFit
    <2>4. Lacks(unreserved', unreserved, 0 + CPUS_PER_EXECUTOR, 0 + MEM_PER_EXECUTOR, 0 + 0,
                LeavingPorts(unreserved, loc, P))
      BY <1>3, <2>1, <2>2, <2>3, LeftTwice
    <2>5. Taken(CPUS_PER_EXECUTOR, MEM_PER_EXECUTOR, 0, loc)
      BY <2>3, <2>4 DEF Taken
    <2>6. Lacks(reserved', reserved, c, m, d, reserved.ports)
      BY <1>2, <1>3, <1>5, <2>1, LeftScalars
    <2>. QED
      BY <1>1, <1>2, <1>5, <2>5, <2>6 DEF LaunchesReserved
  <1>. QED
    BY <1>4, <1>5

\* The calls of apply() for a node together: its reservation (ApplyUnreservedOffer).
LEMMA ReserveTakes ==
    ASSUME OfferTypeOK, NEW n \in Nodes, ApplyUnreservedOffer(n)
    PROVE  \E loc : Reserves(n, loc)
  <1>. DEFINE P == PORTS_PER_TASK
              withheld(loc) == Left(unreserved, CPUS_PER_EXECUTOR, MEM_PER_EXECUTOR, 0, P, loc)
              reservation(loc) == Left(withheld(loc), Need[n].cpus, Need[n].mem, Need[n].disk, 0, 0)
  <1>1. PICK loc \in SliceLocs(unreserved, P) : unreserved' = MakeVolume(reservation(loc), Need[n].disk)
    BY DEF ApplyUnreservedOffer
  <1>2. /\ ~compatibilityMode /\ CanReserve(n) /\ toReserve' = toReserve \union {n}
        /\ reserved' = reserved /\ tasks' = tasks
    BY DEF ApplyUnreservedOffer
  <1>3. unreserved \in Group
    BY DEF OfferTypeOK
  <1>. /\ Need[n].cpus \in Nat /\ Need[n].mem \in Nat /\ Need[n].disk \in Nat
       /\ CPUS_PER_EXECUTOR \in Nat /\ MEM_PER_EXECUTOR \in Nat /\ PORTS_PER_TASK \in Nat
    BY NeedType
  <1>. PICK c \in Nat, m \in Nat, d \in Nat : c = Need[n].cpus /\ m = Need[n].mem /\ d = Need[n].disk
    OBVIOUS
  <1>4. CanFit(unreserved, c + CPUS_PER_EXECUTOR, m + MEM_PER_EXECUTOR, d, P)
    BY <1>2 DEF CanReserve
  <1>5. CPUS_PER_EXECUTOR + c = c + CPUS_PER_EXECUTOR /\ MEM_PER_EXECUTOR + m = m + MEM_PER_EXECUTOR /\ 0 + d = d
    OBVIOUS
  <1>6. Lacks(reservation(loc), unreserved, CPUS_PER_EXECUTOR + c, MEM_PER_EXECUTOR + m, 0 + d,
              LeavingPorts(unreserved, loc, P))
    BY <1>3, <1>4, <1>5, LeftTwice
  <1>. HIDE DEF reservation
  <1>7. unreserved' = reservation(loc)
    BY <1>1, <1>6 DEF MakeVolume, Left, Group, Lacks
  <1>8. Taken(c + CPUS_PER_EXECUTOR, m + MEM_PER_EXECUTOR, d, loc)
    BY <1>1, <1>4, <1>5, <1>6, <1>7 DEF Taken, CanFit
  <1>. QED
    BY <1>2, <1>8 DEF Reserves

\* What can happen to a node when an offer arrives.
LEMMA Outcomes ==
    ASSUME OfferTypeOK, NEW n \in Nodes, ApplyOffer(n)
    PROVE  /\ n \notin seen /\ seen' = seen \union {n}
           /\ UNCHANGED <<compatibilityMode, offer, answered>>
           /\ \/ \E loc : LaunchesWhole(n, loc) \/ LaunchesReserved(n, loc) \/ Reserves(n, loc)
              \/ UNCHANGED <<reserved, unreserved, tasks, toReserve>>
  BY LaunchTakes, ReserveTakes DEF ApplyOffer

\* A task more is a launched node more.
LEMMA LaunchedAdd ==
    ASSUME NEW n, NEW taking, tasks' = tasks \union {TaskInfo(n, taking)}
    PROVE  LaunchedNodes' = LaunchedNodes \union {n} /\ TaskInfo(n, taking).taking = taking
  <1>1. TaskInfo(n, taking).node = n /\ TaskInfo(n, taking).taking = taking
    BY DEF TaskInfo
  <1>2. LaunchedNodes' = {t.node : t \in tasks'}
    BY DEF LaunchedNodes
  <1>. QED
    BY <1>1, <1>2 DEF LaunchedNodes

\* Types are kept.
LEMMA TypePreserved ==
    ASSUME OfferTypeOK, [Next]_vars
    PROVE  OfferTypeOK'
  <1>1. ASSUME NEW n \in Nodes, ApplyOffer(n) PROVE OfferTypeOK'
    <2>1. /\ n \notin seen /\ seen' = seen \union {n}
          /\ UNCHANGED <<compatibilityMode, offer, answered>>
      BY <1>1, Outcomes
    <2>2. ASSUME NEW loc, LaunchesWhole(n, loc) \/ LaunchesReserved(n, loc) PROVE OfferTypeOK'
      <3>. DEFINE taking == TakingPorts(unreserved, loc, PORTS_PER_TASK)
      <3>1. /\ tasks' = tasks \union {TaskInfo(n, taking)} /\ toReserve' = toReserve
            /\ unreserved' \in Group /\ reserved' \in Group
            /\ Len(unreserved.ports) >= PORTS_PER_TASK /\ loc \in SliceLocs(unreserved, PORTS_PER_TASK)
        BY <2>2 DEF LaunchesWhole, LaunchesReserved, Taken, Lacks, OfferTypeOK
      <3>2. taking \in Seq(Nat)
        BY <3>1, Slice, NeedType DEF OfferTypeOK
      <3>. HIDE DEF taking
      <3>3. LaunchedNodes' = LaunchedNodes \union {n} /\ TaskInfo(n, taking).taking = taking
        BY <3>1, LaunchedAdd
      <3>. QED
        BY <2>1, <3>1, <3>2, <3>3 DEF OfferTypeOK
    <2>3. ASSUME NEW loc, Reserves(n, loc) PROVE OfferTypeOK'
      BY <2>1, <2>3 DEF Reserves, Taken, Lacks, OfferTypeOK, LaunchedNodes
    <2>4. ASSUME UNCHANGED <<reserved, unreserved, tasks, toReserve>> PROVE OfferTypeOK'
      BY <2>1, <2>4 DEF OfferTypeOK, LaunchedNodes
    <2>. QED
      BY <1>1, <2>2, <2>3, <2>4, Outcomes
  <1>2. ASSUME NEW b \in BOOLEAN, MaybeUnreserve(b) PROVE OfferTypeOK'
    BY <1>2 DEF MaybeUnreserve, OfferTypeOK, LaunchedNodes
  <1>3. CASE UNCHANGED vars
    BY <1>3 DEF vars, OfferTypeOK, LaunchedNodes
  <1>. QED
    BY <1>1, <1>2, <1>3 DEF Next

\* An offer starts with amounts, and with no port twice.
LEMMA OfferInit ==
    ASSUME Init
    PROVE  OfferTypeOK /\ IsInjective(unreserved.ports) /\ tasks = {}
  <1>1. PICK o \in Offers : NewOfferHelper(o)
    BY DEF Init
  <1>2. \A w \in BOOLEAN : ResourceGroup(o, w) \in Group /\ IsInjective(ResourceGroup(o, w).ports)
    <2>. SUFFICES ASSUME NEW w \in BOOLEAN
                  PROVE  ResourceGroup(o, w) \in Group /\ IsInjective(ResourceGroup(o, w).ports)
      OBVIOUS
    <2>. DEFINE g == ResourceGroup(o, w)
    <2>1. /\ g.cpus \in Nat /\ g.mem \in Nat /\ g.disk \in Nat
          /\ g.ports \in Seq(Nat)
          /\ \A i, j \in 1 .. Len(g.ports) : g.ports[i] = g.ports[j] => i = j
      <3>1. \A name : getResource(name, o, w) \in Nat
        BY ResourceRuns
      <3>. QED
        BY <3>1, OfferAssumption DEF ResourceGroup
    <2>2. g = [cpus |-> g.cpus, mem |-> g.mem, disk |-> g.disk, ports |-> g.ports]
      BY DEF ResourceGroup
    <2>. HIDE DEF g
    <2>3. g \in Group
      BY <2>1, <2>2 DEF Group
    <2>4. IsInjective(g.ports)
      BY <2>1 DEF IsInjective
    <2>. QED
      BY <2>3, <2>4 DEF g
  <1>3. LaunchedNodes = {}
    BY <1>1 DEF NewOfferHelper, LaunchedNodes
  <1>. QED
    BY <1>1, <1>2, <1>3 DEF NewOfferHelper, OfferTypeOK

\* However an offer is divided, the amounts left of it are natural numbers and no
\* node has both a task and a reservation in one answer (OfferHelper, ApplyOffer).
THEOREM OfferTypes == Spec => []OfferTypeOK
  BY OfferInit, TypePreserved, PTL DEF Spec

\* No group is ever overdrawn, however many nodes take from an offer and in whatever
\* order: the CanFit made once covers all that apply() takes afterwards.
THEOREM NeverOverdrawnSafe == Spec => []NeverOverdrawn
  <1>1. OfferTypeOK => NeverOverdrawn
    BY DEF OfferTypeOK, NeverOverdrawn, Group
  <1>. QED
    BY <1>1, OfferTypes, PTL

\* The random slices of apply() never overlap, for any number of ports per task.
LEMMA PortsPreserved ==
    ASSUME OfferTypeOK, PortsExclusive, [Next]_vars
    PROVE  PortsExclusive'
  <1>1. ASSUME NEW n \in Nodes, ApplyOffer(n) PROVE PortsExclusive'
    <2>0. unreserved \in Group /\ PORTS_PER_TASK \in Nat
      BY OfferAssumption DEF OfferTypeOK
    <2>1. ASSUME NEW loc, LaunchesWhole(n, loc) \/ LaunchesReserved(n, loc) PROVE PortsExclusive'
      <3>. DEFINE taking == TakingPorts(unreserved, loc, PORTS_PER_TASK)
                  leaving == LeavingPorts(unreserved, loc, PORTS_PER_TASK)
      <3>1. /\ tasks' = tasks \union {TaskInfo(n, taking)} /\ unreserved'.ports = leaving
            /\ Len(unreserved.ports) >= PORTS_PER_TASK /\ loc \in SliceLocs(unreserved, PORTS_PER_TASK)
        BY <2>1 DEF LaunchesWhole, LaunchesReserved, Taken, Lacks
      <3>2. /\ Range(taking) \subseteq Range(unreserved.ports)
            /\ Range(leaving) \subseteq Range(unreserved.ports)
            /\ IsInjective(taking) /\ IsInjective(leaving)
            /\ Range(taking) \intersect Range(leaving) = {}
        BY <2>0, <3>1, Slice DEF PortsExclusive
      <3>. HIDE DEF taking, leaving
      <3>3. TaskInfo(n, taking).taking = taking
        BY DEF TaskInfo
      <3>. QED
        BY <3>1, <3>2, <3>3 DEF PortsExclusive
    <2>2. ASSUME NEW loc, Reserves(n, loc) PROVE PortsExclusive'
      <3>. DEFINE leaving == LeavingPorts(unreserved, loc, PORTS_PER_TASK)
      <3>1. /\ tasks' = tasks /\ unreserved'.ports = leaving
            /\ Len(unreserved.ports) >= PORTS_PER_TASK /\ loc \in SliceLocs(unreserved, PORTS_PER_TASK)
        BY <2>2 DEF Reserves, Taken, Lacks
      <3>2. Range(leaving) \subseteq Range(unreserved.ports) /\ IsInjective(leaving)
        BY <2>0, <3>1, Slice DEF PortsExclusive
      <3>. HIDE DEF leaving
      <3>. QED
        BY <3>1, <3>2 DEF PortsExclusive
    <2>3. ASSUME UNCHANGED <<reserved, unreserved, tasks, toReserve>> PROVE PortsExclusive'
      BY <2>3 DEF PortsExclusive
    <2>. QED
      BY <1>1, <2>1, <2>2, <2>3, Outcomes
  <1>2. ASSUME NEW b \in BOOLEAN, MaybeUnreserve(b) PROVE PortsExclusive'
    BY <1>2 DEF MaybeUnreserve, PortsExclusive
  <1>3. CASE UNCHANGED vars
    BY <1>3 DEF vars, PortsExclusive
  <1>. QED
    BY <1>1, <1>2, <1>3 DEF Next

\* Two Riak nodes never get the same port out of an offer, nor one that is still to
\* be given away (the slice that apply() cuts out of the ports).
THEOREM PortsExclusiveSafe == Spec => []PortsExclusive
  <1>1. Init => PortsExclusive
    BY OfferInit DEF PortsExclusive
  <1>. QED
    BY <1>1, PortsPreserved, OfferTypes, PTL DEF Spec

-----------------------------------------------------------------------------
(* Ranges *)

\* A slice has as many ports as were asked for.
LEMMA SliceLength ==
    ASSUME NEW g \in Group, NEW k \in Nat, Len(g.ports) >= k, NEW loc \in SliceLocs(g, k)
    PROVE  Len(TakingPorts(g, loc, k)) = k
  <1>. DEFINE taking == TakingPorts(g, loc, k)
  <1>1. taking \in Seq(Nat)
    BY Slice
  <1>2. DOMAIN taking = 1 .. k
    BY DEF TakingPorts
  <1>. HIDE DEF taking
  <1>3. DOMAIN taking = 1 .. Len(taking) /\ Len(taking) \in Nat
    BY <1>1, LenProperties
  <1>4. Len(taking) = k
    BY <1>2, <1>3
  <1>. QED
    BY <1>4 DEF taking

\* Each task is what ApplyReservedOffer made of a node and the ports cut out for it.
TasksFromPorts ==
    \A t \in tasks : \E n \in Nodes, taking \in Seq(Nat) :
        t = TaskInfo(n, taking) /\ Len(taking) = PORTS_PER_TASK

\* A launch adds such a task; nothing else touches the tasks.
LEMMA TasksFromPortsPreserved ==
    ASSUME OfferTypeOK, TasksFromPorts, [Next]_vars
    PROVE  TasksFromPorts'
  <1>1. ASSUME NEW n \in Nodes, ApplyOffer(n) PROVE TasksFromPorts'
    <2>1. ASSUME NEW loc, LaunchesWhole(n, loc) \/ LaunchesReserved(n, loc) PROVE TasksFromPorts'
      <3>. DEFINE taking == TakingPorts(unreserved, loc, PORTS_PER_TASK)
      <3>1. /\ tasks' = tasks \union {TaskInfo(n, taking)}
            /\ Len(unreserved.ports) >= PORTS_PER_TASK /\ loc \in SliceLocs(unreserved, PORTS_PER_TASK)
        BY <2>1 DEF LaunchesWhole, LaunchesReserved, Taken
      <3>2. unreserved \in Group /\ PORTS_PER_TASK \in Nat
        BY OfferAssumption DEF OfferTypeOK
      <3>3. taking \in Seq(Nat) /\ Len(taking) = PORTS_PER_TASK
        BY <3>1, <3>2, Slice, SliceLength
      <3>. HIDE DEF taking
      <3>. QED
        BY <3>1, <3>3 DEF TasksFromPorts
    <2>2. ASSUME tasks' = tasks PROVE TasksFromPorts'
      BY <2>2 DEF TasksFromPorts
    <2>. QED
      BY <1>1, <2>1, <2>2, Outcomes DEF Reserves
  <1>2. ASSUME NEW b \in BOOLEAN, MaybeUnreserve(b) PROVE TasksFromPorts'
    BY <1>2 DEF MaybeUnreserve, TasksFromPorts
  <1>3. CASE UNCHANGED vars
    BY <1>3 DEF vars, TasksFromPorts
  <1>. QED
    BY <1>1, <1>2, <1>3 DEF Next

\* Three different ports are three.
LEMMA ThreePorts ==
    ASSUME NEW a \in Nat, NEW b \in Nat, NEW c \in Nat, a < b, b < c
    PROVE  Cardinality({a, b, c}) = 3
  <1>1. IsFiniteSet({a}) /\ Cardinality({a}) = 1
    BY FS_Singleton
  <1>2. b \notin {a} /\ {a} \union {b} = {a, b}
    OBVIOUS
  <1>3. IsFiniteSet({a, b}) /\ Cardinality({a, b}) = 1 + 1
    BY <1>1, <1>2, FS_AddElement
  <1>4. c \notin {a, b} /\ {a, b} \union {c} = {a, b, c}
    OBVIOUS
  <1>5. Cardinality({a, b, c}) = 1 + 1 + 1
    BY <1>3, <1>4, FS_AddElement
  <1>. QED
    BY <1>5

\* What the ranges and the configuration of one task say.
LEMMA TaskRanges ==
    ASSUME NEW n, NEW taking \in Seq(Nat), IsInjective(taking), NEW t, t = TaskInfo(n, taking)
    PROVE  /\ RangesToArray(t.ranges) = Sorted(t.taking)
           /\ \A i \in 1 .. (Len(t.ranges) - 1) : t.ranges[i][2] + 1 < t.ranges[i + 1][1]
           /\ Len(taking) >= 3 => Cardinality(Range(t.data)) = 3 /\ Range(t.data) \subseteq Range(t.taking)
  <1>. DEFINE s == Sorted(taking)
              R == FoldLeft(AddPort, <<>>, s)
  <1>1. /\ s \in Seq(Nat) /\ Len(s) = Len(taking) /\ Len(taking) \in Nat
        /\ \A i \in 1 .. Len(taking) : s[i] \in Range(taking)
        /\ \A i, j \in 1 .. Len(taking) : i < j => s[i] < s[j]
    BY SortedPorts, LenProperties
  <1>2. t.taking = taking /\ t.ranges = R /\ t.data = ConfigPorts(R)
    BY DEF TaskInfo, ArrayToRanges
  <1>. HIDE DEF s, R
  <1>3. RangesToArray(R) = s /\ Gapped(R)
    BY <1>1, RangesOfSorted DEF R
  <1>4. ASSUME Len(taking) >= 3
        PROVE  Cardinality(Range(t.data)) = 3 /\ Range(t.data) \subseteq Range(taking)
    <2>1. 1 \in 1 .. Len(taking) /\ 2 \in 1 .. Len(taking) /\ 3 \in 1 .. Len(taking)
      BY <1>1, <1>4
    <2>2. s[1] < s[2] /\ s[2] < s[3]
      BY <1>1, <2>1
    <2>3. s[1] \in Nat /\ s[2] \in Nat /\ s[3] \in Nat
      BY <1>1, <2>1, ElementOfSeq
    <2>4. t.data = [HTTPPort |-> s[1], PBPort |-> s[2], DisterlPort |-> s[3]]
      BY <1>1, <1>2, <1>3, <1>4 DEF ConfigPorts
    <2>5. Range(t.data) = {s[1], s[2], s[3]}
      BY <2>4 DEF Range
    <2>6. Cardinality({s[1], s[2], s[3]}) = 3
      BY <2>2, <2>3, ThreePorts
    <2>7. s[1] \in Range(taking) /\ s[2] \in Range(taking) /\ s[3] \in Range(taking)
      BY <1>1, <2>1
    <2>8. {s[1], s[2], s[3]} \subseteq Range(taking)
      BY <2>7
    <2>. QED
      BY <2>5, <2>6, <2>8
  <1>. QED
    BY <1>2, <1>3, <1>4 DEF Gapped, s

\* Whatever ports a task gets, the ranges sent to Mesos are these ports, sorted and in
\* as few ranges as possible, and a Riak node is configured with three different ones
\* of them (ArrayToRanges, RangesToArray, the PortIterator behind TaskData).
THEOREM RangesExactSafe == Spec => []RangesExact
  <1>1. Init => TasksFromPorts
    BY OfferInit DEF TasksFromPorts
  <1>2. OfferTypeOK /\ PortsExclusive /\ TasksFromPorts => RangesExact
    <2>. SUFFICES ASSUME PortsExclusive, TasksFromPorts, NEW t \in tasks
                  PROVE  /\ RangesToArray(t.ranges) = Sorted(t.taking)
                         /\ \A i \in 1 .. (Len(t.ranges) - 1) : t.ranges[i][2] + 1 < t.ranges[i + 1][1]
                         /\ PORTS_PER_TASK >= 3 =>
                               Cardinality(Range(t.data)) = 3 /\ Range(t.data) \subseteq Range(t.taking)
      BY DEF RangesExact
    <2>1. PICK n \in Nodes, taking \in Seq(Nat) : t = TaskInfo(n, taking) /\ Len(taking) = PORTS_PER_TASK
      BY DEF TasksFromPorts
    <2>2. IsInjective(taking)
      <3>1. t.taking = taking
        BY <2>1 DEF TaskInfo
      <3>. QED
        BY <3>1 DEF PortsExclusive
    <2>. QED
      BY <2>1, <2>2, TaskRanges
  <1>. QED
    BY <1>1, <1>2, TasksFromPortsPreserved, OfferTypes, PortsExclusiveSafe, PTL DEF Spec

-----------------------------------------------------------------------------
(* Conservation *)

\* The nodes that have taken from what is not reserved, and from what is.
Takers == (IF compatibilityMode THEN LaunchedNodes ELSE {}) \union toReserve
Owners == IF compatibilityMode THEN {} ELSE LaunchedNodes

\* One share of an executor for each launch and each reservation.
Shares == Cardinality(LaunchedNodes) + Cardinality(toReserve)

\* What is left of an amount, what nodes took and other things took add up to a sum.
Balanced(left, nodes, amount, other, sum) == left + Total(nodes, amount) + other = sum

\* Conserved, resource by resource.
Balances ==
    /\ Balanced(unreserved.cpus, Takers, Cpus, Shares * CPUS_PER_EXECUTOR, getResource("cpus", offer, FALSE))
    /\ Balanced(unreserved.mem, Takers, Mem, Shares * MEM_PER_EXECUTOR, getResource("mem", offer, FALSE))
    /\ Balanced(unreserved.disk, Takers, Disk, 0, getResource("disk", offer, FALSE))
    /\ Balanced(reserved.cpus, Owners, Cpus, 0, getResource("cpus", offer, TRUE))
    /\ Balanced(reserved.mem, Owners, Mem, 0, getResource("mem", offer, TRUE))
    /\ Balanced(reserved.disk, Owners, Disk, 0, getResource("disk", offer, TRUE))

\* The sets of nodes are finite and the totals are numbers.
LEMMA TakersType ==
    ASSUME OfferTypeOK
    PROVE  /\ Takers \subseteq seen /\ Owners \subseteq seen /\ Takers \in SUBSET Nodes /\ Owners \in SUBSET Nodes
           /\ IsFiniteSet(LaunchedNodes) /\ IsFiniteSet(toReserve) /\ Shares \in Nat
           /\ \A a \in {Cpus, Mem, Disk} : Total(Takers, a) \in Nat /\ Total(Owners, a) \in Nat
  <1>1. Takers \subseteq seen /\ Owners \subseteq seen /\ Takers \in SUBSET Nodes /\ Owners \in SUBSET Nodes
    BY DEF OfferTypeOK, Takers, Owners
  <1>2. IsFiniteSet(Nodes)
    BY OfferAssumption
  <1>3. LaunchedNodes \in SUBSET Nodes /\ toReserve \in SUBSET Nodes
    BY DEF OfferTypeOK
  <1>4. IsFiniteSet(LaunchedNodes) /\ IsFiniteSet(toReserve)
    BY <1>2, <1>3, FS_Subset
  <1>5. Shares \in Nat
    BY <1>4, FS_CardinalityType DEF Shares
  <1>6. \A a \in {Cpus, Mem, Disk} : Total(Takers, a) \in Nat /\ Total(Owners, a) \in Nat
    BY <1>1, <1>2, AmountType, TotalNat
  <1>. QED
    BY <1>1, <1>4, <1>5, <1>6

\* Conserved is this.
LEMMA ConservedBalances ==
    ASSUME OfferTypeOK
    PROVE  Conserved <=> Balances
  <1>. DEFINE launchers == IF compatibilityMode THEN LaunchedNodes ELSE {}
  <1>1. LaunchedNodes \ launchers = Owners /\ launchers \union toReserve = Takers
    BY DEF Owners, Takers
  <1>2. PICK d \in Nat, c \in Nat, m \in Nat, e \in Nat :
          c = reserved.cpus /\ m = reserved.mem /\ e = reserved.disk /\ d = unreserved.disk
    BY DEF OfferTypeOK, Group
  <1>3. PICK td \in Nat, oc \in Nat, om \in Nat, od \in Nat :
          /\ td = Total(Takers, Disk) /\ oc = Total(Owners, Cpus)
          /\ om = Total(Owners, Mem) /\ od = Total(Owners, Disk)
    BY TakersType
  <1>4. d + td + 0 = d + td /\ c + oc + 0 = c + oc /\ m + om + 0 = m + om /\ e + od + 0 = e + od
    OBVIOUS
  <1>5. Conserved <=>
            /\ unreserved.cpus + Total(Takers, Cpus) + Shares * CPUS_PER_EXECUTOR
                 = getResource("cpus", offer, FALSE)
            /\ unreserved.mem + Total(Takers, Mem) + Shares * MEM_PER_EXECUTOR
                 = getResource("mem", offer, FALSE)
            /\ d + td = getResource("disk", offer, FALSE)
            /\ c + oc = getResource("cpus", offer, TRUE)
            /\ m + om = getResource("mem", offer, TRUE)
            /\ e + od = getResource("disk", offer, TRUE)
    BY <1>1, <1>2, <1>3 DEF Conserved, Shares
  <1>6. Balances <=>
            /\ unreserved.cpus + Total(Takers, Cpus) + Shares * CPUS_PER_EXECUTOR
                 = getResource("cpus", offer, FALSE)
            /\ unreserved.mem + Total(Takers, Mem) + Shares * MEM_PER_EXECUTOR
                 = getResource("mem", offer, FALSE)
            /\ d + td + 0 = getResource("disk", offer, FALSE)
            /\ c + oc + 0 = getResource("cpus", offer, TRUE)
            /\ m + om + 0 = getResource("mem", offer, TRUE)
            /\ e + od + 0 = getResource("disk", offer, TRUE)
    BY <1>2, <1>3 DEF Balances, Balanced
  <1>. QED
    BY <1>4, <1>5, <1>6

\* A node takes its share and that of an executor.
LEMMA BalanceTakes ==
    ASSUME NEW left \in Nat, NEW N, IsFiniteSet(N), NEW amount \in [N -> Nat], NEW nodes \in SUBSET N,
           NEW n \in N, n \notin nodes, NEW shares \in Nat, NEW each \in Nat, NEW sum,
           Balanced(left, nodes, amount, shares * each, sum)
    PROVE  Balanced(left - (amount[n] + each), nodes \union {n}, amount, (shares + 1) * each, sum)
  <1>1. PICK a \in Nat, t \in Nat, p \in Nat : a = amount[n] /\ t = Total(nodes, amount) /\ p = shares * each
    BY TotalNat
  <1>2. Total(nodes \union {n}, amount) = t + a
    BY <1>1, TotalAdd
  <1>3. (shares + 1) * each = p + each
    BY <1>1
  <1>4. (left - (a + each)) + (t + a) + (p + each) = left + t + p
    OBVIOUS
  <1>. QED
    BY <1>1, <1>2, <1>3, <1>4 DEF Balanced

\* A node takes its share, and no executor does.
LEMMA BalanceTakesOnly ==
    ASSUME NEW left \in Nat, NEW N, IsFiniteSet(N), NEW amount \in [N -> Nat], NEW nodes \in SUBSET N,
           NEW n \in N, n \notin nodes, NEW sum,
           Balanced(left, nodes, amount, 0, sum)
    PROVE  Balanced(left - amount[n], nodes \union {n}, amount, 0, sum)
  <1>1. PICK a \in Nat, t \in Nat : a = amount[n] /\ t = Total(nodes, amount)
    BY TotalNat
  <1>2. Total(nodes \union {n}, amount) = t + a
    BY <1>1, TotalAdd
  <1>3. (left - a) + (t + a) + 0 = left + t + 0
    OBVIOUS
  <1>. QED
    BY <1>1, <1>2, <1>3 DEF Balanced

\* Only an executor takes its share.
LEMMA BalanceShares ==
    ASSUME NEW left \in Nat, NEW nodes, NEW amount, Total(nodes, amount) \in Nat,
           NEW shares \in Nat, NEW each \in Nat, NEW sum,
           Balanced(left, nodes, amount, shares * each, sum)
    PROVE  Balanced(left - each, nodes, amount, (shares + 1) * each, sum)
  <1>1. PICK t \in Nat, p \in Nat : t = Total(nodes, amount) /\ p = shares * each
    OBVIOUS
  <1>2. (shares + 1) * each = p + each
    BY <1>1
  <1>3. (left - each) + t + (p + each) = left + t + p
    OBVIOUS
  <1>. QED
    BY <1>1, <1>2, <1>3 DEF Balanced

\* Every call of ApplyOffer keeps the balances.
LEMMA BalancesPreserved ==
    ASSUME OfferTypeOK, Balances, NEW n \in Nodes, ApplyOffer(n)
    PROVE  Balances'
  <1>0. /\ Balanced(unreserved.cpus, Takers, Cpus, Shares * CPUS_PER_EXECUTOR, getResource("cpus", offer, FALSE))
        /\ Balanced(unreserved.mem, Takers, Mem, Shares * MEM_PER_EXECUTOR, getResource("mem", offer, FALSE))
        /\ Balanced(unreserved.disk, Takers, Disk, 0, getResource("disk", offer, FALSE))
        /\ Balanced(reserved.cpus, Owners, Cpus, 0, getResource("cpus", offer, TRUE))
        /\ Balanced(reserved.mem, Owners, Mem, 0, getResource("mem", offer, TRUE))
        /\ Balanced(reserved.disk, Owners, Disk, 0, getResource("disk", offer, TRUE))
    BY DEF Balances
  <1>1. /\ n \notin seen /\ offer' = offer /\ compatibilityMode' = compatibilityMode
    BY Outcomes
  <1>2. /\ IsFiniteSet(Nodes) /\ Cpus \in [Nodes -> Nat] /\ Mem \in [Nodes -> Nat] /\ Disk \in [Nodes -> Nat]
        /\ Takers \in SUBSET Nodes /\ Owners \in SUBSET Nodes /\ n \notin Takers /\ n \notin Owners /\ Shares \in Nat
        /\ IsFiniteSet(LaunchedNodes) /\ IsFiniteSet(toReserve) /\ n \notin LaunchedNodes /\ n \notin toReserve
        /\ Total(Takers, Cpus) \in Nat /\ Total(Takers, Mem) \in Nat
        /\ CPUS_PER_EXECUTOR \in Nat /\ MEM_PER_EXECUTOR \in Nat
    BY <1>1, OfferAssumption, AmountType, TakersType DEF OfferTypeOK
  <1>3. Cardinality(LaunchedNodes) \in Nat /\ Cardinality(toReserve) \in Nat
    BY <1>2, FS_CardinalityType
  <1>4. /\ Cardinality(LaunchedNodes \union {n}) = Cardinality(LaunchedNodes) + 1
        /\ Cardinality(toReserve \union {n}) = Cardinality(toReserve) + 1
    BY <1>2, FS_AddElement
  <1>5. /\ unreserved.cpus \in Nat /\ unreserved.mem \in Nat /\ unreserved.disk \in Nat
        /\ reserved.cpus \in Nat /\ reserved.mem \in Nat /\ reserved.disk \in Nat
    BY DEF OfferTypeOK, Group
  <1>6. Cpus[n] = Need[n].cpus /\ Mem[n] = Need[n].mem /\ Disk[n] = Need[n].disk
    BY NeedType
  <1>7. ASSUME NEW loc, LaunchesWhole(n, loc) \/ Reserves(n, loc) PROVE Balances'
    <2>1. /\ unreserved'.cpus = unreserved.cpus - (Cpus[n] + CPUS_PER_EXECUTOR)
          /\ unreserved'.mem = unreserved.mem - (Mem[n] + MEM_PER_EXECUTOR)
          /\ unreserved'.disk = unreserved.disk - Disk[n]
          /\ reserved' = reserved
      BY <1>6, <1>7 DEF LaunchesWhole, Reserves, Taken, Lacks
    <2>2. Takers' = Takers \union {n} /\ Owners' = Owners /\ Shares' = Shares + 1
      <3>1. CASE LaunchesWhole(n, loc)
        <4>1. compatibilityMode /\ toReserve' = toReserve
          BY <3>1 DEF LaunchesWhole
        <4>2. LaunchedNodes' = LaunchedNodes \union {n}
          BY <3>1, LaunchedAdd DEF LaunchesWhole
        <4>. QED
          BY <1>1, <1>3, <1>4, <4>1, <4>2 DEF Takers, Owners, Shares
      <3>2. CASE Reserves(n, loc)
        <4>1. ~compatibilityMode /\ toReserve' = toReserve \union {n} /\ LaunchedNodes' = LaunchedNodes
          BY <3>2 DEF Reserves, LaunchedNodes
        <4>. QED
          BY <1>1, <1>3, <1>4, <4>1 DEF Takers, Owners, Shares
      <3>. QED
        BY <1>7, <3>1, <3>2
    <2>3. Balanced(unreserved'.cpus, Takers', Cpus, Shares' * CPUS_PER_EXECUTOR, getResource("cpus", offer, FALSE))
      <3>1. Balanced(unreserved.cpus - (Cpus[n] + CPUS_PER_EXECUTOR), Takers \union {n}, Cpus, (Shares + 1) * CPUS_PER_EXECUTOR, getResource("cpus", offer, FALSE))
        BY <1>0, <1>2, <1>5, BalanceTakes
      <3>. QED
        BY <2>1, <2>2, <3>1
    <2>4. Balanced(unreserved'.mem, Takers', Mem, Shares' * MEM_PER_EXECUTOR, getResource("mem", offer, FALSE))
      <3>1. Balanced(unreserved.mem - (Mem[n] + MEM_PER_EXECUTOR), Takers \union {n}, Mem, (Shares + 1) * MEM_PER_EXECUTOR, getResource("mem", offer, FALSE))
        BY <1>0, <1>2, <1>5, BalanceTakes
      <3>. QED
        BY <2>1, <2>2, <3>1
    <2>5. Balanced(unreserved'.disk, Takers', Disk, 0, getResource("disk", offer, FALSE))
      <3>1. Balanced(unreserved.disk - Disk[n], Takers \union {n}, Disk, 0, getResource("disk", offer, FALSE))
        BY <1>0, <1>2, <1>5, BalanceTakesOnly
      <3>. QED
        BY <2>1, <2>2, <3>1
    <2>. QED
      BY <1>0, <1>1, <2>1, <2>2, <2>3, <2>4, <2>5 DEF Balances
  <1>8. ASSUME NEW loc, LaunchesReserved(n, loc) PROVE Balances'
    <2>1. /\ unreserved'.cpus = unreserved.cpus - CPUS_PER_EXECUTOR
          /\ unreserved'.mem = unreserved.mem - MEM_PER_EXECUTOR
          /\ unreserved'.disk = unreserved.disk - 0
          /\ reserved'.cpus = reserved.cpus - Cpus[n]
          /\ reserved'.mem = reserved.mem - Mem[n]
          /\ reserved'.disk = reserved.disk - Disk[n]
      BY <1>6, <1>8 DEF LaunchesReserved, Taken, Lacks
    <2>2. Takers' = Takers /\ Owners' = Owners \union {n} /\ Shares' = Shares + 1
      <3>1. ~compatibilityMode /\ toReserve' = toReserve
        BY <1>8 DEF LaunchesReserved
      <3>2. LaunchedNodes' = LaunchedNodes \union {n}
        BY <1>8, LaunchedAdd DEF LaunchesReserved
      <3>. QED
        BY <1>1, <1>3, <1>4, <3>1, <3>2 DEF Takers, Owners, Shares
    <2>3. Balanced(unreserved'.cpus, Takers', Cpus, Shares' * CPUS_PER_EXECUTOR, getResource("cpus", offer, FALSE))
      <3>1. Balanced(unreserved.cpus - CPUS_PER_EXECUTOR, Takers, Cpus, (Shares + 1) * CPUS_PER_EXECUTOR, getResource("cpus", offer, FALSE))
        BY <1>0, <1>2, <1>5, BalanceShares
      <3>. QED
        BY <2>1, <2>2, <3>1
    <2>4. Balanced(unreserved'.mem, Takers', Mem, Shares' * MEM_PER_EXECUTOR, getResource("mem", offer, FALSE))
      <3>1. Balanced(unreserved.mem - MEM_PER_EXECUTOR, Takers, Mem, (Shares + 1) * MEM_PER_EXECUTOR, getResource("mem", offer, FALSE))
        BY <1>0, <1>2, <1>5, BalanceShares
      <3>. QED
        BY <2>1, <2>2, <3>1
    <2>5. unreserved'.disk = unreserved.disk
      BY <1>5, <2>1
    <2>6. Balanced(reserved'.cpus, Owners', Cpus, 0, getResource("cpus", offer, TRUE))
      <3>1. Balanced(reserved.cpus - Cpus[n], Owners \union {n}, Cpus, 0, getResource("cpus", offer, TRUE))
        BY <1>0, <1>2, <1>5, BalanceTakesOnly
      <3>. QED
        BY <2>1, <2>2, <3>1
    <2>7. Balanced(reserved'.mem, Owners', Mem, 0, getResource("mem", offer, TRUE))
      <3>1. Balanced(reserved.mem - Mem[n], Owners \union {n}, Mem, 0, getResource("mem", offer, TRUE))
        BY <1>0, <1>2, <1>5, BalanceTakesOnly
      <3>. QED
        BY <2>1, <2>2, <3>1
    <2>8. Balanced(reserved'.disk, Owners', Disk, 0, getResource("disk", offer, TRUE))
      <3>1. Balanced(reserved.disk - Disk[n], Owners \union {n}, Disk, 0, getResource("disk", offer, TRUE))
        BY <1>0, <1>2, <1>5, BalanceTakesOnly
      <3>. QED
        BY <2>1, <2>2, <3>1
    <2>. QED
      BY <1>0, <1>1, <2>2, <2>3, <2>4, <2>5, <2>6, <2>7, <2>8 DEF Balances
  <1>9. ASSUME UNCHANGED <<reserved, unreserved, tasks, toReserve>> PROVE Balances'
    BY <1>1, <1>9 DEF Balances, Takers, Owners, Shares, LaunchedNodes
  <1>. QED
    BY <1>7, <1>8, <1>9, Outcomes

\* Nothing of an offer is given twice or lost, whatever is offered, however many nodes
\* want of it and in whatever order they come: what is left, what the tasks and their
\* executors ask for and what is reserved or withheld add up (apply(), MakeVolume).
THEOREM ConservedSafe == Spec => []Conserved
  <1>1. Init => Balances
    <2>. SUFFICES ASSUME Init PROVE Balances
      OBVIOUS
    <2>1. PICK o \in Offers : NewOfferHelper(o)
      BY DEF Init
    <2>2. /\ offer = o /\ reserved = ResourceGroup(o, TRUE) /\ unreserved = ResourceGroup(o, FALSE)
          /\ toReserve = {} /\ LaunchedNodes = {}
      BY <2>1 DEF NewOfferHelper, LaunchedNodes
    <2>3. Takers = {} /\ Owners = {}
      BY <2>2 DEF Takers, Owners
    <2>4. Shares = 0
      BY <2>2, FS_EmptySet DEF Shares
    <2>5. Total({}, Cpus) = 0 /\ Total({}, Mem) = 0 /\ Total({}, Disk) = 0
      BY FS_EmptySet, TotalStep
    <2>6. \A left \in Nat : left + 0 + 0 = left
      OBVIOUS
    <2>7. 0 * CPUS_PER_EXECUTOR = 0 /\ 0 * MEM_PER_EXECUTOR = 0
      BY OfferAssumption
    <2>8. /\ unreserved.cpus = getResource("cpus", offer, FALSE) /\ unreserved.cpus \in Nat
          /\ unreserved.mem = getResource("mem", offer, FALSE) /\ unreserved.mem \in Nat
          /\ unreserved.disk = getResource("disk", offer, FALSE) /\ unreserved.disk \in Nat
          /\ reserved.cpus = getResource("cpus", offer, TRUE) /\ reserved.cpus \in Nat
          /\ reserved.mem = getResource("mem", offer, TRUE) /\ reserved.mem \in Nat
          /\ reserved.disk = getResource("disk", offer, TRUE) /\ reserved.disk \in Nat
      <3>1. OfferTypeOK
        BY OfferInit
      <3>. QED
        BY <2>2, <3>1 DEF ResourceGroup, OfferTypeOK, Group
    <2>. QED
      BY <2>3, <2>4, <2>5, <2>6, <2>7, <2>8 DEF Balances, Balanced
  <1>2. OfferTypeOK /\ Balances /\ [Next]_vars => Balances'
    <2>. SUFFICES ASSUME OfferTypeOK, Balances, [Next]_vars PROVE Balances'
      OBVIOUS
    <2>1. ASSUME UNCHANGED <<compatibilityMode, offer, reserved, unreserved, tasks, toReserve>> PROVE Balances'
      BY <2>1 DEF Balances, Takers, Owners, Shares, LaunchedNodes
    <2>2. ASSUME NEW b \in BOOLEAN, MaybeUnreserve(b) PROVE Balances'
      BY <2>1, <2>2 DEF MaybeUnreserve
    <2>. QED
      BY <2>1, <2>2, BalancesPreserved DEF Next, vars
  <1>3. OfferTypeOK /\ Balances => Conserved
    BY ConservedBalances
  <1>. QED
    BY <1>1, <1>2, <1>3, OfferTypes, PTL DEF Spec

-----------------------------------------------------------------------------
(* The master performs an answer *)

\* The resources of an offer are finitely many, and each has an amount.
LEMMA ValueType ==
    ASSUME NEW o \in Offers
    PROVE  IsFiniteSet(Range(o)) /\ [r \in Range(o) |-> r.value] \in [Range(o) -> Nat]
  <1>1. DOMAIN o = 1 .. Len(o) /\ Len(o) \in Nat /\ \A r \in Range(o) : r.value \in Nat
    BY OfferAssumption
  <1>2. IsFiniteSet(1 .. Len(o))
    BY <1>1, FS_Interval
  <1>3. [i \in 1 .. Len(o) |-> o[i]] \in Surjection(1 .. Len(o), Range(o))
    BY <1>1 DEF Surjection, Range
  <1>4. IsFiniteSet(Range(o))
    BY <1>2, <1>3, FS_Surjection
  <1>. QED
    BY <1>1, <1>4

\* Resources of one name, as a set, are no more than getResource() counts, which
\* counts each as often as it is there.
LEMMA SetWithinSum ==
    ASSUME NEW o \in Offers, NEW name, NEW S \in SUBSET Range(o), \A r \in S : r.name = name /\ r.reserved
    PROVE  /\ Total(S, [r \in Range(o) |-> r.value]) \in Nat
           /\ getResource(name, o, TRUE) \in Nat
           /\ Total(S, [r \in Range(o) |-> r.value]) <= getResource(name, o, TRUE)
  <1>. DEFINE N == Len(o)
              V == [r \in Range(o) |-> r.value]
              First(k) == {o[i] : i \in 1 .. k}
              Part(k) == S \intersect First(k)
  <1>1. IsFiniteSet(Range(o)) /\ V \in [Range(o) -> Nat] /\ \A r \in Range(o) : V[r] = r.value
    BY ValueType
  <1>2. N \in Nat /\ DOMAIN o = 1 .. N
    BY OfferAssumption
  <1>3. \A r \in Range(o) : r.reserved \in BOOLEAN
    BY OfferAssumption
  <1>4. \A r \in S : Adding(r, name, TRUE) = r.value
    BY <1>3 DEF Adding
  <1>5. PICK h \in [0 .. N -> Nat] :
           /\ h[0] = 0 /\ \A k \in 1 .. N : h[k] = h[k - 1] + Adding(o[k], name, TRUE)
           /\ getResource(name, o, TRUE) = h[N]
    BY ResourceRuns
  <1>6. \A k \in 1 .. N : Adding(o[k], name, TRUE) \in Nat
    BY ResourceRuns
  <1>. HIDE DEF N, V
  <1>7. \A k \in 0 .. N : Part(k) \in SUBSET Range(o) /\ Total(Part(k), V) \in Nat /\ h[k] \in Nat
    BY <1>1, TotalNat
  <1>8. Part(N) = S
    BY <1>2 DEF Range
  <1>9. Part(0) = {}
    OBVIOUS
  <1>10. ASSUME NEW k \in 1 .. N
         PROVE  /\ o[k] \in Range(o)
                /\ o[k] \in S /\ o[k] \notin Part(k - 1) => Part(k) = Part(k - 1) \union {o[k]}
                /\ ~(o[k] \in S /\ o[k] \notin Part(k - 1)) => Part(k) = Part(k - 1)
    <2>1. o[k] \in Range(o)
      BY <1>2 DEF Range
    <2>2. First(k) = First(k - 1) \union {o[k]}
      <3>1. 1 .. k = (1 .. (k - 1)) \union {k}
        BY <1>2
      <3>. QED
        BY <3>1
    <2>. HIDE DEF First
    <2>. QED
      BY <2>1, <2>2
  <1>. HIDE DEF Part
  <1>11. ASSUME NEW k \in 1 .. N, Total(Part(k - 1), V) <= h[k - 1]
         PROVE  Total(Part(k), V) <= h[k]
    <2>1. k - 1 \in 0 .. N /\ k \in 0 .. N
      BY <1>2
    <2>2. PICK p \in Nat, q \in Nat, a \in Nat :
             p = Total(Part(k - 1), V) /\ q = h[k - 1] /\ a = Adding(o[k], name, TRUE)
      BY <1>6, <1>7, <2>1
    <2>3. p <= q /\ h[k] = q + a
      BY <1>5, <1>11, <2>2
    <2>4. CASE o[k] \in S /\ o[k] \notin Part(k - 1)
      <3>1. Part(k) = Part(k - 1) \union {o[k]} /\ o[k] \in Range(o)
        BY <1>10, <2>4
      <3>2. Part(k - 1) \in SUBSET Range(o)
        BY <1>7, <2>1
      <3>3. Total(Part(k), V) = Total(Part(k - 1), V) + V[o[k]]
        BY <1>1, <2>4, <3>1, <3>2, TotalAdd
      <3>4. V[o[k]] = a
        BY <1>1, <1>4, <2>2, <2>4, <3>1
      <3>5. Total(Part(k), V) = p + a
        BY <2>2, <3>3, <3>4
      <3>. QED
        BY <2>3, <3>5
    <2>5. CASE ~(o[k] \in S /\ o[k] \notin Part(k - 1))
      <3>1. Part(k) = Part(k - 1)
        BY <1>10, <2>5
      <3>2. Total(Part(k), V) = p
        BY <2>2, <3>1
      <3>. QED
        BY <2>3, <3>2
    <2>. QED
      BY <2>4, <2>5
  <1>. DEFINE Bad == {k \in 0 .. N : ~(Total(Part(k), V) <= h[k])}
  <1>12. ASSUME Bad # {} PROVE FALSE
    <2>1. Bad \subseteq Nat
      BY <1>2
    <2>2. PICK k \in Bad : \A m \in Bad : k <= m
      <3>. HIDE DEF Bad
      <3>. QED
        BY <1>12, <2>1, SmallestNat
    <2>3. k # 0
      <3>1. Total({}, V) = 0
        BY <1>1, TotalStep
      <3>. QED
        BY <1>5, <1>9, <2>2, <3>1
    <2>4. k \in 1 .. N /\ k - 1 \in 0 .. N /\ ~(k <= k - 1)
      BY <1>2, <2>2, <2>3
    <2>5. Total(Part(k - 1), V) <= h[k - 1]
      BY <2>2, <2>4
    <2>. QED
      BY <1>11, <2>2, <2>4, <2>5
  <1>13. N \in 0 .. N
    BY <1>2
  <1>14. Total(Part(N), V) <= h[N] /\ Total(Part(N), V) \in Nat /\ h[N] \in Nat
    BY <1>7, <1>12, <1>13
  <1>. QED
    BY <1>5, <1>8, <1>14 DEF V

\* it is the fold of Perform over the operations of an answer.
IsPerformFold(it, base, ops) ==
    it = [s \in SUBSET DOMAIN ops |-> IF s = {} THEN base ELSE Perform(it[s \ {Max(s)}], ops[Max(s)])]

\* There is one, for any number of operations.
LEMMA PerformFoldExists ==
    ASSUME NEW N \in Nat, NEW base, NEW ops, DOMAIN ops = 1 .. N
    PROVE  \E it : IsPerformFold(it, base, ops)
  <1>. DEFINE Good(n) == \E it : it = [s \in SUBSET (1 .. n) |->
                                          IF s = {} THEN base ELSE Perform(it[s \ {Max(s)}], ops[Max(s)])]
              Bad == {n \in 0 .. N : ~Good(n)}
  <1>1. Good(0)
    <2>. DEFINE it == [s \in SUBSET (1 .. 0) |-> base]
    <2>1. \A s \in SUBSET (1 .. 0) : s = {}
      OBVIOUS
    <2>2. it = [s \in SUBSET (1 .. 0) |-> IF s = {} THEN base ELSE Perform(it[s \ {Max(s)}], ops[Max(s)])]
      BY <2>1
    <2>. QED
      BY <2>2
  <1>2. ASSUME NEW n \in 1 .. N, Good(n - 1) PROVE Good(n)
    <2>1. PICK it : it = [s \in SUBSET (1 .. (n - 1)) |->
                             IF s = {} THEN base ELSE Perform(it[s \ {Max(s)}], ops[Max(s)])]
      BY <1>2
    <2>. DEFINE more == [s \in SUBSET (1 .. n) |-> IF n \in s THEN Perform(it[s \ {n}], ops[n]) ELSE it[s]]
    <2>2. \A s \in SUBSET (1 .. n) : s \ {n} \in SUBSET (1 .. (n - 1)) /\ (n \notin s => s \in SUBSET (1 .. (n - 1)))
      OBVIOUS
    <2>3. it[{}] = base /\ more[{}] = base
      BY <2>1
    <2>4. ASSUME NEW s \in SUBSET (1 .. n), s # {}
          PROVE  more[s] = Perform(more[s \ {Max(s)}], ops[Max(s)])
      <3>1. Max(s) \in s /\ Max(s) \in 1 .. n /\ \A i \in s : i <= Max(s)
        <4>1. n \in Nat
          OBVIOUS
        <4>. HIDE DEF more
        <4>. QED
          BY <2>4, <4>1, LastPosition
      <3>2. CASE n \in s
        <4>1. Max(s) = n
          BY <3>1, <3>2
        <4>2. more[s \ {n}] = it[s \ {n}] /\ more[s] = Perform(it[s \ {n}], ops[n])
          BY <2>2, <3>2
        <4>. QED
          BY <4>1, <4>2
      <3>3. CASE n \notin s
        <4>1. s \in SUBSET (1 .. (n - 1)) /\ s \ {Max(s)} \in SUBSET (1 .. n) /\ n \notin s \ {Max(s)}
          BY <2>2, <3>3
        <4>2. it[s] = Perform(it[s \ {Max(s)}], ops[Max(s)])
          BY <2>1, <2>4, <4>1
        <4>3. more[s] = it[s] /\ more[s \ {Max(s)}] = it[s \ {Max(s)}]
          BY <3>3, <4>1
        <4>. QED
          BY <4>2, <4>3
      <3>. QED
        BY <3>2, <3>3
    <2>5. more = [s \in SUBSET (1 .. n) |-> more[s]]
      OBVIOUS
    <2>. HIDE DEF more
    <2>6. more = [s \in SUBSET (1 .. n) |-> IF s = {} THEN base ELSE Perform(more[s \ {Max(s)}], ops[Max(s)])]
      BY <2>3, <2>4, <2>5
    <2>. QED
      BY <2>6
  <1>. HIDE DEF Good
  <1>3. ASSUME Bad # {} PROVE FALSE
    <2>1. Bad \subseteq Nat
      OBVIOUS
    <2>2. \E n \in Bad : \A m \in Bad : n <= m
      <3>. HIDE DEF Bad
      <3>. QED
        BY <1>3, <2>1, SmallestNat
    <2>3. PICK n \in 0 .. N : ~Good(n) /\ \A m \in 0 .. N : ~Good(m) => n <= m
      BY <2>2
    <2>4. n # 0
      BY <1>1, <2>3
    <2>5. n \in 1 .. N /\ n - 1 \in 0 .. N /\ ~(n <= n - 1)
      BY <2>3, <2>4
    <2>. QED
      BY <1>2, <2>3, <2>5
  <1>4. N \in 0 .. N
    OBVIOUS
  <1>5. Good(N)
    BY <1>3, <1>4
  <1>6. PICK it : it = [s \in SUBSET (1 .. N) |->
                           IF s = {} THEN base ELSE Perform(it[s \ {Max(s)}], ops[Max(s)])]
    BY <1>5 DEF Good
  <1>7. IsPerformFold(it, base, ops)
    BY <1>6 DEF IsPerformFold
  <1>. QED
    BY <1>7

\* What is left once the master has performed all of them.
Performed(base, ops) == FoldLeft(Perform, base, ops)

\* The master goes from one operation to the next.
PerformRun(h, base, ops) ==
    /\ h[0] = base /\ \A k \in 1 .. Len(ops) : h[k] = Perform(h[k - 1], ops[k])
    /\ Performed(base, ops) = h[Len(ops)]

\* It begins with the offer and ends with the last operation.
LEMMA PerformRuns ==
    ASSUME NEW S, NEW base, NEW ops \in Seq(S)
    PROVE  \E h : PerformRun(h, base, ops)
  <1>. DEFINE N == Len(ops)
              iter == CHOOSE it : IsPerformFold(it, base, ops)
              h == [k \in 0 .. N |-> iter[1 .. k]]
  <1>1. N \in Nat /\ DOMAIN ops = 1 .. N
    BY LenProperties
  <1>2. Performed(base, ops) = iter[1 .. N]
    BY <1>1 DEF Performed, FoldLeft, MapThenFoldSet, IsPerformFold
  <1>3. IsPerformFold(iter, base, ops)
    BY <1>1, PerformFoldExists
  <1>. HIDE DEF iter
  <1>4. iter = [s \in SUBSET (1 .. N) |-> IF s = {} THEN base ELSE Perform(iter[s \ {Max(s)}], ops[Max(s)])]
    BY <1>1, <1>3 DEF IsPerformFold
  <1>. HIDE DEF N
  <1>5. h[0] = base /\ h[N] = iter[1 .. N]
    <2>1. 1 .. 0 = {} /\ 0 \in 0 .. N /\ N \in 0 .. N
      BY <1>1
    <2>2. iter[{}] = base
      BY <1>4
    <2>. QED
      BY <2>1, <2>2
  <1>6. ASSUME NEW k \in 1 .. N PROVE h[k] = Perform(h[k - 1], ops[k])
    <2>1. 1 .. k \in SUBSET (1 .. N) /\ 1 .. k # {} /\ k \in 1 .. k /\ k \in Nat /\ k \in 0 .. N /\ k - 1 \in 0 .. N
      BY <1>1
    <2>2. Max(1 .. k) \in 1 .. k /\ \A i \in 1 .. k : i <= Max(1 .. k)
      BY <2>1, LastPosition
    <2>3. Max(1 .. k) = k
      BY <2>1, <2>2
    <2>4. (1 .. k) \ {k} = 1 .. (k - 1)
      BY <2>1
    <2>5. iter[1 .. k] = Perform(iter[1 .. (k - 1)], ops[k])
      BY <1>4, <2>1, <2>3, <2>4
    <2>. QED
      BY <2>1, <2>5
  <1>. HIDE DEF h
  <1>7. PerformRun(h, base, ops)
    BY <1>2, <1>5, <1>6 DEF PerformRun, N
  <1>. QED
    BY <1>7

\* One operation more is performed after the others; none is nothing.
LEMMA PerformOneMore ==
    ASSUME NEW S, NEW base, NEW ops \in Seq(S), NEW op \in S
    PROVE  Performed(base, Append(ops, op)) = Perform(Performed(base, ops), op)
  <1>. DEFINE N == Len(ops)
              more == Append(ops, op)
  <1>1. N \in Nat /\ more \in Seq(S) /\ Len(more) = N + 1 /\ more[N + 1] = op /\ \A i \in 1 .. N : more[i] = ops[i]
    BY LenProperties, AppendProperties
  <1>2. PICK h : PerformRun(h, base, ops)
    BY PerformRuns
  <1>3. h[0] = base /\ (\A k \in 1 .. N : h[k] = Perform(h[k - 1], ops[k])) /\ Performed(base, ops) = h[N]
    BY <1>2 DEF PerformRun
  <1>. HIDE DEF N, more
  <1>4. PICK g : PerformRun(g, base, more)
    BY <1>1, PerformRuns
  <1>5. /\ g[0] = base /\ \A k \in 1 .. (N + 1) : g[k] = Perform(g[k - 1], more[k])
        /\ Performed(base, more) = g[N + 1]
    BY <1>1, <1>4 DEF PerformRun
  <1>6. ASSUME NEW k \in 1 .. N, g[k - 1] = h[k - 1] PROVE g[k] = h[k]
    <2>1. k \in 1 .. (N + 1)
      BY <1>1
    <2>. QED
      BY <1>1, <1>3, <1>5, <1>6, <2>1
  <1>7. g[N] = h[N]
    <2>1. GoAlike(g, h, N)
      BY <1>3, <1>5, <1>6 DEF GoAlike
    <2>. QED
      BY <1>1, <2>1, RunsAgree
  <1>8. N + 1 \in 1 .. (N + 1) /\ (N + 1) - 1 = N
    BY <1>1
  <1>9. g[N + 1] = Perform(g[N], op)
    BY <1>1, <1>5, <1>8
  <1>. QED
    BY <1>3, <1>5, <1>7, <1>9 DEF more

\* What the agent has, as the master counts it, after operations it has all accepted.
Fields == {"cpus", "mem", "disk", "rcpus", "rmem", "rdisk", "vols", "ok"}
Has(p, c, m, d, rc, rm, rd, v) ==
    /\ DOMAIN p = Fields
    /\ p.cpus = c /\ p.mem = m /\ p.disk = d /\ p.rcpus = rc /\ p.rmem = rm /\ p.rdisk = rd
    /\ p.vols = v /\ p.ok = TRUE

\* How Perform() ends: the master refuses an operation that makes an amount negative.
Checked(new) ==
    [new EXCEPT !.ok = @ /\ \A f \in {"cpus", "mem", "disk", "rcpus", "rmem", "rdisk"} : new[f] >= 0]

\* The master refuses nothing as long as no amount gets negative.
LEMMA NothingRefused ==
    ASSUME NEW c \in Nat, NEW m \in Nat, NEW d \in Nat, NEW rc \in Nat, NEW rm \in Nat, NEW rd \in Nat, NEW v,
           NEW new, Has(new, c, m, d, rc, rm, rd, v)
    PROVE  Has(Checked(new), c, m, d, rc, rm, rd, v)
  <1>. DEFINE Fits == \A f \in {"cpus", "mem", "disk", "rcpus", "rmem", "rdisk"} : new[f] >= 0
  <1>1. Fits
    BY DEF Has
  <1>2. new.ok = TRUE
    BY DEF Has
  <1>3. (new.ok /\ Fits) = TRUE
    BY <1>1, <1>2
  <1>4. Checked(new) = [new EXCEPT !.ok = TRUE]
    BY <1>3 DEF Checked
  <1>5. Has([new EXCEPT !.ok = TRUE], c, m, d, rc, rm, rd, v)
    BY DEF Has, Fields
  <1>. QED
    BY <1>4, <1>5

\* Reserving takes from what is not reserved.
LEMMA PerformReserve ==
    ASSUME NEW c \in Nat, NEW m \in Nat, NEW d \in Nat, NEW rc \in Nat, NEW rm \in Nat, NEW rd \in Nat, NEW v,
           NEW p, Has(p, c, m, d, rc, rm, rd, v),
           NEW nodes, NEW x \in Nat, NEW y \in Nat, NEW z \in Nat,
           x = Total(nodes, Cpus), y = Total(nodes, Mem), z = Total(nodes, Disk), c >= x, m >= y, d >= z
    PROVE  Has(Perform(p, <<"RESERVE", nodes>>), c - x, m - y, d - z, rc + x, rm + y, rd + z, v)
  <1>. DEFINE new == Move(p, x, y, z)
  <1>1. Has(new, c - x, m - y, d - z, rc + x, rm + y, rd + z, v)
    BY DEF Move, Has, Fields
  <1>2. c - x \in Nat /\ m - y \in Nat /\ d - z \in Nat /\ rc + x \in Nat /\ rm + y \in Nat /\ rd + z \in Nat
    OBVIOUS
  <1>. HIDE DEF new
  <1>3. Has(Checked(new), c - x, m - y, d - z, rc + x, rm + y, rd + z, v)
    BY <1>1, <1>2, NothingRefused
  <1>4. Perform(p, <<"RESERVE", nodes>>) = Checked(new)
    BY DEF Perform, new, Checked
  <1>. QED
    BY <1>3, <1>4

\* Volumes are made of reserved disk.
LEMMA PerformCreate ==
    ASSUME NEW c \in Nat, NEW m \in Nat, NEW d \in Nat, NEW rc \in Nat, NEW rm \in Nat, NEW rd \in Nat, NEW v,
           NEW p, Has(p, c, m, d, rc, rm, rd, v),
           NEW nodes, NEW z \in Nat, z = Total(nodes, Disk), rd >= z
    PROVE  Has(Perform(p, <<"CREATE", nodes>>), c, m, d, rc, rm, rd - z, v \union nodes)
  <1>. DEFINE new == [p EXCEPT !.rdisk = @ - z, !.vols = @ \union nodes]
  <1>1. Has(new, c, m, d, rc, rm, rd - z, v \union nodes)
    BY DEF Has, Fields
  <1>2. rd - z \in Nat
    OBVIOUS
  <1>. HIDE DEF new
  <1>3. Has(Checked(new), c, m, d, rc, rm, rd - z, v \union nodes)
    BY <1>1, <1>2, NothingRefused
  <1>4. Perform(p, <<"CREATE", nodes>>) = Checked(new)
    BY DEF Perform, new, Checked
  <1>. QED
    BY <1>3, <1>4

\* What resources of one name amount to.
Named(content, name) == Total({r \in content : r.name = name}, Value)

\* Reservations that are given up can be had by anyone.
LEMMA PerformUnreserve ==
    ASSUME NEW c \in Nat, NEW m \in Nat, NEW d \in Nat, NEW rc \in Nat, NEW rm \in Nat, NEW rd \in Nat, NEW v,
           NEW p, Has(p, c, m, d, rc, rm, rd, v),
           NEW content, NEW x \in Nat, NEW y \in Nat, NEW z \in Nat,
           x = Named(content, "cpus"), y = Named(content, "mem"), z = Named(content, "disk"),
           rc >= x, rm >= y, rd >= z
    PROVE  Has(Perform(p, <<"UNRESERVE", content>>), c + x, m + y, d + z, rc - x, rm - y, rd - z, v)
  <1>. DEFINE new == Move(p, -x, -y, -z)
  <1>1. Has(new, c + x, m + y, d + z, rc - x, rm - y, rd - z, v)
    BY DEF Move, Has, Fields
  <1>2. c + x \in Nat /\ m + y \in Nat /\ d + z \in Nat /\ rc - x \in Nat /\ rm - y \in Nat /\ rd - z \in Nat
    OBVIOUS
  <1>. HIDE DEF new
  <1>3. Has(Checked(new), c + x, m + y, d + z, rc - x, rm - y, rd - z, v)
    BY <1>1, <1>2, NothingRefused
  <1>4. Perform(p, <<"UNRESERVE", content>>) = Checked(new)
    BY DEF Perform, new, Checked, Named
  <1>. QED
    BY <1>3, <1>4

\* A volume that is destroyed has to be there, and leaves reserved disk.
LEMMA PerformDestroy ==
    ASSUME NEW c \in Nat, NEW m \in Nat, NEW d \in Nat, NEW rc \in Nat, NEW rm \in Nat, NEW rd \in Nat, NEW v,
           NEW p, Has(p, c, m, d, rc, rm, rd, v),
           NEW content, {r.id : r \in content} \subseteq v, NEW z \in Nat, z = Named(content, "disk")
    PROVE  Has(Perform(p, <<"DESTROY", content>>), c, m, d, rc, rm, rd + z, v \ {r.id : r \in content})
  <1>. DEFINE ids == {r.id : r \in content}
              new == [p EXCEPT !.rdisk = @ + z, !.vols = @ \ ids, !.ok = @ /\ ids \subseteq p.vols]
              same == [p EXCEPT !.rdisk = @ + z, !.vols = @ \ ids, !.ok = TRUE]
  <1>1. Perform(p, <<"DESTROY", content>>) = Checked(new)
    BY DEF Perform, Checked, Named
  <1>2. ids \subseteq v
    OBVIOUS
  <1>. HIDE DEF ids
  <1>3. p.vols = v /\ p.ok = TRUE
    BY DEF Has
  <1>4. (p.ok /\ ids \subseteq p.vols) = TRUE
    BY <1>2, <1>3
  <1>5. new = same
    BY <1>4
  <1>6. Has(same, c, m, d, rc, rm, rd + z, v \ ids)
    BY DEF Has, Fields
  <1>. HIDE DEF new, same
  <1>7. rd + z \in Nat
    OBVIOUS
  <1>8. Has(Checked(new), c, m, d, rc, rm, rd + z, v \ ids)
    BY <1>5, <1>6, <1>7, NothingRefused
  <1>. QED
    BY <1>1, <1>8 DEF ids

\* The nodes that are launched without a reservation.
Launchers == IF compatibilityMode THEN LaunchedNodes ELSE {}

\* What launches leave of what is there.
LaunchesLeave(c, m, d, rc, rm, c1, m1, d1, rc1, rm1) ==
    /\ c1 = c - Total(Launchers, Cpus) - Cardinality(LaunchedNodes) * CPUS_PER_EXECUTOR
    /\ m1 = m - Total(Launchers, Mem) - Cardinality(LaunchedNodes) * MEM_PER_EXECUTOR
    /\ d1 = d - Total(Launchers, Disk)
    /\ rc1 = rc - Total(Owners, Cpus)
    /\ rm1 = rm - Total(Owners, Mem)

\* Tasks take what is not reserved, and what is, and the volumes of their nodes.
LEMMA PerformLaunch ==
    ASSUME NEW c \in Nat, NEW m \in Nat, NEW d \in Nat, NEW rc \in Nat, NEW rm \in Nat, NEW rd \in Nat, NEW v,
           NEW p, Has(p, c, m, d, rc, rm, rd, v),
           NEW c1 \in Nat, NEW m1 \in Nat, NEW d1 \in Nat, NEW rc1 \in Nat, NEW rm1 \in Nat,
           LaunchesLeave(c, m, d, rc, rm, c1, m1, d1, rc1, rm1)
    PROVE  Has(Perform(p, <<"LAUNCH", tasks>>), c1, m1, d1, rc1, rm1, rd, v \ LaunchedNodes)
  <1>. DEFINE new == [p EXCEPT !.cpus = @ - Total(Launchers, Cpus) - Cardinality(LaunchedNodes) * CPUS_PER_EXECUTOR,
                               !.mem = @ - Total(Launchers, Mem) - Cardinality(LaunchedNodes) * MEM_PER_EXECUTOR,
                               !.disk = @ - Total(Launchers, Disk),
                               !.rcpus = @ - Total(Owners, Cpus),
                               !.rmem = @ - Total(Owners, Mem),
                               !.vols = @ \ LaunchedNodes]
  <1>1. Has(new, c1, m1, d1, rc1, rm1, rd, v \ LaunchedNodes)
    BY DEF Has, Fields, LaunchesLeave
  <1>2. LaunchedNodes \ Launchers = Owners
    BY DEF Launchers, Owners
  <1>3. Perform(p, <<"LAUNCH", tasks>>) = Checked(new)
    <2>1. LaunchedNodes = {t.node : t \in tasks} /\ Launchers = IF compatibilityMode THEN LaunchedNodes ELSE {}
      BY DEF LaunchedNodes, Launchers
    <2>. QED
      BY <1>2, <2>1 DEF Perform, Checked
  <1>. HIDE DEF new
  <1>4. Has(Checked(new), c1, m1, d1, rc1, rm1, rd, v \ LaunchedNodes)
    BY <1>1, NothingRefused
  <1>. QED
    BY <1>3, <1>4

\* An operation without content is left out of an answer.
Optional(type, content) == IF content = {} THEN <<>> ELSE << <<type, content>> >>
Then(p, type, content) == IF content = {} THEN p ELSE Perform(p, <<type, content>>)

\* The master performs it if it is there.
LEMMA PerformOptional ==
    ASSUME NEW S, NEW base, NEW ops \in Seq(S), NEW type, NEW content, <<type, content>> \in S
    PROVE  /\ ops \o Optional(type, content) \in Seq(S)
           /\ Performed(base, ops \o Optional(type, content))
                = Then(Performed(base, ops), type, content)
  <1>1. CASE content = {}
    <2>1. ops \o Optional(type, content) = ops
      BY <1>1, ConcatEmptySeq DEF Optional
    <2>. QED
      BY <1>1, <2>1 DEF Then
  <1>2. CASE content # {}
    <2>. DEFINE op == <<type, content>>
    <2>1. Optional(type, content) = <<op>>
      BY <1>2 DEF Optional
    <2>. HIDE DEF op
    <2>2. op \in S
      BY DEF op
    <2>3. ops \o <<op>> = Append(ops, op) /\ Append(ops, op) \in Seq(S)
      BY <2>2, AppendIsConcat, AppendProperties
    <2>4. Performed(base, Append(ops, op)) = Perform(Performed(base, ops), op)
      BY <2>2, PerformOneMore
    <2>. QED
      BY <1>2, <2>1, <2>3, <2>4 DEF Then, op
  <1>. QED
    BY <1>1, <1>2

\* An answer is performed in this order.
LEMMA AnswerPerformed ==
    Performed(Pool, Operations)
      = Then(Then(Then(Then(Then(Pool, "LAUNCH", tasks), "DESTROY", toDestroy), "UNRESERVE", toUnreserve),
                  "RESERVE", toReserve), "CREATE", toReserve)
  <1>. DEFINE S == {<<"LAUNCH", tasks>>, <<"DESTROY", toDestroy>>, <<"UNRESERVE", toUnreserve>>,
                    <<"RESERVE", toReserve>>, <<"CREATE", toReserve>>}
              o0 == <<>>
              o1 == o0 \o Optional("LAUNCH", tasks)
              o2 == o1 \o Optional("DESTROY", toDestroy)
              o3 == o2 \o Optional("UNRESERVE", toUnreserve)
              o4 == o3 \o Optional("RESERVE", toReserve)
              o5 == o4 \o Optional("CREATE", toReserve)
  <1>1. /\ <<"LAUNCH", tasks>> \in S /\ <<"DESTROY", toDestroy>> \in S /\ <<"UNRESERVE", toUnreserve>> \in S
        /\ <<"RESERVE", toReserve>> \in S /\ <<"CREATE", toReserve>> \in S
    OBVIOUS
  <1>2. Optional("LAUNCH", tasks) \in Seq(S) /\ o0 \in Seq(S)
    BY <1>1 DEF Optional
  <1>3. o1 = Optional("LAUNCH", tasks)
    <2>. HIDE DEF S
    <2>. QED
      BY <1>2, ConcatEmptySeq
  <1>4. Operations = o5
    BY <1>3 DEF Operations, Optional
  <1>. HIDE DEF S
  <1>5. Performed(Pool, o0) = Pool
    <2>1. PICK h : PerformRun(h, Pool, o0)
      BY <1>2, PerformRuns
    <2>2. Len(o0) = 0
      OBVIOUS
    <2>. QED
      BY <2>1, <2>2 DEF PerformRun
  <1>. HIDE DEF o0
  <1>6. o1 \in Seq(S) /\ Performed(Pool, o1) = Then(Pool, "LAUNCH", tasks)
    BY <1>1, <1>2, <1>5, PerformOptional
  <1>. HIDE DEF o1
  <1>7. o2 \in Seq(S) /\ Performed(Pool, o2) = Then(Performed(Pool, o1), "DESTROY", toDestroy)
    BY <1>1, <1>6, PerformOptional
  <1>. HIDE DEF o2
  <1>8. o3 \in Seq(S) /\ Performed(Pool, o3) = Then(Performed(Pool, o2), "UNRESERVE", toUnreserve)
    BY <1>1, <1>7, PerformOptional
  <1>. HIDE DEF o3
  <1>9. o4 \in Seq(S) /\ Performed(Pool, o4) = Then(Performed(Pool, o3), "RESERVE", toReserve)
    BY <1>1, <1>8, PerformOptional
  <1>. HIDE DEF o4
  <1>10. Performed(Pool, o5) = Then(Performed(Pool, o4), "CREATE", toReserve)
    BY <1>1, <1>9, PerformOptional
  <1>. HIDE DEF o5
  <1>. QED
    BY <1>4, <1>6, <1>7, <1>8, <1>9, <1>10

\* What an answer gives back it gives back whole, and only when it launches nothing;
\* without reservations nothing is reserved.
AnswerShape ==
    /\ compatibilityMode => toReserve = {}
    /\ toDestroy # {} => tasks = {} /\ toDestroy = FilterReservedVolumes(offer)
    /\ toUnreserve # {} =>
          /\ tasks = {} /\ toUnreserve = FilterReservedResources(offer)
          /\ toDestroy = FilterReservedVolumes(offer)
    /\ ~answered => toDestroy = {} /\ toUnreserve = {}

\* Every step keeps that: nothing is launched once the answer is given.
LEMMA AnswerShapePreserved ==
    ASSUME OfferTypeOK, AnswerShape, [Next]_vars
    PROVE  AnswerShape'
  <1>1. ASSUME NEW n \in Nodes, ApplyOffer(n) PROVE AnswerShape'
    <2>1. ~answered /\ UNCHANGED <<toUnreserve, toDestroy>>
      BY <1>1 DEF ApplyOffer
    <2>2. compatibilityMode' = compatibilityMode /\ (toReserve' = toReserve \/ ~compatibilityMode)
      BY <1>1, Outcomes DEF LaunchesWhole, LaunchesReserved, Reserves
    <2>. QED
      BY <2>1, <2>2 DEF AnswerShape
  <1>2. ASSUME NEW b \in BOOLEAN, MaybeUnreserve(b) PROVE AnswerShape'
    <2>1. UNCHANGED <<compatibilityMode, offer, tasks, toReserve>> /\ answered'
      BY <1>2 DEF MaybeUnreserve
    <2>2. toDestroy' = {} \/ (tasks = {} /\ toDestroy' = FilterReservedVolumes(offer))
      BY <1>2 DEF MaybeUnreserve
    <2>3. \/ toUnreserve' = {}
          \/ /\ tasks = {} /\ toUnreserve' = FilterReservedResources(offer)
             /\ toDestroy' = FilterReservedVolumes(offer)
      BY <1>2 DEF MaybeUnreserve
    <2>. QED
      BY <2>1, <2>2, <2>3 DEF AnswerShape
  <1>3. CASE UNCHANGED vars
    BY <1>3 DEF vars, AnswerShape
  <1>. QED
    BY <1>1, <1>2, <1>3 DEF Next

\* The disk that volumes are made of, and what else is offered.
VolumesSize == Total(FilterReservedVolumes(offer), Value)

\* There is as much reserved as the volumes, and the resources to unreserve, need.
LEMMA OfferedAmounts ==
    ASSUME OfferTypeOK
    PROVE  /\ \A name, w : getResource(name, offer, w) \in Nat
           /\ VolumesSize \in Nat /\ VolumesSize <= getResource("disk", offer, TRUE)
           /\ Named(FilterReservedVolumes(offer), "disk") = VolumesSize
           /\ \A name : /\ Named(FilterReservedResources(offer), name) \in Nat
                        /\ Named(FilterReservedResources(offer), name) <= getResource(name, offer, TRUE)
  <1>1. offer \in Offers
    BY DEF OfferTypeOK
  <1>2. \A name, w : getResource(name, offer, w) \in Nat
    BY <1>1, ResourceRuns
  <1>3. FilterReservedVolumes(offer) \in SUBSET Range(offer)
    BY DEF FilterReservedVolumes
  <1>4. \A r \in FilterReservedVolumes(offer) : r.name = "disk" /\ r.reserved
    BY DEF FilterReservedVolumes
  <1>5. VolumesSize \in Nat /\ VolumesSize <= getResource("disk", offer, TRUE)
    BY <1>1, <1>3, <1>4, SetWithinSum DEF VolumesSize, Value
  <1>6. {r \in FilterReservedVolumes(offer) : r.name = "disk"} = FilterReservedVolumes(offer)
    BY <1>4
  <1>7. ASSUME NEW name
        PROVE  /\ Named(FilterReservedResources(offer), name) \in Nat
               /\ Named(FilterReservedResources(offer), name) <= getResource(name, offer, TRUE)
    <2>. DEFINE T == {r \in FilterReservedResources(offer) : r.name = name}
    <2>1. T \in SUBSET Range(offer) /\ \A r \in T : r.name = name /\ r.reserved
      BY DEF FilterReservedResources
    <2>2. Named(FilterReservedResources(offer), name) = Total(T, [r \in Range(offer) |-> r.value])
      BY DEF Named, Value
    <2>. HIDE DEF T
    <2>. QED
      BY <1>1, <2>1, <2>2, SetWithinSum
  <1>. QED
    BY <1>2, <1>5, <1>6, <1>7 DEF Named, VolumesSize

\* What the master starts from.
LEMMA PoolHas ==
    Has(Pool, getResource("cpus", offer, FALSE), getResource("mem", offer, FALSE), getResource("disk", offer, FALSE),
        getResource("cpus", offer, TRUE), getResource("mem", offer, TRUE),
        getResource("disk", offer, TRUE) - VolumesSize, getPersistenceIds(offer))
  BY DEF Pool, Has, Fields, VolumesSize

\* The nodes that take from what is not reserved launch, or have it reserved.
LEMMA TakersSplit ==
    ASSUME OfferTypeOK, AnswerShape, NEW amount \in [Nodes -> Nat]
    PROVE  /\ Total(Launchers, amount) \in Nat /\ Total(toReserve, amount) \in Nat
           /\ Total(Takers, amount) = Total(Launchers, amount) + Total(toReserve, amount)
  <1>1. IsFiniteSet(Nodes) /\ Launchers \in SUBSET Nodes /\ toReserve \in SUBSET Nodes
    BY OfferAssumption DEF OfferTypeOK, Launchers
  <1>2. Total(Launchers, amount) \in Nat /\ Total(toReserve, amount) \in Nat
    BY <1>1, TotalNat
  <1>3. Total({}, amount) = 0
    BY <1>1, TotalStep
  <1>4. (toReserve = {} /\ Takers = Launchers) \/ (Launchers = {} /\ Takers = toReserve)
    BY DEF AnswerShape, Takers, Launchers
  <1>5. CASE toReserve = {} /\ Takers = Launchers
    BY <1>2, <1>3, <1>5
  <1>6. CASE Launchers = {} /\ Takers = toReserve
    BY <1>2, <1>3, <1>6
  <1>. QED
    BY <1>2, <1>4, <1>5, <1>6

\* What launches leave is enough for the reservations.
LEMMA Remains ==
    ASSUME NEW u \in Nat, NEW x \in Nat, NEW y \in Nat, NEW k \in Nat, NEW r \in Nat, NEW e \in Nat,
           NEW g, u + (x + y) + (k + r) * e = g
    PROVE  g - x - k * e \in Nat /\ g - x - k * e >= y
  <1>1. PICK ke \in Nat, re \in Nat : ke = k * e /\ re = r * e
    OBVIOUS
  <1>2. (k + r) * e = ke + re
    BY <1>1
  <1>3. g = u + (x + y) + (ke + re)
    BY <1>2
  <1>. QED
    BY <1>1, <1>3

\* The same where executors have no share.
LEMMA RemainsPlain ==
    ASSUME NEW u \in Nat, NEW x \in Nat, NEW y \in Nat, NEW g, u + (x + y) + 0 = g
    PROVE  g - x \in Nat /\ g - x >= y
  OBVIOUS

\* And where there are no reservations to come.
LEMMA RemainsOnly ==
    ASSUME NEW u \in Nat, NEW x \in Nat, NEW g, u + x + 0 = g
    PROVE  g - x \in Nat
  OBVIOUS

\* The agent has enough left for the reservations of the answer.
Enough(p) ==
    \E c, m, d, rc, rm, rd \in Nat : \E v :
        /\ Has(p, c, m, d, rc, rm, rd, v)
        /\ c >= Total(toReserve, Cpus) /\ m >= Total(toReserve, Mem) /\ d >= Total(toReserve, Disk)

\* The amounts that launches leave.
LEMMA AfterLaunches ==
    ASSUME OfferTypeOK, Balances, AnswerShape
    PROVE  /\ LET c1 == getResource("cpus", offer, FALSE) - Total(Launchers, Cpus) - Cardinality(LaunchedNodes) * CPUS_PER_EXECUTOR
                  m1 == getResource("mem", offer, FALSE) - Total(Launchers, Mem) - Cardinality(LaunchedNodes) * MEM_PER_EXECUTOR
                  d1 == getResource("disk", offer, FALSE) - Total(Launchers, Disk)
              IN  /\ c1 \in Nat /\ c1 >= Total(toReserve, Cpus)
                  /\ m1 \in Nat /\ m1 >= Total(toReserve, Mem)
                  /\ d1 \in Nat /\ d1 >= Total(toReserve, Disk)
           /\ getResource("cpus", offer, TRUE) - Total(Owners, Cpus) \in Nat
           /\ getResource("mem", offer, TRUE) - Total(Owners, Mem) \in Nat
  <1>1. /\ Balanced(unreserved.cpus, Takers, Cpus, Shares * CPUS_PER_EXECUTOR, getResource("cpus", offer, FALSE))
        /\ Balanced(unreserved.mem, Takers, Mem, Shares * MEM_PER_EXECUTOR, getResource("mem", offer, FALSE))
        /\ Balanced(unreserved.disk, Takers, Disk, 0, getResource("disk", offer, FALSE))
        /\ Balanced(reserved.cpus, Owners, Cpus, 0, getResource("cpus", offer, TRUE))
        /\ Balanced(reserved.mem, Owners, Mem, 0, getResource("mem", offer, TRUE))
    BY DEF Balances
  <1>2. /\ unreserved.cpus \in Nat /\ unreserved.mem \in Nat /\ unreserved.disk \in Nat
        /\ reserved.cpus \in Nat /\ reserved.mem \in Nat
    BY DEF OfferTypeOK, Group
  <1>3. CPUS_PER_EXECUTOR \in Nat /\ MEM_PER_EXECUTOR \in Nat
    BY OfferAssumption
  <1>4. PICK k \in Nat, r \in Nat : k = Cardinality(LaunchedNodes) /\ r = Cardinality(toReserve) /\ Shares = k + r
    BY TakersType, FS_CardinalityType DEF Shares
  <1>5. \A a \in {Cpus, Mem, Disk} :
           /\ Total(Launchers, a) \in Nat /\ Total(toReserve, a) \in Nat
           /\ Total(Takers, a) = Total(Launchers, a) + Total(toReserve, a)
    BY AmountType, TakersSplit
  <1>6. getResource("cpus", offer, FALSE) - Total(Launchers, Cpus) - k * CPUS_PER_EXECUTOR \in Nat
        /\ getResource("cpus", offer, FALSE) - Total(Launchers, Cpus) - k * CPUS_PER_EXECUTOR >= Total(toReserve, Cpus)
    <2>1. unreserved.cpus + (Total(Launchers, Cpus) + Total(toReserve, Cpus)) + (k + r) * CPUS_PER_EXECUTOR
            = getResource("cpus", offer, FALSE)
      BY <1>1, <1>4, <1>5 DEF Balanced
    <2>2. Total(Launchers, Cpus) \in Nat /\ Total(toReserve, Cpus) \in Nat
      BY <1>5
    <2>. QED
      BY <1>2, <1>3, <2>1, <2>2, Remains
  <1>7. getResource("mem", offer, FALSE) - Total(Launchers, Mem) - k * MEM_PER_EXECUTOR \in Nat
        /\ getResource("mem", offer, FALSE) - Total(Launchers, Mem) - k * MEM_PER_EXECUTOR >= Total(toReserve, Mem)
    <2>1. unreserved.mem + (Total(Launchers, Mem) + Total(toReserve, Mem)) + (k + r) * MEM_PER_EXECUTOR
            = getResource("mem", offer, FALSE)
      BY <1>1, <1>4, <1>5 DEF Balanced
    <2>2. Total(Launchers, Mem) \in Nat /\ Total(toReserve, Mem) \in Nat
      BY <1>5
    <2>. QED
      BY <1>2, <1>3, <2>1, <2>2, Remains
  <1>8. getResource("disk", offer, FALSE) - Total(Launchers, Disk) \in Nat
        /\ getResource("disk", offer, FALSE) - Total(Launchers, Disk) >= Total(toReserve, Disk)
    <2>1. unreserved.disk + (Total(Launchers, Disk) + Total(toReserve, Disk)) + 0 = getResource("disk", offer, FALSE)
      BY <1>1, <1>5 DEF Balanced
    <2>2. Total(Launchers, Disk) \in Nat /\ Total(toReserve, Disk) \in Nat
      BY <1>5
    <2>. QED
      BY <1>2, <2>1, <2>2, RemainsPlain
  <1>9. /\ getResource("cpus", offer, TRUE) - Total(Owners, Cpus) \in Nat
        /\ getResource("mem", offer, TRUE) - Total(Owners, Mem) \in Nat
    <2>1. Total(Owners, Cpus) \in Nat /\ Total(Owners, Mem) \in Nat
      BY TakersType
    <2>2. /\ reserved.cpus + Total(Owners, Cpus) + 0 = getResource("cpus", offer, TRUE)
          /\ reserved.mem + Total(Owners, Mem) + 0 = getResource("mem", offer, TRUE)
      BY <1>1 DEF Balanced
    <2>. QED
      BY <1>2, <2>1, <2>2, RemainsOnly
  <1>. QED
    BY <1>4, <1>6, <1>7, <1>8, <1>9

\* Once launches are performed, what is destroyed and unreserved is there, and what
\* is left is enough for the reservations.
LEMMA EnoughToReserve ==
    ASSUME OfferTypeOK, Balances, AnswerShape
    PROVE  Enough(Then(Then(Then(Pool, "LAUNCH", tasks), "DESTROY", toDestroy), "UNRESERVE", toUnreserve))
  <1>1. /\ \A name, w : getResource(name, offer, w) \in Nat
        /\ VolumesSize \in Nat /\ VolumesSize <= getResource("disk", offer, TRUE)
        /\ Named(FilterReservedVolumes(offer), "disk") = VolumesSize
        /\ \A name : /\ Named(FilterReservedResources(offer), name) \in Nat
                     /\ Named(FilterReservedResources(offer), name) <= getResource(name, offer, TRUE)
    BY OfferedAmounts
  <1>2. PICK uc \in Nat, um \in Nat, ud \in Nat, rc \in Nat, rm \in Nat, rd \in Nat, vs \in Nat, ids \in {getPersistenceIds(offer)} :
           /\ uc = getResource("cpus", offer, FALSE) /\ um = getResource("mem", offer, FALSE)
           /\ ud = getResource("disk", offer, FALSE)
           /\ rc = getResource("cpus", offer, TRUE) /\ rm = getResource("mem", offer, TRUE)
           /\ rd = getResource("disk", offer, TRUE)
           /\ vs = VolumesSize /\ vs <= rd /\ ids = getPersistenceIds(offer)
    BY <1>1
  <1>3. Has(Pool, uc, um, ud, rc, rm, rd - vs, ids) /\ rd - vs \in Nat
    <2>1. vs <= rd /\ getResource("disk", offer, TRUE) - VolumesSize = rd - vs
      BY <1>2
    <2>2. rd - vs \in Nat
      BY <2>1
    <2>3. Has(Pool, uc, um, ud, rc, rm, rd - vs, ids)
      BY <1>2, <2>1, PoolHas
    <2>. QED
      BY <2>2, <2>3
  <1>4. PICK c1 \in Nat, m1 \in Nat, d1 \in Nat, rc1 \in Nat, rm1 \in Nat :
           /\ LaunchesLeave(uc, um, ud, rc, rm, c1, m1, d1, rc1, rm1)
           /\ c1 >= Total(toReserve, Cpus) /\ m1 >= Total(toReserve, Mem) /\ d1 >= Total(toReserve, Disk)
    BY <1>2, AfterLaunches DEF LaunchesLeave
  <1>5. CASE tasks # {}
    <2>1. toDestroy = {} /\ toUnreserve = {}
      BY <1>5 DEF AnswerShape
    <2>2. Has(Perform(Pool, <<"LAUNCH", tasks>>), c1, m1, d1, rc1, rm1, rd - vs, ids \ LaunchedNodes)
      BY <1>3, <1>4, PerformLaunch
    <2>3. Enough(Perform(Pool, <<"LAUNCH", tasks>>))
      BY <1>3, <1>4, <2>2 DEF Enough
    <2>. QED
      BY <1>5, <2>1, <2>3 DEF Then
  <1>6. CASE tasks = {}
    <2>. DEFINE p1 == Then(Pool, "LAUNCH", tasks)
                p2 == Then(p1, "DESTROY", toDestroy)
    <2>1. p1 = Pool
      BY <1>6 DEF Then
    <2>2. uc >= Total(toReserve, Cpus) /\ um >= Total(toReserve, Mem) /\ ud >= Total(toReserve, Disk)
      <3>1. LaunchedNodes = {} /\ Launchers = {}
        BY <1>6 DEF LaunchedNodes, Launchers
      <3>2. Total({}, Cpus) = 0 /\ Total({}, Mem) = 0 /\ Total({}, Disk) = 0 /\ Cardinality({}) = 0
        BY FS_EmptySet, TotalStep
      <3>3. 0 * CPUS_PER_EXECUTOR = 0 /\ 0 * MEM_PER_EXECUTOR = 0
        BY OfferAssumption
      <3>4. c1 = uc - 0 - 0 /\ m1 = um - 0 - 0 /\ d1 = ud - 0
        BY <1>4, <3>1, <3>2, <3>3 DEF LaunchesLeave
      <3>5. c1 = uc /\ m1 = um /\ d1 = ud
        BY <3>4
      <3>. QED
        BY <1>4, <3>5
    <2>. HIDE DEF p1
    <2>3. \E y, v : /\ y \in Nat /\ Has(p2, uc, um, ud, rc, rm, y, v)
                    /\ toDestroy = FilterReservedVolumes(offer) => y = rd
      <3>1. CASE toDestroy = {}
        <4>1. p2 = Pool
          BY <2>1, <3>1 DEF Then
        <4>2. ASSUME toDestroy = FilterReservedVolumes(offer) PROVE rd - vs = rd
          <5>1. Total({}, Value) = 0
            BY FS_EmptySet, TotalStep
          <5>2. vs = 0
            BY <1>2, <3>1, <4>2, <5>1 DEF VolumesSize
          <5>. QED
            BY <5>2
        <4>. HIDE DEF p2
        <4>. QED
          BY <1>3, <4>1, <4>2
      <3>2. CASE toDestroy # {}
        <4>1. toDestroy = FilterReservedVolumes(offer)
          BY <3>2 DEF AnswerShape
        <4>2. {r.id : r \in toDestroy} \subseteq ids /\ vs = Named(toDestroy, "disk")
          BY <1>1, <1>2, <4>1 DEF getPersistenceIds
        <4>3. Has(Perform(Pool, <<"DESTROY", toDestroy>>), uc, um, ud, rc, rm, (rd - vs) + vs, ids \ {r.id : r \in toDestroy})
          BY <1>3, <4>2, PerformDestroy
        <4>4. p2 = Perform(Pool, <<"DESTROY", toDestroy>>) /\ (rd - vs) + vs = rd
          BY <2>1, <3>2 DEF Then
        <4>. HIDE DEF p2
        <4>. QED
          BY <4>3, <4>4
      <3>. QED
        BY <3>1, <3>2
    <2>. HIDE DEF p2
    <2>4. PICK y, v : y \in Nat /\ Has(p2, uc, um, ud, rc, rm, y, v) /\ (toDestroy = FilterReservedVolumes(offer) => y = rd)
      BY <2>3
    <2>5. CASE toUnreserve = {}
      <3>1. Enough(p2)
        BY <2>2, <2>4 DEF Enough
      <3>. QED
        BY <2>5, <3>1 DEF Then, p1, p2
    <2>6. CASE toUnreserve # {}
      <3>1. toUnreserve = FilterReservedResources(offer) /\ y = rd
        BY <2>4, <2>6 DEF AnswerShape
      <3>2. PICK a \in Nat, b \in Nat, e \in Nat :
               /\ a = Named(toUnreserve, "cpus") /\ b = Named(toUnreserve, "mem") /\ e = Named(toUnreserve, "disk")
               /\ rc >= a /\ rm >= b /\ rd >= e
        BY <1>1, <1>2, <3>1
      <3>3. Has(Perform(p2, <<"UNRESERVE", toUnreserve>>), uc + a, um + b, ud + e, rc - a, rm - b, rd - e, v)
        BY <2>4, <3>1, <3>2, PerformUnreserve
      <3>4. /\ uc + a \in Nat /\ um + b \in Nat /\ ud + e \in Nat /\ rc - a \in Nat /\ rm - b \in Nat /\ rd - e \in Nat
        BY <3>2
      <3>5. uc + a >= Total(toReserve, Cpus) /\ um + b >= Total(toReserve, Mem) /\ ud + e >= Total(toReserve, Disk)
        <4>1. Total(toReserve, Cpus) \in Nat /\ Total(toReserve, Mem) \in Nat /\ Total(toReserve, Disk) \in Nat
          BY AmountType, TakersSplit
        <4>. QED
          BY <2>2, <4>1
      <3>6. Enough(Perform(p2, <<"UNRESERVE", toUnreserve>>))
        BY <3>3, <3>4, <3>5 DEF Enough
      <3>. QED
        BY <2>6, <3>6 DEF Then, p1, p2
    <2>. QED
      BY <2>5, <2>6
  <1>. QED
    BY <1>5, <1>6

\* Reservations and the volumes on them can be had from that.
LEMMA ReservationsPerformed ==
    ASSUME OfferTypeOK, AnswerShape, NEW p, Enough(p)
    PROVE  Then(Then(p, "RESERVE", toReserve), "CREATE", toReserve).ok
  <1>1. PICK c \in Nat, m \in Nat, d \in Nat, rc \in Nat, rm \in Nat, rd \in Nat, v \in {p.vols} :
           /\ Has(p, c, m, d, rc, rm, rd, v)
           /\ c >= Total(toReserve, Cpus) /\ m >= Total(toReserve, Mem) /\ d >= Total(toReserve, Disk)
    BY DEF Enough, Has
  <1>2. CASE toReserve = {}
    BY <1>1, <1>2 DEF Then, Has
  <1>3. CASE toReserve # {}
    <2>1. PICK x \in Nat, y \in Nat, z \in Nat :
             x = Total(toReserve, Cpus) /\ y = Total(toReserve, Mem) /\ z = Total(toReserve, Disk)
      BY AmountType, TakersSplit
    <2>. DEFINE q == Perform(p, <<"RESERVE", toReserve>>)
                w == Perform(q, <<"CREATE", toReserve>>)
    <2>2. Has(q, c - x, m - y, d - z, rc + x, rm + y, rd + z, v)
      BY <1>1, <2>1, PerformReserve
    <2>3. /\ c - x \in Nat /\ m - y \in Nat /\ d - z \in Nat
          /\ rc + x \in Nat /\ rm + y \in Nat /\ rd + z \in Nat /\ rd + z >= z
      BY <1>1, <2>1
    <2>. HIDE DEF q
    <2>4. Has(w, c - x, m - y, d - z, rc + x, rm + y, (rd + z) - z, v \union toReserve)
      BY <2>1, <2>2, <2>3, PerformCreate
    <2>. HIDE DEF w
    <2>5. w.ok
      BY <2>4 DEF Has
    <2>. QED
      BY <1>3, <2>5 DEF Then, q, w
  <1>. QED
    BY <1>2, <1>3

\* The master can perform every answer from start to end, whatever is offered and
\* whatever the nodes take: volumes and reservations that are given back are there at
\* that point, and new ones fit into what the launches leave (Operations()).
THEOREM AnswersCanBePerformedSafe == Spec => []AnswersCanBePerformed
  <1>1. Init => AnswerShape
    BY DEF Init, NewOfferHelper, AnswerShape
  <1>2. OfferTypeOK /\ Conserved /\ AnswerShape => AnswersCanBePerformed
    <2>. SUFFICES ASSUME OfferTypeOK, Conserved, AnswerShape PROVE Performed(Pool, Operations).ok
      BY DEF AnswersCanBePerformed, Performed
    <2>1. Balances
      BY ConservedBalances
    <2>. DEFINE p == Then(Then(Then(Pool, "LAUNCH", tasks), "DESTROY", toDestroy), "UNRESERVE", toUnreserve)
    <2>2. Enough(p)
      BY <2>1, EnoughToReserve
    <2>3. Performed(Pool, Operations) = Then(Then(p, "RESERVE", toReserve), "CREATE", toReserve)
      BY AnswerPerformed
    <2>. HIDE DEF p
    <2>4. Then(Then(p, "RESERVE", toReserve), "CREATE", toReserve).ok
      BY <2>2, ReservationsPerformed
    <2>. QED
      BY <2>3, <2>4
  <1>. QED
    BY <1>1, <1>2, AnswerShapePreserved, OfferTypes, ConservedSafe, PTL DEF Spec
=============================================================================
