--------------------------- MODULE CholeskyProofs ---------------------------
(***************************************************************************)
(* The factor of a symmetric pattern of any size, whatever the order, the  *)
(* number of threads and the size of the blocks.                           *)
(***************************************************************************)
EXTENDS Cholesky, SequenceTheorems, FiniteSetTheorems, FunctionTheorems,
        WellFoundedInduction, TLAPS

-----------------------------------------------------------------------------
\* Loops.  A recursive function is a loop: Loop says that there is one, and
\* Induct what holds all the way along it.  Both are said of sets.

LEMMA Induct ==
  ASSUME NEW n \in Nat, NEW T \in SUBSET (0 .. n), 0 \in T,
         \A k \in 1 .. n : k - 1 \in T => k \in T
  PROVE  T = 0 .. n
<1> DEFINE R == OpToRel(<, Nat)
           B == (0 .. n) \ T
<1>1. SUFFICES ASSUME B # {} PROVE FALSE
  OBVIOUS
<1>2. IsWellFoundedOn(R, Nat)
  BY NatLessThanWellFounded
<1>3. PICK m \in B : \A y \in B : ~ <<y, m>> \in R
  <2>1. B \subseteq Nat
    OBVIOUS
  <2> HIDE DEF B
  <2> QED
    BY <1>1, <1>2, <2>1, WFMin
<1>4. m # 0 /\ m - 1 \in T
  <2>1. m # 0 /\ m - 1 \in 0 .. n /\ m - 1 < m /\ m \in Nat /\ m - 1 \in Nat
    OBVIOUS
  <2>2. <<m - 1, m>> \in R
    BY <2>1 DEF OpToRel
  <2> QED
    BY <1>3, <2>1, <2>2
<1> QED
  BY <1>4

\* The same from the other end, each from all above it.
LEMMA InductDown ==
  ASSUME NEW n \in Nat, NEW T \in SUBSET (0 .. n),
         \A k \in 0 .. n : k + 1 .. n \subseteq T => k \in T
  PROVE  T = 0 .. n
<1> DEFINE U == {d \in 0 .. n : n - d .. n \subseteq T}
<1>1. 0 \in U
  <2>1. n + 1 .. n \subseteq T
    OBVIOUS
  <2>2. n \in T
    BY <2>1
  <2> QED
    BY <2>2
<1>2. ASSUME NEW d \in 1 .. n, d - 1 \in U PROVE d \in U
  <2>1. (n - d) + 1 .. n \subseteq T
    BY <1>2
  <2>2. n - d \in T
    BY <2>1
  <2> QED
    BY <2>1, <2>2
<1>3. U = 0 .. n
  <2>1. U \in SUBSET (0 .. n)
    OBVIOUS
  <2> HIDE DEF U
  <2> QED
    BY <1>1, <1>2, <2>1, Induct
<1>4. n \in U
  <2>1. n \in 0 .. n
    OBVIOUS
  <2> HIDE DEF U
  <2> QED
    BY <1>3, <2>1
<1>5. n - n = 0 /\ 0 .. n \subseteq T
  BY <1>4
<1> QED
  BY <1>5

IsLoop(f, n, S, a, step) ==
    /\ f \in [0 .. n -> S] /\ f[0] = a
    /\ \A k \in 1 .. n : f[k] = step[k][f[k - 1]]
LEMMA Loop ==
  ASSUME NEW n \in Nat, NEW S, NEW a \in S, NEW step \in [1 .. n -> [S -> S]]
  PROVE  \E f : IsLoop(f, n, S, a, step)
<1> DEFINE Follows(m, f) == /\ f[0] = a
                          /\ \A k \in 1 .. m : f[k] = step[k][f[k - 1]]
           T == {m \in 0 .. n : \E f \in [0 .. m -> S] : Follows(m, f)}
<1>1. 0 \in T
  <2>1. [k \in 0 .. 0 |-> a] \in [0 .. 0 -> S]
          /\ Follows(0, [k \in 0 .. 0 |-> a])
    OBVIOUS
  <2> HIDE DEF Follows
  <2> QED
    BY <2>1
<1>2. ASSUME NEW m \in 1 .. n, m - 1 \in T PROVE m \in T
  <2>1. PICK f \in [0 .. m - 1 -> S] : Follows(m - 1, f)
    BY <1>2
  <2> DEFINE g == [k \in 0 .. m |-> IF k = m THEN step[m][f[m - 1]] ELSE f[k]]
  <2>2. step[m][f[m - 1]] \in S
    OBVIOUS
  <2>3. g \in [0 .. m -> S]
    BY <2>2
  <2>4. g[0] = a
    BY <2>1
  <2>5. ASSUME NEW k \in 1 .. m PROVE g[k] = step[k][g[k - 1]]
    <3>1. k - 1 \in 0 .. m /\ k - 1 # m /\ g[k - 1] = f[k - 1]
      OBVIOUS
    <3>2. CASE k = m
      BY <3>1, <3>2
    <3>3. CASE k # m
      <4>1. k \in 1 .. m - 1 /\ k \in 0 .. m
        BY <3>3
      <4> QED
        BY <2>1, <3>1, <3>3, <4>1
    <3> QED
      BY <3>2, <3>3
  <2>6. Follows(m, g)
    BY <2>4, <2>5
  <2> HIDE DEF g, Follows
  <2> QED
    BY <2>3, <2>6
<1>3. T = 0 .. n
  <2>1. T \in SUBSET (0 .. n)
    OBVIOUS
  <2> HIDE DEF T
  <2> QED
    BY <1>1, <1>2, <2>1, Induct
<1>4. n \in T
  <2>1. n \in 0 .. n
    OBVIOUS
  <2> HIDE DEF T
  <2> QED
    BY <1>3, <2>1
<1>5. PICK f \in [0 .. n -> S] : Follows(n, f)
  BY <1>4
<1>6. IsLoop(f, n, S, a, step)
  BY <1>5 DEF IsLoop
<1> QED
  BY <1>6

LEMMA LoopStays ==
  ASSUME NEW n \in Nat, NEW S, NEW f, f = [k \in 0 .. n |-> f[k]],
         f[0] \in S, \A k \in 1 .. n : f[k - 1] \in S => f[k] \in S
  PROVE  f \in [0 .. n -> S]
<1> DEFINE T == {k \in 0 .. n : f[k] \in S}
<1>1. T \in SUBSET (0 .. n) /\ 0 \in T /\ \A k \in 1 .. n : k - 1 \in T => k \in T
  OBVIOUS
<1>2. T = 0 .. n
  <2> HIDE DEF T
  <2> QED
    BY <1>1, Induct
<1> QED
  BY <1>2

\* A walk up a tree: from a vertex to the one above it, until it leaves B.
IsWalk(f, n, S, e, B, p, step) ==
    /\ f \in [0 .. n -> S]
    /\ \A i \in 0 .. n : f[i] = IF i \in B THEN step[i][f[p[i]]] ELSE e
LEMMA Walk ==
  ASSUME NEW n \in Nat, NEW S, NEW e \in S, NEW B \in SUBSET (1 .. n),
         NEW p \in [1 .. n -> 0 .. n], \A i \in B : p[i] = 0 \/ p[i] > i,
         NEW step \in [B -> [S -> S]]
  PROVE  \E f : IsWalk(f, n, S, e, B, p, step)
<1> DEFINE Good(m, f) == \A i \in {0} \cup m .. n :
                f[i] = IF i \in B THEN step[i][f[p[i]]] ELSE e
           T == {d \in 0 .. n : \E f \in [0 .. n -> S] : Good(n + 1 - d, f)}
<1>1. 0 \in T
  <2>1. [i \in 0 .. n |-> e] \in [0 .. n -> S]
          /\ Good(n + 1, [i \in 0 .. n |-> e])
    OBVIOUS
  <2> QED
    BY <2>1
<1>2. ASSUME NEW d \in 1 .. n, d - 1 \in T PROVE d \in T
  <2> DEFINE m == n + 1 - d
  <2>1. m \in 1 .. n /\ n + 1 - (d - 1) = m + 1
    OBVIOUS
  <2>2. PICK f \in [0 .. n -> S] : Good(m + 1, f)
    BY <1>2, <2>1
  <2> HIDE DEF m
  <2> DEFINE v == IF m \in B THEN step[m][f[p[m]]] ELSE e
             g == [f EXCEPT ![m] = v]
  <2>3. v \in S
    BY <2>1
  <2>4. g \in [0 .. n -> S]
    BY <2>3
  <2>5. ASSUME NEW i \in {0} \cup m .. n
        PROVE  g[i] = IF i \in B THEN step[i][g[p[i]]] ELSE e
    <3>1. CASE i \in B
      <4>1. p[i] \in 0 .. n /\ p[i] # m /\ i # 0
        BY <2>1, <3>1
      <4>2. g[p[i]] = f[p[i]]
        BY <4>1
      <4>3. CASE i = m
        BY <2>1, <3>1, <4>2, <4>3
      <4>4. CASE i # m
        <5>1. i \in {0} \cup m + 1 .. n
          BY <2>1, <4>4
        <5>2. g[i] = f[i]
          BY <2>1, <4>4
        <5> QED
          BY <2>2, <3>1, <4>2, <5>1, <5>2
      <4> QED
        BY <4>3, <4>4
    <3>2. CASE i \notin B
      <4>1. CASE i = m
        BY <2>1, <3>2, <4>1
      <4>2. CASE i # m
        <5>1. i \in {0} \cup m + 1 .. n /\ g[i] = f[i]
          BY <2>1, <4>2
        <5> QED
          BY <2>2, <3>2, <5>1
      <4> QED
        BY <4>1, <4>2
    <3> QED
      BY <3>1, <3>2
  <2>6. Good(m, g)
    BY <2>5
  <2> HIDE DEF g, Good
  <2> QED
    BY <2>4, <2>6 DEF m
<1>3. T = 0 .. n
  <2>1. T \in SUBSET (0 .. n)
    OBVIOUS
  <2> HIDE DEF T
  <2> QED
    BY <1>1, <1>2, <2>1, Induct
<1>4. n \in T
  <2>1. n \in 0 .. n
    OBVIOUS
  <2> HIDE DEF T
  <2> QED
    BY <1>3, <2>1
<1>5. PICK f \in [0 .. n -> S] : Good(1, f)
  BY <1>4
<1>6. IsWalk(f, n, S, e, B, p, step)
  BY <1>5 DEF IsWalk
<1> QED
  BY <1>6

LEMMA WalkStays ==
  ASSUME NEW n \in Nat, NEW S, NEW f, f = [i \in 0 .. n |-> f[i]], f[0] \in S,
         \A i \in 1 .. n :
            (\A j \in {0} \cup i + 1 .. n : f[j] \in S) => f[i] \in S
  PROVE  f \in [0 .. n -> S]
<1> DEFINE T == {k \in 0 .. n : f[k] \in S}
<1>1. T \in SUBSET (0 .. n)
  OBVIOUS
<1>2. ASSUME NEW k \in 0 .. n, k + 1 .. n \subseteq T PROVE k \in T
  <2>1. CASE k = 0
    BY <2>1
  <2>2. CASE k # 0
    <3>1. k \in 1 .. n /\ \A j \in {0} \cup k + 1 .. n : f[j] \in S
      BY <1>2, <2>2
    <3> QED
      BY <3>1
  <2> QED
    BY <2>1, <2>2
<1>3. T = 0 .. n
  <2> HIDE DEF T
  <2> QED
    BY <1>1, <1>2, InductDown
<1> QED
  BY <1>3

-----------------------------------------------------------------------------
\* Lists.

\* Listed is there for the order in which a list is written, not for what it
\* is.
LEMMA ListedIs ==
  ASSUME NEW S, NEW f \in [V -> S] PROVE Listed(f) = f
<1>1. f \in Seq(S) /\ Len(f) = N
  BY OrderAssumption, SeqDef DEF V
<1>2. <<0>> \o f \in Seq({0} \cup S) /\ Len(<<0>> \o f) = N + 1
        /\ \A k \in 1 .. N : (<<0>> \o f)[k + 1] = f[k]
  <2>1. f \in Seq({0} \cup S) /\ <<0>> \in Seq({0} \cup S)
    BY <1>1
  <2> QED
    BY <1>1, <2>1, ConcatProperties, OrderAssumption
<1>3. /\ Tail(<<0>> \o f) \in Seq({0} \cup S) /\ Len(Tail(<<0>> \o f)) = N
      /\ \A k \in 1 .. N : Tail(<<0>> \o f)[k] = f[k]
  <2>1. <<0>> \o f # << >>
    BY <1>2, OrderAssumption, EmptySeq
  <2> DEFINE g == <<0>> \o f
  <2> HIDE DEF g
  <2> QED
    BY <1>2, <2>1, HeadTailProperties, OrderAssumption DEF g
<1> QED
  BY <1>1, <1>3, SeqEqual DEF Listed

LEMMA ListingIs ==
  ASSUME NEW S \in SUBSET V
  PROVE  /\ Listing(S) \in [0 .. N -> Seq(S)]
         /\ Listing(S)[0] = << >>
         /\ \A k \in V : Listing(S)[k] = IF k \in S
                                         THEN Append(Listing(S)[k - 1], k)
                                         ELSE Listing(S)[k - 1]
<1> DEFINE Q == Seq(S)
           Longer(s, k) == IF k \in S THEN Append(s, k) ELSE s
           step == [k \in 1 .. N |-> [s \in Q |-> Longer(s, k)]]
           Def(a) == a = [k \in 0 .. N |-> IF k = 0 THEN << >>
                                           ELSE Longer(a[k - 1], k)]
<1>1. N \in Nat /\ << >> \in Q /\ V = 1 .. N
  BY OrderAssumption DEF V
<1>2. \A s \in Q, k \in 1 .. N : Longer(s, k) \in Q
  OBVIOUS
<1>3. Listing(S) = CHOOSE a : Def(a)
  BY DEF Listing
<1> HIDE DEF Q, Longer
<1>4. step \in [1 .. N -> [Q -> Q]]
  BY <1>2
<1>5. \E f : Def(f)
  <2>1. PICK f : IsLoop(f, N, Q, << >>, step)
    <3> HIDE DEF step
    <3> QED
      BY <1>1, <1>4, Loop
  <2>2. \A k \in 1 .. N : k - 1 \in 0 .. N /\ f[k] = Longer(f[k - 1], k)
    BY <1>1, <2>1 DEF IsLoop
  <2> QED
    BY <1>1, <2>1, <2>2 DEF IsLoop
<1>6. Def(Listing(S))
  <2> HIDE DEF Def
  <2> QED
    BY <1>3, <1>5
<1>7. /\ Listing(S) = [k \in 0 .. N |-> Listing(S)[k]]
      /\ Listing(S)[0] = << >>
      /\ \A k \in 1 .. N : Listing(S)[k] = Longer(Listing(S)[k - 1], k)
  BY <1>1, <1>6
<1>8. Listing(S) \in [0 .. N -> Q]
  <2> DEFINE f == Listing(S)
  <2>1. f = [k \in 0 .. N |-> f[k]] /\ f[0] \in Q
    BY <1>1, <1>7
  <2>2. \A k \in 1 .. N : f[k - 1] \in Q => f[k] \in Q
    BY <1>2, <1>7
  <2> HIDE DEF f
  <2>3. f \in [0 .. N -> Q]
    BY <1>1, <2>1, <2>2, LoopStays
  <2> QED
    BY <2>3 DEF f
<1> QED
  BY <1>1, <1>7, <1>8 DEF Q, Longer

LEMMA AscendingIs ==
  ASSUME NEW S \in SUBSET V PROVE Ascending(S) \in Seq(S)
BY ListingIs, OrderAssumption DEF Ascending

-----------------------------------------------------------------------------
\* The elimination tree.

\* The rows of a pattern: the entries of each, left of the diagonal.
IsRows(rows) ==
    rows \in [V -> Seq(V)] /\ \A k \in V : rows[k] \in Seq(1 .. k - 1)

LEMMA RowsOfIs ==
  ASSUME NEW G, NEW perm PROVE IsRows(RowsOf(G, perm))
<1> DEFINE inv == [v \in V |-> CHOOSE i \in V : perm[i] = v]
           S(k) == {v \in Neighbours(G, perm[k]) : inv[v] \in 1 .. k - 1}
           row(k) == [p \in DOMAIN Ascending(S(k)) |-> inv[Ascending(S(k))[p]]]
           f == [k \in V |-> row(k)]
<1> HIDE DEF inv
<1>1. ASSUME NEW k \in V PROVE row(k) \in Seq(1 .. k - 1)
  <2> DEFINE s == S(k)
             b == Ascending(s)
  <2>1. s \in SUBSET V /\ \A v \in s : inv[v] \in 1 .. k - 1
    BY DEF Neighbours
  <2> HIDE DEF s
  <2>2. b \in Seq(s)
    BY <2>1, AscendingIs
  <2> HIDE DEF b
  <2>3. row(k) = [p \in 1 .. Len(b) |-> inv[b[p]]]
          /\ Len(b) \in Nat /\ \A p \in 1 .. Len(b) : b[p] \in s
    <3>1. DOMAIN b = 1 .. Len(b) /\ Len(b) \in Nat
            /\ \A p \in 1 .. Len(b) : b[p] \in s
      BY <2>2
    <3>2. row(k) = [p \in DOMAIN b |-> inv[b[p]]]
      BY DEF b, s
    <3> QED
      BY <3>1, <3>2
  <2> DEFINE r == row(k)
  <2>4. \A p \in 1 .. Len(b) : inv[b[p]] \in 1 .. k - 1
    BY <2>1, <2>3
  <2>5. r \in [1 .. Len(b) -> 1 .. k - 1]
    BY <2>3, <2>4
  <2> HIDE DEF r
  <2>6. r \in Seq(1 .. k - 1)
    BY <2>3, <2>5, SeqDef
  <2> QED
    BY <2>6 DEF r
<1>2. \A k \in V : 1 .. k - 1 \subseteq V
  BY OrderAssumption DEF V
<1>3. \A k \in V : row(k) \in Seq(V)
  <2> SUFFICES ASSUME NEW k \in V PROVE row(k) \in Seq(V)
    OBVIOUS
  <2> DEFINE r == row(k)
             D == 1 .. k - 1
  <2>1. r \in Seq(D) /\ D \subseteq V
    BY <1>1, <1>2
  <2> HIDE DEF r, D
  <2>2. r \in Seq(V)
    BY <2>1
  <2> QED
    BY <2>2 DEF r
<1> HIDE DEF row
<1>4. f \in [V -> Seq(V)]
  BY <1>3
<1>5. Listed(f) = f
  BY <1>4, ListedIs
<1>6. RowsOf(G, perm) = Listed(f)
  BY DEF RowsOf, f, row, inv, S
<1> QED
  BY <1>1, <1>4, <1>5, <1>6 DEF IsRows

\* A vertex hangs below a later one, or below none.
IsTree(p) == p \in [V -> 0 .. N] /\ \A i \in V : p[i] = 0 \/ p[i] > i

\* A set that holds with a vertex all above it, and what is in every one.
Closed(p, C) == \A j \in C : p[j] # 0 => p[j] \in C
IsAbove(p, i, k) == \A C \in SUBSET V : i \in C /\ Closed(p, C) => k \in C

\* One tree is the other and more.
Extends(p, r) == \A i \in V : p[i] # 0 => r[i] = p[i]

LEMMA AboveItself ==
  ASSUME NEW p, NEW i PROVE IsAbove(p, i, i)
BY DEF IsAbove

LEMMA AboveParent ==
  ASSUME NEW p, NEW i, p[i] # 0 PROVE IsAbove(p, i, p[i])
BY DEF IsAbove, Closed

LEMMA AboveAbove ==
  ASSUME NEW p, NEW i, NEW j, NEW k, IsAbove(p, i, j), IsAbove(p, j, k)
  PROVE  IsAbove(p, i, k)
BY DEF IsAbove

LEMMA AboveStays ==
  ASSUME NEW p, NEW r, Extends(p, r), NEW i, NEW k, IsAbove(p, i, k)
  PROVE  IsAbove(r, i, k)
<1> SUFFICES ASSUME NEW C \in SUBSET V, i \in C, Closed(r, C) PROVE k \in C
  BY DEF IsAbove
<1>1. Closed(p, C)
  BY DEF Closed, Extends
<1> QED
  BY <1>1 DEF IsAbove

\* What is above a vertex and another one is above its parent.
LEMMA AboveNext ==
  ASSUME NEW p, IsTree(p), NEW i \in V, NEW k \in V, IsAbove(p, i, k), i # k
  PROVE  p[i] # 0 /\ p[i] \in V /\ IsAbove(p, p[i], k)
<1>1. p[i] # 0 /\ p[i] \in V
  <2>1. SUFFICES ASSUME p[i] = 0 PROVE FALSE
    BY OrderAssumption DEF IsTree, V
  <2>2. Closed(p, {i}) /\ {i} \in SUBSET V
    BY <2>1 DEF Closed
  <2> QED
    BY <2>2 DEF IsAbove
<1>2. ASSUME NEW C \in SUBSET V, p[i] \in C, Closed(p, C) PROVE k \in C
  <2>1. Closed(p, C \cup {i}) /\ C \cup {i} \in SUBSET V
    BY <1>2 DEF Closed
  <2>2. k \in C \cup {i}
    BY <2>1 DEF IsAbove
  <2> QED
    BY <2>2
<1> QED
  BY <1>1, <1>2 DEF IsAbove

\* What is above is not before.
LEMMA AboveIsAfter ==
  ASSUME NEW p, IsTree(p), NEW i \in V, NEW k, IsAbove(p, i, k)
  PROVE  k \in V /\ k >= i
<1> DEFINE C == i .. N
<1>1. C \in SUBSET V /\ i \in C /\ Closed(p, C)
  BY OrderAssumption DEF IsTree, V, Closed
<1>2. k \in C
  <2> HIDE DEF C
  <2> QED
    BY <1>1 DEF IsAbove
<1> QED
  BY <1>1, <1>2

\* Of two above a vertex, the later is above the other.
LEMMA AboveInLine ==
  ASSUME NEW p, IsTree(p), NEW i \in V, NEW j \in V, NEW k \in V,
         IsAbove(p, i, j), IsAbove(p, i, k), j <= k
  PROVE  IsAbove(p, j, k)
<1> SUFFICES ASSUME NEW C \in SUBSET V, j \in C, Closed(p, C) PROVE k \in C
  BY DEF IsAbove
<1> DEFINE B == {g \in V : g < j /\ IsAbove(p, g, j)}
<1>1. Closed(p, C \cup B)
  <2> SUFFICES ASSUME NEW g \in B, p[g] # 0 PROVE p[g] \in C \cup B
    BY DEF Closed
  <2>1. g # j /\ g \in V
    BY DEF V
  <2>2. p[g] \in V /\ IsAbove(p, p[g], j)
    BY <2>1, AboveNext
  <2>3. j >= p[g]
    BY <2>2, AboveIsAfter
  <2> QED
    BY <2>2, <2>3 DEF V
<1>2. i \in C \cup B
  <2>1. j >= i
    BY AboveIsAfter
  <2> QED
    BY <2>1 DEF V
<1>3. k \in C \cup B
  <2>1. C \cup B \in SUBSET V
    OBVIOUS
  <2> HIDE DEF B
  <2> QED
    BY <1>1, <1>2, <2>1 DEF IsAbove
<1> QED
  BY <1>3 DEF V

\* A walk up to row k, by what is known of the tree.
LEMMA ClimbIs ==
  ASSUME NEW k \in V, NEW up \in [V -> 0 .. N],
         \A i \in V : up[i] = 0 \/ up[i] > i
  PROVE  /\ Climb(up, k) \in [0 .. N -> SUBSET V]
         /\ \A i \in 0 .. N : Climb(up, k)[i] =
                IF i \in 1 .. k - 1 THEN {i} \cup Climb(up, k)[up[i]] ELSE {}
<1> DEFINE B == 1 .. k - 1
           S == SUBSET V
           step == [i \in B |-> [c \in S |-> {i} \cup c]]
           Def(c) == c = [i \in 0 .. N |-> IF i = 0 \/ i >= k THEN {}
                                           ELSE {i} \cup c[up[i]]]
           c == Climb(up, k)
<1>1. /\ N \in Nat /\ V = 1 .. N /\ k \in 1 .. N /\ B \in SUBSET (1 .. N)
      /\ {} \in S /\ \A i \in B : up[i] \in 0 .. N /\ i \in V
      /\ \A i \in 0 .. N : i \in B <=> ~(i = 0 \/ i >= k)
  BY OrderAssumption DEF V
<1>2. c = CHOOSE f : Def(f)
  BY DEF Climb
<1>3. step \in [B -> [S -> S]]
  BY <1>1
<1> HIDE DEF S, B
<1>4. \E f : Def(f)
  <2>1. up \in [1 .. N -> 0 .. N] /\ \A i \in B : up[i] = 0 \/ up[i] > i
    BY <1>1
  <2>2. PICK f : IsWalk(f, N, S, {}, B, up, step)
    <3> HIDE DEF step
    <3> QED
      BY <1>1, <1>3, <2>1, Walk
  <2>3. \A i \in 0 .. N : f[i] = IF i \in B THEN {i} \cup f[up[i]] ELSE {}
    BY <1>1, <2>2 DEF IsWalk
  <2>4. Def(f)
    BY <1>1, <2>2, <2>3 DEF IsWalk
  <2> QED
    BY <2>4
<1>5. Def(c)
  <2> HIDE DEF Def, c
  <2> QED
    BY <1>2, <1>4
<1> HIDE DEF c
<1>6. /\ c = [i \in 0 .. N |-> c[i]]
      /\ \A i \in 0 .. N : c[i] = IF i \in B THEN {i} \cup c[up[i]] ELSE {}
  BY <1>1, <1>5
<1> HIDE DEF Def
<1>7. c \in [0 .. N -> S]
  <2>1. c[0] \in S
    <3>1. 0 \notin B /\ 0 \in 0 .. N
      BY <1>1 DEF B
    <3>2. c[0] = {}
      BY <1>6, <3>1
    <3> QED
      BY <1>1, <3>2
  <2>2. ASSUME NEW i \in 1 .. N,
               \A j \in {0} \cup i + 1 .. N : c[j] \in S
        PROVE  c[i] \in S
    <3>1. CASE i \in B
      <4>1. up[i] \in {0} \cup i + 1 .. N
        BY <1>1
      <4>2. c[up[i]] \in S
        BY <2>2, <4>1
      <4>3. c[i] = {i} \cup c[up[i]] /\ i \in V
        BY <1>1, <1>6, <3>1
      <4> QED
        BY <4>2, <4>3 DEF S
    <3>2. CASE i \notin B
      <4>1. c[i] = {}
        BY <1>6, <3>2
      <4> QED
        BY <1>1, <4>1
    <3> QED
      BY <3>1, <3>2
  <2> QED
    BY <1>1, <1>6, <2>1, <2>2, WalkStays
<1> QED
  BY <1>6, <1>7 DEF S, B, c

\* The tree as far as row k: who hangs below row r is above an entry of it,
\* and the short cuts lead up the tree.
TreeTo(rows, a, k) ==
    /\ a.up \in [V -> 0 .. N] /\ a.parent \in [V -> 0 .. N]
    /\ \A i \in V :
        /\ (a.up[i] = 0) = (a.parent[i] = 0)
        /\ a.up[i] # 0 => /\ a.up[i] \in i + 1 .. k
                          /\ IsAbove(a.parent, i, a.up[i])
        /\ a.parent[i] # 0 =>
            /\ a.parent[i] \in i + 1 .. k
            /\ \E p \in DOMAIN rows[a.parent[i]] :
                    IsAbove(a.parent, rows[a.parent[i]][p], i)

\* What a walk visits is above where it starts, and before row k.
LEMMA ClimbIsAbove ==
  ASSUME NEW rows, NEW a, NEW k \in V, TreeTo(rows, a, k), NEW i \in V
  PROVE  /\ \A h \in Climb(a.up, k)[i] :
                h \in V /\ h < k /\ IsAbove(a.parent, i, h)
         /\ i < k => i \in Climb(a.up, k)[i]
         /\ \A h \in Climb(a.up, k)[i] :
                a.up[h] = 0 \/ a.up[h] = k \/ a.up[h] \in Climb(a.up, k)[i]
<1> DEFINE c == Climb(a.up, k)
           Good(j) == \A h \in c[j] :
                /\ h \in V /\ h < k /\ IsAbove(a.parent, j, h)
                /\ a.up[h] = 0 \/ a.up[h] = k \/ a.up[h] \in c[j]
           T == {j \in 0 .. N : Good(j)}
<1>1. /\ N \in Nat /\ V = 1 .. N /\ k \in 1 .. N
      /\ a.up \in [V -> 0 .. N]
      /\ \A j \in V : a.up[j] = 0 \/ (a.up[j] > j /\ a.up[j] \in V)
  <2>1. /\ a.up \in [V -> 0 .. N]
        /\ \A j \in V : a.up[j] # 0 => a.up[j] \in j + 1 .. k
    BY DEF TreeTo
  <2> QED
    BY <2>1, OrderAssumption DEF V
<1>2. /\ c \in [0 .. N -> SUBSET V]
      /\ \A j \in 0 .. N : c[j] = IF j \in 1 .. k - 1
                                  THEN {j} \cup c[a.up[j]] ELSE {}
  BY <1>1, ClimbIs
<1> HIDE DEF c
<1>3. ASSUME NEW j \in 0 .. N, j + 1 .. N \subseteq T PROVE j \in T
  <2>1. CASE j \notin 1 .. k - 1
    BY <1>2, <2>1
  <2>2. CASE j \in 1 .. k - 1
    <3>1. j \in V /\ j < k /\ c[j] = {j} \cup c[a.up[j]]
      BY <1>1, <1>2, <2>2
    <3>2. a.up[j] = 0 \/ a.up[j] \in j + 1 .. N
      BY <1>1, <3>1
    <3>3. CASE a.up[j] = 0
      <4>1. c[a.up[j]] = {}
        BY <1>1, <1>2, <3>3
      <4> QED
        BY <3>1, <3>3, <4>1, AboveItself
    <3>4. CASE a.up[j] \in j + 1 .. N
      <4>1. Good(a.up[j]) /\ IsAbove(a.parent, j, a.up[j])
              /\ a.up[j] \in V /\ a.up[j] <= k
        BY <1>1, <1>3, <3>1, <3>4 DEF TreeTo
      <4>2. \A h \in c[a.up[j]] : IsAbove(a.parent, j, h)
        BY <4>1, AboveAbove
      <4>3. a.up[j] = k \/ a.up[j] \in c[j]
        <5>1. CASE a.up[j] = k
          BY <5>1
        <5>2. CASE a.up[j] # k
          <6>1. a.up[j] \in 1 .. k - 1 /\ a.up[j] \in 0 .. N
            BY <1>1, <4>1, <5>2
          <6> QED
            BY <1>2, <3>1, <6>1
        <5> QED
          BY <5>1, <5>2
      <4> QED
        BY <3>1, <4>1, <4>2, <4>3, AboveItself
    <3> QED
      BY <3>2, <3>3, <3>4
  <2> QED
    BY <2>1, <2>2
<1>4. T = 0 .. N
  <2>1. T \in SUBSET (0 .. N)
    OBVIOUS
  <2> HIDE DEF T
  <2> QED
    BY <1>1, <1>3, <2>1, InductDown
<1>5. Good(i) /\ i \in 0 .. N
  BY <1>1, <1>4
<1>6. i < k => i \in c[i]
  BY <1>1, <1>2, <1>5
<1> QED
  BY <1>5, <1>6 DEF c

\* One entry of row k more.
LEMMA HungIs ==
  ASSUME NEW rows, NEW a, NEW k \in V, TreeTo(rows, a, k),
         NEW p \in DOMAIN rows[k], rows[k][p] \in 1 .. k - 1
  PROVE  LET b == Hung(a, rows[k][p], k)
         IN  /\ TreeTo(rows, b, k) /\ Extends(a.parent, b.parent)
             /\ IsAbove(b.parent, rows[k][p], k)
<1> DEFINE i == rows[k][p]
           path == Climb(a.up, k)[i]
           b == Hung(a, i, k)
           up == [j \in V |-> IF j \in path THEN k ELSE a.up[j]]
           parent == [j \in V |-> IF j \in path /\ a.up[j] = 0 THEN k
                                  ELSE a.parent[j]]
<1>1. /\ N \in Nat /\ V = 1 .. N /\ k \in 1 .. N /\ k \in 0 .. N
      /\ i \in V /\ i < k
      /\ a.up \in [V -> 0 .. N] /\ a.parent \in [V -> 0 .. N]
  <2>1. /\ N \in Nat /\ V = 1 .. N /\ k \in 1 .. N
        /\ i \in 1 .. k - 1
    BY OrderAssumption DEF V
  <2> HIDE DEF i
  <2>2. k \in 0 .. N /\ i \in 1 .. N /\ i < k
    BY <2>1
  <2> QED
    BY <2>1, <2>2 DEF TreeTo
<1>2. /\ \A h \in path : h \in V /\ h < k /\ IsAbove(a.parent, i, h)
      /\ i \in path
      /\ \A h \in path : a.up[h] = 0 \/ a.up[h] = k \/ a.up[h] \in path
  BY <1>1, ClimbIsAbove
<1> HIDE DEF path
<1>3. b.up = up /\ b.parent = parent
  <2>1. up \in [V -> 0 .. N] /\ parent \in [V -> 0 .. N]
    BY <1>1
  <2>2. Listed(up) = up /\ Listed(parent) = parent
    <3> HIDE DEF up, parent
    <3> QED
      BY <2>1, ListedIs
  <2> QED
    BY <2>2 DEF Hung, path
<1> HIDE DEF b
<1>4. /\ \A j \in V : b.up[j] = IF j \in path THEN k ELSE a.up[j]
      /\ \A j \in V : b.parent[j] = IF j \in path /\ a.up[j] = 0 THEN k
                                    ELSE a.parent[j]
      /\ b.up \in [V -> 0 .. N] /\ b.parent \in [V -> 0 .. N]
  BY <1>1, <1>3
<1> HIDE DEF up, parent, i
<1>5. Extends(a.parent, b.parent)
  BY <1>4 DEF Extends, TreeTo
<1>6. \A j \in V, h \in V : IsAbove(a.parent, j, h) => IsAbove(b.parent, j, h)
  BY <1>5, AboveStays
<1>7. \A h \in path : IsAbove(b.parent, h, k)
  <2> DEFINE T == {h \in 0 .. N : h \in path => IsAbove(b.parent, h, k)}
  <2>1. ASSUME NEW h \in 0 .. N, h + 1 .. N \subseteq T PROVE h \in T
    <3> SUFFICES ASSUME h \in path PROVE IsAbove(b.parent, h, k)
      OBVIOUS
    <3>1. h \in V /\ (a.up[h] = 0 \/ a.up[h] = k \/ a.up[h] \in path)
      BY <1>2
    <3>5. a.up[h] # 0 => /\ a.up[h] \in h + 1 .. k
                         /\ IsAbove(a.parent, h, a.up[h])
      BY <3>1 DEF TreeTo
    <3>2. CASE a.up[h] = 0
      <4>1. b.parent[h] = k /\ k # 0
        BY <1>1, <1>4, <3>1, <3>2
      <4> QED
        BY <4>1, AboveParent
    <3>3. CASE a.up[h] = k
      <4>1. IsAbove(a.parent, h, k)
        BY <1>1, <3>3, <3>5
      <4> QED
        BY <1>6, <3>1, <4>1
    <3>4. CASE a.up[h] \in path
      <4>1. a.up[h] \in V /\ a.up[h] # 0
        <5>1. a.up[h] \in V
          BY <1>2, <3>4
        <5> QED
          BY <1>1, <5>1
      <4>2. IsAbove(b.parent, h, a.up[h]) /\ a.up[h] \in h + 1 .. k
        BY <1>6, <3>1, <3>5, <4>1
      <4>3. a.up[h] \in T
        BY <1>1, <2>1, <4>1, <4>2
      <4>4. IsAbove(b.parent, a.up[h], k)
        BY <3>4, <4>3
      <4> QED
        BY <4>2, <4>4, AboveAbove
    <3> QED
      BY <3>1, <3>2, <3>3, <3>4
  <2>2. T \in SUBSET (0 .. N)
    OBVIOUS
  <2>3. T = 0 .. N
    <3> HIDE DEF T
    <3> QED
      BY <1>1, <2>1, <2>2, InductDown
  <2>4. \A h \in path : h \in 0 .. N
    BY <1>1, <1>2
  <2> QED
    BY <2>3, <2>4
<1>8. ASSUME NEW j \in V
      PROVE  /\ (b.up[j] = 0) = (b.parent[j] = 0)
             /\ b.up[j] # 0 => /\ b.up[j] \in j + 1 .. k
                               /\ IsAbove(b.parent, j, b.up[j])
             /\ b.parent[j] # 0 =>
                  /\ b.parent[j] \in j + 1 .. k
                  /\ \E q \in DOMAIN rows[b.parent[j]] :
                        IsAbove(b.parent, rows[b.parent[j]][q], j)
  <2>1. /\ (a.up[j] = 0) = (a.parent[j] = 0)
        /\ a.up[j] # 0 => /\ a.up[j] \in j + 1 .. k
                          /\ IsAbove(a.parent, j, a.up[j])
        /\ a.parent[j] # 0 =>
             /\ a.parent[j] \in j + 1 .. k
             /\ \E q \in DOMAIN rows[a.parent[j]] :
                   IsAbove(a.parent, rows[a.parent[j]][q], j)
    BY DEF TreeTo
  <2>2. a.parent[j] # 0 => \E q \in DOMAIN rows[a.parent[j]] :
                               IsAbove(b.parent, rows[a.parent[j]][q], j)
    BY <2>1, <1>5, AboveStays
  <2>3. CASE j \notin path
    <3>1. b.up[j] = a.up[j] /\ b.parent[j] = a.parent[j]
      BY <1>4, <2>3
    <3>2. a.up[j] # 0 => IsAbove(b.parent, j, a.up[j])
      BY <2>1, <1>5, AboveStays
    <3> QED
      BY <2>1, <2>2, <3>1, <3>2
  <2>4. CASE j \in path
    <3>1. b.up[j] = k /\ j < k /\ IsAbove(b.parent, j, k) /\ k # 0
            /\ k \in j + 1 .. k
      <4>1. j < k /\ IsAbove(b.parent, j, k) /\ b.up[j] = k
        BY <1>2, <1>4, <1>7, <2>4
      <4>2. k # 0 /\ k \in j + 1 .. k
        <5>1. j \in 1 .. N /\ k \in 1 .. N /\ j < k
          BY <1>1, <4>1
        <5> QED
          BY <5>1
      <4> QED
        BY <4>1, <4>2
    <3>2. CASE a.up[j] = 0
      <4>1. b.parent[j] = k
        BY <1>4, <2>4, <3>2
      <4>2. IsAbove(b.parent, i, j)
        BY <1>2, <1>5, <2>4, AboveStays
      <4> QED
        BY <3>1, <4>1, <4>2 DEF i
    <3>3. CASE a.up[j] # 0
      <4>1. b.parent[j] = a.parent[j]
        BY <1>4, <3>3
      <4> QED
        BY <2>1, <2>2, <3>1, <3>3, <4>1
    <3> QED
      BY <3>2, <3>3
  <2> QED
    BY <2>3, <2>4
<1>9. TreeTo(rows, b, k)
  BY <1>4, <1>8 DEF TreeTo
<1> QED
  BY <1>2, <1>5, <1>7, <1>9 DEF b, i

Trees == [up : [V -> 0 .. N], parent : [V -> 0 .. N]]

LEMMA HungType ==
  ASSUME NEW a \in Trees, NEW i, NEW k \in V PROVE Hung(a, i, k) \in Trees
<1> DEFINE path == Climb(a.up, k)[i]
           up == [j \in V |-> IF j \in path THEN k ELSE a.up[j]]
           parent == [j \in V |-> IF j \in path /\ a.up[j] = 0 THEN k
                                  ELSE a.parent[j]]
<1>1. k \in 0 .. N
  BY OrderAssumption DEF V
<1>2. a.up \in [V -> 0 .. N] /\ a.parent \in [V -> 0 .. N]
  BY DEF Trees
<1> HIDE DEF path
<1>3. up \in [V -> 0 .. N] /\ parent \in [V -> 0 .. N]
  BY <1>1, <1>2
<1>4. Hung(a, i, k) = [up |-> Listed(up), parent |-> Listed(parent)]
  BY DEF Hung, path
<1> HIDE DEF up, parent
<1>5. Listed(up) = up /\ Listed(parent) = parent
  BY <1>3, ListedIs
<1> QED
  BY <1>3, <1>4, <1>5 DEF Trees

LEMMA EntriesHungIs ==
  ASSUME NEW a \in Trees, NEW row \in Seq(V), NEW k \in V
  PROVE  LET h == EntriesHung(a, row, k)
         IN  /\ h \in [0 .. Len(row) -> Trees] /\ h[0] = a
             /\ \A p \in 1 .. Len(row) : h[p] = Hung(h[p - 1], row[p], k)
<1> DEFINE n == Len(row)
           Next1(b, p) == Hung(b, row[p], k)
           step == [p \in 1 .. n |-> [b \in Trees |-> Next1(b, p)]]
           Def(h) == h = [p \in 0 .. n |-> IF p = 0 THEN a
                                           ELSE Next1(h[p - 1], p)]
           h == EntriesHung(a, row, k)
<1>1. n \in Nat
  OBVIOUS
<1>2. h = CHOOSE f : Def(f)
  BY DEF EntriesHung
<1>3. \A p \in 1 .. n : \A b \in Trees : Next1(b, p) \in Trees
  BY HungType
<1> HIDE DEF n, Next1, h
<1>4. step \in [1 .. n -> [Trees -> Trees]]
  BY <1>3
<1>5. \E f : Def(f)
  <2>1. PICK f : IsLoop(f, n, Trees, a, step)
    <3> HIDE DEF step
    <3> QED
      BY <1>1, <1>4, Loop
  <2>2. ASSUME NEW p \in 1 .. n
        PROVE  p - 1 \in 0 .. n /\ f[p] = Next1(f[p - 1], p)
    <3>1. p - 1 \in 0 .. n
      BY <1>1
    <3>2. f[p - 1] \in Trees /\ f[p] = step[p][f[p - 1]]
      BY <2>1, <3>1 DEF IsLoop
    <3>3. step[p][f[p - 1]] = Next1(f[p - 1], p)
      BY <3>2
    <3> QED
      BY <3>1, <3>2, <3>3
  <2> QED
    BY <1>1, <2>1, <2>2 DEF IsLoop
<1>6. Def(h)
  <2> HIDE DEF Def
  <2> QED
    BY <1>2, <1>5
<1>7. /\ h = [p \in 0 .. n |-> h[p]] /\ h[0] = a
      /\ \A p \in 1 .. n : h[p] = Next1(h[p - 1], p)
  BY <1>1, <1>6
<1> HIDE DEF Def
<1>8. \A p \in 1 .. n : h[p - 1] \in Trees => h[p] \in Trees
  BY <1>3, <1>7
<1>9. h \in [0 .. n -> Trees]
  BY <1>1, <1>7, <1>8, LoopStays
<1> QED
  BY <1>7, <1>9 DEF n, Next1, h

LEMMA RowsHungIs ==
  ASSUME NEW rows \in [V -> Seq(V)]
  PROVE  LET h == RowsHung(rows)
         IN  /\ h \in [0 .. N -> Trees] /\ h[0] = Bare
             /\ \A k \in 1 .. N :
                  h[k] = EntriesHung(h[k - 1], rows[k], k)[Len(rows[k])]
<1> DEFINE Next1(b, k) == EntriesHung(b, rows[k], k)[Len(rows[k])]
           step == [k \in 1 .. N |-> [b \in Trees |-> Next1(b, k)]]
           Def(h) == h = [k \in 0 .. N |-> IF k = 0 THEN Bare
                                           ELSE Next1(h[k - 1], k)]
           h == RowsHung(rows)
<1>1. N \in Nat /\ V = 1 .. N /\ Bare \in Trees
  BY OrderAssumption DEF V, Bare, Trees
<1>2. h = CHOOSE f : Def(f)
  BY DEF RowsHung
<1>3. \A k \in 1 .. N : \A b \in Trees : Next1(b, k) \in Trees
  <2> SUFFICES ASSUME NEW k \in 1 .. N, NEW b \in Trees
               PROVE  Next1(b, k) \in Trees
    OBVIOUS
  <2>1. rows[k] \in Seq(V) /\ k \in V
    BY <1>1
  <2>2. EntriesHung(b, rows[k], k) \in [0 .. Len(rows[k]) -> Trees]
          /\ Len(rows[k]) \in 0 .. Len(rows[k])
    BY <2>1, EntriesHungIs
  <2> QED
    BY <2>2
<1> HIDE DEF Next1, h
<1>4. step \in [1 .. N -> [Trees -> Trees]]
  BY <1>3
<1>5. \E f : Def(f)
  <2>1. PICK f : IsLoop(f, N, Trees, Bare, step)
    <3> HIDE DEF step
    <3> QED
      BY <1>1, <1>4, Loop
  <2>2. ASSUME NEW k \in 1 .. N
        PROVE  k - 1 \in 0 .. N /\ f[k] = Next1(f[k - 1], k)
    <3>1. k - 1 \in 0 .. N
      BY <1>1
    <3>2. f[k - 1] \in Trees /\ f[k] = step[k][f[k - 1]]
      BY <2>1, <3>1 DEF IsLoop
    <3>3. step[k][f[k - 1]] = Next1(f[k - 1], k)
      BY <3>2
    <3> QED
      BY <3>1, <3>2, <3>3
  <2> QED
    BY <1>1, <2>1, <2>2 DEF IsLoop
<1>6. Def(h)
  <2> HIDE DEF Def
  <2> QED
    BY <1>2, <1>5
<1>7. /\ h = [k \in 0 .. N |-> h[k]] /\ h[0] = Bare
      /\ \A k \in 1 .. N : h[k] = Next1(h[k - 1], k)
  <2>1. 0 \in 0 .. N /\ \A k \in 1 .. N : k \in 0 .. N /\ k # 0
    BY <1>1
  <2>2. \A k \in 0 .. N : h[k] = IF k = 0 THEN Bare ELSE Next1(h[k - 1], k)
    BY <1>6
  <2>3. h = [k \in 0 .. N |-> h[k]]
    BY <1>6, <2>2
  <2> QED
    BY <2>1, <2>2, <2>3
<1> HIDE DEF Def
<1>8. \A k \in 1 .. N : h[k - 1] \in Trees => h[k] \in Trees
  BY <1>3, <1>7
<1>9. h \in [0 .. N -> Trees]
  BY <1>1, <1>7, <1>8, LoopStays
<1> QED
  BY <1>7, <1>9 DEF Next1, h

LEMMA ExtendsOn ==
  ASSUME NEW p, NEW q, NEW r, Extends(p, q), Extends(q, r) PROVE Extends(p, r)
BY DEF Extends

\* All entries of row k.
LEMMA RowHung ==
  ASSUME NEW rows, IsRows(rows), NEW k \in V, NEW a \in Trees,
         TreeTo(rows, a, k)
  PROVE  LET b == EntriesHung(a, rows[k], k)[Len(rows[k])]
         IN  /\ TreeTo(rows, b, k) /\ Extends(a.parent, b.parent)
             /\ \A q \in DOMAIN rows[k] : IsAbove(b.parent, rows[k][q], k)
<1> DEFINE row == rows[k]
           n == Len(rows[k])
           h == EntriesHung(a, rows[k], k)
           Good(p) == /\ TreeTo(rows, h[p], k)
                      /\ Extends(a.parent, h[p].parent)
                      /\ \A q \in 1 .. p : IsAbove(h[p].parent, row[q], k)
           T == {p \in 0 .. n : Good(p)}
<1>1. /\ row \in Seq(V) /\ n \in Nat /\ DOMAIN row = 1 .. n
      /\ \A p \in 1 .. n : row[p] \in 1 .. k - 1
  <2>1. rows[k] \in Seq(V) /\ rows[k] \in Seq(1 .. k - 1)
    BY DEF IsRows
  <2> DEFINE D == 1 .. k - 1
             r == rows[k]
  <2>2. r \in Seq(D) /\ r \in Seq(V)
    BY <2>1
  <2> HIDE DEF D, r
  <2>3. Len(r) \in Nat /\ DOMAIN r = 1 .. Len(r)
          /\ \A p \in 1 .. Len(r) : r[p] \in D
    BY <2>2
  <2> QED
    BY <2>2, <2>3 DEF D, r
<1>2. /\ h \in [0 .. n -> Trees] /\ h[0] = a
      /\ \A p \in 1 .. n : h[p] = Hung(h[p - 1], row[p], k)
  BY <1>1, EntriesHungIs
<1> HIDE DEF h, n
<1>3. 0 \in T
  BY <1>1, <1>2 DEF Extends
<1>4. ASSUME NEW p \in 1 .. n, p - 1 \in T PROVE p \in T
  <2>1. Good(p - 1) /\ p \in 0 .. n
    BY <1>1, <1>4
  <2>2. p \in DOMAIN rows[k] /\ rows[k][p] \in 1 .. k - 1
    BY <1>1
  <2>3. /\ TreeTo(rows, h[p], k) /\ Extends(h[p - 1].parent, h[p].parent)
        /\ IsAbove(h[p].parent, row[p], k)
    BY <1>2, <2>1, <2>2, HungIs
  <2>4. Extends(a.parent, h[p].parent)
    BY <2>1, <2>3, ExtendsOn
  <2>5. ASSUME NEW q \in 1 .. p PROVE IsAbove(h[p].parent, row[q], k)
    <3>1. q = p \/ q \in 1 .. p - 1
      BY <1>1
    <3> QED
      BY <2>1, <2>3, <3>1, AboveStays
  <2> QED
    BY <2>1, <2>3, <2>4, <2>5
<1>5. T = 0 .. n
  <2>1. T \in SUBSET (0 .. n)
    OBVIOUS
  <2> HIDE DEF T
  <2> QED
    BY <1>1, <1>3, <1>4, <2>1, Induct
<1>6. Good(n)
  <2>1. n \in 0 .. n
    BY <1>1
  <2> QED
    BY <1>5, <2>1
<1> QED
  BY <1>1, <1>6 DEF h, n

\* The elimination tree of a pattern: a row hangs above its entries, and a
\* vertex hangs below the first row with an entry that it is above.
LEMMA ParentsAre ==
  ASSUME NEW rows, IsRows(rows)
  PROVE  LET p == Parents(rows)
         IN  /\ IsTree(p)
             /\ \A k \in V : \A q \in DOMAIN rows[k] : IsAbove(p, rows[k][q], k)
             /\ \A i \in V : p[i] # 0 =>
                   \E q \in DOMAIN rows[p[i]] : IsAbove(p, rows[p[i]][q], i)
<1> DEFINE h == RowsHung(rows)
           Good(k) == /\ TreeTo(rows, h[k], k)
                      /\ \A r \in 1 .. k : \A q \in DOMAIN rows[r] :
                            IsAbove(h[k].parent, rows[r][q], r)
           T == {k \in 0 .. N : Good(k)}
<1>1. /\ N \in Nat /\ V = 1 .. N /\ rows \in [V -> Seq(V)]
      /\ h \in [0 .. N -> Trees] /\ h[0] = Bare
      /\ \A k \in 1 .. N :
            h[k] = EntriesHung(h[k - 1], rows[k], k)[Len(rows[k])]
  BY RowsHungIs, OrderAssumption DEF V, IsRows
<1>2. Parents(rows) = h[N].parent
  BY DEF Parents
<1> HIDE DEF h
<1>3. 0 \in T
  <2>1. TreeTo(rows, Bare, 0)
    BY <1>1 DEF TreeTo, Bare
  <2> QED
    BY <1>1, <2>1
<1>4. ASSUME NEW k \in 1 .. N, k - 1 \in T PROVE k \in T
  <2>1. Good(k - 1) /\ k \in V /\ k \in 0 .. N /\ k - 1 \in 0 .. N
    BY <1>1, <1>4
  <2>2. TreeTo(rows, h[k - 1], k) /\ h[k - 1] \in Trees
    <3>1. \A i \in V : i + 1 .. k - 1 \subseteq i + 1 .. k
      BY <1>1
    <3> QED
      BY <1>1, <2>1, <3>1 DEF TreeTo
  <2>3. /\ TreeTo(rows, h[k], k) /\ Extends(h[k - 1].parent, h[k].parent)
        /\ \A q \in DOMAIN rows[k] : IsAbove(h[k].parent, rows[k][q], k)
    BY <1>1, <2>1, <2>2, RowHung
  <2>4. ASSUME NEW r \in 1 .. k, NEW q \in DOMAIN rows[r]
        PROVE  IsAbove(h[k].parent, rows[r][q], r)
    <3>1. r = k \/ r \in 1 .. k - 1
      BY <1>1
    <3> QED
      BY <2>1, <2>3, <3>1, AboveStays
  <2> QED
    BY <2>1, <2>3, <2>4
<1>5. T = 0 .. N
  <2>1. T \in SUBSET (0 .. N)
    OBVIOUS
  <2> HIDE DEF T
  <2> QED
    BY <1>1, <1>3, <1>4, <2>1, Induct
<1>6. Good(N)
  <2>1. N \in 0 .. N
    BY <1>1
  <2> QED
    BY <1>5, <2>1
<1>7. IsTree(h[N].parent)
  BY <1>1, <1>6 DEF TreeTo, IsTree
<1>8. \A i \in V : h[N].parent[i] # 0 =>
        \E q \in DOMAIN rows[h[N].parent[i]] :
            IsAbove(h[N].parent, rows[h[N].parent[i]][q], i)
  BY <1>6 DEF TreeTo
<1> QED
  BY <1>1, <1>2, <1>6, <1>7, <1>8

-----------------------------------------------------------------------------
\* The reach of a row.

LEMMA PathIs ==
  ASSUME NEW p, IsTree(p), NEW mark \in SUBSET V
  PROVE  /\ Path(p, mark) \in [0 .. N -> Seq(V)]
         /\ \A i \in 0 .. N : Path(p, mark)[i] =
                IF i \in V \ mark THEN <<i>> \o Path(p, mark)[p[i]] ELSE << >>
<1> DEFINE B == V \ mark
           S == Seq(V)
           step == [i \in B |-> [s \in S |-> <<i>> \o s]]
           Def(f) == f = [j \in 0 .. N |-> IF j = 0 \/ j \in mark THEN << >>
                                           ELSE <<j>> \o f[p[j]]]
           P == Path(p, mark)
<1>1. /\ N \in Nat /\ V = 1 .. N /\ B \in SUBSET V /\ p \in [V -> 0 .. N]
      /\ \A i \in V : p[i] = 0 \/ p[i] > i
      /\ << >> \in S /\ \A i \in V, s \in S : <<i>> \o s \in S
      /\ \A i \in 0 .. N : i \in B <=> ~(i = 0 \/ i \in mark)
  BY OrderAssumption DEF V, IsTree
<1>2. P = CHOOSE f : Def(f)
  BY DEF Path
<1>3. step \in [B -> [S -> S]]
  BY <1>1
<1> HIDE DEF S, B
<1>4. \E f : Def(f)
  <2>1. p \in [1 .. N -> 0 .. N] /\ \A i \in B : p[i] = 0 \/ p[i] > i
    BY <1>1
  <2>2. PICK f : IsWalk(f, N, S, << >>, B, p, step)
    <3> HIDE DEF step
    <3> QED
      BY <1>1, <1>3, <2>1, Walk
  <2>3. ASSUME NEW i \in 0 .. N
        PROVE  f[i] = IF i \in B THEN <<i>> \o f[p[i]] ELSE << >>
    <3>1. CASE i \in B
      <4>1. p[i] \in 0 .. N
        BY <1>1, <3>1
      <4>2. f[p[i]] \in S /\ f[i] = step[i][f[p[i]]]
        BY <2>2, <3>1, <4>1 DEF IsWalk
      <4> QED
        BY <3>1, <4>2
    <3>2. CASE i \notin B
      BY <2>2, <3>2 DEF IsWalk
    <3> QED
      BY <3>1, <3>2
  <2>4. f = [i \in 0 .. N |-> f[i]]
    BY <2>2 DEF IsWalk
  <2>5. Def(f)
    BY <1>1, <2>3, <2>4
  <2> QED
    BY <2>5
<1>5. Def(P)
  <2> HIDE DEF Def, P
  <2> QED
    BY <1>2, <1>4
<1> HIDE DEF P
<1>6. /\ P = [i \in 0 .. N |-> P[i]]
      /\ \A i \in 0 .. N : P[i] = IF i \in B THEN <<i>> \o P[p[i]] ELSE << >>
  BY <1>1, <1>5
<1> HIDE DEF Def
<1>7. P \in [0 .. N -> S]
  <2>1. P[0] \in S
    <3>1. 0 \notin B /\ 0 \in 0 .. N
      BY <1>1
    <3>2. P[0] = << >>
      BY <1>6, <3>1
    <3> QED
      BY <1>1, <3>2
  <2>2. ASSUME NEW i \in 1 .. N,
               \A j \in {0} \cup i + 1 .. N : P[j] \in S
        PROVE  P[i] \in S
    <3>1. CASE i \in B
      <4>1. p[i] \in {0} \cup i + 1 .. N
        BY <1>1
      <4>2. P[p[i]] \in S
        BY <2>2, <4>1
      <4>3. P[i] = <<i>> \o P[p[i]] /\ i \in V
        BY <1>1, <1>6, <3>1
      <4> QED
        BY <1>1, <4>2, <4>3
    <3>2. CASE i \notin B
      <4>1. i \in 0 .. N
        BY <1>1
      <4>2. P[i] = << >>
        BY <1>6, <3>2, <4>1
      <4> QED
        BY <1>1, <4>2
    <3> QED
      BY <3>1, <3>2
  <2> QED
    BY <1>1, <1>6, <2>1, <2>2, WalkStays
<1> QED
  BY <1>6, <1>7 DEF S, B, P

\* A list of columns each of which has its parent in M or behind it.
Behind(p, s, M) ==
    \A q \in 1 .. Len(s) :
        p[s[q]] \in M \/ \E r \in 1 .. Len(s) : q < r /\ s[r] = p[s[q]]
Ascends(s) == \A q, r \in 1 .. Len(s) : q < r => s[q] < s[r]

\* The path from i to what is marked, below k: it ends at a mark, goes past
\* none, and has every vertex before the one above it.
GoesUp(p, mark, k, i, s) ==
    /\ s \in Seq((1 .. k - 1) \ mark) /\ Ascends(s)
    /\ Behind(p, s, mark)
    /\ i \in mark \/ \E q \in 1 .. Len(s) : s[q] = i

LEMMA PathGoesUp ==
  ASSUME NEW p, IsTree(p), NEW mark \in SUBSET V, NEW k \in mark,
         NEW i \in V, IsAbove(p, i, k)
  PROVE  GoesUp(p, mark, k, i, Path(p, mark)[i])
<1> DEFINE P == Path(p, mark)
           D == (1 .. k - 1) \ mark
           Good(j) == /\ P[j] \in Seq(D) /\ Ascends(P[j])
                      /\ Behind(p, P[j], mark)
                      /\ \A q \in 1 .. Len(P[j]) : P[j][q] >= j
                      /\ j \in mark \/ \E q \in 1 .. Len(P[j]) : P[j][q] = j
           T == {j \in 0 .. N : j \in V /\ IsAbove(p, j, k) => Good(j)}
<1>1. N \in Nat /\ V = 1 .. N /\ k \in V
  BY OrderAssumption DEF V
<1>2. \A j \in V : P[j] = IF j \notin mark THEN <<j>> \o P[p[j]] ELSE << >>
  <2>1. \A j \in V : j \in 0 .. N /\ (j \in V \ mark <=> j \notin mark)
    BY <1>1
  <2>2. \A j \in 0 .. N :
            P[j] = IF j \in V \ mark THEN <<j>> \o P[p[j]] ELSE << >>
    BY PathIs
  <2> HIDE DEF P
  <2> QED
    BY <2>1, <2>2
<1> HIDE DEF P
<1>3. ASSUME NEW j \in 0 .. N, j + 1 .. N \subseteq T PROVE j \in T
  <2> SUFFICES ASSUME j \in V, IsAbove(p, j, k) PROVE Good(j)
    OBVIOUS
  <2>1. CASE j \in mark
    <3>1. P[j] = << >>
      BY <1>2, <2>1
    <3> QED
      BY <2>1, <3>1 DEF Ascends, Behind
  <2>2. CASE j \notin mark
    <3>1. j # k /\ P[j] = <<j>> \o P[p[j]]
      BY <1>2, <2>2
    <3>2. p[j] \in V /\ IsAbove(p, p[j], k) /\ p[j] > j
      BY <1>1, <3>1, AboveNext DEF IsTree
    <3>3. p[j] \in j + 1 .. N
      BY <1>1, <3>2
    <3>4. Good(p[j])
      BY <1>3, <3>2, <3>3
    <3>5. j \in D
      <4>1. k >= j
        BY AboveIsAfter
      <4> QED
        BY <1>1, <2>2, <3>1, <4>1
    <3> DEFINE t == P[p[j]]
    <3>6. /\ t \in Seq(D) /\ Ascends(t) /\ Behind(p, t, mark)
          /\ \A q \in 1 .. Len(t) : t[q] >= p[j]
          /\ p[j] \in mark \/ \E q \in 1 .. Len(t) : t[q] = p[j]
      BY <3>4
    <3> HIDE DEF t, D
    <3> DEFINE s == <<j>> \o t
    <3>7. /\ s \in Seq(D) /\ Len(s) = 1 + Len(t) /\ Len(t) \in Nat
          /\ s[1] = j
          /\ \A q \in 2 .. Len(s) : q - 1 \in 1 .. Len(t) /\ s[q] = t[q - 1]
          /\ \A q \in 1 .. Len(t) : s[q + 1] = t[q]
      <4>1. <<j>> \in Seq(D) /\ Len(<<j>>) = 1 /\ <<j>>[1] = j
        BY <3>5
      <4> DEFINE e == <<j>>
      <4> HIDE DEF e
      <4>2. /\ e \o t \in Seq(D) /\ Len(e \o t) = 1 + Len(t) /\ Len(t) \in Nat
            /\ (e \o t)[1] = j
            /\ \A q \in 2 .. 1 + Len(t) : q - 1 \in 1 .. Len(t)
                                            /\ (e \o t)[q] = t[q - 1]
        BY <3>6, <4>1, ConcatProperties DEF e
      <4>3. \A q \in 1 .. Len(t) : q + 1 \in 2 .. 1 + Len(t) /\ (q + 1) - 1 = q
        BY <4>2
      <4>4. \A q \in 1 .. Len(t) : (e \o t)[q + 1] = t[q]
        BY <4>2, <4>3
      <4> QED
        BY <4>2, <4>4 DEF e
    <3>8. P[j] = s
      BY <3>1 DEF t
    <3> HIDE DEF s
    <3>9. \A q \in 1 .. Len(s) : q = 1 \/ q \in 2 .. Len(s)
      OBVIOUS
    <3>10. \A q \in 1 .. Len(t) : t[q] > j /\ t[q] \in Nat
      <4>1. \A q \in 1 .. Len(t) : t[q] \in Nat
        BY <1>1, <3>6 DEF D
      <4> QED
        BY <1>1, <3>2, <3>6, <4>1
    <3>11. Ascends(s)
      <4> SUFFICES ASSUME NEW q \in 1 .. Len(s), NEW r \in 1 .. Len(s), q < r
                   PROVE  s[q] < s[r]
        BY DEF Ascends
      <4>1. r \in 2 .. Len(s)
        BY <3>7
      <4>2. CASE q = 1
        BY <1>1, <3>7, <3>10, <4>1, <4>2
      <4>3. CASE q \in 2 .. Len(s)
        <5>1. q - 1 < r - 1
          BY <3>7
        <5> QED
          BY <3>6, <3>7, <4>1, <4>3, <5>1 DEF Ascends
      <4> QED
        BY <3>9, <4>2, <4>3
    <3>12. Behind(p, s, mark)
      <4> SUFFICES ASSUME NEW q \in 1 .. Len(s), p[s[q]] \notin mark
                   PROVE  \E r \in 1 .. Len(s) : q < r /\ s[r] = p[s[q]]
        BY DEF Behind
      <4>1. CASE q = 1
        <5>1. PICK r \in 1 .. Len(t) : t[r] = p[j]
          BY <3>6, <3>7, <4>1
        <5>2. r + 1 \in 1 .. Len(s) /\ q < r + 1 /\ s[r + 1] = p[s[q]]
          BY <3>7, <4>1, <5>1
        <5> QED
          BY <5>2
      <4>2. CASE q \in 2 .. Len(s)
        <5>1. q - 1 \in 1 .. Len(t) /\ s[q] = t[q - 1]
          BY <3>7, <4>2
        <5>2. PICK r \in 1 .. Len(t) : q - 1 < r /\ t[r] = p[t[q - 1]]
          BY <3>6, <5>1 DEF Behind
        <5>3. r + 1 \in 1 .. Len(s) /\ q < r + 1 /\ s[r + 1] = p[s[q]]
          BY <3>7, <5>1, <5>2
        <5> QED
          BY <5>3
      <4> QED
        BY <3>9, <4>1, <4>2
    <3>13. \A q \in 1 .. Len(s) : s[q] >= j
      <4> SUFFICES ASSUME NEW q \in 1 .. Len(s) PROVE s[q] >= j
        OBVIOUS
      <4>1. CASE q = 1
        BY <1>1, <3>7, <4>1
      <4>2. CASE q \in 2 .. Len(s)
        <5>1. q - 1 \in 1 .. Len(t) /\ s[q] = t[q - 1]
          BY <3>7, <4>2
        <5> QED
          BY <1>1, <3>10, <5>1
      <4> QED
        BY <3>9, <4>1, <4>2
    <3>14. 1 \in 1 .. Len(s) /\ s[1] = j
      BY <3>7
    <3> QED
      BY <3>7, <3>8, <3>11, <3>12, <3>13, <3>14 DEF D
  <2> QED
    BY <2>1, <2>2
<1>4. T = 0 .. N
  <2>1. T \in SUBSET (0 .. N)
    OBVIOUS
  <2> HIDE DEF T
  <2> QED
    BY <1>1, <1>3, <2>1, InductDown
<1>5. Good(i)
  <2>1. i \in 0 .. N
    BY <1>1
  <2> QED
    BY <1>4, <2>1
<1> QED
  BY <1>5 DEF P, GoesUp

Marks == [s : Seq(V), mark : SUBSET V]

LEMMA Reached1Type ==
  ASSUME NEW p, IsTree(p), NEW a \in Marks, NEW i \in V
  PROVE  Reached1(a, p, i) \in Marks
<1> DEFINE path == Path(p, a.mark)[i]
<1>1. path \in Seq(V)
  <2> DEFINE M == a.mark
  <2>1. i \in 0 .. N /\ M \in SUBSET V
    BY OrderAssumption DEF V, Marks
  <2> HIDE DEF M
  <2>2. Path(p, M) \in [0 .. N -> Seq(V)]
    BY <2>1, PathIs
  <2>3. Path(p, M)[i] \in Seq(V)
    BY <2>1, <2>2
  <2> QED
    BY <2>3 DEF M
<1>2. Reached1(a, p, i) = [s |-> path \o a.s, mark |-> a.mark \cup ToSet(path)]
  BY DEF Reached1, Chained
<1> HIDE DEF path
<1>3. path \o a.s \in Seq(V) /\ a.mark \cup ToSet(path) \in SUBSET V
  <2>1. a.s \in Seq(V) /\ a.mark \in SUBSET V
    BY DEF Marks
  <2>2. ToSet(path) \in SUBSET V
    BY <1>1 DEF ToSet
  <2> QED
    BY <1>1, <2>1, <2>2
<1> QED
  BY <1>2, <1>3 DEF Marks

LEMMA ReachesIs ==
  ASSUME NEW p, IsTree(p), NEW row \in Seq(V), NEW k \in V
  PROVE  LET h == Reaches(p, row, k)
         IN  /\ h \in [0 .. Len(row) -> Marks]
             /\ h[0] = [s |-> << >>, mark |-> {k}]
             /\ \A q \in 1 .. Len(row) : h[q] = Reached1(h[q - 1], p, row[q])
<1> DEFINE n == Len(row)
           a == [s |-> << >>, mark |-> {k}]
           Next1(b, q) == Reached1(b, p, row[q])
           step == [q \in 1 .. n |-> [b \in Marks |-> Next1(b, q)]]
           Def(h) == h = [q \in 0 .. n |-> IF q = 0 THEN a
                                           ELSE Next1(h[q - 1], q)]
           h == Reaches(p, row, k)
<1>1. n \in Nat /\ a \in Marks
  BY DEF Marks
<1>2. h = CHOOSE f : Def(f)
  BY DEF Reaches
<1>3. \A q \in 1 .. n : \A b \in Marks : Next1(b, q) \in Marks
  BY Reached1Type
<1> HIDE DEF n, Next1, h, a
<1>4. step \in [1 .. n -> [Marks -> Marks]]
  BY <1>3
<1>5. \E f : Def(f)
  <2>1. PICK f : IsLoop(f, n, Marks, a, step)
    <3> HIDE DEF step
    <3> QED
      BY <1>1, <1>4, Loop
  <2>2. ASSUME NEW q \in 1 .. n
        PROVE  q - 1 \in 0 .. n /\ f[q] = Next1(f[q - 1], q)
    <3>1. q - 1 \in 0 .. n
      BY <1>1
    <3>2. f[q - 1] \in Marks /\ f[q] = step[q][f[q - 1]]
      BY <2>1, <3>1 DEF IsLoop
    <3>3. step[q][f[q - 1]] = Next1(f[q - 1], q)
      BY <3>2
    <3> QED
      BY <3>1, <3>2, <3>3
  <2> QED
    BY <1>1, <2>1, <2>2 DEF IsLoop
<1>6. Def(h)
  <2> HIDE DEF Def
  <2> QED
    BY <1>2, <1>5
<1>7. /\ h = [q \in 0 .. n |-> h[q]] /\ h[0] = a
      /\ \A q \in 1 .. n : h[q] = Next1(h[q - 1], q)
  BY <1>1, <1>6
<1> HIDE DEF Def
<1>8. \A q \in 1 .. n : h[q - 1] \in Marks => h[q] \in Marks
  BY <1>3, <1>7
<1>9. h \in [0 .. n -> Marks]
  BY <1>1, <1>7, <1>8, LoopStays
<1> QED
  BY <1>7, <1>9 DEF n, Next1, h, a

\* The columns of a row, each once and before the one above it.
IsReach(p, s, k) ==
    /\ s \in Seq(1 .. k - 1)
    /\ \A q, r \in 1 .. Len(s) : q # r => s[q] # s[r]
    /\ Behind(p, s, {k})

LEMMA ReachIs ==
  ASSUME NEW p, IsTree(p), NEW k \in V, NEW row \in Seq(1 .. k - 1),
         \A q \in 1 .. Len(row) : IsAbove(p, row[q], k)
  PROVE  /\ IsReach(p, Reach(p, row, k), k)
         /\ \A q \in 1 .. Len(row) : row[q] \in ToSet(Reach(p, row, k))
<1> DEFINE n == Len(row)
           h == Reaches(p, row, k)
           Good(m) == /\ IsReach(p, h[m].s, k)
                      /\ h[m].mark = {k} \cup ToSet(h[m].s)
                      /\ \A q \in 1 .. m : row[q] \in h[m].mark
           T == {m \in 0 .. n : Good(m)}
<1>1. /\ N \in Nat /\ V = 1 .. N /\ row \in Seq(V) /\ n \in Nat
      /\ \A q \in 1 .. n : row[q] \in 1 .. k - 1
  <2> DEFINE D == 1 .. k - 1
  <2>1. N \in Nat /\ V = 1 .. N /\ D \subseteq V /\ row \in Seq(D)
    BY OrderAssumption DEF V
  <2> HIDE DEF D
  <2>2. row \in Seq(V) /\ Len(row) \in Nat
          /\ \A q \in 1 .. Len(row) : row[q] \in D
    BY <2>1
  <2> QED
    BY <2>1, <2>2 DEF D
<1>2. /\ h \in [0 .. n -> Marks] /\ h[0] = [s |-> << >>, mark |-> {k}]
      /\ \A q \in 1 .. n : h[q] = Reached1(h[q - 1], p, row[q])
  BY <1>1, ReachesIs
<1> HIDE DEF h
<1>3. 0 \in T
  <2>1. << >> \in Seq(1 .. k - 1) /\ Len(<< >>) = 0 /\ ToSet(<< >>) = {}
    BY DEF ToSet
  <2>2. Good(0)
    BY <1>2, <2>1 DEF IsReach, Behind
  <2> QED
    BY <1>1, <2>2
<1>4. ASSUME NEW m \in 1 .. n, m - 1 \in T PROVE m \in T
  <2> DEFINE a == h[m - 1]
             i == row[m]
             t == Path(p, a.mark)[i]
             s == t \o a.s
  <2>1. /\ m \in 0 .. n /\ m - 1 \in 0 .. n /\ i \in V /\ i < k
        /\ a.s \in Seq(V) /\ a.mark \in SUBSET V
    <3>1. m \in 0 .. n /\ m - 1 \in 0 .. n /\ row[m] \in 1 .. k - 1
      BY <1>1
    <3>2. h[m - 1] \in Marks
      BY <1>2, <3>1
    <3> QED
      BY <1>1, <3>1, <3>2 DEF Marks
  <2>2. /\ IsReach(p, a.s, k) /\ a.mark = {k} \cup ToSet(a.s)
        /\ \A q \in 1 .. m - 1 : row[q] \in a.mark
    BY <1>4
  <2>3. h[m] = [s |-> s, mark |-> a.mark \cup ToSet(t)]
    BY <1>2 DEF Reached1, Chained
  <2>4. /\ t \in Seq((1 .. k - 1) \ a.mark) /\ Ascends(t)
        /\ Behind(p, t, a.mark)
        /\ i \in a.mark \/ \E q \in 1 .. Len(t) : t[q] = i
    <3> DEFINE M == a.mark
    <3>1. k \in M /\ IsAbove(p, i, k) /\ i \in V /\ M \in SUBSET V
      BY <2>1, <2>2
    <3> HIDE DEF M, a, i
    <3>2. GoesUp(p, M, k, i, Path(p, M)[i])
      BY <3>1, PathGoesUp
    <3> QED
      BY <3>2 DEF M, GoesUp
  <2> DEFINE b == a.s
             M == a.mark
             D == 1 .. k - 1
  <2> HIDE DEF a, t, i
  <2>5. /\ t \in Seq(D \ M) /\ b \in Seq(D)
        /\ Len(t) \in Nat /\ Len(b) \in Nat
        /\ \A q \in 1 .. Len(t) : t[q] \in D \ M
        /\ \A q \in 1 .. Len(b) : b[q] \in D /\ b[q] \in M
    <3>1. t \in Seq(D \ M) /\ b \in Seq(D)
      BY <2>2, <2>4 DEF IsReach
    <3>2. \A q \in 1 .. Len(b) : b[q] \in ToSet(b)
      BY <3>1 DEF ToSet
    <3> HIDE DEF D, M, b
    <3>3. \A q \in 1 .. Len(b) : b[q] \in M
      BY <2>2, <3>2 DEF M, b
    <3> QED
      BY <3>1, <3>3
  <2>6. M = {k} \cup ToSet(b)
    BY <2>2
  <2> HIDE DEF D, M
  <2>7. /\ s \in Seq(D) /\ Len(s) = Len(t) + Len(b)
        /\ \A q \in 1 .. Len(t) : s[q] = t[q]
        /\ \A q \in 1 .. Len(b) : s[Len(t) + q] = b[q]
        /\ \A q \in 1 .. Len(s) :
              \/ q \in 1 .. Len(t) /\ s[q] = t[q]
              \/ q > Len(t) /\ q - Len(t) \in 1 .. Len(b)
                   /\ s[q] = b[q - Len(t)]
    <3>1. t \in Seq(D)
      BY <2>5
    <3> HIDE DEF b
    <3>2. /\ t \o b \in Seq(D) /\ Len(t \o b) = Len(t) + Len(b)
          /\ \A q \in 1 .. Len(t) + Len(b) : (t \o b)[q] =
                IF q <= Len(t) THEN t[q] ELSE b[q - Len(t)]
      BY <2>5, <3>1, ConcatProperties
    <3>3. \A q \in 1 .. Len(t) : q \in 1 .. Len(t) + Len(b) /\ q <= Len(t)
      BY <2>5
    <3>4. \A q \in 1 .. Len(b) : /\ Len(t) + q \in 1 .. Len(t) + Len(b)
                                 /\ ~(Len(t) + q <= Len(t))
                                 /\ (Len(t) + q) - Len(t) = q
      BY <2>5
    <3>5. \A q \in 1 .. Len(t) + Len(b) :
             (q <= Len(t) /\ q \in 1 .. Len(t))
             \/ (q > Len(t) /\ ~(q <= Len(t)) /\ q - Len(t) \in 1 .. Len(b))
      BY <2>5
    <3>6. \A q \in 1 .. Len(b) : (t \o b)[Len(t) + q] = b[q]
      BY <3>2, <3>4
    <3>7. \A q \in 1 .. Len(t) : (t \o b)[q] = t[q]
      BY <3>2, <3>3
    <3>8. \A q \in 1 .. Len(t \o b) :
              \/ q \in 1 .. Len(t) /\ (t \o b)[q] = t[q]
              \/ q > Len(t) /\ q - Len(t) \in 1 .. Len(b)
                   /\ (t \o b)[q] = b[q - Len(t)]
      BY <3>2, <3>5
    <3> QED
      BY <3>2, <3>6, <3>7, <3>8 DEF b
  <2> HIDE DEF s, b
  <2>8. \A q, r \in 1 .. Len(s) : q # r => s[q] # s[r]
    <3>1. SUFFICES ASSUME NEW q \in 1 .. Len(s), NEW r \in 1 .. Len(s), q < r
                   PROVE  s[q] # s[r]
      BY <2>5, <2>7
    <3>2. CASE r \in 1 .. Len(t)
      <4>1. q \in 1 .. Len(t)
        BY <2>5, <3>1, <3>2
      <4>2. t[q] < t[r] /\ t[q] \in Int
        <5>1. t[q] \in D
          BY <2>5, <4>1
        <5> QED
          BY <2>4, <3>1, <3>2, <4>1, <5>1 DEF Ascends, D
      <4> QED
        BY <2>7, <3>2, <4>1, <4>2
    <3>3. CASE r > Len(t) /\ r - Len(t) \in 1 .. Len(b) /\ s[r] = b[r - Len(t)]
      <4>1. CASE q \in 1 .. Len(t)
        BY <2>5, <2>7, <3>3, <4>1
      <4>2. CASE q - Len(t) \in 1 .. Len(b) /\ s[q] = b[q - Len(t)]
        <5>1. q - Len(t) # r - Len(t)
          BY <2>5, <3>1
        <5>2. b[q - Len(t)] # b[r - Len(t)]
          BY <2>2, <3>3, <4>2, <5>1 DEF IsReach, b
        <5> QED
          BY <3>3, <4>2, <5>2
      <4> QED
        BY <2>7, <4>1, <4>2
    <3> QED
      BY <2>7, <3>2, <3>3
  <2>9. Behind(p, s, {k})
    <3> SUFFICES ASSUME NEW q \in 1 .. Len(s), p[s[q]] # k
                 PROVE  \E r \in 1 .. Len(s) : q < r /\ s[r] = p[s[q]]
      BY DEF Behind
    <3>1. CASE q \in 1 .. Len(t) /\ s[q] = t[q]
      <4>1. CASE p[t[q]] \in M
        <5>1. p[t[q]] \in ToSet(b)
          BY <2>6, <3>1, <4>1
        <5>2. PICK r \in 1 .. Len(b) : b[r] = p[t[q]]
          BY <2>5, <5>1 DEF ToSet
        <5>3. Len(t) + r \in 1 .. Len(s) /\ q < Len(t) + r
          BY <2>5, <2>7, <3>1
        <5> QED
          BY <2>7, <3>1, <5>2, <5>3
      <4>2. CASE p[t[q]] \notin M
        <5>1. PICK r \in 1 .. Len(t) : q < r /\ t[r] = p[t[q]]
          BY <2>4, <3>1, <4>2 DEF Behind, M
        <5>2. r \in 1 .. Len(s)
          BY <2>5, <2>7
        <5> QED
          BY <2>7, <3>1, <5>1, <5>2
      <4> QED
        BY <4>1, <4>2
    <3>2. CASE q > Len(t) /\ q - Len(t) \in 1 .. Len(b) /\ s[q] = b[q - Len(t)]
      <4>1. PICK r \in 1 .. Len(b) : q - Len(t) < r /\ b[r] = p[b[q - Len(t)]]
        BY <2>2, <3>2 DEF IsReach, Behind, b
      <4>2. Len(t) + r \in 1 .. Len(s) /\ q < Len(t) + r
        BY <2>5, <2>7, <4>1
      <4> QED
        BY <2>7, <3>2, <4>1, <4>2
    <3> QED
      BY <2>7, <3>1, <3>2
  <2>10. ToSet(s) = ToSet(t) \cup ToSet(b)
    <3>1. ToSet(s) = {s[q] : q \in 1 .. Len(s)}
            /\ ToSet(t) = {t[q] : q \in 1 .. Len(t)}
            /\ ToSet(b) = {b[q] : q \in 1 .. Len(b)}
      <4>1. DOMAIN s = 1 .. Len(s) /\ DOMAIN b = 1 .. Len(b)
        BY <2>5, <2>7
      <4>2. DOMAIN t = 1 .. Len(t)
        BY <2>5
      <4> QED
        BY <4>1, <4>2 DEF ToSet
    <3>2. \A q \in 1 .. Len(t) : q \in 1 .. Len(s)
      BY <2>5, <2>7
    <3>3. \A q \in 1 .. Len(b) : Len(t) + q \in 1 .. Len(s)
      BY <2>5, <2>7
    <3> QED
      BY <2>7, <3>1, <3>2, <3>3
  <2>11. /\ h[m].mark = {k} \cup ToSet(h[m].s) /\ h[m].s = s
         /\ h[m].mark = M \cup ToSet(t)
    BY <2>3, <2>6, <2>10 DEF M, s, b
  <2>12. ASSUME NEW q \in 1 .. m PROVE row[q] \in M \cup ToSet(t)
    <3>1. q = m \/ q \in 1 .. m - 1
      BY <1>1
    <3>2. CASE q = m
      <4>1. \A r \in 1 .. Len(t) : t[r] \in ToSet(t)
        BY <2>5 DEF ToSet
      <4> QED
        BY <2>4, <3>2, <4>1 DEF i, M
    <3> QED
      BY <2>2, <3>1, <3>2 DEF M
  <2>13. IsReach(p, s, k)
    BY <2>7, <2>8, <2>9 DEF IsReach, D
  <2> QED
    BY <2>1, <2>11, <2>12, <2>13
<1>5. T = 0 .. n
  <2>1. T \in SUBSET (0 .. n)
    OBVIOUS
  <2> HIDE DEF T
  <2> QED
    BY <1>1, <1>3, <1>4, <2>1, Induct
<1>6. Good(n)
  <2>1. n \in 0 .. n
    BY <1>1
  <2> QED
    BY <1>5, <2>1
<1>7. Reach(p, row, k) = h[n].s
  BY DEF Reach, h
<1>8. \A q \in 1 .. n : row[q] # k
  BY <1>1, OrderAssumption DEF V
<1> QED
  BY <1>6, <1>7, <1>8

\* Row j is above every column it has an entry in.
LEMMA ReachIsBelow ==
  ASSUME NEW p, IsTree(p), NEW j \in V, NEW t, IsReach(p, t, j),
         NEW i \in ToSet(t)
  PROVE  IsAbove(p, i, j)
<1> DEFINE n == Len(t)
           T == {q \in 0 .. n : q \in 1 .. n => IsAbove(p, t[q], j)}
<1>1. t \in Seq(1 .. j - 1) /\ n \in Nat /\ DOMAIN t = 1 .. n
  BY DEF IsReach
<1>2. ASSUME NEW q \in 0 .. n, q + 1 .. n \subseteq T PROVE q \in T
  <2> SUFFICES ASSUME q \in 1 .. n PROVE IsAbove(p, t[q], j)
    OBVIOUS
  <2>1. t[q] \in 1 .. j - 1
    <3> HIDE DEF n
    <3> DEFINE D == 1 .. j - 1
    <3>1. t \in Seq(D)
      BY <1>1
    <3> HIDE DEF D
    <3>2. t[q] \in D
      BY <1>1, <3>1 DEF n
    <3> QED
      BY <3>2 DEF D
  <2>2. p[t[q]] = j \/ \E r \in 1 .. n : q < r /\ t[r] = p[t[q]]
    BY DEF IsReach, Behind
  <2>3. CASE p[t[q]] = j
    <3>1. j # 0
      BY OrderAssumption DEF V
    <3> QED
      BY <2>3, <3>1, AboveParent
  <2>4. CASE \E r \in 1 .. n : q < r /\ t[r] = p[t[q]]
    <3>1. PICK r \in 1 .. n : q < r /\ t[r] = p[t[q]]
      BY <2>4
    <3>2. r \in q + 1 .. n
      BY <1>1, <3>1
    <3>3. IsAbove(p, t[r], j)
      BY <1>2, <3>2
    <3>4. t[r] # 0
      <4> HIDE DEF n
      <4> DEFINE D == 1 .. j - 1
      <4>1. t \in Seq(D) /\ 0 \notin D
        BY <1>1
      <4> HIDE DEF D
      <4> QED
        BY <1>1, <4>1 DEF n
    <3> QED
      BY <3>1, <3>3, <3>4, AboveParent, AboveAbove
  <2> QED
    BY <2>2, <2>3, <2>4
<1>3. T = 0 .. n
  <2>1. T \in SUBSET (0 .. n)
    OBVIOUS
  <2> HIDE DEF T, n
  <2> QED
    BY <1>1, <1>2, <2>1, InductDown
<1>4. PICK q \in 1 .. n : t[q] = i
  BY <1>1 DEF ToSet
<1>5. q \in 0 .. n
  BY <1>1
<1> QED
  BY <1>3, <1>4, <1>5

\* A row with an entry in a column where an earlier one has one has an entry
\* in the column of that row, and comes to it later.
LEMMA ReachMeets ==
  ASSUME NEW p, IsTree(p), NEW k \in V, NEW s, IsReach(p, s, k),
         NEW j \in V, NEW t, IsReach(p, t, j), j < k,
         NEW q \in 1 .. Len(s), s[q] \in ToSet(t)
  PROVE  \E r \in 1 .. Len(s) : q < r /\ s[r] = j
<1> DEFINE i == s[q]
           C == {s[r] : r \in {h \in 1 .. Len(s) : q < h}} \cup {i}
                  \cup {h \in V : h >= k}
<1>1. /\ N \in Nat /\ V = 1 .. N /\ i \in V /\ Len(s) \in Nat
      /\ \A r \in 1 .. Len(s) : s[r] \in V
  <2> DEFINE D == 1 .. k - 1
  <2>1. s \in Seq(D) /\ D \subseteq V
    BY OrderAssumption DEF IsReach, V
  <2> HIDE DEF D
  <2>2. Len(s) \in Nat /\ \A r \in 1 .. Len(s) : s[r] \in V
    BY <2>1
  <2>3. N \in Nat /\ V = 1 .. N
    BY OrderAssumption DEF V
  <2> QED
    BY <2>2, <2>3
<1>2. \A r \in 1 .. Len(s) :
        p[s[r]] = k \/ \E h \in 1 .. Len(s) : r < h /\ s[h] = p[s[r]]
  BY DEF IsReach, Behind
<1>3. Closed(p, C)
  <2> SUFFICES ASSUME NEW c \in C, p[c] # 0 PROVE p[c] \in C
    BY DEF Closed
  <2>1. k \in C /\ Len(s) \in Nat
    BY <1>1
  <2>2. CASE c \in V /\ c >= k
    <3>1. p[c] \in 0 .. N /\ p[c] > c
      BY <2>2 DEF IsTree
    <3> QED
      BY <1>1, <2>2, <3>1
  <2>3. CASE \E r \in 1 .. Len(s) : q <= r /\ c = s[r]
    <3>1. PICK r \in 1 .. Len(s) : q <= r /\ c = s[r]
      BY <2>3
    <3>2. CASE p[s[r]] = k
      BY <2>1, <3>1, <3>2
    <3>3. CASE \E h \in 1 .. Len(s) : r < h /\ s[h] = p[s[r]]
      <4>1. PICK h \in 1 .. Len(s) : r < h /\ s[h] = p[s[r]]
        BY <3>3
      <4>2. q < h
        BY <2>1, <3>1, <4>1
      <4> QED
        BY <3>1, <4>1, <4>2
    <3> QED
      BY <1>2, <3>2, <3>3
  <2>4. q <= q
    BY <2>1
  <2> QED
    BY <2>1, <2>2, <2>3, <2>4
<1>4. C \in SUBSET V /\ i \in C
  BY <1>1
<1> HIDE DEF C
<1>5. IsAbove(p, i, j)
  BY ReachIsBelow
<1>6. j \in C
  BY <1>3, <1>4, <1>5 DEF IsAbove
<1>7. i < j
  <2> DEFINE D == 1 .. j - 1
  <2>1. t \in Seq(D)
    BY DEF IsReach
  <2> HIDE DEF D
  <2>2. i \in D
    BY <2>1 DEF ToSet
  <2> QED
    BY <1>1, <2>2 DEF D
<1>8. j # i /\ ~(j >= k)
  BY <1>1, <1>7
<1> QED
  BY <1>6, <1>8 DEF C

\* What an analysis leaves.
Analysed(a) ==
    /\ IsRows(a.rows) /\ a.parent = Parents(a.rows)
    /\ a.work = RowWork(a.parent, a.rows)

LEMMA ReachOfIs ==
  ASSUME NEW a, Analysed(a), NEW k \in V
  PROVE  IsTree(a.parent) /\ IsReach(a.parent, ReachOf(a, k), k)
<1> DEFINE p == a.parent
           row == a.rows[k]
<1>1. /\ IsTree(p) /\ row \in Seq(1 .. k - 1)
      /\ \A q \in DOMAIN row : IsAbove(p, row[q], k)
  BY ParentsAre DEF Analysed, IsRows
<1> HIDE DEF p, row
<1>2. DOMAIN row = 1 .. Len(row)
  <2> DEFINE D == 1 .. k - 1
  <2>1. row \in Seq(D)
    BY <1>1
  <2> HIDE DEF D
  <2> QED
    BY <2>1
<1>3. IsReach(p, Reach(p, row, k), k)
  BY <1>1, <1>2, ReachIs
<1> QED
  BY <1>1, <1>3 DEF p, row, ReachOf

-----------------------------------------------------------------------------
\* The numeric factor, row by row.

Entry == [row : Nat, from : Seq(V)]
Gathered == [V -> Seq(V)]
Columns == [V -> Seq(Entry)]
Factors == [x : Gathered, col : Columns, bill : Int]

\* Column i has row j at its entry number p or after.
Hits(c, i, p, j) == \E q \in p .. Len(c[i]) : c[i][q].row = j
Cleared(r, i, j) == IF j = i THEN << >> ELSE r[j]

LEMMA SubtractIs ==
  ASSUME NEW r \in Gathered, NEW c, NEW i \in V, NEW p
  PROVE  /\ Subtract(r, c, i, p) \in Gathered
         /\ \A j \in V : Subtract(r, c, i, p)[j] =
                IF Hits(c, i, p, j) THEN Append(r[j], i) ELSE r[j]
<1> DEFINE f == [j \in V |-> IF Hits(c, i, p, j) THEN Append(r[j], i)
                             ELSE r[j]]
<1>1. f \in [V -> Seq(V)]
  BY DEF Gathered
<1>2. Subtract(r, c, i, p) = Listed(f)
  BY DEF Subtract, Hits
<1>3. Listed(f) = f
  <2> HIDE DEF f
  <2> QED
    BY <1>1, ListedIs
<1> QED
  BY <1>1, <1>2, <1>3 DEF Gathered

LEMMA PutIs ==
  ASSUME NEW c \in Columns, NEW i \in V, NEW k \in V, NEW v \in Seq(V)
  PROVE  /\ Put(c, i, k, v) \in Columns
         /\ Put(c, i, k, v)[i] = Append(c[i], [row |-> k, from |-> v])
         /\ \A j \in V : j # i => Put(c, i, k, v)[j] = c[j]
<1> DEFINE e == [row |-> k, from |-> v]
<1>1. e \in Entry
  BY OrderAssumption DEF V, Entry
<1> HIDE DEF e
<1>2. Put(c, i, k, v) = [c EXCEPT ![i] = Append(c[i], e)]
  BY DEF Put, e
<1>3. Append(c[i], e) \in Seq(Entry)
  BY <1>1 DEF Columns
<1> QED
  BY <1>2, <1>3 DEF Columns, e

LEMMA EliminateIs ==
  ASSUME NEW a \in Factors, NEW i \in V, NEW k \in V
  PROVE  LET b == Eliminate(a, i, k)
         IN  /\ b \in Factors
             /\ \A j \in V : b.x[j] = IF Hits(a.col, i, 1, j)
                                      THEN Append(Cleared(a.x, i, j), i)
                                      ELSE Cleared(a.x, i, j)
             /\ b.col[i] = Append(a.col[i], [row |-> k, from |-> a.x[i]])
             /\ \A j \in V : j # i => b.col[j] = a.col[j]
             /\ b.bill = a.bill + Len(a.col[i])
<1> DEFINE y == [a.x EXCEPT ![i] = << >>]
           b == Eliminate(a, i, k)
<1>1. a.x \in Gathered /\ a.col \in Columns /\ a.bill \in Int
      /\ a.x[i] \in Seq(V) /\ Len(a.col[i]) \in Nat
  BY DEF Factors, Gathered, Columns
<1>2. y \in Gathered /\ \A j \in V : y[j] = Cleared(a.x, i, j)
  BY <1>1 DEF Gathered, Cleared
<1>3. b = [x |-> Subtract(y, a.col, i, 1), col |-> Put(a.col, i, k, a.x[i]),
           bill |-> a.bill + Len(a.col[i])]
  BY DEF Eliminate
<1> HIDE DEF y, b
<1>4. /\ b.x \in Gathered
      /\ \A j \in V : b.x[j] = IF Hits(a.col, i, 1, j) THEN Append(y[j], i)
                               ELSE y[j]
  BY <1>2, <1>3, SubtractIs
<1>5. /\ b.col \in Columns
      /\ b.col[i] = Append(a.col[i], [row |-> k, from |-> a.x[i]])
      /\ \A j \in V : j # i => b.col[j] = a.col[j]
  <2> DEFINE c == a.col
             v == a.x[i]
  <2>1. b.col = Put(c, i, k, v) /\ c \in Columns /\ v \in Seq(V)
    BY <1>1, <1>3
  <2> HIDE DEF c, v
  <2>2. /\ Put(c, i, k, v) \in Columns
        /\ Put(c, i, k, v)[i] = Append(c[i], [row |-> k, from |-> v])
        /\ \A j \in V : j # i => Put(c, i, k, v)[j] = c[j]
    BY <2>1, PutIs
  <2> QED
    BY <2>1, <2>2 DEF c, v
<1>6. b.bill \in Int /\ b.bill = a.bill + Len(a.col[i])
  BY <1>1, <1>3
<1>7. b \in Factors
  BY <1>3, <1>4, <1>5, <1>6 DEF Factors
<1> QED
  BY <1>2, <1>4, <1>5, <1>6, <1>7 DEF b

LEMMA RowStepsIs ==
  ASSUME NEW f \in Factors, NEW s \in Seq(V), NEW k \in V
  PROVE  LET h == RowSteps(f, s, k)
         IN  /\ h \in [0 .. Len(s) -> Factors] /\ h[0] = f
             /\ \A q \in 1 .. Len(s) : h[q] = Eliminate(h[q - 1], s[q], k)
<1> DEFINE n == Len(s)
           T == Factors
           a == f
           Next1(b, q) == Eliminate(b, s[q], k)
           step == [q \in 1 .. n |-> [b \in T |-> Next1(b, q)]]
           Def(fn) == fn = [q \in 0 .. n |-> IF q = 0 THEN a
                                           ELSE Next1(fn[q - 1], q)]
           h == RowSteps(f, s, k)
<1>1. n \in Nat /\ a \in T
  OBVIOUS
<1>2. h = CHOOSE fn : Def(fn)
  BY DEF RowSteps
<1>3. ASSUME NEW q \in 1 .. n, NEW b \in T PROVE Next1(b, q) \in T
  <2>1. s[q] \in V
    OBVIOUS
  <2> QED
    BY <2>1, EliminateIs
<1> HIDE DEF n, T, Next1, h, a
<1>4. step \in [1 .. n -> [T -> T]]
  BY <1>3
<1>5. \E fn : Def(fn)
  <2>1. PICK fn : IsLoop(fn, n, T, a, step)
    <3> HIDE DEF step
    <3> QED
      BY <1>1, <1>4, Loop
  <2>2. ASSUME NEW q \in 1 .. n
        PROVE  q - 1 \in 0 .. n /\ fn[q] = Next1(fn[q - 1], q)
    <3>1. q - 1 \in 0 .. n
      BY <1>1
    <3>2. fn[q - 1] \in T /\ fn[q] = step[q][fn[q - 1]]
      BY <2>1, <3>1 DEF IsLoop
    <3>3. step[q][fn[q - 1]] = Next1(fn[q - 1], q)
      BY <3>2
    <3> QED
      BY <3>1, <3>2, <3>3
  <2> QED
    BY <1>1, <2>1, <2>2 DEF IsLoop
<1>6. Def(h)
  <2> HIDE DEF Def
  <2> QED
    BY <1>2, <1>5
<1>7. /\ h = [q \in 0 .. n |-> h[q]] /\ h[0] = a
      /\ \A q \in 1 .. n : h[q] = Next1(h[q - 1], q)
  <2>1. 0 \in 0 .. n /\ \A q \in 1 .. n : q \in 0 .. n /\ q # 0
    BY <1>1
  <2>2. \A q \in 0 .. n : h[q] = IF q = 0 THEN a ELSE Next1(h[q - 1], q)
    BY <1>6
  <2>3. h = [q \in 0 .. n |-> h[q]]
    BY <1>6, <2>2
  <2> QED
    BY <2>1, <2>2, <2>3
<1> HIDE DEF Def
<1>8. \A q \in 1 .. n : h[q - 1] \in T => h[q] \in T
  BY <1>3, <1>7
<1>9. h \in [0 .. n -> T]
  BY <1>1, <1>7, <1>8, LoopStays
<1> QED
  BY <1>7, <1>9 DEF n, T, Next1, h, a

\* What there is of the columns after m rows: the entries below the diagonal,
\* each in a column of its row.
GoodCols(a, c, m) ==
    \A i \in V : \A q \in 1 .. Len(c[i]) :
        c[i][q].row \in i + 1 .. m /\ i \in ToSet(ReachOf(a, c[i][q].row))

LEMMA ReachOfType ==
  ASSUME NEW a, Analysed(a), NEW k \in V
  PROVE  LET s == ReachOf(a, k)
         IN  /\ s \in Seq(V) /\ Len(s) \in Nat /\ DOMAIN s = 1 .. Len(s)
             /\ \A q \in 1 .. Len(s) : s[q] \in V /\ s[q] < k
             /\ \A q, r \in 1 .. Len(s) : q # r => s[q] # s[r]
<1> DEFINE s == ReachOf(a, k)
           D == 1 .. k - 1
<1>1. s \in Seq(D) /\ \A q, r \in 1 .. Len(s) : q # r => s[q] # s[r]
  BY ReachOfIs DEF IsReach
<1> HIDE DEF s
<1>2. D \subseteq V /\ \A d \in D : d < k
  BY OrderAssumption DEF V
<1> HIDE DEF D
<1>3. s \in Seq(V) /\ Len(s) \in Nat /\ DOMAIN s = 1 .. Len(s)
        /\ \A q \in 1 .. Len(s) : s[q] \in D
  BY <1>1, <1>2
<1> QED
  BY <1>1, <1>2, <1>3 DEF s

\* Row k after the first q of its columns: each of those has one entry more,
\* and what is gathered is for columns to come.
RowAt(g, s, k, h, q) ==
    /\ \A i \in V : i \notin {s[r] : r \in 1 .. q} => h[q].col[i] = g.col[i]
    /\ \A r \in 1 .. q : h[q].col[s[r]] =
            Append(g.col[s[r]], [row |-> k, from |-> h[r - 1].x[s[r]]])
    /\ \A j \in V : h[q].x[j] # << >> => \E r \in q + 1 .. Len(s) : s[r] = j

LEMMA RowGathers ==
  ASSUME NEW a, Analysed(a), NEW k \in V, NEW g \in Factors,
         GoodCols(a, g.col, k - 1), g.x = Blank,
         NEW q \in 0 .. Len(ReachOf(a, k))
  PROVE  RowAt(g, ReachOf(a, k), k, RowSteps(g, ReachOf(a, k), k), q)
<1> DEFINE s == ReachOf(a, k)
           n == Len(s)
           h == RowSteps(g, s, k)
           T == {m \in 0 .. n : RowAt(g, s, k, h, m)}
<1>1. /\ s \in Seq(V) /\ n \in Nat
      /\ \A r \in 1 .. n : s[r] \in V /\ s[r] < k
      /\ \A m, r \in 1 .. n : m # r => s[m] # s[r]
  BY ReachOfType
<1>2. IsTree(a.parent) /\ IsReach(a.parent, s, k)
  BY ReachOfIs
<1> HIDE DEF s
<1>3. /\ h \in [0 .. n -> Factors] /\ h[0] = g
      /\ \A m \in 1 .. n : h[m] = Eliminate(h[m - 1], s[m], k)
  BY <1>1, RowStepsIs
<1> HIDE DEF h, n
<1>4. 0 \in T
  <2>1. \A j \in V : h[0].x[j] = << >>
    BY <1>3 DEF Blank
  <2>2. RowAt(g, s, k, h, 0)
    BY <1>3, <2>1 DEF RowAt
  <2> QED
    BY <1>1, <2>2
<1>5. ASSUME NEW m \in 1 .. n, m - 1 \in T PROVE m \in T
  <2> DEFINE b == h[m - 1]
             i == s[m]
             c == h[m]
  <2>1. m \in 0 .. n /\ m - 1 \in 0 .. n /\ i \in V /\ i < k /\ b \in Factors
    BY <1>1, <1>3
  <2>2. /\ \A j \in V : j \notin {s[r] : r \in 1 .. m - 1} =>
                          b.col[j] = g.col[j]
        /\ \A r \in 1 .. m - 1 : b.col[s[r]] =
              Append(g.col[s[r]], [row |-> k, from |-> h[r - 1].x[s[r]]])
        /\ \A j \in V : b.x[j] # << >> =>
              \E r \in (m - 1) + 1 .. Len(s) : s[r] = j
    BY <1>5 DEF RowAt
  <2>3. /\ \A j \in V : c.x[j] = IF Hits(b.col, i, 1, j)
                                 THEN Append(Cleared(b.x, i, j), i)
                                 ELSE Cleared(b.x, i, j)
        /\ c.col[i] = Append(b.col[i], [row |-> k, from |-> b.x[i]])
        /\ \A j \in V : j # i => c.col[j] = b.col[j]
    <3> HIDE DEF b, i, c
    <3>1. c = Eliminate(b, i, k)
      BY <1>3 DEF b, i, c
    <3> QED
      BY <2>1, <3>1, EliminateIs
  <2>4. \A r \in 1 .. m - 1 : s[r] # i
    <3>1. \A r \in 1 .. m - 1 : r \in 1 .. n /\ r # m
      BY <1>1
    <3> QED
      BY <1>1, <3>1
  <2>5. b.col[i] = g.col[i]
    BY <2>1, <2>2, <2>4
  <2> HIDE DEF b, i, c
  <2>6. \A j \in V : j \notin {s[r] : r \in 1 .. m} => c.col[j] = g.col[j]
    <3>1. m \in 1 .. m /\ \A r \in 1 .. m - 1 : r \in 1 .. m
      BY <1>1
    <3>2. i \in {s[r] : r \in 1 .. m}
      BY <3>1 DEF i
    <3>3. {s[r] : r \in 1 .. m - 1} \subseteq {s[r] : r \in 1 .. m}
      BY <3>1
    <3> QED
      BY <2>2, <2>3, <3>2, <3>3
  <2>7. ASSUME NEW r \in 1 .. m
        PROVE  c.col[s[r]] =
                 Append(g.col[s[r]], [row |-> k, from |-> h[r - 1].x[s[r]]])
    <3>1. r = m \/ r \in 1 .. m - 1
      BY <1>1
    <3>2. CASE r = m
      BY <2>3, <2>5, <3>2 DEF i, b
    <3>3. CASE r \in 1 .. m - 1
      <4>1. s[r] # i /\ r \in 1 .. n
        BY <1>1, <2>4, <3>3
      <4> QED
        BY <1>1, <2>2, <2>3, <3>3, <4>1
    <3> QED
      BY <3>1, <3>2, <3>3
  <2>8. ASSUME NEW j \in V, c.x[j] # << >>
        PROVE  \E r \in m + 1 .. Len(s) : s[r] = j
    <3>1. CASE Hits(b.col, i, 1, j)
      <4>1. PICK r \in 1 .. Len(g.col[i]) : g.col[i][r].row = j
        BY <2>5, <3>1 DEF Hits
      <4>2. j \in i + 1 .. k - 1 /\ i \in ToSet(ReachOf(a, j))
        BY <2>1, <4>1 DEF GoodCols
      <4>3. j < k /\ IsReach(a.parent, ReachOf(a, j), j)
        BY <2>1, <4>2, ReachOfIs
      <4>4. PICK r0 \in 1 .. Len(s) : m < r0 /\ s[r0] = j
        <5>1. m \in 1 .. Len(s) /\ s[m] \in ToSet(ReachOf(a, j))
          BY <4>2 DEF n, i
        <5> QED
          BY <1>2, <4>3, <5>1, ReachMeets
      <4>5. r0 \in m + 1 .. Len(s)
        BY <1>1, <4>4 DEF n
      <4> QED
        BY <4>4, <4>5
    <3>2. CASE ~Hits(b.col, i, 1, j)
      <4>1. j # i /\ b.x[j] # << >>
        BY <2>3, <2>8, <3>2 DEF Cleared
      <4>2. PICK r \in (m - 1) + 1 .. Len(s) : s[r] = j
        BY <2>2, <4>1
      <4>3. r # m
        BY <4>1, <4>2 DEF i
      <4>4. r \in m + 1 .. Len(s)
        BY <1>1, <4>3 DEF n
      <4> QED
        BY <4>2, <4>4
    <3> QED
      BY <3>1, <3>2
  <2>9. RowAt(g, s, k, h, m)
    BY <2>6, <2>7, <2>8 DEF RowAt, c
  <2> QED
    BY <2>1, <2>9
<1>6. T = 0 .. n
  <2>1. T \in SUBSET (0 .. n)
    OBVIOUS
  <2> HIDE DEF T
  <2> QED
    BY <1>1, <1>4, <1>5, <2>1, Induct
<1>7. q \in T
  BY <1>6 DEF n, s
<1> QED
  BY <1>7 DEF h, s

LEMMA SumsIs ==
  ASSUME NEW s \in Seq(Int)
  PROVE  LET h == Sums(s)
         IN  /\ h \in [0 .. Len(s) -> Int] /\ h[0] = 0
             /\ \A q \in 1 .. Len(s) : h[q] = h[q - 1] + s[q]
<1> DEFINE n == Len(s)
           T == Int
           a == 0
           Next1(b, q) == b + s[q]
           step == [q \in 1 .. n |-> [b \in T |-> Next1(b, q)]]
           Def(f) == f = [q \in 0 .. n |-> IF q = 0 THEN a
                                           ELSE Next1(f[q - 1], q)]
           h == Sums(s)
<1>1. n \in Nat /\ a \in T
  OBVIOUS
<1>2. h = CHOOSE f : Def(f)
  BY DEF Sums
<1>3. ASSUME NEW q \in 1 .. n, NEW b \in T PROVE Next1(b, q) \in T
  <2>1. s[q] \in Int
    OBVIOUS
  <2> QED
    BY <2>1
<1> HIDE DEF n, T, Next1, h, a
<1>4. step \in [1 .. n -> [T -> T]]
  BY <1>3
<1>5. \E f : Def(f)
  <2>1. PICK f : IsLoop(f, n, T, a, step)
    <3> HIDE DEF step
    <3> QED
      BY <1>1, <1>4, Loop
  <2>2. ASSUME NEW q \in 1 .. n
        PROVE  q - 1 \in 0 .. n /\ f[q] = Next1(f[q - 1], q)
    <3>1. q - 1 \in 0 .. n
      BY <1>1
    <3>2. f[q - 1] \in T /\ f[q] = step[q][f[q - 1]]
      BY <2>1, <3>1 DEF IsLoop
    <3>3. step[q][f[q - 1]] = Next1(f[q - 1], q)
      BY <3>2
    <3> QED
      BY <3>1, <3>2, <3>3
  <2> QED
    BY <1>1, <2>1, <2>2 DEF IsLoop
<1>6. Def(h)
  <2> HIDE DEF Def
  <2> QED
    BY <1>2, <1>5
<1>7. /\ h = [q \in 0 .. n |-> h[q]] /\ h[0] = a
      /\ \A q \in 1 .. n : h[q] = Next1(h[q - 1], q)
  <2>1. 0 \in 0 .. n /\ \A q \in 1 .. n : q \in 0 .. n /\ q # 0
    BY <1>1
  <2>2. \A q \in 0 .. n : h[q] = IF q = 0 THEN a ELSE Next1(h[q - 1], q)
    BY <1>6
  <2>3. h = [q \in 0 .. n |-> h[q]]
    BY <1>6, <2>2
  <2> QED
    BY <2>1, <2>2, <2>3
<1> HIDE DEF Def
<1>8. \A q \in 1 .. n : h[q - 1] \in T => h[q] \in T
  BY <1>3, <1>7
<1>9. h \in [0 .. n -> T]
  BY <1>1, <1>7, <1>8, LoopStays
<1> QED
  BY <1>7, <1>9 DEF n, T, Next1, h, a

LEMMA TotalType ==
  ASSUME NEW s \in Seq(Int) PROVE Total(s) \in Int
<1>1. Len(s) \in 0 .. Len(s)
  OBVIOUS
<1> QED
  BY <1>1, SumsIs DEF Total

\* One set of columns is the other and more, in rows after b.
Grown(c, d, b) ==
    \A i \in V : /\ Len(c[i]) <= Len(d[i])
                 /\ \A q \in 1 .. Len(c[i]) : d[i][q] = c[i][q]
                 /\ \A q \in Len(c[i]) + 1 .. Len(d[i]) : d[i][q].row > b

\* How many entries the columns have, and how many that makes to eliminate.
Lens(c) == [i \in V |-> Len(c[i])]
LensOf(c, s) == [q \in DOMAIN s |-> Len(c[s[q]])]

\* What row k adds to the columns g.
AddsRow(a, g, d, k) ==
    /\ d \in Factors /\ d.x = Blank
    /\ GoodCols(a, d.col, k) /\ Grown(g.col, d.col, k - 1)
    /\ \A i \in V : Len(d.col[i]) = IF i \in ToSet(ReachOf(a, k))
                                    THEN Len(g.col[i]) + 1
                                    ELSE Len(g.col[i])
    /\ d.bill = g.bill + Total(LensOf(g.col, ReachOf(a, k)))

LEMMA RowOfIs ==
  ASSUME NEW a, Analysed(a), NEW k \in V, NEW g \in Factors,
         GoodCols(a, g.col, k - 1), g.x = Blank
  PROVE  AddsRow(a, g, RowOf(a, g, k), k)
<1> DEFINE s == ReachOf(a, k)
           n == Len(s)
           h == RowSteps(g, s, k)
           d == h[n]
           w == LensOf(g.col, s)
<1>1. /\ s \in Seq(V) /\ n \in Nat /\ DOMAIN s = 1 .. n
      /\ \A r \in 1 .. n : s[r] \in V /\ s[r] < k
      /\ \A m, r \in 1 .. n : m # r => s[m] # s[r]
  BY ReachOfType
<1>2. \A q \in 0 .. n : RowAt(g, s, k, h, q)
  BY RowGathers
<1>3. RowOf(a, g, k) = d
  BY DEF RowOf
<1> HIDE DEF s
<1>4. /\ h \in [0 .. n -> Factors] /\ h[0] = g
      /\ \A m \in 1 .. n : h[m] = Eliminate(h[m - 1], s[m], k)
  BY <1>1, RowStepsIs
<1>5. ToSet(s) = {s[r] : r \in 1 .. n}
  BY <1>1 DEF ToSet
<1> HIDE DEF h, n
<1>6. n \in 0 .. n /\ d \in Factors /\ RowAt(g, s, k, h, n)
  BY <1>1, <1>2, <1>4
<1>7. d.x = Blank
  <2>1. \A j \in V : d.x[j] = << >>
    BY <1>1, <1>6 DEF RowAt, n
  <2>2. d.x \in [V -> Seq(V)]
    BY <1>6 DEF Factors, Gathered
  <2> HIDE DEF d
  <2> QED
    BY <2>1, <2>2 DEF Blank
<1>8. ASSUME NEW i \in V
      PROVE  \/ i \notin ToSet(s) /\ d.col[i] = g.col[i]
             \/ /\ i \in ToSet(s) /\ i < k
                /\ \E v \in Seq(V) : d.col[i] = Append(g.col[i], [row |-> k, from |-> v])
  <2>1. CASE i \in ToSet(s)
    <3>1. PICK r \in 1 .. n : s[r] = i
      BY <1>5, <2>1
    <3>2. r - 1 \in 0 .. n /\ i < k
      BY <1>1, <3>1
    <3>3. h[r - 1].x[i] \in Seq(V)
      <4>1. h[r - 1] \in Factors
        BY <1>4, <3>2
      <4> QED
        BY <4>1 DEF Factors, Gathered
    <3>4. d.col[i] = Append(g.col[i], [row |-> k, from |-> h[r - 1].x[i]])
      BY <1>6, <3>1 DEF RowAt
    <3> QED
      BY <2>1, <3>2, <3>3, <3>4
  <2>2. CASE i \notin ToSet(s)
    BY <1>5, <1>6, <2>2 DEF RowAt
  <2> QED
    BY <2>1, <2>2
<1> HIDE DEF d
<1>9. \A i \in V : g.col[i] \in Seq(Entry) /\ Len(g.col[i]) \in Nat
  BY DEF Factors, Columns
<1>10. ASSUME NEW i \in V
       PROVE  /\ Len(d.col[i]) = IF i \in ToSet(s) THEN Len(g.col[i]) + 1
                                 ELSE Len(g.col[i])
              /\ \A q \in 1 .. Len(g.col[i]) : d.col[i][q] = g.col[i][q]
              /\ \A q \in 1 .. Len(d.col[i]) :
                   \/ q \in 1 .. Len(g.col[i]) /\ d.col[i][q] = g.col[i][q]
                   \/ /\ q = Len(g.col[i]) + 1 /\ d.col[i][q].row = k
                      /\ i \in ToSet(s) /\ i < k
  <2> DEFINE c == g.col[i]
  <2>1. c \in Seq(Entry) /\ Len(c) \in Nat
    BY <1>9
  <2>2. CASE i \notin ToSet(s) /\ d.col[i] = c
    BY <2>1, <2>2
  <2>3. CASE /\ i \in ToSet(s) /\ i < k
             /\ \E v \in Seq(V) : d.col[i] = Append(c, [row |-> k, from |-> v])
    <3>1. PICK v \in Seq(V) : d.col[i] = Append(c, [row |-> k, from |-> v])
      BY <2>3
    <3> DEFINE e == [row |-> k, from |-> v]
    <3>2. e \in Entry /\ e.row = k
      BY OrderAssumption DEF Entry, V
    <3> HIDE DEF c, e
    <3>3. /\ Len(Append(c, e)) = Len(c) + 1
          /\ \A q \in 1 .. Len(c) : Append(c, e)[q] = c[q]
          /\ Append(c, e)[Len(c) + 1] = e
      BY <2>1, <3>2
    <3>4. d.col[i] = Append(c, e)
      BY <3>1 DEF e
    <3>5. \A q \in 1 .. Len(c) + 1 : q \in 1 .. Len(c) \/ q = Len(c) + 1
      BY <2>1
    <3> QED
      BY <2>3, <3>2, <3>3, <3>4, <3>5 DEF c
  <2> QED
    BY <1>8, <2>2, <2>3
<1>11. GoodCols(a, d.col, k)
  <2> SUFFICES ASSUME NEW i \in V, NEW q \in 1 .. Len(d.col[i])
               PROVE  /\ d.col[i][q].row \in i + 1 .. k
                      /\ i \in ToSet(ReachOf(a, d.col[i][q].row))
    BY DEF GoodCols
  <2>0. k \in Nat /\ i \in Nat
    BY OrderAssumption DEF V
  <2>1. CASE q \in 1 .. Len(g.col[i]) /\ d.col[i][q] = g.col[i][q]
    <3>1. /\ g.col[i][q].row \in i + 1 .. k - 1
          /\ i \in ToSet(ReachOf(a, g.col[i][q].row))
      BY <2>1 DEF GoodCols
    <3> DEFINE r == g.col[i][q].row
    <3>2. r \in i + 1 .. k - 1 => r \in i + 1 .. k
      BY <2>0
    <3> QED
      BY <2>1, <3>1, <3>2
  <2>2. CASE d.col[i][q].row = k /\ i \in ToSet(s) /\ i < k
    BY <2>0, <2>2 DEF s
  <2> QED
    BY <1>10, <2>1, <2>2
<1>12. Grown(g.col, d.col, k - 1)
  <2> SUFFICES ASSUME NEW i \in V
               PROVE  /\ Len(g.col[i]) <= Len(d.col[i])
                      /\ \A q \in 1 .. Len(g.col[i]) : d.col[i][q] = g.col[i][q]
                      /\ \A q \in Len(g.col[i]) + 1 .. Len(d.col[i]) :
                            d.col[i][q].row > k - 1
    BY DEF Grown
  <2>1. k \in Nat /\ Len(g.col[i]) \in Nat
    BY <1>9, OrderAssumption DEF V
  <2>2. ASSUME NEW q \in Len(g.col[i]) + 1 .. Len(d.col[i])
        PROVE  d.col[i][q].row > k - 1
    <3>1. q \in 1 .. Len(d.col[i]) /\ q \notin 1 .. Len(g.col[i])
      BY <1>10, <2>1
    <3>2. d.col[i][q].row = k
      BY <1>10, <3>1
    <3> QED
      BY <2>1, <3>2
  <2> QED
    BY <1>10, <2>1, <2>2
<1>13. d.bill = g.bill + Total(w)
  <2>1. w \in Seq(Int) /\ Len(w) = n /\ \A q \in 1 .. n : w[q] = Len(g.col[s[q]])
    <3>1. w = [q \in 1 .. n |-> Len(g.col[s[q]])]
      BY <1>1 DEF LensOf
    <3>2. \A q \in 1 .. n : Len(g.col[s[q]]) \in Int
      BY <1>1, <1>9
    <3> HIDE DEF w
    <3>3. w \in [1 .. n -> Int]
      BY <3>1, <3>2
    <3> QED
      BY <1>1, <3>1, <3>3, SeqDef, LenProperties
  <2> DEFINE t == Sums(w)
             Good(q) == h[q].bill = g.bill + t[q]
             T == {q \in 0 .. n : Good(q)}
  <2> HIDE DEF w
  <2>2. /\ t \in [0 .. n -> Int] /\ t[0] = 0
        /\ \A q \in 1 .. n : t[q] = t[q - 1] + w[q]
    BY <2>1, SumsIs
  <2> HIDE DEF t
  <2>3. g.bill \in Int
    BY DEF Factors
  <2>4. 0 \in T
    BY <1>1, <1>4, <2>2, <2>3
  <2>5. ASSUME NEW q \in 1 .. n, q - 1 \in T PROVE q \in T
    <3>1. q \in 0 .. n /\ q - 1 \in 0 .. n /\ s[q] \in V
      BY <1>1
    <3>2. h[q].bill = h[q - 1].bill + Len(h[q - 1].col[s[q]])
      <4>1. h[q - 1] \in Factors /\ h[q] = Eliminate(h[q - 1], s[q], k)
        BY <1>4, <3>1
      <4> QED
        BY <4>1 DEF Eliminate
    <3>3. h[q - 1].col[s[q]] = g.col[s[q]]
      <4>1. \A r \in 1 .. q - 1 : r \in 1 .. n /\ r # q
        BY <1>1
      <4>2. s[q] \notin {s[r] : r \in 1 .. q - 1}
        BY <1>1, <4>1
      <4>3. RowAt(g, s, k, h, q - 1)
        BY <1>2, <3>1
      <4> QED
        BY <3>1, <4>2, <4>3 DEF RowAt
    <3>4. w[q] = Len(g.col[s[q]]) /\ w[q] \in Int /\ t[q - 1] \in Int
      BY <1>1, <2>1, <2>2, <3>1
    <3>5. h[q - 1].bill = g.bill + t[q - 1] /\ t[q] = t[q - 1] + w[q]
      BY <2>2, <2>5
    <3>6. Good(q)
      BY <2>3, <3>2, <3>3, <3>4, <3>5
    <3> QED
      BY <3>1, <3>6
  <2>6. T = 0 .. n
    <3>1. T \in SUBSET (0 .. n)
      OBVIOUS
    <3> HIDE DEF T
    <3> QED
      BY <1>1, <2>4, <2>5, <3>1, Induct
  <2>7. Good(n)
    BY <1>6, <2>6
  <2> QED
    BY <2>1, <2>7 DEF d, t, Total
<1>14. AddsRow(a, g, d, k)
  BY <1>6, <1>7, <1>10, <1>11, <1>12, <1>13 DEF AddsRow, s, d, w
<1> QED
  BY <1>3, <1>14

\* Lists that agree as far as m have the same sum so far.
LEMMA SumsAgree ==
  ASSUME NEW s \in Seq(Int), NEW t \in Seq(Int), NEW m \in Nat,
         m <= Len(s), m <= Len(t), \A q \in 1 .. m : s[q] = t[q]
  PROVE  Sums(s)[m] = Sums(t)[m]
<1> DEFINE A == Sums(s)
           B == Sums(t)
           T == {q \in 0 .. m : A[q] = B[q]}
<1>1. /\ A[0] = 0 /\ \A q \in 1 .. Len(s) : A[q] = A[q - 1] + s[q]
      /\ B[0] = 0 /\ \A q \in 1 .. Len(t) : B[q] = B[q - 1] + t[q]
  BY SumsIs
<1> HIDE DEF A, B
<1>2. 0 \in T
  BY <1>1
<1>3. ASSUME NEW q \in 1 .. m, q - 1 \in T PROVE q \in T
  <2>1. q \in 1 .. Len(s) /\ q \in 1 .. Len(t) /\ q \in 0 .. m
    OBVIOUS
  <2>2. A[q - 1] = B[q - 1]
    BY <1>3
  <2> QED
    BY <1>1, <2>1, <2>2
<1>4. T = 0 .. m
  <2>1. T \in SUBSET (0 .. m)
    OBVIOUS
  <2> HIDE DEF T
  <2> QED
    BY <1>2, <1>3, <2>1, Induct
<1>5. m \in T
  <2>1. m \in 0 .. m
    OBVIOUS
  <2> HIDE DEF T
  <2> QED
    BY <1>4, <2>1
<1> QED
  BY <1>5 DEF A, B

LEMMA TotalAppend ==
  ASSUME NEW s \in Seq(Int), NEW e \in Int
  PROVE  Total(Append(s, e)) = Total(s) + e
<1> DEFINE n == Len(s)
           t == Append(s, e)
<1>1. /\ n \in Nat /\ t \in Seq(Int) /\ Len(t) = n + 1 /\ t[n + 1] = e
      /\ \A q \in 1 .. n : t[q] = s[q]
  OBVIOUS
<1>5. n <= Len(s) /\ n <= Len(t)
  BY <1>1
<1> HIDE DEF t, n
<1>2. Sums(t)[n] = Sums(s)[n]
  BY <1>1, <1>5, SumsAgree
<1>3. n + 1 \in 1 .. Len(t) /\ (n + 1) - 1 = n
  BY <1>1
<1>4. Sums(t)[n + 1] = Sums(t)[(n + 1) - 1] + t[n + 1]
  BY <1>1, <1>3, SumsIs
<1> QED
  BY <1>1, <1>2, <1>3, <1>4 DEF Total, t, n

LEMMA RowOfType ==
  ASSUME NEW a, Analysed(a), NEW k \in V, NEW f \in Factors
  PROVE  RowOf(a, f, k) \in Factors
<1> DEFINE s == ReachOf(a, k)
           h == RowSteps(f, s, k)
<1>1. s \in Seq(V) /\ Len(s) \in 0 .. Len(s)
  <2>1. s \in Seq(V) /\ Len(s) \in Nat
    BY ReachOfType
  <2> HIDE DEF s
  <2> QED
    BY <2>1
<1> HIDE DEF s
<1>2. h \in [0 .. Len(s) -> Factors]
  BY <1>1, RowStepsIs
<1> HIDE DEF h
<1>3. h[Len(s)] \in Factors
  BY <1>1, <1>2
<1> QED
  BY <1>3 DEF RowOf, h, s

LEMMA RowsAfterIs ==
  ASSUME NEW a, Analysed(a), NEW f \in Factors, NEW k \in 0 .. N
  PROVE  LET h == RowsAfter(a, f, k)
         IN  /\ h \in [0 .. N - k -> Factors] /\ h[0] = f
             /\ \A q \in 1 .. N - k : h[q] = RowOf(a, h[q - 1], k + q)
<1> DEFINE n == N - k
           T == Factors
           start == f
           Next1(b, q) == RowOf(a, b, k + q)
           step == [q \in 1 .. n |-> [b \in T |-> Next1(b, q)]]
           Def(fn) == fn = [q \in 0 .. n |-> IF q = 0 THEN start
                                           ELSE Next1(fn[q - 1], q)]
           h == RowsAfter(a, f, k)
<1>1. n \in Nat /\ start \in T
  BY OrderAssumption
<1>2. h = CHOOSE fn : Def(fn)
  BY DEF RowsAfter
<1>3. ASSUME NEW q \in 1 .. n, NEW b \in T PROVE Next1(b, q) \in T
  <2>1. k + q \in V
    BY OrderAssumption DEF V
  <2> QED
    BY <2>1, RowOfType
<1> HIDE DEF n, T, Next1, h, start
<1>4. step \in [1 .. n -> [T -> T]]
  BY <1>3
<1>5. \E fn : Def(fn)
  <2>1. PICK fn : IsLoop(fn, n, T, start, step)
    <3> HIDE DEF step
    <3> QED
      BY <1>1, <1>4, Loop
  <2>2. ASSUME NEW q \in 1 .. n
        PROVE  q - 1 \in 0 .. n /\ fn[q] = Next1(fn[q - 1], q)
    <3>1. q - 1 \in 0 .. n
      BY <1>1
    <3>2. fn[q - 1] \in T /\ fn[q] = step[q][fn[q - 1]]
      BY <2>1, <3>1 DEF IsLoop
    <3>3. step[q][fn[q - 1]] = Next1(fn[q - 1], q)
      BY <3>2
    <3> QED
      BY <3>1, <3>2, <3>3
  <2> QED
    BY <1>1, <2>1, <2>2 DEF IsLoop
<1>6. Def(h)
  <2> HIDE DEF Def
  <2> QED
    BY <1>2, <1>5
<1>7. /\ h = [q \in 0 .. n |-> h[q]] /\ h[0] = start
      /\ \A q \in 1 .. n : h[q] = Next1(h[q - 1], q)
  <2>1. 0 \in 0 .. n /\ \A q \in 1 .. n : q \in 0 .. n /\ q # 0
    BY <1>1
  <2>2. \A q \in 0 .. n : h[q] = IF q = 0 THEN start ELSE Next1(h[q - 1], q)
    BY <1>6
  <2>3. h = [q \in 0 .. n |-> h[q]]
    BY <1>6, <2>2
  <2> QED
    BY <2>1, <2>2, <2>3
<1> HIDE DEF Def
<1>8. \A q \in 1 .. n : h[q - 1] \in T => h[q] \in T
  BY <1>3, <1>7
<1>9. h \in [0 .. n -> T]
  BY <1>1, <1>7, <1>8, LoopStays
<1> QED
  BY <1>7, <1>9 DEF n, T, Next1, h, start

Counts == [fill : [V -> Int], work : Seq(Int)]

LEMMA CountedType ==
  ASSUME NEW c \in Counts, NEW s \in Seq(V)
  PROVE  LET w == [q \in DOMAIN s |-> c.fill[s[q]]]
         IN  /\ Counted(c, s) \in Counts /\ Total(w) \in Int
             /\ Counted(c, s).work = Append(c.work, Total(w))
             /\ \A i \in V : Counted(c, s).fill[i] =
                    IF i \in ToSet(s) THEN c.fill[i] + 1 ELSE c.fill[i]
<1> DEFINE f == [i \in V |-> IF i \in ToSet(s) THEN c.fill[i] + 1
                             ELSE c.fill[i]]
           w == [q \in DOMAIN s |-> c.fill[s[q]]]
<1>1. c.fill \in [V -> Int] /\ c.work \in Seq(Int)
  BY DEF Counts
<1>2. f \in [V -> Int]
  BY <1>1
<1>3. w \in Seq(Int)
  <2>1. Len(s) \in Nat /\ DOMAIN s = 1 .. Len(s)
          /\ \A q \in 1 .. Len(s) : c.fill[s[q]] \in Int
    BY <1>1
  <2>2. w = [q \in 1 .. Len(s) |-> c.fill[s[q]]]
    BY <2>1
  <2> HIDE DEF w
  <2>3. w \in [1 .. Len(s) -> Int]
    BY <2>1, <2>2
  <2> QED
    BY <2>1, <2>3, SeqDef
<1>4. Counted(c, s) = [fill |-> Listed(f), work |-> Append(c.work, Total(w))]
  BY DEF Counted
<1> HIDE DEF f, w
<1>5. Listed(f) = f
  BY <1>2, ListedIs
<1>6. Total(w) \in Int /\ Append(c.work, Total(w)) \in Seq(Int)
  <2>1. Total(w) \in Int
    BY <1>3, TotalType
  <2> QED
    BY <1>1, <2>1
<1>7. Counted(c, s).fill = f /\ Counted(c, s).work = Append(c.work, Total(w))
  BY <1>4, <1>5
<1>8. Counted(c, s) \in Counts
  BY <1>2, <1>4, <1>5, <1>6 DEF Counts
<1>9. \A i \in V : f[i] = IF i \in ToSet(s) THEN c.fill[i] + 1 ELSE c.fill[i]
  BY DEF f
<1> QED
  BY <1>6, <1>7, <1>8, <1>9 DEF w

LEMMA RowsCountedIs ==
  ASSUME NEW a, Analysed(a)
  PROVE  LET h == RowsCounted(a.parent, a.rows)
         IN  /\ h \in [0 .. N -> Counts] /\ h[0] = [fill |-> [i \in V |-> 0], work |-> << >>]
             /\ \A q \in 1 .. N : h[q] = Counted(h[q - 1], Reach(a.parent, a.rows[q], q))
<1> DEFINE n == N
           T == Counts
           start == [fill |-> [i \in V |-> 0], work |-> << >>]
           Next1(b, q) == Counted(b, Reach(a.parent, a.rows[q], q))
           step == [q \in 1 .. n |-> [b \in T |-> Next1(b, q)]]
           Def(f) == f = [q \in 0 .. n |-> IF q = 0 THEN start
                                           ELSE Next1(f[q - 1], q)]
           h == RowsCounted(a.parent, a.rows)
<1>1. n \in Nat /\ start \in T
  BY OrderAssumption DEF Counts
<1>2. h = CHOOSE f : Def(f)
  BY DEF RowsCounted
<1>3. ASSUME NEW q \in 1 .. n, NEW b \in T PROVE Next1(b, q) \in T
  <2>1. ReachOf(a, q) \in Seq(V)
    <3>1. q \in V
      BY DEF V
    <3> QED
      BY <3>1, ReachOfType
  <2> QED
    BY <2>1, CountedType DEF ReachOf
<1> HIDE DEF n, T, Next1, h, start
<1>4. step \in [1 .. n -> [T -> T]]
  BY <1>3
<1>5. \E f : Def(f)
  <2>1. PICK f : IsLoop(f, n, T, start, step)
    <3> HIDE DEF step
    <3> QED
      BY <1>1, <1>4, Loop
  <2>2. ASSUME NEW q \in 1 .. n
        PROVE  q - 1 \in 0 .. n /\ f[q] = Next1(f[q - 1], q)
    <3>1. q - 1 \in 0 .. n
      BY <1>1
    <3>2. f[q - 1] \in T /\ f[q] = step[q][f[q - 1]]
      BY <2>1, <3>1 DEF IsLoop
    <3>3. step[q][f[q - 1]] = Next1(f[q - 1], q)
      BY <3>2
    <3> QED
      BY <3>1, <3>2, <3>3
  <2> QED
    BY <1>1, <2>1, <2>2 DEF IsLoop
<1>6. Def(h)
  <2> HIDE DEF Def
  <2> QED
    BY <1>2, <1>5
<1>7. /\ h = [q \in 0 .. n |-> h[q]] /\ h[0] = start
      /\ \A q \in 1 .. n : h[q] = Next1(h[q - 1], q)
  <2>1. 0 \in 0 .. n /\ \A q \in 1 .. n : q \in 0 .. n /\ q # 0
    BY <1>1
  <2>2. \A q \in 0 .. n : h[q] = IF q = 0 THEN start ELSE Next1(h[q - 1], q)
    BY <1>6
  <2>3. h = [q \in 0 .. n |-> h[q]]
    BY <1>6, <2>2
  <2> QED
    BY <2>1, <2>2, <2>3
<1> HIDE DEF Def
<1>8. \A q \in 1 .. n : h[q - 1] \in T => h[q] \in T
  BY <1>3, <1>7
<1>9. h \in [0 .. n -> T]
  BY <1>1, <1>7, <1>8, LoopStays
<1> QED
  BY <1>7, <1>9 DEF n, T, Next1, h, start

\* The factor on one thread after m rows.
OneAt(a, f, m) ==
    /\ f \in Factors /\ f.x = Blank /\ GoodCols(a, f.col, m)
    /\ f.bill = Total(RowsCounted(a.parent, a.rows)[m].work)
    /\ \A i \in V :
          Len(f.col[i]) = RowsCounted(a.parent, a.rows)[m].fill[i]

LEMMA OneIs ==
  ASSUME NEW a, Analysed(a), NEW m \in 0 .. N
  PROVE  OneAt(a, RowsAfter(a, Unfactored, 0)[m], m)
<1> DEFINE g == RowsAfter(a, Unfactored, 0)
           c == RowsCounted(a.parent, a.rows)
           T == {k \in 0 .. N : OneAt(a, g[k], k)}
<1>1. N \in Nat /\ V = 1 .. N /\ 0 \in 0 .. N
  BY OrderAssumption DEF V
<1>2. /\ Unfactored \in Factors /\ Unfactored.x = Blank
      /\ GoodCols(a, Unfactored.col, 0) /\ Unfactored.bill = 0
      /\ \A i \in V : Len(Unfactored.col[i]) = 0
  BY DEF Unfactored, Factors, Gathered, Columns, Blank, GoodCols
<1>3. /\ g \in [0 .. N -> Factors] /\ g[0] = Unfactored
      /\ \A k \in 1 .. N : g[k] = RowOf(a, g[k - 1], k)
  <2>1. /\ g \in [0 .. N - 0 -> Factors] /\ g[0] = Unfactored
        /\ \A k \in 1 .. N - 0 : g[k] = RowOf(a, g[k - 1], 0 + k)
    BY <1>1, <1>2, RowsAfterIs
  <2>2. N - 0 = N /\ \A k \in 1 .. N : 0 + k = k
    BY <1>1
  <2> HIDE DEF g
  <2> QED
    BY <2>1, <2>2
<1>4. /\ c \in [0 .. N -> Counts]
      /\ c[0] = [fill |-> [i \in V |-> 0], work |-> << >>]
      /\ \A k \in 1 .. N : c[k] = Counted(c[k - 1], ReachOf(a, k))
  <2>1. /\ c \in [0 .. N -> Counts]
        /\ c[0] = [fill |-> [i \in V |-> 0], work |-> << >>]
        /\ \A k \in 1 .. N :
              c[k] = Counted(c[k - 1], Reach(a.parent, a.rows[k], k))
    BY RowsCountedIs
  <2> HIDE DEF c
  <2> QED
    BY <2>1 DEF ReachOf
<1> HIDE DEF g
<1>5. 0 \in T
  <2>1. Total(<< >>) = 0
    <3>1. << >> \in Seq(Int) /\ Len(<< >>) = 0
      OBVIOUS
    <3>2. Sums(<< >>)[0] = 0
      BY <3>1, SumsIs
    <3> QED
      BY <3>1, <3>2 DEF Total
  <2>2. c[0].work = << >> /\ \A i \in V : c[0].fill[i] = 0
    BY <1>4
  <2> HIDE DEF c
  <2>3. OneAt(a, g[0], 0)
    BY <1>2, <1>3, <2>1, <2>2 DEF OneAt, c
  <2> QED
    BY <1>1, <2>3
<1>6. ASSUME NEW k \in 1 .. N, k - 1 \in T PROVE k \in T
  <2> DEFINE b == g[k - 1]
             d == g[k]
             s == ReachOf(a, k)
             e == c[k - 1]
             w == [q \in DOMAIN s |-> e.fill[s[q]]]
  <2>1. k \in V /\ k \in 0 .. N /\ k - 1 \in 0 .. N /\ s \in Seq(V)
          /\ \A q \in DOMAIN s : s[q] \in V
    <3>1. k \in V /\ k \in 0 .. N /\ k - 1 \in 0 .. N
      BY <1>1
    <3> QED
      BY <3>1, ReachOfType
  <2>2. OneAt(a, b, k - 1)
    BY <1>6
  <2>3. AddsRow(a, b, d, k)
    <3>1. d = RowOf(a, b, k)
      BY <1>3
    <3> HIDE DEF b, d
    <3> QED
      BY <2>1, <2>2, <3>1, RowOfIs DEF OneAt
  <2>4. e \in Counts /\ c[k] = Counted(e, s)
    BY <1>4, <2>1
  <2> HIDE DEF s
  <2>5. /\ Total(w) \in Int /\ c[k].work = Append(e.work, Total(w))
        /\ \A i \in V : c[k].fill[i] =
              IF i \in ToSet(s) THEN e.fill[i] + 1 ELSE e.fill[i]
    <3> HIDE DEF c, e, w
    <3>1. e \in Counts /\ s \in Seq(V)
      BY <2>1, <2>4
    <3>2. LET u == [q \in DOMAIN s |-> e.fill[s[q]]]
          IN  /\ Total(u) \in Int
              /\ Counted(e, s).work = Append(e.work, Total(u))
              /\ \A i \in V : Counted(e, s).fill[i] =
                    IF i \in ToSet(s) THEN e.fill[i] + 1 ELSE e.fill[i]
      BY <3>1, CountedType
    <3> QED
      BY <2>4, <3>2 DEF w
  <2>6. \A i \in V : Len(b.col[i]) = e.fill[i]
    BY <2>2 DEF OneAt
  <2>7. LensOf(b.col, s) = w
    BY <2>1, <2>6 DEF LensOf
  <2> HIDE DEF w
  <2>8. d.bill = Total(c[k].work)
    <3>1. Total(c[k].work) = Total(e.work) + Total(w)
      <4>1. e.work \in Seq(Int)
        BY <2>4 DEF Counts
      <4> HIDE DEF e
      <4> QED
        BY <2>5, <4>1, TotalAppend
    <3>2. b.bill = Total(e.work)
      BY <2>2 DEF OneAt
    <3>3. d.bill = b.bill + Total(w)
      BY <2>3, <2>7 DEF AddsRow, s
    <3> QED
      BY <3>1, <3>2, <3>3
  <2>9. \A i \in V : Len(d.col[i]) = c[k].fill[i]
    BY <2>3, <2>5, <2>6 DEF AddsRow, s
  <2> HIDE DEF b, d
  <2>10. OneAt(a, d, k)
    BY <2>3, <2>8, <2>9 DEF OneAt, AddsRow
  <2> QED
    BY <2>1, <2>10 DEF d
<1>7. T = 0 .. N
  <2>1. T \in SUBSET (0 .. N)
    OBVIOUS
  <2> HIDE DEF T
  <2> QED
    BY <1>1, <1>5, <1>6, <2>1, Induct
<1>8. m \in T
  BY <1>7
<1> QED
  BY <1>8 DEF g

LEMMA GrownOn ==
  ASSUME NEW c, NEW d \in Columns, NEW e, NEW b \in Int, NEW k \in Int, b <= k,
         Grown(c, d, b), Grown(d, e, k), c \in Columns, e \in Columns
  PROVE  Grown(c, e, b)
<1> SUFFICES ASSUME NEW i \in V
             PROVE  /\ Len(c[i]) <= Len(e[i])
                    /\ \A q \in 1 .. Len(c[i]) : e[i][q] = c[i][q]
                    /\ \A q \in Len(c[i]) + 1 .. Len(e[i]) : e[i][q].row > b
  BY DEF Grown
<1>1. /\ c[i] \in Seq(Entry) /\ d[i] \in Seq(Entry) /\ e[i] \in Seq(Entry)
      /\ Len(c[i]) \in Nat /\ Len(d[i]) \in Nat /\ Len(e[i]) \in Nat
  BY DEF Columns
<1>2. /\ Len(c[i]) <= Len(d[i])
      /\ \A q \in 1 .. Len(c[i]) : d[i][q] = c[i][q]
      /\ \A q \in Len(c[i]) + 1 .. Len(d[i]) : d[i][q].row > b
      /\ Len(d[i]) <= Len(e[i])
      /\ \A q \in 1 .. Len(d[i]) : e[i][q] = d[i][q]
      /\ \A q \in Len(d[i]) + 1 .. Len(e[i]) : e[i][q].row > k
  BY DEF Grown
<1>3. ASSUME NEW q \in 1 .. Len(c[i]) PROVE e[i][q] = c[i][q]
  <2>1. q \in 1 .. Len(d[i])
    BY <1>1, <1>2
  <2> QED
    BY <1>2, <2>1
<1>4. ASSUME NEW q \in Len(c[i]) + 1 .. Len(e[i]) PROVE e[i][q].row > b
  <2>1. CASE q <= Len(d[i])
    <3>1. q \in Len(c[i]) + 1 .. Len(d[i]) /\ q \in 1 .. Len(d[i])
      BY <1>1, <2>1
    <3> QED
      BY <1>2, <3>1
  <2>2. CASE q > Len(d[i])
    <3>1. q \in Len(d[i]) + 1 .. Len(e[i]) /\ q \in 1 .. Len(e[i])
      BY <1>1, <2>2
    <3>2. e[i][q].row > k
      BY <1>2, <3>1
    <3>3. e[i][q] \in Entry
      BY <1>1, <3>1
    <3>4. e[i][q].row \in Int
      BY <3>3 DEF Entry
    <3> QED
      BY <3>2, <3>4
  <2>3. q <= Len(d[i]) \/ q > Len(d[i])
    BY <1>1
  <2> QED
    BY <2>1, <2>2, <2>3
<1> QED
  BY <1>1, <1>2, <1>3, <1>4

LEMMA OneGrown ==
  ASSUME NEW a, Analysed(a), NEW b \in 0 .. N, NEW m \in b .. N
  PROVE  Grown(RowsAfter(a, Unfactored, 0)[b].col,
               RowsAfter(a, Unfactored, 0)[m].col, b)
<1> DEFINE g == RowsAfter(a, Unfactored, 0)
           n == N - b
           T == {d \in 0 .. n : Grown(g[b].col, g[b + d].col, b)}
<1>1. N \in Nat /\ V = 1 .. N /\ n \in Nat
  BY OrderAssumption DEF V
<1>2. \A k \in 0 .. N : OneAt(a, g[k], k)
  BY OneIs
<1>3. \A k \in 1 .. N : g[k] = RowOf(a, g[k - 1], k)
  <2>1. Unfactored \in Factors /\ 0 \in 0 .. N
    BY <1>1 DEF Unfactored, Factors, Gathered, Columns, Blank
  <2>2. \A k \in 1 .. N - 0 : g[k] = RowOf(a, g[k - 1], 0 + k)
    BY <2>1, RowsAfterIs
  <2> HIDE DEF g
  <2> QED
    BY <1>1, <2>2
<1> HIDE DEF g
<1>4. \A k \in 0 .. N : g[k].col \in Columns
  BY <1>2 DEF OneAt, Factors
<1>5. 0 \in T
  <2>1. g[b].col \in Columns /\ b + 0 = b
    BY <1>4
  <2>2. \A i \in V : Len(g[b].col[i]) \in Nat
    BY <2>1 DEF Columns
  <2>3. Grown(g[b].col, g[b].col, b)
    BY <2>2 DEF Grown
  <2> QED
    BY <1>1, <2>1, <2>3
<1>6. ASSUME NEW d \in 1 .. n, d - 1 \in T PROVE d \in T
  <2>1. /\ d \in 0 .. n /\ b + d \in 1 .. N /\ b + d \in 0 .. N
        /\ b + (d - 1) \in 0 .. N /\ (b + d) - 1 = b + (d - 1)
        /\ b <= (b + d) - 1 /\ (b + d) - 1 \in Int /\ b \in Int
    BY <1>1
  <2>2. Grown(g[b].col, g[b + (d - 1)].col, b)
    BY <1>6
  <2>3. Grown(g[b + (d - 1)].col, g[b + d].col, (b + d) - 1)
    <3> DEFINE k == b + d
               f == g[b + (d - 1)]
    <3>1. g[k] = RowOf(a, f, k) /\ k \in V
      BY <1>1, <1>3, <2>1
    <3>2. OneAt(a, f, k - 1)
      BY <1>2, <2>1
    <3> HIDE DEF k, f
    <3>3. AddsRow(a, f, g[k], k)
      BY <3>1, <3>2, RowOfIs DEF OneAt
    <3> QED
      BY <3>3 DEF AddsRow, k, f
  <2>4. /\ g[b].col \in Columns /\ g[b + (d - 1)].col \in Columns
        /\ g[b + d].col \in Columns
    BY <1>4, <2>1
  <2>5. Grown(g[b].col, g[b + d].col, b)
    BY <2>1, <2>2, <2>3, <2>4, GrownOn
  <2> QED
    BY <2>1, <2>5
<1>7. T = 0 .. n
  <2>1. T \in SUBSET (0 .. n) /\ 0 \in 0 .. n
    BY <1>1
  <2> HIDE DEF T, n
  <2> QED
    BY <1>1, <1>5, <1>6, <2>1, Induct
<1>8. m - b \in 0 .. n /\ b + (m - b) = m
  BY <1>1
<1>9. m - b \in T
  BY <1>7, <1>8
<1> QED
  BY <1>8, <1>9 DEF g

\* Rows done in blocks are rows done.
LEMMA OneOn ==
  ASSUME NEW a, Analysed(a), NEW b \in 0 .. N, NEW d \in 0 .. N - b
  PROVE  RowsAfter(a, RowsAfter(a, Unfactored, 0)[b], b)[d]
             = RowsAfter(a, Unfactored, 0)[b + d]
<1> DEFINE g == RowsAfter(a, Unfactored, 0)
           n == N - b
           f == g[b]
           h == RowsAfter(a, f, b)
           T == {q \in 0 .. n : h[q] = g[b + q]}
<1>1. N \in Nat /\ n \in Nat
  BY OrderAssumption
<1>2. \A k \in 1 .. N : g[k] = RowOf(a, g[k - 1], k)
  <2>1. Unfactored \in Factors /\ 0 \in 0 .. N
    BY <1>1 DEF Unfactored, Factors, Gathered, Columns, Blank
  <2>2. \A k \in 1 .. N - 0 : g[k] = RowOf(a, g[k - 1], 0 + k)
    BY <2>1, RowsAfterIs
  <2> HIDE DEF g
  <2> QED
    BY <1>1, <2>2
<1>3. f \in Factors
  BY OneIs DEF OneAt
<1> HIDE DEF g, f
<1>4. h[0] = f /\ \A q \in 1 .. n : h[q] = RowOf(a, h[q - 1], b + q)
  BY <1>3, RowsAfterIs
<1> HIDE DEF h
<1>5. 0 \in T
  <2>1. b + 0 = b /\ h[0] = g[b]
    BY <1>4 DEF f
  <2> QED
    BY <1>1, <2>1
<1>6. ASSUME NEW q \in 1 .. n, q - 1 \in T PROVE q \in T
  <2>1. /\ q \in 0 .. n /\ b + q \in 1 .. N /\ (b + q) - 1 = b + (q - 1)
    BY <1>1
  <2>2. h[q - 1] = g[b + (q - 1)]
    BY <1>6
  <2>3. h[q] = RowOf(a, g[(b + q) - 1], b + q)
    BY <1>4, <2>1, <2>2
  <2>4. h[q] = g[b + q]
    BY <1>2, <2>1, <2>3
  <2> QED
    BY <2>1, <2>4
<1>7. T = 0 .. n
  <2>1. T \in SUBSET (0 .. n)
    OBVIOUS
  <2> HIDE DEF T, n
  <2> QED
    BY <1>1, <1>5, <1>6, <2>1, Induct
<1>8. d \in T
  BY <1>7
<1> QED
  BY <1>8 DEF g, h, f

-----------------------------------------------------------------------------
\* The numeric factor, a block at a time.

Fronts == [x : Gathered, l : Seq(Seq(V)), p : Seq(Nat), bill : Int]

LEMMA FrontStepIs ==
  ASSUME NEW c \in Columns, NEW b \in Int, NEW a \in Fronts, NEW i \in V
  PROVE  LET d == FrontStep(c, b, a, i)
         IN  /\ d \in Fronts
             /\ d.l = Append(a.l, IF i > b THEN << >> ELSE a.x[i])
             /\ d.p = Append(a.p, IF i > b THEN 0 ELSE Len(c[i]))
             /\ d.bill = a.bill + (IF i > b THEN 0 ELSE Len(c[i]))
             /\ i > b => d.x = a.x
             /\ ~(i > b) => \A j \in V :
                    d.x[j] = IF Hits(c, i, 1, j)
                             THEN Append(Cleared(a.x, i, j), i)
                             ELSE Cleared(a.x, i, j)
<1> DEFINE d == FrontStep(c, b, a, i)
<1>1. /\ a.x \in Gathered /\ a.l \in Seq(Seq(V)) /\ a.p \in Seq(Nat)
      /\ a.bill \in Int
      /\ a = [x |-> a.x, l |-> a.l, p |-> a.p, bill |-> a.bill]
  BY DEF Fronts
<1>2. a.x[i] \in Seq(V) /\ Len(c[i]) \in Nat /\ << >> \in Seq(V)
  BY <1>1 DEF Gathered, Columns
<1>3. CASE i > b
  <2>1. d = [a EXCEPT !.l = Append(a.l, << >>), !.p = Append(a.p, 0)]
    BY <1>3 DEF FrontStep
  <2>2. d = [x |-> a.x, l |-> Append(a.l, << >>), p |-> Append(a.p, 0),
             bill |-> a.bill]
    BY <1>1, <2>1
  <2>3. Append(a.l, << >>) \in Seq(Seq(V)) /\ Append(a.p, 0) \in Seq(Nat)
    BY <1>1, <1>2
  <2>4. d \in Fronts
    BY <1>1, <2>2, <2>3 DEF Fronts
  <2> HIDE DEF d
  <2>5. /\ d.l = Append(a.l, << >>) /\ d.p = Append(a.p, 0)
        /\ d.bill = a.bill + 0 /\ d.x = a.x
    BY <1>1, <2>2
  <2> QED
    BY <1>3, <2>4, <2>5 DEF d
<1>4. CASE ~(i > b)
  <2> DEFINE y == [a.x EXCEPT ![i] = << >>]
  <2>1. y \in Gathered /\ \A j \in V : y[j] = Cleared(a.x, i, j)
    BY <1>1 DEF Gathered, Cleared
  <2>2. d = [x |-> Subtract(y, c, i, 1), l |-> Append(a.l, a.x[i]),
             p |-> Append(a.p, Len(c[i])), bill |-> a.bill + Len(c[i])]
    BY <1>4 DEF FrontStep
  <2> HIDE DEF y, d
  <2>3. /\ Subtract(y, c, i, 1) \in Gathered
        /\ \A j \in V : Subtract(y, c, i, 1)[j] =
              IF Hits(c, i, 1, j) THEN Append(y[j], i) ELSE y[j]
    BY <2>1, SubtractIs
  <2>4. /\ Append(a.l, a.x[i]) \in Seq(Seq(V))
        /\ Append(a.p, Len(c[i])) \in Seq(Nat)
        /\ a.bill + Len(c[i]) \in Int
    BY <1>1, <1>2
  <2>5. d \in Fronts
    BY <2>2, <2>3, <2>4 DEF Fronts
  <2>6. /\ d.l = Append(a.l, a.x[i]) /\ d.p = Append(a.p, Len(c[i]))
        /\ d.bill = a.bill + Len(c[i]) /\ d.x = Subtract(y, c, i, 1)
    BY <2>2
  <2>7. \A j \in V : d.x[j] = IF Hits(c, i, 1, j)
                              THEN Append(Cleared(a.x, i, j), i)
                              ELSE Cleared(a.x, i, j)
    BY <2>1, <2>3, <2>6
  <2> QED
    BY <1>4, <2>5, <2>6, <2>7 DEF d
<1> QED
  BY <1>3, <1>4

LEMMA FrontStepsIs ==
  ASSUME NEW c \in Columns, NEW b \in Int, NEW r \in Gathered,
         NEW s \in Seq(V)
  PROVE  LET h == FrontSteps(c, b, r, s)
         IN  /\ h \in [0 .. Len(s) -> Fronts] /\ h[0] = [x |-> r, l |-> << >>, p |-> << >>, bill |-> 0]
             /\ \A q \in 1 .. Len(s) : h[q] = FrontStep(c, b, h[q - 1], s[q])
<1> DEFINE n == Len(s)
           T == Fronts
           start == [x |-> r, l |-> << >>, p |-> << >>, bill |-> 0]
           Next1(e, q) == FrontStep(c, b, e, s[q])
           step == [q \in 1 .. n |-> [e \in T |-> Next1(e, q)]]
           Def(f) == f = [q \in 0 .. n |-> IF q = 0 THEN start
                                           ELSE Next1(f[q - 1], q)]
           h == FrontSteps(c, b, r, s)
<1>1. n \in Nat /\ start \in T
  BY DEF Fronts
<1>2. h = CHOOSE f : Def(f)
  BY DEF FrontSteps
<1>3. ASSUME NEW q \in 1 .. n, NEW e \in T PROVE Next1(e, q) \in T
  <2>1. s[q] \in V
    OBVIOUS
  <2> QED
    BY <2>1, FrontStepIs
<1> HIDE DEF n, T, Next1, h, start
<1>4. step \in [1 .. n -> [T -> T]]
  BY <1>3
<1>5. \E f : Def(f)
  <2>1. PICK f : IsLoop(f, n, T, start, step)
    <3> HIDE DEF step
    <3> QED
      BY <1>1, <1>4, Loop
  <2>2. ASSUME NEW q \in 1 .. n
        PROVE  q - 1 \in 0 .. n /\ f[q] = Next1(f[q - 1], q)
    <3>1. q - 1 \in 0 .. n
      BY <1>1
    <3>2. f[q - 1] \in T /\ f[q] = step[q][f[q - 1]]
      BY <2>1, <3>1 DEF IsLoop
    <3>3. step[q][f[q - 1]] = Next1(f[q - 1], q)
      BY <3>2
    <3> QED
      BY <3>1, <3>2, <3>3
  <2> QED
    BY <1>1, <2>1, <2>2 DEF IsLoop
<1>6. Def(h)
  <2> HIDE DEF Def
  <2> QED
    BY <1>2, <1>5
<1>7. /\ h = [q \in 0 .. n |-> h[q]] /\ h[0] = start
      /\ \A q \in 1 .. n : h[q] = Next1(h[q - 1], q)
  <2>1. 0 \in 0 .. n /\ \A q \in 1 .. n : q \in 0 .. n /\ q # 0
    BY <1>1
  <2>2. \A q \in 0 .. n : h[q] = IF q = 0 THEN start ELSE Next1(h[q - 1], q)
    BY <1>6
  <2>3. h = [q \in 0 .. n |-> h[q]]
    BY <1>6, <2>2
  <2> QED
    BY <2>1, <2>2, <2>3
<1> HIDE DEF Def
<1>8. \A q \in 1 .. n : h[q - 1] \in T => h[q] \in T
  BY <1>3, <1>7
<1>9. h \in [0 .. n -> T]
  BY <1>1, <1>7, <1>8, LoopStays
<1> QED
  BY <1>7, <1>9 DEF n, T, Next1, h, start

\* A row as its front leaves it.
IsFronted(r) ==
    /\ r.s \in Seq(V)
    /\ r.l \in [1 .. Len(r.s) -> Seq(V)] /\ r.p \in [1 .. Len(r.s) -> Nat]

\* A step of a row: column i takes v, and from its entry number p on is taken
\* off what is gathered.
Stepped(d, a, i, k, v, p, before) ==
    /\ d \in Factors
    /\ d.col[i] = Append(a.col[i], [row |-> k, from |-> v])
    /\ \A j \in V : j # i => d.col[j] = a.col[j]
    /\ d.bill = a.bill + Len(a.col[i]) - p
    /\ before => \A j \in V :
           d.x[j] = IF Hits(a.col, i, p + 1, j) THEN Append(a.x[j], i)
                    ELSE a.x[j]
    /\ ~before => \A j \in V :
           d.x[j] = IF Hits(a.col, i, 1, j)
                    THEN Append(Cleared(a.x, i, j), i)
                    ELSE Cleared(a.x, i, j)

LEMMA BackStepIs ==
  ASSUME NEW a \in Factors, NEW r, IsFronted(r), NEW q \in 1 .. Len(r.s),
         NEW k \in V, k0 \in Int
  PROVE  Stepped(BackStep(a, r, q, k), a, r.s[q], k,
                 IF r.s[q] <= k0 THEN r.l[q] ELSE a.x[r.s[q]],
                 IF r.s[q] <= k0 THEN r.p[q] ELSE 0, r.s[q] <= k0)
<1> DEFINE d == BackStep(a, r, q, k)
           i == r.s[q]
           v == IF i <= k0 THEN r.l[q] ELSE a.x[i]
           p == IF i <= k0 THEN r.p[q] ELSE 0
           y == IF i <= k0 THEN a.x ELSE [a.x EXCEPT ![i] = << >>]
           c == a.col
<1>1. i \in V /\ r.l[q] \in Seq(V) /\ r.p[q] \in Nat
  BY DEF IsFronted
<1>2. /\ a.x \in Gathered /\ c \in Columns /\ a.bill \in Int
      /\ a.x[i] \in Seq(V) /\ Len(c[i]) \in Nat
  BY <1>1 DEF Factors, Gathered, Columns
<1>3. d = [x |-> Subtract(y, c, i, p + 1), col |-> Put(c, i, k, v),
           bill |-> a.bill + Len(c[i]) - p]
  BY DEF BackStep, Known
<1>4. /\ y \in Gathered /\ v \in Seq(V) /\ p \in Nat
      /\ i <= k0 => y = a.x
      /\ ~(i <= k0) => p = 0 /\ \A j \in V : y[j] = Cleared(a.x, i, j)
  BY <1>1, <1>2 DEF Gathered, Cleared
<1> HIDE DEF d, v, p, y, i, c
<1>5. /\ Subtract(y, c, i, p + 1) \in Gathered
      /\ \A j \in V : Subtract(y, c, i, p + 1)[j] =
            IF Hits(c, i, p + 1, j) THEN Append(y[j], i) ELSE y[j]
  BY <1>1, <1>4, SubtractIs
<1>6. /\ Put(c, i, k, v) \in Columns
      /\ Put(c, i, k, v)[i] = Append(c[i], [row |-> k, from |-> v])
      /\ \A j \in V : j # i => Put(c, i, k, v)[j] = c[j]
  BY <1>1, <1>2, <1>4, PutIs
<1>7. a.bill + Len(c[i]) - p \in Int
  BY <1>2, <1>4
<1>8. d \in Factors
  BY <1>3, <1>5, <1>6, <1>7 DEF Factors
<1>9. /\ d.x = Subtract(y, c, i, p + 1) /\ d.col = Put(c, i, k, v)
      /\ d.bill = a.bill + Len(c[i]) - p
  BY <1>3
<1>10. ASSUME i <= k0
       PROVE  \A j \in V : d.x[j] = IF Hits(c, i, p + 1, j)
                                    THEN Append(a.x[j], i) ELSE a.x[j]
  BY <1>4, <1>5, <1>9, <1>10
<1>11. ASSUME ~(i <= k0)
       PROVE  \A j \in V : d.x[j] = IF Hits(c, i, 1, j)
                                    THEN Append(Cleared(a.x, i, j), i)
                                    ELSE Cleared(a.x, i, j)
  <2>1. p + 1 = 1 /\ \A j \in V : y[j] = Cleared(a.x, i, j)
    BY <1>4, <1>11
  <2> QED
    BY <1>5, <1>9, <2>1
<1> QED
  BY <1>6, <1>8, <1>9, <1>10, <1>11 DEF d, v, p, i, c, Stepped

LEMMA BackStepsIs ==
  ASSUME NEW f \in Factors, NEW r, IsFronted(r), NEW k \in V, k0 \in Int
  PROVE  LET h == BackSteps(f, r, k)
         IN  /\ h \in [0 .. Len(r.s) -> Factors] /\ h[0] = f
             /\ \A q \in 1 .. Len(r.s) : h[q] = BackStep(h[q - 1], r, q, k)
<1> DEFINE n == Len(r.s)
           T == Factors
           start == f
           Next1(b, q) == BackStep(b, r, q, k)
           step == [q \in 1 .. n |-> [b \in T |-> Next1(b, q)]]
           Def(fn) == fn = [q \in 0 .. n |-> IF q = 0 THEN start
                                           ELSE Next1(fn[q - 1], q)]
           h == BackSteps(f, r, k)
<1>1. n \in Nat /\ start \in T
  BY DEF IsFronted
<1>2. h = CHOOSE fn : Def(fn)
  BY DEF BackSteps
<1>3. ASSUME NEW q \in 1 .. n, NEW b \in T PROVE Next1(b, q) \in T
  BY BackStepIs DEF Stepped
<1> HIDE DEF n, T, Next1, h, start
<1>4. step \in [1 .. n -> [T -> T]]
  BY <1>3
<1>5. \E fn : Def(fn)
  <2>1. PICK fn : IsLoop(fn, n, T, start, step)
    <3> HIDE DEF step
    <3> QED
      BY <1>1, <1>4, Loop
  <2>2. ASSUME NEW q \in 1 .. n
        PROVE  q - 1 \in 0 .. n /\ fn[q] = Next1(fn[q - 1], q)
    <3>1. q - 1 \in 0 .. n
      BY <1>1
    <3>2. fn[q - 1] \in T /\ fn[q] = step[q][fn[q - 1]]
      BY <2>1, <3>1 DEF IsLoop
    <3>3. step[q][fn[q - 1]] = Next1(fn[q - 1], q)
      BY <3>2
    <3> QED
      BY <3>1, <3>2, <3>3
  <2> QED
    BY <1>1, <2>1, <2>2 DEF IsLoop
<1>6. Def(h)
  <2> HIDE DEF Def
  <2> QED
    BY <1>2, <1>5
<1>7. /\ h = [q \in 0 .. n |-> h[q]] /\ h[0] = start
      /\ \A q \in 1 .. n : h[q] = Next1(h[q - 1], q)
  <2>1. 0 \in 0 .. n /\ \A q \in 1 .. n : q \in 0 .. n /\ q # 0
    BY <1>1
  <2>2. \A q \in 0 .. n : h[q] = IF q = 0 THEN start ELSE Next1(h[q - 1], q)
    BY <1>6
  <2>3. h = [q \in 0 .. n |-> h[q]]
    BY <1>6, <2>2
  <2> QED
    BY <2>1, <2>2, <2>3
<1> HIDE DEF Def
<1>8. \A q \in 1 .. n : h[q - 1] \in T => h[q] \in T
  BY <1>3, <1>7
<1>9. h \in [0 .. n -> T]
  BY <1>1, <1>7, <1>8, LoopStays
<1> QED
  BY <1>7, <1>9 DEF n, T, Next1, h, start

LEMMA HitsInside ==
  ASSUME NEW a, NEW c \in Columns, NEW m \in Int, GoodCols(a, c, m), NEW i \in V,
         NEW p \in Nat \ {0}, NEW j, Hits(c, i, p, j)
  PROVE  j > i /\ j <= m
<1>1. Len(c[i]) \in Nat /\ i \in Int
  BY OrderAssumption DEF Columns, V
<1>2. PICK q \in p .. Len(c[i]) : c[i][q].row = j
  BY DEF Hits
<1>3. q \in 1 .. Len(c[i])
  BY <1>1, <1>2
<1>4. j \in i + 1 .. m
  BY <1>2, <1>3 DEF GoodCols
<1> QED
  BY <1>1, <1>4

\* The entries a column had before the block are its entries left of the
\* block.
LEMMA HitsGrown ==
  ASSUME NEW a, NEW b \in Int, NEW c \in Columns, GoodCols(a, c, b),
         NEW d \in Columns, Grown(c, d, b), NEW i \in V, NEW j \in V
  PROVE  /\ j <= b => /\ Hits(d, i, 1, j) = Hits(c, i, 1, j)
                      /\ ~Hits(d, i, Len(c[i]) + 1, j)
         /\ ~(j <= b) => Hits(d, i, 1, j) = Hits(d, i, Len(c[i]) + 1, j)
<1>1. /\ Len(c[i]) \in Nat /\ Len(d[i]) \in Nat /\ i \in Int /\ j \in Int
      /\ c[i] \in Seq(Entry) /\ d[i] \in Seq(Entry)
  BY OrderAssumption DEF Columns, V
<1>2. /\ Len(c[i]) <= Len(d[i])
      /\ \A q \in 1 .. Len(c[i]) : d[i][q] = c[i][q]
      /\ \A q \in Len(c[i]) + 1 .. Len(d[i]) : d[i][q].row > b
  BY DEF Grown
<1>3. \A q \in 1 .. Len(c[i]) : c[i][q].row \in i + 1 .. b
  BY DEF GoodCols
<1>4. \A q \in 1 .. Len(d[i]) : q \in 1 .. Len(c[i])
                                  \/ q \in Len(c[i]) + 1 .. Len(d[i])
  BY <1>1
<1>5. /\ \A q \in 1 .. Len(c[i]) : q \in 1 .. Len(d[i])
      /\ \A q \in Len(c[i]) + 1 .. Len(d[i]) : q \in 1 .. Len(d[i])
  BY <1>1, <1>2
<1>6. CASE j <= b
  <2>1. \A q \in Len(c[i]) + 1 .. Len(d[i]) : d[i][q].row # j
    BY <1>1, <1>2, <1>6
  <2>2. (\E q \in 1 .. Len(d[i]) : d[i][q].row = j)
          <=> (\E q \in 1 .. Len(c[i]) : c[i][q].row = j)
    BY <1>2, <1>4, <1>5, <2>1
  <2> QED
    BY <1>6, <2>1, <2>2 DEF Hits
<1>7. CASE ~(j <= b)
  <2>1. \A q \in 1 .. Len(c[i]) : c[i][q].row # j
    BY <1>1, <1>3, <1>7
  <2>2. (\E q \in 1 .. Len(d[i]) : d[i][q].row = j)
          <=> (\E q \in Len(c[i]) + 1 .. Len(d[i]) : d[i][q].row = j)
    BY <1>2, <1>4, <1>5, <2>1
  <2> QED
    BY <1>7, <2>2 DEF Hits
<1> QED
  BY <1>6, <1>7

\* A column is eliminated from a row before the row is an entry of it.
LEMMA RowPending ==
  ASSUME NEW a, Analysed(a), NEW k \in V, NEW g \in Factors,
         GoodCols(a, g.col, k - 1), g.x = Blank,
         NEW q \in 1 .. Len(ReachOf(a, k))
  PROVE  LET s == ReachOf(a, k)
             h == RowSteps(g, s, k)
         IN  /\ s[q] \in V /\ s[q] < k
             /\ h[q - 1] \in Factors /\ h[q] \in Factors
             /\ h[q - 1].col[s[q]] = g.col[s[q]]
             /\ h[q] = Eliminate(h[q - 1], s[q], k)
<1> DEFINE s == ReachOf(a, k)
           n == Len(s)
           h == RowSteps(g, s, k)
<1>1. /\ s \in Seq(V) /\ n \in Nat
      /\ \A r \in 1 .. n : s[r] \in V /\ s[r] < k
      /\ \A m, r \in 1 .. n : m # r => s[m] # s[r]
  BY ReachOfType
<1>2. q - 1 \in 0 .. n /\ q \in 0 .. n /\ q \in 1 .. n
  BY <1>1
<1>3. RowAt(g, s, k, h, q - 1)
  BY <1>2, RowGathers
<1> HIDE DEF s
<1>4. /\ h \in [0 .. n -> Factors]
      /\ \A m \in 1 .. n : h[m] = Eliminate(h[m - 1], s[m], k)
  BY <1>1, RowStepsIs
<1> HIDE DEF h, n
<1>5. \A r \in 1 .. q - 1 : r \in 1 .. n /\ r # q
  BY <1>1, <1>2
<1>6. s[q] \notin {s[r] : r \in 1 .. q - 1}
  BY <1>1, <1>2, <1>5
<1>7. h[q - 1].col[s[q]] = g.col[s[q]]
  BY <1>1, <1>2, <1>3, <1>6 DEF RowAt
<1> QED
  BY <1>1, <1>2, <1>4, <1>7 DEF s, h, n

\* The front of a row follows the row in the columns up to b.
FrontAt(c, b, s, h, f, q) ==
    /\ \A j \in V : f[q].x[j] = IF j <= b THEN h[q].x[j] ELSE << >>
    /\ Len(f[q].l) = q /\ Len(f[q].p) = q
    /\ \A r \in 1 .. q :
        /\ f[q].l[r] = IF s[r] <= b THEN h[r - 1].x[s[r]] ELSE << >>
        /\ f[q].p[r] = IF s[r] <= b THEN Len(c[s[r]]) ELSE 0

LEMMA FrontFollows ==
  ASSUME NEW a, Analysed(a), NEW k \in V, NEW b \in Nat, b < k,
         NEW c \in Columns, GoodCols(a, c, b),
         NEW g \in Factors, GoodCols(a, g.col, k - 1), g.x = Blank,
         Grown(c, g.col, b), NEW q \in 0 .. Len(ReachOf(a, k))
  PROVE  FrontAt(c, b, ReachOf(a, k), RowSteps(g, ReachOf(a, k), k),
                 FrontSteps(c, b, Blank, ReachOf(a, k)), q)
<1> DEFINE s == ReachOf(a, k)
           n == Len(s)
           h == RowSteps(g, s, k)
           f == FrontSteps(c, b, Blank, s)
           T == {m \in 0 .. n : FrontAt(c, b, s, h, f, m)}
<1>1. /\ s \in Seq(V) /\ n \in Nat
      /\ \A r \in 1 .. n : s[r] \in V /\ s[r] < k
  BY ReachOfType
<1>2. \A m \in 1 .. n :
        /\ h[m - 1] \in Factors /\ h[m] \in Factors
        /\ h[m - 1].col[s[m]] = g.col[s[m]]
        /\ h[m] = Eliminate(h[m - 1], s[m], k)
  BY RowPending
<1> HIDE DEF s
<1>3. Blank \in Gathered
  BY DEF Blank, Gathered
<1>4. /\ f \in [0 .. n -> Fronts]
      /\ f[0] = [x |-> Blank, l |-> << >>, p |-> << >>, bill |-> 0]
      /\ \A m \in 1 .. n : f[m] = FrontStep(c, b, f[m - 1], s[m])
  BY <1>1, <1>3, FrontStepsIs
<1>5. h[0] = g
  BY <1>1, RowStepsIs
<1> HIDE DEF h, n, f
<1>6. 0 \in T
  <2>1. /\ f[0].x = Blank /\ f[0].l = << >> /\ f[0].p = << >>
        /\ h[0].x = Blank
    BY <1>4, <1>5
  <2>2. \A j \in V : Blank[j] = << >>
    BY DEF Blank
  <2>3. FrontAt(c, b, s, h, f, 0)
    BY <2>1, <2>2 DEF FrontAt
  <2> QED
    BY <1>1, <2>3
<1>7. ASSUME NEW m \in 1 .. n, m - 1 \in T PROVE m \in T
  <2> DEFINE e == f[m - 1]
             u == h[m - 1]
             i == s[m]
  <2>1. /\ m \in 0 .. n /\ m - 1 \in 0 .. n /\ i \in V /\ i < k
        /\ e \in Fronts /\ u \in Factors /\ u.col[i] = g.col[i]
    BY <1>1, <1>2, <1>4
  <2>2. /\ \A j \in V : e.x[j] = IF j <= b THEN u.x[j] ELSE << >>
        /\ Len(e.l) = m - 1 /\ Len(e.p) = m - 1
        /\ \A r \in 1 .. m - 1 :
            /\ e.l[r] = IF s[r] <= b THEN h[r - 1].x[s[r]] ELSE << >>
            /\ e.p[r] = IF s[r] <= b THEN Len(c[s[r]]) ELSE 0
    BY <1>7 DEF FrontAt
  <2> DEFINE d == f[m]
             w == h[m]
  <2>3. d = FrontStep(c, b, e, i) /\ w = Eliminate(u, i, k)
    BY <1>2, <1>4
  <2> HIDE DEF e, u, i, d, w
  <2>4. /\ d.l = Append(e.l, IF i > b THEN << >> ELSE e.x[i])
        /\ d.p = Append(e.p, IF i > b THEN 0 ELSE Len(c[i]))
        /\ i > b => d.x = e.x
        /\ ~(i > b) => \A j \in V :
               d.x[j] = IF Hits(c, i, 1, j)
                        THEN Append(Cleared(e.x, i, j), i)
                        ELSE Cleared(e.x, i, j)
    <3>1. e \in Fronts /\ i \in V /\ b \in Int
      BY <2>1
    <3>2. LET o == FrontStep(c, b, e, i)
          IN  /\ o \in Fronts
              /\ o.l = Append(e.l, IF i > b THEN << >> ELSE e.x[i])
              /\ o.p = Append(e.p, IF i > b THEN 0 ELSE Len(c[i]))
              /\ o.bill = e.bill + (IF i > b THEN 0 ELSE Len(c[i]))
              /\ i > b => o.x = e.x
              /\ ~(i > b) => \A j \in V :
                     o.x[j] = IF Hits(c, i, 1, j)
                              THEN Append(Cleared(e.x, i, j), i)
                              ELSE Cleared(e.x, i, j)
      BY <3>1, FrontStepIs
    <3> QED
      BY <2>3, <3>2
  <2>5. \A j \in V : w.x[j] = IF Hits(u.col, i, 1, j)
                              THEN Append(Cleared(u.x, i, j), i)
                              ELSE Cleared(u.x, i, j)
    <3>1. u \in Factors /\ i \in V
      BY <2>1
    <3>2. LET o == Eliminate(u, i, k)
          IN  \A j \in V : o.x[j] = IF Hits(u.col, i, 1, j)
                                    THEN Append(Cleared(u.x, i, j), i)
                                    ELSE Cleared(u.x, i, j)
      BY <3>1, EliminateIs
    <3> QED
      BY <2>3, <3>2
  <2>6. \A j \in V : Hits(u.col, i, 1, j) = Hits(g.col, i, 1, j)
    BY <2>1 DEF Hits
  <2>7. g.col \in Columns /\ k - 1 \in Int /\ i \in Int /\ b \in Int
          /\ \A j \in V : j \in Int
    BY <2>1, OrderAssumption DEF Factors, V
  <2>8. ASSUME NEW j \in V PROVE d.x[j] = IF j <= b THEN w.x[j] ELSE << >>
    <3>1. CASE i > b
      <4>1. d.x[j] = IF j <= b THEN u.x[j] ELSE << >>
        BY <2>2, <2>4, <3>1
      <4>2. CASE j <= b
        <5>1. ~Hits(g.col, i, 1, j)
          <6>1. Hits(g.col, i, 1, j) => j > i
            BY <2>1, <2>7, HitsInside
          <6> QED
            BY <2>7, <3>1, <4>2, <6>1
        <5>2. j # i
          BY <2>7, <3>1, <4>2
        <5> QED
          BY <2>5, <2>6, <4>1, <4>2, <5>1, <5>2 DEF Cleared
      <4>3. CASE ~(j <= b)
        BY <4>1, <4>3
      <4> QED
        BY <4>2, <4>3
    <3>2. CASE ~(i > b)
      <4>1. CASE j <= b
        <5>1. Hits(g.col, i, 1, j) = Hits(c, i, 1, j)
          BY <2>1, <2>7, <4>1, HitsGrown
        <5>2. Cleared(e.x, i, j) = Cleared(u.x, i, j)
          BY <2>2, <4>1 DEF Cleared
        <5> QED
          BY <2>4, <2>5, <2>6, <3>2, <4>1, <5>1, <5>2
      <4>2. CASE ~(j <= b)
        <5>1. ~Hits(c, i, 1, j)
          <6>1. Hits(c, i, 1, j) => j <= b
            BY <2>1, <2>7, HitsInside
          <6> QED
            BY <4>2, <6>1
        <5>2. Cleared(e.x, i, j) = << >>
          BY <2>2, <4>2 DEF Cleared
        <5> QED
          BY <2>4, <3>2, <4>2, <5>1, <5>2
      <4> QED
        BY <4>1, <4>2
    <3> QED
      BY <3>1, <3>2
  <2>9. e.l \in Seq(Seq(V)) /\ e.p \in Seq(Nat)
    BY <2>1 DEF Fronts
  <2>10. e.x[i] = IF i <= b THEN u.x[i] ELSE << >>
    BY <2>1, <2>2
  <2> DEFINE v == IF i > b THEN << >> ELSE e.x[i]
             z == IF i > b THEN 0 ELSE Len(c[i])
  <2>11. v \in Seq(V) /\ z \in Nat
    BY <2>1 DEF Fronts, Gathered, Columns
  <2>12. /\ v = IF i <= b THEN u.x[i] ELSE << >>
         /\ z = IF i <= b THEN Len(c[i]) ELSE 0
    BY <2>7, <2>10
  <2>13. d.l = Append(e.l, v) /\ d.p = Append(e.p, z)
    BY <2>4
  <2> HIDE DEF v, z
  <2>14. /\ Len(d.l) = m /\ Len(d.p) = m /\ d.l[m] = v /\ d.p[m] = z
         /\ \A r \in 1 .. m - 1 : d.l[r] = e.l[r] /\ d.p[r] = e.p[r]
    <3>1. m \in Nat /\ (m - 1) + 1 = m
      BY <1>1
    <3> DEFINE M == m - 1
    <3>2. Len(e.l) = M /\ Len(e.p) = M /\ M \in Nat
      BY <1>1, <2>2
    <3> HIDE DEF M
    <3>3. /\ Len(Append(e.l, v)) = M + 1 /\ Append(e.l, v)[M + 1] = v
          /\ \A r \in 1 .. M : Append(e.l, v)[r] = e.l[r]
      BY <2>9, <2>11, <3>2
    <3>4. /\ Len(Append(e.p, z)) = M + 1 /\ Append(e.p, z)[M + 1] = z
          /\ \A r \in 1 .. M : Append(e.p, z)[r] = e.p[r]
      BY <2>9, <2>11, <3>2
    <3>5. M + 1 = m /\ M = m - 1
      BY <3>1 DEF M
    <3> QED
      BY <2>13, <3>3, <3>4, <3>5
  <2>15. ASSUME NEW r \in 1 .. m
         PROVE  /\ d.l[r] = IF s[r] <= b THEN h[r - 1].x[s[r]] ELSE << >>
                /\ d.p[r] = IF s[r] <= b THEN Len(c[s[r]]) ELSE 0
    <3>1. r = m \/ r \in 1 .. m - 1
      BY <1>1
    <3>2. CASE r = m
      BY <2>12, <2>14, <3>2 DEF i, u
    <3>3. CASE r \in 1 .. m - 1
      BY <2>2, <2>14, <3>3
    <3> QED
      BY <3>1, <3>2, <3>3
  <2>16. FrontAt(c, b, s, h, f, m)
    BY <2>8, <2>14, <2>15 DEF FrontAt, d, w
  <2> QED
    BY <2>1, <2>16
<1>8. T = 0 .. n
  <2>1. T \in SUBSET (0 .. n)
    OBVIOUS
  <2> HIDE DEF T
  <2> QED
    BY <1>1, <1>6, <1>7, <2>1, Induct
<1>9. q \in T
  BY <1>8 DEF n, s
<1> QED
  BY <1>9 DEF h, s, f

\* A front leaves the row of its lane as it found it, and nothing for inside
\* the block: the columns before it have no entry there.
LEMMA FrontRowIs ==
  ASSUME NEW a, Analysed(a), NEW k \in V, NEW b \in Nat, b < k,
         NEW c \in Columns, GoodCols(a, c, b),
         NEW g \in Factors, GoodCols(a, g.col, k - 1), g.x = Blank,
         Grown(c, g.col, b)
  PROVE  LET s == ReachOf(a, k)
             f == FrontSteps(c, b, Blank, s)[Len(s)]
             o == FrontRow(c, b, Blank, s, k)
         IN  /\ o.x = Blank /\ o.bill = f.bill /\ IsFronted(o.row)
             /\ o.row.x = Blank /\ o.row.s = s
             /\ o.row.l = f.l /\ o.row.p = f.p
<1> DEFINE s == ReachOf(a, k)
           n == Len(s)
           h == RowSteps(g, s, k)
           F == FrontSteps(c, b, Blank, s)
           f == F[n]
           o == FrontRow(c, b, Blank, s, k)
<1>1. s \in Seq(V) /\ n \in Nat
  BY ReachOfType
<1>2. FrontAt(c, b, s, h, F, n)
  <2>1. n \in 0 .. n
    BY <1>1
  <2> QED
    BY <2>1, FrontFollows
<1>3. RowAt(g, s, k, h, n)
  <2>1. n \in 0 .. n
    BY <1>1
  <2> QED
    BY <2>1, RowGathers
<1> HIDE DEF s
<1>4. Blank \in Gathered /\ \A j \in V : Blank[j] = << >>
  BY DEF Blank, Gathered
<1>5. F \in [0 .. n -> Fronts] /\ n \in 0 .. n
  <2>1. b \in Int /\ n \in 0 .. n
    BY <1>1
  <2>2. F \in [0 .. Len(s) -> Fronts]
    BY <1>1, <1>4, <2>1, FrontStepsIs
  <2> QED
    BY <2>1, <2>2
<1>6. h \in [0 .. n -> Factors]
  BY <1>1, RowStepsIs
<1>7. o = [row |-> [s |-> s, l |-> f.l, p |-> f.p,
                    x |-> [j \in V |-> IF Inside(b, j, k) THEN f.x[j]
                                       ELSE << >>]],
           x |-> [j \in V |-> IF Inside(b, j, k) THEN << >> ELSE f.x[j]],
           bill |-> f.bill]
  BY DEF FrontRow
<1> HIDE DEF h, F, o
<1>8. \A j \in V : h[n].x[j] = << >>
  <2>1. n + 1 .. Len(s) = {}
    BY <1>1
  <2> QED
    BY <1>3, <2>1 DEF RowAt
<1>9. \A j \in V : f.x[j] = << >>
  BY <1>2, <1>8 DEF FrontAt
<1>10. f \in Fronts /\ Len(f.l) = n /\ Len(f.p) = n
  BY <1>2, <1>5 DEF FrontAt
<1>11. /\ [j \in V |-> IF Inside(b, j, k) THEN f.x[j] ELSE << >>] = Blank
       /\ [j \in V |-> IF Inside(b, j, k) THEN << >> ELSE f.x[j]] = Blank
  BY <1>9 DEF Blank
<1>12. o = [row |-> [s |-> s, l |-> f.l, p |-> f.p, x |-> Blank], x |-> Blank,
            bill |-> f.bill]
  BY <1>7, <1>11
<1> HIDE DEF f
<1>13. /\ o.x = Blank /\ o.bill = f.bill /\ o.row.x = Blank /\ o.row.s = s
       /\ o.row.l = f.l /\ o.row.p = f.p
  BY <1>12
<1>14. f.l \in [1 .. n -> Seq(V)] /\ f.p \in [1 .. n -> Nat]
  <2> DEFINE A == f.l
             B == f.p
             Q == Seq(V)
  <2>1. A \in Seq(Q) /\ B \in Seq(Nat) /\ Len(A) = n /\ Len(B) = n
    BY <1>10 DEF Fronts
  <2> HIDE DEF A, B, Q
  <2>2. A \in [1 .. n -> Q] /\ B \in [1 .. n -> Nat]
    BY <2>1, LenProperties
  <2> QED
    BY <2>2 DEF A, B, Q
<1>15. IsFronted(o.row)
  BY <1>1, <1>13, <1>14 DEF IsFronted
<1> QED
  BY <1>13, <1>15 DEF s, n, F, f, o

\* The rest of a row follows the row in the columns from the block on.
BackAt(f, g, h, F, B, q) ==
    /\ B[q].col = h[q].col
    /\ \A j \in V : B[q].x[j] = IF j <= k0 THEN << >> ELSE h[q].x[j]
    /\ B[q].bill = f.bill + (h[q].bill - g.bill) - F[q].bill

LEMMA BackFollows ==
  ASSUME NEW a, Analysed(a), NEW k \in V, k0 \in Nat, k0 < k,
         NEW c \in Columns, GoodCols(a, c, k0),
         NEW g \in Factors, GoodCols(a, g.col, k - 1), g.x = Blank,
         Grown(c, g.col, k0),
         NEW f \in Factors, f.x = Blank, f.col = g.col,
         NEW r, r = FrontRow(c, k0, Blank, ReachOf(a, k), k).row,
         NEW q \in 0 .. Len(ReachOf(a, k))
  PROVE  BackAt(f, g, RowSteps(g, ReachOf(a, k), k),
                FrontSteps(c, k0, Blank, ReachOf(a, k)), BackSteps(f, r, k), q)
<1> DEFINE s == ReachOf(a, k)
           n == Len(s)
           h == RowSteps(g, s, k)
           F == FrontSteps(c, k0, Blank, s)
           B == BackSteps(f, r, k)
           T == {m \in 0 .. n : BackAt(f, g, h, F, B, m)}
<1>1. /\ s \in Seq(V) /\ n \in Nat
      /\ \A m \in 1 .. n : s[m] \in V /\ s[m] < k
  BY ReachOfType
<1>2. \A m \in 1 .. n :
        /\ h[m - 1] \in Factors /\ h[m] \in Factors
        /\ h[m - 1].col[s[m]] = g.col[s[m]]
        /\ h[m] = Eliminate(h[m - 1], s[m], k)
  BY RowPending
<1>3. FrontAt(c, k0, s, h, F, n)
  <2>1. n \in 0 .. n
    BY <1>1
  <2> QED
    BY <2>1, FrontFollows
<1>4. IsFronted(r) /\ r.s = s /\ r.l = F[n].l /\ r.p = F[n].p
  BY FrontRowIs
<1> HIDE DEF s
<1>5. /\ F \in [0 .. n -> Fronts]
      /\ F[0] = [x |-> Blank, l |-> << >>, p |-> << >>, bill |-> 0]
      /\ \A m \in 1 .. n : F[m] = FrontStep(c, k0, F[m - 1], s[m])
  <2>1. Blank \in Gathered /\ k0 \in Int
    BY DEF Blank, Gathered
  <2> QED
    BY <1>1, <2>1, FrontStepsIs
<1>6. h[0] = g
  BY <1>1, RowStepsIs
<1>7. /\ B \in [0 .. n -> Factors] /\ B[0] = f
      /\ \A m \in 1 .. n : B[m] = BackStep(B[m - 1], r, m, k)
  <2>1. /\ B \in [0 .. Len(r.s) -> Factors] /\ B[0] = f
        /\ \A m \in 1 .. Len(r.s) : B[m] = BackStep(B[m - 1], r, m, k)
    BY <1>4, BackStepsIs
  <2> QED
    BY <1>4, <2>1
<1> HIDE DEF h, n, F, B
<1>8. 0 \in T
  <2>1. \A j \in V : f.x[j] = << >> /\ g.x[j] = << >>
    BY DEF Blank
  <2>2. f.bill \in Int /\ g.bill \in Int
    BY DEF Factors
  <2>3. F[0].bill = 0
    BY <1>5
  <2>4. f.bill = f.bill + (g.bill - g.bill) - 0
    BY <2>2
  <2>5. BackAt(f, g, h, F, B, 0)
    BY <1>6, <1>7, <2>1, <2>3, <2>4 DEF BackAt
  <2> QED
    BY <1>1, <2>5
<1>9. ASSUME NEW m \in 1 .. n, m - 1 \in T PROVE m \in T
  <2> DEFINE e == B[m - 1]
             u == h[m - 1]
             i == s[m]
             d == B[m]
             w == h[m]
             y == F[m - 1]
             z == F[m]
  <2>1. /\ m \in 0 .. n /\ m - 1 \in 0 .. n /\ i \in V /\ i < k
        /\ e \in Factors /\ u \in Factors /\ u.col[i] = g.col[i]
        /\ y \in Fronts
    BY <1>1, <1>2, <1>5, <1>7
  <2>2. /\ e.col = u.col
        /\ \A j \in V : e.x[j] = IF j <= k0 THEN << >> ELSE u.x[j]
        /\ e.bill = f.bill + (u.bill - g.bill) - y.bill
    BY <1>9 DEF BackAt
  <2>3. /\ d = BackStep(e, r, m, k) /\ w = Eliminate(u, i, k)
        /\ z = FrontStep(c, k0, y, i)
    BY <1>2, <1>5, <1>7
  <2>4. /\ r.s[m] = i /\ m \in 1 .. Len(r.s)
        /\ i <= k0 => r.l[m] = u.x[i] /\ r.p[m] = Len(c[i])
    <3>1. /\ F[n].l[m] = IF s[m] <= k0 THEN h[m - 1].x[s[m]] ELSE << >>
          /\ F[n].p[m] = IF s[m] <= k0 THEN Len(c[s[m]]) ELSE 0
      BY <1>3 DEF FrontAt
    <3> QED
      BY <1>4, <3>1 DEF n
  <2> DEFINE v == IF i <= k0 THEN r.l[m] ELSE e.x[i]
             p == IF i <= k0 THEN r.p[m] ELSE 0
  <2>5. v = u.x[i] /\ p = IF i <= k0 THEN Len(c[i]) ELSE 0
    BY <2>1, <2>2, <2>4
  <2> HIDE DEF e, u, i, d, w, y, z
  <2>6. /\ d \in Factors
        /\ d.col[i] = Append(e.col[i], [row |-> k, from |-> v])
        /\ \A j \in V : j # i => d.col[j] = e.col[j]
        /\ d.bill = e.bill + Len(e.col[i]) - p
        /\ i <= k0 => \A j \in V :
               d.x[j] = IF Hits(e.col, i, p + 1, j)
                        THEN Append(e.x[j], i) ELSE e.x[j]
        /\ ~(i <= k0) => \A j \in V :
               d.x[j] = IF Hits(e.col, i, 1, j)
                        THEN Append(Cleared(e.x, i, j), i)
                        ELSE Cleared(e.x, i, j)
    <3>1. Stepped(BackStep(e, r, m, k), e, r.s[m], k,
                  IF r.s[m] <= k0 THEN r.l[m] ELSE e.x[r.s[m]],
                  IF r.s[m] <= k0 THEN r.p[m] ELSE 0, r.s[m] <= k0)
      <4>1. k0 \in Int
        OBVIOUS
      <4> QED
        BY <1>4, <2>1, <2>4, <4>1, BackStepIs
    <3>2. Stepped(d, e, i, k, v, p, i <= k0)
      BY <2>3, <2>4, <3>1 DEF v, p
    <3> HIDE DEF v, p
    <3> QED
      BY <3>2 DEF Stepped
  <2>7. /\ w \in Factors
        /\ \A j \in V : w.x[j] = IF Hits(u.col, i, 1, j)
                                 THEN Append(Cleared(u.x, i, j), i)
                                 ELSE Cleared(u.x, i, j)
        /\ w.col[i] = Append(u.col[i], [row |-> k, from |-> u.x[i]])
        /\ \A j \in V : j # i => w.col[j] = u.col[j]
        /\ w.bill = u.bill + Len(u.col[i])
    <3>1. LET o == Eliminate(u, i, k)
          IN  /\ o \in Factors
              /\ \A j \in V : o.x[j] = IF Hits(u.col, i, 1, j)
                                       THEN Append(Cleared(u.x, i, j), i)
                                       ELSE Cleared(u.x, i, j)
              /\ o.col[i] = Append(u.col[i], [row |-> k, from |-> u.x[i]])
              /\ \A j \in V : j # i => o.col[j] = u.col[j]
              /\ o.bill = u.bill + Len(u.col[i])
      BY <2>1, EliminateIs
    <3> QED
      BY <2>3, <3>1
  <2>8. z.bill = y.bill + (IF i > k0 THEN 0 ELSE Len(c[i]))
    <3>1. k0 \in Int
      OBVIOUS
    <3>2. LET o == FrontStep(c, k0, y, i)
          IN  o.bill = y.bill + (IF i > k0 THEN 0 ELSE Len(c[i]))
      BY <2>1, <3>1, FrontStepIs
    <3> QED
      BY <2>3, <3>2
  <2> HIDE DEF v, p
  <2>9. g.col \in Columns /\ k - 1 \in Int /\ i \in Int /\ k0 \in Int
          /\ Len(c[i]) \in Nat /\ Len(g.col[i]) \in Nat /\ \A j \in V : j \in Int
    <3>1. g.col \in Columns
      BY DEF Factors
    <3>2. Len(c[i]) \in Nat /\ Len(g.col[i]) \in Nat
      BY <2>1, <3>1 DEF Columns
    <3>3. N \in Nat /\ V = 1 .. N
      BY OrderAssumption DEF V
    <3> QED
      BY <2>1, <3>1, <3>2, <3>3
  <2>10. d.col = w.col
    <3>1. d.col \in Columns /\ w.col \in Columns
      BY <2>6, <2>7 DEF Factors
    <3>2. \A j \in V : d.col[j] = w.col[j]
      BY <2>2, <2>5, <2>6, <2>7
    <3> QED
      BY <3>1, <3>2 DEF Columns
  <2>11. \A j \in V : \A t : Hits(e.col, i, t, j) = Hits(g.col, i, t, j)
                           /\ Hits(u.col, i, t, j) = Hits(g.col, i, t, j)
    BY <2>1, <2>2 DEF Hits
  <2>12. ASSUME NEW j \in V
         PROVE  d.x[j] = IF j <= k0 THEN << >> ELSE w.x[j]
    <3>1. CASE i <= k0
      <4>1. p = Len(c[i])
        BY <2>5, <3>1
      <4>2. d.x[j] = IF Hits(g.col, i, Len(c[i]) + 1, j)
                     THEN Append(e.x[j], i) ELSE e.x[j]
        BY <2>6, <2>11, <3>1, <4>1
      <4>3. /\ j <= k0 => ~Hits(g.col, i, Len(c[i]) + 1, j)
            /\ ~(j <= k0) =>
                   Hits(g.col, i, 1, j) = Hits(g.col, i, Len(c[i]) + 1, j)
        BY <2>1, <2>9, HitsGrown
      <4>4. CASE j <= k0
        BY <2>2, <4>2, <4>3, <4>4
      <4>5. CASE ~(j <= k0)
        <5>1. Cleared(u.x, i, j) = u.x[j] /\ e.x[j] = u.x[j]
          BY <2>2, <2>9, <3>1, <4>5 DEF Cleared
        <5> QED
          BY <2>7, <2>11, <4>2, <4>3, <4>5, <5>1
      <4> QED
        BY <4>4, <4>5
    <3>2. CASE ~(i <= k0)
      <4>1. d.x[j] = IF Hits(g.col, i, 1, j)
                     THEN Append(Cleared(e.x, i, j), i)
                     ELSE Cleared(e.x, i, j)
        BY <2>6, <2>11, <3>2
      <4>2. CASE j <= k0
        <5>1. ~Hits(g.col, i, 1, j)
          <6>1. Hits(g.col, i, 1, j) => j > i
            BY <2>1, <2>9, HitsInside
          <6> QED
            BY <2>9, <3>2, <4>2, <6>1
        <5>2. Cleared(e.x, i, j) = << >>
          BY <2>2, <4>2 DEF Cleared
        <5> QED
          BY <4>1, <4>2, <5>1, <5>2
      <4>3. CASE ~(j <= k0)
        <5>1. Cleared(e.x, i, j) = Cleared(u.x, i, j)
          BY <2>2, <4>3 DEF Cleared
        <5> QED
          BY <2>7, <2>11, <4>1, <4>3, <5>1
      <4> QED
        BY <4>2, <4>3
    <3> QED
      BY <3>1, <3>2
  <2>13. d.bill = f.bill + (w.bill - g.bill) - z.bill
    <3> DEFINE A == Len(g.col[i])
               C == IF i > k0 THEN 0 ELSE Len(c[i])
    <3>1. A \in Nat /\ C \in Nat /\ C = p
      BY <2>5, <2>9
    <3>2. d.bill = e.bill + A - p /\ w.bill = u.bill + A /\ z.bill = y.bill + C
      BY <2>1, <2>2, <2>6, <2>7, <2>8
    <3>3. e.bill = f.bill + (u.bill - g.bill) - y.bill
      BY <2>2
    <3>4. f.bill \in Int /\ u.bill \in Int /\ g.bill \in Int /\ y.bill \in Int
      BY <2>1 DEF Factors, Fronts
    <3> HIDE DEF A, C
    <3>6. (f.bill + (u.bill - g.bill) - y.bill) + A - p
              = f.bill + ((u.bill + A) - g.bill) - (y.bill + p)
      <4> DEFINE f1 == f.bill
                 u1 == u.bill
                 g1 == g.bill
                 y1 == y.bill
      <4>1. /\ A \in Int /\ p \in Int /\ f1 \in Int /\ u1 \in Int
            /\ g1 \in Int /\ y1 \in Int
        BY <3>1, <3>4
      <4> HIDE DEF f1, u1, g1, y1
      <4>2. (f1 + (u1 - g1) - y1) + A - p = f1 + ((u1 + A) - g1) - (y1 + p)
        BY <4>1
      <4> QED
        BY <4>2 DEF f1, u1, g1, y1
    <3> QED
      BY <3>1, <3>2, <3>3, <3>6
  <2>14. BackAt(f, g, h, F, B, m)
    BY <2>10, <2>12, <2>13 DEF BackAt, d, w, z
  <2> QED
    BY <2>1, <2>14
<1>10. T = 0 .. n
  <2>1. T \in SUBSET (0 .. n)
    OBVIOUS
  <2> HIDE DEF T
  <2> QED
    BY <1>1, <1>8, <1>9, <2>1, Induct
<1>11. q \in T
  BY <1>10 DEF n, s
<1> QED
  BY <1>11 DEF h, s, F, B

-----------------------------------------------------------------------------
\* The rows of a lane: each row after b is one lane's, and the next of a lane
\* is n further.

LaneHas(b, n, t, k) == \E m \in Nat : k = b + t + n * m

LEMMA OneQuotient ==
  ASSUME NEW n \in Nat \ {0}, NEW c \in Int, NEW d \in Int,
         NEW r \in 1 .. n, NEW s \in 1 .. n, n * c + r = n * d + s
  PROVE  c = d /\ r = s
<1>1. n * c - n * d = n * (c - d)
  OBVIOUS
<1>2. n * (c - d) = s - r
  BY <1>1
<1>3. ASSUME NEW e \in Int, e >= 1 PROVE n * e >= n
  BY <1>3
<1>4. ASSUME NEW e \in Int, e <= -1 PROVE n * e <= -n
  BY <1>4
<1>5. ~(c - d >= 1)
  <2>1. SUFFICES ASSUME c - d >= 1 PROVE FALSE
    OBVIOUS
  <2>2. n * (c - d) >= n
    BY <1>3, <2>1
  <2> QED
    BY <1>2, <2>2
<1>6. ~(c - d <= -1)
  <2>1. SUFFICES ASSUME c - d <= -1 PROVE FALSE
    OBVIOUS
  <2>2. n * (c - d) <= -n
    BY <1>4, <2>1
  <2> QED
    BY <1>2, <2>2
<1>7. c = d
  BY <1>5, <1>6
<1> QED
  BY <1>7

LEMMA LaneAfter ==
  ASSUME NEW b \in Int, NEW n \in Nat \ {0}, NEW t \in 1 .. n, NEW k,
         LaneHas(b, n, t, k)
  PROVE  k \in Int /\ k > b /\ LaneHas(b, n, t, k + n)
<1>1. PICK m \in Nat : k = b + t + n * m
  BY DEF LaneHas
<1>2. n * m \in Nat /\ n * (m + 1) = n * m + n /\ m + 1 \in Nat
  OBVIOUS
<1>3. k + n = b + t + n * (m + 1)
  BY <1>1, <1>2
<1>4. k \in Int /\ k > b
  BY <1>1, <1>2
<1> QED
  BY <1>2, <1>3, <1>4 DEF LaneHas

LEMMA LaneFirst ==
  ASSUME NEW b \in Int, NEW n \in Nat \ {0}, NEW t \in 1 .. n
  PROVE  LaneHas(b, n, t, b + t)
<1>1. n * 0 = 0 /\ b + t = b + t + 0
  OBVIOUS
<1> QED
  BY <1>1 DEF LaneHas

LEMMA LaneOne ==
  ASSUME NEW b \in Int, NEW n \in Nat \ {0}, NEW t \in 1 .. n, NEW u \in 1 .. n,
         NEW k, LaneHas(b, n, t, k), LaneHas(b, n, u, k)
  PROVE  t = u
<1>1. PICK c \in Nat : k = b + t + n * c
  BY DEF LaneHas
<1>2. PICK d \in Nat : k = b + u + n * d
  BY DEF LaneHas
<1>3. n * c \in Int /\ n * d \in Int
  OBVIOUS
<1>4. n * c + t = n * d + u
  BY <1>1, <1>2, <1>3
<1> QED
  BY <1>4, OneQuotient

LEMMA LaneNext ==
  ASSUME NEW b \in Int, NEW n \in Nat \ {0}, NEW t \in 1 .. n, NEW k, NEW j,
         LaneHas(b, n, t, k), LaneHas(b, n, t, j), k <= j, j < k + n
  PROVE  j = k
<1>1. PICK c \in Nat : k = b + t + n * c
  BY DEF LaneHas
<1>2. PICK d \in Nat : j = b + t + n * d
  BY DEF LaneHas
<1> DEFINE r == j - k + 1
<1>3. n * c \in Int /\ n * d \in Int
  OBVIOUS
<1>4. r \in 1 .. n /\ 1 \in 1 .. n
  BY <1>1, <1>2, <1>3
<1>5. n * c + r = n * d + 1
  BY <1>1, <1>2, <1>3
<1>6. r = 1
  <2> HIDE DEF r
  <2> QED
    BY <1>4, <1>5, OneQuotient
<1> QED
  BY <1>1, <1>2, <1>3, <1>6

LEMMA LaneAll ==
  ASSUME NEW b \in Int, NEW n \in Nat \ {0}, NEW k \in Int, k > b
  PROVE  \E t \in 1 .. n : LaneHas(b, n, t, k)
<1> DEFINE e == k - b - 1
           T == {d \in 0 .. e : \E t \in 1 .. n : LaneHas(b, n, t, b + 1 + d)}
<1>1. e \in Nat
  OBVIOUS
<1>2. 0 \in T
  <2>1. 1 \in 1 .. n /\ b + 1 + 0 = b + 1 /\ 0 \in 0 .. e
    BY <1>1
  <2> QED
    BY <2>1, LaneFirst
<1>3. ASSUME NEW d \in 1 .. e, d - 1 \in T PROVE d \in T
  <2>1. PICK t \in 1 .. n : LaneHas(b, n, t, b + 1 + (d - 1))
    BY <1>3
  <2>2. PICK m \in Nat : b + 1 + (d - 1) = b + t + n * m
    BY <2>1 DEF LaneHas
  <2>3. n * m \in Nat /\ n * (m + 1) = n * m + n /\ m + 1 \in Nat
    OBVIOUS
  <2>4. CASE t < n
    <3>1. b + 1 + d = b + (t + 1) + n * m /\ t + 1 \in 1 .. n /\ d \in 0 .. e
      BY <1>1, <2>2, <2>3, <2>4
    <3> QED
      BY <3>1 DEF LaneHas
  <2>5. CASE t = n
    <3>1. b + 1 + d = b + 1 + n * (m + 1) /\ 1 \in 1 .. n /\ d \in 0 .. e
      BY <1>1, <2>2, <2>3, <2>5
    <3>2. LaneHas(b, n, 1, b + 1 + d)
      BY <2>3, <3>1 DEF LaneHas
    <3> QED
      BY <3>1, <3>2
  <2> QED
    BY <2>4, <2>5
<1>4. T = 0 .. e
  <2>1. T \in SUBSET (0 .. e)
    OBVIOUS
  <2> HIDE DEF T, e
  <2> QED
    BY <1>1, <1>2, <1>3, <2>1, Induct
<1>5. e \in T /\ b + 1 + e = k
  <2>1. e \in 0 .. e
    BY <1>1
  <2>2. b + 1 + e = k
    OBVIOUS
  <2> HIDE DEF T, e
  <2> QED
    BY <1>4, <2>1, <2>2
<1> QED
  BY <1>5

-----------------------------------------------------------------------------
\* Bills of rows in any order.

LEMMA SumsRest ==
  ASSUME NEW s \in Seq(Int), NEW m \in Nat, NEW n \in Nat, m <= n, n <= Len(s),
         \A q \in m + 1 .. n : s[q] = 0
  PROVE  Sums(s)[n] = Sums(s)[m]
<1> DEFINE A == Sums(s)
           e == n - m
           T == {d \in 0 .. e : A[m + d] = A[m]}
<1>1. A \in [0 .. Len(s) -> Int] /\ \A q \in 1 .. Len(s) : A[q] = A[q - 1] + s[q]
  BY SumsIs
<1> HIDE DEF A
<1>2. e \in Nat /\ 0 \in T
  <2>1. m + 0 = m /\ e \in Nat
    OBVIOUS
  <2> QED
    BY <2>1
<1>3. ASSUME NEW d \in 1 .. e, d - 1 \in T PROVE d \in T
  <2>1. /\ m + d \in 1 .. Len(s) /\ m + d \in m + 1 .. n /\ d \in 0 .. e
        /\ (m + d) - 1 = m + (d - 1) /\ m + (d - 1) \in 0 .. Len(s)
    BY <1>2
  <2>2. A[m + (d - 1)] = A[m] /\ A[m + (d - 1)] \in Int
    BY <1>1, <1>3, <2>1
  <2>3. s[m + d] = 0 /\ A[m + d] = A[(m + d) - 1] + s[m + d]
    BY <1>1, <2>1
  <2>4. A[m + d] = A[m]
    BY <2>1, <2>2, <2>3
  <2> QED
    BY <2>1, <2>4
<1>4. T = 0 .. e
  <2>1. T \in SUBSET (0 .. e)
    OBVIOUS
  <2> HIDE DEF T, e
  <2> QED
    BY <1>2, <1>3, <2>1, Induct
<1>5. e \in T /\ m + e = n
  <2>1. e \in 0 .. e /\ m + e = n
    BY <1>2
  <2> HIDE DEF T, e
  <2> QED
    BY <1>4, <2>1
<1> QED
  BY <1>5 DEF A

LEMMA BillsType ==
  ASSUME NEW s \in [V -> Int] PROVE s \in Seq(Int) /\ Len(s) = N
<1>1. s \in [1 .. N -> Int] /\ N \in Nat
  BY OrderAssumption DEF V
<1> QED
  BY <1>1, SeqDef, LenProperties

\* What is billed for one row more.
LEMMA TotalWith ==
  ASSUME NEW s \in [V -> Int], NEW t \in [V -> Int], NEW k \in V, s[k] = 0,
         t[k] \in Int, \A j \in V : j # k => t[j] = s[j]
  PROVE  Total(t) = Total(s) + t[k]
<1> DEFINE A == Sums(s)
           B == Sums(t)
           T == {m \in 0 .. N : B[m] = IF m >= k THEN A[m] + t[k] ELSE A[m]}
<1>1. /\ s \in Seq(Int) /\ Len(s) = N /\ t \in Seq(Int) /\ Len(t) = N
      /\ N \in Nat /\ V = 1 .. N
  BY BillsType, OrderAssumption DEF V
<1>2. /\ A \in [0 .. N -> Int] /\ A[0] = 0
      /\ \A q \in 1 .. N : A[q] = A[q - 1] + s[q]
      /\ B \in [0 .. N -> Int] /\ B[0] = 0
      /\ \A q \in 1 .. N : B[q] = B[q - 1] + t[q]
  BY <1>1, SumsIs
<1> HIDE DEF A, B
<1>3. 0 \in T
  BY <1>1, <1>2
<1>4. ASSUME NEW m \in 1 .. N, m - 1 \in T PROVE m \in T
  <2>1. /\ m \in 0 .. N /\ m - 1 \in 0 .. N /\ m \in V /\ k \in Int
        /\ A[m - 1] \in Int /\ s[m] \in Int /\ t[k] \in Int
    <3>1. m \in 0 .. N /\ m - 1 \in 0 .. N /\ m \in V /\ k \in Int
      <4>1. k \in 1 .. N
        BY <1>1
      <4> QED
        BY <1>1, <4>1
    <3>2. A[m - 1] \in Int
      BY <1>2, <3>1
    <3> QED
      BY <3>1, <3>2
  <2>2. B[m - 1] = IF m - 1 >= k THEN A[m - 1] + t[k] ELSE A[m - 1]
    BY <1>4
  <2>3. A[m] = A[m - 1] + s[m] /\ B[m] = B[m - 1] + t[m]
    BY <1>2
  <2>4. CASE m = k
    <3>1. B[m - 1] = A[m - 1] /\ s[m] = 0 /\ t[m] = t[k]
      BY <2>1, <2>2, <2>4
    <3>2. B[m] = A[m] + t[k]
      BY <2>1, <2>3, <3>1
    <3> QED
      BY <2>1, <2>4, <3>2
  <2>5. CASE m # k
    <3>1. t[m] = s[m] /\ (m - 1 >= k <=> m >= k)
      BY <1>1, <2>1, <2>5
    <3>2. CASE m >= k
      <4>1. B[m] = (A[m - 1] + t[k]) + s[m]
        BY <2>2, <2>3, <3>1, <3>2
      <4>2. (A[m - 1] + t[k]) + s[m] = (A[m - 1] + s[m]) + t[k]
        BY <2>1
      <4> QED
        BY <2>1, <2>3, <3>2, <4>1, <4>2
    <3>3. CASE ~(m >= k)
      BY <2>1, <2>2, <2>3, <3>1, <3>3
    <3> QED
      BY <3>2, <3>3
  <2> QED
    BY <2>4, <2>5
<1>5. T = 0 .. N
  <2>1. T \in SUBSET (0 .. N)
    OBVIOUS
  <2> HIDE DEF T
  <2> QED
    BY <1>1, <1>3, <1>4, <2>1, Induct
<1>6. N \in T /\ N >= k
  <2>1. N \in 0 .. N /\ N >= k
    BY <1>1
  <2> HIDE DEF T
  <2> QED
    BY <1>5, <2>1
<1> QED
  BY <1>1, <1>6 DEF A, B, Total

-----------------------------------------------------------------------------
\* A block.

One(a) == RowsAfter(a, Unfactored, 0)
FrontFor(c, b, a, k) == FrontRow(c, b, Blank, ReachOf(a, k), k)

\* A row that its front has begun is ended as on one thread.
LEMMA BackOfIs ==
  ASSUME NEW a, Analysed(a), k0 \in 0 .. N, NEW k \in k0 + 1 .. N,
         NEW f \in Factors, f.x = Blank, f.col = One(a)[k - 1].col,
         front[k] = FrontFor(One(a)[k0].col, k0, a, k).row
  PROVE  LET d == BackOf(f, k)
         IN  /\ d \in Factors /\ d.x = Blank /\ d.col = One(a)[k].col
             /\ d.bill = f.bill + (One(a)[k].bill - One(a)[k - 1].bill)
                             - FrontFor(One(a)[k0].col, k0, a, k).bill
<1> DEFINE g == One(a)[k - 1]
           c == One(a)[k0].col
           s == ReachOf(a, k)
           n == Len(s)
           h == RowSteps(g, s, k)
           F == FrontSteps(c, k0, Blank, s)
           r == front[k]
           o == FrontFor(c, k0, a, k)
           B == BackSteps(f, r, k)
<1>1. /\ N \in Nat /\ V = 1 .. N /\ k \in V /\ k0 \in Nat /\ k0 < k
      /\ k - 1 \in 0 .. N /\ k \in 0 .. N /\ k - 1 \in k0 .. N
  BY OrderAssumption DEF V
<1>2. /\ OneAt(a, g, k - 1) /\ OneAt(a, One(a)[k0], k0)
      /\ OneAt(a, One(a)[k], k)
  BY <1>1, OneIs DEF One
<1>3. Grown(c, g.col, k0)
  BY <1>1, OneGrown DEF One
<1>4. One(a)[k] = RowOf(a, g, k)
  <2>1. Unfactored \in Factors /\ 0 \in 0 .. N
    BY <1>1 DEF Unfactored, Factors, Gathered, Columns, Blank
  <2>2. \A q \in 1 .. N - 0 :
            RowsAfter(a, Unfactored, 0)[q]
                = RowOf(a, RowsAfter(a, Unfactored, 0)[q - 1], 0 + q)
    BY <2>1, RowsAfterIs
  <2>3. k \in 1 .. N - 0 /\ 0 + k = k
    BY <1>1
  <2> QED
    BY <2>2, <2>3 DEF One
<1>5. RowOf(a, g, k) = h[n]
  BY DEF RowOf
<1>6. /\ g \in Factors /\ GoodCols(a, g.col, k - 1) /\ g.x = Blank
      /\ c \in Columns /\ GoodCols(a, c, k0)
  BY <1>2 DEF OneAt, Factors
<1> HIDE DEF g, c
<1>7. /\ o.x = Blank /\ o.bill = F[n].bill /\ IsFronted(o.row)
      /\ o.row.x = Blank /\ o.row.s = s
  BY <1>1, <1>3, <1>6, FrontRowIs DEF FrontFor
<1>8. r = o.row
  BY DEF c
<1>9. Loaded(f, r, k) = f
  <2>1. /\ f = [x |-> f.x, col |-> f.col, bill |-> f.bill]
        /\ \A j \in V : f.x[j] = << >>
    BY DEF Factors, Blank
  <2>2. \A j \in V : r.x[j] = << >>
    BY <1>7, <1>8 DEF Blank
  <2>3. [j \in V |-> IF Inside(k0, j, k) THEN r.x[j] ELSE f.x[j]] = Blank
    BY <2>1, <2>2 DEF Blank
  <2>4. Loaded(f, r, k) = [f EXCEPT !.x = Blank]
    BY <2>3 DEF Loaded
  <2> QED
    BY <2>1, <2>4
<1>10. BackOf(f, k) = B[n]
  <2>1. r.s = s
    BY <1>7, <1>8
  <2>2. BackOf(f, k) = BackSteps(Loaded(f, r, k), r, k)[Len(r.s)]
    BY DEF BackOf
  <2> QED
    BY <1>9, <2>1, <2>2
<1>11. BackAt(f, g, h, F, B, n)
  <2>1. n \in 0 .. n
    <3>1. n \in Nat
      BY <1>1, ReachOfType
    <3> QED
      BY <3>1
  <2>2. f.col = g.col
    BY DEF g
  <2>3. r = FrontRow(c, k0, Blank, s, k).row
    BY <1>8 DEF FrontFor
  <2> HIDE DEF r
  <2> QED
    BY <1>1, <1>3, <1>6, <2>1, <2>2, <2>3, BackFollows
<1>12. B[n] \in Factors
  <2>1. n \in 0 .. n /\ r.s = s /\ IsFronted(r)
    <3>1. n \in Nat
      BY <1>1, ReachOfType
    <3> QED
      BY <1>7, <1>8, <3>1
  <2> HIDE DEF r, s
  <2>2. B \in [0 .. Len(r.s) -> Factors]
    BY <1>1, <2>1, BackStepsIs
  <2> QED
    BY <2>1, <2>2
<1>13. h[n].x = Blank
  BY <1>2, <1>4, <1>5 DEF OneAt
<1> HIDE DEF B, h, n, F, o, r
<1>14. B[n].x = Blank
  <2>1. B[n].x \in [V -> Seq(V)]
    BY <1>12 DEF Factors, Gathered
  <2>2. \A j \in V : B[n].x[j] = << >>
    BY <1>11, <1>13 DEF BackAt, Blank
  <2> QED
    BY <2>1, <2>2 DEF Blank
<1>15. B[n].col = h[n].col /\ B[n].bill = f.bill + (h[n].bill - g.bill) - o.bill
  BY <1>7, <1>11 DEF BackAt
<1> QED
  BY <1>4, <1>5, <1>10, <1>12, <1>14, <1>15 DEF g, c, o

\* The fronts of a block are those of its rows.
Fronted(a) ==
    \A k \in k0 + 1 .. k1 :
        front[k] = FrontFor(One(a)[k0].col, k0, a, k).row

LEMMA FrontForIs ==
  ASSUME NEW a, Analysed(a), NEW b \in 0 .. N, NEW k \in b + 1 .. N
  PROVE  LET o == FrontFor(One(a)[b].col, b, a, k)
         IN  /\ IsFronted(o.row) /\ o.row.x = Blank /\ o.x = Blank
             /\ o.bill \in Int
<1> DEFINE g == One(a)[k - 1]
           c == One(a)[b].col
           s == ReachOf(a, k)
           F == FrontSteps(c, b, Blank, s)
           o == FrontFor(c, b, a, k)
<1>1. /\ N \in Nat /\ V = 1 .. N /\ k \in V /\ b \in Nat /\ b < k
      /\ k - 1 \in 0 .. N /\ k - 1 \in b .. N /\ b \in Int
  BY OrderAssumption DEF V
<1>2. OneAt(a, g, k - 1) /\ OneAt(a, One(a)[b], b)
  BY <1>1, OneIs DEF One
<1>3. Grown(c, g.col, b)
  BY <1>1, OneGrown DEF One
<1>6. /\ g \in Factors /\ GoodCols(a, g.col, k - 1) /\ g.x = Blank
      /\ c \in Columns /\ GoodCols(a, c, b)
  BY <1>2 DEF OneAt, Factors
<1> HIDE DEF g, c
<1>7. /\ o.x = Blank /\ o.bill = F[Len(s)].bill /\ IsFronted(o.row)
      /\ o.row.x = Blank
  BY <1>1, <1>3, <1>6, FrontRowIs DEF FrontFor
<1>8. s \in Seq(V) /\ Len(s) \in 0 .. Len(s) /\ Blank \in Gathered
  <2>1. s \in Seq(V) /\ Len(s) \in Nat
    BY <1>1, ReachOfType
  <2> HIDE DEF s
  <2> QED
    BY <2>1 DEF Blank, Gathered
<1> HIDE DEF s
<1>9. F \in [0 .. Len(s) -> Fronts]
  BY <1>1, <1>6, <1>8, FrontStepsIs
<1> HIDE DEF F
<1>10. F[Len(s)].bill \in Int
  BY <1>8, <1>9 DEF Fronts
<1> QED
  BY <1>7, <1>10 DEF c, o

LEMMA BackAfterIs ==
  ASSUME NEW a, Analysed(a), k0 \in 0 .. N, k1 \in k0 .. N, Fronted(a),
         NEW f \in Factors
  PROVE  LET h == BackAfter(f, k0)
         IN  /\ h \in [0 .. k1 - k0 -> Factors] /\ h[0] = f
             /\ \A q \in 1 .. k1 - k0 : h[q] = BackOf(h[q - 1], k0 + q)
<1> DEFINE n == k1 - k0
           T == Factors
           start == f
           Next1(b, q) == BackOf(b, k0 + q)
           step == [q \in 1 .. n |-> [b \in T |-> Next1(b, q)]]
           Def(fn) == fn = [q \in 0 .. n |-> IF q = 0 THEN start
                                           ELSE Next1(fn[q - 1], q)]
           h == BackAfter(f, k0)
<1>1. n \in Nat /\ start \in T
  BY OrderAssumption
<1>2. h = CHOOSE fn : Def(fn)
  BY DEF BackAfter
<1>3. ASSUME NEW q \in 1 .. n, NEW b \in T PROVE Next1(b, q) \in T
  <2> DEFINE k == k0 + q
             r == front[k]
             o == FrontFor(One(a)[k0].col, k0, a, k)
  <2>1. k \in k0 + 1 .. k1 /\ k \in k0 + 1 .. N /\ k \in V /\ k0 \in Int
    BY OrderAssumption DEF V
  <2>2. IsFronted(o.row) /\ o.row.x = Blank
    BY <2>1, FrontForIs
  <2>3. r = o.row
    BY <2>1 DEF Fronted
  <2> HIDE DEF o, r, k
  <2>4. Loaded(b, r, k) \in Factors
    <3>1. \A j \in V : r.x[j] = << >> /\ << >> \in Seq(V)
      BY <2>2, <2>3 DEF Blank
    <3>2. b = [x |-> b.x, col |-> b.col, bill |-> b.bill] /\ b.x \in Gathered
            /\ b.col \in Columns /\ b.bill \in Int
      BY DEF Factors
    <3> DEFINE y == [j \in V |-> IF Inside(k0, j, k) THEN r.x[j] ELSE b.x[j]]
    <3>3. y \in Gathered
      BY <3>1, <3>2 DEF Gathered
    <3>4. Loaded(b, r, k) = [b EXCEPT !.x = y]
      BY DEF Loaded
    <3> HIDE DEF y
    <3>5. Loaded(b, r, k) = [x |-> y, col |-> b.col, bill |-> b.bill]
      BY <3>2, <3>4
    <3> QED
      BY <3>2, <3>3, <3>5 DEF Factors
  <2>5. Len(r.s) \in 0 .. Len(r.s) /\ IsFronted(r)
    BY <2>2, <2>3 DEF IsFronted
  <2>6. BackSteps(Loaded(b, r, k), r, k) \in [0 .. Len(r.s) -> Factors]
    BY <2>1, <2>4, <2>5, BackStepsIs
  <2>7. BackOf(b, k) = BackSteps(Loaded(b, r, k), r, k)[Len(r.s)]
    BY DEF BackOf, r
  <2>8. BackOf(b, k) \in Factors
    BY <2>5, <2>6, <2>7
  <2> QED
    BY <2>8 DEF k
<1> HIDE DEF n, T, Next1, h, start
<1>4. step \in [1 .. n -> [T -> T]]
  BY <1>3
<1>5. \E fn : Def(fn)
  <2>1. PICK fn : IsLoop(fn, n, T, start, step)
    <3> HIDE DEF step
    <3> QED
      BY <1>1, <1>4, Loop
  <2>2. ASSUME NEW q \in 1 .. n
        PROVE  q - 1 \in 0 .. n /\ fn[q] = Next1(fn[q - 1], q)
    <3>1. q - 1 \in 0 .. n
      BY <1>1
    <3>2. fn[q - 1] \in T /\ fn[q] = step[q][fn[q - 1]]
      BY <2>1, <3>1 DEF IsLoop
    <3>3. step[q][fn[q - 1]] = Next1(fn[q - 1], q)
      BY <3>2
    <3> QED
      BY <3>1, <3>2, <3>3
  <2> QED
    BY <1>1, <2>1, <2>2 DEF IsLoop
<1>6. Def(h)
  <2> HIDE DEF Def
  <2> QED
    BY <1>2, <1>5
<1>7. /\ h = [q \in 0 .. n |-> h[q]] /\ h[0] = start
      /\ \A q \in 1 .. n : h[q] = Next1(h[q - 1], q)
  <2>1. 0 \in 0 .. n /\ \A q \in 1 .. n : q \in 0 .. n /\ q # 0
    BY <1>1
  <2>2. \A q \in 0 .. n : h[q] = IF q = 0 THEN start ELSE Next1(h[q - 1], q)
    BY <1>6
  <2>3. h = [q \in 0 .. n |-> h[q]]
    BY <1>6, <2>2
  <2> QED
    BY <2>1, <2>2, <2>3
<1> HIDE DEF Def
<1>8. \A q \in 1 .. n : h[q - 1] \in T => h[q] \in T
  BY <1>3, <1>7
<1>9. h \in [0 .. n -> T]
  BY <1>1, <1>7, <1>8, LoopStays
<1> QED
  BY <1>7, <1>9 DEF n, T, Next1, h, start

\* What the fronts that are done have billed.
Bills(b, a, done) ==
    [k \in V |-> IF k \in done THEN FrontFor(One(a)[b].col, b, a, k).bill
                 ELSE 0]

\* A block on lanes ends where one thread ends.
LEMMA BlockIs ==
  ASSUME NEW a, Analysed(a), k0 \in 0 .. N, k1 \in k0 .. N, Fronted(a),
         NEW f \in Factors, f.x = Blank, f.col = One(a)[k0].col,
         f.bill = One(a)[k0].bill + Total(Bills(k0, a, k0 + 1 .. k1))
  PROVE  BackAfter(f, k0)[k1 - k0] = One(a)[k1]
<1> DEFINE n == k1 - k0
           w == Bills(k0, a, k0 + 1 .. k1)
           t == Sums(w)
           g == One(a)
           h == BackAfter(f, k0)
           o(k) == FrontFor(g[k0].col, k0, a, k)
           Good(q) == /\ h[q].x = Blank /\ h[q].col = g[k0 + q].col
                      /\ h[q].bill = f.bill + (g[k0 + q].bill - g[k0].bill)
                                        - t[k0 + q]
           T == {q \in 0 .. n : Good(q)}
<1>1. /\ N \in Nat /\ V = 1 .. N /\ n \in Nat /\ k0 \in Nat /\ k1 \in Nat
      /\ k0 <= k1 /\ k1 <= N
  BY OrderAssumption DEF V
<1>2. /\ h \in [0 .. n -> Factors] /\ h[0] = f
      /\ \A q \in 1 .. n : h[q] = BackOf(h[q - 1], k0 + q)
  BY BackAfterIs
<1>3. \A k \in k0 + 1 .. k1 : k \in k0 + 1 .. N /\ k \in V /\ o(k).bill \in Int
  <2> SUFFICES ASSUME NEW k \in k0 + 1 .. k1
               PROVE  k \in k0 + 1 .. N /\ k \in V /\ o(k).bill \in Int
    OBVIOUS
  <2>1. k \in k0 + 1 .. N /\ k \in V
    BY <1>1
  <2>2. FrontFor(One(a)[k0].col, k0, a, k).bill \in Int
    BY <2>1, FrontForIs
  <2> QED
    BY <2>1, <2>2
<1>4. \A k \in 0 .. N : OneAt(a, g[k], k) /\ g[k].bill \in Int
  BY OneIs DEF One, OneAt, Factors
<1> HIDE DEF h, g
<1>5. /\ w \in [V -> Int]
      /\ \A k \in k0 + 1 .. k1 : w[k] = o(k).bill
      /\ \A k \in V : k \notin k0 + 1 .. k1 => w[k] = 0
  BY <1>3 DEF Bills, g
<1> HIDE DEF w, o
<1>6. w \in Seq(Int) /\ Len(w) = N
  BY <1>5, BillsType
<1>7. /\ t \in [0 .. N -> Int] /\ t[0] = 0
      /\ \A q \in 1 .. N : t[q] = t[q - 1] + w[q]
  BY <1>6, SumsIs
<1>8. t[k0] = 0
  <2>1. \A q \in 0 + 1 .. k0 : w[q] = 0
    BY <1>1, <1>5
  <2>2. Sums(w)[k0] = Sums(w)[0]
    BY <1>1, <1>6, <2>1, SumsRest
  <2> QED
    BY <1>7, <2>2
<1>9. t[k1] = Total(w)
  <2>1. \A q \in k1 + 1 .. N : w[q] = 0
    BY <1>1, <1>5
  <2>2. Sums(w)[N] = Sums(w)[k1]
    BY <1>1, <1>6, <2>1, SumsRest
  <2> QED
    BY <1>6, <2>2 DEF Total
<1> HIDE DEF t, n
<1>10. 0 \in T
  <2>1. k0 + 0 = k0 /\ g[k0].bill \in Int /\ f.bill \in Int /\ k0 \in 0 .. N
    BY <1>1, <1>4 DEF Factors
  <2>2. f.bill = f.bill + (g[k0].bill - g[k0].bill) - 0
    BY <2>1
  <2>3. Good(0)
    BY <1>2, <1>8, <2>1, <2>2 DEF g
  <2> QED
    BY <1>1, <2>3
<1>11. ASSUME NEW q \in 1 .. n, q - 1 \in T PROVE q \in T
  <2> DEFINE k == k0 + q
             e == h[q - 1]
  <2>1. /\ q \in 0 .. n /\ k \in k0 + 1 .. k1 /\ k - 1 = k0 + (q - 1)
        /\ k \in 0 .. N /\ k - 1 \in 0 .. N /\ k \in 1 .. N /\ q - 1 \in 0 .. n
        /\ k \in k0 + 1 .. N
    BY <1>1 DEF n
  <2>2. /\ e \in Factors /\ e.x = Blank /\ e.col = g[k - 1].col
        /\ e.bill = f.bill + (g[k - 1].bill - g[k0].bill) - t[k - 1]
    BY <1>2, <1>11, <2>1
  <2>3. h[q] = BackOf(e, k)
    BY <1>2
  <2>4. front[k] = FrontFor(One(a)[k0].col, k0, a, k).row
    BY <2>1 DEF Fronted
  <2> HIDE DEF k, e
  <2>5. LET d == BackOf(e, k)
        IN  /\ d \in Factors /\ d.x = Blank /\ d.col = One(a)[k].col
            /\ d.bill = e.bill + (One(a)[k].bill - One(a)[k - 1].bill)
                            - FrontFor(One(a)[k0].col, k0, a, k).bill
    BY <2>1, <2>2, <2>4, BackOfIs DEF g
  <2>6. /\ h[q].x = Blank /\ h[q].col = g[k].col
        /\ h[q].bill = e.bill + (g[k].bill - g[k - 1].bill) - o(k).bill
    BY <2>3, <2>5 DEF g, o
  <2>7. t[k] = t[k - 1] + o(k).bill
    BY <1>5, <1>7, <2>1
  <2>8. h[q].bill = f.bill + (g[k].bill - g[k0].bill) - t[k]
    <3> DEFINE A == f.bill
               B == g[k].bill
               C == g[k - 1].bill
               D == g[k0].bill
               E == t[k - 1]
               G == o(k).bill
    <3>1. /\ A \in Int /\ B \in Int /\ C \in Int /\ D \in Int /\ E \in Int
          /\ G \in Int
      <4>1. k0 \in 0 .. N
        OBVIOUS
      <4> QED
        BY <1>3, <1>4, <1>7, <2>1, <4>1 DEF Factors
    <3> HIDE DEF A, B, C, D, E, G
    <3>2. (A + (C - D) - E) + (B - C) - G = A + (B - D) - (E + G)
      BY <3>1
    <3>3. h[q].bill = (A + (C - D) - E) + (B - C) - G
      BY <2>2, <2>6 DEF A, B, C, D, E, G
    <3>4. t[k] = E + G
      BY <2>7 DEF E, G
    <3> QED
      BY <3>2, <3>3, <3>4 DEF A, B, D
  <2>9. Good(q)
    BY <2>6, <2>8 DEF k
  <2> QED
    BY <2>1, <2>9
<1>12. T = 0 .. n
  <2>1. T \in SUBSET (0 .. n)
    OBVIOUS
  <2> HIDE DEF T
  <2> QED
    BY <1>1, <1>10, <1>11, <2>1, Induct
<1>13. Good(n) /\ k0 + n = k1
  <2>1. n \in 0 .. n
    BY <1>1
  <2>2. k0 + n = k1
    BY <1>1 DEF n
  <2> QED
    BY <1>12, <2>1, <2>2
<1>14. h[n] \in Factors /\ k1 \in 0 .. N /\ k0 \in 0 .. N
  BY <1>1, <1>2
<1>15. h[n].bill = g[k1].bill
  <2> DEFINE A == g[k0].bill
             B == g[k1].bill
             C == Total(w)
  <2>1. A \in Int /\ B \in Int /\ C \in Int
    BY <1>4, <1>6, <1>14, TotalType
  <2>2. h[n].bill = (A + C) + (B - A) - C
    BY <1>9, <1>13 DEF g, w
  <2> HIDE DEF A, B, C
  <2>3. (A + C) + (B - A) - C = B
    BY <2>1
  <2> QED
    BY <2>2, <2>3 DEF B
<1>16. g[k1] \in Factors /\ g[k1].x = Blank
  BY <1>4, <1>14 DEF OneAt
<1>17. h[n] = g[k1]
  BY <1>13, <1>14, <1>15, <1>16 DEF Factors
<1> QED
  BY <1>17 DEF h, g, n

-----------------------------------------------------------------------------
\* The lanes of a block: b rows done before it, its last row e, n lanes l,
\* their fronts f, the work billed and the lane p that the caller is at.

Covered(b, e, n, l) ==
    {k \in b + 1 .. e : \E t \in 1 .. n : LaneHas(b, n, t, k) /\ k < l[t].row}

LanesGood(a, b, e, n, l, f, bill, p) ==
    /\ \A t \in 1 .. n : LaneHas(b, n, t, l[t].row)
    /\ f = [k \in V |-> f[k]]
    /\ \A k \in Covered(b, e, n, l) :
          f[k] = FrontFor(One(a)[b].col, b, a, k).row
    /\ bill = One(a)[b].bill + Total(Bills(b, a, Covered(b, e, n, l)))
    /\ p \in 1 .. n + 1
    /\ \A t \in 1 .. n : t < p => l[t].row > e \/ l[t].failed

LEMMA LaneNotBefore ==
  ASSUME NEW b \in Int, NEW n \in Nat \ {0}, NEW t \in 1 .. n, NEW k,
         LaneHas(b, n, t, k)
  PROVE  k \in Int /\ k >= b + t
<1>1. PICK m \in Nat : k = b + t + n * m
  BY DEF LaneHas
<1>2. n * m \in Nat
  OBVIOUS
<1> QED
  BY <1>1, <1>2

LEMMA BillsAre ==
  ASSUME NEW a, Analysed(a), NEW b \in 0 .. N, NEW done, done \subseteq b + 1 .. N
  PROVE  /\ Bills(b, a, done) \in [V -> Int]
         /\ One(a)[b].bill \in Int /\ Total(Bills(b, a, done)) \in Int
<1>1. \A k \in done : FrontFor(One(a)[b].col, b, a, k).bill \in Int
  <2>1. SUFFICES ASSUME NEW k \in done
                 PROVE  FrontFor(One(a)[b].col, b, a, k).bill \in Int
    OBVIOUS
  <2>2. k \in b + 1 .. N
    OBVIOUS
  <2>3. LET o == FrontFor(One(a)[b].col, b, a, k)
        IN  /\ IsFronted(o.row) /\ o.row.x = Blank /\ o.x = Blank
            /\ o.bill \in Int
    BY <2>2, FrontForIs
  <2> QED
    BY <2>3
<1>2. Bills(b, a, done) \in [V -> Int]
  <2> DEFINE W(k) == FrontFor(One(a)[b].col, b, a, k).bill
  <2>1. \A k \in done : W(k) \in Int
    BY <1>1
  <2>2. Bills(b, a, done) = [k \in V |-> IF k \in done THEN W(k) ELSE 0]
    BY DEF Bills
  <2> DEFINE U(k) == IF k \in done THEN W(k) ELSE 0
  <2>3. \A k \in V : U(k) \in Int
    <3>1. SUFFICES ASSUME NEW k \in V PROVE U(k) \in Int
      OBVIOUS
    <3>2. CASE k \in done
      <4>1. U(k) = W(k) /\ W(k) \in Int
        BY <2>1, <3>2
      <4> HIDE DEF U, W
      <4> QED
        BY <4>1
    <3>3. CASE k \notin done
      BY <3>3
    <3> QED
      BY <3>2, <3>3
  <2>4. Bills(b, a, done) = [k \in V |-> U(k)]
    BY <2>2
  <2> HIDE DEF U, W
  <2> QED
    BY <2>3, <2>4
<1>3. One(a)[b].bill \in Int
  BY OneIs DEF One, OneAt, Factors
<1>4. Total(Bills(b, a, done)) \in Int
  <2>1. Bills(b, a, done) \in Seq(Int)
    BY <1>2, BillsType
  <2> QED
    BY <2>1, TotalType
<1> QED
  BY <1>2, <1>3, <1>4

LEMMA LanesStart ==
  ASSUME NEW a, Analysed(a), NEW b \in 0 .. N, NEW e \in b .. N,
         NEW n \in Nat \ {0}, NEW l, \A t \in 1 .. n : l[t].row = b + t
  PROVE  LanesGood(a, b, e, n, l, [k \in V |-> << >>], One(a)[b].bill, 1)
<1>1. \A t \in 1 .. n : LaneHas(b, n, t, l[t].row)
  BY LaneFirst
<1>2. Covered(b, e, n, l) = {}
  <2>1. ASSUME NEW k \in b + 1 .. e, NEW t \in 1 .. n, LaneHas(b, n, t, k)
        PROVE  ~(k < l[t].row)
    <3>1. k >= b + t
      BY <2>1, LaneNotBefore
    <3> QED
      BY <3>1
  <2> QED
    BY <2>1 DEF Covered
<1>3. Total(Bills(b, a, {})) = 0
  <2> DEFINE w == Bills(b, a, {})
  <2>1. w \in [V -> Int] /\ \A k \in V : w[k] = 0
    BY BillsAre DEF Bills
  <2>2. N \in Nat /\ V = 1 .. N
    BY OrderAssumption DEF V
  <2> HIDE DEF w
  <2>3. w \in Seq(Int) /\ Len(w) = N
    BY <2>1, BillsType
  <2>4. \A q \in 0 + 1 .. N : w[q] = 0
    BY <2>1, <2>2
  <2>5. Sums(w)[N] = Sums(w)[0]
    BY <2>2, <2>3, <2>4, SumsRest
  <2>6. Sums(w)[0] = 0
    BY <2>3, SumsIs
  <2> QED
    BY <2>3, <2>5, <2>6 DEF Total, w
<1>4. One(a)[b].bill \in Int
  BY BillsAre
<1>5. One(a)[b].bill = One(a)[b].bill + Total(Bills(b, a, Covered(b, e, n, l)))
  BY <1>2, <1>3, <1>4
<1>6. 1 \in 1 .. n + 1 /\ \A t \in 1 .. n : ~(t < 1)
  OBVIOUS
<1> QED
  BY <1>1, <1>2, <1>5, <1>6 DEF LanesGood

\* A lane has done its next row.
LEMMA LanesRow ==
  ASSUME NEW a, Analysed(a), NEW b \in 0 .. N, NEW e \in b .. N,
         NEW n \in Nat \ {0}, NEW l, NEW f, NEW bill, NEW p,
         LanesGood(a, b, e, n, l, f, bill, p),
         NEW t \in 1 .. n, l[t].row <= e, ~l[t].failed,
         NEW m, m[t].row = l[t].row + n, \A u \in 1 .. n : u # t => m[u] = l[u]
  PROVE  LET o == FrontFor(One(a)[b].col, b, a, l[t].row)
         IN  /\ l[t].row \in b + 1 .. e
             /\ LanesGood(a, b, e, n, m, [f EXCEPT ![l[t].row] = o.row],
                          bill + o.bill, p)
<1> DEFINE k == l[t].row
           o == FrontFor(One(a)[b].col, b, a, k)
           C == Covered(b, e, n, l)
           D == Covered(b, e, n, m)
<1>1. /\ \A u \in 1 .. n : LaneHas(b, n, u, l[u].row)
      /\ f = [j \in V |-> f[j]]
      /\ \A j \in C : f[j] = FrontFor(One(a)[b].col, b, a, j).row
      /\ bill = One(a)[b].bill + Total(Bills(b, a, C))
      /\ p \in 1 .. n + 1
      /\ \A u \in 1 .. n : u < p => l[u].row > e \/ l[u].failed
  BY DEF LanesGood
<1>2. N \in Nat /\ V = 1 .. N /\ b \in Int /\ e \in Int /\ n \in Int
  BY OrderAssumption DEF V
<1>3. k \in Int /\ k > b /\ LaneHas(b, n, t, k + n)
  BY <1>1, <1>2, LaneAfter
<1>4. k \in b + 1 .. e /\ k \in V /\ k \in b + 1 .. N
  BY <1>2, <1>3
<1>5. \A u \in 1 .. n : LaneHas(b, n, u, m[u].row)
  BY <1>1, <1>3
<1>6. k \notin C
  <2>1. ASSUME NEW u \in 1 .. n, LaneHas(b, n, u, k) PROVE ~(k < l[u].row)
    <3>1. u = t
      BY <1>1, <1>2, <2>1, LaneOne
    <3> QED
      BY <1>3, <3>1
  <2> QED
    BY <2>1 DEF Covered
<1>7. D = C \cup {k}
  <2>1. ASSUME NEW j \in D PROVE j \in C \cup {k}
    <3>1. j \in b + 1 .. e
      BY DEF Covered
    <3>2. PICK u \in 1 .. n : LaneHas(b, n, u, j) /\ j < m[u].row
      BY DEF Covered
    <3>3. CASE u # t
      BY <3>1, <3>2, <3>3 DEF Covered
    <3>4. CASE u = t /\ j < k
      BY <3>1, <3>2, <3>4 DEF Covered
    <3>5. CASE u = t /\ k <= j
      <4>1. j < k + n
        BY <3>2, <3>5
      <4>2. j = k
        BY <1>1, <1>2, <3>2, <3>5, <4>1, LaneNext
      <4> QED
        BY <4>2
    <3>6. j < k \/ k <= j
      BY <1>3, <3>1
    <3> QED
      BY <3>3, <3>4, <3>5, <3>6
  <2>2. ASSUME NEW j \in C PROVE j \in D
    <3>1. j \in b + 1 .. e
      BY DEF Covered
    <3>2. PICK u \in 1 .. n : LaneHas(b, n, u, j) /\ j < l[u].row
      BY DEF Covered
    <3>3. j < m[u].row
      <4>1. CASE u # t
        BY <3>2, <4>1
      <4>2. CASE u = t
        BY <1>2, <1>3, <3>1, <3>2, <4>2
      <4> QED
        BY <4>1, <4>2
    <3> QED
      BY <3>1, <3>2, <3>3 DEF Covered
  <2>3. k \in D
    <3>1. k < m[t].row /\ LaneHas(b, n, t, k)
      BY <1>1, <1>2, <1>3
    <3> QED
      BY <1>4, <3>1 DEF Covered
  <2> QED
    BY <2>1, <2>2, <2>3
<1>8. C \subseteq b + 1 .. N /\ D \subseteq b + 1 .. N
  BY <1>2 DEF Covered
<1> HIDE DEF C, D, k, o
<1>9. Total(Bills(b, a, D)) = Total(Bills(b, a, C)) + o.bill
  <2> DEFINE s == Bills(b, a, C)
             w == Bills(b, a, D)
  <2>1. s \in [V -> Int] /\ w \in [V -> Int]
    BY <1>8, BillsAre
  <2>2. s[k] = 0 /\ w[k] = o.bill
    BY <1>4, <1>6, <1>7 DEF Bills, o
  <2>3. \A j \in V : j # k => w[j] = s[j]
    BY <1>7 DEF Bills
  <2>4. w[k] \in Int
    BY <1>4, <2>1
  <2> HIDE DEF s, w
  <2>5. Total(w) = Total(s) + w[k]
    BY <1>4, <2>1, <2>2, <2>3, <2>4, TotalWith
  <2> QED
    BY <2>2, <2>5 DEF s, w
<1>10. bill + o.bill = One(a)[b].bill + Total(Bills(b, a, D))
  <2>1. One(a)[b].bill \in Int /\ Total(Bills(b, a, C)) \in Int
    BY <1>8, BillsAre
  <2>2. o.bill \in Int
    BY <1>4, FrontForIs DEF o
  <2> QED
    BY <1>1, <1>9, <2>1, <2>2
<1> DEFINE g == [f EXCEPT ![k] = o.row]
<1>11. /\ g = [j \in V |-> g[j]] /\ g[k] = o.row
       /\ \A j \in V : j # k => g[j] = f[j]
  <2>1. f = [j \in V |-> f[j]]
    BY <1>1
  <2> QED
    BY <1>4, <2>1
<1>12. \A j \in D : g[j] = FrontFor(One(a)[b].col, b, a, j).row
  <2> SUFFICES ASSUME NEW j \in D
               PROVE  g[j] = FrontFor(One(a)[b].col, b, a, j).row
    OBVIOUS
  <2>1. CASE j = k
    BY <1>11, <2>1 DEF o
  <2>2. CASE j # k
    <3>1. j \in C /\ j \in V
      BY <1>2, <1>7, <1>8, <2>2
    <3> QED
      BY <1>1, <1>11, <2>2, <3>1
  <2> QED
    BY <2>1, <2>2
<1>13. ASSUME NEW u \in 1 .. n, u < p PROVE m[u].row > e \/ m[u].failed
  <2>1. l[u].row > e \/ l[u].failed
    BY <1>1, <1>13
  <2>2. u # t
    BY <1>2, <1>3, <2>1 DEF k
  <2> QED
    BY <2>1, <2>2
<1> HIDE DEF g
<1>14. LanesGood(a, b, e, n, m, g, bill + o.bill, p)
  BY <1>1, <1>5, <1>10, <1>11, <1>12, <1>13 DEF LanesGood, D
<1> QED
  BY <1>4, <1>14 DEF g, o, k

\* When no lane has failed and all have ended, the whole block is done.
LEMMA LanesEnd ==
  ASSUME NEW b \in Int, NEW e \in Int, NEW n \in Nat \ {0}, NEW l,
         \A t \in 1 .. n : l[t].row \in Int /\ l[t].row > e
  PROVE  Covered(b, e, n, l) = b + 1 .. e
<1> SUFFICES ASSUME NEW k \in b + 1 .. e
             PROVE  \E t \in 1 .. n : LaneHas(b, n, t, k) /\ k < l[t].row
  BY DEF Covered
<1>1. PICK t \in 1 .. n : LaneHas(b, n, t, k)
  <2>1. k \in Int /\ k > b
    OBVIOUS
  <2> QED
    BY <2>1, LaneAll
<1> QED
  BY <1>1

-----------------------------------------------------------------------------
\* The pattern of the factor.

LEMMA ListingHas ==
  ASSUME NEW S \in SUBSET V, NEW v \in S
  PROVE  \E p \in DOMAIN Ascending(S) : Ascending(S)[p] = v
<1> DEFINE L == Listing(S)
           Has(m) == \E p \in 1 .. Len(L[m]) : L[m][p] = v
           T == {m \in 0 .. N : m >= v => Has(m)}
<1>1. N \in Nat /\ V = 1 .. N /\ v \in 1 .. N
  BY OrderAssumption DEF V
<1>2. /\ L \in [0 .. N -> Seq(S)]
      /\ \A k \in V : L[k] = IF k \in S THEN Append(L[k - 1], k) ELSE L[k - 1]
  BY ListingIs
<1> HIDE DEF L
<1>3. 0 \in T
  BY <1>1
<1>4. ASSUME NEW m \in 1 .. N, m - 1 \in T PROVE m \in T
  <2> SUFFICES ASSUME m >= v PROVE Has(m)
    BY <1>1
  <2>1. m - 1 \in 0 .. N /\ m \in V /\ L[m - 1] \in Seq(S)
    <3>1. m - 1 \in 0 .. N /\ m \in V
      BY <1>1
    <3> QED
      BY <1>2, <3>1
  <2>2. CASE m = v
    <3>1. L[m] = Append(L[m - 1], v)
      BY <1>2, <2>1, <2>2
    <3> QED
      BY <2>1, <3>1
  <2>3. CASE m # v
    <3>1. PICK p \in 1 .. Len(L[m - 1]) : L[m - 1][p] = v
      BY <1>1, <1>4, <2>3
    <3>2. CASE m \in S
      <4>1. L[m] = Append(L[m - 1], m)
        BY <1>2, <2>1, <3>2
      <4>2. /\ Len(L[m]) = Len(L[m - 1]) + 1 /\ Len(L[m - 1]) \in Nat
            /\ L[m][p] = L[m - 1][p]
        BY <2>1, <3>2, <4>1
      <4>3. p \in 1 .. Len(L[m])
        BY <4>2
      <4> QED
        BY <3>1, <4>2, <4>3
    <3>3. CASE m \notin S
      BY <1>2, <2>1, <3>1, <3>3
    <3> QED
      BY <3>2, <3>3
  <2> QED
    BY <2>2, <2>3
<1>5. T = 0 .. N
  <2>1. T \in SUBSET (0 .. N)
    OBVIOUS
  <2> HIDE DEF T
  <2> QED
    BY <1>1, <1>3, <1>4, <2>1, Induct
<1>6. N \in T /\ L[N] \in Seq(S)
  BY <1>1, <1>2, <1>5
<1>7. Has(N)
  BY <1>1, <1>6
<1> QED
  BY <1>6, <1>7 DEF Ascending, L

\* An order is the vertices, each once.
IsPermuted(perm) ==
    /\ perm \in [V -> V]
    /\ \A i, j \in V : perm[i] = perm[j] => i = j
    /\ \A v \in V : \E i \in V : perm[i] = v

LEMMA OrderIs ==
  ASSUME NEW perm \in Seq(V), IsOrder(perm) PROVE IsPermuted(perm)
<1>1. /\ N \in Nat /\ V = 1 .. N /\ Len(perm) = N /\ DOMAIN perm = V
      /\ perm \in [V -> V]
  BY OrderAssumption DEF IsOrder, V
<1>2. \A v \in V : \E i \in V : perm[i] = v
  BY <1>1 DEF IsOrder, ToSet
<1>3. perm \in Surjection(V, V)
  BY <1>1, <1>2, Fun_IsSurj
<1>4. IsFiniteSet(V)
  BY <1>1, FS_Interval
<1>5. perm \in Injection(V, V)
  BY <1>3, <1>4, FS_SurjSameCardinalityImpliesInj
<1>6. \A i, j \in V : perm[i] = perm[j] => i = j
  BY <1>5, Fun_InjectionProperties
<1> QED
  BY <1>1, <1>2, <1>6 DEF IsPermuted

LEMMA PatternIs ==
  ASSUME NEW G, NEW perm, NEW i \in V, NEW k \in V, i # k
  PROVE  {i, k} \in Pattern(G, perm) <=> {perm[i], perm[k]} \in G
<1>1. Cardinality({i, k}) = 2
  <2>1. /\ IsFiniteSet({i}) /\ Cardinality({i}) = 1 /\ k \notin {i}
        /\ {i} \cup {k} = {i, k}
    BY FS_Singleton
  <2>2. Cardinality({i} \cup {k}) = Cardinality({i}) + 1
    BY <2>1, FS_AddElement
  <2> QED
    BY <2>1, <2>2
<1>2. {perm[h] : h \in {i, k}} = {perm[i], perm[k]}
  OBVIOUS
<1> QED
  BY <1>1, <1>2 DEF Pattern

\* What a row is given: the entries of the pattern left of it.
LEMMA RowsOfHas ==
  ASSUME NEW G, NEW perm, IsPermuted(perm), NEW i \in V, NEW k \in V, i < k
  PROVE  LET row == RowsOf(G, perm)[k]
         IN  (\E q \in DOMAIN row : row[q] = i)
                 <=> {perm[i], perm[k]} \in G
<1> DEFINE inv == [v \in V |-> CHOOSE j \in V : perm[j] = v]
           S(j) == {v \in Neighbours(G, perm[j]) : inv[v] \in 1 .. j - 1}
           row(j) == [p \in DOMAIN Ascending(S(j)) |-> inv[Ascending(S(j))[p]]]
           f == [j \in V |-> row(j)]
           s == S(k)
           b == Ascending(s)
<1>1. /\ N \in Nat /\ V = 1 .. N /\ perm \in [V -> V]
      /\ \A h, j \in V : perm[h] = perm[j] => h = j
  BY OrderAssumption DEF V, IsPermuted
<1>2. \A j \in V : inv[perm[j]] = j
  <2> SUFFICES ASSUME NEW j \in V PROVE inv[perm[j]] = j
    OBVIOUS
  <2> DEFINE c == CHOOSE h \in V : perm[h] = perm[j]
  <2>1. c \in V /\ perm[c] = perm[j]
    OBVIOUS
  <2>2. inv[perm[j]] = c
    BY <1>1
  <2> HIDE DEF c
  <2> QED
    BY <1>1, <2>1, <2>2
<1>3. \A v \in V : perm[inv[v]] = v
  <2> SUFFICES ASSUME NEW v \in V PROVE perm[inv[v]] = v
    OBVIOUS
  <2> DEFINE c == CHOOSE h \in V : perm[h] = v
  <2>1. c \in V /\ perm[c] = v
    BY DEF IsPermuted
  <2>2. inv[v] = c
    OBVIOUS
  <2> HIDE DEF c
  <2> QED
    BY <2>1, <2>2
<1> HIDE DEF inv
<1>4. RowsOf(G, perm) = Listed(f)
  BY DEF RowsOf, f, row, inv, S
<1>5. RowsOf(G, perm) = f
  <2>1. f \in [V -> {row(j) : j \in V}]
    OBVIOUS
  <2> HIDE DEF f, row
  <2>2. Listed(f) = f
    BY <2>1, ListedIs
  <2> QED
    BY <1>4, <2>2
<1>6. f[k] = [p \in DOMAIN b |-> inv[b[p]]]
  OBVIOUS
<1> HIDE DEF f, row
<1>7. s \in SUBSET V /\ \A v \in V : v \in s <=> {v, perm[k]} \in G /\ inv[v] \in 1 .. k - 1
  BY DEF Neighbours
<1> HIDE DEF s
<1>8. \A p \in DOMAIN b : b[p] \in s
  <2>1. b \in Seq(s)
    BY <1>7, AscendingIs
  <2> HIDE DEF b
  <2> QED
    BY <2>1
<1>9. ASSUME {perm[i], perm[k]} \in G
      PROVE  \E q \in DOMAIN f[k] : f[k][q] = i
  <2>1. i \in 1 .. k - 1
    BY <1>1
  <2>2. perm[i] \in s
    BY <1>1, <1>2, <1>7, <1>9, <2>1
  <2>3. PICK q \in DOMAIN b : b[q] = perm[i]
    BY <1>7, <2>2, ListingHas
  <2> QED
    BY <1>2, <1>6, <2>3
<1>10. ASSUME NEW q \in DOMAIN f[k], f[k][q] = i
       PROVE  {perm[i], perm[k]} \in G
  <2>1. q \in DOMAIN b /\ inv[b[q]] = i /\ b[q] \in s
    BY <1>6, <1>8, <1>10
  <2>2. b[q] = perm[i]
    BY <1>3, <1>7, <2>1
  <2> QED
    BY <1>7, <2>1, <2>2
<1> QED
  BY <1>5, <1>9, <1>10

\* What eliminating fills in.
LEMMA FillingLoop ==
  ASSUME NEW G, NEW perm
  PROVE  LET h == Filling(G, perm)
         IN  /\ h \in [0 .. N -> SUBSET SUBSET V] /\ h[0] = Pattern(G, perm)
             /\ \A q \in 1 .. N : h[q] = h[q - 1] \cup {e \in SUBSET (Neighbours(h[q - 1], q) \cap q + 1 .. N) : Cardinality(e) = 2}
<1> DEFINE n == N
           T == SUBSET SUBSET V
           start == Pattern(G, perm)
           Next1(b, q) == b \cup {e \in SUBSET (Neighbours(b, q) \cap q + 1 .. N) : Cardinality(e) = 2}
           step == [q \in 1 .. n |-> [b \in T |-> Next1(b, q)]]
           Def(f) == f = [q \in 0 .. n |-> IF q = 0 THEN start
                                           ELSE Next1(f[q - 1], q)]
           h == Filling(G, perm)
<1>1. n \in Nat /\ start \in T
  BY OrderAssumption DEF Pattern
<1>2. h = CHOOSE f : Def(f)
  BY DEF Filling
<1>3. ASSUME NEW q \in 1 .. n, NEW b \in T PROVE Next1(b, q) \in T
  BY DEF Neighbours
<1> HIDE DEF n, T, Next1, h, start
<1>4. step \in [1 .. n -> [T -> T]]
  BY <1>3
<1>5. \E f : Def(f)
  <2>1. PICK f : IsLoop(f, n, T, start, step)
    <3> HIDE DEF step
    <3> QED
      BY <1>1, <1>4, Loop
  <2>2. ASSUME NEW q \in 1 .. n
        PROVE  q - 1 \in 0 .. n /\ f[q] = Next1(f[q - 1], q)
    <3>1. q - 1 \in 0 .. n
      BY <1>1
    <3>2. f[q - 1] \in T /\ f[q] = step[q][f[q - 1]]
      BY <2>1, <3>1 DEF IsLoop
    <3>3. step[q][f[q - 1]] = Next1(f[q - 1], q)
      BY <3>2
    <3> QED
      BY <3>1, <3>2, <3>3
  <2> QED
    BY <1>1, <2>1, <2>2 DEF IsLoop
<1>6. Def(h)
  <2> HIDE DEF Def
  <2> QED
    BY <1>2, <1>5
<1>7. /\ h = [q \in 0 .. n |-> h[q]] /\ h[0] = start
      /\ \A q \in 1 .. n : h[q] = Next1(h[q - 1], q)
  <2>1. 0 \in 0 .. n /\ \A q \in 1 .. n : q \in 0 .. n /\ q # 0
    BY <1>1
  <2>2. \A q \in 0 .. n : h[q] = IF q = 0 THEN start ELSE Next1(h[q - 1], q)
    BY <1>6
  <2>3. h = [q \in 0 .. n |-> h[q]]
    BY <1>6, <2>2
  <2> QED
    BY <2>1, <2>2, <2>3
<1> HIDE DEF Def
<1>8. \A q \in 1 .. n : h[q - 1] \in T => h[q] \in T
  BY <1>3, <1>7
<1>9. h \in [0 .. n -> T]
  BY <1>1, <1>7, <1>8, LoopStays
<1> QED
  BY <1>7, <1>9 DEF n, T, Next1, h, start

LEMMA FillingStep ==
  ASSUME NEW H, NEW m \in V, NEW i \in V, NEW k \in V, i < k
  PROVE  {i, k} \in {e \in SUBSET (Neighbours(H, m) \cap m + 1 .. N) :
                        Cardinality(e) = 2}
             <=> m < i /\ {m, i} \in H /\ {m, k} \in H
<1> DEFINE D == Neighbours(H, m) \cap m + 1 .. N
<1>1. N \in Nat /\ V = 1 .. N
  BY OrderAssumption DEF V
<1>2. Cardinality({i, k}) = 2
  <2>1. /\ IsFiniteSet({i}) /\ Cardinality({i}) = 1 /\ k \notin {i}
        /\ {i} \cup {k} = {i, k}
    <3>1. i # k
      BY <1>1
    <3>2. IsFiniteSet({i}) /\ Cardinality({i}) = 1
      BY FS_Singleton
    <3> QED
      BY <3>1, <3>2
  <2>2. Cardinality({i} \cup {k}) = Cardinality({i}) + 1
    BY <2>1, FS_AddElement
  <2> QED
    BY <2>1, <2>2
<1>3. {i, k} \in SUBSET D <=> i \in D /\ k \in D
  OBVIOUS
<1>4. \A j \in V : j \in D <=> {m, j} \in H /\ m < j
  <2> SUFFICES ASSUME NEW j \in V PROVE j \in D <=> {m, j} \in H /\ m < j
    OBVIOUS
  <2>1. {j, m} = {m, j}
    OBVIOUS
  <2>2. j \in m + 1 .. N <=> m < j
    BY <1>1
  <2> QED
    BY <2>1, <2>2 DEF Neighbours
<1>5. m < i => m < k
  BY <1>1
<1> HIDE DEF D
<1>6. {i, k} \in SUBSET D <=> m < i /\ {m, i} \in H /\ {m, k} \in H
  BY <1>3, <1>4, <1>5
<1> QED
  BY <1>2, <1>6 DEF D

\* An edge is in the pattern, or an earlier vertex joins its ends.
LEMMA FillingIs ==
  ASSUME NEW G, NEW perm, NEW i \in V, NEW k \in V, i < k
  PROVE  LET F == Filling(G, perm)[N]
         IN  {i, k} \in F <=>
                 \/ {i, k} \in Pattern(G, perm)
                 \/ \E h \in 1 .. i - 1 : {h, i} \in F /\ {h, k} \in F
<1> DEFINE f == Filling(G, perm)
           P == Pattern(G, perm)
           Joined(m, u, w) == \E h \in 1 .. m : h < u /\ {h, u} \in f[h - 1]
                                                     /\ {h, w} \in f[h - 1]
           Good(m) == \A u, w \in V : u < w =>
                         ({u, w} \in f[m] <=> {u, w} \in P \/ Joined(m, u, w))
           T == {m \in 0 .. N : Good(m)}
<1>1. N \in Nat /\ V = 1 .. N
  BY OrderAssumption DEF V
<1>2. /\ f[0] = P
      /\ \A q \in 1 .. N :
            f[q] = f[q - 1] \cup {e \in SUBSET (Neighbours(f[q - 1], q)
                                                  \cap q + 1 .. N) :
                                      Cardinality(e) = 2}
  BY FillingLoop
<1> HIDE DEF f, P
<1>3. 0 \in T
  <2>1. 0 \in 0 .. N /\ \A h \in 1 .. 0 : FALSE
    BY <1>1
  <2>2. Good(0)
    BY <1>2, <2>1
  <2> HIDE DEF Good
  <2> QED
    BY <2>1, <2>2
<1>4. ASSUME NEW m \in 1 .. N, m - 1 \in T PROVE m \in T
  <2>1. SUFFICES ASSUME NEW u \in V, NEW w \in V, u < w
                 PROVE  {u, w} \in f[m] <=> {u, w} \in P \/ Joined(m, u, w)
    <3>1. m \in 0 .. N
      BY <1>1
    <3> HIDE DEF Joined
    <3> QED
      BY <3>1
  <2>2. {u, w} \in f[m - 1] <=> {u, w} \in P \/ Joined(m - 1, u, w)
    BY <1>4, <2>1
  <2>3. {u, w} \in f[m] <=> \/ {u, w} \in f[m - 1]
                            \/ m < u /\ {m, u} \in f[m - 1] /\ {m, w} \in f[m - 1]
    <3> DEFINE E == {e \in SUBSET (Neighbours(f[m - 1], m) \cap m + 1 .. N) :
                        Cardinality(e) = 2}
    <3>1. f[m] = f[m - 1] \cup E
      BY <1>2
    <3>2. {u, w} \in E <=> m < u /\ {m, u} \in f[m - 1] /\ {m, w} \in f[m - 1]
      BY <1>1, <2>1, FillingStep
    <3> HIDE DEF E
    <3> QED
      BY <3>1, <3>2
  <2>4. Joined(m, u, w) <=> \/ Joined(m - 1, u, w)
                            \/ m < u /\ {m, u} \in f[m - 1] /\ {m, w} \in f[m - 1]
    <3>1. m \in 1 .. m /\ \A h \in 1 .. m - 1 : h \in 1 .. m
      BY <1>1
    <3>2. \A h \in 1 .. m : h = m \/ h \in 1 .. m - 1
      BY <1>1
    <3> QED
      BY <3>1, <3>2
  <2> HIDE DEF Joined
  <2> QED
    BY <2>2, <2>3, <2>4
<1>5. T = 0 .. N
  <2>1. T \in SUBSET (0 .. N)
    OBVIOUS
  <2> HIDE DEF T
  <2> QED
    BY <1>1, <1>3, <1>4, <2>1, Induct
<1>6. \A m \in 0 .. N : Good(m)
  BY <1>5
<1>7. ASSUME NEW u \in V, NEW w \in V, u < w, NEW m \in u - 1 .. N
      PROVE  {u, w} \in f[m] <=> {u, w} \in f[N]
  <2>1. m \in 0 .. N /\ N \in 0 .. N
    BY <1>1
  <2>2. Joined(m, u, w) <=> Joined(N, u, w)
    <3>1. \A h \in 1 .. N : h < u => h \in 1 .. m
      BY <1>1, <2>1
    <3>2. \A h \in 1 .. m : h \in 1 .. N
      BY <1>1, <2>1
    <3> QED
      BY <3>1, <3>2
  <2> HIDE DEF Joined
  <2> QED
    BY <1>6, <1>7, <2>1, <2>2
<1>8. Joined(N, i, k) <=> \E h \in 1 .. i - 1 : {h, i} \in f[N] /\ {h, k} \in f[N]
  <2>1. ASSUME NEW h \in 1 .. N, h < i
        PROVE  /\ {h, i} \in f[h - 1] <=> {h, i} \in f[N]
               /\ {h, k} \in f[h - 1] <=> {h, k} \in f[N]
    <3>1. h \in V /\ h < k /\ h - 1 \in h - 1 .. N
      BY <1>1, <2>1
    <3> QED
      BY <1>7, <2>1, <3>1
  <2>2. \A h \in 1 .. N : h < i => h \in 1 .. i - 1
    BY <1>1
  <2>3. \A h \in 1 .. i - 1 : h \in 1 .. N /\ h < i
    BY <1>1
  <2> QED
    BY <2>1, <2>2, <2>3
<1>9. N \in 0 .. N
  BY <1>1
<1> HIDE DEF Joined
<1>10. {i, k} \in f[N] <=> {i, k} \in P \/ Joined(N, i, k)
  BY <1>6, <1>9
<1> QED
  BY <1>8, <1>10 DEF f, P

LEMMA ToSetOfBoth ==
  ASSUME NEW s \in Seq(V), NEW t \in Seq(V)
  PROVE  ToSet(s \o t) = ToSet(s) \cup ToSet(t)
<1> DEFINE u == s \o t
           m == Len(s)
           n == Len(t)
<1>1. /\ m \in Nat /\ n \in Nat /\ DOMAIN s = 1 .. m /\ DOMAIN t = 1 .. n
      /\ DOMAIN u = 1 .. m + n
      /\ \A q \in 1 .. m + n : u[q] = IF q <= m THEN s[q] ELSE t[q - m]
  <2>1. m \in Nat /\ n \in Nat /\ DOMAIN s = 1 .. m /\ DOMAIN t = 1 .. n
    OBVIOUS
  <2>2. /\ u \in Seq(V) /\ Len(u) = m + n
        /\ \A q \in 1 .. m + n : u[q] = IF q <= m THEN s[q] ELSE t[q - m]
    BY ConcatProperties
  <2> HIDE DEF u
  <2> QED
    BY <2>1, <2>2
<1> HIDE DEF u, m, n
<1>2. ASSUME NEW v \in ToSet(s) PROVE v \in ToSet(u)
  <2>1. PICK q \in 1 .. m : s[q] = v
    BY <1>1, <1>2 DEF ToSet
  <2>2. q \in 1 .. m + n /\ u[q] = v
    BY <1>1, <2>1
  <2> QED
    BY <1>1, <2>2 DEF ToSet
<1>3. ASSUME NEW v \in ToSet(t) PROVE v \in ToSet(u)
  <2>1. PICK q \in 1 .. n : t[q] = v
    BY <1>1, <1>3 DEF ToSet
  <2>2. m + q \in 1 .. m + n /\ ~(m + q <= m) /\ (m + q) - m = q
    BY <1>1
  <2>3. u[m + q] = v
    BY <1>1, <2>1, <2>2
  <2> QED
    BY <1>1, <2>2, <2>3 DEF ToSet
<1>4. ASSUME NEW v \in ToSet(u) PROVE v \in ToSet(s) \/ v \in ToSet(t)
  <2>1. PICK q \in 1 .. m + n : u[q] = v
    BY <1>1, <1>4 DEF ToSet
  <2>2. CASE q <= m
    <3>1. q \in 1 .. m /\ s[q] = v
      BY <1>1, <2>1, <2>2
    <3> QED
      BY <1>1, <3>1 DEF ToSet
  <2>3. CASE ~(q <= m)
    <3>1. q - m \in 1 .. n /\ t[q - m] = v
      BY <1>1, <2>1, <2>3
    <3> QED
      BY <1>1, <3>1 DEF ToSet
  <2> QED
    BY <2>2, <2>3
<1> QED
  BY <1>2, <1>3, <1>4 DEF u

\* A row comes to a column from an entry, or from one that hangs below it.
ComesFrom(p, C, E) == \A v \in C : v \in E \/ \E u \in C : p[u] = v

LEMMA PathFrom ==
  ASSUME NEW p, IsTree(p), NEW mark \in SUBSET V, NEW i \in V
  PROVE  ComesFrom(p, ToSet(Path(p, mark)[i]), {i})
<1> DEFINE P == Path(p, mark)
           T == {j \in 0 .. N : ComesFrom(p, ToSet(P[j]), {j})}
<1>1. N \in Nat /\ V = 1 .. N
  BY OrderAssumption DEF V
<1>2. /\ P \in [0 .. N -> Seq(V)]
      /\ \A j \in 0 .. N : P[j] = IF j \in V \ mark THEN <<j>> \o P[p[j]]
                                  ELSE << >>
  BY PathIs
<1> HIDE DEF P
<1>3. ASSUME NEW j \in 0 .. N, j + 1 .. N \subseteq T PROVE j \in T
  <2>1. CASE j \notin V \ mark
    <3>1. P[j] = << >>
      BY <1>2, <2>1
    <3> QED
      BY <3>1 DEF ComesFrom, ToSet
  <2>2. CASE j \in V \ mark
    <3> DEFINE t == P[p[j]]
    <3>1. p[j] \in 0 .. N /\ (p[j] = 0 \/ p[j] \in j + 1 .. N)
      BY <1>1, <2>2 DEF IsTree
    <3>2. t \in Seq(V) /\ <<j>> \in Seq(V)
      BY <1>2, <2>2, <3>1
    <3>3. P[j] = <<j>> \o t
      BY <1>2, <2>2
    <3> HIDE DEF t
    <3>4. ToSet(P[j]) = {j} \cup ToSet(t)
      <4>1. ToSet(<<j>>) = {j}
        BY DEF ToSet
      <4> QED
        BY <3>2, <3>3, <4>1, ToSetOfBoth
    <3>5. CASE p[j] = 0
      <4>1. 0 \notin V \ mark /\ 0 \in 0 .. N
        BY <1>1
      <4>2. t = << >>
        BY <1>2, <3>5, <4>1 DEF t
      <4>3. ToSet(<< >>) = {}
        BY DEF ToSet
      <4> QED
        BY <3>4, <4>2, <4>3 DEF ComesFrom
    <3>6. CASE p[j] \in j + 1 .. N
      <4>1. ComesFrom(p, ToSet(t), {p[j]})
        BY <1>3, <3>6 DEF t
      <4> QED
        BY <3>4, <4>1 DEF ComesFrom
    <3> QED
      BY <3>1, <3>5, <3>6
  <2> QED
    BY <2>1, <2>2
<1>4. T = 0 .. N
  <2>1. T \in SUBSET (0 .. N)
    OBVIOUS
  <2> HIDE DEF T
  <2> QED
    BY <1>1, <1>3, <2>1, InductDown
<1>5. i \in 0 .. N
  BY <1>1
<1> HIDE DEF T
<1>6. i \in T
  BY <1>4, <1>5
<1> QED
  BY <1>6 DEF P, T

LEMMA ReachFrom ==
  ASSUME NEW p, IsTree(p), NEW row \in Seq(V), NEW k \in V
  PROVE  ComesFrom(p, ToSet(Reach(p, row, k)), ToSet(row))
<1> DEFINE n == Len(row)
           h == Reaches(p, row, k)
           T == {m \in 0 .. n : ComesFrom(p, ToSet(h[m].s), ToSet(row))}
<1>1. n \in Nat /\ DOMAIN row = 1 .. n /\ \A q \in 1 .. n : row[q] \in V
  OBVIOUS
<1>2. /\ h \in [0 .. n -> Marks] /\ h[0] = [s |-> << >>, mark |-> {k}]
      /\ \A q \in 1 .. n : h[q] = Reached1(h[q - 1], p, row[q])
  BY ReachesIs
<1> HIDE DEF h, n
<1>3. 0 \in T
  <2>1. h[0].s = << >> /\ 0 \in 0 .. n
    BY <1>1, <1>2
  <2> QED
    BY <2>1 DEF ComesFrom, ToSet
<1>4. ASSUME NEW m \in 1 .. n, m - 1 \in T PROVE m \in T
  <2> DEFINE s == h[m - 1].s
             M == h[m - 1].mark
             i == row[m]
             t == Path(p, M)[i]
  <2>1. m \in 0 .. n /\ m - 1 \in 0 .. n /\ i \in V /\ i \in ToSet(row)
    BY <1>1 DEF ToSet
  <2>2. s \in Seq(V) /\ M \in SUBSET V
    BY <1>2, <2>1 DEF Marks
  <2>3. h[m].s = t \o s
    <3> DEFINE b == h[m - 1]
    <3>1. h[m] = Reached1(b, p, i)
      BY <1>2
    <3>2. Reached1(b, p, i).s = Path(p, b.mark)[i] \o b.s
      BY DEF Reached1, Chained
    <3> HIDE DEF i
    <3> QED
      BY <3>1, <3>2
  <2> HIDE DEF s, M
  <2>4. t \in Seq(V)
    <3>1. i \in 0 .. N
      BY <2>1, OrderAssumption DEF V
    <3>2. Path(p, M) \in [0 .. N -> Seq(V)]
      BY <2>2, PathIs
    <3> HIDE DEF i
    <3> QED
      BY <3>1, <3>2
  <2>5. ComesFrom(p, ToSet(t), {i})
    BY <2>1, <2>2, PathFrom
  <2>6. ComesFrom(p, ToSet(s), ToSet(row))
    BY <1>4 DEF s
  <2> HIDE DEF t, i
  <2>7. ToSet(h[m].s) = ToSet(t) \cup ToSet(s)
    BY <2>2, <2>3, <2>4, ToSetOfBoth
  <2> QED
    BY <2>1, <2>5, <2>6, <2>7 DEF ComesFrom
<1>5. T = 0 .. n
  <2>1. T \in SUBSET (0 .. n)
    OBVIOUS
  <2> HIDE DEF T
  <2> QED
    BY <1>1, <1>3, <1>4, <2>1, Induct
<1>6. n \in T
  BY <1>1, <1>5
<1> QED
  BY <1>6 DEF Reach, h, n

\* A row comes to all that is above its entries, and before it.
LEMMA ReachHas ==
  ASSUME NEW p, IsTree(p), NEW k \in V, NEW s, IsReach(p, s, k),
         NEW e \in ToSet(s), NEW i \in V, i < k, IsAbove(p, e, i)
  PROVE  i \in ToSet(s)
<1> DEFINE C == ToSet(s) \cup {h \in V : h >= k}
           D == 1 .. k - 1
<1>1. /\ N \in Nat /\ V = 1 .. N /\ D \subseteq V
  BY OrderAssumption DEF V
<1>2. s \in Seq(D)
  BY DEF IsReach
<1> HIDE DEF D
<1>3. /\ DOMAIN s = 1 .. Len(s) /\ \A q \in 1 .. Len(s) : s[q] \in V
  <2>1. DOMAIN s = 1 .. Len(s) /\ \A q \in 1 .. Len(s) : s[q] \in D
    BY <1>2
  <2> QED
    BY <1>1, <2>1
<1>4. ToSet(s) \subseteq V
  BY <1>3 DEF ToSet
<1>5. Closed(p, C)
  <2> SUFFICES ASSUME NEW c \in C, p[c] # 0 PROVE p[c] \in C
    BY DEF Closed
  <2>1. CASE c \in ToSet(s)
    <3>1. PICK q \in 1 .. Len(s) : s[q] = c
      BY <1>3, <2>1 DEF ToSet
    <3>2. p[c] \in {k} \/ \E r \in 1 .. Len(s) : q < r /\ s[r] = p[c]
      BY <3>1 DEF IsReach, Behind
    <3>3. k \in C
      BY <1>1
    <3>4. ASSUME NEW r \in 1 .. Len(s), s[r] = p[c] PROVE p[c] \in ToSet(s)
      BY <1>3, <3>4 DEF ToSet
    <3> HIDE DEF C
    <3>5. ToSet(s) \subseteq C
      BY DEF C
    <3> QED
      BY <3>2, <3>3, <3>4, <3>5
  <2>2. CASE c \in V /\ c >= k
    <3>1. p[c] \in 0 .. N /\ p[c] > c
      BY <2>2 DEF IsTree
    <3> QED
      BY <1>1, <2>2, <3>1
  <2> QED
    BY <2>1, <2>2
<1>6. C \in SUBSET V /\ e \in C
  BY <1>4
<1> HIDE DEF C
<1>7. i \in C
  BY <1>5, <1>6 DEF IsAbove
<1> QED
  BY <1>1, <1>7 DEF C

\* The rows that the analysis gives are those that fill in.
LEMMA ReachIsFilling ==
  ASSUME NEW a, Analysed(a), NEW G, IsPermuted(a.perm),
         a.rows = RowsOf(G, a.perm), NEW i \in V, NEW k \in V, i < k
  PROVE  {i, k} \in Filling(G, a.perm)[N] <=> i \in ToSet(ReachOf(a, k))
<1> DEFINE F == Filling(G, a.perm)[N]
           p == a.parent
           R(j) == ToSet(ReachOf(a, j))
           Good(u) == \A w \in V : u < w => ({u, w} \in F <=> u \in R(w))
           T == {m \in 0 .. N : \A u \in 1 .. m : Good(u)}
<1>1. N \in Nat /\ V = 1 .. N
  BY OrderAssumption DEF V
<1>2. /\ IsTree(p) /\ IsRows(a.rows)
      /\ \A j \in V : IsReach(p, ReachOf(a, j), j)
      /\ \A u \in V : p[u] # 0 =>
            \E q \in DOMAIN a.rows[p[u]] : IsAbove(p, a.rows[p[u]][q], u)
      /\ \A j \in V : \A q \in DOMAIN a.rows[j] : IsAbove(p, a.rows[j][q], j)
  <2>1. IsRows(a.rows) /\ p = Parents(a.rows)
    BY DEF Analysed
  <2>2. \A j \in V : IsReach(p, ReachOf(a, j), j)
    BY ReachOfIs
  <2> HIDE DEF p
  <2> QED
    BY <2>1, <2>2, ParentsAre
<1>3. ASSUME NEW j \in V
      PROVE  /\ R(j) \subseteq V
             /\ \A u \in R(j) : u < j /\ IsAbove(p, u, j)
             /\ ToSet(a.rows[j]) \subseteq R(j)
             /\ ComesFrom(p, R(j), ToSet(a.rows[j]))
  <2> DEFINE D == 1 .. j - 1
             s == ReachOf(a, j)
             row == a.rows[j]
  <2>1. s \in Seq(D) /\ row \in Seq(D) /\ row \in Seq(V)
    BY <1>2 DEF IsReach, IsRows
  <2>2. D \subseteq V /\ \A u \in D : u < j
    BY <1>1
  <2>3. s = Reach(p, row, j)
    BY DEF ReachOf
  <2>4. \A q \in 1 .. Len(row) : IsAbove(p, row[q], j)
    <3>1. DOMAIN row = 1 .. Len(row)
      <4> HIDE DEF row
      <4> QED
        BY <2>1
    <3> QED
      BY <1>2, <3>1
  <2>5. \A q \in 1 .. Len(row) : row[q] \in ToSet(s)
    <3> HIDE DEF p, row, s
    <3>1. row \in Seq(1 .. j - 1)
      BY <2>1
    <3> QED
      BY <1>2, <2>3, <2>4, <3>1, ReachIs
  <2>6. ComesFrom(p, ToSet(s), ToSet(row))
    <3> HIDE DEF p, row, s
    <3> QED
      BY <1>2, <2>1, <2>3, ReachFrom
  <2>7. \A u \in ToSet(s) : IsAbove(p, u, j)
    <3> HIDE DEF p
    <3> QED
      BY <1>2, ReachIsBelow
  <2> HIDE DEF D, s, row
  <2>8. ToSet(s) \subseteq D /\ DOMAIN row = 1 .. Len(row)
    BY <2>1 DEF ToSet
  <2>9. ToSet(row) \subseteq ToSet(s)
    BY <2>5, <2>8 DEF ToSet
  <2> QED
    BY <2>2, <2>6, <2>7, <2>8, <2>9 DEF s, row
<1> HIDE DEF R
<1>4. ASSUME NEW u \in V, NEW w \in V, u < w
      PROVE  {u, w} \in Pattern(G, a.perm) <=> u \in ToSet(a.rows[w])
  <2>1. u # w
    BY <1>1, <1>4
  <2>2. {u, w} \in Pattern(G, a.perm) <=> {a.perm[u], a.perm[w]} \in G
    BY <2>1, PatternIs
  <2>3. LET row == RowsOf(G, a.perm)[w]
        IN  (\E q \in DOMAIN row : row[q] = u) <=> {a.perm[u], a.perm[w]} \in G
    BY <1>4, RowsOfHas
  <2>4. u \in ToSet(a.rows[w]) <=> \E q \in DOMAIN a.rows[w] : a.rows[w][q] = u
    BY DEF ToSet
  <2> QED
    BY <2>2, <2>3, <2>4
<1>5. ASSUME NEW u \in V, NEW w \in V, u < w
      PROVE  {u, w} \in F <=> \/ u \in ToSet(a.rows[w])
                              \/ \E h \in 1 .. u - 1 : {h, u} \in F /\ {h, w} \in F
  <2>1. {u, w} \in F <=> \/ {u, w} \in Pattern(G, a.perm)
                         \/ \E h \in 1 .. u - 1 : {h, u} \in F /\ {h, w} \in F
    BY <1>5, FillingIs
  <2> HIDE DEF F
  <2> QED
    BY <1>4, <1>5, <2>1
<1> HIDE DEF F
<1>6. 0 \in T
  BY <1>1
<1>7. ASSUME NEW u \in V, u - 1 \in T PROVE Good(u)
  <2> SUFFICES ASSUME NEW w \in V, u < w PROVE {u, w} \in F <=> u \in R(w)
    OBVIOUS
  <2>1. \A h \in 1 .. u - 1 : /\ h \in V /\ h < u /\ h < w
                              /\ {h, u} \in F <=> h \in R(u)
                              /\ {h, w} \in F <=> h \in R(w)
    <3> SUFFICES ASSUME NEW h \in 1 .. u - 1
                 PROVE  /\ h \in V /\ h < u /\ h < w
                        /\ {h, u} \in F <=> h \in R(u)
                        /\ {h, w} \in F <=> h \in R(w)
      OBVIOUS
    <3>1. h \in V /\ h < u /\ h < w
      BY <1>1
    <3>2. Good(h)
      BY <1>7
    <3> QED
      BY <3>1, <3>2
  <2>2. ASSUME {u, w} \in F PROVE u \in R(w)
    <3>1. CASE u \in ToSet(a.rows[w])
      BY <1>3, <3>1
    <3>2. CASE \E h \in 1 .. u - 1 : {h, u} \in F /\ {h, w} \in F
      <4>1. PICK h \in 1 .. u - 1 : h \in R(u) /\ h \in R(w)
        BY <2>1, <3>2
      <4>2. IsAbove(p, h, u)
        BY <1>3, <4>1
      <4>3. h \in ToSet(ReachOf(a, w)) /\ IsReach(p, ReachOf(a, w), w)
        BY <1>2, <4>1 DEF R
      <4>4. u \in ToSet(ReachOf(a, w))
        <5> HIDE DEF p
        <5> QED
          BY <1>2, <4>2, <4>3, ReachHas
      <4> QED
        BY <4>4 DEF R
    <3> QED
      BY <1>5, <2>2, <3>1, <3>2
  <2>3. ASSUME u \in R(w) PROVE {u, w} \in F
    <3>1. CASE u \in ToSet(a.rows[w])
      BY <1>5, <3>1
    <3>2. CASE \E h \in R(w) : p[h] = u
      <4>1. PICK h \in R(w) : p[h] = u
        BY <3>2
      <4>2. h \in V /\ p[h] # 0
        BY <1>1, <1>3, <4>1
      <4>3. h \in 1 .. u - 1 /\ h < u
        <5>1. p[h] > h
          BY <1>2, <4>2 DEF IsTree
        <5> QED
          BY <1>1, <4>1, <4>2, <5>1
      <4>4. PICK q \in DOMAIN a.rows[u] : IsAbove(p, a.rows[u][q], h)
        BY <1>2, <4>1, <4>2
      <4>5. a.rows[u][q] \in ToSet(ReachOf(a, u))
        <5>1. a.rows[u][q] \in ToSet(a.rows[u])
          BY DEF ToSet
        <5> QED
          BY <1>3, <5>1 DEF R
      <4>6. h \in R(u)
        <5>1. IsReach(p, ReachOf(a, u), u)
          BY <1>2
        <5> HIDE DEF p
        <5>2. h \in ToSet(ReachOf(a, u))
          BY <1>2, <4>2, <4>3, <4>4, <4>5, <5>1, ReachHas
        <5> QED
          BY <5>2 DEF R
      <4>7. {h, u} \in F /\ {h, w} \in F
        BY <2>1, <4>1, <4>3, <4>6
      <4> QED
        BY <1>5, <4>3, <4>7
    <3> QED
      BY <1>3, <2>3, <3>1, <3>2 DEF ComesFrom
  <2> QED
    BY <2>2, <2>3
<1> HIDE DEF Good
<1>8. ASSUME NEW m \in 1 .. N, m - 1 \in T PROVE m \in T
  <2>1. m \in V /\ m \in 0 .. N /\ \A u \in 1 .. m : u = m \/ u \in 1 .. m - 1
    BY <1>1
  <2>2. Good(m)
    BY <1>7, <1>8, <2>1
  <2>3. \A u \in 1 .. m - 1 : Good(u)
    BY <1>8
  <2> QED
    BY <2>1, <2>2, <2>3
<1>9. T = 0 .. N
  <2>1. T \in SUBSET (0 .. N)
    OBVIOUS
  <2> HIDE DEF T
  <2> QED
    BY <1>1, <1>6, <1>8, <2>1, Induct
<1>10. Good(i)
  <2>1. N \in 0 .. N /\ i \in 1 .. N
    BY <1>1
  <2> QED
    BY <1>9, <2>1
<1> QED
  BY <1>10 DEF Good, F, R

-----------------------------------------------------------------------------
\* The factor by its definition.

\* What column j of row k has had subtracted from it before its turn: the
\* columns before it that have an entry in row j.
ValuesAt(g, s, h, q) ==
    \A j \in V : j \notin {s[r] : r \in 1 .. q} =>
        /\ IsInjective(h[q].x[j])
        /\ \A v : v \in ToSet(h[q].x[j]) <=>
                      \E r \in 1 .. q : s[r] = v /\ Hits(g.col, v, 1, j)

LEMMA AppendNew ==
  ASSUME NEW s \in Seq(V), IsInjective(s), NEW v \in V, v \notin ToSet(s)
  PROVE  /\ IsInjective(Append(s, v))
         /\ ToSet(Append(s, v)) = ToSet(s) \cup {v}
<1> DEFINE t == Append(s, v)
           n == Len(s)
<1>1. /\ n \in Nat /\ DOMAIN s = 1 .. n /\ DOMAIN t = 1 .. n + 1
      /\ t[n + 1] = v /\ \A q \in 1 .. n : t[q] = s[q]
  OBVIOUS
<1> HIDE DEF t, n
<1>2. \A q \in 1 .. n + 1 : q = n + 1 \/ q \in 1 .. n
  BY <1>1
<1>3. \A q \in 1 .. n : s[q] # v /\ q \in 1 .. n + 1
  BY <1>1 DEF ToSet
<1>4. IsInjective(t)
  BY <1>1, <1>2, <1>3 DEF IsInjective
<1>5. ToSet(t) = ToSet(s) \cup {v}
  <2>1. n + 1 \in 1 .. n + 1
    BY <1>1
  <2> QED
    BY <1>1, <1>2, <1>3, <2>1 DEF ToSet
<1> QED
  BY <1>4, <1>5 DEF t

LEMMA RowValues ==
  ASSUME NEW a, Analysed(a), NEW k \in V, NEW g \in Factors,
         GoodCols(a, g.col, k - 1), g.x = Blank,
         NEW q \in 0 .. Len(ReachOf(a, k))
  PROVE  ValuesAt(g, ReachOf(a, k), RowSteps(g, ReachOf(a, k), k), q)
<1> DEFINE s == ReachOf(a, k)
           n == Len(s)
           h == RowSteps(g, s, k)
           T == {m \in 0 .. n : ValuesAt(g, s, h, m)}
<1>1. /\ s \in Seq(V) /\ n \in Nat
      /\ \A r \in 1 .. n : s[r] \in V /\ s[r] < k
      /\ \A m, r \in 1 .. n : m # r => s[m] # s[r]
  BY ReachOfType
<1>2. \A m \in 0 .. n : RowAt(g, s, k, h, m)
  BY RowGathers
<1> HIDE DEF s
<1>3. /\ h \in [0 .. n -> Factors] /\ h[0] = g
      /\ \A m \in 1 .. n : h[m] = Eliminate(h[m - 1], s[m], k)
  BY <1>1, RowStepsIs
<1> HIDE DEF h, n
<1>4. 0 \in T
  <2>1. \A j \in V : h[0].x[j] = << >>
    BY <1>3 DEF Blank
  <2>2. /\ IsInjective(<< >>) /\ ToSet(<< >>) = {} /\ 0 \in 0 .. n
        /\ \A r \in 1 .. 0 : FALSE
    BY <1>1 DEF IsInjective, ToSet
  <2>3. ValuesAt(g, s, h, 0)
    BY <2>1, <2>2 DEF ValuesAt
  <2> QED
    BY <2>2, <2>3
<1>5. ASSUME NEW m \in 1 .. n, m - 1 \in T PROVE m \in T
  <2> DEFINE b == h[m - 1]
             i == s[m]
             c == h[m]
  <2>1. m \in 0 .. n /\ m - 1 \in 0 .. n /\ i \in V /\ b \in Factors
    BY <1>1, <1>3
  <2>2. /\ \A r \in 1 .. m : r = m \/ r \in 1 .. m - 1
        /\ m \in 1 .. m /\ \A r \in 1 .. m - 1 : r \in 1 .. m /\ s[r] # i
    <3>1. /\ \A r \in 1 .. m : r = m \/ r \in 1 .. m - 1
          /\ m \in 1 .. m
          /\ \A r \in 1 .. m - 1 : r \in 1 .. m /\ r \in 1 .. n /\ r # m
      BY <1>1
    <3> QED
      BY <1>1, <3>1
  <2>3. b.col[i] = g.col[i]
    <3>1. RowAt(g, s, k, h, m - 1)
      BY <1>2, <2>1
    <3>2. i \notin {s[r] : r \in 1 .. m - 1}
      BY <2>2
    <3> QED
      BY <2>1, <3>1, <3>2 DEF RowAt
  <2>4. \A j \in V : c.x[j] = IF Hits(b.col, i, 1, j)
                              THEN Append(Cleared(b.x, i, j), i)
                              ELSE Cleared(b.x, i, j)
    <3> HIDE DEF b, i, c
    <3>1. c = Eliminate(b, i, k)
      BY <1>3 DEF b, i, c
    <3>2. \A j \in V : Eliminate(b, i, k).x[j] =
                           IF Hits(b.col, i, 1, j)
                           THEN Append(Cleared(b.x, i, j), i)
                           ELSE Cleared(b.x, i, j)
      BY <2>1, EliminateIs
    <3> QED
      BY <3>1, <3>2
  <2>5. ValuesAt(g, s, h, m - 1)
    BY <1>5
  <2>6. ASSUME NEW j \in V, j \notin {s[r] : r \in 1 .. m}
        PROVE  /\ IsInjective(c.x[j])
               /\ \A v : v \in ToSet(c.x[j]) <=>
                      \E r \in 1 .. m : s[r] = v /\ Hits(g.col, v, 1, j)
    <3>1. j # i /\ j \notin {s[r] : r \in 1 .. m - 1}
      BY <2>2, <2>6
    <3>2. /\ IsInjective(b.x[j])
          /\ \A v : v \in ToSet(b.x[j]) <=>
                 \E r \in 1 .. m - 1 : s[r] = v /\ Hits(g.col, v, 1, j)
      BY <2>5, <3>1 DEF ValuesAt
    <3>3. Cleared(b.x, i, j) = b.x[j] /\ b.x[j] \in Seq(V)
      BY <2>1, <3>1 DEF Cleared, Factors, Gathered
    <3>4. Hits(b.col, i, 1, j) <=> Hits(g.col, i, 1, j)
      BY <2>3 DEF Hits
    <3>5. i \notin ToSet(b.x[j])
      BY <2>2, <3>2
    <3> HIDE DEF b, c, i
    <3>6. CASE Hits(g.col, i, 1, j)
      <4>1. c.x[j] = Append(b.x[j], i)
        BY <2>4, <3>3, <3>4, <3>6
      <4>2. IsInjective(c.x[j]) /\ ToSet(c.x[j]) = ToSet(b.x[j]) \cup {i}
        BY <2>1, <3>2, <3>3, <3>5, <4>1, AppendNew
      <4>3. s[m] = i
        BY DEF i
      <4> QED
        BY <2>2, <3>2, <3>6, <4>2, <4>3
    <3>7. CASE ~Hits(g.col, i, 1, j)
      <4>1. c.x[j] = b.x[j]
        BY <2>4, <3>3, <3>4, <3>7
      <4>2. s[m] = i
        BY DEF i
      <4> QED
        BY <2>2, <3>2, <3>7, <4>1, <4>2
    <3> QED
      BY <3>6, <3>7
  <2>7. ValuesAt(g, s, h, m)
    BY <2>6 DEF ValuesAt
  <2> QED
    BY <2>1, <2>7
<1>6. T = 0 .. n
  <2>1. T \in SUBSET (0 .. n)
    OBVIOUS
  <2> HIDE DEF T
  <2> QED
    BY <1>1, <1>4, <1>5, <2>1, Induct
<1>7. q \in T
  BY <1>6 DEF n, s
<1> QED
  BY <1>7 DEF h, s

\* A column has all its rows as far as row m, in order, and each value of it
\* the columns that both rows have an entry in.
FullCol(a, e, i, m) ==
    /\ \A k \in 1 .. m : i \in ToSet(ReachOf(a, k)) =>
           \E q \in 1 .. Len(e) : e[q].row = k
    /\ \A q, r \in 1 .. Len(e) : q < r => e[q].row < e[r].row
    /\ \A q \in 1 .. Len(e) :
           /\ IsInjective(e[q].from)
           /\ \A v : v \in ToSet(e[q].from) <=>
                  v \in ToSet(ReachOf(a, i)) /\ v \in ToSet(ReachOf(a, e[q].row))
FullCols(a, c, m) == \A i \in V : FullCol(a, c[i], i, m)

LEMMA RowIsFull ==
  ASSUME NEW a, Analysed(a), NEW k \in V, NEW g \in Factors,
         GoodCols(a, g.col, k - 1), FullCols(a, g.col, k - 1), g.x = Blank
  PROVE  FullCols(a, RowOf(a, g, k).col, k)
<1> DEFINE s == ReachOf(a, k)
           n == Len(s)
           h == RowSteps(g, s, k)
           d == h[n]
<1>1. /\ s \in Seq(V) /\ n \in Nat /\ DOMAIN s = 1 .. n
      /\ \A r \in 1 .. n : s[r] \in V /\ s[r] < k
      /\ \A m, r \in 1 .. n : m # r => s[m] # s[r]
  BY ReachOfType
<1>2. \A m \in 0 .. n : RowAt(g, s, k, h, m) /\ ValuesAt(g, s, h, m)
  BY RowGathers, RowValues
<1>3. RowOf(a, g, k) = d
  BY DEF RowOf
<1>4. /\ N \in Nat /\ V = 1 .. N /\ IsTree(a.parent)
      /\ \A j \in V : IsReach(a.parent, ReachOf(a, j), j)
  BY ReachOfIs, OrderAssumption DEF V
<1>5. ToSet(s) = {s[r] : r \in 1 .. n}
  BY <1>1 DEF ToSet
<1> HIDE DEF s
<1>6. /\ h \in [0 .. n -> Factors] /\ h[0] = g
  BY <1>1, RowStepsIs
<1> HIDE DEF h, n
<1>7. n \in 0 .. n /\ d \in Factors /\ RowAt(g, s, k, h, n)
  BY <1>1, <1>2, <1>6
<1> SUFFICES ASSUME NEW i \in V PROVE FullCol(a, d.col[i], i, k)
  BY <1>3 DEF FullCols
<1> DEFINE e == g.col[i]
<1>8. /\ e \in Seq(Entry) /\ FullCol(a, e, i, k - 1) /\ Len(e) \in Nat
      /\ \A q \in 1 .. Len(e) : e[q].row \in i + 1 .. k - 1
  <2>1. e \in Seq(Entry)
    BY DEF Factors, Columns
  <2> QED
    BY <2>1 DEF FullCols, GoodCols
<1>9. CASE i \notin ToSet(s)
  <2>1. d.col[i] = e
    BY <1>5, <1>7, <1>9 DEF RowAt
  <2>2. \A m \in 1 .. k : m = k \/ m \in 1 .. k - 1
    BY <1>4
  <2> HIDE DEF d, e
  <2> QED
    BY <1>8, <1>9, <2>1, <2>2 DEF FullCol, s
<1>10. CASE i \in ToSet(s)
  <2>1. PICK r \in 1 .. n : s[r] = i
    BY <1>5, <1>10
  <2>2. r - 1 \in 0 .. n /\ i < k
    BY <1>1, <2>1
  <2> DEFINE y == h[r - 1].x[i]
             w == [row |-> k, from |-> y]
             z == d.col[i]
  <2>3. z = Append(e, w)
    BY <1>7, <2>1 DEF RowAt
  <2>4. i \notin {s[u] : u \in 1 .. r - 1}
    <3>1. \A u \in 1 .. r - 1 : u \in 1 .. n /\ u # r
      BY <1>1
    <3> QED
      BY <1>1, <2>1, <3>1
  <2>5. /\ IsInjective(y)
        /\ \A v : v \in ToSet(y) <=>
               \E u \in 1 .. r - 1 : s[u] = v /\ Hits(g.col, v, 1, i)
    BY <1>2, <2>2, <2>4 DEF ValuesAt
  <2>6. ASSUME NEW v \in V
        PROVE  Hits(g.col, v, 1, i) <=> v \in ToSet(ReachOf(a, i))
    <3>1. i \in 1 .. k - 1
      BY <1>4, <2>2
    <3>2. FullCol(a, g.col[v], v, k - 1)
      BY DEF FullCols
    <3>3. ASSUME v \in ToSet(ReachOf(a, i)) PROVE Hits(g.col, v, 1, i)
      BY <3>1, <3>2, <3>3 DEF FullCol, Hits
    <3>4. ASSUME Hits(g.col, v, 1, i) PROVE v \in ToSet(ReachOf(a, i))
      <4>1. PICK q \in 1 .. Len(g.col[v]) : g.col[v][q].row = i
        BY <3>4 DEF Hits
      <4> QED
        BY <4>1 DEF GoodCols
    <3> QED
      BY <3>3, <3>4
  <2>7. \A v : v \in ToSet(y) <=>
            v \in ToSet(ReachOf(a, i)) /\ v \in ToSet(s)
    <3>1. ASSUME NEW v, v \in ToSet(y)
          PROVE  v \in ToSet(ReachOf(a, i)) /\ v \in ToSet(s)
      <4>1. PICK u \in 1 .. r - 1 : s[u] = v /\ Hits(g.col, v, 1, i)
        BY <2>5, <3>1
      <4>2. u \in 1 .. n
        BY <1>1
      <4> QED
        BY <1>1, <1>5, <2>6, <4>1, <4>2
    <3>2. ASSUME NEW v, v \in ToSet(ReachOf(a, i)), v \in ToSet(s)
          PROVE  v \in ToSet(y)
      <4>1. PICK u \in 1 .. n : s[u] = v
        BY <1>5, <3>2
      <4>2. PICK t \in 1 .. n : u < t /\ s[t] = i
        <5>1. IsReach(a.parent, s, k) /\ u \in 1 .. Len(s)
          BY <1>4 DEF s, n
        <5>2. \E t \in 1 .. Len(s) : u < t /\ s[t] = i
          BY <1>4, <2>2, <3>2, <4>1, <5>1, ReachMeets
        <5> QED
          BY <5>2 DEF n
      <4>3. t = r
        BY <1>1, <2>1, <4>2
      <4>4. u \in 1 .. r - 1
        BY <1>1, <4>2, <4>3
      <4>5. Hits(g.col, v, 1, i)
        BY <1>1, <2>6, <3>2, <4>1
      <4> QED
        BY <2>5, <4>1, <4>4, <4>5
    <3> QED
      BY <3>1, <3>2
  <2> HIDE DEF y, z, e
  <2>8. /\ Len(z) = Len(e) + 1 /\ z[Len(e) + 1] = w
        /\ \A q \in 1 .. Len(e) : z[q] = e[q]
    BY <1>8, <2>3
  <2>9. /\ \A q \in 1 .. Len(z) : q = Len(e) + 1 \/ q \in 1 .. Len(e)
        /\ Len(e) + 1 \in 1 .. Len(z)
        /\ \A q \in 1 .. Len(e) : q \in 1 .. Len(z)
    BY <1>8, <2>8
  <2>10. \A m \in 1 .. k : i \in ToSet(ReachOf(a, m)) =>
             \E q \in 1 .. Len(z) : z[q].row = m
    <3> SUFFICES ASSUME NEW m \in 1 .. k, i \in ToSet(ReachOf(a, m))
                 PROVE  \E q \in 1 .. Len(z) : z[q].row = m
      OBVIOUS
    <3>1. m = k \/ m \in 1 .. k - 1
      BY <1>4
    <3>2. CASE m = k
      BY <2>8, <2>9, <3>2
    <3>3. CASE m \in 1 .. k - 1
      <4>1. PICK q \in 1 .. Len(e) : e[q].row = m
        BY <1>8, <3>3 DEF FullCol
      <4> QED
        BY <2>8, <2>9, <4>1
    <3> QED
      BY <3>1, <3>2, <3>3
  <2>11. \A q, t \in 1 .. Len(z) : q < t => z[q].row < z[t].row
    <3> SUFFICES ASSUME NEW q \in 1 .. Len(z), NEW t \in 1 .. Len(z), q < t
                 PROVE  z[q].row < z[t].row
      OBVIOUS
    <3>1. q \in 1 .. Len(e)
      BY <1>8, <2>8
    <3>2. z[q].row = e[q].row /\ e[q].row \in i + 1 .. k - 1
      BY <1>8, <2>8, <3>1
    <3>3. CASE t = Len(e) + 1
      <4>1. z[t].row = k
        BY <2>8, <3>3
      <4> QED
        BY <1>4, <3>2, <4>1
    <3>4. CASE t \in 1 .. Len(e)
      <4>1. e[q].row < e[t].row /\ z[t] = e[t]
        BY <1>8, <2>8, <3>1, <3>4 DEF FullCol
      <4> QED
        BY <3>2, <4>1
    <3> QED
      BY <2>9, <3>3, <3>4
  <2>12. \A q \in 1 .. Len(z) :
           /\ IsInjective(z[q].from)
           /\ \A v : v \in ToSet(z[q].from) <=>
                  v \in ToSet(ReachOf(a, i)) /\ v \in ToSet(ReachOf(a, z[q].row))
    <3> SUFFICES ASSUME NEW q \in 1 .. Len(z)
                 PROVE  /\ IsInjective(z[q].from)
                        /\ \A v : v \in ToSet(z[q].from) <=>
                               /\ v \in ToSet(ReachOf(a, i))
                               /\ v \in ToSet(ReachOf(a, z[q].row))
      OBVIOUS
    <3>1. CASE q = Len(e) + 1
      <4>1. z[q].from = y /\ z[q].row = k
        BY <2>8, <3>1
      <4> QED
        BY <2>5, <2>7, <4>1 DEF s
    <3>2. CASE q \in 1 .. Len(e)
      BY <1>8, <2>8, <3>2 DEF FullCol
    <3> QED
      BY <2>9, <3>1, <3>2
  <2> QED
    BY <2>10, <2>11, <2>12 DEF FullCol, z
<1> QED
  BY <1>9, <1>10

LEMMA OneIsFull ==
  ASSUME NEW a, Analysed(a), NEW m \in 0 .. N
  PROVE  FullCols(a, One(a)[m].col, m)
<1> DEFINE g == One(a)
           T == {k \in 0 .. N : FullCols(a, g[k].col, k)}
<1>1. N \in Nat /\ V = 1 .. N /\ 0 \in 0 .. N
  BY OrderAssumption DEF V
<1>2. Unfactored \in Factors
  BY DEF Unfactored, Factors, Gathered, Columns, Blank
<1>3. g[0] = Unfactored /\ \A k \in 1 .. N : g[k] = RowOf(a, g[k - 1], k)
  <2> DEFINE f == RowsAfter(a, Unfactored, 0)
  <2>1. f[0] = Unfactored /\ \A k \in 1 .. N - 0 : f[k] = RowOf(a, f[k - 1], 0 + k)
    BY <1>1, <1>2, RowsAfterIs
  <2>2. N - 0 = N /\ \A k \in 1 .. N : 0 + k = k
    BY <1>1
  <2>3. g = f
    BY DEF One
  <2> HIDE DEF f, g
  <2> QED
    BY <2>1, <2>2, <2>3
<1>4. \A k \in 0 .. N : OneAt(a, g[k], k)
  BY OneIs DEF One
<1> HIDE DEF g
<1>5. 0 \in T
  <2>1. \A i \in V : g[0].col[i] = << >>
    BY <1>3 DEF Unfactored, Blank
  <2>2. Len(<< >>) = 0 /\ \A q \in 1 .. 0 : FALSE
    OBVIOUS
  <2>3. FullCols(a, g[0].col, 0)
    BY <2>1, <2>2 DEF FullCols, FullCol
  <2> QED
    BY <1>1, <2>3
<1>6. ASSUME NEW k \in 1 .. N, k - 1 \in T PROVE k \in T
  <2> DEFINE b == g[k - 1]
  <2>1. k \in V /\ k \in 0 .. N /\ k - 1 \in 0 .. N
    BY <1>1
  <2>2. b \in Factors /\ b.x = Blank /\ GoodCols(a, b.col, k - 1)
    BY <1>4, <2>1 DEF OneAt
  <2>3. FullCols(a, b.col, k - 1)
    BY <1>6
  <2>4. g[k] = RowOf(a, b, k)
    BY <1>3
  <2> HIDE DEF b
  <2>5. FullCols(a, g[k].col, k)
    BY <2>1, <2>2, <2>3, <2>4, RowIsFull
  <2> QED
    BY <2>1, <2>5
<1>7. T = 0 .. N
  <2>1. T \in SUBSET (0 .. N)
    OBVIOUS
  <2> HIDE DEF T
  <2> QED
    BY <1>1, <1>5, <1>6, <2>1, Induct
<1> QED
  BY <1>7 DEF g

\* The factor of one thread is the Cholesky factor of what the order permutes.
LEMMA OneIsCholesky ==
  ASSUME NEW a, Analysed(a), NEW G, IsPermuted(a.perm),
         a.rows = RowsOf(G, a.perm)
  PROVE  \A i \in V : ColumnHolds(One(a)[N].col[i], Filling(G, a.perm)[N], i)
<1> DEFINE c == One(a)[N].col
           F == Filling(G, a.perm)[N]
           R(j) == ToSet(ReachOf(a, j))
<1>1. N \in Nat /\ V = 1 .. N /\ N \in 0 .. N
  BY OrderAssumption DEF V
<1>2. FullCols(a, c, N)
  BY <1>1, OneIsFull
<1>3. c \in Columns /\ GoodCols(a, c, N)
  <2>1. OneAt(a, One(a)[N], N)
    BY <1>1, OneIs DEF One
  <2> QED
    BY <2>1 DEF OneAt, Factors
<1>4. \A u, w \in V : u < w => ({u, w} \in F <=> u \in R(w))
  BY ReachIsFilling
<1>5. \A w \in V : \A u \in R(w) : u \in V /\ u < w
  <2> SUFFICES ASSUME NEW w \in V, NEW u \in R(w) PROVE u \in V /\ u < w
    OBVIOUS
  <2>1. LET s == ReachOf(a, w)
        IN  /\ DOMAIN s = 1 .. Len(s)
            /\ \A q \in 1 .. Len(s) : s[q] \in V /\ s[q] < w
    BY ReachOfType
  <2> QED
    BY <2>1 DEF ToSet
<1> HIDE DEF c, F, R
<1> SUFFICES ASSUME NEW i \in V PROVE ColumnHolds(c[i], F, i)
  BY DEF c, F
<1> DEFINE e == c[i]
<1>6. e \in Seq(Entry) /\ DOMAIN e = 1 .. Len(e)
  <2>1. e \in Seq(Entry)
    BY <1>3 DEF Columns
  <2> HIDE DEF e
  <2> QED
    BY <2>1
<1>7. FullCol(a, e, i, N)
  BY <1>2 DEF FullCols
<1>8. \A q \in 1 .. Len(e) : e[q].row \in i + 1 .. N /\ i \in R(e[q].row)
  BY <1>3 DEF GoodCols, R
<1> HIDE DEF e
<1>9. {e[q].row : q \in DOMAIN e} = {k \in i + 1 .. N : {i, k} \in F}
  <2>1. \A k \in i + 1 .. N : k \in V /\ i < k /\ k \in 1 .. N
    BY <1>1
  <2>2. ASSUME NEW k \in i + 1 .. N, {i, k} \in F
        PROVE  \E q \in 1 .. Len(e) : e[q].row = k
    <3>1. i \in R(k) /\ k \in 1 .. N
      BY <1>4, <2>1, <2>2
    <3> QED
      BY <1>7, <3>1 DEF FullCol, R
  <2>3. ASSUME NEW q \in 1 .. Len(e)
        PROVE  e[q].row \in i + 1 .. N /\ {i, e[q].row} \in F
    BY <1>4, <1>8, <2>1
  <2> QED
    BY <1>6, <2>2, <2>3
<1>10. \A q, r \in DOMAIN e : q < r => e[q].row < e[r].row
  BY <1>6, <1>7 DEF FullCol
<1>11. ASSUME NEW q \in DOMAIN e
       PROVE  /\ ToSet(e[q].from) = {h \in 1 .. i - 1 :
                                        {h, i} \in F /\ {h, e[q].row} \in F}
              /\ IsInjective(e[q].from)
  <2> DEFINE k == e[q].row
  <2>1. q \in 1 .. Len(e) /\ k \in V /\ i < k
    BY <1>1, <1>6, <1>8
  <2>2. IsInjective(e[q].from)
        /\ \A v : v \in ToSet(e[q].from) <=> v \in R(i) /\ v \in R(k)
    BY <1>7, <2>1 DEF FullCol, R
  <2> HIDE DEF k
  <2>3. \A h \in 1 .. i - 1 : /\ h \in V /\ h < i /\ h < k
                              /\ {h, i} \in F <=> h \in R(i)
                              /\ {h, k} \in F <=> h \in R(k)
    <3>1. \A h \in 1 .. i - 1 : h \in V /\ h < i /\ h < k
      BY <1>1, <2>1
    <3> QED
      BY <1>4, <2>1, <3>1
  <2>4. \A h \in R(i) : h \in 1 .. i - 1
    BY <1>1, <1>5
  <2> QED
    BY <2>2, <2>3, <2>4 DEF k
<1> QED
  BY <1>9, <1>10, <1>11 DEF ColumnHolds, e

-----------------------------------------------------------------------------
\* The orders: minimum degree.

LEMMA VertexSets ==
  /\ IsFiniteSet(V) /\ Cardinality(V) = N
  /\ \A S \in SUBSET V : IsFiniteSet(S) /\ Cardinality(S) \in 0 .. N
<1>1. /\ N \in Nat \ {0} /\ V = 1 .. N
  BY OrderAssumption DEF V
<1>2. IsFiniteSet(V) /\ Cardinality(V) = N
  BY <1>1, FS_Interval
<1>3. ASSUME NEW S \in SUBSET V
      PROVE  IsFiniteSet(S) /\ Cardinality(S) \in 0 .. N
  <2>1. IsFiniteSet(S) /\ Cardinality(S) <= N
    BY <1>2, FS_Subset
  <2>2. Cardinality(S) \in Nat
    BY <2>1, FS_CardinalityType
  <2> QED
    BY <1>1, <2>1, <2>2
<1> QED
  BY <1>2, <1>3

LEMMA Least ==
  ASSUME NEW B \in SUBSET Nat, B # {}
  PROVE  \E m \in B : \A y \in B : m <= y
<1> DEFINE R == OpToRel(<, Nat)
<1>1. IsWellFoundedOn(R, Nat)
  BY NatLessThanWellFounded
<1>2. PICK m \in B : \A y \in B : ~ <<y, m>> \in R
  BY <1>1, WFMin
<1>3. ASSUME NEW y \in B PROVE m <= y
  <2>1. ~ <<y, m>> \in R /\ m \in Nat /\ y \in Nat
    BY <1>2
  <2>2. ~ y < m
    BY <2>1 DEF OpToRel
  <2>3. m \in Nat /\ y \in Nat
    OBVIOUS
  <2> HIDE DEF R
  <2> QED
    BY <2>2, <2>3
<1> QED
  BY <1>3

\* A list of a set is as long as the set is large.
LEMMA AscendingCounts ==
  ASSUME NEW S \in SUBSET V
  PROVE  /\ Ascending(S) \in Seq(V) /\ Len(Ascending(S)) = Cardinality(S)
         /\ ToSet(Ascending(S)) = S
<1> DEFINE L == Listing(S)
           C(m) == Cardinality(S \cap 1 .. m)
           T == {m \in 0 .. N : Len(L[m]) = C(m)}
<1>1. N \in Nat /\ V = 1 .. N
  BY OrderAssumption DEF V
<1>2. /\ L \in [0 .. N -> Seq(S)] /\ L[0] = << >>
      /\ \A k \in V : L[k] = IF k \in S THEN Append(L[k - 1], k) ELSE L[k - 1]
  BY ListingIs
<1> HIDE DEF L
<1>3. 0 \in T
  <2>1. S \cap 1 .. 0 = {} /\ Len(L[0]) = 0
    BY <1>2
  <2>2. C(0) = 0
    BY <2>1, FS_EmptySet
  <2> QED
    BY <1>1, <2>1, <2>2
<1>4. ASSUME NEW m \in 1 .. N, m - 1 \in T PROVE m \in T
  <2>1. m - 1 \in 0 .. N /\ m \in V /\ L[m - 1] \in Seq(S)
    <3>1. m - 1 \in 0 .. N /\ m \in V
      BY <1>1
    <3> QED
      BY <1>2, <3>1
  <2> DEFINE B == S \cap 1 .. m - 1
  <2>2. IsFiniteSet(B) /\ m \notin B
    <3>1. B \in SUBSET V
      OBVIOUS
    <3> QED
      BY <3>1, VertexSets
  <2>3. CASE m \in S
    <3>1. S \cap 1 .. m = B \cup {m}
      BY <2>3
    <3>2. C(m) = C(m - 1) + 1
      <4> HIDE DEF B
      <4>1. Cardinality(B \cup {m}) = Cardinality(B) + 1
        BY <2>2, FS_AddElement
      <4> QED
        BY <3>1, <4>1 DEF B
    <3>3. Len(L[m]) = Len(L[m - 1]) + 1
      <4>1. L[m] = Append(L[m - 1], m)
        BY <1>2, <2>1, <2>3
      <4> QED
        BY <2>1, <2>3, <4>1
    <3> QED
      BY <1>4, <3>2, <3>3
  <2>4. CASE m \notin S
    <3>1. S \cap 1 .. m = B
      BY <2>4
    <3>2. L[m] = L[m - 1]
      BY <1>2, <2>1, <2>4
    <3> QED
      BY <1>4, <3>1, <3>2
  <2> QED
    BY <2>3, <2>4
<1>5. T = 0 .. N
  <2>1. T \in SUBSET (0 .. N)
    OBVIOUS
  <2> HIDE DEF T
  <2> QED
    BY <1>1, <1>3, <1>4, <2>1, Induct
<1>6. N \in T /\ S \cap 1 .. N = S
  <2>1. N \in 0 .. N
    BY <1>1
  <2>2. S \cap 1 .. N = S
    BY <1>1
  <2> HIDE DEF T
  <2> QED
    BY <1>5, <2>1, <2>2
<1>7. Len(Ascending(S)) = Cardinality(S)
  BY <1>6 DEF Ascending, L
<1>8. Ascending(S) \in Seq(S)
  BY AscendingIs
<1> DEFINE b == Ascending(S)
<1>9. \A v \in S : \E p \in DOMAIN b : b[p] = v
  BY ListingHas
<1> HIDE DEF b
<1>10. b \in Seq(V) /\ ToSet(b) = S
  <2>1. b \in Seq(S)
    BY <1>8 DEF b
  <2>2. b \in Seq(V) /\ \A p \in DOMAIN b : b[p] \in S
    BY <2>1
  <2> QED
    BY <1>9, <2>2 DEF ToSet
<1> QED
  BY <1>7, <1>10 DEF b

MdTypes ==
    [state : [V -> {"var", "elt", "dead"}], var : [V -> SUBSET V],
     elt : [V -> SUBSET V], deg : [V -> Nat], perm : Seq(V), last : Seq(V)]

LEMMA MdNextIs ==
  ASSUME NEW g \in MdTypes, ~MdDone(g) PROVE MdNext(g) \in MdLive(g)
<1> DEFINE L == MdLive(g)
           D == {g.deg[v] : v \in L}
<1>1. L # {} /\ L \in SUBSET V /\ g.deg \in [V -> Nat]
  BY DEF MdDone, MdLive, MdTypes
<1> HIDE DEF L
<1>2. PICK d \in D : \A y \in D : d <= y
  <2>1. D # {} /\ D \in SUBSET Nat
    BY <1>1
  <2> HIDE DEF D
  <2> QED
    BY <2>1, Least
<1> DEFINE M == {v \in L : g.deg[v] = d}
<1>3. PICK p \in M : \A y \in M : p <= y
  <2>1. PICK v \in L : g.deg[v] = d
    BY <1>2
  <2>2. v \in M
    BY <2>1
  <2>3. M # {} /\ M \in SUBSET Nat
    <3>1. V \in SUBSET Nat
      BY DEF V
    <3> QED
      BY <1>1, <2>2, <3>1
  <2> HIDE DEF M
  <2> QED
    BY <2>3, Least
<1> DEFINE First(q) == \A v \in L : g.deg[q] < g.deg[v]
                                    \/ (g.deg[q] = g.deg[v] /\ q <= v)
<1>4. ASSUME NEW v \in L
      PROVE  g.deg[p] < g.deg[v] \/ (g.deg[p] = g.deg[v] /\ p <= v)
  <2>1. p \in L /\ g.deg[p] = d /\ g.deg[p] <= g.deg[v]
    BY <1>2, <1>3
  <2>2. g.deg[p] \in Nat /\ g.deg[v] \in Nat
    BY <1>1, <2>1
  <2>3. g.deg[v] = d => p <= v
    BY <1>3
  <2> QED
    BY <2>1, <2>2, <2>3
<1>5. \E q \in L : First(q)
  BY <1>3, <1>4
<1>6. MdNext(g) = CHOOSE q \in L : First(q)
  BY DEF MdNext, L
<1> HIDE DEF First
<1> QED
  BY <1>5, <1>6 DEF L

\* What the order of the vertices of U is between two eliminations.
MdGood(g, U) ==
    /\ g \in MdTypes
    /\ Len(g.perm) + Cardinality(MdLive(g)) + Len(g.last) = Cardinality(U)
    /\ ToSet(g.perm) \cup MdLive(g) \cup ToSet(g.last) = U

LEMMA MdBuildIs ==
  ASSUME NEW U \in SUBSET V, NEW G, NEW dense \in Int
  PROVE  MdGood(MdBuild(U, G, dense), U)
<1> DEFINE last == {v \in U : Degree(G, v) > dense}
           live == U \ last
           fs == [v \in V |-> IF v \in live THEN "var" ELSE "dead"]
           fv == [v \in V |-> IF v \in live THEN Neighbours(G, v) \cap live
                                            ELSE {}]
           var == Listed(fv)
           fe == [v \in V |-> {}]
           fd == [v \in V |-> Cardinality(var[v])]
           g == MdBuild(U, G, dense)
<1>1. g = [state |-> Listed(fs), var |-> var, elt |-> Listed(fe),
           deg |-> Listed(fd), perm |-> << >>, last |-> Ascending(last)]
  BY DEF MdBuild
<1>2. last \in SUBSET V /\ live \in SUBSET V /\ live = U \ last /\ last \in SUBSET U
  OBVIOUS
<1> HIDE DEF last, live
<1>3. /\ fs \in [V -> {"var", "elt", "dead"}] /\ fv \in [V -> SUBSET V]
      /\ fe \in [V -> SUBSET V]
  BY <1>2
<1>4. Listed(fs) = fs /\ Listed(fv) = fv /\ Listed(fe) = fe
  <2> HIDE DEF fs, fv, fe
  <2> QED
    BY <1>3, ListedIs
<1>5. fd \in [V -> Nat]
  <2>1. \A v \in V : var[v] \in SUBSET V
    BY <1>3, <1>4
  <2> HIDE DEF var
  <2>2. \A v \in V : Cardinality(var[v]) \in Nat
    BY <2>1, VertexSets
  <2> QED
    BY <2>2
<1>6. Listed(fd) = fd
  <2> HIDE DEF fd
  <2> QED
    BY <1>5, ListedIs
<1>7. /\ Ascending(last) \in Seq(V) /\ ToSet(Ascending(last)) = last
      /\ Len(Ascending(last)) = Cardinality(last)
  BY <1>2, AscendingCounts
<1>8. g \in MdTypes
  <2>1. var \in [V -> SUBSET V] /\ << >> \in Seq(V)
    <3>1. var \in [V -> SUBSET V]
      <4> HIDE DEF fv
      <4> QED
        BY <1>3, <1>4
    <3> QED
      BY <3>1
  <2> HIDE DEF fs, fv, fe, fd, var
  <2>2. g = [state |-> fs, var |-> var, elt |-> fe, deg |-> fd,
             perm |-> << >>, last |-> Ascending(last)]
    BY <1>1, <1>4, <1>6
  <2> HIDE DEF g
  <2> QED
    BY <1>3, <1>5, <1>7, <2>1, <2>2 DEF MdTypes
<1>9. MdLive(g) = live
  <2>1. g.state = fs
    BY <1>1, <1>4
  <2> QED
    BY <1>2, <2>1 DEF MdLive
<1>10. Cardinality(U) = Cardinality(live) + Cardinality(last)
  <2>1. IsFiniteSet(U) /\ U \cap last = last
    BY <1>2, VertexSets
  <2>2. Cardinality(U \ last) = Cardinality(U) - Cardinality(last)
    BY <2>1, FS_Difference
  <2>3. \A S \in SUBSET V : Cardinality(S) \in Nat
    BY VertexSets
  <2>4. Cardinality(U) \in Nat /\ Cardinality(live) \in Nat /\ Cardinality(last) \in Nat
    BY <1>2, <2>3
  <2> QED
    BY <1>2, <2>2, <2>4
<1>11. \A S \in SUBSET V : Cardinality(S) \in Nat
  BY VertexSets
<1>12. g.perm = << >> /\ g.last = Ascending(last)
  BY <1>1
<1>13. ToSet(<< >>) = {} /\ Len(<< >>) = 0
  BY DEF ToSet
<1>14. Cardinality(live) \in Nat /\ Cardinality(last) \in Nat
  BY <1>2, <1>11
<1> HIDE DEF g
<1>15. Len(g.perm) + Cardinality(MdLive(g)) + Len(g.last) = Cardinality(U)
  BY <1>7, <1>9, <1>10, <1>12, <1>13, <1>14
<1>16. ToSet(g.perm) \cup MdLive(g) \cup ToSet(g.last) = U
  BY <1>2, <1>7, <1>9, <1>12, <1>13
<1> QED
  BY <1>8, <1>15, <1>16 DEF MdGood, g

LEMMA MinOfThree ==
  ASSUME NEW a \in Int, NEW b \in Int, NEW c \in Int
  PROVE  Min({a, b, c}) \in Int /\ Min({a, b, c}) \in {a, b, c}
<1> DEFINE S == {a, b, c}
           Low(m) == \A y \in S : m <= y
<1>1. \E m \in S : Low(m)
  <2>1. CASE a <= b /\ a <= c
    BY <2>1
  <2>2. CASE b <= a /\ b <= c
    BY <2>2
  <2>3. CASE c <= a /\ c <= b
    BY <2>3
  <2> QED
    BY <2>1, <2>2, <2>3
<1>2. Min(S) = CHOOSE m \in S : Low(m)
  BY DEF Min
<1>3. S \in SUBSET Int
  OBVIOUS
<1> HIDE DEF S, Low
<1>4. Min(S) \in Int /\ Min(S) \in S
  BY <1>1, <1>2, <1>3
<1> QED
  BY <1>4 DEF S

LEMMA MaxWithZero ==
  ASSUME NEW a \in Int PROVE Max({0, a}) \in Nat /\ a <= Max({0, a})
<1> DEFINE S == {0, a}
           High(m) == \A y \in S : m >= y
<1>1. \E m \in S : High(m)
  <2>1. CASE a <= 0
    BY <2>1
  <2>2. CASE a >= 0
    BY <2>2
  <2> QED
    BY <2>1, <2>2
<1>2. Max(S) = CHOOSE m \in S : High(m)
  BY DEF Max
<1>3. \A m \in S : High(m) => m \in Nat /\ a <= m
  OBVIOUS
<1> HIDE DEF S, High
<1>4. Max(S) \in Nat /\ a <= Max(S)
  BY <1>1, <1>2, <1>3
<1> QED
  BY <1>4 DEF S

LEMMA MdOutsideIs ==
  ASSUME NEW g \in MdTypes, NEW lp \in SUBSET V, NEW e \in V
  PROVE  MdOutside(g, lp, e) \in Int
<1>1. {i \in lp : e \in g.elt[i]} \in SUBSET V /\ g.var[e] \in SUBSET V
  BY DEF MdTypes
<1>2. \A S \in SUBSET V : Cardinality(S) \in Nat
  BY VertexSets
<1> DEFINE S == {i \in lp : e \in g.elt[i]}
           R == g.var[e]
<1>3. Cardinality(S) \in Nat /\ Cardinality(R) \in Nat
  <2> HIDE DEF S, R
  <2> QED
    BY <1>1, <1>2 DEF S, R
<1>4. MdOutside(g, lp, e) = Cardinality(R) - Cardinality(S)
  BY DEF MdOutside
<1> HIDE DEF S, R
<1> QED
  BY <1>3, <1>4

LEMMA MdBoundIs ==
  ASSUME NEW g \in MdTypes, NEW lp \in SUBSET V, NEW elts, NEW i \in V
  PROVE  MdBound(g, lp, elts, i) \in Nat
<1> DEFINE var == (g.var[i] \cap MdLive(g)) \ lp
           many == [e \in V |-> IF e \in elts THEN MdOutside(g, lp, e) ELSE 0]
           beyond == Total(many)
           L == MdLive(g)
           a == Cardinality(var) + (Cardinality(lp) - 1) + beyond
           b == g.deg[i] + Cardinality(lp) - 1
           c == Cardinality(L)
<1>1. many \in Seq(Int)
  <2>1. \A e \in V : MdOutside(g, lp, e) \in Int
    BY MdOutsideIs
  <2>2. many \in [V -> Int]
    BY <2>1
  <2>3. N \in Nat /\ V = 1 .. N
    BY OrderAssumption DEF V
  <2> HIDE DEF many
  <2> QED
    BY <2>2, <2>3, SeqDef
<1>2. beyond \in Int
  <2> HIDE DEF many
  <2> QED
    BY <1>1, TotalType
<1>3. L \in SUBSET V /\ g.deg[i] \in Nat
  BY DEF MdLive, MdTypes
<1>4. var \in SUBSET V
  BY <1>3
<1>5. \A S \in SUBSET V : Cardinality(S) \in Nat
  BY VertexSets
<1> DEFINE d == g.deg[i]
<1>6. MdBound(g, lp, elts, i) = Max({0, Min({a, b, c})})
  BY DEF MdBound
<1> HIDE DEF beyond, var, L
<1>7. Cardinality(var) \in Nat /\ Cardinality(lp) \in Nat /\ c \in Int
  BY <1>3, <1>4, <1>5
<1>8. a \in Int /\ b \in Int
  <2> DEFINE x0 == Cardinality(var)
             y == Cardinality(lp)
  <2>1. x0 \in Nat /\ y \in Nat /\ d \in Nat
    BY <1>3, <1>7
  <2> HIDE DEF x0, y, d
  <2>2. x0 + (y - 1) + beyond \in Int /\ d + y - 1 \in Int
    BY <1>2, <2>1
  <2> QED
    BY <2>2 DEF x0, y, d
<1> HIDE DEF a, b, c
<1>9. Min({a, b, c}) \in Int
  BY <1>7, <1>8, MinOfThree
<1> QED
  BY <1>6, <1>9, MaxWithZero

IsJoined(g, p, own, lp, h) ==
    /\ h \in MdTypes /\ h.perm = Append(g.perm, p) /\ h.last = g.last
    /\ \A v \in V : h.state[v] = IF v \in own THEN "dead"
                                 ELSE IF v = p THEN "elt" ELSE g.state[v]
    /\ \A v \in V : h.var[v] = IF v \in own THEN {}
                               ELSE IF v = p THEN lp ELSE g.var[v]
    /\ \A v \in V : h.elt[v] = IF v = p THEN {} ELSE g.elt[v]
    /\ h.deg = g.deg
LEMMA MdJoinedIs ==
  ASSUME NEW g \in MdTypes, NEW p \in V, NEW own \in SUBSET V,
         NEW lp \in SUBSET V
  PROVE  IsJoined(g, p, own, lp, MdJoined(g, p, own, lp))
<1> DEFINE h == MdJoined(g, p, own, lp)
           fs == [v \in V |-> IF v \in own THEN "dead"
                              ELSE IF v = p THEN "elt" ELSE g.state[v]]
           fv == [v \in V |-> IF v \in own THEN {}
                              ELSE IF v = p THEN lp ELSE g.var[v]]
           fe == [v \in V |-> IF v = p THEN {} ELSE g.elt[v]]
<1>1. h = [g EXCEPT !.state = Listed(fs), !.var = Listed(fv),
                    !.elt = Listed(fe), !.perm = Append(g.perm, p)]
  BY DEF MdJoined
<1>2. /\ fs \in [V -> {"var", "elt", "dead"}] /\ fv \in [V -> SUBSET V]
      /\ fe \in [V -> SUBSET V]
  BY DEF MdTypes
<1>3. Listed(fs) = fs /\ Listed(fv) = fv /\ Listed(fe) = fe
  <2> HIDE DEF fs, fv, fe
  <2> QED
    BY <1>2, ListedIs
<1>4. \A v \in V :
         /\ fs[v] = IF v \in own THEN "dead"
                    ELSE IF v = p THEN "elt" ELSE g.state[v]
         /\ fv[v] = IF v \in own THEN {} ELSE IF v = p THEN lp ELSE g.var[v]
         /\ fe[v] = IF v = p THEN {} ELSE g.elt[v]
  OBVIOUS
<1> HIDE DEF fs, fv, fe, h
<1>5. h = [g EXCEPT !.state = fs, !.var = fv, !.elt = fe,
                    !.perm = Append(g.perm, p)]
  BY <1>1, <1>3
<1>6. /\ h.state = fs /\ h.perm = Append(g.perm, p) /\ h.last = g.last
      /\ h.var = fv /\ h.elt = fe /\ h.deg = g.deg
  BY <1>5 DEF MdTypes
<1>7. Append(g.perm, p) \in Seq(V)
  BY DEF MdTypes
<1>8. h \in MdTypes
  BY <1>2, <1>5, <1>7 DEF MdTypes
<1> QED
  BY <1>4, <1>6, <1>8 DEF h, IsJoined

\* What an elimination makes of each vertex.
MdOwn(g, p) == {e \in g.elt[p] : g.state[e] = "elt"}
MdNear(g, p) ==
    (MdLive(g) \cap (g.var[p] \cup UNION {g.var[e] : e \in MdOwn(g, p)})) \ {p}
IsEliminated(g, p, h) ==
    LET near == MdNear(g, p)
        j == MdJoined(g, p, MdOwn(g, p), near)
        touched == MdTouched(j, near)
        inside == {e \in touched : MdOutside(j, near, e) = 0}
        elt(i) == {e \in j.elt[i] : e \in touched \ inside}
        var(i) == (j.var[i] \cap MdLive(j)) \ near
    IN  \A v \in V :
            /\ h.state[v] = IF v \in inside THEN "dead" ELSE j.state[v]
            /\ h.elt[v] = IF v \in near THEN elt(v) \cup {p} ELSE j.elt[v]
            /\ h.var[v] = IF v \in inside THEN {}
                          ELSE IF v \in near THEN var(v) ELSE j.var[v]
            /\ h.deg[v] = IF v \in near THEN MdBound(j, near, elt(v), v)
                          ELSE j.deg[v]

\* An elimination takes the vertex out of the live ones and puts it next.
LEMMA MdEliminateIs ==
  ASSUME NEW g \in MdTypes, NEW p \in V
  PROVE  LET h == MdEliminate(g, p)
         IN  /\ h \in MdTypes /\ h.perm = Append(g.perm, p)
             /\ h.last = g.last /\ MdLive(h) = MdLive(g) \ {p}
             /\ IsEliminated(g, p, h)
<1> DEFINE gone == MdOwn(g, p)
           near == MdNear(g, p)
           j == MdJoined(g, p, gone, near)
           touched == MdTouched(j, near)
           inside == {e \in touched : MdOutside(j, near, e) = 0}
           elt(i) == {e \in j.elt[i] : e \in touched \ inside}
           var(i) == (j.var[i] \cap MdLive(j)) \ near
           fs == [v \in V |-> IF v \in inside THEN "dead" ELSE j.state[v]]
           fe == [v \in V |-> IF v \in near THEN elt(v) \cup {p} ELSE j.elt[v]]
           fv == [v \in V |-> IF v \in inside THEN {}
                              ELSE IF v \in near THEN var(v) ELSE j.var[v]]
           fd == [v \in V |-> IF v \in near THEN MdBound(j, near, elt(v), v)
                              ELSE j.deg[v]]
           h == MdEliminate(g, p)
<1>1. h = [j EXCEPT !.state = Listed(fs), !.elt = Listed(fe),
                    !.var = Listed(fv), !.deg = Listed(fd)]
  BY DEF MdEliminate, MdOwn, MdNear
<1>2. /\ gone \in SUBSET V /\ near \in SUBSET V
      /\ \A e \in gone : g.state[e] = "elt"
  BY DEF MdLive, MdTypes, MdOwn, MdNear
<1> HIDE DEF gone, near
<1>3. /\ j \in MdTypes /\ j.perm = Append(g.perm, p) /\ j.last = g.last
      /\ \A v \in V : j.state[v] = IF v \in gone THEN "dead"
                                   ELSE IF v = p THEN "elt" ELSE g.state[v]
  <2>1. gone \in SUBSET V /\ near \in SUBSET V
    BY <1>2
  <2>2. IsJoined(g, p, gone, near, MdJoined(g, p, gone, near))
    BY <2>1, MdJoinedIs
  <2> QED
    BY <2>2 DEF IsJoined
<1> HIDE DEF j
<1>4. touched \in SUBSET V /\ \A e \in touched : j.state[e] = "elt"
  BY <1>2, <1>3 DEF MdTouched, MdTypes
<1>5. inside \in SUBSET V /\ \A e \in inside : j.state[e] = "elt"
  BY <1>4
<1> HIDE DEF touched, inside
<1>6. \A v \in V : elt(v) \in SUBSET V /\ var(v) \in SUBSET V
  BY <1>3 DEF MdTypes
<1>7. \A v \in V : MdBound(j, near, elt(v), v) \in Nat
  <2> HIDE DEF elt
  <2> QED
    BY <1>2, <1>3, MdBoundIs
<1>8. /\ fs \in [V -> {"var", "elt", "dead"}] /\ fe \in [V -> SUBSET V]
      /\ fv \in [V -> SUBSET V] /\ fd \in [V -> Nat]
  <2> HIDE DEF elt, var
  <2>1. fs \in [V -> {"var", "elt", "dead"}]
    BY <1>3 DEF MdTypes
  <2>2. fe \in [V -> SUBSET V] /\ fv \in [V -> SUBSET V]
    BY <1>3, <1>6 DEF MdTypes
  <2>3. fd \in [V -> Nat]
    BY <1>3, <1>7 DEF MdTypes
  <2> HIDE DEF fs, fe, fv, fd
  <2> QED
    BY <2>1, <2>2, <2>3
<1>9. \A v \in V :
         /\ fs[v] = IF v \in inside THEN "dead" ELSE j.state[v]
         /\ fe[v] = IF v \in near THEN elt(v) \cup {p} ELSE j.elt[v]
         /\ fv[v] = IF v \in inside THEN {}
                    ELSE IF v \in near THEN var(v) ELSE j.var[v]
         /\ fd[v] = IF v \in near THEN MdBound(j, near, elt(v), v)
                    ELSE j.deg[v]
  <2> HIDE DEF elt, var
  <2> QED
    OBVIOUS
<1> HIDE DEF fs, fe, fv, fd, h
<1>10. Listed(fs) = fs /\ Listed(fe) = fe /\ Listed(fv) = fv /\ Listed(fd) = fd
  BY <1>8, ListedIs
<1>11. h = [j EXCEPT !.state = fs, !.elt = fe, !.var = fv, !.deg = fd]
  BY <1>1, <1>10
<1>12. h \in MdTypes
  BY <1>3, <1>8, <1>11 DEF MdTypes
<1>13. /\ h.state = fs /\ h.perm = j.perm /\ h.last = j.last
       /\ h.elt = fe /\ h.var = fv /\ h.deg = fd
  BY <1>3, <1>11 DEF MdTypes
<1>14. ASSUME NEW v \in V
       PROVE  h.state[v] = "var" <=> g.state[v] = "var" /\ v # p
  <2>1. h.state[v] = IF v \in inside THEN "dead" ELSE j.state[v]
    BY <1>9, <1>13
  <2>2. j.state[v] = IF v \in gone THEN "dead"
                     ELSE IF v = p THEN "elt" ELSE g.state[v]
    BY <1>3
  <2>3. v \in inside => j.state[v] = "elt"
    BY <1>5
  <2>4. v \in gone => g.state[v] = "elt"
    BY <1>2
  <2> QED
    BY <2>1, <2>2, <2>3, <2>4
<1>15. MdLive(h) = MdLive(g) \ {p}
  BY <1>14 DEF MdLive
<1>16. \A v \in V :
          /\ h.state[v] = IF v \in inside THEN "dead" ELSE j.state[v]
          /\ h.elt[v] = IF v \in near THEN elt(v) \cup {p} ELSE j.elt[v]
          /\ h.var[v] = IF v \in inside THEN {}
                        ELSE IF v \in near THEN var(v) ELSE j.var[v]
          /\ h.deg[v] = IF v \in near THEN MdBound(j, near, elt(v), v)
                        ELSE j.deg[v]
  <2> HIDE DEF elt, var
  <2> QED
    BY <1>9, <1>13
<1>17. IsEliminated(g, p, h)
  <2> HIDE DEF h
  <2> QED
    BY <1>16 DEF IsEliminated, touched, inside, j, gone, near
<1> QED
  BY <1>3, <1>12, <1>13, <1>15, <1>17 DEF h

LEMMA ToSetAppend ==
  ASSUME NEW s \in Seq(V), NEW v \in V
  PROVE  ToSet(Append(s, v)) = ToSet(s) \cup {v}
<1>1. Append(s, v) = s \o <<v>> /\ <<v>> \in Seq(V)
  OBVIOUS
<1>2. ToSet(<<v>>) = {v}
  BY DEF ToSet
<1>3. ToSet(s \o <<v>>) = ToSet(s) \cup ToSet(<<v>>)
  BY <1>1, ToSetOfBoth
<1> QED
  BY <1>1, <1>2, <1>3

LEMMA MdStepStays ==
  ASSUME NEW U \in SUBSET V, NEW g, MdGood(g, U), ~MdDone(g)
  PROVE  /\ MdGood(MdStep(g), U)
         /\ Cardinality(MdLive(MdStep(g))) = Cardinality(MdLive(g)) - 1
<1> DEFINE p == MdNext(g)
           h == MdStep(g)
           live == MdLive(g)
           c == Cardinality(live)
<1>1. /\ g \in MdTypes /\ live \in SUBSET V
      /\ Len(g.perm) + c + Len(g.last) = Cardinality(U)
      /\ ToSet(g.perm) \cup live \cup ToSet(g.last) = U
  BY DEF MdGood, MdLive
<1>2. p \in live /\ p \in V
  BY <1>1, MdNextIs
<1>3. /\ h \in MdTypes /\ h.perm = Append(g.perm, p) /\ h.last = g.last
      /\ MdLive(h) = live \ {p}
  <2> HIDE DEF p
  <2> QED
    BY <1>1, <1>2, MdEliminateIs DEF MdStep, p
<1>4. c \in Nat /\ Cardinality(live \ {p}) = c - 1
  <2> HIDE DEF p, live
  <2>1. IsFiniteSet(live) /\ Cardinality(live) \in Nat
    BY <1>1, VertexSets
  <2> QED
    BY <1>2, <2>1, FS_RemoveElement
<1>5. g.perm \in Seq(V) /\ g.last \in Seq(V)
  BY <1>1 DEF MdTypes
<1> HIDE DEF p, h, live, c
<1>6. Len(h.perm) + Cardinality(MdLive(h)) + Len(h.last) = Cardinality(U)
  <2>1. Len(h.perm) = Len(g.perm) + 1 /\ Len(g.perm) \in Nat /\ Len(g.last) \in Nat
    BY <1>2, <1>3, <1>5
  <2>2. Cardinality(MdLive(h)) = c - 1 /\ h.last = g.last
    BY <1>3, <1>4
  <2> DEFINE m == Len(g.perm)
             n == Len(g.last)
  <2>3. m \in Nat /\ n \in Nat /\ m + c + n = Cardinality(U)
    BY <1>1, <2>1
  <2> HIDE DEF m, n
  <2>4. (m + 1) + (c - 1) + n = Cardinality(U)
    BY <1>4, <2>3
  <2> QED
    BY <2>1, <2>2, <2>4 DEF m, n
<1>7. ToSet(h.perm) \cup MdLive(h) \cup ToSet(h.last) = U
  <2>1. ToSet(h.perm) = ToSet(g.perm) \cup {p}
    BY <1>2, <1>3, <1>5, ToSetAppend
  <2> QED
    BY <1>1, <1>2, <1>3, <2>1
<1>8. MdGood(h, U)
  BY <1>3, <1>6, <1>7 DEF MdGood
<1> QED
  BY <1>3, <1>4, <1>8 DEF h, live, c

LEMMA MdStepsLoop ==
  ASSUME NEW U \in SUBSET V, NEW g, MdGood(g, U)
  PROVE  LET h == MdSteps(g)
         IN  /\ h \in [0 .. N -> {b \in MdTypes : MdGood(b, U)}] /\ h[0] = g
             /\ \A q \in 1 .. N : h[q] = IF MdDone(h[q - 1]) THEN h[q - 1] ELSE MdStep(h[q - 1])
<1> DEFINE n == N
           T == {b \in MdTypes : MdGood(b, U)}
           start == g
           Next1(b, q) == IF MdDone(b) THEN b ELSE MdStep(b)
           step == [q \in 1 .. n |-> [b \in T |-> Next1(b, q)]]
           Def(f) == f = [q \in 0 .. n |-> IF q = 0 THEN start
                                           ELSE Next1(f[q - 1], q)]
           h == MdSteps(g)
<1>1. n \in Nat /\ start \in T
  BY OrderAssumption DEF MdGood
<1>2. h = CHOOSE f : Def(f)
  BY DEF MdSteps
<1>3. ASSUME NEW q \in 1 .. n, NEW b \in T PROVE Next1(b, q) \in T
  <2>1. MdGood(b, U)
    BY <1>3
  <2>2. ~MdDone(b) => MdGood(MdStep(b), U)
    BY <2>1, MdStepStays
  <2>3. ~MdDone(b) => MdStep(b) \in MdTypes
    BY <2>2 DEF MdGood
  <2> QED
    BY <1>3, <2>2, <2>3
<1> HIDE DEF n, T, Next1, h, start
<1>4. step \in [1 .. n -> [T -> T]]
  BY <1>3
<1>5. \E f : Def(f)
  <2>1. PICK f : IsLoop(f, n, T, start, step)
    <3> HIDE DEF step
    <3> QED
      BY <1>1, <1>4, Loop
  <2>2. ASSUME NEW q \in 1 .. n
        PROVE  q - 1 \in 0 .. n /\ f[q] = Next1(f[q - 1], q)
    <3>1. q - 1 \in 0 .. n
      BY <1>1
    <3>2. f[q - 1] \in T /\ f[q] = step[q][f[q - 1]]
      BY <2>1, <3>1 DEF IsLoop
    <3>3. step[q][f[q - 1]] = Next1(f[q - 1], q)
      BY <3>2
    <3> QED
      BY <3>1, <3>2, <3>3
  <2> QED
    BY <1>1, <2>1, <2>2 DEF IsLoop
<1>6. Def(h)
  <2> HIDE DEF Def
  <2> QED
    BY <1>2, <1>5
<1>7. /\ h = [q \in 0 .. n |-> h[q]] /\ h[0] = start
      /\ \A q \in 1 .. n : h[q] = Next1(h[q - 1], q)
  <2>1. 0 \in 0 .. n /\ \A q \in 1 .. n : q \in 0 .. n /\ q # 0
    BY <1>1
  <2>2. \A q \in 0 .. n : h[q] = IF q = 0 THEN start ELSE Next1(h[q - 1], q)
    BY <1>6
  <2>3. h = [q \in 0 .. n |-> h[q]]
    BY <1>6, <2>2
  <2> QED
    BY <2>1, <2>2, <2>3
<1> HIDE DEF Def
<1>8. \A q \in 1 .. n : h[q - 1] \in T => h[q] \in T
  BY <1>3, <1>7
<1>9. h \in [0 .. n -> T]
  BY <1>1, <1>7, <1>8, LoopStays
<1> QED
  BY <1>7, <1>9 DEF n, T, Next1, h, start

\* N eliminations are enough.
LEMMA MdStepsAre ==
  ASSUME NEW U \in SUBSET V, NEW g, MdGood(g, U)
  PROVE  MdGood(MdSteps(g)[N], U) /\ MdDone(MdSteps(g)[N])
<1> DEFINE h == MdSteps(g)
           C(k) == Cardinality(MdLive(h[k]))
           T == {k \in 0 .. N : MdDone(h[k]) \/ C(k) <= N - k}
<1>1. N \in Nat
  BY OrderAssumption
<1>2. /\ \A k \in 0 .. N : MdGood(h[k], U)
      /\ h[0] = g
      /\ \A k \in 1 .. N : h[k] = IF MdDone(h[k - 1]) THEN h[k - 1]
                                  ELSE MdStep(h[k - 1])
  BY MdStepsLoop
<1> HIDE DEF h
<1>3. \A k \in 0 .. N : C(k) \in 0 .. N
  <2>1. \A k \in 0 .. N : MdLive(h[k]) \in SUBSET V
    BY DEF MdLive
  <2> QED
    BY <2>1, VertexSets
<1>4. 0 \in T
  BY <1>1, <1>3
<1>5. ASSUME NEW k \in 1 .. N, k - 1 \in T PROVE k \in T
  <2>1. k - 1 \in 0 .. N /\ k \in 0 .. N
    BY <1>1
  <2>2. MdGood(h[k - 1], U)
    BY <1>2, <2>1
  <2>3. CASE MdDone(h[k - 1])
    BY <1>2, <2>1, <2>3
  <2>4. CASE ~MdDone(h[k - 1])
    <3>1. h[k] = MdStep(h[k - 1])
      BY <1>2, <2>4
    <3>2. C(k) = C(k - 1) - 1
      BY <2>2, <2>4, <3>1, MdStepStays
    <3>3. C(k - 1) <= N - (k - 1) /\ C(k - 1) \in 0 .. N
      BY <1>3, <1>5, <2>1, <2>4
    <3> DEFINE b == C(k - 1)
               c == C(k)
    <3>4. c \in 0 .. N
      BY <1>3, <2>1
    <3>5. c <= N - k
      <4> HIDE DEF b, c
      <4>1. c = b - 1 /\ b <= N - (k - 1) /\ b \in 0 .. N /\ k \in Nat
        BY <3>2, <3>3, <2>1 DEF b, c
      <4> QED
        BY <1>1, <4>1
    <3> QED
      BY <2>1, <3>5
  <2> QED
    BY <2>3, <2>4
<1>6. T = 0 .. N
  <2>1. T \in SUBSET (0 .. N)
    OBVIOUS
  <2> HIDE DEF T
  <2> QED
    BY <1>1, <1>4, <1>5, <2>1, Induct
<1>7. N \in 0 .. N
  BY <1>1
<1>8. MdDone(h[N]) \/ C(N) = 0
  <2>1. MdDone(h[N]) \/ C(N) <= N - N
    BY <1>6, <1>7
  <2>2. C(N) \in 0 .. N
    BY <1>3, <1>7
  <2> HIDE DEF C
  <2> QED
    BY <1>1, <2>1, <2>2
<1>9. C(N) = 0 => MdDone(h[N])
  <2> DEFINE live == MdLive(h[N])
  <2>1. live \in SUBSET V
    BY DEF MdLive
  <2> HIDE DEF live
  <2>2. IsFiniteSet(live)
    BY <2>1, VertexSets
  <2>3. Cardinality(live) = 0 => live = {}
    BY <2>2, FS_EmptySet
  <2> QED
    BY <2>3 DEF MdDone, live
<1> QED
  BY <1>2, <1>7, <1>8, <1>9 DEF h

LEMMA MdPermIs ==
  ASSUME NEW U \in SUBSET V, NEW g, MdGood(g, U), MdDone(g)
  PROVE  /\ MdPerm(g) \in Seq(V) /\ Len(MdPerm(g)) = Cardinality(U)
         /\ ToSet(MdPerm(g)) = U
<1>1. /\ g.perm \in Seq(V) /\ g.last \in Seq(V) /\ MdLive(g) = {}
      /\ Len(g.perm) + Cardinality(MdLive(g)) + Len(g.last) = Cardinality(U)
      /\ ToSet(g.perm) \cup MdLive(g) \cup ToSet(g.last) = U
  BY DEF MdGood, MdTypes, MdDone
<1>2. Cardinality({}) = 0
  BY FS_EmptySet
<1> DEFINE s == g.perm
           t == g.last
<1> HIDE DEF s, t
<1>3. /\ s \in Seq(V) /\ t \in Seq(V) /\ Len(s) + 0 + Len(t) = Cardinality(U)
      /\ ToSet(s) \cup ToSet(t) = U
  BY <1>1, <1>2 DEF s, t
<1>4. s \o t \in Seq(V) /\ Len(s \o t) = Len(s) + Len(t)
  BY <1>3, ConcatProperties
<1>5. Len(s) \in Nat /\ Len(t) \in Nat
  BY <1>3
<1>6. ToSet(s \o t) = U
  BY <1>3, ToSetOfBoth
<1>7. Len(s \o t) = Cardinality(U)
  BY <1>3, <1>4, <1>5
<1> QED
  BY <1>4, <1>6, <1>7 DEF MdPerm, s, t

\* Ordering a part keeps what it lists.
LEMMA MdOrderIs ==
  ASSUME NEW G, NEW s \in Seq(V), Len(s) <= N
  PROVE  /\ MdOrder(G, s) \in Seq(V) /\ Len(MdOrder(G, s)) = Len(s)
         /\ ToSet(MdOrder(G, s)) = ToSet(s)
<1> DEFINE U == DOMAIN s
           local == {e \in SUBSET U : {s[k] : k \in e} \in G}
           b == MdBuild(U, local, Len(s))
           perm == MdPerm(MdSteps(b)[N])
           r == [k \in U |-> s[perm[k]]]
<1>1. U = 1 .. Len(s) /\ Len(s) \in 0 .. N /\ U \in SUBSET V /\ Len(s) \in Int
  BY OrderAssumption DEF V
<1>2. Cardinality(U) = Len(s)
  BY <1>1, FS_Interval
<1>3. MdOrder(G, s) = r
  BY DEF MdOrder
<1> HIDE DEF local, U
<1>4. MdGood(b, U)
  BY <1>1, MdBuildIs
<1> HIDE DEF b
<1>5. /\ perm \in Seq(V) /\ Len(perm) = Cardinality(U) /\ ToSet(perm) = U
  BY <1>1, <1>4, MdStepsAre, MdPermIs
<1> HIDE DEF perm
<1>6. perm \in [U -> U] /\ \A k \in U : \E q \in U : perm[q] = k
  BY <1>1, <1>2, <1>5 DEF ToSet
<1>7. s \in [U -> V]
  BY <1>1
<1>8. r \in [U -> V]
  BY <1>6, <1>7
<1>9. ToSet(r) = ToSet(s)
  <2>1. DOMAIN r = U /\ DOMAIN s = U
    BY <1>7
  <2>2. {r[q] : q \in U} = {s[k] : k \in U}
    BY <1>6
  <2> HIDE DEF r
  <2> QED
    BY <2>1, <2>2 DEF ToSet
<1>10. r \in Seq(V) /\ Len(r) = Len(s)
  <2> HIDE DEF r
  <2>1. r \in [1 .. Len(s) -> V] /\ Len(s) \in Nat
    BY <1>1, <1>8
  <2> QED
    BY <2>1, SeqDef
<1> QED
  BY <1>3, <1>9, <1>10

-----------------------------------------------------------------------------
\* The orders: nested dissection.

LEMMA ChoosingIs ==
  ASSUME NEW s \in Seq(V), NEW S
  PROVE  LET h == Choosing(s, S)
         IN  /\ h \in [0 .. Len(s) -> Seq(V)] /\ h[0] = << >>
             /\ \A q \in 1 .. Len(s) : h[q] = IF s[q] \in S THEN Append(h[q - 1], s[q]) ELSE h[q - 1]
<1> DEFINE n == Len(s)
           T == Seq(V)
           start == << >>
           Next1(b, q) == IF s[q] \in S THEN Append(b, s[q]) ELSE b
           step == [q \in 1 .. n |-> [b \in T |-> Next1(b, q)]]
           Def(f) == f = [q \in 0 .. n |-> IF q = 0 THEN start
                                           ELSE Next1(f[q - 1], q)]
           h == Choosing(s, S)
<1>1. n \in Nat /\ start \in T
  OBVIOUS
<1>2. h = CHOOSE f : Def(f)
  BY DEF Choosing
<1>3. ASSUME NEW q \in 1 .. n, NEW b \in T PROVE Next1(b, q) \in T
  <2>1. s[q] \in V
    OBVIOUS
  <2> QED
    BY <2>1
<1> HIDE DEF n, T, Next1, h, start
<1>4. step \in [1 .. n -> [T -> T]]
  BY <1>3
<1>5. \E f : Def(f)
  <2>1. PICK f : IsLoop(f, n, T, start, step)
    <3> HIDE DEF step
    <3> QED
      BY <1>1, <1>4, Loop
  <2>2. ASSUME NEW q \in 1 .. n
        PROVE  q - 1 \in 0 .. n /\ f[q] = Next1(f[q - 1], q)
    <3>1. q - 1 \in 0 .. n
      BY <1>1
    <3>2. f[q - 1] \in T /\ f[q] = step[q][f[q - 1]]
      BY <2>1, <3>1 DEF IsLoop
    <3>3. step[q][f[q - 1]] = Next1(f[q - 1], q)
      BY <3>2
    <3> QED
      BY <3>1, <3>2, <3>3
  <2> QED
    BY <1>1, <2>1, <2>2 DEF IsLoop
<1>6. Def(h)
  <2> HIDE DEF Def
  <2> QED
    BY <1>2, <1>5
<1>7. /\ h = [q \in 0 .. n |-> h[q]] /\ h[0] = start
      /\ \A q \in 1 .. n : h[q] = Next1(h[q - 1], q)
  <2>1. 0 \in 0 .. n /\ \A q \in 1 .. n : q \in 0 .. n /\ q # 0
    BY <1>1
  <2>2. \A q \in 0 .. n : h[q] = IF q = 0 THEN start ELSE Next1(h[q - 1], q)
    BY <1>6
  <2>3. h = [q \in 0 .. n |-> h[q]]
    BY <1>6, <2>2
  <2> QED
    BY <2>1, <2>2, <2>3
<1> HIDE DEF Def
<1>8. \A q \in 1 .. n : h[q - 1] \in T => h[q] \in T
  BY <1>3, <1>7
<1>9. h \in [0 .. n -> T]
  BY <1>1, <1>7, <1>8, LoopStays
<1> QED
  BY <1>7, <1>9 DEF n, T, Next1, h, start

LEMMA ChosenNone ==
  ASSUME NEW s \in Seq(V) PROVE Chosen(s, {}) = << >>
<1> DEFINE n == Len(s)
           h == Choosing(s, {})
           T == {m \in 0 .. n : h[m] = << >>}
<1>1. n \in Nat
  OBVIOUS
<1>2. h[0] = << >> /\ \A q \in 1 .. n : h[q] = h[q - 1]
  BY ChoosingIs
<1> HIDE DEF h
<1>3. T \in SUBSET (0 .. n) /\ 0 \in T /\ \A q \in 1 .. n : q - 1 \in T => q \in T
  BY <1>1, <1>2
<1>4. n \in 0 .. n
  BY <1>1
<1> HIDE DEF n
<1>5. T = 0 .. n
  <2> HIDE DEF T
  <2> QED
    BY <1>1, <1>3, Induct
<1> QED
  BY <1>4, <1>5 DEF Chosen, h, n

\* Three sides that divide a part divide its list.
LEMMA ChosenSplits ==
  ASSUME NEW s \in Seq(V), NEW A, NEW B, NEW C,
         \A v \in ToSet(s) : \/ v \in A /\ v \notin B /\ v \notin C
                             \/ v \notin A /\ v \in B /\ v \notin C
                             \/ v \notin A /\ v \notin B /\ v \in C
  PROVE  /\ Chosen(s, A) \in Seq(V) /\ Chosen(s, B) \in Seq(V)
         /\ Chosen(s, C) \in Seq(V)
         /\ Len(Chosen(s, A)) + Len(Chosen(s, B)) + Len(Chosen(s, C)) = Len(s)
         /\ ToSet(s) \subseteq ToSet(Chosen(s, A)) \cup ToSet(Chosen(s, B))
                                   \cup ToSet(Chosen(s, C))
<1> DEFINE n == Len(s)
           a == Choosing(s, A)
           b == Choosing(s, B)
           c == Choosing(s, C)
           Sum(m) == Len(a[m]) + Len(b[m]) + Len(c[m]) = m
           In(m) == ToSet(a[m]) \cup ToSet(b[m]) \cup ToSet(c[m])
           All(m) == \A q \in 1 .. m : s[q] \in In(m)
           T == {m \in 0 .. n : Sum(m) /\ All(m)}
<1>1. n \in Nat /\ DOMAIN s = 1 .. n
  OBVIOUS
<1>2. /\ a \in [0 .. n -> Seq(V)] /\ a[0] = << >>
      /\ \A q \in 1 .. n : a[q] = IF s[q] \in A THEN Append(a[q - 1], s[q])
                                  ELSE a[q - 1]
  BY ChoosingIs
<1>3. /\ b \in [0 .. n -> Seq(V)] /\ b[0] = << >>
      /\ \A q \in 1 .. n : b[q] = IF s[q] \in B THEN Append(b[q - 1], s[q])
                                  ELSE b[q - 1]
  BY ChoosingIs
<1>4. /\ c \in [0 .. n -> Seq(V)] /\ c[0] = << >>
      /\ \A q \in 1 .. n : c[q] = IF s[q] \in C THEN Append(c[q - 1], s[q])
                                  ELSE c[q - 1]
  BY ChoosingIs
<1>5. \A q \in 1 .. n : s[q] \in ToSet(s) /\ s[q] \in V
  BY <1>1 DEF ToSet
<1>6. Chosen(s, A) = a[n] /\ Chosen(s, B) = b[n] /\ Chosen(s, C) = c[n]
  BY DEF Chosen
<1> HIDE DEF n, a, b, c
<1>7. 0 \in T
  <2>1. Len(<< >>) = 0
    OBVIOUS
  <2>2. Sum(0)
    BY <1>2, <1>3, <1>4, <2>1
  <2>3. All(0)
    OBVIOUS
  <2>4. 0 \in 0 .. n
    BY <1>1
  <2> HIDE DEF Sum, All
  <2> QED
    BY <2>2, <2>3, <2>4
<1>8. ASSUME NEW m \in 1 .. n, m - 1 \in T PROVE m \in T
  <2> DEFINE v == s[m]
             x0 == a[m - 1]
             y == b[m - 1]
             z == c[m - 1]
  <2>1. m - 1 \in 0 .. n /\ m \in 0 .. n /\ m \in Nat
    BY <1>1
  <2>2. v \in ToSet(s) /\ v \in V
    BY <1>5
  <2>3. x0 \in Seq(V) /\ y \in Seq(V) /\ z \in Seq(V)
    BY <1>2, <1>3, <1>4, <2>1
  <2>4. /\ a[m] = IF v \in A THEN Append(x0, v) ELSE x0
        /\ b[m] = IF v \in B THEN Append(y, v) ELSE y
        /\ c[m] = IF v \in C THEN Append(z, v) ELSE z
    BY <1>2, <1>3, <1>4
  <2>5. Len(x0) + Len(y) + Len(z) = m - 1
    BY <1>8
  <2>6. \A q \in 1 .. m - 1 : s[q] \in ToSet(x0) \cup ToSet(y) \cup ToSet(z)
    BY <1>8
  <2>7. \A w \in Seq(V) : ToSet(Append(w, v)) = ToSet(w) \cup {v}
                          /\ Len(Append(w, v)) = Len(w) + 1 /\ Len(w) \in Nat
    BY <2>2, ToSetAppend
  <2>8. s[m] = v
    OBVIOUS
  <2> HIDE DEF v, x0, y, z
  <2>9. Len(x0) \in Nat /\ Len(y) \in Nat /\ Len(z) \in Nat
    BY <2>3
  <2>10. Sum(m) /\ In(m) = ToSet(x0) \cup ToSet(y) \cup ToSet(z) \cup {v}
    <3>1. CASE v \in A /\ v \notin B /\ v \notin C
      <4>1. a[m] = Append(x0, v) /\ b[m] = y /\ c[m] = z
        BY <2>4, <3>1
      <4>2. /\ Len(a[m]) = Len(x0) + 1
            /\ ToSet(a[m]) = ToSet(x0) \cup {v}
        BY <2>3, <2>7, <4>1
      <4>3. Sum(m)
        BY <2>1, <2>5, <2>9, <4>1, <4>2
      <4>4. In(m) = ToSet(x0) \cup ToSet(y) \cup ToSet(z) \cup {v}
        BY <4>1, <4>2
      <4> HIDE DEF Sum, In
      <4> QED
        BY <4>3, <4>4
    <3>2. CASE v \notin A /\ v \in B /\ v \notin C
      <4>1. a[m] = x0 /\ b[m] = Append(y, v) /\ c[m] = z
        BY <2>4, <3>2
      <4>2. /\ Len(b[m]) = Len(y) + 1
            /\ ToSet(b[m]) = ToSet(y) \cup {v}
        BY <2>3, <2>7, <4>1
      <4>3. Sum(m)
        BY <2>1, <2>5, <2>9, <4>1, <4>2
      <4>4. In(m) = ToSet(x0) \cup ToSet(y) \cup ToSet(z) \cup {v}
        BY <4>1, <4>2
      <4> HIDE DEF Sum, In
      <4> QED
        BY <4>3, <4>4
    <3>3. CASE v \notin A /\ v \notin B /\ v \in C
      <4>1. a[m] = x0 /\ b[m] = y /\ c[m] = Append(z, v)
        BY <2>4, <3>3
      <4>2. /\ Len(c[m]) = Len(z) + 1
            /\ ToSet(c[m]) = ToSet(z) \cup {v}
        BY <2>3, <2>7, <4>1
      <4>3. Sum(m)
        BY <2>1, <2>5, <2>9, <4>1, <4>2
      <4>4. In(m) = ToSet(x0) \cup ToSet(y) \cup ToSet(z) \cup {v}
        BY <4>1, <4>2
      <4> HIDE DEF Sum, In
      <4> QED
        BY <4>3, <4>4
    <3> QED
      BY <2>2, <3>1, <3>2, <3>3
  <2>11. All(m)
    <3> SUFFICES ASSUME NEW q \in 1 .. m PROVE s[q] \in In(m)
      OBVIOUS
    <3>1. CASE q = m
      BY <2>8, <2>10, <3>1
    <3>2. CASE q # m
      <4>1. q \in 1 .. m - 1
        BY <2>1, <3>2
      <4> QED
        BY <2>6, <2>10, <4>1
    <3> QED
      BY <3>1, <3>2
  <2> QED
    BY <2>1, <2>10, <2>11
<1>9. T = 0 .. n
  <2>1. T \in SUBSET (0 .. n)
    OBVIOUS
  <2> HIDE DEF T
  <2> QED
    BY <1>1, <1>7, <1>8, <2>1, Induct
<1>10. n \in 0 .. n
  BY <1>1
<1>11. Sum(n) /\ All(n)
  BY <1>9, <1>10
<1>12. a[n] \in Seq(V) /\ b[n] \in Seq(V) /\ c[n] \in Seq(V)
  BY <1>2, <1>3, <1>4, <1>10
<1>13. ToSet(s) \subseteq In(n)
  BY <1>1, <1>11 DEF ToSet
<1> QED
  BY <1>6, <1>11, <1>12, <1>13 DEF n

\* Three lists that are a division of one.
Divides(s, a, b, c) ==
    /\ a \in Seq(V) /\ b \in Seq(V) /\ c \in Seq(V)
    /\ Len(a) + Len(b) + Len(c) = Len(s)
    /\ ToSet(s) \subseteq ToSet(a) \cup ToSet(b) \cup ToSet(c)

LEMMA NdSidesDivide ==
  ASSUME NEW G, NEW s \in Seq(V), NEW w
  PROVE  LET cut == NdSides(G, s, w) IN Divides(s, cut.a, cut.b, cut.c)
<1> DEFINE S == ToSet(s)
           R == Reached(w)
           h == Height(w)
           half == Min({d \in 0 .. N : 2 * Cardinality(w[d]) >= Cardinality(S)})
           j == Min({Max({half, 1}), h - 1})
           after == {v \in S : Level(w, v) > j}
           middle == {v \in S \ after :
                         Level(w, v) = j /\ \E u \in Neighbours(G, v) \cap S :
                                                Level(w, u) = j + 1}
           cut == NdSides(G, s, w)
<1>1. cut = IF R # S
            THEN [a |-> Chosen(s, S \cap R), b |-> Chosen(s, S \ R),
                  c |-> << >>]
            ELSE [a |-> Chosen(s, S \ (after \cup middle)),
                  b |-> Chosen(s, after), c |-> Chosen(s, middle)]
  BY DEF NdSides
<1>2. after \in SUBSET S /\ middle \in SUBSET (S \ after)
  OBVIOUS
<1>3. Chosen(s, {}) = << >>
  BY ChosenNone
<1> HIDE DEF after, middle, R, cut
<1>4. Divides(s, Chosen(s, S \cap R), Chosen(s, S \ R), Chosen(s, {}))
  <2> DEFINE A == S \cap R
             B == S \ R
             C == {}
  <2>1. \A v \in ToSet(s) : \/ v \in A /\ v \notin B /\ v \notin C
                            \/ v \notin A /\ v \in B /\ v \notin C
                            \/ v \notin A /\ v \notin B /\ v \in C
    OBVIOUS
  <2> HIDE DEF A, B, C
  <2>2. Divides(s, Chosen(s, A), Chosen(s, B), Chosen(s, C))
    BY <2>1, ChosenSplits DEF Divides
  <2> QED
    BY <2>2 DEF A, B, C
<1>5. Divides(s, Chosen(s, S \ (after \cup middle)), Chosen(s, after),
              Chosen(s, middle))
  <2> DEFINE A == S \ (after \cup middle)
             B == after
             C == middle
  <2>1. \A v \in ToSet(s) : \/ v \in A /\ v \notin B /\ v \notin C
                            \/ v \notin A /\ v \in B /\ v \notin C
                            \/ v \notin A /\ v \notin B /\ v \in C
    BY <1>2
  <2> HIDE DEF A, B, C
  <2>2. Divides(s, Chosen(s, A), Chosen(s, B), Chosen(s, C))
    BY <2>1, ChosenSplits DEF Divides
  <2> QED
    BY <2>2 DEF A, B, C
<1>6. Divides(s, cut.a, cut.b, cut.c)
  <2>1. CASE R # S
    <3>1. /\ cut.a = Chosen(s, S \cap R) /\ cut.b = Chosen(s, S \ R)
          /\ cut.c = Chosen(s, {})
      BY <1>1, <1>3, <2>1
    <3> QED
      BY <1>4, <3>1
  <2>2. CASE R = S
    <3>1. /\ cut.a = Chosen(s, S \ (after \cup middle))
          /\ cut.b = Chosen(s, after) /\ cut.c = Chosen(s, middle)
      BY <1>1, <2>2
    <3> QED
      BY <1>5, <3>1
  <2> QED
    BY <2>1, <2>2
<1> QED
  BY <1>6 DEF cut

\* What the dissection is between two parts: each place has a vertex or is
\* kept for a part, no two parts share a place, and each vertex has a place
\* that no part will take or waits in a part.
Part == [s : Seq(V), pos : Nat]
Slots(p) == p.pos + 1 .. p.pos + Len(p.s)
Kept(parts, k) == \E q \in DOMAIN parts : k \in Slots(parts[q])
Waits(parts, v) == \E q \in DOMAIN parts : v \in ToSet(parts[q].s)
Apart(parts) ==
    /\ \A q \in DOMAIN parts : parts[q].pos + Len(parts[q].s) <= N
    /\ \A q, r \in DOMAIN parts :
           q # r => \A k \in Slots(parts[q]) : k \notin Slots(parts[r])
Complete(parts, perm) ==
    /\ \A k \in V : perm[k] \in V \/ Kept(parts, k)
    /\ \A v \in V : (\E k \in V : perm[k] = v /\ ~Kept(parts, k))
                    \/ Waits(parts, v)
NdHolds(parts, perm) ==
    /\ parts \in Seq(Part) /\ perm \in [V -> 0 .. N]
    /\ Apart(parts) /\ Complete(parts, perm)
NdGood(n) == n = [parts |-> n.parts, perm |-> n.perm]
             /\ NdHolds(n.parts, n.perm)

\* A part that is empty can go.
LEMMA NdPop ==
  ASSUME NEW rest \in Seq(Part), NEW p \in Part, p.s = << >>, NEW perm,
         NdHolds(Append(rest, p), perm)
  PROVE  NdHolds(rest, perm)
<1> DEFINE parts == Append(rest, p)
           n == Len(rest)
<1>1. /\ n \in Nat /\ DOMAIN rest = 1 .. n /\ DOMAIN parts = 1 .. n + 1
      /\ \A q \in 1 .. n : parts[q] = rest[q]
      /\ parts[n + 1] = p
  OBVIOUS
<1>2. perm \in [V -> 0 .. N] /\ Apart(parts) /\ Complete(parts, perm)
  BY DEF NdHolds
<1>3. Slots(p) = {} /\ ToSet(p.s) = {}
  <2>1. Len(p.s) = 0 /\ ToSet(<< >>) = {} /\ p.pos \in Nat
    BY DEF ToSet, Part
  <2> QED
    BY <2>1 DEF Slots
<1> HIDE DEF parts, n
<1>4. \A q \in 1 .. n : q \in 1 .. n + 1
  BY <1>1
<1>5. \A q \in 1 .. n + 1 : q \in 1 .. n \/ q = n + 1
  BY <1>1
<1>6. \A k : Kept(rest, k) <=> Kept(parts, k)
  BY <1>1, <1>3, <1>4, <1>5 DEF Kept
<1>7. \A v : Waits(rest, v) <=> Waits(parts, v)
  BY <1>1, <1>3, <1>4, <1>5 DEF Waits
<1>8. Complete(rest, perm)
  BY <1>2, <1>6, <1>7 DEF Complete
<1>9. Apart(rest)
  BY <1>1, <1>2, <1>4 DEF Apart
<1> QED
  BY <1>2, <1>8, <1>9 DEF NdHolds

\* A part gives way to two, and the rest of it goes into the order.
LEMMA NdSplit ==
  ASSUME NEW rest \in Seq(Part), NEW p \in Part, NEW perm,
         NdHolds(Append(rest, p), perm),
         NEW a, NEW b, NEW c, Divides(p.s, a, b, c)
  PROVE  LET m == p.pos + Len(a)
         IN  NdHolds(rest \o <<[s |-> b, pos |-> m], [s |-> a, pos |-> p.pos]>>,
                     Placed(perm, m + Len(b), c))
<1> DEFINE old == Append(rest, p)
           n == Len(rest)
           i == p.pos
           la == Len(a)
           lb == Len(b)
           lc == Len(c)
           m == i + la
           e == m + lb
           x0 == [s |-> b, pos |-> m]
           y == [s |-> a, pos |-> i]
           new == rest \o <<x0, y>>
           f == Placed(perm, e, c)
<1>1. /\ n \in Nat /\ DOMAIN rest = 1 .. n /\ DOMAIN old = 1 .. n + 1
      /\ \A q \in 1 .. n : old[q] = rest[q]
      /\ old[n + 1] = p
  OBVIOUS
<1>2. /\ i \in Nat /\ p.s \in Seq(V) /\ a \in Seq(V) /\ b \in Seq(V)
      /\ c \in Seq(V)
      /\ la \in Nat /\ lb \in Nat /\ lc \in Nat /\ la + lb + lc = Len(p.s)
      /\ ToSet(p.s) \subseteq ToSet(a) \cup ToSet(b) \cup ToSet(c)
  BY DEF Divides, Part
<1>3. /\ m \in Nat /\ e \in Nat /\ m = i + la /\ e = m + lb
      /\ Len(p.s) = la + lb + lc
  BY <1>2
<1>4. x0 \in Part /\ y \in Part /\ x0.s = b /\ x0.pos = m /\ y.s = a /\ y.pos = i
  BY <1>2, <1>3 DEF Part
<1>5. /\ Slots(x0) = m + 1 .. e /\ Slots(y) = i + 1 .. m
      /\ Slots(p) = i + 1 .. i + Len(p.s)
  BY <1>4 DEF Slots
<1> HIDE DEF i, m, e, la, lb
<1>6. /\ perm \in [V -> 0 .. N] /\ Apart(old) /\ Complete(old, perm)
  BY DEF NdHolds
<1> HIDE DEF x0, y, lc
<1>7. /\ new \in Seq(Part) /\ DOMAIN new = 1 .. n + 2
      /\ \A q \in 1 .. n : new[q] = rest[q]
      /\ new[n + 1] = x0 /\ new[n + 2] = y
  <2> DEFINE two == <<x0, y>>
  <2>1. /\ two \in Seq(Part) /\ Len(two) = 2 /\ two[1] = x0 /\ two[2] = y
    BY <1>4
  <2> HIDE DEF two
  <2>2. /\ rest \o two \in Seq(Part) /\ Len(rest \o two) = n + 2
        /\ \A q \in 1 .. n + 2 : (rest \o two)[q] = IF q <= n THEN rest[q]
                                                  ELSE two[q - n]
    BY <2>1, ConcatProperties
  <2>3. rest \o two = new
    BY DEF two
  <2> HIDE DEF new
  <2>4. /\ \A q \in 1 .. n : q \in 1 .. n + 2 /\ q <= n
        /\ n + 1 \in 1 .. n + 2 /\ n + 2 \in 1 .. n + 2
        /\ ~(n + 1 <= n) /\ ~(n + 2 <= n)
        /\ (n + 1) - n = 1 /\ (n + 2) - n = 2
    BY <1>1
  <2>5. DOMAIN new = 1 .. n + 2
    BY <2>2, <2>3
  <2> HIDE DEF n
  <2> QED
    BY <2>1, <2>2, <2>3, <2>4, <2>5
<1> HIDE DEF old, n, new
<1>8. \A q \in 1 .. n : q \in 1 .. n + 1 /\ q \in 1 .. n + 2
  BY <1>1
<1>9. n + 1 \in 1 .. n + 1 /\ n + 1 \in 1 .. n + 2 /\ n + 2 \in 1 .. n + 2
  BY <1>1
<1>10. \A q \in 1 .. n + 1 : q \in 1 .. n \/ q = n + 1
  BY <1>1
<1>11. \A q \in 1 .. n + 2 : q \in 1 .. n \/ q = n + 1 \/ q = n + 2
  BY <1>1
<1>12. /\ i + Len(p.s) <= N
       /\ \A q \in 1 .. n : \A k \in Slots(rest[q]) : k \notin Slots(p)
       /\ \A q \in 1 .. n : \A k \in Slots(p) : k \notin Slots(rest[q])
  <2>1. \A q \in 1 .. n : n + 1 # q
    BY <1>1
  <2> QED
    BY <1>1, <1>6, <1>8, <1>9, <2>1 DEF Apart, i
\* The places of the part are those of the two and those of c.
<1>13. \A k : k \in Slots(p) <=> \/ k \in Slots(x0) \/ k \in Slots(y)
                                 \/ k \in e + 1 .. e + lc
  <2>1. /\ i \in Nat /\ m \in Nat /\ e \in Nat /\ la \in Nat /\ lb \in Nat
        /\ lc \in Nat /\ m = i + la /\ e = m + lb
        /\ i + Len(p.s) = e + lc
    BY <1>2, <1>3
  <2>2. i + 1 .. e + lc = (i + 1 .. m) \cup (m + 1 .. e) \cup (e + 1 .. e + lc)
    BY <2>1
  <2> QED
    BY <1>5, <2>1, <2>2
<1>14. /\ \A k \in Slots(x0) : k \notin Slots(y) /\ k \notin e + 1 .. e + lc
       /\ \A k \in Slots(y) : k \notin Slots(x0) /\ k \notin e + 1 .. e + lc
  BY <1>2, <1>3, <1>5
<1>15. \A k \in e + 1 .. e + lc : k \in V /\ k - e \in 1 .. lc
  <2>1. /\ e \in Nat /\ lc \in Nat /\ e + lc = i + Len(p.s) /\ e + lc <= N
        /\ N \in Nat
    BY <1>2, <1>3, <1>12, OrderAssumption
  <2> QED
    BY <2>1 DEF V
<1>16. Apart(new)
  <2>1. x0.pos + Len(x0.s) <= N /\ y.pos + Len(y.s) <= N
    <3>1. x0.pos + Len(x0.s) = m + lb /\ y.pos + Len(y.s) = i + la
      BY <1>4 DEF lb, la
    <3>2. m + lb <= N /\ i + la <= N
      BY <1>2, <1>3, <1>12, OrderAssumption
    <3> QED
      BY <3>1, <3>2
  <2>2. ASSUME NEW q \in 1 .. n + 2
        PROVE  new[q].pos + Len(new[q].s) <= N
    BY <1>1, <1>6, <1>7, <1>8, <1>11, <2>1 DEF Apart
  <2>3. ASSUME NEW q \in 1 .. n + 2, NEW r \in 1 .. n + 2, q # r,
               NEW k \in Slots(new[q])
        PROVE  k \notin Slots(new[r])
    <3>1. CASE q \in 1 .. n /\ r \in 1 .. n
      BY <1>1, <1>6, <1>7, <1>8, <2>3, <3>1 DEF Apart
    <3>2. CASE q \in 1 .. n /\ r \notin 1 .. n
      BY <1>7, <1>11, <1>12, <1>13, <2>3, <3>2
    <3>3. CASE q \notin 1 .. n /\ r \in 1 .. n
      BY <1>7, <1>11, <1>12, <1>13, <2>3, <3>3
    <3>4. CASE q \notin 1 .. n /\ r \notin 1 .. n
      BY <1>7, <1>11, <1>14, <2>3, <3>4
    <3> QED
      BY <3>1, <3>2, <3>3, <3>4
  <2> QED
    BY <1>7, <2>2, <2>3 DEF Apart
<1>17. \A k : k \notin e + 1 .. e + lc => (Kept(new, k) <=> Kept(old, k))
  BY <1>1, <1>7, <1>8, <1>9, <1>10, <1>11, <1>13 DEF Kept
<1>18. \A k \in e + 1 .. e + lc : ~Kept(new, k)
  BY <1>7, <1>11, <1>12, <1>13, <1>14 DEF Kept
<1>19. /\ f \in [V -> 0 .. N]
       /\ \A k \in V : f[k] = IF k \in e + 1 .. e + lc THEN c[k - e]
                              ELSE perm[k]
       /\ \A k \in e + 1 .. e + lc : f[k] \in V
  <2>1. DOMAIN c = 1 .. lc /\ \A q \in 1 .. lc : c[q] \in V
    BY <1>2 DEF lc
  <2>2. \A k \in V : k - e \in DOMAIN c <=> k \in e + 1 .. e + lc
    BY <1>2, <1>3, <2>1 DEF V
  <2>3. f = [k \in V |-> IF k - e \in DOMAIN c THEN c[k - e] ELSE perm[k]]
    BY DEF Placed
  <2> HIDE DEF f
  <2>4. \A k \in V : f[k] = IF k \in e + 1 .. e + lc THEN c[k - e]
                            ELSE perm[k]
    BY <2>2, <2>3
  <2>5. \A k \in e + 1 .. e + lc : f[k] \in V
    BY <1>15, <2>1, <2>4
  <2>6. \A k \in V : f[k] \in 0 .. N
    <3>1. V \subseteq 0 .. N
      BY DEF V
    <3> QED
      BY <1>6, <2>4, <2>5, <3>1
  <2>7. f \in [V -> 0 .. N]
    BY <2>3, <2>6
  <2> QED
    BY <2>4, <2>5, <2>7
<1> DEFINE D == e + 1 .. e + lc
<1>20. /\ \A k \in D : k \in V /\ f[k] \in V /\ f[k] = c[k - e] /\ ~Kept(new, k)
       /\ \A k \in V : k \notin D => f[k] = perm[k] /\ (Kept(new, k) <=> Kept(old, k))
       /\ \A k \in D : Kept(old, k)
  <2>1. \A k \in D : Kept(old, k)
    BY <1>1, <1>9, <1>13 DEF Kept
  <2> HIDE DEF f
  <2> QED
    BY <1>15, <1>17, <1>18, <1>19, <2>1
<1>21. \A q \in 1 .. lc : e + q \in D /\ (e + q) - e = q
  BY <1>2, <1>3
<1>22. lc \in Nat /\ DOMAIN c = 1 .. lc
  BY <1>2 DEF lc
<1> HIDE DEF D, f
<1>23. \A k \in V : f[k] \in V \/ Kept(new, k)
  BY <1>6, <1>20 DEF Complete
<1>24. ASSUME NEW v \in V
       PROVE  (\E k \in V : f[k] = v /\ ~Kept(new, k)) \/ Waits(new, v)
  <2>1. CASE \E k \in V : perm[k] = v /\ ~Kept(old, k)
    BY <1>20, <2>1
  <2>2. CASE Waits(old, v)
    <3>1. PICK q \in 1 .. n + 1 : v \in ToSet(old[q].s)
      BY <1>1, <2>2 DEF Waits
    <3>2. CASE q \in 1 .. n
      BY <1>1, <1>7, <1>8, <3>1, <3>2 DEF Waits
    <3>3. CASE q = n + 1
      <4>1. v \in ToSet(a) \/ v \in ToSet(b) \/ v \in ToSet(c)
        BY <1>1, <1>2, <3>1, <3>3
      <4>2. CASE v \in ToSet(a)
        BY <1>4, <1>7, <1>9, <4>2 DEF Waits
      <4>3. CASE v \in ToSet(b)
        BY <1>4, <1>7, <1>9, <4>3 DEF Waits
      <4>4. CASE v \in ToSet(c)
        <5>1. PICK j \in 1 .. lc : c[j] = v
          BY <1>22, <4>4 DEF ToSet
        <5> QED
          BY <1>20, <1>21, <5>1
      <4> QED
        BY <4>1, <4>2, <4>3, <4>4
    <3> QED
      BY <1>10, <3>1, <3>2, <3>3
  <2> QED
    BY <1>6, <2>1, <2>2 DEF Complete
<1>25. Complete(new, f)
  BY <1>23, <1>24 DEF Complete
<1>26. NdHolds(new, f)
  BY <1>7, <1>16, <1>19, <1>25 DEF NdHolds
<1> QED
  BY <1>26 DEF new, f, e, m, x0, y, i, la, lb

LEMMA FrontLast ==
  ASSUME NEW S, NEW s \in Seq(S), s # << >>
  PROVE  /\ Front(s) \in Seq(S) /\ Last(s) \in S
         /\ s = Append(Front(s), Last(s))
<1> DEFINE t == Front(s)
           n == Len(s)
           u == Append(t, Last(s))
<1>1. n \in Nat \ {0} /\ DOMAIN s = 1 .. n /\ \A q \in 1 .. n : s[q] \in S
  BY EmptySeq
<1>2. /\ t \in Seq(S) /\ Len(t) = n - 1
      /\ \A q \in 1 .. n - 1 : t[q] = s[q]
  <2>1. 1 \in 1 .. n + 1 /\ n - 1 \in 0 .. n
    BY <1>1
  <2>2. \A q \in 1 .. n - 1 : s[q] \in S
    BY <1>1
  <2> QED
    BY <1>1, <2>1, <2>2, SubSeqProperties DEF Front
<1>3. Last(s) = s[n] /\ Last(s) \in S
  BY <1>1 DEF Last
<1> DEFINE l == Last(s)
<1> HIDE DEF t, n, l
<1>4. l = s[n] /\ l \in S /\ u = Append(t, l)
  BY <1>3 DEF l
<1>5. /\ u \in Seq(S) /\ Len(u) = n
      /\ \A q \in 1 .. n : u[q] = s[q]
  <2> HIDE DEF u
  <2>1. /\ u \in Seq(S) /\ Len(u) = Len(t) + 1 /\ u[Len(t) + 1] = l
        /\ \A q \in 1 .. Len(t) : u[q] = t[q]
    BY <1>2, <1>4
  <2>2. Len(t) + 1 = n /\ \A q \in 1 .. n : q = n \/ q \in 1 .. n - 1
    BY <1>1, <1>2
  <2> QED
    BY <1>2, <1>4, <2>1, <2>2
<1> HIDE DEF u
<1>6. s \in Seq(S) /\ Len(s) = n
  BY DEF n
<1>7. u = s
  BY <1>5, <1>6, SeqEqual
<1> QED
  BY <1>2, <1>3, <1>7 DEF t, u

\* The dissection starts with one part.
LEMMA NdStartHolds ==
  ASSUME NEW G, NEW dense \in Int PROVE NdGood(NdStart(G, dense))
<1> DEFINE last == {v \in V : Degree(G, v) > dense}
           live == V \ last
           c == Cardinality(live)
           l == Ascending(last)
           p == [s |-> Ascending(live), pos |-> 0]
           parts == <<p>>
           perm == [k \in V |-> IF k <= c THEN 0 ELSE l[k - c]]
<1>1. NdStart(G, dense) = [parts |-> parts, perm |-> perm]
  BY DEF NdStart
<1>2. last \in SUBSET V /\ live \in SUBSET V /\ live = V \ last
  OBVIOUS
<1> HIDE DEF last, live
<1>3. /\ Ascending(live) \in Seq(V) /\ Len(Ascending(live)) = c
      /\ ToSet(Ascending(live)) = live
  BY <1>2, AscendingCounts
<1>4. l \in Seq(V) /\ Len(l) = Cardinality(last) /\ ToSet(l) = last
  BY <1>2, AscendingCounts
<1>5. c \in 0 .. N /\ N \in Nat /\ V = 1 .. N
  BY <1>2, VertexSets, OrderAssumption DEF V
<1>6. Cardinality(last) = N - c
  <2>1. IsFiniteSet(V) /\ Cardinality(V) = N /\ V \cap live = live
        /\ V \ live = last
    BY <1>2, VertexSets
  <2>2. Cardinality(V \ live) = Cardinality(V) - Cardinality(V \cap live)
    BY <2>1, FS_Difference
  <2> QED
    BY <2>1, <2>2
<1>7. DOMAIN l = 1 .. N - c /\ \A q \in 1 .. N - c : l[q] \in V
  BY <1>4, <1>6
<1> HIDE DEF l, c
<1>8. p \in Part /\ Slots(p) = 1 .. c /\ ToSet(p.s) = live
      /\ p.pos + Len(p.s) = c
  BY <1>3, <1>5 DEF Part, Slots
<1> HIDE DEF p
<1>9. /\ parts \in Seq(Part) /\ DOMAIN parts = 1 .. 1 /\ parts[1] = p
  BY <1>8
<1> HIDE DEF parts
<1>10. \A q \in 1 .. 1 : q = 1
  OBVIOUS
<1>11. 1 \in 1 .. 1
  OBVIOUS
<1>12. \A k \in V : k > c => k - c \in 1 .. N - c
  BY <1>5
<1>13. \A k \in V : IF k <= c THEN perm[k] = 0 ELSE perm[k] \in V /\ perm[k] = l[k - c]
  BY <1>5, <1>7, <1>12
<1>14. perm \in [V -> 0 .. N]
  <2>1. \A k \in V : perm[k] \in 0 .. N
    <3>1. V \subseteq 0 .. N /\ 0 \in 0 .. N
      BY <1>5
    <3> QED
      BY <1>13, <3>1
  <2> QED
    BY <2>1
<1> HIDE DEF perm
<1>15. \A k : Kept(parts, k) <=> k \in 1 .. c
  BY <1>8, <1>9, <1>10, <1>11 DEF Kept
<1>16. \A v : Waits(parts, v) <=> v \in live
  BY <1>8, <1>9, <1>10, <1>11 DEF Waits
<1>17. Apart(parts)
  BY <1>5, <1>8, <1>9, <1>10 DEF Apart
<1>18. \A k \in V : perm[k] \in V \/ Kept(parts, k)
  <2>1. \A k \in V : k <= c => k \in 1 .. c
    BY <1>5
  <2> QED
    BY <1>13, <1>15, <2>1
<1>19. ASSUME NEW v \in last PROVE \E k \in V : perm[k] = v /\ ~Kept(parts, k)
  <2>1. PICK q \in 1 .. N - c : l[q] = v
    BY <1>4, <1>7 DEF ToSet
  <2>2. c + q \in V /\ ~(c + q <= c) /\ (c + q) - c = q /\ c + q \notin 1 .. c
    BY <1>5
  <2> QED
    BY <1>13, <1>15, <2>1, <2>2
<1>20. Complete(parts, perm)
  BY <1>2, <1>16, <1>18, <1>19 DEF Complete
<1>21. NdHolds(parts, perm)
  BY <1>9, <1>14, <1>17, <1>20 DEF NdHolds
<1> QED
  BY <1>1, <1>21 DEF NdGood

LEMMA NdStepHolds ==
  ASSUME NEW G, NEW n, NdGood(n), ~NdDone(n) PROVE NdGood(NdStep(G, n))
<1> DEFINE p == Last(n.parts)
           rest == Front(n.parts)
           s == p.s
           w == Within(G, ToSet(s), NdRoot(G, s))
           cut == NdSides(G, s, w)
           m == p.pos + Len(cut.a)
           leaf == Len(s) <= Leaf \/ (Reached(w) = ToSet(s) /\ Height(w) < 2)
           o == MdOrder(G, s)
           h == NdStep(G, n)
<1>1. h = IF s = << >> THEN [n EXCEPT !.parts = rest]
          ELSE IF leaf
          THEN [parts |-> rest, perm |-> Placed(n.perm, p.pos, o)]
          ELSE [parts |-> rest \o <<[s |-> cut.b, pos |-> m],
                                    [s |-> cut.a, pos |-> p.pos]>>,
                perm |-> Placed(n.perm, m + Len(cut.b), cut.c)]
  BY DEF NdStep
<1>2. n = [parts |-> n.parts, perm |-> n.perm] /\ NdHolds(n.parts, n.perm)
  BY DEF NdGood
<1>3. n.parts \in Seq(Part) /\ n.parts # << >>
  BY <1>2 DEF NdHolds, NdDone
<1>4. /\ rest \in Seq(Part) /\ p \in Part /\ n.parts = Append(rest, p)
  BY <1>3, FrontLast
<1>5. s \in Seq(V) /\ p.pos \in Nat
  BY <1>4 DEF Part
<1>6. Divides(s, cut.a, cut.b, cut.c)
  BY <1>5, NdSidesDivide
<1> HIDE DEF cut, w, rest, p, h, leaf
<1>7. NdHolds(Append(rest, p), n.perm)
  BY <1>2, <1>4
<1>8. CASE s = << >>
  <2>1. h = [n EXCEPT !.parts = rest]
    BY <1>1, <1>8
  <2>2. h = [parts |-> rest, perm |-> n.perm]
    BY <1>2, <2>1
  <2>3. NdHolds(rest, n.perm)
    BY <1>4, <1>7, <1>8, NdPop
  <2> QED
    BY <2>2, <2>3 DEF NdGood, h
<1>9. CASE s # << >> /\ leaf
  <2>1. h = [parts |-> rest, perm |-> Placed(n.perm, p.pos, o)]
    BY <1>1, <1>9
  <2>2. Len(s) <= N
    <3>1. Apart(Append(rest, p))
      BY <1>7 DEF NdHolds
    <3>2. Len(rest) \in Nat /\ Len(rest) + 1 \in DOMAIN Append(rest, p)
          /\ Append(rest, p)[Len(rest) + 1] = p
      BY <1>4
    <3>3. p.pos + Len(p.s) <= N
      BY <3>1, <3>2 DEF Apart
    <3> QED
      BY <1>5, <3>3, OrderAssumption
  <2>3. o \in Seq(V) /\ Len(o) = Len(s) /\ ToSet(o) = ToSet(s)
    BY <1>5, <2>2, MdOrderIs
  <2> HIDE DEF o
  <2>4. Divides(p.s, << >>, << >>, o)
    <3>1. << >> \in Seq(V) /\ Len(<< >>) = 0 /\ Len(p.s) \in Nat
      BY <1>5
    <3> QED
      BY <2>3, <3>1 DEF Divides
  <2> DEFINE x0 == [s |-> << >>, pos |-> p.pos]
             f == Placed(n.perm, p.pos, o)
  <2>5. NdHolds(rest \o <<[s |-> << >>, pos |-> p.pos + Len(<< >>)], x0>>,
                Placed(n.perm, p.pos + Len(<< >>) + Len(<< >>), o))
    BY <1>4, <1>7, <2>4, NdSplit
  <2>6. p.pos + Len(<< >>) = p.pos /\ p.pos + Len(<< >>) + Len(<< >>) = p.pos
    BY <1>5
  <2>7. x0 \in Part /\ x0.s = << >>
    BY <1>5 DEF Part
  <2>8. NdHolds(rest \o <<x0, x0>>, f)
    BY <2>5, <2>6
  <2> HIDE DEF x0, f
  <2>9. rest \o <<x0, x0>> = Append(Append(rest, x0), x0) /\ Append(rest, x0) \in Seq(Part)
    BY <1>4, <2>7
  <2>10. NdHolds(Append(rest, x0), f)
    BY <2>7, <2>8, <2>9, NdPop
  <2>11. NdHolds(rest, f)
    BY <1>4, <2>7, <2>10, NdPop
  <2> QED
    BY <2>1, <2>11 DEF NdGood, h, f
<1>10. CASE s # << >> /\ ~leaf
  <2> DEFINE parts == rest \o <<[s |-> cut.b, pos |-> m],
                                [s |-> cut.a, pos |-> p.pos]>>
             f == Placed(n.perm, m + Len(cut.b), cut.c)
  <2>1. h = [parts |-> parts, perm |-> f]
    BY <1>1, <1>10
  <2> DEFINE a == cut.a
             b == cut.b
             c == cut.c
  <2>2. Divides(p.s, a, b, c)
    BY <1>6
  <2> HIDE DEF a, b, c
  <2>3. NdHolds(rest \o <<[s |-> b, pos |-> p.pos + Len(a)],
                          [s |-> a, pos |-> p.pos]>>,
                Placed(n.perm, p.pos + Len(a) + Len(b), c))
    BY <1>4, <1>7, <2>2, NdSplit
  <2>4. NdHolds(parts, f)
    BY <2>3 DEF a, b, c
  <2> QED
    BY <2>1, <2>4 DEF NdGood, h
<1> QED
  BY <1>8, <1>9, <1>10 DEF h

LEMMA NdDoneIs ==
  ASSUME NEW perm, NdHolds(<< >>, perm)
  PROVE  perm \in Seq(V) /\ IsOrder(perm)
<1>1. perm \in [V -> 0 .. N] /\ Complete(<< >>, perm)
  BY DEF NdHolds
<1>2. (\A k : ~Kept(<< >>, k)) /\ \A v : ~Waits(<< >>, v)
  BY DEF Kept, Waits
<1>3. /\ \A k \in V : perm[k] \in V
      /\ \A v \in V : \E k \in V : perm[k] = v
  BY <1>1, <1>2 DEF Complete
<1>4. N \in Nat /\ V = 1 .. N
  BY OrderAssumption DEF V
<1>5. perm \in [1 .. N -> V]
  BY <1>1, <1>3, <1>4
<1>6. perm \in Seq(V) /\ Len(perm) = N /\ DOMAIN perm = V
  BY <1>4, <1>5, SeqDef
<1>7. ToSet(perm) = V
  BY <1>3, <1>6 DEF ToSet
<1> QED
  BY <1>6, <1>7 DEF IsOrder

-----------------------------------------------------------------------------
\* The system.

Lane == [row : Int, x : {Blank}, failed : BOOLEAN, own : BOOLEAN]
Analysing == {"md", "first", "nd", "race", "redo"}

\* The rows done are those of one thread, and the lanes of a block have done
\* fronts of its rows and billed them.
SameInv ==
    /\ in \in Inputs /\ pc \in Analysing \cup {"block", "lanes", "done"}
    /\ pc # "done" => x = Blank /\ status = "NONE" /\ lane \in [1 .. Lanes -> Lane]
    /\ pc \in Analysing => k0 = 0 /\ col = Blank /\ billed = 0
    /\ pc \in {"block", "lanes"} =>
           Analysed(ana) /\ k0 \in 0 .. N /\ col = One(ana)[k0].col
    /\ pc = "block" => billed = One(ana)[k0].bill
    /\ pc = "lanes" =>
           LanesGood(ana, k0, k1, Lanes, lane, front, billed, at)
    /\ SameAtAnyThreads

LEMMA AnalyseIs ==
  ASSUME NEW which, NEW limit PROVE Analysed(Analyse(which, limit))
<1> DEFINE perm == IF which = "md" THEN MdPerm(md) ELSE nd.perm
           rows == RowsOf(in.graph, perm)
<1>1. IsRows(rows)
  BY RowsOfIs
<1>2. LET a == Analyse(which, limit)
      IN  /\ a.rows = rows /\ a.parent = Parents(rows)
          /\ a.work = RowWork(Parents(rows), rows)
  BY DEF Analyse
<1> QED
  BY <1>1, <1>2 DEF Analysed

LEMMA ParameterTypes ==
  ASSUME in \in Inputs
  PROVE  /\ Lanes \in Nat \ {0} /\ N \in Nat \ {0} /\ 0 \in 0 .. N
         /\ k0 \in 0 .. N => /\ k1 \in k0 .. N /\ k1 - k0 \in 0 .. N - k0
                             /\ k0 + (k1 - k0) = k1
                             /\ k0 < N => k0 < k1
<1>1. N \in Nat \ {0} /\ Block \in Nat \ {0} /\ in.threads \in Nat \ {0}
  BY OrderAssumption, FactorAssumption
<1> QED
  BY <1>1 DEF Lanes, k1

LEMMA OneFactor ==
  ASSUME NEW a, Analysed(a)
  PROVE  /\ One(a)[0].col = Blank /\ One(a)[0].bill = 0
         /\ \A m \in 0 .. N : One(a)[m] \in Factors /\ One(a)[m].x = Blank
         /\ One(a)[N].bill = Ops(a)
         /\ One(a) = RowsAfter(a, Unfactored, 0)
<1>1. N \in Nat /\ 0 \in 0 .. N /\ N \in 0 .. N
  BY OrderAssumption
<1>2. \A m \in 0 .. N : OneAt(a, One(a)[m], m)
  BY OneIs DEF One
<1>3. One(a)[0] = Unfactored
  <2>1. /\ Unfactored \in Factors /\ Unfactored.x = Blank
        /\ Unfactored.col = Blank /\ Unfactored.bill = 0
    BY DEF Unfactored, Factors, Gathered, Columns, Blank
  <2> QED
    BY <1>1, <2>1, RowsAfterIs DEF One
<1>4. One(a)[N].bill = Total(RowsCounted(a.parent, a.rows)[N].work)
  BY <1>1, <1>2 DEF OneAt
<1>5. One(a)[N].bill = Ops(a)
  BY <1>4 DEF Analysed, Ops, RowWork
<1>6. \A m \in 0 .. N : One(a)[m] \in Factors /\ One(a)[m].x = Blank
  BY <1>2 DEF OneAt
<1> QED
  BY <1>3, <1>5, <1>6 DEF One, Unfactored

LEMMA FactorIs ==
  ASSUME NEW f \in Factors
  PROVE  f = [x |-> f.x, col |-> f.col, bill |-> f.bill]
BY DEF Factors

LEMMA SameInit == ASSUME Init PROVE SameInv
<1>1. [row |-> 0, x |-> Blank, failed |-> FALSE, own |-> FALSE] \in Lane
  BY DEF Lane
<1> QED
  BY <1>1 DEF Init, SameInv, Analysing, SameAtAnyThreads

LEMMA SameSymbolic == ASSUME SameInv, Symbolic PROVE SameInv'
<1>1. in \in Inputs /\ in' = in /\ pc \in Analysing
  BY DEF SameInv, Symbolic, OrderByDegree, FirstAnalysis, Dissect, Race, Redo,
         Analysing
<1>2. /\ col' = col /\ x' = x /\ k0' = k0 /\ billed' = billed
      /\ status' = status /\ lane' = lane
  BY DEF Symbolic, OrderByDegree, FirstAnalysis, Dissect, Race, Redo, lanes
<1>3. x = Blank /\ status = "NONE" /\ lane \in [1 .. Lanes -> Lane]
  BY <1>1 DEF SameInv, Analysing
<1>4. k0 = 0 /\ col = Blank /\ billed = 0
  BY <1>1 DEF SameInv
<1>5. pc' \in Analysing \/ (pc' = "block" /\ Analysed(ana'))
  <2>1. CASE OrderByDegree
    BY <2>1 DEF OrderByDegree, Analysing
  <2>2. CASE FirstAnalysis
    <3>1. Analysed(ana')
      BY <2>2, AnalyseIs DEF FirstAnalysis
    <3> QED
      BY <2>2, <3>1 DEF FirstAnalysis, Analysing
  <2>3. CASE Dissect
    BY <2>3 DEF Dissect, Analysing
  <2>4. CASE Race
    <3> DEFINE m == Analyse("md", cap)
               d == Analyse("nd", cap)
               beside == IF m.full THEN Analyse("nd", Ops(m))
                         ELSE Analyse("md", Ops(d))
    <3>1. Analysed(beside) /\ Analysed(d)
      BY AnalyseIs
    <3>2. /\ ana' = beside \/ ana' = d
          /\ pc' \in {"block", "redo", "race"}
      <4> HIDE DEF beside, m, d
      <4> QED
        BY <2>4 DEF Race, beside, m, d
    <3> QED
      BY <3>1, <3>2 DEF Analysing
  <2>5. CASE Redo
    BY <2>5, AnalyseIs DEF Redo
  <2> QED
    BY <2>1, <2>2, <2>3, <2>4, <2>5 DEF Symbolic
<1>6. Lanes' = Lanes
  BY <1>1 DEF Lanes
<1>7. pc' \in Analysing \cup {"block", "lanes", "done"} /\ pc' # "lanes"
  BY <1>5 DEF Analysing
<1>8. pc' = "block" => /\ Analysed(ana') /\ k0' \in 0 .. N
                       /\ col' = One(ana')[k0'].col
                       /\ billed' = One(ana')[k0'].bill
  <2> SUFFICES ASSUME pc' = "block"
               PROVE  /\ Analysed(ana') /\ 0 \in 0 .. N
                      /\ Blank = One(ana')[0].col /\ 0 = One(ana')[0].bill
    BY <1>2, <1>4
  <2>1. Analysed(ana')
    BY <1>5 DEF Analysing
  <2> QED
    BY <1>1, <2>1, OneFactor, ParameterTypes
<1>9. SameAtAnyThreads'
  BY <1>2, <1>3 DEF SameAtAnyThreads
<1> QED
  BY <1>1, <1>2, <1>3, <1>4, <1>6, <1>7, <1>8, <1>9 DEF SameInv

\* A lane that fails has done what it has done.
LEMMA LanesOn ==
  ASSUME NEW a, NEW b \in 0 .. N, NEW e \in b .. N, NEW n \in Nat \ {0},
         NEW l, NEW f, NEW bill, NEW p, LanesGood(a, b, e, n, l, f, bill, p),
         NEW m, \A u \in 1 .. n :
                    m[u].row = l[u].row /\ (l[u].failed => m[u].failed)
  PROVE  LanesGood(a, b, e, n, m, f, bill, p)
<1>1. Covered(b, e, n, m) = Covered(b, e, n, l)
  BY DEF Covered
<1>2. \A u \in 1 .. n : LaneHas(b, n, u, m[u].row)
  BY DEF LanesGood
<1>3. \A u \in 1 .. n : u < p => m[u].row > e \/ m[u].failed
  BY DEF LanesGood
<1> QED
  BY <1>1, <1>2, <1>3 DEF LanesGood

LEMMA SameRows == ASSUME SameInv, RowsInOrder PROVE SameInv'
<1> DEFINE a == ana
           f == One(a)[k0]
           g == One(a)[k1]
<1>1. /\ in \in Inputs /\ pc = "block" /\ pc' = "block" /\ in' = in
      /\ ana' = ana /\ status' = status /\ lane' = lane /\ k0' = k1
      /\ Becomes(RowsAfter(ana, Factor, k0)[k1 - k0])
  BY DEF SameInv, RowsInOrder, lanes
<1>2. /\ Analysed(a) /\ k0 \in 0 .. N /\ col = f.col /\ billed = f.bill
      /\ x = Blank /\ status = "NONE" /\ lane \in [1 .. Lanes -> Lane]
  BY <1>1 DEF SameInv
<1>3. /\ k1 \in 0 .. N /\ k1 - k0 \in 0 .. N - k0 /\ k0 + (k1 - k0) = k1
  BY <1>1, <1>2, ParameterTypes
<1>4. f \in Factors /\ f.x = Blank /\ g \in Factors /\ g.x = Blank
  BY <1>2, <1>3, OneFactor
<1>5. Factor = f
  BY <1>2, <1>4, FactorIs DEF Factor
<1>6. RowsAfter(a, f, k0)[k1 - k0] = g
  BY <1>2, <1>3, OneOn DEF One
<1>7. x' = Blank /\ col' = g.col /\ billed' = g.bill
  <2> HIDE DEF f, g
  <2> QED
    BY <1>1, <1>4, <1>5, <1>6 DEF Becomes
<1>8. col' = One(ana')[k0'].col /\ billed' = One(ana')[k0'].bill
  BY <1>1, <1>7
<1>9. Lanes' = Lanes /\ SameAtAnyThreads'
  BY <1>1, <1>2 DEF Lanes, SameAtAnyThreads
<1> QED
  BY <1>1, <1>2, <1>3, <1>7, <1>8, <1>9 DEF SameInv, Analysing

LEMMA SameLaunch == ASSUME SameInv, Launch PROVE SameInv'
<1>1. /\ in \in Inputs /\ pc = "block" /\ pc' = "lanes" /\ in' = in
      /\ ana' = ana /\ status' = status /\ k0' = k0 /\ col' = col /\ x' = x
      /\ billed' = billed /\ at' = 1 /\ front' = [k \in V |-> << >>]
  BY DEF SameInv, Launch
<1>2. /\ Analysed(ana) /\ k0 \in 0 .. N /\ col = One(ana)[k0].col
      /\ billed = One(ana)[k0].bill
      /\ x = Blank /\ status = "NONE" /\ lane \in [1 .. Lanes -> Lane]
  BY <1>1 DEF SameInv
<1>3. PICK started \in SUBSET (2 .. Lanes) :
          lane' = [t \in 1 .. Lanes |->
                     [row |-> k0 + t, x |-> lane[t].x, failed |-> FALSE,
                      own |-> t \in started]]
  BY DEF Launch
<1>4. Lanes \in Nat \ {0} /\ k1 \in k0 .. N
  BY <1>1, <1>2, ParameterTypes
<1>5. lane' \in [1 .. Lanes -> Lane]
  <2>1. \A t \in 1 .. Lanes :
            [row |-> k0 + t, x |-> lane[t].x, failed |-> FALSE,
             own |-> t \in started] \in Lane
    <3>1. SUFFICES ASSUME NEW t \in 1 .. Lanes
                   PROVE  /\ k0 + t \in Int /\ lane[t].x \in {Blank}
                          /\ (t \in started) \in BOOLEAN
      BY DEF Lane
    <3>2. k0 + t \in Int
      BY <1>2, <1>4
    <3>3. lane[t] \in Lane
      BY <1>2
    <3> QED
      BY <3>2, <3>3 DEF Lane
  <2> QED
    BY <1>3, <2>1
<1>6. \A t \in 1 .. Lanes : lane'[t].row = k0 + t
  BY <1>3
<1>7. LanesGood(ana, k0, k1, Lanes, lane', front', billed', at')
  <2> DEFINE l == lane'
  <2>1. \A t \in 1 .. Lanes : l[t].row = k0 + t
    BY <1>6
  <2> HIDE DEF l
  <2>2. LanesGood(ana, k0, k1, Lanes, l, [k \in V |-> << >>],
                  One(ana)[k0].bill, 1)
    BY <1>2, <1>4, <2>1, LanesStart
  <2> QED
    BY <1>1, <1>2, <2>2 DEF l
<1>8. Lanes' = Lanes /\ k1' = k1 /\ SameAtAnyThreads'
  BY <1>1, <1>2 DEF Lanes, k1, SameAtAnyThreads
<1> QED
  BY <1>1, <1>2, <1>5, <1>7, <1>8 DEF SameInv, Analysing

LEMMA SameLaneRow ==
  ASSUME SameInv, NEW t \in 1 .. Lanes, LaneRow(t) PROVE SameInv'
<1> DEFINE k == lane[t].row
           f == FrontOf(k, lane[t].x)
<1>1. /\ in \in Inputs /\ pc = "lanes" /\ pc' = "lanes" /\ in' = in
      /\ ana' = ana /\ status' = status /\ k0' = k0 /\ col' = col /\ x' = x
      /\ at' = at /\ Runs(t)
  BY DEF SameInv, LaneRow
<1>2. /\ Analysed(ana) /\ k0 \in 0 .. N /\ col = One(ana)[k0].col
      /\ x = Blank /\ status = "NONE" /\ lane \in [1 .. Lanes -> Lane]
      /\ LanesGood(ana, k0, k1, Lanes, lane, front, billed, at)
  BY <1>1 DEF SameInv
<1>3. Lanes \in Nat \ {0} /\ k1 \in k0 .. N
  BY <1>1, <1>2, ParameterTypes
<1>4. lane[t] \in Lane
  BY <1>2
<1>5. k \in Int /\ lane[t].x = Blank
  BY <1>4 DEF Lane
<1>6. f = FrontFor(One(ana)[k0].col, k0, ana, k)
  BY <1>2, <1>5 DEF FrontOf, FrontFor
<1>7. k <= k1 /\ ~lane[t].failed
  <2>1. k1 \in Int
    BY <1>2, <1>3
  <2> QED
    BY <1>1, <1>5, <2>1 DEF Runs, Ended
<1>8. Lanes' = Lanes /\ k1' = k1 /\ SameAtAnyThreads'
  BY <1>1, <1>2 DEF Lanes, k1, SameAtAnyThreads
<1>9. \/ /\ lane' = [lane EXCEPT ![t].row = @ + Lanes, ![t].x = f.x]
         /\ front' = [front EXCEPT ![k] = f.row]
         /\ billed' = billed + f.bill
      \/ /\ lane' = [lane EXCEPT ![t].failed = TRUE]
         /\ front' = front /\ billed' = billed
  BY DEF LaneRow
<1>10. /\ lane' \in [1 .. Lanes -> Lane]
       /\ LanesGood(ana, k0, k1, Lanes, lane', front', billed', at)
  <2>1. CASE /\ lane' = [lane EXCEPT ![t].row = @ + Lanes, ![t].x = f.x]
             /\ front' = [front EXCEPT ![k] = f.row]
             /\ billed' = billed + f.bill
    <3> DEFINE m == lane'
    <3> HIDE DEF f
    <3>1. m = [lane EXCEPT ![t].row = @ + Lanes, ![t].x = f.x]
      BY <2>1
    <3> HIDE DEF m
    <3>2. m[t].row = k + Lanes /\ \A u \in 1 .. Lanes : u # t => m[u] = lane[u]
      BY <1>2, <1>4, <3>1 DEF Lane
    <3>3. LET o == FrontFor(One(ana)[k0].col, k0, ana, k)
          IN  /\ k \in k0 + 1 .. k1
              /\ LanesGood(ana, k0, k1, Lanes, m, [front EXCEPT ![k] = o.row],
                           billed + o.bill, at)
      BY <1>2, <1>3, <1>7, <3>2, LanesRow
    <3>4. /\ k \in k0 + 1 .. N
          /\ LanesGood(ana, k0, k1, Lanes, m, front', billed', at)
      <4>1. /\ k \in k0 + 1 .. k1
            /\ LanesGood(ana, k0, k1, Lanes, m, [front EXCEPT ![k] = f.row],
                         billed + f.bill, at)
        BY <1>6, <3>3
      <4>2. k \in k0 + 1 .. N
        <5>1. N \in Int /\ k0 \in Int /\ k1 \in Int /\ k1 <= N
          BY <1>2, <1>3, OrderAssumption
        <5> HIDE DEF k
        <5> QED
          BY <4>1, <5>1
      <4> HIDE DEF k
      <4> QED
        BY <2>1, <4>1, <4>2
    <3>5. f.x = Blank
      BY <1>2, <1>6, <3>4, FrontForIs
    <3>6. m \in [1 .. Lanes -> Lane]
      <4> DEFINE r == k + Lanes
                 y == f.x
                 z == [lane[t] EXCEPT !.row = r, !.x = y]
      <4>1. r \in Int /\ y \in {Blank}
        BY <1>3, <1>5, <3>5
      <4>2. m = [lane EXCEPT ![t] = z]
        BY <3>1
      <4> HIDE DEF r, y
      <4>3. z \in Lane
        BY <1>4, <4>1 DEF Lane
      <4> HIDE DEF z
      <4> QED
        BY <1>2, <4>2, <4>3
    <3> QED
      BY <3>4, <3>6 DEF m
  <2>2. CASE /\ lane' = [lane EXCEPT ![t].failed = TRUE]
             /\ front' = front /\ billed' = billed
    <3> DEFINE m == lane'
    <3>1. m = [lane EXCEPT ![t].failed = TRUE]
      BY <2>2
    <3> HIDE DEF m
    <3>2. m \in [1 .. Lanes -> Lane]
      BY <1>2, <1>4, <3>1 DEF Lane
    <3>3. \A u \in 1 .. Lanes :
              m[u].row = lane[u].row /\ (lane[u].failed => m[u].failed)
      BY <1>2, <3>1 DEF Lane
    <3>4. LanesGood(ana, k0, k1, Lanes, m, front, billed, at)
      BY <1>2, <1>3, <3>3, LanesOn
    <3> QED
      BY <2>2, <3>2, <3>4 DEF m
  <2> QED
    BY <1>9, <2>1, <2>2
<1> QED
  BY <1>1, <1>2, <1>8, <1>10 DEF SameInv, Analysing

LEMMA SameNextLane == ASSUME SameInv, NextLane PROVE SameInv'
<1>1. /\ in \in Inputs /\ pc = "lanes" /\ pc' = "lanes" /\ in' = in
      /\ ana' = ana /\ status' = status /\ k0' = k0 /\ col' = col /\ x' = x
      /\ at' = at + 1 /\ lane' = lane /\ front' = front /\ billed' = billed
      /\ at <= Lanes /\ Ended(at)
  BY DEF SameInv, NextLane
<1>2. /\ Analysed(ana) /\ k0 \in 0 .. N /\ col = One(ana)[k0].col
      /\ x = Blank /\ status = "NONE" /\ lane \in [1 .. Lanes -> Lane]
      /\ LanesGood(ana, k0, k1, Lanes, lane, front, billed, at)
  BY <1>1 DEF SameInv
<1>3. Lanes \in Nat \ {0}
  BY <1>1, ParameterTypes
<1>4. LanesGood(ana, k0, k1, Lanes, lane, front, billed, at + 1)
  <2>1. /\ at \in 1 .. Lanes + 1
        /\ \A t \in 1 .. Lanes : t < at => lane[t].row > k1 \/ lane[t].failed
    BY <1>2 DEF LanesGood
  <2>2. at + 1 \in 1 .. Lanes + 1
    BY <1>1, <1>3, <2>1
  <2>3. \A t \in 1 .. Lanes :
            t < at + 1 => lane[t].row > k1 \/ lane[t].failed
    <3> SUFFICES ASSUME NEW t \in 1 .. Lanes, t < at + 1
                 PROVE  lane[t].row > k1 \/ lane[t].failed
      OBVIOUS
    <3>1. t < at \/ t = at
      BY <1>3, <2>1
    <3> QED
      BY <1>1, <2>1, <3>1 DEF Ended
  <2> QED
    BY <1>2, <2>2, <2>3 DEF LanesGood
<1>5. Lanes' = Lanes /\ k1' = k1 /\ SameAtAnyThreads'
  BY <1>1, <1>2 DEF Lanes, k1, SameAtAnyThreads
<1> QED
  BY <1>1, <1>2, <1>4, <1>5 DEF SameInv, Analysing

LEMMA SameBack == ASSUME SameInv, Back PROVE SameInv'
<1> DEFINE g == One(ana)[k1]
<1>1. /\ in \in Inputs /\ pc = "lanes" /\ in' = in /\ ana' = ana
      /\ lane' = lane /\ at > Lanes
  BY DEF SameInv, Back, lanes
<1>2. /\ Analysed(ana) /\ k0 \in 0 .. N /\ col = One(ana)[k0].col
      /\ x = Blank /\ status = "NONE" /\ lane \in [1 .. Lanes -> Lane]
      /\ LanesGood(ana, k0, k1, Lanes, lane, front, billed, at)
  BY <1>1 DEF SameInv
<1>3. /\ Lanes \in Nat \ {0} /\ N \in Nat /\ k1 \in k0 .. N /\ k1 \in 0 .. N
      /\ k0 \in Int /\ k1 \in Int
  BY <1>1, <1>2, ParameterTypes
<1>4. Lanes' = Lanes
  BY <1>1 DEF Lanes
<1>5. CASE \E t \in 1 .. Lanes : lane[t].failed
  <2>1. pc' = "done" /\ status' = "OUT_OF_MEMORY"
    BY <1>5 DEF Back
  <2> QED
    BY <1>1, <2>1 DEF SameInv, Analysing, SameAtAnyThreads
<1>6. CASE ~(\E t \in 1 .. Lanes : lane[t].failed)
  <2>1. /\ Becomes(BackAfter(Factor, k0)[k1 - k0]) /\ k0' = k1
        /\ pc' = "block" /\ status' = status
    BY <1>6 DEF Back
  <2>2. \A t \in 1 .. Lanes : lane[t].row \in Int /\ lane[t].row > k1
    <3> SUFFICES ASSUME NEW t \in 1 .. Lanes
                 PROVE  lane[t].row \in Int /\ lane[t].row > k1
      OBVIOUS
    <3>1. lane[t] \in Lane
      BY <1>2
    <3>2. at \in 1 .. Lanes + 1 /\ (t < at => lane[t].row > k1 \/ lane[t].failed)
      BY <1>2 DEF LanesGood
    <3>3. t < at
      BY <1>1, <1>3, <3>2
    <3> QED
      BY <1>6, <3>1, <3>2, <3>3 DEF Lane
  <2>3. Covered(k0, k1, Lanes, lane) = k0 + 1 .. k1
    BY <1>3, <2>2, LanesEnd
  <2>4. Fronted(ana)
    BY <1>2, <2>3 DEF LanesGood, Fronted
  <2>5. billed = One(ana)[k0].bill + Total(Bills(k0, ana, k0 + 1 .. k1))
    BY <1>2, <2>3 DEF LanesGood
  <2>6. Factor \in Factors /\ Factor.x = Blank
        /\ Factor.col = One(ana)[k0].col /\ Factor.bill = billed
    <3>1. One(ana)[k0] \in Factors
      BY <1>2, OneFactor
    <3>2. One(ana)[k0].col \in Columns
      BY <3>1 DEF Factors
    <3>3. billed \in Int
      <4>1. k0 + 1 .. k1 \subseteq k0 + 1 .. N
        BY <1>3
      <4>2. /\ One(ana)[k0].bill \in Int
            /\ Total(Bills(k0, ana, k0 + 1 .. k1)) \in Int
        BY <1>2, <4>1, BillsAre
      <4> QED
        BY <2>5, <4>2
    <3>4. Blank \in Gathered
      BY DEF Blank, Gathered
    <3> QED
      BY <1>2, <3>2, <3>3, <3>4 DEF Factor, Factors
  <2>7. BackAfter(Factor, k0)[k1 - k0] = g
    BY <1>2, <1>3, <2>4, <2>5, <2>6, BlockIs
  <2>8. x' = Blank /\ col' = g.col /\ billed' = g.bill
    <3>1. g.x = Blank
      BY <1>2, <1>3, OneFactor
    <3> HIDE DEF g
    <3> QED
      BY <2>1, <2>7, <3>1 DEF Becomes
  <2>9. col' = One(ana')[k0'].col /\ billed' = One(ana')[k0'].bill
    BY <1>1, <2>1, <2>8
  <2>10. SameAtAnyThreads'
    BY <1>2, <2>1 DEF SameAtAnyThreads
  <2> QED
    BY <1>1, <1>2, <1>3, <1>4, <2>1, <2>8, <2>9, <2>10 DEF SameInv, Analysing
<1> QED
  BY <1>5, <1>6

LEMMA SameFinish == ASSUME SameInv, Finish PROVE SameInv'
<1>1. /\ in \in Inputs /\ pc = "block" /\ pc' = "done" /\ in' = in
      /\ ana' = ana /\ k0 = N /\ col' = col /\ billed' = billed
  BY DEF SameInv, Finish
<1>2. /\ Analysed(ana) /\ col = One(ana)[N].col /\ billed = One(ana)[N].bill
  BY <1>1 DEF SameInv
<1>3. /\ One(ana)[N].bill = Ops(ana)
      /\ One(ana) = RowsAfter(ana, Unfactored, 0)
  BY <1>2, OneFactor
<1>4. LET one == RowsAfter(ana, Unfactored, 0)[N]
      IN  col = one.col /\ billed = one.bill /\ billed = Ops(ana)
  BY <1>2, <1>3
<1>5. Ops(ana)' = Ops(ana) /\ RowsAfter(ana, Unfactored, 0)' = RowsAfter(ana, Unfactored, 0)
  BY <1>1
<1>6. SameAtAnyThreads'
  BY <1>1, <1>4 DEF SameAtAnyThreads
<1> QED
  BY <1>1, <1>6 DEF SameInv, Analysing

LEMMA SameStep == ASSUME SameInv, [Next]_vars PROVE SameInv'
<1>1. CASE Symbolic
  BY <1>1, SameSymbolic
<1>2. CASE RowsInOrder
  BY <1>2, SameRows
<1>3. CASE Launch
  BY <1>3, SameLaunch
<1>4. CASE NextLane
  BY <1>4, SameNextLane
<1>5. CASE Back
  BY <1>5, SameBack
<1>6. CASE Finish
  BY <1>6, SameFinish
<1>7. CASE \E t \in 1 .. Lanes : LaneRow(t)
  BY <1>7, SameLaneRow
<1>8. CASE UNCHANGED vars
  <2>1. /\ in' = in /\ pc' = pc /\ ana' = ana /\ col' = col /\ x' = x
        /\ k0' = k0 /\ lane' = lane /\ front' = front /\ at' = at
        /\ billed' = billed /\ status' = status
    BY <1>8 DEF vars, lanes
  <2>2. Lanes' = Lanes /\ k1' = k1 /\ (SameAtAnyThreads' <=> SameAtAnyThreads)
    BY <2>1 DEF Lanes, k1, SameAtAnyThreads
  <2> QED
    BY <2>1, <2>2 DEF SameInv
<1>9. CASE Done
  BY <1>8, <1>9 DEF Done
<1> QED
  BY <1>1, <1>2, <1>3, <1>4, <1>5, <1>6, <1>7, <1>8, <1>9 DEF Next, Numeric

\* On any number of threads, whichever of them start and in whatever order
\* their rows come, in blocks of any size or row by row, a factor that is
\* reached is the one of chol_row on the calling thread alone, every value
\* the same to the last bit, and the work billed is the work the analysis
\* counted (CHOL_BLOCK, docs/tolerances.md).
THEOREM FactorOfOneThread == Spec => []SameAtAnyThreads
<1>1. Init => SameInv
  BY SameInit
<1>2. SameInv /\ [Next]_vars => SameInv'
  BY SameStep
<1>3. SameInv => SameAtAnyThreads
  BY DEF SameInv
<1> QED
  BY <1>1, <1>2, <1>3, PTL DEF Spec

-----------------------------------------------------------------------------
\* The system: the order of every analysis that is used is an order.

Ordered(a) ==
    /\ a.perm \in Seq(V) /\ IsOrder(a.perm)
    /\ a.rows = RowsOf(in.graph, a.perm)

OrdersInv ==
    /\ MdGood(md, V) /\ (pc # "md" => MdDone(md))
    /\ pc = "nd" => NdGood(nd)
    /\ pc \in {"race", "redo"} => NdHolds(<< >>, nd.perm)
    /\ pc \in {"block", "lanes"} => Ordered(ana)
CholeskyInv == SameInv /\ OrdersInv /\ FactorIsCholesky

LEMMA MdOrdered ==
  ASSUME MdGood(md, V), MdDone(md), NEW limit PROVE Ordered(Analyse("md", limit))
<1> DEFINE perm == MdPerm(md)
<1>1. perm \in Seq(V) /\ Len(perm) = Cardinality(V) /\ ToSet(perm) = V
  BY MdPermIs
<1>2. Cardinality(V) = N
  BY VertexSets
<1>3. /\ Analyse("md", limit).perm = perm
      /\ Analyse("md", limit).rows = RowsOf(in.graph, perm)
  BY DEF Analyse
<1> HIDE DEF perm
<1> QED
  BY <1>1, <1>2, <1>3 DEF Ordered, IsOrder

LEMMA NdOrdered ==
  ASSUME NdHolds(<< >>, nd.perm), NEW limit
  PROVE  Ordered(Analyse("nd", limit))
<1>1. nd.perm \in Seq(V) /\ IsOrder(nd.perm)
  BY NdDoneIs
<1>2. /\ Analyse("nd", limit).perm = nd.perm
      /\ Analyse("nd", limit).rows = RowsOf(in.graph, nd.perm)
  BY DEF Analyse
<1> QED
  BY <1>1, <1>2 DEF Ordered

LEMMA OrdersInit == ASSUME Init PROVE OrdersInv /\ FactorIsCholesky
<1>1. in.dense \in Int
  BY FactorAssumption DEF Init
<1>2. MdGood(md, V)
  BY <1>1, MdBuildIs DEF Init
<1> QED
  BY <1>2 DEF Init, OrdersInv, FactorIsCholesky

LEMMA OrdersSymbolic ==
  ASSUME OrdersInv, in \in Inputs, Symbolic PROVE OrdersInv'
<1>1. /\ MdGood(md, V) /\ (pc # "md" => MdDone(md))
      /\ pc = "nd" => NdGood(nd)
      /\ pc \in {"race", "redo"} => NdHolds(<< >>, nd.perm)
  BY DEF OrdersInv
<1>2. in' = in
  BY DEF Symbolic, OrderByDegree, FirstAnalysis, Dissect, Race, Redo
<1>4. CASE OrderByDegree
  <2>1. pc = "md" /\ IF MdDone(md) THEN pc' = "first" /\ md' = md
                     ELSE md' = MdStep(md) /\ pc' = pc
    BY <1>4 DEF OrderByDegree
  <2>2. MdGood(md', V) /\ (pc' # "md" => MdDone(md'))
    <3>1. V \in SUBSET V
      OBVIOUS
    <3> QED
      BY <1>1, <2>1, <3>1, MdStepStays
  <2>3. pc' \in {"md", "first"}
    BY <2>1
  <2> QED
    BY <2>2, <2>3 DEF OrdersInv
<1>5. CASE FirstAnalysis
  <2>1. /\ pc = "first" /\ md' = md /\ ana' = Analyse("md", IF in.large THEN Trigger ELSE NoCap)
        /\ \/ pc' = "block"
           \/ pc' = "nd" /\ nd' = NdStart(in.graph, in.dense)
    BY <1>5 DEF FirstAnalysis
  <2>2. MdDone(md)
    BY <1>1, <2>1
  <2> DEFINE a == Analyse("md", IF in.large THEN Trigger ELSE NoCap)
  <2>3. Ordered(a)
    BY <1>1, <2>2, MdOrdered
  <2> HIDE DEF a
  <2>4. ana' = a
    BY <2>1 DEF a
  <2>5. Ordered(ana)'
    BY <1>2, <2>3, <2>4 DEF Ordered
  <2>6. NdGood(NdStart(in.graph, in.dense))
    <3>1. in.dense \in Int
      BY FactorAssumption
    <3> QED
      BY <3>1, NdStartHolds
  <2>7. pc' = "nd" => NdGood(nd')
    BY <2>1, <2>6
  <2> QED
    BY <1>1, <2>1, <2>2, <2>5, <2>7 DEF OrdersInv
<1>6. CASE Dissect
  <2>1. /\ pc = "nd" /\ md' = md
        /\ IF NdDone(nd) THEN pc' = "race" /\ nd' = nd
           ELSE nd' = NdStep(in.graph, nd) /\ pc' = pc
    BY <1>6 DEF Dissect
  <2>2. MdDone(md) /\ NdGood(nd)
    BY <1>1, <2>1
  <2>3. CASE NdDone(nd)
    <3>1. NdHolds(<< >>, nd.perm)
      BY <2>2, <2>3 DEF NdDone, NdGood
    <3> QED
      BY <1>1, <2>1, <2>2, <2>3, <3>1 DEF OrdersInv
  <2>4. CASE ~NdDone(nd)
    <3>1. NdGood(nd')
      BY <2>1, <2>2, <2>4, NdStepHolds
    <3> QED
      BY <1>1, <2>1, <2>2, <2>4, <3>1 DEF OrdersInv
  <2> QED
    BY <2>3, <2>4
<1>7. CASE Race
  <2> DEFINE m == Analyse("md", cap)
             d == Analyse("nd", cap)
             b1 == Analyse("nd", Ops(m))
             b2 == Analyse("md", Ops(d))
  <2>1. pc = "race" /\ MdDone(md) /\ NdHolds(<< >>, nd.perm)
    BY <1>1, <1>7 DEF Race
  <2>2. Ordered(d) /\ Ordered(b1) /\ Ordered(b2)
    BY <1>1, <2>1, MdOrdered, NdOrdered
  <2>3. /\ ana' = d \/ ana' = b1 \/ ana' = b2
        /\ pc' \in {"block", "redo", "race"} /\ md' = md /\ nd' = nd
    <3> DEFINE beside == IF m.full THEN b1 ELSE b2
    <3>1. /\ LET k == beside
             IN  IF m.full
                 THEN /\ ana' = k
                      /\ pc' = IF InPlace(kept', k) THEN "block" ELSE "redo"
                 ELSE IF d.full
                 THEN /\ ana' = k
                      /\ pc' = IF InPlace(kept', k) THEN "block" ELSE "redo"
                 ELSE ana' = d /\ pc' = pc
          /\ md' = md /\ nd' = nd
      BY <1>7 DEF Race
    <3> HIDE DEF m, d, b1, b2
    <3> QED
      BY <2>1, <3>1
  <2> HIDE DEF m, d, b1, b2
  <2>4. Ordered(ana)'
    BY <1>2, <2>2, <2>3 DEF Ordered
  <2> QED
    BY <1>1, <2>1, <2>3, <2>4 DEF OrdersInv
<1>8. CASE Redo
  <2>1. /\ pc = "redo" /\ MdDone(md) /\ NdHolds(<< >>, nd.perm)
        /\ ana' = Analyse(kept, NoCap) /\ pc' = "block" /\ md' = md /\ nd' = nd
    BY <1>1, <1>8 DEF Redo, order
  <2> DEFINE a == Analyse(kept, NoCap)
  <2>2. Ordered(a)
    <3>1. \/ /\ a.perm = Analyse("nd", NoCap).perm
             /\ a.rows = Analyse("nd", NoCap).rows
          \/ a = Analyse("md", NoCap)
      BY DEF Analyse
    <3>2. Ordered(Analyse("md", NoCap)) /\ Ordered(Analyse("nd", NoCap))
      BY <1>1, <2>1, MdOrdered, NdOrdered
    <3> HIDE DEF a
    <3> QED
      BY <3>1, <3>2 DEF Ordered
  <2>3. ana' = a
    BY <2>1
  <2> HIDE DEF a
  <2>4. Ordered(ana)'
    BY <1>2, <2>2, <2>3 DEF Ordered
  <2> QED
    BY <1>1, <2>1, <2>4 DEF OrdersInv
<1> QED
  BY <1>4, <1>5, <1>6, <1>7, <1>8 DEF Symbolic

\* The rest uses the analysis as it is.
LEMMA OrdersStay ==
  ASSUME OrdersInv, in' = in, md' = md, ana' = ana,
         pc \in {"block", "lanes"}, pc' \in {"block", "lanes", "done"}
  PROVE  OrdersInv'
<1>1. MdGood(md, V) /\ MdDone(md) /\ Ordered(ana)
  BY DEF OrdersInv
<1>2. Ordered(ana)'
  BY <1>1 DEF Ordered
<1> QED
  BY <1>1, <1>2 DEF OrdersInv

LEMMA OrdersNumeric ==
  ASSUME OrdersInv, Numeric
  PROVE  /\ OrdersInv' /\ pc \in {"block", "lanes"}
         /\ status' = status \/ status' = "OUT_OF_MEMORY" \/ Finish
<1>1. /\ in' = in /\ md' = md /\ ana' = ana /\ pc \in {"block", "lanes"}
      /\ pc' \in {"block", "lanes", "done"}
      /\ status' = status \/ status' = "OUT_OF_MEMORY" \/ Finish
  <2>1. CASE RowsInOrder
    BY <2>1 DEF RowsInOrder, order
  <2>2. CASE Launch
    BY <2>2 DEF Launch, order
  <2>3. CASE NextLane
    BY <2>3 DEF NextLane, order
  <2>4. CASE Back
    BY <2>4 DEF Back, order
  <2>5. CASE Finish
    BY <2>5 DEF Finish, order
  <2>6. CASE \E t \in 1 .. Lanes : LaneRow(t)
    BY <2>6 DEF LaneRow, order
  <2> QED
    BY <2>1, <2>2, <2>3, <2>4, <2>5, <2>6 DEF Numeric
<1> QED
  BY <1>1, OrdersStay

LEMMA FinishIsCholesky ==
  ASSUME SameInv, OrdersInv, Finish PROVE FactorIsCholesky'
<1>1. /\ pc = "block" /\ in' = in /\ ana' = ana /\ col' = col /\ k0 = N
  BY DEF Finish
<1>2. Analysed(ana) /\ col = One(ana)[N].col
  BY <1>1 DEF SameInv
<1>3. Ordered(ana)
  BY <1>1 DEF OrdersInv
<1>4. IsPermuted(ana.perm) /\ ana.rows = RowsOf(in.graph, ana.perm)
  BY <1>3, OrderIs DEF Ordered
<1>5. \A i \in V : ColumnHolds(One(ana)[N].col[i],
                               Filling(in.graph, ana.perm)[N], i)
  BY <1>2, <1>4, OneIsCholesky
<1> DEFINE F == Filling(in.graph, ana.perm)[N]
<1>6. \A i \in V : ColumnHolds(col[i], F, i)
  BY <1>2, <1>5
<1>7. Filled = F
  BY DEF Filled
<1>8. Filled' = Filled
  BY <1>1 DEF Filled
<1> HIDE DEF F
<1> QED
  BY <1>1, <1>6, <1>7, <1>8 DEF FactorIsCholesky

LEMMA CholeskyStep == ASSUME CholeskyInv, [Next]_vars PROVE CholeskyInv'
<1>1. SameInv'
  BY SameStep DEF CholeskyInv
<1>2. SameInv /\ OrdersInv /\ FactorIsCholesky /\ in \in Inputs
  BY DEF CholeskyInv, SameInv
<1>3. CASE Symbolic
  <2>1. pc \in Analysing /\ status' = status
    BY <1>3 DEF Symbolic, OrderByDegree, FirstAnalysis, Dissect, Race, Redo,
                Analysing
  <2>2. status = "NONE"
    BY <1>2, <2>1 DEF SameInv, Analysing
  <2>3. FactorIsCholesky'
    BY <2>1, <2>2 DEF FactorIsCholesky
  <2> QED
    BY <1>1, <1>2, <1>3, <2>3, OrdersSymbolic DEF CholeskyInv
<1>4. CASE Numeric
  <2>1. /\ OrdersInv' /\ pc \in {"block", "lanes"}
        /\ status' = status \/ status' = "OUT_OF_MEMORY" \/ Finish
    BY <1>2, <1>4, OrdersNumeric
  <2>2. status = "NONE"
    BY <1>2, <2>1 DEF SameInv
  <2>3. CASE Finish
    BY <1>1, <1>2, <2>1, <2>3, FinishIsCholesky DEF CholeskyInv
  <2>4. CASE status' # "OK"
    BY <1>1, <2>1, <2>4 DEF CholeskyInv, FactorIsCholesky
  <2> QED
    BY <2>1, <2>2, <2>3, <2>4
<1>5. CASE UNCHANGED vars
  <2>1. /\ in' = in /\ pc' = pc /\ ana' = ana /\ col' = col /\ md' = md
        /\ nd' = nd /\ status' = status
    BY <1>5 DEF vars, order
  <2>2. Filled' = Filled /\ (Ordered(ana)' <=> Ordered(ana))
    BY <2>1 DEF Filled, Ordered
  <2>3. FactorIsCholesky'
    BY <1>2, <2>1, <2>2 DEF FactorIsCholesky
  <2>4. OrdersInv'
    BY <1>2, <2>1, <2>2 DEF OrdersInv
  <2> QED
    BY <1>1, <2>3, <2>4 DEF CholeskyInv
<1>6. CASE Done
  BY <1>5, <1>6 DEF Done
<1> QED
  BY <1>3, <1>4, <1>5, <1>6 DEF Next

\* A factor that is reached is the Cholesky factor of the matrix, whatever
\* the pattern, the order, the threads and the blocks: each column has exactly
\* the rows that fill in, ascending, and each value has had subtracted, once
\* each, the columns that both its rows have an entry in (chol_analyse, ereach
\* and chol_row; the parts of a dissection and of a minimum degree run list
\* every vertex once, so the two orders are orders).
THEOREM FactorHolds == Spec => []FactorIsCholesky
<1>1. Init => CholeskyInv
  BY SameInit, OrdersInit DEF CholeskyInv
<1>2. CholeskyInv /\ [Next]_vars => CholeskyInv'
  BY CholeskyStep
<1>3. CholeskyInv => FactorIsCholesky
  BY DEF CholeskyInv
<1> QED
  BY <1>1, <1>2, <1>3, PTL DEF Spec

-----------------------------------------------------------------------------
\* The quotient graph of minimum degree is the graph elimination leaves.

LEMMA EliminatingIs ==
  ASSUME NEW G, NEW s \in Seq(V)
  PROVE  LET h == Eliminating(G, s)
         IN  /\ h \in [0 .. Len(s) -> SUBSET (G \cup SUBSET V)] /\ h[0] = G
             /\ \A q \in 1 .. Len(s) : h[q] = Joining(h[q - 1], s[q])
<1> DEFINE n == Len(s)
           T == SUBSET (G \cup SUBSET V)
           start == G
           Next1(b, q) == Joining(b, s[q])
           step == [q \in 1 .. n |-> [b \in T |-> Next1(b, q)]]
           Def(f) == f = [q \in 0 .. n |-> IF q = 0 THEN start
                                           ELSE Next1(f[q - 1], q)]
           h == Eliminating(G, s)
<1>1. n \in Nat /\ start \in T
  OBVIOUS
<1>2. h = CHOOSE f : Def(f)
  BY DEF Eliminating
<1>3. ASSUME NEW q \in 1 .. n, NEW b \in T PROVE Next1(b, q) \in T
  BY DEF Joining, Neighbours
<1> HIDE DEF n, T, Next1, h, start
<1>4. step \in [1 .. n -> [T -> T]]
  BY <1>3
<1>5. \E f : Def(f)
  <2>1. PICK f : IsLoop(f, n, T, start, step)
    <3> HIDE DEF step
    <3> QED
      BY <1>1, <1>4, Loop
  <2>2. ASSUME NEW q \in 1 .. n
        PROVE  q - 1 \in 0 .. n /\ f[q] = Next1(f[q - 1], q)
    <3>1. q - 1 \in 0 .. n
      BY <1>1
    <3>2. f[q - 1] \in T /\ f[q] = step[q][f[q - 1]]
      BY <2>1, <3>1 DEF IsLoop
    <3>3. step[q][f[q - 1]] = Next1(f[q - 1], q)
      BY <3>2
    <3> QED
      BY <3>1, <3>2, <3>3
  <2> QED
    BY <1>1, <2>1, <2>2 DEF IsLoop
<1>6. Def(h)
  <2> HIDE DEF Def
  <2> QED
    BY <1>2, <1>5
<1>7. /\ h = [q \in 0 .. n |-> h[q]] /\ h[0] = start
      /\ \A q \in 1 .. n : h[q] = Next1(h[q - 1], q)
  <2>1. 0 \in 0 .. n /\ \A q \in 1 .. n : q \in 0 .. n /\ q # 0
    BY <1>1
  <2>2. \A q \in 0 .. n : h[q] = IF q = 0 THEN start ELSE Next1(h[q - 1], q)
    BY <1>6
  <2>3. h = [q \in 0 .. n |-> h[q]]
    BY <1>6, <2>2
  <2> QED
    BY <2>1, <2>2, <2>3
<1> HIDE DEF Def
<1>8. \A q \in 1 .. n : h[q - 1] \in T => h[q] \in T
  BY <1>3, <1>7
<1>9. h \in [0 .. n -> T]
  BY <1>1, <1>7, <1>8, LoopStays
<1> QED
  BY <1>7, <1>9 DEF n, T, Next1, h, start

LEMMA EliminatedNext ==
  ASSUME NEW G, NEW s \in Seq(V), NEW v \in V
  PROVE  /\ Eliminated(G, << >>) = G
         /\ Eliminated(G, Append(s, v)) = Joining(Eliminated(G, s), v)
<1> DEFINE n == Len(s)
           t == Append(s, v)
           A == Eliminating(G, s)
           B == Eliminating(G, t)
           T == {q \in 0 .. n : A[q] = B[q]}
<1>1. /\ n \in Nat /\ t \in Seq(V) /\ Len(t) = n + 1 /\ t[n + 1] = v
      /\ \A q \in 1 .. n : t[q] = s[q]
  OBVIOUS
<1> HIDE DEF t
<1>2. /\ A[0] = G /\ \A q \in 1 .. n : A[q] = Joining(A[q - 1], s[q])
      /\ B[0] = G /\ \A q \in 1 .. n + 1 : B[q] = Joining(B[q - 1], t[q])
  BY <1>1, EliminatingIs
<1>3. << >> \in Seq(V) /\ Len(<< >>) = 0
  OBVIOUS
<1>4. Eliminated(G, << >>) = G
  BY <1>3, EliminatingIs DEF Eliminated
<1> HIDE DEF A, B, n
<1>5. T \in SUBSET (0 .. n) /\ 0 \in T
  BY <1>1, <1>2
<1>6. ASSUME NEW q \in 1 .. n, q - 1 \in T PROVE q \in T
  <2>1. q \in 1 .. n + 1 /\ q \in 0 .. n
    BY <1>1
  <2> QED
    BY <1>1, <1>2, <1>6, <2>1
<1>7. T = 0 .. n
  <2> HIDE DEF T
  <2> QED
    BY <1>1, <1>5, <1>6, Induct
<1>8. A[n] = B[n] /\ n + 1 \in 1 .. n + 1 /\ (n + 1) - 1 = n
  BY <1>1, <1>7
<1>9. B[n + 1] = Joining(A[n], v)
  <2>1. B[n + 1] = Joining(B[(n + 1) - 1], t[n + 1])
    BY <1>2, <1>8
  <2> QED
    BY <1>1, <1>8, <2>1
<1> QED
  BY <1>1, <1>4, <1>9 DEF Eliminated, A, B, n, t

\* Eliminating p joins its neighbours, and no vertex to itself.
LEMMA JoiningIs ==
  ASSUME NEW H, \A v \in V : {v} \notin H, NEW p \in V
  PROVE  /\ \A v \in V : {v} \notin Joining(H, p)
         /\ \A u, v \in V :
                u # v => ({u, v} \in Joining(H, p) <=>
                             \/ {u, v} \in H
                             \/ {u, p} \in H /\ {v, p} \in H)
<1>1. ASSUME NEW v \in V PROVE {v} \notin Joining(H, p)
  <2>1. Cardinality({v}) = 1
    BY FS_Singleton
  <2> QED
    BY <2>1 DEF Joining
<1>2. ASSUME NEW u \in V, NEW v \in V, u # v
      PROVE  {u, v} \in Joining(H, p) <=>
                 {u, v} \in H \/ ({u, p} \in H /\ {v, p} \in H)
  <2>1. Cardinality({u, v}) = 2
    <3>1. IsFiniteSet({u}) /\ Cardinality({u}) = 1 /\ {u} \cup {v} = {u, v}
      BY FS_Singleton
    <3>2. Cardinality({u} \cup {v}) = Cardinality({u}) + 1
      BY <1>2, <3>1, FS_AddElement
    <3> QED
      BY <3>1, <3>2
  <2> DEFINE D == Neighbours(H, p)
  <2>2. {u, v} \in SUBSET D <=> {u, p} \in H /\ {v, p} \in H
    <3>1. \A w \in V : w \in D <=> {w, p} \in H
      BY DEF Neighbours
    <3>2. {u, v} \in SUBSET D <=> u \in D /\ v \in D
      OBVIOUS
    <3> QED
      BY <3>1, <3>2
  <2>3. Joining(H, p) = H \cup {e \in SUBSET D : Cardinality(e) = 2}
    BY DEF Joining
  <2> HIDE DEF D
  <2> QED
    BY <2>1, <2>2, <2>3
<1> QED
  BY <1>1, <1>2

\* Sets are no more together than one by one.
LEMMA UnionCounts ==
  ASSUME NEW s \in Seq(Int), NEW W \in [1 .. Len(s) -> SUBSET V],
         \A q \in 1 .. Len(s) : Cardinality(W[q]) <= s[q]
  PROVE  Cardinality(UNION {W[q] : q \in 1 .. Len(s)}) <= Total(s)
<1> DEFINE n == Len(s)
           A == Sums(s)
           U(m) == UNION {W[q] : q \in 1 .. m}
           T == {m \in 0 .. n : Cardinality(U(m)) <= A[m]}
<1>1. /\ n \in Nat /\ A \in [0 .. n -> Int] /\ A[0] = 0
      /\ \A q \in 1 .. n : A[q] = A[q - 1] + s[q] /\ s[q] \in Int
  BY SumsIs
<1> HIDE DEF A, n
<1>2. W \in [1 .. n -> SUBSET V] /\ \A q \in 1 .. n : Cardinality(W[q]) <= s[q]
  BY DEF n
<1>3. 0 \in T
  <2>1. U(0) = {}
    OBVIOUS
  <2>2. Cardinality(U(0)) = 0
    BY <2>1, FS_EmptySet
  <2> QED
    BY <1>1, <2>2
<1>4. ASSUME NEW m \in 1 .. n, m - 1 \in T PROVE m \in T
  <2> DEFINE B == U(m - 1)
             C == W[m]
  <2>1. m - 1 \in 0 .. n /\ m \in 0 .. n
    BY <1>1
  <2>2. U(m) = B \cup C
    <3>1. \A q : q \in 1 .. m <=> q \in 1 .. m - 1 \/ q = m
      OBVIOUS
    <3> QED
      BY <3>1
  <2>3. B \in SUBSET V /\ C \in SUBSET V
    <3>1. \A q \in 1 .. m - 1 : q \in 1 .. n
      BY <1>1
    <3> QED
      BY <1>2, <3>1
  <2> HIDE DEF B, C, U
  <2>4. Cardinality(B \cup C) <= Cardinality(B) + Cardinality(C)
    <3>1. IsFiniteSet(B) /\ IsFiniteSet(C)
      BY <2>3, VertexSets
    <3>2. Cardinality(B \cup C) =
              Cardinality(B) + Cardinality(C) - Cardinality(B \cap C)
      BY <3>1, FS_Union
    <3>3. B \cap C \in SUBSET V
      BY <2>3
    <3>4. /\ Cardinality(B) \in Nat /\ Cardinality(C) \in Nat
          /\ Cardinality(B \cap C) \in Nat
      BY <2>3, <3>3, VertexSets
    <3> DEFINE b == Cardinality(B)
               c == Cardinality(C)
               d == Cardinality(B \cap C)
    <3> HIDE DEF b, c, d
    <3>5. b \in Nat /\ c \in Nat /\ d \in Nat /\ Cardinality(B \cup C) = b + c - d
      BY <3>2, <3>4 DEF b, c, d
    <3>6. Cardinality(B \cup C) <= b + c
      BY <3>5
    <3> QED
      BY <3>6 DEF b, c
  <2>5. Cardinality(B) <= A[m - 1] /\ A[m - 1] \in Int
    BY <1>1, <1>4, <2>1 DEF B
  <2>6. Cardinality(C) <= s[m] /\ s[m] \in Int /\ A[m] = A[m - 1] + s[m]
    BY <1>1, <1>2 DEF C
  <2>7. Cardinality(B) \in Nat /\ Cardinality(C) \in Nat
          /\ Cardinality(B \cup C) \in Nat
    <3>1. B \cup C \in SUBSET V
      BY <2>3
    <3> QED
      BY <2>3, <3>1, VertexSets
  <2>8. Cardinality(B \cup C) <= A[m]
    <3> DEFINE b == Cardinality(B)
               c == Cardinality(C)
               d == Cardinality(B \cup C)
               e == A[m - 1]
               f == A[m]
               r == s[m]
    <3> HIDE DEF b, c, d, e, f, r
    <3>1. /\ b \in Nat /\ c \in Nat /\ d \in Nat /\ e \in Int /\ r \in Int
          /\ d <= b + c /\ b <= e /\ c <= r /\ f = e + r
      BY <2>4, <2>5, <2>6, <2>7 DEF b, c, d, e, f, r
    <3>2. d <= f
      BY <3>1
    <3> QED
      BY <3>2 DEF d, f
  <2> QED
    BY <2>1, <2>2, <2>8
<1>5. T = 0 .. n
  <2>1. T \in SUBSET (0 .. n)
    OBVIOUS
  <2> HIDE DEF T
  <2> QED
    BY <1>1, <1>3, <1>4, <2>1, Induct
<1>6. n \in 0 .. n
  BY <1>1
<1> QED
  BY <1>5, <1>6 DEF Total, A, n

Seen(g, v) == g.var[v] \cup UNION {g.var[e] : e \in MdOwn(g, v)}
Real(g, H, v) == Neighbours(H, v) \cap MdLive(g)

\* A live element has the live vertices that it joins, and they have it; what
\* a vertex knows is the graph that elimination leaves.
Members(g) ==
    /\ \A e \in V : g.state[e] = "elt" =>
           /\ g.var[e] \subseteq MdLive(g)
           /\ \A i \in MdLive(g) : e \in g.elt[i] <=> i \in g.var[e]
    /\ \A i, e \in MdLive(g) : e \notin g.elt[i]
Quotient(g, H) ==
    /\ \A v \in V : {v} \notin H
    /\ Members(g)
    /\ \A v \in MdLive(g) :
           /\ (Seen(g, v) \cap MdLive(g)) \ {v} = Real(g, H, v)
           /\ g.deg[v] >= Cardinality(Real(g, H, v))

\* What an elimination of p does to the live vertices and elements: near are
\* the neighbours of p, inside the elements that go into the new one.
Absorbs(g, p, near, inside, h) ==
    /\ MdLive(h) = MdLive(g) \ {p}
    /\ near \subseteq MdLive(h)
    /\ \A e \in inside : g.var[e] \subseteq near
    /\ \A e \in V : h.state[e] = "elt" <=>
           \/ e = p
           \/ g.state[e] = "elt" /\ e \notin g.elt[p] /\ e \notin inside
    /\ \A e \in V : h.state[e] = "elt" =>
           h.var[e] = IF e = p THEN near ELSE g.var[e]
    /\ \A v \in MdLive(h) :
           /\ v \in near => h.var[v] = (g.var[v] \cap MdLive(h)) \ near
           /\ v \notin near => h.var[v] = g.var[v] /\ h.elt[v] = g.elt[v]
                                                   /\ h.deg[v] = g.deg[v]
    /\ \A v \in near : \A e \in V :
           e \in h.elt[v] <=> e = p \/ (e \in g.elt[v] /\ h.state[e] = "elt")

LEMMA AbsorbsIs ==
  ASSUME NEW g \in MdTypes, Members(g), NEW p \in MdLive(g)
  PROVE  LET near == MdNear(g, p)
             j == MdJoined(g, p, MdOwn(g, p), near)
             h == MdEliminate(g, p)
         IN  /\ \E inside \in SUBSET V : Absorbs(g, p, near, inside, h)
             /\ \A e \in V : h.state[e] = "elt" /\ e # p =>
                    MdOutside(j, near, e) = Cardinality(g.var[e] \ near)
             /\ \A v \in near : /\ h.deg[v] = MdBound(j, near, h.elt[v] \ {p}, v)
                                /\ j.var[v] = g.var[v] /\ j.deg[v] = g.deg[v]
             /\ MdLive(j) = MdLive(h) /\ j \in MdTypes /\ h \in MdTypes
<1> DEFINE own == MdOwn(g, p)
           near == MdNear(g, p)
           j == MdJoined(g, p, own, near)
           h == MdEliminate(g, p)
           touched == MdTouched(j, near)
           inside == {e \in touched : MdOutside(j, near, e) = 0}
           L == MdLive(g)
<1>1. /\ p \in V /\ L \in SUBSET V /\ p \in L
      /\ \A v \in V : v \in L <=> g.state[v] = "var"
  BY DEF MdLive
<1>2. /\ own \in SUBSET V /\ near \in SUBSET V /\ near \subseteq L \ {p}
      /\ \A e \in V : e \in own <=> e \in g.elt[p] /\ g.state[e] = "elt"
  BY <1>1 DEF MdOwn, MdNear, MdTypes
<1>3. h \in MdTypes /\ MdLive(h) = L \ {p} /\ IsEliminated(g, p, h)
  BY <1>1, MdEliminateIs
<1>4. /\ \A v \in V : /\ h.state[v] = IF v \in inside THEN "dead" ELSE j.state[v]
                      /\ h.elt[v] = IF v \in near
                                    THEN {e \in j.elt[v] : e \in touched \ inside}
                                             \cup {p}
                                    ELSE j.elt[v]
                      /\ h.var[v] = IF v \in inside THEN {}
                                    ELSE IF v \in near
                                    THEN (j.var[v] \cap MdLive(j)) \ near
                                    ELSE j.var[v]
      /\ \A v \in V : h.deg[v] = IF v \in near
                    THEN MdBound(j, near, {e \in j.elt[v] : e \in touched \ inside}, v)
                    ELSE j.deg[v]
  BY <1>3 DEF IsEliminated
<1> HIDE DEF own, near, h
<1>5. IsJoined(g, p, own, near, j)
  BY <1>1, <1>2, MdJoinedIs
<1> HIDE DEF j
<1>6. /\ j \in MdTypes /\ j.deg = g.deg
      /\ \A v \in V :
             /\ j.state[v] = IF v \in own THEN "dead"
                             ELSE IF v = p THEN "elt" ELSE g.state[v]
             /\ j.var[v] = IF v \in own THEN {} ELSE IF v = p THEN near
                           ELSE g.var[v]
             /\ j.elt[v] = IF v = p THEN {} ELSE g.elt[v]
  BY <1>5 DEF IsJoined
<1>7. MdLive(j) = L \ {p}
  BY <1>1, <1>2, <1>6 DEF MdLive
<1>8. /\ \A e \in V : g.state[e] = "elt" =>
             /\ g.var[e] \subseteq L
             /\ \A i \in L : e \in g.elt[i] <=> i \in g.var[e]
      /\ \A i, e \in L : e \notin g.elt[i]
  BY DEF Members
<1> HIDE DEF L
<1>9. \A i \in near : i \in L /\ i \in V /\ i # p /\ j.elt[i] = g.elt[i]
  BY <1>1, <1>2, <1>6
<1>10. \A e \in V : e \in touched <=> /\ g.state[e] = "elt" /\ e \notin own
                                      /\ \E i \in near : e \in g.elt[i]
  <2> SUFFICES ASSUME NEW e \in V
               PROVE  e \in touched <=> /\ g.state[e] = "elt" /\ e \notin own
                                        /\ \E i \in near : e \in g.elt[i]
    OBVIOUS
  <2>1. e \in touched <=> j.state[e] = "elt" /\ \E i \in near : e \in j.elt[i]
    BY DEF MdTouched
  <2>2. \A i \in near : e \in j.elt[i] => e # p
    BY <1>1, <1>8, <1>9
  <2> QED
    BY <1>6, <1>9, <2>1, <2>2
<1>11. ASSUME NEW e \in V, g.state[e] = "elt", e \notin own
       PROVE  MdOutside(j, near, e) = Cardinality(g.var[e] \ near)
  <2> DEFINE M == g.var[e]
  <2>1. e # p /\ j.var[e] = M
    BY <1>1, <1>6, <1>11
  <2>2. {i \in near : e \in j.elt[i]} = M \cap near
    BY <1>2, <1>8, <1>9, <1>11
  <2>3. M \in SUBSET V
    BY DEF MdTypes
  <2> HIDE DEF M
  <2>4. IsFiniteSet(M)
    BY <2>3, VertexSets
  <2>5. Cardinality(M \ near) = Cardinality(M) - Cardinality(M \cap near)
    BY <2>4, FS_Difference
  <2> QED
    BY <2>1, <2>2, <2>5 DEF MdOutside, M
<1>12. \A e \in V : e \in inside => e \in touched /\ g.var[e] \subseteq near
  <2> SUFFICES ASSUME NEW e \in V, e \in inside
               PROVE  e \in touched /\ g.var[e] \subseteq near
    OBVIOUS
  <2> DEFINE O == g.var[e] \ near
  <2>1. e \in touched /\ MdOutside(j, near, e) = 0
    OBVIOUS
  <2>2. Cardinality(O) = 0
    BY <1>10, <1>11, <2>1
  <2>3. O \in SUBSET V
    BY DEF MdTypes
  <2> HIDE DEF O
  <2>4. O = {}
    BY <2>2, <2>3, VertexSets, FS_EmptySet
  <2> QED
    BY <2>1, <2>4 DEF O
<1>13. inside \in SUBSET V
  <2>1. touched \in SUBSET V
    BY <1>2, <1>6 DEF MdTouched, MdTypes
  <2> QED
    BY <2>1
<1> HIDE DEF touched, inside
<1>14. \A e \in V : h.state[e] = "elt" <=>
           \/ e = p
           \/ g.state[e] = "elt" /\ e \notin g.elt[p] /\ e \notin inside
  <2>1. p \notin inside /\ p \notin own
    BY <1>1, <1>2, <1>10, <1>12
  <2> QED
    BY <1>2, <1>4, <1>6, <2>1
<1>15. \A e \in V : h.state[e] = "elt" =>
           h.var[e] = IF e = p THEN near ELSE g.var[e]
  <2> SUFFICES ASSUME NEW e \in V, h.state[e] = "elt"
               PROVE  h.var[e] = IF e = p THEN near ELSE g.var[e]
    OBVIOUS
  <2>1. e \notin inside
    BY <1>4
  <2>2. e \notin near
    BY <1>1, <1>2, <1>14
  <2>3. e \notin own
    BY <1>1, <1>2, <1>14
  <2> QED
    BY <1>4, <1>6, <2>1, <2>2, <2>3
<1>16. \A v \in L \ {p} : v \in V /\ v \notin inside /\ v \notin own
  BY <1>1, <1>2, <1>10, <1>12
<1>17. \A v \in L \ {p} : v \in near => h.var[v] = (g.var[v] \cap (L \ {p})) \ near
  BY <1>4, <1>6, <1>7, <1>16
<1>18. \A v \in L \ {p} : v \notin near => /\ h.var[v] = g.var[v]
                                           /\ h.elt[v] = g.elt[v]
                                           /\ h.deg[v] = g.deg[v]
  BY <1>4, <1>6, <1>16
<1>19. ASSUME NEW v \in near, NEW e \in V
       PROVE  e \in h.elt[v] <=> e = p \/ (e \in g.elt[v] /\ h.state[e] = "elt")
  <2>1. e \in h.elt[v] <=> e = p \/ (e \in g.elt[v] /\ e \in touched
                                                    /\ e \notin inside)
    BY <1>4, <1>9
  <2>2. e \in g.elt[v] => e # p
    BY <1>1, <1>8, <1>9
  <2> QED
    BY <1>2, <1>10, <1>14, <2>1, <2>2
<1>20. ASSUME NEW v \in near
       PROVE  h.deg[v] = MdBound(j, near, h.elt[v] \ {p}, v)
  <2> DEFINE S == {e \in j.elt[v] : e \in touched \ inside}
  <2>1. h.deg[v] = MdBound(j, near, S, v) /\ h.elt[v] = S \cup {p}
    BY <1>4, <1>9
  <2>2. p \notin S
    BY <1>1, <1>8, <1>9
  <2> HIDE DEF S
  <2>3. h.elt[v] \ {p} = S
    BY <2>1, <2>2
  <2> QED
    BY <2>1, <2>3
<1>21. Absorbs(g, p, near, inside, h)
  BY <1>2, <1>3, <1>12, <1>13, <1>14, <1>15, <1>17, <1>18, <1>19
     DEF Absorbs, L
<1>22. \A e \in V : h.state[e] = "elt" /\ e # p =>
           MdOutside(j, near, e) = Cardinality(g.var[e] \ near)
  BY <1>2, <1>11, <1>14
<1>23. \A v \in near : j.var[v] = g.var[v] /\ j.deg[v] = g.deg[v]
  BY <1>6, <1>9, <1>2, <1>16
<1> QED
  BY <1>3, <1>6, <1>7, <1>13, <1>20, <1>21, <1>22, <1>23
     DEF h, j, near, own

LEMMA MembersStay ==
  ASSUME NEW g \in MdTypes, Members(g), NEW p \in MdLive(g), NEW near,
         NEW inside \in SUBSET V, NEW h, Absorbs(g, p, near, inside, h)
  PROVE  Members(h)
<1> DEFINE L == MdLive(g)
           K == MdLive(h)
<1>1. /\ K = L \ {p} /\ near \subseteq K /\ p \in L /\ L \subseteq V
      /\ \A e \in V : h.state[e] = "elt" <=>
             \/ e = p
             \/ g.state[e] = "elt" /\ e \notin g.elt[p] /\ e \notin inside
      /\ \A e \in V : h.state[e] = "elt" =>
             h.var[e] = IF e = p THEN near ELSE g.var[e]
      /\ \A v \in K : v \notin near => h.elt[v] = g.elt[v]
      /\ \A v \in near : \A e \in V :
             e \in h.elt[v] <=> e = p \/ (e \in g.elt[v] /\ h.state[e] = "elt")
  BY DEF Absorbs, MdLive
<1>2. /\ \A e \in V : g.state[e] = "elt" =>
             /\ g.var[e] \subseteq L
             /\ \A i \in L : e \in g.elt[i] <=> i \in g.var[e]
      /\ \A i, e \in L : e \notin g.elt[i]
  BY DEF Members
<1> HIDE DEF L, K
<1>3. ASSUME NEW e \in V, h.state[e] = "elt"
      PROVE  /\ h.var[e] \subseteq K
             /\ \A i \in K : e \in h.elt[i] <=> i \in h.var[e]
  <2>1. CASE e = p
    <3>1. h.var[e] = near
      BY <1>1, <1>3, <2>1
    <3>2. ASSUME NEW i \in K PROVE e \in h.elt[i] <=> i \in near
      <4>1. i \in near => e \in h.elt[i]
        BY <1>1, <1>3, <2>1
      <4>2. i \notin near => e \notin h.elt[i]
        BY <1>1, <1>2, <2>1
      <4> QED
        BY <4>1, <4>2
    <3> QED
      BY <1>1, <3>1, <3>2
  <2>2. CASE e # p
    <3>1. g.state[e] = "elt" /\ e \notin g.elt[p] /\ h.var[e] = g.var[e]
      BY <1>1, <1>3, <2>2
    <3>2. g.var[e] \subseteq K
      BY <1>1, <1>2, <3>1
    <3>3. ASSUME NEW i \in K PROVE e \in h.elt[i] <=> i \in g.var[e]
      <4>1. i \in L /\ (e \in g.elt[i] <=> i \in g.var[e])
        BY <1>1, <1>2, <3>1
      <4>2. e \in h.elt[i] <=> e \in g.elt[i]
        BY <1>1, <1>3, <2>2
      <4> QED
        BY <4>1, <4>2
    <3> QED
      BY <3>1, <3>2, <3>3
  <2> QED
    BY <2>1, <2>2
<1>4. \A i, e \in K : e \notin h.elt[i]
  <2> SUFFICES ASSUME NEW i \in K, NEW e \in K PROVE e \notin h.elt[i]
    OBVIOUS
  <2>1. e # p /\ e \in V /\ e \notin g.elt[i]
    BY <1>1, <1>2
  <2> QED
    BY <1>1, <2>1
<1> QED
  BY <1>3, <1>4 DEF Members, K

LEMMA KnownHas ==
  ASSUME NEW g \in MdTypes, NEW v \in V, NEW u
  PROVE  u \in Seen(g, v) <=>
             \/ u \in g.var[v]
             \/ \E e \in V : e \in g.elt[v] /\ g.state[e] = "elt" /\ u \in g.var[e]
<1>1. g.elt[v] \subseteq V
  BY DEF MdTypes
<1> QED
  BY <1>1 DEF Seen, MdOwn

\* The neighbours of what is eliminated are those the graph has.
LEMMA NearIs ==
  ASSUME NEW g \in MdTypes, NEW H, Quotient(g, H), NEW p \in MdLive(g)
  PROVE  /\ MdNear(g, p) = Real(g, H, p)
         /\ \A u \in MdLive(g) : u \in MdNear(g, p) <=> {u, p} \in H
<1>1. MdNear(g, p) = (Seen(g, p) \cap MdLive(g)) \ {p}
  BY DEF MdNear, Seen
<1>2. MdNear(g, p) = Real(g, H, p)
  BY <1>1 DEF Quotient
<1>3. MdLive(g) \subseteq V
  BY DEF MdLive
<1> QED
  BY <1>2, <1>3 DEF Real, Neighbours

LEMMA RealHas ==
  ASSUME NEW g, NEW H, NEW v
  PROVE  \A u : u \in Real(g, H, v) <=> u \in MdLive(g) /\ {u, v} \in H
<1>1. MdLive(g) \subseteq V
  BY DEF MdLive
<1> QED
  BY <1>1 DEF Real, Neighbours

\* What each vertex knows after an elimination.
LEMMA KnownStays ==
  ASSUME NEW g \in MdTypes, NEW H, Quotient(g, H), NEW p \in MdLive(g),
         NEW inside \in SUBSET V, NEW h \in MdTypes,
         Absorbs(g, p, MdNear(g, p), inside, h), NEW v \in MdLive(h)
  PROVE  /\ (Seen(h, v) \cap MdLive(h)) \ {v} = Real(h, Joining(H, p), v)
         /\ v \notin MdNear(g, p) => Real(h, Joining(H, p), v) \subseteq Real(g, H, v)
         /\ v \in MdNear(g, p) => Real(h, Joining(H, p), v) \subseteq
                (Real(g, H, v) \cup MdNear(g, p)) \ {v}
<1> DEFINE L == MdLive(g)
           K == MdLive(h)
           near == MdNear(g, p)
           J == Joining(H, p)
<1>1. /\ K = L \ {p} /\ near \subseteq K /\ p \in L /\ L \subseteq V /\ v \in K
      /\ \A e \in inside : g.var[e] \subseteq near
      /\ \A e \in V : h.state[e] = "elt" <=>
             \/ e = p
             \/ g.state[e] = "elt" /\ e \notin g.elt[p] /\ e \notin inside
      /\ \A e \in V : h.state[e] = "elt" =>
             h.var[e] = IF e = p THEN near ELSE g.var[e]
      /\ v \in near => h.var[v] = (g.var[v] \cap K) \ near
      /\ v \notin near => h.var[v] = g.var[v] /\ h.elt[v] = g.elt[v]
      /\ \A e \in V : v \in near =>
             (e \in h.elt[v] <=> e = p \/ (e \in g.elt[v] /\ h.state[e] = "elt"))
  BY DEF Absorbs, MdLive
<1>2. /\ \A e \in V : g.state[e] = "elt" =>
             /\ g.var[e] \subseteq L
             /\ \A i \in L : e \in g.elt[i] <=> i \in g.var[e]
      /\ \A i, e \in L : e \notin g.elt[i]
  BY DEF Members, Quotient
<1>3. \A u \in L : u \in near <=> {u, p} \in H
  BY NearIs
<1>4. \A w \in V : {w} \notin H
  BY DEF Quotient
<1>5. /\ \A w \in V : {w} \notin J
      /\ \A u, w \in V : u # w => ({u, w} \in J <=>
             {u, w} \in H \/ ({u, p} \in H /\ {w, p} \in H))
  BY <1>1, <1>4, JoiningIs
<1>6. \A u \in L : u # v => (u \in Seen(g, v) <=> {u, v} \in H)
  <2>1. (Seen(g, v) \cap L) \ {v} = Real(g, H, v)
    BY <1>1 DEF Quotient
  <2> QED
    BY <1>1, <2>1, RealHas
<1>7. /\ \A u : u \in Real(h, J, v) <=> u \in K /\ {u, v} \in J
      /\ \A u : u \in Real(g, H, v) <=> u \in L /\ {u, v} \in H
  BY RealHas
<1>8. \A u \in V : /\ u \in Seen(g, v) <=>
                         \/ u \in g.var[v]
                         \/ \E e \in V : /\ e \in g.elt[v] /\ g.state[e] = "elt"
                                         /\ u \in g.var[e]
                   /\ u \in Seen(h, v) <=>
                         \/ u \in h.var[v]
                         \/ \E e \in V : /\ e \in h.elt[v] /\ h.state[e] = "elt"
                                         /\ u \in h.var[e]
  BY <1>1, KnownHas
<1>9. \A e \in V : \A u \in L : /\ e \in g.elt[p] /\ g.state[e] = "elt"
                                /\ u \in g.var[e] /\ u # p
                                => u \in near
  BY DEF MdNear, MdOwn
<1> HIDE DEF L, K, near, J
<1>10. CASE v \notin near
  <2>1. \A e \in V : e \in g.elt[v] => (h.state[e] = "elt" <=> g.state[e] = "elt")
    <3> SUFFICES ASSUME NEW e \in V, e \in g.elt[v]
                 PROVE  h.state[e] = "elt" <=> g.state[e] = "elt"
      OBVIOUS
    <3>1. e # p
      BY <1>1, <1>2
    <3>2. g.state[e] = "elt" => v \in g.var[e]
      BY <1>1, <1>2
    <3> QED
      BY <1>1, <1>9, <1>10, <3>1, <3>2
  <2>2. \A e \in V : e \in g.elt[v] => e # p
    BY <1>1, <1>2
  <2>3. \A u \in V : u \in Seen(h, v) <=> u \in Seen(g, v)
    BY <1>1, <1>8, <1>10, <2>1, <2>2
  <2>4. \A u \in K : u # v => ({u, v} \in J <=> {u, v} \in H)
    BY <1>1, <1>3, <1>5, <1>10
  <2>5. \A u \in K : u # v => (u \in Seen(h, v) <=> {u, v} \in J)
    BY <1>1, <1>6, <2>3, <2>4
  <2>6. {v, v} \notin J
    BY <1>1, <1>5
  <2> QED
    BY <1>1, <1>7, <1>10, <2>4, <2>5, <2>6 DEF J, K, near, L
<1>11. CASE v \in near
  <2>1. ASSUME NEW u \in K, u # v
        PROVE  u \in Seen(h, v) <=> u \in near \/ u \in Seen(g, v)
    <3>1. u \in L /\ u \in V /\ u # p
      BY <1>1
    <3>2. ASSUME u \in near PROVE u \in Seen(h, v)
      BY <1>1, <1>8, <1>11, <3>1, <3>2
    <3>3. ASSUME u \in Seen(g, v), u \notin near PROVE u \in Seen(h, v)
      <4>1. CASE u \in g.var[v]
        BY <1>1, <1>8, <1>11, <3>1, <3>3, <4>1
      <4>2. CASE \E e \in V : e \in g.elt[v] /\ g.state[e] = "elt" /\ u \in g.var[e]
        <5>1. PICK e \in V : e \in g.elt[v] /\ g.state[e] = "elt" /\ u \in g.var[e]
          BY <4>2
        <5>2. e \notin g.elt[p] /\ e \notin inside
          BY <1>1, <1>9, <3>1, <3>3, <5>1
        <5>3. h.state[e] = "elt" /\ e \in h.elt[v]
          BY <1>1, <1>11, <5>1, <5>2
        <5>4. e # p
          BY <1>1, <1>2, <5>1
        <5> QED
          BY <1>1, <1>8, <3>1, <5>1, <5>3, <5>4
      <4> QED
        BY <1>8, <3>1, <3>3, <4>1, <4>2
    <3>4. ASSUME u \in Seen(h, v), u \notin near PROVE u \in Seen(g, v)
      <4>1. CASE u \in h.var[v]
        BY <1>1, <1>8, <1>11, <3>1, <4>1
      <4>2. CASE \E e \in V : e \in h.elt[v] /\ h.state[e] = "elt" /\ u \in h.var[e]
        <5>1. PICK e \in V : e \in h.elt[v] /\ h.state[e] = "elt" /\ u \in h.var[e]
          BY <4>2
        <5>2. e # p
          BY <1>1, <3>4, <5>1
        <5>3. e \in g.elt[v] /\ g.state[e] = "elt" /\ u \in g.var[e]
          BY <1>1, <1>11, <5>1, <5>2
        <5> QED
          BY <1>8, <3>1, <5>3
      <4> QED
        BY <1>8, <3>1, <3>4, <4>1, <4>2
    <3> QED
      BY <3>2, <3>3, <3>4
  <2>2. \A u \in K : u # v => ({u, v} \in J <=> {u, v} \in H \/ u \in near)
    <3>1. {v, p} \in H
      BY <1>1, <1>3, <1>11
    <3> QED
      BY <1>1, <1>3, <1>5, <3>1
  <2>3. \A u \in K : u # v => (u \in Seen(h, v) <=> {u, v} \in J)
    BY <1>1, <1>6, <2>1, <2>2
  <2>4. {v, v} \notin J
    BY <1>1, <1>5
  <2> QED
    BY <1>1, <1>7, <1>11, <2>2, <2>3, <2>4 DEF J, K, near, L
<1> QED
  BY <1>10, <1>11 DEF near

LEMMA MdBoundHolds ==
  ASSUME NEW g \in MdTypes, NEW lp \in SUBSET V, NEW elts \in SUBSET V,
         NEW i \in V, NEW m \in Nat,
         NEW many, many = [e \in V |-> IF e \in elts THEN MdOutside(g, lp, e) ELSE 0],
         m <= Cardinality((g.var[i] \cap MdLive(g)) \ lp)
                  + (Cardinality(lp) - 1) + Total(many),
         m <= g.deg[i] + Cardinality(lp) - 1,
         m <= Cardinality(MdLive(g))
  PROVE  m <= MdBound(g, lp, elts, i)
<1> DEFINE var == (g.var[i] \cap MdLive(g)) \ lp
           a == Cardinality(var) + (Cardinality(lp) - 1) + Total(many)
           b == g.deg[i] + Cardinality(lp) - 1
           c == Cardinality(MdLive(g))
<1>1. MdBound(g, lp, elts, i) = Max({0, Min({a, b, c})})
  BY DEF MdBound
<1>2. many \in Seq(Int)
  <2>1. \A e \in V : MdOutside(g, lp, e) \in Int
    BY MdOutsideIs
  <2>2. many \in [V -> Int]
    BY <2>1
  <2>3. N \in Nat /\ V = 1 .. N
    BY OrderAssumption DEF V
  <2> QED
    BY <2>2, <2>3, SeqDef
<1>3. Total(many) \in Int
  BY <1>2, TotalType
<1>4. /\ Cardinality(var) \in Nat /\ Cardinality(lp) \in Nat /\ c \in Nat
      /\ g.deg[i] \in Nat
  <2>1. var \in SUBSET V /\ MdLive(g) \in SUBSET V /\ g.deg[i] \in Nat
    BY DEF MdLive, MdTypes
  <2> HIDE DEF var
  <2> QED
    BY <2>1, VertexSets
<1> HIDE DEF var
<1>5. a \in Int /\ b \in Int /\ c \in Int /\ m <= a /\ m <= b /\ m <= c
  <2> DEFINE v == Cardinality(var)
             l == Cardinality(lp)
             t == Total(many)
             d == g.deg[i]
  <2> HIDE DEF v, l, t, d
  <2>1. v \in Nat /\ l \in Nat /\ t \in Int /\ d \in Nat
    BY <1>3, <1>4 DEF v, l, t, d
  <2>2. v + (l - 1) + t \in Int /\ d + l - 1 \in Int
    BY <2>1
  <2> QED
    BY <1>4, <2>2 DEF v, l, t, d, var
<1> HIDE DEF a, b, c
<1>6. Min({a, b, c}) \in Int /\ m <= Min({a, b, c})
  <2>1. Min({a, b, c}) \in Int /\ Min({a, b, c}) \in {a, b, c}
    BY <1>5, MinOfThree
  <2> QED
    BY <1>5, <2>1
<1>7. /\ Max({0, Min({a, b, c})}) \in Nat
      /\ Min({a, b, c}) <= Max({0, Min({a, b, c})})
  BY <1>6, MaxWithZero
<1> DEFINE y == Min({a, b, c})
           z == Max({0, y})
<1>8. y \in Int /\ z \in Nat /\ m <= y /\ y <= z
  BY <1>6, <1>7
<1> HIDE DEF y, z
<1>9. m <= z
  BY <1>8
<1> QED
  BY <1>1, <1>9 DEF y, z

LEMMA Counting ==
  ASSUME NEW A \in SUBSET V, NEW B \in SUBSET V
  PROVE  /\ Cardinality(A \cup B) <= Cardinality(A) + Cardinality(B)
         /\ A \subseteq B => Cardinality(A) <= Cardinality(B)
         /\ \A v \in A : Cardinality(A \ {v}) = Cardinality(A) - 1
         /\ Cardinality(A) \in Nat /\ Cardinality(B) \in Nat
         /\ Cardinality(A \cup B) \in Nat
<1> DEFINE a == Cardinality(A)
           b == Cardinality(B)
           c == Cardinality(A \cup B)
           d == Cardinality(A \cap B)
<1>1. IsFiniteSet(A) /\ IsFiniteSet(B)
  BY VertexSets
<1>2. A \cup B \in SUBSET V /\ A \cap B \in SUBSET V
  OBVIOUS
<1>3. a \in Nat /\ b \in Nat /\ c \in Nat /\ d \in Nat
  BY <1>2, VertexSets
<1>4. c = a + b - d
  BY <1>1, FS_Union
<1>5. A \subseteq B => a <= b
  BY <1>1, FS_Subset
<1>6. \A v \in A : Cardinality(A \ {v}) = a - 1
  BY <1>1, FS_RemoveElement
<1>7. c <= a + b
  <2> HIDE DEF a, b, c, d
  <2> QED
    BY <1>3, <1>4
<1> QED
  BY <1>3, <1>5, <1>6, <1>7

\* No degree is thought smaller than it is.
LEMMA DegreeStays ==
  ASSUME NEW g \in MdTypes, NEW H, Quotient(g, H), NEW p \in MdLive(g),
         NEW v \in MdLive(MdEliminate(g, p))
  PROVE  LET h == MdEliminate(g, p)
         IN  h.deg[v] >= Cardinality(Real(h, Joining(H, p), v))
<1> DEFINE h == MdEliminate(g, p)
           near == MdNear(g, p)
           j == MdJoined(g, p, MdOwn(g, p), near)
           J == Joining(H, p)
           R == Real(h, J, v)
           Q == Real(g, H, v)
<1>1. Members(g)
  BY DEF Quotient
<1>2. /\ \A e \in V : h.state[e] = "elt" /\ e # p =>
             MdOutside(j, near, e) = Cardinality(g.var[e] \ near)
      /\ \A i \in near : /\ h.deg[i] = MdBound(j, near, h.elt[i] \ {p}, i)
                         /\ j.var[i] = g.var[i] /\ j.deg[i] = g.deg[i]
      /\ MdLive(j) = MdLive(h) /\ j \in MdTypes /\ h \in MdTypes
      /\ \E inside \in SUBSET V : Absorbs(g, p, near, inside, h)
  BY <1>1, AbsorbsIs
<1>3. PICK inside \in SUBSET V : Absorbs(g, p, near, inside, h)
  BY <1>2
<1>4. /\ v \in MdLive(h) /\ v \in V /\ v \in MdLive(g)
      /\ near \in SUBSET V /\ R \in SUBSET V /\ Q \in SUBSET V
      /\ MdLive(h) \in SUBSET V
      /\ g.deg[v] >= Cardinality(Q)
  BY <1>3 DEF Absorbs, MdLive, Real, Quotient
<1>5. /\ (Seen(h, v) \cap MdLive(h)) \ {v} = R
      /\ v \notin near => R \subseteq Q
      /\ v \in near => R \subseteq (Q \cup near) \ {v}
  BY <1>2, <1>3, KnownStays
<1>6. g.deg[v] \in Nat /\ h.deg[v] \in Nat
  BY <1>2, <1>4 DEF MdTypes
<1>7. /\ v \notin near => h.deg[v] = g.deg[v]
      /\ v \in near => h.var[v] = (g.var[v] \cap MdLive(h)) \ near
      /\ \A e \in V : v \in near =>
             (e \in h.elt[v] <=> e = p \/ (e \in g.elt[v] /\ h.state[e] = "elt"))
      /\ \A e \in V : h.state[e] = "elt" =>
             h.var[e] = IF e = p THEN near ELSE g.var[e]
  BY <1>3 DEF Absorbs
<1> HIDE DEF h, near, j, J, R, Q
<1>8. CASE v \notin near
  <2>1. Cardinality(R) <= Cardinality(Q)
    BY <1>4, <1>5, <1>8, Counting
  <2>2. Cardinality(R) \in Nat /\ Cardinality(Q) \in Nat
    BY <1>4, VertexSets
  <2> QED
    BY <1>4, <1>6, <1>7, <1>8, <2>1, <2>2 DEF h, R, J
<1>9. CASE v \in near
  <2> DEFINE m == Cardinality(R)
             elts == h.elt[v] \ {p}
             var == (g.var[v] \cap MdLive(h)) \ near
             others == near \ {v}
             many == [e \in V |-> IF e \in elts THEN MdOutside(j, near, e) ELSE 0]
             W == [e \in V |-> IF e \in elts THEN g.var[e] \ near ELSE {}]
             U == UNION {W[e] : e \in V}
  <2>1. /\ h.deg[v] = MdBound(j, near, elts, v) /\ j.var[v] = g.var[v]
        /\ j.deg[v] = g.deg[v] /\ elts \in SUBSET V
        /\ var \in SUBSET V /\ others \in SUBSET V
        /\ W \in [V -> SUBSET V] /\ U \in SUBSET V
    <3>1. h.elt[v] \in SUBSET V /\ \A e \in V : g.var[e] \in SUBSET V
      BY <1>2, <1>4 DEF MdTypes
    <3>2. /\ h.deg[v] = MdBound(j, near, elts, v) /\ j.var[v] = g.var[v]
          /\ j.deg[v] = g.deg[v]
      BY <1>2, <1>9
    <3>3. W \in [V -> SUBSET V]
      BY <3>1
    <3>4. U \in SUBSET V
      <4> HIDE DEF W
      <4> QED
        BY <3>3
    <3>5. var \in SUBSET V /\ others \in SUBSET V /\ elts \in SUBSET V
      BY <1>4, <3>1
    <3> QED
      BY <3>2, <3>3, <3>4, <3>5
  <2>2. \A e \in elts : e \in V /\ e # p /\ h.state[e] = "elt"
    BY <1>7, <1>9, <2>1
  <2>3. R \subseteq (var \cup others) \cup U
    <3> SUFFICES ASSUME NEW u \in R PROVE u \in (var \cup others) \cup U
      OBVIOUS
    <3>1. u \in Seen(h, v) /\ u \in MdLive(h) /\ u # v /\ u \in V
      BY <1>4, <1>5
    <3>2. CASE u \in near
      BY <3>1, <3>2
    <3>3. CASE u \notin near
      <4>1. CASE u \in h.var[v]
        BY <1>7, <1>9, <4>1
      <4>2. CASE \E e \in V : e \in h.elt[v] /\ h.state[e] = "elt" /\ u \in h.var[e]
        <5>1. PICK e \in V : e \in h.elt[v] /\ h.state[e] = "elt" /\ u \in h.var[e]
          BY <4>2
        <5>2. e # p /\ u \in g.var[e]
          BY <1>7, <3>3, <5>1
        <5>3. e \in elts /\ u \in W[e]
          BY <3>3, <5>1, <5>2
        <5>4. u \in U
          <6> HIDE DEF W
          <6> QED
            BY <5>1, <5>3
        <5> QED
          BY <5>4
      <4> QED
        BY <1>2, <1>4, <3>1, <4>1, <4>2, KnownHas
    <3> QED
      BY <3>2, <3>3
  <2>4. Cardinality(U) <= Total(many)
    <3>1. \A e \in V : MdOutside(j, near, e) \in Int
      BY <1>2, <1>4, MdOutsideIs
    <3>2. N \in Nat /\ V = 1 .. N
      BY OrderAssumption DEF V
    <3>3. many \in [V -> Int]
      BY <3>1
    <3>4. \A e \in V : Cardinality(W[e]) <= many[e]
      <4> SUFFICES ASSUME NEW e \in V PROVE Cardinality(W[e]) <= many[e]
        OBVIOUS
      <4>1. CASE e \in elts
        <5>1. many[e] = Cardinality(g.var[e] \ near) /\ W[e] = g.var[e] \ near
          BY <1>2, <2>2, <4>1
        <5>2. many[e] \in Int
          BY <3>3
        <5> QED
          BY <5>1, <5>2
      <4>2. CASE e \notin elts
        <5>1. W[e] = {} /\ many[e] = 0
          BY <4>2
        <5>2. Cardinality({}) = 0
          BY FS_EmptySet
        <5> QED
          BY <5>1, <5>2
      <4> QED
        BY <4>1, <4>2
    <3> HIDE DEF many, W
    <3>5. many \in Seq(Int) /\ Len(many) = N
      BY <3>2, <3>3, SeqDef
    <3>6. Cardinality(UNION {W[q] : q \in 1 .. Len(many)}) <= Total(many)
      BY <2>1, <3>2, <3>4, <3>5, UnionCounts
    <3> QED
      BY <3>2, <3>5, <3>6
  <2>5. Total(many) \in Int
    <3>1. \A e \in V : MdOutside(j, near, e) \in Int
      BY <1>2, <1>4, MdOutsideIs
    <3>2. many \in [V -> Int] /\ N \in Nat /\ V = 1 .. N
      BY <3>1, OrderAssumption DEF V
    <3> HIDE DEF many
    <3>3. many \in Seq(Int)
      BY <3>2, SeqDef
    <3> QED
      BY <3>3, TotalType
  <2> HIDE DEF elts, var, others, many, W, U
  <2>6. /\ m \in Nat /\ Cardinality(near) \in Nat /\ Cardinality(var) \in Nat
        /\ Cardinality(others) = Cardinality(near) - 1
        /\ Cardinality(U) \in Nat /\ Cardinality(Q) \in Nat
        /\ m <= Cardinality(MdLive(h))
    <3>1. R \subseteq MdLive(h)
      BY RealHas DEF R
    <3>2. m <= Cardinality(MdLive(h))
      BY <1>4, <3>1, Counting
    <3>3. Cardinality(others) = Cardinality(near) - 1
      BY <1>4, <1>9, Counting DEF others
    <3> QED
      BY <1>4, <2>1, <3>2, <3>3, VertexSets
  <2>7. m <= Cardinality(var) + (Cardinality(near) - 1) + Total(many)
    <3>1. var \cup others \in SUBSET V /\ (var \cup others) \cup U \in SUBSET V
      BY <2>1
    <3>2. m <= Cardinality((var \cup others) \cup U)
      BY <1>4, <2>3, <3>1, Counting
    <3>3. Cardinality((var \cup others) \cup U) <=
              Cardinality(var \cup others) + Cardinality(U)
      BY <2>1, <3>1, Counting
    <3>4. Cardinality(var \cup others) <= Cardinality(var) + Cardinality(others)
      BY <2>1, Counting
    <3>5. /\ Cardinality((var \cup others) \cup U) \in Nat
          /\ Cardinality(var \cup others) \in Nat
      BY <3>1, VertexSets
    <3> DEFINE a == Cardinality((var \cup others) \cup U)
               b == Cardinality(var \cup others)
               c == Cardinality(var)
               d == Cardinality(others)
               n == Cardinality(near)
               k == Cardinality(U)
               t == Total(many)
    <3>6. /\ a \in Nat /\ b \in Nat /\ c \in Nat /\ n \in Nat /\ k \in Nat
          /\ t \in Int /\ m \in Nat /\ d = n - 1
          /\ m <= a /\ a <= b + k /\ b <= c + d /\ k <= t
      BY <2>4, <2>5, <2>6, <3>2, <3>3, <3>4, <3>5
    <3> HIDE DEF a, b, c, d, n, k, t, m
    <3>7. m <= c + (n - 1) + t
      BY <3>6
    <3> QED
      BY <3>7 DEF c, n, t
  <2>8. m <= g.deg[v] + Cardinality(near) - 1
    <3>1. R \subseteq Q \cup others
      BY <1>5, <1>9 DEF others, Q, R, J, h, near
    <3>2. Q \cup others \in SUBSET V
      BY <1>4, <2>1
    <3>3. m <= Cardinality(Q \cup others) /\ Cardinality(Q \cup others) \in Nat
      BY <1>4, <3>1, <3>2, Counting
    <3>4. Cardinality(Q \cup others) <= Cardinality(Q) + Cardinality(others)
      BY <1>4, <2>1, Counting
    <3> DEFINE a == Cardinality(Q \cup others)
               b == Cardinality(Q)
               d == Cardinality(others)
               n == Cardinality(near)
               f == g.deg[v]
    <3>5. /\ a \in Nat /\ b \in Nat /\ n \in Nat /\ f \in Nat /\ m \in Nat
          /\ d = n - 1 /\ m <= a /\ a <= b + d /\ b <= f
      BY <1>4, <1>6, <2>6, <3>3, <3>4
    <3> HIDE DEF a, b, d, n, f, m
    <3>6. m <= f + n - 1
      BY <3>5
    <3> QED
      BY <3>6 DEF f, n
  <2>9. m <= MdBound(j, near, elts, v)
    <3> HIDE DEF m
    <3>1. m <= Cardinality((j.var[v] \cap MdLive(j)) \ near)
                   + (Cardinality(near) - 1) + Total(many)
      BY <1>2, <2>1, <2>7 DEF var
    <3>2. m <= j.deg[v] + Cardinality(near) - 1 /\ m <= Cardinality(MdLive(j))
      BY <1>2, <2>1, <2>6, <2>8
    <3>3. m \in Nat
      BY <2>6
    <3> QED
      BY <1>2, <1>4, <2>1, <3>1, <3>2, <3>3, MdBoundHolds DEF many
  <2> QED
    BY <1>6, <2>1, <2>6, <2>9 DEF h, R, J
<1> QED
  BY <1>8, <1>9

\* What minimum degree builds on is the graph itself.
LEMMA QuotientStart ==
  ASSUME NEW G, \A v \in V : {v} \notin G, NEW dense \in Int
  PROVE  Quotient(MdBuild(V, G, dense), G)
<1> DEFINE last == {v \in V : Degree(G, v) > dense}
           live == V \ last
           fs == [v \in V |-> IF v \in live THEN "var" ELSE "dead"]
           fv == [v \in V |-> IF v \in live THEN Neighbours(G, v) \cap live
                                            ELSE {}]
           var == Listed(fv)
           fe == [v \in V |-> {}]
           fd == [v \in V |-> Cardinality(var[v])]
           g == MdBuild(V, G, dense)
<1>1. g = [state |-> Listed(fs), var |-> var, elt |-> Listed(fe),
           deg |-> Listed(fd), perm |-> << >>, last |-> Ascending(last)]
  BY DEF MdBuild
<1>2. last \in SUBSET V /\ live \in SUBSET V
  OBVIOUS
<1> HIDE DEF last, live
<1>3. fs \in [V -> {"var", "dead"}] /\ fv \in [V -> SUBSET V] /\ fe \in [V -> SUBSET V]
  BY <1>2
<1>4. Listed(fs) = fs /\ var = fv /\ Listed(fe) = fe
  <2> HIDE DEF fs, fv, fe
  <2> QED
    BY <1>3, ListedIs
<1> HIDE DEF var
<1>5. fd \in [V -> Nat]
  <2>1. \A v \in V : var[v] \in SUBSET V
    BY <1>3, <1>4
  <2>2. \A v \in V : Cardinality(var[v]) \in Nat
    BY <2>1, VertexSets
  <2> QED
    BY <2>2
<1>6. Listed(fd) = fd
  <2> HIDE DEF fd
  <2> QED
    BY <1>5, ListedIs
<1>7. g.state = fs /\ g.var = fv /\ g.elt = fe /\ g.deg = fd
  <2> HIDE DEF fs, fv, fe, fd, g
  <2> QED
    BY <1>1, <1>4, <1>6
<1>8. MdLive(g) = live /\ \A v \in V : g.state[v] # "elt"
  <2> HIDE DEF g
  <2> QED
    BY <1>2, <1>7 DEF MdLive
<1>9. Members(g)
  <2>1. \A v \in live : g.elt[v] = {}
    BY <1>2, <1>7
  <2> HIDE DEF g
  <2> QED
    BY <1>8, <2>1 DEF Members
<1>10. ASSUME NEW v \in live
       PROVE  /\ (Seen(g, v) \cap live) \ {v} = Real(g, G, v)
              /\ g.deg[v] >= Cardinality(Real(g, G, v))
  <2>1. g.var[v] = Neighbours(G, v) \cap live /\ g.elt[v] = {} /\ v \in V
          /\ g.deg[v] = Cardinality(g.var[v])
    BY <1>2, <1>4, <1>7
  <2> HIDE DEF g
  <2>2. Seen(g, v) = Neighbours(G, v) \cap live
    BY <2>1 DEF Seen, MdOwn
  <2>3. Real(g, G, v) = Neighbours(G, v) \cap live
    BY <1>8 DEF Real
  <2>4. v \notin Neighbours(G, v)
    <3>1. {v, v} = {v}
      OBVIOUS
    <3> QED
      BY <2>1, <3>1 DEF Neighbours
  <2>5. Real(g, G, v) \in SUBSET V
    BY <1>2, <2>3
  <2>6. Cardinality(Real(g, G, v)) \in Nat
    BY <2>5, VertexSets
  <2> QED
    BY <2>1, <2>2, <2>3, <2>4, <2>6
<1> HIDE DEF g
<1> QED
  BY <1>8, <1>9, <1>10 DEF Quotient, g

LEMMA QuotientStays ==
  ASSUME NEW g, MdGood(g, V), NEW H, Quotient(g, H), ~MdDone(g)
  PROVE  /\ Quotient(MdStep(g), Joining(H, MdNext(g)))
         /\ MdStep(g).perm = Append(g.perm, MdNext(g))
         /\ MdNext(g) \in V /\ g.perm \in Seq(V)
<1> DEFINE p == MdNext(g)
           h == MdEliminate(g, p)
           J == Joining(H, p)
<1>1. g \in MdTypes /\ g.perm \in Seq(V)
  BY DEF MdGood, MdTypes
<1>2. p \in MdLive(g) /\ p \in V
  BY <1>1, MdNextIs DEF MdLive
<1> HIDE DEF p
<1>3. h \in MdTypes /\ h.perm = Append(g.perm, p) /\ MdLive(h) \subseteq V
  BY <1>1, <1>2, MdEliminateIs DEF MdLive
<1>4. Members(g) /\ \A v \in V : {v} \notin H
  BY DEF Quotient
<1>5. PICK inside \in SUBSET V : Absorbs(g, p, MdNear(g, p), inside, h)
  BY <1>1, <1>2, <1>4, AbsorbsIs
<1>6. \A v \in V : {v} \notin J
  BY <1>2, <1>4, JoiningIs
<1>7. Members(h)
  <2> HIDE DEF h
  <2> QED
    BY <1>1, <1>2, <1>4, <1>5, MembersStay
<1>8. \A v \in MdLive(h) : (Seen(h, v) \cap MdLive(h)) \ {v} = Real(h, J, v)
  <2> HIDE DEF h
  <2> QED
    BY <1>1, <1>2, <1>3, <1>5, KnownStays
<1>9. \A v \in MdLive(h) : h.deg[v] >= Cardinality(Real(h, J, v))
  BY <1>1, <1>2, DegreeStays
<1>10. Quotient(h, J)
  <2> HIDE DEF h, J
  <2> QED
    BY <1>6, <1>7, <1>8, <1>9 DEF Quotient
<1>11. MdStep(g) = h
  BY DEF MdStep, p
<1> HIDE DEF h
<1> QED
  BY <1>1, <1>2, <1>3, <1>10, <1>11 DEF p

\* What minimum degree knows, of the system.
QuotientInv == Quotient(md, Eliminated(in.graph, md.perm))

LEMMA QuotientIs == ASSUME QuotientInv PROVE QuotientHolds
<1> DEFINE H == Eliminated(in.graph, md.perm)
<1>1. ASSUME NEW v \in MdLive(md)
      PROVE  LET real == Neighbours(H, v) \cap MdLive(md)
                 known == md.var[v] \cup UNION {md.var[e] : e \in
                              {u \in md.elt[v] : md.state[u] = "elt"}}
             IN  /\ (known \cap MdLive(md)) \ {v} = real
                 /\ md.deg[v] >= Cardinality(real)
  <2> HIDE DEF H
  <2>1. Quotient(md, H)
    BY DEF QuotientInv, H
  <2> QED
    BY <1>1, <2>1 DEF Quotient, Real, Seen, MdOwn
<1> QED
  BY <1>1 DEF QuotientHolds

LEMMA QuotientInit == ASSUME Init PROVE QuotientInv
<1>1. md = MdBuild(V, in.graph, in.dense) /\ in \in Inputs
  BY DEF Init
<1>2. in.dense \in Int /\ \A v \in V : {v} \notin in.graph
  BY <1>1, FactorAssumption
<1>3. Quotient(md, in.graph)
  BY <1>1, <1>2, QuotientStart
<1>4. md.perm = << >>
  BY <1>1 DEF MdBuild
<1>5. Eliminated(in.graph, << >>) = in.graph
  <2>1. << >> \in Seq(V) /\ 1 \in V
    BY OrderAssumption DEF V
  <2> QED
    BY <2>1, EliminatedNext
<1> QED
  BY <1>3, <1>4, <1>5 DEF QuotientInv

LEMMA QuotientNext ==
  ASSUME MdGood(md, V), QuotientInv, in' = in,
         md' = md \/ (~MdDone(md) /\ md' = MdStep(md))
  PROVE  QuotientInv'
<1>1. CASE md' = md
  BY <1>1 DEF QuotientInv
<1>2. CASE ~MdDone(md) /\ md' = MdStep(md)
  <2> DEFINE G == in.graph
             p == MdNext(md)
             s == md.perm
             H == Eliminated(G, s)
  <2>1. /\ Quotient(MdStep(md), Joining(H, p))
        /\ MdStep(md).perm = Append(s, p) /\ p \in V /\ s \in Seq(V)
    BY <1>2, QuotientStays DEF QuotientInv
  <2> HIDE DEF p, s
  <2>2. Eliminated(G, Append(s, p)) = Joining(H, p)
    BY <2>1, EliminatedNext
  <2> HIDE DEF H
  <2>3. Quotient(md', Eliminated(G, md'.perm))
    BY <1>2, <2>1, <2>2
  <2> QED
    BY <2>3 DEF QuotientInv, G
<1> QED
  BY <1>1, <1>2

-----------------------------------------------------------------------------
\* The parts of a dissection share no edge.

LEMMA WithinIs ==
  ASSUME NEW G, NEW S \in SUBSET V, NEW root
  PROVE  LET h == Within(G, S, root)
         IN  /\ h \in [0 .. N -> SUBSET (S \cup {root})] /\ h[0] = {root}
             /\ \A q \in 1 .. N : h[q] = Beside(G, S, h[q - 1])
<1> DEFINE n == N
           T == SUBSET (S \cup {root})
           start == {root}
           Next1(b, q) == Beside(G, S, b)
           step == [q \in 1 .. n |-> [b \in T |-> Next1(b, q)]]
           Def(f) == f = [q \in 0 .. n |-> IF q = 0 THEN start
                                           ELSE Next1(f[q - 1], q)]
           h == Within(G, S, root)
<1>1. n \in Nat /\ start \in T
  BY OrderAssumption
<1>2. h = CHOOSE f : Def(f)
  BY DEF Within
<1>3. ASSUME NEW q \in 1 .. n, NEW b \in T PROVE Next1(b, q) \in T
  BY DEF Beside
<1> HIDE DEF n, T, Next1, h, start
<1>4. step \in [1 .. n -> [T -> T]]
  BY <1>3
<1>5. \E f : Def(f)
  <2>1. PICK f : IsLoop(f, n, T, start, step)
    <3> HIDE DEF step
    <3> QED
      BY <1>1, <1>4, Loop
  <2>2. ASSUME NEW q \in 1 .. n
        PROVE  q - 1 \in 0 .. n /\ f[q] = Next1(f[q - 1], q)
    <3>1. q - 1 \in 0 .. n
      BY <1>1
    <3>2. f[q - 1] \in T /\ f[q] = step[q][f[q - 1]]
      BY <2>1, <3>1 DEF IsLoop
    <3>3. step[q][f[q - 1]] = Next1(f[q - 1], q)
      BY <3>2
    <3> QED
      BY <3>1, <3>2, <3>3
  <2> QED
    BY <1>1, <2>1, <2>2 DEF IsLoop
<1>6. Def(h)
  <2> HIDE DEF Def
  <2> QED
    BY <1>2, <1>5
<1>7. /\ h = [q \in 0 .. n |-> h[q]] /\ h[0] = start
      /\ \A q \in 1 .. n : h[q] = Next1(h[q - 1], q)
  <2>1. 0 \in 0 .. n /\ \A q \in 1 .. n : q \in 0 .. n /\ q # 0
    BY <1>1
  <2>2. \A q \in 0 .. n : h[q] = IF q = 0 THEN start ELSE Next1(h[q - 1], q)
    BY <1>6
  <2>3. h = [q \in 0 .. n |-> h[q]]
    BY <1>6, <2>2
  <2> QED
    BY <2>1, <2>2, <2>3
<1> HIDE DEF Def
<1>8. \A q \in 1 .. n : h[q - 1] \in T => h[q] \in T
  BY <1>3, <1>7
<1>9. h \in [0 .. n -> T]
  BY <1>1, <1>7, <1>8, LoopStays
<1> QED
  BY <1>7, <1>9 DEF n, T, Next1, h, start

\* The walk has ended after N steps: each but the last finds a vertex.
LEMMA WithinEnds ==
  ASSUME NEW G, NEW S \in SUBSET V, NEW root
  PROVE  LET w == Within(G, S, root)
         IN  /\ Beside(G, S, w[N]) = w[N] /\ w[0] = {root}
             /\ \A d \in 0 .. N : w[d] \subseteq S \cup {root}
             /\ \A d \in 1 .. N : w[d] = Beside(G, S, w[d - 1])
<1> DEFINE w == Within(G, S, root)
           Next1(B) == Beside(G, S, B)
           C(d) == Cardinality(w[d])
           T == {d \in 0 .. N : Next1(w[d]) = w[d] \/ C(d) > d}
           D == S \cup {root}
<1>1. N \in Nat \ {0} /\ N \in 0 .. N
  BY OrderAssumption
<1>2. /\ w \in [0 .. N -> SUBSET D] /\ w[0] = {root}
      /\ \A d \in 1 .. N : w[d] = Next1(w[d - 1])
  BY WithinIs
<1>3. \A B : B \subseteq Next1(B)
  BY DEF Beside
<1>4. IsFiniteSet(D) /\ Cardinality(D) <= Cardinality(S) + 1
        /\ Cardinality(D) \in Nat /\ Cardinality(S) \in 0 .. N
  <2>1. IsFiniteSet(S) /\ Cardinality(S) \in 0 .. N
    BY VertexSets
  <2>2. root \in S => D = S
    OBVIOUS
  <2>3. /\ IsFiniteSet(S \cup {root})
        /\ Cardinality(S \cup {root}) = IF root \in S THEN Cardinality(S)
                                        ELSE Cardinality(S) + 1
    BY <2>1, FS_AddElement
  <2>4. Cardinality(D) <= Cardinality(S) + 1
    BY <2>1, <2>3
  <2>5. Cardinality(D) \in Nat
    BY <2>3, FS_CardinalityType
  <2> QED
    BY <2>1, <2>3, <2>4, <2>5
<1> HIDE DEF w, Next1, D
<1>5. \A d \in 0 .. N : IsFiniteSet(w[d]) /\ C(d) \in Nat
  <2> SUFFICES ASSUME NEW d \in 0 .. N PROVE IsFiniteSet(w[d]) /\ C(d) \in Nat
    OBVIOUS
  <2>1. w[d] \subseteq D
    BY <1>2
  <2>2. IsFiniteSet(w[d])
    BY <1>4, <2>1, FS_Subset
  <2> QED
    BY <2>2, FS_CardinalityType
<1>6. 0 \in T
  <2>1. Cardinality({root}) = 1
    BY FS_Singleton
  <2> QED
    BY <1>1, <1>2, <2>1
<1>7. ASSUME NEW d \in 1 .. N, d - 1 \in T PROVE d \in T
  <2>1. d \in 0 .. N /\ d - 1 \in 0 .. N /\ w[d] = Next1(w[d - 1])
    BY <1>1, <1>2
  <2>2. CASE Next1(w[d - 1]) = w[d - 1]
    BY <2>1, <2>2
  <2>3. CASE Next1(w[d - 1]) # w[d - 1]
    <3>1. w[d - 1] \subseteq w[d] /\ w[d - 1] # w[d]
      BY <1>3, <2>1, <2>3
    <3>2. C(d - 1) < C(d)
      <4> DEFINE A == w[d - 1]
                 B == w[d]
      <4>1. A \subseteq B /\ A # B /\ IsFiniteSet(B)
        BY <1>5, <2>1, <3>1
      <4> HIDE DEF A, B
      <4>2. Cardinality(A) < Cardinality(B)
        <5>1. Cardinality(A) <= Cardinality(B)
              /\ (Cardinality(A) = Cardinality(B) => A = B)
          BY <4>1, FS_Subset
        <5>2. Cardinality(A) \in Nat /\ Cardinality(B) \in Nat
          BY <1>5, <2>1 DEF A, B
        <5> QED
          BY <4>1, <5>1, <5>2
      <4> QED
        BY <4>2 DEF A, B
    <3>3. C(d - 1) > d - 1 /\ C(d - 1) \in Nat /\ C(d) \in Nat
      BY <1>5, <1>7, <2>1, <2>3
    <3> HIDE DEF C
    <3>4. C(d) > d
      BY <3>2, <3>3
    <3> QED
      BY <2>1, <3>4 DEF C
  <2> QED
    BY <2>2, <2>3
<1>8. T = 0 .. N
  <2>1. T \in SUBSET (0 .. N)
    OBVIOUS
  <2> HIDE DEF T
  <2> QED
    BY <1>1, <1>6, <1>7, <2>1, Induct
<1>9. Next1(w[N]) = w[N] \/ C(N) > N
  BY <1>1, <1>8
<1>10. ASSUME C(N) > N PROVE Next1(w[N]) = w[N]
  <2>1. w[N] \subseteq D
    BY <1>1, <1>2
  <2>2. C(N) <= Cardinality(D) /\ (C(N) = Cardinality(D) => w[N] = D)
    BY <1>4, <2>1, FS_Subset
  <2>3. w[N] = D
    <3> DEFINE c == C(N)
               d == Cardinality(D)
               s == Cardinality(S)
    <3>1. c \in Nat /\ d \in Nat /\ s \in 0 .. N /\ c > N /\ c <= d /\ d <= s + 1
      BY <1>1, <1>4, <1>5, <1>10, <2>2
    <3> HIDE DEF c, d, s
    <3>2. c = d
      BY <1>1, <3>1
    <3> QED
      BY <2>2, <3>2 DEF c, d
  <2>4. S \subseteq w[N]
    BY <2>3 DEF D
  <2> QED
    BY <2>4 DEF Next1, Beside
<1>11. Beside(G, S, w[N]) = w[N]
  BY <1>9, <1>10 DEF Next1, w
<1> QED
  BY <1>2, <1>11 DEF w, Next1, D

LEMMA MinIs ==
  ASSUME NEW B \in SUBSET Nat, B # {}
  PROVE  Min(B) \in B /\ \A y \in B : Min(B) <= y
<1> DEFINE Low(m) == \A y \in B : m <= y
<1>1. \E m \in B : Low(m)
  BY Least
<1>2. Min(B) = CHOOSE m \in B : Low(m)
  BY DEF Min
<1> HIDE DEF Low
<1>3. Min(B) \in B /\ Low(Min(B))
  BY <1>1, <1>2
<1> QED
  BY <1>3 DEF Low

LEMMA MaxOfTwo ==
  ASSUME NEW a \in Int, NEW b \in Int PROVE Max({a, b}) \in Int
<1> DEFINE S == {a, b}
           High(m) == \A y \in S : m >= y
<1>1. \E m \in S : High(m)
  <2>1. CASE a >= b
    BY <2>1
  <2>2. CASE b >= a
    BY <2>2
  <2> QED
    BY <2>1, <2>2
<1>2. Max(S) = CHOOSE m \in S : High(m)
  BY DEF Max
<1>3. S \in SUBSET Int
  OBVIOUS
<1> HIDE DEF S, High
<1>4. Max(S) \in Int
  BY <1>1, <1>2, <1>3
<1> QED
  BY <1>4 DEF S

LEMMA ChosenIn ==
  ASSUME NEW s \in Seq(V), NEW S
  PROVE  ToSet(Chosen(s, S)) \subseteq ToSet(s) \cap S
<1> DEFINE n == Len(s)
           h == Choosing(s, S)
           D == ToSet(s) \cap S
           T == {m \in 0 .. n : ToSet(h[m]) \subseteq D}
<1>1. n \in Nat /\ n \in 0 .. n /\ \A q \in 1 .. n : s[q] \in V /\ s[q] \in ToSet(s)
  BY DEF ToSet
<1>2. /\ h \in [0 .. n -> Seq(V)] /\ h[0] = << >>
      /\ \A q \in 1 .. n : h[q] = IF s[q] \in S THEN Append(h[q - 1], s[q])
                                  ELSE h[q - 1]
  BY ChoosingIs
<1> HIDE DEF h, n
<1>3. 0 \in T
  <2>1. ToSet(<< >>) = {}
    BY DEF ToSet
  <2> QED
    BY <1>1, <1>2, <2>1
<1>4. ASSUME NEW q \in 1 .. n, q - 1 \in T PROVE q \in T
  <2>1. q \in 0 .. n /\ q - 1 \in 0 .. n /\ h[q - 1] \in Seq(V)
          /\ ToSet(h[q - 1]) \subseteq D
    <3>1. q \in 0 .. n /\ q - 1 \in 0 .. n
      BY <1>1
    <3> QED
      BY <1>2, <1>4, <3>1
  <2>2. CASE s[q] \in S
    <3>1. ToSet(h[q]) = ToSet(h[q - 1]) \cup {s[q]}
      BY <1>1, <1>2, <2>1, <2>2, ToSetAppend
    <3> QED
      BY <1>1, <2>1, <2>2, <3>1
  <2>3. CASE s[q] \notin S
    BY <1>2, <2>1, <2>3
  <2> QED
    BY <2>2, <2>3
<1>5. T = 0 .. n
  <2>1. T \in SUBSET (0 .. n)
    OBVIOUS
  <2> HIDE DEF T
  <2> QED
    BY <1>1, <1>3, <1>4, <2>1, Induct
<1> QED
  BY <1>1, <1>5 DEF Chosen, h, n

IsWithin(G, S, root, w) ==
    /\ Beside(G, S, w[N]) = w[N]
    /\ \A d \in 0 .. N : w[d] \subseteq S \cup {root}
    /\ \A d \in 1 .. N : w[d] = Beside(G, S, w[d - 1])
LEMMA WithinAt ==
  ASSUME NEW G, NEW S \in SUBSET V, NEW root
  PROVE  IsWithin(G, S, root, Within(G, S, root))
<1> DEFINE w == Within(G, S, root)
<1>1. /\ w \in [0 .. N -> SUBSET (S \cup {root})] /\ w[0] = {root}
      /\ \A d \in 1 .. N : w[d] = Beside(G, S, w[d - 1])
  BY WithinIs
<1>2. \A d \in 1 .. N : w[d] = Beside(G, S, w[d - 1])
  BY <1>1
<1>3. Beside(G, S, w[N]) = w[N]
  BY WithinEnds
<1>4. \A d \in 0 .. N : w[d] \subseteq S \cup {root}
  BY WithinEnds
<1> HIDE DEF w
<1>5. IsWithin(G, S, root, w)
  BY <1>2, <1>3, <1>4 DEF IsWithin
<1> QED
  BY <1>5 DEF w

NoEdge(G, a, b) == \A u \in ToSet(a), v \in ToSet(b) : u # v /\ {u, v} \notin G

\* The two sides of a part share no edge, connected or not.
LEMMA SidesApart ==
  ASSUME NEW G, NEW s \in Seq(V), NEW root, NEW w,
         w = Within(G, ToSet(s), root),
         ~(Reached(w) = ToSet(s) /\ Height(w) < 2)
  PROVE  LET cut == NdSides(G, s, w)
         IN  /\ NoEdge(G, cut.a, cut.b)
             /\ ToSet(cut.a) \subseteq ToSet(s)
             /\ ToSet(cut.b) \subseteq ToSet(s)
<1> DEFINE S == ToSet(s)
           R == Reached(w)
           h == Height(w)
           half == Min({d \in 0 .. N : 2 * Cardinality(w[d]) >= Cardinality(S)})
           j == Min({Max({half, 1}), h - 1})
           L(v) == Level(w, v)
           after == {v \in S : L(v) > j}
           middle == {v \in S \ after :
                         L(v) = j /\ \E u \in Neighbours(G, v) \cap S :
                                         L(u) = j + 1}
           cut == NdSides(G, s, w)
<1>1. cut = IF R # S
            THEN [a |-> Chosen(s, S \cap R), b |-> Chosen(s, S \ R),
                  c |-> << >>]
            ELSE [a |-> Chosen(s, S \ (after \cup middle)),
                  b |-> Chosen(s, after), c |-> Chosen(s, middle)]
  BY DEF NdSides
<1>2. S \in SUBSET V
  BY DEF ToSet
<1>3. N \in Nat \ {0} /\ N \in 0 .. N /\ R = w[N]
  BY OrderAssumption DEF Reached
<1>4. /\ Beside(G, S, w[N]) = w[N]
      /\ \A d \in 0 .. N : w[d] \subseteq S \cup {root}
      /\ \A d \in 1 .. N : w[d] = Beside(G, S, w[d - 1])
  <2>1. w = Within(G, S, root)
    OBVIOUS
  <2> HIDE DEF S
  <2>2. IsWithin(G, S, root, w)
    BY <1>2, <2>1, WithinAt
  <2> QED
    BY <2>2 DEF IsWithin
<1>5. ASSUME NEW A, NEW B, cut.a = Chosen(s, A), cut.b = Chosen(s, B),
             \A u \in S \cap A, v \in S \cap B : u # v /\ {u, v} \notin G
      PROVE  /\ NoEdge(G, cut.a, cut.b) /\ ToSet(cut.a) \subseteq S
             /\ ToSet(cut.b) \subseteq S
  <2>1. ToSet(cut.a) \subseteq S \cap A /\ ToSet(cut.b) \subseteq S \cap B
    BY <1>5, ChosenIn
  <2> HIDE DEF cut, S
  <2> QED
    BY <1>5, <2>1 DEF NoEdge
<1> HIDE DEF cut, after, middle, j, h, R
<1>6. CASE R # S
  <2> DEFINE A == S \cap R
             B == S \ R
  <2>1. cut.a = Chosen(s, A) /\ cut.b = Chosen(s, B)
    BY <1>1, <1>6
  <2>2. ASSUME NEW u \in S \cap A, NEW v \in S \cap B
        PROVE  u # v /\ {u, v} \notin G
    <3>1. u \in V /\ v \in V /\ u \in w[N] /\ v \notin w[N]
      BY <1>2, <1>3
    <3>2. {u, v} \in G => v \in Beside(G, S, w[N])
      BY <3>1 DEF Beside, Neighbours
    <3> QED
      BY <1>4, <3>1, <3>2
  <2> HIDE DEF A, B, S
  <2>3. /\ NoEdge(G, cut.a, cut.b) /\ ToSet(cut.a) \subseteq S
        /\ ToSet(cut.b) \subseteq S
    BY <1>5, <2>1, <2>2
  <2> QED
    BY <2>3 DEF S, cut
<1>7. CASE R = S
  <2> DEFINE D(v) == {d \in 0 .. N : v \in w[d]}
  <2>1. \A v \in S : L(v) \in 0 .. N /\ v \in w[L(v)]
                     /\ \A d \in 0 .. N : v \in w[d] => L(v) <= d
    <3> SUFFICES ASSUME NEW v \in S
                 PROVE  L(v) \in 0 .. N /\ v \in w[L(v)]
                        /\ \A d \in 0 .. N : v \in w[d] => L(v) <= d
      OBVIOUS
    <3>1. D(v) \in SUBSET Nat /\ D(v) # {} /\ L(v) = Min(D(v))
      <4>1. v \in w[N]
        <5> HIDE DEF S
        <5> QED
          BY <1>3, <1>7
      <4>2. N \in D(v) /\ D(v) \in SUBSET Nat
        BY <1>3, <4>1
      <4>3. L(v) = Min(D(v))
        BY DEF Level
      <4> QED
        BY <4>2, <4>3
    <3> HIDE DEF D, L
    <3>2. L(v) \in D(v) /\ \A d \in D(v) : L(v) <= d
      BY <3>1, MinIs
    <3> QED
      BY <3>2 DEF D
  <2>2. h \in 0 .. N
    <3> DEFINE E == {d \in 0 .. N : w[d] = w[N]}
    <3>1. E \in SUBSET Nat /\ E # {} /\ h = Min(E) /\ E \in SUBSET (0 .. N)
      BY <1>3 DEF Height, h
    <3> HIDE DEF E
    <3> QED
      BY <3>1, MinIs
  <2>3. half \in 0 .. N
    <3> DEFINE E == {d \in 0 .. N : 2 * Cardinality(w[d]) >= Cardinality(S)}
    <3>1. Cardinality(S) \in Nat
      <4> HIDE DEF S
      <4> QED
        BY <1>2, VertexSets
    <3>2. 2 * Cardinality(w[N]) >= Cardinality(S)
      BY <1>3, <1>7, <3>1
    <3>3. E \in SUBSET Nat /\ E # {} /\ E \in SUBSET (0 .. N)
      BY <1>3, <3>2
    <3> HIDE DEF E
    <3>4. Min(E) \in 0 .. N
      BY <3>3, MinIs
    <3> QED
      BY <3>4 DEF E
  <2>4. j \in Int
    <3> HIDE DEF half
    <3>1. Max({half, 1}) \in Int /\ h - 1 \in Int
      BY <2>2, <2>3, MaxOfTwo
    <3> DEFINE x0 == Max({half, 1})
               y == h - 1
    <3> HIDE DEF x0, y
    <3>2. x0 \in Int /\ y \in Int /\ {x0, y, y} = {x0, y}
      BY <3>1 DEF x0, y
    <3>3. Min({x0, y, y}) \in Int
      BY <3>2, MinOfThree
    <3>4. Min({x0, y}) \in Int
      BY <3>2, <3>3
    <3> QED
      BY <3>4 DEF j, x0, y
  <2> HIDE DEF L, half, D
  <2>5. ASSUME NEW u \in S, NEW v \in S, {u, v} \in G PROVE L(v) <= L(u) + 1
    <3>1. L(u) \in 0 .. N /\ L(v) \in 0 .. N /\ u \in w[L(u)]
      BY <2>1
    <3>2. CASE L(u) = N
      BY <1>3, <3>1, <3>2
    <3>3. CASE L(u) # N
      <4> DEFINE d == L(u) + 1
      <4>1. d \in 1 .. N /\ d \in 0 .. N /\ d - 1 = L(u)
        BY <1>3, <3>1, <3>3
      <4>2. v \in Beside(G, S, w[L(u)])
        <5>1. u \in Neighbours(G, v)
          BY <1>2, <2>5 DEF Neighbours
        <5> QED
          BY <3>1, <5>1 DEF Beside
      <4>3. v \in w[d]
        BY <1>4, <4>1, <4>2
      <4> QED
        BY <2>1, <4>1, <4>3
    <3> QED
      BY <3>2, <3>3
  <2> DEFINE A == S \ (after \cup middle)
             B == after
  <2>6. cut.a = Chosen(s, A) /\ cut.b = Chosen(s, B)
    BY <1>1, <1>7
  <2>7. ASSUME NEW u \in S \cap A, NEW v \in S \cap B
        PROVE  u # v /\ {u, v} \notin G
    <3>1. u \in S /\ v \in S /\ u \notin after /\ u \notin middle /\ v \in after
      OBVIOUS
    <3>2. L(u) \in Int /\ L(v) \in Int /\ L(v) > j /\ ~(L(u) > j)
      BY <2>1, <3>1 DEF after
    <3>3. ASSUME {u, v} \in G PROVE FALSE
      <4>1. L(v) <= L(u) + 1
        BY <2>5, <3>1, <3>3
      <4>2. L(u) = j /\ L(v) = j + 1
        BY <2>4, <3>2, <4>1
      <4>3. v \in Neighbours(G, u)
        <5>1. {v, u} = {u, v}
          OBVIOUS
        <5> QED
          BY <1>2, <3>1, <3>3, <5>1 DEF Neighbours
      <4>4. u \in middle
        BY <3>1, <4>2, <4>3 DEF middle
      <4> QED
        BY <3>1, <4>4
    <3> QED
      BY <3>1, <3>3
  <2> HIDE DEF A, B, S
  <2>8. /\ NoEdge(G, cut.a, cut.b) /\ ToSet(cut.a) \subseteq S
        /\ ToSet(cut.b) \subseteq S
    BY <1>5, <2>6, <2>7
  <2> QED
    BY <2>8 DEF S, cut
<1> QED
  BY <1>6, <1>7

\* No part on the stack has an edge to one above it.
AllApart(G, parts) ==
    \A k, h \in DOMAIN parts : k < h => NoEdge(G, parts[k].s, parts[h].s)

LEMMA ApartPop ==
  ASSUME NEW G, NEW rest \in Seq(Part), NEW p \in Part,
         AllApart(G, Append(rest, p))
  PROVE  /\ AllApart(G, rest)
         /\ \A k \in DOMAIN rest : NoEdge(G, rest[k].s, p.s)
<1> DEFINE parts == Append(rest, p)
           n == Len(rest)
<1>1. /\ n \in Nat /\ DOMAIN rest = 1 .. n /\ DOMAIN parts = 1 .. n + 1
      /\ \A q \in 1 .. n : parts[q] = rest[q]
      /\ parts[n + 1] = p
  OBVIOUS
<1>2. AllApart(G, parts)
  OBVIOUS
<1> HIDE DEF parts, n
<1>3. n + 1 \in 1 .. n + 1 /\ \A q \in 1 .. n : q \in 1 .. n + 1 /\ q < n + 1
  BY <1>1
<1> QED
  BY <1>1, <1>2, <1>3 DEF AllApart

LEMMA ApartPush ==
  ASSUME NEW G, NEW rest \in Seq(Part), NEW p \in Part, AllApart(G, rest),
         \A k \in DOMAIN rest : NoEdge(G, rest[k].s, p.s)
  PROVE  AllApart(G, Append(rest, p))
<1> DEFINE parts == Append(rest, p)
           n == Len(rest)
<1>1. /\ n \in Nat /\ DOMAIN rest = 1 .. n /\ DOMAIN parts = 1 .. n + 1
      /\ \A q \in 1 .. n : parts[q] = rest[q]
      /\ parts[n + 1] = p
  OBVIOUS
<1> HIDE DEF parts, n
<1>2. SUFFICES ASSUME NEW k \in 1 .. n + 1, NEW h \in 1 .. n + 1, k < h
               PROVE  NoEdge(G, parts[k].s, parts[h].s)
  BY <1>1 DEF AllApart, parts
<1>3. k \in 1 .. n
  BY <1>1, <1>2
<1>4. h \in 1 .. n \/ h = n + 1
  BY <1>1
<1>5. CASE h \in 1 .. n
  BY <1>1, <1>2, <1>3, <1>5 DEF AllApart
<1>6. CASE h = n + 1
  BY <1>1, <1>3, <1>6
<1> QED
  BY <1>4, <1>5, <1>6

\* Two sides of the part on top of the stack, apart, stay apart from the rest.
LEMMA ApartSplit ==
  ASSUME NEW G, NEW rest \in Seq(Part), NEW p \in Part,
         AllApart(G, Append(rest, p)), NEW a \in Part, NEW b \in Part,
         ToSet(a.s) \subseteq ToSet(p.s), ToSet(b.s) \subseteq ToSet(p.s),
         NoEdge(G, a.s, b.s)
  PROVE  AllApart(G, rest \o <<b, a>>)
<1> DEFINE n == Len(rest)
           t == Append(rest, b)
<1>1. AllApart(G, rest) /\ \A k \in DOMAIN rest : NoEdge(G, rest[k].s, p.s)
  BY ApartPop
<1>2. \A k \in DOMAIN rest : NoEdge(G, rest[k].s, a.s) /\ NoEdge(G, rest[k].s, b.s)
  BY <1>1 DEF NoEdge
<1>3. t \in Seq(Part) /\ AllApart(G, t)
  BY <1>1, <1>2, ApartPush
<1>4. NoEdge(G, b.s, a.s)
  <2> SUFFICES ASSUME NEW u \in ToSet(b.s), NEW v \in ToSet(a.s)
               PROVE  u # v /\ {u, v} \notin G
    BY DEF NoEdge
  <2>1. v # u /\ {v, u} \notin G /\ {v, u} = {u, v}
    BY DEF NoEdge
  <2> QED
    BY <2>1
<1>5. /\ n \in Nat /\ DOMAIN rest = 1 .. n /\ DOMAIN t = 1 .. n + 1
      /\ \A q \in 1 .. n : t[q] = rest[q]
      /\ t[n + 1] = b
  OBVIOUS
<1>6. rest \o <<b, a>> = Append(t, a)
  OBVIOUS
<1> HIDE DEF t, n
<1>7. \A q \in 1 .. n + 1 : q \in 1 .. n \/ q = n + 1
  BY <1>5
<1>8. \A k \in DOMAIN t : NoEdge(G, t[k].s, a.s)
  BY <1>2, <1>4, <1>5, <1>7
<1> QED
  BY <1>3, <1>6, <1>8, ApartPush

LEMMA ApartStep ==
  ASSUME NEW G, NEW n, NdGood(n), ~NdDone(n), AllApart(G, n.parts)
  PROVE  AllApart(G, NdStep(G, n).parts)
<1> DEFINE p == Last(n.parts)
           rest == Front(n.parts)
           s == p.s
           root == NdRoot(G, s)
           w == Within(G, ToSet(s), root)
           cut == NdSides(G, s, w)
           m == p.pos + Len(cut.a)
           leaf == Len(s) <= Leaf \/ (Reached(w) = ToSet(s) /\ Height(w) < 2)
           h == NdStep(G, n)
           pb == [s |-> cut.b, pos |-> m]
           pa == [s |-> cut.a, pos |-> p.pos]
<1>1. h = IF s = << >> THEN [n EXCEPT !.parts = rest]
          ELSE IF leaf
          THEN [parts |-> rest,
                perm |-> Placed(n.perm, p.pos, MdOrder(G, s))]
          ELSE [parts |-> rest \o <<pb, pa>>,
                perm |-> Placed(n.perm, m + Len(cut.b), cut.c)]
  BY DEF NdStep
<1>2. n = [parts |-> n.parts, perm |-> n.perm] /\ NdHolds(n.parts, n.perm)
  BY DEF NdGood
<1>3. n.parts \in Seq(Part) /\ n.parts # << >>
  BY <1>2 DEF NdHolds, NdDone
<1>4. /\ rest \in Seq(Part) /\ p \in Part /\ n.parts = Append(rest, p)
  BY <1>3, FrontLast
<1>5. s \in Seq(V) /\ p.pos \in Nat
  BY <1>4 DEF Part
<1>6. Divides(s, cut.a, cut.b, cut.c)
  BY <1>5, NdSidesDivide
<1>7. pa \in Part /\ pb \in Part /\ pa.s = cut.a /\ pb.s = cut.b
  <2>1. cut.a \in Seq(V) /\ cut.b \in Seq(V) /\ Len(cut.a) \in Nat
    BY <1>6 DEF Divides
  <2> HIDE DEF cut
  <2> QED
    BY <1>5, <2>1 DEF Part
<1>8. ~leaf => /\ NoEdge(G, cut.a, cut.b)
               /\ ToSet(cut.a) \subseteq ToSet(s) /\ ToSet(cut.b) \subseteq ToSet(s)
  <2> SUFFICES ASSUME ~leaf
               PROVE  /\ NoEdge(G, cut.a, cut.b)
                      /\ ToSet(cut.a) \subseteq ToSet(s)
                      /\ ToSet(cut.b) \subseteq ToSet(s)
    OBVIOUS
  <2>1. ~(Reached(w) = ToSet(s) /\ Height(w) < 2)
    OBVIOUS
  <2> HIDE DEF s, root
  <2> QED
    BY <1>5, <2>1, SidesApart
<1> HIDE DEF cut, w, rest, p, h, leaf, pa, pb
<1>9. AllApart(G, Append(rest, p))
  BY <1>4
<1>10. AllApart(G, rest)
  BY <1>4, <1>9, ApartPop
<1>11. CASE s = << >>
  <2>1. h.parts = rest
    BY <1>1, <1>2, <1>11
  <2> QED
    BY <1>10, <2>1 DEF h
<1>12. CASE s # << >> /\ leaf
  <2>1. h.parts = rest
    BY <1>1, <1>12
  <2> QED
    BY <1>10, <2>1 DEF h
<1>13. CASE s # << >> /\ ~leaf
  <2>1. h.parts = rest \o <<pb, pa>>
    BY <1>1, <1>13
  <2>2. AllApart(G, rest \o <<pb, pa>>)
    BY <1>4, <1>7, <1>8, <1>9, <1>13, ApartSplit
  <2> QED
    BY <2>1, <2>2 DEF h
<1> QED
  BY <1>11, <1>12, <1>13 DEF h

LEMMA ApartStart ==
  ASSUME NEW G, NEW dense PROVE AllApart(G, NdStart(G, dense).parts)
<1> DEFINE live == V \ {v \in V : Degree(G, v) > dense}
           parts == <<[s |-> Ascending(live), pos |-> 0]>>
<1>1. NdStart(G, dense).parts = parts
  BY DEF NdStart
<1>2. DOMAIN parts = 1 .. 1
  OBVIOUS
<1>3. \A k, h \in 1 .. 1 : ~(k < h)
  OBVIOUS
<1> HIDE DEF parts
<1> QED
  BY <1>1, <1>2, <1>3 DEF AllApart

-----------------------------------------------------------------------------
\* How many eliminations an analysis can count.

SumsTo(s, b) == Total(s) \in Int /\ Total(s) <= Len(s) * b
LEMMA TotalWithin ==
  ASSUME NEW s \in Seq(Int), NEW b \in Int, \A q \in 1 .. Len(s) : s[q] <= b
  PROVE  SumsTo(s, b)
<1> DEFINE n == Len(s)
           h == Sums(s)
           T == {m \in 0 .. n : h[m] <= m * b}
<1>1. n \in Nat /\ n \in 0 .. n /\ \A q \in 1 .. n : s[q] \in Int /\ s[q] <= b
  OBVIOUS
<1>2. /\ h \in [0 .. n -> Int] /\ h[0] = 0
      /\ \A q \in 1 .. n : h[q] = h[q - 1] + s[q]
  BY SumsIs
<1> HIDE DEF h, n
<1>3. 0 \in T
  <2>1. 0 * b = 0
    OBVIOUS
  <2> QED
    BY <1>1, <1>2, <2>1
<1>4. ASSUME NEW q \in 1 .. n, q - 1 \in T PROVE q \in T
  <2>1. q \in 0 .. n /\ q - 1 \in 0 .. n /\ q \in Int /\ h[q - 1] <= (q - 1) * b
    BY <1>1, <1>4
  <2>2. h[q - 1] \in Int /\ s[q] \in Int /\ s[q] <= b
    BY <1>1, <1>2, <2>1
  <2>3. (q - 1) * b + b = q * b
    BY <2>1
  <2> DEFINE c == (q - 1) * b
             d == q * b
  <2>4. c \in Int /\ d \in Int /\ c + b = d /\ h[q - 1] <= c
    BY <2>1, <2>3
  <2> HIDE DEF c, d
  <2>5. h[q] <= d
    BY <1>2, <2>2, <2>4
  <2> QED
    BY <2>1, <2>5 DEF d
<1>5. T = 0 .. n
  <2>1. T \in SUBSET (0 .. n)
    OBVIOUS
  <2> HIDE DEF T
  <2> QED
    BY <1>1, <1>3, <1>4, <2>1, Induct
<1>6. h[n] <= n * b /\ h[n] \in Int
  BY <1>1, <1>2, <1>5
<1> QED
  BY <1>6 DEF SumsTo, Total, h, n

LEMMA ReachIsShort ==
  ASSUME NEW a, Analysed(a), NEW k \in V
  PROVE  Len(ReachOf(a, k)) \in 0 .. N
<1> DEFINE s == ReachOf(a, k)
           n == Len(s)
<1>1. /\ s \in Seq(V) /\ n \in Nat /\ DOMAIN s = 1 .. n
      /\ \A q \in 1 .. n : s[q] \in V
      /\ \A q, r \in 1 .. n : q # r => s[q] # s[r]
  BY ReachOfType
<1> HIDE DEF s, n
<1>2. s \in Injection(1 .. n, V)
  <2>1. s \in [1 .. n -> V]
    BY <1>1
  <2> QED
    BY <1>1, <2>1 DEF Injection, IsInjective
<1>3. IsFiniteSet(V) /\ Cardinality(V) = N
  BY VertexSets
<1>4. Cardinality(1 .. n) <= N
  BY <1>2, <1>3, FS_Injection
<1>5. Cardinality(1 .. n) = n
  <2>1. Cardinality(1 .. n) = IF 1 > n THEN 0 ELSE n - 1 + 1
    BY <1>1, FS_Interval
  <2> QED
    BY <1>1, <2>1
<1> QED
  BY <1>1, <1>4, <1>5, OrderAssumption DEF n, s

\* Each row takes at most N * N.
LEMMA OpsWithin ==
  ASSUME NEW a, Analysed(a) PROVE Ops(a) \in Int /\ Ops(a) <= NoCap
<1> DEFINE h == RowsCounted(a.parent, a.rows)
           Fills(k) == \A i \in V : h[k].fill[i] <= k
           T == {k \in 0 .. N : Fills(k) /\ Total(h[k].work) <= k * (N * N)}
<1>1. N \in Nat /\ N \in 0 .. N /\ V = 1 .. N /\ N * N \in Int
  BY OrderAssumption DEF V
<1>2. /\ h \in [0 .. N -> Counts]
      /\ h[0] = [fill |-> [i \in V |-> 0], work |-> << >>]
      /\ \A q \in 1 .. N : h[q] = Counted(h[q - 1], Reach(a.parent, a.rows[q], q))
  BY RowsCountedIs
<1> HIDE DEF h
<1>3. 0 \in T
  <2>1. Total(<< >>) <= 0
    <3>1. << >> \in Seq(Int) /\ Len(<< >>) = 0
      OBVIOUS
    <3>2. Sums(<< >>)[0] = 0
      BY <3>1, SumsIs
    <3> QED
      BY <3>1, <3>2 DEF Total
  <2>2. 0 * (N * N) = 0
    BY <1>1
  <2> QED
    BY <1>1, <1>2, <2>1, <2>2
<1>4. ASSUME NEW k \in 1 .. N, k - 1 \in T PROVE k \in T
  <2> DEFINE s == ReachOf(a, k)
             c == h[k - 1]
             w == [q \in DOMAIN s |-> c.fill[s[q]]]
  <2>1. k \in V /\ k \in 0 .. N /\ k - 1 \in 0 .. N /\ k \in Int
    BY <1>1
  <2>2. /\ c \in Counts /\ h[k] = Counted(c, s)
        /\ \A i \in V : c.fill[i] <= k - 1
        /\ Total(c.work) <= (k - 1) * (N * N)
    BY <1>2, <1>4, <2>1 DEF ReachOf
  <2>3. /\ s \in Seq(V) /\ DOMAIN s = 1 .. Len(s)
        /\ \A q \in 1 .. Len(s) : s[q] \in V
    BY <2>1, ReachOfType
  <2>4. Len(s) \in 0 .. N
    BY <2>1, ReachIsShort
  <2> HIDE DEF s, c
  <2>5. /\ Counted(c, s) \in Counts /\ Total(w) \in Int
        /\ Counted(c, s).work = Append(c.work, Total(w))
        /\ \A i \in V : Counted(c, s).fill[i] =
               IF i \in ToSet(s) THEN c.fill[i] + 1 ELSE c.fill[i]
    BY <2>2, <2>3, CountedType
  <2>6. c.fill \in [V -> Int] /\ c.work \in Seq(Int)
    BY <2>2 DEF Counts
  <2>7. Fills(k)
    <3> SUFFICES ASSUME NEW i \in V PROVE h[k].fill[i] <= k
      OBVIOUS
    <3>1. c.fill[i] \in Int /\ c.fill[i] <= k - 1
      BY <2>2, <2>6
    <3>2. h[k].fill[i] = c.fill[i] + 1 \/ h[k].fill[i] = c.fill[i]
      BY <2>2, <2>5
    <3> QED
      BY <2>1, <3>1, <3>2
  <2>8. w \in Seq(Int) /\ Len(w) = Len(s) /\ \A q \in 1 .. Len(w) : w[q] <= N
    <3>1. \A q \in 1 .. Len(s) : c.fill[s[q]] \in Int /\ c.fill[s[q]] <= N
      <4> SUFFICES ASSUME NEW q \in 1 .. Len(s)
                   PROVE  c.fill[s[q]] \in Int /\ c.fill[s[q]] <= N
        OBVIOUS
      <4>1. c.fill[s[q]] \in Int /\ c.fill[s[q]] <= k - 1
        BY <2>2, <2>3, <2>6
      <4> QED
        BY <1>1, <4>1
    <3>2. w = [q \in 1 .. Len(s) |-> c.fill[s[q]]]
      BY <2>3
    <3> HIDE DEF w
    <3>3. w \in [1 .. Len(s) -> Int] /\ \A q \in 1 .. Len(s) : w[q] <= N
      BY <3>1, <3>2
    <3>4. w \in Seq(Int) /\ Len(w) = Len(s)
      BY <2>4, <3>3, SeqDef
    <3> QED
      BY <3>3, <3>4
  <2> DEFINE t == Total(w)
             l == Len(s)
  <2>9. t <= l * N /\ t \in Int
    <3> HIDE DEF w
    <3>1. Total(w) \in Int /\ Total(w) <= Len(w) * N
      <4>1. SumsTo(w, N)
        BY <1>1, <2>8, TotalWithin
      <4> QED
        BY <4>1 DEF SumsTo
    <3> QED
      BY <2>8, <3>1
  <2>10. l \in 0 .. N /\ h[k].work = Append(c.work, t)
    BY <2>2, <2>4, <2>5
  <2> HIDE DEF w, t, l
  <2>11. l * N <= N * N
    <3>1. (N - l) * N >= 0
      BY <1>1, <2>10
    <3>2. (N - l) * N = N * N - l * N
      BY <1>1, <2>10
    <3>3. l * N \in Int
      BY <1>1, <2>10
    <3> QED
      BY <1>1, <3>1, <3>2, <3>3
  <2>12. Total(h[k].work) = Total(c.work) + t
    BY <2>6, <2>9, <2>10, TotalAppend
  <2> DEFINE o == Total(c.work)
             y == N * N
             y1 == (k - 1) * y
             y2 == k * y
  <2>13. o \in Int /\ y \in Int /\ y1 \in Int /\ y2 \in Int /\ y1 + y = y2
    <3>1. o \in Int
      BY <2>6, TotalType
    <3>2. y \in Int
      BY <1>1
    <3> HIDE DEF y
    <3>3. y1 \in Int /\ y2 \in Int /\ y1 + y = y2
      BY <2>1, <3>2
    <3> QED
      BY <3>1, <3>2, <3>3
  <2>14. o <= y1 /\ t <= y
    <3>1. l * N \in Int
      BY <1>1, <2>10
    <3> DEFINE z == l * N
    <3>2. t <= z /\ z <= y /\ z \in Int
      BY <2>9, <2>11, <3>1
    <3> HIDE DEF z, y
    <3>3. t <= y
      BY <2>9, <2>13, <3>2
    <3> QED
      BY <2>2, <3>3 DEF y
  <2> HIDE DEF o, y1, y2, y
  <2>15. o + t <= y2
    BY <2>9, <2>13, <2>14
  <2>16. Total(h[k].work) <= k * (N * N)
    BY <2>12, <2>15 DEF o, y2, y
  <2> QED
    BY <2>1, <2>7, <2>16
<1>5. T = 0 .. N
  <2>1. T \in SUBSET (0 .. N)
    OBVIOUS
  <2> HIDE DEF T
  <2> QED
    BY <1>1, <1>3, <1>4, <2>1, Induct
<1>6. Total(h[N].work) <= N * (N * N)
  BY <1>1, <1>5
<1>7. Total(h[N].work) \in Int
  <2>1. h[N].work \in Seq(Int)
    BY <1>1, <1>2 DEF Counts
  <2> QED
    BY <2>1, TotalType
<1>8. a.work = h[N].work
  BY DEF Analysed, RowWork, h
<1>9. N * (N * N) = N * N * N
  BY <1>1
<1> QED
  BY <1>6, <1>7, <1>8, <1>9 DEF Ops, NoCap

-----------------------------------------------------------------------------
\* The system: which order is kept.

\* What the order costs, whatever the limit of the analysis that tells.
Cost(which) == Ops(Analyse(which, NoCap))

LEMMA AnalyseAt ==
  ASSUME NEW which, NEW limit \in Int
  PROVE  LET a == Analyse(which, limit)
         IN  /\ Ops(a) = Cost(which) /\ Cost(which) \in Int /\ a.of = which
             /\ a.full <=> Cost(which) <= limit
             /\ a.full => a = Analyse(which, NoCap) /\ a.full = TRUE
             /\ Analyse(which, NoCap).full
<1> DEFINE perm == IF which = "md" THEN MdPerm(md) ELSE nd.perm
           rows == RowsOf(in.graph, perm)
           work == RowWork(Parents(rows), rows)
           a == Analyse(which, limit)
           b == Analyse(which, NoCap)
<1>1. /\ a = [of |-> which, full |-> Total(work) <= limit, perm |-> perm,
              rows |-> rows, parent |-> Parents(rows), work |-> work]
      /\ b = [of |-> which, full |-> Total(work) <= NoCap, perm |-> perm,
              rows |-> rows, parent |-> Parents(rows), work |-> work]
  BY DEF Analyse
<1>2. Ops(b) \in Int /\ Ops(b) <= NoCap
  BY AnalyseIs, OpsWithin
<1> HIDE DEF perm, rows, work, a, b
<1>3. Ops(a) = Total(work) /\ Ops(b) = Total(work)
  BY <1>1 DEF Ops
<1>4. Cost(which) = Ops(b)
  BY DEF Cost, b
<1>5. (Total(work) <= NoCap) = TRUE /\ b.full
  BY <1>1, <1>2, <1>3
<1>6. a.full => (Total(work) <= limit) = TRUE
  BY <1>1
<1>7. a.full => a = b /\ a.full = TRUE
  BY <1>1, <1>5, <1>6
<1>8. a.full <=> Cost(which) <= limit
  BY <1>1, <1>3, <1>4
<1>9. Ops(a) = Cost(which) /\ Cost(which) \in Int /\ a.of = which
  BY <1>1, <1>2, <1>3, <1>4
<1> QED
  BY <1>5, <1>7, <1>8, <1>9 DEF a, b

\* The order kept is the cheaper, and minimum degree when it cannot lose.
Cheaper ==
    /\ kept = "nd" => Cost("nd") < Cost("md")
    /\ kept = "md" /\ nd.perm # << >> => Cost("md") <= Cost("nd")
Whole == ana.full /\ ana = Analyse(kept, NoCap)
ChoiceInv ==
    /\ kept \in {"md", "nd"} /\ cap \in Int
    /\ pc \in {"md", "first"} => nd.perm = << >> /\ nd.parts = << >>
    /\ AllApart(in.graph, nd.parts)
    /\ pc \in {"redo", "block", "lanes"} => Cheaper
    /\ pc \in {"block", "lanes"} => Whole
    /\ pc \in {"block", "lanes", "done"} => nd.perm = << >> \/ IsOrder(nd.perm)

LEMMA ChoiceInit == ASSUME Init PROVE ChoiceInv
<1>1. nd.parts = << >> /\ nd.perm = << >> /\ kept = "md" /\ pc = "md" /\ cap = 0
  BY DEF Init
<1>2. AllApart(in.graph, nd.parts)
  BY <1>1 DEF AllApart
<1> QED
  BY <1>1, <1>2 DEF ChoiceInv

\* The orders, and what they cost, stay as they are.
LEMMA CostStays ==
  ASSUME in' = in, md' = md, nd' = nd
  PROVE  /\ Cost("md")' = Cost("md") /\ Cost("nd")' = Cost("nd")
         /\ Analyse("md", NoCap)' = Analyse("md", NoCap)
         /\ Analyse("nd", NoCap)' = Analyse("nd", NoCap)
<1>1. /\ Analyse("md", NoCap)' = Analyse("md", NoCap)
      /\ Analyse("nd", NoCap)' = Analyse("nd", NoCap)
  BY DEF Analyse
<1> QED
  BY <1>1 DEF Cost

LEMMA ChoiceStays ==
  ASSUME ChoiceInv, in' = in, md' = md, nd' = nd, kept' = kept, ana' = ana,
         cap' = cap,
         \/ pc' = pc
         \/ pc \in {"block", "lanes"} /\ pc' \in {"block", "lanes", "done"}
  PROVE  ChoiceInv'
<1>1. Cheaper' <=> Cheaper
  BY CostStays DEF Cheaper
<1>2. Whole' <=> Whole
  <2>1. kept' \in {"md", "nd"}
    BY DEF ChoiceInv
  <2>2. Analyse(kept, NoCap)' = Analyse(kept, NoCap)
    BY DEF Analyse
  <2> QED
    BY <2>2 DEF Whole
<1>3. AllApart(in.graph, nd.parts)'
  BY DEF ChoiceInv
<1> QED
  BY <1>1, <1>2, <1>3 DEF ChoiceInv

\* A choice that was made keeps the orders.
LEMMA ChoiceMade ==
  ASSUME ChoiceInv, OrdersInv, in' = in, md' = md, nd' = nd,
         kept' \in {"md", "nd"}, cap' \in Int,
         pc' = "redo" \/ (pc' = "block" /\ ana' = Analyse(kept', NoCap)),
         pc \in {"race", "redo"} \/ nd.perm = << >>,
         kept' = "nd" => Cost("nd") < Cost("md"),
         kept' = "md" => nd.perm = << >> \/ Cost("md") <= Cost("nd")
  PROVE  ChoiceInv'
<1>1. Cheaper'
  BY CostStays DEF Cheaper
<1>2. pc' = "block" => Whole'
  <2> SUFFICES ASSUME pc' = "block" PROVE Whole'
    OBVIOUS
  <2>1. NoCap \in Int
    BY OrderAssumption DEF NoCap
  <2>2. Analyse(kept', NoCap).full
    BY <2>1, AnalyseAt
  <2>3. kept' = "md" \/ kept' = "nd"
    OBVIOUS
  <2>4. Analyse(kept, NoCap)' = Analyse(kept', NoCap)
    BY DEF Analyse
  <2> QED
    BY <2>2, <2>4 DEF Whole
<1>3. AllApart(in.graph, nd.parts)'
  BY DEF ChoiceInv
<1>4. nd.perm = << >> \/ IsOrder(nd.perm)
  <2>1. CASE nd.perm = << >>
    BY <2>1
  <2>2. CASE pc \in {"race", "redo"}
    <3>1. NdHolds(<< >>, nd.perm)
      BY <2>2 DEF OrdersInv
    <3> QED
      BY <3>1, NdDoneIs
  <2> QED
    BY <2>1, <2>2
<1> QED
  BY <1>1, <1>2, <1>3, <1>4 DEF ChoiceInv

LEMMA ChoiceRace ==
  ASSUME ChoiceInv, OrdersInv, Race PROVE ChoiceInv'
<1> DEFINE m == Analyse("md", cap)
           d == Analyse("nd", cap)
           b1 == Analyse("nd", Ops(m))
           b2 == Analyse("md", Ops(d))
           cm == Cost("md")
           cd == Cost("nd")
           wm == Analyse("md", NoCap)
           wd == Analyse("nd", NoCap)
<1>0. cap \in Int
  BY DEF ChoiceInv
<1>1. /\ Ops(m) = cm /\ cm \in Int /\ (m.full <=> cm <= cap)
      /\ Ops(d) = cd /\ cd \in Int /\ (d.full <=> cd <= cap)
  BY <1>0, AnalyseAt
<1>2. /\ b1.of = "nd" /\ Ops(b1) = cd /\ (b1.full <=> cd <= cm)
      /\ b1.full => b1 = wd
  <2> HIDE DEF m, cm, cd
  <2>1. Ops(m) \in Int
    BY <1>1
  <2> QED
    BY <1>1, <2>1, AnalyseAt DEF cd
<1>3. /\ b2.of = "md" /\ Ops(b2) = cm /\ (b2.full <=> cm <= cd)
      /\ b2.full => b2 = wm
  <2> HIDE DEF d, cm, cd
  <2>1. Ops(d) \in Int
    BY <1>1
  <2> QED
    BY <1>1, <2>1, AnalyseAt DEF cm
<1> DEFINE beside == IF m.full THEN b1 ELSE b2
<1>4. /\ pc = "race" /\ in' = in /\ md' = md /\ nd' = nd
      /\ LET k == beside
         IN  IF m.full
             THEN /\ ana' = k
                  /\ kept' = IF k.full /\ Ops(k) < Ops(m) THEN "nd" ELSE "md"
                  /\ pc' = IF InPlace(kept', k) THEN "block" ELSE "redo"
             ELSE IF d.full
             THEN /\ ana' = k
                  /\ kept' = IF k.full THEN "md" ELSE "nd"
                  /\ pc' = IF InPlace(kept', k) THEN "block" ELSE "redo"
             ELSE ana' = d /\ pc' = pc /\ kept' = kept
      /\ cap' = cap \/ cap' = 4 * cap
  BY DEF Race
<1>8. cap' \in Int
  BY <1>0, <1>4
<1> HIDE DEF m, d, b1, b2, cm, cd, wm, wd
<1>5. CASE m.full
  <2>1. /\ ana' = b1
        /\ kept' = IF b1.full /\ Ops(b1) < Ops(m) THEN "nd" ELSE "md"
        /\ pc' = IF InPlace(kept', b1) THEN "block" ELSE "redo"
    BY <1>4, <1>5
  <2>2. kept' = IF cd < cm THEN "nd" ELSE "md"
    BY <1>1, <1>2, <2>1
  <2>3. kept' \in {"md", "nd"} /\ (kept' = "nd" => cd < cm)
          /\ (kept' = "md" => cm <= cd)
    BY <1>1, <2>2
  <2>4. pc' = "redo" \/ (pc' = "block" /\ kept' = "nd")
    BY <1>2, <2>1 DEF InPlace
  <2>5. kept' = "nd" => ana' = wd
    BY <1>1, <1>2, <2>1, <2>3
  <2>6. pc' = "redo" \/ (pc' = "block" /\ ana' = Analyse(kept', NoCap))
    BY <2>4, <2>5 DEF wd
  <2> QED
    BY <1>4, <1>8, <2>3, <2>6, ChoiceMade DEF cm, cd
<1>6. CASE ~m.full /\ d.full
  <2>1. /\ ana' = b2
        /\ kept' = IF b2.full THEN "md" ELSE "nd"
        /\ pc' = IF InPlace(kept', b2) THEN "block" ELSE "redo"
    BY <1>4, <1>6
  <2>2. kept' = IF cm <= cd THEN "md" ELSE "nd"
    BY <1>1, <1>3, <2>1
  <2>3. kept' \in {"md", "nd"} /\ (kept' = "nd" => cd < cm)
          /\ (kept' = "md" => cm <= cd)
    BY <1>1, <2>2
  <2>4. pc' = "redo" \/ (pc' = "block" /\ kept' = "md")
    BY <1>3, <2>1 DEF InPlace
  <2>5. kept' = "md" => ana' = wm
    BY <1>1, <1>3, <2>1, <2>3
  <2>6. pc' = "redo" \/ (pc' = "block" /\ ana' = Analyse(kept', NoCap))
    BY <2>4, <2>5 DEF wm
  <2> QED
    BY <1>4, <1>8, <2>3, <2>6, ChoiceMade DEF cm, cd
<1>7. CASE ~m.full /\ ~d.full
  <2>1. pc' = pc /\ kept' = kept
    BY <1>4, <1>7
  <2>2. AllApart(in.graph, nd.parts)' /\ kept \in {"md", "nd"}
    BY <1>4 DEF ChoiceInv
  <2> QED
    BY <1>4, <1>8, <2>1, <2>2 DEF ChoiceInv
<1> QED
  BY <1>5, <1>6, <1>7

LEMMA ChoiceFirst ==
  ASSUME ChoiceInv, OrdersInv, FirstAnalysis PROVE ChoiceInv'
<1> DEFINE limit == IF in.large THEN Trigger ELSE NoCap
           a == Analyse("md", limit)
<1>1. /\ pc = "first" /\ ana' = a /\ kept' = "md" /\ in' = in /\ md' = md
      /\ cap' = cap
      /\ IF ana'.full THEN pc' = "block" /\ nd' = nd
                      ELSE pc' = "nd" /\ nd' = NdStart(in.graph, in.dense)
  BY DEF FirstAnalysis
<1>2. nd.perm = << >> /\ cap \in Int
  BY <1>1 DEF ChoiceInv
<1>3. a.full => a = Analyse("md", NoCap)
  <2>1. limit \in Int
    BY FactorAssumption, OrderAssumption DEF NoCap
  <2> HIDE DEF limit
  <2> QED
    BY <2>1, AnalyseAt
<1> HIDE DEF a
<1>4. CASE a.full
  <2>1. pc' = "block" /\ nd' = nd /\ ana' = Analyse(kept', NoCap)
    BY <1>1, <1>3, <1>4
  <2> QED
    BY <1>1, <1>2, <2>1, ChoiceMade
<1>5. CASE ~a.full
  <2>1. pc' = "nd" /\ nd' = NdStart(in.graph, in.dense)
    BY <1>1, <1>5
  <2>2. AllApart(in.graph, nd.parts)'
    BY <1>1, <2>1, ApartStart
  <2> QED
    BY <1>1, <1>2, <2>1, <2>2 DEF ChoiceInv
<1> QED
  BY <1>4, <1>5

LEMMA ChoiceDissect ==
  ASSUME ChoiceInv, OrdersInv, Dissect PROVE ChoiceInv'
<1>1. /\ pc = "nd" /\ in' = in /\ kept' = kept /\ pc' \in {"nd", "race"}
      /\ cap' = cap \/ cap' = 2 * Trigger
      /\ \/ nd' = nd
         \/ ~NdDone(nd) /\ nd' = NdStep(in.graph, nd)
  BY DEF Dissect
<1>2. NdGood(nd)
  BY <1>1 DEF OrdersInv
<1>3. AllApart(in.graph, nd.parts) /\ cap \in Int /\ kept \in {"md", "nd"}
  BY DEF ChoiceInv
<1>4. AllApart(in.graph, nd'.parts)
  BY <1>1, <1>2, <1>3, ApartStep
<1>5. cap' \in Int
  BY <1>1, <1>3, FactorAssumption
<1> QED
  BY <1>1, <1>3, <1>4, <1>5 DEF ChoiceInv

LEMMA ChoiceRedo ==
  ASSUME ChoiceInv, OrdersInv, Redo PROVE ChoiceInv'
<1>1. /\ pc = "redo" /\ ana' = Analyse(kept, NoCap) /\ pc' = "block"
      /\ in' = in /\ md' = md /\ nd' = nd /\ kept' = kept /\ cap' = cap
  BY DEF Redo, order
<1>2. Cheaper /\ kept \in {"md", "nd"} /\ cap \in Int
  BY <1>1 DEF ChoiceInv
<1>3. ana' = Analyse(kept', NoCap)
  BY <1>1
<1>4. /\ kept' = "nd" => Cost("nd") < Cost("md")
      /\ kept' = "md" => nd.perm = << >> \/ Cost("md") <= Cost("nd")
  BY <1>1, <1>2 DEF Cheaper
<1> QED
  BY <1>1, <1>2, <1>3, <1>4, ChoiceMade

LEMMA ChoiceDegree ==
  ASSUME ChoiceInv, OrderByDegree PROVE ChoiceInv'
<1>1. /\ pc = "md" /\ pc' \in {"md", "first"} /\ in' = in /\ nd' = nd
      /\ kept' = kept /\ cap' = cap
  BY DEF OrderByDegree
<1> QED
  BY <1>1 DEF ChoiceInv

\* All that AnalysisHolds says follows.
AnalysisInv == CholeskyInv /\ QuotientInv /\ ChoiceInv

LEMMA ApartIs == ASSUME ChoiceInv PROVE PartsApart
  BY DEF ChoiceInv, AllApart, NoEdge, PartsApart

LEMMA AnalysisIs == ASSUME AnalysisInv PROVE AnalysisHolds
<1>1. ChoiceInv /\ QuotientInv /\ OrdersInv /\ SameInv
  BY DEF AnalysisInv, CholeskyInv
<1>2. QuotientHolds /\ PartsApart
  BY <1>1, QuotientIs, ApartIs
<1>3. pc # "md" => IsOrder(MdPerm(md))
  <2> SUFFICES ASSUME pc # "md" PROVE IsOrder(MdPerm(md))
    OBVIOUS
  <2>1. MdGood(md, V) /\ MdDone(md)
    BY <1>1 DEF OrdersInv
  <2>2. Ordered(Analyse("md", NoCap))
    BY <2>1, MdOrdered
  <2>3. Analyse("md", NoCap).perm = MdPerm(md)
    BY DEF Analyse
  <2> QED
    BY <2>2, <2>3 DEF Ordered
<1>4. pc \notin {"md", "first", "nd"} => nd.perm = << >> \/ IsOrder(nd.perm)
  <2>1. CASE pc \in {"race", "redo"}
    <3>1. NdHolds(<< >>, nd.perm)
      BY <1>1, <2>1 DEF OrdersInv
    <3> QED
      BY <3>1, NdDoneIs
  <2>2. CASE pc \in {"block", "lanes", "done"}
    BY <1>1, <2>2 DEF ChoiceInv
  <2>3. pc \in {"md", "first", "nd"} \cup {"race", "redo"}
               \cup {"block", "lanes", "done"}
    BY <1>1 DEF SameInv, Analysing
  <2> QED
    BY <2>1, <2>2, <2>3
<1>5. OrderingHolds
  BY <1>2, <1>3, <1>4 DEF OrderingHolds
<1>6. ASSUME pc = "block"
      PROVE  /\ ana.full /\ ana = Analyse(kept, NoCap)
             /\ kept = "nd" => Ops(ana) < Ops(Analyse("md", NoCap))
             /\ kept = "md" /\ nd.perm # << >> =>
                    Ops(ana) <= Ops(Analyse("nd", NoCap))
  <2>1. Whole /\ Cheaper /\ kept \in {"md", "nd"}
    BY <1>1, <1>6 DEF ChoiceInv
  <2>2. Ops(ana) = Cost(kept)
    BY <2>1 DEF Whole, Cost
  <2> QED
    BY <2>1, <2>2 DEF Whole, Cheaper, Cost
<1> QED
  BY <1>5, <1>6 DEF AnalysisHolds

LEMMA AnalysisSymbolic ==
  ASSUME AnalysisInv, Symbolic PROVE QuotientInv' /\ ChoiceInv'
<1>1. ChoiceInv /\ QuotientInv /\ OrdersInv /\ MdGood(md, V)
  BY DEF AnalysisInv, CholeskyInv, OrdersInv
<1>2. in' = in /\ (md' = md \/ (~MdDone(md) /\ md' = MdStep(md)))
  BY DEF Symbolic, OrderByDegree, FirstAnalysis, Dissect, Race, Redo, order
<1>3. QuotientInv'
  BY <1>1, <1>2, QuotientNext
<1>4. ChoiceInv'
  BY <1>1, ChoiceDegree, ChoiceFirst, ChoiceDissect, ChoiceRace, ChoiceRedo
     DEF Symbolic
<1> QED
  BY <1>3, <1>4

\* The numeric factor takes the orders and the analysis as they are.
LEMMA AnalysisStays ==
  ASSUME AnalysisInv, Numeric \/ UNCHANGED vars
  PROVE  QuotientInv' /\ ChoiceInv'
<1>1. ChoiceInv /\ QuotientInv
  BY DEF AnalysisInv
<1>2. /\ in' = in /\ order' = order /\ ana' = ana
      /\ \/ pc' = pc
         \/ pc \in {"block", "lanes"} /\ pc' \in {"block", "lanes", "done"}
  <2>1. CASE RowsInOrder
    BY <2>1 DEF RowsInOrder
  <2>2. CASE Launch
    BY <2>2 DEF Launch
  <2>3. CASE NextLane
    BY <2>3 DEF NextLane, order
  <2>4. CASE Back
    BY <2>4 DEF Back
  <2>5. CASE Finish
    BY <2>5 DEF Finish
  <2>6. CASE \E t \in 1 .. Lanes : LaneRow(t)
    BY <2>6 DEF LaneRow
  <2>7. CASE UNCHANGED vars
    BY <2>7 DEF vars
  <2> QED
    BY <2>1, <2>2, <2>3, <2>4, <2>5, <2>6, <2>7 DEF Numeric
<1>3. md' = md /\ nd' = nd /\ cap' = cap /\ kept' = kept
  BY <1>2 DEF order
<1>4. QuotientInv'
  BY <1>1, <1>2, <1>3 DEF QuotientInv
<1> QED
  BY <1>1, <1>2, <1>3, <1>4, ChoiceStays

\* Whatever the pattern: minimum degree knows of each vertex its neighbours
\* in the graph that the eliminations so far leave, and never takes it for
\* one of fewer (md_eliminate: cliques and a bound instead of a graph); the
\* parts of a dissection share no edge (nd_split); each order lists every
\* vertex once; and the factor works on a whole analysis, the one of the
\* cheaper order (jm_chol_symbolic_dense).
THEOREM OrdersHold == Spec => []AnalysisHolds
<1>1. Init => AnalysisInv
  BY SameInit, OrdersInit, QuotientInit, ChoiceInit DEF CholeskyInv, AnalysisInv
<1>2. AnalysisInv /\ [Next]_vars => AnalysisInv'
  <2> SUFFICES ASSUME AnalysisInv, [Next]_vars PROVE AnalysisInv'
    OBVIOUS
  <2>1. CholeskyInv'
    BY CholeskyStep DEF AnalysisInv
  <2>2. CASE Symbolic
    BY <2>1, <2>2, AnalysisSymbolic DEF AnalysisInv
  <2>3. CASE Numeric \/ UNCHANGED vars
    BY <2>1, <2>3, AnalysisStays DEF AnalysisInv
  <2> QED
    BY <2>2, <2>3 DEF Next, Done
<1>3. AnalysisInv => AnalysisHolds
  BY AnalysisIs
<1> QED
  BY <1>1, <1>2, <1>3, PTL DEF Spec

=============================================================================
