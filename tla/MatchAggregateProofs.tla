------------------------ MODULE MatchAggregateProofs ------------------------
(***************************************************************************)
(* Proofs about MatchAggregate, for every set of players and songs, every  *)
(* routing of the rules and every number of attempts.                      *)
(***************************************************************************)
EXTENDS MatchAggregateProperties, FiniteSetTheorems, WellFoundedInduction, TLAPS

-----------------------------------------------------------------------------
(***************************************************************************)
(* Folds.                                                                  *)
(***************************************************************************)

\* A set of numbers has a least one.
LEMMA LeastOf ==
  ASSUME NEW ns, ns \subseteq Nat, ns # {}
  PROVE  \E m \in ns : \A n \in ns : m <= n
<1> DEFINE R == OpToRel(<, Nat)
<1>1. IsWellFoundedOn(R, Nat)
  BY NatLessThanWellFounded
<1>2. \A x, y \in Nat : x < y => <<x, y>> \in R
  BY DEF OpToRel
<1> HIDE DEF R
<1>3. PICK m \in ns : \A n \in ns : ~ (<<n, m>> \in R)
  BY <1>1, WFMin
<1>4. ASSUME NEW n \in ns PROVE m <= n
  <2>1. m \in Nat /\ n \in Nat /\ ~(n < m)
    BY <1>2, <1>3
  <2> QED BY <2>1
<1> QED BY <1>4

\* pick takes a member of every set.
Picks(pick, S) == \A s \in (SUBSET S) \ {{}} : pick[s] \in s

\* What holds of no set, and of a set if of that set without one member, holds
\* of every finite set.
LEMMA SubsetInduction ==
  ASSUME NEW S, IsFiniteSet(S), NEW pick, Picks(pick, S), NEW D, {} \in D,
         \A s \in (SUBSET S) \ {{}} : s \ {pick[s]} \in D => s \in D
  PROVE  SUBSET S \subseteq D
<1> SUFFICES ASSUME NEW t \in SUBSET S, t \notin D PROVE FALSE
  OBVIOUS
<1> DEFINE bad == {s \in SUBSET S : s \notin D}
           ns == {Cardinality(s) : s \in bad}
<1>1. \A s \in SUBSET S : IsFiniteSet(s) /\ Cardinality(s) \in Nat
  BY FS_Subset, FS_CardinalityType
<1>2. PICK m \in ns : \A n \in ns : m <= n
  <2>1. ns \subseteq Nat /\ ns # {}
    BY <1>1
  <2> HIDE DEF ns
  <2> QED BY <2>1, LeastOf
<1>3. PICK s \in bad : Cardinality(s) = m
  OBVIOUS
<1>4. s # {}
  OBVIOUS
<1>5. pick[s] \in s /\ s \ {pick[s]} \in SUBSET S
  BY <1>4 DEF Picks
<1>6. Cardinality(s \ {pick[s]}) = Cardinality(s) - 1
  <2>1. IsFiniteSet(s)
    BY <1>1
  <2> HIDE DEF bad
  <2> QED BY <1>5, <2>1, FS_RemoveElement
<1>7. s \ {pick[s]} \notin bad
  <2> SUFFICES ASSUME s \ {pick[s]} \in bad PROVE FALSE
    OBVIOUS
  <2>1. m <= Cardinality(s \ {pick[s]})
    BY <1>2
  <2>2. Cardinality(s) \in Nat
    BY <1>1
  <2> HIDE DEF bad
  <2> QED BY <1>3, <1>6, <2>1, <2>2
<1> QED BY <1>3, <1>4, <1>5, <1>7

\* One step of a fold over the sets in F.
IsFold(f, F, base, step, pick) ==
  f = [s \in F |-> IF s = {} THEN base ELSE step[<<pick[s], f[s \ {pick[s]}]>>]]

\* A recursion over the finite sets has a solution.
LEMMA FoldExists ==
  ASSUME NEW S, IsFiniteSet(S), NEW pick, Picks(pick, S),
         NEW T, NEW base \in T, NEW step \in [S \X T -> T]
  PROVE  \E f \in [SUBSET S -> T] : IsFold(f, SUBSET S, base, step, pick)
<1> DEFINE F(n) == {s \in SUBSET S : Cardinality(s) <= n}
           Good(n) == \E f \in [F(n) -> T] : IsFold(f, F(n), base, step, pick)
           bad == {n \in Nat : ~Good(n)}
<1>1. \A s \in SUBSET S : IsFiniteSet(s) /\ Cardinality(s) \in Nat
  BY FS_Subset, FS_CardinalityType
<1>2. \A s \in (SUBSET S) \ {{}} : pick[s] \in s /\ pick[s] \in S /\ s \ {pick[s]} \in SUBSET S
                                   /\ Cardinality(s \ {pick[s]}) = Cardinality(s) - 1
  BY <1>1, FS_RemoveElement DEF Picks
<1>3. \A s \in SUBSET S : Cardinality(s) = 0 <=> s = {}
  BY <1>1, FS_EmptySet
<1>4. Good(0)
  <2> DEFINE f == [s \in F(0) |-> base]
  <2>1. F(0) = {{}}
    BY <1>1, <1>3
  <2>2. f = [s \in F(0) |-> IF s = {} THEN base ELSE step[<<pick[s], f[s \ {pick[s]}]>>]]
    BY <2>1
  <2>3. f \in [F(0) -> T]
    OBVIOUS
  <2> HIDE DEF f
  <2> QED BY <2>2, <2>3 DEF IsFold
<1>5. ASSUME NEW n \in Nat, Good(n) PROVE Good(n + 1)
  <2>1. PICK g \in [F(n) -> T] : IsFold(g, F(n), base, step, pick)
    BY <1>5
  <2> DEFINE h == [s \in F(n + 1) |-> IF s = {} THEN base ELSE step[<<pick[s], g[s \ {pick[s]}]>>]]
  <2>2. \A s \in F(n + 1) : s # {} => s \ {pick[s]} \in F(n) /\ s \ {pick[s]} \in F(n + 1)
    BY <1>1, <1>2
  <2>3. h \in [F(n + 1) -> T]
    <3> SUFFICES ASSUME NEW s \in F(n + 1), s # {} PROVE step[<<pick[s], g[s \ {pick[s]}]>>] \in T
      OBVIOUS
    <3>1. g[s \ {pick[s]}] \in T /\ pick[s] \in S
      BY <1>2, <2>2
    <3> QED BY <3>1
  <2>4. \A s \in F(n) : g[s] = IF s = {} THEN base ELSE step[<<pick[s], g[s \ {pick[s]}]>>]
    BY <2>1 DEF IsFold
  <2>5. \A s \in F(n) : h[s] = g[s]
    <3>1. \A s \in F(n) : s \in F(n + 1)
      BY <1>1
    <3> QED BY <2>4, <3>1
  <2>6. \A s \in F(n + 1) : s # {} => h[s \ {pick[s]}] = g[s \ {pick[s]}]
    BY <2>2, <2>5
  <2>7. h = [s \in F(n + 1) |-> IF s = {} THEN base ELSE step[<<pick[s], h[s \ {pick[s]}]>>]]
    <3> DEFINE k == [s \in F(n + 1) |-> IF s = {} THEN base ELSE step[<<pick[s], h[s \ {pick[s]}]>>]]
    <3>1. \A s \in F(n + 1) : h[s] = k[s]
      BY <2>6
    <3>2. h = [s \in F(n + 1) |-> h[s]] /\ k = [s \in F(n + 1) |-> k[s]]
      OBVIOUS
    <3> HIDE DEF h, k, F
    <3>3. h = k
      BY <3>1, <3>2
    <3> QED BY <3>3 DEF k
  <2> HIDE DEF h, F
  <2> QED BY <2>3, <2>7 DEF IsFold
<1>6. \A n \in Nat : Good(n)
  <2> HIDE DEF Good
  <2> SUFFICES ASSUME bad # {} PROVE FALSE
    OBVIOUS
  <2>1. PICK m \in bad : \A n \in bad : m <= n
    BY LeastOf
  <2>2. m # 0
    BY <1>4
  <2>3. m - 1 \in Nat /\ ~(m <= m - 1)
    BY <2>2
  <2>4. Good(m - 1)
    BY <2>1, <2>3
  <2>5. Good(m - 1 + 1)
    BY <1>5, <2>3, <2>4
  <2>6. m - 1 + 1 = m
    BY <2>3
  <2> QED BY <2>5, <2>6
<1>7. Cardinality(S) \in Nat /\ F(Cardinality(S)) = SUBSET S
  BY <1>1, FS_Subset
<1> HIDE DEF F
<1> QED BY <1>6, <1>7


\* The greatest of some numbers up to n.
LEMMA MaxOf ==
  ASSUME NEW n \in Nat, NEW ns, ns \subseteq 1..n, ns # {}
  PROVE  Max(ns) \in ns
<1> DEFINE below == {n - k : k \in ns}
<1>1. below \subseteq Nat /\ below # {}
  <2>1. \A k \in ns : n - k \in Nat
    OBVIOUS
  <2> QED BY <2>1
<1>2. PICK b \in below : \A c \in below : b <= c
  <2> HIDE DEF below
  <2> QED BY <1>1, LeastOf
<1>3. PICK m \in ns : b = n - m
  OBVIOUS
<1>4. \A k \in ns : m >= k
  <2> SUFFICES ASSUME NEW k \in ns PROVE m >= k
    OBVIOUS
  <2>1. n - m <= n - k
    BY <1>2, <1>3
  <2>2. m \in Nat /\ k \in Nat
    OBVIOUS
  <2> QED BY <2>1, <2>2
<1> QED BY <1>4 DEF Max

\* Whatever holds of places, and still holds once an attempt has split them,
\* holds when every attempt has.
LEMMA SplitsStay ==
  ASSUME NEW n \in Nat, NEW attempts, DOMAIN attempts = 1..n, NEW T, NEW start \in T,
         \A place \in T, i \in 1..n : splitGroup(place, attempts[i]) \in T
  PROVE  FoldLeft(splitGroup, start, attempts) \in T
<1> DEFINE S == 1..n
           pick == [s \in (SUBSET S) \ {{}} |-> Max(s)]
           step == [c \in S \X T |-> splitGroup(c[2], attempts[c[1]])]
           iter == CHOOSE f : f = [s \in SUBSET S |-> IF s = {} THEN start
                                                     ELSE splitGroup(f[s \ {Max(s)}], attempts[Max(s)])]
           D == {s \in SUBSET S : iter[s] \in T}
<1>1. IsFiniteSet(S)
  BY FS_Interval
<1>2. Picks(pick, S)
  BY MaxOf DEF Picks
<1>3. step \in [S \X T -> T]
  OBVIOUS
<1>4. PICK f \in [SUBSET S -> T] : IsFold(f, SUBSET S, start, step, pick)
  <2> HIDE DEF S, pick, step
  <2> QED BY <1>1, <1>2, <1>3, FoldExists
<1>5. \A s \in (SUBSET S) \ {{}} : Max(s) \in s /\ Max(s) \in S /\ s \ {Max(s)} \in SUBSET S
  BY MaxOf
<1>6. f = [s \in SUBSET S |-> IF s = {} THEN start ELSE splitGroup(f[s \ {Max(s)}], attempts[Max(s)])]
  <2>1. \A s \in (SUBSET S) \ {{}} : step[<<pick[s], f[s \ {pick[s]}]>>] = splitGroup(f[s \ {Max(s)}], attempts[Max(s)])
    BY <1>5
  <2> HIDE DEF step, pick, S
  <2> QED BY <1>4, <2>1 DEF IsFold
<1>7. iter = [s \in SUBSET S |-> IF s = {} THEN start ELSE splitGroup(iter[s \ {Max(s)}], attempts[Max(s)])]
  <2>1. \E g : g = [s \in SUBSET S |-> IF s = {} THEN start ELSE splitGroup(g[s \ {Max(s)}], attempts[Max(s)])]
    BY <1>6
  <2> HIDE DEF S
  <2> QED BY <2>1
<1>8. FoldLeft(splitGroup, start, attempts) = iter[S]
  BY DEF FoldLeft, MapThenFoldSet
<1> HIDE DEF iter
<1>9. {} \in D /\ \A s \in (SUBSET S) \ {{}} : s \ {pick[s]} \in D => s \in D
  BY <1>5, <1>7
<1>10. S \in D
  <2> HIDE DEF S, pick, D
  <2> QED BY <1>1, <1>2, <1>9, SubsetInduction
<1> QED BY <1>8, <1>10

-----------------------------------------------------------------------------
(***************************************************************************)
(* Sizes.                                                                  *)
(***************************************************************************)

\* A part of a finite set is finite and no larger.
LEMMA SizeOfPart ==
  ASSUME NEW S, IsFiniteSet(S), NEW T, T \subseteq S
  PROVE  IsFiniteSet(T) /\ Cardinality(T) \in Nat /\ Cardinality(S) \in Nat /\ Cardinality(T) <= Cardinality(S)
<1>1. T \in SUBSET S
  OBVIOUS
<1>2. IsFiniteSet(T) /\ Cardinality(T) <= Cardinality(S)
  BY <1>1, FS_Subset
<1> QED BY <1>2, FS_CardinalityType

\* A part that leaves somebody out is smaller.
LEMMA SizeOfLess ==
  ASSUME NEW S, IsFiniteSet(S), NEW T, T \subseteq S, NEW x \in S, x \notin T
  PROVE  Cardinality(T) < Cardinality(S)
<1>1. IsFiniteSet(T) /\ Cardinality(T) \in Nat
  BY SizeOfPart
<1>2. Cardinality(T \cup {x}) = Cardinality(T) + 1
  BY <1>1, FS_AddElement
<1>3. T \cup {x} \subseteq S
  OBVIOUS
<1>4. Cardinality(T \cup {x}) <= Cardinality(S) /\ Cardinality(S) \in Nat
  BY <1>3, SizeOfPart
<1> QED BY <1>1, <1>2, <1>4

\* The sizes of sets that are apart add up.
LEMMA SizeOfBoth ==
  ASSUME NEW S, IsFiniteSet(S), NEW T, IsFiniteSet(T), S \cap T = {}
  PROVE  Cardinality(S \cup T) = Cardinality(S) + Cardinality(T)
<1>1. Cardinality(S \cap T) = 0
  BY FS_EmptySet
<1>2. Cardinality(S) \in Nat /\ Cardinality(T) \in Nat
  BY FS_CardinalityType
<1>3. Cardinality(S \cup T) = Cardinality(S) + Cardinality(T) - Cardinality(S \cap T)
  BY FS_Union
<1> QED BY <1>1, <1>2, <1>3

-----------------------------------------------------------------------------
(***************************************************************************)
(* Rankings.                                                               *)
(***************************************************************************)

\* The place of everybody is one more than the number of players ahead.
IsRanking(place, P) ==
  /\ place \in [P -> Nat]
  /\ \A p \in P : place[p] = 1 + Cardinality({q \in P : place[q] < place[p]})

\* Who is tied takes all the places up to the next.
LEMMA TiesTakePlaces ==
  ASSUME NEW P, IsFiniteSet(P), NEW place, IsRanking(place, P),
         NEW p \in P, NEW q \in P, place[p] < place[q]
  PROVE  place[p] + Cardinality(Tied(place, p)) <= place[q]
<1> DEFINE T == Tied(place, p)
           A == {r \in P : place[r] < place[p]}
           B == {r \in P : place[r] < place[q]}
<1>1. T \subseteq P /\ \A r \in P : r \in T <=> place[r] = place[p]
  BY DEF IsRanking, Tied
<1>2. \A r \in P : place[r] \in Nat
  BY DEF IsRanking
<1>3. /\ IsFiniteSet(T) /\ Cardinality(T) \in Nat
      /\ IsFiniteSet(A) /\ Cardinality(A) \in Nat
      /\ IsFiniteSet(B) /\ Cardinality(B) \in Nat
  BY <1>1, SizeOfPart
<1>4. A \cup T \subseteq B /\ A \cap T = {}
  BY <1>1, <1>2
<1>5. Cardinality(A \cup T) = Cardinality(A) + Cardinality(T)
  <2> HIDE DEF A, T
  <2> QED BY <1>3, <1>4, SizeOfBoth
<1>6. Cardinality(A \cup T) <= Cardinality(B)
  <2> HIDE DEF A, T, B
  <2> QED BY <1>3, <1>4, SizeOfPart
<1>7. place[p] = 1 + Cardinality(A) /\ place[q] = 1 + Cardinality(B)
  BY DEF IsRanking
<1> HIDE DEF A, T, B
<1> QED BY <1>3, <1>5, <1>6, <1>7 DEF T

\* R says who of those who are tied goes ahead: some of them, in one order in
\* which nobody is ahead of two equals of whom he beats one.
Orders(R, place, P) ==
  \A p, q \in P : place[p] = place[q] /\ <<q, p>> \in R =>
    /\ <<p, q>> \notin R
    /\ \A r \in P : place[r] = place[p] => <<q, r>> \in R \/ <<r, p>> \in R

Ahead(R, place, p) == {q \in Tied(place, p) : <<q, p>> \in R}

\* Putting those of a tie behind whom they are ordered behind leaves a ranking,
\* and moves nobody past another group.
LEMMA Refined ==
  ASSUME NEW P, IsFiniteSet(P), NEW place, IsRanking(place, P), NEW R, Orders(R, place, P),
         NEW new, new = [p \in P |-> place[p] + Cardinality(Ahead(R, place, p))]
  PROVE  /\ IsRanking(new, P)
         /\ \A p \in P : place[p] <= new[p] /\ new[p] < place[p] + Cardinality(Tied(place, p))
         /\ \A p, q \in P : place[p] < place[q] => new[p] < new[q]
         /\ \A p, q \in P : place[p] = place[q] => (new[p] < new[q] <=> <<p, q>> \in R)
<1> DEFINE A(p) == Ahead(R, place, p)
           T(p) == Tied(place, p)
           B(p) == {r \in P : place[r] < place[p]}
<1>1. \A p \in P : place[p] \in Nat
  BY DEF IsRanking
<1>2. \A p, q \in P : q \in T(p) <=> place[q] = place[p]
  BY DEF IsRanking, Tied
<1>3. \A p, q \in P : q \in A(p) <=> place[q] = place[p] /\ <<q, p>> \in R
  BY <1>2 DEF Ahead
<1>4. \A p \in P : T(p) \subseteq P /\ A(p) \subseteq P /\ B(p) \subseteq P
  BY DEF IsRanking, Tied, Ahead
<1> HIDE DEF A, T
<1>5. ASSUME NEW p \in P
      PROVE  /\ IsFiniteSet(T(p)) /\ Cardinality(T(p)) \in Nat
             /\ IsFiniteSet(A(p)) /\ Cardinality(A(p)) \in Nat
             /\ IsFiniteSet(B(p)) /\ Cardinality(B(p)) \in Nat
  <2> HIDE DEF B
  <2> QED BY <1>4, SizeOfPart
<1>6. ASSUME NEW p \in P
      PROVE  new[p] = place[p] + Cardinality(A(p)) /\ new[p] \in Nat
  <2>1. place[p] \in Nat /\ Cardinality(A(p)) \in Nat
    BY <1>1, <1>5
  <2>2. new[p] = place[p] + Cardinality(A(p))
    BY DEF A
  <2> QED BY <2>1, <2>2
<1>7. ASSUME NEW p \in P, NEW q \in P, place[p] = place[q], <<p, q>> \in R
      PROVE  new[p] < new[q]
  <2>1. p \notin A(p) /\ p \in A(q)
    BY <1>3, <1>7 DEF Orders
  <2>2. A(p) \subseteq A(q)
    <3> SUFFICES ASSUME NEW r \in A(p) PROVE r \in A(q)
      OBVIOUS
    <3>1. r \in P /\ place[r] = place[p] /\ <<r, p>> \in R
      BY <1>3, <1>4
    <3>2. <<p, r>> \notin R
      BY <1>7, <3>1 DEF Orders
    <3>3. <<r, q>> \in R
      BY <1>7, <3>1, <3>2 DEF Orders
    <3> QED BY <1>3, <1>7, <3>1, <3>3
  <2>3. Cardinality(A(p)) < Cardinality(A(q))
    BY <1>5, <2>1, <2>2, SizeOfLess
  <2>4. /\ new[p] = place[p] + Cardinality(A(p)) /\ new[q] = place[q] + Cardinality(A(q))
        /\ place[p] \in Nat /\ Cardinality(A(p)) \in Nat /\ Cardinality(A(q)) \in Nat
    BY <1>1, <1>5, <1>6
  <2> QED BY <1>7, <2>3, <2>4
<1>8. ASSUME NEW p \in P, NEW q \in P, place[p] = place[q], <<p, q>> \notin R, <<q, p>> \notin R
      PROVE  new[p] = new[q]
  <2>1. \A r \in P : r \in A(p) <=> r \in A(q)
    BY <1>3, <1>8 DEF Orders
  <2>2. A(p) = A(q)
    BY <1>4, <2>1
  <2> QED BY <1>6, <1>8, <2>2
<1>9. ASSUME NEW p \in P
      PROVE  place[p] <= new[p] /\ new[p] < place[p] + Cardinality(T(p))
  <2>1. p \in T(p) /\ p \notin A(p)
    BY <1>2, <1>3 DEF Orders
  <2>2. A(p) \subseteq T(p)
    BY <1>2, <1>3, <1>4
  <2>3. Cardinality(A(p)) < Cardinality(T(p))
    BY <1>5, <2>1, <2>2, SizeOfLess
  <2>4. /\ new[p] = place[p] + Cardinality(A(p)) /\ place[p] \in Nat
        /\ Cardinality(A(p)) \in Nat /\ Cardinality(T(p)) \in Nat
    BY <1>1, <1>5, <1>6
  <2> QED BY <2>3, <2>4
<1>10. ASSUME NEW p \in P, NEW q \in P, place[p] < place[q]
       PROVE  new[p] < new[q]
  <2>1. place[p] + Cardinality(T(p)) <= place[q]
    BY <1>10, TiesTakePlaces DEF T
  <2>2. new[p] < place[p] + Cardinality(T(p)) /\ place[q] <= new[q]
    BY <1>9
  <2>3. /\ new[p] \in Nat /\ new[q] \in Nat /\ place[p] \in Nat /\ place[q] \in Nat
        /\ Cardinality(T(p)) \in Nat
    BY <1>1, <1>5, <1>6
  <2> QED BY <2>1, <2>2, <2>3
<1>11. ASSUME NEW p \in P, NEW q \in P, place[p] = place[q]
       PROVE  new[p] < new[q] <=> <<p, q>> \in R
  <2>1. new[p] \in Nat /\ new[q] \in Nat
    BY <1>6
  <2>2. CASE <<p, q>> \in R
    BY <1>7, <1>11, <2>2
  <2>3. CASE <<q, p>> \in R
    <3>1. new[q] < new[p] /\ <<p, q>> \notin R
      BY <1>7, <1>11, <2>3 DEF Orders
    <3> QED BY <2>1, <3>1
  <2>4. CASE <<p, q>> \notin R /\ <<q, p>> \notin R
    BY <1>8, <1>11, <2>1, <2>4
  <2> QED BY <2>2, <2>3, <2>4
<1>12. ASSUME NEW p \in P PROVE new[p] = 1 + Cardinality({q \in P : new[q] < new[p]})
  <2> DEFINE N == {q \in P : new[q] < new[p]}
  <2>1. ASSUME NEW q \in P PROVE q \in N <=> q \in B(p) \/ q \in A(p)
    <3>1. /\ new[p] \in Nat /\ new[q] \in Nat /\ place[p] \in Nat /\ place[q] \in Nat
          /\ q \in A(p) <=> place[q] = place[p] /\ <<q, p>> \in R
      BY <1>1, <1>3, <1>6
    <3>2. CASE place[q] < place[p]
      BY <1>10, <3>2
    <3>3. CASE place[p] < place[q]
      <4>1. new[p] < new[q]
        BY <1>10, <3>3
      <4> QED BY <3>1, <3>3, <4>1
    <3>4. CASE place[p] = place[q]
      <4>1. new[q] < new[p] <=> <<q, p>> \in R
        BY <1>11, <3>4
      <4> QED BY <3>1, <3>4, <4>1
    <3> QED BY <3>1, <3>2, <3>3, <3>4
  <2>2. N = B(p) \cup A(p)
    BY <1>4, <2>1
  <2>3. B(p) \cap A(p) = {}
    <3> SUFFICES ASSUME NEW q \in P, q \in B(p), q \in A(p) PROVE FALSE
      BY <1>4
    <3>1. place[q] = place[p] /\ place[q] < place[p] /\ place[p] \in Nat
      BY <1>1, <1>3
    <3> QED BY <3>1
  <2>4. place[p] = 1 + Cardinality(B(p))
    BY DEF IsRanking
  <2> HIDE DEF B, N
  <2>5. Cardinality(B(p) \cup A(p)) = Cardinality(B(p)) + Cardinality(A(p))
    BY <1>5, <2>3, SizeOfBoth
  <2>6. new[p] = 1 + Cardinality(N)
    BY <1>1, <1>5, <1>6, <2>2, <2>4, <2>5
  <2> QED BY <2>6 DEF N
<1>13. IsRanking(new, P)
  BY <1>6, <1>12 DEF IsRanking
<1> QED BY <1>9, <1>10, <1>11, <1>13 DEF T

-----------------------------------------------------------------------------
(***************************************************************************)
(* Points, attempts, averages and ids, one after another.                  *)
(***************************************************************************)

IsEvidence(e) == \A p \in DOMAIN e : e[p] \in [failed: BOOLEAN, value: Nat]

\* p has more points, or as many and won an attempt.
PlayedFor(points, attempts, p, q) ==
  \/ points[p] > points[q]
  \/ /\ points[p] = points[q]
     /\ \E i \in DOMAIN attempts : {p, q} \subseteq DOMAIN attempts[i] /\ Better(attempts[i][p], attempts[i][q])

\* More points are ahead, and whoever is ahead has played for it.
IsEarned(place, points, attempts, P) ==
  /\ IsRanking(place, P)
  /\ \A p, q \in P : /\ points[p] > points[q] => place[p] < place[q]
                     /\ place[p] < place[q] => PlayedFor(points, attempts, p, q)

\* Before any attempt the players are ranked by their points alone.
LEMMA GroupsByPoints ==
  ASSUME NEW P, IsFiniteSet(P), NEW points \in [P -> Nat], NEW attempts
  PROVE  IsEarned(pointGroups(points), points, attempts, P)
<1> DEFINE level == [p \in P |-> 1]
           R == {c \in P \X P : points[c[1]] > points[c[2]]}
           new == pointGroups(points)
<1>1. \A p, q \in P : <<q, p>> \in R <=> points[q] > points[p]
  OBVIOUS
<1>2. \A p \in P : points[p] \in Nat /\ level[p] = 1
  OBVIOUS
<1>3. IsRanking(level, P)
  <2>1. \A p \in P : {q \in P : level[q] < level[p]} = {}
    OBVIOUS
  <2>2. \A p \in P : level[p] = 1 + Cardinality({q \in P : level[q] < level[p]})
    BY <2>1, FS_EmptySet
  <2>3. level \in [P -> Nat]
    OBVIOUS
  <2> HIDE DEF level
  <2> QED BY <2>2, <2>3 DEF IsRanking
<1> HIDE DEF R
<1>4. Orders(R, level, P)
  BY <1>1, <1>2 DEF Orders
<1>5. new = [p \in P |-> level[p] + Cardinality(Ahead(R, level, p))]
  <2>1. \A p \in P : Ahead(R, level, p) = {q \in P : points[q] > points[p]}
    BY <1>1 DEF Ahead, Tied
  <2>2. new = [p \in P |-> 1 + Cardinality({q \in P : points[q] > points[p]})]
    BY DEF pointGroups
  <2> QED BY <2>1, <2>2
<1> HIDE DEF level, new
<1>6. IsRanking(new, P) /\ \A p, q \in P : new[p] < new[q] <=> <<p, q>> \in R
  BY <1>2, <1>3, <1>4, <1>5, Refined
<1>7. ASSUME NEW p \in P, NEW q \in P
      PROVE  /\ points[p] > points[q] => new[p] < new[q]
             /\ new[p] < new[q] => PlayedFor(points, attempts, p, q)
  BY <1>1, <1>6 DEF PlayedFor
<1> QED BY <1>6, <1>7 DEF IsEarned, new

\* compareEvidence orders whatever evidence there is.
LEMMA BetterOrders ==
  ASSUME NEW x \in [failed: BOOLEAN, value: Nat], NEW y \in [failed: BOOLEAN, value: Nat],
         NEW z \in [failed: BOOLEAN, value: Nat], Better(x, y)
  PROVE  ~Better(y, x) /\ (Better(x, z) \/ Better(z, y))
<1>1. /\ x.failed \in BOOLEAN /\ y.failed \in BOOLEAN /\ z.failed \in BOOLEAN
      /\ x.value \in Nat /\ y.value \in Nat /\ z.value \in Nat
  OBVIOUS
<1> QED BY <1>1 DEF Better

\* An attempt splits the tie it was played for, and no other.
LEMMA SplitIsEarned ==
  ASSUME NEW P, IsFiniteSet(P), NEW points \in [P -> Nat], NEW attempts, NEW i \in DOMAIN attempts,
         IsEvidence(attempts[i]), NEW place, IsEarned(place, points, attempts, P)
  PROVE  IsEarned(splitGroup(place, attempts[i]), points, attempts, P)
<1> DEFINE e == attempts[i]
           played == DOMAIN e \in Groups(place)
           R == {c \in P \X P : played /\ c[1] \in DOMAIN e /\ c[2] \in DOMAIN e /\ Better(e[c[1]], e[c[2]])}
           new == splitGroup(place, e)
<1>1. \A p, q \in P : <<q, p>> \in R <=> played /\ {p, q} \subseteq DOMAIN e /\ Better(e[q], e[p])
  OBVIOUS
<1>2. IsRanking(place, P) /\ DOMAIN place = P
  BY DEF IsEarned, IsRanking
<1>3. \A p, q \in P : q \in Tied(place, p) <=> place[q] = place[p]
  BY <1>2 DEF Tied
<1>4. ASSUME played, NEW p \in DOMAIN e PROVE p \in P /\ DOMAIN e = Tied(place, p)
  BY <1>2, <1>4 DEF Groups, Tied
<1> HIDE DEF played, R
<1>5. Orders(R, place, P)
  <2> SUFFICES ASSUME NEW p \in P, NEW q \in P, place[p] = place[q], <<q, p>> \in R
               PROVE  /\ <<p, q>> \notin R
                      /\ \A r \in P : place[r] = place[p] => <<q, r>> \in R \/ <<r, p>> \in R
    BY DEF Orders
  <2>1. played /\ p \in DOMAIN e /\ q \in DOMAIN e /\ Better(e[q], e[p])
    BY <1>1
  <2>2. \A r \in P : place[r] = place[p] => r \in DOMAIN e
    BY <1>3, <1>4, <2>1
  <2>3. \A r \in DOMAIN e : e[r] \in [failed: BOOLEAN, value: Nat]
    BY DEF IsEvidence
  <2>4. ~Better(e[p], e[q]) /\ \A r \in DOMAIN e : Better(e[q], e[r]) \/ Better(e[r], e[p])
    BY <2>1, <2>3, BetterOrders
  <2> QED BY <1>1, <2>1, <2>2, <2>4
<1>6. new = [p \in P |-> place[p] + Cardinality(Ahead(R, place, p))]
  <2>1. ASSUME NEW p \in P, ~(played /\ p \in DOMAIN e)
        PROVE  place[p] = place[p] + Cardinality(Ahead(R, place, p))
    <3>1. Ahead(R, place, p) = {}
      BY <1>1, <1>2, <2>1 DEF Ahead, Tied
    <3>2. place[p] \in Nat
      BY <1>2 DEF IsRanking
    <3> QED BY <3>1, <3>2, FS_EmptySet
  <2>2. CASE played
    <3>1. \A p \in DOMAIN e : Ahead(R, place, p) = {q \in DOMAIN e : Better(e[q], e[p])}
      <4> SUFFICES ASSUME NEW p \in DOMAIN e
                   PROVE  Ahead(R, place, p) = {q \in DOMAIN e : Better(e[q], e[p])}
        OBVIOUS
      <4>1. p \in P /\ DOMAIN e = Tied(place, p)
        BY <1>4, <2>2
      <4>2. \A q \in DOMAIN e : q \in P /\ (<<q, p>> \in R <=> Better(e[q], e[p]))
        BY <1>1, <1>4, <2>2, <4>1
      <4> QED BY <4>1, <4>2 DEF Ahead
    <3>2. new = [p \in P |-> IF p \in DOMAIN e THEN place[p] + Cardinality({q \in DOMAIN e : Better(e[q], e[p])})
                                               ELSE place[p]]
      BY <1>2, <2>2 DEF splitGroup, Separate, played
    <3> QED BY <2>1, <2>2, <3>1, <3>2
  <2>3. CASE ~played
    <3>1. new = place
      BY <2>3 DEF splitGroup, played
    <3>2. place = [p \in P |-> place[p]]
      BY <1>2 DEF IsRanking
    <3> QED BY <2>1, <2>3, <3>1, <3>2
  <2> QED BY <2>2, <2>3
<1> HIDE DEF new
<1>7. /\ IsRanking(new, P)
      /\ \A p, q \in P : place[p] < place[q] => new[p] < new[q]
      /\ \A p, q \in P : place[p] = place[q] => (new[p] < new[q] <=> <<p, q>> \in R)
  BY <1>2, <1>5, <1>6, Refined
<1>8. ASSUME NEW p \in P, NEW q \in P
      PROVE  /\ points[p] > points[q] => new[p] < new[q]
             /\ new[p] < new[q] => PlayedFor(points, attempts, p, q)
  <2>1. /\ place[p] \in Nat /\ place[q] \in Nat /\ new[p] \in Nat /\ new[q] \in Nat
        /\ points[p] \in Nat /\ points[q] \in Nat
    BY <1>2, <1>7 DEF IsRanking
  <2>2. points[p] > points[q] => new[p] < new[q]
    BY <1>7 DEF IsEarned
  <2>3. CASE place[p] < place[q]
    BY <2>2, <2>3 DEF IsEarned
  <2>4. CASE place[q] < place[p]
    <3>1. new[q] < new[p]
      BY <1>7, <2>4
    <3> QED BY <2>1, <2>2, <3>1
  <2>5. CASE place[p] = place[q]
    <3>1. points[p] = points[q]
      BY <2>1, <2>5 DEF IsEarned
    <3>2. new[p] < new[q] => {p, q} \subseteq DOMAIN e /\ Better(e[p], e[q])
      BY <1>1, <1>7, <2>5
    <3>3. new[p] < new[q] => \E j \in DOMAIN attempts : {p, q} \subseteq DOMAIN attempts[j]
                                                       /\ Better(attempts[j][p], attempts[j][q])
      BY <3>2
    <3> QED BY <2>2, <3>1, <3>3 DEF PlayedFor
  <2> QED BY <2>1, <2>3, <2>4, <2>5
<1> QED BY <1>7, <1>8 DEF IsEarned, new

\* The points, split by every attempt.
LEMMA AttemptsAreEarned ==
  ASSUME NEW P, IsFiniteSet(P), NEW points \in [P -> Nat],
         NEW n \in Nat, NEW attempts, DOMAIN attempts = 1..n, \A i \in 1..n : IsEvidence(attempts[i])
  PROVE  IsEarned(FoldLeft(splitGroup, pointGroups(points), attempts), points, attempts, P)
<1> DEFINE T == {place \in [P -> Nat] : IsEarned(place, points, attempts, P)}
<1>1. \A place : place \in T <=> IsEarned(place, points, attempts, P)
  BY DEF IsEarned, IsRanking
<1> HIDE DEF T
<1>2. pointGroups(points) \in T
  BY <1>1, GroupsByPoints
<1>3. \A place \in T, i \in 1..n : splitGroup(place, attempts[i]) \in T
  BY <1>1, SplitIsEarned
<1>4. FoldLeft(splitGroup, pointGroups(points), attempts) \in T
  BY <1>2, <1>3, SplitsStay
<1> QED BY <1>1, <1>4

\* The index in the list of entries: everybody has one of their own, by place.
LEMMA IndexIsOrder ==
  ASSUME NEW P, IsFiniteSet(P), P \subseteq Nat, NEW place, IsRanking(place, P)
  PROVE  /\ \A p \in P : /\ Index(place, p) \in 1..Cardinality(P)
                         /\ place[p] <= Index(place, p)
                         /\ Index(place, p) < place[p] + Cardinality(Tied(place, p))
         /\ \A p, q \in P : p # q => Index(place, p) # Index(place, q)
         /\ \A p, q \in P : Index(place, p) < Index(place, q) => place[p] <= place[q]
<1> DEFINE I(p) == {q \in P : place[q] < place[p] \/ (place[q] = place[p] /\ q <= p)}
           B(p) == {q \in P : place[q] < place[p]}
           T(p) == Tied(place, p)
<1>1. \A p \in P : p \in Nat /\ place[p] \in Nat
  BY DEF IsRanking
<1>2. \A p \in P : Index(place, p) = Cardinality(I(p)) /\ place[p] = 1 + Cardinality(B(p))
  BY DEF Index, IsRanking
<1>3. \A p, q \in P : /\ q \in I(p) <=> place[q] < place[p] \/ (place[q] = place[p] /\ q <= p)
                      /\ q \in B(p) <=> place[q] < place[p]
                      /\ q \in T(p) <=> place[q] = place[p]
  BY DEF IsRanking, Tied
<1>4. \A p \in P : I(p) \subseteq P /\ B(p) \subseteq P /\ T(p) \subseteq P
  BY DEF IsRanking, Tied
<1> HIDE DEF I, B, T
<1>5. ASSUME NEW p \in P
      PROVE  /\ IsFiniteSet(I(p)) /\ Cardinality(I(p)) \in Nat /\ Cardinality(I(p)) <= Cardinality(P)
             /\ IsFiniteSet(B(p)) /\ Cardinality(B(p)) \in Nat
             /\ IsFiniteSet(T(p)) /\ Cardinality(T(p)) \in Nat
             /\ Cardinality(P) \in Nat
  BY <1>4, SizeOfPart
<1>6. ASSUME NEW p \in P
      PROVE  Cardinality(B(p)) < Cardinality(I(p)) /\ Cardinality(I(p)) <= Cardinality(B(p)) + Cardinality(T(p))
  <2>1. p \in I(p) /\ p \notin B(p) /\ B(p) \subseteq I(p)
    <3>1. p \in Nat /\ place[p] \in Nat
      BY <1>1
    <3>2. p \in I(p) /\ p \notin B(p)
      BY <1>3, <3>1
    <3> QED BY <1>3, <1>4, <3>2
  <2>2. Cardinality(B(p)) < Cardinality(I(p))
    BY <1>5, <2>1, SizeOfLess
  <2>3. I(p) \subseteq B(p) \cup T(p)
    BY <1>3, <1>4
  <2>4. B(p) \cap T(p) = {}
    <3> SUFFICES ASSUME NEW q \in P, q \in B(p), q \in T(p) PROVE FALSE
      BY <1>4
    <3>1. place[q] < place[p] /\ place[q] = place[p] /\ place[p] \in Nat
      BY <1>1, <1>3
    <3> QED BY <3>1
  <2>5. Cardinality(B(p) \cup T(p)) = Cardinality(B(p)) + Cardinality(T(p))
    BY <1>5, <2>4, SizeOfBoth
  <2>6. IsFiniteSet(B(p) \cup T(p))
    BY <1>5, FS_Union
  <2>7. Cardinality(I(p)) <= Cardinality(B(p) \cup T(p))
    BY <2>3, <2>6, SizeOfPart
  <2> QED BY <2>2, <2>5, <2>7
<1>7. ASSUME NEW p \in P, NEW q \in P, place[p] < place[q] \/ (place[p] = place[q] /\ p < q)
      PROVE  Cardinality(I(p)) < Cardinality(I(q))
  <2>1. I(p) \subseteq I(q)
    <3> SUFFICES ASSUME NEW r \in P, r \in I(p) PROVE r \in I(q)
      BY <1>4
    <3>1. /\ r \in Nat /\ p \in Nat /\ q \in Nat /\ place[r] \in Nat /\ place[p] \in Nat /\ place[q] \in Nat
          /\ place[r] < place[p] \/ (place[r] = place[p] /\ r <= p)
      BY <1>1, <1>3
    <3>2. place[r] < place[q] \/ (place[r] = place[q] /\ r <= q)
      BY <1>7, <3>1
    <3> QED BY <1>3, <3>2
  <2>2. q \in I(q) /\ q \notin I(p)
    <3>1. /\ p \in Nat /\ q \in Nat /\ place[p] \in Nat /\ place[q] \in Nat
      BY <1>1
    <3>2. ~(place[q] < place[p] \/ (place[q] = place[p] /\ q <= p))
      BY <1>7, <3>1
    <3> QED BY <1>3, <3>1, <3>2
  <2> QED BY <1>5, <2>1, <2>2, SizeOfLess
<1>8. ASSUME NEW p \in P
      PROVE  /\ Index(place, p) \in 1..Cardinality(P)
             /\ place[p] <= Index(place, p)
             /\ Index(place, p) < place[p] + Cardinality(T(p))
  <2>1. Index(place, p) = Cardinality(I(p)) /\ place[p] = 1 + Cardinality(B(p))
    BY <1>2
  <2>2. /\ Cardinality(I(p)) \in Nat /\ Cardinality(B(p)) \in Nat /\ Cardinality(T(p)) \in Nat
        /\ Cardinality(P) \in Nat /\ Cardinality(I(p)) <= Cardinality(P)
    BY <1>5
  <2> QED BY <1>6, <2>1, <2>2
<1>9. ASSUME NEW p \in P, NEW q \in P, p # q
      PROVE  Index(place, p) # Index(place, q)
  <2>1. \/ place[p] < place[q] \/ (place[p] = place[q] /\ p < q)
        \/ place[q] < place[p] \/ (place[q] = place[p] /\ q < p)
    BY <1>1, <1>9
  <2>2. Cardinality(I(p)) < Cardinality(I(q)) \/ Cardinality(I(q)) < Cardinality(I(p))
    BY <1>7, <2>1
  <2> QED BY <1>2, <1>5, <2>2
<1>10. ASSUME NEW p \in P, NEW q \in P, Index(place, p) < Index(place, q)
       PROVE  place[p] <= place[q]
  <2> SUFFICES ASSUME place[q] < place[p] PROVE FALSE
    BY <1>1
  <2>1. Cardinality(I(q)) < Cardinality(I(p))
    BY <1>7
  <2>2. Cardinality(I(p)) < Cardinality(I(q))
    BY <1>2, <1>10
  <2> QED BY <1>5, <2>1, <2>2
<1> QED BY <1>8, <1>9, <1>10 DEF T

\* Nobody is placed ahead of his tie, or behind somebody who was behind it.
IsFiner(place, split, P) ==
  /\ \A p \in P : split[p] <= place[p]
  /\ \A p, q \in P : split[p] < split[q] => place[p] < place[q]

\* A finer ranking leaves the entries of a tie where the tie was.
LEMMA IndexStaysInTie ==
  ASSUME NEW P, IsFiniteSet(P), P \subseteq Nat, NEW split, IsRanking(split, P), NEW place, IsRanking(place, P),
         IsFiner(place, split, P), NEW p \in P
  PROVE  /\ split[p] <= Index(place, p)
         /\ Index(place, p) < split[p] + Cardinality(Tied(split, p))
         /\ Index(place, p) \in Nat
<1> DEFINE I == {q \in P : place[q] < place[p] \/ (place[q] = place[p] /\ q <= p)}
           B == {q \in P : split[q] < split[p]}
           T == Tied(split, p)
<1>1. /\ Index(place, p) = Cardinality(I) /\ split[p] = 1 + Cardinality(B)
      /\ \A q \in P : split[q] \in Nat /\ place[q] \in Nat
  BY DEF Index, IsRanking
<1>2. Index(place, p) \in 1..Cardinality(P) /\ place[p] <= Index(place, p)
  BY IndexIsOrder
<1>3. split[p] <= place[p] /\ \A q \in P : split[p] < split[q] => place[p] < place[q]
  BY DEF IsFiner
<1>4. T \subseteq P /\ \A q \in P : q \in T <=> split[q] = split[p]
  BY DEF IsRanking, Tied
<1>5. I \subseteq B \cup T
  <2> SUFFICES ASSUME NEW q \in I PROVE q \in B \cup T
    OBVIOUS
  <2>1. q \in P /\ ~(place[p] < place[q])
    BY <1>1
  <2>2. ~(split[p] < split[q]) /\ split[q] \in Nat /\ split[p] \in Nat
    BY <1>3, <1>1, <2>1
  <2> QED BY <1>4, <2>1, <2>2
<1>6. B \cap T = {}
  <2> SUFFICES ASSUME NEW q \in P, split[q] < split[p], split[q] = split[p] PROVE FALSE
    BY <1>4
  <2> QED BY <1>1
<1>7. IsFiniteSet(B) /\ IsFiniteSet(T) /\ Cardinality(B) \in Nat /\ Cardinality(T) \in Nat
      /\ Cardinality(P) \in Nat
  BY <1>4, SizeOfPart
<1>8. IsFiniteSet(B \cup T)
  BY <1>7, FS_Union
<1> HIDE DEF I, B, T
<1>9. Cardinality(I) <= Cardinality(B) + Cardinality(T) /\ Cardinality(I) \in Nat
  BY <1>5, <1>6, <1>7, <1>8, SizeOfBoth, SizeOfPart
<1> QED BY <1>2, <1>1, <1>3, <1>7, <1>9 DEF T

\* What resolvePlacements makes of the points of the players P.
Resolved(done, points, attempts, outcomeOf, P) ==
  /\ IsRanking(done.place, P)
  /\ \A p, q \in P : points[p] > points[q] => done.place[p] < done.place[q]
  /\ \A tie \in done.ambiguousTies : tie \subseteq P /\ \A p, q \in tie : points[p] = points[q]
  /\ done.ambiguousTies = {} =>
       \A p, q \in P : LET at(r) == Index(done.place, r)
                       IN  at(p) < at(q) /\ outcomeOf[at(p)] # outcomeOf[at(q)] => PlayedFor(points, attempts, p, q)

\* Places rank the points; a tie is reported with equal points; and when none
\* is, whoever is ahead of somebody sent another way has played for it.
LEMMA PlacesAreEarned ==
  ASSUME NEW P, P \subseteq Player, NEW points \in [P -> Nat],
         NEW n \in Nat, NEW attempts, DOMAIN attempts = 1..n, \A i \in 1..n : IsEvidence(attempts[i]),
         NEW outcomeOf, NEW average \in [P -> Int]
  PROVE  Resolved(resolvePlacements(points, attempts, outcomeOf, average), points, attempts, outcomeOf, P)
<1> DEFINE split == FoldLeft(splitGroup, pointGroups(points), attempts)
           decides(p) == AveragesDecide(split, Tied(split, p), outcomeOf, average)
           R == {c \in P \X P : decides(c[2]) /\ average[c[1]] > average[c[2]]}
           place == [p \in P |-> split[p] + IF decides(p)
                                            THEN Cardinality({q \in Tied(split, p) : average[q] > average[p]}) ELSE 0]
           ties == {g \in Groups(split) : separatesOutcomes(split, g, outcomeOf)}
<1>1. IsFiniteSet(P) /\ P \subseteq Nat
  BY PlacementAssumption, SizeOfPart
<1>2. resolvePlacements(points, attempts, outcomeOf, average) = [place |-> place, ambiguousTies |-> ties]
  BY DEF resolvePlacements
<1>3. IsEarned(split, points, attempts, P)
  BY <1>1, AttemptsAreEarned
<1> HIDE DEF split
<1>4. IsRanking(split, P) /\ DOMAIN split = P /\ \A p \in P : split[p] \in Nat
  BY <1>3 DEF IsEarned, IsRanking
<1>5. \A p, q \in P : /\ q \in Tied(split, p) <=> split[q] = split[p]
                      /\ split[q] = split[p] => Tied(split, q) = Tied(split, p)
  BY <1>4 DEF Tied
<1>6. \A p, q \in P : split[q] = split[p] => (decides(q) <=> decides(p))
  BY <1>5
<1>7. \A p, q \in P : <<q, p>> \in R <=> decides(p) /\ average[q] > average[p]
  OBVIOUS
<1> HIDE DEF decides, R
<1>8. Orders(R, split, P)
  <2> SUFFICES ASSUME NEW p \in P, NEW q \in P, split[p] = split[q], <<q, p>> \in R
               PROVE  /\ <<p, q>> \notin R
                      /\ \A r \in P : split[r] = split[p] => <<q, r>> \in R \/ <<r, p>> \in R
    BY DEF Orders
  <2>1. average[p] \in Int /\ average[q] \in Int /\ average[q] > average[p] /\ decides(p)
    BY <1>7
  <2>2. <<p, q>> \notin R
    BY <1>7, <2>1
  <2>3. ASSUME NEW r \in P, split[r] = split[p] PROVE <<q, r>> \in R \/ <<r, p>> \in R
    <3>1. average[r] \in Int /\ decides(r)
      BY <1>6, <2>1, <2>3
    <3>2. average[q] > average[r] \/ average[r] > average[p]
      BY <2>1, <3>1
    <3> QED BY <1>7, <2>1, <3>1, <3>2
  <2> QED BY <2>2, <2>3
<1>9. place = [p \in P |-> split[p] + Cardinality(Ahead(R, split, p))]
  <2>1. ASSUME NEW p \in P
        PROVE  Cardinality(Ahead(R, split, p))
                 = IF decides(p) THEN Cardinality({q \in Tied(split, p) : average[q] > average[p]}) ELSE 0
    <3>1. Tied(split, p) \subseteq P
      BY <1>4 DEF Tied
    <3>2. CASE decides(p)
      <4>1. Ahead(R, split, p) = {q \in Tied(split, p) : average[q] > average[p]}
        BY <1>7, <3>1, <3>2 DEF Ahead
      <4> QED BY <3>2, <4>1
    <3>3. CASE ~decides(p)
      <4>1. Ahead(R, split, p) = {}
        BY <1>7, <3>1, <3>3 DEF Ahead
      <4> QED BY <3>3, <4>1, FS_EmptySet
    <3> QED BY <3>2, <3>3
  <2> QED BY <2>1
<1> HIDE DEF place
<1>10. /\ IsRanking(place, P)
       /\ \A p \in P : split[p] <= place[p] /\ place[p] < split[p] + Cardinality(Tied(split, p))
       /\ \A p, q \in P : split[p] < split[q] => place[p] < place[q]
  <2>1. IsFiniteSet(P) /\ IsRanking(split, P)
    BY <1>1, <1>4
  <2> HIDE DEF ties
  <2> QED BY <1>8, <1>9, <2>1, Refined
<1>11. \A p, q \in P : points[p] > points[q] => place[p] < place[q]
  BY <1>3, <1>10 DEF IsEarned
<1>12. \A tie \in ties : tie \subseteq P /\ \A p, q \in tie : points[p] = points[q]
  <2> SUFFICES ASSUME NEW tie \in Groups(split)
               PROVE  tie \subseteq P /\ \A p, q \in tie : points[p] = points[q]
    OBVIOUS
  <2>1. PICK x \in P : tie = Tied(split, x)
    BY <1>4 DEF Groups
  <2>2. tie \subseteq P /\ \A p \in tie : split[p] = split[x]
    BY <1>4, <2>1 DEF Tied
  <2>3. ASSUME NEW p \in tie, NEW q \in tie PROVE points[p] = points[q]
    <3>1. p \in P /\ q \in P /\ split[p] = split[q] /\ split[p] \in Nat /\ points[p] \in Nat /\ points[q] \in Nat
      BY <1>4, <2>2
    <3>2. ~(points[p] > points[q]) /\ ~(points[q] > points[p])
      BY <1>3, <3>1 DEF IsEarned
    <3> QED BY <3>1, <3>2
  <2> QED BY <2>2, <2>3
<1>13. ASSUME ties = {}, NEW p \in P, NEW q \in P, Index(place, p) < Index(place, q),
              outcomeOf[Index(place, p)] # outcomeOf[Index(place, q)]
       PROVE  PlayedFor(points, attempts, p, q)
  <2>1. /\ place[p] <= place[q] /\ place[p] \in Nat /\ place[q] \in Nat
        /\ split[p] \in Nat /\ split[q] \in Nat
    BY <1>1, <1>4, <1>10, <1>13, IndexIsOrder DEF IsRanking
  <2>2. ASSUME NEW r \in P PROVE outcomeOf[Index(place, r)] = outcomeOf[split[r]]
    <3>1. /\ split[r] <= Index(place, r) /\ Index(place, r) \in Nat /\ split[r] \in Nat
          /\ Index(place, r) < split[r] + Cardinality(Tied(split, r))
      <4>1. IsFiner(place, split, P)
        BY <1>10 DEF IsFiner
      <4> HIDE DEF ties
      <4> QED BY <1>1, <1>4, <1>10, <4>1, IndexStaysInTie
    <3>2. Cardinality(Tied(split, r)) \in Nat /\ r \in Tied(split, r)
      BY <1>1, <1>4, SizeOfPart DEF Tied
    <3>3. ~separatesOutcomes(split, Tied(split, r), outcomeOf)
      BY <1>4, <1>13 DEF Groups
    <3>4. \A k \in 0..Cardinality(Tied(split, r)) - 1 : outcomeOf[split[r] + k] = outcomeOf[split[r]]
      BY <3>2, <3>3 DEF separatesOutcomes
    <3>5. Index(place, r) - split[r] \in 0..Cardinality(Tied(split, r)) - 1
          /\ split[r] + (Index(place, r) - split[r]) = Index(place, r)
      BY <3>1, <3>2
    <3> QED BY <3>4, <3>5
  <2>3. CASE split[p] = split[q]
    BY <1>13, <2>2, <2>3
  <2>4. CASE split[p] # split[q]
    <3>1. ~(split[q] < split[p])
      <4> SUFFICES ASSUME split[q] < split[p] PROVE FALSE
        OBVIOUS
      <4>1. place[q] < place[p]
        BY <1>10
      <4> QED BY <2>1, <4>1
    <3>2. split[p] < split[q]
      BY <2>1, <2>4, <3>1
    <3> QED BY <1>3, <3>2 DEF IsEarned
  <2> QED BY <2>3, <2>4
<1> QED BY <1>2, <1>10, <1>11, <1>12, <1>13 DEF Resolved

-----------------------------------------------------------------------------
(***************************************************************************)
(* Sums and averages.                                                      *)
(***************************************************************************)

\* The sum of finitely many numbers is a number.
LEMMA TotalIsNat ==
  ASSUME NEW f, IsFiniteSet(DOMAIN f), \A x \in DOMAIN f : f[x] \in Nat
  PROVE  Total(f) \in Nat
<1> DEFINE S == DOMAIN f
           first(s) == CHOOSE x \in s : TRUE
           pick == [s \in (SUBSET S) \ {{}} |-> first(s)]
           step == [c \in S \X Nat |-> f[c[1]] + c[2]]
           iter == CHOOSE g : g = [s \in SUBSET S |-> IF s = {} THEN 0 ELSE f[first(s)] + g[s \ {first(s)}]]
           D == {s \in SUBSET S : iter[s] \in Nat}
<1>1. \A s \in (SUBSET S) \ {{}} : first(s) \in s /\ first(s) \in S /\ s \ {first(s)} \in SUBSET S
  OBVIOUS
<1>2. Total(f) = iter[S]
  BY DEF Total, MapThenSumSet, MapThenFoldSet
<1>3. \A s \in (SUBSET S) \ {{}} : pick[s] = first(s)
  OBVIOUS
<1> HIDE DEF first, pick
<1>4. Picks(pick, S)
  BY <1>1, <1>3 DEF Picks
<1>5. step \in [S \X Nat -> Nat]
  OBVIOUS
<1>6. PICK g \in [SUBSET S -> Nat] : IsFold(g, SUBSET S, 0, step, pick)
  <2> HIDE DEF S, step
  <2> QED BY <1>4, <1>5, FoldExists DEF S
<1>7. g = [s \in SUBSET S |-> IF s = {} THEN 0 ELSE f[first(s)] + g[s \ {first(s)}]]
  <2>1. \A s \in (SUBSET S) \ {{}} : step[<<pick[s], g[s \ {pick[s]}]>>] = f[first(s)] + g[s \ {first(s)}]
    <3> SUFFICES ASSUME NEW s \in (SUBSET S) \ {{}}
                 PROVE  step[<<pick[s], g[s \ {pick[s]}]>>] = f[first(s)] + g[s \ {first(s)}]
      OBVIOUS
    <3>1. pick[s] = first(s) /\ first(s) \in S /\ s \ {first(s)} \in SUBSET S
      BY <1>1, <1>3
    <3>2. <<first(s), g[s \ {first(s)}]>> \in S \X Nat
      BY <3>1
    <3> QED BY <3>1, <3>2
  <2> HIDE DEF step, S
  <2> QED BY <1>6, <2>1 DEF IsFold
<1>8. iter = [s \in SUBSET S |-> IF s = {} THEN 0 ELSE f[first(s)] + iter[s \ {first(s)}]]
  <2>1. \E h : h = [s \in SUBSET S |-> IF s = {} THEN 0 ELSE f[first(s)] + h[s \ {first(s)}]]
    BY <1>7
  <2> HIDE DEF S
  <2> QED BY <2>1
<1> HIDE DEF iter
<1>9. {} \in D /\ \A s \in (SUBSET S) \ {{}} : s \ {pick[s]} \in D => s \in D
  <2>1. {} \in D
    BY <1>8
  <2>2. ASSUME NEW s \in (SUBSET S) \ {{}}, s \ {pick[s]} \in D PROVE s \in D
    <3>1. first(s) \in S /\ s \ {first(s)} \in D
      BY <1>1, <1>3, <2>2
    <3>2. iter[s] = f[first(s)] + iter[s \ {first(s)}]
      BY <1>8
    <3> QED BY <3>1, <3>2
  <2> QED BY <2>1, <2>2
<1>10. S \in D
  <2>1. IsFiniteSet(S)
    OBVIOUS
  <2> HIDE DEF S, D
  <2> QED BY <2>1, <1>4, <1>9, SubsetInduction
<1> QED BY <1>2, <1>10

\* The average of finitely many percentages is a number, or Null.
LEMMA AverageIsInt ==
  ASSUME NEW f, IsFiniteSet(DOMAIN f), \A x \in DOMAIN f : f[x] \in Nat
  PROVE  Average(f) \in Int
<1>1. Total(f) \in Nat /\ Cardinality(DOMAIN f) \in Nat
  BY TotalIsNat, FS_CardinalityType
<1>2. \A t, n \in Nat : n # 0 => (200 * t + n) \div (2 * n) \in Int
  <2> SUFFICES ASSUME NEW t \in Nat, NEW n \in Nat, n # 0 PROVE (200 * t + n) \div (2 * n) \in Int
    OBVIOUS
  <2>1. 200 * t + n \in Int /\ 2 * n \in Int /\ 2 * n > 0
    OBVIOUS
  <2> QED BY <2>1
<1> QED BY <1>1, <1>2 DEF Average, Null

-----------------------------------------------------------------------------
(***************************************************************************)
(* The type of an aggregate.                                               *)
(***************************************************************************)

Standings == UNION {[ps -> Standing] : ps \in SUBSET Player}
Rounds == UNION {[ss -> Standings] : ss \in (SUBSET Song) \cup {{Hand}}}
Results == UNION {[ps -> Nat] : ps \in SUBSET Player}
Aggregate == [players: SUBSET Player, system: System, rounds: Rounds, attempts: Seq(Attempt),
              active: BOOLEAN, result: Results]

\* The standings of a round are of a finite set of players.
LEMMA StandingsType ==
  /\ \A st \in Standings : /\ DOMAIN st \subseteq Player /\ st \in [DOMAIN st -> Standing]
                           /\ IsFiniteSet(DOMAIN st)
  /\ \A ps \in SUBSET Player : \A st \in [ps -> Standing] : st \in Standings
  /\ <<>> \in Standings
<1>1. \A st \in Standings : DOMAIN st \subseteq Player /\ st \in [DOMAIN st -> Standing]
  BY DEF Standings
<1>2. \A ps \in SUBSET Player : \A st \in [ps -> Standing] : st \in Standings
  BY DEF Standings
<1>3. \A ps \in SUBSET Player : IsFiniteSet(ps)
  BY PlacementAssumption, FS_Subset
<1>4. <<>> \in [{} -> Standing]
  OBVIOUS
<1> QED BY <1>1, <1>2, <1>3, <1>4

\* The rounds of a match: finitely many songs, or the one scored by hand.
LEMMA RoundsType ==
  /\ \A rounds \in Rounds :
       /\ DOMAIN rounds \subseteq Song \/ DOMAIN rounds = {Hand}
       /\ IsFiniteSet(DOMAIN rounds)
       /\ rounds \in [DOMAIN rounds -> Standings]
  /\ \A ss : ss \subseteq Song \/ ss = {Hand} => \A rounds \in [ss -> Standings] : rounds \in Rounds
<1>1. /\ \A rounds \in Rounds :
            /\ DOMAIN rounds \subseteq Song \/ DOMAIN rounds = {Hand}
            /\ rounds \in [DOMAIN rounds -> Standings]
      /\ \A ss : ss \subseteq Song \/ ss = {Hand} => \A rounds \in [ss -> Standings] : rounds \in Rounds
  BY DEF Rounds
<1>2. IsFiniteSet({Hand}) /\ \A ss \in SUBSET Song : IsFiniteSet(ss)
  BY AggregateAssumption, FS_Subset, FS_Singleton
<1> QED BY <1>1, <1>2

\* A result places players; the one of a match that is not committed, nobody.
LEMMA ResultsType ==
  /\ \A result \in Results : DOMAIN result \subseteq Player /\ result \in [DOMAIN result -> Nat]
  /\ \A ps \in SUBSET Player : \A result \in [ps -> Nat] : result \in Results
  /\ NotCommitted \in Results /\ DOMAIN NotCommitted = {}
<1>1. <<>> \in [{} -> Nat] /\ DOMAIN <<>> = {}
  OBVIOUS
<1> QED BY <1>1 DEF Results, NotCommitted

\* A standing, an attempt and its evidence.
LEMMA StandingType ==
  /\ \A x \in Standing : x.score \in Score \cup {NoScore} /\ x.points \in Nat
  /\ \A score \in Score \cup {NoScore}, points \in Nat : [score |-> score, points |-> points] \in Standing
  /\ \A x \in Standing : [x EXCEPT !.points = 0] \in Standing /\ [x EXCEPT !.points = 0].score = x.score
                         /\ [x EXCEPT !.points = 0].points = 0
  /\ \A x \in Standing, n \in Nat : /\ [x EXCEPT !.points = n] \in Standing
                                    /\ [x EXCEPT !.points = n].score = x.score
                                    /\ [x EXCEPT !.points = n].points = n
BY DEF Standing

\* A score is a percentage that may be of a failed run, never none at all.
LEMMA ScoreType ==
  /\ \A score \in Score : score.percentage \in Nat /\ score.failed \in BOOLEAN /\ score # NoScore
  /\ NoScore \notin Score
<1>1. \A score \in Score : score.percentage \in Nat /\ score.failed \in BOOLEAN
  BY PlacementAssumption
<1>2. NoScore.percentage \notin Nat
  BY DEF NoScore, Null
<1> QED BY <1>1, <1>2

\* An attempt has evidence of players.
LEMMA AttemptType ==
  /\ \A t \in Attempt : /\ t.song \in BOOLEAN
                        /\ DOMAIN t.standings \subseteq Player
                        /\ t.standings \in [DOMAIN t.standings -> Evidence]
  /\ \A song \in BOOLEAN, ps \in SUBSET Player : \A st \in [ps -> Evidence] : [song |-> song, standings |-> st] \in Attempt
  /\ \A x \in Evidence : x.score \in Score \cup {NoScore} /\ x.points \in Points /\ x.points \in Nat
  /\ \A score \in Score \cup {NoScore}, points \in Points : [score |-> score, points |-> points] \in Evidence
BY AggregateAssumption DEF Attempt, Evidence

\* The fields of an aggregate, each with its type.
LEMMA AggregateType ==
  ASSUME NEW m \in Aggregate
  PROVE  /\ m.players \subseteq Player /\ m.system \in System /\ m.rounds \in Rounds
         /\ m.attempts \in Seq(Attempt) /\ m.active \in BOOLEAN /\ m.result \in Results
         /\ DOMAIN m.attempts = 1..Len(m.attempts) /\ Len(m.attempts) \in Nat
         /\ \A i \in DOMAIN m.attempts : m.attempts[i] \in Attempt
         /\ IsFiniteSet(m.players) /\ Cardinality(m.players) \in Nat
<1>1. /\ m.players \subseteq Player /\ m.system \in System /\ m.rounds \in Rounds
      /\ m.attempts \in Seq(Attempt) /\ m.active \in BOOLEAN /\ m.result \in Results
  BY DEF Aggregate
<1>2. IsFiniteSet(m.players) /\ Cardinality(m.players) \in Nat
  BY <1>1, PlacementAssumption, SizeOfPart
<1>3. /\ DOMAIN m.attempts = 1..Len(m.attempts) /\ Len(m.attempts) \in Nat
      /\ \A i \in DOMAIN m.attempts : m.attempts[i] \in Attempt
  <2> HIDE DEF Attempt
  <2> QED BY <1>1
<1> QED BY <1>1, <1>2, <1>3

-----------------------------------------------------------------------------
(***************************************************************************)
(* What an aggregate answers.                                              *)
(***************************************************************************)

\* calculatePoints adds numbers.
LEMMA PointsAreNat ==
  ASSUME NEW m \in Aggregate, NEW p
  PROVE  PointsOf(m, p) \in Nat
<1> DEFINE f == [s \in DOMAIN m.rounds |-> IF p \in DOMAIN m.rounds[s] THEN m.rounds[s][p].points ELSE 0]
<1>1. IsFiniteSet(DOMAIN f)
  BY AggregateType, RoundsType
<1>2. ASSUME NEW s \in DOMAIN f PROVE f[s] \in Nat
  <2>1. m.rounds[s] \in Standings
    BY AggregateType, RoundsType
  <2> QED BY <2>1, StandingsType, StandingType
<1> HIDE DEF f
<1>3. Total(f) \in Nat
  BY <1>1, <1>2, TotalIsNat
<1> QED BY <1>3 DEF PointsOf, f

\* averagePercentageOf is a number, or Null.
LEMMA AveragesAreInt ==
  ASSUME NEW m \in Aggregate, NEW p
  PROVE  averagePercentageOf(m, p) \in Int
<1> DEFINE played == {s \in DOMAIN m.rounds :
                        p \in DOMAIN m.rounds[s] /\ m.rounds[s][p].score # NoScore /\ ~m.rounds[s][p].score.failed}
           f == [s \in played |-> m.rounds[s][p].score.percentage]
<1>1. IsFiniteSet(DOMAIN m.rounds) /\ played \subseteq DOMAIN m.rounds /\ DOMAIN f = played
  BY AggregateType, RoundsType
<1>2. IsFiniteSet(DOMAIN f)
  <2> HIDE DEF f, played
  <2> QED BY <1>1, SizeOfPart
<1>3. ASSUME NEW s \in DOMAIN f PROVE f[s] \in Nat
  <2>1. m.rounds[s] \in Standings
    BY AggregateType, RoundsType
  <2>2. m.rounds[s][p].score \in Score
    BY <2>1, StandingsType, StandingType
  <2> QED BY <2>2, ScoreType
<1> HIDE DEF f
<1>4. Average(f) \in Int
  BY <1>2, <1>3, AverageIsInt
<1> QED BY <1>4 DEF averagePercentageOf, f

\* What the resolver is given of an attempt is evidence, or nothing.
LEMMA EvidenceType ==
  ASSUME NEW m \in Aggregate
  PROVE  /\ DOMAIN tiebreakPlacementInputs(m) = 1..Len(m.attempts) /\ Len(m.attempts) \in Nat
         /\ \A i \in 1..Len(m.attempts) : IsEvidence(tiebreakPlacementInputs(m)[i])
<1>1. DOMAIN m.attempts = 1..Len(m.attempts) /\ Len(m.attempts) \in Nat
  BY AggregateType
<1>2. ASSUME NEW i \in 1..Len(m.attempts), NEW p \in DOMAIN tiebreakPlacementInputs(m)[i]
      PROVE  tiebreakPlacementInputs(m)[i][p] \in [failed: BOOLEAN, value: Nat]
  <2> DEFINE t == m.attempts[i]
  <2>1. t \in Attempt
    BY <1>1, AggregateType
  <2>2. /\ tiebreakPlacementInputs(m)[i] =
             IF isTiebreakComplete(t)
             THEN [q \in DOMAIN t.standings |->
                     IF t.song THEN [failed |-> t.standings[q].score.failed, value |-> t.standings[q].score.percentage]
                               ELSE [failed |-> FALSE, value |-> t.standings[q].points]]
             ELSE <<>>
    BY <1>1 DEF tiebreakPlacementInputs
  <2> HIDE DEF t
  <2>3. isTiebreakComplete(t) /\ p \in DOMAIN t.standings
    BY <2>2
  <2>4. t.standings[p].score \in Score \cup {NoScore} /\ t.standings[p].points \in Nat
    BY <2>1, <2>3, AttemptType
  <2>5. CASE t.song
    <3>1. t.standings[p].score \in Score
      BY <2>3, <2>4, <2>5 DEF isTiebreakComplete
    <3> QED BY <2>2, <2>3, <2>5, <3>1, ScoreType
  <2>6. CASE ~t.song
    BY <2>2, <2>3, <2>4, <2>6
  <2> QED BY <2>5, <2>6
<1>3. \A i \in 1..Len(m.attempts) : IsEvidence(tiebreakPlacementInputs(m)[i])
  BY <1>2 DEF IsEvidence
<1> QED BY <1>1, <1>3 DEF tiebreakPlacementInputs

Averages(m) == [p \in m.players |-> averagePercentageOf(m, p)]

Resolution(m, r) == resolvePlacements(calculatePoints(m), tiebreakPlacementInputs(m), r, Averages(m))

\* The points and averages the resolver is given.
LEMMA PointsType ==
  ASSUME NEW m \in Aggregate
  PROVE  /\ calculatePoints(m) \in [m.players -> Nat]
         /\ \A p \in m.players : calculatePoints(m)[p] = PointsOf(m, p)
         /\ Averages(m) \in [m.players -> Int]
BY PointsAreNat, AveragesAreInt DEF calculatePoints, Averages

\* What holds of resolvePlacements holds of the resolution of a match.
LEMMA ResolutionIsEarned ==
  ASSUME NEW m \in Aggregate, NEW r
  PROVE  Resolved(Resolution(m, r), calculatePoints(m), tiebreakPlacementInputs(m), r, m.players)
<1>1. m.players \subseteq Player
  BY AggregateType
<1> QED BY <1>1, PointsType, EvidenceType, PlacesAreEarned DEF Resolution

\* The lifecycle, without the records it is computed through.
LEMMA StateIs ==
  ASSUME NEW m, NEW r
  PROVE  /\ isCompleted(m) => state(m, r) = "completed"
         /\ ~isCompleted(m) /\ Settles(m) =>
              state(m, r) = IF Resolution(m, r).ambiguousTies = {} THEN "ready" ELSE "tiebreak_required"
         /\ ~isCompleted(m) /\ ~Settles(m) => state(m, r) = IF hasEvidence(m) THEN "partial" ELSE "open"
         /\ calculatedResultState(m, r).status = "ready" <=> Settles(m) /\ Resolution(m, r).ambiguousTies = {}
         /\ Settles(m) => /\ calculatedResultState(m, r).place = Resolution(m, r).place
                          /\ calculatedResultState(m, r).ambiguousTies = Resolution(m, r).ambiguousTies
         /\ ~Settles(m) => calculatedResultState(m, r).ambiguousTies = {}
<1>1. CASE Settles(m)
  <2>1. calculatedResultState(m, r) =
          [status |-> IF Resolution(m, r).ambiguousTies = {} THEN "ready" ELSE "tiebreak_required",
           place |-> Resolution(m, r).place, ambiguousTies |-> Resolution(m, r).ambiguousTies]
    BY <1>1 DEF calculatedResultState, Resolution, Averages
  <2> QED BY <1>1, <2>1 DEF state
<1>2. CASE ~Settles(m)
  BY <1>2 DEF calculatedResultState, state
<1> QED BY <1>1, <1>2

\* What the answers depend on.
LEMMA SameAnswers ==
  ASSUME NEW m, NEW n, n.players = m.players, n.rounds = m.rounds
  PROVE  /\ \A p : PointsOf(n, p) = PointsOf(m, p)
         /\ Settles(n) <=> Settles(m)
         /\ hasEvidence(n) <=> hasEvidence(m)
         /\ n.attempts = m.attempts => \A r : Resolution(n, r) = Resolution(m, r)
         /\ n.attempts = m.attempts /\ n.result = m.result => \A r : state(n, r) = state(m, r)
<1>1. \A p : PointsOf(n, p) = PointsOf(m, p)
  BY DEF PointsOf
<1>2. Settles(n) <=> Settles(m)
  BY DEF Settles, RoundSettled, isRoundComplete
<1>3. hasEvidence(n) <=> hasEvidence(m)
  BY DEF hasEvidence
<1>4. ASSUME n.attempts = m.attempts, NEW r PROVE Resolution(n, r) = Resolution(m, r)
  <2>1. calculatePoints(n) = calculatePoints(m)
    BY <1>1 DEF calculatePoints
  <2>2. tiebreakPlacementInputs(n) = tiebreakPlacementInputs(m)
    BY <1>4 DEF tiebreakPlacementInputs
  <2>3. \A p : averagePercentageOf(n, p) = averagePercentageOf(m, p)
    BY DEF averagePercentageOf
  <2>4. Averages(n) = Averages(m)
    BY <2>3 DEF Averages
  <2> QED BY <2>1, <2>2, <2>4 DEF Resolution
<1>5. ASSUME n.attempts = m.attempts, n.result = m.result, NEW r PROVE state(n, r) = state(m, r)
  <2>1. isCompleted(n) <=> isCompleted(m)
    BY <1>5 DEF isCompleted
  <2> QED BY <1>2, <1>3, <1>4, <1>5, <2>1, StateIs
<1> QED BY <1>1, <1>2, <1>3, <1>4, <1>5

-----------------------------------------------------------------------------
(***************************************************************************)
(* What every edit keeps of a match.                                       *)
(***************************************************************************)

\* The points of a round are those its runs earn, as IsCurrent says.
CurrentRound(players, system, standings) ==
  IF players # {} /\ players \subseteq DOMAIN standings
  THEN [p \in DOMAIN standings |-> standings[p].points]
         \in Awards(system, [p \in DOMAIN standings |-> standings[p].score])
  ELSE \A p \in DOMAIN standings : standings[p].points = 0

IsScored(standings) == \A p \in DOMAIN standings : standings[p].score \in Score

\* A round of a song has runs, and no points while one is missing.
SoundRound(players, standings) ==
  /\ IsScored(standings)
  /\ players = {} \/ ~(players \subseteq DOMAIN standings) => \A p \in DOMAIN standings : standings[p].points = 0

\* What round s of m may become in a field and a system: a round with the
\* points its runs earn, the round it was, or one that lost an outsider.
SettledRound(m, s, players, system, standings) ==
  \/ CurrentRound(players, system, standings)
  \/ /\ s \in DOMAIN m.rounds
     /\ \/ players = m.players /\ system = m.system /\ standings = m.rounds[s]
        \/ /\ \E p \in DOMAIN m.rounds[s] \ m.players : DOMAIN standings = DOMAIN m.rounds[s] \ {p}
           /\ \A p \in DOMAIN standings : standings[p].points = 0

\* An edit of m to n settles every round of a song.
Settled(m, n) == \A s \in DOMAIN n.rounds \cap Song : SettledRound(m, s, n.players, n.system, n.rounds[s])

OfATie(m) ==
  \A i \in DOMAIN m.attempts : \A p, q \in DOMAIN m.attempts[i].standings :
    p \in m.players /\ PointsOf(m, p) = PointsOf(m, q)

Sound(m) ==
  /\ m \in Aggregate
  /\ \A s \in DOMAIN m.rounds \cap Song : SoundRound(m.players, m.rounds[s])
  /\ OfATie(m)

\* A scoring system gives everybody with a run a number of points.
LEMMA AwardIsNat ==
  ASSUME NEW runs, IsFiniteSet(DOMAIN runs), NEW system \in System, NEW points \in Awards(system, runs)
  PROVE  points \in [DOMAIN runs -> Nat]
<1>1. ASSUME NEW includeFails PROVE Award(runs, includeFails) = [p \in DOMAIN runs |-> Award(runs, includeFails)[p]]
  BY DEF Award
<1>2. ASSUME NEW includeFails, NEW p \in DOMAIN runs PROVE Award(runs, includeFails)[p] \in Nat
  <2> DEFINE better == {q \in {x \in DOMAIN runs : includeFails \/ ~runs[x].failed} :
                          runs[q].percentage > runs[p].percentage}
  <2>1. better \subseteq DOMAIN runs
    OBVIOUS
  <2>2. Cardinality(DOMAIN runs) - Cardinality(better) \in Nat
    <3> HIDE DEF better
    <3> QED BY <2>1, SizeOfPart
  <2> QED BY <2>2 DEF Award
<1>3. CASE system = "PlacementPointsWithFailZero"
  BY <1>1, <1>2, <1>3 DEF Awards
<1>4. CASE system = "PlacementPointsIncludingFails"
  BY <1>1, <1>2, <1>4 DEF Awards
<1>5. CASE system = "RoundWinner"
  BY <1>5 DEF Awards
<1> QED BY <1>3, <1>4, <1>5, PlacementAssumption

\* rankIfComplete gives a round the points its runs earn.
LEMMA RankedIsSound ==
  ASSUME NEW m \in Aggregate, NEW st \in Standings, IsScored(st),
         ~isRoundComplete(m, st) => \A p \in DOMAIN st : st[p].points = 0,
         NEW x \in Ranked(m, st)
  PROVE  /\ x \in Standings /\ DOMAIN x = DOMAIN st
         /\ \A p \in DOMAIN st : x[p].score = st[p].score
         /\ SoundRound(m.players, x) /\ CurrentRound(m.players, m.system, x)
<1>1. CASE ~isRoundComplete(m, st)
  BY <1>1 DEF Ranked, SoundRound, CurrentRound, isRoundComplete
<1>2. CASE isRoundComplete(m, st)
  <2> DEFINE runs == [p \in DOMAIN st |-> st[p].score]
  <2>1. PICK points \in Awards(m.system, runs) : x = [p \in DOMAIN st |-> [st[p] EXCEPT !.points = points[p]]]
    BY <1>2 DEF Ranked
  <2>2. m.system \in System /\ DOMAIN runs = DOMAIN st /\ IsFiniteSet(DOMAIN st)
    BY AggregateType, StandingsType
  <2> HIDE DEF runs
  <2>3. points \in [DOMAIN st -> Nat]
    BY <2>2, AwardIsNat
  <2>4. ASSUME NEW p \in DOMAIN st
        PROVE  x[p] \in Standing /\ x[p].score = st[p].score /\ x[p].points = points[p]
    <3>1. st[p] \in Standing
      BY StandingsType
    <3> QED BY <2>1, <2>3, <3>1, StandingType
  <2>5. DOMAIN x = DOMAIN st /\ x \in [DOMAIN st -> Standing]
    BY <2>1, <2>4
  <2>6. x \in Standings
    BY <2>5, StandingsType
  <2>7. [p \in DOMAIN x |-> x[p].points] = points /\ [p \in DOMAIN x |-> x[p].score] = runs
    BY <2>3, <2>4, <2>5 DEF runs
  <2> QED BY <1>2, <2>4, <2>5, <2>6, <2>7 DEF SoundRound, CurrentRound, isRoundComplete, IsScored
<1> QED BY <1>1, <1>2

\* A round of which a run is missing may have no points.
LEMMA ZeroedIsSound ==
  ASSUME NEW m \in Aggregate, NEW st \in Standings
  PROVE  /\ Zeroed(st) \in Standings /\ DOMAIN Zeroed(st) = DOMAIN st
         /\ \A p \in DOMAIN st : Zeroed(st)[p].score = st[p].score /\ Zeroed(st)[p].points = 0
         /\ IsScored(st) => SoundRound(m.players, Zeroed(st))
         /\ ~isRoundComplete(m, st) => CurrentRound(m.players, m.system, Zeroed(st))
<1>1. ASSUME NEW p \in DOMAIN st
      PROVE  /\ Zeroed(st)[p] \in Standing
             /\ Zeroed(st)[p].score = st[p].score /\ Zeroed(st)[p].points = 0
  <2>1. st[p] \in Standing
    BY StandingsType
  <2> QED BY <2>1, StandingType DEF Zeroed
<1>2. DOMAIN Zeroed(st) = DOMAIN st /\ Zeroed(st) \in [DOMAIN st -> Standing]
  BY <1>1 DEF Zeroed
<1>3. Zeroed(st) \in Standings
  BY <1>2, StandingsType
<1> QED BY <1>1, <1>2, <1>3 DEF SoundRound, IsScored, CurrentRound, isRoundComplete

\* Leaving players out of standings leaves standings.
LEMMA RestrictIsStandings ==
  ASSUME NEW st \in Standings, NEW ps \in SUBSET DOMAIN st
  PROVE  /\ Restrict(st, ps) \in Standings /\ DOMAIN Restrict(st, ps) = ps
         /\ \A p \in ps : Restrict(st, ps)[p] = st[p]
         /\ IsScored(st) => IsScored(Restrict(st, ps))
<1>1. st \in [DOMAIN st -> Standing] /\ DOMAIN st \subseteq Player
  BY StandingsType
<1>2. Restrict(st, ps) \in [ps -> Standing] /\ ps \in SUBSET Player
  BY <1>1 DEF Restrict
<1>3. Restrict(st, ps) \in Standings
  BY <1>2, StandingsType
<1> QED BY <1>2, <1>3 DEF Restrict, IsScored

\* resettle gives every round the points of what is left of it.
LEMMA ResettledIsSound ==
  ASSUME NEW m \in Aggregate, NEW s \in DOMAIN m.rounds, s \in Song => IsScored(m.rounds[s]),
         NEW x \in ResettledRound(m, s)
  PROVE  /\ x \in Standings /\ DOMAIN x \subseteq DOMAIN m.rounds[s]
         /\ \A p \in DOMAIN x : x[p].score = m.rounds[s][p].score
         /\ s \in Song => SoundRound(m.players, x) /\ CurrentRound(m.players, m.system, x)
         /\ s = Hand => \A p \in DOMAIN x : x[p] = m.rounds[s][p]
<1> DEFINE kept == Restrict(m.rounds[s], m.players \cap DOMAIN m.rounds[s])
<1>1. m.rounds[s] \in Standings /\ (s = Hand \/ s \in Song) /\ Hand \notin Song
  BY AggregateType, RoundsType, AggregateAssumption
<1>2. /\ kept \in Standings /\ DOMAIN kept = m.players \cap DOMAIN m.rounds[s]
      /\ \A p \in DOMAIN kept : kept[p] = m.rounds[s][p]
      /\ s \in Song => IsScored(kept)
  BY <1>1, RestrictIsStandings
<1>3. x \in IF s = Hand THEN {kept} ELSE IF isRoundComplete(m, kept) THEN Ranked(m, kept) ELSE {Zeroed(kept)}
  BY DEF ResettledRound
<1> HIDE DEF kept
<1>4. CASE s = Hand
  BY <1>1, <1>2, <1>3, <1>4
<1>5. CASE s \in Song /\ isRoundComplete(m, kept)
  <2>1. x \in Ranked(m, kept) /\ IsScored(kept)
    BY <1>1, <1>2, <1>3, <1>5
  <2>2. /\ x \in Standings /\ DOMAIN x = DOMAIN kept
        /\ \A p \in DOMAIN kept : x[p].score = kept[p].score
        /\ SoundRound(m.players, x) /\ CurrentRound(m.players, m.system, x)
    BY <1>2, <1>5, <2>1, RankedIsSound
  <2> QED BY <1>1, <1>2, <1>5, <2>2
<1>6. CASE s \in Song /\ ~isRoundComplete(m, kept)
  <2>1. x = Zeroed(kept) /\ IsScored(kept)
    BY <1>1, <1>2, <1>3, <1>6
  <2> QED BY <1>1, <1>2, <1>6, <2>1, ZeroedIsSound
<1> QED BY <1>1, <1>4, <1>5, <1>6

\* An aggregate with other rounds, no attempts, and the rest as it was.
Reworked(m, rounds) == [invalidateTiebreaks(m) EXCEPT !.rounds = rounds]

\* A match with other rounds and no attempts.
LEMMA WithTheseRounds ==
  ASSUME NEW m \in Aggregate, NEW rounds \in Rounds, NEW n, n = Reworked(m, rounds)
  PROVE  /\ n \in Aggregate /\ n.rounds = rounds /\ n.attempts = <<>> /\ OfATie(n)
         /\ n.players = m.players /\ n.system = m.system /\ n.active = m.active /\ n.result = m.result
<1>1. <<>> \in Seq(Attempt) /\ DOMAIN <<>> = {}
  OBVIOUS
<1>2. /\ n \in Aggregate /\ n.rounds = rounds /\ n.attempts = <<>>
      /\ n.players = m.players /\ n.system = m.system /\ n.active = m.active /\ n.result = m.result
  BY <1>1 DEF Aggregate, invalidateTiebreaks, Reworked
<1> QED BY <1>1, <1>2 DEF OfATie

\* The same edit, written the other way around.
LEMMA InvalidatedRounds ==
  ASSUME NEW m \in Aggregate, NEW rounds
  PROVE  invalidateTiebreaks([m EXCEPT !.rounds = rounds]) = Reworked(m, rounds)
BY DEF Aggregate, invalidateTiebreaks, Reworked

\* resettle makes a match sound whose field or system has just changed.
LEMMA ResettleIsSound ==
  ASSUME NEW m \in Aggregate, \A s \in DOMAIN m.rounds \cap Song : IsScored(m.rounds[s]),
         NEW n \in resettle(m)
  PROVE  /\ Sound(n) /\ n.attempts = <<>>
         /\ n.players = m.players /\ n.system = m.system /\ n.active = m.active /\ n.result = m.result
         /\ DOMAIN n.rounds = DOMAIN m.rounds
         /\ \A s \in DOMAIN m.rounds : n.rounds[s] \in ResettledRound(m, s)
         /\ \A s \in DOMAIN n.rounds \cap Song : CurrentRound(n.players, n.system, n.rounds[s])
<1>1. PICK f \in [DOMAIN m.rounds -> UNION {ResettledRound(m, s) : s \in DOMAIN m.rounds}] :
        /\ \A s \in DOMAIN m.rounds : f[s] \in ResettledRound(m, s)
        /\ n = Reworked(m, f)
  BY DEF resettle, Reworked
<1>2. \A s \in DOMAIN m.rounds :
        /\ f[s] \in Standings
        /\ s \in Song => SoundRound(m.players, f[s]) /\ CurrentRound(m.players, m.system, f[s])
  BY <1>1, ResettledIsSound
<1>3. f \in Rounds
  <2>1. f \in [DOMAIN m.rounds -> Standings]
    BY <1>2
  <2> QED BY <2>1, AggregateType, RoundsType
<1>4. /\ n \in Aggregate /\ n.rounds = f /\ n.attempts = <<>> /\ OfATie(n)
      /\ n.players = m.players /\ n.system = m.system /\ n.active = m.active /\ n.result = m.result
  BY <1>1, <1>3, WithTheseRounds
<1> QED BY <1>1, <1>2, <1>4 DEF Sound

\* Nothing a resettled match shows was not there before.
LEMMA ResettleShowsNoMore ==
  ASSUME NEW m \in Aggregate, \A s \in DOMAIN m.rounds \cap Song : IsScored(m.rounds[s]),
         NEW n \in resettle(m), hasEvidence(n)
  PROVE  hasEvidence(m)
<1>1. PICK s \in DOMAIN n.rounds : \E p \in DOMAIN n.rounds[s] :
        n.rounds[s][p].score # NoScore \/ n.rounds[s][p].points > 0
  BY DEF hasEvidence
<1>2. PICK p \in DOMAIN n.rounds[s] : n.rounds[s][p].score # NoScore \/ n.rounds[s][p].points > 0
  BY <1>1
<1>3. s \in DOMAIN m.rounds /\ n.rounds[s] \in ResettledRound(m, s) /\ (s \in Song \/ s = Hand)
  BY <1>1, ResettleIsSound, AggregateType, RoundsType
<1>4. /\ p \in DOMAIN m.rounds[s]
      /\ s = Hand => n.rounds[s][p] = m.rounds[s][p]
  <2>1. s \in Song => IsScored(m.rounds[s])
    BY <1>3
  <2>2. /\ DOMAIN n.rounds[s] \subseteq DOMAIN m.rounds[s]
        /\ s = Hand => \A q \in DOMAIN n.rounds[s] : n.rounds[s][q] = m.rounds[s][q]
    BY <1>3, <2>1, ResettledIsSound
  <2> QED BY <1>2, <2>2
<1>5. s \in Song => m.rounds[s][p].score # NoScore
  BY <1>3, <1>4, ScoreType DEF IsScored
<1> QED BY <1>2, <1>3, <1>4, <1>5 DEF hasEvidence

\* The song rounds of a sound match hold runs alone.
LEMMA SoundIsScored ==
  ASSUME NEW m, Sound(m)
  PROVE  m \in Aggregate /\ \A s \in DOMAIN m.rounds \cap Song : IsScored(m.rounds[s])
BY DEF Sound, SoundRound

\* Edits of the field and of the scoring system.
IsResettled(m, n) ==
  /\ Sound(n) /\ n.attempts = <<>> /\ n.active = m.active /\ n.result = m.result
  /\ DOMAIN n.rounds = DOMAIN m.rounds /\ Settled(m, n)
  /\ hasEvidence(n) => hasEvidence(m)

\* Any other field of players leaves the match sound.
LEMMA PlayersAreSound ==
  ASSUME NEW m, Sound(m), NEW players \in SUBSET Player, NEW n \in WithPlayers(m, players)
  PROVE  IsResettled(m, n) /\ n.players = players
<1> DEFINE b == [m EXCEPT !.players = players]
<1>1. m \in Aggregate /\ \A s \in DOMAIN m.rounds \cap Song : IsScored(m.rounds[s])
  BY SoundIsScored
<1>2. /\ b \in Aggregate /\ b.players = players /\ b.rounds = m.rounds
      /\ b.active = m.active /\ b.result = m.result
  BY <1>1 DEF Aggregate
<1>3. n \in resettle(b)
  BY DEF WithPlayers
<1> HIDE DEF b
<1>4. hasEvidence(b) <=> hasEvidence(m)
  BY <1>2 DEF hasEvidence
<1> QED BY <1>1, <1>2, <1>3, <1>4, ResettleIsSound, ResettleShowsNoMore DEF IsResettled, Settled, SettledRound

\* Any other scoring system leaves the match sound.
LEMMA SystemIsSound ==
  ASSUME NEW m, Sound(m), NEW system \in System, NEW n \in resettle([m EXCEPT !.system = system])
  PROVE  IsResettled(m, n) /\ n.players = m.players
<1> DEFINE b == [m EXCEPT !.system = system]
<1>1. m \in Aggregate /\ \A s \in DOMAIN m.rounds \cap Song : IsScored(m.rounds[s])
  BY SoundIsScored
<1>2. /\ b \in Aggregate /\ b.players = m.players /\ b.rounds = m.rounds
      /\ b.active = m.active /\ b.result = m.result
  BY <1>1 DEF Aggregate
<1>3. n \in resettle(b)
  OBVIOUS
<1> HIDE DEF b
<1>4. hasEvidence(b) <=> hasEvidence(m)
  BY <1>2 DEF hasEvidence
<1> QED BY <1>1, <1>2, <1>3, <1>4, ResettleIsSound, ResettleShowsNoMore DEF IsResettled, Settled, SettledRound

\* An edit of the rounds alone.
IsReworked(m, n) ==
  /\ Sound(n) /\ n.attempts = <<>> /\ n.active = m.active /\ n.result = m.result /\ n.players = m.players
  /\ Settled(m, n)

\* Other rounds, each of them sound, and no attempts.
LEMMA ReworkedIsSound ==
  ASSUME NEW m, Sound(m), NEW rounds \in Rounds, NEW n, n = Reworked(m, rounds),
         \A s \in DOMAIN rounds \cap Song :
           SoundRound(m.players, rounds[s]) /\ SettledRound(m, s, m.players, m.system, rounds[s])
  PROVE  IsReworked(m, n) /\ n.rounds = rounds /\ n.system = m.system
<1>1. m \in Aggregate
  BY DEF Sound
<1> QED BY <1>1, WithTheseRounds DEF Sound, IsReworked, Settled

\* One round of a match changes.
LEMMA OneRound ==
  ASSUME NEW m, Sound(m), NEW s \in DOMAIN m.rounds, NEW st \in Standings,
         s \in Song => SoundRound(m.players, st) /\ SettledRound(m, s, m.players, m.system, st),
         NEW n, n = invalidateTiebreaks([m EXCEPT !.rounds[s] = st])
  PROVE  IsReworked(m, n) /\ n.rounds = [m.rounds EXCEPT ![s] = st]
<1> DEFINE rounds == [m.rounds EXCEPT ![s] = st]
<1>1. m \in Aggregate /\ m.rounds \in Rounds
  BY AggregateType DEF Sound
<1>2. rounds \in [DOMAIN m.rounds -> Standings] /\ \A q \in DOMAIN m.rounds \ {s} : rounds[q] = m.rounds[q]
  BY <1>1, RoundsType
<1>3. rounds \in Rounds /\ DOMAIN rounds = DOMAIN m.rounds /\ rounds[s] = st
  BY <1>1, <1>2, RoundsType
<1>4. n = Reworked(m, rounds)
  <2>1. [m EXCEPT !.rounds[s] = st] = [m EXCEPT !.rounds = rounds]
    BY <1>1 DEF Aggregate
  <2> HIDE DEF rounds
  <2> QED BY <1>1, <2>1, InvalidatedRounds
<1>5. \A q \in DOMAIN rounds \cap Song :
        SoundRound(m.players, rounds[q]) /\ SettledRound(m, q, m.players, m.system, rounds[q])
  BY <1>2, <1>3 DEF Sound, SettledRound
<1> HIDE DEF rounds
<1>6. IsReworked(m, n) /\ n.rounds = rounds
  BY <1>3, <1>4, <1>5, ReworkedIsSound
<1> QED BY <1>6 DEF rounds

\* addRound begins rounds nobody has played.
LEMMA AddedRoundsAreSound ==
  ASSUME NEW m, Sound(m), NEW sources \in ((SUBSET Song) \cup {{Hand}}) \ {{}},
         RoundSourceAllowed(m, sources), sources \cap DOMAIN m.rounds = {},
         NEW n, n = WithRounds(m, sources)
  PROVE  /\ IsReworked(m, n) /\ DOMAIN n.rounds # {}
         /\ ~Settles(n) /\ (hasEvidence(n) <=> hasEvidence(m))
         /\ n.system = m.system
         /\ \A s \in DOMAIN n.rounds \cap Song :
              \/ s \in DOMAIN m.rounds /\ n.rounds[s] = m.rounds[s]
              \/ CurrentRound(n.players, n.system, n.rounds[s])
<1> DEFINE rounds == Written(m.rounds, [s \in sources |-> <<>>])
<1>1. m \in Aggregate /\ m.rounds \in Rounds
  BY AggregateType DEF Sound
<1>2. /\ DOMAIN rounds = sources \cup DOMAIN m.rounds
      /\ \A s \in sources : rounds[s] = <<>>
      /\ \A s \in DOMAIN m.rounds : s \notin sources /\ rounds[s] = m.rounds[s]
      /\ rounds = [s \in DOMAIN rounds |-> rounds[s]]
  BY DEF Written
<1>3. n = Reworked(m, rounds)
  BY <1>1 DEF WithRounds, Reworked, Aggregate, invalidateTiebreaks
<1> HIDE DEF rounds
<1>4. DOMAIN rounds \subseteq Song \/ DOMAIN rounds = {Hand}
  <2>1. CASE sources \subseteq Song
    <3>1. Hand \notin DOMAIN m.rounds
      BY <2>1 DEF RoundSourceAllowed, HandScored
    <3>2. DOMAIN m.rounds \subseteq Song
      BY <1>1, <3>1, RoundsType
    <3> QED BY <1>2, <2>1, <3>2
  <2>2. CASE sources = {Hand}
    <3>1. ~(sources \subseteq Song)
      BY <2>2, AggregateAssumption
    <3>2. DOMAIN m.rounds = {}
      BY <3>1 DEF RoundSourceAllowed
    <3> QED BY <1>2, <2>2, <3>2
  <2> QED BY <2>1, <2>2
<1>5. \A s \in DOMAIN rounds : rounds[s] \in Standings
  BY <1>1, <1>2, StandingsType, RoundsType
<1>6. rounds \in Rounds
  <2>1. rounds \in [DOMAIN rounds -> Standings]
    BY <1>2, <1>5
  <2> QED BY <1>4, <2>1, RoundsType
<1>7. \A s \in DOMAIN rounds \cap Song :
        /\ SoundRound(m.players, rounds[s])
        /\ \/ s \in DOMAIN m.rounds /\ rounds[s] = m.rounds[s]
           \/ CurrentRound(m.players, m.system, rounds[s])
  <2>1. SoundRound(m.players, <<>>) /\ CurrentRound(m.players, m.system, <<>>)
    BY DEF SoundRound, IsScored, CurrentRound
  <2> QED BY <1>2, <2>1 DEF Sound
<1>8. IsReworked(m, n) /\ n.rounds = rounds /\ n.system = m.system
  <2>1. \A s \in DOMAIN rounds \cap Song :
          SoundRound(m.players, rounds[s]) /\ SettledRound(m, s, m.players, m.system, rounds[s])
    BY <1>7 DEF SettledRound
  <2> QED BY <1>3, <1>6, <2>1, ReworkedIsSound
<1>9. PICK s \in sources : s \in DOMAIN rounds /\ rounds[s] = <<>>
  BY <1>2
<1>10. ~Settles(n)
  <2>1. ~RoundSettled(n, s)
    BY <1>8, <1>9 DEF RoundSettled, isRoundComplete
  <2> QED BY <1>8, <1>9, <2>1 DEF Settles
<1>11. hasEvidence(n) <=> hasEvidence(m)
  <2>1. \A q \in sources : DOMAIN rounds[q] = {}
    BY <1>2
  <2> QED BY <1>2, <1>8, <2>1 DEF hasEvidence
<1> QED BY <1>7, <1>8, <1>9, <1>10, <1>11 DEF IsReworked

\* removeRound leaves the other rounds as they were.
LEMMA RemovedRoundIsSound ==
  ASSUME NEW m, Sound(m), NEW s, NEW n, n = WithoutRound(m, s)
  PROVE  /\ IsReworked(m, n) /\ DOMAIN n.rounds = DOMAIN m.rounds \ {s}
         /\ hasEvidence(n) => hasEvidence(m)
         /\ n.system = m.system /\ \A q \in DOMAIN n.rounds : n.rounds[q] = m.rounds[q]
<1> DEFINE rounds == Restrict(m.rounds, DOMAIN m.rounds \ {s})
<1>1. m \in Aggregate /\ m.rounds \in Rounds
  BY AggregateType DEF Sound
<1>2. /\ DOMAIN rounds = DOMAIN m.rounds \ {s} /\ \A q \in DOMAIN rounds : rounds[q] = m.rounds[q]
      /\ rounds = [q \in DOMAIN rounds |-> rounds[q]]
  BY DEF Restrict
<1>3. n = Reworked(m, rounds)
  BY <1>1 DEF WithoutRound, Reworked, Aggregate, invalidateTiebreaks
<1> HIDE DEF rounds
<1>4. rounds \in Rounds
  <2>1. rounds \in [DOMAIN rounds -> Standings]
    BY <1>1, <1>2, RoundsType
  <2>2. DOMAIN rounds \subseteq Song \/ DOMAIN rounds = {Hand}
    BY <1>1, <1>2, RoundsType
  <2> QED BY <2>1, <2>2, RoundsType
<1>5. IsReworked(m, n) /\ n.rounds = rounds /\ n.system = m.system
  <2>1. \A q \in DOMAIN rounds \cap Song :
          SoundRound(m.players, rounds[q]) /\ SettledRound(m, q, m.players, m.system, rounds[q])
    BY <1>2 DEF Sound, SettledRound
  <2> QED BY <1>3, <1>4, <2>1, ReworkedIsSound
<1> QED BY <1>2, <1>5 DEF hasEvidence

\* Standings in which some players got new ones.
LEMMA WrittenIsStandings ==
  ASSUME NEW st \in Standings, NEW new, DOMAIN new \subseteq Player, \A p \in DOMAIN new : new[p] \in Standing
  PROVE  /\ Written(st, new) \in Standings /\ DOMAIN Written(st, new) = DOMAIN new \cup DOMAIN st
         /\ \A p \in DOMAIN new : Written(st, new)[p] = new[p]
         /\ \A p \in DOMAIN st \ DOMAIN new : Written(st, new)[p] = st[p]
<1> DEFINE all == DOMAIN new \cup DOMAIN st
<1>1. all \in SUBSET Player /\ st \in [DOMAIN st -> Standing]
  BY StandingsType
<1>2. Written(st, new) \in [all -> Standing]
  BY <1>1 DEF Written
<1>3. Written(st, new) \in Standings
  <2> HIDE DEF all
  <2> QED BY <1>1, <1>2, StandingsType
<1> QED BY <1>3 DEF Written

\* upsertScore, and a completed song after it.
LEMMA ScoresAreSound ==
  ASSUME NEW m, Sound(m), NEW s \in DOMAIN m.rounds \cap Song,
         NEW runs, DOMAIN runs \subseteq Player, \A p \in DOMAIN runs : runs[p] \in Score,
         NEW n \in WithScores(m, s, runs)
  PROVE  IsReworked(m, n) /\ DOMAIN n.rounds = DOMAIN m.rounds
<1> DEFINE new == [p \in DOMAIN runs |-> [score |-> runs[p], points |-> 0]]
           st == Written(m.rounds[s], new)
<1>1. /\ m \in Aggregate /\ m.rounds \in Rounds /\ s \in DOMAIN m.rounds /\ s \in Song
      /\ m.rounds[s] \in Standings /\ SoundRound(m.players, m.rounds[s])
  BY AggregateType, RoundsType DEF Sound
<1>2. /\ DOMAIN new \subseteq Player
      /\ \A p \in DOMAIN new : new[p] \in Standing /\ new[p].score \in Score /\ new[p].points = 0
  BY StandingType
<1>3. PICK ranked \in Ranked(m, st) : n = invalidateTiebreaks([m EXCEPT !.rounds[s] = ranked])
  BY DEF WithScores
<1> HIDE DEF new
<1>5. /\ st \in Standings /\ DOMAIN st = DOMAIN new \cup DOMAIN m.rounds[s]
      /\ \A p \in DOMAIN new : st[p] = new[p]
      /\ \A p \in DOMAIN m.rounds[s] \ DOMAIN new : st[p] = m.rounds[s][p]
  BY <1>1, <1>2, WrittenIsStandings
<1> HIDE DEF st
<1>6. IsScored(st)
  BY <1>1, <1>2, <1>5 DEF SoundRound, IsScored
<1>7. ASSUME ~isRoundComplete(m, st) PROVE \A p \in DOMAIN st : st[p].points = 0
  <2>1. \A p \in DOMAIN m.rounds[s] : m.rounds[s][p].points = 0
    BY <1>1, <1>5, <1>7 DEF SoundRound, isRoundComplete
  <2> QED BY <1>2, <1>5, <2>1
<1>8. ranked \in Standings /\ SoundRound(m.players, ranked) /\ CurrentRound(m.players, m.system, ranked)
  BY <1>1, <1>3, <1>5, <1>6, <1>7, RankedIsSound
<1>9. SettledRound(m, s, m.players, m.system, ranked)
  BY <1>8 DEF SettledRound
<1>10. IsReworked(m, n) /\ n.rounds = [m.rounds EXCEPT ![s] = ranked]
  BY <1>1, <1>3, <1>8, <1>9, OneRound
<1> QED BY <1>10

\* upsertPoints, in the round that is scored by hand.
LEMMA StatedPointsAreSound ==
  ASSUME NEW m, Sound(m), HandScored(m), NEW p \in Player, NEW points \in Points,
         NEW n, n = WithPoints(m, p, points)
  PROVE  IsReworked(m, n) /\ DOMAIN n.rounds = DOMAIN m.rounds
<1> DEFINE new == [q \in {p} |-> [score |-> NoScore, points |-> points]]
           st == Written(m.rounds[Hand], new)
<1>1. m \in Aggregate /\ Hand \in DOMAIN m.rounds /\ m.rounds[Hand] \in Standings /\ Hand \notin Song
  BY AggregateType, RoundsType, AggregateAssumption DEF Sound, HandScored
<1>2. DOMAIN new \subseteq Player /\ \A q \in DOMAIN new : new[q] \in Standing
  BY StandingType, AggregateAssumption
<1>3. n = invalidateTiebreaks([m EXCEPT !.rounds[Hand] = st])
  BY <1>1 DEF WithPoints, Aggregate
<1> HIDE DEF new
<1>4. st \in Standings
  BY <1>1, <1>2, WrittenIsStandings
<1> HIDE DEF st
<1>5. IsReworked(m, n) /\ n.rounds = [m.rounds EXCEPT ![Hand] = st]
  BY <1>1, <1>3, <1>4, OneRound
<1> QED BY <1>5

\* removeStanding takes the points of the round with it.
LEMMA WithoutStandingIsSound ==
  ASSUME NEW m, Sound(m), NEW s \in DOMAIN m.rounds, NEW p \in DOMAIN m.rounds[s],
         NEW n, n = WithoutStanding(m, s, p)
  PROVE  IsReworked(m, n) /\ DOMAIN n.rounds = DOMAIN m.rounds
<1> DEFINE rest == Restrict(m.rounds[s], DOMAIN m.rounds[s] \ {p})
           st == IF s = Hand THEN rest ELSE Zeroed(rest)
<1>1. m \in Aggregate /\ m.rounds[s] \in Standings
  BY AggregateType, RoundsType DEF Sound
<1>2. n = invalidateTiebreaks([m EXCEPT !.rounds[s] = st])
  BY DEF WithoutStanding
<1>3. /\ rest \in Standings /\ DOMAIN rest = DOMAIN m.rounds[s] \ {p}
      /\ IsScored(m.rounds[s]) => IsScored(rest)
  <2> DEFINE ps == DOMAIN m.rounds[s] \ {p}
  <2>1. ps \in SUBSET DOMAIN m.rounds[s]
    OBVIOUS
  <2> HIDE DEF ps
  <2>2. /\ Restrict(m.rounds[s], ps) \in Standings /\ DOMAIN Restrict(m.rounds[s], ps) = ps
        /\ IsScored(m.rounds[s]) => IsScored(Restrict(m.rounds[s], ps))
    BY <1>1, <2>1, RestrictIsStandings
  <2> QED BY <2>2 DEF ps
<1> HIDE DEF rest
<1>4. st \in Standings
  BY <1>3, ZeroedIsSound, <1>1
<1>5. ASSUME s \in Song PROVE SoundRound(m.players, st) /\ SettledRound(m, s, m.players, m.system, st)
  <2>1. IsScored(rest) /\ s # Hand
    BY <1>3, <1>5, AggregateAssumption DEF Sound, SoundRound
  <2>2. /\ DOMAIN Zeroed(rest) = DOMAIN rest
        /\ \A q \in DOMAIN rest : Zeroed(rest)[q].points = 0
        /\ SoundRound(m.players, Zeroed(rest))
    BY <1>1, <1>3, <2>1, ZeroedIsSound
  <2>3. CASE p \in m.players
    <3>1. ~isRoundComplete(m, rest)
      BY <1>3, <2>3 DEF isRoundComplete
    <3>2. CurrentRound(m.players, m.system, Zeroed(rest))
      BY <1>1, <1>3, <3>1, ZeroedIsSound
    <3> QED BY <2>1, <2>2, <3>2 DEF SettledRound
  <2>4. CASE p \notin m.players
    BY <1>3, <2>1, <2>2, <2>4 DEF SettledRound
  <2> QED BY <2>3, <2>4
<1> HIDE DEF st
<1>6. IsReworked(m, n) /\ n.rounds = [m.rounds EXCEPT ![s] = st]
  BY <1>2, <1>4, <1>5, OneRound
<1> QED BY <1>6

\* An edit that leaves the field and the rounds alone.
IsJudged(m, n) ==
  /\ Sound(n) /\ n.players = m.players /\ n.rounds = m.rounds /\ Settled(m, n)

\* An attempt for the players of another one, or for a tie of the match.
IsFair(m, t) ==
  \/ \E j \in DOMAIN m.attempts : DOMAIN t.standings = DOMAIN m.attempts[j].standings
  \/ \A p, q \in DOMAIN t.standings : p \in m.players /\ PointsOf(m, p) = PointsOf(m, q)

WithAttempts(m, attempts) == [m EXCEPT !.attempts = attempts]

\* Other attempts, each of them about a tie.
LEMMA AttemptsAreSound ==
  ASSUME NEW m, Sound(m), NEW attempts \in Seq(Attempt), \A i \in DOMAIN attempts : IsFair(m, attempts[i]),
         NEW n, n = WithAttempts(m, attempts)
  PROVE  IsJudged(m, n) /\ n.active = m.active /\ n.result = m.result
<1>1. m \in Aggregate
  BY DEF Sound
<1>2. /\ n \in Aggregate /\ n.players = m.players /\ n.rounds = m.rounds /\ n.system = m.system
      /\ n.attempts = attempts /\ n.active = m.active /\ n.result = m.result
  BY <1>1 DEF Aggregate, WithAttempts
<1>3. \A p : PointsOf(n, p) = PointsOf(m, p)
  BY <1>2, SameAnswers
<1>4. OfATie(n)
  <2> SUFFICES ASSUME NEW i \in DOMAIN attempts, NEW p \in DOMAIN attempts[i].standings,
                      NEW q \in DOMAIN attempts[i].standings
               PROVE  p \in m.players /\ PointsOf(m, p) = PointsOf(m, q)
    BY <1>2, <1>3 DEF OfATie
  <2> QED BY DEF IsFair, Sound, OfATie
<1> QED BY <1>2, <1>4 DEF IsJudged, Sound, Settled, SettledRound

\* A new attempt, for a tie that blocks the match.
LEMMA AddedAttemptIsSound ==
  ASSUME NEW m, Sound(m), NEW r, NEW song \in BOOLEAN, NEW n \in WithAttempt(m, r, song)
  PROVE  IsJudged(m, n) /\ n.active = m.active /\ n.result = m.result
<1>1. m \in Aggregate
  BY DEF Sound
<1>2. PICK tie \in calculatedResultState(m, r).ambiguousTies :
        n = [m EXCEPT !.attempts =
               Append(@, [song |-> song, standings |-> [p \in tie |-> [score |-> NoScore, points |-> 0]]])]
  BY DEF WithAttempt
<1> DEFINE t == [song |-> song, standings |-> [p \in tie |-> [score |-> NoScore, points |-> 0]]]
<1>3. tie \in Resolution(m, r).ambiguousTies
  BY <1>2, StateIs
<1>4. tie \subseteq m.players /\ \A p, q \in tie : calculatePoints(m)[p] = calculatePoints(m)[q]
  BY <1>1, <1>3, ResolutionIsEarned DEF Resolved
<1>5. t \in Attempt
  <2>1. tie \in SUBSET Player
    BY <1>1, <1>4, AggregateType
  <2>2. [score |-> NoScore, points |-> 0] \in Evidence
    BY AttemptType, AggregateAssumption
  <2>3. [p \in tie |-> [score |-> NoScore, points |-> 0]] \in [tie -> Evidence]
    BY <2>2
  <2> QED BY <2>1, <2>3, AttemptType
<1>6. IsFair(m, t)
  BY <1>1, <1>4, PointsType DEF IsFair
<1>7. \A i \in DOMAIN m.attempts : IsFair(m, m.attempts[i])
  BY DEF IsFair
<1> DEFINE attempts == Append(m.attempts, t)
<1>8. n = WithAttempts(m, attempts)
  BY <1>1, <1>2 DEF Aggregate, WithAttempts
<1> HIDE DEF t
<1>9. attempts \in Seq(Attempt) /\ \A i \in DOMAIN attempts : IsFair(m, attempts[i])
  BY <1>1, <1>5, <1>6, <1>7, AggregateType
<1> HIDE DEF attempts
<1> QED BY <1>8, <1>9, AttemptsAreSound

\* New evidence for the players of an attempt.
WithStandings(m, i, st) == [m EXCEPT !.attempts[i].standings = st]

\* Other evidence in an attempt leaves it about the same tie.
LEMMA EvidenceIsSound ==
  ASSUME NEW m, Sound(m), NEW i \in DOMAIN m.attempts,
         NEW st, DOMAIN st = DOMAIN m.attempts[i].standings, st \in [DOMAIN st -> Evidence],
         NEW n, n = WithStandings(m, i, st)
  PROVE  IsJudged(m, n) /\ n.active = m.active /\ n.result = m.result
<1>1. /\ m \in Aggregate /\ m.attempts \in Seq(Attempt) /\ m.attempts[i] \in Attempt
      /\ DOMAIN m.attempts = 1..Len(m.attempts)
  BY AggregateType DEF Sound
<1> DEFINE t == [m.attempts[i] EXCEPT !.standings = st]
           attempts == [m.attempts EXCEPT ![i] = t]
<1>2. t \in Attempt /\ DOMAIN t.standings = DOMAIN m.attempts[i].standings
  <2>1. DOMAIN st \in SUBSET Player /\ m.attempts[i].song \in BOOLEAN
    BY <1>1, AttemptType
  <2>2. t = [song |-> m.attempts[i].song, standings |-> st]
    BY <1>1 DEF Attempt
  <2> HIDE DEF t
  <2>3. t.standings = st /\ t \in Attempt
    BY <2>1, <2>2, AttemptType
  <2> QED BY <2>3
<1>3. n = WithAttempts(m, attempts)
  BY <1>1 DEF Aggregate, WithAttempts, WithStandings
<1> HIDE DEF t
<1>4. attempts \in Seq(Attempt) /\ DOMAIN attempts = DOMAIN m.attempts
  BY <1>1, <1>2
<1>5. \A j \in DOMAIN attempts : IsFair(m, attempts[j])
  BY <1>1, <1>2, <1>4 DEF IsFair
<1> HIDE DEF attempts
<1> QED BY <1>3, <1>4, <1>5, AttemptsAreSound

\* upsertTiebreakScore, upsertTiebreakPoints and clearTiebreakStanding.
LEMMA StatedEvidenceIsSound ==
  ASSUME NEW m, Sound(m), NEW i \in DOMAIN m.attempts, NEW p \in DOMAIN m.attempts[i].standings,
         NEW score \in Score \cup {NoScore}, NEW points \in Points, NEW n, n = WithEvidence(m, i, p, score, points)
  PROVE  IsJudged(m, n) /\ n.active = m.active /\ n.result = m.result
<1> DEFINE old == m.attempts[i].standings
           st == [old EXCEPT ![p] = [score |-> score, points |-> points]]
<1>1. m \in Aggregate /\ m.attempts[i] \in Attempt /\ m.attempts \in Seq(Attempt)
  BY AggregateType DEF Sound
<1>2. old \in [DOMAIN old -> Evidence] /\ [score |-> score, points |-> points] \in Evidence
  BY <1>1, AttemptType
<1>3. n = WithStandings(m, i, st)
  BY DEF WithEvidence, WithStandings
<1>4. DOMAIN st = DOMAIN old /\ st \in [DOMAIN st -> Evidence]
  <2> HIDE DEF old
  <2> QED BY <1>2
<1> HIDE DEF st
<1> QED BY <1>3, <1>4, EvidenceIsSound

\* A completed song that was played for a tiebreak.
LEMMA AppliedEvidenceIsSound ==
  ASSUME NEW m, Sound(m), NEW i \in DOMAIN m.attempts,
         NEW runs, DOMAIN runs \subseteq DOMAIN m.attempts[i].standings, \A p \in DOMAIN runs : runs[p] \in Score,
         NEW n, n = [m EXCEPT !.attempts[i].standings =
                       Written(@, [p \in DOMAIN runs |-> [score |-> runs[p], points |-> 0]])]
  PROVE  IsJudged(m, n) /\ n.active = m.active /\ n.result = m.result
<1> DEFINE old == m.attempts[i].standings
           st == Written(old, [p \in DOMAIN runs |-> [score |-> runs[p], points |-> 0]])
<1>1. m \in Aggregate /\ m.attempts[i] \in Attempt /\ m.attempts \in Seq(Attempt)
  BY AggregateType DEF Sound
<1>2. /\ old \in [DOMAIN old -> Evidence]
      /\ \A p \in DOMAIN runs : [score |-> runs[p], points |-> 0] \in Evidence
  BY <1>1, AttemptType, AggregateAssumption
<1>3. n = WithStandings(m, i, st)
  BY <1>1 DEF Aggregate, Attempt, WithStandings
<1>4. DOMAIN st = DOMAIN old /\ st \in [DOMAIN st -> Evidence]
  <2> HIDE DEF old
  <2>1. DOMAIN runs \subseteq DOMAIN old
    BY DEF old
  <2> QED BY <1>2, <2>1 DEF Written
<1> HIDE DEF st
<1> QED BY <1>3, <1>4, EvidenceIsSound

\* removeTiebreak leaves the other attempts as they were.
LEMMA RemovedAttemptIsSound ==
  ASSUME NEW m, Sound(m), NEW i \in DOMAIN m.attempts, NEW n, n = [m EXCEPT !.attempts = RemoveAt(@, i)]
  PROVE  IsJudged(m, n) /\ n.active = m.active /\ n.result = m.result
<1> DEFINE attempts == RemoveAt(m.attempts, i)
<1>1. /\ m \in Aggregate /\ m.attempts \in Seq(Attempt) /\ DOMAIN m.attempts = 1..Len(m.attempts)
      /\ Len(m.attempts) \in Nat
  BY AggregateType DEF Sound
<1>2. n = WithAttempts(m, attempts)
  BY <1>1 DEF Aggregate, WithAttempts
<1>3. /\ attempts \in Seq(Attempt)
      /\ \A j \in DOMAIN attempts : \E k \in DOMAIN m.attempts : attempts[j] = m.attempts[k]
  <2> DEFINE a == SubSeq(m.attempts, 1, i - 1)
             b == SubSeq(m.attempts, i + 1, Len(m.attempts))
  <2>1. i \in 1..Len(m.attempts) /\ i \in Nat
    BY <1>1
  <2>2. a \in Seq(Attempt) /\ Len(a) = i - 1 /\ \A j \in 1..(i - 1) : a[j] = m.attempts[j]
    BY <1>1, <2>1
  <2>3. b \in Seq(Attempt) /\ Len(b) = Len(m.attempts) - i /\ \A j \in 1..(Len(m.attempts) - i) : b[j] = m.attempts[i + j]
    BY <1>1, <2>1
  <2>4. attempts = a \o b
    BY DEF RemoveAt
  <2> HIDE DEF a, b, attempts
  <2>5. attempts \in Seq(Attempt) /\ Len(attempts) = Len(a) + Len(b) /\ DOMAIN attempts = 1..Len(attempts)
    BY <2>2, <2>3, <2>4
  <2>6. ASSUME NEW j \in DOMAIN attempts PROVE \E k \in DOMAIN m.attempts : attempts[j] = m.attempts[k]
    <3>1. j \in 1..(Len(m.attempts) - 1)
      BY <1>1, <2>1, <2>2, <2>3, <2>5
    <3>2. CASE j < i
      <4>1. j \in 1..(i - 1) /\ j \in DOMAIN m.attempts
        BY <1>1, <2>1, <3>1, <3>2
      <4>2. attempts[j] = a[j]
        BY <2>2, <2>3, <2>4, <4>1
      <4> QED BY <2>2, <4>1, <4>2
    <3>3. CASE ~(j < i)
      <4>1. j - (i - 1) \in 1..(Len(m.attempts) - i) /\ i + (j - (i - 1)) = j + 1 /\ j + 1 \in DOMAIN m.attempts
        BY <1>1, <2>1, <3>1, <3>3
      <4>2. attempts[j] = b[j - (i - 1)]
        BY <1>1, <2>1, <2>2, <2>3, <2>4, <3>1, <3>3
      <4> QED BY <2>3, <4>1, <4>2
    <3> QED BY <3>2, <3>3
  <2> QED BY <2>5, <2>6
<1> HIDE DEF attempts
<1>4. \A j \in DOMAIN attempts : IsFair(m, attempts[j])
  BY <1>3 DEF IsFair
<1> QED BY <1>2, <1>3, <1>4, AttemptsAreSound

\* A result that is written or taken back, and a match put on a cabinet or
\* taken off it.
Decided(m, result, active) == [m EXCEPT !.result = result, !.active = active]

\* A result, and whether the match is on a cabinet, touch nothing else.
LEMMA ResultIsSound ==
  ASSUME NEW m, Sound(m), NEW result \in Results, NEW active \in BOOLEAN,
         NEW n, n = Decided(m, result, active)
  PROVE  IsJudged(m, n) /\ n.attempts = m.attempts /\ n.result = result /\ n.active = active
<1>1. m \in Aggregate
  BY DEF Sound
<1>2. /\ n \in Aggregate /\ n.players = m.players /\ n.rounds = m.rounds /\ n.system = m.system
      /\ n.attempts = m.attempts /\ n.active = active /\ n.result = result
  BY <1>1 DEF Aggregate, Decided
<1>3. \A p : PointsOf(n, p) = PointsOf(m, p)
  BY <1>2, SameAnswers
<1>4. OfATie(n)
  BY <1>2, <1>3 DEF OfATie, Sound
<1> QED BY <1>2, <1>4 DEF IsJudged, Sound, Settled, SettledRound

-----------------------------------------------------------------------------
(***************************************************************************)
(* The row of an aggregate whose column is its state, and how an edit of   *)
(* the aggregate moves it: as a step of MatchLife.                         *)
(***************************************************************************)

Places(result) == [p \in Player |-> IF p \in DOMAIN result THEN Index(result, p) ELSE 0]

HasRounds(m) == DOMAIN m.rounds # {}

RowWith(m, st) ==
  [active |-> m.active, state |-> st, players |-> m.players, rounds |-> HasRounds(m), result |-> Places(m.result)]

RowOf(m, r) == RowWith(m, state(m, r))

\* A step of MatchLife, or none, from row a to row b.
Moves(a, b) ==
  \/ a = b
  \/ \E cmd \in Life!MatchCommand : Life!Editable(cmd, a) /\ b \in Life!Effect(cmd, a)
  \/ \E players \in SUBSET Player :
       Life!Editable("addEntrant", a) /\ b \in Life!Rejudged([a EXCEPT !.players = @ \cup players])
  \/ \E p \in Player : b \in Life!Placed(a, p) \cup Life!Released(a, p)
  \/ Life!Settled(a) /\ b \in {[a EXCEPT !.state = st] : st \in {"ready", "tiebreak_required"}}

\* The fields of a row.
LEMMA RowFields ==
  ASSUME NEW m, NEW st
  PROVE  /\ RowWith(m, st).active = m.active /\ RowWith(m, st).state = st /\ RowWith(m, st).players = m.players
         /\ RowWith(m, st).rounds <=> DOMAIN m.rounds # {}
         /\ RowWith(m, st).result = Places(m.result)
BY DEF RowWith, HasRounds

\* A settled match carries evidence (match.aggregate.ts:160).
LEMMA SettledHasEvidence ==
  ASSUME NEW m, Sound(m), Settles(m)
  PROVE  hasEvidence(m)
<1>1. m.players # {} /\ DOMAIN m.rounds # {} /\ \A s \in DOMAIN m.rounds : RoundSettled(m, s)
  BY DEF Settles
<1>2. PICK s \in DOMAIN m.rounds : RoundSettled(m, s)
  BY <1>1
<1>3. PICK p \in m.players : TRUE
  BY <1>1
<1>4. CASE s = Hand
  BY <1>2, <1>4 DEF RoundSettled, hasEvidence
<1>5. CASE s # Hand
  <2>1. s \in Song /\ p \in DOMAIN m.rounds[s]
    BY <1>2, <1>3, <1>5, AggregateType, RoundsType DEF RoundSettled, isRoundComplete, Sound
  <2>2. m.rounds[s][p].score \in Score
    BY <1>2, <2>1 DEF Sound, SoundRound, IsScored
  <2> QED BY <1>2, <2>1, <2>2, ScoreType DEF hasEvidence
<1> QED BY <1>4, <1>5

\* What the lifecycle says of a match.
LEMMA StateFits ==
  ASSUME NEW m, Sound(m), NEW r
  PROVE  /\ state(m, r) \in Life!MatchState
         /\ state(m, r) = "completed" <=> isCompleted(m)
         /\ ~isCompleted(m) => /\ state(m, r) = "open" <=> ~hasEvidence(m)
                               /\ state(m, r) \in {"ready", "tiebreak_required"} <=> Settles(m)
                               /\ state(m, r) \in Life!UncommittedStates(RowOf(m, r))
                               /\ DOMAIN m.rounds = {} => state(m, r) = "open"
<1>1. CASE isCompleted(m)
  BY <1>1, StateIs DEF Life!MatchState
<1>2. CASE ~isCompleted(m) /\ Settles(m)
  <2>1. hasEvidence(m) /\ m.players # {} /\ DOMAIN m.rounds # {}
    BY <1>2, SettledHasEvidence DEF Settles
  <2>2. state(m, r) \in {"ready", "tiebreak_required"}
    BY <1>2, StateIs
  <2> QED BY <1>2, <2>1, <2>2, RowFields DEF RowOf, Life!MatchState, Life!UncommittedStates
<1>3. CASE ~isCompleted(m) /\ ~Settles(m)
  <2>1. state(m, r) = IF hasEvidence(m) THEN "partial" ELSE "open"
    BY <1>3, StateIs
  <2>2. DOMAIN m.rounds = {} => ~hasEvidence(m)
    BY DEF hasEvidence
  <2> QED BY <1>3, <2>1, <2>2, RowFields DEF RowOf, Life!MatchState, Life!UncommittedStates
<1> QED BY <1>1, <1>2, <1>3

\* What a row shows beyond the field and the state.
LEMMA SameRow ==
  ASSUME NEW m, NEW n, n.active = m.active, n.result = m.result,
         DOMAIN n.rounds = {} <=> DOMAIN m.rounds = {}
  PROVE  /\ \A st : RowWith(n, st) = [RowWith(m, st) EXCEPT !.players = n.players]
         /\ n.players = m.players => \A st : RowWith(n, st) = RowWith(m, st)
<1>1. HasRounds(n) = HasRounds(m)
  BY DEF HasRounds
<1> QED BY <1>1 DEF RowWith

\* A row of the same match with another state.
LEMMA RowInState ==
  ASSUME NEW m, NEW st, NEW after
  PROVE  RowWith(m, after) = [RowWith(m, st) EXCEPT !.state = after]
BY DEF RowWith

AfterRounds(a, rounds, st) == [a EXCEPT !.rounds = rounds, !.state = st]

\* A row whose rounds and state are all that changed.
LEMMA RowAfterRounds ==
  ASSUME NEW m, NEW n, n.active = m.active, n.result = m.result, n.players = m.players, NEW st, NEW after
  PROVE  RowWith(n, after) = AfterRounds(RowWith(m, st), HasRounds(n), after)
<1> DEFINE a == RowWith(m, st)
           b == [a EXCEPT !.rounds = HasRounds(n)]
<1>1. b = [active |-> m.active, state |-> st, players |-> m.players, rounds |-> HasRounds(n), result |-> Places(m.result)]
  BY DEF RowWith
<1>2. [b EXCEPT !.state = after] = RowWith(n, after)
  <2> HIDE DEF b
  <2> QED BY <1>1 DEF RowWith
<1>3. AfterRounds(a, HasRounds(n), after) = [b EXCEPT !.state = after]
  BY DEF RowWith, AfterRounds
<1> QED BY <1>2, <1>3

\* An edit that changes neither the field nor whether there are rounds.
LEMMA EditMoves ==
  ASSUME NEW m, Sound(m), NEW n, Sound(n), NEW r,
         n.active = m.active, n.players = m.players, n.result = m.result,
         DOMAIN n.rounds = {} <=> DOMAIN m.rounds = {}
  PROVE  Moves(RowOf(m, r), RowOf(n, r))
<1>1. isCompleted(n) <=> isCompleted(m)
  BY DEF isCompleted
<1>2. CASE state(n, r) = state(m, r)
  BY <1>2, SameRow DEF RowOf, Moves
<1>3. CASE state(n, r) # state(m, r)
  <2>1. ~isCompleted(m) /\ ~isCompleted(n) /\ DOMAIN m.rounds # {} /\ DOMAIN n.rounds # {}
    BY <1>1, <1>3, StateFits
  <2>2. RowOf(n, r) = [RowOf(m, r) EXCEPT !.state = state(n, r)]
    BY SameRow, RowInState DEF RowOf
  <2>3. Life!UncommittedStates(RowOf(n, r)) = Life!UncommittedStates(RowOf(m, r))
    BY <2>1, RowFields DEF RowOf, Life!UncommittedStates
  <2>4. state(n, r) \in Life!UncommittedStates(RowOf(m, r))
    BY <2>1, <2>3, StateFits
  <2>5. RowOf(m, r).rounds /\ ~Life!Completed(RowOf(m, r))
    BY <2>1, StateFits, RowFields DEF RowOf, Life!Completed
  <2>6. RowOf(n, r) \in Life!Effect("removeStanding", RowOf(m, r))
    BY <2>2, <2>4, <2>5 DEF Life!Effect
  <2>7. Life!Editable("removeStanding", RowOf(m, r)) /\ "removeStanding" \in Life!MatchCommand
    BY <2>5 DEF Life!Editable, Life!MatchCommand, Life!ScoreCommand
  <2> QED BY <2>6, <2>7 DEF Moves
<1> QED BY <1>2, <1>3

\* An edit of the field or of the scoring system judges the match again.
LEMMA ResettleRejudges ==
  ASSUME NEW m, Sound(m), NEW n, IsResettled(m, n), NEW r
  PROVE  RowOf(n, r) \in Life!Rejudged([RowOf(m, r) EXCEPT !.players = n.players])
<1>1. /\ Sound(n) /\ n.active = m.active /\ n.result = m.result
      /\ DOMAIN n.rounds = DOMAIN m.rounds /\ (hasEvidence(n) => hasEvidence(m))
  BY DEF IsResettled
<1> DEFINE a == [RowOf(m, r) EXCEPT !.players = n.players]
<1>2. a = RowWith(n, state(m, r)) /\ RowOf(n, r) = [a EXCEPT !.state = state(n, r)]
  <2>1. DOMAIN n.rounds = {} <=> DOMAIN m.rounds = {}
    BY <1>1
  <2>2. a = RowWith(n, state(m, r))
    BY <1>1, <2>1, SameRow DEF RowOf
  <2> HIDE DEF a
  <2> QED BY <2>2, RowInState DEF RowOf
<1> HIDE DEF a
<1>3. isCompleted(n) <=> isCompleted(m)
  BY <1>1 DEF isCompleted
<1>4. Life!UncommittedStates(RowOf(n, r)) = Life!UncommittedStates(a)
  BY <1>2, RowFields DEF RowOf, Life!UncommittedStates
<1>5. a.state = state(m, r)
  BY <1>2, RowFields
<1>6. state(n, r) \in IF a.state \in {"open", "completed"} THEN {a.state} ELSE Life!UncommittedStates(a)
  <2>1. CASE isCompleted(m)
    BY <1>1, <1>3, <1>5, <2>1, StateFits
  <2>2. CASE ~isCompleted(m)
    <3>1. /\ state(n, r) \in Life!UncommittedStates(a) /\ state(m, r) # "completed"
          /\ state(m, r) = "open" => state(n, r) = "open"
      BY <1>1, <1>3, <1>4, <2>2, StateFits
    <3> QED BY <1>5, <3>1
  <2> QED BY <2>1, <2>2
<1> QED BY <1>2, <1>6 DEF Life!Rejudged, a

\* New rounds put a match that was under way back to partial.
LEMMA AddedMoves ==
  ASSUME NEW m, Sound(m), ~isCompleted(m), NEW n, IsReworked(m, n), DOMAIN n.rounds # {},
         ~Settles(n), hasEvidence(n) <=> hasEvidence(m), NEW r
  PROVE  Moves(RowOf(m, r), RowOf(n, r))
<1> DEFINE a == RowOf(m, r)
<1>1. Sound(n) /\ n.active = m.active /\ n.result = m.result /\ n.players = m.players
  BY DEF IsReworked
<1>2. ~isCompleted(n)
  BY <1>1 DEF isCompleted
<1>3. state(n, r) = IF state(m, r) = "open" THEN "open" ELSE "partial"
  BY <1>1, <1>2, StateFits, StateIs
<1>4. RowOf(n, r) = [a EXCEPT !.rounds = TRUE, !.state = IF @ = "open" THEN "open" ELSE "partial"]
  <2>1. HasRounds(n) = TRUE
    BY DEF HasRounds
  <2>2. RowOf(n, r) = AfterRounds(a, HasRounds(n), state(n, r))
    BY <1>1, RowAfterRounds DEF RowOf
  <2>3. a.state = state(m, r)
    BY RowFields DEF RowOf
  <2> HIDE DEF a
  <2> QED BY <1>3, <2>1, <2>2, <2>3 DEF AfterRounds
<1>5. a.state # "completed"
  BY StateFits, RowFields DEF RowOf
<1> HIDE DEF a
<1>6. RowOf(n, r) \in Life!Effect("addRound", a)
  BY <1>4 DEF Life!Effect
<1>7. Life!Editable("addRound", a) /\ "addRound" \in Life!MatchCommand
  BY <1>5 DEF Life!Editable, Life!Completed, Life!MatchCommand, Life!RoundCommand
<1> QED BY <1>6, <1>7 DEF Moves, a

\* A match that lost its last round is open again.
LEMMA RemovedMoves ==
  ASSUME NEW m, Sound(m), ~isCompleted(m), NEW s \in DOMAIN m.rounds,
         NEW n, IsReworked(m, n), DOMAIN n.rounds = DOMAIN m.rounds \ {s}, NEW r
  PROVE  Moves(RowOf(m, r), RowOf(n, r))
<1> DEFINE a == RowOf(m, r)
<1>1. Sound(n) /\ n.active = m.active /\ n.result = m.result /\ n.players = m.players
  BY DEF IsReworked
<1>2. CASE DOMAIN n.rounds # {}
  BY <1>1, <1>2, EditMoves
<1>3. CASE DOMAIN n.rounds = {}
  <2>1. ~isCompleted(n)
    BY <1>1 DEF isCompleted
  <2>2. state(n, r) = "open"
    BY <1>1, <1>3, <2>1, StateFits
  <2>3. RowOf(n, r) = [a EXCEPT !.rounds = FALSE, !.state = "open"]
    <3>1. HasRounds(n) = FALSE
      BY <1>3 DEF HasRounds
    <3>2. RowOf(n, r) = AfterRounds(a, HasRounds(n), state(n, r))
      BY <1>1, RowAfterRounds DEF RowOf
    <3> HIDE DEF a
    <3> QED BY <2>2, <3>1, <3>2 DEF AfterRounds
  <2>4. a.state # "completed" /\ a.rounds
    BY StateFits, RowFields DEF RowOf
  <2> HIDE DEF a
  <2>5. RowOf(n, r) \in Life!Effect("removeRound", a)
    BY <2>3, <2>4 DEF Life!Effect
  <2>6. Life!Editable("removeRound", a) /\ "removeRound" \in Life!MatchCommand
    BY <2>4 DEF Life!Editable, Life!Completed, Life!MatchCommand, Life!RoundCommand
  <2> QED BY <2>5, <2>6 DEF Moves, a
<1> QED BY <1>2, <1>3

\* Somebody joins or leaves, by hand or by advancement.
LEMMA EntrantMoves ==
  ASSUME NEW m, Sound(m), NEW p \in Player, NEW n, IsResettled(m, n),
         n.players \in {m.players \cup {p}, m.players \ {p}}, NEW r
  PROVE  Moves(RowOf(m, r), RowOf(n, r))
<1>1. RowOf(n, r) \in Life!Rejudged([RowOf(m, r) EXCEPT !.players = n.players])
  BY ResettleRejudges
<1>2. RowOf(m, r).players = m.players
  BY RowFields DEF RowOf
<1>3. CASE n.players = m.players \cup {p}
  <2>1. RowOf(n, r) \in Life!Placed(RowOf(m, r), p)
    BY <1>1, <1>2, <1>3 DEF Life!Placed
  <2> QED BY <2>1 DEF Moves
<1>4. CASE n.players = m.players \ {p}
  <2>1. RowOf(n, r) \in Life!Released(RowOf(m, r), p)
    BY <1>1, <1>2, <1>4 DEF Life!Released
  <2> QED BY <2>1 DEF Moves
<1> QED BY <1>3, <1>4

\* A new field either takes somebody out of the match or does not.
LEMMA ReplacementMoves ==
  ASSUME NEW m, Sound(m), ~isCompleted(m), NEW n, IsResettled(m, n), n.players \subseteq Player, NEW r
  PROVE  Moves(RowOf(m, r), RowOf(n, r))
<1> DEFINE a == RowOf(m, r)
<1>1. RowOf(n, r) \in Life!Rejudged([a EXCEPT !.players = n.players])
  BY ResettleRejudges
<1>2. a.players = m.players /\ a.state # "completed"
  BY StateFits, RowFields DEF RowOf
<1> HIDE DEF a
<1>3. \A cmd : Life!Editable(cmd, a)
  BY <1>2 DEF Life!Editable, Life!Completed
<1>4. CASE m.players \subseteq n.players
  <2>1. a.players \cup n.players = n.players
    BY <1>2, <1>4
  <2>2. RowOf(n, r) \in Life!Rejudged([a EXCEPT !.players = @ \cup n.players])
    BY <1>1, <2>1
  <2> QED BY <1>3, <2>2 DEF Moves, a
<1>5. CASE ~(m.players \subseteq n.players)
  <2>1. RowOf(n, r) \in Life!Effect("replaceEntrants", a)
    BY <1>1, <1>2, <1>5 DEF Life!Effect
  <2>2. "replaceEntrants" \in Life!MatchCommand
    BY DEF Life!MatchCommand, Life!FieldCommand
  <2> QED BY <1>3, <2>1, <2>2 DEF Moves, a
<1> QED BY <1>4, <1>5

\* Another scoring system may move the state and nothing else.
LEMMA SystemMoves ==
  ASSUME NEW m, Sound(m), ~isCompleted(m), NEW n, IsResettled(m, n), n.players = m.players, NEW r
  PROVE  Moves(RowOf(m, r), RowOf(n, r))
<1> DEFINE a == RowOf(m, r)
<1>1. RowOf(n, r) \in Life!Rejudged(a)
  <2>1. [a EXCEPT !.players = n.players] = a
    BY DEF RowOf, RowWith
  <2>2. RowOf(n, r) \in Life!Rejudged([a EXCEPT !.players = n.players])
    BY ResettleRejudges
  <2> HIDE DEF a
  <2> QED BY <2>1, <2>2
<1>2. a.state # "completed"
  BY StateFits, RowFields DEF RowOf
<1> HIDE DEF a
<1>3. RowOf(n, r) \in Life!Effect("changeScoringSystem", a)
  BY <1>1 DEF Life!Effect
<1>4. Life!Editable("changeScoringSystem", a) /\ "changeScoringSystem" \in Life!MatchCommand
  BY <1>2 DEF Life!Editable, Life!Completed, Life!MatchCommand, Life!FieldCommand
<1> QED BY <1>3, <1>4 DEF Moves, a

\* activate and deactivate.
LEMMA ActivationMoves ==
  ASSUME NEW m, Sound(m), NEW active \in BOOLEAN, active => ~isCompleted(m),
         NEW n, Sound(n), n.players = m.players, n.rounds = m.rounds, n.attempts = m.attempts,
         n.result = m.result, n.active = active, NEW r
  PROVE  Moves(RowOf(m, r), RowOf(n, r)) /\ state(n, r) = state(m, r)
<1> DEFINE a == RowOf(m, r)
<1>1. state(n, r) = state(m, r)
  BY SameAnswers
<1>2. RowOf(n, r) = [a EXCEPT !.active = active]
  <2>1. HasRounds(n) = HasRounds(m)
    BY DEF HasRounds
  <2> QED BY <1>1, <2>1 DEF RowOf, RowWith
<1>3. active => a.state # "completed"
  BY StateFits, RowFields DEF RowOf
<1> HIDE DEF a
<1>4. CASE active = TRUE
  <2>1. RowOf(n, r) \in Life!Effect("activate", a)
    BY <1>2, <1>4 DEF Life!Effect
  <2>2. Life!Editable("activate", a) /\ "activate" \in Life!MatchCommand
    BY <1>3, <1>4 DEF Life!Editable, Life!Completed, Life!MatchCommand, Life!ManualCommand
  <2> QED BY <1>1, <2>1, <2>2 DEF Moves, a
<1>5. CASE active = FALSE
  <2>1. RowOf(n, r) \in Life!Effect("deactivate", a)
    BY <1>2, <1>5 DEF Life!Effect
  <2>2. Life!Editable("deactivate", a) /\ "deactivate" \in Life!MatchCommand
    BY DEF Life!Editable, Life!MatchCommand, Life!ManualCommand
  <2> QED BY <1>1, <2>1, <2>2 DEF Moves, a
<1> QED BY <1>4, <1>5

\* A result that is written places everybody in the match, each elsewhere.
LEMMA ResultPlaces ==
  ASSUME NEW m \in Aggregate, NEW place, IsRanking(place, m.players)
  PROVE  Places(place) \in Life!Placings(m.players)
<1> DEFINE P == m.players
<1>1. P \subseteq Player /\ P \subseteq Nat /\ IsFiniteSet(P) /\ Cardinality(P) \in Nat /\ DOMAIN place = P
  BY AggregateType, PlacementAssumption DEF IsRanking
<1> HIDE DEF P
<1>2. /\ \A p \in P : Index(place, p) \in 1..Cardinality(P)
      /\ \A p, q \in P : p # q => Index(place, p) # Index(place, q)
  <2>1. IsRanking(place, P)
    BY DEF P
  <2>2. \A p \in P : Index(place, p) \in 1..Cardinality(P)
    BY <1>1, <2>1, IndexIsOrder
  <2>3. ASSUME NEW p \in P, NEW q \in P, p # q PROVE Index(place, p) # Index(place, q)
    BY <1>1, <2>1, <2>3, IndexIsOrder
  <2> QED BY <2>2, <2>3
<1>3. \A p \in Player : Places(place)[p] = IF p \in P THEN Index(place, p) ELSE 0
  BY <1>1 DEF Places
<1>4. Places(place) \in [Player -> 0..Cardinality(P)]
  <2>1. \A p \in Player : Places(place)[p] \in 0..Cardinality(P)
    BY <1>1, <1>2, <1>3
  <2> QED BY <2>1 DEF Places
<1>5. \A p \in Player : Places(place)[p] = 0 <=> p \notin P
  BY <1>2, <1>3
<1>6. \A p, q \in P : Places(place)[p] = Places(place)[q] => p = q
  BY <1>1, <1>2, <1>3
<1>7. Places(place) \in Life!Placings(P)
  <2>1. Life!Cardinality(P) = Cardinality(P)
    BY DEF Life!Cardinality, Cardinality
  <2> QED BY <1>4, <1>5, <1>6, <2>1 DEF Life!Placings
<1> QED BY <1>7 DEF P

CommittedRow(a, off, places) == [a EXCEPT !.state = "completed", !.active = off, !.result = places]

\* The row of a match whose result was written.
LEMMA RowAfterCommit ==
  ASSUME NEW m, NEW n, n.players = m.players, n.rounds = m.rounds, NEW st
  PROVE  RowWith(n, "completed") = CommittedRow(RowWith(m, st), n.active, Places(n.result))
<1> DEFINE a == RowWith(m, st)
           b == [a EXCEPT !.state = "completed"]
           c == [b EXCEPT !.active = n.active]
<1>1. b = [active |-> m.active, state |-> "completed", players |-> m.players, rounds |-> HasRounds(m), result |-> Places(m.result)]
  BY DEF RowWith
<1>2. c = [active |-> n.active, state |-> "completed", players |-> m.players, rounds |-> HasRounds(m), result |-> Places(m.result)]
  <2> HIDE DEF b
  <2> QED BY <1>1
<1>3. [c EXCEPT !.result = Places(n.result)] = RowWith(n, "completed")
  <2>1. HasRounds(n) = HasRounds(m)
    BY DEF HasRounds
  <2> HIDE DEF c
  <2> QED BY <1>2, <2>1 DEF RowWith
<1>4. CommittedRow(a, n.active, Places(n.result)) = [c EXCEPT !.result = Places(n.result)]
  BY DEF RowWith, CommittedRow
<1> QED BY <1>3, <1>4

\* commit writes a result in which everybody has a place of their own.
LEMMA CommitMoves ==
  ASSUME NEW m, Sound(m), NEW r, NEW n \in commit(m, r)
  PROVE  IsJudged(m, n) /\ Moves(RowOf(m, r), RowOf(n, r))
<1> DEFINE place == Resolution(m, r).place
           a == RowOf(m, r)
<1>1. m \in Aggregate
  BY DEF Sound
<1>2. /\ Settles(m) /\ Resolution(m, r).ambiguousTies = {}
      /\ n = Decided(m, place, FALSE)
  <2>1. /\ calculatedResultState(m, r).status = "ready"
        /\ n = Decided(m, calculatedResultState(m, r).place, FALSE)
    BY DEF commit, Decided
  <2>2. Settles(m) /\ Resolution(m, r).ambiguousTies = {}
    BY <2>1, StateIs
  <2>3. calculatedResultState(m, r).place = place
    BY <2>2, StateIs
  <2> HIDE DEF place
  <2> QED BY <2>1, <2>2, <2>3
<1>3. IsRanking(place, m.players)
  BY <1>1, ResolutionIsEarned DEF Resolved
<1> HIDE DEF place
<1>4. place \in Results /\ DOMAIN place = m.players /\ m.players # {}
  <2>1. place \in [m.players -> Nat] /\ m.players \in SUBSET Player
    BY <1>1, <1>3, AggregateType DEF IsRanking
  <2> QED BY <1>2, <2>1, ResultsType DEF Settles
<1>5. IsJudged(m, n) /\ n.attempts = m.attempts /\ n.result = place /\ n.active = FALSE
  <2> DEFINE off == FALSE
  <2>1. off \in BOOLEAN /\ n = Decided(m, place, off)
    BY <1>2
  <2> HIDE DEF off
  <2>2. IsJudged(m, n) /\ n.attempts = m.attempts /\ n.result = place /\ n.active = off
    BY <1>4, <2>1, ResultIsSound
  <2> QED BY <2>2 DEF off
<1>6. isCompleted(n)
  <2>1. place # NotCommitted
    BY <1>4, ResultsType
  <2> QED BY <1>5, <2>1 DEF isCompleted
<1>7. state(n, r) = "completed"
  BY <1>6, StateIs
<1>8. RowOf(n, r) = CommittedRow(a, n.active, Places(place))
  BY <1>5, <1>7, RowAfterCommit DEF RowOf, IsJudged
<1>9. a.state \in {"completed", "ready"} /\ a.players = m.players
  BY <1>2, StateIs, RowFields DEF RowOf
<1>10. Places(place) \in Life!Placings(a.players)
  BY <1>1, <1>3, <1>9, ResultPlaces
<1> HIDE DEF a
<1>11. RowOf(n, r) \in Life!Effect("commit", a)
  BY <1>5, <1>8, <1>9, <1>10 DEF Life!Effect, CommittedRow, Life!Passed, Life!Completed, Life!AwaitingCommit
<1>12. Life!Editable("commit", a) /\ "commit" \in Life!MatchCommand
  BY DEF Life!Editable, Life!MatchCommand, Life!ResultCommand
<1> QED BY <1>5, <1>11, <1>12 DEF Moves, a

ReopenedRow(a, off, st) == [a EXCEPT !.active = off, !.result = Life!NoResult, !.state = st]

\* The row of a match whose result was taken back.
LEMMA RowAfterReopen ==
  ASSUME NEW m, NEW n, n.players = m.players, n.rounds = m.rounds, n.result = NotCommitted,
         NEW st, NEW after
  PROVE  RowWith(n, after) = ReopenedRow(RowWith(m, st), n.active, after)
<1> DEFINE a == RowWith(m, st)
           b == [a EXCEPT !.active = n.active]
           c == [b EXCEPT !.result = Life!NoResult]
<1>1. b = [active |-> n.active, state |-> st, players |-> m.players, rounds |-> HasRounds(m), result |-> Places(m.result)]
  BY DEF RowWith
<1>2. c = [active |-> n.active, state |-> st, players |-> m.players, rounds |-> HasRounds(m), result |-> Life!NoResult]
  <2> HIDE DEF b
  <2> QED BY <1>1
<1>3. [c EXCEPT !.state = after] = RowWith(n, after)
  <2>1. HasRounds(n) = HasRounds(m)
    BY DEF HasRounds
  <2>2. Places(n.result) = Life!NoResult
    BY ResultsType DEF Places, Life!NoResult
  <2> HIDE DEF c
  <2> QED BY <1>2, <2>1, <2>2 DEF RowWith
<1>4. ReopenedRow(a, n.active, after) = [c EXCEPT !.state = after]
  BY DEF RowWith, ReopenedRow
<1> QED BY <1>3, <1>4

\* reopen judges a completed match again and leaves any other as it is.
LEMMA ReopenMoves ==
  ASSUME NEW m, Sound(m), NEW r, NEW n, n = reopen(m)
  PROVE  IsJudged(m, n) /\ Moves(RowOf(m, r), RowOf(n, r))
<1> DEFINE a == RowOf(m, r)
<1>1. IsJudged(m, n) /\ n.attempts = m.attempts /\ n.result = NotCommitted /\ n.active = FALSE
  <2>1. n = Decided(m, NotCommitted, FALSE)
    BY DEF reopen, Decided
  <2> QED BY <2>1, ResultsType, ResultIsSound
<1>2. ~isCompleted(n) /\ n.players = m.players /\ n.rounds = m.rounds /\ Sound(n)
  BY <1>1 DEF isCompleted, IsJudged
<1>3. RowOf(n, r) = ReopenedRow(a, n.active, state(n, r))
  BY <1>1, <1>2, RowAfterReopen DEF RowOf
<1>4. state(n, r) \in IF Life!Completed(a) THEN Life!UncommittedStates(a) ELSE {a.state}
  <2>1. CASE isCompleted(m)
    <3>1. Life!UncommittedStates(RowOf(n, r)) = Life!UncommittedStates(a)
      BY <1>2, RowFields DEF RowOf, Life!UncommittedStates
    <3>2. a.state = "completed"
      BY <2>1, StateFits, RowFields DEF RowOf
    <3>3. state(n, r) \in Life!UncommittedStates(RowOf(n, r))
      BY <1>2, StateFits
    <3> QED BY <3>1, <3>2, <3>3 DEF Life!Completed
  <2>2. CASE ~isCompleted(m)
    <3>1. n.result = m.result
      BY <1>1, <2>2 DEF isCompleted
    <3>2. state(n, r) = state(m, r)
      BY <1>1, <1>2, <3>1, SameAnswers
    <3>3. a.state = state(m, r) /\ state(m, r) # "completed"
      BY <2>2, StateFits, RowFields DEF RowOf
    <3> QED BY <3>2, <3>3 DEF Life!Completed
  <2> QED BY <2>1, <2>2
<1> HIDE DEF a
<1>5. RowOf(n, r) \in Life!Effect("reopen", a)
  BY <1>1, <1>3, <1>4 DEF Life!Effect, ReopenedRow
<1>6. Life!Editable("reopen", a) /\ "reopen" \in Life!MatchCommand
  BY DEF Life!Editable, Life!MatchCommand, Life!ResultCommand
<1> QED BY <1>1, <1>5, <1>6 DEF Moves, a

-----------------------------------------------------------------------------
(***************************************************************************)
(* Every command, from a sound match whatever its column says.             *)
(***************************************************************************)

\* The column is what the getter answers, the rules and a pending refresh are
\* left alone, and a schedule that was up to date is told of what moved.
Wrote ==
  /\ column' = state(match', route) /\ route' = route /\ refresh' = refresh
  /\ column = state(match, route) =>
       told' = Verdict(column') \/ (told' = told /\ Verdict(column) = Verdict(column'))

Kept ==
  /\ Sound(match') /\ Settled(match, match')
  /\ Moves(RowOf(match, route), RowOf(match', route)) /\ Wrote

\* The commands on the field, the scoring system and the cabinet.
LEMMA FieldCommandKeeps ==
  ASSUME Sound(match), FieldCommand
  PROVE  Kept
<1>1. ASSUME NEW p \in Player, NEW players \in {match.players \cup {p}, match.players \ {p}}, NEW always,
             Save(WithPlayers(match, players), always)
      PROVE  Kept
  <2>1. PICK n \in WithPlayers(match, players) : match' = n /\ Wrote
    BY <1>1 DEF Save, Wrote
  <2>2. players \in SUBSET Player
    BY <1>1, AggregateType DEF Sound
  <2>3. IsResettled(match, n) /\ n.players = players
    BY <2>2, PlayersAreSound
  <2>4. Moves(RowOf(match, route), RowOf(n, route))
    BY <1>1, <2>3, EntrantMoves
  <2> QED BY <2>1, <2>3, <2>4 DEF Kept, IsResettled
<1>2. ASSUME NEW p \in Player, AddEntrant(p) \/ RemoveEntrant(p) \/ PlaceEntrant(p) \/ TakeBackEntrant(p)
      PROVE  Kept
  <2>1. PICK players \in {match.players \cup {p}, match.players \ {p}} : Save(WithPlayers(match, players), TRUE)
    BY <1>2 DEF AddEntrant, RemoveEntrant, PlaceEntrant, TakeBackEntrant
  <2> QED BY <1>1, <2>1
<1>3. ASSUME NEW players \in SUBSET Player, ReplaceEntrants(players)
      PROVE  Kept
  <2>1. PICK n \in WithPlayers(match, players) : match' = n /\ Wrote
    BY <1>3 DEF ReplaceEntrants, Save, Wrote
  <2>2. IsResettled(match, n) /\ n.players = players /\ ~isCompleted(match)
    BY <1>3, PlayersAreSound DEF ReplaceEntrants, assertEditable
  <2>3. Moves(RowOf(match, route), RowOf(n, route))
    BY <2>2, ReplacementMoves
  <2> QED BY <2>1, <2>2, <2>3 DEF Kept, IsResettled
<1>4. ASSUME NEW system \in System, ChangeScoringSystem(system)
      PROVE  Kept
  <2>1. PICK n \in resettle([match EXCEPT !.system = system]) : match' = n /\ Wrote
    BY <1>4 DEF ChangeScoringSystem, Save, Wrote
  <2>2. IsResettled(match, n) /\ n.players = match.players /\ ~isCompleted(match)
    BY <1>4, SystemIsSound DEF ChangeScoringSystem, assertEditable
  <2>3. Moves(RowOf(match, route), RowOf(n, route))
    BY <2>2, SystemMoves
  <2> QED BY <2>1, <2>2, <2>3 DEF Kept, IsResettled
<1>5. ASSUME NEW active \in BOOLEAN, SetActive(active)
      PROVE  Kept
  <2>1. match' = Decided(match, match.result, active) /\ (active => ~isCompleted(match))
    BY <1>5 DEF SetActive, Sound, Aggregate, Decided
  <2>2. match.result \in Results
    BY AggregateType DEF Sound
  <2>3. /\ IsJudged(match, match') /\ match'.attempts = match.attempts
        /\ match'.result = match.result /\ match'.active = active
    BY <2>1, <2>2, ResultIsSound
  <2>4. Moves(RowOf(match, route), RowOf(match', route)) /\ state(match', route) = state(match, route)
    BY <2>1, <2>3, ActivationMoves DEF IsJudged
  <2> QED BY <1>5, <2>3, <2>4 DEF Kept, Wrote, IsJudged, SetActive
<1> QED BY <1>2, <1>3, <1>4, <1>5 DEF FieldCommand

\* The commands that add rounds.
LEMMA RoundCommandKeeps ==
  ASSUME Sound(match), RoundCommand
  PROVE  Kept
<1>1. PICK sources \in ((SUBSET Song) \cup {{Hand}}) \ {{}} :
        AddRounds(sources) \/ \E s \in Song \cup {Hand} : ReplaceRoundSong(s, sources)
  BY DEF RoundCommand
<1>2. CASE AddRounds(sources)
  <2>1. /\ match' = WithRounds(match, sources) /\ Wrote /\ ~isCompleted(match)
        /\ RoundSourceAllowed(match, sources) /\ sources \cap DOMAIN match.rounds = {}
    BY <1>2 DEF AddRounds, Save, Wrote, assertEditable
  <2>2. /\ IsReworked(match, match') /\ DOMAIN match'.rounds # {}
        /\ ~Settles(match') /\ (hasEvidence(match') <=> hasEvidence(match))
    BY <2>1, AddedRoundsAreSound
  <2>3. Moves(RowOf(match, route), RowOf(match', route))
    BY <2>1, <2>2, AddedMoves
  <2> QED BY <2>1, <2>2, <2>3 DEF Kept, IsReworked
<1>3. ASSUME NEW s \in Song \cup {Hand}, ReplaceRoundSong(s, sources) PROVE Kept
  <2> DEFINE without == WithoutRound(match, s)
  <2>1. /\ match' = WithRounds(without, sources) /\ Wrote /\ ~isCompleted(match) /\ s \in DOMAIN match.rounds
        /\ RoundSourceAllowed(without, sources) /\ sources \cap DOMAIN without.rounds = {}
    BY <1>3 DEF ReplaceRoundSong, Save, Wrote, assertEditable, RemovableRounds
  <2>2. /\ IsReworked(match, without) /\ without.system = match.system
        /\ DOMAIN without.rounds \subseteq DOMAIN match.rounds
        /\ \A q \in DOMAIN without.rounds : without.rounds[q] = match.rounds[q]
    BY RemovedRoundIsSound
  <2> HIDE DEF without
  <2>3. /\ IsReworked(without, match') /\ DOMAIN match'.rounds # {} /\ match'.system = without.system
        /\ \A q \in DOMAIN match'.rounds \cap Song :
             \/ q \in DOMAIN without.rounds /\ match'.rounds[q] = without.rounds[q]
             \/ CurrentRound(match'.players, match'.system, match'.rounds[q])
    BY <2>1, <2>2, AddedRoundsAreSound DEF IsReworked
  <2>4. Moves(RowOf(match, route), RowOf(match', route))
    BY <2>1, <2>2, <2>3, EditMoves DEF IsReworked
  <2>5. Settled(match, match')
    BY <2>2, <2>3 DEF IsReworked, Settled, SettledRound
  <2> QED BY <2>1, <2>3, <2>4, <2>5 DEF Kept, IsReworked
<1> QED BY <1>1, <1>2, <1>3

\* The runs of a lobby are scores of players.
LEMMA RunsType ==
  \A runs \in Runs : DOMAIN runs \subseteq Player /\ \A p \in DOMAIN runs : runs[p] \in Score
BY DEF Runs

\* The commands on scores, points and rounds.
LEMMA ScoreCommandKeeps ==
  ASSUME Sound(match), ScoreCommand
  PROVE  Kept
<1>1. ASSUME NEW s \in DOMAIN match.rounds \cap Song, NEW runs,
             DOMAIN runs \subseteq Player, \A p \in DOMAIN runs : runs[p] \in Score,
             Save(WithScores(match, s, runs), FALSE)
      PROVE  Kept
  <2>1. PICK n \in WithScores(match, s, runs) : match' = n /\ Wrote
    BY <1>1 DEF Save, Wrote
  <2>2. IsReworked(match, n) /\ DOMAIN n.rounds = DOMAIN match.rounds
    BY <1>1, ScoresAreSound
  <2>3. Moves(RowOf(match, route), RowOf(n, route))
    BY <2>2, EditMoves DEF IsReworked
  <2> QED BY <2>1, <2>2, <2>3 DEF Kept, IsReworked
<1>2. ASSUME NEW s \in Song, NEW p \in Player, NEW score \in Score, UpsertScore(s, p, score)
      PROVE  Kept
  <2> DEFINE runs == [q \in {p} |-> score]
  <2>1. s \in DOMAIN match.rounds \cap Song /\ Save(WithScores(match, s, runs), FALSE)
    BY <1>2 DEF UpsertScore
  <2>2. DOMAIN runs \subseteq Player /\ \A q \in DOMAIN runs : runs[q] \in Score
    OBVIOUS
  <2> HIDE DEF runs
  <2> QED BY <1>1, <2>1, <2>2
<1>3. ASSUME NEW s \in Song, NEW runs \in Runs, ApplyCompletedSong(s, runs)
      PROVE  Kept
  <2>1. s \in DOMAIN match.rounds \cap Song /\ Save(WithScores(match, s, runs), FALSE)
    BY <1>3 DEF ApplyCompletedSong
  <2>2. DOMAIN runs \subseteq Player /\ \A p \in DOMAIN runs : runs[p] \in Score
    BY RunsType
  <2> QED BY <1>1, <2>1, <2>2
<1>4. ASSUME NEW p \in Player, NEW points \in Points, UpsertPoints(p, points)
      PROVE  Kept
  <2>1. match' = WithPoints(match, p, points) /\ Wrote /\ HandScored(match)
    BY <1>4 DEF UpsertPoints, Save, Wrote
  <2>2. IsReworked(match, match') /\ DOMAIN match'.rounds = DOMAIN match.rounds
    BY <2>1, StatedPointsAreSound
  <2>3. Moves(RowOf(match, route), RowOf(match', route))
    BY <2>2, EditMoves DEF IsReworked
  <2> QED BY <2>1, <2>2, <2>3 DEF Kept, IsReworked
<1>5. ASSUME NEW s \in Song \cup {Hand}, NEW p \in Player, RemoveStanding(s, p)
      PROVE  Kept
  <2>1. match' = WithoutStanding(match, s, p) /\ Wrote /\ s \in DOMAIN match.rounds /\ p \in DOMAIN match.rounds[s]
    BY <1>5 DEF RemoveStanding, Save, Wrote
  <2>2. IsReworked(match, match') /\ DOMAIN match'.rounds = DOMAIN match.rounds
    BY <2>1, WithoutStandingIsSound
  <2>3. Moves(RowOf(match, route), RowOf(match', route))
    BY <2>2, EditMoves DEF IsReworked
  <2> QED BY <2>1, <2>2, <2>3 DEF Kept, IsReworked
<1>6. ASSUME NEW s \in Song \cup {Hand}, RemoveRound(s)
      PROVE  Kept
  <2>1. match' = WithoutRound(match, s) /\ Wrote /\ ~isCompleted(match) /\ s \in DOMAIN match.rounds
    BY <1>6 DEF RemoveRound, Save, Wrote, assertEditable, RemovableRounds
  <2>2. IsReworked(match, match') /\ DOMAIN match'.rounds = DOMAIN match.rounds \ {s}
    BY <2>1, RemovedRoundIsSound
  <2>3. Moves(RowOf(match, route), RowOf(match', route))
    BY <2>1, <2>2, RemovedMoves
  <2> QED BY <2>1, <2>2, <2>3 DEF Kept, IsReworked
<1> QED BY <1>2, <1>3, <1>4, <1>5, <1>6 DEF ScoreCommand

\* An edit of the attempts leaves the rest of the row alone.
LEMMA JudgedMoves ==
  ASSUME NEW m, Sound(m), NEW n, IsJudged(m, n), n.active = m.active, n.result = m.result, NEW r
  PROVE  Moves(RowOf(m, r), RowOf(n, r))
BY EditMoves DEF IsJudged

\* The commands on attempts.
LEMMA TiebreakCommandKeeps ==
  ASSUME Sound(match), TiebreakCommand
  PROVE  Kept
<1>1. ASSUME NEW n, IsJudged(match, n), n.active = match.active, n.result = match.result,
             match' = n, Wrote
      PROVE  Kept
  BY <1>1, JudgedMoves DEF Kept, IsJudged
<1>2. ASSUME NEW song \in BOOLEAN, AddTiebreak(song)
      PROVE  Kept
  <2>1. PICK n \in WithAttempt(match, route, song) : match' = n /\ Wrote
    BY <1>2 DEF AddTiebreak, Save, Wrote
  <2>2. IsJudged(match, n) /\ n.active = match.active /\ n.result = match.result
    BY AddedAttemptIsSound
  <2> QED BY <1>1, <2>1, <2>2
<1>3. ASSUME NEW i \in DOMAIN match.attempts, RemoveTiebreak(i)
      PROVE  Kept
  <2>1. match' = [match EXCEPT !.attempts = RemoveAt(@, i)] /\ Wrote
    BY <1>3 DEF RemoveTiebreak, Save, Wrote
  <2>2. IsJudged(match, match') /\ match'.active = match.active /\ match'.result = match.result
    BY <2>1, RemovedAttemptIsSound
  <2> QED BY <1>1, <2>1, <2>2
<1>4. ASSUME NEW i \in DOMAIN match.attempts, NEW p \in DOMAIN match.attempts[i].standings,
             NEW score \in Score \cup {NoScore}, NEW points \in Points,
             Save({WithEvidence(match, i, p, score, points)}, FALSE)
      PROVE  Kept
  <2>1. match' = WithEvidence(match, i, p, score, points) /\ Wrote
    BY <1>4 DEF Save, Wrote
  <2>2. IsJudged(match, match') /\ match'.active = match.active /\ match'.result = match.result
    BY <2>1, StatedEvidenceIsSound
  <2> QED BY <1>1, <2>1, <2>2
<1>5. ASSUME NEW i \in DOMAIN match.attempts, NEW p \in Player, NEW score \in Score, UpsertTiebreakScore(i, p, score)
      PROVE  Kept
  BY <1>4, <1>5, AggregateAssumption DEF UpsertTiebreakScore
<1>6. ASSUME NEW i \in DOMAIN match.attempts, NEW p \in Player, NEW points \in Points, UpsertTiebreakPoints(i, p, points)
      PROVE  Kept
  BY <1>4, <1>6 DEF UpsertTiebreakPoints
<1>7. ASSUME NEW i \in DOMAIN match.attempts, NEW p \in Player, ClearTiebreakStanding(i, p)
      PROVE  Kept
  BY <1>4, <1>7, AggregateAssumption DEF ClearTiebreakStanding
<1>8. ASSUME NEW i \in DOMAIN match.attempts, NEW runs \in Runs, ApplyCompletedTiebreak(i, runs)
      PROVE  Kept
  <2>1. /\ match' = [match EXCEPT !.attempts[i].standings =
                       Written(@, [p \in DOMAIN runs |-> [score |-> runs[p], points |-> 0]])]
        /\ Wrote /\ DOMAIN runs \subseteq DOMAIN match.attempts[i].standings
    BY <1>8 DEF ApplyCompletedTiebreak, Save, Wrote
  <2>2. \A p \in DOMAIN runs : runs[p] \in Score
    BY RunsType
  <2>3. IsJudged(match, match') /\ match'.active = match.active /\ match'.result = match.result
    BY <2>1, <2>2, AppliedEvidenceIsSound
  <2> QED BY <1>1, <2>1, <2>3
<1> QED BY <1>2, <1>3, <1>5, <1>6, <1>7, <1>8 DEF TiebreakCommand

\* Every command keeps the match sound and moves its row as MatchLife says.
LEMMA CommandKeeps ==
  ASSUME Sound(match), Command
  PROVE  Kept
<1>1. CASE CommitResult
  <2>1. PICK n \in commit(match, route) : match' = n /\ Wrote
    BY <1>1 DEF CommitResult, Save, Wrote
  <2>2. IsJudged(match, n) /\ Moves(RowOf(match, route), RowOf(n, route))
    BY CommitMoves
  <2> QED BY <2>1, <2>2 DEF Kept, IsJudged
<1>2. CASE ReopenResult
  <2>1. match' = reopen(match) /\ Wrote
    BY <1>2 DEF ReopenResult, Save, Wrote
  <2>2. IsJudged(match, match') /\ Moves(RowOf(match, route), RowOf(match', route))
    BY <2>1, ReopenMoves
  <2> QED BY <2>1, <2>2 DEF Kept, IsJudged
<1> QED BY <1>1, <1>2, FieldCommandKeeps, RoundCommandKeeps, ScoreCommandKeeps, TiebreakCommandKeeps DEF Command

-----------------------------------------------------------------------------
(***************************************************************************)
(* The invariant, whatever overlaps: the match is sound.                   *)
(***************************************************************************)

Inv ==
  /\ Sound(match) /\ route \in Routings
  /\ column \in Life!MatchState /\ refresh \in Life!MatchState \cup {Idle}

\* A match that was just created.
LEMMA InitIsSound ==
  ASSUME Init
  PROVE  Inv /\ column = state(match, route) /\ told = Verdict(column) /\ refresh = Idle
         /\ match.active = FALSE /\ match.result = NotCommitted
<1>1. PICK players \in SUBSET Player, songs \in SUBSET Song, system \in System :
        match = [players |-> players, system |-> system, rounds |-> [s \in songs |-> <<>>],
                 attempts |-> <<>>, active |-> FALSE, result |-> NotCommitted]
  BY DEF Init
<1>2. route \in Routings /\ column = "open" /\ refresh = Idle /\ told = Verdict("open")
  BY DEF Init
<1> DEFINE rounds == [s \in songs |-> <<>>]
<1>3. rounds \in Rounds /\ DOMAIN rounds = songs
  <2>1. rounds \in [songs -> Standings]
    BY StandingsType
  <2> QED BY <2>1, RoundsType
<1>4. match \in Aggregate
  <2>1. <<>> \in Seq(Attempt) /\ FALSE \in BOOLEAN /\ NotCommitted \in Results
    BY ResultsType
  <2> HIDE DEF rounds
  <2> QED BY <1>1, <1>3, <2>1 DEF Aggregate, rounds
<1>5. \A s \in DOMAIN match.rounds : match.rounds[s] = <<>> /\ DOMAIN match.rounds[s] = {}
  BY <1>1
<1>6. Sound(match)
  <2>1. \A s \in DOMAIN match.rounds \cap Song : SoundRound(match.players, match.rounds[s])
    BY <1>5 DEF SoundRound, IsScored, CurrentRound
  <2>2. OfATie(match)
    BY <1>1 DEF OfATie
  <2> QED BY <1>4, <2>1, <2>2 DEF Sound
<1>7. ~isCompleted(match) /\ ~hasEvidence(match) /\ match.active = FALSE /\ match.result = NotCommitted
  BY <1>1, <1>5 DEF isCompleted, hasEvidence
<1>8. state(match, route) = "open"
  BY <1>6, <1>7, StateFits
<1> QED BY <1>2, <1>6, <1>7, <1>8 DEF Inv, Life!MatchState

\* No step takes the invariant away.
LEMMA InvIsInductive ==
  ASSUME Inv, [Next]_vars
  PROVE  Inv'
<1>1. CASE Command
  <2>1. Kept
    BY <1>1, CommandKeeps DEF Inv
  <2> QED BY <2>1, StateFits DEF Kept, Wrote, Inv
<1>2. ASSUME NEW r \in Routings, UpdateRules(r) PROVE Inv'
  BY <1>2, StateFits DEF UpdateRules, Inv
<1>3. CASE RefreshState
  BY <1>3 DEF RefreshState, Inv
<1>4. CASE UNCHANGED vars
  BY <1>4 DEF vars, Inv
<1> QED BY <1>1, <1>2, <1>3, <1>4 DEF Next

\* The invariant holds whatever overlaps and however late a song is applied.
LEMMA InvHolds == Spec => []Inv
<1>1. Init => Inv
  BY InitIsSound
<1>2. Inv /\ [Next]_vars => Inv'
  BY InvIsInductive
<1> QED BY <1>1, <1>2, PTL DEF Spec

-----------------------------------------------------------------------------
(***************************************************************************)
(* The safety properties.                                                  *)
(***************************************************************************)

\* match is an aggregate the store can load, and column a state it can write.
THEOREM TypeCorrect == Spec => []TypeOK
<1>1. Inv => TypeOK
  <2> SUFFICES ASSUME Inv PROVE TypeOK
    OBVIOUS
  <2>1. /\ match \in Aggregate /\ route \in Routings
        /\ column \in Life!MatchState /\ refresh \in Life!MatchState \cup {Idle}
    BY DEF Inv, Sound
  <2>2. DOMAIN match.rounds \subseteq Song \/ DOMAIN match.rounds = {Hand}
    BY <2>1, AggregateType, RoundsType
  <2>3. ASSUME NEW s \in DOMAIN match.rounds
        PROVE  DOMAIN match.rounds[s] \subseteq Player /\ Range(match.rounds[s]) \subseteq Standing
    <3>1. match.rounds[s] \in Standings
      BY <2>1, AggregateType, RoundsType
    <3> QED BY <3>1, StandingsType DEF Range
  <2>4. DOMAIN match.result \subseteq Player /\ Range(match.result) \subseteq Nat
    <3>1. match.result \in Results
      BY <2>1, AggregateType
    <3> QED BY <3>1, ResultsType DEF Range
  <2> QED BY <2>1, <2>2, <2>3, <2>4, AggregateType DEF TypeOK
<1> QED BY <1>1, InvHolds, PTL

\* Whatever is edited and in whatever order, a valid attempt is about players
\* of the match who have equal points.
THEOREM AttemptsAreAboutTies == Spec => []AttemptsAreOfATie
<1>1. Inv => AttemptsAreOfATie
  BY DEF Inv, Sound, OfATie, AttemptsAreOfATie
<1> QED BY <1>1, InvHolds, PTL

\* Whatever is edited, however late a song is applied and whoever is scored, a
\* round that an edit touches has the points its runs earn, unless the edit took
\* the standing of somebody who is not in the match.
THEOREM EditsKeepPointsCurrent == Spec => EditsSettlePoints
<1> DEFINE Follows ==
      \A s \in DOMAIN match'.rounds \cap Song :
        \/ IsCurrent(match', s)
        \/ /\ s \in DOMAIN match.rounds
           /\ \/ LosesAnOutsider(s)
              \/ /\ match'.players = match.players /\ match'.system = match.system
                 /\ match'.rounds[s] = match.rounds[s]
<1>1. Inv /\ [Next]_vars => [Follows]_vars
  <2> SUFFICES ASSUME Inv, Next PROVE Follows
    OBVIOUS
  <2>1. Settled(match, match')
    <3>1. CASE Command
      BY <3>1, CommandKeeps DEF Inv, Kept
    <3>2. CASE match' = match
      BY <3>2 DEF Settled, SettledRound
    <3> QED BY <3>1, <3>2 DEF Next, UpdateRules, RefreshState
  <2> SUFFICES ASSUME NEW s \in DOMAIN match'.rounds \cap Song,
                      SettledRound(match, s, match'.players, match'.system, match'.rounds[s])
               PROVE  \/ IsCurrent(match', s)
                      \/ /\ s \in DOMAIN match.rounds
                         /\ \/ LosesAnOutsider(s)
                            \/ /\ match'.players = match.players /\ match'.system = match.system
                               /\ match'.rounds[s] = match.rounds[s]
    BY <2>1 DEF Settled
  <2>2. CurrentRound(match'.players, match'.system, match'.rounds[s]) => IsCurrent(match', s)
    BY DEF CurrentRound, IsCurrent, isRoundComplete
  <2> QED BY <2>2 DEF SettledRound, LosesAnOutsider
<1>2. [][Follows]_vars <=> EditsSettlePoints
  BY DEF EditsSettlePoints
<1> QED BY <1>1, <1>2, InvHolds, PTL DEF Spec

\* When a result can be committed, of two players who are sent different ways
\* the one ahead has more points or won a tiebreak.
THEOREM AdvancementIsEarned == Spec => []AdvancementIsPlayedFor
<1>1. Inv => AdvancementIsPlayedFor
  <2> DEFINE current == calculatedResultState(match, route)
             at(p) == Index(current.place, p)
             place == Resolution(match, route).place
             inputs == tiebreakPlacementInputs(match)
  <2> SUFFICES ASSUME Inv, current.status = "ready", NEW p \in match.players, NEW q \in match.players,
                      at(p) < at(q), route[at(p)] # route[at(q)]
               PROVE  \/ PointsOf(match, p) > PointsOf(match, q)
                      \/ PointsOf(match, p) = PointsOf(match, q) /\ WonTiebreak(p, q)
    BY DEF AdvancementIsPlayedFor
  <2>1. match \in Aggregate
    BY DEF Inv, Sound
  <2>2. Settles(match) /\ Resolution(match, route).ambiguousTies = {} /\ current.place = place
    BY StateIs
  <2>3. Index(place, p) < Index(place, q) /\ route[Index(place, p)] # route[Index(place, q)]
    BY <2>2
  <2> HIDE DEF current, at
  <2>4. PlayedFor(calculatePoints(match), inputs, p, q)
    <3>1. Resolved(Resolution(match, route), calculatePoints(match), inputs, route, match.players)
      BY <2>1, ResolutionIsEarned
    <3> QED BY <2>2, <2>3, <3>1 DEF Resolved
  <2>5. calculatePoints(match)[p] = PointsOf(match, p) /\ calculatePoints(match)[q] = PointsOf(match, q)
    BY <2>1, PointsType
  <2>6. CASE calculatePoints(match)[p] > calculatePoints(match)[q]
    BY <2>5, <2>6
  <2>7. ASSUME calculatePoints(match)[p] = calculatePoints(match)[q], NEW i \in DOMAIN inputs,
               {p, q} \subseteq DOMAIN inputs[i], Better(inputs[i][p], inputs[i][q])
        PROVE  PointsOf(match, p) = PointsOf(match, q) /\ WonTiebreak(p, q)
    <3>1. inputs[i] \in Range(inputs)
      BY DEF Range
    <3> QED BY <2>5, <2>7, <3>1 DEF WonTiebreak
  <2> QED BY <2>4, <2>6, <2>7 DEF PlayedFor
<1> QED BY <1>1, InvHolds, PTL

\* Whatever two attempts are made, resolvePlacements gives every player one
\* place more than the number of players ahead, and more points are ahead.
THEOREM PlacesRank == Spec => []PlacesAreARanking
<1>1. Inv => PlacesAreARanking
  <2> DEFINE points == calculatePoints(match)
             average == [p \in match.players |-> averagePercentageOf(match, p)]
             done(first, second) == resolvePlacements(points, <<first, second>>, route, average)
  <2> SUFFICES ASSUME Inv,
                      NEW first \in PossibleEvidence(match.players), NEW second \in PossibleEvidence(match.players),
                      NEW place, place = done(first, second).place, NEW p \in match.players
               PROVE  /\ place[p] = 1 + Cardinality({q \in match.players : place[q] < place[p]})
                      /\ \A q \in match.players : points[p] > points[q] => place[p] < place[q]
    BY Zenon DEF PlacesAreARanking
  <2>1. match \in Aggregate
    BY DEF Inv, Sound
  <2>2. average = Averages(match)
    BY DEF Averages
  <2>3. ASSUME NEW e \in PossibleEvidence(match.players) PROVE IsEvidence(e)
    <3> DEFINE passed == {FALSE}
    <3>1. PICK ps : e \in [ps -> [failed: passed, value: {1, 2}]]
      BY DEF PossibleEvidence
    <3>2. passed \subseteq BOOLEAN
      OBVIOUS
    <3> HIDE DEF passed
    <3>3. ASSUME NEW r \in DOMAIN e PROVE e[r] \in [failed: BOOLEAN, value: Nat]
      BY <3>1, <3>2
    <3> QED BY <3>3 DEF IsEvidence
  <2>4. /\ 2 \in Nat /\ DOMAIN <<first, second>> = 1..2
        /\ \A i \in 1..2 : IsEvidence(<<first, second>>[i])
    BY <2>3
  <2>5. match.players \subseteq Player /\ points \in [match.players -> Nat] /\ average \in [match.players -> Int]
    BY <2>1, <2>2, AggregateType, PointsType
  <2> DEFINE attempts == <<first, second>>
  <2>6. Resolved(done(first, second), points, attempts, route, match.players)
    <3> HIDE DEF points, average
    <3>1. DOMAIN attempts = 1..2 /\ \A i \in 1..2 : IsEvidence(attempts[i])
      BY <2>4
    <3> HIDE DEF attempts
    <3> QED BY <2>4, <2>5, <3>1, PlacesAreEarned DEF attempts
  <2> HIDE DEF done, points
  <2> QED BY <2>6 DEF Resolved, IsRanking
<1> QED BY <1>1, InvHolds, PTL

-----------------------------------------------------------------------------
(***************************************************************************)
(* The column, when no command runs inside refreshState.                   *)
(***************************************************************************)

\* The column is what the getter answers; and while a change of the rules has
\* not rewritten it, it is at most on the wrong side of the tie.
Agreed ==
  IF refresh = Idle THEN column = state(match, route)
  ELSE /\ refresh = state(match, route)
       /\ column = refresh \/ {column, refresh} \subseteq {"ready", "tiebreak_required"}

\* The rules decide of a state only whether a tie blocks the match.
LEMMA RulesDecideTies ==
  ASSUME NEW m, NEW r, NEW s
  PROVE  \/ state(m, r) = state(m, s)
         \/ {state(m, r), state(m, s)} \subseteq {"ready", "tiebreak_required"}
<1>1. CASE ~isCompleted(m) /\ Settles(m)
  BY <1>1, StateIs
<1>2. CASE isCompleted(m) \/ ~Settles(m)
  BY <1>2, StateIs
<1> QED BY <1>1, <1>2

\* A refresh that is pending is told from one that is not.
LEMMA StateIsNotIdle == Idle \notin Life!MatchState
BY DEF Idle, Life!MatchState

\* A save, a change of the rules and the refresh keep the column right.
LEMMA AgreedIsInductive ==
  ASSUME ~Overlap, Inv, Agreed, [Next]_vars
  PROVE  Agreed'
<1>1. CASE refresh = Idle /\ Command
  <2>1. Kept
    BY <1>1, CommandKeeps DEF Inv
  <2> QED BY <1>1, <2>1 DEF Kept, Wrote, Agreed
<1>2. ASSUME NEW r \in Routings, UpdateRules(r) PROVE Agreed'
  <2>1. /\ match' = match /\ route' = r /\ column' = column /\ refresh' = state(match, r)
        /\ column = state(match, route)
    BY <1>2 DEF UpdateRules, Agreed
  <2>2. refresh' # Idle
    BY <2>1, StateFits, StateIsNotIdle DEF Inv
  <2>3. \/ state(match, route) = state(match, r)
        \/ {state(match, route), state(match, r)} \subseteq {"ready", "tiebreak_required"}
    BY RulesDecideTies
  <2> QED BY <2>1, <2>2, <2>3 DEF Agreed
<1>3. CASE RefreshState
  BY <1>3 DEF RefreshState, Agreed
<1>4. CASE UNCHANGED vars
  BY <1>4 DEF vars, Agreed
<1> QED BY <1>1, <1>2, <1>3, <1>4 DEF Next

\* Both invariants hold when no command runs inside refreshState.
LEMMA AgreedHolds ==
  ASSUME ~Overlap
  PROVE  Spec => [](Inv /\ Agreed)
<1>1. Init => Inv /\ Agreed
  BY InitIsSound DEF Agreed
<1>2. Inv /\ Agreed /\ [Next]_vars => (Inv /\ Agreed)'
  BY InvIsInductive, AgreedIsInductive
<1> QED BY <1>1, <1>2, PTL DEF Spec

\* While no command runs inside refreshState, the column and the getter agree
\* whenever no write of the column is pending: saves and changes of the rules
\* are all that moves the getter, and each of them writes the column.
THEOREM ColumnIsTheGetter ==
  ASSUME ~Overlap
  PROVE  Spec => []ColumnAgrees
<1>1. Inv /\ Agreed => ColumnAgrees
  BY DEF Agreed, ColumnAgrees
<1> QED BY <1>1, AgreedHolds, PTL

\* While no command runs inside refreshState, every save that moves what a
\* schedule reads of the match makes the schedule read it again, if it was up
\* to date before.
THEOREM MovesReachTheSchedule ==
  ASSUME ~Overlap
  PROVE  Spec => MovesAreTold
<1> DEFINE Told == told = Verdict(column) /\ refresh = Idle => told' = Verdict(column')
<1>1. Inv /\ Agreed /\ [Next]_vars => [Told]_vars
  <2> SUFFICES ASSUME Inv, Agreed, [Next]_vars, told = Verdict(column), refresh = Idle, ~UNCHANGED vars
               PROVE  told' = Verdict(column')
    OBVIOUS
  <2>1. CASE Command
    <3>1. Kept /\ column = state(match, route)
      BY <2>1, CommandKeeps DEF Inv, Agreed
    <3> QED BY <3>1 DEF Kept, Wrote
  <2>2. ASSUME NEW r \in Routings, UpdateRules(r) PROVE told' = Verdict(column')
    BY <2>2 DEF UpdateRules, Verdict
  <2>3. ~RefreshState
    BY DEF RefreshState
  <2> QED BY <2>1, <2>2, <2>3 DEF Next
<1>2. [][Told]_vars <=> MovesAreTold
  BY DEF MovesAreTold
<1> QED BY <1>1, <1>2, AgreedHolds, PTL DEF Spec

\* The row of the refinement is that of the match with its column.
LEMMA RowIs ==
  /\ Row = RowWith(match, column)
  /\ Row' = RowWith(match', column')
BY DEF Row, RowWith, HasRounds, Places

Begun(players, rounds) == [Life!EmptyRow EXCEPT !.players = players, !.rounds = rounds]

\* A match that was just created is an initial row of MatchLife.
LEMMA RowBegins ==
  ASSUME Init
  PROVE  Life!Init
<1>1. /\ match \in Aggregate /\ column = "open" /\ match.active = FALSE /\ match.result = NotCommitted
  BY InitIsSound DEF Inv, Sound, Init
<1>2. match.players \in SUBSET Player /\ HasRounds(match) \in BOOLEAN
  BY <1>1, AggregateType DEF HasRounds
<1>3. Places(match.result) = Life!NoResult
  BY <1>1, ResultsType DEF Places, Life!NoResult
<1> DEFINE off == FALSE
           e == Life!EmptyRow
<1>4. e = [active |-> off, state |-> "open", players |-> {}, rounds |-> off, result |-> Life!NoResult]
  BY DEF Life!EmptyRow
<1>5. match.active = off
  BY <1>1
<1> HIDE DEF off, e
<1> DEFINE f == [e EXCEPT !.players = match.players]
           has == HasRounds(match)
<1>6. f = [active |-> off, state |-> "open", players |-> match.players, rounds |-> off, result |-> Life!NoResult]
  BY <1>4
<1>7. [e EXCEPT !.players = match.players, !.rounds = has] = [f EXCEPT !.rounds = has]
  BY <1>4
<1> HIDE DEF f, has
<1>8. [f EXCEPT !.rounds = has]
        = [active |-> off, state |-> "open", players |-> match.players, rounds |-> has, result |-> Life!NoResult]
  BY <1>6
<1>9. Row = [e EXCEPT !.players = match.players, !.rounds = has]
  BY <1>1, <1>3, <1>5, <1>7, <1>8, RowIs DEF RowWith, has
<1>10. has \in BOOLEAN
  BY <1>2 DEF has
<1>11. \E players \in SUBSET Player, rounds \in BOOLEAN : Row = Begun(players, rounds)
  <2>1. Row = Begun(match.players, has)
    BY <1>9 DEF Begun, e
  <2> QED BY <1>2, <1>10, <2>1
<1>12. \E players \in SUBSET Player, rounds \in BOOLEAN :
         Row = [Life!EmptyRow EXCEPT !.players = players, !.rounds = rounds]
  BY <1>11 DEF Begun
<1>13. Life!Init <=> \E players \in SUBSET Player, rounds \in BOOLEAN :
                       Row = [Life!EmptyRow EXCEPT !.players = players, !.rounds = rounds]
  BY DEF Life!Init
<1> QED BY <1>12, <1>13, Zenon

\* What Moves lists are the steps of MatchLife.
LEMMA MovesAreSteps ==
  ASSUME Moves(Row, Row')
  PROVE  [Life!Next]_Row
<1> DEFINE a == Row
           b == Row'
<1>1. CASE a = b
  BY <1>1
<1>2. ASSUME NEW cmd \in Life!MatchCommand, Life!Editable(cmd, a), b \in Life!Effect(cmd, a) PROVE Life!Next
  BY <1>2 DEF Life!Next, Life!Command
<1>3. ASSUME NEW players \in SUBSET Player, Life!Editable("addEntrant", a),
             b \in Life!Rejudged([a EXCEPT !.players = @ \cup players])
      PROVE  Life!Next
  BY <1>3 DEF Life!Next, Life!Joined
<1>4. ASSUME NEW p \in Player, b \in Life!Placed(a, p) \cup Life!Released(a, p) PROVE Life!Next
  BY <1>4 DEF Life!Next, Life!Advancement
<1>5. ASSUME Life!Settled(a), b \in {[a EXCEPT !.state = st] : st \in {"ready", "tiebreak_required"}} PROVE Life!Next
  BY <1>5 DEF Life!Next, Life!Rerouted
<1> QED BY <1>1, <1>2, <1>3, <1>4, <1>5 DEF Moves

\* Every step is a step of MatchLife or leaves the row alone.
LEMMA StepsAreOfLife ==
  ASSUME ~Overlap, Inv, Agreed, [Next]_vars
  PROVE  [Life!Next]_Row
<1>1. CASE refresh = Idle /\ Command
  <2>1. Kept /\ column = state(match, route)
    BY <1>1, CommandKeeps DEF Inv, Agreed
  <2>2. Row = RowOf(match, route) /\ Row' = RowOf(match', route)
    BY <2>1, RowIs DEF RowOf, Kept, Wrote
  <2> QED BY <2>1, <2>2, MovesAreSteps DEF Kept
<1>2. ASSUME NEW r \in Routings, UpdateRules(r) PROVE Row' = Row
  BY <1>2, RowIs DEF UpdateRules
<1>3. CASE RefreshState
  <2>1. Row' = [Row EXCEPT !.state = refresh]
    BY <1>3, RowIs, RowInState DEF RefreshState
  <2>2. CASE column = refresh
    BY <1>3, <2>2, RowIs DEF RefreshState
  <2>3. CASE {column, refresh} \subseteq {"ready", "tiebreak_required"}
    <3>1. Life!Settled(Row)
      BY <2>3, RowIs, RowFields DEF Life!Settled
    <3> QED BY <2>1, <2>3, <3>1, MovesAreSteps DEF Moves
  <2> QED BY <1>3, <2>2, <2>3 DEF RefreshState, Agreed
<1>4. CASE UNCHANGED vars
  BY <1>4, RowIs DEF vars
<1> QED BY <1>1, <1>2, <1>3, <1>4 DEF Next

\* While no command runs inside refreshState, every edit of a match, whatever
\* its scores, attempts and rules, moves its row as MatchLife says.
THEOREM Implementation ==
  ASSUME ~Overlap
  PROVE  Spec => ImplementsMatchLife
<1>1. Init => Life!Init
  BY RowBegins
<1>2. Inv /\ Agreed /\ [Next]_vars => [Life!Next]_Row
  BY StepsAreOfLife
<1> QED BY <1>1, <1>2, AgreedHolds, PTL DEF Spec, ImplementsMatchLife, Life!Spec

=============================================================================
