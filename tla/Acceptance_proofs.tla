------------------------- MODULE Acceptance_proofs -------------------------
(***************************************************************************)
(* Proofs about Acceptance, for any requests, analyses, commands, files,   *)
(* panels and edits.  The operators on sequences are folds, of which only  *)
(* the definition is known: each is first shown to take the steps it looks *)
(* to take, and what it returns then follows by induction on them.         *)
(***************************************************************************)
EXTENDS Acceptance, FiniteSetTheorems, SequenceTheorems, WellFoundedInduction, TLAPS

-----------------------------------------------------------------------------
(* Folds *)

LEMMA Associates ==
  \A X : \A x, y, z \in Seq(X) : (x \o y) \o z = x \o (y \o z)
  BY ConcatAssociative, SMTT(60)

\* The least of some numbers.
LEMMA LeastMember ==
  ASSUME NEW S \in SUBSET Nat, S # {}
  PROVE  \E m \in S : \A x \in S : m <= x
<1>1. PICK n \in S : TRUE
  OBVIOUS
<1> DEFINE UpTo(x) == 0..x
           T == {UpTo(x) : x \in {y \in S : y <= n}}
           R == StrictSubsetOrdering(0..n)
<1>2. IsWellFoundedOn(R, SUBSET (0..n))
  <2>1. IsFiniteSet(0..n)
    BY <1>1, FS_Interval
  <2>2. FiniteSubsetsOf(0..n) = SUBSET (0..n)
    BY <2>1, FS_FiniteSubsetsOfFinite
  <2> QED
    BY <2>2, FS_StrictSubsetOrderingWellFounded
<1>3. T \subseteq SUBSET (0..n) /\ T # {}
  BY <1>1
<1>4. PICK X \in T : \A Y \in T : <<Y, X>> \notin R
  <2> HIDE DEF R, T
  <2> QED
    BY <1>2, <1>3, WFMin
<1>5. PICK m \in S : m <= n /\ X = UpTo(m)
  BY <1>4
<1>6. ASSUME NEW x \in S, x < m PROVE FALSE
  <2>1. x \in Nat /\ m \in Nat /\ n \in Nat
    BY <1>1, <1>5
  <2>2. UpTo(x) \in T
    BY <1>5, <1>6, <2>1
  <2>3. UpTo(x) \subseteq UpTo(m) /\ m \in UpTo(m) /\ m \notin UpTo(x)
    BY <1>6, <2>1
  <2>4. <<UpTo(x), X>> \in R
    BY <1>3, <1>5, <2>2, <2>3 DEF StrictSubsetOrdering
  <2> QED
    BY <1>4, <2>2, <2>4
<1> QED
  BY <1>5, <1>6


\* Induction up to n, as a set that holds 0 and with each number the next.
LEMMA Climb ==
  ASSUME NEW n \in Nat, NEW P \in SUBSET (0..n), 0 \in P,
         \A k \in 1..n : k - 1 \in P => k \in P
  PROVE  P = 0..n
<1> DEFINE Bad == (0..n) \ P
<1>1. SUFFICES ASSUME Bad # {} PROVE FALSE
  OBVIOUS
<1>2. PICK m \in Bad : \A x \in Bad : m <= x
  <2>1. Bad \in SUBSET Nat
    OBVIOUS
  <2> HIDE DEF Bad
  <2> QED
    BY <1>1, <2>1, LeastMember
<1>3. m \in 1..n /\ m - 1 \in 0..n /\ ~(m <= m - 1)
  BY <1>2
<1>4. m - 1 \in P
  BY <1>2, <1>3
<1> QED
  BY <1>2, <1>3, <1>4

\* The largest of some of the positions up to n.
LEMMA MaxFacts ==
  ASSUME NEW n \in Nat, NEW s \in SUBSET (1..n), s # {}
  PROVE  Max(s) \in s /\ \A x \in s : x <= Max(s)
<1> DEFINE Below == {n - x : x \in s}
<1>1. Below \in SUBSET Nat /\ Below # {}
  <2>1. ASSUME NEW x \in s PROVE n - x \in Nat
    <3>1. x \in 1..n
      OBVIOUS
    <3> QED
      BY <3>1
  <2> QED
    BY <2>1
<1>2. PICK m \in Below : \A y \in Below : m <= y
  <2> HIDE DEF Below
  <2> QED
    BY <1>1, LeastMember
<1>3. PICK x \in s : m = n - x
  BY <1>2
<1>4. \A y \in s : x >= y
  <2> TAKE y \in s
  <2>1. n - y \in Below
    OBVIOUS
  <2>2. n - x <= n - y
    BY <1>2, <1>3, <2>1
  <2>3. x \in Nat /\ y \in Nat
    OBVIOUS
  <2> HIDE DEF Below
  <2> QED
    BY <2>2, <2>3
<1> QED
  BY <1>4 DEF Max

LEMMA PrefixMax ==
  ASSUME NEW n \in Nat, NEW k \in 1..n
  PROVE  Max(1..k) = k /\ (1..k) \ {Max(1..k)} = 1..(k - 1)
<1>1. 1..k \in SUBSET (1..n) /\ 1..k # {}
  OBVIOUS
<1>2. Max(1..k) \in 1..k /\ \A x \in 1..k : x <= Max(1..k)
  BY <1>1, MaxFacts
<1>3. Max(1..k) = k
  BY <1>2
<1> QED
  BY <1>3

\* g takes step after step from base, one for each member, picked[s] last of s.
Steps(g, S, base, pick, step) ==
  g = [s \in SUBSET S |-> IF s = {} THEN base ELSE step[pick[s]][g[s \ {pick[s]}]]]

\* Such a function exists for every finite set.
LEMMA FoldExists ==
  ASSUME NEW S, IsFiniteSet(S), NEW X, NEW base \in X,
         NEW pick, \A s \in SUBSET S : s # {} => pick[s] \in s,
         NEW step, \A a \in S, x \in X : step[a][x] \in X
  PROVE  \E g \in [SUBSET S -> X] : Steps(g, S, base, pick, step)
<1>0. PICK size \in Nat : size = Cardinality(S)
  BY FS_CardinalityType
<1> DEFINE Again(g) ==
             [s \in SUBSET S |-> IF s = {} THEN base ELSE step[pick[s]][g[s \ {pick[s]}]]]
           Good(g, n) == \A s \in SUBSET S : Cardinality(s) <= n => g[s] = Again(g)[s]
           P == {n \in 0..size : \E g \in [SUBSET S -> X] : Good(g, n)}
<1>1. ASSUME NEW s \in SUBSET S
      PROVE  /\ Cardinality(s) \in Nat /\ Cardinality(s) <= size
             /\ Cardinality(s) = 0 <=> s = {}
             /\ s # {} => /\ pick[s] \in s /\ s \ {pick[s]} \in SUBSET S
                          /\ Cardinality(s \ {pick[s]}) = Cardinality(s) - 1
  <2>1. IsFiniteSet(s) /\ Cardinality(s) <= size
    BY <1>0, FS_Subset
  <2>2. Cardinality(s) \in Nat
    BY <2>1, FS_CardinalityType
  <2>3. Cardinality(s) = 0 <=> s = {}
    BY <2>1, FS_EmptySet
  <2>4. s # {} => Cardinality(s \ {pick[s]}) = Cardinality(s) - 1
    BY <2>1, FS_RemoveElement
  <2> QED
    BY <2>1, <2>2, <2>3, <2>4
<1>2. ASSUME NEW g \in [SUBSET S -> X] PROVE Again(g) \in [SUBSET S -> X]
  <2>1. ASSUME NEW s \in SUBSET S, s # {} PROVE step[pick[s]][g[s \ {pick[s]}]] \in X
    <3>1. pick[s] \in S /\ g[s \ {pick[s]}] \in X
      BY <2>1
    <3> QED
      BY <3>1
  <2> QED
    BY <2>1
<1>3. ASSUME NEW g \in [SUBSET S -> X], NEW n \in Nat, Good(g, n) PROVE Good(Again(g), n + 1)
  <2> SUFFICES ASSUME NEW s \in SUBSET S, Cardinality(s) <= n + 1
               PROVE  Again(g)[s] = Again(Again(g))[s]
    OBVIOUS
  <2>1. CASE s = {}
    BY <2>1
  <2>2. CASE s # {}
    <3> DEFINE u == s \ {pick[s]}
    <3>1. u \in SUBSET S /\ Cardinality(u) <= n
      <4>1. /\ u \in SUBSET S /\ Cardinality(u) = Cardinality(s) - 1
            /\ Cardinality(s) \in Nat
        BY <1>1, <2>2
      <4> HIDE DEF u, Again
      <4> QED
        BY <4>1
    <3> HIDE DEF u
    <3>2. g[u] = Again(g)[u]
      BY <1>3, <3>1
    <3>3. Again(g)[s] = step[pick[s]][g[u]]
      BY <2>2 DEF u
    <3>4. Again(Again(g))[s] = step[pick[s]][Again(g)[u]]
      BY <2>2 DEF u
    <3> QED
      BY <3>2, <3>3, <3>4
  <2> QED
    BY <2>1, <2>2
<1>5. P = 0..size
  <2>1. 0 \in P
    <3> DEFINE none == [s \in SUBSET S |-> base]
    <3>1. none \in [SUBSET S -> X]
      OBVIOUS
    <3>2. ASSUME NEW s \in SUBSET S, Cardinality(s) <= 0 PROVE s = {}
      <4>1. Cardinality(s) \in Nat /\ Cardinality(s) <= 0
        BY <1>1, <3>2
      <4>2. Cardinality(s) = 0
        BY <4>1
      <4> QED
        BY <1>1, <4>2
    <3>3. Good(none, 0)
      BY <3>2
    <3>4. 0 \in 0..size
      BY <1>0
    <3> HIDE DEF none, Good
    <3> QED
      BY <3>1, <3>3, <3>4
  <2>2. ASSUME NEW k \in 1..size, k - 1 \in P PROVE k \in P
    <3>1. PICK g \in [SUBSET S -> X] : Good(g, k - 1)
      BY <2>2
    <3>2. PICK m \in Nat : m = k - 1
      BY <1>0, <2>2
    <3>3. k \in 0..size /\ k = m + 1
      BY <1>0, <2>2, <3>2
    <3>4. Again(g) \in [SUBSET S -> X] /\ Good(Again(g), k)
      <4>1. Good(g, m)
        BY <3>1, <3>2
      <4> HIDE DEF Good, Again
      <4>2. Good(Again(g), m + 1)
        BY <1>3, <4>1
      <4> QED
        BY <1>2, <3>3, <4>2
    <3> HIDE DEF Good, Again
    <3> QED
      BY <3>3, <3>4
  <2>3. P \in SUBSET (0..size)
    OBVIOUS
  <2> HIDE DEF P
  <2> QED
    BY <1>0, <2>1, <2>2, <2>3, Climb
<1>6. PICK g \in [SUBSET S -> X] : Good(g, size)
  <2>1. size \in 0..size
    BY <1>0
  <2>2. size \in P
    BY <1>5, <2>1
  <2> HIDE DEF Good
  <2> QED
    BY <2>2
<1>7. g = Again(g)
  <2>1. \A s \in SUBSET S : g[s] = Again(g)[s]
    BY <1>1, <1>6
  <2>2. Again(g) \in [SUBSET S -> X]
    BY <1>2
  <2> HIDE DEF Again
  <2> QED
    BY <2>1, <2>2
<1> QED
  BY <1>7 DEF Steps

\* InOrder looks at one member after the other.
LEMMA InOrderSteps ==
  ASSUME NEW E, NEW order \in Seq(E), NEW set
  PROVE  \E h : /\ h[0] = <<>> /\ h[Len(order)] = InOrder(order, set)
                /\ \A k \in 1..Len(order) :
                     h[k] = IF order[k] \in set THEN Append(h[k - 1], order[k]) ELSE h[k - 1]
<1> DEFINE D == DOMAIN order
           Step(x, i) == IF order[i] \in set THEN Append(x, order[i]) ELSE x
           Iter(g) == g = [s \in SUBSET D |-> IF s = {} THEN <<>>
                                              ELSE Step(g[s \ {Max(s)}], Max(s))]
           iter == CHOOSE g : Iter(g)
<1>1. InOrder(order, set) = iter[D]
  BY DEF InOrder, FoldLeft, MapThenFoldSet
<1>0. PICK n \in Nat : n = Len(order) /\ D = 1..n
  BY LenProperties
<1>2. \E g : Iter(g)
  <2> DEFINE pick == [s \in SUBSET D |-> Max(s)]
             step == [i \in D |-> [x \in Seq(E) |-> Step(x, i)]]
  <2>1. \A s \in SUBSET D : s # {} => pick[s] \in s
    BY <1>0, MaxFacts
  <2>2. ASSUME NEW i \in D, NEW x \in Seq(E) PROVE step[i][x] \in Seq(E)
    <3>1. order[i] \in E
      BY <1>0, ElementOfSeq
    <3>2. Append(x, order[i]) \in Seq(E)
      BY <3>1, AppendProperties
    <3> QED
      BY <3>2
  <2>3. <<>> \in Seq(E) /\ IsFiniteSet(D)
    BY <1>0, FS_Interval
  <2>4. \E g \in [SUBSET D -> Seq(E)] : Steps(g, D, <<>>, pick, step)
    <3> HIDE DEF D, pick, step
    <3> QED
      BY <2>1, <2>2, <2>3, FoldExists
  <2>5. PICK g \in [SUBSET D -> Seq(E)] : Steps(g, D, <<>>, pick, step)
    BY <2>4
  <2>6. ASSUME NEW s \in SUBSET D, s # {}
        PROVE  step[pick[s]][g[s \ {pick[s]}]] = Step(g[s \ {Max(s)}], Max(s))
    <3>1. pick[s] = Max(s) /\ Max(s) \in D /\ g[s \ {Max(s)}] \in Seq(E)
      BY <2>1, <2>6
    <3> QED
      BY <3>1
  <2> HIDE DEF pick, step, Step, D
  <2>7. g = [s \in SUBSET D |-> IF s = {} THEN <<>> ELSE Step(g[s \ {Max(s)}], Max(s))]
    BY <2>5, <2>6 DEF Steps
  <2> QED
    BY <2>7
<1>3. Iter(iter)
  BY <1>2
<1> DEFINE h == [k \in 0..n |-> iter[1..k]]
<1>4. h[0] = <<>>
  <2>1. 1..0 = {} /\ 0 \in 0..n
    BY <1>0
  <2> QED
    BY <1>3, <2>1
<1>5. ASSUME NEW k \in 1..n PROVE h[k] = Step(h[k - 1], k)
  <2>1. /\ 1..k \in SUBSET D /\ 1..k # {} /\ k \in 0..n /\ k - 1 \in 0..n
        /\ Max(1..k) = k /\ (1..k) \ {Max(1..k)} = 1..(k - 1)
    BY <1>0, PrefixMax
  <2>2. iter[1..k] = Step(iter[1..(k - 1)], k)
    <3> HIDE DEF iter, D, Step
    <3> QED
      BY <1>3, <2>1
  <2> HIDE DEF iter, Step
  <2> QED
    BY <2>1, <2>2
<1>6. h[Len(order)] = InOrder(order, set)
  <2> HIDE DEF iter
  <2> QED
    BY <1>0, <1>1
<1> HIDE DEF h, iter
<1> QED
  BY <1>0, <1>4, <1>5, <1>6

Distinct(seq) == \A i, j \in DOMAIN seq : seq[i] = seq[j] => i = j

LEMMA AppendFacts ==
  ASSUME NEW E, NEW seq \in Seq(E), NEW e \in E
  PROVE  /\ Append(seq, e) \in Seq(E)
         /\ Range(Append(seq, e)) = Range(seq) \cup {e}
         /\ Distinct(seq) /\ e \notin Range(seq) => Distinct(Append(seq, e))
<1>1. PICK n \in Nat : n = Len(seq) /\ DOMAIN seq = 1..n
  BY LenProperties
<1>2. /\ Append(seq, e) \in Seq(E) /\ DOMAIN Append(seq, e) = 1..(n + 1)
      /\ \A i \in 1..n : Append(seq, e)[i] = seq[i]
      /\ Append(seq, e)[n + 1] = e
  BY <1>1, AppendProperties, LenProperties
<1> DEFINE app == Append(seq, e)
<1> HIDE DEF app
<1>3. Range(app) = Range(seq) \cup {e}
  <2>1. ASSUME NEW i \in 1..(n + 1) PROVE app[i] \in Range(seq) \cup {e}
    <3>1. i \in 1..n \/ i = n + 1
      OBVIOUS
    <3> QED
      BY <1>1, <1>2, <3>1 DEF Range, app
  <2>2. ASSUME NEW i \in 1..n PROVE seq[i] \in Range(app)
    <3>1. i \in 1..(n + 1)
      OBVIOUS
    <3> QED
      BY <1>2, <3>1 DEF Range, app
  <2>3. e \in Range(app)
    <3>1. n + 1 \in 1..(n + 1)
      OBVIOUS
    <3> QED
      BY <1>2, <3>1 DEF Range, app
  <2> QED
    BY <1>1, <1>2, <2>1, <2>2, <2>3 DEF Range, app
<1>4. ASSUME Distinct(seq), e \notin Range(seq) PROVE Distinct(app)
  <2> SUFFICES ASSUME NEW i \in 1..(n + 1), NEW j \in 1..(n + 1), app[i] = app[j]
               PROVE  i = j
    BY <1>2 DEF Distinct, app
  <2>1. (i \in 1..n \/ i = n + 1) /\ (j \in 1..n \/ j = n + 1)
    OBVIOUS
  <2>2. \A k \in 1..n : app[k] = seq[k] /\ seq[k] # e
    BY <1>1, <1>2, <1>4 DEF Range, app
  <2>3. app[n + 1] = e
    BY <1>2 DEF app
  <2> QED
    BY <1>1, <1>4, <2>1, <2>2, <2>3 DEF Distinct
<1> QED
  BY <1>2, <1>3, <1>4 DEF app

\* The members of the order that are in the set, each as often as in the order.
LEMMA InOrderFacts ==
  ASSUME NEW E, NEW order \in Seq(E), NEW set
  PROVE  /\ InOrder(order, set) \in Seq(E)
         /\ Range(InOrder(order, set)) = Range(order) \cap set
         /\ Distinct(order) => Distinct(InOrder(order, set))
<1>1. PICK n \in Nat : n = Len(order) /\ DOMAIN order = 1..n
  BY LenProperties
<1>2. PICK h : /\ h[0] = <<>> /\ h[n] = InOrder(order, set)
               /\ \A k \in 1..n :
                    h[k] = IF order[k] \in set THEN Append(h[k - 1], order[k]) ELSE h[k - 1]
  <2>1. \E h : /\ h[0] = <<>> /\ h[Len(order)] = InOrder(order, set)
               /\ \A k \in 1..Len(order) :
                    h[k] = IF order[k] \in set THEN Append(h[k - 1], order[k]) ELSE h[k - 1]
    BY InOrderSteps, SMTT(40)
  <2> QED
    BY <1>1, <2>1
<1> DEFINE Past(k) == {order[i] : i \in 1..k}
           P == {k \in 0..n : /\ h[k] \in Seq(E)
                              /\ Range(h[k]) = Past(k) \cap set
                              /\ Distinct(order) => Distinct(h[k])}
<1>3. 0 \in P
  <2>1. h[0] \in Seq(E) /\ Range(h[0]) = {} /\ Distinct(h[0])
    BY <1>2 DEF Range, Distinct
  <2>2. Past(0) = {} /\ 0 \in 0..n
    OBVIOUS
  <2> QED
    BY <2>1, <2>2
<1>4. ASSUME NEW k \in 1..n, k - 1 \in P PROVE k \in P
  <2>1. /\ h[k - 1] \in Seq(E) /\ Range(h[k - 1]) = Past(k - 1) \cap set
        /\ Distinct(order) => Distinct(h[k - 1])
    BY <1>4
  <2>2. Past(k) = Past(k - 1) \cup {order[k]} /\ k \in 0..n
    <3>1. 1..k = (1..(k - 1)) \cup {k} /\ k \in 0..n
      OBVIOUS
    <3> QED
      BY <3>1
  <2>3. order[k] \in E
    BY <1>1, ElementOfSeq
  <2>4. CASE order[k] \in set
    <3>1. h[k] = Append(h[k - 1], order[k])
      BY <1>2, <2>4
    <3>2. Distinct(order) => order[k] \notin Past(k - 1)
      <4>1. \A i \in 1..(k - 1) : i \in 1..n /\ i # k
        OBVIOUS
      <4> QED
        BY <1>1, <4>1 DEF Distinct
    <3>3. /\ h[k] \in Seq(E) /\ Range(h[k]) = Range(h[k - 1]) \cup {order[k]}
          /\ Distinct(order) => Distinct(h[k])
      BY <2>1, <2>3, <3>1, <3>2, AppendFacts
    <3> HIDE DEF Past
    <3> QED
      BY <2>1, <2>2, <2>4, <3>3
  <2>5. CASE order[k] \notin set
    <3>1. h[k] = h[k - 1]
      BY <1>2, <2>5
    <3> HIDE DEF Past
    <3> QED
      BY <2>1, <2>2, <2>5, <3>1
  <2> QED
    BY <2>4, <2>5
<1>5. n \in P
  <2>1. P \in SUBSET (0..n) /\ n \in 0..n
    OBVIOUS
  <2> HIDE DEF P
  <2> QED
    BY <1>3, <1>4, <2>1, Climb
<1>6. Past(n) = Range(order)
  BY <1>1 DEF Range
<1> HIDE DEF Past
<1> QED
  BY <1>2, <1>5, <1>6

\* Induction over the subsets of a finite set, as the choice of a least one.
LEMMA LeastSubset ==
  ASSUME NEW S, IsFiniteSet(S), NEW Bad \in SUBSET SUBSET S, Bad # {}
  PROVE  \E s \in Bad : \A x \in s : s \ {x} \notin Bad
<1> DEFINE R == StrictSubsetOrdering(S)
<1>1. IsWellFoundedOn(R, SUBSET S)
  <2>1. FiniteSubsetsOf(S) = SUBSET S
    BY FS_FiniteSubsetsOfFinite
  <2> QED
    BY <2>1, FS_StrictSubsetOrderingWellFounded
<1>2. PICK s \in Bad : \A u \in Bad : <<u, s>> \notin R
  <2> HIDE DEF R
  <2> QED
    BY <1>1, WFMin
<1>3. ASSUME NEW x \in s, s \ {x} \in Bad PROVE FALSE
  <2>1. <<s \ {x}, s>> \in R
    BY <1>3 DEF StrictSubsetOrdering
  <2> QED
    BY <1>2, <1>3, <2>1
<1> QED
  BY <1>3

\* A set put into an order: each member once.
LEMMA OrderedFacts ==
  ASSUME NEW S, IsFiniteSet(S)
  PROVE  Ordered(S) \in Seq(S) /\ Range(Ordered(S)) = S /\ Distinct(Ordered(S))
<1> DEFINE Pick(s) == CHOOSE x \in s : TRUE
           Iter(g) == g = [s \in SUBSET S |-> IF s = {} THEN <<>>
                                              ELSE Append(g[s \ {Pick(s)}], Pick(s))]
           iter == CHOOSE g : Iter(g)
<1>1. Ordered(S) = iter[S]
  BY DEF Ordered, FoldSet, MapThenFoldSet
<1>2. \A s \in SUBSET S : s # {} => Pick(s) \in s
  OBVIOUS
<1>3. \E g : Iter(g)
  <2> DEFINE pick == [s \in SUBSET S |-> Pick(s)]
             step == [x \in S |-> [seq \in Seq(S) |-> Append(seq, x)]]
  <2>1. \A s \in SUBSET S : s # {} => pick[s] \in s
    BY <1>2
  <2>2. ASSUME NEW x \in S, NEW seq \in Seq(S) PROVE step[x][seq] \in Seq(S)
    <3>1. Append(seq, x) \in Seq(S)
      BY AppendProperties
    <3> QED
      BY <3>1
  <2>3. <<>> \in Seq(S)
    OBVIOUS
  <2>4. PICK g \in [SUBSET S -> Seq(S)] : Steps(g, S, <<>>, pick, step)
    <3> HIDE DEF pick, step
    <3> QED
      BY <2>1, <2>2, <2>3, FoldExists
  <2>5. ASSUME NEW s \in SUBSET S, s # {}
        PROVE  step[pick[s]][g[s \ {pick[s]}]] = Append(g[s \ {Pick(s)}], Pick(s))
    <3>1. pick[s] = Pick(s) /\ Pick(s) \in S /\ g[s \ {Pick(s)}] \in Seq(S)
      BY <2>1, <2>5
    <3> QED
      BY <3>1
  <2> HIDE DEF pick, step, Pick
  <2>6. g = [s \in SUBSET S |-> IF s = {} THEN <<>> ELSE Append(g[s \ {Pick(s)}], Pick(s))]
    BY <2>4, <2>5 DEF Steps
  <2> QED
    BY <2>6
<1>4. Iter(iter)
  BY <1>3
<1> DEFINE Good(s) == iter[s] \in Seq(S) /\ Range(iter[s]) = s /\ Distinct(iter[s])
           Bad == {s \in SUBSET S : ~Good(s)}
<1>5. Bad = {}
  <2> SUFFICES ASSUME Bad # {} PROVE FALSE
    OBVIOUS
  <2>1. PICK s \in Bad : \A x \in s : s \ {x} \notin Bad
    <3>1. Bad \in SUBSET SUBSET S
      OBVIOUS
    <3> HIDE DEF Bad
    <3> QED
      BY <3>1, LeastSubset
  <2>2. CASE s = {}
    <3>1. iter[{}] = <<>>
      <4> HIDE DEF iter
      <4> QED
        BY <1>4
    <3>2. iter[s] \in Seq(S) /\ Range(iter[s]) = {} /\ Distinct(iter[s])
      <4> HIDE DEF iter
      <4> QED
        BY <2>2, <3>1 DEF Range, Distinct
    <3> QED
      BY <2>1, <2>2, <3>2
  <2>3. CASE s # {}
    <3>1. PICK x \in s : x = Pick(s)
      BY <1>2, <2>3
    <3>2. Good(s \ {x})
      BY <2>1, <3>1
    <3>3. iter[s] = Append(iter[s \ {x}], x)
      <4> HIDE DEF iter, Pick
      <4> QED
        BY <1>4, <2>3, <3>1
    <3>4. Good(s)
      <4> DEFINE front == iter[s \ {x}]
      <4>1. /\ front \in Seq(S) /\ Range(front) = s \ {x} /\ Distinct(front)
            /\ x \in S /\ iter[s] = Append(front, x)
        BY <3>2, <3>3
      <4> HIDE DEF iter, front
      <4>2. /\ iter[s] \in Seq(S) /\ Range(iter[s]) = Range(front) \cup {x}
            /\ Distinct(iter[s])
        BY <4>1, AppendFacts
      <4>3. Range(iter[s]) = s
        BY <4>1, <4>2
      <4> QED
        BY <4>2, <4>3
    <3> QED
      BY <2>1, <3>4
  <2> QED
    BY <2>2, <2>3
<1>6. Good(S)
  BY <1>5
<1> QED
  BY <1>1, <1>6

\* FlattenSeq puts one sequence after the other.
LEMMA FlattenSteps ==
  ASSUME NEW X, NEW seqs \in Seq(Seq(X))
  PROVE  \E h : /\ h[0] = <<>> /\ h[Len(seqs)] = FlattenSeq(seqs)
                /\ \A k \in 1..Len(seqs) : h[k] \in Seq(X) /\ h[k] = h[k - 1] \o seqs[k]
<1>1. PICK n \in Nat : n = Len(seqs) /\ \A i \in 1..n : seqs[i] \in Seq(X)
  BY LenProperties, ElementOfSeq
<1>2. CASE n = 0
  <2> DEFINE h == [k \in 0..0 |-> <<>>]
  <2>1. h[0] = <<>>
    OBVIOUS
  <2>2. FlattenSeq(seqs) = <<>>
    <3>1. FlattenSeq(seqs) = seqs
      BY <1>1, <1>2 DEF FlattenSeq
    <3> QED
      BY <1>1, <1>2, <3>1, EmptySeq
  <2> HIDE DEF h
  <2> QED
    BY <1>1, <1>2, <2>1, <2>2
<1>3. CASE n # 0
  <2> DEFINE Iter(f, k) == f = [i \in 1..k |-> IF i = 1 THEN seqs[i] ELSE f[i - 1] \o seqs[i]]
             P == {k \in 0..n : \E f : Iter(f, k)}
             flatten == CHOOSE f : Iter(f, n)
  <2>1. FlattenSeq(seqs) = flatten[n]
    BY <1>1, <1>3 DEF FlattenSeq
  <2>2. 0 \in P
    <3>1. Iter([i \in 1..0 |-> <<>>], 0)
      OBVIOUS
    <3> HIDE DEF Iter
    <3> QED
      BY <3>1
  <2>3. ASSUME NEW k \in 1..n, k - 1 \in P PROVE k \in P
    <3>1. PICK f : Iter(f, k - 1)
      BY <2>3
    <3> DEFINE new == IF k = 1 THEN seqs[k] ELSE f[k - 1] \o seqs[k]
               g == [i \in 1..k |-> IF i = k THEN new ELSE f[i]]
    <3>2. ASSUME NEW i \in 1..k
          PROVE  g[i] = IF i = 1 THEN seqs[i] ELSE g[i - 1] \o seqs[i]
      <4>1. CASE i = k
        <5>1. k # 1 => g[k - 1] = f[k - 1]
          OBVIOUS
        <5> QED
          BY <4>1, <5>1
      <4>2. CASE i # k
        <5>1. i \in 1..(k - 1) /\ (i # 1 => i - 1 \in 1..k /\ i - 1 # k)
          BY <4>2
        <5>2. f[i] = IF i = 1 THEN seqs[i] ELSE f[i - 1] \o seqs[i]
          BY <3>1, <5>1
        <5>3. g[i] = f[i] /\ (i # 1 => g[i - 1] = f[i - 1])
          BY <4>2, <5>1
        <5> QED
          BY <5>2, <5>3
      <4> QED
        BY <4>1, <4>2
    <3>3. g = [i \in 1..k |-> g[i]]
      OBVIOUS
    <3> HIDE DEF g, new
    <3>4. Iter(g, k)
      BY <3>2, <3>3
    <3>5. k \in 0..n
      OBVIOUS
    <3> HIDE DEF Iter
    <3> QED
      BY <3>4, <3>5
  <2>4. n \in P
    <3>1. P \in SUBSET (0..n)
      OBVIOUS
    <3>2. n \in Nat /\ n \in 0..n
      BY <1>1
    <3> HIDE DEF P
    <3>3. P = 0..n
      BY <2>2, <2>3, <3>1, <3>2, Climb
    <3> QED
      BY <3>2, <3>3
  <2>5. Iter(flatten, n)
    BY <2>4
  <2> DEFINE h == [k \in 0..n |-> IF k = 0 THEN <<>> ELSE flatten[k]]
             Q == {k \in 0..n : k # 0 => h[k] \in Seq(X) /\ h[k] = h[k - 1] \o seqs[k]}
  <2> HIDE DEF flatten, P
  <2>6. ASSUME NEW k \in 1..n, k - 1 \in Q PROVE k \in Q
    <3>1. flatten[k] = IF k = 1 THEN seqs[k] ELSE flatten[k - 1] \o seqs[k]
      BY <2>5
    <3>2. /\ h[k] = flatten[k] /\ k - 1 \in 0..n
          /\ h[k - 1] = IF k = 1 THEN <<>> ELSE flatten[k - 1]
      OBVIOUS
    <3>3. seqs[k] \in Seq(X) /\ h[k - 1] \in Seq(X)
      <4>1. CASE k = 1
        BY <1>1, <3>2, <4>1
      <4>2. CASE k # 1
        <5>1. k - 1 # 0
          BY <4>2
        <5> QED
          BY <1>1, <2>6, <5>1
      <4> QED
        BY <4>1, <4>2
    <3> HIDE DEF h
    <3>4. h[k] = h[k - 1] \o seqs[k]
      BY <3>1, <3>2, <3>3, ConcatEmptySeq
    <3>5. h[k] \in Seq(X)
      BY <3>3, <3>4, ConcatProperties
    <3>6. k \in 0..n
      OBVIOUS
    <3> QED
      BY <3>4, <3>5, <3>6
  <2>7. Q = 0..n
    <3>1. 0 \in 0..n
      BY <1>1
    <3>2. 0 \in Q
      BY <3>1
    <3>3. Q \in SUBSET (0..n)
      OBVIOUS
    <3> HIDE DEF Q
    <3> QED
      BY <1>1, <2>6, <3>2, <3>3, Climb
  <2>8. h[0] = <<>> /\ h[n] = FlattenSeq(seqs)
    <3>1. 0 \in 0..n /\ n \in 0..n
      BY <1>1
    <3> QED
      BY <1>3, <2>1, <3>1
  <2>9. ASSUME NEW k \in 1..n PROVE h[k] \in Seq(X) /\ h[k] = h[k - 1] \o seqs[k]
    <3>1. k \in 0..n /\ k # 0
      OBVIOUS
    <3>2. k \in Q
      <4> HIDE DEF Q
      <4> QED
        BY <2>7, <3>1
    <3> HIDE DEF h
    <3> QED
      BY <3>1, <3>2
  <2> HIDE DEF h, Q
  <2> QED
    BY <1>1, <2>8, <2>9
<1> QED
  BY <1>2, <1>3

\* The pieces up to the m-th, and those after it.
LEMMA FlattenFacts ==
  ASSUME NEW X, NEW seqs \in Seq(Seq(X)), NEW m \in 0..Len(seqs)
  PROVE  \E a, b \in Seq(X) :
           /\ FlattenSeq(seqs) = a \o b
           /\ \A c : c \in Range(a) <=> \E i \in 1..m : c \in Range(seqs[i])
           /\ \A c : c \in Range(b) <=> \E i \in (m + 1)..Len(seqs) : c \in Range(seqs[i])
<1>0. \A x, y, z \in Seq(X) : (x \o y) \o z = x \o (y \o z)
  BY Associates, SMTT(30)
<1>1. PICK n \in Nat : n = Len(seqs) /\ \A i \in 1..n : seqs[i] \in Seq(X)
  BY LenProperties, ElementOfSeq
<1>2. PICK h : /\ h[0] = <<>> /\ h[n] = FlattenSeq(seqs)
               /\ \A k \in 1..n : h[k] \in Seq(X) /\ h[k] = h[k - 1] \o seqs[k]
  <2>1. \E h : /\ h[0] = <<>> /\ h[Len(seqs)] = FlattenSeq(seqs)
               /\ \A k \in 1..Len(seqs) : h[k] \in Seq(X) /\ h[k] = h[k - 1] \o seqs[k]
    BY FlattenSteps
  <2> QED
    BY <1>1, <2>1
<1> DEFINE Between(l, k) == UNION {Range(seqs[i]) : i \in l..k}
           After(l, k) == \E b \in Seq(X) : h[k] = h[l] \o b /\ Range(b) = Between(l + 1, k)
           P(l) == {k \in 0..n : k >= l => After(l, k)}
<1>3. \A k \in 0..n : h[k] \in Seq(X)
  <2>1. h[0] \in Seq(X)
    BY <1>2
  <2>2. \A k \in 0..n : k = 0 \/ k \in 1..n
    OBVIOUS
  <2> QED
    BY <1>2, <2>1, <2>2
<1>4. ASSUME NEW l \in 0..n PROVE \A k \in l..n : After(l, k)
  <2>1. ASSUME NEW k \in 0..n, k = l PROVE After(l, k)
    <3>1. Between(l + 1, k) = {} /\ Range(<<>>) = {} /\ <<>> \in Seq(X)
      BY <2>1 DEF Range
    <3>2. h[k] = h[l] \o <<>>
      BY <1>3, <2>1, ConcatEmptySeq
    <3> HIDE DEF Between
    <3> QED
      BY <3>1, <3>2
  <2>2. ASSUME NEW k \in 1..n, k - 1 \in P(l), k > l PROVE After(l, k)
    <3>1. PICK b \in Seq(X) : h[k - 1] = h[l] \o b /\ Range(b) = Between(l + 1, k - 1)
      <4>1. k - 1 >= l
        BY <2>2
      <4> HIDE DEF Between
      <4> QED
        BY <2>2, <4>1
    <3>2. seqs[k] \in Seq(X) /\ h[l] \in Seq(X) /\ h[k] = h[k - 1] \o seqs[k]
      BY <1>1, <1>2, <1>3
    <3>3. h[k] = h[l] \o (b \o seqs[k])
      <4>1. (h[l] \o b) \o seqs[k] = h[l] \o (b \o seqs[k])
        BY <1>0, <3>2
      <4> QED
        BY <3>1, <3>2, <4>1
    <3>4. Between(l + 1, k) = Between(l + 1, k - 1) \cup Range(seqs[k])
      <4>1. (l + 1)..k = ((l + 1)..(k - 1)) \cup {k}
        BY <2>2
      <4> QED
        BY <4>1
    <3>5. b \o seqs[k] \in Seq(X) /\ Range(b \o seqs[k]) = Range(b) \cup Range(seqs[k])
      BY <3>2, ConcatProperties, RangeConcatenation
    <3> HIDE DEF Between
    <3> QED
      BY <3>1, <3>3, <3>4, <3>5
  <2> HIDE DEF After
  <2>3. 0 \in P(l)
    <3>1. 0 \in 0..n /\ (0 >= l => 0 = l)
      BY <1>1
    <3> QED
      BY <2>1, <3>1
  <2>4. ASSUME NEW k \in 1..n, k - 1 \in P(l) PROVE k \in P(l)
    <3>1. k \in 0..n /\ (k >= l => k > l \/ k = l)
      OBVIOUS
    <3> QED
      BY <2>1, <2>2, <2>4, <3>1
  <2>5. P(l) = 0..n
    <3>1. P(l) \in SUBSET (0..n)
      OBVIOUS
    <3> HIDE DEF P
    <3> QED
      BY <1>1, <2>3, <2>4, <3>1, Climb
  <2>6. ASSUME NEW k \in l..n PROVE After(l, k)
    <3>1. k \in 0..n /\ k >= l
      OBVIOUS
    <3>2. k \in P(l)
      <4> HIDE DEF P
      <4> QED
        BY <2>5, <3>1
    <3> QED
      BY <3>1, <3>2
  <2> QED
    BY <2>6
<1>5. 0 \in 0..n /\ m \in 0..n /\ m \in 0..n /\ n \in m..n
  BY <1>1
<1>6. After(0, m) /\ After(m, n)
  <2> HIDE DEF After
  <2>1. m \in 0..n
    BY <1>5
  <2> QED
    BY <1>4, <1>5
<1>7. PICK a \in Seq(X) : h[m] = h[0] \o a /\ Range(a) = Between(1, m)
  <2>1. 0 + 1 = 1
    OBVIOUS
  <2> HIDE DEF Between
  <2> QED
    BY <1>6, <2>1
<1>8. PICK b \in Seq(X) : h[n] = h[m] \o b /\ Range(b) = Between(m + 1, n)
  BY <1>6
<1>9. h[m] = a
  BY <1>2, <1>7, ConcatEmptySeq
<1>10. /\ \A c : c \in Range(a) <=> \E i \in 1..m : c \in Range(seqs[i])
       /\ \A c : c \in Range(b) <=> \E i \in (m + 1)..n : c \in Range(seqs[i])
  BY <1>7, <1>8
<1> QED
  BY <1>1, <1>2, <1>8, <1>9, <1>10, ZenonT(40)

-----------------------------------------------------------------------------
(* What the model proposed *)

LEMMA FieldsFacts ==
  ASSUME NEW kinds \in SUBSET STRING, NEW digests, NEW c \in Fields(kinds, digests)
  PROVE  /\ c.kind \in kinds /\ c.path \in {None} \cup Seq(STRING)
         /\ c.must \in {None} \cup BOOLEAN /\ c.command \in {None} \cup STRING
         /\ c.alias \in {None} \cup STRING /\ c.tools \in SUBSET STRING
         /\ c.needle \in {None} \cup Words /\ c.same \in {None} \cup digests
         /\ [c EXCEPT !.needle = None] \in Fields(kinds, digests)
         /\ [c EXCEPT !.must = TRUE] \in Fields(kinds, digests)
         /\ \A name \in {None} \cup STRING : [c EXCEPT !.command = name] \in Fields(kinds, digests)
  BY DEF Fields

LEMMA DictionaryFacts ==
  ASSUME NEW c \in Dictionary
  PROVE  /\ c.kind \in STRING /\ c.path \in {None} \cup Seq(STRING)
         /\ c.must \in {None} \cup BOOLEAN /\ c.command \in {None} \cup STRING
         /\ c.alias \in {None} \cup STRING /\ c.tools \in SUBSET STRING
         /\ [c EXCEPT !.needle = None] \in Dictionary
         /\ [c EXCEPT !.must = TRUE] \in Dictionary
         /\ \A name \in {None} \cup STRING : [c EXCEPT !.command = name] \in Dictionary
<1>1. PICK kinds \in SUBSET STRING, digests \in {Disk, Seq(Words)} :
        c \in Fields(kinds, digests) /\ Fields(kinds, digests) \subseteq Dictionary
  <2>1. "tree_digest" \in STRING
    BY AcceptanceAssumption DEF Kinds
  <2>2. {"tree_digest"} \in SUBSET STRING /\ STRING \ {"tree_digest"} \in SUBSET STRING
    BY <2>1
  <2> QED
    BY <2>2 DEF Dictionary
<1>2. c.kind \in kinds
  BY <1>1, FieldsFacts
<1> QED
  BY <1>1, <1>2, FieldsFacts

LEMMA KnownFacts ==
  ASSUME NEW c \in Known
  PROVE  /\ c.kind \in Kinds /\ c.path \in {None} \cup Seq(STRING)
         /\ c.must \in {None} \cup BOOLEAN /\ c.command \in {None} \cup STRING
         /\ c.alias \in {None} \cup STRING /\ c.tools \in SUBSET STRING
         /\ [c EXCEPT !.needle = None] \in Known
         /\ [c EXCEPT !.must = TRUE] \in Known
         /\ \A name \in {None} \cup STRING : [c EXCEPT !.command = name] \in Known
<1>1. c \in Dictionary /\ c.kind \in Kinds
  BY DEF Known
<1>2. /\ [c EXCEPT !.needle = None].kind = c.kind
      /\ [c EXCEPT !.must = TRUE].kind = c.kind
      /\ \A name : [c EXCEPT !.command = name].kind = c.kind
  OBVIOUS
<1>3. /\ [c EXCEPT !.needle = None] \in Dictionary /\ [c EXCEPT !.must = TRUE] \in Dictionary
      /\ \A name \in {None} \cup STRING : [c EXCEPT !.command = name] \in Dictionary
  BY <1>1, DictionaryFacts
<1>4. ASSUME NEW d, d.kind = c.kind, d \in Dictionary PROVE d \in Known
  BY <1>1, <1>4 DEF Known
<1>5. [c EXCEPT !.needle = None] \in Known /\ [c EXCEPT !.must = TRUE] \in Known
  BY <1>2, <1>3, <1>4
<1>6. \A name \in {None} \cup STRING : [c EXCEPT !.command = name] \in Known
  BY <1>2, <1>3, <1>4
<1> QED
  BY <1>1, <1>5, <1>6, DictionaryFacts

LEMMA ProposalFacts ==
  /\ Proposal \in Known
  /\ \A name \in {None} \cup STRING : Gate(name) \in Known
  /\ \A files \in Disk, path \in Paths : Pin(files, path) \in Known
<1>1. Paths \subseteq Seq(STRING)
  BY WorkspaceAssumption
<1>2. Proposal \in Dictionary
  <2>1. Proposal \in Fields(STRING \ {"tree_digest"}, Seq(Words))
    <3>1. "soft_rubric" \in STRING \ {"tree_digest"} /\ "ok" \in STRING /\ 0 \in Int
      BY AcceptanceAssumption DEF Kinds
    <3> QED
      BY <3>1 DEF Proposal, Fields
  <2> QED
    BY <2>1 DEF Dictionary
<1>3. ASSUME NEW name \in {None} \cup STRING PROVE Gate(name) \in Dictionary
  <2>1. Gate(name) \in Fields(STRING \ {"tree_digest"}, Seq(Words))
    <3>1. "command" \in STRING \ {"tree_digest"} /\ "ok" \in STRING /\ 0 \in Int
      BY AcceptanceAssumption DEF Kinds
    <3> QED
      BY <3>1 DEF Gate, Proposal, Fields
  <2> QED
    BY <2>1 DEF Dictionary
<1>4. ASSUME NEW files \in Disk, NEW path \in Paths PROVE Pin(files, path) \in Dictionary
  <2>1. /\ files[path] \in Seq(Words) \cup {None} /\ path \in Seq(STRING)
        /\ (path \in Files(files)) \in BOOLEAN
    BY <1>1 DEF Disk
  <2>2. Pin(files, path) \in Fields(STRING \ {"tree_digest"}, Seq(Words))
    <3>1. "file_diff" \in STRING \ {"tree_digest"} /\ "ok" \in STRING /\ 0 \in Int
      BY AcceptanceAssumption DEF Kinds
    <3> QED
      BY <2>1, <3>1 DEF Pin, Proposal, Fields
  <2> QED
    BY <2>2 DEF Dictionary
<1>5. /\ Proposal.kind \in Kinds
      /\ \A name : Gate(name).kind \in Kinds
      /\ \A files, path : Pin(files, path).kind \in Kinds
  BY DEF Proposal, Gate, Pin, Kinds
<1> QED
  BY <1>2, <1>3, <1>4, <1>5 DEF Known

Loose(c, ground, files) ==
  /\ c.kind = "file_diff" /\ c.needle # None
  /\ c.needle \notin ground.words
                       \cup (IF c.path \in Files(files) THEN Range(files[c.path]) ELSE {})

Loosened(c, ground, files) ==
  IF Loose(c, ground, files) THEN [c EXCEPT !.needle = None] ELSE c

Asserting(c) == c.kind = "file_diff" /\ c.must = TRUE

\* The step of Grounded for one proposal.
Looked(sofar, c, ground, files) ==
  IF Loose(c, ground, files) /\ c.path \in sofar.named /\ c.same = None THEN sofar
  ELSE [out   |-> Append(sofar.out, Loosened(c, ground, files)),
        named |-> IF Asserting(c) THEN sofar.named \cup {c.path} ELSE sofar.named]

Looks == [out : Seq(Known), named : SUBSET ({None} \cup Seq(STRING))]

LEMMA LookedType ==
  ASSUME NEW sofar \in Looks, NEW c \in Known, NEW ground, NEW files
  PROVE  Looked(sofar, c, ground, files) \in Looks
<1>1. Loosened(c, ground, files) \in Known /\ c.path \in {None} \cup Seq(STRING)
  BY KnownFacts DEF Loosened
<1>2. Append(sofar.out, Loosened(c, ground, files)) \in Seq(Known)
  <2>1. sofar.out \in Seq(Known)
    BY DEF Looks
  <2> QED
    BY <1>1, <2>1, AppendProperties
<1> QED
  BY <1>1, <1>2 DEF Looked, Looks

\* Grounded looks at one proposal after the other.
LEMMA GroundedSteps ==
  ASSUME NEW proposals \in Seq(Known), NEW ground, NEW files
  PROVE  \E h : /\ h[0] = [out |-> <<>>, named |-> {}]
                /\ h[Len(proposals)].out = Grounded(proposals, ground, files)
                /\ \A k \in 1..Len(proposals) :
                     h[k] = Looked(h[k - 1], proposals[k], ground, files)
<1> DEFINE D == DOMAIN proposals
           none == [out |-> <<>>, named |-> {}]
           Step(x, i) == Looked(x, proposals[i], ground, files)
           Iter(g) == g = [s \in SUBSET D |-> IF s = {} THEN none
                                              ELSE Step(g[s \ {Max(s)}], Max(s))]
           iter == CHOOSE g : Iter(g)
<1>1. Grounded(proposals, ground, files) = iter[D].out
  BY DEF Grounded, FoldLeft, MapThenFoldSet, Looked, Loosened, Loose, Asserting
<1>0. PICK n \in Nat : n = Len(proposals) /\ D = 1..n
  BY LenProperties
<1>2. \E g : Iter(g)
  <2> DEFINE pick == [s \in SUBSET D |-> Max(s)]
             step == [i \in D |-> [x \in Looks |-> Step(x, i)]]
  <2>1. \A s \in SUBSET D : s # {} => pick[s] \in s
    BY <1>0, MaxFacts
  <2>2. ASSUME NEW i \in D, NEW x \in Looks PROVE step[i][x] \in Looks
    <3>1. proposals[i] \in Known
      BY <1>0, ElementOfSeq
    <3>2. Step(x, i) \in Looks
      BY <3>1, LookedType
    <3> HIDE DEF Step, D
    <3> QED
      BY <3>2
  <2>3. none \in Looks /\ IsFiniteSet(D)
    BY <1>0, FS_Interval DEF Looks
  <2>4. PICK g \in [SUBSET D -> Looks] : Steps(g, D, none, pick, step)
    <3> HIDE DEF D, pick, step, none
    <3> QED
      BY <2>1, <2>2, <2>3, FoldExists
  <2>5. ASSUME NEW s \in SUBSET D, s # {}
        PROVE  step[pick[s]][g[s \ {pick[s]}]] = Step(g[s \ {Max(s)}], Max(s))
    <3>1. pick[s] = Max(s) /\ Max(s) \in D /\ g[s \ {Max(s)}] \in Looks
      BY <2>1, <2>5
    <3> HIDE DEF Step, D
    <3> QED
      BY <3>1
  <2> HIDE DEF pick, step, Step, D, none
  <2>6. g = [s \in SUBSET D |-> IF s = {} THEN none ELSE Step(g[s \ {Max(s)}], Max(s))]
    BY <2>4, <2>5 DEF Steps
  <2> QED
    BY <2>6
<1>3. Iter(iter)
  <2> HIDE DEF Iter
  <2> QED
    BY <1>2
<1> DEFINE h == [k \in 0..n |-> iter[1..k]]
<1>4. h[0] = none
  <2>1. 1..0 = {} /\ 0 \in 0..n
    BY <1>0
  <2> HIDE DEF Step, none
  <2> QED
    BY <1>3, <2>1
<1>5. ASSUME NEW k \in 1..n PROVE h[k] = Step(h[k - 1], k)
  <2>1. /\ 1..k \in SUBSET D /\ 1..k # {} /\ k \in 0..n /\ k - 1 \in 0..n
        /\ Max(1..k) = k /\ (1..k) \ {Max(1..k)} = 1..(k - 1)
    BY <1>0, PrefixMax
  <2>2. iter[1..k] = Step(iter[1..(k - 1)], k)
    <3> HIDE DEF iter, D, Step, none
    <3> QED
      BY <1>3, <2>1
  <2> HIDE DEF iter, Step
  <2> QED
    BY <2>1, <2>2
<1>6. h[n].out = Grounded(proposals, ground, files)
  <2>1. h[n] = iter[D]
    <3> HIDE DEF iter
    <3> QED
      BY <1>0
  <2> HIDE DEF h, iter
  <2> QED
    BY <1>1, <2>1
<1> HIDE DEF h, iter
<1> QED
  BY <1>0, <1>4, <1>5, <1>6

\* What is left of the proposals: nothing but them, each assertion that a file exists
\* among it, if not with its needle.
LEMMA GroundedFacts ==
  ASSUME NEW proposals \in Seq(Known), NEW ground, NEW files
  PROVE  /\ Grounded(proposals, ground, files) \in Seq(Known)
         /\ \A c \in Range(proposals) : Asserting(c) =>
              \E d \in Range(Grounded(proposals, ground, files)) :
                Asserting(d) /\ d.path = c.path
<1>1. PICK n \in Nat : n = Len(proposals) /\ DOMAIN proposals = 1..n
  BY LenProperties
<1>2. PICK h : /\ h[0] = [out |-> <<>>, named |-> {}]
               /\ h[n].out = Grounded(proposals, ground, files)
               /\ \A k \in 1..n : h[k] = Looked(h[k - 1], proposals[k], ground, files)
  <2>1. \E h : /\ h[0] = [out |-> <<>>, named |-> {}]
               /\ h[Len(proposals)].out = Grounded(proposals, ground, files)
               /\ \A k \in 1..Len(proposals) :
                    h[k] = Looked(h[k - 1], proposals[k], ground, files)
    BY GroundedSteps
  <2> QED
    BY <1>1, <2>1
<1> DEFINE Named(k) ==
             /\ \A p \in h[k].named : \E d \in Range(h[k].out) : Asserting(d) /\ d.path = p
             /\ \A i \in 1..k : Asserting(proposals[i]) => proposals[i].path \in h[k].named
           P == {k \in 0..n : h[k] \in Looks /\ Named(k)}
<1>3. 0 \in P
  <2>1. h[0] \in Looks /\ h[0].named = {}
    BY <1>2 DEF Looks
  <2>2. 0 \in 0..n /\ 1..0 = {}
    BY <1>1
  <2> QED
    BY <2>1, <2>2
<1>4. ASSUME NEW k \in 1..n, k - 1 \in P PROVE k \in P
  <2> DEFINE c == proposals[k]
             old == h[k - 1]
  <2>1. /\ c \in Known /\ old \in Looks /\ Named(k - 1)
        /\ h[k] = Looked(old, c, ground, files)
    BY <1>1, <1>2, <1>4, ElementOfSeq
  <2>2. h[k] \in Looks
    BY <2>1, LookedType
  <2>3. \A i \in 1..k : i \in 1..(k - 1) \/ i = k
    OBVIOUS
  <2>4. CASE Loose(c, ground, files) /\ c.path \in old.named /\ c.same = None
    <3>1. h[k] = old
      BY <2>1, <2>4 DEF Looked
    <3>2. Named(k)
      BY <2>1, <2>3, <2>4, <3>1
    <3>3. k \in 0..n
      OBVIOUS
    <3> QED
      BY <2>2, <3>2, <3>3
  <2>5. CASE ~(Loose(c, ground, files) /\ c.path \in old.named /\ c.same = None)
    <3> DEFINE d == Loosened(c, ground, files)
    <3>1. /\ h[k].out = Append(old.out, d)
          /\ h[k].named = IF Asserting(c) THEN old.named \cup {c.path} ELSE old.named
      BY <2>1, <2>5 DEF Looked
    <3>2. d \in Known /\ d.path = c.path /\ (Asserting(c) => Asserting(d))
      <4>1. c \in Known
        BY <2>1
      <4>2. [c EXCEPT !.needle = None] \in Known
        BY <4>1, KnownFacts
      <4>3. LET e == [c EXCEPT !.needle = None]
            IN e.path = c.path /\ e.kind = c.kind /\ e.must = c.must
        OBVIOUS
      <4> HIDE DEF c
      <4> QED
        BY <4>1, <4>2, <4>3 DEF Loosened, Asserting
    <3>3. Range(h[k].out) = Range(old.out) \cup {d}
      <4>1. old.out \in Seq(Known)
        BY <2>1 DEF Looks
      <4> HIDE DEF old, d
      <4> QED
        BY <3>1, <3>2, <4>1, AppendFacts
    <3> HIDE DEF d, c, old
    <3>4. ASSUME NEW p \in h[k].named
          PROVE  \E e \in Range(h[k].out) : Asserting(e) /\ e.path = p
      <4>1. CASE p \in old.named
        BY <2>1, <3>3, <4>1 DEF old
      <4>2. CASE p \notin old.named
        <5>1. Asserting(c) /\ p = c.path
          BY <3>1, <4>2
        <5> QED
          BY <3>2, <3>3, <5>1
      <4> QED
        BY <4>1, <4>2
    <3>5. ASSUME NEW i \in 1..k, Asserting(proposals[i])
          PROVE  proposals[i].path \in h[k].named
      <4>1. CASE i \in 1..(k - 1)
        <5>1. proposals[i].path \in old.named
          BY <2>1, <3>5, <4>1 DEF old
        <5> QED
          BY <3>1, <5>1
      <4>2. CASE i = k
        BY <3>1, <3>5, <4>2 DEF c
      <4> QED
        BY <2>3, <4>1, <4>2
    <3>6. k \in 0..n
      OBVIOUS
    <3> QED
      BY <2>2, <3>4, <3>5, <3>6
  <2> QED
    BY <2>4, <2>5
<1>5. n \in P
  <2>1. P \in SUBSET (0..n) /\ n \in 0..n
    BY <1>1
  <2> HIDE DEF P
  <2> QED
    BY <1>1, <1>3, <1>4, <2>1, Climb
<1>6. Grounded(proposals, ground, files) \in Seq(Known)
  BY <1>2, <1>5 DEF Looks
<1>7. ASSUME NEW c \in Range(proposals), Asserting(c)
      PROVE  \E d \in Range(h[n].out) : Asserting(d) /\ d.path = c.path
  <2>1. PICK i \in 1..n : c = proposals[i]
    BY <1>1 DEF Range
  <2>2. c.path \in h[n].named
    BY <1>5, <1>7, <2>1
  <2> QED
    BY <1>5, <2>2
<1> QED
  BY <1>2, <1>6, <1>7

LEMMA Single ==
  ASSUME NEW E, NEW e \in E
  PROVE  <<e>> \in Seq(E) /\ Range(<<e>>) = {e} /\ <<e>> # <<>>
  BY DEF Range

\* Every answer is a reply, or none.
LEMMA AnswersFacts == Answers \subseteq Replies \cup {None}
  BY DEF Answers, CompleteJson

LEMMA RequestFacts ==
  ASSUME NEW ground \in Requests
  PROVE  ground.file # None => ground.file.path \in Paths /\ ground.file.text \in Words
<1>1. ground.file \in [path : Paths, text : Words] \cup {None}
  BY AcceptanceAssumption
<1> QED
  BY <1>1

\* The files an analysis says must exist.
Said(ground, answer) ==
  IF ground.file = None /\ answer # None THEN Asserted(answer.criteria)
  ELSE IF ground.file # None THEN {ground.file.path} ELSE {}

LEMMA ProposalsFacts ==
  ASSUME NEW ground \in Requests, NEW answer \in Replies \cup {None}, NEW files
  PROVE  /\ Proposals(ground, answer, files) \in Seq(Known)
         /\ \A p \in Said(ground, answer) :
              \E c \in Range(Proposals(ground, answer, files)) : Asserting(c) /\ c.path = p
<1>1. CASE ground.file # None
  <2> DEFINE c == [Proposal EXCEPT !.kind = "file_diff", !.path = ground.file.path,
                                   !.must = TRUE, !.needle = ground.file.text]
  <2>1. ground.file.path \in Seq(STRING) /\ ground.file.text \in Words
    BY <1>1, RequestFacts, WorkspaceAssumption
  <2>2. c \in Fields(STRING \ {"tree_digest"}, Seq(Words)) /\ c.kind \in Kinds
    <3>1. "file_diff" \in STRING \ {"tree_digest"} /\ "ok" \in STRING /\ 0 \in Int
      BY AcceptanceAssumption DEF Kinds
    <3> QED
      BY <2>1, <3>1 DEF Proposal, Fields, Kinds
  <2>3. c \in Known
    BY <2>2 DEF Known, Dictionary
  <2>4. Asserting(c) /\ c.path = ground.file.path
    BY DEF Asserting, Proposal
  <2>5. Proposals(ground, answer, files) = <<c>>
    BY <1>1 DEF Proposals
  <2>6. Said(ground, answer) = {ground.file.path}
    BY <1>1 DEF Said
  <2> HIDE DEF c
  <2> QED
    BY <2>3, <2>4, <2>5, <2>6, Single
<1>2. CASE ground.file = None /\ answer = None
  <2>1. Proposals(ground, answer, files) = <<Rubric>> /\ Said(ground, answer) = {}
    BY <1>2 DEF Proposals, Said
  <2> QED
    BY <2>1, ProposalFacts, Single DEF Rubric
<1>3. CASE ground.file = None /\ answer # None
  <2> DEFINE all == answer.criteria
             known == InOrder(all, {c \in Range(all) : c.kind \in Kinds /\ c.shape # "none"})
             kept == Grounded(known, ground, files)
  <2>1. all \in Seq(Dictionary)
    BY <1>3, AcceptanceAssumption
  <2>2. /\ known \in Seq(Dictionary)
        /\ Range(known) = {c \in Range(all) : c.kind \in Kinds /\ c.shape # "none"}
    <3> HIDE DEF all
    <3> QED
      BY <2>1, InOrderFacts
  <2>3. known \in Seq(Known)
    <3>1. Range(known) \subseteq Known
      <4>1. Range(all) \subseteq Dictionary
        BY <2>1, RangeOfSeq
      <4> HIDE DEF all, known
      <4> QED
        BY <2>2, <4>1 DEF Known
    <3> HIDE DEF known
    <3> QED
      BY <2>2, <3>1, SeqOfRange, SeqMonotonic
  <2>4. /\ kept \in Seq(Known)
        /\ \A c \in Range(known) : Asserting(c) =>
             \E d \in Range(kept) : Asserting(d) /\ d.path = c.path
    <3> HIDE DEF known
    <3> QED
      BY <2>3, GroundedFacts
  <2>5. ASSUME NEW p \in Said(ground, answer)
        PROVE  \E c \in Range(kept) : Asserting(c) /\ c.path = p
    <3>1. PICK c \in Range(all) : Asserting(c) /\ c.path = p /\ c.shape \in {"ok", "extra"}
      BY <1>3, <2>5 DEF Said, Asserted, Asserting
    <3>2. c.kind \in Kinds /\ c.shape # "none"
      BY <3>1 DEF Asserting, Kinds
    <3> HIDE DEF all, known, kept
    <3> QED
      BY <2>2, <2>4, <3>1, <3>2
  <2>6. Proposals(ground, answer, files) = IF kept = <<>> THEN <<Rubric>> ELSE kept
    BY <1>3 DEF Proposals
  <2> HIDE DEF kept
  <2>7. CASE kept = <<>>
    <3>1. Range(kept) = {}
      BY <2>7 DEF Range
    <3>2. <<Rubric>> \in Seq(Known)
      BY ProposalFacts, Single DEF Rubric
    <3> QED
      BY <2>5, <2>6, <2>7, <3>1, <3>2
  <2>8. CASE kept # <<>>
    BY <2>4, <2>5, <2>6, <2>8
  <2> QED
    BY <2>7, <2>8
<1> QED
  BY <1>1, <1>2, <1>3

\* The members of what is put together, piece by piece.
LEMMA FlattenRange ==
  ASSUME NEW X, NEW seqs \in Seq(Seq(X))
  PROVE  /\ FlattenSeq(seqs) \in Seq(X)
         /\ \A c : c \in Range(FlattenSeq(seqs))
                   <=> \E i \in 1..Len(seqs) : c \in Range(seqs[i])
<1>1. PICK n \in Nat : n = Len(seqs)
  BY LenProperties
<1>2. n \in 0..Len(seqs) /\ (n + 1)..Len(seqs) = {}
  BY <1>1
<1>3. PICK a, b \in Seq(X) :
        /\ FlattenSeq(seqs) = a \o b
        /\ \A c : c \in Range(a) <=> \E i \in 1..n : c \in Range(seqs[i])
        /\ \A c : c \in Range(b) <=> \E i \in (n + 1)..Len(seqs) : c \in Range(seqs[i])
  BY <1>2, FlattenFacts
<1>4. a \o b \in Seq(X) /\ Range(a \o b) = Range(a) \cup Range(b)
  BY ConcatProperties, RangeConcatenation
<1> QED
  BY <1>1, <1>2, <1>3, <1>4

\* What is made of a command of no profile.
Fixed(c) ==
  IF c.kind # "command" \/ c.command \in Range(Commands) THEN <<c>>
  ELSE IF Cardinality(RunsPytest) = 1
       THEN <<[c EXCEPT !.command = CHOOSE name \in RunsPytest : TRUE]>>
       ELSE <<>>

LEMMA FixedFacts ==
  ASSUME NEW c \in Known
  PROVE  /\ Fixed(c) \in Seq(Known)
         /\ \A d \in Range(Fixed(c)) :
              /\ d.kind = c.kind /\ d.path = c.path /\ d.exit = c.exit
              /\ d.kind # "command" => d = c
         /\ c.kind # "command" => c \in Range(Fixed(c))
<1>1. CASE c.kind # "command" \/ c.command \in Range(Commands)
  BY <1>1, Single DEF Fixed
<1>2. CASE c.kind = "command" /\ c.command \notin Range(Commands) /\ Cardinality(RunsPytest) = 1
  <2> DEFINE name == CHOOSE name \in RunsPytest : TRUE
             d == [c EXCEPT !.command = name]
  <2>1. name \in STRING
    <3>1. RunsPytest # {}
      BY <1>2, FS_EmptySet
    <3>2. RunsPytest \subseteq STRING
      BY AcceptanceAssumption, RangeOfSeq
    <3> QED
      BY <3>1, <3>2
  <2>2. d \in Known /\ d.kind = c.kind /\ d.path = c.path /\ d.exit = c.exit
    <3> HIDE DEF name
    <3>1. d.kind = c.kind /\ d.path = c.path /\ d.exit = c.exit
      OBVIOUS
    <3>2. \A x \in {None} \cup STRING : [c EXCEPT !.command = x] \in Known
      BY KnownFacts
    <3> QED
      BY <2>1, <3>1, <3>2
  <2>3. Fixed(c) = <<d>>
    BY <1>2 DEF Fixed
  <2> HIDE DEF d
  <2> QED
    BY <1>2, <2>2, <2>3, Single
<1>3. CASE c.kind = "command" /\ c.command \notin Range(Commands) /\ Cardinality(RunsPytest) # 1
  <2>1. Fixed(c) = <<>>
    BY <1>3 DEF Fixed
  <2> QED
    BY <1>3, <2>1 DEF Range
<1> QED
  BY <1>1, <1>2, <1>3

\* The proposals that are no commands stay, and the commands are no more than they were.
LEMMA NormalizedFacts ==
  ASSUME NEW proposals \in Seq(Known)
  PROVE  /\ Normalized(proposals) \in Seq(Known)
         /\ \A d \in Range(Normalized(proposals)) : \E c \in Range(proposals) :
              /\ d.kind = c.kind /\ d.path = c.path /\ d.exit = c.exit
              /\ d.kind # "command" => d = c
         /\ \A c \in Range(proposals) :
              c.kind # "command" => c \in Range(Normalized(proposals))
<1>1. PICK n \in Nat : n = Len(proposals) /\ DOMAIN proposals = 1..n
  BY LenProperties
<1> DEFINE pieces == [i \in 1..n |-> Fixed(proposals[i])]
<1>2. \A i \in 1..n : proposals[i] \in Known
  BY <1>1, ElementOfSeq
<1>3. pieces \in Seq(Seq(Known)) /\ Len(pieces) = n
  BY <1>2, FixedFacts
<1>4. CASE Commands = <<>>
  BY <1>4 DEF Normalized
<1>5. CASE Commands # <<>>
  <2>1. Normalized(proposals) = FlattenSeq(pieces)
    BY <1>1, <1>5 DEF Normalized, Fixed
  <2>2. /\ FlattenSeq(pieces) \in Seq(Known)
        /\ \A c : c \in Range(FlattenSeq(pieces)) <=> \E i \in 1..n : c \in Range(pieces[i])
    <3>1. /\ FlattenSeq(pieces) \in Seq(Known)
          /\ \A c : c \in Range(FlattenSeq(pieces))
                    <=> \E i \in 1..Len(pieces) : c \in Range(pieces[i])
      <4> HIDE DEF pieces
      <4> QED
        BY <1>3, FlattenRange
    <3> QED
      BY <1>3, <3>1
  <2>3. Range(proposals) = {proposals[i] : i \in 1..n}
    BY <1>1 DEF Range
  <2>4. ASSUME NEW i \in 1..n
        PROVE  /\ \A d \in Range(pieces[i]) :
                    /\ d.kind = proposals[i].kind /\ d.path = proposals[i].path
                    /\ d.exit = proposals[i].exit
                    /\ d.kind # "command" => d = proposals[i]
               /\ proposals[i].kind # "command" => proposals[i] \in Range(pieces[i])
    <3>1. PICK c \in Known : c = proposals[i]
      BY <1>2
    <3>2. pieces[i] = Fixed(c)
      BY <3>1
    <3> HIDE DEF pieces
    <3> QED
      BY <3>1, <3>2, FixedFacts
  <2> HIDE DEF pieces
  <2> QED
    BY <2>1, <2>2, <2>3, <2>4
<1> QED
  BY <1>4, <1>5

\* What is parsed has its kind and its path, a file is asserted to be there unless it is
\* said not to be, and only what is bad or misses a field is left out.
LEMMA ParsedFacts ==
  ASSUME NEW c \in Known
  PROVE  /\ Parsed(c) \in Seq(Known)
         /\ \A d \in Range(Parsed(c)) : d.kind = c.kind
         /\ c.kind = "file_diff" /\ c.must # None /\ c.path # None /\ c.shape # "bad"
              => c \in Range(Parsed(c))
         /\ c.kind = "tree_digest" /\ c.same # None /\ c.path # None /\ c.shape # "bad"
              => c \in Range(Parsed(c))
<1> DEFINE named == IF c.command = None THEN [c EXCEPT !.command = c.alias] ELSE c
           must == IF c.must = None THEN [c EXCEPT !.must = TRUE] ELSE c
<1>1. named \in Known /\ named.kind = c.kind /\ must \in Known /\ must.kind = c.kind
  <2>1. /\ [c EXCEPT !.must = TRUE].kind = c.kind
        /\ [c EXCEPT !.command = c.alias].kind = c.kind
    OBVIOUS
  <2>2. [c EXCEPT !.must = TRUE] \in Known
    BY KnownFacts
  <2>3. [c EXCEPT !.command = c.alias] \in Known
    <3>1. c.alias \in {None} \cup STRING
      BY KnownFacts
    <3>2. \A x \in {None} \cup STRING : [c EXCEPT !.command = x] \in Known
      BY KnownFacts
    <3> QED
      BY <3>1, <3>2
  <2> QED
    BY <2>1, <2>2, <2>3
<1>2. Parsed(c) \in {<<>>, <<named>>, <<must>>, <<c>>}
  <2> HIDE DEF named, must
  <2> QED
    BY DEF Parsed, named, must
<1>3. c.kind = "file_diff" /\ c.must # None /\ c.path # None /\ c.shape # "bad"
        => Parsed(c) = <<c>>
  BY DEF Parsed
<1>4. c.kind = "tree_digest" /\ c.same # None /\ c.path # None /\ c.shape # "bad"
        => Parsed(c) = <<c>>
  BY DEF Parsed
<1>5. Range(<<>>) = {} /\ <<>> \in Seq(Known)
  BY DEF Range
<1> HIDE DEF named, must
<1>6. Parsed(c) \in Seq(Known) /\ \A d \in Range(Parsed(c)) : d.kind = c.kind
  <2>1. \A d \in {named, must, c} : <<d>> \in Seq(Known) /\ Range(<<d>>) = {d}
    BY <1>1, Single
  <2> QED
    BY <1>1, <1>2, <1>5, <2>1
<1> QED
  BY <1>3, <1>4, <1>6, Single

LEMMA SynthesizedFacts ==
  ASSUME NEW proposals \in Seq(Known)
  PROVE  /\ Synthesized(proposals) \in Seq(Known) /\ Synthesized(proposals) # <<>>
         /\ \A c \in Range(proposals) :
              c.kind = "file_diff" /\ c.must # None /\ c.path # None /\ c.shape # "bad"
                => c \in Range(Synthesized(proposals))
<1>1. PICK n \in Nat : n = Len(proposals) /\ DOMAIN proposals = 1..n
  BY LenProperties
<1> DEFINE pieces == [i \in 1..n |-> Parsed(proposals[i])]
           all == FlattenSeq(pieces)
<1>2. \A i \in 1..n : proposals[i] \in Known
  BY <1>1, ElementOfSeq
<1>3. pieces \in Seq(Seq(Known)) /\ Len(pieces) = n
  BY <1>2, ParsedFacts
<1>4. all \in Seq(Known) /\ \A c : c \in Range(all) <=> \E i \in 1..n : c \in Range(pieces[i])
  <2>1. /\ FlattenSeq(pieces) \in Seq(Known)
        /\ \A c : c \in Range(FlattenSeq(pieces))
                  <=> \E i \in 1..Len(pieces) : c \in Range(pieces[i])
    <3> HIDE DEF pieces
    <3> QED
      BY <1>3, FlattenRange
  <2> QED
    BY <1>3, <2>1
<1>5. Synthesized(proposals) = IF all = <<>> THEN <<Rubric>> ELSE all
  BY <1>1 DEF Synthesized
<1>6. <<Rubric>> \in Seq(Known) /\ <<Rubric>> # <<>>
  BY ProposalFacts, Single DEF Rubric
<1>7. ASSUME NEW c \in Range(proposals), c.kind = "file_diff", c.must # None, c.path # None,
             c.shape # "bad"
      PROVE  c \in Range(all) /\ all # <<>>
  <2>1. PICK i \in 1..n : c = proposals[i]
    BY <1>1 DEF Range
  <2>2. c \in Range(Parsed(c))
    BY <1>2, <1>7, <2>1, ParsedFacts
  <2>3. pieces[i] = Parsed(c)
    BY <2>1
  <2>4. c \in Range(all)
    <3> HIDE DEF pieces, all
    <3> QED
      BY <1>4, <2>2, <2>3
  <2> HIDE DEF all
  <2>5. Range(<<>>) = {}
    BY DEF Range
  <2> QED
    BY <2>4, <2>5
<1> HIDE DEF all, pieces
<1> QED
  BY <1>4, <1>5, <1>6, <1>7

-----------------------------------------------------------------------------
(* What the upgrade appends *)

LEMMA FirstFacts ==
  ASSUME NEW E, NEW seq \in Seq(E), NEW n \in Nat
  PROVE  First(seq, n) \in Seq(E) /\ (Len(seq) <= n => First(seq, n) = seq)
<1>1. PICK size \in Nat : size = Len(seq)
  BY LenProperties
<1> DEFINE least == Min({n, size})
<1>2. least \in Nat /\ least <= size /\ (size <= n => least = size)
  <2>1. \E x \in {n, size} : \A y \in {n, size} : x <= y
    <3>1. n <= size \/ size <= n
      BY <1>1
    <3> QED
      BY <1>1, <3>1
  <2>2. least \in {n, size} /\ \A y \in {n, size} : least <= y
    BY <2>1 DEF Min
  <2> HIDE DEF least
  <2> QED
    BY <1>1, <2>2
<1>3. First(seq, n) = SubSeq(seq, 1, least)
  BY <1>1 DEF First
<1> HIDE DEF least
<1>4. \A i \in 1..least : seq[i] \in E
  <2>1. \A i \in 1..least : i \in 1..size
    BY <1>1, <1>2
  <2> QED
    BY <1>1, <2>1, ElementOfSeq
<1>5. SubSeq(seq, 1, least) \in Seq(E)
  BY <1>2, <1>4, SubSeqProperties
<1> QED
  BY <1>1, <1>2, <1>3, <1>5, SubSeqFull

LEMMA PathOrderFacts ==
  ASSUME NEW S \in SUBSET Paths
  PROVE  InOrder(PathOrder, S) \in Seq(Paths) /\ Range(InOrder(PathOrder, S)) = S
<1> DEFINE seq == InOrder(PathOrder, S)
<1>1. PathOrder \in Seq(Paths) /\ Range(PathOrder) = Paths
  BY OrderedFacts, WorkspaceAssumption DEF PathOrder
<1>2. seq \in Seq(Paths) /\ Range(seq) = Range(PathOrder) \cap S
  BY <1>1, InOrderFacts
<1> HIDE DEF seq
<1> QED
  BY <1>1, <1>2 DEF seq

LEMMA FewFacts ==
  ASSUME NEW S \in SUBSET Paths
  PROVE  Few(S) \in Seq(Paths)
<1>1. InOrder(PathOrder, S) \in Seq(Paths) /\ MaxPins \in Nat
  BY PathOrderFacts, AcceptanceAssumption
<1> QED
  BY <1>1, FirstFacts DEF Few

LEMMA PinAllFacts ==
  ASSUME NEW files \in Disk, NEW paths \in Seq(Paths)
  PROVE  /\ PinAll(files, paths) \in Seq(Known)
         /\ Range(PinAll(files, paths)) = {Pin(files, p) : p \in Range(paths)}
<1>1. PICK n \in Nat : n = Len(paths) /\ DOMAIN paths = 1..n
  BY LenProperties
<1>2. \A i \in 1..n : Pin(files, paths[i]) \in Known
  BY <1>1, ElementOfSeq, ProposalFacts
<1>3. PinAll(files, paths) = [i \in 1..n |-> Pin(files, paths[i])]
  BY <1>1 DEF PinAll
<1>4. PinAll(files, paths) \in Seq(Known)
  BY <1>2, <1>3
<1>5. Range(PinAll(files, paths)) = {Pin(files, p) : p \in Range(paths)}
  BY <1>1, <1>3 DEF Range
<1> QED
  BY <1>4, <1>5

Digest(files) ==
  [Proposal EXCEPT !.kind = "tree_digest", !.path = Tests, !.same = TreeDigest(files, Tests)]

LEMMA DigestFacts ==
  ASSUME NEW files \in Disk, NEW dir
  PROVE  TreeDigest(files, dir) \in Disk \cup {None} /\ Digest(files) \in Known
<1>1. ASSUME NEW d PROVE TreeDigest(files, d) \in Disk \cup {None}
  <2> DEFINE tree == [p \in Paths |-> IF p \in Under(files, d) THEN files[p] ELSE None]
  <2>1. tree \in Disk
    BY DEF Disk
  <2> HIDE DEF tree
  <2>2. TreeDigest(files, d) \in {None, tree}
    BY DEF TreeDigest, tree
  <2> QED
    BY <2>1, <2>2
<1>2. Digest(files) \in Known
  <2>1. TreeDigest(files, Tests) \in Disk \cup {None}
    BY <1>1
  <2>2. "tests" \in STRING
    BY AcceptanceAssumption
  <2>3. Tests \in Seq(STRING)
    BY <2>2, Single DEF Tests
  <2>4. "ok" \in STRING /\ 0 \in Int
    BY AcceptanceAssumption
  <2>5. Digest(files) \in Fields({"tree_digest"}, Disk)
    BY <2>1, <2>3, <2>4 DEF Digest, Proposal, Fields
  <2>6. Digest(files).kind \in Kinds
    BY DEF Digest, Proposal, Kinds
  <2> QED
    BY <2>5, <2>6 DEF Known, Dictionary
<1> QED
  BY <1>1, <1>2

HasDigest(proposals) == \E i \in DOMAIN proposals : proposals[i].kind = "tree_digest"

PinKinds == {"file_diff", "tree_digest"}

\* The tests under a directory that are pinned one by one.
Singled(files) == Range(Few({p \in Under(files, Tests) : IsTest(p)})) \cup {Conftest}

LEMMA TestPinsFacts ==
  ASSUME NEW proposals, NEW files \in Disk
  PROVE  /\ TestPins(proposals, files) \in Seq(Known)
         /\ \A c \in Range(TestPins(proposals, files)) : c.kind \in PinKinds
         /\ ~IsDir(files, Tests) =>
              \A p \in Range(Few(RootTests(files))) : ~Claims(proposals, p) =>
                Pin(files, p) \in Range(TestPins(proposals, files))
         /\ IsDir(files, Tests) /\ WritesTests(proposals) =>
              \A p \in Singled(files) : ~Claims(proposals, p) =>
                Pin(files, p) \in Range(TestPins(proposals, files))
         /\ IsDir(files, Tests) /\ ~WritesTests(proposals) /\ ~HasDigest(proposals) =>
              Digest(files) \in Range(TestPins(proposals, files))
<1> DEFINE some(names) == {p \in Range(names) : ~Claims(proposals, p)}
           pins(names) == PinAll(files, InOrder(names, some(names)))
           under == {p \in Under(files, Tests) : IsTest(p)}
<1>1. ASSUME NEW names \in Seq(Paths)
      PROVE  /\ pins(names) \in Seq(Known)
             /\ \A c \in Range(pins(names)) : c.kind \in PinKinds
             /\ \A p \in Range(names) : ~Claims(proposals, p) =>
                  Pin(files, p) \in Range(pins(names))
  <2>1. /\ InOrder(names, some(names)) \in Seq(Paths)
        /\ Range(InOrder(names, some(names))) = Range(names) \cap some(names)
    BY InOrderFacts
  <2>2. /\ pins(names) \in Seq(Known)
        /\ Range(pins(names)) = {Pin(files, p) : p \in Range(names) \cap some(names)}
    BY <2>1, PinAllFacts
  <2>3. \A p : Pin(files, p).kind \in PinKinds
    BY DEF Pin, Proposal, PinKinds
  <2>4. \A p \in Range(names) : ~Claims(proposals, p) => p \in some(names)
    OBVIOUS
  <2> HIDE DEF pins, some
  <2> QED
    BY <2>2, <2>3, <2>4
<1>2. /\ Few(RootTests(files)) \in Seq(Paths) /\ Few(under) \in Seq(Paths)
      /\ <<Conftest>> \in Seq(Paths) /\ Range(<<Conftest>>) = {Conftest}
  <2>1. RootTests(files) \in SUBSET Paths /\ under \in SUBSET Paths /\ Conftest \in Paths
    BY AcceptanceAssumption DEF RootTests, Under, Files
  <2> HIDE DEF under
  <2> QED
    BY <2>1, FewFacts, Single
<1>3. TestPins(proposals, files) =
        IF ~IsDir(files, Tests) THEN pins(Few(RootTests(files)))
        ELSE IF WritesTests(proposals) THEN pins(Few(under)) \o pins(<<Conftest>>)
        ELSE IF HasDigest(proposals) THEN <<>> ELSE <<Digest(files)>>
  BY DEF TestPins, Digest, HasDigest
<1> HIDE DEF pins
<1>4. CASE ~IsDir(files, Tests)
  <2>1. TestPins(proposals, files) = pins(Few(RootTests(files)))
    BY <1>3, <1>4
  <2> QED
    BY <1>1, <1>2, <1>4, <2>1
<1>5. CASE IsDir(files, Tests) /\ WritesTests(proposals)
  <2>1. TestPins(proposals, files) = pins(Few(under)) \o pins(<<Conftest>>)
    BY <1>3, <1>5
  <2>2. Singled(files) = Range(Few(under)) \cup {Conftest}
    BY DEF Singled
  <2> HIDE DEF under
  <2>3. /\ pins(Few(under)) \in Seq(Known) /\ pins(<<Conftest>>) \in Seq(Known)
        /\ \A c \in Range(pins(Few(under))) \cup Range(pins(<<Conftest>>)) : c.kind \in PinKinds
        /\ \A p \in Singled(files) : ~Claims(proposals, p) =>
             Pin(files, p) \in Range(pins(Few(under))) \cup Range(pins(<<Conftest>>))
    BY <1>1, <1>2, <2>2
  <2>4. /\ pins(Few(under)) \o pins(<<Conftest>>) \in Seq(Known)
        /\ Range(pins(Few(under)) \o pins(<<Conftest>>))
             = Range(pins(Few(under))) \cup Range(pins(<<Conftest>>))
    BY <2>3, ConcatProperties, RangeConcatenation, ZenonT(40)
  <2> QED
    BY <1>5, <2>1, <2>3, <2>4
<1>6. CASE IsDir(files, Tests) /\ ~WritesTests(proposals) /\ HasDigest(proposals)
  <2>1. TestPins(proposals, files) = <<>>
    BY <1>3, <1>6
  <2> QED
    BY <1>6, <2>1 DEF Range
<1>7. CASE IsDir(files, Tests) /\ ~WritesTests(proposals) /\ ~HasDigest(proposals)
  <2>1. TestPins(proposals, files) = <<Digest(files)>>
    BY <1>3, <1>7
  <2>2. Digest(files) \in Known /\ Digest(files).kind \in PinKinds
    BY DigestFacts DEF Digest, Proposal, PinKinds
  <2> QED
    BY <1>7, <2>1, <2>2, Single
<1> QED
  BY <1>4, <1>5, <1>6, <1>7

LEMMA TamperPinsFacts ==
  ASSUME NEW proposals, NEW files \in Disk
  PROVE  /\ TamperPins(proposals, files) \in Seq(Known)
         /\ \A c \in Range(TamperPins(proposals, files)) : c.kind \in PinKinds
         /\ \A p \in Tampers : ~Claims(proposals, p) =>
              Pin(files, p) \in Range(TamperPins(proposals, files))
<1> DEFINE free == {p \in Tampers : ~Claims(proposals, p)}
           names == InOrder(PathOrder, free)
<1>1. names \in Seq(Paths) /\ Range(names) = free
  <2>1. free \in SUBSET Paths
    BY DEF Tampers
  <2> HIDE DEF free
  <2> QED
    BY <2>1, PathOrderFacts
<1>2. TamperPins(proposals, files) = PinAll(files, names)
  BY DEF TamperPins
<1> HIDE DEF names
<1>3. /\ PinAll(files, names) \in Seq(Known)
      /\ Range(PinAll(files, names)) = {Pin(files, p) : p \in Range(names)}
  BY <1>1, PinAllFacts
<1>4. \A p : Pin(files, p).kind \in PinKinds
  BY DEF Pin, Proposal, PinKinds
<1> QED
  BY <1>1, <1>2, <1>3, <1>4

LEMMA PytestFacts == RunsPytest # {} => Pytest \in STRING
<1> SUFFICES ASSUME RunsPytest # {} PROVE Pytest \in STRING
  OBVIOUS
<1>1. PICK n \in Nat : n = Len(Commands) /\ DOMAIN Commands = 1..n
  BY AcceptanceAssumption, LenProperties
<1> DEFINE runs == {i \in 1..n : Commands[i] \in RunsPytest}
<1>2. runs \in SUBSET Nat /\ runs # {}
  <2>1. RunsPytest \subseteq Range(Commands)
    BY AcceptanceAssumption
  <2> QED
    BY <1>1, <2>1 DEF Range
<1>3. \E i \in runs : \A j \in runs : i <= j
  <2> HIDE DEF runs
  <2> QED
    BY <1>2, LeastMember
<1>4. PICK i \in 1..n : Pytest = Commands[i]
  <2> DEFINE Least(i) == /\ Commands[i] \in RunsPytest
                         /\ \A j \in DOMAIN Commands : Commands[j] \in RunsPytest => i <= j
  <2>1. \E i \in DOMAIN Commands : Least(i)
    BY <1>1, <1>3
  <2>2. Pytest = Commands[CHOOSE i \in DOMAIN Commands : Least(i)]
    BY DEF Pytest
  <2> HIDE DEF Least
  <2> QED
    BY <1>1, <2>1, <2>2
<1> QED
  BY <1>1, <1>4, AcceptanceAssumption, ElementOfSeq

\* The upgrade: the proposals, a command, a rubric, and then nothing but pins.
LEMMA UpgradedFacts ==
  ASSUME NEW proposals \in Seq(Known), NEW ground \in Requests, NEW files \in Disk
  PROVE  /\ Upgraded(proposals, ground, files) \in Seq(Known)
         /\ Range(proposals) \subseteq Range(Upgraded(proposals, ground, files))
         /\ Upgradable(ground, files) =>
              \E front, pins \in Seq(Known) :
                /\ Upgraded(proposals, ground, files) = front \o pins
                /\ \A c \in Range(pins) : c.kind \in PinKinds
                /\ Range(pins) = Range(TestPins(proposals, files))
                                   \cup Range(TamperPins(proposals, files))
<1>1. CASE ~Upgradable(ground, files)
  BY <1>1 DEF Upgraded
<1>2. CASE Upgradable(ground, files)
  <2> DEFINE suite == SuiteGate(proposals)
             judged == Judged(proposals)
             tests == TestPins(proposals, files)
             tampers == TamperPins(proposals, files)
             front == (proposals \o suite) \o judged
             pins == tests \o tampers
  <2>1. suite \in Seq(Known)
    <3>1. Pytest \in STRING
      BY <1>2, PytestFacts DEF Upgradable, Pytest
    <3>2. Gate(Pytest) \in Known
      BY <3>1, ProposalFacts
    <3> QED
      BY <3>2, Single DEF SuiteGate
  <2>2. judged \in Seq(Known)
    BY ProposalFacts, Single DEF Judged, Rubric
  <2>3. tests \in Seq(Known) /\ \A c \in Range(tests) : c.kind \in PinKinds
    BY TestPinsFacts
  <2>4. tampers \in Seq(Known) /\ \A c \in Range(tampers) : c.kind \in PinKinds
    BY TamperPinsFacts
  <2>5. Upgraded(proposals, ground, files) = (front \o tests) \o tampers
    BY <1>2 DEF Upgraded
  <2> HIDE DEF suite, judged, tests, tampers
  <2>6. /\ front \in Seq(Known)
        /\ Range(front) = Range(proposals) \cup Range(suite) \cup Range(judged)
    <3>1. /\ proposals \o suite \in Seq(Known)
          /\ Range(proposals \o suite) = Range(proposals) \cup Range(suite)
      BY <2>1, ConcatProperties, RangeConcatenation
    <3>2. PICK most \in Seq(Known) :
            most = proposals \o suite /\ Range(most) = Range(proposals) \cup Range(suite)
      BY <3>1
    <3>3. most \o judged \in Seq(Known) /\ Range(most \o judged) = Range(most) \cup Range(judged)
      BY <2>2, ConcatProperties, RangeConcatenation
    <3> QED
      BY <3>2, <3>3
  <2>7. pins \in Seq(Known) /\ Range(pins) = Range(tests) \cup Range(tampers)
    BY <2>3, <2>4, ConcatProperties, RangeConcatenation
  <2> HIDE DEF front
  <2>8. (front \o tests) \o tampers = front \o pins
    BY <2>3, <2>4, <2>6, Associates
  <2> HIDE DEF pins
  <2>9. front \o pins \in Seq(Known) /\ Range(front \o pins) = Range(front) \cup Range(pins)
    BY <2>6, <2>7, ConcatProperties, RangeConcatenation
  <2>10. \A c \in Range(pins) : c.kind \in PinKinds
    BY <2>3, <2>4, <2>7
  <2> QED
    BY <2>5, <2>6, <2>7, <2>8, <2>9, <2>10 DEF tests, tampers
<1> QED
  BY <1>1, <1>2

\* What is made of the pins comes last, and nothing comes of them but pins.
LEMMA SynthesizedSplit ==
  ASSUME NEW front \in Seq(Known), NEW pins \in Seq(Known),
         \A c \in Range(pins) : c.kind \in PinKinds
  PROVE  \E a, b \in Seq(Known) :
           /\ \A c \in Range(b) : c.kind \in PinKinds
           /\ \A c \in Range(pins) : c \in Range(Parsed(c)) => c \in Range(b)
           /\ b # <<>> => Synthesized(front \o pins) = a \o b
<1>1. PICK n, m \in Nat : /\ n = Len(pins) /\ DOMAIN pins = 1..n
                         /\ m = Len(front) /\ DOMAIN front = 1..m
  BY LenProperties
<1> DEFINE all == front \o pins
<1>2. /\ all \in Seq(Known) /\ DOMAIN all = 1..(m + n)
      /\ \A i \in 1..(m + n) : all[i] = IF i <= m THEN front[i] ELSE pins[i - m]
  <2>1. /\ all \in Seq(Known) /\ Len(all) = m + n
        /\ \A i \in 1..(m + n) : all[i] = IF i <= m THEN front[i] ELSE pins[i - m]
    BY <1>1, ConcatProperties
  <2> HIDE DEF all
  <2> QED
    BY <2>1, LenProperties
<1> HIDE DEF all
<1> DEFINE pieces == [i \in 1..(m + n) |-> Parsed(all[i])]
<1>3. \A i \in 1..(m + n) : all[i] \in Known
  BY <1>2, LenProperties, ElementOfSeq
<1>4. pieces \in Seq(Seq(Known)) /\ Len(pieces) = m + n
  BY <1>1, <1>3, ParsedFacts
<1>5. PICK a, b \in Seq(Known) :
        /\ FlattenSeq(pieces) = a \o b
        /\ \A c : c \in Range(b) <=> \E i \in (m + 1)..(m + n) : c \in Range(pieces[i])
  <2>1. m \in 0..Len(pieces)
    BY <1>1, <1>4
  <2> HIDE DEF pieces
  <2>2. PICK a, b \in Seq(Known) :
          /\ FlattenSeq(pieces) = a \o b
          /\ \A c : c \in Range(a) <=> \E i \in 1..m : c \in Range(pieces[i])
          /\ \A c : c \in Range(b) <=> \E i \in (m + 1)..Len(pieces) : c \in Range(pieces[i])
    BY <1>4, <2>1, FlattenFacts
  <2> QED
    BY <1>4, <2>2
<1>6. ASSUME NEW i \in (m + 1)..(m + n)
      PROVE  /\ i - m \in 1..n /\ pieces[i] = Parsed(pins[i - m])
             /\ pins[i - m] \in Known /\ pins[i - m] \in Range(pins)
  <2>1. i \in 1..(m + n) /\ ~(i <= m) /\ i - m \in 1..n
    BY <1>1
  <2>2. pieces[i] = Parsed(pins[i - m])
    BY <1>2, <2>1
  <2>3. pins[i - m] \in Known /\ pins[i - m] \in Range(pins)
    BY <1>1, <2>1, ElementOfSeq DEF Range
  <2> QED
    BY <2>1, <2>2, <2>3
<1>7. ASSUME NEW c \in Range(b) PROVE c.kind \in PinKinds
  <2>1. PICK i \in (m + 1)..(m + n) : c \in Range(pieces[i])
    BY <1>5
  <2>2. PICK d \in Known : d = pins[i - m] /\ d \in Range(pins) /\ pieces[i] = Parsed(d)
    BY <1>6
  <2>3. c.kind = d.kind
    <3> HIDE DEF pieces
    <3> QED
      BY <2>1, <2>2, ParsedFacts
  <2> QED
    BY <2>2, <2>3
<1>8. ASSUME NEW c \in Range(pins), c \in Range(Parsed(c)) PROVE c \in Range(b)
  <2>1. PICK j \in 1..n : c = pins[j]
    BY <1>1 DEF Range
  <2>2. PICK i \in (m + 1)..(m + n) : i - m = j
    <3>1. j + m \in (m + 1)..(m + n) /\ (j + m) - m = j
      BY <1>1
    <3> QED
      BY <3>1
  <2>3. pieces[i] = Parsed(c)
    BY <1>6, <2>1, <2>2
  <2> HIDE DEF pieces
  <2> QED
    BY <1>5, <1>8, <2>3
<1>9. ASSUME b # <<>> PROVE Synthesized(front \o pins) = a \o b
  <2>1. Synthesized(all) = IF FlattenSeq(pieces) = <<>> THEN <<Rubric>> ELSE FlattenSeq(pieces)
    BY <1>2 DEF Synthesized
  <2>2. a \o b # <<>>
    BY <1>9, ConcatEqualIffEmpty
  <2> QED
    BY <1>5, <2>1, <2>2 DEF all
<1> QED
  BY <1>7, <1>8, <1>9

-----------------------------------------------------------------------------
(* The files *)

LEMMA StoreFacts ==
  ASSUME NEW files \in Disk, NEW path, NEW content \in Seq(Words), NEW exists
  PROVE  Store(files, path, content, exists).disk \in Disk
<1>1. [files EXCEPT ![path] = content] \in Disk
  BY DEF Disk
<1>2. Store(files, path, content, exists).disk \in {files, [files EXCEPT ![path] = content]}
  BY DEF Store
<1> QED
  BY <1>1, <1>2

LEMMA ReplaceFacts ==
  ASSUME NEW files \in Disk, NEW path \in Paths, NEW old, NEW new \in Words
  PROVE  Replace(files, path, old, new).disk \in Disk
<1>1. CASE path \notin Files(files)
  BY <1>1 DEF Replace, Refused
<1>2. CASE path \in Files(files)
  <2>1. files[path] \in Seq(Words)
    BY <1>2 DEF Files, Disk
  <2>2. Substitute(files[path], old, new) \in Seq(Words)
    <3>1. PICK content \in Seq(Words) : content = files[path]
      BY <2>1
    <3>2. \A i : [content EXCEPT ![i] = new] \in Seq(Words)
      <4>1. PICK n \in Nat : content \in [1..n -> Words]
        BY LenProperties
      <4>2. \A i : [content EXCEPT ![i] = new] \in [1..n -> Words]
        BY <4>1
      <4>3. [1..n -> Words] \subseteq Seq(Words)
        BY SeqDef
      <4> QED
        BY <4>2, <4>3
    <3> QED
      BY <3>1, <3>2 DEF Substitute
  <2>3. Store(files, path, Substitute(files[path], old, new), TRUE).disk \in Disk
    BY <2>2, StoreFacts
  <2> QED
    BY <2>3 DEF Replace, Refused
<1> QED
  BY <1>1, <1>2

LEMMA TouchedFacts ==
  ASSUME NEW files \in Disk
  PROVE  Touched(files) \subseteq Disk
<1>1. ASSUME NEW s \in Scribbles PROVE [files EXCEPT ![s.path] = s.new] \in Disk
  BY AcceptanceAssumption DEF Disk
<1> QED
  BY <1>1 DEF Touched

-----------------------------------------------------------------------------
(* Type correctness *)

LEMMA EmptyFacts ==
  ASSUME NEW E
  PROVE  /\ <<>> \in Seq(E) /\ Len(<<>>) = 0
         /\ DOMAIN <<>> = {} /\ <<>> \in [DOMAIN <<>> -> E]
<1>1. <<>> \in Seq(E) /\ Len(<<>>) = 0
  OBVIOUS
<1>2. <<>> \in [1..0 -> E]
  BY <1>1, LenProperties
<1> QED
  BY <1>1, <1>2

LEMMA TypesInit == Init => TypeOK
<1> SUFFICES ASSUME Init PROVE TypeOK
  OBVIOUS
<1>1. <<>> \in Seq(Known) /\ <<>> \in Seq(BOOLEAN) /\ Len(<<>>) = 0
  OBVIOUS
<1>2. DOMAIN soft = {} /\ soft \in [DOMAIN soft -> BOOLEAN]
  <2>1. soft \in [1..0 -> BOOLEAN]
    BY <1>1, LenProperties DEF Init
  <2> QED
    BY <2>1
<1>3. disk \in Disk
  BY AcceptanceAssumption DEF Init
<1>4. 0 \in 0..MaxEdits /\ 0 \in 0..MaxRestarts
  BY AcceptanceAssumption
<1>5. {called, audit, ran} \subseteq SUBSET {"write", "create", "replace", "cmd"}
  BY DEF Init
<1>6. /\ proposed \in Seq(Known) /\ criteria \in Seq(Known)
      /\ hard \in Seq(BOOLEAN) /\ Len(hard) <= Len(criteria)
  <2>1. hard = <<>> /\ criteria = <<>> /\ proposed = <<>>
    BY DEF Init
  <2>2. Len(<<>>) <= Len(<<>>)
    BY <1>1
  <2> QED
    BY <1>1, <2>1, <2>2
<1>7. /\ ambiguous \in BOOLEAN /\ threshold \in Int
      /\ reason \in {"", "analysis", "tree", "threshold", "counter", "invalid"}
      /\ left \in 0..2 /\ left # 0 /\ exceeded \in BOOLEAN /\ intact \subseteq Paths
      /\ edits \in 0..MaxEdits /\ restarts \in 0..MaxRestarts
  <2>1. left \in 1..2
    BY DEF Init
  <2>2. edits = 0 /\ restarts = 0 /\ threshold = 1
    BY DEF Init
  <2>3. /\ ambiguous \in BOOLEAN /\ exceeded \in BOOLEAN /\ intact \subseteq Paths
        /\ reason \in {"", "analysis", "tree", "threshold", "counter", "invalid"}
    BY DEF Init
  <2>4. left \in 0..2 /\ left # 0
    BY <2>1
  <2>5. edits \in 0..MaxEdits /\ restarts \in 0..MaxRestarts /\ threshold \in Int
    BY <1>4, <2>2
  <2> QED
    BY <2>3, <2>4, <2>5
<1>8. /\ phase = "compiling" /\ request \in Requests /\ compiled \in Disk
      /\ hard = <<>> /\ soft = <<>>
  BY <1>3 DEF Init
<1> QED
  BY <1>2, <1>3, <1>5, <1>6, <1>7, <1>8 DEF TypeOK

LEMMA AnalyseTypes == TypeOK /\ Analyse => TypeOK'
<1> SUFFICES ASSUME TypeOK, Analyse PROVE TypeOK'
  OBVIOUS
<1>1. PICK answer \in Replies \cup {None}, unclear \in BOOLEAN :
        LET asked == request.file = None /\ answer # None
        IN /\ proposed' = Proposals(request, answer, disk)
           /\ ambiguous' = ((request.file = None /\ unclear) \/ (asked /\ answer.ambiguous))
           /\ threshold' = IF asked THEN answer.threshold ELSE threshold
           /\ IF asked /\ answer.malformed
                THEN Raise("analysis") ELSE phase' = "analysed" /\ UNCHANGED reason
  BY AnswersFacts DEF Analyse
<1>2. proposed' \in Seq(Known)
  BY <1>1, ProposalsFacts DEF TypeOK
<1>3. ambiguous' \in BOOLEAN /\ threshold' \in Int
  BY <1>1, AcceptanceAssumption DEF TypeOK
<1>4. /\ phase' \in {"analysed", "rejected"} /\ left # 0
      /\ reason' \in {reason, "analysis"}
  BY <1>1 DEF Analyse, TypeOK, Raise, Verdicts
<1>5. /\ request' = request /\ disk' = disk /\ compiled' = disk /\ criteria' = criteria
      /\ hard' = hard /\ soft' = soft /\ intact' = intact /\ exceeded' = exceeded
      /\ left' = left /\ called' = called /\ audit' = audit /\ ran' = ran
      /\ edits' = edits /\ restarts' = restarts
  BY DEF Analyse, work, gates
<1>6. hard = <<>> /\ soft = <<>>
  BY DEF Analyse, TypeOK, Verdicts
<1> QED
  BY <1>2, <1>3, <1>4, <1>5, <1>6 DEF TypeOK

LEMMA ProposeTypes == TypeOK /\ Propose => TypeOK'
<1> SUFFICES ASSUME TypeOK, Propose PROVE TypeOK'
  OBVIOUS
<1> DEFINE kept == Normalized(proposed)
           made == Synthesized(Upgraded(kept, request, disk))
<1>1. made \in Seq(Known) /\ made # <<>>
  <2>1. kept \in Seq(Known)
    BY NormalizedFacts DEF TypeOK
  <2>2. Upgraded(kept, request, disk) \in Seq(Known)
    <3> HIDE DEF kept
    <3> QED
      BY <2>1, UpgradedFacts DEF TypeOK
  <2> QED
    BY <2>2, SynthesizedFacts
<1> HIDE DEF made, kept
<1>2. /\ phase' \in {"proposed", "rejected"} /\ criteria' \in {criteria, made}
      /\ reason' \in {reason, "tree", "threshold"}
  BY DEF Propose, Raise, made, kept
<1>3. left # 0 /\ hard = <<>> /\ soft = <<>>
  BY DEF Propose, TypeOK, Verdicts
<1>4. criteria' \in Seq(Known) /\ hard' = <<>> /\ soft' = <<>> /\ left' # 0
  BY <1>1, <1>2, <1>3 DEF Propose, TypeOK, gates, work
<1>5. Len(hard') <= Len(criteria') /\ DOMAIN soft' = {} /\ soft' \in [DOMAIN soft' -> BOOLEAN]
  <2>1. Len(criteria') \in Nat
    BY <1>4, LenProperties
  <2> QED
    BY <1>4, <2>1, EmptyFacts
<1> QED
  BY <1>2, <1>4, <1>5 DEF TypeOK, Propose, work, gates, Compiled

LEMMA FalsifyTypes == TypeOK /\ Falsify => TypeOK'
<1> SUFFICES ASSUME TypeOK, Falsify PROVE TypeOK'
  OBVIOUS
<1>1. phase' \in {"sound", "rejected"} /\ reason' \in {reason, "counter"}
  BY DEF Falsify, Raise
<1>2. left # 0 /\ hard = <<>> /\ soft = <<>>
  BY DEF Falsify, TypeOK, Verdicts
<1>3. UNCHANGED <<request, disk, proposed, ambiguous, threshold, criteria, compiled, left, called,
                  audit, edits, restarts, ran, hard, soft, intact, exceeded>>
  BY DEF Falsify, work, gates
<1> QED
  BY <1>1, <1>2, <1>3 DEF TypeOK, Compiled

LEMMA ValidateTypes == TypeOK /\ Validate => TypeOK'
<1> SUFFICES ASSUME TypeOK, Validate PROVE TypeOK'
  OBVIOUS
<1>1. phase' \in {"working", "rejected"} /\ reason' \in {reason, "invalid"}
  BY DEF Validate, Raise
<1>2. left # 0 /\ hard = <<>> /\ soft = <<>>
  BY DEF Validate, TypeOK, Verdicts
<1>3. UNCHANGED <<request, disk, proposed, ambiguous, threshold, criteria, compiled, left, called,
                  audit, edits, restarts, ran, hard, soft, intact, exceeded>>
  BY DEF Validate, work, gates
<1> QED
  BY <1>1, <1>2, <1>3 DEF TypeOK, Compiled

LEMMA EditTypes == TypeOK /\ Edit => TypeOK'
<1> SUFFICES ASSUME TypeOK, Edit PROVE TypeOK'
  OBVIOUS
<1>1. PICK e \in Edits :
        /\ disk' = (CASE e.tool = "write"   -> Write(disk, e.path, e.new)
                      [] e.tool = "create"  -> Create(disk, e.path, e.new)
                      [] e.tool = "replace" -> Replace(disk, e.path, e.old, e.new)).disk
        /\ Called(e.tool)
  BY DEF Edit
<1>2. /\ e.tool \in {"write", "create", "replace"} /\ e.path \in Paths
      /\ e.tool \in {"write", "create"} => e.new \in Seq(Words)
      /\ e.tool = "replace" => e.new \in Words
  BY AcceptanceAssumption
<1>3. disk' \in Disk
  <2>1. disk \in Disk
    BY DEF TypeOK
  <2>2. CASE e.tool = "write"
    <3>1. disk' = Store(disk, e.path, e.new, None).disk
      BY <1>1, <2>2 DEF Write
    <3> QED
      BY <1>2, <2>1, <2>2, <3>1, StoreFacts
  <2>3. CASE e.tool = "create"
    <3>1. disk' = Store(disk, e.path, e.new, FALSE).disk
      BY <1>1, <2>3 DEF Create
    <3> QED
      BY <1>2, <2>1, <2>3, <3>1, StoreFacts
  <2>4. CASE e.tool = "replace"
    <3>1. disk' = Replace(disk, e.path, e.old, e.new).disk
      BY <1>1, <2>4
    <3> QED
      BY <1>2, <2>1, <2>4, <3>1, ReplaceFacts
  <2> QED
    BY <1>2, <2>2, <2>3, <2>4
<1>4. {called', ran'} \subseteq SUBSET {"write", "create", "replace", "cmd"}
  BY <1>1, <1>2 DEF Called, TypeOK
<1>5. edits' \in 0..MaxEdits
  <2>1. MaxEdits \in Nat
    BY AcceptanceAssumption
  <2>2. edits \in 0..MaxEdits /\ edits < MaxEdits /\ edits' = edits + 1
    BY DEF Edit, TypeOK
  <2> QED
    BY <2>1, <2>2
<1>6. UNCHANGED <<phase, request, proposed, ambiguous, threshold, criteria, reason, compiled, left,
                  audit, restarts, hard, soft, intact, exceeded>>
  BY DEF Edit, compile, gates
<1> QED
  BY <1>3, <1>4, <1>5, <1>6 DEF TypeOK

LEMMA RunCommandTypes == TypeOK /\ RunCommand => TypeOK'
<1> SUFFICES ASSUME TypeOK, RunCommand PROVE TypeOK'
  OBVIOUS
<1>1. disk' \in Disk
  BY TouchedFacts DEF RunCommand, TypeOK
<1>2. {called', ran'} \subseteq SUBSET {"write", "create", "replace", "cmd"}
  BY DEF RunCommand, Called, TypeOK
<1>3. edits' \in 0..MaxEdits
  <2>1. MaxEdits \in Nat
    BY AcceptanceAssumption
  <2>2. edits \in 0..MaxEdits /\ edits < MaxEdits /\ edits' = edits + 1
    BY DEF RunCommand, TypeOK
  <2> QED
    BY <2>1, <2>2
<1>4. UNCHANGED <<phase, request, proposed, ambiguous, threshold, criteria, reason, compiled, left,
                  audit, restarts, hard, soft, intact, exceeded>>
  BY DEF RunCommand, compile, gates
<1> QED
  BY <1>1, <1>2, <1>3, <1>4 DEF TypeOK

LEMMA CompactTypes == TypeOK /\ Compact => TypeOK'
<1> SUFFICES ASSUME TypeOK, Compact PROVE TypeOK'
  OBVIOUS
<1>1. called' \subseteq called
  BY DEF Compact
<1>2. UNCHANGED <<phase, request, disk, proposed, ambiguous, threshold, criteria, reason, compiled,
                  left, audit, edits, restarts, ran, hard, soft, intact, exceeded>>
  BY DEF Compact, compile, gates
<1> QED
  BY <1>1, <1>2 DEF TypeOK

LEMMA CompleteCellTypes == TypeOK /\ CompleteCell => TypeOK'
<1> SUFFICES ASSUME TypeOK, CompleteCell PROVE TypeOK'
  OBVIOUS
<1>1. left \in 1..2 /\ hard = <<>> /\ soft = <<>>
  <2>1. left # 0 /\ left \in 0..2 /\ hard = <<>> /\ soft = <<>>
    BY DEF CompleteCell, TypeOK, Verdicts
  <2> QED
    BY <2>1
<1>2. /\ left' \in 0..2 /\ phase' \in {"working", "verifying"}
      /\ left' = 0 => phase' = "verifying"
  <2>1. /\ left' = left - 1 /\ phase = "working"
        /\ phase' = IF left = 1 THEN "verifying" ELSE phase
    BY DEF CompleteCell
  <2> QED
    BY <1>1, <2>1
<1>3. {called', audit', ran'} \subseteq SUBSET {"write", "create", "replace", "cmd"}
  BY DEF CompleteCell, TypeOK
<1>4. exceeded' \in BOOLEAN
  BY DEF CompleteCell, TypeOK
<1>5. UNCHANGED <<request, disk, proposed, ambiguous, threshold, criteria, reason, compiled,
                  edits, restarts, hard, soft, intact>>
  BY DEF CompleteCell, compile, gates
<1> QED
  BY <1>1, <1>2, <1>3, <1>4, <1>5 DEF TypeOK, Compiled

LEMMA FailAttemptTypes == TypeOK /\ FailAttempt => TypeOK'
<1> SUFFICES ASSUME TypeOK, FailAttempt PROVE TypeOK'
  OBVIOUS
<1>1. called' \in {called, {}}
  BY DEF FailAttempt
<1>2. restarts' \in 0..MaxRestarts
  <2>1. MaxRestarts \in Nat
    BY AcceptanceAssumption
  <2>2. restarts \in 0..MaxRestarts /\ restarts < MaxRestarts /\ restarts' = restarts + 1
    BY DEF FailAttempt, TypeOK
  <2> QED
    BY <2>1, <2>2
<1>3. UNCHANGED <<phase, request, disk, proposed, ambiguous, threshold, criteria, reason, compiled,
                  left, audit, edits, ran, hard, soft, intact, exceeded>>
  BY DEF FailAttempt, compile, gates
<1> QED
  BY <1>1, <1>2, <1>3 DEF TypeOK

LEMMA ResumeTypes == TypeOK /\ Resume => TypeOK'
<1> SUFFICES ASSUME TypeOK, Resume PROVE TypeOK'
  OBVIOUS
<1>1. called' \in {called, {}} /\ audit' = {} /\ intact' = {} /\ hard' = <<>> /\ soft' = <<>>
  BY DEF Resume
<1>2. restarts' \in 0..MaxRestarts
  <2>1. MaxRestarts \in Nat
    BY AcceptanceAssumption
  <2>2. restarts \in 0..MaxRestarts /\ restarts < MaxRestarts /\ restarts' = restarts + 1
    BY DEF Resume, TypeOK
  <2> QED
    BY <2>1, <2>2
<1>3. UNCHANGED <<request, disk, proposed, ambiguous, threshold, criteria, reason, compiled,
                  left, edits, ran, exceeded>>
  BY DEF Resume, compile
<1>4. phase' \in {"working", "verifying"} /\ (left' = 0 => phase' = "verifying")
  BY <1>3 DEF Resume
<1>5. Len(hard') <= Len(criteria')
  <2>1. Len(criteria') \in Nat
    BY <1>3, LenProperties DEF TypeOK
  <2> QED
    BY <1>1, <2>1, EmptyFacts
<1>6. hard' \in Seq(BOOLEAN) /\ DOMAIN soft' = {} /\ soft' \in [DOMAIN soft' -> BOOLEAN]
  BY <1>1, EmptyFacts
<1> QED
  BY <1>1, <1>2, <1>3, <1>4, <1>5, <1>6 DEF TypeOK, Compiled

LEMMA CheckTypes == TypeOK /\ Check => TypeOK'
<1> SUFFICES ASSUME TypeOK, Check PROVE TypeOK'
  OBVIOUS
<1>1. PICK bit \in BOOLEAN : hard' = Append(hard, bit)
  <2> DEFINE c == criteria[Len(hard) + 1]
  <2>1. \/ \E code \in {0, 1, None} : hard' = Append(hard, code = c.exit)
        \/ hard' = Append(hard, FALSE)
        \/ \E artifact, crash \in BOOLEAN :
             hard' = Append(hard, ~crash /\ Holds(disk, c, audit, artifact))
    BY DEF Check
  <2>2. \A x, y : (x /\ y) \in BOOLEAN /\ (x = y) \in BOOLEAN
    OBVIOUS
  <2> QED
    BY <2>1, <2>2
<1>2. hard' \in Seq(BOOLEAN) /\ Len(hard') <= Len(criteria)
  <2>1. hard' \in Seq(BOOLEAN) /\ Len(hard') = Len(hard) + 1
    <3>1. hard \in Seq(BOOLEAN)
      BY DEF TypeOK
    <3>2. Append(hard, bit) \in Seq(BOOLEAN) /\ Len(Append(hard, bit)) = Len(hard) + 1
      BY <3>1, AppendProperties
    <3> QED
      BY <1>1, <3>2
  <2>2. Len(hard) \in Nat /\ Len(criteria) \in Nat /\ Len(hard) < Len(criteria)
    BY LenProperties DEF TypeOK, Check
  <2> QED
    BY <2>1, <2>2
<1>3. disk' \in Disk
  BY TouchedFacts DEF Check, TypeOK
<1>4. intact' \subseteq Paths
  BY DEF Check, TypeOK, SameAsCompiled
<1>5. phase = "verifying"
      /\ UNCHANGED <<phase, request, proposed, ambiguous, threshold, criteria, reason, compiled,
                     left, called, audit, edits, restarts, ran, soft, exceeded>>
  BY DEF Check, compile, work
<1> QED
  BY <1>2, <1>3, <1>4, <1>5 DEF TypeOK

LEMMA ReviewTypes == TypeOK /\ Review => TypeOK'
<1> SUFFICES ASSUME TypeOK, Review PROVE TypeOK'
  OBVIOUS
<1>1. PICK i, votes :
        /\ i \in Soft(criteria) \ DOMAIN soft
        /\ soft' = [j \in DOMAIN soft \cup {i} |-> IF j = i THEN Accepted(i, votes) ELSE soft[j]]
  BY DEF Review
<1>2. Accepted(i, votes) \in BOOLEAN
  BY DEF Accepted
<1>3. DOMAIN soft' \subseteq Soft(criteria) /\ soft' \in [DOMAIN soft' -> BOOLEAN]
  BY <1>1, <1>2 DEF TypeOK
<1>4. phase = "verifying"
      /\ UNCHANGED <<phase, request, disk, proposed, ambiguous, threshold, criteria, reason,
                     compiled, left, called, audit, edits, restarts, ran, hard, intact, exceeded>>
  BY DEF Review, compile, work
<1> QED
  BY <1>3, <1>4 DEF TypeOK

LEMMA ReleaseTypes == TypeOK /\ Release => TypeOK'
<1> SUFFICES ASSUME TypeOK, Release PROVE TypeOK'
  OBVIOUS
<1>1. phase' \in Verdicts
  BY DEF Release, Decide, Verdicts
<1>2. UNCHANGED <<request, disk, proposed, ambiguous, threshold, criteria, reason, compiled,
                  left, called, audit, edits, restarts, ran, hard, soft, intact, exceeded>>
  BY DEF Release, compile, work, gates
<1> QED
  BY <1>1, <1>2 DEF TypeOK, Compiled

LEMMA TypesStep == TypeOK /\ [Next]_vars => TypeOK'
<1>1. TypeOK /\ UNCHANGED vars => TypeOK'
  BY DEF TypeOK, vars, compile, work, gates
<1> QED
  BY <1>1, AnalyseTypes, ProposeTypes, FalsifyTypes, ValidateTypes, EditTypes, RunCommandTypes,
     CompactTypes, CompleteCellTypes, FailAttemptTypes, ResumeTypes, CheckTypes, ReviewTypes,
     ReleaseTypes
     DEF Next, Done

\* Types: the phases, the criteria that are parsed, the results of gates and reviewers no
\* more than there are criteria, and none before the verification (release_law.py:15).
THEOREM AcceptanceTypes == Spec => []TypeOK
<1> QED
  BY TypesInit, TypesStep, PTL DEF Spec

-----------------------------------------------------------------------------
(* The verdict *)

\* A contract has a criterion, a rubric is accepted by a panel that was calibrated for it,
\* and a verdict is what the release law makes of all the results.
Judging ==
  /\ phase \in Compiled => criteria # <<>>
  /\ \A i \in DOMAIN soft :
       soft[i] => i \in DOMAIN Calibration /\ Calibration[i].samples > 0
  /\ phase \in Verdicts =>
       /\ Len(hard) = Len(criteria) /\ DOMAIN soft = Soft(criteria)
       /\ phase = Decide(criteria, hard, soft, exceeded)

LEMMA JudgingInit == Init => Judging
<1> SUFFICES ASSUME Init PROVE Judging
  OBVIOUS
<1>1. phase = "compiling" /\ soft = <<>>
  BY DEF Init
<1> QED
  BY <1>1, EmptyFacts DEF Judging, Compiled, Verdicts

LEMMA JudgingStep == TypeOK /\ Judging /\ [Next]_vars => Judging'
<1> SUFFICES ASSUME TypeOK, Judging, [Next]_vars PROVE Judging'
  OBVIOUS
<1>1. ASSUME phase' \notin Compiled, UNCHANGED soft PROVE Judging'
  BY <1>1 DEF Judging, Compiled
<1>2. ASSUME phase' \in Compiled \ Verdicts, phase \in Compiled, UNCHANGED criteria,
             UNCHANGED soft \/ soft' = <<>>
      PROVE  Judging'
  BY <1>2, EmptyFacts DEF Judging, Compiled
<1>3. CASE UNCHANGED vars
  BY <1>3 DEF Judging, vars, compile, work, gates
<1>4. CASE Analyse
  <2>1. phase' \notin Compiled /\ UNCHANGED soft
    BY <1>4 DEF Analyse, Raise, Compiled, Verdicts, gates
  <2> QED
    BY <1>1, <2>1
<1>5. CASE Propose
  <2>1. UNCHANGED soft
    BY <1>5 DEF Propose, gates
  <2>2. CASE phase' = "rejected"
    <3>1. phase' \notin Compiled
      BY <2>2 DEF Compiled, Verdicts
    <3> QED
      BY <1>1, <2>1, <3>1
  <2>3. CASE phase' # "rejected"
    <3>1. /\ criteria' = Synthesized(Upgraded(Normalized(proposed), request, disk))
          /\ phase' = "proposed"
      BY <1>5, <2>3 DEF Propose, Raise
    <3>2. criteria' # <<>>
      <4>1. Normalized(proposed) \in Seq(Known)
        BY NormalizedFacts DEF TypeOK
      <4>2. Upgraded(Normalized(proposed), request, disk) \in Seq(Known)
        BY <4>1, UpgradedFacts DEF TypeOK
      <4> QED
        BY <3>1, <4>2, SynthesizedFacts
    <3> QED
      BY <2>1, <3>1, <3>2 DEF Judging, Verdicts
  <2> QED
    BY <2>2, <2>3
<1>6. CASE Falsify
  <2>1. UNCHANGED <<criteria, soft>> /\ phase = "proposed" /\ phase' \in {"sound", "rejected"}
    BY <1>6 DEF Falsify, Raise, gates
  <2> QED
    BY <1>1, <1>2, <2>1 DEF Compiled, Verdicts
<1>7. CASE Validate
  <2>1. UNCHANGED <<criteria, soft>> /\ phase = "sound" /\ phase' \in {"working", "rejected"}
    BY <1>7 DEF Validate, Raise, gates
  <2> QED
    BY <1>1, <1>2, <2>1 DEF Compiled, Verdicts
<1>8. CASE Edit \/ RunCommand \/ Compact \/ CompleteCell \/ FailAttempt
  <2>1. /\ UNCHANGED <<criteria, soft>> /\ phase = "working"
        /\ phase' \in {"working", "verifying"}
    BY <1>8 DEF Edit, RunCommand, Compact, CompleteCell, FailAttempt, compile, gates
  <2> QED
    BY <1>2, <2>1 DEF Compiled, Verdicts
<1>9. CASE Resume
  <2>1. /\ UNCHANGED criteria /\ soft' = <<>> /\ phase' \in {"working", "verifying"}
        /\ phase \in {"working", "verifying", "failed", "abstained"}
    BY <1>9 DEF Resume, compile
  <2> QED
    BY <1>2, <2>1 DEF Compiled, Verdicts
<1>10. CASE Check
  <2>1. UNCHANGED <<criteria, soft, phase>> /\ phase = "verifying"
    BY <1>10 DEF Check, compile
  <2> QED
    BY <1>2, <2>1 DEF Compiled, Verdicts
<1>11. CASE Review
  <2>1. PICK i, votes :
          /\ i \in Soft(criteria) \ DOMAIN soft
          /\ soft' = [j \in DOMAIN soft \cup {i} |-> IF j = i THEN Accepted(i, votes) ELSE soft[j]]
    BY <1>11 DEF Review
  <2>2. UNCHANGED <<criteria, phase>> /\ phase = "verifying"
    BY <1>11 DEF Review, compile
  <2>3. Accepted(i, votes) => i \in DOMAIN Calibration /\ Calibration[i].samples > 0
    BY DEF Accepted
  <2>4. ASSUME NEW j \in DOMAIN soft', soft'[j]
        PROVE  j \in DOMAIN Calibration /\ Calibration[j].samples > 0
    <3>1. CASE j = i
      BY <2>1, <2>3, <2>4, <3>1
    <3>2. CASE j # i
      <4>1. j \in DOMAIN soft /\ soft[j]
        BY <2>1, <2>4, <3>2
      <4> QED
        BY <4>1 DEF Judging
    <3> QED
      BY <3>1, <3>2
  <2> QED
    BY <2>2, <2>4 DEF Judging, Compiled, Verdicts
<1>12. CASE Release
  <2>1. /\ UNCHANGED <<criteria, hard, soft, exceeded>> /\ Len(hard) = Len(criteria)
        /\ DOMAIN soft = Soft(criteria) /\ phase = "verifying"
        /\ phase' = Decide(criteria, hard, soft, exceeded)
    BY <1>12 DEF Release, compile, gates
  <2>2. phase \in Compiled
    BY <2>1 DEF Compiled
  <2> QED
    BY <2>1, <2>2 DEF Judging
<1>13. CASE Done
  BY <1>3, <1>13 DEF Done
<1> QED
  BY <1>3, <1>4, <1>5, <1>6, <1>7, <1>8, <1>9, <1>10, <1>11, <1>12, <1>13 DEF Next

LEMMA JudgingMeans == TypeOK /\ Judging => VerdictIsEarned
<1> SUFFICES ASSUME TypeOK, Judging, phase \in Verdicts
             PROVE  /\ DOMAIN hard = DOMAIN criteria /\ criteria # <<>>
                    /\ (phase = "failed") <=> (\E i \in DOMAIN hard : ~hard[i])
                    /\ phase = "verified" =>
                         /\ ~exceeded
                         /\ \A i \in Soft(criteria) :
                              soft[i] /\ i \in DOMAIN Calibration /\ Calibration[i].samples > 0
  BY DEF VerdictIsEarned, Verdicts
<1>1. DOMAIN hard = DOMAIN criteria /\ criteria # <<>>
  BY LenProperties DEF TypeOK, Judging, Compiled
<1>2. \A i \in DOMAIN criteria : criteria[i].kind \in Kinds
  <2>1. \A i \in DOMAIN criteria : criteria[i] \in Known
    BY LenProperties, ElementOfSeq DEF TypeOK
  <2> QED
    BY <2>1 DEF Known
<1>3. phase = IF \E i \in DOMAIN hard : ~hard[i] THEN "failed"
              ELSE IF exceeded THEN "abstained"
              ELSE IF \E i \in Soft(criteria) : ~soft[i] THEN "abstained"
              ELSE "verified"
  BY <1>1, <1>2 DEF Judging, Decide
<1>4. phase = "failed" <=> \E i \in DOMAIN hard : ~hard[i]
  BY <1>3
<1>5. phase = "verified" => ~exceeded /\ \A i \in Soft(criteria) : soft[i]
  BY <1>3
<1> QED
  BY <1>1, <1>4, <1>5 DEF Judging

\* The verdict: verified if every gate passed, every rubric was accepted by a panel
\* that was calibrated for it and the budget held; failed exactly if a gate did not
\* pass, whatever the reviewers and the budget say (release_law.py:15).
THEOREM VerdictsAreEarned == Spec => []VerdictIsEarned
<1>1. Init => TypeOK /\ Judging
  BY TypesInit, JudgingInit
<1>2. TypeOK /\ Judging /\ [Next]_vars => (TypeOK /\ Judging)'
  BY TypesStep, JudgingStep
<1> QED
  BY <1>1, <1>2, JudgingMeans, PTL DEF Spec

-----------------------------------------------------------------------------
(* What the analysis asserted *)

\* While the criteria are not made, a proposal stands for each assertion.
Backed ==
  phase = "analysed" =>
    \A p \in asserted : p # None /\ \E c \in Range(proposed) : Asserting(c) /\ c.path = p

LEMMA BackedStep == TypeOK /\ Backed /\ [Next]_vars => Backed'
<1> SUFFICES ASSUME TypeOK, [Next]_vars, phase' = "analysed", Backed
             PROVE  \A p \in asserted' :
                      p # None /\ \E c \in Range(proposed') : Asserting(c) /\ c.path = p
  BY DEF Backed
<1>1. CASE Analyse
  <2>1. PICK answer \in Replies \cup {None} :
          LET asked == request.file = None /\ answer # None
          IN /\ proposed' = Proposals(request, answer, disk)
             /\ asserted' = IF asked THEN Asserted(answer.criteria)
                            ELSE IF request.file # None THEN {request.file.path} ELSE {}
    BY <1>1, AnswersFacts DEF Analyse
  <2>2. asserted' = Said(request, answer) /\ proposed' = Proposals(request, answer, disk)
    BY <2>1 DEF Said
  <2>3. None \notin Asserted(answer.criteria)
    BY DEF Asserted
  <2>4. request.file # None => request.file.path # None
    <3>1. None \notin Paths
      BY WorkspaceAssumption
    <3> QED
      BY <3>1, RequestFacts DEF TypeOK
  <2>5. None \notin asserted'
    BY <2>2, <2>3, <2>4 DEF Said
  <2>6. \A p \in Said(request, answer) :
          \E c \in Range(Proposals(request, answer, disk)) : Asserting(c) /\ c.path = p
    <3>1. request \in Requests
      BY DEF TypeOK
    <3> QED
      BY <3>1, ProposalsFacts
  <2> QED
    BY <2>2, <2>5, <2>6
<1>2. CASE UNCHANGED vars
  BY <1>2 DEF Backed, vars, compile
<1>3. ~Analyse => UNCHANGED vars
  <2>1. Propose \/ Falsify \/ Validate => phase' # "analysed"
    BY DEF Propose, Falsify, Validate, Raise
  <2>2. Edit \/ RunCommand \/ Compact \/ CompleteCell \/ FailAttempt => phase' # "analysed"
    BY DEF Edit, RunCommand, Compact, CompleteCell, FailAttempt
  <2>3. Resume \/ Check \/ Review => phase' # "analysed"
    BY DEF Resume, Check, Review
  <2>4. Release => phase' # "analysed"
    BY DEF Release, Decide
  <2> QED
    BY <2>1, <2>2, <2>3, <2>4 DEF Next, Done
<1> QED
  BY <1>1, <1>2, <1>3

LEMMA SurviveStep == TypeOK /\ Backed /\ AssertionsSurvive /\ [Next]_vars => AssertionsSurvive'
<1> SUFFICES ASSUME TypeOK, Backed, AssertionsSurvive, [Next]_vars, phase' = "proposed",
                    NEW p \in asserted'
             PROVE  \/ \E i \in DOMAIN proposed' :
                         proposed'[i].path = p /\ proposed'[i].shape = "bad"
                    \/ \E j \in DOMAIN criteria' :
                         criteria'[j].kind = "file_diff" /\ criteria'[j].path = p /\ criteria'[j].must
  BY DEF AssertionsSurvive
<1>1. CASE Propose
  <2>1. /\ phase = "analysed" /\ UNCHANGED <<proposed, asserted>>
        /\ criteria' = Synthesized(Upgraded(Normalized(proposed), request, disk))
    BY <1>1 DEF Propose, Raise
  <2>2. p # None
    BY <2>1 DEF Backed
  <2>3. PICK i \in DOMAIN proposed : Asserting(proposed[i]) /\ proposed[i].path = p
    BY <2>1 DEF Backed, Range
  <2>4. CASE proposed[i].shape = "bad"
    BY <2>1, <2>3, <2>4
  <2>5. CASE proposed[i].shape # "bad"
    <3>1. PICK c \in Range(proposed) :
            Asserting(c) /\ c.path = p /\ c.shape # "bad"
      BY <2>3, <2>5 DEF Range
    <3>2. Normalized(proposed) \in Seq(Known) /\ c \in Range(Normalized(proposed))
      BY <3>1, NormalizedFacts DEF TypeOK, Asserting
    <3>3. /\ Upgraded(Normalized(proposed), request, disk) \in Seq(Known)
          /\ c \in Range(Upgraded(Normalized(proposed), request, disk))
      BY <3>2, UpgradedFacts DEF TypeOK
    <3>4. c.kind = "file_diff" /\ c.must # None /\ c.path # None
      BY <2>2, <3>1, WorkspaceAssumption DEF Asserting
    <3>5. c \in Range(criteria')
      BY <2>1, <3>1, <3>3, <3>4, SynthesizedFacts
    <3> QED
      BY <3>1, <3>5 DEF Range, Asserting
  <2> QED
    BY <2>4, <2>5
<1>2. CASE UNCHANGED vars
  BY <1>2 DEF AssertionsSurvive, vars, compile
<1>3. ~Propose => UNCHANGED vars
  <2>1. Analyse \/ Falsify \/ Validate => phase' # "proposed"
    BY DEF Analyse, Falsify, Validate, Raise
  <2>2. Edit \/ RunCommand \/ Compact \/ CompleteCell \/ FailAttempt => phase' # "proposed"
    BY DEF Edit, RunCommand, Compact, CompleteCell, FailAttempt
  <2>3. Resume \/ Check \/ Review => phase' # "proposed"
    BY DEF Resume, Check, Review
  <2>4. Release => phase' # "proposed"
    BY DEF Release, Decide
  <2> QED
    BY <2>1, <2>2, <2>3, <2>4 DEF Next, Done
<1> QED
  BY <1>1, <1>2, <1>3

\* A file the analysis said must exist is asserted by the contract, whatever needle was
\* invented for it; a proposal for the same file that cannot be parsed may take it along
\* (contracting.py:176).
THEOREM AssertionsAreKept == Spec => []AssertionsSurvive
<1>1. Init => TypeOK /\ Backed /\ AssertionsSurvive
  <2>1. Init => Backed /\ AssertionsSurvive
    BY DEF Init, Backed, AssertionsSurvive
  <2> QED
    BY <2>1, TypesInit
<1>2. TypeOK /\ Backed /\ AssertionsSurvive /\ [Next]_vars
        => (TypeOK /\ Backed /\ AssertionsSurvive)'
  BY TypesStep, BackedStep, SurviveStep
<1> QED
  BY <1>1, <1>2, PTL DEF Spec

-----------------------------------------------------------------------------
(* The tests of a verified run *)

\* A criterion that holds of the files while this one is as it was.
AssertsSame(c, p, files) ==
  \/ /\ c.kind = "file_diff" /\ c.path = p /\ c.needle = None
     /\ c.must = (p \in Files(files)) /\ c.same = files[p]
  \/ /\ c.kind = "tree_digest" /\ c.path = Tests /\ IsStrictPrefix(Tests, p)
     /\ c.same = TreeDigest(files, Tests)

LEMMA FileHoldsMeans ==
  ASSUME NEW now \in Disk, NEW files \in Disk, NEW p \in Paths, NEW c,
         c.path = p, c.must = (p \in Files(files)), c.same = files[p], FileHolds(now, c)
  PROVE  now[p] = files[p]
<1> DEFINE r == Read(now, p)
<1>1. p \notin Unsafe /\ MaxRead \in Nat
  BY WorkspaceAssumption
<1>2. CASE ~r.ok
  <2>1. p \notin Files(files) /\ r.kind = "not_found"
    BY <1>2 DEF FileHolds
  <2>2. p \notin Files(now)
    BY <2>1 DEF Read, Seen, Failed
  <2> QED
    BY <2>1, <2>2 DEF Files
<1>3. CASE r.ok
  <2>1. p \in Files(files) /\ ~r.cut /\ (c.same # None => r.data = c.same)
    BY <1>3 DEF FileHolds
  <2>2. /\ p \in Files(now) /\ r.data = First(now[p], MaxRead)
        /\ r.cut = (Len(now[p]) > MaxRead)
    BY <1>3 DEF Read, Failed, Seen
  <2> HIDE DEF r
  <2>3. PICK content \in Seq(Words) : content = now[p]
    BY <2>2 DEF Files, Disk
  <2>4. First(content, MaxRead) = content
    <3>1. ~(Len(content) > MaxRead) /\ Len(content) \in Nat
      BY <2>1, <2>2, <2>3, LenProperties
    <3>2. Len(content) <= MaxRead
      BY <1>1, <3>1
    <3> QED
      BY <1>1, <3>2, FirstFacts
  <2>5. r.data = files[p]
    BY <2>1 DEF Files
  <2> QED
    BY <2>2, <2>3, <2>4, <2>5
<1> QED
  BY <1>2, <1>3

LEMMA TreeHoldsMeans ==
  ASSUME NEW now \in Disk, NEW files \in Disk, NEW p \in Paths, NEW c,
         c.path = Tests, IsStrictPrefix(Tests, p), c.same = TreeDigest(files, Tests),
         TreeHolds(now, c)
  PROVE  now[p] = files[p]
<1>1. TreeDigest(now, Tests) # None /\ TreeDigest(now, Tests) = TreeDigest(files, Tests)
  BY DEF TreeHolds
<1>2. ASSUME NEW some \in Disk, TreeDigest(some, Tests) # None
      PROVE  TreeDigest(some, Tests)[p] = some[p]
  <2>1. TreeDigest(some, Tests)
          = [q \in Paths |-> IF q \in Under(some, Tests) THEN some[q] ELSE None]
    BY <1>2 DEF TreeDigest
  <2>2. p \notin Under(some, Tests) => some[p] = None
    BY DEF Under, Files
  <2> QED
    BY <2>1, <2>2
<1> QED
  BY <1>1, <1>2

\* From here on, no command runs.
Sealed(i) == \A j \in i..Len(criteria) : criteria[j].kind # "command"

\* A criterion that comes after the last command holds each kept file to what it was.
Guarded ==
  phase \in Compiled /\ Upgradable(request, compiled) =>
    \A p \in Kept : \E i \in DOMAIN criteria :
      Sealed(i) /\ AssertsSame(criteria[i], p, compiled)

\* What such a criterion has been found to hold is intact.
Watched ==
  \A i \in DOMAIN hard, p \in Paths :
    hard[i] /\ Sealed(i) /\ AssertsSame(criteria[i], p, compiled) => p \in intact

Fresh == phase = "analysed" => disk = compiled

\* Every kept file is one of the tests, of a kind of its own for each layout, or a
\* configuration of pytest, and no proposal claims it.
LEMMA KeptFacts ==
  ASSUME NEW p \in Kept
  PROVE  LET asked == Normalized(proposed)
         IN /\ p \in Paths /\ ~Claims(asked, p)
            /\ \/ p \in Tampers
               \/ ~IsDir(compiled, Tests) /\ p \in Range(Few(RootTests(compiled)))
               \/ IsDir(compiled, Tests) /\ WritesTests(asked) /\ p \in Singled(compiled)
               \/ /\ IsDir(compiled, Tests) /\ ~WritesTests(asked) /\ ~HasDigest(asked)
                  /\ IsStrictPrefix(Tests, p)
<1> DEFINE asked == Normalized(proposed)
           under == {q \in Under(compiled, Tests) : IsTest(q)}
           tree == {q \in Paths : /\ IsStrictPrefix(Tests, q)
                                  /\ \A i \in DOMAIN asked : asked[i].kind # "tree_digest"}
           tests == CASE ~IsDir(compiled, Tests) -> Range(Few(RootTests(compiled)))
                      [] IsDir(compiled, Tests) /\ WritesTests(asked) ->
                           Range(Few(under)) \cup {Conftest}
                      [] OTHER -> tree
<1>1. p \in tests \cup Tampers /\ ~Claims(asked, p)
  BY DEF Kept
<1>2. tree \subseteq Paths /\ Tampers \subseteq Paths /\ Conftest \in Paths
      /\ Range(Few(RootTests(compiled))) \subseteq Paths /\ Range(Few(under)) \subseteq Paths
  <2>1. RootTests(compiled) \in SUBSET Paths /\ under \in SUBSET Paths
    BY DEF RootTests, Under, Files
  <2>2. ASSUME NEW seq \in Seq(Paths) PROVE Range(seq) \subseteq Paths
    BY <2>2, LenProperties, ElementOfSeq DEF Range
  <2> HIDE DEF under
  <2>3. Few(RootTests(compiled)) \in Seq(Paths) /\ Few(under) \in Seq(Paths)
    BY <2>1, FewFacts
  <2> QED
    BY <2>2, <2>3, AcceptanceAssumption DEF Tampers
<1>3. CASE ~IsDir(compiled, Tests)
  <2>1. tests = Range(Few(RootTests(compiled)))
    BY <1>3
  <2> HIDE DEF tests, asked, under, tree
  <2> QED
    BY <1>1, <1>2, <1>3, <2>1 DEF asked
<1>4. CASE IsDir(compiled, Tests) /\ WritesTests(asked)
  <2>1. tests = Range(Few(under)) \cup {Conftest} /\ Singled(compiled) = tests
    BY <1>4 DEF Singled
  <2> HIDE DEF tests, asked, under, tree
  <2> QED
    BY <1>1, <1>2, <1>4, <2>1 DEF asked
<1>5. CASE IsDir(compiled, Tests) /\ ~WritesTests(asked)
  <2>1. tests = tree
    BY <1>5
  <2>2. p \in tree => IsStrictPrefix(Tests, p) /\ ~HasDigest(asked)
    BY DEF HasDigest
  <2> HIDE DEF tests, asked, under, tree
  <2> QED
    BY <1>1, <1>2, <1>5, <2>1, <2>2 DEF asked
<1> QED
  BY <1>3, <1>4, <1>5

LEMMA TestsMeans ==
  TypeOK /\ VerdictIsEarned /\ Guarded /\ Watched => VerifiedTestsAreCompiled
<1> SUFFICES ASSUME VerdictIsEarned, Guarded, Watched, phase = "verified",
                    Upgradable(request, compiled), NEW p \in Kept
             PROVE  p \in intact
  BY DEF VerifiedTestsAreCompiled
<1>1. p \in Paths
  BY KeptFacts
<1>2. PICK i \in DOMAIN criteria : Sealed(i) /\ AssertsSame(criteria[i], p, compiled)
  BY DEF Guarded, Compiled, Verdicts
<1>3. i \in DOMAIN hard /\ hard[i]
  BY <1>2 DEF VerdictIsEarned
<1> QED
  BY <1>1, <1>2, <1>3 DEF Watched

\* What the upgrade appends for a kept file: its pin, or the digest of the tests.
LEMMA KeptIsPinned ==
  ASSUME TypeOK, disk = compiled, NEW kept \in Seq(Known), kept = Normalized(proposed),
         Upgradable(request, compiled), ~UpgradeRaises(kept, request, compiled),
         NEW p \in Kept
  PROVE  \E c \in Range(TestPins(kept, compiled)) \cup Range(TamperPins(kept, compiled)) :
           AssertsSame(c, p, compiled) /\ c \in Range(Parsed(c))
<1>1. compiled \in Disk /\ proposed \in Seq(Known)
  BY DEF TypeOK
<1>6. /\ ~Claims(kept, p) /\ p \in Paths
      /\ \/ p \in Tampers
         \/ ~IsDir(compiled, Tests) /\ p \in Range(Few(RootTests(compiled)))
         \/ IsDir(compiled, Tests) /\ WritesTests(kept) /\ p \in Singled(compiled)
         \/ /\ IsDir(compiled, Tests) /\ ~WritesTests(kept) /\ ~HasDigest(kept)
            /\ IsStrictPrefix(Tests, p)
  BY KeptFacts
<1>7. AssertsSame(Pin(compiled, p), p, compiled)
      /\ Pin(compiled, p) \in Range(Parsed(Pin(compiled, p)))
  <2>1. /\ Pin(compiled, p).kind = "file_diff" /\ Pin(compiled, p).path = p
        /\ Pin(compiled, p).needle = None /\ Pin(compiled, p).shape = "ok"
        /\ Pin(compiled, p).must = (p \in Files(compiled))
        /\ Pin(compiled, p).same = compiled[p]
    BY DEF Pin, Proposal
  <2>2. Pin(compiled, p) \in Known
    BY <1>1, <1>6, ProposalFacts
  <2>3. (p \in Files(compiled)) # None /\ p # None
    <3>1. (p \in Files(compiled)) \in BOOLEAN
      OBVIOUS
    <3> QED
      BY <1>6, <3>1, WorkspaceAssumption
  <2> QED
    BY <2>1, <2>2, <2>3, ParsedFacts DEF AssertsSame
<1>8. CASE p \in Tampers
  <2>1. Pin(compiled, p) \in Range(TamperPins(kept, compiled))
    BY <1>1, <1>6, <1>8, TamperPinsFacts
  <2> QED
    BY <1>7, <2>1
<1>9. CASE \/ ~IsDir(compiled, Tests) /\ p \in Range(Few(RootTests(compiled)))
           \/ IsDir(compiled, Tests) /\ WritesTests(kept) /\ p \in Singled(compiled)
  <2>1. Pin(compiled, p) \in Range(TestPins(kept, compiled))
    BY <1>1, <1>6, <1>9, TestPinsFacts
  <2> QED
    BY <1>7, <2>1
<1>10. CASE /\ IsDir(compiled, Tests) /\ ~WritesTests(kept) /\ ~HasDigest(kept)
            /\ IsStrictPrefix(Tests, p)
  <2>2. Digest(compiled) \in Range(TestPins(kept, compiled))
    BY <1>1, <1>10, TestPinsFacts
  <2>3. TreeDigest(compiled, Tests) # None
    BY <1>10 DEF UpgradeRaises, HasDigest
  <2>4. /\ Digest(compiled).kind = "tree_digest" /\ Digest(compiled).path = Tests
        /\ Digest(compiled).same = TreeDigest(compiled, Tests) /\ Digest(compiled).shape = "ok"
    BY DEF Digest, Proposal
  <2>5. Tests # None
    <3>1. Tests \in Seq(STRING)
      BY AcceptanceAssumption, Single DEF Tests
    <3> QED
      BY <3>1, WorkspaceAssumption
  <2>6. Digest(compiled) \in Known
    BY <1>1, DigestFacts
  <2>7. Digest(compiled) \in Range(Parsed(Digest(compiled)))
    BY <2>3, <2>4, <2>5, <2>6, ParsedFacts
  <2> QED
    BY <1>10, <2>2, <2>4, <2>7 DEF AssertsSame
<1> QED
  BY <1>6, <1>8, <1>9, <1>10

LEMMA GuardedPropose == TypeOK /\ Fresh /\ Propose => Guarded'
<1> SUFFICES ASSUME TypeOK, Fresh, Propose PROVE Guarded'
  OBVIOUS
<1> SUFFICES ASSUME phase' \in Compiled, Upgradable(request, compiled), NEW p \in Kept
             PROVE  \E i \in DOMAIN criteria' :
                      /\ \A j \in i..Len(criteria') : criteria'[j].kind # "command"
                      /\ AssertsSame(criteria'[i], p, compiled)
  <2>1. UNCHANGED <<request, compiled, proposed>>
    BY DEF Propose
  <2>2. Kept' = Kept
    BY <2>1 DEF Kept
  <2>3. Upgradable(request, compiled)' = Upgradable(request, compiled)
    BY <2>1
  <2> QED
    BY <2>1, <2>2, <2>3 DEF Guarded, Sealed
<1> DEFINE kept == Normalized(proposed)
<1>1. /\ disk = compiled /\ ~UpgradeRaises(kept, request, compiled)
      /\ criteria' = Synthesized(Upgraded(kept, request, compiled))
  BY DEF Propose, Raise, Fresh, Compiled, Verdicts
<1>2. kept \in Seq(Known) /\ compiled \in Disk /\ request \in Requests
  BY NormalizedFacts DEF TypeOK
<1>3. PICK c \in Range(TestPins(kept, compiled)) \cup Range(TamperPins(kept, compiled)) :
        AssertsSame(c, p, compiled) /\ c \in Range(Parsed(c))
  BY <1>1, <1>2, KeptIsPinned
<1> HIDE DEF kept
<1>4. PICK front, pins \in Seq(Known) :
        /\ Upgraded(kept, request, compiled) = front \o pins
        /\ \A d \in Range(pins) : d.kind \in PinKinds
        /\ c \in Range(pins)
  <2>1. \E front, pins \in Seq(Known) :
          /\ Upgraded(kept, request, compiled) = front \o pins
          /\ \A d \in Range(pins) : d.kind \in PinKinds
          /\ Range(pins) = Range(TestPins(kept, compiled)) \cup Range(TamperPins(kept, compiled))
    BY <1>2, UpgradedFacts
  <2> QED
    BY <1>3, <2>1
<1>5. PICK a, b \in Seq(Known) :
        /\ \A d \in Range(b) : d.kind \in PinKinds
        /\ c \in Range(b)
        /\ b # <<>> => Synthesized(front \o pins) = a \o b
  <2>1. \E a, b \in Seq(Known) :
          /\ \A d \in Range(b) : d.kind \in PinKinds
          /\ \A d \in Range(pins) : d \in Range(Parsed(d)) => d \in Range(b)
          /\ b # <<>> => Synthesized(front \o pins) = a \o b
    BY <1>4, SynthesizedSplit
  <2> QED
    BY <1>3, <1>4, <2>1
<1>6. criteria' = a \o b
  <2>1. b # <<>>
    BY <1>5 DEF Range
  <2> QED
    BY <1>1, <1>4, <1>5, <2>1
<1>7. PICK n, m \in Nat : /\ n = Len(b) /\ DOMAIN b = 1..n /\ m = Len(a)
  BY LenProperties
<1>8. /\ Len(criteria') = m + n /\ DOMAIN criteria' = 1..(m + n)
      /\ \A i \in 1..(m + n) : criteria'[i] = IF i <= m THEN a[i] ELSE b[i - m]
  <2>1. /\ a \o b \in Seq(Known) /\ Len(a \o b) = m + n
        /\ \A i \in 1..(m + n) : (a \o b)[i] = IF i <= m THEN a[i] ELSE b[i - m]
    BY <1>7, ConcatProperties
  <2> QED
    BY <1>6, <2>1, LenProperties
<1>9. PICK k \in 1..n : b[k] = c
  BY <1>5, <1>7 DEF Range
<1>10. m + k \in 1..(m + n) /\ criteria'[m + k] = c
  <2>1. m + k \in 1..(m + n) /\ ~(m + k <= m) /\ (m + k) - m = k
    BY <1>7
  <2> QED
    BY <1>8, <1>9, <2>1
<1>11. ASSUME NEW j \in (m + k)..(m + n) PROVE criteria'[j].kind # "command"
  <2>1. j \in 1..(m + n) /\ ~(j <= m) /\ j - m \in 1..n
    BY <1>7
  <2>2. criteria'[j] = b[j - m] /\ b[j - m] \in Range(b)
    BY <1>7, <1>8, <2>1 DEF Range
  <2> QED
    BY <1>5, <2>2 DEF PinKinds
<1> QED
  BY <1>3, <1>8, <1>10, <1>11

LEMMA GuardedStep == TypeOK /\ Fresh /\ Guarded /\ [Next]_vars => Guarded' /\ Fresh'
<1> SUFFICES ASSUME TypeOK, Fresh, Guarded, [Next]_vars PROVE Guarded' /\ Fresh'
  OBVIOUS
<1>1. CASE Analyse
  <2>1. phase' \in {"analysed", "rejected"} /\ compiled' = disk /\ disk' = disk
    BY <1>1 DEF Analyse, Raise
  <2> QED
    BY <2>1 DEF Guarded, Fresh, Compiled, Verdicts
<1>2. CASE Propose
  <2>1. phase' # "analysed"
    BY <1>2 DEF Propose, Raise
  <2> QED
    BY <1>2, <2>1, GuardedPropose DEF Fresh
<1>3. ASSUME UNCHANGED <<criteria, compiled, request, proposed>>, phase' # "analysed",
             phase' \in Compiled => phase \in Compiled
      PROVE  Guarded' /\ Fresh'
  <2>1. Kept' = Kept
    BY <1>3 DEF Kept
  <2>2. Upgradable(request, compiled)' = Upgradable(request, compiled)
    BY <1>3
  <2> QED
    BY <1>3, <2>1, <2>2 DEF Guarded, Fresh, Sealed
<1>4. CASE Falsify \/ Validate
  BY <1>3, <1>4 DEF Falsify, Validate, Raise, Compiled, Verdicts
<1>5. CASE Edit \/ RunCommand \/ Compact \/ CompleteCell \/ FailAttempt
  BY <1>3, <1>5 DEF Edit, RunCommand, Compact, CompleteCell, FailAttempt, compile, Compiled
<1>6. CASE Resume \/ Check \/ Review
  BY <1>3, <1>6 DEF Resume, Check, Review, compile, Compiled, Verdicts
<1>7. CASE Release
  BY <1>3, <1>7 DEF Release, Decide, compile, Compiled
<1>8. CASE UNCHANGED vars
  <2>1. Kept' = Kept /\ Upgradable(request, compiled)' = Upgradable(request, compiled)
    BY <1>8 DEF Kept, vars, compile
  <2> QED
    BY <1>8, <2>1 DEF Guarded, Fresh, Sealed, vars, compile
<1> QED
  BY <1>1, <1>2, <1>4, <1>5, <1>6, <1>7, <1>8 DEF Next, Done

LEMMA WatchedCheck == TypeOK /\ Watched /\ Check => Watched'
<1> SUFFICES ASSUME TypeOK, Watched, Check, NEW i \in DOMAIN hard', NEW p \in Paths,
                    hard'[i], Sealed(i), AssertsSame(criteria[i], p, compiled)
             PROVE  p \in intact'
  <2> SUFFICES ASSUME TypeOK, Watched, Check PROVE Watched'
    OBVIOUS
  <2>1. UNCHANGED <<criteria, compiled>>
    BY DEF Check, compile
  <2> QED
    BY <2>1 DEF Watched, Sealed
<1>1. PICK n, m \in Nat : /\ n = Len(hard) /\ DOMAIN hard = 1..n /\ n < m
                         /\ m = Len(criteria) /\ DOMAIN criteria = 1..m
  BY LenProperties DEF Check, TypeOK
<1> DEFINE c == criteria[n + 1]
<1>2. c \in Known
  <2>1. n + 1 \in 1..m
    BY <1>1
  <2> QED
    BY <1>1, <2>1, ElementOfSeq DEF TypeOK
<1> HIDE DEF c
<1>3. ASSUME NEW bit \in BOOLEAN, hard' = Append(hard, bit)
      PROVE  /\ DOMAIN hard' = 1..(n + 1) /\ hard'[n + 1] = bit
             /\ \A j \in 1..n : hard'[j] = hard[j]
  <2>1. hard \in Seq(BOOLEAN)
    BY DEF TypeOK
  <2>2. /\ Append(hard, bit) \in Seq(BOOLEAN) /\ Len(Append(hard, bit)) = n + 1
        /\ \A j \in 1..n : Append(hard, bit)[j] = hard[j]
        /\ Append(hard, bit)[n + 1] = bit
    BY <1>1, <2>1, AppendProperties
  <2> QED
    BY <1>3, <2>2, LenProperties
<1>4. CASE c.kind = "command"
  <2>1. PICK bit \in BOOLEAN : hard' = Append(hard, bit)
    BY <1>1, <1>4 DEF Check, c
  <2>2. i \in 1..(n + 1)
    BY <1>3, <2>1
  <2>3. n + 1 \in i..Len(criteria)
    BY <1>1, <2>2
  <2> QED
    BY <1>4, <2>3 DEF Sealed, c
<1>5. CASE c.kind # "command"
  <2>1. PICK artifact \in BOOLEAN, crash \in BOOLEAN :
          hard' = Append(hard, ~crash /\ Holds(disk, c, audit, artifact))
    BY <1>1, <1>5 DEF Check, c
  <2>2. intact' = IF c.kind \in {"file_diff", "tree_digest"}
                    THEN intact \cup SameAsCompiled(c) ELSE intact
    BY <1>1, <1>5 DEF Check, c
  <2> DEFINE bit == ~crash /\ Holds(disk, c, audit, artifact)
  <2>3. bit \in BOOLEAN
    OBVIOUS
  <2> HIDE DEF bit
  <2>4. /\ DOMAIN hard' = 1..(n + 1) /\ hard'[n + 1] = bit
        /\ \A j \in 1..n : hard'[j] = hard[j]
    <3>1. hard' = Append(hard, bit)
      BY <2>1 DEF bit
    <3> QED
      BY <1>3, <2>3, <3>1
  <2>5. CASE i # n + 1
    <3>1. i \in 1..n
      BY <2>4, <2>5
    <3>2. i \in DOMAIN hard /\ hard[i]
      BY <1>1, <2>4, <3>1
    <3>3. p \in intact
      BY <3>2 DEF Watched
    <3> QED
      BY <2>2, <3>3
  <2>6. CASE i = n + 1
    <3>1. Holds(disk, c, audit, artifact) /\ AssertsSame(c, p, compiled)
      BY <2>4, <2>6 DEF bit, c
    <3>2. disk \in Disk /\ compiled \in Disk
      BY DEF TypeOK
    <3>3. CASE c.kind = "file_diff"
      <4>1. /\ FileHolds(disk, c) /\ c.path = p /\ c.must = (p \in Files(compiled))
            /\ c.same = compiled[p]
        BY <3>1, <3>3 DEF Holds, AssertsSame
      <4>2. disk[p] = compiled[p]
        BY <3>2, <4>1, FileHoldsMeans
      <4> QED
        BY <2>2, <3>3, <4>1, <4>2 DEF SameAsCompiled
    <3>4. CASE c.kind = "tree_digest"
      <4>1. /\ TreeHolds(disk, c) /\ c.path = Tests /\ IsStrictPrefix(Tests, p)
            /\ c.same = TreeDigest(compiled, Tests)
        BY <3>1, <3>4 DEF Holds, AssertsSame
      <4>2. disk[p] = compiled[p]
        BY <3>2, <4>1, TreeHoldsMeans
      <4> QED
        BY <2>2, <3>4, <4>1, <4>2 DEF SameAsCompiled
    <3> QED
      BY <3>1, <3>3, <3>4 DEF AssertsSame
  <2> QED
    BY <2>5, <2>6
<1> QED
  BY <1>4, <1>5

LEMMA WatchedStep == TypeOK /\ Watched /\ [Next]_vars => Watched'
<1> SUFFICES ASSUME TypeOK, Watched, [Next]_vars PROVE Watched'
  OBVIOUS
<1>1. ASSUME hard' = <<>> PROVE Watched'
  BY <1>1, EmptyFacts DEF Watched
<1>2. ASSUME UNCHANGED <<criteria, compiled, hard, intact>> PROVE Watched'
  BY <1>2 DEF Watched, Sealed
<1>3. CASE Analyse \/ Propose \/ Falsify \/ Validate
  <2>1. hard = <<>>
    BY <1>3 DEF Analyse, Propose, Falsify, Validate, TypeOK, Verdicts
  <2>2. UNCHANGED hard
    BY <1>3 DEF Analyse, Propose, Falsify, Validate, gates
  <2> QED
    BY <1>1, <2>1, <2>2
<1>4. CASE Edit \/ RunCommand \/ Compact \/ CompleteCell \/ FailAttempt
  BY <1>2, <1>4 DEF Edit, RunCommand, Compact, CompleteCell, FailAttempt, compile, gates
<1>5. CASE Resume
  BY <1>1, <1>5 DEF Resume
<1>6. CASE Check
  BY <1>6, WatchedCheck
<1>7. CASE Review
  BY <1>2, <1>7 DEF Review, compile
<1>8. CASE Release
  BY <1>2, <1>8 DEF Release, compile, gates
<1>9. CASE UNCHANGED vars
  BY <1>2, <1>9 DEF vars, compile, gates
<1> QED
  BY <1>3, <1>4, <1>5, <1>6, <1>7, <1>8, <1>9 DEF Next, Done

\* A run that was to make the tests pass is verified only if a gate saw the kept files as
\* they were compiled, after the last command had run: through edits, commands that
\* write, restarts and resumed runs (contracting.py:924, hard_gates.py:177).
THEOREM VerifiedTestsStand == Spec => []VerifiedTestsAreCompiled
<1> DEFINE Inv == TypeOK /\ Judging /\ Fresh /\ Guarded /\ Watched
<1>1. Init => Inv
  <2>1. Init => Fresh /\ Guarded
    BY DEF Init, Fresh, Guarded, Compiled, Verdicts
  <2>2. Init => Watched
    BY EmptyFacts DEF Init, Watched
  <2> QED
    BY <2>1, <2>2, TypesInit, JudgingInit
<1>2. Inv /\ [Next]_vars => Inv'
  BY TypesStep, JudgingStep, GuardedStep, WatchedStep
<1>3. Inv => VerifiedTestsAreCompiled
  BY JudgingMeans, TestsMeans
<1> QED
  BY <1>1, <1>2, <1>3, PTL DEF Spec

-----------------------------------------------------------------------------
(* Edits *)

Swaps == [tool : {"replace"}, path : Paths, old : Words \ {NotText},
          new : Words \ {NotText}]

LEMMA StoreMeans ==
  ASSUME NEW files, NEW path, NEW content, Store(files, path, content, TRUE).ok
  PROVE  Store(files, path, content, TRUE).disk = [files EXCEPT ![path] = content]
  BY DEF Store

\* Whether a file can be stored is a matter of its path and its length.
LEMMA StoreAlike ==
  ASSUME NEW files \in Disk, NEW path \in Files(files), NEW mid \in Seq(Words),
         NEW one, NEW other, Len(one) = Len(other)
  PROVE  Store(files, path, one, TRUE).ok
           <=> Store([files EXCEPT ![path] = mid], path, other, TRUE).ok
<1> DEFINE now == [files EXCEPT ![path] = mid]
<1>1. Files(now) = Files(files)
  <2>1. None \notin Seq(Words) /\ path \in Paths
    BY WorkspaceAssumption DEF Files
  <2>2. \A p \in Paths : now[p] = IF p = path THEN mid ELSE files[p]
    BY DEF Disk
  <2>3. \A p \in Paths : now[p] # None <=> files[p] # None
    BY <2>1, <2>2 DEF Files
  <2> HIDE DEF now
  <2> QED
    BY <2>3 DEF Files
<1> HIDE DEF now
<1>2. IsDir(now, path) <=> IsDir(files, path)
  BY <1>1 DEF IsDir, Under
<1>3. ASSUME NEW some, NEW content
      PROVE  Store(some, path, content, TRUE).ok
               <=> /\ path \notin Unsafe /\ ~(Len(content) > MaxWrite) /\ path \in Files(some)
                   /\ ~IsDir(some, path) /\ ~\E p \in Files(some) : IsStrictPrefix(p, path)
  BY DEF Store
<1>4. Store(files, path, one, TRUE).ok <=> Store(now, path, other, TRUE).ok
  BY <1>1, <1>2, <1>3
<1> QED
  BY <1>4 DEF now

LEMMA SwapFacts == {x \in Edits : x.tool = "replace"} \subseteq Swaps
  BY AcceptanceAssumption DEF Swaps

LEMMA SubstituteFacts ==
  ASSUME NEW content \in Seq(Words), NEW old, NEW new \in Words
  PROVE  /\ Substitute(content, old, new) \in Seq(Words)
         /\ Len(Substitute(content, old, new)) = Len(content)
         /\ new # NotText /\ IsText(content) => IsText(Substitute(content, old, new))
         /\ Cardinality(Occurrences(content, old)) = 1 =>
              /\ Has(content, old)
              /\ old # new => ~Has(Substitute(content, old, new), old)
<1>1. PICK n \in Nat : DOMAIN content = 1..n /\ content \in [1..n -> Words]
  BY LenProperties
<1>2. /\ Substitute(content, old, new) \in Seq(Words)
      /\ Len(Substitute(content, old, new)) = Len(content)
      /\ new # NotText /\ IsText(content) => IsText(Substitute(content, old, new))
  <2>1. PICK i : Substitute(content, old, new) \in {content, [content EXCEPT ![i] = new]}
    BY DEF Substitute
  <2>2. PICK text : text = [content EXCEPT ![i] = new]
    OBVIOUS
  <2>3. text \in [1..n -> Words] /\ \A j \in 1..n : text[j] \in {content[j], new}
    BY <1>1, <2>2
  <2>4. [1..n -> Words] \subseteq Seq(Words)
    BY SeqDef
  <2>5. text \in Seq(Words) /\ Len(text) = n /\ DOMAIN text = 1..n /\ Len(content) = n
    BY <1>1, <2>3, <2>4, LenProperties
  <2>6. new # NotText /\ IsText(content) => IsText(text)
    BY <1>1, <2>3, <2>5 DEF IsText, Has
  <2> QED
    BY <2>1, <2>2, <2>5, <2>6
<1>3. ASSUME Cardinality(Occurrences(content, old)) = 1
      PROVE  \E i \in 1..n : Occurrences(content, old) = {i}
  <2>1. Occurrences(content, old) \subseteq 1..n
    BY <1>1 DEF Occurrences
  <2>2. IsFiniteSet(Occurrences(content, old))
    <3>1. IsFiniteSet(1..n)
      BY <1>1, FS_Interval
    <3> QED
      BY <2>1, <3>1, FS_Subset
  <2> QED
    BY <1>3, <2>1, <2>2, FS_Singleton
<1>4. ASSUME Cardinality(Occurrences(content, old)) = 1, old # new
      PROVE  ~Has(Substitute(content, old, new), old)
  <2>1. PICK i \in 1..n : Occurrences(content, old) = {i}
    BY <1>3, <1>4
  <2>2. \A j \in 1..n : content[j] = old <=> j = i
    BY <1>1, <2>1 DEF Occurrences
  <2>3. Substitute(content, old, new) = [content EXCEPT ![i] = new]
    <3>1. Has(content, old)
      BY <1>1, <2>2 DEF Has
    <3>2. (CHOOSE k \in {i} : \A j \in {i} : k <= j) = i
      OBVIOUS
    <3> QED
      BY <2>1, <3>1, <3>2 DEF Substitute
  <2> QED
    BY <1>1, <1>4, <2>2, <2>3 DEF Has
<1>5. Cardinality(Occurrences(content, old)) = 1 => Has(content, old)
  BY <1>3 DEF Occurrences, Has
<1> QED
  BY <1>2, <1>4, <1>5

\* A replacement succeeds in a text with one place to make it, if the file can be stored.
LEMMA ReplaceMeans ==
  ASSUME NEW files \in Disk, NEW e \in Swaps
  PROVE  LET done == Replace(files, e.path, e.old, e.new)
             text == Substitute(files[e.path], e.old, e.new)
         IN /\ done.ok <=> /\ e.path \in Files(files) /\ IsText(files[e.path])
                           /\ Cardinality(Occurrences(files[e.path], e.old)) = 1
                           /\ Store(files, e.path, text, TRUE).ok
            /\ done.ok => /\ files[e.path] \in Seq(Words)
                          /\ done.disk = [files EXCEPT ![e.path] = text]
            /\ ~done.ok => done.disk = files
<1> DEFINE done == Replace(files, e.path, e.old, e.new)
<1>0. PICK text : text = Substitute(files[e.path], e.old, e.new)
  OBVIOUS
<1>1. CASE /\ e.path \in Files(files) /\ IsText(files[e.path])
           /\ Cardinality(Occurrences(files[e.path], e.old)) = 1
  <2>1. done = Store(files, e.path, text, TRUE)
    BY <1>0, <1>1 DEF Replace
  <2>2. files[e.path] \in Seq(Words)
    BY <1>1 DEF Files, Disk
  <2>3. Store(files, e.path, text, TRUE).ok
          => Store(files, e.path, text, TRUE).disk = [files EXCEPT ![e.path] = text]
    BY StoreMeans, ZenonT(40)
  <2>4. ~Store(files, e.path, text, TRUE).ok => Store(files, e.path, text, TRUE).disk = files
    BY DEF Store
  <2> HIDE DEF done
  <2> QED
    BY <1>0, <1>1, <2>1, <2>2, <2>3, <2>4 DEF done
<1>2. CASE ~(/\ e.path \in Files(files) /\ IsText(files[e.path])
             /\ Cardinality(Occurrences(files[e.path], e.old)) = 1)
  <2>1. done = Refused(files)
    BY <1>2 DEF Replace
  <2>2. ~done.ok /\ done.disk = files
    BY <2>1 DEF Refused
  <2> HIDE DEF done
  <2> QED
    BY <1>2, <2>2 DEF done
<1> QED
  BY <1>1, <1>2

\* A patch of two, in a text with both, makes the one replacement and then the other.
InTurn(files, e, f) ==
  LET done == Patch(files, e.path, <<e, f>>)
      last == Substitute(Substitute(files[e.path], e.old, e.new), f.old, f.new)
  IN /\ done.ok <=> /\ e.path \in Files(files) /\ IsText(files[e.path])
                    /\ Has(files[e.path], e.old) /\ Has(files[e.path], f.old)
                    /\ Store(files, e.path, last, TRUE).ok
     /\ done.ok => done.disk = [files EXCEPT ![e.path] = last]

LEMMA PatchMeans ==
  ASSUME NEW files \in Disk, NEW e \in Swaps, NEW f \in Swaps
  PROVE  InTurn(files, e, f)
<1> DEFINE content == files[e.path]
           D == 1..2
           Step(x, i) == Substitute(x, <<e, f>>[i].old, <<e, f>>[i].new)
           Iter(g) == g = [s \in SUBSET D |-> IF s = {} THEN content
                                              ELSE Step(g[s \ {Max(s)}], Max(s))]
           iter == CHOOSE g : Iter(g)
           done == Patch(files, e.path, <<e, f>>)
           Meets == /\ e.path \in Files(files) /\ IsText(content)
                    /\ Has(content, e.old) /\ Has(content, f.old)
<1>1. DOMAIN <<e, f>> = D /\ <<e, f>> # <<>> /\ <<e, f>>[1] = e /\ <<e, f>>[2] = f
  OBVIOUS
<1>9. ASSUME ~Meets PROVE ~done.ok
  <2>1. (\A i \in DOMAIN <<e, f>> : Has(content, <<e, f>>[i].old))
          => Has(content, e.old) /\ Has(content, f.old)
    BY <1>1
  <2>2. done = Refused(files)
    BY <1>9, <2>1 DEF Patch
  <2> QED
    BY <2>2 DEF Refused
<1> SUFFICES ASSUME Meets
             PROVE  done = Store(files, e.path,
                                 Substitute(Substitute(content, e.old, e.new), f.old, f.new), TRUE)
  <2> USE DEF InTurn
  <2> DEFINE last == Substitute(Substitute(content, e.old, e.new), f.old, f.new)
  <2>1. PICK text : text = last
    OBVIOUS
  <2>2. Store(files, e.path, text, TRUE).ok
          => Store(files, e.path, text, TRUE).disk = [files EXCEPT ![e.path] = text]
    BY StoreMeans, ZenonT(40)
  <2>3. Meets => done = Store(files, e.path, text, TRUE)
    BY <2>1
  <2> HIDE DEF done, last
  <2> QED
    BY <1>9, <2>1, <2>2, <2>3 DEF done, last
<1>0. content \in Seq(Words)
  BY DEF Files, Disk
<1>2. done = Store(files, e.path, iter[D], TRUE)
  <2>1. \A i \in DOMAIN <<e, f>> : Has(content, <<e, f>>[i].old)
    <3>1. \A i \in D : i = 1 \/ i = 2
      OBVIOUS
    <3> QED
      BY <1>1, <3>1
  <2>2. done = Store(files, e.path, iter[DOMAIN <<e, f>>], TRUE)
    BY <1>1, <2>1 DEF Patch, FoldLeft, MapThenFoldSet
  <2> HIDE DEF iter, D, done
  <2> QED
    BY <1>1, <2>2
<1>3. \E g : Iter(g)
  <2> DEFINE pick == [s \in SUBSET D |-> Max(s)]
             step == [i \in D |-> [x \in Seq(Words) |-> Step(x, i)]]
  <2>1. \A s \in SUBSET D : s # {} => pick[s] \in s
    BY MaxFacts
  <2>2. ASSUME NEW i \in D, NEW x \in Seq(Words) PROVE step[i][x] \in Seq(Words)
    <3>1. i = 1 \/ i = 2
      OBVIOUS
    <3>2. <<e, f>>[i].new \in Words
      BY <3>1 DEF Swaps
    <3>3. Step(x, i) \in Seq(Words)
      BY <3>2, SubstituteFacts
    <3> HIDE DEF Step, D
    <3> QED
      BY <3>3
  <2>3. content \in Seq(Words)
    BY <1>0
  <2>4. IsFiniteSet(D)
    <3>1. 1 \in Int /\ 2 \in Int
      OBVIOUS
    <3> QED
      BY <3>1, FS_Interval
  <2>5. PICK g \in [SUBSET D -> Seq(Words)] : Steps(g, D, content, pick, step)
    <3> HIDE DEF D, pick, step, content
    <3> QED
      BY <2>1, <2>2, <2>3, <2>4, FoldExists
  <2>6. ASSUME NEW s \in SUBSET D, s # {}
        PROVE  step[pick[s]][g[s \ {pick[s]}]] = Step(g[s \ {Max(s)}], Max(s))
    <3>1. pick[s] = Max(s) /\ Max(s) \in D /\ g[s \ {Max(s)}] \in Seq(Words)
      BY <2>1, <2>6
    <3> HIDE DEF Step, D
    <3> QED
      BY <3>1
  <2> HIDE DEF pick, step, Step, D, content
  <2>7. g = [s \in SUBSET D |-> IF s = {} THEN content ELSE Step(g[s \ {Max(s)}], Max(s))]
    BY <2>5, <2>6 DEF Steps
  <2> QED
    BY <2>7
<1>4. Iter(iter)
  <2> HIDE DEF Iter
  <2> QED
    BY <1>3
<1>5. /\ Max(1..1) = 1 /\ (1..1) \ {Max(1..1)} = {} /\ 1..1 # {} /\ 1..1 \in SUBSET D
      /\ Max(D) = 2 /\ D \ {Max(D)} = 1..1 /\ D # {} /\ {} \in SUBSET D
  <2>1. Max(1..1) = 1 /\ (1..1) \ {Max(1..1)} = 1..0 /\ Max(1..2) = 2 /\ (1..2) \ {Max(1..2)} = 1..1
    <3>1. 1 \in 1..2 /\ 2 \in 1..2 /\ 1 - 1 = 0 /\ 2 - 1 = 1
      OBVIOUS
    <3> QED
      BY <3>1, PrefixMax, ZenonT(40)
  <2> QED
    BY <2>1
<1>6. iter[D] = Step(Step(content, 1), 2)
  <2> HIDE DEF iter, Step, content, D
  <2>1. iter[{}] = content
    BY <1>4, <1>5
  <2>2. iter[1..1] = Step(iter[{}], 1)
    BY <1>4, <1>5
  <2>3. iter[D] = Step(iter[1..1], 2)
    BY <1>4, <1>5
  <2> QED
    BY <2>1, <2>2, <2>3
<1> QED
  BY <1>2, <1>6

\* A replacement that succeeds had one place to make it.  A patch of two does what its
\* replacements would do one after the other, and succeeds whenever they do and the file
\* had both old texts from the start; but it succeeds too where they would be refused,
\* when an old text has several places (the first is taken) or, once the other was
\* replaced, none or several (restricted.py:722, 799).
THEOREM EditsStand == Spec => []EditsAreUnambiguous
<1>1. TypeOK => EditsAreUnambiguous
  <2> SUFFICES ASSUME TypeOK, NEW e \in Swaps, NEW f \in Swaps, e.path = f.path
               PROVE  LET once  == Replace(disk, e.path, e.old, e.new)
                          twice == Replace(once.disk, f.path, f.old, f.new)
                          both  == Patch(disk, e.path, <<e, f>>)
                          places(files, word) == Cardinality(Occurrences(files[e.path], word))
                      IN /\ once.ok /\ e.old # e.new => ~Has(once.disk[e.path], e.old)
                         /\ once.ok /\ twice.ok /\ Has(disk[e.path], f.old) => both.ok
                         /\ both.ok => \/ once.ok /\ twice.ok /\ both.disk = twice.disk
                                       \/ places(disk, e.old) > 1
                                       \/ places(once.disk, f.old) # 1
    BY SwapFacts DEF EditsAreUnambiguous
  <2> DEFINE once  == Replace(disk, e.path, e.old, e.new)
             twice == Replace(once.disk, f.path, f.old, f.new)
             both  == Patch(disk, e.path, <<e, f>>)
             mid   == Substitute(disk[e.path], e.old, e.new)
             last  == Substitute(mid, f.old, f.new)
             there == e.path \in Files(disk)
             alone == Cardinality(Occurrences(disk[e.path], e.old)) = 1
             next  == Cardinality(Occurrences(once.disk[e.path], f.old)) = 1
  <2>1. /\ disk \in Disk /\ e.path \in Paths /\ e.new \in Words /\ e.new # NotText
        /\ f.new \in Words /\ once.disk \in Disk
    <3>1. disk \in Disk /\ e.path \in Paths /\ e.new \in Words
      BY DEF TypeOK, Swaps
    <3> QED
      BY <3>1, ReplaceFacts DEF Swaps
  <2>2. /\ once.ok <=> there /\ IsText(disk[e.path]) /\ alone /\ Store(disk, e.path, mid, TRUE).ok
        /\ once.ok => once.disk = [disk EXCEPT ![e.path] = mid]
    BY <2>1, ReplaceMeans
  <2>3. /\ twice.ok <=> /\ e.path \in Files(once.disk) /\ IsText(once.disk[e.path]) /\ next
                        /\ Store(once.disk, e.path, Substitute(once.disk[e.path], f.old, f.new),
                                 TRUE).ok
        /\ twice.ok => twice.disk = [once.disk EXCEPT
                                       ![e.path] = Substitute(once.disk[e.path], f.old, f.new)]
    <3>1. PICK files \in Disk : files = once.disk
      BY <2>1
    <3> HIDE DEF once
    <3>2. LET done == Replace(files, f.path, f.old, f.new)
              text == Substitute(files[f.path], f.old, f.new)
          IN /\ done.ok <=> /\ f.path \in Files(files) /\ IsText(files[f.path])
                            /\ Cardinality(Occurrences(files[f.path], f.old)) = 1
                            /\ Store(files, f.path, text, TRUE).ok
             /\ done.ok => done.disk = [files EXCEPT ![f.path] = text]
      BY ReplaceMeans, ZenonT(40)
    <3> QED
      BY <3>1, <3>2
  <2>4. /\ both.ok <=> /\ there /\ IsText(disk[e.path]) /\ Has(disk[e.path], e.old)
                       /\ Has(disk[e.path], f.old) /\ Store(disk, e.path, last, TRUE).ok
        /\ both.ok => both.disk = [disk EXCEPT ![e.path] = last]
    <3>1. InTurn(disk, e, f)
      BY <2>1, PatchMeans
    <3> QED
      BY <3>1, Zenon DEF InTurn
  <2>5. ASSUME there
        PROVE  /\ disk[e.path] \in Seq(Words) /\ mid \in Seq(Words) /\ last \in Seq(Words)
               /\ Len(mid) = Len(disk[e.path]) /\ Len(last) = Len(mid)
               /\ IsText(disk[e.path]) => IsText(mid)
               /\ alone => Has(disk[e.path], e.old) /\ (e.old # e.new => ~Has(mid, e.old))
    <3>1. disk[e.path] \in Seq(Words)
      BY <2>1, <2>5 DEF Files, Disk
    <3>2. /\ mid \in Seq(Words) /\ Len(mid) = Len(disk[e.path])
          /\ IsText(disk[e.path]) => IsText(mid)
          /\ alone => Has(disk[e.path], e.old) /\ (e.old # e.new => ~Has(mid, e.old))
      BY <2>1, <3>1, SubstituteFacts
    <3> HIDE DEF mid
    <3>3. last \in Seq(Words) /\ Len(last) = Len(mid)
      BY <2>1, <3>2, SubstituteFacts
    <3> QED
      BY <3>1, <3>2, <3>3
  <2>6. ASSUME there
        PROVE  /\ Store(disk, e.path, mid, TRUE).ok <=> Store(disk, e.path, last, TRUE).ok
               /\ Store(disk, e.path, last, TRUE).ok
                    <=> Store([disk EXCEPT ![e.path] = mid], e.path, last, TRUE).ok
    <3>1. PICK text \in Seq(Words) : text = mid
      BY <2>5, <2>6
    <3>2. PICK end \in Seq(Words) : end = last /\ Len(end) = Len(text)
      BY <2>5, <2>6, <3>1
    <3>3. /\ Store(disk, e.path, text, TRUE).ok
               <=> Store([disk EXCEPT ![e.path] = text], e.path, end, TRUE).ok
          /\ Store(disk, e.path, end, TRUE).ok
               <=> Store([disk EXCEPT ![e.path] = text], e.path, end, TRUE).ok
      <4>1. e.path \in Files(disk) /\ disk \in Disk
        BY <2>1, <2>6
      <4> HIDE DEF there, mid, last
      <4>2. Len(end) = Len(end)
        OBVIOUS
      <4> QED
        BY <3>2, <4>1, <4>2, StoreAlike, ZenonT(40)
    <3> QED
      BY <3>1, <3>2, <3>3
  <2>7. ASSUME once.ok
        PROVE  /\ there /\ once.disk[e.path] = mid
               /\ once.disk = [disk EXCEPT ![e.path] = mid]
               /\ Substitute(once.disk[e.path], f.old, f.new) = last
    <3>1. [disk EXCEPT ![e.path] = mid][e.path] = mid
      BY <2>1 DEF Disk
    <3>2. once.disk = [disk EXCEPT ![e.path] = mid] /\ there
      BY <2>2, <2>7
    <3>3. once.disk[e.path] = mid
      BY <3>1, <3>2
    <3> HIDE DEF once, mid
    <3> QED
      BY <3>2, <3>3
  <2>8. once.ok /\ e.old # e.new => ~Has(once.disk[e.path], e.old)
    <3> HIDE DEF once, mid, last, alone, there
    <3> QED
      BY <2>2, <2>5, <2>7
  <2>9. once.ok /\ twice.ok /\ Has(disk[e.path], f.old) => both.ok
    <3> HIDE DEF once, twice, both, mid, last, alone, there, next
    <3> QED
      BY <2>2, <2>4, <2>5, <2>6
  <2>10. ASSUME both.ok, alone, next PROVE once.ok /\ twice.ok /\ both.disk = twice.disk
    <3>1. once.ok
      <4> HIDE DEF once, both, mid, last, alone, there
      <4> QED
        BY <2>2, <2>4, <2>6, <2>10
    <3>2. e.path \in Files(once.disk)
      <4>1. once.disk[e.path] \in Seq(Words)
        <5> HIDE DEF once, mid, last, there
        <5> QED
          BY <2>5, <2>7, <3>1
      <4> HIDE DEF once
      <4> QED
        BY <2>1, <4>1, WorkspaceAssumption DEF Files
    <3>3. twice.ok
      <4> HIDE DEF once, twice, both, mid, last, alone, there, next
      <4> QED
        BY <2>3, <2>4, <2>5, <2>6, <2>7, <2>10, <3>1, <3>2
    <3>4. twice.disk = [once.disk EXCEPT ![e.path] = last] /\ both.disk = [disk EXCEPT ![e.path] = last]
      <4> HIDE DEF once, twice, both, mid, last
      <4> QED
        BY <2>3, <2>4, <2>7, <2>10, <3>1, <3>3
    <3>5. [once.disk EXCEPT ![e.path] = last] = [disk EXCEPT ![e.path] = last]
      <4>1. once.disk = [disk EXCEPT ![e.path] = mid]
        BY <2>7, <3>1
      <4> HIDE DEF once, mid, last
      <4> QED
        BY <2>1, <4>1 DEF Disk
    <3> QED
      BY <3>1, <3>3, <3>4, <3>5
  <2>11. ASSUME both.ok, ~alone PROVE Cardinality(Occurrences(disk[e.path], e.old)) > 1
    <3>1. there /\ Has(disk[e.path], e.old)
      BY <2>4, <2>11
    <3>2. PICK content \in Seq(Words) : content = disk[e.path]
      BY <2>5, <3>1
    <3>3. PICK n \in Nat : DOMAIN content = 1..n
      BY <3>2, LenProperties
    <3>4. IsFiniteSet(Occurrences(content, e.old))
      <4>1. IsFiniteSet(1..n) /\ Occurrences(content, e.old) \subseteq 1..n
        BY <3>3, FS_Interval DEF Occurrences
      <4> QED
        BY <4>1, FS_Subset
    <3>5. Occurrences(content, e.old) # {}
      BY <3>1, <3>2 DEF Occurrences, Has
    <3>6. PICK c \in Nat : c = Cardinality(Occurrences(content, e.old)) /\ c # 0
      BY <3>4, <3>5, FS_CardinalityType, FS_EmptySet
    <3>7. c # 1
      BY <2>11, <3>2, <3>6
    <3>8. c > 1
      BY <3>6, <3>7
    <3> QED
      BY <3>2, <3>6, <3>8
  <2> HIDE DEF once, twice, both, mid, last, there
  <2>12. both.ok => \/ once.ok /\ twice.ok /\ both.disk = twice.disk
                    \/ Cardinality(Occurrences(disk[e.path], e.old)) > 1
                    \/ Cardinality(Occurrences(once.disk[e.path], f.old)) # 1
    BY <2>10, <2>11
  <2> QED
    BY <2>8, <2>9, <2>12 DEF once, twice, both
<1> QED
  BY <1>1, TypesInit, TypesStep, PTL DEF Spec

-----------------------------------------------------------------------------
(* The views *)

Names == UNION {Range(p) : p \in Paths}

LEMMA NameOrderFacts == NameOrder \in Seq(STRING) /\ Range(NameOrder) = Names
<1>1. IsFiniteSet(Names)
  <2> DEFINE T == {Range(p) : p \in Paths}
             f == [p \in Paths |-> Range(p)]
  <2>1. f \in Surjection(Paths, T)
    BY DEF Surjection
  <2>2. IsFiniteSet(T)
    <3> HIDE DEF f, T
    <3> QED
      BY <2>1, FS_Surjection, WorkspaceAssumption
  <2>3. ASSUME NEW p \in Paths PROVE IsFiniteSet(Range(p))
    <3>1. p \in Seq(STRING)
      BY WorkspaceAssumption
    <3>2. PICK n \in Nat : DOMAIN p = 1..n
      BY <3>1, LenProperties
    <3>3. p \in Surjection(1..n, Range(p))
      <4>1. p \in [1..n -> Range(p)]
        BY <3>1, <3>2, LenProperties DEF Range
      <4> QED
        BY <3>2, <4>1 DEF Surjection, Range
    <3>4. IsFiniteSet(1..n)
      BY FS_Interval
    <3> QED
      BY <3>3, <3>4, FS_Surjection
  <2>4. \A t \in T : IsFiniteSet(t)
    BY <2>3
  <2> HIDE DEF T
  <2>5. IsFiniteSet(UNION T)
    BY <2>2, <2>4, FS_UNION
  <2> QED
    BY <2>5 DEF T, Names
<1>2. NameOrder \in Seq(Names) /\ Range(NameOrder) = Names
  BY <1>1, OrderedFacts DEF NameOrder, Names
<1>3. Names \subseteq STRING
  <2> SUFFICES ASSUME NEW p \in Paths, NEW x \in Range(p) PROVE x \in STRING
    BY DEF Names
  <2>1. p \in Seq(STRING)
    BY WorkspaceAssumption
  <2> QED
    BY <2>1, ElementOfSeq, LenProperties DEF Range
<1>4. NameOrder \in Seq(STRING)
  <2>1. PICK n \in Nat : NameOrder \in [1..n -> Names]
    BY <1>2, LenProperties
  <2>2. NameOrder \in [1..n -> STRING]
    BY <1>3, <2>1
  <2>3. [1..n -> STRING] \subseteq Seq(STRING)
    BY SeqDef
  <2> QED
    BY <2>2, <2>3
<1> QED
  BY <1>2, <1>4

\* A directory is shorter than what is under it.
LEMMA UnderFacts ==
  ASSUME NEW files, NEW dir \in Seq(STRING), NEW p \in Under(files, dir)
  PROVE  p \in Paths /\ p \in Files(files) /\ p[Len(dir) + 1] \in Range(p)
<1>1. p \in Paths /\ p \in Files(files) /\ IsStrictPrefix(dir, p)
  BY DEF Under, Files
<1>2. p \in Seq(STRING)
  BY <1>1, WorkspaceAssumption
<1>3. PICK m \in Nat, n \in Nat : m = Len(dir) /\ n = Len(p) /\ DOMAIN p = 1..n
  BY <1>2, LenProperties
<1>4. m <= n /\ SubSeq(dir, 1, m) = SubSeq(p, 1, m) /\ dir # p
  BY <1>1, <1>3 DEF IsStrictPrefix, IsPrefix
<1>5. m # n
  BY <1>2, <1>3, <1>4, SubSeqFull
<1>6. m + 1 \in 1..n
  BY <1>4, <1>5
<1> QED
  BY <1>1, <1>3, <1>6 DEF Range

LEMMA SeenFacts ==
  \A data, cut : /\ Seen(data, cut).data = data /\ Seen(data, cut).cut = cut
                 /\ Seen(data, cut).ok = TRUE
<1>1. \A kind, data, cut :
        LET seen == [ok |-> TRUE, kind |-> kind, data |-> data, cut |-> cut]
        IN seen.data = data /\ seen.cut = cut /\ seen.ok = TRUE
  OBVIOUS
<1> QED
  BY <1>1, Zenon DEF Seen

\* What can be listed.
Lists(files, out, dir) == IsDir(files, dir) /\ dir \notin out

LEMMA ListingFacts ==
  ASSUME NEW files \in Disk, NEW out, NEW dir \in Seq(STRING)
  PROVE  /\ Listing(files, out, dir).ok = Lists(files, out, dir)
         /\ Listing(files, out, dir).data \in Seq(STRING)
         /\ Listing(files, out, dir).cut \in BOOLEAN
         /\ Lists(files, out, dir) /\ ~Listing(files, out, dir).cut =>
              \A p \in Under(files, dir) : Has(Listing(files, out, dir).data, p[Len(dir) + 1])
<1> DEFINE there == {p[Len(dir) + 1] : p \in Under(files, dir)}
           names == InOrder(NameOrder, there)
<1>1. names \in Seq(STRING) /\ Range(names) = Names \cap there
  BY NameOrderFacts, InOrderFacts
<1>2. PICK n \in Nat : n = Len(names)
  BY <1>1, LenProperties
<1>3. CASE ~Lists(files, out, dir)
  <2>1. Listing(files, out, dir) = Failed("list")
    BY <1>3 DEF Listing, Lists
  <2>2. Failed("list").data = <<>> /\ Failed("list").cut = FALSE /\ Failed("list").ok = FALSE
    BY DEF Failed
  <2>3. <<>> \in Seq(STRING)
    BY EmptyFacts
  <2> QED
    BY <1>3, <2>1, <2>2, <2>3 DEF Lists
<1>4. CASE Lists(files, out, dir)
  <2>1. Listing(files, out, dir) = Seen(First(names, MaxList), Len(names) > MaxList)
    BY <1>4 DEF Listing, Lists
  <2>2. /\ Listing(files, out, dir).data = First(names, MaxList)
        /\ Listing(files, out, dir).ok = TRUE
        /\ Listing(files, out, dir).cut \in BOOLEAN
        /\ ~Listing(files, out, dir).cut => ~(n > MaxList)
    <3> HIDE DEF names
    <3> DEFINE over == Len(names) > MaxList
    <3>1. over \in BOOLEAN
      OBVIOUS
    <3>2. n > MaxList => over
      BY <1>2
    <3> HIDE DEF over
    <3>3. Listing(files, out, dir) = Seen(First(names, MaxList), over)
      BY <2>1 DEF over
    <3>4. PICK some : some = First(names, MaxList)
      OBVIOUS
    <3>5. Seen(some, over).cut = over /\ Seen(some, over).ok = TRUE /\ Seen(some, over).data = some
      BY SeenFacts, Zenon
    <3>6. /\ Listing(files, out, dir).cut = over /\ Listing(files, out, dir).ok = TRUE
          /\ Listing(files, out, dir).data = First(names, MaxList)
      BY <3>3, <3>4, <3>5, Zenon
    <3> QED
      BY <3>1, <3>2, <3>6, Zenon
  <2>3. MaxList \in Nat
    BY WorkspaceAssumption
  <2>4. ASSUME n <= MaxList, NEW p \in Under(files, dir)
        PROVE  Has(First(names, MaxList), p[Len(dir) + 1])
    <3>1. First(names, MaxList) = names
      <4> HIDE DEF names
      <4> QED
        BY <1>1, <1>2, <2>3, <2>4, FirstFacts
    <3>2. p[Len(dir) + 1] \in Names
      BY UnderFacts DEF Names
    <3>3. p[Len(dir) + 1] \in Range(names)
      BY <1>1, <3>2
    <3> HIDE DEF names
    <3> QED
      BY <3>1, <3>3 DEF Range, Has
  <2> HIDE DEF names
  <2>5. First(names, MaxList) \in Seq(STRING)
    BY <1>1, <2>3, FirstFacts
  <2>6. ~(n > MaxList) => n <= MaxList
    BY <1>2, <2>3
  <2> QED
    BY <1>4, <2>2, <2>4, <2>5, <2>6
<1> QED
  BY <1>3, <1>4

LEMMA VisibleFacts ==
  ASSUME NEW files \in Disk, NEW out, NEW dir \in Seq(STRING)
  PROVE  /\ Visible(files, out, dir) \in Seq(STRING)
         /\ Lists(files, out, dir) /\ ~Listing(files, out, dir).cut =>
              \A p \in Under(files, dir) :
                p[Len(dir) + 1] \notin Skipped => p[Len(dir) + 1] \in Range(Visible(files, out, dir))
<1>1. PICK names \in Seq(STRING) : names = Listing(files, out, dir).data
  BY ListingFacts
<1>2. Visible(files, out, dir) = InOrder(names, Range(names) \ Skipped)
  BY <1>1 DEF Visible
<1>3. /\ Visible(files, out, dir) \in Seq(STRING)
      /\ Range(Visible(files, out, dir)) = Range(names) \cap (Range(names) \ Skipped)
  BY <1>2, InOrderFacts
<1>4. ASSUME Lists(files, out, dir), ~Listing(files, out, dir).cut, NEW p \in Under(files, dir)
      PROVE  p[Len(dir) + 1] \in Range(names)
  <2>1. Has(names, p[Len(dir) + 1])
    BY <1>1, <1>4, ListingFacts
  <2> QED
    BY <2>1 DEF Has, Range
<1> QED
  BY <1>3, <1>4

\* What a search has found so far; the directories and the lines are counted, no more.
Founds == [dirs : SUBSET Seq(STRING), hits : SUBSET (Paths \X Nat), files : Nat,
           cut : BOOLEAN, stop : BOOLEAN]

\* What the search comes to is in what it found, or it says that something is not.
Finds(files, out, word, p, found) ==
  ~Closed(out, p) /\ p \notin Denied \cup out =>
    {p} \X Occurrences(files[p], word) \subseteq found.hits

LEMMA InspectFacts ==
  ASSUME NEW files \in Disk, NEW out, NEW word, NEW found \in Founds, NEW p \in Files(files)
  PROVE  LET next == Inspect(files, out, word, found, p)
         IN /\ next \in Founds
            /\ found.hits \subseteq next.hits
            /\ found.cut => next.cut
            /\ (found.stop => found.cut) => (next.stop => next.cut)
            /\ ~next.cut /\ ~found.stop => Finds(files, out, word, p, next)
<1> DEFINE next  == Inspect(files, out, word, found, p)
           dirs  == found.dirs \cup Above(out, p)
           lines == Occurrences(First(files[p], MaxSearchWords), word)
           shown == {i \in lines : Cardinality(found.hits)
                                     + Cardinality({j \in lines : j <= i}) <= MaxMatches}
           full  == shown # lines
           long  == Len(files[p]) > MaxSearchWords
<1>0. /\ found.dirs \in SUBSET Seq(STRING) /\ found.hits \in SUBSET (Paths \X Nat)
      /\ found.files \in Nat /\ found.cut \in BOOLEAN /\ found.stop \in BOOLEAN
      /\ p \in Paths /\ p \in Seq(STRING) /\ files[p] \in Seq(Words)
  BY WorkspaceAssumption DEF Founds, Files, Disk
<1>1. dirs \in SUBSET Seq(STRING)
  <2>1. ASSUME NEW n \in 0..(Len(p) - 1) PROVE First(p, n) \in Seq(STRING)
    <3>1. n \in Nat
      BY <1>0, LenProperties
    <3> QED
      BY <1>0, <3>1, FirstFacts
  <2> QED
    BY <1>0, <2>1 DEF Above
<1>2. MaxSearchWords \in Nat /\ First(files[p], MaxSearchWords) \in Seq(Words)
  <2>1. PICK content \in Seq(Words) : content = files[p]
    BY <1>0
  <2>2. First(content, MaxSearchWords) \in Seq(Words)
    BY FirstFacts, WorkspaceAssumption
  <2> QED
    BY <2>1, <2>2, WorkspaceAssumption
<1>3. lines \in SUBSET Nat
  <2>1. PICK text \in Seq(Words) : text = First(files[p], MaxSearchWords)
    BY <1>2
  <2>2. PICK n \in Nat : DOMAIN text = 1..n
    BY LenProperties
  <2> QED
    BY <2>1, <2>2 DEF Occurrences
<1>4. ~long => lines = Occurrences(files[p], word)
  <2>1. PICK content \in Seq(Words) : content = files[p]
    BY <1>0
  <2>2. ~long => Len(content) <= MaxSearchWords
    BY <1>2, <2>1, LenProperties
  <2>3. Len(content) <= MaxSearchWords => First(content, MaxSearchWords) = content
    BY <1>2, FirstFacts
  <2> QED
    BY <2>1, <2>2, <2>3
<1>5. CASE found.stop
  <2>1. next = found
    BY <1>5 DEF Inspect
  <2> HIDE DEF next
  <2> QED
    BY <1>5, <2>1 DEF next
<1>6. ASSUME next = [found EXCEPT !.cut = TRUE, !.stop = TRUE] PROVE next \in Founds
                /\ next.hits = found.hits /\ next.cut = TRUE
  <2> HIDE DEF next
  <2> QED
    BY <1>0, <1>6 DEF Founds
<1>7. CASE ~found.stop /\ Cardinality(dirs) > MaxSearchDirs
  <2>1. next = [found EXCEPT !.cut = TRUE, !.stop = TRUE]
    BY <1>7 DEF Inspect
  <2>2. next \in Founds /\ next.hits = found.hits /\ next.cut = TRUE
    BY <1>6, <2>1
  <2> HIDE DEF next
  <2> QED
    BY <2>2 DEF next
<1>8. CASE /\ ~found.stop /\ ~(Cardinality(dirs) > MaxSearchDirs)
           /\ p \in Denied \/ Closed(out, p)
  <2>1. next = [found EXCEPT !.dirs = dirs]
    BY <1>8 DEF Inspect
  <2>2. /\ next \in Founds /\ next.hits = found.hits /\ next.cut = found.cut
        /\ next.stop = found.stop
    <3> HIDE DEF next, dirs
    <3> QED
      BY <1>0, <1>1, <2>1 DEF Founds
  <2> HIDE DEF next
  <2> QED
    BY <1>8, <2>2 DEF next, Finds
<1>9. CASE /\ ~found.stop /\ ~(Cardinality(dirs) > MaxSearchDirs)
           /\ ~(p \in Denied \/ Closed(out, p)) /\ found.files = MaxSearchFiles
  <2>1. next = [found EXCEPT !.cut = TRUE, !.stop = TRUE]
    BY <1>9 DEF Inspect
  <2>2. next \in Founds /\ next.hits = found.hits /\ next.cut = TRUE
    BY <1>6, <2>1
  <2> HIDE DEF next
  <2> QED
    BY <2>2 DEF next
<1>10. CASE /\ ~found.stop /\ ~(Cardinality(dirs) > MaxSearchDirs)
            /\ ~(p \in Denied \/ Closed(out, p)) /\ found.files # MaxSearchFiles /\ p \in out
  <2>1. next = [found EXCEPT !.dirs = dirs, !.files = @ + 1]
    BY <1>10 DEF Inspect
  <2>2. PICK more \in Nat : more = found.files + 1
    BY <1>0
  <2>3. /\ next \in Founds /\ next.hits = found.hits /\ next.cut = found.cut
        /\ next.stop = found.stop
    <3>1. next = [found EXCEPT !.dirs = dirs, !.files = more]
      BY <2>1, <2>2
    <3> HIDE DEF next, dirs
    <3> QED
      BY <1>0, <1>1, <3>1 DEF Founds
  <2> HIDE DEF next
  <2> QED
    BY <1>10, <2>3 DEF next, Finds
<1>11. CASE /\ ~found.stop /\ ~(Cardinality(dirs) > MaxSearchDirs)
            /\ ~(p \in Denied \/ Closed(out, p)) /\ found.files # MaxSearchFiles /\ p \notin out
  <2> DEFINE hits == found.hits \cup ({p} \X shown)
             cut  == found.cut \/ long \/ full
  <2>1. next = [dirs |-> dirs, files |-> found.files + 1, hits |-> hits, cut |-> cut,
                stop |-> full]
    BY <1>11 DEF Inspect
  <2>2. hits \in SUBSET (Paths \X Nat) /\ full \in BOOLEAN /\ cut \in BOOLEAN
    <3>1. shown \in SUBSET Nat
      BY <1>3
    <3> HIDE DEF shown
    <3> QED
      BY <1>0, <3>1
  <2>3. PICK more \in Nat : more = found.files + 1
    BY <1>0
  <2>4. ~cut => {p} \X Occurrences(files[p], word) \subseteq hits
    <3>1. ~cut => shown = Occurrences(files[p], word)
      BY <1>4
    <3> HIDE DEF shown, cut
    <3> QED
      BY <3>1
  <2>5. found.hits \subseteq hits /\ (found.cut => cut) /\ (full => cut)
    BY <1>0
  <2>6. next \in Founds /\ next.hits = hits /\ next.cut = cut /\ next.stop = full
    <3>1. next = [dirs |-> dirs, files |-> more, hits |-> hits, cut |-> cut, stop |-> full]
      BY <2>1, <2>3
    <3> HIDE DEF next, dirs, hits, cut, full
    <3> QED
      BY <1>1, <2>2, <2>3, <3>1 DEF Founds
  <2> HIDE DEF next, hits, cut, full
  <2> QED
    BY <2>4, <2>5, <2>6 DEF next, Finds
<1> QED
  BY <1>5, <1>7, <1>8, <1>9, <1>10, <1>11

Blank == [dirs |-> {}, files |-> 0, hits |-> {}, cut |-> FALSE, stop |-> FALSE]

SearchIn(files, out, word, order) ==
  FoldLeft(LAMBDA found, p : Inspect(files, out, word, found, p), Blank, order)

\* Search looks at one file after the other.
SearchWalk(files, out, word, order) ==
  \E h : /\ h[0] = Blank /\ h[Len(order)] = SearchIn(files, out, word, order)
         /\ \A k \in 1..Len(order) : h[k] = Inspect(files, out, word, h[k - 1], order[k])

LEMMA SearchSteps ==
  ASSUME NEW files \in Disk, NEW out, NEW word, NEW order \in Seq(Files(files))
  PROVE  SearchWalk(files, out, word, order)
<1> DEFINE D == DOMAIN order
           Step(x, i) == Inspect(files, out, word, x, order[i])
           Iter(g) == g = [s \in SUBSET D |-> IF s = {} THEN Blank
                                              ELSE Step(g[s \ {Max(s)}], Max(s))]
           iter == CHOOSE g : Iter(g)
<1>1. SearchIn(files, out, word, order) = iter[D]
  BY DEF SearchIn, FoldLeft, MapThenFoldSet
<1>0. PICK n \in Nat : n = Len(order) /\ D = 1..n
  BY LenProperties
<1>2. \E g : Iter(g)
  <2> DEFINE pick == [s \in SUBSET D |-> Max(s)]
             step == [i \in D |-> [x \in Founds |-> Step(x, i)]]
  <2>1. \A s \in SUBSET D : s # {} => pick[s] \in s
    BY <1>0, MaxFacts
  <2>2. ASSUME NEW i \in D, NEW x \in Founds PROVE step[i][x] \in Founds
    <3>1. order[i] \in Files(files)
      BY <1>0, ElementOfSeq
    <3>2. Step(x, i) \in Founds
      BY <3>1, InspectFacts
    <3> HIDE DEF Step, D
    <3> QED
      BY <3>2
  <2>3. Blank \in Founds /\ IsFiniteSet(D)
    BY <1>0, FS_Interval DEF Founds, Blank
  <2>4. PICK g \in [SUBSET D -> Founds] : Steps(g, D, Blank, pick, step)
    <3> HIDE DEF D, pick, step
    <3> QED
      BY <2>1, <2>2, <2>3, FoldExists
  <2>5. ASSUME NEW s \in SUBSET D, s # {}
        PROVE  step[pick[s]][g[s \ {pick[s]}]] = Step(g[s \ {Max(s)}], Max(s))
    <3>1. pick[s] = Max(s) /\ Max(s) \in D /\ g[s \ {Max(s)}] \in Founds
      BY <2>1, <2>5
    <3> HIDE DEF Step, D
    <3> QED
      BY <3>1
  <2> HIDE DEF pick, step, Step, D
  <2>6. g = [s \in SUBSET D |-> IF s = {} THEN Blank ELSE Step(g[s \ {Max(s)}], Max(s))]
    BY <2>4, <2>5 DEF Steps
  <2> QED
    BY <2>6
<1>3. Iter(iter)
  <2> HIDE DEF Iter
  <2> QED
    BY <1>2
<1> DEFINE h == [k \in 0..n |-> iter[1..k]]
<1>4. h[0] = Blank
  <2>1. 1..0 = {} /\ 0 \in 0..n
    BY <1>0
  <2> HIDE DEF Step
  <2> QED
    BY <1>3, <2>1
<1>5. ASSUME NEW k \in 1..n PROVE h[k] = Step(h[k - 1], k)
  <2>1. /\ 1..k \in SUBSET D /\ 1..k # {} /\ k \in 0..n /\ k - 1 \in 0..n
        /\ Max(1..k) = k /\ (1..k) \ {Max(1..k)} = 1..(k - 1)
    BY <1>0, PrefixMax
  <2>2. iter[1..k] = Step(iter[1..(k - 1)], k)
    <3> HIDE DEF iter, D, Step
    <3> QED
      BY <1>3, <2>1
  <2> HIDE DEF iter, Step
  <2> QED
    BY <2>1, <2>2
<1>6. h[n] = SearchIn(files, out, word, order)
  <2> HIDE DEF iter
  <2> QED
    BY <1>0, <1>1
<1> HIDE DEF h, iter
<1> QED
  BY <1>0, <1>4, <1>5, <1>6 DEF SearchWalk

\* A search that was not cut found every line with the word it could come to, the denied
\* files apart.
LEMMA SearchMeans ==
  ASSUME NEW files \in Disk, NEW out, NEW word, ~Search(files, out, word).cut,
         NEW p \in Files(files)
  PROVE  Finds(files, out, word, p, Search(files, out, word))
<1>1. PICK order : /\ order = InOrder(PathOrder, Files(files))
                   /\ order \in Seq(Paths) /\ Range(order) = Files(files)
  BY PathOrderFacts DEF Files
<1>2. PICK n \in Nat : n = Len(order) /\ DOMAIN order = 1..n
  BY <1>1, LenProperties
<1>3. order \in Seq(Files(files))
  <2>1. order \in [1..n -> Files(files)]
    BY <1>1, <1>2, LenProperties DEF Range
  <2>2. [1..n -> Files(files)] \subseteq Seq(Files(files))
    BY SeqDef
  <2> QED
    BY <2>1, <2>2
<1>4. PICK h : /\ h[0] = Blank /\ h[n] = Search(files, out, word)
               /\ \A k \in 1..n : h[k] = Inspect(files, out, word, h[k - 1], order[k])
  <2>1. SearchWalk(files, out, word, order)
    BY <1>3, SearchSteps
  <2>2. Search(files, out, word) = SearchIn(files, out, word, InOrder(PathOrder, Files(files)))
    BY DEF Search, SearchIn, Blank, FoldLeft, MapThenFoldSet
  <2> QED
    BY <1>1, <1>2, <2>1, <2>2 DEF SearchWalk
<1> DEFINE Listed(k) == \A i \in 1..k : Finds(files, out, word, order[i], h[k])
           P == {k \in 0..n : /\ h[k] \in Founds
                              /\ h[k].stop => h[k].cut
                              /\ ~h[k].cut => Listed(k)}
<1>5. 0 \in P
  <2>1. h[0] \in Founds /\ h[0].stop = FALSE
    BY <1>4 DEF Founds, Blank
  <2>2. 0 \in 0..n /\ 1..0 = {}
    BY <1>2
  <2> QED
    BY <2>1, <2>2
<1>6. ASSUME NEW k \in 1..n, k - 1 \in P PROVE k \in P
  <2>1. /\ h[k - 1] \in Founds /\ (h[k - 1].stop => h[k - 1].cut)
        /\ ~h[k - 1].cut => Listed(k - 1)
    BY <1>6
  <2>2. order[k] \in Files(files) /\ h[k] = Inspect(files, out, word, h[k - 1], order[k])
    BY <1>2, <1>3, <1>4, ElementOfSeq
  <2>3. /\ h[k] \in Founds
        /\ h[k - 1].hits \subseteq h[k].hits
        /\ h[k - 1].cut => h[k].cut
        /\ (h[k - 1].stop => h[k - 1].cut) => (h[k].stop => h[k].cut)
        /\ ~h[k].cut /\ ~h[k - 1].stop => Finds(files, out, word, order[k], h[k])
    BY <2>1, <2>2, InspectFacts
  <2>4. ASSUME ~h[k].cut PROVE Listed(k)
    <3>1. Listed(k - 1) /\ ~h[k - 1].stop
      BY <2>1, <2>3, <2>4
    <3>2. \A i \in 1..k : i \in 1..(k - 1) \/ i = k
      OBVIOUS
    <3>3. \A i \in 1..(k - 1) : Finds(files, out, word, order[i], h[k])
      BY <2>3, <3>1 DEF Finds
    <3> QED
      BY <2>3, <2>4, <3>1, <3>2, <3>3
  <2>5. k \in 0..n
    OBVIOUS
  <2> HIDE DEF Listed
  <2> QED
    BY <2>1, <2>3, <2>4, <2>5
<1>7. n \in P
  <2>1. P \in SUBSET (0..n) /\ n \in 0..n
    BY <1>2
  <2> HIDE DEF P
  <2> QED
    BY <1>2, <1>5, <1>6, <2>1, Climb
<1>8. PICK i \in 1..n : p = order[i]
  BY <1>1, <1>2 DEF Range
<1> QED
  BY <1>4, <1>7, <1>8

\* The scan: what it took in, and what it says of the rest.
Scans == [entries : Nat, dirs : SUBSET Seq(STRING), files : SUBSET Seq(STRING),
          keys : {{}}, cut : BOOLEAN]

Grows(s, t) == s.files \subseteq t.files /\ (s.cut => t.cut)

LEMMA AccountFacts ==
  ASSUME NEW files \in Disk, NEW out, NEW s \in Scans, NEW path \in Seq(STRING)
  PROVE  LET t == Account(files, out, s, path)
         IN /\ t \in Scans /\ Grows(s, t)
            /\ ~t.cut => path \in (IF Lists(files, out, path) THEN t.dirs ELSE t.files)
<1> DEFINE t == Account(files, out, s, path)
           more == [s EXCEPT !.entries = @ + 1]
<1>0. /\ s.entries \in Nat /\ s.dirs \in SUBSET Seq(STRING) /\ s.files \in SUBSET Seq(STRING)
      /\ s.keys \in {{}} /\ s.cut \in BOOLEAN
  BY DEF Scans
<1>8. Listing(files, out, path).ok = Lists(files, out, path)
  BY ListingFacts
<1>9. /\ more \in Scans /\ more.files = s.files /\ more.dirs = s.dirs /\ more.cut = s.cut
  <2>1. PICK e \in Nat : e = s.entries + 1
    BY <1>0
  <2>2. more = [s EXCEPT !.entries = e]
    BY <2>1
  <2> HIDE DEF more
  <2> QED
    BY <1>0, <2>2 DEF Scans
<1>1. CASE s.entries = MaxEntries
  <2>1. t = [s EXCEPT !.cut = TRUE]
    BY <1>1 DEF Account
  <2>2. t \in Scans /\ t.files = s.files /\ t.cut = TRUE
    BY <1>0, <2>1 DEF Scans
  <2> HIDE DEF t
  <2> QED
    BY <2>2 DEF t, Grows
<1>2. CASE s.entries # MaxEntries /\ ~Lists(files, out, path)
  <2>1. t = [more EXCEPT !.files = @ \cup {path}]
    BY <1>2, <1>8 DEF Account
  <2>2. t \in Scans /\ t.files = s.files \cup {path} /\ t.cut = s.cut
    <3> HIDE DEF more
    <3>1. PICK taken \in SUBSET Seq(STRING) : taken = s.files \cup {path}
      BY <1>0
    <3>2. t = [more EXCEPT !.files = taken]
      BY <1>9, <2>1, <3>1
    <3> HIDE DEF t
    <3> QED
      BY <1>9, <3>1, <3>2 DEF Scans
  <2> HIDE DEF t
  <2> QED
    BY <1>2, <2>2 DEF t, Grows
<1>3. CASE s.entries # MaxEntries /\ Lists(files, out, path) /\ Cardinality(s.dirs) = MaxDirs
  <2>1. t = [more EXCEPT !.cut = TRUE]
    BY <1>3, <1>8 DEF Account
  <2>2. t \in Scans /\ t.files = s.files /\ t.cut = TRUE
    <3> HIDE DEF more
    <3> QED
      BY <1>9, <2>1 DEF Scans
  <2> HIDE DEF t
  <2> QED
    BY <2>2 DEF t, Grows
<1>4. CASE s.entries # MaxEntries /\ Lists(files, out, path) /\ Cardinality(s.dirs) # MaxDirs
  <2>1. t = [more EXCEPT !.dirs = @ \cup {path}]
    BY <1>4, <1>8 DEF Account
  <2>2. t \in Scans /\ t.files = s.files /\ t.dirs = s.dirs \cup {path} /\ t.cut = s.cut
    <3> HIDE DEF more
    <3>1. PICK dirs \in SUBSET Seq(STRING) : dirs = s.dirs \cup {path}
      BY <1>0
    <3>2. t = [more EXCEPT !.dirs = dirs]
      BY <1>9, <2>1, <3>1
    <3> HIDE DEF t
    <3> QED
      BY <1>9, <3>1, <3>2 DEF Scans
  <2> HIDE DEF t
  <2> QED
    BY <1>4, <2>2 DEF t, Grows
<1> QED
  BY <1>1, <1>2, <1>3, <1>4

LEMMA PairFacts ==
  ASSUME NEW E, NEW a \in E, NEW b \in E
  PROVE  <<a>> \in Seq(E) /\ <<a, b>> \in Seq(E)
  OBVIOUS

Inside(files, out, s, name, names) ==
  FoldLeft(LAMBDA t, child : Account(files, out, t, <<name, child>>), s, names)

\* Inside takes the children one after the other.
InsideWalk(files, out, s, name, names) ==
  \E h : /\ h[0] = s /\ h[Len(names)] = Inside(files, out, s, name, names)
         /\ \A k \in 1..Len(names) : h[k] = Account(files, out, h[k - 1], <<name, names[k]>>)

LEMMA InsideSteps ==
  ASSUME NEW files \in Disk, NEW out, NEW s \in Scans, NEW name \in STRING, NEW names \in Seq(STRING)
  PROVE  InsideWalk(files, out, s, name, names)
<1> DEFINE D == DOMAIN names
           Step(x, i) == Account(files, out, x, <<name, names[i]>>)
           Iter(g) == g = [u \in SUBSET D |-> IF u = {} THEN s
                                              ELSE Step(g[u \ {Max(u)}], Max(u))]
           iter == CHOOSE g : Iter(g)
<1>1. Inside(files, out, s, name, names) = iter[D]
  BY DEF Inside, FoldLeft, MapThenFoldSet
<1>0. PICK n \in Nat : n = Len(names) /\ D = 1..n
  BY LenProperties
<1>2. \E g : Iter(g)
  <2> DEFINE pick == [u \in SUBSET D |-> Max(u)]
             step == [i \in D |-> [x \in Scans |-> Step(x, i)]]
  <2>1. \A u \in SUBSET D : u # {} => pick[u] \in u
    BY <1>0, MaxFacts
  <2>2. ASSUME NEW i \in D, NEW x \in Scans PROVE step[i][x] \in Scans
    <3>1. names[i] \in STRING
      BY <1>0, ElementOfSeq
    <3>2. Step(x, i) \in Scans
      BY <3>1, AccountFacts, PairFacts
    <3> HIDE DEF Step, D
    <3> QED
      BY <3>2
  <2>3. IsFiniteSet(D)
    BY <1>0, FS_Interval
  <2>4. PICK g \in [SUBSET D -> Scans] : Steps(g, D, s, pick, step)
    <3> HIDE DEF D, pick, step
    <3> QED
      BY <2>1, <2>2, <2>3, FoldExists
  <2>5. ASSUME NEW u \in SUBSET D, u # {}
        PROVE  step[pick[u]][g[u \ {pick[u]}]] = Step(g[u \ {Max(u)}], Max(u))
    <3>1. pick[u] = Max(u) /\ Max(u) \in D /\ g[u \ {Max(u)}] \in Scans
      BY <2>1, <2>5
    <3> HIDE DEF Step, D
    <3> QED
      BY <3>1
  <2> HIDE DEF pick, step, Step, D
  <2>6. g = [u \in SUBSET D |-> IF u = {} THEN s ELSE Step(g[u \ {Max(u)}], Max(u))]
    BY <2>4, <2>5 DEF Steps
  <2> QED
    BY <2>6
<1>3. Iter(iter)
  <2> HIDE DEF Iter
  <2> QED
    BY <1>2
<1> DEFINE h == [k \in 0..n |-> iter[1..k]]
<1>4. h[0] = s
  <2>1. 1..0 = {} /\ 0 \in 0..n
    BY <1>0
  <2> HIDE DEF Step
  <2> QED
    BY <1>3, <2>1
<1>5. ASSUME NEW k \in 1..n PROVE h[k] = Step(h[k - 1], k)
  <2>1. /\ 1..k \in SUBSET D /\ 1..k # {} /\ k \in 0..n /\ k - 1 \in 0..n
        /\ Max(1..k) = k /\ (1..k) \ {Max(1..k)} = 1..(k - 1)
    BY <1>0, PrefixMax
  <2>2. iter[1..k] = Step(iter[1..(k - 1)], k)
    <3> HIDE DEF iter, D, Step
    <3> QED
      BY <1>3, <2>1
  <2> HIDE DEF iter, Step
  <2> QED
    BY <2>1, <2>2
<1>6. h[n] = Inside(files, out, s, name, names)
  <2> HIDE DEF iter
  <2> QED
    BY <1>0, <1>1
<1> HIDE DEF h, iter
<1> QED
  BY <1>0, <1>4, <1>5, <1>6 DEF InsideWalk

LEMMA InsideFacts ==
  ASSUME NEW files \in Disk, NEW out, NEW s \in Scans, NEW name \in STRING, NEW names \in Seq(STRING)
  PROVE  LET t == Inside(files, out, s, name, names)
         IN /\ t \in Scans /\ Grows(s, t)
            /\ ~t.cut => \A child \in Range(names) :
                           ~Lists(files, out, <<name, child>>) => <<name, child>> \in t.files
<1>1. PICK n \in Nat : n = Len(names) /\ DOMAIN names = 1..n
  BY LenProperties
<1>2. PICK h : /\ h[0] = s /\ h[n] = Inside(files, out, s, name, names)
               /\ \A k \in 1..n : h[k] = Account(files, out, h[k - 1], <<name, names[k]>>)
  <2>1. InsideWalk(files, out, s, name, names)
    BY InsideSteps
  <2> QED
    BY <1>1, <2>1 DEF InsideWalk
<1> DEFINE Taken(k) == \A i \in 1..k : ~Lists(files, out, <<name, names[i]>>)
                                         => <<name, names[i]>> \in h[k].files
           P == {k \in 0..n : h[k] \in Scans /\ Grows(s, h[k]) /\ (~h[k].cut => Taken(k))}
<1>3. 0 \in P
  <2>1. 0 \in 0..n /\ 1..0 = {}
    BY <1>1
  <2>2. h[0] \in Scans /\ Grows(s, h[0])
    BY <1>2 DEF Grows
  <2> QED
    BY <2>1, <2>2
<1>4. ASSUME NEW k \in 1..n, k - 1 \in P PROVE k \in P
  <2> DEFINE path == <<name, names[k]>>
  <2>1. h[k - 1] \in Scans /\ Grows(s, h[k - 1]) /\ (~h[k - 1].cut => Taken(k - 1))
    BY <1>4
  <2>2. path \in Seq(STRING) /\ h[k] = Account(files, out, h[k - 1], path)
    BY <1>1, <1>2, ElementOfSeq, PairFacts
  <2>3. /\ h[k] \in Scans /\ Grows(h[k - 1], h[k])
        /\ ~h[k].cut /\ ~Lists(files, out, path) => path \in h[k].files
    <3> HIDE DEF path
    <3> QED
      BY <2>1, <2>2, AccountFacts
  <2>4. Grows(s, h[k])
    BY <2>1, <2>3 DEF Grows
  <2>5. ASSUME ~h[k].cut PROVE Taken(k)
    <3>1. Taken(k - 1) /\ h[k - 1].files \subseteq h[k].files
      BY <2>1, <2>3, <2>5 DEF Grows
    <3>2. \A i \in 1..k : i \in 1..(k - 1) \/ i = k
      OBVIOUS
    <3> QED
      BY <2>3, <2>5, <3>1, <3>2
  <2>6. k \in 0..n
    OBVIOUS
  <2> HIDE DEF Taken
  <2> QED
    BY <2>3, <2>4, <2>5, <2>6
<1>5. n \in P
  <2>1. P \in SUBSET (0..n) /\ n \in 0..n
    BY <1>1
  <2> HIDE DEF P
  <2> QED
    BY <1>1, <1>3, <1>4, <2>1, Climb
<1>6. \A child \in Range(names) : \E i \in 1..n : child = names[i]
  BY <1>1 DEF Range
<1> QED
  BY <1>2, <1>5, <1>6

\* What the scan is to see: the files of its two levels that no name hides.
Shallow(files, out) ==
  {p \in Files(files) : ~Closed(out, p) /\ Len(p) <= 2 /\ Skipped \cap Range(p) = {}}

Tree(files) == \A p, q \in Files(files) : ~IsStrictPrefix(p, q)

LEMMA ShallowFacts ==
  ASSUME NEW files, NEW out, Tree(files), NEW p \in Shallow(files, out)
  PROVE  /\ p[1] \in STRING \ Skipped /\ p \in Under(files, <<>>) /\ ~Lists(files, out, p)
         /\ <<>> \notin out /\ Lists(files, out, <<>>)
         /\ \/ p = <<p[1]>>
            \/ /\ p = <<p[1], p[2]>> /\ p[2] \in STRING \ Skipped
               /\ p \in Under(files, <<p[1]>>) /\ Lists(files, out, <<p[1]>>)
<1>1. p \in Files(files) /\ p \in Seq(STRING) /\ p # <<>> /\ Len(p) <= 2
  BY WorkspaceAssumption DEF Shallow, Files
<1>2. \A i \in 1..Len(p) : p[i] \in STRING \ Skipped
  <2> SUFFICES ASSUME NEW i \in 1..Len(p) PROVE p[i] \in STRING \ Skipped
    OBVIOUS
  <2>1. DOMAIN p = 1..Len(p) /\ p[i] \in STRING
    BY <1>1, LenProperties, ElementOfSeq
  <2> QED
    BY <2>1 DEF Shallow, Range
<1>3. Len(p) = 1 \/ Len(p) = 2
  <2>1. PICK n \in Nat : n = Len(p)
    BY <1>1, LenProperties
  <2>2. n # 0 /\ n <= 2
    BY <1>1, <2>1, EmptySeq
  <2>3. n = 1 \/ n = 2
    BY <2>2
  <2> QED
    BY <2>1, <2>3
<1>4. ~Lists(files, out, p)
  BY <1>1 DEF Tree, Lists, IsDir, Under
<1>8. \A dir : p \in Under(files, dir) => dir \notin out /\ Lists(files, out, dir)
  BY DEF Shallow, Closed, Under, Lists, IsDir
<1>5. p \in Under(files, <<>>)
  <2>1. Len(<<>>) = 0 /\ <<>> # p /\ 0 <= Len(p)
    BY <1>1, <1>3
  <2>2. SubSeq(<<>>, 1, 0) = <<>> /\ SubSeq(p, 1, 0) = <<>>
    BY SubSeqEmpty
  <2> QED
    BY <1>1, <2>1, <2>2 DEF Under, IsStrictPrefix, IsPrefix
<1>6. CASE Len(p) = 1
  <2>1. p = <<p[1]>>
    BY <1>1, <1>6
  <2> QED
    BY <1>2, <1>4, <1>5, <1>6, <1>8, <2>1
<1>7. CASE Len(p) = 2
  <2>1. p = <<p[1], p[2]>> /\ p[1] \in STRING \ Skipped /\ p[2] \in STRING \ Skipped
    BY <1>1, <1>2, <1>7
  <2> DEFINE dir == <<p[1]>>
  <2>2. dir \in Seq(STRING) /\ Len(dir) = 1 /\ dir[1] = p[1] /\ dir # p
    BY <1>7, <2>1
  <2>3. SubSeq(dir, 1, 1) = SubSeq(p, 1, 1)
    BY <1>1, <1>7, <2>2
  <2> HIDE DEF dir
  <2>4. p \in Under(files, dir)
    BY <1>1, <1>7, <2>2, <2>3 DEF Under, IsStrictPrefix, IsPrefix
  <2> QED
    BY <1>4, <1>5, <1>8, <2>1, <2>4 DEF dir
<1> QED
  BY <1>3, <1>6, <1>7

LEMMA ScanTopFacts ==
  ASSUME NEW files \in Disk, NEW out, Tree(files), NEW s \in Scans, NEW name \in STRING
  PROVE  LET t == ScanTop(files, out, s, name)
         IN /\ t \in Scans /\ Grows(s, t)
            /\ ~t.cut => \A p \in Shallow(files, out) : p[1] = name => p \in t.files
<1> DEFINE dir == <<name>>
           top == Account(files, out, s, dir)
           t == ScanTop(files, out, s, name)
<1>1. dir \in Seq(STRING)
  BY PairFacts
<1>2. /\ top \in Scans /\ Grows(s, top)
      /\ ~top.cut => dir \in (IF Lists(files, out, dir) THEN top.dirs ELSE top.files)
  <2> HIDE DEF dir
  <2> QED
    BY <1>1, AccountFacts
<1>3. CASE dir \notin top.dirs
  <2>1. t = top
    BY <1>3 DEF ScanTop
  <2>2. ASSUME ~top.cut, NEW p \in Shallow(files, out), p[1] = name PROVE p \in top.files
    <3>1. ~Lists(files, out, dir) /\ dir \in top.files
      BY <1>2, <1>3, <2>2
    <3>3. p = dir
      BY <2>2, <3>1, ShallowFacts
    <3> QED
      BY <3>1, <3>3
  <2> HIDE DEF top, t
  <2> QED
    BY <1>2, <2>1, <2>2 DEF t
<1>4. CASE dir \in top.dirs
  <2> DEFINE listed == Listing(files, out, dir).cut
             base == [top EXCEPT !.cut = @ \/ listed]
             names == Visible(files, out, dir)
  <2>1. t = Inside(files, out, base, name, names)
    BY <1>4 DEF ScanTop, Inside
  <2>2. /\ listed \in BOOLEAN /\ names \in Seq(STRING)
        /\ Lists(files, out, dir) /\ ~listed => \A p \in Under(files, dir) : p[Len(dir) + 1] \notin Skipped
                                                    => p[Len(dir) + 1] \in Range(names)
    <3> HIDE DEF dir
    <3> QED
      BY <1>1, ListingFacts, VisibleFacts
  <2>3. Len(dir) + 1 = 2
    OBVIOUS
  <2>4. /\ base \in Scans /\ Grows(top, base) /\ (listed => base.cut)
    <3>1. top.cut \in BOOLEAN
      BY <1>2 DEF Scans
    <3>2. PICK cut \in BOOLEAN : cut = (top.cut \/ listed)
      BY <2>2, <3>1
    <3>3. base = [top EXCEPT !.cut = cut]
      BY <3>2
    <3> HIDE DEF base, top, listed
    <3>4. base \in Scans /\ base.files = top.files /\ base.cut = cut
      BY <1>2, <3>3 DEF Scans
    <3> QED
      BY <3>2, <3>4 DEF Grows
  <2> HIDE DEF base, names, listed, top
  <2>5. /\ t \in Scans /\ Grows(base, t)
        /\ ~t.cut => \A child \in Range(names) :
                       ~Lists(files, out, <<name, child>>) => <<name, child>> \in t.files
    BY <2>1, <2>2, <2>4, InsideFacts
  <2> HIDE DEF t
  <2>6. Grows(s, t)
    BY <1>2, <2>4, <2>5 DEF Grows
  <2>7. ASSUME ~t.cut, NEW p \in Shallow(files, out), p[1] = name PROVE p \in t.files
    <3>1. ~base.cut /\ ~listed /\ ~top.cut
      BY <2>4, <2>5, <2>7 DEF Grows
    <3>2. CASE p = <<p[1]>>
      <4>1. p = dir /\ ~Lists(files, out, p)
        BY <2>7, <3>2, ShallowFacts
      <4>2. dir \in top.files
        BY <1>2, <3>1, <4>1
      <4> QED
        BY <2>4, <2>5, <4>1, <4>2 DEF Grows
    <3>3. CASE p # <<p[1]>>
      <4>1. /\ p = <<name, p[2]>> /\ p[2] \in STRING \ Skipped /\ p \in Under(files, dir)
            /\ Lists(files, out, dir) /\ ~Lists(files, out, p)
        BY <2>7, <3>3, ShallowFacts
      <4>2. p[2] \in Range(names)
        <5> HIDE DEF dir
        <5> QED
          BY <2>2, <2>3, <3>1, <4>1
      <4>3. PICK child \in Range(names) : child = p[2]
        BY <4>2
      <4>4. <<name, child>> = p
        BY <4>1, <4>3
      <4> QED
        BY <2>5, <2>7, <4>1, <4>4
    <3> QED
      BY <3>2, <3>3
  <2> QED
    BY <2>5, <2>6, <2>7 DEF t
<1> QED
  BY <1>3, <1>4

Walked(files, out, start, names) == FoldLeft(LAMBDA s, name : ScanTop(files, out, s, name), start, names)

WalkedSoFar(files, out, start, names) ==
  \E h : /\ h[0] = start /\ h[Len(names)] = Walked(files, out, start, names)
         /\ \A k \in 1..Len(names) : h[k] = ScanTop(files, out, h[k - 1], names[k])

\* The scan takes the names at the top one after the other.
LEMMA WalkedSteps ==
  ASSUME NEW files \in Disk, NEW out, Tree(files), NEW start \in Scans, NEW names \in Seq(STRING)
  PROVE  WalkedSoFar(files, out, start, names)
<1> DEFINE D == DOMAIN names
           Step(x, i) == ScanTop(files, out, x, names[i])
           Iter(g) == g = [s \in SUBSET D |-> IF s = {} THEN start
                                              ELSE Step(g[s \ {Max(s)}], Max(s))]
           iter == CHOOSE g : Iter(g)
<1>1. Walked(files, out, start, names) = iter[D]
  BY DEF Walked, FoldLeft, MapThenFoldSet
<1>0. PICK n \in Nat : n = Len(names) /\ D = 1..n
  BY LenProperties
<1>2. \E g : Iter(g)
  <2> DEFINE pick == [s \in SUBSET D |-> Max(s)]
             step == [i \in D |-> [x \in Scans |-> Step(x, i)]]
  <2>1. \A s \in SUBSET D : s # {} => pick[s] \in s
    BY <1>0, MaxFacts
  <2>2. ASSUME NEW i \in D, NEW x \in Scans PROVE step[i][x] \in Scans
    <3>1. names[i] \in STRING
      BY <1>0, ElementOfSeq
    <3>2. Step(x, i) \in Scans
      BY <3>1, ScanTopFacts
    <3> HIDE DEF Step, D
    <3> QED
      BY <3>2
  <2>3. IsFiniteSet(D)
    BY <1>0, FS_Interval
  <2>4. PICK g \in [SUBSET D -> Scans] : Steps(g, D, start, pick, step)
    <3> HIDE DEF D, pick, step
    <3> QED
      BY <2>1, <2>2, <2>3, FoldExists
  <2>5. ASSUME NEW s \in SUBSET D, s # {}
        PROVE  step[pick[s]][g[s \ {pick[s]}]] = Step(g[s \ {Max(s)}], Max(s))
    <3>1. pick[s] = Max(s) /\ Max(s) \in D /\ g[s \ {Max(s)}] \in Scans
      BY <2>1, <2>5
    <3> HIDE DEF Step, D
    <3> QED
      BY <3>1
  <2> HIDE DEF pick, step, Step, D
  <2>6. g = [s \in SUBSET D |-> IF s = {} THEN start ELSE Step(g[s \ {Max(s)}], Max(s))]
    BY <2>4, <2>5 DEF Steps
  <2> QED
    BY <2>6
<1>3. Iter(iter)
  <2> HIDE DEF Iter
  <2> QED
    BY <1>2
<1> DEFINE h == [k \in 0..n |-> iter[1..k]]
<1>4. h[0] = start
  <2>1. 1..0 = {} /\ 0 \in 0..n
    BY <1>0
  <2> HIDE DEF Step
  <2> QED
    BY <1>3, <2>1
<1>5. ASSUME NEW k \in 1..n PROVE h[k] = Step(h[k - 1], k)
  <2>1. /\ 1..k \in SUBSET D /\ 1..k # {} /\ k \in 0..n /\ k - 1 \in 0..n
        /\ Max(1..k) = k /\ (1..k) \ {Max(1..k)} = 1..(k - 1)
    BY <1>0, PrefixMax
  <2>2. iter[1..k] = Step(iter[1..(k - 1)], k)
    <3> HIDE DEF iter, D, Step
    <3> QED
      BY <1>3, <2>1
  <2> HIDE DEF iter, Step
  <2> QED
    BY <2>1, <2>2
<1>6. h[n] = Walked(files, out, start, names)
  <2> HIDE DEF iter
  <2> QED
    BY <1>0, <1>1
<1> HIDE DEF h, iter
<1> QED
  BY <1>0, <1>4, <1>5, <1>6 DEF WalkedSoFar

LEMMA WalkedFacts ==
  ASSUME NEW files \in Disk, NEW out, Tree(files), NEW start \in Scans, NEW names \in Seq(STRING)
  PROVE  LET t == Walked(files, out, start, names)
         IN /\ t \in Scans /\ Grows(start, t)
            /\ ~t.cut => \A p \in Shallow(files, out) : p[1] \in Range(names) => p \in t.files
<1>1. PICK n \in Nat : n = Len(names) /\ DOMAIN names = 1..n
  BY LenProperties
<1>2. PICK h : /\ h[0] = start /\ h[n] = Walked(files, out, start, names)
               /\ \A k \in 1..n : h[k] = ScanTop(files, out, h[k - 1], names[k])
  <2>1. WalkedSoFar(files, out, start, names)
    BY WalkedSteps
  <2> QED
    BY <1>1, <2>1 DEF WalkedSoFar
<1> DEFINE Taken(k) == \A p \in Shallow(files, out), i \in 1..k : p[1] = names[i] => p \in h[k].files
           P == {k \in 0..n : h[k] \in Scans /\ Grows(start, h[k]) /\ (~h[k].cut => Taken(k))}
<1>3. 0 \in P
  <2>1. 0 \in 0..n /\ 1..0 = {}
    BY <1>1
  <2>2. h[0] \in Scans /\ Grows(start, h[0])
    BY <1>2 DEF Grows
  <2> QED
    BY <2>1, <2>2
<1>4. ASSUME NEW k \in 1..n, k - 1 \in P PROVE k \in P
  <2>1. h[k - 1] \in Scans /\ Grows(start, h[k - 1]) /\ (~h[k - 1].cut => Taken(k - 1))
    BY <1>4
  <2>2. names[k] \in STRING /\ h[k] = ScanTop(files, out, h[k - 1], names[k])
    BY <1>1, <1>2, ElementOfSeq
  <2>3. /\ h[k] \in Scans /\ Grows(h[k - 1], h[k])
        /\ ~h[k].cut => \A p \in Shallow(files, out) : p[1] = names[k] => p \in h[k].files
    BY <2>1, <2>2, ScanTopFacts
  <2>4. Grows(start, h[k])
    BY <2>1, <2>3 DEF Grows
  <2>5. ASSUME ~h[k].cut PROVE Taken(k)
    <3>1. Taken(k - 1) /\ h[k - 1].files \subseteq h[k].files
      BY <2>1, <2>3, <2>5 DEF Grows
    <3>2. \A i \in 1..k : i \in 1..(k - 1) \/ i = k
      OBVIOUS
    <3> QED
      BY <2>3, <2>5, <3>1, <3>2
  <2>6. k \in 0..n
    OBVIOUS
  <2> HIDE DEF Taken
  <2> QED
    BY <2>3, <2>4, <2>5, <2>6
<1>5. n \in P
  <2>1. P \in SUBSET (0..n) /\ n \in 0..n
    BY <1>1
  <2> HIDE DEF P
  <2> QED
    BY <1>1, <1>3, <1>4, <2>1, Climb
<1>6. \A name \in Range(names) : \E i \in 1..n : name = names[i]
  BY <1>1 DEF Range
<1> QED
  BY <1>2, <1>5, <1>6

\* A scan that says it left nothing out has every file there is to see.
LEMMA ScanMeans ==
  ASSUME NEW files \in Disk, NEW out, Tree(files), ~Scan(files, out).cut
  PROVE  Shallow(files, out) \subseteq Scan(files, out).files
<1> DEFINE listed == Listing(files, out, <<>>).cut
           start == [Nothing EXCEPT !.cut = listed]
           names == Visible(files, out, <<>>)
           walked == Walked(files, out, start, names)
           keys == {p \in (walked.files \cap KeyFiles) \ out : Read(files, p).ok}
           cut == walked.cut \/ \E p \in keys : Read(files, p).cut
<1>1. <<>> \in Seq(STRING) /\ Len(<<>>) + 1 = 1
  BY EmptyFacts
<1>2. /\ listed \in BOOLEAN /\ names \in Seq(STRING)
      /\ Lists(files, out, <<>>) /\ ~listed =>
           \A p \in Under(files, <<>>) : p[1] \notin Skipped => p[1] \in Range(names)
  BY <1>1, ListingFacts, VisibleFacts
<1>3. start \in Scans /\ start.cut = listed
  <2> HIDE DEF listed
  <2> QED
    BY <1>2 DEF Scans, Nothing
<1>4. /\ walked \in Scans /\ Grows(start, walked)
      /\ ~walked.cut => \A p \in Shallow(files, out) : p[1] \in Range(names) => p \in walked.files
  <2> HIDE DEF start, names
  <2> QED
    BY <1>2, <1>3, WalkedFacts
<1>5. Scan(files, out) = [walked EXCEPT !.keys = keys, !.cut = cut]
  BY DEF Scan, Walked
<1> HIDE DEF walked
<1>6. Scan(files, out).files = walked.files /\ ~walked.cut
  <2>1. Scan(files, out).files = walked.files /\ Scan(files, out).cut = cut
    <3> HIDE DEF keys, cut
    <3> QED
      BY <1>4, <1>5 DEF Scans
  <2> QED
    BY <2>1
<1>7. ~listed
  BY <1>3, <1>4, <1>6 DEF Grows
<1>8. \A p \in Shallow(files, out) : p[1] \in Range(names)
  <2> HIDE DEF names, listed
  <2> QED
    BY <1>2, <1>7, ShallowFacts
<1> QED
  BY <1>4, <1>6, <1>8

\* The scan of intake is of the files the run started from.
Scanned == phase \in {"compiling", "analysed"} =>
             disk \in Disks /\ (phase = "analysed" => scan = Scan(disk, shut))

LEMMA ScannedStep == Scanned /\ [Next]_vars => Scanned'
<1> SUFFICES ASSUME Scanned, [Next]_vars, phase' \in {"compiling", "analysed"}
             PROVE  disk' \in Disks /\ (phase' = "analysed" => scan' = Scan(disk', shut'))
  BY DEF Scanned
<1>1. CASE UNCHANGED vars
  BY <1>1 DEF vars, compile, Scanned
<1>2. CASE Analyse
  BY <1>2 DEF Analyse, Scanned
<1>3. CASE Propose
  BY <1>3 DEF Propose, Raise, Scanned
<1>4. CASE Falsify \/ Validate
  BY <1>4 DEF Falsify, Validate, Raise
<1>5. CASE Edit \/ RunCommand \/ Compact \/ CompleteCell \/ FailAttempt
  BY <1>5 DEF Edit, RunCommand, Compact, CompleteCell, FailAttempt
<1>6. CASE Resume
  BY <1>6 DEF Resume
<1>8. CASE Check
  <2>1. phase = "verifying" /\ phase' = phase
    BY <1>8 DEF Check
  <2> QED
    BY <2>1
<1>9. CASE Review
  <2>1. phase = "verifying" /\ phase' = phase
    BY <1>9 DEF Review
  <2> QED
    BY <2>1
<1>10. CASE Release
  BY <1>10 DEF Release, Decide
<1>7. CASE Done
  BY <1>7 DEF Done, vars, compile, Scanned
<1> QED
  BY <1>1, <1>2, <1>3, <1>4, <1>5, <1>6, <1>7, <1>8, <1>9, <1>10 DEF Next

\* A bounded view that leaves something out at a bound says so: the scan of intake, a
\* search, a listing.  What cannot be opened or listed is left out without a word of it,
\* itself and nothing but what is under it (intake_scan.py:11, restricted.py:517).
THEOREM ViewsAreWhole == Spec => []ViewsSaySo
<1>1. Init => Scanned
  BY DEF Init, Scanned
<1>2. TypeOK /\ Scanned => ViewsSaySo
  <2> SUFFICES ASSUME TypeOK, Scanned PROVE ViewsSaySo
    OBVIOUS
  <2>0. disk \in Disk
    BY DEF TypeOK
  <2>1. ASSUME phase = "analysed", ~scan.cut PROVE Shallow(disk, shut) \subseteq scan.files
    <3>1. disk \in Disks /\ scan = Scan(disk, shut)
      BY <2>1 DEF Scanned
    <3>2. Tree(disk)
      BY <3>1, AcceptanceAssumption DEF Tree
    <3> QED
      BY <2>0, <2>1, <3>1, <3>2, ScanMeans
  <2>2. ASSUME NEW out \in Outages, NEW w \in Words, ~Search(disk, out, w).cut,
               NEW p \in Files(disk), ~Closed(out, p), p \notin Denied \cup out
        PROVE  {p} \X Occurrences(disk[p], w) \subseteq Search(disk, out, w).hits
    <3>1. Finds(disk, out, w, p, Search(disk, out, w))
      BY <2>0, <2>2, SearchMeans
    <3> QED
      BY <2>2, <3>1 DEF Finds
  <2>3. ASSUME NEW p \in Paths, NEW n \in 1..2 PROVE First(p, n) \in Seq(STRING)
    <3>1. p \in Seq(STRING) /\ n \in Nat
      BY WorkspaceAssumption
    <3> QED
      BY <3>1, FirstFacts
  <2>4. ASSUME NEW d \in {<<>>} \cup {First(p, n) : p \in Paths, n \in 1..2},
               NEW out \in Outages, Listing(disk, out, d).ok, ~Listing(disk, out, d).cut
        PROVE  \A p \in Under(disk, d) : Has(Listing(disk, out, d).data, p[Len(d) + 1])
    <3>1. d \in Seq(STRING)
      <4>1. CASE d = <<>>
        BY <4>1, EmptyFacts
      <4>2. CASE d # <<>>
        <5>1. PICK p \in Paths, n \in 1..2 : d = First(p, n)
          BY <4>2
        <5> QED
          BY <2>3, <5>1
      <4> QED
        BY <4>1, <4>2
    <3> QED
      BY <2>0, <2>4, <3>1, ListingFacts
  <2> QED
    <3>1. phase = "analysed" /\ ~scan.cut =>
            {p \in {q \in Files(disk) : ~Closed(shut, q)} :
               Len(p) <= 2 /\ Skipped \cap Range(p) = {}} \subseteq scan.files
      BY <2>1 DEF Shallow
    <3> QED
      BY <2>2, <2>4, <3>1 DEF ViewsSaySo
<1> QED
  BY <1>1, <1>2, TypesInit, TypesStep, ScannedStep, PTL DEF Spec

============================================================================
