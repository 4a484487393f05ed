--------------------------- MODULE SessionOpsProofs ---------------------------
(***************************************************************************)
(* Facts about the session operators, proved once and cited by the proofs  *)
(* about every module that owns a session.                                 *)
(***************************************************************************)
EXTENDS SessionOps, FiniteSetTheorems, FunctionTheorems, SequenceTheorems, TLAPS

-----------------------------------------------------------------------------
(* Listing a finite set of positions in order.                             *)

\* The ways to list the elements of D in order: exactly one, see ListingIs.
Listings(D) == {f \in [1 .. Cardinality(D) -> D] :
                  /\ Increasing(f)
                  /\ \A d \in D : \E i \in DOMAIN f : f[i] = d}

\* A nonempty set of naturals has a least element; with it, an induction is an
\* argument by a least counterexample.
LEMMA LeastNumber ==
  ASSUME NEW T \in SUBSET Nat, T # {}
  PROVE  \E n \in T : \A m \in T : n <= m
<1>1. PICK x \in T : \A y \in T : ~ (<<y, x>> \in OpToRel(<, Nat))
  BY NatLessThanWellFounded, WFMin
<1>2. \A y \in T : ~(y < x)
  BY <1>1 DEF OpToRel
<1>3. QED
  BY <1>2

\* The step of the next lemma: one more position, at the end of the listing.
LEMMA ListingStep ==
  ASSUME NEW k \in Nat, NEW E \in SUBSET (1 .. k + 1), k + 1 \in E,
         IsFiniteSet(E \ {k + 1}), Listings(E \ {k + 1}) # {}
  PROVE  Listings(E) # {}
<1> DEFINE F == E \ {k + 1}
           n == Cardinality(F)
<1>1. n \in Nat /\ Cardinality(E) = n + 1
  <2>1. F \cup {k + 1} = E
    OBVIOUS
  <2>2. QED
    BY <2>1, FS_AddElement, FS_CardinalityType
<1>2. PICK e \in [1 .. n -> F] : Increasing(e) /\ \A d \in F : \E i \in DOMAIN e : e[i] = d
  BY DEF Listings
<1>3. \A d \in F : d \in 1 .. k
  OBVIOUS
<1> DEFINE f == [i \in 1 .. n + 1 |-> IF i = n + 1 THEN k + 1 ELSE e[i]]
<1> HIDE DEF n
<1>4. f \in [1 .. n + 1 -> E]
  BY <1>1, <1>2
<1>5. Increasing(f)
  <2>1. SUFFICES ASSUME NEW i \in 1 .. n + 1, NEW j \in 1 .. n + 1, i < j
                 PROVE  f[i] < f[j]
    BY DEF Increasing
  <2>2. i \in 1 .. n /\ e[i] \in 1 .. k /\ f[i] = e[i]
    <3>1. i \in 1 .. n /\ i # n + 1
      BY <2>1, <1>1
    <3>2. e[i] \in F
      BY <3>1, <1>2
    <3>3. QED
      BY <3>1, <3>2, <1>3
  <2>3. CASE j = n + 1
    BY <2>2, <2>3
  <2>4. CASE j # n + 1
    <3>1. j \in 1 .. n /\ f[j] = e[j]
      BY <2>4, <1>1
    <3>2. e[i] < e[j]
      BY <3>1, <2>2, <2>1, <1>2 DEF Increasing
    <3>3. QED
      BY <3>1, <3>2, <2>2
  <2>5. QED
    BY <2>3, <2>4
<1>6. \A d \in E : \E i \in DOMAIN f : f[i] = d
  <2>1. SUFFICES ASSUME NEW d \in E PROVE \E i \in 1 .. n + 1 : f[i] = d
    OBVIOUS
  <2>2. CASE d = k + 1
    BY <2>2, <1>1
  <2>3. CASE d # k + 1
    <3>1. PICK i \in 1 .. n : e[i] = d
      BY <2>3, <1>2
    <3>2. i \in 1 .. n + 1 /\ f[i] = d
      BY <3>1, <1>1
    <3>3. QED
      BY <3>2
  <2>4. QED
    BY <2>2, <2>3
<1>7. QED
  BY <1>1, <1>4, <1>5, <1>6 DEF Listings

\* A listing puts every element at the position its rank tells, so it is Listing.
LEMMA ListingIs ==
  ASSUME NEW D \in SUBSET Nat, Cardinality(D) \in Nat, NEW f \in Listings(D)
  PROVE  Listing(D) = f
<1> DEFINE n == Cardinality(D)
<1>1. /\ f \in [1 .. n -> D]
      /\ \A i, j \in 1 .. n : i < j => f[i] < f[j]
      /\ \A d \in D : \E i \in 1 .. n : f[i] = d
  BY DEF Listings, Increasing
<1>2. ASSUME NEW i \in 1 .. n PROVE Rank(D, f[i]) = i - 1
  <2> DEFINE below == {e \in D : e < f[i]}
             g == [j \in 1 .. i - 1 |-> f[j]]
  <2>1. \A j \in 1 .. i - 1 : j \in 1 .. n /\ f[j] \in below
    BY <1>1
  <2>2. g \in [1 .. i - 1 -> below]
    BY <2>1
  <2>3. ASSUME NEW a \in 1 .. i - 1, NEW b \in 1 .. i - 1, g[a] = g[b] PROVE a = b
    <3>1. f[a] = f[b] /\ a \in 1 .. n /\ b \in 1 .. n /\ f[a] \in Nat /\ f[b] \in Nat
      BY <2>1, <2>3, <1>1
    <3>2. ~(a < b) /\ ~(b < a)
      BY <3>1, <1>1
    <3>3. QED
      BY <3>2
  <2>4. ASSUME NEW e \in below PROVE \E j \in 1 .. i - 1 : g[j] = e
    <3>1. PICK j \in 1 .. n : f[j] = e
      BY <1>1
    <3>2. j < i
      <4>1. SUFFICES ASSUME ~(j < i) PROVE FALSE
        OBVIOUS
      <4>2. j = i \/ i < j
        BY <4>1
      <4>3. f[i] \in Nat /\ f[j] \in Nat /\ f[j] < f[i]
        BY <3>1, <1>1
      <4>4. QED
        BY <4>2, <4>3, <1>1
    <3>3. QED
      BY <3>1, <3>2
  <2>5. g \in Bijection(1 .. i - 1, below)
    BY <2>2, <2>3, <2>4, Fun_IsBij
  <2>6. i - 1 \in Nat /\ ExistsBijection(1 .. i - 1, below)
    <3>1. i - 1 \in Nat
      OBVIOUS
    <3>2. Bijection(1 .. i - 1, below) # {}
      BY <2>5
    <3>3. QED
      BY <3>1, <3>2 DEF ExistsBijection
  <2>7. QED
    BY <2>6, FS_CountingElements DEF Rank
<1>3. ASSUME NEW i \in 1 .. n PROVE (CHOOSE d \in D : Rank(D, d) = i - 1) = f[i]
  <2>1. \A d \in D : Rank(D, d) = i - 1 => d = f[i]
    <3>1. SUFFICES ASSUME NEW d \in D, Rank(D, d) = i - 1 PROVE d = f[i]
      OBVIOUS
    <3>2. PICK j \in 1 .. n : f[j] = d
      BY <1>1
    <3>3. j - 1 = i - 1
      BY <3>1, <3>2, <1>2
    <3>4. QED
      BY <3>2, <3>3
  <2>2. f[i] \in D /\ Rank(D, f[i]) = i - 1
    BY <1>1, <1>2
  <2>3. QED
    BY <2>1, <2>2
<1>4. QED
  BY <1>1, <1>3 DEF Listing

\* Every set of positions has a listing, so Listing is one.
LEMMA ListingFacts ==
  ASSUME NEW L \in Nat, NEW D \in SUBSET (1 .. L)
  PROVE  /\ Cardinality(D) \in Nat
         /\ IsFiniteSet(D)
         /\ Listing(D) \in [1 .. Cardinality(D) -> D]
         /\ Increasing(Listing(D))
         /\ \A d \in D : \E i \in 1 .. Cardinality(D) : Listing(D)[i] = d
<1> DEFINE Good(k) == \A E \in SUBSET (1 .. k) : Listings(E) # {}
           Bad == {k \in Nat : ~ Good(k)}
<1>0. \A k \in Nat : \A E \in SUBSET (1 .. k) : IsFiniteSet(E)
  <2>1. SUFFICES ASSUME NEW k \in Nat, NEW E \in SUBSET (1 .. k) PROVE IsFiniteSet(E)
    OBVIOUS
  <2>2. IsFiniteSet(1 .. k)
    BY FS_Interval
  <2>3. QED
    BY <2>2, FS_Subset
<1>1. Good(0)
  <2>1. SUFFICES ASSUME NEW E \in SUBSET (1 .. 0) PROVE Listings(E) # {}
    OBVIOUS
  <2>2. E = {}
    OBVIOUS
  <2>3. Cardinality(E) = 0
    BY <2>2, FS_EmptySet
  <2>4. [i \in 1 .. 0 |-> i] \in Listings(E)
    BY <2>2, <2>3 DEF Listings, Increasing
  <2>5. QED
    BY <2>4
<1>2. ASSUME NEW k \in Nat, Good(k) PROVE Good(k + 1)
  <2>1. SUFFICES ASSUME NEW E \in SUBSET (1 .. k + 1) PROVE Listings(E) # {}
    OBVIOUS
  <2>2. CASE k + 1 \notin E
    <3>1. E \in SUBSET (1 .. k)
      BY <2>2
    <3>2. QED
      BY <3>1, <1>2
  <2>3. CASE k + 1 \in E
    <3>1. E \ {k + 1} \in SUBSET (1 .. k)
      BY <2>3
    <3>2. Listings(E \ {k + 1}) # {} /\ IsFiniteSet(E \ {k + 1})
      BY <3>1, <1>0, <1>2
    <3>3. QED
      BY <3>2, <2>3, ListingStep
  <2>4. QED
    BY <2>2, <2>3
<1> HIDE DEF Good
<1>3. Bad = {}
  <2>1. SUFFICES ASSUME Bad # {} PROVE FALSE
    OBVIOUS
  <2>2. PICK k \in Bad : \A m \in Bad : k <= m
    <3>1. Bad \in SUBSET Nat
      OBVIOUS
    <3>2. QED
      BY <3>1, <2>1, LeastNumber
  <2>3. k \in Nat \ {0}
    BY <2>2, <1>1
  <2>4. k - 1 \in Nat
    BY <2>3
  <2>5. Good(k - 1)
    BY <2>2, <2>3, <2>4
  <2>6. Good((k - 1) + 1)
    BY <2>4, <2>5, <1>2
  <2>7. (k - 1) + 1 = k
    BY <2>3
  <2>8. QED
    BY <2>6, <2>7, <2>2
<1>4. Listings(D) # {}
  BY <1>3 DEF Good
<1>5. Listing(D) \in Listings(D)
  <2>1. Cardinality(D) \in Nat
    BY <1>0, FS_CardinalityType
  <2>2. D \in SUBSET Nat
    OBVIOUS
  <2>3. QED
    BY <2>1, <2>2, <1>4, ListingIs
<1>6. QED
  BY <1>5, <1>0, FS_CardinalityType DEF Listings

\* Retain keeps elements of the sequence, in their order, by a strictly
\* increasing map of positions.
LEMMA RetainFacts ==
  ASSUME NEW S, NEW seq \in Seq(S), NEW D \in SUBSET (DOMAIN seq)
  PROVE  /\ Retain(seq, D) \in Seq(S)
         /\ Len(Retain(seq, D)) = Cardinality(D)
         /\ DOMAIN Retain(seq, D) = DOMAIN Listing(D)
         /\ \A i \in DOMAIN Retain(seq, D) :
               Listing(D)[i] \in D /\ Retain(seq, D)[i] = seq[Listing(D)[i]]
         /\ \A i, j \in DOMAIN Retain(seq, D) : i < j => Listing(D)[i] < Listing(D)[j]
         /\ \A d \in D : \E i \in DOMAIN Retain(seq, D) : Listing(D)[i] = d
<1>1. Len(seq) \in Nat /\ DOMAIN seq = 1 .. Len(seq) /\ seq \in [1 .. Len(seq) -> S]
  BY LenProperties
<1>2. /\ Cardinality(D) \in Nat
      /\ Listing(D) \in [1 .. Cardinality(D) -> D]
      /\ Increasing(Listing(D))
      /\ \A d \in D : \E i \in 1 .. Cardinality(D) : Listing(D)[i] = d
  BY <1>1, ListingFacts
<1>3. Retain(seq, D) = [i \in 1 .. Cardinality(D) |-> seq[Listing(D)[i]]]
  BY <1>2 DEF Retain
<1>4. Retain(seq, D) \in [1 .. Cardinality(D) -> S]
  BY <1>1, <1>2, <1>3
<1>5. Retain(seq, D) \in Seq(S) /\ Len(Retain(seq, D)) = Cardinality(D)
  BY <1>2, <1>4, SeqDef
<1>6. QED
  BY <1>2, <1>3, <1>5 DEF Increasing

\* What lists the elements of D in order is their Listing.
LEMMA ListingOf ==
  ASSUME NEW D \in SUBSET Nat, NEW n \in Nat, NEW f \in [1 .. n -> D],
         Increasing(f), \A d \in D : \E i \in 1 .. n : f[i] = d
  PROVE  Listing(D) = f /\ Cardinality(D) = n
<1>1. \A i, j \in 1 .. n : i < j => f[i] < f[j]
  BY DEF Increasing
<1>2. \A i \in 1 .. n : f[i] \in Nat
  OBVIOUS
<1>3. \A i, j \in 1 .. n : f[i] = f[j] => i = j
  <2>1. ASSUME NEW i \in 1 .. n, NEW j \in 1 .. n, f[i] = f[j], i # j
        PROVE  FALSE
    <3>1. i < j \/ j < i
      BY <2>1
    <3>2. f[i] < f[j] \/ f[j] < f[i]
      BY <1>1, <3>1
    <3>3. QED
      BY <1>2, <2>1, <3>2
  <2>2. QED
    BY <2>1
<1>4. f \in Bijection(1 .. n, D)
  BY <1>3 DEF Bijection, Injection, Surjection, IsInjective
<1>5. Cardinality(D) = n
  BY <1>4, FS_CountingElements DEF ExistsBijection
<1>6. f \in Listings(D)
  BY <1>5 DEF Listings
<1>7. QED
  BY <1>5, <1>6, ListingIs

\* What holds the elements at the positions in D, in order, is what Retain returns.
LEMMA RetainIs ==
  ASSUME NEW S, NEW seq \in Seq(S), NEW D \in SUBSET DOMAIN seq,
         NEW r \in Seq(S), NEW f \in [DOMAIN r -> D], Increasing(f),
         \A d \in D : \E i \in DOMAIN r : f[i] = d,
         \A i \in DOMAIN r : r[i] = seq[f[i]]
  PROVE  Retain(seq, D) = r
<1>1. Len(r) \in Nat /\ DOMAIN r = 1 .. Len(r) /\ r \in [1 .. Len(r) -> S]
      /\ DOMAIN seq \subseteq Nat
  BY LenProperties
<1>2. Listing(D) = f
  <2>1. /\ D \in SUBSET Nat /\ Len(r) \in Nat /\ f \in [1 .. Len(r) -> D]
        /\ \A d \in D : \E i \in 1 .. Len(r) : f[i] = d
    BY <1>1
  <2>2. QED
    BY <2>1, ListingOf
<1>3. Retain(seq, D) = [i \in DOMAIN f |-> seq[f[i]]]
  BY <1>2 DEF Retain
<1>4. QED
  BY <1>1, <1>3

-----------------------------------------------------------------------------
(* The parts of a concatenation. *)

\* What is staged stays where it is when more is staged behind it.
LEMMA ConcatParts ==
  ASSUME NEW S, NEW a \in Seq(S), NEW b \in Seq(S)
  PROVE  /\ a \o b \in Seq(S)
         /\ Len(a) \in Nat /\ Len(b) \in Nat /\ Len(a \o b) = Len(a) + Len(b)
         /\ DOMAIN a = 1 .. Len(a) /\ DOMAIN b = 1 .. Len(b)
         /\ DOMAIN (a \o b) = 1 .. Len(a) + Len(b)
         /\ \A i \in 1 .. Len(a) : i \in 1 .. Len(a) + Len(b) /\ (a \o b)[i] = a[i]
         /\ \A j \in 1 .. Len(b) :
              Len(a) + j \in 1 .. Len(a) + Len(b) /\ (a \o b)[Len(a) + j] = b[j]
         /\ \A i \in 1 .. Len(a) + Len(b) :
              \/ i \in 1 .. Len(a) /\ (a \o b)[i] = a[i]
              \/ i - Len(a) \in 1 .. Len(b) /\ (a \o b)[i] = b[i - Len(a)]
<1> DEFINE ab == a \o b
           m == Len(a)
           n == Len(b)
<1>1. /\ m \in Nat /\ n \in Nat /\ DOMAIN a = 1 .. m /\ DOMAIN b = 1 .. n
  BY LenProperties
<1>2. /\ ab \in Seq(S) /\ Len(ab) = m + n
      /\ \A i \in 1 .. m + n : ab[i] = IF i <= m THEN a[i] ELSE b[i - m]
  BY ConcatProperties
<1>3. DOMAIN ab = 1 .. m + n
  BY <1>2, LenProperties
<1> HIDE DEF ab, m, n
<1>4. \A i \in 1 .. m : i \in 1 .. m + n /\ ab[i] = a[i]
  BY <1>1, <1>2
<1>5. ASSUME NEW j \in 1 .. n PROVE m + j \in 1 .. m + n /\ ab[m + j] = b[j]
  <2>1. m + j \in 1 .. m + n /\ ~ (m + j <= m) /\ (m + j) - m = j
    BY <1>1
  <2>2. QED
    BY <2>1, <1>2
<1>6. ASSUME NEW i \in 1 .. m + n
      PROVE  \/ i \in 1 .. m /\ ab[i] = a[i]
             \/ i - m \in 1 .. n /\ ab[i] = b[i - m]
  <2>1. CASE i <= m
    BY <2>1, <1>1, <1>2
  <2>2. CASE ~ (i <= m)
    BY <2>2, <1>1, <1>2
  <2>3. QED
    BY <2>1, <2>2
<1>7. QED
  BY <1>1, <1>2, <1>3, <1>4, <1>5, <1>6 DEF ab, m, n

-----------------------------------------------------------------------------
(* The turns of a session.                                                 *)

\* An element of a sequence, and its place.
LEMMA SeqElement ==
  ASSUME NEW S, NEW q \in Seq(S), NEW k \in DOMAIN q
  PROVE  q[k] \in S /\ k \in Nat /\ 1 <= k /\ k <= Len(q)
<1>1. DOMAIN q = 1 .. Len(q) /\ Len(q) \in Nat
  BY LenProperties
<1>2. QED
  BY <1>1, ElementOfSeq

\* A sequence without places is empty.
LEMMA EmptyDomain ==
  ASSUME NEW S, NEW q \in Seq(S), DOMAIN q = {}
  PROVE  q = <<>>
OBVIOUS

\* The turns of a session are its history and what it stages.
LEMMA TurnsFacts ==
  ASSUME NEW s \in Session
  PROVE  /\ StagingAll(s) \in Seq(Message)
         /\ Len(StagingAll(s)) = Len(s.userInput) + Len(s.staged)
         /\ Turns(s) \in Seq(Seq(Message))
         /\ Len(s.committed) \in Nat
         /\ DOMAIN s.committed = 1 .. Len(s.committed)
         /\ DOMAIN Turns(s) = 1 .. Len(s.committed) + 1
         /\ \A p \in 1 .. Len(s.committed) : Turns(s)[p] = s.committed[p]
         /\ Turns(s)[Len(s.committed) + 1] = StagingAll(s)
         /\ \A p \in DOMAIN Turns(s) : Turns(s)[p] \in Seq(Message)
<1>1. s.committed \in Seq(Seq(Message)) /\ s.userInput \in Seq(Message) /\ s.staged \in Seq(Message)
  BY DEF Session
<1>2. StagingAll(s) \in Seq(Message) /\ Len(StagingAll(s)) = Len(s.userInput) + Len(s.staged)
  BY <1>1, ConcatProperties DEF StagingAll
<1>3. QED
  BY <1>1, <1>2 DEF Turns

-----------------------------------------------------------------------------
(* Inputs in the order of a relation.                                      *)
(*                                                                         *)
(* How inputs stand to each other depends on who owns the session: they    *)
(* are in the order of their arrival (Before) unless a crash and a write   *)
(* that failed bring one back, and then at least none of them runs twice.  *)
(* A mutator moves inputs about and compares none of them, so it keeps any *)
(* relation R, and the facts below are proved for all of them at once.     *)

\* Each of v stands in R to each of w; each of v to those that come after it.
Precede(R, v, w) == \A a \in DOMAIN v, b \in DOMAIN w : <<v[a], w[b]>> \in R
Chain(R, v) == \A a, b \in DOMAIN v : a < b => <<v[a], v[b]>> \in R

OrderedBy(R, T) ==
    /\ \A p, q \in DOMAIN T : \A i \in DOMAIN T[p], j \in DOMAIN T[q] :
          Precedes(p, i, q, j) => Precede(R, T[p][i].body, T[q][j].body)
    /\ \A p \in DOMAIN T : \A i \in DOMAIN T[p] : Chain(R, T[p][i].body)

InputsBy(R, s, last) ==
    LET T == Turns(s)
    IN  /\ OrderedBy(R, T)
        /\ \A p \in DOMAIN T : \A i \in DOMAIN T[p] :
              /\ Precede(R, T[p][i].body, s.pending)
              /\ AllBelow(T[p][i].body, <<last + 1>>)
        /\ Chain(R, s.pending)
        /\ AllBelow(s.pending, <<last + 1>>)

\* Sound, with R in the place of the order of arrival.
SoundBy(R, s, last) ==
    /\ s \in Session
    /\ IdleIsClean(s)
    /\ UserHeadsTurn(s)
    /\ StagingIsCurrent(s)
    /\ IdsInOrder(s)
    /\ InputsBy(R, s, last)
    /\ TurnNumbersCoverPositions(s)
    /\ FrozenTurnsAnswered(s)
    /\ NoEmptyTurn(s)

Before == {w \in Nat \X Nat : w[1] < w[2]}

\* Before is the order of the naturals.
LEMMA BeforeIs ==
  ASSUME NEW a \in Nat, NEW b \in Nat
  PROVE  <<a, b>> \in Before <=> a < b
BY DEF Before

\* Bodies are sequences of inputs.
LEMMA BodiesAre ==
  ASSUME NEW s \in Session
  PROVE  /\ s.pending \in Seq(Nat)
         /\ \A p \in DOMAIN Turns(s) : \A i \in DOMAIN Turns(s)[p] :
               Turns(s)[p][i] \in Message /\ Turns(s)[p][i].body \in Seq(Nat)
<1>1. s.pending \in Seq(Nat)
  BY DEF Session
<1>2. ASSUME NEW p \in DOMAIN Turns(s), NEW i \in DOMAIN Turns(s)[p]
      PROVE  Turns(s)[p][i] \in Message /\ Turns(s)[p][i].body \in Seq(Nat)
  <2>1. Turns(s)[p] \in Seq(Message)
    BY TurnsFacts
  <2>2. Turns(s)[p][i] \in Message
    BY <2>1, SeqElement
  <2>3. QED
    BY <2>2 DEF Message
<1>3. QED
  BY <1>1, <1>2

\* A session is sound when it is sound by the order of arrival.
LEMMA SoundIsBefore ==
  ASSUME NEW s, NEW n \in Nat
  PROVE  Sound(s, n) <=> SoundBy(Before, s, n)
<1>1. SUFFICES ASSUME s \in Session PROVE InputsInOrder(s, n) <=> InputsBy(Before, s, n)
  BY DEF Sound, SoundBy
<1>2. ASSUME NEW v \in Seq(Nat), NEW w \in Seq(Nat)
      PROVE  AllBelow(v, w) <=> Precede(Before, v, w)
  <2>1. \A a \in DOMAIN v, b \in DOMAIN w : v[a] \in Nat /\ w[b] \in Nat
    BY SeqElement
  <2>2. QED
    BY <2>1, BeforeIs DEF AllBelow, Precede
<1>3. ASSUME NEW v \in Seq(Nat) PROVE Increasing(v) <=> Chain(Before, v)
  <2>1. \A a \in DOMAIN v : v[a] \in Nat
    BY SeqElement
  <2>2. QED
    BY <2>1, BeforeIs DEF Increasing, Chain
<1>4. /\ s.pending \in Seq(Nat)
      /\ \A p \in DOMAIN Turns(s) : \A i \in DOMAIN Turns(s)[p] : Turns(s)[p][i].body \in Seq(Nat)
  BY <1>1, BodiesAre
<1>5. OrderedInputs(Turns(s)) <=> OrderedBy(Before, Turns(s))
  BY <1>2, <1>3, <1>4 DEF OrderedInputs, OrderedBy
<1>6. QED
  BY <1>2, <1>3, <1>4, <1>5 DEF InputsInOrder, InputsBy

\* What is sound by R is sound by a weaker relation.
LEMMA SoundWeaker ==
  ASSUME NEW R, NEW Q, R \subseteq Q, NEW s, NEW n \in Nat, SoundBy(R, s, n)
  PROVE  SoundBy(Q, s, n)
<1>1. \A v, w : Precede(R, v, w) => Precede(Q, v, w)
  BY DEF Precede
<1>2. \A v : Chain(R, v) => Chain(Q, v)
  BY DEF Chain
<1>3. OrderedBy(R, Turns(s)) => OrderedBy(Q, Turns(s))
  BY <1>1, <1>2 DEF OrderedBy
<1>4. InputsBy(R, s, n) => InputsBy(Q, s, n)
  BY <1>1, <1>2, <1>3 DEF InputsBy
<1>5. QED
  BY <1>4 DEF SoundBy

\* T comes from U by dropping messages: what is left keeps its id, its body and
\* its place.
Within(T, U) ==
    /\ \A p \in DOMAIN T : \A i \in DOMAIN T[p] :
          \E pp \in DOMAIN U : \E ii \in DOMAIN U[pp] :
             T[p][i].id = U[pp][ii].id /\ T[p][i].body = U[pp][ii].body
    /\ \A p, q \in DOMAIN T : \A i \in DOMAIN T[p], j \in DOMAIN T[q] :
          Precedes(p, i, q, j) =>
             \E pp, qq \in DOMAIN U : \E ii \in DOMAIN U[pp], jj \in DOMAIN U[qq] :
                /\ Precedes(pp, ii, qq, jj)
                /\ T[p][i].id = U[pp][ii].id /\ T[p][i].body = U[pp][ii].body
                /\ T[q][j].id = U[qq][jj].id /\ T[q][j].body = U[qq][jj].body

\* Dropping messages, and dropping or keeping the queue and the counters, keeps
\* ids and inputs in order.
LEMMA DroppingKeepsIds ==
  ASSUME NEW s, NEW r, IdsInOrder(s), Within(Turns(r), Turns(s)),
         r.nextId = s.nextId, r.pinned = s.pinned
  PROVE  IdsInOrder(r)
<1>1. OrderedIds(Turns(r))
  BY DEF IdsInOrder, OrderedIds, Within
<1>2. ASSUME NEW p \in DOMAIN Turns(r), NEW i \in DOMAIN Turns(r)[p]
      PROVE  /\ Turns(r)[p][i].id < r.nextId
             /\ \A k \in DOMAIN r.pinned : Turns(r)[p][i].id # r.pinned[k].id
  BY <1>2 DEF IdsInOrder, Within
<1>3. QED
  BY <1>1, <1>2 DEF IdsInOrder

\* Turns that lose messages, and a queue that is kept or emptied, keep the inputs in order.
LEMMA DroppingKeepsInputs ==
  ASSUME NEW R, NEW s, NEW r, NEW last \in Nat, InputsBy(R, s, last), Within(Turns(r), Turns(s)),
         r.pending = s.pending \/ r.pending = <<>>
  PROVE  InputsBy(R, r, last)
<1>1. OrderedBy(R, Turns(r))
  <2>1. ASSUME NEW p \in DOMAIN Turns(r), NEW i \in DOMAIN Turns(r)[p]
        PROVE  Chain(R, Turns(r)[p][i].body)
    BY <2>1 DEF InputsBy, OrderedBy, Within
  <2>2. ASSUME NEW p \in DOMAIN Turns(r), NEW q \in DOMAIN Turns(r),
               NEW i \in DOMAIN Turns(r)[p], NEW j \in DOMAIN Turns(r)[q],
               Precedes(p, i, q, j)
        PROVE  Precede(R, Turns(r)[p][i].body, Turns(r)[q][j].body)
    BY <2>2 DEF InputsBy, OrderedBy, Within
  <2>3. QED
    BY <2>1, <2>2 DEF OrderedBy
<1>2. ASSUME NEW p \in DOMAIN Turns(r), NEW i \in DOMAIN Turns(r)[p]
      PROVE  /\ Precede(R, Turns(r)[p][i].body, s.pending)
             /\ AllBelow(Turns(r)[p][i].body, <<last + 1>>)
  BY <1>2 DEF InputsBy, Within
<1>3. Chain(R, r.pending) /\ AllBelow(r.pending, <<last + 1>>)
  BY DEF InputsBy, Chain, Precede, AllBelow
<1>4. ASSUME NEW v, Precede(R, v, s.pending) PROVE Precede(R, v, r.pending)
  BY <1>4 DEF Precede
<1>5. QED
  BY <1>1, <1>2, <1>3, <1>4 DEF InputsBy

-----------------------------------------------------------------------------
(* Adding messages at the end of the turn in flight.                       *)

\* r is s with `new` staged after what s holds.
Extends(r, s, new) ==
    /\ r.committed = s.committed
    /\ StagingAll(r) = StagingAll(s) \o new
    /\ r.pinned = s.pinned
    /\ s.nextId <= r.nextId
    /\ \A k \in DOMAIN new : s.nextId <= new[k].id /\ new[k].id < r.nextId
    /\ \A k, l \in DOMAIN new : k < l => new[k].id < new[l].id

\* Where a message of the extended history comes from: it is an old one, or one
\* of the new ones at the end of the turn in flight.
LEMMA ExtendedTurns ==
  ASSUME NEW s \in Session, NEW r \in Session, NEW new \in Seq(Message), Extends(r, s, new)
  PROVE  LET last == Len(s.committed) + 1
             old  == Len(StagingAll(s))
         IN  /\ last \in Nat /\ old \in Nat
             /\ DOMAIN Turns(s) = 1 .. last
             /\ DOMAIN Turns(r) = 1 .. last
             /\ \A i \in DOMAIN Turns(s)[last] : i <= old
             /\ \A i \in DOMAIN Turns(r)[last] : i \in Nat
             /\ \A p \in DOMAIN Turns(r) : \A i \in DOMAIN Turns(r)[p] :
                  \/ i \in DOMAIN Turns(s)[p] /\ Turns(r)[p][i] = Turns(s)[p][i]
                  \/ /\ p = last /\ i > old /\ i - old \in DOMAIN new
                     /\ Turns(r)[p][i] = new[i - old]
<1> DEFINE last == Len(s.committed) + 1
           old == Len(StagingAll(s))
<1>1. /\ Len(StagingAll(s) \o new) = old + Len(new)
      /\ StagingAll(s) \o new \in Seq(Message)
      /\ \A i \in 1 .. old + Len(new) :
            (StagingAll(s) \o new)[i] = IF i <= old THEN StagingAll(s)[i] ELSE new[i - old]
  <2>1. StagingAll(s) \in Seq(Message)
    BY TurnsFacts
  <2>2. QED
    BY <2>1, ConcatProperties
<1>2. /\ old \in Nat /\ Len(new) \in Nat /\ DOMAIN new = 1 .. Len(new)
      /\ DOMAIN StagingAll(s) = 1 .. old
      /\ DOMAIN (StagingAll(s) \o new) = 1 .. old + Len(new)
  <2>1. StagingAll(s) \in Seq(Message)
    BY TurnsFacts
  <2>2. QED
    BY <2>1, <1>1, LenProperties
<1>3. /\ last \in Nat /\ DOMAIN Turns(s) = 1 .. last
      /\ Turns(s)[last] = StagingAll(s)
      /\ \A p \in 1 .. Len(s.committed) : Turns(s)[p] = s.committed[p]
  <2>1. Len(s.committed) \in Nat /\ DOMAIN Turns(s) = 1 .. Len(s.committed) + 1
    BY TurnsFacts
  <2>2. Turns(s)[Len(s.committed) + 1] = StagingAll(s)
    BY TurnsFacts
  <2>3. \A p \in 1 .. Len(s.committed) : Turns(s)[p] = s.committed[p]
    BY TurnsFacts
  <2>4. QED
    BY <2>1, <2>2, <2>3
<1>4. /\ DOMAIN Turns(r) = 1 .. last
      /\ Turns(r)[last] = StagingAll(s) \o new
      /\ \A p \in 1 .. Len(s.committed) : Turns(r)[p] = s.committed[p]
  <2>1. r.committed = s.committed /\ StagingAll(r) = StagingAll(s) \o new
    BY DEF Extends
  <2>2. QED
    BY <2>1, TurnsFacts
<1> HIDE DEF old
<1>5. ASSUME NEW p \in DOMAIN Turns(r), NEW i \in DOMAIN Turns(r)[p]
      PROVE  \/ i \in DOMAIN Turns(s)[p] /\ Turns(r)[p][i] = Turns(s)[p][i]
             \/ /\ p = last /\ i > old /\ i - old \in DOMAIN new
                /\ Turns(r)[p][i] = new[i - old]
  <2>1. Len(s.committed) \in Nat
    BY TurnsFacts
  <2>2. CASE p # last
    <3>1. p \in 1 .. Len(s.committed)
      BY <2>1, <2>2, <1>4, <1>5
    <3>2. QED
      BY <3>1, <1>3, <1>4, <1>5
  <2>3. CASE p = last /\ i <= old
    BY <2>3, <1>1, <1>2, <1>3, <1>4, <1>5
  <2>4. CASE p = last /\ ~ (i <= old)
    <3>1. i \in 1 .. old + Len(new) /\ i > old
      BY <2>4, <1>2, <1>4, <1>5
    <3>2. i - old \in DOMAIN new
      BY <3>1, <1>2
    <3>3. QED
      BY <3>1, <3>2, <2>4, <1>1, <1>4
  <2>5. QED
    BY <2>2, <2>3, <2>4
<1>6. QED
  BY <1>2, <1>3, <1>4, <1>5 DEF old

\* New messages with new ids at the end of the turn in flight keep the ids in order.
LEMMA ExtendingKeepsIds ==
  ASSUME NEW s \in Session, NEW r \in Session, NEW new \in Seq(Message),
         Extends(r, s, new), IdsInOrder(s)
  PROVE  IdsInOrder(r)
<1> DEFINE last == Len(s.committed) + 1
           old == Len(StagingAll(s))
<1>1. s.nextId \in Nat /\ r.nextId \in Nat /\ s.nextId <= r.nextId /\ r.pinned = s.pinned
  BY DEF Session, Extends
<1>2. /\ DOMAIN Turns(r) = 1 .. last /\ DOMAIN Turns(s) = 1 .. last
      /\ last \in Nat /\ old \in Nat
      /\ \A i \in DOMAIN Turns(s)[last] : i <= old
      /\ \A i \in DOMAIN Turns(r)[last] : i \in Nat
  BY ExtendedTurns
\* A message of the extended history is an old one or a new one.
<1>3. ASSUME NEW p \in DOMAIN Turns(r), NEW i \in DOMAIN Turns(r)[p]
      PROVE  \/ /\ i \in DOMAIN Turns(s)[p]
                /\ Turns(r)[p][i] = Turns(s)[p][i]
             \/ /\ p = last /\ i > old
                /\ i - old \in DOMAIN new
                /\ Turns(r)[p][i] = new[i - old]
  BY <1>3, ExtendedTurns
<1>4. ASSUME NEW p \in DOMAIN Turns(s), NEW i \in DOMAIN Turns(s)[p]
      PROVE  /\ Turns(s)[p][i].id \in Nat
             /\ Turns(s)[p][i].id < s.nextId
             /\ (p = last => i <= old)
  <2>1. Turns(s)[p] \in Seq(Message)
    BY TurnsFacts
  <2>2. Turns(s)[p][i] \in Message
    BY <2>1, <1>4, SeqElement
  <2>3. QED
    BY <2>2, <1>2, <1>4 DEF IdsInOrder, Message
<1>5. ASSUME NEW k \in DOMAIN new
      PROVE  new[k].id \in Nat /\ s.nextId <= new[k].id /\ new[k].id < r.nextId
  <2>1. new[k] \in Message
    BY <1>5, SeqElement
  <2>2. QED
    BY <2>1, <1>5 DEF Extends, Message
<1>6. OrderedIds(Turns(r))
  <2>1. SUFFICES ASSUME NEW p \in DOMAIN Turns(r), NEW q \in DOMAIN Turns(r),
                        NEW i \in DOMAIN Turns(r)[p], NEW j \in DOMAIN Turns(r)[q],
                        Precedes(p, i, q, j)
                 PROVE  Turns(r)[p][i].id < Turns(r)[q][j].id
    BY DEF OrderedIds
  <2>2. CASE /\ i \in DOMAIN Turns(s)[p] /\ Turns(r)[p][i] = Turns(s)[p][i]
             /\ j \in DOMAIN Turns(s)[q] /\ Turns(r)[q][j] = Turns(s)[q][j]
    BY <2>1, <2>2, <1>2 DEF IdsInOrder, OrderedIds
  <2>3. CASE /\ i \in DOMAIN Turns(s)[p] /\ Turns(r)[p][i] = Turns(s)[p][i]
             /\ q = last /\ j - old \in DOMAIN new /\ Turns(r)[q][j] = new[j - old]
    BY <2>3, <1>1, <1>2, <1>4, <1>5
  <2>4. CASE /\ p = last /\ i > old /\ i - old \in DOMAIN new
             /\ Turns(r)[p][i] = new[i - old]
    <3>1. q = last /\ i < j
      BY <2>1, <2>4, <1>2 DEF Precedes
    <3>2. i \in Nat /\ j \in Nat
      BY <3>1, <2>4, <1>2
    <3>3. ~ (j \in DOMAIN Turns(s)[q])
      BY <3>1, <3>2, <2>4, <1>2
    <3>4. j - old \in DOMAIN new /\ Turns(r)[q][j] = new[j - old]
      BY <3>3, <1>3
    <3>5. i - old < j - old
      BY <3>1, <3>2, <1>2
    <3>6. QED
      BY <3>4, <3>5, <2>4 DEF Extends
  <2>5. QED
    BY <2>2, <2>3, <2>4, <1>3
<1>7. ASSUME NEW p \in DOMAIN Turns(r), NEW i \in DOMAIN Turns(r)[p]
      PROVE  /\ Turns(r)[p][i].id < r.nextId
             /\ \A k \in DOMAIN r.pinned : Turns(r)[p][i].id # r.pinned[k].id
  <2>1. \A k \in DOMAIN s.pinned : s.pinned[k].id \in Nat /\ s.pinned[k].id < s.nextId
    <3>1. s.pinned \in Seq(Message)
      BY DEF Session
    <3>2. \A k \in DOMAIN s.pinned : s.pinned[k] \in Message
      BY <3>1, SeqElement
    <3>3. \A k \in DOMAIN s.pinned : s.pinned[k].id < s.nextId
      BY DEF IdsInOrder
    <3>4. QED
      BY <3>2, <3>3 DEF Message
  <2>2. CASE i \in DOMAIN Turns(s)[p] /\ Turns(r)[p][i] = Turns(s)[p][i]
    BY <2>2, <1>1, <1>2, <1>4 DEF IdsInOrder
  <2>3. CASE i - old \in DOMAIN new /\ Turns(r)[p][i] = new[i - old]
    BY <2>1, <2>3, <1>1, <1>5
  <2>4. QED
    BY <2>2, <2>3, <1>3, <1>7
<1>8. \A k \in DOMAIN r.pinned : r.pinned[k].id < r.nextId
  <2>1. \A k \in DOMAIN s.pinned : s.pinned[k].id \in Nat /\ s.pinned[k].id < s.nextId
    <3>1. s.pinned \in Seq(Message)
      BY DEF Session
    <3>2. \A k \in DOMAIN s.pinned : s.pinned[k] \in Message
      BY <3>1, SeqElement
    <3>3. \A k \in DOMAIN s.pinned : s.pinned[k].id < s.nextId
      BY DEF IdsInOrder
    <3>4. QED
      BY <3>2, <3>3 DEF Message
  <2>2. QED
    BY <2>1, <1>1
<1>9. QED
  BY <1>6, <1>7, <1>8 DEF IdsInOrder

\* What is staged either carries no input, or is one message that takes the
\* whole queue with it.
Consumes(r, s, new) ==
    \/ r.pending = s.pending /\ \A k \in DOMAIN new : new[k].body = <<>>
    \/ r.pending = <<>> /\ Len(new) = 1 /\ new[1].body = s.pending

\* New messages that carry no input, or one that carries the queue, keep the inputs in order.
LEMMA ExtendingKeepsInputs ==
  ASSUME NEW R, NEW s \in Session, NEW r \in Session, NEW new \in Seq(Message), NEW n \in Nat,
         Extends(r, s, new), Consumes(r, s, new), InputsBy(R, s, n)
  PROVE  InputsBy(R, r, n)
<1> DEFINE last == Len(s.committed) + 1
           old == Len(StagingAll(s))
<1>1. /\ DOMAIN Turns(r) = 1 .. last /\ DOMAIN Turns(s) = 1 .. last
      /\ last \in Nat /\ old \in Nat
      /\ \A i \in DOMAIN Turns(s)[last] : i <= old
      /\ \A i \in DOMAIN Turns(r)[last] : i \in Nat
  BY ExtendedTurns
<1>2. ASSUME NEW p \in DOMAIN Turns(r), NEW i \in DOMAIN Turns(r)[p]
      PROVE  \/ /\ i \in DOMAIN Turns(s)[p]
                /\ Turns(r)[p][i] = Turns(s)[p][i]
             \/ /\ p = last /\ i > old
                /\ i - old \in DOMAIN new
                /\ Turns(r)[p][i] = new[i - old]
  BY <1>2, ExtendedTurns
<1>3. DOMAIN new = 1 .. Len(new) /\ Len(new) \in Nat
  BY LenProperties
<1>4. ASSUME NEW p \in DOMAIN Turns(s), NEW i \in DOMAIN Turns(s)[p]
      PROVE  /\ Chain(R, Turns(s)[p][i].body)
             /\ Precede(R, Turns(s)[p][i].body, s.pending)
             /\ AllBelow(Turns(s)[p][i].body, <<n + 1>>)
             /\ (p = last => i <= old)
  BY <1>1, <1>4 DEF InputsBy, OrderedBy
<1>5. /\ Chain(R, s.pending) /\ AllBelow(s.pending, <<n + 1>>)
      /\ Chain(R, <<>>)
      /\ \A v : Precede(R, v, <<>>) /\ Precede(R, <<>>, v) /\ AllBelow(<<>>, v)
  BY DEF InputsBy, Chain, Precede, AllBelow
\* The body of a new message is empty or the queue.
<1>6. ASSUME NEW k \in DOMAIN new
      PROVE  \/ new[k].body = <<>>
             \/ r.pending = <<>> /\ k = 1 /\ Len(new) = 1 /\ new[k].body = s.pending
  BY <1>3, <1>6 DEF Consumes
<1>7. OrderedBy(R, Turns(r))
  <2>1. ASSUME NEW p \in DOMAIN Turns(r), NEW i \in DOMAIN Turns(r)[p]
        PROVE  Chain(R, Turns(r)[p][i].body)
    <3>1. CASE i \in DOMAIN Turns(s)[p] /\ Turns(r)[p][i] = Turns(s)[p][i]
      BY <3>1, <1>1, <1>4
    <3>2. CASE i - old \in DOMAIN new /\ Turns(r)[p][i] = new[i - old]
      BY <3>2, <1>5, <1>6
    <3>3. QED
      BY <3>1, <3>2, <1>2, <2>1
  <2>2. ASSUME NEW p \in DOMAIN Turns(r), NEW q \in DOMAIN Turns(r),
               NEW i \in DOMAIN Turns(r)[p], NEW j \in DOMAIN Turns(r)[q],
               Precedes(p, i, q, j)
        PROVE  Precede(R, Turns(r)[p][i].body, Turns(r)[q][j].body)
    <3>1. CASE /\ i \in DOMAIN Turns(s)[p] /\ Turns(r)[p][i] = Turns(s)[p][i]
               /\ j \in DOMAIN Turns(s)[q] /\ Turns(r)[q][j] = Turns(s)[q][j]
      BY <2>2, <3>1, <1>1 DEF InputsBy, OrderedBy
    <3>2. CASE /\ i \in DOMAIN Turns(s)[p] /\ Turns(r)[p][i] = Turns(s)[p][i]
               /\ j - old \in DOMAIN new /\ Turns(r)[q][j] = new[j - old]
      BY <3>2, <1>1, <1>4, <1>5, <1>6
    <3>3. CASE /\ p = last /\ i > old /\ i - old \in DOMAIN new
               /\ Turns(r)[p][i] = new[i - old]
      <4>1. q = last /\ i < j
        BY <2>2, <3>3, <1>1 DEF Precedes
      <4>2. i \in Nat /\ j \in Nat
        BY <4>1, <3>3, <1>1
      <4>3. j - old \in DOMAIN new
        <5>1. ~ (j \in DOMAIN Turns(s)[q])
          BY <4>1, <4>2, <3>3, <1>1
        <5>2. QED
          BY <5>1, <1>2
      <4>4. i - old < j - old /\ j - old <= Len(new) /\ i - old >= 1
        BY <4>1, <4>2, <4>3, <3>3, <1>1, <1>3
      <4>5. new[i - old].body = <<>>
        <5>1. Len(new) # 1
          BY <4>4, <4>3, <3>3, <1>3
        <5>2. QED
          BY <5>1, <3>3, <1>6
      <4>6. QED
        BY <4>5, <3>3, <1>5
    <3>4. QED
      BY <3>1, <3>2, <3>3, <1>2
  <2>3. QED
    BY <2>1, <2>2 DEF OrderedBy
<1>8. ASSUME NEW p \in DOMAIN Turns(r), NEW i \in DOMAIN Turns(r)[p]
      PROVE  /\ Precede(R, Turns(r)[p][i].body, r.pending)
             /\ AllBelow(Turns(r)[p][i].body, <<n + 1>>)
  <2>0. r.pending = s.pending \/ r.pending = <<>>
    BY DEF Consumes
  <2>1. CASE i \in DOMAIN Turns(s)[p] /\ Turns(r)[p][i] = Turns(s)[p][i]
    BY <2>0, <2>1, <1>1, <1>4, <1>5
  <2>2. CASE i - old \in DOMAIN new /\ Turns(r)[p][i] = new[i - old]
    BY <2>2, <1>5, <1>6
  <2>3. QED
    BY <2>1, <2>2, <1>2, <1>8
<1>9. Chain(R, r.pending) /\ AllBelow(r.pending, <<n + 1>>)
  BY <1>5 DEF Consumes
<1>10. QED
  BY <1>7, <1>8, <1>9 DEF InputsBy

-----------------------------------------------------------------------------
(* The history when the turn in flight changes, and when it is pushed.     *)

\* What is said of the history alone holds while the history is the same.
LEMMA SameHistory ==
  ASSUME NEW s \in Session, NEW r \in Session,
         r.committed = s.committed, r.turnIndex = s.turnIndex
  PROVE  /\ TurnNumbersCoverPositions(s) => TurnNumbersCoverPositions(r)
         /\ FrozenTurnsAnswered(s) => FrozenTurnsAnswered(r)
         /\ NoEmptyTurn(s) => NoEmptyTurn(r)
         /\ TurnNumbersIncrease(s) => TurnNumbersIncrease(r)
BY DEF TurnNumbersCoverPositions, FrozenTurnsAnswered, NoEmptyTurn, TurnNumbersIncrease

\* push_turn, field by field.
LEMMA PushTurnFields ==
  ASSUME NEW s \in Session
  PROVE  /\ PushTurn(s) \in Session
         /\ PushTurn(s).committed = Append(s.committed, StagingAll(s))
         /\ PushTurn(s).turnIndex = s.turnIndex + 1
         /\ PushTurn(s).state = "Idle"
         /\ PushTurn(s).nextId = s.nextId
         /\ PushTurn(s).pinned = s.pinned
         /\ PushTurn(s).pending = s.pending
         /\ PushTurn(s).userInput = <<>>
         /\ StagingAll(PushTurn(s)) = <<>>
<1>1. StagingAll(s) \in Seq(Message)
  BY TurnsFacts
<1>2. Append(s.committed, StagingAll(s)) \in Seq(Seq(Message))
  BY <1>1 DEF Session
<1>3. s.turnIndex + 1 \in Nat
  BY DEF Session
<1>4. <<>> \in Seq(Message)
  BY EmptySeq
<1>5. PushTurn(s) \in Session
  BY <1>2, <1>3, <1>4 DEF PushTurn, Session, SessionState
<1>6. /\ PushTurn(s).committed = Append(s.committed, StagingAll(s))
      /\ PushTurn(s).userInput = <<>> /\ PushTurn(s).staged = <<>>
      /\ PushTurn(s).turnIndex = s.turnIndex + 1
      /\ PushTurn(s).state = "Idle"
      /\ PushTurn(s).nextId = s.nextId
      /\ PushTurn(s).pinned = s.pinned
      /\ PushTurn(s).pending = s.pending
  BY DEF PushTurn, Session
<1>7. StagingAll(PushTurn(s)) = <<>>
  BY <1>4, <1>6, ConcatEmptySeq DEF StagingAll
<1>8. QED
  BY <1>5, <1>6, <1>7

\* Pushing the turn leaves every message where it was.
LEMMA PushTurnWithin ==
  ASSUME NEW s \in Session
  PROVE  Within(Turns(PushTurn(s)), Turns(s))
<1> DEFINE r == PushTurn(s)
           last == Len(s.committed) + 1
<1>1. /\ DOMAIN Turns(s) = 1 .. last /\ last \in Nat
      /\ Turns(s) \in Seq(Seq(Message))
  <2>1. Len(s.committed) \in Nat /\ Turns(s) \in Seq(Seq(Message))
    BY TurnsFacts
  <2>2. DOMAIN Turns(s) = 1 .. Len(s.committed) + 1
    BY TurnsFacts
  <2>3. QED
    BY <2>1, <2>2
<1>2. r.committed = Turns(s) /\ StagingAll(r) = <<>> /\ r \in Session
  BY PushTurnFields DEF Turns
<1>3. Len(Turns(s)) = last
  BY <1>1, LenProperties
<1>4. /\ DOMAIN Turns(r) = 1 .. last + 1
      /\ \A p \in 1 .. last : Turns(r)[p] = Turns(s)[p]
      /\ Turns(r)[last + 1] = <<>>
  BY <1>1, <1>2, <1>3, TurnsFacts
<1> HIDE DEF r, last
<1>5. ASSUME NEW p \in DOMAIN Turns(r), NEW i \in DOMAIN Turns(r)[p]
      PROVE  p \in DOMAIN Turns(s) /\ Turns(r)[p] = Turns(s)[p]
  <2>1. p # last + 1
    BY <1>4, <1>5
  <2>2. QED
    BY <2>1, <1>1, <1>4
<1>6. Within(Turns(r), Turns(s))
  BY <1>5 DEF Within
<1>7. QED
  BY <1>6 DEF r

\* A turn whose calls are answered if it is closed is pushed to a sound session.
LEMMA PushTurnKeeps ==
  ASSUME NEW R, NEW s \in Session, NEW n \in Nat,
         StagingAll(s) # <<>>,
         \A i \in DOMAIN StagingAll(s) : StagingAll(s)[i].turn = s.turnIndex,
         AnsweredIfClosed(StagingAll(s)),
         IdsInOrder(s), InputsBy(R, s, n), TurnNumbersCoverPositions(s),
         FrozenTurnsAnswered(s), NoEmptyTurn(s)
  PROVE  /\ SoundBy(R, PushTurn(s), n)
         /\ TurnNumbersIncrease(s) => TurnNumbersIncrease(PushTurn(s))
<1> DEFINE r == PushTurn(s)
           last == Len(s.committed) + 1
<1>1. /\ r \in Session /\ r.committed = Append(s.committed, StagingAll(s))
      /\ r.turnIndex = s.turnIndex + 1 /\ r.nextId = s.nextId /\ r.pinned = s.pinned
      /\ r.pending = s.pending /\ StagingAll(r) = <<>> /\ r.userInput = <<>>
  BY PushTurnFields
<1>2. /\ DOMAIN s.committed = 1 .. Len(s.committed) /\ Len(s.committed) \in Nat
      /\ s.turnIndex \in Nat /\ StagingAll(s) \in Seq(Message)
  <2>1. s.turnIndex \in Nat
    BY DEF Session
  <2>2. QED
    BY <2>1, TurnsFacts
<1>3. /\ DOMAIN r.committed = 1 .. last
      /\ \A p \in 1 .. Len(s.committed) : r.committed[p] = s.committed[p]
      /\ r.committed[last] = StagingAll(s)
      /\ Len(r.committed) = last
  <2>1. s.committed \in Seq(Seq(Message))
    BY DEF Session
  <2>2. QED
    BY <2>1, <1>1, <1>2
<1> HIDE DEF r
\* A committed turn is an old one or the one just pushed.
<1>4. ASSUME NEW p \in DOMAIN r.committed
      PROVE  \/ p \in DOMAIN s.committed /\ r.committed[p] = s.committed[p]
             \/ p = last /\ r.committed[p] = StagingAll(s)
  BY <1>2, <1>3, <1>4
<1>5. IdleIsClean(r) /\ StagingIsCurrent(r) /\ UserHeadsTurn(r)
  BY <1>1 DEF IdleIsClean, StagingIsCurrent, UserHeadsTurn
<1>6. IdsInOrder(r) /\ InputsBy(R, r, n)
  <2>1. Within(Turns(r), Turns(s))
    BY PushTurnWithin DEF r
  <2>2. QED
    BY <2>1, <1>1, DroppingKeepsIds, DroppingKeepsInputs
<1>7. TurnNumbersCoverPositions(r)
  <2>1. Len(r.committed) <= r.turnIndex
    BY <1>1, <1>2, <1>3 DEF TurnNumbersCoverPositions
  <2>2. ASSUME NEW p \in DOMAIN r.committed, NEW i \in DOMAIN r.committed[p]
        PROVE  r.committed[p][i].turn >= p - 1
    <3>1. CASE p \in DOMAIN s.committed /\ r.committed[p] = s.committed[p]
      BY <3>1, <2>2 DEF TurnNumbersCoverPositions
    <3>2. CASE p = last /\ r.committed[p] = StagingAll(s)
      BY <3>2, <2>2, <1>2 DEF TurnNumbersCoverPositions
    <3>3. QED
      BY <3>1, <3>2, <1>4
  <2>3. QED
    BY <2>1, <2>2 DEF TurnNumbersCoverPositions
<1>8. FrozenTurnsAnswered(r) /\ NoEmptyTurn(r)
  BY <1>4 DEF FrozenTurnsAnswered, NoEmptyTurn
<1>9. ASSUME TurnNumbersIncrease(s) PROVE TurnNumbersIncrease(r)
  <2>1. ASSUME NEW p \in DOMAIN s.committed, NEW i \in DOMAIN s.committed[p]
        PROVE  s.committed[p][i].turn \in Nat /\ s.committed[p][i].turn < s.turnIndex
    <3>1. s.committed[p] \in Seq(Message)
      BY SeqElement DEF Session
    <3>2. s.committed[p][i] \in Message
      BY <3>1, <2>1, SeqElement
    <3>3. QED
      BY <3>2, <1>9, <2>1 DEF Message, TurnNumbersIncrease
  <2>2. ASSUME NEW p \in DOMAIN r.committed, NEW i \in DOMAIN r.committed[p]
        PROVE  r.committed[p][i].turn < r.turnIndex
    BY <2>1, <2>2, <1>1, <1>2, <1>4
  <2>3. ASSUME NEW p \in DOMAIN r.committed, NEW q \in DOMAIN r.committed,
               NEW i \in DOMAIN r.committed[p], NEW j \in DOMAIN r.committed[q]
        PROVE  /\ p < q => r.committed[p][i].turn < r.committed[q][j].turn
               /\ p = q => r.committed[p][i].turn = r.committed[q][j].turn
    <3>1. CASE p \in DOMAIN s.committed /\ q \in DOMAIN s.committed
      BY SMTT(40), <3>1, <1>2, <1>3, <1>9, <2>3 DEF TurnNumbersIncrease
    <3>2. CASE p \in DOMAIN s.committed /\ q = last
      BY <3>2, <1>2, <1>3, <2>1, <2>3
    <3>3. CASE p = last
      <4>1. q \in 1 .. last
        BY <1>3
      <4>2. ~ (p < q)
        BY <3>3, <4>1, <1>2
      <4>3. p = q => r.committed[p][i].turn = s.turnIndex /\ r.committed[q][j].turn = s.turnIndex
        BY <3>3, <1>3, <2>3
      <4>4. QED
        BY <4>2, <4>3
    <3>4. QED
      BY <3>1, <3>2, <3>3, <1>4
  <2>4. QED
    BY <2>2, <2>3 DEF TurnNumbersIncrease
<1>10. QED
  BY <1>1, <1>5, <1>6, <1>7, <1>8, <1>9 DEF SoundBy, r

-----------------------------------------------------------------------------
(* The mutators, one by one.                                               *)

\* What the staging of one message does, whatever it carries.
LEMMA StageFields ==
  ASSUME NEW s \in Session, NEW kind \in Kind, NEW call \in CallIds \cup {NoCall},
         NEW body \in Seq(Nat)
  PROVE  LET r == Stage(s, kind, call, body)
             m == NewMessage(s, kind, call, body)
         IN  /\ r \in Session
             /\ <<m>> \in Seq(Message)
             /\ r.committed = s.committed /\ r.turnIndex = s.turnIndex
             /\ r.state = s.state /\ r.pending = s.pending
             /\ r.userInput = s.userInput /\ r.staged = Append(s.staged, m)
             /\ r.pinned = s.pinned /\ r.nextId = s.nextId + 1
             /\ StagingAll(r) = StagingAll(s) \o <<m>>
             /\ Extends(r, s, <<m>>)
<1> DEFINE r == Stage(s, kind, call, body)
           m == NewMessage(s, kind, call, body)
<1>1. m \in Message
  BY DEF NewMessage, Message, Session
<1>2. /\ s.staged \in Seq(Message) /\ s.userInput \in Seq(Message) /\ s.nextId \in Nat
      /\ s.turnIndex \in Nat
  BY DEF Session
<1>3. Append(s.staged, m) \in Seq(Message) /\ s.nextId + 1 \in Nat
  BY <1>1, <1>2
<1>4. r \in Session
  BY <1>3 DEF Stage, Session
<1>5. /\ r.committed = s.committed /\ r.turnIndex = s.turnIndex
      /\ r.state = s.state /\ r.pending = s.pending
      /\ r.userInput = s.userInput /\ r.staged = Append(s.staged, m)
      /\ r.pinned = s.pinned /\ r.nextId = s.nextId + 1
  BY DEF Stage, Session
<1>6. <<m>> \in Seq(Message) /\ Append(s.staged, m) = s.staged \o <<m>>
  BY <1>1, <1>2
<1>7. StagingAll(r) = StagingAll(s) \o <<m>>
  <2> DEFINE head == s.userInput
             tail == s.staged
             new  == <<m>>
  <2>1. StagingAll(r) = head \o (tail \o new) /\ StagingAll(s) = head \o tail
    BY <1>5, <1>6 DEF StagingAll
  <2>2. head \in Seq(Message) /\ tail \in Seq(Message) /\ new \in Seq(Message)
    BY <1>2, <1>6
  <2> HIDE DEF head, tail, new
  <2>3. (head \o tail) \o new = head \o (tail \o new)
    BY <2>2, ConcatAssociative
  <2>4. QED
    BY <2>1, <2>3 DEF new
<1>8. m.id = s.nextId
  BY DEF NewMessage
<1> HIDE DEF m, r
<1>9. Extends(r, s, <<m>>)
  BY <1>2, <1>5, <1>7, <1>8 DEF Extends
<1>10. QED
  BY <1>4, <1>5, <1>6, <1>7, <1>9 DEF r, m

\* The turn in flight after one more message.
LEMMA StageIsCurrent ==
  ASSUME NEW s \in Session, NEW r \in Session, NEW m \in Message,
         StagingAll(r) = StagingAll(s) \o <<m>>, r.turnIndex = s.turnIndex,
         StagingIsCurrent(s)
  PROVE  /\ DOMAIN StagingAll(r) = 1 .. Len(StagingAll(s)) + 1
         /\ Len(StagingAll(r)) = Len(StagingAll(s)) + 1
         /\ Len(StagingAll(s)) \in Nat
         /\ \A i \in 1 .. Len(StagingAll(s)) :
               i \in DOMAIN StagingAll(s) /\ StagingAll(r)[i] = StagingAll(s)[i]
         /\ StagingAll(r)[Len(StagingAll(s)) + 1] = m
         /\ m.turn = s.turnIndex /\ m.kind \notin Closing => StagingIsCurrent(r)
<1> DEFINE old == Len(StagingAll(s))
<1>1. StagingAll(s) \in Seq(Message)
  BY TurnsFacts
<1>2. old \in Nat /\ DOMAIN StagingAll(s) = 1 .. old
  BY <1>1, LenProperties
<1>3. /\ StagingAll(r) = Append(StagingAll(s), m)
  BY <1>1
<1>4. /\ DOMAIN StagingAll(r) = 1 .. old + 1
      /\ Len(StagingAll(r)) = old + 1
      /\ \A i \in 1 .. old : StagingAll(r)[i] = StagingAll(s)[i]
      /\ StagingAll(r)[old + 1] = m
  BY <1>1, <1>2, <1>3
<1>5. ASSUME m.turn = s.turnIndex, m.kind \notin Closing PROVE StagingIsCurrent(r)
  <2>1. SUFFICES ASSUME NEW i \in 1 .. old + 1
                 PROVE  StagingAll(r)[i].turn = r.turnIndex /\ StagingAll(r)[i].kind \notin Closing
    BY <1>4 DEF StagingIsCurrent
  <2>2. CASE i = old + 1
    BY <2>2, <1>4, <1>5
  <2>3. CASE i # old + 1
    BY <2>3, <1>2, <1>4 DEF StagingIsCurrent
  <2>4. QED
    BY <2>2, <2>3
<1>6. QED
  BY <1>2, <1>4, <1>5

\* stage_item keeps a session sound.
LEMMA StageKeeps ==
  ASSUME NEW R, NEW s \in Session, NEW n \in Nat, SoundBy(R, s, n), s.state # "Idle",
         NEW kind \in Kind \ Closing, NEW call \in CallIds \cup {NoCall}
  PROVE  /\ SoundBy(R, Stage(s, kind, call, <<>>), n)
         /\ TurnNumbersIncrease(s) => TurnNumbersIncrease(Stage(s, kind, call, <<>>))
<1> DEFINE r == Stage(s, kind, call, <<>>)
           m == NewMessage(s, kind, call, <<>>)
<1>1. <<>> \in Seq(Nat)
  BY EmptySeq
<1>2. /\ r \in Session /\ <<m>> \in Seq(Message)
      /\ r.committed = s.committed /\ r.turnIndex = s.turnIndex
      /\ r.state = s.state /\ r.pending = s.pending
      /\ StagingAll(r) = StagingAll(s) \o <<m>>
      /\ Extends(r, s, <<m>>)
  BY ZenonT(60), <1>1, StageFields
<1>9. r.userInput = s.userInput
  BY DEF Stage, Session
<1>3. m \in Message /\ m.turn = s.turnIndex /\ m.kind \notin Closing /\ m.body = <<>>
  BY <1>1 DEF NewMessage, Message, Session
<1> HIDE DEF r, m
<1>4. Consumes(r, s, <<m>>)
  BY <1>2, <1>3 DEF Consumes
<1>5. IdsInOrder(r) /\ InputsBy(R, r, n)
  BY <1>2, <1>4, ExtendingKeepsIds, ExtendingKeepsInputs DEF SoundBy
<1>6. StagingIsCurrent(r)
  BY <1>2, <1>3, StageIsCurrent DEF SoundBy
<1>7. IdleIsClean(r) /\ UserHeadsTurn(r)
  BY <1>2, <1>9 DEF IdleIsClean, UserHeadsTurn, SoundBy
<1>8. QED
  BY <1>2, <1>5, <1>6, <1>7, SameHistory DEF SoundBy, r

\* The queue merged into the turn in flight.
LEMMA DrainKeeps ==
  ASSUME NEW R, NEW s \in Session, NEW n \in Nat, SoundBy(R, s, n), CanStage(s)
  PROVE  /\ SoundBy(R, DrainPendingIntoTurn(s), n)
         /\ TurnNumbersIncrease(s) => TurnNumbersIncrease(DrainPendingIntoTurn(s))
<1>1. CASE ~ HasPending(s)
  BY <1>1 DEF DrainPendingIntoTurn
<1>2. CASE HasPending(s)
  <2> DEFINE t == Stage(s, "user", NoCall, s.pending)
             r == [t EXCEPT !.pending = <<>>]
             m == NewMessage(s, "user", NoCall, s.pending)
  <2>1. s.pending \in Seq(Nat) /\ "user" \in Kind
    BY DEF Session, Kind
  <2>2. /\ t \in Session /\ <<m>> \in Seq(Message)
        /\ t.committed = s.committed /\ t.turnIndex = s.turnIndex
        /\ t.state = s.state /\ t.userInput = s.userInput
        /\ StagingAll(t) = StagingAll(s) \o <<m>>
        /\ Extends(t, s, <<m>>)
    <3>1. NoCall \in CallIds \cup {NoCall}
      OBVIOUS
    <3>2. QED
      BY ZenonT(60), <2>1, <3>1, StageFields
  <2>3. m \in Message /\ m.turn = s.turnIndex /\ m.kind \notin Closing /\ m.body = s.pending
    BY <2>1 DEF NewMessage, Message, Session, Closing
  <2> HIDE DEF t, m
  <2>4. <<>> \in Seq(Nat)
    BY EmptySeq
  <2>5. /\ r \in Session /\ r.committed = s.committed /\ r.turnIndex = s.turnIndex
        /\ r.state = s.state /\ r.pending = <<>>
        /\ r.userInput = t.userInput /\ r.staged = t.staged
        /\ r.pinned = t.pinned /\ r.nextId = t.nextId
    BY <2>2, <2>4 DEF Session
  <2>6. StagingAll(r) = StagingAll(s) \o <<m>> /\ Extends(r, s, <<m>>)
    <3>1. StagingAll(r) = StagingAll(t)
      BY <2>5 DEF StagingAll
    <3>2. QED
      BY <3>1, <2>2, <2>5 DEF Extends
  <2> HIDE DEF r
  <2>7. Consumes(r, s, <<m>>)
    BY <2>3, <2>5 DEF Consumes
  <2>8. IdsInOrder(r) /\ InputsBy(R, r, n)
    BY <2>2, <2>5, <2>6, <2>7, ExtendingKeepsIds, ExtendingKeepsInputs DEF SoundBy
  <2>9. StagingIsCurrent(r)
    BY <2>3, <2>5, <2>6, StageIsCurrent DEF SoundBy
  <2>10. IdleIsClean(r) /\ UserHeadsTurn(r)
    BY <2>2, <2>5 DEF IdleIsClean, CanStage, UserHeadsTurn, SoundBy
  <2>11. r = DrainPendingIntoTurn(s)
    BY <1>2 DEF DrainPendingIntoTurn, r, t
  <2>12. QED
    BY <2>5, <2>8, <2>9, <2>10, <2>11, SameHistory DEF SoundBy
<1>3. QED
  BY <1>1, <1>2

\* The queue merged into the user input of a new turn.
LEMMA DequeueKeeps ==
  ASSUME NEW R, NEW s \in Session, NEW n \in Nat, SoundBy(R, s, n), CanStartTurn(s)
  PROVE  /\ SoundBy(R, DequeueAndStartTurn(s), n)
         /\ TurnNumbersIncrease(s) => TurnNumbersIncrease(DequeueAndStartTurn(s))
<1> DEFINE r == DequeueAndStartTurn(s)
           m == NewMessage(s, "user", NoCall, s.pending)
<1>1. s.pending \in Seq(Nat) /\ s.nextId \in Nat /\ s.turnIndex \in Nat
      /\ s.userInput \in Seq(Message) /\ s.staged \in Seq(Message)
  BY DEF Session
<1>2. /\ m \in Message /\ m.turn = s.turnIndex /\ m.kind \notin Closing
      /\ m.body = s.pending /\ m.id = s.nextId /\ m.kind = "user"
  BY <1>1 DEF NewMessage, Message, Session, Closing, Kind
<1>3. StagingAll(s) = <<>>
  BY DEF SoundBy, IdleIsClean, CanStartTurn
<1>4. s.staged = <<>>
  BY <1>1, <1>3, ConcatEqualIffEmpty, ConcatSimplifications DEF StagingAll
<1>5. /\ <<>> \in Seq(Nat) /\ <<m>> \in Seq(Message) /\ s.nextId + 1 \in Nat
      /\ "Active" \in SessionState
  BY <1>1, <1>2, EmptySeq DEF SessionState
<1>6. /\ r = [s EXCEPT !.userInput = <<m>>, !.nextId = @ + 1, !.state = "Active",
                       !.pending = <<>>]
  BY DEF DequeueAndStartTurn, StartTurn, Session
<1> HIDE DEF m, r
<1>7. r \in Session
  BY <1>5, <1>6 DEF Session
<1>8. /\ r.committed = s.committed /\ r.turnIndex = s.turnIndex /\ r.state = "Active"
      /\ r.pending = <<>> /\ r.userInput = <<m>> /\ r.staged = s.staged
      /\ r.pinned = s.pinned /\ r.nextId = s.nextId + 1
  BY <1>6 DEF Session
<1>9. StagingAll(r) = StagingAll(s) \o <<m>>
  BY <1>3, <1>4, <1>5, <1>8, ConcatEmptySeq DEF StagingAll
<1>10. Extends(r, s, <<m>>)
  BY <1>1, <1>2, <1>8, <1>9 DEF Extends
<1>11. Consumes(r, s, <<m>>)
  BY <1>2, <1>8 DEF Consumes
<1>12. IdsInOrder(r) /\ InputsBy(R, r, n)
  BY <1>5, <1>7, <1>10, <1>11, ExtendingKeepsIds, ExtendingKeepsInputs DEF SoundBy
<1>13. StagingIsCurrent(r)
  BY <1>2, <1>7, <1>8, <1>9, StageIsCurrent DEF SoundBy
<1>14. IdleIsClean(r) /\ UserHeadsTurn(r)
  BY <1>2, <1>8 DEF IdleIsClean, UserHeadsTurn
<1>15. QED
  BY <1>7, <1>8, <1>12, <1>13, <1>14, SameHistory DEF SoundBy, r

-----------------------------------------------------------------------------
(* Mutators that only drop messages.                                       *)

\* Every message of r stands at the same place in s.
LEMMA InPlaceWithin ==
  ASSUME NEW s, NEW r,
         \A p \in DOMAIN Turns(r) : \A i \in DOMAIN Turns(r)[p] :
            /\ p \in DOMAIN Turns(s) /\ i \in DOMAIN Turns(s)[p]
            /\ Turns(r)[p][i] = Turns(s)[p][i]
  PROVE  Within(Turns(r), Turns(s))
BY DEF Within

\* r has the committed turns of s, and some of the first staged messages.
LEMMA CutWithin ==
  ASSUME NEW s \in Session, NEW r \in Session, r.committed = s.committed,
         \A i \in DOMAIN StagingAll(r) :
            i \in DOMAIN StagingAll(s) /\ StagingAll(r)[i] = StagingAll(s)[i]
  PROVE  Within(Turns(r), Turns(s))
<1>1. Len(s.committed) \in Nat /\ DOMAIN Turns(s) = 1 .. Len(s.committed) + 1
  BY TurnsFacts
<1>2. /\ Turns(s)[Len(s.committed) + 1] = StagingAll(s)
      /\ \A p \in 1 .. Len(s.committed) : Turns(s)[p] = s.committed[p]
  BY TurnsFacts
<1>3. DOMAIN Turns(r) = 1 .. Len(s.committed) + 1
  BY TurnsFacts
<1>4. /\ Turns(r)[Len(s.committed) + 1] = StagingAll(r)
      /\ \A p \in 1 .. Len(s.committed) : Turns(r)[p] = s.committed[p]
  BY TurnsFacts
<1>5. ASSUME NEW p \in DOMAIN Turns(r), NEW i \in DOMAIN Turns(r)[p]
      PROVE  /\ p \in DOMAIN Turns(s) /\ i \in DOMAIN Turns(s)[p]
             /\ Turns(r)[p][i] = Turns(s)[p][i]
  <2>1. CASE p = Len(s.committed) + 1
    BY <2>1, <1>1, <1>2, <1>4, <1>5
  <2>2. CASE p # Len(s.committed) + 1
    <3>1. p \in 1 .. Len(s.committed)
      BY <2>2, <1>1, <1>3
    <3>2. QED
      BY <3>1, <1>1, <1>2, <1>3, <1>4, <1>5
  <2>3. QED
    BY <2>1, <2>2
<1>6. QED
  BY <1>5, InPlaceWithin

\* Leaving a turn without committing it.
LEMMA ClearStagingFields ==
  ASSUME NEW s \in Session
  PROVE  LET r == ClearStaging(s)
         IN  /\ r \in Session
             /\ r.committed = s.committed /\ r.turnIndex = s.turnIndex
             /\ r.state = "Idle" /\ r.pending = s.pending
             /\ r.userInput = <<>> /\ StagingAll(r) = <<>>
             /\ r.pinned = s.pinned /\ r.nextId = s.nextId
<1> DEFINE r == ClearStaging(s)
<1>1. <<>> \in Seq(Message) /\ "Idle" \in SessionState
  BY EmptySeq DEF SessionState
<1>2. r \in Session
  BY <1>1 DEF ClearStaging, Session
<1>3. /\ r.committed = s.committed /\ r.turnIndex = s.turnIndex
      /\ r.state = "Idle" /\ r.pending = s.pending
      /\ r.userInput = <<>> /\ r.staged = <<>>
      /\ r.pinned = s.pinned /\ r.nextId = s.nextId
  BY DEF ClearStaging, Session
<1>4. StagingAll(r) = <<>>
  BY <1>1, <1>3, ConcatEmptySeq DEF StagingAll
<1>5. QED
  BY <1>2, <1>3, <1>4

\* A rollback keeps a session sound.
LEMMA ClearStagingKeeps ==
  ASSUME NEW R, NEW s \in Session, NEW n \in Nat, SoundBy(R, s, n)
  PROVE  /\ SoundBy(R, ClearStaging(s), n)
         /\ TurnNumbersIncrease(s) => TurnNumbersIncrease(ClearStaging(s))
<1> DEFINE r == ClearStaging(s)
<1>1. /\ r \in Session
      /\ r.committed = s.committed /\ r.turnIndex = s.turnIndex
      /\ r.state = "Idle" /\ r.pending = s.pending
      /\ r.userInput = <<>> /\ StagingAll(r) = <<>>
      /\ r.pinned = s.pinned /\ r.nextId = s.nextId
  BY ClearStagingFields
<1> HIDE DEF r
<1>2. Within(Turns(r), Turns(s))
  BY <1>1, CutWithin
<1>3. IdsInOrder(r) /\ InputsBy(R, r, n)
  BY <1>1, <1>2, DroppingKeepsIds, DroppingKeepsInputs DEF SoundBy
<1>4. IdleIsClean(r) /\ StagingIsCurrent(r) /\ UserHeadsTurn(r)
  BY <1>1 DEF IdleIsClean, StagingIsCurrent, UserHeadsTurn
<1>5. QED
  BY <1>1, <1>3, <1>4, SameHistory DEF SoundBy, r

\* A session that only changes state, with nothing to leave behind at Idle.
LEMMA StateKeeps ==
  ASSUME NEW R, NEW s \in Session, NEW n \in Nat, SoundBy(R, s, n), NEW x \in SessionState,
         x = "Idle" => StagingAll(s) = <<>>
  PROVE  /\ SoundBy(R, [s EXCEPT !.state = x], n)
         /\ TurnNumbersIncrease(s) => TurnNumbersIncrease([s EXCEPT !.state = x])
<1> DEFINE r == [s EXCEPT !.state = x]
<1>1. r \in Session
  BY DEF Session
<1>2. /\ r.committed = s.committed /\ r.turnIndex = s.turnIndex
      /\ r.state = x /\ r.pending = s.pending
      /\ r.userInput = s.userInput /\ r.staged = s.staged
      /\ r.pinned = s.pinned /\ r.nextId = s.nextId
  BY DEF Session
<1> HIDE DEF r
<1>3. StagingAll(r) = StagingAll(s)
  BY <1>2 DEF StagingAll
<1>4. Within(Turns(r), Turns(s))
  BY <1>1, <1>2, <1>3, CutWithin
<1>5. IdsInOrder(r) /\ InputsBy(R, r, n)
  BY <1>2, <1>4, DroppingKeepsIds, DroppingKeepsInputs DEF SoundBy
<1>6. IdleIsClean(r) /\ StagingIsCurrent(r) /\ UserHeadsTurn(r)
  BY <1>2, <1>3 DEF SoundBy, IdleIsClean, StagingIsCurrent, UserHeadsTurn
<1>7. QED
  BY <1>1, <1>2, <1>5, <1>6, SameHistory DEF SoundBy, r

\* Truncating the staging area keeps a session sound.
LEMMA TruncateKeeps ==
  ASSUME NEW R, NEW s \in Session, NEW n \in Nat, SoundBy(R, s, n), CanStage(s),
         NEW checkpoint \in 0 .. Len(s.staged)
  PROVE  /\ SoundBy(R, TruncateStaging(s, checkpoint), n)
         /\ TurnNumbersIncrease(s) => TurnNumbersIncrease(TruncateStaging(s, checkpoint))
<1> DEFINE r == TruncateStaging(s, checkpoint)
           head == s.userInput
           tail == s.staged
           cut == SubSeq(tail, 1, checkpoint)
<1>1. head \in Seq(Message) /\ tail \in Seq(Message)
  BY DEF Session
<1>2. checkpoint \in Nat /\ checkpoint <= Len(tail) /\ Len(tail) \in Nat
  BY <1>1
<1> HIDE DEF head, tail
<1>3. /\ cut \in Seq(Message) /\ Len(cut) = checkpoint
      /\ \A i \in 1 .. checkpoint : cut[i] = tail[i]
  BY <1>1, <1>2
<1>4. r \in Session
  BY <1>3 DEF TruncateStaging, Session, tail
<1>5. /\ r.committed = s.committed /\ r.turnIndex = s.turnIndex
      /\ r.state = s.state /\ r.pending = s.pending
      /\ r.userInput = head /\ r.staged = cut
      /\ r.pinned = s.pinned /\ r.nextId = s.nextId
  BY DEF TruncateStaging, Session, head, tail
<1> HIDE DEF r, cut
<1>6. ASSUME NEW i \in DOMAIN StagingAll(r)
      PROVE  i \in DOMAIN StagingAll(s) /\ StagingAll(r)[i] = StagingAll(s)[i]
  <2>1. StagingAll(r) = head \o cut /\ StagingAll(s) = head \o tail
    BY <1>5 DEF StagingAll, head, tail
  <2>2. Len(head) \in Nat /\ DOMAIN (head \o cut) = 1 .. Len(head) + checkpoint
        /\ DOMAIN (head \o tail) = 1 .. Len(head) + Len(tail)
    BY SMTT(40), <1>1, <1>2, <1>3
  <2>3. i \in 1 .. Len(head) + checkpoint /\ i \in 1 .. Len(head) + Len(tail)
    BY <2>1, <2>2, <1>2, <1>6
  <2>4. (head \o cut)[i] = IF i <= Len(head) THEN head[i] ELSE cut[i - Len(head)]
    BY <1>1, <1>3, <2>3, ConcatProperties
  <2>5. (head \o tail)[i] = IF i <= Len(head) THEN head[i] ELSE tail[i - Len(head)]
    BY <1>1, <1>3, <2>3, ConcatProperties
  <2>6. (head \o cut)[i] = (head \o tail)[i]
    <3>1. CASE i <= Len(head)
      BY <3>1, <2>4, <2>5
    <3>2. CASE ~ (i <= Len(head))
      <4>1. i - Len(head) \in 1 .. checkpoint
        BY <3>2, <2>2, <2>3, <1>2
      <4>2. QED
        BY <3>2, <4>1, <1>3, <2>4, <2>5
    <3>3. QED
      BY <3>1, <3>2
  <2>7. QED
    BY <2>1, <2>2, <2>3, <2>6
<1>7. Within(Turns(r), Turns(s))
  BY <1>4, <1>5, <1>6, CutWithin
<1>8. IdsInOrder(r) /\ InputsBy(R, r, n)
  BY <1>5, <1>7, DroppingKeepsIds, DroppingKeepsInputs DEF SoundBy
<1>9. StagingIsCurrent(r)
  BY <1>5, <1>6 DEF SoundBy, StagingIsCurrent
<1>10. IdleIsClean(r) /\ UserHeadsTurn(r)
  BY <1>5 DEF SoundBy, IdleIsClean, UserHeadsTurn, CanStage, head
<1>11. QED
  BY <1>4, <1>5, <1>8, <1>9, <1>10, SameHistory DEF SoundBy, r

\* Dropping the queue.
LEMMA ClearPendingKeeps ==
  ASSUME NEW R, NEW s \in Session, NEW n \in Nat, SoundBy(R, s, n)
  PROVE  /\ SoundBy(R, ClearPending(s), n)
         /\ TurnNumbersIncrease(s) => TurnNumbersIncrease(ClearPending(s))
<1> DEFINE r == ClearPending(s)
<1>1. <<>> \in Seq(Nat)
  BY EmptySeq
<1>2. r \in Session
  BY <1>1 DEF ClearPending, Session
<1>3. /\ r.committed = s.committed /\ r.turnIndex = s.turnIndex
      /\ r.state = s.state /\ r.pending = <<>>
      /\ r.userInput = s.userInput /\ r.staged = s.staged
      /\ r.pinned = s.pinned /\ r.nextId = s.nextId
  BY DEF ClearPending, Session
<1> HIDE DEF r
<1>4. StagingAll(r) = StagingAll(s)
  BY <1>3 DEF StagingAll
<1>5. Within(Turns(r), Turns(s))
  BY <1>2, <1>3, <1>4, CutWithin
<1>6. IdsInOrder(r) /\ InputsBy(R, r, n)
  BY <1>3, <1>5, DroppingKeepsIds, DroppingKeepsInputs DEF SoundBy
<1>7. IdleIsClean(r) /\ StagingIsCurrent(r) /\ UserHeadsTurn(r)
  BY <1>3, <1>4 DEF SoundBy, IdleIsClean, StagingIsCurrent, UserHeadsTurn
<1>8. QED
  BY <1>2, <1>3, <1>6, <1>7, SameHistory DEF SoundBy, r

\* One more input at the end of the queue.
LEMMA EnqueueKeeps ==
  ASSUME NEW R, Before \subseteq R, NEW s \in Session, NEW n \in Nat, SoundBy(R, s, n)
  PROVE  /\ SoundBy(R, EnqueuePending(s, n + 1), n + 1)
         /\ TurnNumbersIncrease(s) => TurnNumbersIncrease(EnqueuePending(s, n + 1))
<1> DEFINE r == EnqueuePending(s, n + 1)
           q == s.pending
<1>1. q \in Seq(Nat) /\ Append(q, n + 1) \in Seq(Nat)
  BY DEF Session
<1>2. r \in Session
  BY <1>1 DEF EnqueuePending, Session
<1>3. /\ r.committed = s.committed /\ r.turnIndex = s.turnIndex
      /\ r.state = s.state /\ r.pending = Append(q, n + 1)
      /\ r.userInput = s.userInput /\ r.staged = s.staged
      /\ r.pinned = s.pinned /\ r.nextId = s.nextId
  BY DEF EnqueuePending, Session
<1> HIDE DEF r
<1>4. StagingAll(r) = StagingAll(s)
  BY <1>3 DEF StagingAll
<1>5. Turns(r) = Turns(s)
  BY <1>3, <1>4 DEF Turns
<1>6. IdsInOrder(r)
  BY <1>3, <1>5 DEF IdsInOrder, SoundBy
<1>7. InputsBy(R, r, n + 1)
  <2> HIDE DEF q
  <2>1. Len(q) \in Nat /\ DOMAIN q = 1 .. Len(q) /\ \A i \in DOMAIN q : q[i] \in Nat
    BY <1>1, SeqElement
  <2>2. /\ DOMAIN r.pending = 1 .. Len(q) + 1
        /\ \A i \in DOMAIN q : r.pending[i] = q[i]
        /\ r.pending[Len(q) + 1] = n + 1
    BY <1>1, <1>3, <2>1
  <2>0. ASSUME NEW a \in Nat, a < n + 1 PROVE <<a, n + 1>> \in R
    BY <2>0, BeforeIs
  <2>3. \A i \in DOMAIN q : q[i] < n + 1
    BY DEF SoundBy, InputsBy, AllBelow, q
  <2>4. Chain(R, q)
    BY DEF SoundBy, InputsBy, q
  <2>5. Chain(R, r.pending) /\ AllBelow(r.pending, <<(n + 1) + 1>>)
    <3>1. ASSUME NEW i \in DOMAIN r.pending, NEW j \in DOMAIN r.pending, i < j
          PROVE  <<r.pending[i], r.pending[j]>> \in R
      <4>1. i \in DOMAIN q
        BY <3>1, <2>1, <2>2
      <4>2. CASE j = Len(q) + 1
        BY <4>1, <4>2, <2>0, <2>1, <2>2, <2>3
      <4>3. CASE j # Len(q) + 1
        BY <4>1, <4>3, <3>1, <2>1, <2>2, <2>4 DEF Chain
      <4>4. QED
        BY <4>2, <4>3
    <3>2. ASSUME NEW i \in DOMAIN r.pending PROVE r.pending[i] < (n + 1) + 1
      BY <3>2, <2>1, <2>2, <2>3
    <3>3. QED
      BY <3>1, <3>2 DEF Chain, AllBelow
  <2>6. ASSUME NEW p \in DOMAIN Turns(s), NEW i \in DOMAIN Turns(s)[p]
        PROVE  /\ Precede(R, Turns(s)[p][i].body, r.pending)
               /\ AllBelow(Turns(s)[p][i].body, <<(n + 1) + 1>>)
    <3> DEFINE b == Turns(s)[p][i].body
    <3>1. Precede(R, b, q) /\ \A k \in DOMAIN b : b[k] < n + 1
      BY <2>6 DEF SoundBy, InputsBy, Precede, AllBelow, q
    <3>2. \A k \in DOMAIN b : b[k] \in Nat
      <4>1. Turns(s)[p] \in Seq(Message)
        BY TurnsFacts
      <4>2. Turns(s)[p][i] \in Message
        BY <4>1, <2>6, SeqElement
      <4>3. b \in Seq(Nat)
        BY <4>2 DEF Message
      <4>4. QED
        BY <4>3, SeqElement
    <3> HIDE DEF b
    <3>3. Precede(R, b, r.pending)
      <4>1. ASSUME NEW k \in DOMAIN b, NEW j \in DOMAIN r.pending
            PROVE  <<b[k], r.pending[j]>> \in R
        <5>1. CASE j \in DOMAIN q
          BY <4>1, <5>1, <2>2, <3>1 DEF Precede
        <5>2. CASE j = Len(q) + 1
          BY <4>1, <5>2, <2>0, <2>2, <3>1, <3>2
        <5>3. QED
          BY <4>1, <5>1, <5>2, <2>1, <2>2
      <4>2. QED
        BY <4>1 DEF Precede
    <3>4. AllBelow(b, <<(n + 1) + 1>>)
      BY <3>1, <3>2 DEF AllBelow
    <3>5. QED
      BY <3>3, <3>4 DEF b
  <2>7. OrderedBy(R, Turns(s))
    BY DEF SoundBy, InputsBy
  <2>8. QED
    BY <1>5, <2>5, <2>6, <2>7 DEF InputsBy
<1>8. IdleIsClean(r) /\ StagingIsCurrent(r) /\ UserHeadsTurn(r)
  BY <1>3, <1>4 DEF SoundBy, IdleIsClean, StagingIsCurrent, UserHeadsTurn
<1>9. QED
  BY <1>2, <1>3, <1>6, <1>7, <1>8, SameHistory DEF SoundBy, r

-----------------------------------------------------------------------------
(* Ending a turn.                                                          *)

\* commit_turn keeps a session sound.
LEMMA CommitKeeps ==
  ASSUME NEW R, NEW s \in Session, NEW n \in Nat, SoundBy(R, s, n)
  PROVE  /\ SoundBy(R, CommitTurn(s), n)
         /\ TurnNumbersIncrease(s) => TurnNumbersIncrease(CommitTurn(s))
<1>1. CASE StagingAll(s) = <<>>
  <2>1. "Idle" \in SessionState
    BY DEF SessionState
  <2>2. QED
    BY <1>1, <2>1, StateKeeps DEF CommitTurn
<1>2. CASE StagingAll(s) # <<>>
  <2>1. \A i \in DOMAIN StagingAll(s) : StagingAll(s)[i].turn = s.turnIndex
    BY DEF SoundBy, StagingIsCurrent
  <2>2. AnsweredIfClosed(StagingAll(s))
    BY DEF SoundBy, StagingIsCurrent, AnsweredIfClosed
  <2>3. /\ IdsInOrder(s) /\ InputsBy(R, s, n) /\ TurnNumbersCoverPositions(s)
        /\ FrozenTurnsAnswered(s) /\ NoEmptyTurn(s)
    BY DEF SoundBy
  <2>4. /\ SoundBy(R, PushTurn(s), n)
        /\ TurnNumbersIncrease(s) => TurnNumbersIncrease(PushTurn(s))
    BY <1>2, <2>1, <2>2, <2>3, PushTurnKeeps
  <2>5. QED
    BY <1>2, <2>4 DEF CommitTurn
<1>3. QED
  BY <1>1, <1>2

\* The synthetic outputs: one per dangling call, with new ids.
LEMMA PatchOutputsFacts ==
  ASSUME NEW s \in Session
  PROVE  LET new == PatchOutputs(s)
         IN  /\ new \in Seq(Message)
             /\ Len(new) = Cardinality(Dangling(s)) /\ Len(new) \in Nat
             /\ DOMAIN new = 1 .. Len(new)
             /\ \A i \in 1 .. Len(new) :
                  /\ new[i].id = s.nextId + i - 1
                  /\ new[i].turn = s.turnIndex /\ new[i].kind = "output"
                  /\ new[i].body = <<>>
             /\ \A k \in Dangling(s) : \E i \in 1 .. Len(new) : new[i].call = s.staged[k].call
<1> DEFINE D == Dangling(s)
           c == Cardinality(D)
           new == PatchOutputs(s)
<1>1. /\ s.staged \in Seq(Message) /\ s.nextId \in Nat /\ s.turnIndex \in Nat
      /\ <<>> \in Seq(Nat) /\ "output" \in Kind
  BY EmptySeq DEF Session, Kind
<1>2. Len(s.staged) \in Nat /\ D \in SUBSET (1 .. Len(s.staged))
  BY <1>1 DEF Dangling
<1>3. /\ c \in Nat /\ Listing(D) \in [1 .. c -> D]
      /\ \A d \in D : \E i \in 1 .. c : Listing(D)[i] = d
  BY <1>2, ListingFacts
<1>4. \A k \in D : s.staged[k] \in Message
  BY <1>1, SeqElement DEF Dangling
<1>5. new = [i \in 1 .. c |-> [NewMessage(s, "output", s.staged[Listing(D)[i]].call, <<>>)
                                  EXCEPT !.id = s.nextId + i - 1]]
  BY <1>3 DEF PatchOutputs
<1>6. ASSUME NEW i \in 1 .. c
      PROVE  /\ new[i] \in Message
             /\ new[i].id = s.nextId + i - 1
             /\ new[i].turn = s.turnIndex /\ new[i].kind = "output"
             /\ new[i].body = <<>> /\ new[i].call = s.staged[Listing(D)[i]].call
  <2>1. s.staged[Listing(D)[i]].call \in CallIds \cup {NoCall}
    BY <1>3, <1>4 DEF Message
  <2>2. s.nextId + i - 1 \in Nat
    BY <1>1, <1>3
  <2>3. new[i] = [id |-> s.nextId + i - 1, turn |-> s.turnIndex, kind |-> "output",
                  call |-> s.staged[Listing(D)[i]].call, body |-> <<>>]
    BY <1>5 DEF NewMessage
  <2>4. QED
    BY <2>1, <2>2, <2>3, <1>1 DEF Message
<1>7. new \in Seq(Message) /\ Len(new) = c
  <2>1. new \in [1 .. c -> Message]
    BY <1>5, <1>6
  <2>2. QED
    BY <2>1, <1>3, SeqDef
<1>8. \A k \in D : \E i \in 1 .. c : new[i].call = s.staged[k].call
  BY <1>3, <1>6
<1>9. DOMAIN new = 1 .. Len(new)
  BY <1>5, <1>7
<1> HIDE DEF new, c, D
<1>10. QED
  BY <1>3, <1>6, <1>7, <1>8, <1>9 DEF new, c, D

\* Outputs for the calls that have none, field by field.
LEMMA PatchFields ==
  ASSUME NEW s \in Session
  PROVE  LET u == PatchDanglingToolCalls(s)
             new == PatchOutputs(s)
         IN  /\ u \in Session
             /\ u.committed = s.committed /\ u.turnIndex = s.turnIndex
             /\ u.state = s.state /\ u.pending = s.pending /\ u.userInput = s.userInput
             /\ StagingAll(u) = StagingAll(s) \o new
             /\ Extends(u, s, new) /\ Consumes(u, s, new)
<1> DEFINE u == PatchDanglingToolCalls(s)
           new == PatchOutputs(s)
           head == s.userInput
           tail == s.staged
           c == Cardinality(Dangling(s))
<1>1. /\ new \in Seq(Message) /\ Len(new) = c /\ c \in Nat /\ DOMAIN new = 1 .. Len(new)
      /\ \A i \in 1 .. Len(new) : new[i].id = s.nextId + i - 1 /\ new[i].body = <<>>
  BY PatchOutputsFacts
<1>2. s.nextId \in Nat /\ head \in Seq(Message) /\ tail \in Seq(Message)
  BY DEF Session
<1>3. /\ u.committed = s.committed /\ u.turnIndex = s.turnIndex
      /\ u.state = s.state /\ u.pending = s.pending /\ u.userInput = s.userInput
      /\ u.staged = tail \o new /\ u.nextId = s.nextId + c /\ u.pinned = s.pinned
  BY DEF PatchDanglingToolCalls, Session
<1> HIDE DEF new, head, tail
<1>4. u \in Session
  <2>1. tail \o new \in Seq(Message) /\ s.nextId + c \in Nat
    BY <1>1, <1>2, ConcatProperties
  <2>2. QED
    BY <2>1 DEF PatchDanglingToolCalls, Session, new, tail
<1> HIDE DEF u, c
<1>5. StagingAll(u) = StagingAll(s) \o new
  <2>1. (head \o tail) \o new = head \o (tail \o new)
    BY SMTT(40), <1>1, <1>2, ConcatAssociative
  <2>2. QED
    BY <2>1, <1>3 DEF StagingAll, head, tail
<1>6. Extends(u, s, new)
  <2>1. \A k \in DOMAIN new : s.nextId <= new[k].id /\ new[k].id < u.nextId
    BY <1>1, <1>2, <1>3
  <2>2. \A k, l \in DOMAIN new : k < l => new[k].id < new[l].id
    BY SMTT(40), <1>1, <1>2
  <2>3. s.nextId <= u.nextId
    BY <1>1, <1>2, <1>3
  <2>4. QED
    BY <2>1, <2>2, <2>3, <1>3, <1>5 DEF Extends
<1>7. Consumes(u, s, new)
  BY <1>1, <1>3 DEF Consumes
<1>8. QED
  BY <1>3, <1>4, <1>5, <1>6, <1>7 DEF u, new

\* After the patch, every call of the turn in flight has an output.
LEMMA PatchAnswers ==
  ASSUME NEW s \in Session, UserHeadsTurn(s), StagingIsCurrent(s)
  PROVE  LET u == PatchDanglingToolCalls(s)
         IN  /\ StagingIsCurrent(u)
             /\ \A i \in DOMAIN StagingAll(u) : Answered(StagingAll(u), i)
<1> DEFINE u == PatchDanglingToolCalls(s)
           new == PatchOutputs(s)
           head == s.userInput
           tail == s.staged
           all == StagingAll(s)
           full == StagingAll(u)
           h == Len(head)
           o == Len(all)
<1>1. head \in Seq(Message) /\ tail \in Seq(Message) /\ all = head \o tail /\ all \in Seq(Message)
  <2>1. head \in Seq(Message) /\ tail \in Seq(Message)
    BY DEF Session
  <2>2. QED
    BY <2>1, TurnsFacts DEF StagingAll
<1>2. /\ new \in Seq(Message) /\ Len(new) \in Nat /\ DOMAIN new = 1 .. Len(new)
      /\ \A i \in 1 .. Len(new) : new[i].turn = s.turnIndex /\ new[i].kind = "output"
  BY PatchOutputsFacts
<1>3. \A k \in Dangling(s) : \E i \in 1 .. Len(new) : new[i].call = tail[k].call
  BY PatchOutputsFacts
<1>4. full = all \o new /\ u.turnIndex = s.turnIndex
  BY PatchFields
<1>5. \A i \in DOMAIN head : head[i].kind = "user"
  BY DEF UserHeadsTurn
<1>6. \A i \in DOMAIN all : all[i].turn = s.turnIndex /\ all[i].kind \notin Closing
  BY DEF StagingIsCurrent
<1>7. \A k \in DOMAIN tail : tail[k].kind = "call" =>
        \/ k \in Dangling(s)
        \/ \E j \in DOMAIN tail : tail[j].kind = "output" /\ tail[j].call = tail[k].call
  BY DEF Dangling
<1>8. "output" \notin Closing
  BY DEF Closing
<1> HIDE DEF new, head, tail, all
<1>9. /\ h \in Nat /\ DOMAIN head = 1 .. h /\ o \in Nat /\ DOMAIN all = 1 .. o
      /\ Len(tail) \in Nat /\ DOMAIN tail = 1 .. Len(tail) /\ o = h + Len(tail)
  BY <1>1, LenProperties, ConcatProperties
<1>10. \A i \in 1 .. o : all[i] = IF i <= h THEN head[i] ELSE tail[i - h]
  BY <1>1, <1>9, ConcatProperties
<1>11. /\ DOMAIN full = 1 .. o + Len(new)
       /\ \A i \in 1 .. o + Len(new) : full[i] = IF i <= o THEN all[i] ELSE new[i - o]
  <2>1. /\ Len(all \o new) = o + Len(new) /\ all \o new \in Seq(Message)
        /\ \A i \in 1 .. o + Len(new) : (all \o new)[i] = IF i <= o THEN all[i] ELSE new[i - o]
    BY <1>1, <1>2, ConcatProperties
  <2>2. DOMAIN (all \o new) = 1 .. o + Len(new)
    BY <2>1, LenProperties
  <2>3. QED
    BY <2>1, <2>2, <1>4
<1> HIDE DEF full, h, o
<1>12. ASSUME NEW i \in DOMAIN full
       PROVE  full[i].turn = s.turnIndex /\ full[i].kind \notin Closing
  <2>1. CASE i <= o
    BY <2>1, <1>6, <1>9, <1>11, <1>12
  <2>2. CASE ~ (i <= o)
    <3>1. i - o \in 1 .. Len(new) /\ full[i] = new[i - o]
      BY <2>2, <1>2, <1>9, <1>11, <1>12
    <3>2. QED
      BY <3>1, <1>2, <1>8
  <2>3. QED
    BY <2>1, <2>2
<1>13. ASSUME NEW i \in DOMAIN full, full[i].kind = "call"
       PROVE  \E j \in DOMAIN full : full[j].kind = "output" /\ full[j].call = full[i].call
  <2>1. i <= o
    <3>1. SUFFICES ASSUME ~ (i <= o) PROVE FALSE
      OBVIOUS
    <3>2. i - o \in 1 .. Len(new) /\ full[i] = new[i - o]
      BY <3>1, <1>2, <1>9, <1>11, <1>13
    <3>3. QED
      BY <3>2, <1>2, <1>13
  <2>2. i \in 1 .. o /\ full[i] = all[i]
    BY <2>1, <1>9, <1>11, <1>2, <1>13
  <2>3. ~ (i <= h)
    BY <2>2, <1>5, <1>9, <1>10, <1>13
  <2>4. i - h \in DOMAIN tail /\ full[i] = tail[i - h]
    BY <2>2, <2>3, <1>9, <1>10
  <2>5. CASE i - h \in Dangling(s)
    <3>1. PICK l \in 1 .. Len(new) : new[l].call = full[i].call
      BY <2>4, <2>5, <1>3
    <3>2. o + l \in DOMAIN full /\ full[o + l] = new[l]
      <4>1. o + l \in 1 .. o + Len(new) /\ ~ (o + l <= o) /\ (o + l) - o = l
        BY <1>2, <1>9
      <4>2. QED
        BY <4>1, <1>11
    <3>3. QED
      BY <3>1, <3>2, <1>2
  <2>6. CASE \E j \in DOMAIN tail : tail[j].kind = "output" /\ tail[j].call = tail[i - h].call
    <3>1. PICK j \in DOMAIN tail : tail[j].kind = "output" /\ tail[j].call = full[i].call
      BY <2>4, <2>6
    <3>2. h + j \in 1 .. o /\ ~ (h + j <= h) /\ (h + j) - h = j
      BY <1>9
    <3>3. h + j \in DOMAIN full /\ full[h + j] = tail[j]
      BY <3>2, <1>2, <1>9, <1>10, <1>11
    <3>4. QED
      BY <3>1, <3>3
  <2>7. QED
    BY <2>4, <2>5, <2>6, <1>7, <1>13
<1>14. QED
  BY <1>4, <1>12, <1>13 DEF StagingIsCurrent, Answered, full

\* interrupt_turn keeps a session sound.
LEMMA InterruptKeeps ==
  ASSUME NEW R, NEW s \in Session, NEW n \in Nat, SoundBy(R, s, n), NEW closing \in BOOLEAN
  PROVE  /\ SoundBy(R, InterruptTurn(s, closing), n)
         /\ TurnNumbersIncrease(s) => TurnNumbersIncrease(InterruptTurn(s, closing))
<1>1. CASE s.staged = <<>>
  BY <1>1, ClearStagingKeeps DEF InterruptTurn, RollbackTurn
<1>2. CASE s.staged # <<>>
  <2> DEFINE u == PatchDanglingToolCalls(s)
             kind == Notice(closing)
             t == Stage(u, kind, NoCall, <<>>)
             m == NewMessage(u, kind, NoCall, <<>>)
  <2>1. /\ u \in Session
        /\ u.committed = s.committed /\ u.turnIndex = s.turnIndex
        /\ Extends(u, s, PatchOutputs(s)) /\ Consumes(u, s, PatchOutputs(s))
    BY PatchFields
  <2>2. IdsInOrder(u) /\ InputsBy(R, u, n)
    <3>1. PatchOutputs(s) \in Seq(Message)
      BY PatchOutputsFacts
    <3>2. QED
      BY <2>1, <3>1, ExtendingKeepsIds, ExtendingKeepsInputs DEF SoundBy
  <2>3. StagingIsCurrent(u) /\ \A i \in DOMAIN StagingAll(u) : Answered(StagingAll(u), i)
    BY PatchAnswers DEF SoundBy
  <2> HIDE DEF u
  <2>4. kind \in Kind /\ kind \in Closing /\ <<>> \in Seq(Nat) /\ NoCall \in CallIds \cup {NoCall}
    BY EmptySeq DEF Kind, Closing, Notice
  <2>5. m \in Message /\ m.turn = u.turnIndex /\ m.kind = kind /\ m.body = <<>>
    BY <2>1, <2>4 DEF NewMessage, Message, Session
  <2> HIDE DEF kind
  <2>6. /\ t \in Session /\ <<m>> \in Seq(Message)
        /\ t.committed = u.committed /\ t.turnIndex = u.turnIndex
        /\ t.pending = u.pending
        /\ StagingAll(t) = StagingAll(u) \o <<m>>
        /\ Extends(t, u, <<m>>)
    BY <2>1, <2>4, StageFields
  <2> HIDE DEF m, t
  <2>7. Consumes(t, u, <<m>>)
    BY <2>5, <2>6 DEF Consumes
  <2>8. IdsInOrder(t) /\ InputsBy(R, t, n)
    BY <2>1, <2>2, <2>6, <2>7, ExtendingKeepsIds, ExtendingKeepsInputs
  <2> DEFINE o == Len(StagingAll(u))
             full == StagingAll(t)
  <2>9. /\ DOMAIN full = 1 .. o + 1 /\ Len(full) = o + 1 /\ o \in Nat
        /\ \A i \in 1 .. o : i \in DOMAIN StagingAll(u) /\ full[i] = StagingAll(u)[i]
        /\ full[o + 1] = m
    BY <2>1, <2>3, <2>5, <2>6, StageIsCurrent
  <2> HIDE DEF o, full
  <2>10. full # <<>> /\ \A i \in DOMAIN full : full[i].turn = t.turnIndex
    <3>1. ASSUME NEW i \in DOMAIN full PROVE full[i].turn = t.turnIndex
      <4>1. CASE i = o + 1
        BY <4>1, <2>5, <2>6, <2>9
      <4>2. CASE i # o + 1
        BY <4>2, <3>1, <2>3, <2>6, <2>9 DEF StagingIsCurrent
      <4>3. QED
        BY <4>1, <4>2
    <3>2. QED
      BY <3>1, <2>9
  <2>11. AnsweredIfClosed(full)
    <3>1. ASSUME NEW k \in DOMAIN full, full[k].kind \in Closing PROVE k = Len(full)
      BY <3>1, <2>3, <2>9 DEF StagingIsCurrent
    <3>2. ASSUME NEW i \in DOMAIN full PROVE Answered(full, i)
      <4>1. CASE i = o + 1
        BY <4>1, <2>4, <2>5, <2>9 DEF Answered, Closing
      <4>2. CASE i # o + 1
        <5>1. i \in 1 .. o
          BY <4>2, <3>2, <2>9
        <5>2. DOMAIN StagingAll(u) = 1 .. o
          <6>1. StagingAll(u) \in Seq(Message)
            BY <2>1, TurnsFacts
          <6>2. QED
            BY <6>1, LenProperties DEF o
        <5>3. QED
          BY <5>1, <5>2, <2>3, <2>9 DEF Answered
      <4>3. QED
        BY <4>1, <4>2
    <3>3. QED
      BY <3>1, <3>2 DEF AnsweredIfClosed
  <2>12. /\ TurnNumbersCoverPositions(t) /\ FrozenTurnsAnswered(t) /\ NoEmptyTurn(t)
         /\ TurnNumbersIncrease(s) => TurnNumbersIncrease(t)
    BY <2>1, <2>6, SameHistory DEF SoundBy
  <2>13. /\ SoundBy(R, PushTurn(t), n)
         /\ TurnNumbersIncrease(t) => TurnNumbersIncrease(PushTurn(t))
    BY <2>6, <2>8, <2>10, <2>11, <2>12, PushTurnKeeps DEF full
  <2>14. InterruptTurn(s, closing) = PushTurn(t)
    BY <1>2 DEF InterruptTurn, t, u, kind
  <2>15. QED
    BY <2>12, <2>13, <2>14
<1>3. QED
  BY <1>1, <1>2

\* The inputs of the abandoned turn go back to the front of the queue: still in
\* the order of arrival, and nowhere else any more.
LEMMA RollbackKeeps ==
  ASSUME NEW R, NEW s \in Session, NEW n \in Nat, SoundBy(R, s, n), NEW requeue \in BOOLEAN
  PROVE  /\ SoundBy(R, RollbackTurn(s, requeue), n)
         /\ TurnNumbersIncrease(s) => TurnNumbersIncrease(RollbackTurn(s, requeue))
<1> DEFINE c == ClearStaging(s)
           b == s.userInput[1].body
           q == s.pending
           r == [c EXCEPT !.pending = b \o q]
<1>1. /\ SoundBy(R, c, n)
      /\ TurnNumbersIncrease(s) => TurnNumbersIncrease(c)
  BY ClearStagingKeeps
<1>2. CASE ~ (requeue /\ s.userInput # <<>> /\ s.userInput[1].kind = "user")
  BY <1>1, <1>2 DEF RollbackTurn
<1>3. CASE requeue /\ s.userInput # <<>> /\ s.userInput[1].kind = "user"
  <2>1. /\ c \in Session
        /\ c.committed = s.committed /\ c.turnIndex = s.turnIndex
        /\ c.state = "Idle" /\ c.userInput = <<>> /\ StagingAll(c) = <<>>
        /\ c.pinned = s.pinned /\ c.nextId = s.nextId
    BY ClearStagingFields
  <2>2. /\ s.userInput \in Seq(Message) /\ s.staged \in Seq(Message) /\ q \in Seq(Nat)
    BY DEF Session
  <2>3. 1 \in DOMAIN s.userInput /\ 1 \in DOMAIN StagingAll(s)
        /\ StagingAll(s)[1] = s.userInput[1] /\ s.userInput[1] \in Message
    <3>1. Len(s.userInput) \in Nat \ {0} /\ DOMAIN s.userInput = 1 .. Len(s.userInput)
      BY <1>3, <2>2, EmptySeq, LenProperties
    <3> DEFINE head == s.userInput
               tail == s.staged
    <3>2. head \in Seq(Message) /\ tail \in Seq(Message) /\ Len(head) \in Nat \ {0}
          /\ Len(tail) \in Nat
      BY <2>2, <3>1
    <3>3. StagingAll(s) = head \o tail
      BY DEF StagingAll
    <3> HIDE DEF head, tail
    <3>4. 1 \in 1 .. Len(head) + Len(tail) /\ Len(head \o tail) = Len(head) + Len(tail)
          /\ head \o tail \in Seq(Message)
      BY <3>2, ConcatProperties
    <3>5. (head \o tail)[1] = head[1] /\ 1 \in DOMAIN (head \o tail)
      BY <3>2, <3>4, ConcatProperties, LenProperties
    <3>6. 1 \in DOMAIN s.userInput
      BY <3>1
    <3>7. QED
      BY <3>3, <3>5, <3>6, <2>2, SeqElement DEF head
  <2>4. b \in Seq(Nat) /\ b \o q \in Seq(Nat)
    BY <2>2, <2>3, ConcatProperties DEF Message
  <2>5. /\ r \in Session /\ r.committed = s.committed /\ r.turnIndex = s.turnIndex
        /\ r.state = "Idle" /\ r.pending = b \o q
        /\ r.userInput = <<>> /\ r.staged = c.staged
        /\ r.pinned = s.pinned /\ r.nextId = s.nextId
    BY <2>1, <2>4 DEF Session
  <2>6. StagingAll(r) = <<>>
    BY <2>1, <2>5 DEF StagingAll
  <2> HIDE DEF c, r
  <2> DEFINE last == Len(s.committed) + 1
  <2>7. /\ Len(s.committed) \in Nat /\ DOMAIN Turns(s) = 1 .. last
        /\ Turns(s)[last] = StagingAll(s)
        /\ \A p \in 1 .. Len(s.committed) : Turns(s)[p] = s.committed[p]
    <3>1. Len(s.committed) \in Nat /\ DOMAIN Turns(s) = 1 .. last
      BY TurnsFacts
    <3>2. Turns(s)[last] = StagingAll(s) /\ \A p \in 1 .. Len(s.committed) : Turns(s)[p] = s.committed[p]
      BY TurnsFacts
    <3>3. QED
      BY <3>1, <3>2
  <2>8. /\ DOMAIN Turns(r) = 1 .. last /\ Turns(r)[last] = <<>>
        /\ \A p \in 1 .. Len(s.committed) : Turns(r)[p] = s.committed[p]
    BY <2>5, <2>6, TurnsFacts
  <2> HIDE DEF last
  <2>9. Within(Turns(r), Turns(s))
    <3>1. \A i \in DOMAIN StagingAll(r) :
             i \in DOMAIN StagingAll(s) /\ StagingAll(r)[i] = StagingAll(s)[i]
      BY <2>6
    <3>2. QED
      BY <3>1, <2>5, CutWithin
  <2>10. IdsInOrder(r)
    BY <2>5, <2>9, DroppingKeepsIds DEF SoundBy
  <2>11. InputsBy(R, s, n)
    BY DEF SoundBy
  <2>12. last \in DOMAIN Turns(s) /\ 1 \in DOMAIN Turns(s)[last] /\ Turns(s)[last][1].body = b
    BY <2>3, <2>7 DEF last
  <2>13. Chain(R, b) /\ Precede(R, b, q) /\ AllBelow(b, <<n + 1>>)
    BY <2>11, <2>12 DEF InputsBy, OrderedBy
  <2>14. Chain(R, q) /\ AllBelow(q, <<n + 1>>)
    BY <2>11 DEF InputsBy
  <2> HIDE DEF b, q
  <2> DEFINE bq == b \o q
  <2>15. /\ Len(b) \in Nat /\ Len(q) \in Nat
         /\ DOMAIN b = 1 .. Len(b) /\ DOMAIN q = 1 .. Len(q) /\ DOMAIN bq = 1 .. Len(b) + Len(q)
         /\ \A i \in 1 .. Len(b) + Len(q) : bq[i] = IF i <= Len(b) THEN b[i] ELSE q[i - Len(b)]
    <3>1. Len(b) \in Nat /\ Len(q) \in Nat /\ DOMAIN b = 1 .. Len(b) /\ DOMAIN q = 1 .. Len(q)
      BY <2>2, <2>4, LenProperties
    <3>2. /\ Len(bq) = Len(b) + Len(q) /\ bq \in Seq(Nat)
          /\ \A i \in 1 .. Len(b) + Len(q) : bq[i] = IF i <= Len(b) THEN b[i] ELSE q[i - Len(b)]
      BY <2>2, <2>4, ConcatProperties
    <3>3. DOMAIN bq = 1 .. Len(b) + Len(q)
      BY <3>2, LenProperties
    <3>4. QED
      BY <3>1, <3>2, <3>3
  <2> HIDE DEF bq
  \* An entry of the new queue comes from the turn or from the old queue.
  <2>16. ASSUME NEW i \in DOMAIN bq
         PROVE  \/ i \in DOMAIN b /\ bq[i] = b[i]
                \/ i > Len(b) /\ i - Len(b) \in DOMAIN q /\ bq[i] = q[i - Len(b)]
    BY <2>15, <2>16
  <2>17. Chain(R, bq)
    <3>1. SUFFICES ASSUME NEW i \in DOMAIN bq, NEW j \in DOMAIN bq, i < j
                   PROVE  <<bq[i], bq[j]>> \in R
      BY DEF Chain
    <3>2. CASE i \in DOMAIN b /\ bq[i] = b[i] /\ j \in DOMAIN b /\ bq[j] = b[j]
      BY <3>1, <3>2, <2>13 DEF Chain
    <3>3. CASE i \in DOMAIN b /\ bq[i] = b[i] /\ j - Len(b) \in DOMAIN q /\ bq[j] = q[j - Len(b)]
      BY <3>3, <2>13 DEF Precede
    <3>4. CASE i > Len(b) /\ i - Len(b) \in DOMAIN q /\ bq[i] = q[i - Len(b)]
      <4>1. ~ (j \in DOMAIN b) /\ i - Len(b) < j - Len(b)
        BY <3>1, <3>4, <2>15
      <4>2. j - Len(b) \in DOMAIN q /\ bq[j] = q[j - Len(b)]
        BY <4>1, <2>16
      <4>3. QED
        BY <4>1, <4>2, <3>4, <2>14 DEF Chain
    <3>5. QED
      BY <3>2, <3>3, <3>4, <2>16
  <2>18. AllBelow(bq, <<n + 1>>)
    <3>1. ASSUME NEW i \in DOMAIN bq PROVE bq[i] < n + 1
      BY <3>1, <2>13, <2>14, <2>16 DEF AllBelow
    <3>2. QED
      BY <3>1 DEF AllBelow
  <2>19. ASSUME NEW p \in DOMAIN Turns(r), NEW i \in DOMAIN Turns(r)[p]
         PROVE  /\ Precede(R, Turns(r)[p][i].body, bq)
                /\ AllBelow(Turns(r)[p][i].body, <<n + 1>>)
    <3>1. p \in 1 .. Len(s.committed)
      BY <2>7, <2>8, <2>19 DEF last
    <3>2. p \in DOMAIN Turns(s) /\ i \in DOMAIN Turns(s)[p] /\ Turns(r)[p][i] = Turns(s)[p][i]
          /\ p < last
      BY <3>1, <2>7, <2>8, <2>19 DEF last
    <3>3. Precedes(p, i, last, 1)
      BY <3>2 DEF Precedes
    <3>4. Precede(R, Turns(s)[p][i].body, b)
      BY <3>2, <3>3, <2>11, <2>12 DEF InputsBy, OrderedBy
    <3>5. Precede(R, Turns(s)[p][i].body, q) /\ AllBelow(Turns(s)[p][i].body, <<n + 1>>)
      BY <3>2, <2>11 DEF InputsBy, q
    <3>6. Precede(R, Turns(s)[p][i].body, bq)
      BY <3>4, <3>5, <2>16 DEF Precede
    <3>7. QED
      BY <3>2, <3>5, <3>6
  <2>20. OrderedBy(R, Turns(r))
    <3> DEFINE z == [r EXCEPT !.pending = s.pending]
    <3>1. z.committed = r.committed /\ z.userInput = r.userInput /\ z.staged = r.staged
          /\ z.pending = s.pending
      BY <2>5 DEF Session
    <3>2. Turns(z) = Turns(r)
      BY <3>1 DEF Turns, StagingAll
    <3> HIDE DEF z
    <3>3. InputsBy(R, z, n)
      BY <3>1, <3>2, <2>9, <2>11, DroppingKeepsInputs
    <3>4. QED
      BY <3>2, <3>3 DEF InputsBy
  <2>21. InputsBy(R, r, n)
    BY <2>5, <2>17, <2>18, <2>19, <2>20 DEF InputsBy, bq
  <2>22. IdleIsClean(r) /\ StagingIsCurrent(r) /\ UserHeadsTurn(r)
    BY <2>5, <2>6 DEF IdleIsClean, StagingIsCurrent, UserHeadsTurn
  <2>23. RollbackTurn(s, requeue) = r
    <3>1. ClearStaging(s).pending = s.pending
      BY ClearStagingFields
    <3>2. QED
      BY <3>1, <1>3 DEF RollbackTurn, r, c, b, q
  <2>24. QED
    BY <2>5, <2>10, <2>21, <2>22, <2>23, SameHistory DEF SoundBy
<1>4. QED
  BY <1>2, <1>3

-----------------------------------------------------------------------------
(* Rewriting the committed history.                                        *)

\* What compaction leaves of the committed turns.
LEMMA CompactFields ==
  ASSUME NEW s \in Session, NEW count \in Nat, TurnNumbersCoverPositions(s),
         EvictCount(s, count) # 0
  PROVE  LET e == EvictCount(s, count)
             r == Compact(s, count)
             L == Len(s.committed)
         IN  /\ L \in Nat /\ e \in Nat \ {0} /\ e <= L
             /\ r \in Session
             /\ r.turnIndex = s.turnIndex /\ r.state = s.state /\ r.pending = s.pending
             /\ r.userInput = s.userInput /\ r.staged = s.staged
             /\ r.nextId = s.nextId + 1
             /\ DOMAIN r.pinned = {1} /\ r.pinned[1].id = s.nextId
             /\ Len(r.committed) = L - e /\ DOMAIN r.committed = 1 .. L - e
             /\ \A p \in 1 .. L - e :
                  /\ p + e \in DOMAIN s.committed
                  /\ DOMAIN r.committed[p] = DOMAIN s.committed[p + e]
                  /\ Len(r.committed[p]) = Len(s.committed[p + e])
                  /\ \A i \in DOMAIN r.committed[p] :
                       /\ r.committed[p][i].id = s.committed[p + e][i].id
                       /\ r.committed[p][i].kind = s.committed[p + e][i].kind
                       /\ r.committed[p][i].call = s.committed[p + e][i].call
                       /\ r.committed[p][i].body = s.committed[p + e][i].body
                       /\ r.committed[p][i].turn = s.committed[p + e][i].turn - e
<1> DEFINE e == EvictCount(s, count)
           r == Compact(s, count)
           L == Len(s.committed)
<1>1. /\ s.committed \in Seq(Seq(Message)) /\ L \in Nat /\ s.nextId \in Nat
      /\ DOMAIN s.committed = 1 .. L /\ <<>> \in Seq(Nat) /\ "summary" \in Kind
  BY EmptySeq, LenProperties DEF Session, Kind
<1>2. e \in Nat \ {0} /\ e <= L
  <2>1. s.committed # <<>> => L # 0
    BY <1>1, EmptySeq
  <2>2. QED
    BY <1>1, <2>1 DEF EvictCount
<1>3. /\ SummaryOf(s) \in Message /\ SummaryOf(s).id = s.nextId
  <2>1. SummaryOf(s) = [id |-> s.nextId, turn |-> 0, kind |-> "summary",
                        call |-> NoCall, body |-> <<>>]
    BY DEF SummaryOf, NewMessage
  <2>2. QED
    BY <1>1, <2>1 DEF Message
<1> DEFINE kept == [p \in 1 .. L - e |-> Renumber(s.committed[p + e], e)]
           pin == <<SummaryOf(s)>>
<1>4. r = [s EXCEPT !.committed = kept, !.pinned = pin, !.nextId = @ + 1]
  BY DEF Compact
<1> HIDE DEF e, r
<1>5. ASSUME NEW p \in 1 .. L - e
      PROVE  /\ p + e \in DOMAIN s.committed
             /\ kept[p] \in Seq(Message)
             /\ DOMAIN kept[p] = DOMAIN s.committed[p + e]
             /\ Len(kept[p]) = Len(s.committed[p + e])
             /\ \A i \in DOMAIN kept[p] :
                  /\ kept[p][i].id = s.committed[p + e][i].id
                  /\ kept[p][i].kind = s.committed[p + e][i].kind
                  /\ kept[p][i].call = s.committed[p + e][i].call
                  /\ kept[p][i].body = s.committed[p + e][i].body
                  /\ kept[p][i].turn = s.committed[p + e][i].turn - e
  <2> DEFINE old == s.committed[p + e]
  <2>1. p + e \in DOMAIN s.committed /\ p + e >= e + 1
    BY SMTT(40), <1>1, <1>2, <1>5
  <2>2. old \in Seq(Message)
    BY <1>1, <2>1, SeqElement
  <2>3. Len(old) \in Nat /\ DOMAIN old = 1 .. Len(old)
    BY <2>2, LenProperties
  <2>4. \A i \in DOMAIN old : old[i] \in Message /\ old[i].turn >= p + e - 1
    <3>1. \A i \in DOMAIN old : old[i] \in Message
      BY <2>2, SeqElement
    <3>2. \A i \in DOMAIN old : old[i].turn >= (p + e) - 1
      BY <2>1 DEF TurnNumbersCoverPositions
    <3>3. QED
      BY <3>1, <3>2, <1>2, <1>5
  <2> HIDE DEF old
  <2>5. kept[p] = [i \in DOMAIN old |-> [old[i] EXCEPT !.turn = @ - e]]
    BY <1>5 DEF Renumber, old
  <2>6. ASSUME NEW i \in DOMAIN old
        PROVE  /\ kept[p][i] \in Message
               /\ kept[p][i].id = old[i].id /\ kept[p][i].kind = old[i].kind
               /\ kept[p][i].call = old[i].call /\ kept[p][i].body = old[i].body
               /\ kept[p][i].turn = old[i].turn - e
    <3>1. old[i].turn - e \in Nat
      <4>1. old[i].turn \in Nat /\ old[i].turn >= p + e - 1
        BY <2>4, <2>6 DEF Message
      <4>2. QED
        BY <4>1, <1>2, <1>5
    <3>2. kept[p][i] = [old[i] EXCEPT !.turn = @ - e]
      BY <2>5, <2>6
    <3>3. QED
      BY <3>1, <3>2, <2>4 DEF Message
  <2>7. DOMAIN kept[p] = DOMAIN old
    BY <2>5
  <2>8. kept[p] \in Seq(Message) /\ Len(kept[p]) = Len(old)
    <3>1. kept[p] \in [1 .. Len(old) -> Message]
      BY <2>3, <2>5, <2>6
    <3>2. QED
      BY <3>1, <2>3, SeqDef
  <2>9. QED
    BY <2>1, <2>6, <2>7, <2>8 DEF old
<1>6. L - e \in Nat
  BY <1>1, <1>2
<1>7. kept \in Seq(Seq(Message)) /\ Len(kept) = L - e /\ DOMAIN kept = 1 .. L - e
  <2> DEFINE rest == L - e
  <2>1. rest \in Nat
    BY <1>6
  <2>2. DOMAIN kept = 1 .. rest /\ \A p \in 1 .. rest : kept[p] \in Seq(Message)
    BY <1>5
  <2>3. kept = [p \in 1 .. rest |-> kept[p]]
    OBVIOUS
  <2> HIDE DEF kept, rest
  <2>4. kept \in [1 .. rest -> Seq(Message)]
    BY <2>2, <2>3
  <2>5. kept \in Seq(Seq(Message)) /\ Len(kept) = rest
    BY <2>1, <2>4, SeqDef
  <2>6. QED
    BY <2>2, <2>5 DEF rest
<1>8. pin \in Seq(Message) /\ DOMAIN pin = {1} /\ pin[1].id = s.nextId
  BY <1>3
<1> HIDE DEF kept, pin
<1>9. r \in Session
  <2>1. s.nextId + 1 \in Nat
    BY <1>1
  <2>2. QED
    BY <2>1, <1>4, <1>7, <1>8 DEF Session
<1>10. /\ r.committed = kept /\ r.turnIndex = s.turnIndex /\ r.state = s.state
       /\ r.pending = s.pending /\ r.userInput = s.userInput /\ r.staged = s.staged
       /\ r.nextId = s.nextId + 1 /\ r.pinned = pin
  BY <1>4 DEF Session
<1>11. QED
  BY ZenonT(60), <1>1, <1>2, <1>5, <1>7, <1>8, <1>9, <1>10 DEF e, r

\* A compaction keeps a session sound.
LEMMA CompactKeeps ==
  ASSUME NEW R, NEW s \in Session, NEW n \in Nat, SoundBy(R, s, n), s.state = "Idle", NEW count \in Nat
  PROVE  /\ SoundBy(R, Compact(s, count), n)
         /\ TurnNumbersIncrease(s) => TurnNumbersIncrease(Compact(s, count))
<1> DEFINE e == EvictCount(s, count)
           r == Compact(s, count)
           L == Len(s.committed)
<1>1. CASE e = 0
  BY <1>1 DEF Compact
<1>2. CASE e # 0
  <2>1. TurnNumbersCoverPositions(s) /\ StagingAll(s) = <<>> /\ s \in Session
    BY DEF SoundBy, IdleIsClean
  <2>2. /\ L \in Nat /\ e \in Nat \ {0} /\ e <= L
        /\ r \in Session
        /\ r.turnIndex = s.turnIndex /\ r.state = s.state /\ r.pending = s.pending
        /\ r.userInput = s.userInput /\ r.staged = s.staged
        /\ r.nextId = s.nextId + 1
        /\ DOMAIN r.pinned = {1} /\ r.pinned[1].id = s.nextId
        /\ Len(r.committed) = L - e /\ DOMAIN r.committed = 1 .. L - e
    BY <1>2, <2>1, CompactFields
  <2>25. \A p \in 1 .. L - e :
            /\ p + e \in DOMAIN s.committed
            /\ DOMAIN r.committed[p] = DOMAIN s.committed[p + e]
            /\ Len(r.committed[p]) = Len(s.committed[p + e])
            /\ \A i \in DOMAIN r.committed[p] :
                 /\ r.committed[p][i].id = s.committed[p + e][i].id
                 /\ r.committed[p][i].kind = s.committed[p + e][i].kind
                 /\ r.committed[p][i].call = s.committed[p + e][i].call
                 /\ r.committed[p][i].body = s.committed[p + e][i].body
                 /\ r.committed[p][i].turn = s.committed[p + e][i].turn - e
    BY <1>2, <2>1, CompactFields
  <2> HIDE DEF e, r, L
  <2>3. ASSUME NEW p \in 1 .. L - e
        PROVE  /\ p + e \in DOMAIN s.committed
               /\ DOMAIN r.committed[p] = DOMAIN s.committed[p + e]
               /\ Len(r.committed[p]) = Len(s.committed[p + e])
    BY <2>25, <2>3
  <2>4. ASSUME NEW p \in 1 .. L - e, NEW i \in DOMAIN r.committed[p]
        PROVE  /\ r.committed[p][i].id = s.committed[p + e][i].id
               /\ r.committed[p][i].kind = s.committed[p + e][i].kind
               /\ r.committed[p][i].call = s.committed[p + e][i].call
               /\ r.committed[p][i].body = s.committed[p + e][i].body
               /\ r.committed[p][i].turn = s.committed[p + e][i].turn - e
    BY <2>25, <2>4
  <2>5. StagingAll(r) = <<>>
    BY <2>1, <2>2 DEF StagingAll
  <2>6. /\ DOMAIN Turns(s) = 1 .. L + 1
        /\ \A p \in 1 .. L : Turns(s)[p] = s.committed[p]
        /\ DOMAIN s.committed = 1 .. L
    <3>1. DOMAIN Turns(s) = 1 .. Len(s.committed) + 1 /\ DOMAIN s.committed = 1 .. Len(s.committed)
      BY TurnsFacts
    <3>2. \A p \in 1 .. Len(s.committed) : Turns(s)[p] = s.committed[p]
      BY TurnsFacts
    <3>3. QED
      BY <3>1, <3>2 DEF L
  <2>7. /\ DOMAIN Turns(r) = 1 .. (L - e) + 1 /\ Turns(r)[(L - e) + 1] = <<>>
        /\ \A p \in 1 .. L - e : Turns(r)[p] = r.committed[p]
    <3>1. DOMAIN Turns(r) = 1 .. Len(r.committed) + 1
      BY <2>2, TurnsFacts
    <3>2. Turns(r)[Len(r.committed) + 1] = StagingAll(r)
      BY <2>2, TurnsFacts
    <3>3. \A p \in 1 .. Len(r.committed) : Turns(r)[p] = r.committed[p]
      BY <2>2, TurnsFacts
    <3>4. QED
      BY <3>1, <3>2, <3>3, <2>2, <2>5
  \* A message of the new history is the one e turns further on in the old one.
  <2>8. ASSUME NEW p \in DOMAIN Turns(r), NEW i \in DOMAIN Turns(r)[p]
        PROVE  /\ p \in 1 .. L - e /\ p + e \in DOMAIN Turns(s)
               /\ i \in DOMAIN Turns(s)[p + e]
               /\ Turns(r)[p][i].id = Turns(s)[p + e][i].id
               /\ Turns(r)[p][i].body = Turns(s)[p + e][i].body
    <3>1. p # (L - e) + 1
      BY <2>7, <2>8
    <3>2. p \in 1 .. L - e
      BY <3>1, <2>2, <2>7
    <3>3. Turns(r)[p] = r.committed[p] /\ i \in DOMAIN r.committed[p]
      BY <3>2, <2>7, <2>8
    <3>4. /\ p + e \in DOMAIN s.committed /\ i \in DOMAIN s.committed[p + e]
          /\ r.committed[p][i].id = s.committed[p + e][i].id
          /\ r.committed[p][i].body = s.committed[p + e][i].body
      BY <3>2, <3>3, <2>3, <2>4
    <3>5. p + e \in DOMAIN Turns(s) /\ Turns(s)[p + e] = s.committed[p + e]
      BY <3>4, <2>2, <2>6
    <3>6. QED
      BY <3>2, <3>3, <3>4, <3>5
  <2>9. Within(Turns(r), Turns(s))
    <3>1. ASSUME NEW p \in DOMAIN Turns(r), NEW q \in DOMAIN Turns(r),
                 NEW i \in DOMAIN Turns(r)[p], NEW j \in DOMAIN Turns(r)[q],
                 Precedes(p, i, q, j)
          PROVE  Precedes(p + e, i, q + e, j)
      <4>1. p \in 1 .. L - e /\ q \in 1 .. L - e
        BY <3>1, <2>8
      <4>2. QED
        BY <4>1, <3>1, <2>2 DEF Precedes
    <3>2. QED
      BY <3>1, <2>8 DEF Within
  <2>10. IdsInOrder(r)
    <3>1. IdsInOrder(s) /\ s.nextId \in Nat
      BY DEF SoundBy, Session
    <3>2. OrderedIds(Turns(r))
      BY <2>9, <3>1 DEF IdsInOrder, OrderedIds, Within
    <3>3. ASSUME NEW p \in DOMAIN Turns(r), NEW i \in DOMAIN Turns(r)[p]
          PROVE  Turns(r)[p][i].id < r.nextId
                 /\ \A k \in DOMAIN r.pinned : Turns(r)[p][i].id # r.pinned[k].id
      <4>1. p + e \in DOMAIN Turns(s) /\ i \in DOMAIN Turns(s)[p + e]
            /\ Turns(r)[p][i].id = Turns(s)[p + e][i].id
        BY <3>3, <2>8
      <4>2. Turns(s)[p + e][i].id \in Nat
        <5>1. Turns(s)[p + e] \in Seq(Message)
          BY <4>1, TurnsFacts
        <5>2. Turns(s)[p + e][i] \in Message
          BY <4>1, <5>1, SeqElement
        <5>3. QED
          BY <5>2 DEF Message
      <4>3. Turns(s)[p + e][i].id < s.nextId
        BY <4>1, <3>1 DEF IdsInOrder
      <4>4. QED
        BY <4>1, <4>2, <4>3, <3>1, <2>2
    <3>4. QED
      BY <3>1, <3>2, <3>3, <2>2 DEF IdsInOrder
  <2>11. InputsBy(R, r, n)
    BY <2>2, <2>9, DroppingKeepsInputs DEF SoundBy
  <2>12. TurnNumbersCoverPositions(r)
    <3>1. Len(r.committed) <= r.turnIndex
      BY SMTT(40), <2>1, <2>2 DEF TurnNumbersCoverPositions, L, Session
    <3>2. ASSUME NEW p \in DOMAIN r.committed, NEW i \in DOMAIN r.committed[p]
          PROVE  r.committed[p][i].turn >= p - 1
      <4>1. p \in 1 .. L - e /\ p + e \in DOMAIN s.committed /\ i \in DOMAIN s.committed[p + e]
        BY <3>2, <2>2, <2>3
      <4>2. s.committed[p + e][i].turn >= (p + e) - 1
        BY <4>1, <2>1 DEF TurnNumbersCoverPositions
      <4>3. s.committed[p + e][i].turn \in Nat
        <5>1. s.committed[p + e] \in Seq(Message)
          BY <4>1, SeqElement DEF Session
        <5>2. s.committed[p + e][i] \in Message
          BY <4>1, <5>1, SeqElement
        <5>3. QED
          BY <5>2 DEF Message
      <4> DEFINE a == s.committed[p + e][i].turn
                 b == r.committed[p][i].turn
      <4>4. b = a - e
        BY <4>1, <3>2, <2>4
      <4> HIDE DEF a, b
      <4>5. a >= (p + e) - 1 /\ a \in Nat /\ p \in Nat /\ e \in Nat
        BY <4>1, <4>2, <4>3, <2>2 DEF a
      <4>6. b >= p - 1
        BY <4>4, <4>5
      <4>7. QED
        BY <4>6 DEF b
    <3>3. QED
      BY <3>1, <3>2 DEF TurnNumbersCoverPositions
  <2>13. NoEmptyTurn(r)
    <3>1. ASSUME NEW p \in DOMAIN r.committed, r.committed[p] = <<>> PROVE FALSE
      <4>1. p \in 1 .. L - e
        BY <3>1, <2>2
      <4>2. DOMAIN s.committed[p + e] = {} /\ p + e \in DOMAIN s.committed
        BY <4>1, <3>1, <2>3
      <4>3. s.committed[p + e] \in Seq(Message)
        BY <4>2, SeqElement DEF Session
      <4>4. s.committed[p + e] = <<>>
        BY <4>2, <4>3, EmptyDomain
      <4>5. QED
        BY <4>2, <4>4 DEF SoundBy, NoEmptyTurn
    <3>2. QED
      BY <3>1 DEF NoEmptyTurn
  <2>14. FrozenTurnsAnswered(r)
    <3>1. SUFFICES ASSUME NEW p \in DOMAIN r.committed, NEW k \in DOMAIN r.committed[p],
                          r.committed[p][k].kind \in Closing
                   PROVE  /\ k = Len(r.committed[p])
                          /\ \A i \in DOMAIN r.committed[p] : Answered(r.committed[p], i)
      BY DEF FrozenTurnsAnswered, AnsweredIfClosed
    <3>2. p \in 1 .. L - e
      BY <2>2
    <3>3. AnsweredIfClosed(s.committed[p + e])
      BY <3>2, <2>3 DEF SoundBy, FrozenTurnsAnswered
    <3>4. k \in DOMAIN s.committed[p + e] /\ s.committed[p + e][k].kind \in Closing
      BY <3>1, <3>2, <2>3, <2>4
    <3>5. k = Len(s.committed[p + e])
          /\ \A i \in DOMAIN s.committed[p + e] : Answered(s.committed[p + e], i)
      BY <3>3, <3>4 DEF AnsweredIfClosed
    <3>6. ASSUME NEW i \in DOMAIN r.committed[p] PROVE Answered(r.committed[p], i)
      BY SMTT(40), <3>2, <3>5, <3>6, <2>3, <2>4 DEF Answered
    <3>7. QED
      BY <3>2, <3>5, <3>6, <2>3
  <2>15. ASSUME TurnNumbersIncrease(s) PROVE TurnNumbersIncrease(r)
    <3>1. ASSUME NEW p \in DOMAIN r.committed, NEW i \in DOMAIN r.committed[p]
          PROVE  /\ p \in 1 .. L - e /\ p + e \in DOMAIN s.committed
                 /\ i \in DOMAIN s.committed[p + e]
                 /\ s.committed[p + e][i].turn \in Nat
                 /\ r.committed[p][i].turn = s.committed[p + e][i].turn - e
      <4>1. p \in 1 .. L - e
        BY <2>2
      <4>2. p + e \in DOMAIN s.committed /\ i \in DOMAIN s.committed[p + e]
        BY <4>1, <3>1, <2>3
      <4>3. s.committed[p + e] \in Seq(Message)
        BY <4>2, SeqElement DEF Session
      <4>4. s.committed[p + e][i] \in Message
        BY <4>2, <4>3, SeqElement
      <4>5. QED
        BY <4>1, <4>2, <4>4, <3>1, <2>4 DEF Message
    <3>2. ASSUME NEW p \in DOMAIN r.committed, NEW q \in DOMAIN r.committed,
                 NEW i \in DOMAIN r.committed[p], NEW j \in DOMAIN r.committed[q]
          PROVE  /\ p < q => r.committed[p][i].turn < r.committed[q][j].turn
                 /\ p = q => r.committed[p][i].turn = r.committed[q][j].turn
      <4>1. /\ p < q => s.committed[p + e][i].turn < s.committed[q + e][j].turn
            /\ p = q => s.committed[p + e][i].turn = s.committed[q + e][j].turn
        <5>1. p < q => p + e < q + e
          BY <3>1, <3>2, <2>2
        <5>2. QED
          BY <5>1, <3>1, <3>2, <2>15 DEF TurnNumbersIncrease
      <4>2. /\ s.committed[p + e][i].turn \in Nat /\ s.committed[q + e][j].turn \in Nat
            /\ r.committed[p][i].turn = s.committed[p + e][i].turn - e
            /\ r.committed[q][j].turn = s.committed[q + e][j].turn - e
        BY <3>1, <3>2
      <4> DEFINE a == s.committed[p + e][i].turn
                 b == s.committed[q + e][j].turn
      <4>3. /\ a \in Nat /\ b \in Nat
            /\ p < q => a < b
            /\ p = q => a = b
            /\ r.committed[p][i].turn = a - e /\ r.committed[q][j].turn = b - e
        BY <4>1, <4>2
      <4> HIDE DEF a, b
      <4>4. QED
        BY <4>3, <2>2
    <3>3. ASSUME NEW p \in DOMAIN r.committed, NEW i \in DOMAIN r.committed[p]
          PROVE  r.committed[p][i].turn < r.turnIndex
      <4>1. s.committed[p + e][i].turn < s.turnIndex /\ s.turnIndex \in Nat
        BY <3>1, <3>3, <2>15 DEF TurnNumbersIncrease, Session
      <4>2. QED
        BY SMTT(40), <4>1, <3>1, <3>3, <2>2
    <3>4. QED
      BY <3>2, <3>3 DEF TurnNumbersIncrease
  <2>16. IdleIsClean(r) /\ StagingIsCurrent(r) /\ UserHeadsTurn(r)
    BY <2>2, <2>5 DEF SoundBy, IdleIsClean, StagingIsCurrent, UserHeadsTurn
  <2>17. QED
    BY <2>2, <2>10, <2>11, <2>12, <2>13, <2>14, <2>15, <2>16 DEF SoundBy, r
<1>3. QED
  BY <1>1, <1>2

\* Stripping a turn keeps, in order, all its messages but the reasoning, and
\* never all of them.
LEMMA StripTurnFacts ==
  ASSUME NEW turn \in Seq(Message)
  PROVE  /\ StripTurn(turn) \in Seq(Message)
         /\ turn # <<>> => StripTurn(turn) # <<>>
         /\ \E g \in [DOMAIN StripTurn(turn) -> DOMAIN turn] :
              /\ \A i \in DOMAIN StripTurn(turn) : StripTurn(turn)[i] = turn[g[i]]
              /\ \A i, j \in DOMAIN StripTurn(turn) : i < j => g[i] < g[j]
              /\ \A k \in Kept(turn) : \E i \in DOMAIN StripTurn(turn) : g[i] = k
<1>1. CASE Kept(turn) = {}
  <2> DEFINE g == [i \in DOMAIN turn |-> i]
  <2>1. StripTurn(turn) = turn
    BY <1>1 DEF StripTurn
  <2>2. g \in [DOMAIN StripTurn(turn) -> DOMAIN turn]
    BY <2>1
  <2>3. QED
    BY <1>1, <2>1, <2>2
<1>2. CASE Kept(turn) # {}
  <2> DEFINE D == Kept(turn)
             w == Retain(turn, D)
             g == Listing(D)
  <2>1. D \in SUBSET (DOMAIN turn) /\ StripTurn(turn) = w
    BY <1>2 DEF StripTurn, Kept
  <2>2. w \in Seq(Message) /\ DOMAIN w = DOMAIN g
    BY <2>1, RetainFacts
  <2>3. \A i \in DOMAIN w : g[i] \in D /\ w[i] = turn[g[i]]
    BY <2>1, RetainFacts
  <2>4. \A i, j \in DOMAIN w : i < j => g[i] < g[j]
    BY <2>1, RetainFacts
  <2>5. \A d \in D : \E i \in DOMAIN w : g[i] = d
    BY <2>1, RetainFacts
  <2>6. g \in [DOMAIN w -> DOMAIN turn]
    <3>1. Len(turn) \in Nat /\ DOMAIN turn = 1 .. Len(turn)
      BY LenProperties
    <3>2. g \in [1 .. Cardinality(D) -> D]
      BY <2>1, <3>1, ListingFacts
    <3>3. QED
      BY <2>1, <2>2, <3>2
  <2>7. w # <<>>
    BY <1>2, <2>5
  <2> HIDE DEF w, g, D
  <2>8. QED
    BY <2>1, <2>2, <2>3, <2>4, <2>5, <2>6, <2>7 DEF D
<1>3. QED
  BY <1>1, <1>2

\* A legal turn stays legal: the notice is still its last message, and a call
\* and its output are both kept.
LEMMA StripTurnAnswers ==
  ASSUME NEW turn \in Seq(Message), AnsweredIfClosed(turn)
  PROVE  AnsweredIfClosed(StripTurn(turn))
<1> DEFINE w == StripTurn(turn)
<1>1. w \in Seq(Message)
  BY StripTurnFacts
<1>2. PICK g \in [DOMAIN w -> DOMAIN turn] :
        /\ \A i \in DOMAIN w : w[i] = turn[g[i]]
        /\ \A i, j \in DOMAIN w : i < j => g[i] < g[j]
        /\ \A k \in Kept(turn) : \E i \in DOMAIN w : g[i] = k
  BY StripTurnFacts
<1> HIDE DEF w
<1>3. /\ Len(w) \in Nat /\ DOMAIN w = 1 .. Len(w)
      /\ Len(turn) \in Nat /\ DOMAIN turn = 1 .. Len(turn)
  BY <1>1, LenProperties
<1>4. SUFFICES ASSUME NEW k \in DOMAIN w, w[k].kind \in Closing
               PROVE  k = Len(w) /\ \A i \in DOMAIN w : Answered(w, i)
  BY DEF AnsweredIfClosed, w
<1>5. /\ g[k] \in DOMAIN turn /\ g[k] = Len(turn)
      /\ \A i \in DOMAIN turn : Answered(turn, i)
  BY <1>2, <1>4 DEF AnsweredIfClosed
<1>6. k = Len(w)
  <2>1. SUFFICES ASSUME k # Len(w) PROVE FALSE
    OBVIOUS
  <2>2. Len(w) \in DOMAIN w /\ k < Len(w)
    BY <2>1, <1>3
  <2>3. g[k] < g[Len(w)] /\ g[Len(w)] \in DOMAIN turn
    BY <2>2, <1>2
  <2>4. QED
    BY <2>3, <1>3, <1>5
<1>7. ASSUME NEW i \in DOMAIN w, w[i].kind = "call"
      PROVE  \E j \in DOMAIN w : w[j].kind = "output" /\ w[j].call = w[i].call
  <2>1. g[i] \in DOMAIN turn /\ w[i] = turn[g[i]]
    BY <1>2
  <2>2. PICK l \in DOMAIN turn : turn[l].kind = "output" /\ turn[l].call = w[i].call
    BY <2>1, <1>5, <1>7 DEF Answered
  <2>3. l \in Kept(turn)
    BY <2>2 DEF Kept
  <2>4. PICK j \in DOMAIN w : g[j] = l
    BY <2>3, <1>2
  <2>5. QED
    BY <2>2, <2>4, <1>2
<1>8. QED
  BY <1>6, <1>7 DEF Answered

\* A strip, field by field.
LEMMA StripFields ==
  ASSUME NEW s \in Session, NEW keep \in Nat
  PROVE  LET r == StripStaleContent(s, keep)
         IN  /\ r \in Session
             /\ r.turnIndex = s.turnIndex /\ r.state = s.state /\ r.pending = s.pending
             /\ r.userInput = s.userInput /\ r.staged = s.staged
             /\ r.nextId = s.nextId /\ r.pinned = s.pinned
             /\ Len(r.committed) = Len(s.committed)
             /\ DOMAIN r.committed = DOMAIN s.committed
             /\ \A p \in DOMAIN s.committed :
                  r.committed[p] = s.committed[p] \/ r.committed[p] = StripTurn(s.committed[p])
<1> DEFINE r == StripStaleContent(s, keep)
           c == s.committed
           L == Len(c)
           new == [p \in DOMAIN c |-> IF p + keep <= L THEN StripTurn(c[p]) ELSE c[p]]
<1>1. c \in Seq(Seq(Message)) /\ L \in Nat /\ DOMAIN c = 1 .. L
  <2>1. c \in Seq(Seq(Message))
    BY DEF Session
  <2>2. QED
    BY <2>1, LenProperties
<1>2. ASSUME NEW p \in 1 .. L PROVE new[p] \in Seq(Message)
  <2>1. c[p] \in Seq(Message)
    BY <1>1, <1>2, SeqElement
  <2>2. StripTurn(c[p]) \in Seq(Message)
    BY <2>1, StripTurnFacts
  <2>3. QED
    BY <2>1, <2>2, <1>1, <1>2
<1>3. r = [s EXCEPT !.committed = new]
  BY DEF StripStaleContent
<1>4. DOMAIN new = 1 .. L
  BY <1>1
<1>5. \A p \in 1 .. L : new[p] = c[p] \/ new[p] = StripTurn(c[p])
  BY <1>1
<1>6. new = [p \in 1 .. L |-> new[p]]
  BY <1>1
<1> HIDE DEF new, L
<1>7. new \in [1 .. L -> Seq(Message)]
  BY <1>2, <1>6
<1>8. new \in Seq(Seq(Message)) /\ Len(new) = L
  BY <1>1, <1>7, SeqDef
<1>9. r \in Session
  BY <1>3, <1>8 DEF Session
<1>10. /\ r.committed = new
       /\ r.turnIndex = s.turnIndex /\ r.state = s.state /\ r.pending = s.pending
       /\ r.userInput = s.userInput /\ r.staged = s.staged
       /\ r.nextId = s.nextId /\ r.pinned = s.pinned
  BY <1>3 DEF Session
<1>11. QED
  BY <1>1, <1>4, <1>5, <1>8, <1>9, <1>10 DEF L

\* A strip keeps a session sound.
LEMMA StripKeeps ==
  ASSUME NEW R, NEW s \in Session, NEW n \in Nat, SoundBy(R, s, n), NEW keep \in Nat
  PROVE  /\ SoundBy(R, StripStaleContent(s, keep), n)
         /\ TurnNumbersIncrease(s) => TurnNumbersIncrease(StripStaleContent(s, keep))
<1> DEFINE r == StripStaleContent(s, keep)
           c == s.committed
           L == Len(c)
<1>1. /\ r \in Session
      /\ r.turnIndex = s.turnIndex /\ r.state = s.state /\ r.pending = s.pending
      /\ r.userInput = s.userInput /\ r.staged = s.staged
      /\ r.nextId = s.nextId /\ r.pinned = s.pinned
      /\ Len(r.committed) = L /\ DOMAIN r.committed = DOMAIN c
  BY StripFields
<1>2. \A p \in DOMAIN c : r.committed[p] = c[p] \/ r.committed[p] = StripTurn(c[p])
  BY StripFields
<1>3. L \in Nat /\ DOMAIN c = 1 .. L /\ \A p \in DOMAIN c : c[p] \in Seq(Message)
  <2>1. c \in Seq(Seq(Message))
    BY DEF Session
  <2>2. QED
    BY <2>1, LenProperties, SeqElement
<1> HIDE DEF r
<1>4. StagingAll(r) = StagingAll(s)
  BY <1>1 DEF StagingAll
\* Where the messages of a turn of r come from.
<1>5. ASSUME NEW p \in DOMAIN c
      PROVE  \E g \in [DOMAIN r.committed[p] -> DOMAIN c[p]] :
               /\ \A i \in DOMAIN r.committed[p] : r.committed[p][i] = c[p][g[i]]
               /\ \A i, j \in DOMAIN r.committed[p] : i < j => g[i] < g[j]
  <2>1. CASE r.committed[p] = c[p]
    <3> DEFINE g == [i \in DOMAIN c[p] |-> i]
    <3>1. g \in [DOMAIN r.committed[p] -> DOMAIN c[p]]
      BY <2>1
    <3>2. QED
      BY <2>1, <3>1
  <2>2. CASE r.committed[p] = StripTurn(c[p])
    <3>1. \E g \in [DOMAIN StripTurn(c[p]) -> DOMAIN c[p]] :
              /\ \A i \in DOMAIN StripTurn(c[p]) : StripTurn(c[p])[i] = c[p][g[i]]
              /\ \A i, j \in DOMAIN StripTurn(c[p]) : i < j => g[i] < g[j]
              /\ \A k \in Kept(c[p]) : \E i \in DOMAIN StripTurn(c[p]) : g[i] = k
      BY <1>3, <1>5, StripTurnFacts
    <3>2. QED
      BY <2>2, <3>1
  <2>3. QED
    BY <2>1, <2>2, <1>2
<1>6. /\ DOMAIN Turns(s) = 1 .. L + 1 /\ DOMAIN Turns(r) = 1 .. L + 1
      /\ Turns(s)[L + 1] = StagingAll(s) /\ Turns(r)[L + 1] = StagingAll(s)
  <2>1. DOMAIN Turns(s) = 1 .. L + 1 /\ Turns(s)[L + 1] = StagingAll(s)
    BY TurnsFacts
  <2>2. DOMAIN Turns(r) = 1 .. L + 1 /\ Turns(r)[L + 1] = StagingAll(r)
    BY <1>1, TurnsFacts
  <2>3. QED
    BY <2>1, <2>2, <1>4
<1>7. \A p \in 1 .. L : Turns(s)[p] = c[p] /\ Turns(r)[p] = r.committed[p]
  BY <1>1, TurnsFacts
<1>8. ASSUME NEW p \in DOMAIN Turns(r)
      PROVE  \E g \in [DOMAIN Turns(r)[p] -> DOMAIN Turns(s)[p]] :
               /\ \A i \in DOMAIN Turns(r)[p] : Turns(r)[p][i] = Turns(s)[p][g[i]]
               /\ \A i, j \in DOMAIN Turns(r)[p] : i < j => g[i] < g[j]
  <2>1. CASE p = L + 1
    <3> DEFINE g == [i \in DOMAIN StagingAll(s) |-> i]
    <3>1. Turns(r)[p] = StagingAll(s) /\ Turns(s)[p] = StagingAll(s)
      BY <2>1, <1>6
    <3>2. /\ g \in [DOMAIN Turns(r)[p] -> DOMAIN Turns(s)[p]]
          /\ \A i \in DOMAIN Turns(r)[p] : g[i] = i
      BY <3>1
    <3> HIDE DEF g
    <3>3. QED
      BY <3>1, <3>2
  <2>2. CASE p # L + 1
    <3>1. p \in 1 .. L
      BY <2>2, <1>3, <1>6
    <3>2. QED
      BY SMTT(40), <3>1, <1>3, <1>5, <1>7
  <2>3. QED
    BY <2>1, <2>2
<1>9. Within(Turns(r), Turns(s))
  <2>1. ASSUME NEW p \in DOMAIN Turns(r), NEW i \in DOMAIN Turns(r)[p]
        PROVE  \E pp \in DOMAIN Turns(s) : \E ii \in DOMAIN Turns(s)[pp] :
                  /\ Turns(r)[p][i].id = Turns(s)[pp][ii].id
                  /\ Turns(r)[p][i].body = Turns(s)[pp][ii].body
    <3>1. PICK g \in [DOMAIN Turns(r)[p] -> DOMAIN Turns(s)[p]] :
             \A k \in DOMAIN Turns(r)[p] : Turns(r)[p][k] = Turns(s)[p][g[k]]
      BY <1>8
    <3>2. p \in DOMAIN Turns(s) /\ g[i] \in DOMAIN Turns(s)[p]
      BY <1>6, <2>1
    <3>3. QED
      BY <3>1, <3>2, <2>1
  <2>2. ASSUME NEW p \in DOMAIN Turns(r), NEW q \in DOMAIN Turns(r),
               NEW i \in DOMAIN Turns(r)[p], NEW j \in DOMAIN Turns(r)[q],
               Precedes(p, i, q, j)
        PROVE  \E pp, qq \in DOMAIN Turns(s) :
                 \E ii \in DOMAIN Turns(s)[pp], jj \in DOMAIN Turns(s)[qq] :
                  /\ Precedes(pp, ii, qq, jj)
                  /\ Turns(r)[p][i].id = Turns(s)[pp][ii].id
                  /\ Turns(r)[p][i].body = Turns(s)[pp][ii].body
                  /\ Turns(r)[q][j].id = Turns(s)[qq][jj].id
                  /\ Turns(r)[q][j].body = Turns(s)[qq][jj].body
    <3>0. p \in DOMAIN Turns(s) /\ q \in DOMAIN Turns(s)
      BY <1>6
    <3>1. PICK g \in [DOMAIN Turns(r)[p] -> DOMAIN Turns(s)[p]] :
             /\ \A k \in DOMAIN Turns(r)[p] : Turns(r)[p][k] = Turns(s)[p][g[k]]
             /\ \A k, l \in DOMAIN Turns(r)[p] : k < l => g[k] < g[l]
      BY <1>8
    <3>2. PICK h \in [DOMAIN Turns(r)[q] -> DOMAIN Turns(s)[q]] :
             \A k \in DOMAIN Turns(r)[q] : Turns(r)[q][k] = Turns(s)[q][h[k]]
      BY <1>8
    <3>3. CASE p < q
      <4>1. g[i] \in DOMAIN Turns(s)[p] /\ h[j] \in DOMAIN Turns(s)[q]
        BY <2>2
      <4>2. Precedes(p, g[i], q, h[j])
        BY <3>3 DEF Precedes
      <4>3. QED
        BY <4>1, <4>2, <3>0, <3>1, <3>2, <2>2
    <3>4. CASE p = q /\ i < j
      <4>1. g[i] \in DOMAIN Turns(s)[p] /\ g[j] \in DOMAIN Turns(s)[p]
        BY <3>4, <2>2
      <4>2. Precedes(p, g[i], p, g[j])
        BY <3>1, <3>4, <2>2 DEF Precedes
      <4>3. QED
        BY <4>1, <4>2, <3>0, <3>1, <3>4, <2>2
    <3>5. QED
      BY <3>3, <3>4, <2>2 DEF Precedes
  <2>3. QED
    BY <2>1, <2>2 DEF Within
<1>10. IdsInOrder(r) /\ InputsBy(R, r, n)
  BY <1>1, <1>9, DroppingKeepsIds, DroppingKeepsInputs DEF SoundBy
<1>11. ASSUME NEW p \in DOMAIN c, NEW i \in DOMAIN r.committed[p]
       PROVE  \E k \in DOMAIN c[p] : r.committed[p][i] = c[p][k]
  BY <1>5, <1>11
<1>12. TurnNumbersCoverPositions(r)
  <2>1. Len(r.committed) <= r.turnIndex
    BY <1>1 DEF SoundBy, TurnNumbersCoverPositions
  <2>2. ASSUME NEW p \in DOMAIN r.committed, NEW i \in DOMAIN r.committed[p]
        PROVE  r.committed[p][i].turn >= p - 1
    BY <1>1, <1>11, <2>2 DEF SoundBy, TurnNumbersCoverPositions
  <2>3. QED
    BY <2>1, <2>2 DEF TurnNumbersCoverPositions
<1>13. FrozenTurnsAnswered(r) /\ NoEmptyTurn(r)
  <2>1. ASSUME NEW p \in DOMAIN c
        PROVE  AnsweredIfClosed(r.committed[p]) /\ r.committed[p] # <<>>
    <3>1. AnsweredIfClosed(c[p]) /\ c[p] # <<>> /\ c[p] \in Seq(Message)
      BY <1>3 DEF SoundBy, FrozenTurnsAnswered, NoEmptyTurn
    <3>2. AnsweredIfClosed(StripTurn(c[p])) /\ StripTurn(c[p]) # <<>>
      BY <3>1, StripTurnFacts, StripTurnAnswers
    <3>3. QED
      BY <3>1, <3>2, <1>2
  <2>2. QED
    BY <2>1, <1>1 DEF FrozenTurnsAnswered, NoEmptyTurn
<1>14. ASSUME TurnNumbersIncrease(s) PROVE TurnNumbersIncrease(r)
  <2>1. ASSUME NEW p \in DOMAIN r.committed, NEW q \in DOMAIN r.committed,
               NEW i \in DOMAIN r.committed[p], NEW j \in DOMAIN r.committed[q]
        PROVE  /\ p < q => r.committed[p][i].turn < r.committed[q][j].turn
               /\ p = q => r.committed[p][i].turn = r.committed[q][j].turn
    <3>1. PICK k \in DOMAIN c[p] : r.committed[p][i] = c[p][k]
      BY <1>1, <1>11, <2>1
    <3>2. PICK l \in DOMAIN c[q] : r.committed[q][j] = c[q][l]
      BY <1>1, <1>11, <2>1
    <3>3. /\ p < q => c[p][k].turn < c[q][l].turn
          /\ p = q => c[p][k].turn = c[q][l].turn
      BY <1>1, <1>14 DEF TurnNumbersIncrease
    <3>4. QED
      BY <3>1, <3>2, <3>3
  <2>2. ASSUME NEW p \in DOMAIN r.committed, NEW i \in DOMAIN r.committed[p]
        PROVE  r.committed[p][i].turn < r.turnIndex
    BY <1>1, <1>11, <1>14, <2>2 DEF TurnNumbersIncrease
  <2>3. QED
    BY <2>1, <2>2 DEF TurnNumbersIncrease
<1>15. IdleIsClean(r) /\ StagingIsCurrent(r) /\ UserHeadsTurn(r)
  BY <1>1, <1>4 DEF SoundBy, IdleIsClean, StagingIsCurrent, UserHeadsTurn
<1>16. QED
  BY <1>1, <1>10, <1>12, <1>13, <1>14, <1>15 DEF SoundBy, r

\* Going back to a turn keeps everything but the increase of turn numbers: after
\* a compaction the counter falls below numbers that are still in use.
LEMMA RollbackToTurnKeeps ==
  ASSUME NEW R, NEW s \in Session, NEW n \in Nat, SoundBy(R, s, n), NEW turn \in 0 .. Len(s.committed)
  PROVE  SoundBy(R, RollbackToTurn(s, turn), n)
<1> DEFINE r == RollbackToTurn(s, turn)
           c == s.committed
           cut == SubSeq(c, 1, turn)
           L == Len(c)
<1>1. c \in Seq(Seq(Message)) /\ L \in Nat /\ DOMAIN c = 1 .. L
  <2>1. c \in Seq(Seq(Message))
    BY DEF Session
  <2>2. QED
    BY <2>1, LenProperties
<1>2. turn \in Nat /\ turn <= L
  BY <1>1
<1> HIDE DEF c
<1>3. /\ cut \in Seq(Seq(Message)) /\ Len(cut) = turn /\ DOMAIN cut = 1 .. turn
      /\ \A p \in 1 .. turn : p \in DOMAIN c /\ cut[p] = c[p]
  BY <1>1, <1>2
<1>4. /\ ClearStaging(s) \in Session /\ ClearStaging(s).committed = c
      /\ ClearStaging(s).state = "Idle" /\ ClearStaging(s).pending = s.pending
      /\ ClearStaging(s).userInput = <<>> /\ StagingAll(ClearStaging(s)) = <<>>
      /\ ClearStaging(s).pinned = s.pinned /\ ClearStaging(s).nextId = s.nextId
  BY ClearStagingFields DEF c
<1>5. r = [ClearStaging(s) EXCEPT !.committed = cut, !.turnIndex = turn]
  BY <1>4 DEF RollbackToTurn
<1> HIDE DEF cut, r, L
<1>6. r \in Session
  BY <1>2, <1>3, <1>4, <1>5 DEF Session
<1>7. /\ r.committed = cut /\ r.turnIndex = turn /\ r.state = "Idle"
      /\ r.pending = s.pending /\ r.userInput = <<>> /\ StagingAll(r) = <<>>
      /\ r.pinned = s.pinned /\ r.nextId = s.nextId
  BY <1>4, <1>5 DEF Session, StagingAll
<1>8. /\ DOMAIN Turns(r) = 1 .. turn + 1 /\ Turns(r)[turn + 1] = <<>>
      /\ \A p \in 1 .. turn : Turns(r)[p] = c[p]
  <2>1. DOMAIN Turns(r) = 1 .. turn + 1 /\ Turns(r)[turn + 1] = StagingAll(r)
    BY <1>3, <1>6, <1>7, TurnsFacts
  <2>2. \A p \in 1 .. turn : Turns(r)[p] = r.committed[p]
    BY <1>3, <1>6, <1>7, TurnsFacts
  <2>3. QED
    BY <2>1, <2>2, <1>3, <1>7
<1>9. /\ DOMAIN Turns(s) = 1 .. L + 1
      /\ \A p \in 1 .. L : Turns(s)[p] = c[p]
  BY TurnsFacts DEF L, c
<1>10. Within(Turns(r), Turns(s))
  <2>1. ASSUME NEW p \in DOMAIN Turns(r), NEW i \in DOMAIN Turns(r)[p]
        PROVE  /\ p \in DOMAIN Turns(s) /\ i \in DOMAIN Turns(s)[p]
               /\ Turns(r)[p][i] = Turns(s)[p][i]
    <3>1. p # turn + 1
      BY <1>8, <2>1
    <3>2. p \in 1 .. turn /\ p \in 1 .. L
      BY <3>1, <1>1, <1>2, <1>8
    <3>3. QED
      BY <3>2, <1>1, <1>8, <1>9, <2>1
  <2>2. QED
    BY <2>1, InPlaceWithin
<1>11. IdsInOrder(r) /\ InputsBy(R, r, n)
  BY <1>7, <1>10, DroppingKeepsIds, DroppingKeepsInputs DEF SoundBy
<1>12. TurnNumbersCoverPositions(r)
  BY <1>2, <1>3, <1>7 DEF SoundBy, TurnNumbersCoverPositions, c
<1>13. FrozenTurnsAnswered(r) /\ NoEmptyTurn(r)
  BY <1>3, <1>7 DEF SoundBy, FrozenTurnsAnswered, NoEmptyTurn, c
<1>14. IdleIsClean(r) /\ StagingIsCurrent(r) /\ UserHeadsTurn(r)
  BY <1>7 DEF IdleIsClean, StagingIsCurrent, UserHeadsTurn
<1>15. QED
  BY <1>6, <1>11, <1>12, <1>13, <1>14 DEF SoundBy, r

\* A new session keeps every promise.
LEMMA NewSessionSound ==
  ASSUME NEW R
  PROVE  SoundBy(R, NewSession, 0) /\ TurnNumbersIncrease(NewSession)
<1> DEFINE s == NewSession
<1>1. /\ s.state = "Idle" /\ s.committed = <<>> /\ s.userInput = <<>> /\ s.staged = <<>>
      /\ s.pending = <<>> /\ s.pinned = <<>> /\ s.turnIndex = 0 /\ s.nextId = 0
  BY DEF NewSession
<1>2. s \in Session
  <2>1. /\ <<>> \in Seq(Seq(Message)) /\ <<>> \in Seq(Message) /\ <<>> \in Seq(Nat)
        /\ "Idle" \in SessionState /\ 0 \in Nat
    BY EmptySeq DEF SessionState
  <2>2. QED
    BY <2>1 DEF NewSession, Session
<1> HIDE DEF s
<1>3. StagingAll(s) = <<>>
  BY <1>1 DEF StagingAll
<1>4. /\ DOMAIN Turns(s) = {1} /\ Turns(s)[1] = <<>>
  BY <1>1, <1>3 DEF Turns
<1>5. IdsInOrder(s) /\ InputsBy(R, s, 0)
  <2>1. \A p \in DOMAIN Turns(s) : DOMAIN Turns(s)[p] = {}
    BY <1>4
  <2>2. QED
    BY <2>1, <1>1 DEF IdsInOrder, OrderedIds, InputsBy, OrderedBy, Chain, Precede, AllBelow
<1>6. /\ TurnNumbersCoverPositions(s) /\ FrozenTurnsAnswered(s) /\ NoEmptyTurn(s)
      /\ TurnNumbersIncrease(s)
  BY <1>1 DEF TurnNumbersCoverPositions, FrozenTurnsAnswered, NoEmptyTurn, TurnNumbersIncrease
<1>7. IdleIsClean(s) /\ StagingIsCurrent(s) /\ UserHeadsTurn(s)
  BY <1>1, <1>3 DEF IdleIsClean, StagingIsCurrent, UserHeadsTurn
<1>8. QED
  BY <1>2, <1>5, <1>6, <1>7 DEF SoundBy, s

-----------------------------------------------------------------------------
(* What the mutators change, field by field.                               *)

\* What an interrupted turn leaves behind: nothing, or one committed turn.
LEMMA InterruptFields ==
  ASSUME NEW s \in Session, NEW closing \in BOOLEAN
  PROVE  LET r == InterruptTurn(s, closing)
             full == StagingAll(Stage(PatchDanglingToolCalls(s), Notice(closing), NoCall, <<>>))
         IN  /\ r \in Session /\ r.state = "Idle" /\ r.pinned = s.pinned
             /\ r.pending = s.pending /\ StagingAll(r) = <<>>
             /\ s.staged = <<>> => r.turnIndex = s.turnIndex /\ r.committed = s.committed
             /\ s.staged # <<>> =>
                  r.turnIndex = s.turnIndex + 1 /\ r.committed = Append(s.committed, full)
<1> DEFINE r == InterruptTurn(s, closing)
           u == PatchDanglingToolCalls(s)
           t == Stage(u, Notice(closing), NoCall, <<>>)
<1>1. CASE s.staged = <<>>
  <2>1. r = ClearStaging(s)
    BY <1>1 DEF InterruptTurn, RollbackTurn
  <2>2. QED
    BY <2>1, <1>1, ClearStagingFields
<1>2. CASE s.staged # <<>>
  <2>1. r = PushTurn(t)
    BY <1>2 DEF InterruptTurn
  <2>2. /\ u \in Session /\ u.committed = s.committed /\ u.turnIndex = s.turnIndex
        /\ u.pending = s.pending /\ Extends(u, s, PatchOutputs(s))
    BY PatchFields
  <2>3. u.pinned = s.pinned
    BY <2>2 DEF Extends
  <2>4. Notice(closing) \in Kind /\ <<>> \in Seq(Nat) /\ NoCall \in CallIds \cup {NoCall}
    BY EmptySeq DEF Kind, Notice
  <2>5. /\ t \in Session /\ t.committed = u.committed /\ t.turnIndex = u.turnIndex
        /\ t.pending = u.pending /\ t.pinned = u.pinned
    BY <2>2, <2>4, StageFields
  <2> HIDE DEF t, u, r
  <2>6. /\ PushTurn(t) \in Session /\ PushTurn(t).state = "Idle"
        /\ PushTurn(t).committed = Append(t.committed, StagingAll(t))
        /\ PushTurn(t).turnIndex = t.turnIndex + 1 /\ PushTurn(t).pinned = t.pinned
        /\ PushTurn(t).pending = t.pending /\ StagingAll(PushTurn(t)) = <<>>
    BY <2>5, PushTurnFields
  <2>7. QED
    BY <1>2, <2>1, <2>2, <2>3, <2>5, <2>6 DEF r, t, u
<1>3. QED
  BY <1>1, <1>2

\* r is s but for what is staged, the queue and the counter of ids.
SameTurn(r, s) ==
    /\ r \in Session
    /\ r.state = s.state /\ r.committed = s.committed /\ r.userInput = s.userInput
    /\ r.turnIndex = s.turnIndex /\ r.pinned = s.pinned

\* Queueing touches the queue only.
LEMMA EnqueueFields ==
  ASSUME NEW s \in Session, NEW input \in Nat
  PROVE  LET r == EnqueuePending(s, input)
         IN  SameTurn(r, s) /\ r.staged = s.staged /\ r.pending = Append(s.pending, input)
<1> DEFINE q == Append(s.pending, input)
           r == EnqueuePending(s, input)
<1>1. s.pending \in Seq(Nat) /\ q \in Seq(Nat)
  BY DEF Session
<1>2. r = [s EXCEPT !.pending = q]
  BY DEF EnqueuePending
<1> HIDE DEF q, r
<1>3. QED
  BY <1>1, <1>2 DEF Session, SameTurn, q, r

\* So does dropping the queue.
LEMMA ClearPendingFields ==
  ASSUME NEW s \in Session
  PROVE  LET r == ClearPending(s)
         IN  SameTurn(r, s) /\ r.staged = s.staged /\ r.pending = <<>>
<1>1. PICK e : e = <<>>
  OBVIOUS
<1>2. e \in Seq(Nat)
  BY <1>1, EmptySeq
<1>3. ClearPending(s) = [s EXCEPT !.pending = e]
  BY <1>1 DEF ClearPending
<1>4. QED
  BY <1>1, <1>2, <1>3 DEF Session, SameTurn

\* Steering adds one message of the user to what is staged, or nothing.
LEMMA DrainFields ==
  ASSUME NEW s \in Session, CanStage(s)
  PROVE  LET r == DrainPendingIntoTurn(s)
         IN  /\ SameTurn(r, s) /\ r.pending = <<>>
             /\ ~HasPending(s) => r = s
             /\ \E new \in Seq(Message) :
                  /\ r.staged = s.staged \o new
                  /\ StagingAll(r) = StagingAll(s) \o new
                  /\ \A i \in DOMAIN new : new[i].kind = "user"
                  /\ HasPending(s) => new # <<>>
<1> DEFINE r == DrainPendingIntoTurn(s)
<1>1. CASE ~ HasPending(s)
  <2>1. r = s /\ s.pending = <<>>
    BY <1>1 DEF DrainPendingIntoTurn, HasPending
  <2>2. s.staged \in Seq(Message) /\ StagingAll(s) \in Seq(Message)
    BY TurnsFacts DEF Session
  <2>3. /\ <<>> \in Seq(Message) /\ s.staged = s.staged \o <<>>
        /\ StagingAll(s) = StagingAll(s) \o <<>> /\ DOMAIN <<>> = {}
    BY <2>2, ConcatEmptySeq, EmptySeq
  <2> HIDE DEF r
  <2>4. QED
    BY <2>1, <2>3, <1>1 DEF SameTurn, r
<1>2. CASE HasPending(s)
  <2> DEFINE t == Stage(s, "user", NoCall, s.pending)
             m == NewMessage(s, "user", NoCall, s.pending)
  <2>1. s.pending \in Seq(Nat) /\ "user" \in Kind /\ NoCall \in CallIds \cup {NoCall}
    BY DEF Session, Kind
  <2>2. /\ t \in Session /\ <<m>> \in Seq(Message)
        /\ t.committed = s.committed /\ t.turnIndex = s.turnIndex /\ t.pinned = s.pinned
        /\ t.state = s.state /\ t.userInput = s.userInput
        /\ t.staged = Append(s.staged, m)
        /\ StagingAll(t) = StagingAll(s) \o <<m>>
    BY ZenonT(60), <2>1, StageFields
  <2>3. m.kind = "user" /\ m \in Message
    BY <2>1 DEF NewMessage, Message, Session
  <2>4. PICK e : e = <<>>
    OBVIOUS
  <2>5. e \in Seq(Nat)
    BY <2>4, EmptySeq
  <2>6. s.staged \in Seq(Message)
    BY DEF Session
  <2> HIDE DEF t, m
  <2>7. r = [t EXCEPT !.pending = e]
    BY <1>2, <2>4 DEF DrainPendingIntoTurn, t
  <2> HIDE DEF r
  <2>8. SameTurn(r, s) /\ r.pending = e /\ r.staged = t.staged /\ r.userInput = t.userInput
    BY <2>2, <2>5, <2>7 DEF Session, SameTurn
  <2>9. StagingAll(r) = StagingAll(t)
    BY <2>8 DEF StagingAll
  <2>10. t.staged = s.staged \o <<m>> /\ <<m>> # <<>> /\ \A i \in DOMAIN <<m>> : <<m>>[i].kind = "user"
    BY SMTT(40), <2>2, <2>3, <2>6
  <2>11. QED
    BY <1>2, <2>2, <2>4, <2>8, <2>9, <2>10 DEF r
<1>3. QED
  BY <1>1, <1>2

\* A new turn holds the queue and nothing else.
LEMMA DequeueFields ==
  ASSUME NEW s \in Session
  PROVE  LET r == DequeueAndStartTurn(s)
         IN  /\ r \in Session /\ r.state = "Active" /\ r.pending = <<>>
             /\ r.committed = s.committed /\ r.turnIndex = s.turnIndex
             /\ r.pinned = s.pinned /\ r.staged = s.staged
<1> DEFINE r == DequeueAndStartTurn(s)
           m == NewMessage(s, "user", NoCall, s.pending)
<1>1. s.pending \in Seq(Nat) /\ s.nextId \in Nat /\ s.turnIndex \in Nat
  BY DEF Session
<1>2. m \in Message
  BY <1>1 DEF NewMessage, Message, Kind
<1> HIDE DEF m
<1>3. PICK e : e = <<>>
  OBVIOUS
<1>4. PICK h : h = <<m>>
  OBVIOUS
<1>5. e \in Seq(Nat) /\ h \in Seq(Message)
  BY <1>2, <1>3, <1>4, EmptySeq
<1>6. r = [s EXCEPT !.userInput = h, !.nextId = s.nextId + 1, !.state = "Active", !.pending = e]
  BY <1>3, <1>4 DEF DequeueAndStartTurn, StartTurn, m
<1> HIDE DEF r
<1>7. s.nextId + 1 \in Nat /\ "Active" \in SessionState
  BY <1>1 DEF SessionState
<1>8. r \in Session
  BY <1>5, <1>6, <1>7 DEF Session
<1>9. /\ r.state = "Active" /\ r.pending = e
      /\ r.committed = s.committed /\ r.turnIndex = s.turnIndex
      /\ r.pinned = s.pinned /\ r.staged = s.staged
  BY <1>6 DEF Session
<1>10. QED
  BY <1>3, <1>8, <1>9 DEF r

\* What commit_turn leaves: the turn in the history, unless it was empty.
LEMMA CommitFields ==
  ASSUME NEW s \in Session
  PROVE  LET r == CommitTurn(s)
         IN  /\ r \in Session /\ r.state = "Idle" /\ r.pending = s.pending
             /\ r.pinned = s.pinned /\ StagingAll(r) = <<>>
             /\ StagingAll(s) = <<>> => r.turnIndex = s.turnIndex /\ r.committed = s.committed
             /\ StagingAll(s) # <<>> => /\ r.turnIndex = s.turnIndex + 1
                                        /\ r.committed = Append(s.committed, StagingAll(s))
<1> DEFINE r == CommitTurn(s)
<1>1. CASE StagingAll(s) = <<>>
  <2>1. r = [s EXCEPT !.state = "Idle"]
    BY <1>1 DEF CommitTurn
  <2> HIDE DEF r
  <2>2. /\ r \in Session /\ r.state = "Idle" /\ r.pending = s.pending /\ r.pinned = s.pinned
        /\ r.turnIndex = s.turnIndex /\ r.committed = s.committed
        /\ r.userInput = s.userInput /\ r.staged = s.staged
    BY <2>1 DEF Session, SessionState
  <2>3. StagingAll(r) = StagingAll(s)
    BY <2>2 DEF StagingAll
  <2>4. QED
    BY <1>1, <2>2, <2>3 DEF r
<1>2. CASE StagingAll(s) # <<>>
  BY <1>2, PushTurnFields DEF CommitTurn
<1>3. QED
  BY <1>1, <1>2

\* Taking the staging area back to where a response found it leaves what was there.
LEMMA TruncateBack ==
  ASSUME NEW s \in Session, NEW new \in Seq(Message), NEW t \in Session,
         SameTurn(t, s), t.pending = s.pending, t.staged = s.staged \o new
  PROVE  LET r == TruncateStaging(t, Len(s.staged))
         IN  SameTurn(r, s) /\ r.staged = s.staged /\ r.pending = s.pending
<1> DEFINE tail == s.staged
           full == t.staged
           cut == SubSeq(full, 1, Len(tail))
           r == TruncateStaging(t, Len(s.staged))
<1>1. tail \in Seq(Message) /\ full = tail \o new /\ full \in Seq(Message)
  BY DEF Session
<1> HIDE DEF tail, full
<1>2. /\ Len(tail) \in Nat /\ Len(full) = Len(tail) + Len(new) /\ Len(new) \in Nat
      /\ DOMAIN tail = 1 .. Len(tail)
      /\ \A i \in 1 .. Len(tail) : full[i] = tail[i]
  BY <1>1, ConcatParts
<1>3. /\ cut \in Seq(Message) /\ Len(cut) = Len(tail)
      /\ \A i \in 1 .. Len(tail) : cut[i] = full[i]
  <2>1. Len(tail) <= Len(full)
    BY <1>2
  <2>2. QED
    BY <1>1, <1>2, <2>1
<1>4. cut = tail
  BY <1>1, <1>2, <1>3, SeqEqual
<1>5. r = [t EXCEPT !.staged = cut]
  BY DEF TruncateStaging, full, tail
<1> HIDE DEF cut, r
<1>6. QED
  BY <1>3, <1>4, <1>5 DEF SameTurn, Session, r, tail

-----------------------------------------------------------------------------
(* Calls and outputs: in one turn, in a session, in its history.           *)

\* An output comes after its call, and no two outputs answer the same call.
Paired(T) ==
    /\ \A i \in DOMAIN T : T[i].kind = "output" =>
          \E j \in DOMAIN T : T[j].kind = "call" /\ j < i /\ T[j].call = T[i].call
    /\ \A i, j \in DOMAIN T :
          T[i].kind = "output" /\ T[j].kind = "output" /\ T[i].call = T[j].call => i = j

\* No call is made twice.
Apart(T) ==
    \A i, j \in DOMAIN T :
        T[i].kind = "call" /\ T[j].kind = "call" /\ T[i].call = T[j].call => i = j

Tidy(T) == Paired(T) /\ Apart(T)

\* The calls that have no output yet.
IsOpen(T, i) ==
    /\ T[i].kind = "call"
    /\ \A j \in DOMAIN T : T[j].kind = "output" => T[j].call # T[i].call
Open(T) == {T[i].call : i \in {k \in DOMAIN T : IsOpen(T, k)}}

\* A turn without calls and outputs is tidy.
LEMMA NoCallsTidy ==
  ASSUME NEW T, \A i \in DOMAIN T : T[i].kind \notin {"call", "output"}
  PROVE  Tidy(T) /\ Open(T) = {}
<1>1. Tidy(T)
  BY DEF Tidy, Paired, Apart
<1>2. \A i \in DOMAIN T : ~IsOpen(T, i)
  BY DEF IsOpen
<1>3. QED
  BY <1>1, <1>2 DEF Open

\* Calls with new ids, and whatever is neither a call nor an output, keep a turn
\* tidy and open just those calls.
LEMMA AsksTidy ==
  ASSUME NEW T \in Seq(Message), NEW new \in Seq(Message), Tidy(T),
         \A k \in DOMAIN new : new[k].kind # "output",
         \A k, l \in DOMAIN new : new[k].kind = "call" /\ new[l].kind = "call"
                                  /\ new[k].call = new[l].call => k = l,
         \A k \in DOMAIN new : new[k].kind = "call" =>
            \A i \in DOMAIN T : T[i].call # new[k].call
  PROVE  LET asked == {new[k].call : k \in {l \in DOMAIN new : new[l].kind = "call"}}
         IN  Tidy(T \o new) /\ Open(T \o new) = Open(T) \cup asked
<1> DEFINE asked == {new[k].call : k \in {l \in DOMAIN new : new[l].kind = "call"}}
<1>0. PICK U, n, m : U = T \o new /\ n = Len(T) /\ m = Len(new)
  OBVIOUS
<1>1. /\ n \in Nat /\ m \in Nat /\ DOMAIN T = 1 .. n /\ DOMAIN new = 1 .. m
      /\ DOMAIN U = 1 .. n + m
      /\ \A i \in 1 .. n : i \in 1 .. n + m /\ U[i] = T[i]
      /\ \A j \in 1 .. m : n + j \in 1 .. n + m /\ U[n + j] = new[j]
      /\ \A i \in 1 .. n + m :
           \/ i \in 1 .. n /\ U[i] = T[i]
           \/ i - n \in 1 .. m /\ U[i] = new[i - n]
  BY <1>0, ConcatParts
<1>2. \A i \in DOMAIN U : U[i].kind = "output" => i \in DOMAIN T /\ U[i] = T[i]
  BY ZenonT(60), <1>1
<1>3. Paired(U)
  <2>1. ASSUME NEW i \in DOMAIN U, U[i].kind = "output"
        PROVE  \E j \in DOMAIN U : U[j].kind = "call" /\ j < i /\ U[j].call = U[i].call
    <3>1. i \in DOMAIN T /\ U[i] = T[i]
      BY <1>2, <2>1
    <3>2. PICK j \in DOMAIN T : T[j].kind = "call" /\ j < i /\ T[j].call = T[i].call
      BY <2>1, <3>1 DEF Tidy, Paired
    <3>3. j \in DOMAIN U /\ U[j] = T[j]
      BY <1>1
    <3>4. QED
      BY <3>1, <3>2, <3>3
  <2>2. ASSUME NEW i \in DOMAIN U, NEW j \in DOMAIN U, U[i].kind = "output",
               U[j].kind = "output", U[i].call = U[j].call
        PROVE  i = j
    BY <1>2, <2>2 DEF Tidy, Paired
  <2>3. QED
    BY <2>1, <2>2 DEF Paired
<1>4. Apart(U)
  <2>1. SUFFICES ASSUME NEW i \in DOMAIN U, NEW j \in DOMAIN U, U[i].kind = "call",
                        U[j].kind = "call", U[i].call = U[j].call
                 PROVE  i = j
    BY DEF Apart
  <2>2. CASE i \in 1 .. n /\ U[i] = T[i] /\ j \in 1 .. n /\ U[j] = T[j]
    BY <1>1, <2>1, <2>2 DEF Tidy, Apart
  <2>3. CASE i - n \in 1 .. m /\ U[i] = new[i - n] /\ j - n \in 1 .. m /\ U[j] = new[j - n]
    <3>1. i - n = j - n
      BY <1>1, <2>1, <2>3
    <3>2. QED
      BY <1>1, <3>1
  <2>4. CASE i \in 1 .. n /\ U[i] = T[i] /\ j - n \in 1 .. m /\ U[j] = new[j - n]
    BY <1>1, <2>1, <2>4
  <2>5. CASE i - n \in 1 .. m /\ U[i] = new[i - n] /\ j \in 1 .. n /\ U[j] = T[j]
    BY <1>1, <2>1, <2>5
  <2>6. QED
    BY <1>1, <2>2, <2>3, <2>4, <2>5
<1>5. Open(U) \subseteq Open(T) \cup asked
  <2>1. SUFFICES ASSUME NEW i \in DOMAIN U, IsOpen(U, i)
                 PROVE  U[i].call \in Open(T) \cup asked
    BY DEF Open
  <2>2. CASE i \in 1 .. n /\ U[i] = T[i]
    <3>1. IsOpen(T, i)
      BY <1>1, <2>1, <2>2 DEF IsOpen
    <3>2. QED
      BY <1>1, <2>2, <3>1 DEF Open
  <2>3. CASE i - n \in 1 .. m /\ U[i] = new[i - n]
    BY <1>1, <2>1, <2>3 DEF IsOpen
  <2>4. QED
    BY <1>1, <2>2, <2>3
<1>6. Open(T) \subseteq Open(U)
  <2>1. SUFFICES ASSUME NEW i \in DOMAIN T, IsOpen(T, i)
                 PROVE  T[i].call \in Open(U)
    BY DEF Open
  <2>2. i \in DOMAIN U /\ U[i] = T[i]
    BY <1>1
  <2>3. IsOpen(U, i)
    BY <1>2, <2>1, <2>2 DEF IsOpen
  <2>4. QED
    BY <2>2, <2>3 DEF Open
<1>7. asked \subseteq Open(U)
  <2>1. SUFFICES ASSUME NEW k \in DOMAIN new, new[k].kind = "call"
                 PROVE  new[k].call \in Open(U)
    OBVIOUS
  <2>2. n + k \in DOMAIN U /\ U[n + k] = new[k]
    BY <1>1
  <2>3. IsOpen(U, n + k)
    BY <1>2, <2>1, <2>2 DEF IsOpen
  <2>4. QED
    BY <2>2, <2>3 DEF Open
<1>8. QED
  BY <1>0, <1>3, <1>4, <1>5, <1>6, <1>7 DEF Tidy

\* Outputs for open calls, no two for the same, keep a turn tidy and close just
\* those calls.
LEMMA AnswersTidy ==
  ASSUME NEW T \in Seq(Message), NEW new \in Seq(Message), Tidy(T),
         \A k \in DOMAIN new : new[k].kind = "output" /\ new[k].call \in Open(T),
         \A k, l \in DOMAIN new : new[k].call = new[l].call => k = l
  PROVE  /\ Tidy(T \o new)
         /\ Open(T \o new) = Open(T) \ {new[k].call : k \in DOMAIN new}
<1>0. PICK U, n, m : U = T \o new /\ n = Len(T) /\ m = Len(new)
  OBVIOUS
<1>1. /\ n \in Nat /\ m \in Nat /\ DOMAIN T = 1 .. n /\ DOMAIN new = 1 .. m
      /\ DOMAIN U = 1 .. n + m
      /\ \A i \in 1 .. n : i \in 1 .. n + m /\ U[i] = T[i]
      /\ \A j \in 1 .. m : n + j \in 1 .. n + m /\ U[n + j] = new[j]
      /\ \A i \in 1 .. n + m :
           \/ i \in 1 .. n /\ U[i] = T[i]
           \/ i - n \in 1 .. m /\ U[i] = new[i - n]
  BY <1>0, ConcatParts
<1>2. \A i \in DOMAIN U : U[i].kind = "call" => i \in DOMAIN T /\ U[i] = T[i]
  BY <1>1
<1>3. ASSUME NEW k \in DOMAIN new
      PROVE  \E j \in DOMAIN T : IsOpen(T, j) /\ T[j].call = new[k].call
  BY <1>3 DEF Open
<1>4. Paired(U)
  <2>1. ASSUME NEW i \in DOMAIN U, U[i].kind = "output"
        PROVE  \E j \in DOMAIN U : U[j].kind = "call" /\ j < i /\ U[j].call = U[i].call
    <3>1. CASE i \in 1 .. n /\ U[i] = T[i]
      <4>1. PICK j \in DOMAIN T : T[j].kind = "call" /\ j < i /\ T[j].call = T[i].call
        BY <1>1, <2>1, <3>1 DEF Tidy, Paired
      <4>2. j \in DOMAIN U /\ U[j] = T[j]
        BY <1>1
      <4>3. QED
        BY <3>1, <4>1, <4>2
    <3>2. CASE i - n \in 1 .. m /\ U[i] = new[i - n]
      <4>1. PICK j \in DOMAIN T : IsOpen(T, j) /\ T[j].call = new[i - n].call
        BY <1>1, <1>3, <3>2
      <4>2. j \in DOMAIN U /\ U[j] = T[j] /\ j < i
        BY <1>1, <3>2
      <4>3. QED
        BY <3>2, <4>1, <4>2 DEF IsOpen
    <3>3. QED
      BY <1>1, <3>1, <3>2
  <2>2. ASSUME NEW i \in DOMAIN U, NEW j \in DOMAIN U, U[i].kind = "output",
               U[j].kind = "output", U[i].call = U[j].call
        PROVE  i = j
    <3>1. CASE i \in 1 .. n /\ U[i] = T[i] /\ j \in 1 .. n /\ U[j] = T[j]
      BY <1>1, <2>2, <3>1 DEF Tidy, Paired
    <3>2. CASE i - n \in 1 .. m /\ U[i] = new[i - n] /\ j - n \in 1 .. m /\ U[j] = new[j - n]
      <4>1. i - n = j - n
        BY <1>1, <2>2, <3>2
      <4>2. QED
        BY <1>1, <4>1
    <3>3. CASE i \in 1 .. n /\ U[i] = T[i] /\ j - n \in 1 .. m /\ U[j] = new[j - n]
      BY <1>1, <1>3, <2>2, <3>3 DEF IsOpen
    <3>4. CASE i - n \in 1 .. m /\ U[i] = new[i - n] /\ j \in 1 .. n /\ U[j] = T[j]
      BY <1>1, <1>3, <2>2, <3>4 DEF IsOpen
    <3>5. QED
      BY <1>1, <3>1, <3>2, <3>3, <3>4
  <2>3. QED
    BY <2>1, <2>2 DEF Paired
<1>5. Apart(U)
  BY <1>2 DEF Tidy, Apart
<1>6. Open(U) \subseteq Open(T) \ {new[k].call : k \in DOMAIN new}
  <2>1. SUFFICES ASSUME NEW i \in DOMAIN U, IsOpen(U, i)
                 PROVE  U[i].call \in Open(T) /\ \A k \in DOMAIN new : U[i].call # new[k].call
    BY DEF Open
  <2>2. i \in DOMAIN T /\ U[i] = T[i]
    BY <1>2, <2>1 DEF IsOpen
  <2>3. IsOpen(T, i)
    BY <1>1, <2>1, <2>2 DEF IsOpen
  <2>4. \A k \in DOMAIN new : U[i].call # new[k].call
    BY <1>1, <2>1 DEF IsOpen
  <2>5. QED
    BY <2>2, <2>3, <2>4 DEF Open
<1>7. Open(T) \ {new[k].call : k \in DOMAIN new} \subseteq Open(U)
  <2>1. SUFFICES ASSUME NEW i \in DOMAIN T, IsOpen(T, i),
                        \A k \in DOMAIN new : T[i].call # new[k].call
                 PROVE  T[i].call \in Open(U)
    BY DEF Open
  <2>2. i \in DOMAIN U /\ U[i] = T[i]
    BY <1>1
  <2>3. ASSUME NEW j \in DOMAIN U, U[j].kind = "output"
        PROVE  U[j].call # U[i].call
    <3>1. CASE j \in 1 .. n /\ U[j] = T[j]
      BY <1>1, <2>1, <2>2, <2>3, <3>1 DEF IsOpen
    <3>2. CASE j - n \in 1 .. m /\ U[j] = new[j - n]
      BY <1>1, <2>1, <2>2, <3>2
    <3>3. QED
      BY <1>1, <3>1, <3>2
  <2>4. IsOpen(U, i)
    BY <2>1, <2>2, <2>3 DEF IsOpen
  <2>5. QED
    BY <2>2, <2>4 DEF Open
<1>8. QED
  BY <1>0, <1>4, <1>5, <1>6, <1>7 DEF Tidy

\* A message that is neither a call nor an output changes nothing of that.
LEMMA WordsTidy ==
  ASSUME NEW T \in Seq(Message), NEW m \in Message, Tidy(T), m.kind \notin {"call", "output"}
  PROVE  Tidy(T \o <<m>>) /\ Open(T \o <<m>>) = Open(T)
<1>1. PICK new : new = <<m>>
  OBVIOUS
<1>2. new \in Seq(Message) /\ DOMAIN new = {1} /\ new[1] = m
  BY <1>1
<1>3. {new[k].call : k \in {l \in DOMAIN new : new[l].kind = "call"}} = {}
  BY <1>2
<1>4. Tidy(T \o new) /\ Open(T \o new) = Open(T) \cup {}
  <2>1. /\ \A k \in DOMAIN new : new[k].kind # "output"
        /\ \A k, l \in DOMAIN new : new[k].kind = "call" /\ new[l].kind = "call"
                                    /\ new[k].call = new[l].call => k = l
        /\ \A k \in DOMAIN new : new[k].kind = "call" =>
              \A i \in DOMAIN T : T[i].call # new[k].call
    BY <1>2
  <2>2. QED
    BY <1>2, <1>3, <2>1, AsksTidy
<1>5. QED
  BY <1>1, <1>4

\* The open calls of the turn in flight are those Dangling finds, the user's message
\* being none.
LEMMA OpenIsDangling ==
  ASSUME NEW s \in Session, UserHeadsTurn(s)
  PROVE  Open(StagingAll(s)) = {s.staged[i].call : i \in Dangling(s)}
<1>0. PICK U, a, b : U = StagingAll(s) /\ a = s.userInput /\ b = s.staged
  OBVIOUS
<1>1. a \in Seq(Message) /\ b \in Seq(Message) /\ U = a \o b
  BY <1>0 DEF Session, StagingAll
<1>2. PICK n, m : n = Len(a) /\ m = Len(b)
  OBVIOUS
<1>3. /\ n \in Nat /\ m \in Nat /\ DOMAIN a = 1 .. n /\ DOMAIN b = 1 .. m
      /\ DOMAIN U = 1 .. n + m
      /\ \A i \in 1 .. n : i \in 1 .. n + m /\ U[i] = a[i]
      /\ \A j \in 1 .. m : n + j \in 1 .. n + m /\ U[n + j] = b[j]
      /\ \A i \in 1 .. n + m :
           \/ i \in 1 .. n /\ U[i] = a[i]
           \/ i - n \in 1 .. m /\ U[i] = b[i - n]
  BY <1>1, <1>2, ConcatParts
<1>4. \A i \in DOMAIN U : U[i].kind \in {"call", "output"} =>
         i - n \in DOMAIN b /\ U[i] = b[i - n]
  BY <1>0, <1>3 DEF UserHeadsTurn
<1>5. ASSUME NEW i \in DOMAIN U, IsOpen(U, i)
      PROVE  U[i].call \in {b[k].call : k \in Dangling(s)}
  <2>1. i - n \in DOMAIN b /\ U[i] = b[i - n] /\ b[i - n].kind = "call"
    BY <1>4, <1>5 DEF IsOpen
  <2>2. \A j \in DOMAIN b : b[j].kind = "output" => b[j].call # U[i].call
    BY <1>3, <1>5 DEF IsOpen
  <2>3. i - n \in Dangling(s)
    BY <1>0, <2>1, <2>2 DEF Dangling
  <2>4. QED
    BY <2>1, <2>3
<1>6. ASSUME NEW k \in Dangling(s)
      PROVE  b[k].call \in Open(U)
  <2>1. /\ k \in DOMAIN b /\ b[k].kind = "call"
        /\ \A j \in DOMAIN b : b[j].kind = "output" => b[j].call # b[k].call
    BY <1>0 DEF Dangling
  <2>2. n + k \in DOMAIN U /\ U[n + k] = b[k]
    BY <1>3, <2>1
  <2>3. IsOpen(U, n + k)
    BY <1>4, <2>1, <2>2 DEF IsOpen
  <2>4. QED
    BY <2>2, <2>3 DEF Open
<1>7. Open(U) = {b[k].call : k \in Dangling(s)}
  BY <1>5, <1>6 DEF Open
<1>8. QED
  BY <1>0, <1>7

\* The synthetic outputs answer open calls, each of them once.
LEMMA PatchesAnswer ==
  ASSUME NEW s \in Session, UserHeadsTurn(s), Apart(StagingAll(s))
  PROVE  LET new == PatchOutputs(s)
         IN  /\ \A k \in DOMAIN new : new[k].kind = "output" /\ new[k].call \in Open(StagingAll(s))
             /\ \A k, l \in DOMAIN new : new[k].call = new[l].call => k = l
<1> DEFINE D == Dangling(s)
           order == Listing(D)
           new == PatchOutputs(s)
<1>1. s.staged \in Seq(Message) /\ s.userInput \in Seq(Message)
  BY DEF Session
<1>2. D \in SUBSET (1 .. Len(s.staged)) /\ Len(s.staged) \in Nat
  BY <1>1, LenProperties DEF Dangling
<1>3. /\ order \in [1 .. Cardinality(D) -> D] /\ Increasing(order)
      /\ Cardinality(D) \in Nat
  BY <1>2, ListingFacts
<1>4. DOMAIN new = DOMAIN order
  BY DEF PatchOutputs
<1>5. ASSUME NEW k \in DOMAIN new
      PROVE  order[k] \in D /\ new[k].call = s.staged[order[k]].call /\ new[k].kind = "output"
  <2>1. order[k] \in D
    BY <1>3, <1>4, <1>5
  <2>2. new[k] = [NewMessage(s, "output", s.staged[order[k]].call, <<>>)
                    EXCEPT !.id = s.nextId + k - 1]
    BY <1>4, <1>5 DEF PatchOutputs
  <2>3. PICK m : m = NewMessage(s, "output", s.staged[order[k]].call, <<>>)
    OBVIOUS
  <2>4. DOMAIN m = {"id", "turn", "kind", "call", "body"}
        /\ m.call = s.staged[order[k]].call /\ m.kind = "output"
    BY <2>3 DEF NewMessage
  <2>5. new[k] = [m EXCEPT !.id = s.nextId + k - 1]
    BY <2>2, <2>3
  <2>6. QED
    BY <2>1, <2>4, <2>5
<1>6. ASSUME NEW k \in DOMAIN new
      PROVE  new[k].kind = "output" /\ new[k].call \in Open(StagingAll(s))
  BY <1>5, OpenIsDangling
<1>7. ASSUME NEW k \in DOMAIN new, NEW l \in DOMAIN new, new[k].call = new[l].call
      PROVE  k = l
  <2>1. order[k] \in D /\ order[l] \in D
        /\ s.staged[order[k]].call = s.staged[order[l]].call
    BY <1>5, <1>7
  <2>2. /\ order[k] \in DOMAIN s.staged /\ s.staged[order[k]].kind = "call"
        /\ order[l] \in DOMAIN s.staged /\ s.staged[order[l]].kind = "call"
    BY <2>1 DEF Dangling
  <2>3. PICK n : n = Len(s.userInput)
    OBVIOUS
  <2>4. /\ n \in Nat
        /\ \A j \in 1 .. Len(s.staged) :
             n + j \in DOMAIN StagingAll(s) /\ StagingAll(s)[n + j] = s.staged[j]
        /\ DOMAIN s.staged = 1 .. Len(s.staged)
    <3>1. PICK a \in Seq(Message), b \in Seq(Message) : a = s.userInput /\ b = s.staged
      BY <1>1
    <3>2. /\ Len(a) \in Nat /\ DOMAIN b = 1 .. Len(b)
          /\ DOMAIN (a \o b) = 1 .. Len(a) + Len(b)
          /\ \A j \in 1 .. Len(b) :
               Len(a) + j \in 1 .. Len(a) + Len(b) /\ (a \o b)[Len(a) + j] = b[j]
      BY ConcatParts
    <3>3. StagingAll(s) = a \o b
      BY <3>1 DEF StagingAll
    <3>4. QED
      BY <2>3, <3>1, <3>2, <3>3
  <2>5. n + order[k] = n + order[l]
    BY SMTT(40), <2>1, <2>2, <2>4 DEF Apart
  <2>6. order[k] = order[l] /\ order[k] \in Nat
    BY <1>2, <2>1, <2>4, <2>5
  <2>7. k \in Nat /\ l \in Nat /\ k \in DOMAIN order /\ l \in DOMAIN order
    BY <1>3, <1>4, <1>7
  <2>8. ~(k < l) /\ ~(l < k)
    <3>1. ASSUME k < l
          PROVE  FALSE
      <4>1. order[k] < order[l]
        BY <1>3, <2>7, <3>1 DEF Increasing
      <4>2. QED
        BY <2>6, <4>1
    <3>2. ASSUME l < k
          PROVE  FALSE
      <4>1. order[l] < order[k]
        BY <1>3, <2>7, <3>2 DEF Increasing
      <4>2. QED
        BY <2>6, <4>1
    <3>3. QED
      BY <3>1, <3>2
  <2>9. QED
    BY <2>7, <2>8
<1>8. QED
  BY <1>6, <1>7

HistoryPaired(s) == \A p \in DOMAIN s.committed : Paired(s.committed[p])

\* A turn with the same kinds and calls at the same places.
LEMMA SamePaired ==
  ASSUME NEW T, NEW U, Paired(T), DOMAIN U = DOMAIN T,
         \A i \in DOMAIN T : U[i].kind = T[i].kind /\ U[i].call = T[i].call
  PROVE  Paired(U)
BY DEF Paired

\* Reasoning may leave a turn.
LEMMA StripPaired ==
  ASSUME NEW T \in Seq(Message), Paired(T)
  PROVE  Paired(StripTurn(T))
<1> DEFINE U == StripTurn(T)
<1>1. PICK g \in [DOMAIN U -> DOMAIN T] :
        /\ \A i \in DOMAIN U : U[i] = T[g[i]]
        /\ \A i, j \in DOMAIN U : i < j => g[i] < g[j]
        /\ \A k \in Kept(T) : \E i \in DOMAIN U : g[i] = k
  BY StripTurnFacts
<1>2. DOMAIN U \subseteq Nat /\ DOMAIN T \subseteq Nat
  BY StripTurnFacts, LenProperties
<1> HIDE DEF U
<1>3. ASSUME NEW i \in DOMAIN U, NEW j \in DOMAIN U, g[i] <= g[j]
      PROVE  i <= j
  <2>1. i \in Nat /\ j \in Nat /\ g[i] \in Nat /\ g[j] \in Nat
    BY <1>1, <1>2
  <2>2. ~(j < i)
    BY <1>1, <1>3, <2>1
  <2>3. QED
    BY <2>1, <2>2
<1>4. ASSUME NEW i \in DOMAIN U, U[i].kind = "output"
      PROVE  \E j \in DOMAIN U : U[j].kind = "call" /\ j < i /\ U[j].call = U[i].call
  <2>1. g[i] \in DOMAIN T /\ T[g[i]].kind = "output"
    BY <1>1, <1>4
  <2>2. PICK k \in DOMAIN T : T[k].kind = "call" /\ k < g[i] /\ T[k].call = T[g[i]].call
    BY <2>1 DEF Paired
  <2>3. k \in Kept(T)
    BY <2>2 DEF Kept
  <2>4. PICK j \in DOMAIN U : g[j] = k
    BY <1>1, <2>3
  <2>5. i \in Nat /\ j \in Nat /\ g[i] \in Nat /\ g[j] \in Nat /\ g[j] < g[i]
    BY <1>1, <1>2, <2>2, <2>4
  <2>6. ~(g[i] <= g[j])
    BY <2>5
  <2>7. j <= i /\ i # j
    BY <1>3, <2>5
  <2>8. j < i
    BY <2>5, <2>7
  <2>9. QED
    BY <1>1, <2>2, <2>4, <2>8
<1>5. ASSUME NEW i \in DOMAIN U, NEW j \in DOMAIN U, U[i].kind = "output",
             U[j].kind = "output", U[i].call = U[j].call
      PROVE  i = j
  <2>1. g[i] = g[j]
    BY <1>1, <1>5 DEF Paired
  <2>2. i \in Nat /\ j \in Nat /\ g[i] \in Nat
    BY <1>1, <1>2
  <2>3. i <= j /\ j <= i
    BY <1>3, <2>1, <2>2
  <2>4. QED
    BY <2>2, <2>3
<1>6. Paired(U)
  BY <1>4, <1>5 DEF Paired
<1>7. QED
  BY <1>6 DEF U

\* One more turn.
LEMMA AppendPaired ==
  ASSUME NEW s \in Session, NEW T \in Seq(Message), NEW r, HistoryPaired(s), Paired(T),
         r.committed = Append(s.committed, T)
  PROVE  HistoryPaired(r)
<1>1. s.committed \in Seq(Seq(Message))
  BY DEF Session
<1>2. PICK c \in Seq(Seq(Message)) : c = s.committed
  BY <1>1
<1>3. /\ Append(c, T) \in Seq(Seq(Message)) /\ Len(Append(c, T)) = Len(c) + 1 /\ Len(c) \in Nat
      /\ \A i \in 1 .. Len(c) : Append(c, T)[i] = c[i]
      /\ Append(c, T)[Len(c) + 1] = T
      /\ DOMAIN c = 1 .. Len(c)
  BY AppendProperties, LenProperties
<1>4. DOMAIN Append(c, T) = 1 .. Len(c) + 1
  BY <1>3, LenProperties
<1>5. \A p \in DOMAIN Append(c, T) : Paired(Append(c, T)[p])
  BY <1>2, <1>3, <1>4 DEF HistoryPaired
<1>6. QED
  BY <1>2, <1>5 DEF HistoryPaired

=============================================================================
