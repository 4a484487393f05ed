------------------------- MODULE ConsolidationProofs --------------------------
(***************************************************************************)
(* What Consolidation deletes lives on, for any number of rounds, stocks,  *)
(* batches and incidents.  What rounds delete a memory for, and what they  *)
(* are about to, never leads in a circle: as long as memories have times   *)
(* of their own, since each goes for a newer one; as long as rounds do not *)
(* overlap, since what a round deletes one after the other goes for what   *)
(* is still there, and for each other in the order they were compared.     *)
(***************************************************************************)
EXTENDS Consolidation, FiniteSetTheorems, SequenceTheorems, WellFoundedInduction, TLAPS

-----------------------------------------------------------------------------
(* Sets, sequences and their least elements.                               *)

\* Every set of numbers has a least one.
LEMMA LeastOf ==
  ASSUME NEW S \in SUBSET Nat, S # {}
  PROVE  \E n \in S : \A m \in S : n =< m
<1>1. PICK n \in S : \A m \in S : ~ (<<m, n>> \in OpToRel(<, Nat))
  BY NatLessThanWellFounded, WFMin
<1>2. \A m \in S : ~(m < n)
  BY <1>1 DEF OpToRel
<1>3. QED
  BY <1>2

\* A set of numbers that has a bound has a greatest one.
LEMMA GreatestOf ==
  ASSUME NEW b \in Nat, NEW S \in SUBSET (0 .. b), S # {}
  PROVE  \E n \in S : \A m \in S : m =< n
<1>1. PICK U : U = {k \in 0 .. b : b - k \in S}
  OBVIOUS
<1>2. U \in SUBSET Nat
  BY <1>1
<1>3. U # {}
  <2>1. PICK s \in S : s \in 0 .. b
    OBVIOUS
  <2>2. b - s \in 0 .. b /\ b - (b - s) = s
    BY <2>1
  <2>3. QED
    BY <1>1, <2>1, <2>2
<1>4. PICK k \in U : \A j \in U : k =< j
  BY <1>2, <1>3, LeastOf
<1>5. k \in 0 .. b /\ b - k \in S
  BY <1>1
<1>6. \A m \in S : m =< b - k
  <2>1. SUFFICES ASSUME NEW m \in S PROVE m =< b - k
    OBVIOUS
  <2>2. m \in 0 .. b /\ b - m \in 0 .. b /\ b - (b - m) = m
    OBVIOUS
  <2>3. b - m \in U
    BY <1>1, <2>2
  <2>4. QED
    BY <1>4, <1>5, <2>2, <2>3
<1>7. QED
  BY <1>5, <1>6

\* Finitely many numbers have a bound.
LEMMA BoundOf ==
  ASSUME NEW n \in Nat, NEW f, \A i \in 1 .. n : f[i] \in Nat
  PROVE  \E b \in Nat : \A i \in 1 .. n : f[i] =< b
<1>1. PICK W : W = {k \in 0 .. n : ~ \E b \in Nat : \A i \in 1 .. k : f[i] =< b}
  OBVIOUS
<1>2. SUFFICES ASSUME W # {} PROVE FALSE
  BY <1>1
<1>3. W \in SUBSET Nat
  BY <1>1
<1>4. PICK k \in W : \A j \in W : k =< j
  BY <1>2, <1>3, LeastOf
<1>5. k \in 0 .. n /\ ~ \E b \in Nat : \A i \in 1 .. k : f[i] =< b
  BY <1>1
<1>6. k # 0
  <2>1. \A i \in 1 .. 0 : f[i] =< 0
    OBVIOUS
  <2>2. QED
    BY <1>5, <2>1
<1>7. k - 1 \in 0 .. n /\ k - 1 \notin W
  BY <1>4, <1>5, <1>6
<1>8. PICK b \in Nat : \A i \in 1 .. k - 1 : f[i] =< b
  BY <1>1, <1>7
<1>9. f[k] \in Nat
  BY <1>5, <1>6
<1>10. b + f[k] \in Nat /\ b =< b + f[k] /\ f[k] =< b + f[k]
  BY <1>9
<1>11. \A i \in 1 .. k : f[i] =< b + f[k]
  <2>1. SUFFICES ASSUME NEW i \in 1 .. k PROVE f[i] =< b + f[k]
    OBVIOUS
  <2>2. CASE i = k
    BY <1>10, <2>2
  <2>3. CASE i # k
    <3>1. i \in 1 .. k - 1 /\ i \in 1 .. n
      BY <1>5, <2>3
    <3>2. f[i] \in Nat /\ f[i] =< b
      BY <1>8, <3>1
    <3>3. QED
      BY <1>9, <1>10, <3>2
  <2>4. QED
    BY <2>2, <2>3
<1>12. QED
  BY <1>5, <1>10, <1>11

\* A listing of a finite set in an order that is strict and total: each element once.
StrictTotal(S, before) ==
    /\ \A d \in S : <<d, d>> \notin before
    /\ \A d, e \in S : d # e => <<d, e>> \in before \/ <<e, d>> \in before
    /\ \A d, e, g \in S : <<d, e>> \in before /\ <<e, g>> \in before => <<d, g>> \in before

LEMMA ListedFacts ==
  ASSUME NEW S, IsFiniteSet(S), NEW before, StrictTotal(S, before)
  PROVE  /\ Listed(S, before) \in Seq(S)
         /\ DOMAIN Listed(S, before) = 1 .. Cardinality(S)
         /\ \A i, j \in DOMAIN Listed(S, before) :
               i # j => Listed(S, before)[i] # Listed(S, before)[j]
         /\ \A d \in S : \E i \in DOMAIN Listed(S, before) : Listed(S, before)[i] = d
<1>1. PICK n \in Nat : n = Cardinality(S)
  BY FS_CardinalityType
<1>2. PICK rank : rank = [d \in S |-> Cardinality({e \in S : <<e, d>> \in before}) + 1]
  OBVIOUS
<1>3. \A d \in S : /\ IsFiniteSet({e \in S : <<e, d>> \in before})
                   /\ Cardinality({e \in S : <<e, d>> \in before}) \in Nat
                   /\ Cardinality({e \in S : <<e, d>> \in before}) < n
  <2>1. SUFFICES ASSUME NEW d \in S
                 PROVE  /\ IsFiniteSet({e \in S : <<e, d>> \in before})
                        /\ Cardinality({e \in S : <<e, d>> \in before}) \in Nat
                        /\ Cardinality({e \in S : <<e, d>> \in before}) < n
    OBVIOUS
  <2>2. PICK U : U = {e \in S : <<e, d>> \in before}
    OBVIOUS
  <2>3. U \in SUBSET S /\ U # S
    BY <2>2 DEF StrictTotal
  <2>4. /\ IsFiniteSet(U) /\ Cardinality(U) <= Cardinality(S)
        /\ Cardinality(U) # Cardinality(S)
    BY <2>3, FS_Subset
  <2>5. Cardinality(U) \in Nat
    BY <2>4, FS_CardinalityType
  <2>6. QED
    BY <1>1, <2>2, <2>4, <2>5
<1>4. rank \in [S -> 1 .. n]
  <2>1. ASSUME NEW d \in S
        PROVE  rank[d] \in 1 .. n
    <3>1. PICK c : c = Cardinality({e \in S : <<e, d>> \in before})
      OBVIOUS
    <3>2. c \in Nat /\ c < n
      BY <1>3, <3>1
    <3>3. rank[d] = c + 1
      BY <1>2, <3>1
    <3>4. QED
      BY <3>2, <3>3
  <2>2. QED
    BY <1>2, <2>1
<1>5. ASSUME NEW d \in S, NEW e \in S, <<d, e>> \in before
      PROVE  rank[d] # rank[e]
  <2>1. PICK U, V : U = {g \in S : <<g, d>> \in before} /\ V = {g \in S : <<g, e>> \in before}
    OBVIOUS
  <2>2. U \in SUBSET V /\ d \in V /\ d \notin U
    BY <1>5, <2>1 DEF StrictTotal
  <2>3. U # V /\ IsFiniteSet(V)
    BY <1>3, <2>1, <2>2
  <2>4. Cardinality(U) # Cardinality(V) /\ Cardinality(U) <= Cardinality(V)
    BY <2>2, <2>3, FS_Subset
  <2>5. Cardinality(U) \in Nat /\ Cardinality(V) \in Nat
    BY <1>3, <2>1
  <2>6. QED
    BY <1>2, <2>1, <2>4, <2>5
<1>6. rank \in Injection(S, 1 .. n)
  <2>1. \A d, e \in S : rank[d] = rank[e] => d = e
    BY <1>5 DEF StrictTotal
  <2>2. QED
    BY <1>4, <2>1 DEF Injection, IsInjective
<1>7. rank \in Surjection(S, 1 .. n)
  <2>1. IsFiniteSet(1 .. n) /\ Cardinality(1 .. n) = n
    BY FS_Interval
  <2>2. QED
    BY <1>1, <1>6, <2>1, FS_Injection
<1>8. PICK s : s = Listed(S, before)
  OBVIOUS
<1>9. DOMAIN s = 1 .. n
  BY <1>1, <1>8 DEF Listed
<1>10. ASSUME NEW i \in 1 .. n
       PROVE  s[i] \in S /\ rank[s[i]] = i
  <2>1. PICK d \in S : rank[d] = i
    BY <1>7 DEF Surjection
  <2>6. ASSUME NEW x \in S
        PROVE  rank[x] = i <=> Cardinality({e \in S : <<e, x>> \in before}) = i - 1
    <3>1. PICK c : c = Cardinality({e \in S : <<e, x>> \in before})
      OBVIOUS
    <3>2. c \in Nat
      BY <1>3, <3>1
    <3>3. rank[x] = c + 1
      BY <1>2, <3>1
    <3>4. QED
      BY <3>1, <3>2, <3>3
  <2>2. Cardinality({e \in S : <<e, d>> \in before}) = i - 1
    BY <2>1, <2>6
  <2>3. s[i] = CHOOSE x \in S : Cardinality({e \in S : <<e, x>> \in before}) = i - 1
    BY <1>1, <1>8 DEF Listed
  <2>4. s[i] \in S /\ Cardinality({e \in S : <<e, s[i]>> \in before}) = i - 1
    BY <2>2, <2>3
  <2>5. QED
    BY <2>4, <2>6
<1>11. s \in Seq(S)
  <2>1. s = [i \in 1 .. n |-> CHOOSE d \in S : Cardinality({e \in S : <<e, d>> \in before}) = i - 1]
    BY <1>1, <1>8 DEF Listed
  <2>2. s \in [1 .. n -> S]
    BY <1>10, <2>1
  <2>3. QED
    BY <2>2, SeqDef
<1>12. \A i, j \in 1 .. n : i # j => s[i] # s[j]
  BY <1>10
<1>13. \A d \in S : \E i \in 1 .. n : s[i] = d
  <2>1. SUFFICES ASSUME NEW d \in S PROVE \E i \in 1 .. n : s[i] = d
    OBVIOUS
  <2>2. rank[d] \in 1 .. n
    BY <1>4
  <2>3. s[rank[d]] \in S /\ rank[s[rank[d]]] = rank[d]
    BY <1>10, <2>2
  <2>4. s[rank[d]] = d
    BY <1>6, <2>3 DEF Injection, IsInjective
  <2>5. QED
    BY <2>2, <2>4
<1>14. QED
  BY <1>1, <1>8, <1>9, <1>11, <1>12, <1>13

-----------------------------------------------------------------------------
(* Links from a memory to what it is deleted for.                          *)

\* Links never lead in a circle: of some memories, there is always one that is linked
\* to none of them.
Acyclic(links) ==
    \A n \in Nat : \A S \in SUBSET (1 .. n) :
        S # {} => \E x \in S : \A l \in links : l[1] = x => l[2] \notin S

\* Fewer links are no circle either.
LEMMA FewerLinks ==
  ASSUME NEW links, Acyclic(links), NEW fewer \in SUBSET links
  PROVE  Acyclic(fewer)
<1>1. SUFFICES ASSUME NEW n \in Nat, NEW S \in SUBSET (1 .. n), S # {}
               PROVE  \E x \in S : \A l \in fewer : l[1] = x => l[2] \notin S
  BY DEF Acyclic
<1>2. PICK x \in S : \A l \in links : l[1] = x => l[2] \notin S
  BY <1>1 DEF Acyclic
<1>3. QED
  BY <1>2

\* Links among what is there, after links of what is gone.
LEMMA MoreLinks ==
  ASSUME NEW links, Acyclic(links), NEW more, Acyclic(more), NEW there,
         \A l \in links : l[1] \notin there,
         \A l \in more : l[1] \in there /\ l[2] \in there
  PROVE  Acyclic(links \cup more)
<1>1. SUFFICES ASSUME NEW n \in Nat, NEW S \in SUBSET (1 .. n), S # {}
               PROVE  \E x \in S : \A l \in links \cup more : l[1] = x => l[2] \notin S
  BY DEF Acyclic
<1>2. CASE S \cap there = {}
  <2>1. PICK x \in S : \A l \in links : l[1] = x => l[2] \notin S
    BY <1>1 DEF Acyclic
  <2>2. QED
    BY <1>2, <2>1
<1>3. CASE S \cap there # {}
  <2>1. PICK U \in SUBSET (1 .. n) : U = S \cap there
    OBVIOUS
  <2>2. PICK x \in U : \A l \in more : l[1] = x => l[2] \notin U
    BY <1>3, <2>1 DEF Acyclic
  <2>3. QED
    BY <2>1, <2>2
<1>4. QED
  BY <1>2, <1>3

\* Each for a newer one.
LEMMA RisingLinks ==
  ASSUME NEW k \in Nat, NEW f, \A i \in 1 .. k : f[i] \in Nat,
         NEW links,
         \A l \in links : l[1] \in 1 .. k /\ l[2] \in 1 .. k /\ f[l[1]] < f[l[2]]
  PROVE  Acyclic(links)
<1>1. SUFFICES ASSUME NEW n \in Nat, NEW S \in SUBSET (1 .. n), S # {}
               PROVE  \E x \in S : \A l \in links : l[1] = x => l[2] \notin S
  BY DEF Acyclic
<1>2. CASE \E x \in S : x \notin 1 .. k
  BY <1>2
<1>3. CASE S \subseteq 1 .. k
  <2>1. PICK b \in Nat : \A i \in 1 .. k : f[i] =< b
    BY BoundOf
  <2>2. PICK T : T = {f[x] : x \in S}
    OBVIOUS
  <2>3. T \in SUBSET (0 .. b) /\ T # {}
    <3>1. \A i \in 1 .. k : f[i] \in 0 .. b
      BY <2>1
    <3>2. \A x \in S : f[x] \in 0 .. b
      BY <1>3, <3>1
    <3>3. QED
      BY <1>1, <2>2, <3>2
  <2>4. PICK t \in T : \A u \in T : u =< t
    BY <2>3, GreatestOf
  <2>5. PICK x \in S : t = f[x]
    BY <2>2
  <2>6. \A l \in links : l[1] = x => l[2] \notin S
    <3>1. SUFFICES ASSUME NEW l \in links, l[1] = x, l[2] \in S PROVE FALSE
      OBVIOUS
    <3>2. f[x] < f[l[2]] /\ f[l[2]] =< f[x] /\ f[x] \in Nat /\ f[l[2]] \in Nat
      BY <1>3, <2>2, <2>4, <2>5, <3>1
    <3>3. QED
      BY <3>2
  <2>7. QED
    BY <2>6
<1>4. QED
  BY <1>2, <1>3

-----------------------------------------------------------------------------
(* What is dropped of near duplicates.                                     *)

\* No memory twice.
Distinct(seq) == \A i, j \in DOMAIN seq : i # j => seq[i] # seq[j]

\* The one of a pair that is kept.
Winner(picked, p) ==
    IF Loser(picked, p) = picked[p[1]] THEN picked[p[2]] ELSE picked[p[1]]

\* Of a pair, one is dropped and the other is not.
LEMMA PairFacts ==
  ASSUME NEW picked \in Seq(Nat), Distinct(picked), NEW p \in Pairs(picked)
  PROVE  /\ p = <<p[1], p[2]>> /\ p[1] \in DOMAIN picked /\ p[2] \in DOMAIN picked
         /\ p[1] \in Nat /\ p[2] \in Nat /\ p[1] < p[2]
         /\ picked[p[1]] # picked[p[2]]
         /\ \/ Loser(picked, p) = picked[p[1]] /\ Winner(picked, p) = picked[p[2]]
            \/ Loser(picked, p) = picked[p[2]] /\ Winner(picked, p) = picked[p[1]]
         /\ Loser(picked, p) # Winner(picked, p)
         /\ Loser(picked, p) \in kb /\ Winner(picked, p) \in kb
         /\ {picked[p[1]], picked[p[2]]} \ {Loser(picked, p)} = {Winner(picked, p)}
<1>1. /\ p \in (DOMAIN picked) \X (DOMAIN picked) /\ p[1] < p[2]
      /\ picked[p[1]] \in kb /\ picked[p[2]] \in kb
  BY DEF Pairs
<1>2. /\ p = <<p[1], p[2]>> /\ p[1] \in DOMAIN picked /\ p[2] \in DOMAIN picked
  BY <1>1
<1>3. p[1] \in Nat /\ p[2] \in Nat
  BY <1>2, LenProperties
<1>4. picked[p[1]] # picked[p[2]]
  BY <1>1, <1>2, <1>3 DEF Distinct
<1>5. Loser(picked, p) = picked[p[1]] \/ Loser(picked, p) = picked[p[2]]
  BY DEF Loser, Worse
<1>6. QED
  BY <1>1, <1>2, <1>3, <1>4, <1>5 DEF Winner

DropLinks(picked, dropping) ==
    {l \in Nat \X Nat : \E p \in dropping : l[1] = Loser(picked, p) /\ l[2] = Winner(picked, p)}

\* They are dropped for one another without a circle.
LEMMA DropsAcyclic ==
  ASSUME NEW picked \in Seq(Nat), Distinct(picked), NEW dropping \in Drops(picked)
  PROVE  Acyclic(DropLinks(picked, dropping))
<1>1. PICK k \in Nat : k = Len(picked) /\ DOMAIN picked = 1 .. k
  BY LenProperties
<1>2. /\ dropping \subseteq Pairs(picked)
      /\ \A p, q \in dropping :
            /\ q[1] < p[1] => Loser(picked, q) # picked[p[1]]
            /\ q[1] < p[1] => Loser(picked, q) # picked[p[2]]
            /\ q[1] = p[1] /\ q[2] < p[2] => Loser(picked, q) # picked[p[2]]
  BY DEF Drops, Earlier
<1>3. SUFFICES ASSUME NEW n \in Nat, NEW S \in SUBSET (1 .. n), S # {}
               PROVE  \E x \in S : \A l \in DropLinks(picked, dropping) :
                         l[1] = x => l[2] \notin S
  BY DEF Acyclic
<1>4. PICK inner : inner = {p \in dropping : Loser(picked, p) \in S /\ Winner(picked, p) \in S}
  OBVIOUS
<1>5. ASSUME NEW x \in S, \A p \in inner : Loser(picked, p) # x
      PROVE  \A l \in DropLinks(picked, dropping) : l[1] = x => l[2] \notin S
  BY <1>4, <1>5 DEF DropLinks
<1>6. CASE inner = {}
  BY <1>3, <1>5, <1>6
<1>7. CASE inner # {}
  <2>1. PICK T : T = {p[1] : p \in inner}
    OBVIOUS
  <2>2. \A p \in inner : /\ p \in dropping /\ p \in Pairs(picked)
                         /\ p[1] \in 0 .. k /\ p[1] \in DOMAIN picked /\ p[2] \in DOMAIN picked
                         /\ p[1] \in Nat /\ p[2] \in Nat /\ p[1] < p[2]
    BY <1>1, <1>2, <1>4, PairFacts
  <2>3. T \in SUBSET (0 .. k) /\ T # {}
    BY <1>7, <2>1, <2>2
  <2>4. PICK a \in T : \A b \in T : b =< a
    BY <2>3, GreatestOf
  <2>5. PICK p \in inner : p[1] = a
    BY <2>1
  <2>6. \A q \in inner : q[1] =< p[1]
    BY <2>1, <2>4, <2>5
  \* The last to be compared with others goes for one of them: that one stays.
  <2>7. ASSUME NEW q \in inner, q[1] = p[1], Loser(picked, q) = picked[q[1]]
        PROVE  picked[q[2]] \in S /\ \A o \in inner : Loser(picked, o) # picked[q[2]]
    <3>1. picked[q[2]] = Winner(picked, q) /\ Loser(picked, q) # Winner(picked, q)
      BY <2>2, <2>7, PairFacts
    <3>2. ASSUME NEW o \in inner, Loser(picked, o) = picked[q[2]]
          PROVE  FALSE
      <4>1. o[1] =< q[1] /\ o[1] \in Nat /\ q[1] \in Nat /\ o[2] \in Nat /\ q[2] \in Nat
        BY <2>2, <2>6, <2>7
      <4>2. ~(o[1] < q[1])
        BY <1>2, <2>2, <3>2
      <4>3. o[1] = q[1]
        BY <4>1, <4>2
      <4>4. picked[o[1]] # picked[q[2]]
        BY <2>2, <3>1, <2>7, <4>3, PairFacts
      <4>5. Loser(picked, o) = picked[o[2]]
        BY <2>2, <3>2, <4>4, PairFacts
      <4>6. o[2] = q[2]
        BY <2>2, <3>2, <4>5 DEF Distinct
      <4>7. Loser(picked, o) = Loser(picked, q)
        BY <4>3, <4>6 DEF Loser
      <4>8. QED
        BY <3>1, <3>2, <4>7
    <3>3. QED
      BY <1>4, <3>1, <3>2
  \* Otherwise it stays itself.
  <2>8. ASSUME \A q \in inner : q[1] = p[1] => Loser(picked, q) # picked[q[1]]
        PROVE  picked[p[1]] \in S /\ \A o \in inner : Loser(picked, o) # picked[p[1]]
    <3>1. Loser(picked, p) # picked[p[1]]
      BY <2>8
    <3>2. Winner(picked, p) = picked[p[1]]
      BY <3>1, <2>2, PairFacts
    <3>3. ASSUME NEW o \in inner, Loser(picked, o) = picked[p[1]]
          PROVE  FALSE
      <4>1. o[1] =< p[1] /\ o[1] \in Nat /\ p[1] \in Nat /\ o[2] \in Nat /\ o[1] < o[2]
        BY <2>2, <2>6
      <4>2. ~(o[1] < p[1])
        BY <1>2, <2>2, <3>3
      <4>3. o[1] = p[1]
        BY <4>1, <4>2
      <4>4. QED
        BY <2>8, <3>3, <4>3
    <3>4. QED
      BY <1>4, <3>2, <3>3
  <2>9. CASE \E q \in inner : q[1] = p[1] /\ Loser(picked, q) = picked[q[1]]
    <3>1. PICK q \in inner : q[1] = p[1] /\ Loser(picked, q) = picked[q[1]]
      BY <2>9
    <3>2. PICK x : x = picked[q[2]]
      OBVIOUS
    <3>3. x \in S /\ \A o \in inner : Loser(picked, o) # x
      BY <2>7, <3>1, <3>2
    <3>4. QED
      BY <1>5, <3>3
  <2>10. CASE \A q \in inner : q[1] = p[1] => Loser(picked, q) # picked[q[1]]
    <3>1. PICK x : x = picked[p[1]]
      OBVIOUS
    <3>2. x \in S /\ \A o \in inner : Loser(picked, o) # x
      BY <2>8, <2>10, <3>1
    <3>3. QED
      BY <1>5, <3>2
  <2>11. QED
    BY <2>9, <2>10
<1>8. QED
  BY <1>6, <1>7

-----------------------------------------------------------------------------
(* The inductive invariant.                                                *)

Doc ==
    [kind : {"episodic", "semantic"}, title : Nat, time : Nat, length : Nat, expired : BOOLEAN,
     from : SUBSET Nat, near : SUBSET Nat, theme : SUBSET Nat]

Drop == [doc : Nat, heirs : SUBSET Nat]

Round ==
    [pc : {"idle", "collect", "judge", "dedup", "ttl"}, mark : Nat, picked : Seq(Nat),
     groups : SUBSET SUBSET Nat, calls : Nat, doomed : Seq(Drop)]

History ==
    [stock : SUBSET Nat, judged : SUBSET Nat, forgotten : SUBSET Nat, heirs : SUBSET (Nat \X Nat),
     overlap : BOOLEAN]

TypeOK ==
    /\ docs \in Seq(Doc)
    /\ kb \subseteq DOMAIN docs
    /\ mark \in Nat
    /\ rounds \in [Rounds -> Round]
    /\ seen \in History
    /\ seen.stock \subseteq DOMAIN docs

\* What a round works on is known, and what it is to delete it deletes for something;
\* it has nothing to delete before it looked at the batch.
Fits(round) ==
    /\ Distinct(round.picked)
    /\ \A group \in round.groups : group \subseteq DOMAIN docs
    /\ round.pc \in {"idle", "collect", "judge"} => round.doomed = <<>>
    /\ \A i \in DOMAIN round.doomed :
          /\ round.doomed[i].doc \in DOMAIN docs
          /\ round.doomed[i].heirs # {}
          /\ round.doomed[i].heirs \subseteq DOMAIN docs

\* Rounds do not overlap as long as none was started beside another.
OneAtATime ==
    ~seen.overlap => \A r, s \in Rounds : ~At(r, "idle") /\ ~At(s, "idle") => r = s

\* What was retired was retired for something.
Accounted ==
    /\ \A d \in Retired : \E l \in seen.heirs : l[1] = d
    /\ \A l \in seen.heirs : l[1] \in DOMAIN docs /\ l[1] \notin kb /\ l[2] \in DOMAIN docs

\* A memory was made of older ones; those that were added have a time of their own.
MadeOfOlder ==
    \A d \in DOMAIN docs : \A source \in docs[d].from \ {0} :
        /\ source \in DOMAIN docs
        /\ docs[d].time = NoTime \/ docs[source].time < docs[d].time

AddedApart ==
    \A d \in (DOMAIN docs) \ seen.stock :
        docs[d].time # NoTime /\ \A e \in DOMAIN docs : e # d => docs[e].time # docs[d].time

\* What is still to be deleted, and for what.
LinksOf(doomed) ==
    {l \in Nat \X Nat : \E i \in DOMAIN doomed : l[1] = doomed[i].doc /\ l[2] \in doomed[i].heirs}

Planned == {l \in Nat \X Nat : \E r \in Rounds : l \in LinksOf(rounds[r].doomed)}

Links == seen.heirs \cup Planned

ForNewer == Ranked => \A l \in Links : docs[l[1]].time < docs[l[2]].time

NoCircle == ~seen.overlap => Acyclic(Links)

Memories == Accounted /\ MadeOfOlder /\ AddedApart

Inv ==
    /\ TypeOK /\ Memories
    /\ \A r \in Rounds : Fits(rounds[r])
    /\ OneAtATime /\ ForNewer /\ NoCircle

\* What a sequence of memories is.
LEMMA DocFacts ==
  ASSUME TypeOK
  PROVE  \E k \in Nat : /\ k = Len(docs) /\ DOMAIN docs = 1 .. k
                        /\ \A d \in 1 .. k : docs[d] \in Doc
                        /\ kb \subseteq 1 .. k /\ IsFiniteSet(kb)
<1>1. PICK k \in Nat : k = Len(docs) /\ DOMAIN docs = 1 .. k
  BY LenProperties DEF TypeOK
<1>2. \A d \in 1 .. k : docs[d] \in Doc
  BY <1>1, ElementOfSeq DEF TypeOK
<1>3. kb \in SUBSET (1 .. k)
  BY <1>1 DEF TypeOK
<1>4. IsFiniteSet(1 .. k)
  BY FS_Interval
<1>5. IsFiniteSet(kb)
  BY <1>3, <1>4, FS_Subset
<1>6. QED
  BY <1>1, <1>2, <1>3, <1>5

\* The order of a listing by time is strict and total.
LEMMA ByTimeFacts ==
  ASSUME TypeOK, NEW S \in SUBSET kb
  PROVE  ByTime(S) \in Seq(kb) /\ Distinct(ByTime(S)) /\ \A i \in DOMAIN ByTime(S) : ByTime(S)[i] \in S
<1>1. PICK k \in Nat : /\ \A d \in 1 .. k : docs[d] \in Doc
                       /\ kb \subseteq 1 .. k /\ IsFiniteSet(kb)
  BY DocFacts
<1>2. IsFiniteSet(S)
  BY <1>1, FS_Subset
<1>3. \A d \in S : d \in Nat /\ docs[d].title \in Nat
  BY <1>1 DEF Doc
<1> DEFINE Newer(d, e) == \/ docs[d].title > docs[e].title
                          \/ docs[d].title = docs[e].title /\ d < e
<1>4. PICK before : before = {p \in S \X S : Newer(p[1], p[2])}
  OBVIOUS
<1>5. \A d, e \in S : <<d, e>> \in before <=> Newer(d, e)
  BY <1>4
<1>6. StrictTotal(S, before)
  BY <1>3, <1>5 DEF StrictTotal
<1>7. ByTime(S) = Listed(S, before)
  BY <1>4 DEF ByTime
<1>8. PICK s : s = Listed(S, before)
  OBVIOUS
<1>9. s \in Seq(S) /\ Distinct(s)
  BY <1>2, <1>6, <1>8, ListedFacts DEF Distinct
<1>10. s \in Seq(kb) /\ \A i \in DOMAIN s : s[i] \in S
  BY <1>9, SeqMonotonic, ElementOfSeq, LenProperties
<1>11. QED
  BY <1>7, <1>8, <1>9, <1>10

\* Two sequences without anything in common, one behind the other.
LEMMA DistinctConcat ==
  ASSUME NEW S, NEW a \in Seq(S), NEW b \in Seq(S), Distinct(a), Distinct(b),
         \A i \in DOMAIN a, j \in DOMAIN b : a[i] # b[j]
  PROVE  a \o b \in Seq(S) /\ Distinct(a \o b)
<1>1. PICK m \in Nat, n \in Nat : m = Len(a) /\ DOMAIN a = 1 .. m /\ n = Len(b) /\ DOMAIN b = 1 .. n
  BY LenProperties
<1>2. PICK c : c = a \o b
  OBVIOUS
<1>3. /\ c \in Seq(S) /\ Len(c) = m + n
      /\ \A i \in 1 .. m + n : c[i] = IF i <= m THEN a[i] ELSE b[i - m]
  BY <1>1, <1>2, ConcatProperties
<1>4. DOMAIN c = 1 .. m + n
  BY <1>3, LenProperties
<1>5. ASSUME NEW i \in 1 .. m + n, NEW j \in 1 .. m + n, i < j
      PROVE  c[i] # c[j]
  <2>1. CASE j <= m
    <3>1. i \in 1 .. m /\ j \in 1 .. m /\ c[i] = a[i] /\ c[j] = a[j]
      BY <1>3, <1>5, <2>1
    <3>2. QED
      BY <1>1, <1>5, <3>1 DEF Distinct
  <2>2. CASE ~(i <= m)
    <3>1. i - m \in 1 .. n /\ j - m \in 1 .. n /\ i - m # j - m /\ ~(j <= m)
      BY <1>5, <2>2
    <3>2. c[i] = b[i - m] /\ c[j] = b[j - m]
      BY <1>3, <2>2, <3>1
    <3>3. QED
      BY <1>1, <3>1, <3>2 DEF Distinct
  <2>3. CASE i <= m /\ ~(j <= m)
    <3>1. i \in 1 .. m /\ j - m \in 1 .. n
      BY <1>5, <2>3
    <3>2. c[i] = a[i] /\ c[j] = b[j - m]
      BY <1>3, <2>3
    <3>3. QED
      BY <1>1, <3>1, <3>2
  <2>4. QED
    BY <2>1, <2>2, <2>3
<1>6. Distinct(c)
  <2>1. ASSUME NEW i \in 1 .. m + n, NEW j \in 1 .. m + n, i # j
        PROVE  c[i] # c[j]
    <3>1. i < j \/ j < i
      BY <2>1
    <3>2. QED
      BY <1>5, <3>1
  <2>2. QED
    BY <1>4, <2>1 DEF Distinct
<1>7. QED
  BY <1>2, <1>3, <1>6

\* A batch is of what is there, and holds nothing twice.
LEMMA WindowFacts ==
  ASSUME TypeOK, NEW below
  PROVE  Window(below) \in Seq(kb) /\ Distinct(Window(below))
<1>1. PICK backlog \in SUBSET kb : backlog = {d \in kb : docs[d].title < below}
  OBVIOUS
<1>2. PICK rest \in SUBSET kb : rest = kb \ backlog
  OBVIOUS
<1>3. PICK a, b : a = ByTime(backlog) /\ b = ByTime(rest)
  OBVIOUS
<1>4. /\ a \in Seq(kb) /\ Distinct(a) /\ \A i \in DOMAIN a : a[i] \in backlog
      /\ b \in Seq(kb) /\ Distinct(b) /\ \A i \in DOMAIN b : b[i] \in rest
  BY <1>3, ByTimeFacts
<1>5. PICK c : c = a \o b
  OBVIOUS
<1>6. c \in Seq(kb) /\ Distinct(c)
  <2>1. \A i \in DOMAIN a, j \in DOMAIN b : a[i] # b[j]
    BY <1>2, <1>4
  <2>2. QED
    BY <1>4, <1>5, <2>1, DistinctConcat
<1>7. PICK n \in Nat : n = Len(c) /\ DOMAIN c = 1 .. n
  BY <1>6, LenProperties
<1>8. PICK m : m = Min({BatchSize, n})
  OBVIOUS
<1>9. m \in Nat /\ m <= n
  <2>1. BatchSize \in Nat
    BY ConsolidationAssumption
  <2>2. \E x \in {BatchSize, n} : \A y \in {BatchSize, n} : x =< y
    BY <2>1
  <2>3. m \in {BatchSize, n} /\ \A y \in {BatchSize, n} : m =< y
    BY <1>8, <2>2 DEF Min
  <2>4. QED
    BY <2>1, <2>3
<1>10. PICK w : w = SubSeq(c, 1, m)
  OBVIOUS
<1>11. w = Window(below)
  BY <1>1, <1>2, <1>3, <1>5, <1>7, <1>8, <1>10 DEF Window
<1>12. \A i \in 1 .. m : c[i] \in kb
  BY <1>6, <1>7, <1>9, ElementOfSeq
<1>13. /\ w \in Seq(kb) /\ DOMAIN w = 1 .. m /\ \A i \in 1 .. m : w[i] = c[i]
  <2>1. /\ SubSeq(c, 1, m) \in Seq(kb)
        /\ Len(SubSeq(c, 1, m)) = IF 1 <= m THEN m - 1 + 1 ELSE 0
        /\ \A i \in 1 .. m - 1 + 1 : SubSeq(c, 1, m)[i] = c[1 + i - 1]
    BY <1>9, <1>12, SubSeqProperties
  <2>2. Len(w) = m
    BY <1>9, <1>10, <2>1
  <2>3. \A i \in 1 .. m : w[i] = c[i]
    BY <1>9, <1>10, <2>1
  <2>4. QED
    BY <1>10, <2>1, <2>2, <2>3, LenProperties
<1>14. Distinct(w)
  BY <1>6, <1>7, <1>9, <1>13 DEF Distinct
<1>15. QED
  BY <1>11, <1>13, <1>14

\* The watermark of a batch is a time.
LEMMA LoweredFacts ==
  ASSUME TypeOK, NEW below \in Nat, NEW picked \in Seq(kb)
  PROVE  Lowered(below, picked) \in Nat
<1>1. PICK k \in Nat : /\ \A d \in 1 .. k : docs[d] \in Doc
                       /\ kb \subseteq 1 .. k
  BY DocFacts
<1>2. PICK T : T = {below} \cup {docs[d].title : d \in Range(picked)}
  OBVIOUS
<1>3. Range(picked) \subseteq kb
  BY LenProperties, ElementOfSeq DEF Range
<1>4. T \in SUBSET Nat /\ T # {}
  BY <1>1, <1>2, <1>3 DEF Doc
<1>5. \E x \in T : \A y \in T : x =< y
  BY <1>4, LeastOf
<1>6. Min(T) \in T
  BY <1>5 DEF Min
<1>7. QED
  BY <1>2, <1>4, <1>6 DEF Lowered

\* The time of what is added is later than any other.
LEMMA NewestFacts ==
  ASSUME TypeOK
  PROVE  Newest \in Nat /\ Newest # NoTime /\ \A d \in DOMAIN docs : docs[d].time < Newest
<1>1. PICK k \in Nat : /\ DOMAIN docs = 1 .. k /\ \A d \in 1 .. k : docs[d] \in Doc
  BY DocFacts
<1>2. PICK time : time = [d \in 1 .. k |-> docs[d].time]
  OBVIOUS
<1>3. \A d \in 1 .. k : time[d] \in Nat
  BY <1>1, <1>2 DEF Doc
<1>4. PICK b \in Nat : \A d \in 1 .. k : time[d] =< b
  BY <1>3, BoundOf
<1>5. PICK T : T = {NoTime} \cup {docs[d].time : d \in DOMAIN docs}
  OBVIOUS
<1>6. T \in SUBSET (0 .. b) /\ NoTime \in T
  BY <1>1, <1>2, <1>3, <1>4, <1>5 DEF NoTime
<1>7. \E n \in T : \A m \in T : m =< n
  BY <1>6, GreatestOf
<1>8. \E n \in T : \A m \in T : n >= m
  BY <1>6, <1>7
<1>9. Max(T) \in T /\ \A m \in T : Max(T) >= m
  BY <1>8 DEF Max
<1>10. Max(T) \in Nat /\ Newest = 1 + Max(T)
  BY <1>5, <1>6, <1>9 DEF Newest
<1>11. \A d \in DOMAIN docs : docs[d].time \in T /\ docs[d].time \in Nat
  BY <1>1, <1>5 DEF Doc
<1>12. QED
  BY <1>9, <1>10, <1>11 DEF NoTime

-----------------------------------------------------------------------------
(* What the steps of a round have in common.                               *)

\* Links are between memories.
LEMMA LinksTyped ==
  ASSUME Inv
  PROVE  \A l \in Links : l[1] \in DOMAIN docs /\ l[2] \in DOMAIN docs
<1>1. \A l \in seen.heirs : l[1] \in DOMAIN docs /\ l[2] \in DOMAIN docs
  BY DEF Inv, Memories, Accounted
<1>2. \A l \in Planned : l[1] \in DOMAIN docs /\ l[2] \in DOMAIN docs
  <2>1. SUFFICES ASSUME NEW l \in Planned PROVE l[1] \in DOMAIN docs /\ l[2] \in DOMAIN docs
    OBVIOUS
  <2>2. PICK r \in Rounds : l \in LinksOf(rounds[r].doomed)
    BY <2>1 DEF Planned
  <2>3. PICK i \in DOMAIN rounds[r].doomed : /\ l[1] = rounds[r].doomed[i].doc
                                            /\ l[2] \in rounds[r].doomed[i].heirs
    BY <2>2 DEF LinksOf
  <2>4. Fits(rounds[r])
    BY DEF Inv
  <2>5. QED
    BY <2>3, <2>4 DEF Fits
<1>3. QED
  BY <1>1, <1>2 DEF Links

\* No links are added, and the memories there were keep their times.
LEMMA LinksStay ==
  ASSUME Inv, Links' \subseteq Links, seen'.stock = seen.stock,
         ~seen'.overlap => ~seen.overlap,
         \A d \in DOMAIN docs : docs'[d] = docs[d]
  PROVE  ForNewer' /\ NoCircle'
<1>1. ASSUME Ranked', NEW l \in Links'
      PROVE  docs'[l[1]].time < docs'[l[2]].time
  <2>1. \A d \in seen.stock :
            docs'[d].time # NoTime /\ \A e \in seen.stock \ {d} : docs'[e].time # docs'[d].time
    BY <1>1 DEF Ranked
  <2>2. seen.stock \subseteq DOMAIN docs
    BY DEF Inv, TypeOK
  <2>3. Ranked
    BY <2>1, <2>2 DEF Ranked
  <2>4. docs[l[1]].time < docs[l[2]].time
    BY <1>1, <2>3 DEF Inv, ForNewer
  <2>5. l[1] \in DOMAIN docs /\ l[2] \in DOMAIN docs
    BY <1>1, LinksTyped
  <2>6. QED
    BY <2>4, <2>5
<1>2. ASSUME ~seen'.overlap
      PROVE  Acyclic(Links')
  <2>1. Acyclic(Links)
    BY <1>2 DEF Inv, NoCircle
  <2>2. PICK L, M : L = Links /\ M = Links'
    OBVIOUS
  <2>3. Acyclic(M)
    BY <2>1, <2>2, FewerLinks
  <2>4. QED
    BY <2>2, <2>3
<1>3. ForNewer'
  BY <1>1 DEF ForNewer
<1>4. NoCircle'
  BY <1>2 DEF NoCircle, Acyclic
<1>5. QED
  BY <1>3, <1>4

\* One round moves on: what is planned.
LEMMA PlannedOf ==
  ASSUME Inv, NEW r \in Rounds, NEW R \in Round, rounds' = [rounds EXCEPT ![r] = R]
  PROVE  /\ rounds' \in [Rounds -> Round] /\ rounds'[r] = R
         /\ \A s \in Rounds : s # r => rounds'[s] = rounds[s]
         /\ \A l \in Planned' : l \in Planned \/ l \in LinksOf(R.doomed)
         /\ LinksOf(rounds[r].doomed) \subseteq Planned
<1>1. rounds \in [Rounds -> Round]
  BY DEF Inv, TypeOK
<1>2. /\ rounds' \in [Rounds -> Round] /\ rounds'[r] = R
      /\ \A s \in Rounds : s # r => rounds'[s] = rounds[s]
  BY <1>1
<1>3. ASSUME NEW l \in Planned'
      PROVE  l \in Planned \/ l \in LinksOf(R.doomed)
  <2>1. /\ l \in Nat \X Nat
        /\ \E s \in Rounds : l \in LinksOf(rounds'[s].doomed)
    BY <1>3 DEF Planned, LinksOf
  <2>2. PICK s \in Rounds : l \in LinksOf(rounds'[s].doomed)
    BY <2>1
  <2>3. CASE s = r
    BY <1>2, <2>2, <2>3
  <2>4. CASE s # r
    <3>1. rounds'[s] = rounds[s]
      BY <1>2, <2>4
    <3>2. QED
      BY <2>1, <2>2, <3>1 DEF Planned
  <2>5. QED
    BY <2>3, <2>4
<1>4. LinksOf(rounds[r].doomed) \subseteq Planned
  BY DEF Planned, LinksOf
<1>5. QED
  BY <1>2, <1>3, <1>4

\* One round moves on, and begins only when it is alone or the rounds overlap.
LEMMA RoundMoves ==
  ASSUME Inv, NEW r \in Rounds, NEW R \in Round, rounds' = [rounds EXCEPT ![r] = R], Fits(R),
         docs' = docs,
         ~seen'.overlap => /\ ~seen.overlap
                           /\ R.pc # "idle" /\ At(r, "idle") => \A s \in Rounds : At(s, "idle")
  PROVE  (\A s \in Rounds : Fits(rounds[s]))' /\ OneAtATime'
<1>1. /\ rounds'[r] = R
      /\ \A s \in Rounds : s # r => rounds'[s] = rounds[s]
  BY PlannedOf
<1>2. ASSUME NEW s \in Rounds
      PROVE  Fits(rounds[s])'
  <2>1. Fits(rounds'[s])
    BY <1>1 DEF Inv
  <2>2. QED
    BY <2>1 DEF Fits, Distinct
<1>3. OneAtATime'
  <2>1. SUFFICES ASSUME ~seen'.overlap, NEW s \in Rounds, NEW t \in Rounds,
                        rounds'[s].pc # "idle", rounds'[t].pc # "idle", s # t
                 PROVE  FALSE
    BY DEF OneAtATime, At
  <2>2. \A x, y \in Rounds : rounds[x].pc # "idle" /\ rounds[y].pc # "idle" => x = y
    BY <2>1 DEF Inv, OneAtATime, At
  <2>3. R.pc # "idle" /\ rounds[r].pc = "idle" => \A x \in Rounds : rounds[x].pc = "idle"
    BY <2>1 DEF At
  <2>4. QED
    BY <1>1, <2>1, <2>2, <2>3
<1>4. QED
  BY <1>2, <1>3

\* A step of a round that deletes nothing and plans nothing new.
LEMMA QuietStep ==
  ASSUME Inv, NEW r \in Rounds, NEW R \in Round, rounds' = [rounds EXCEPT ![r] = R], Fits(R),
         R.doomed = <<>> \/ R.doomed = rounds[r].doomed,
         docs' = docs, kb' = kb, mark' \in Nat, seen' \in History,
         seen'.stock = seen.stock, seen'.forgotten = seen.forgotten, seen'.heirs = seen.heirs,
         ~seen'.overlap => /\ ~seen.overlap
                           /\ R.pc # "idle" /\ At(r, "idle") => \A s \in Rounds : At(s, "idle")
  PROVE  Inv'
<1>1. (\A s \in Rounds : Fits(rounds[s]))' /\ OneAtATime'
  BY RoundMoves
<1>2. TypeOK'
  BY PlannedOf DEF Inv, TypeOK
<1>3. Memories'
  BY DEF Inv, Memories, Accounted, Retired, MadeOfOlder, AddedApart
<1>4. LinksOf(R.doomed) \subseteq Planned
  <2>1. LinksOf(<<>>) = {}
    BY DEF LinksOf
  <2>2. QED
    BY <2>1, PlannedOf
<1>5. Links' \subseteq Links
  <2>1. Planned' \subseteq Planned
    BY <1>4, PlannedOf
  <2>2. QED
    BY <2>1 DEF Links
<1>6. ForNewer' /\ NoCircle'
  BY <1>5, LinksStay
<1>7. QED
  BY <1>1, <1>2, <1>3, <1>6 DEF Inv

\* A step of a round that makes a plan, of what is there.
LEMMA PlanStep ==
  ASSUME Inv, NEW r \in Rounds, NEW R \in Round, rounds' = [rounds EXCEPT ![r] = R], Fits(R),
         ~At(r, "idle"), rounds[r].doomed = <<>>,
         docs' = docs, kb' = kb, mark' \in Nat, seen' \in History,
         seen'.stock = seen.stock, seen'.forgotten = seen.forgotten, seen'.heirs = seen.heirs,
         seen'.overlap = seen.overlap,
         Acyclic(LinksOf(R.doomed)),
         \A l \in LinksOf(R.doomed) : l[1] \in kb /\ l[2] \in kb,
         Ranked => \A l \in LinksOf(R.doomed) : docs[l[1]].time < docs[l[2]].time
  PROVE  Inv'
<1>1. (\A s \in Rounds : Fits(rounds[s]))' /\ OneAtATime'
  BY RoundMoves
<1>2. TypeOK'
  BY PlannedOf DEF Inv, TypeOK
<1>3. Memories'
  BY DEF Inv, Memories, Accounted, Retired, MadeOfOlder, AddedApart
<1>4. \A l \in Links' : l \in Links \/ l \in LinksOf(R.doomed)
  BY PlannedOf DEF Links
<1>5. ForNewer'
  <2>1. SUFFICES ASSUME Ranked, NEW l \in Links' PROVE docs[l[1]].time < docs[l[2]].time
    BY DEF ForNewer, Ranked
  <2>2. QED
    BY <1>4, <2>1 DEF Inv, ForNewer
<1>6. NoCircle'
  <2>1. SUFFICES ASSUME ~seen.overlap PROVE Acyclic(Links')
    BY DEF NoCircle, Acyclic
  <2>2. \A s \in Rounds : rounds[s].doomed = <<>>
    <3>1. SUFFICES ASSUME NEW s \in Rounds, s # r PROVE rounds[s].doomed = <<>>
      OBVIOUS
    <3>2. rounds[s].pc = "idle"
      BY <2>1, <3>1 DEF Inv, OneAtATime, At
    <3>3. QED
      BY <3>2 DEF Inv, Fits
  <2>3. Planned = {}
    BY <2>2 DEF Planned, LinksOf
  <2>4. PICK L, V, K : L = seen.heirs /\ V = LinksOf(R.doomed) /\ K = kb
    OBVIOUS
  <2>5. Acyclic(L)
    BY <2>1, <2>3, <2>4 DEF Inv, NoCircle, Links
  <2>6. \A l \in L : l[1] \notin K
    BY <2>4 DEF Inv, Memories, Accounted
  <2>7. Acyclic(V) /\ \A l \in V : l[1] \in K /\ l[2] \in K
    BY <2>4
  <2>8. Acyclic(L \cup V)
    BY <2>5, <2>6, <2>7, MoreLinks
  <2>9. PICK M : M = Links'
    OBVIOUS
  <2>10. M \subseteq L \cup V
    BY <1>4, <2>3, <2>4, <2>9 DEF Links
  <2>11. Acyclic(M)
    BY <2>8, <2>10, FewerLinks
  <2>12. QED
    BY <2>9, <2>11
<1>7. QED
  BY <1>1, <1>2, <1>3, <1>5, <1>6 DEF Inv

-----------------------------------------------------------------------------
(* The steps of a round.                                                   *)

LEMMA StartRoundStep ==
  ASSUME Inv, NEW r \in Rounds, StartRound(r)
  PROVE  Inv'
<1>1. PICK R : /\ rounds' = [rounds EXCEPT ![r] = R]
               /\ \E m \in {mark, rounds[r].mark} :
                     R = [rounds[r] EXCEPT !.pc = "collect", !.mark = m]
  BY DEF StartRound
<1>2. PICK m \in {mark, rounds[r].mark} : R = [rounds[r] EXCEPT !.pc = "collect", !.mark = m]
  BY <1>1
<1>3. rounds[r] \in Round /\ m \in Nat
  BY <1>2 DEF Inv, TypeOK, Round
<1>4. /\ R \in Round /\ R.doomed = rounds[r].doomed
      /\ R.picked = rounds[r].picked /\ R.groups = rounds[r].groups /\ R.pc = "collect"
  BY <1>2, <1>3 DEF Round
<1>5. Fits(R) /\ R.doomed = <<>>
  BY <1>4 DEF Inv, Fits, StartRound, At
<1>6. /\ seen' \in History
      /\ seen'.stock = seen.stock /\ seen'.forgotten = seen.forgotten /\ seen'.heirs = seen.heirs
      /\ seen'.overlap = (seen.overlap \/ \E other \in Rounds : ~At(other, "idle"))
  BY DEF Inv, TypeOK, StartRound, History
<1>7. docs' = docs /\ kb' = kb /\ mark' \in Nat
  BY DEF Inv, TypeOK, StartRound
<1>8. ~seen'.overlap => /\ ~seen.overlap
                        /\ R.pc # "idle" /\ At(r, "idle") => \A s \in Rounds : At(s, "idle")
  BY <1>6
<1>9. QED
  BY <1>1, <1>4, <1>5, <1>6, <1>7, <1>8, QuietStep

\* A round at rest fits, and deletes nothing.
LEMMA RestingFits ==
  Resting \in Round /\ Fits(Resting) /\ Resting.doomed = <<>> /\ Resting.pc = "idle"
<1>1. Resting \in Round /\ Resting.doomed = <<>> /\ Resting.pc = "idle"
  BY EmptySeq DEF Resting, Round, NoMark
<1>2. Fits(Resting)
  BY DEF Resting, Fits, Distinct
<1>3. QED
  BY <1>1, <1>2

LEMMA CollectStep ==
  ASSUME Inv, NEW r \in Rounds, Collect(r)
  PROVE  Inv'
<1>1. docs' = docs /\ kb' = kb /\ mark' \in Nat /\ seen' = seen /\ ~At(r, "idle")
  BY DEF Inv, TypeOK, Collect, At
<1>2. seen' \in History
  BY <1>1 DEF Inv, TypeOK
<1>3. CASE rounds' = [rounds EXCEPT ![r] = Resting]
  BY <1>1, <1>2, <1>3, RestingFits, QuietStep
<1>4. CASE rounds' = [rounds EXCEPT ![r].pc = "judge", ![r].picked = Window(rounds[r].mark),
                                    ![r].mark = Lowered(@, Window(rounds[r].mark))]
  <2>1. PICK picked, below : picked = Window(rounds[r].mark) /\ below = Lowered(rounds[r].mark, picked)
    OBVIOUS
  <2>2. rounds[r] \in Round /\ rounds[r].mark \in Nat
    BY DEF Inv, TypeOK, Round
  <2>3. picked \in Seq(kb) /\ Distinct(picked)
    BY <2>1, WindowFacts DEF Inv
  <2>4. below \in Nat
    BY <2>1, <2>2, <2>3, LoweredFacts DEF Inv
  <2>5. picked \in Seq(Nat)
    <3>1. kb \subseteq Nat
      BY DocFacts DEF Inv
    <3>2. QED
      BY <2>3, <3>1, SeqMonotonic
  <2>6. PICK R : R = [rounds[r] EXCEPT !.pc = "judge", !.picked = picked, !.mark = below]
    OBVIOUS
  <2>7. rounds' = [rounds EXCEPT ![r] = R]
    BY <1>4, <2>1, <2>6 DEF Inv, TypeOK
  <2>8. /\ R \in Round /\ R.doomed = rounds[r].doomed
        /\ R.picked = picked /\ R.groups = rounds[r].groups /\ R.pc = "judge"
    BY <2>2, <2>4, <2>5, <2>6 DEF Round
  <2>9. Fits(R)
    BY <2>3, <2>8 DEF Inv, Fits, Collect, At
  <2>10. QED
    BY <1>1, <1>2, <2>7, <2>8, <2>9, QuietStep
<1>5. QED
  BY <1>3, <1>4 DEF Collect

LEMMA WriteStateStep ==
  ASSUME Inv, NEW r \in Rounds, WriteState(r)
  PROVE  Inv'
<1>1. docs' = docs /\ kb' = kb /\ seen' = seen /\ ~At(r, "idle")
  BY DEF WriteState, At
<1>2. seen' \in History
  BY <1>1 DEF Inv, TypeOK
<1>3. mark' \in Nat
  BY DEF Inv, TypeOK, Round, WriteState
<1>4. rounds' = [rounds EXCEPT ![r] = Resting]
  BY DEF WriteState
<1>5. QED
  BY <1>1, <1>2, <1>3, <1>4, RestingFits, QuietStep

\* A round deletes what it planned, or its deletion fails.
LEMMA RetireStep ==
  ASSUME Inv, NEW r \in Rounds, Retire(r)
  PROVE  Inv'
<1>1. PICK next, doomed : next = Head(rounds[r].doomed) /\ doomed = rounds[r].doomed
  OBVIOUS
<1>2. rounds[r] \in Round /\ doomed \in Seq(Drop) /\ doomed # <<>>
  BY <1>1 DEF Inv, TypeOK, Round, Retire
<1>3. PICK n \in Nat \ {0} : n = Len(doomed) /\ DOMAIN doomed = 1 .. n
  BY <1>2, LenProperties, EmptySeq
<1>4. next = doomed[1] /\ next \in Drop
  BY <1>1, <1>2, <1>3, HeadTailProperties
<1>5. PICK rest : rest = Tail(doomed)
  OBVIOUS
<1>6. /\ rest \in Seq(Drop) /\ DOMAIN rest = 1 .. n - 1
      /\ \A i \in 1 .. n - 1 : rest[i] = doomed[i + 1]
  <2>1. rest \in Seq(Drop) /\ Len(rest) = n - 1
    BY <1>2, <1>3, <1>5, HeadTailProperties
  <2>2. \A i \in 1 .. n - 1 : rest[i] = doomed[i + 1]
    BY <1>2, <1>5, <2>1, HeadTailProperties
  <2>3. QED
    BY <2>1, <2>2, LenProperties
<1>7. PICK R : R = [rounds[r] EXCEPT !.doomed = rest]
  OBVIOUS
<1>8. /\ R \in Round /\ R.doomed = rest /\ R.pc = rounds[r].pc
      /\ R.picked = rounds[r].picked /\ R.groups = rounds[r].groups
  BY <1>2, <1>6, <1>7 DEF Round
<1>9. rounds' = [rounds EXCEPT ![r] = R]
  BY <1>1, <1>5, <1>7 DEF Retire
<1>10. Fits(rounds[r]) /\ ~At(r, "idle")
  BY DEF Inv, Retire, At
<1>11. /\ next.doc \in DOMAIN docs /\ next.heirs # {} /\ next.heirs \subseteq DOMAIN docs
  BY <1>1, <1>3, <1>4, <1>10 DEF Fits
<1>12. ASSUME NEW i \in DOMAIN rest
       PROVE  i + 1 \in DOMAIN doomed /\ rest[i] = doomed[i + 1]
  BY <1>3, <1>6
<1>13. Fits(R)
  <2>1. rounds[r].pc \notin {"idle", "collect", "judge"}
    BY DEF Retire
  <2>2. \A i \in DOMAIN rest : /\ rest[i].doc \in DOMAIN docs /\ rest[i].heirs # {}
                               /\ rest[i].heirs \subseteq DOMAIN docs
    BY <1>1, <1>10, <1>12 DEF Fits
  <2>3. QED
    BY <1>8, <1>10, <2>1, <2>2 DEF Fits
<1>14. /\ docs' = docs /\ mark' \in Nat /\ kb' \subseteq kb /\ \A d \in kb \ kb' : d = next.doc
  BY <1>1 DEF Inv, TypeOK, Retire
<1> DEFINE new == {<<d, h>> : d \in kb \ kb', h \in next.heirs}
<1>16. /\ seen'.stock = seen.stock /\ seen'.forgotten = seen.forgotten
       /\ seen'.overlap = seen.overlap /\ seen'.judged = seen.judged
       /\ seen'.heirs = seen.heirs \cup new
  BY <1>1 DEF Inv, TypeOK, Retire, History
<1>17. \A l \in new : /\ l \in Nat \X Nat /\ l[1] = next.doc /\ l[1] \in kb /\ l[1] \notin kb'
                      /\ l[2] \in next.heirs
  <2>1. kb \subseteq Nat /\ DOMAIN docs \subseteq Nat
    BY DocFacts DEF Inv
  <2>2. QED
    BY <1>11, <1>14, <2>1
<1>18. seen' \in History
  <2>1. seen' = [seen EXCEPT !.heirs = @ \cup new]
    BY <1>1 DEF Retire
  <2>2. QED
    BY <1>17, <2>1 DEF Inv, TypeOK, History
<1>19. TypeOK'
  <2>1. rounds' \in [Rounds -> Round]
    BY <1>8, <1>9, PlannedOf
  <2>2. QED
    BY <1>14, <1>16, <1>18, <2>1 DEF Inv, TypeOK
<1>20. (\A s \in Rounds : Fits(rounds[s]))' /\ OneAtATime'
  BY <1>8, <1>9, <1>10, <1>13, <1>14, <1>16, RoundMoves
<1>21. Accounted'
  <2>1. ASSUME NEW d \in Retired'
        PROVE  \E l \in seen'.heirs : l[1] = d
    <3>1. d \in DOMAIN docs /\ d \notin kb' /\ d \notin seen.forgotten
      BY <1>14, <1>16 DEF Retired
    <3>2. CASE d \in kb
      <4>1. d = next.doc
        BY <1>14, <3>1, <3>2
      <4>2. PICK h \in next.heirs : TRUE
        BY <1>11
      <4>3. <<d, h>> \in new
        BY <3>1, <3>2
      <4>4. <<d, h>> \in seen'.heirs
        BY <1>16, <4>3
      <4>5. QED
        BY <4>4
    <3>3. CASE d \notin kb
      <4>1. d \in Retired
        BY <3>1, <3>3 DEF Retired
      <4>2. QED
        BY <1>16, <4>1 DEF Inv, Memories, Accounted
    <3>4. QED
      BY <3>2, <3>3
  <2>2. \A l \in seen.heirs : l[1] \in DOMAIN docs /\ l[1] \notin kb /\ l[2] \in DOMAIN docs
    BY DEF Inv, Memories, Accounted
  <2>3. \A l \in seen'.heirs : l[1] \in DOMAIN docs' /\ l[1] \notin kb' /\ l[2] \in DOMAIN docs'
    BY <1>11, <1>14, <1>16, <1>17, <2>2
  <2>4. QED
    BY <2>1, <2>3 DEF Accounted
<1>22. Memories'
  BY <1>14, <1>16, <1>21 DEF Inv, Memories, MadeOfOlder, AddedApart
<1>23. Links' \subseteq Links
  <2>1. new \subseteq LinksOf(doomed)
    <3>1. 1 \in DOMAIN doomed
      BY <1>3
    <3>2. QED
      BY <1>4, <1>17, <3>1 DEF LinksOf
  <2>2. LinksOf(rest) \subseteq LinksOf(doomed)
    BY <1>12 DEF LinksOf
  <2>3. LinksOf(doomed) \subseteq Planned
    BY <1>1, <1>8, <1>9, PlannedOf
  <2>4. \A l \in Planned' : l \in Planned \/ l \in LinksOf(rest)
    BY <1>8, <1>9, PlannedOf
  <2>5. QED
    BY <1>16, <2>1, <2>2, <2>3, <2>4 DEF Links
<1>24. ForNewer' /\ NoCircle'
  BY <1>14, <1>16, <1>23, LinksStay
<1>25. QED
  BY <1>19, <1>20, <1>22, <1>24 DEF Inv

\* Memories with times of their own: a near duplicate goes for a newer one.
LEMMA WorseIsOlder ==
  ASSUME Inv, Ranked, NEW d \in DOMAIN docs, NEW e \in DOMAIN docs, d # e
  PROVE  /\ docs[d].time # NoTime /\ docs[e].time # NoTime /\ docs[d].time # docs[e].time
         /\ Worse(d, e) = d => docs[d].time < docs[e].time
         /\ Worse(d, e) = e => docs[e].time < docs[d].time
<1>1. docs[d].time \in Nat /\ docs[e].time \in Nat
  BY DocFacts DEF Inv, Doc
<1>2. docs[d].time # NoTime
  BY DEF Inv, Memories, AddedApart, Ranked
<1>3. docs[e].time # NoTime
  BY DEF Inv, Memories, AddedApart, Ranked
<1>4. docs[d].time # docs[e].time
  BY DEF Inv, Memories, AddedApart, Ranked
<1>5. QED
  BY <1>1, <1>2, <1>3, <1>4 DEF Worse

\* What is to go of near duplicates goes for the one that is kept.
LEMMA VictimsFacts ==
  ASSUME Inv, NEW picked \in Seq(Nat), Distinct(picked), NEW dropping \in Drops(picked)
  PROVE  /\ Victims(picked, dropping) \in Seq(Drop)
         /\ \A i \in DOMAIN Victims(picked, dropping) :
               \E p \in dropping : /\ Victims(picked, dropping)[i].doc = Loser(picked, p)
                                   /\ Victims(picked, dropping)[i].heirs = {Winner(picked, p)}
<1>1. PICK k \in Nat : k = Len(picked) /\ DOMAIN picked = 1 .. k
  BY LenProperties
<1>2. dropping \subseteq Pairs(picked)
  BY DEF Drops
<1>3. IsFiniteSet(dropping)
  <2>1. IsFiniteSet(1 .. k)
    BY FS_Interval
  <2>2. IsFiniteSet((1 .. k) \X (1 .. k))
    BY <2>1, FS_Product
  <2>3. dropping \in SUBSET ((1 .. k) \X (1 .. k))
    BY <1>1, <1>2 DEF Pairs
  <2>4. QED
    BY <2>2, <2>3, FS_Subset
<1>4. PICK before : before = {pq \in dropping \X dropping : Earlier(pq[1], pq[2])}
  OBVIOUS
<1>5. StrictTotal(dropping, before)
  <2>1. \A p \in dropping : p = <<p[1], p[2]>> /\ p[1] \in Nat /\ p[2] \in Nat
    BY <1>2, PairFacts
  <2>2. \A p, q \in dropping : <<p, q>> \in before <=> Earlier(p, q)
    BY <1>4
  <2>3. \A p \in dropping : ~Earlier(p, p)
    BY <2>1 DEF Earlier
  <2>4. \A p, q \in dropping : p # q => Earlier(p, q) \/ Earlier(q, p)
    <3>1. SUFFICES ASSUME NEW p \in dropping, NEW q \in dropping, p # q
                   PROVE  Earlier(p, q) \/ Earlier(q, p)
      OBVIOUS
    <3>2. p[1] # q[1] \/ p[2] # q[2]
      BY <2>1, <3>1
    <3>3. QED
      BY <2>1, <3>2 DEF Earlier
  <2>5. \A p, q, o \in dropping : Earlier(p, q) /\ Earlier(q, o) => Earlier(p, o)
    BY <2>1 DEF Earlier
  <2>6. QED
    BY <2>2, <2>3, <2>4, <2>5 DEF StrictTotal
<1>6. PICK order : order = Listed(dropping, before)
  OBVIOUS
<1>7. order \in Seq(dropping)
  BY <1>3, <1>5, <1>6, ListedFacts
<1>8. PICK n \in Nat : DOMAIN order = 1 .. n /\ \A i \in 1 .. n : order[i] \in dropping
  BY <1>7, LenProperties, ElementOfSeq
<1>9. PICK v : v = [i \in DOMAIN order |->
                      [doc |-> Loser(picked, order[i]),
                       heirs |-> {picked[order[i][1]], picked[order[i][2]]} \ {Loser(picked, order[i])}]]
  OBVIOUS
<1>10. v = Victims(picked, dropping)
  BY <1>4, <1>6, <1>9 DEF Victims
<1>11. kb \subseteq Nat
  BY DocFacts DEF Inv
<1>12. ASSUME NEW i \in 1 .. n
       PROVE  /\ v[i] \in Drop
              /\ v[i].doc = Loser(picked, order[i])
              /\ v[i].heirs = {Winner(picked, order[i])}
  <2>1. PICK p \in dropping : p = order[i]
    BY <1>8
  <2>2. v[i] = [doc |-> Loser(picked, p), heirs |-> {Winner(picked, p)}]
    BY <1>2, <1>8, <1>9, <2>1, PairFacts
  <2>3. Loser(picked, p) \in Nat /\ Winner(picked, p) \in Nat
    BY <1>2, <1>11, PairFacts
  <2>4. QED
    BY <2>1, <2>2, <2>3 DEF Drop
<1>13. v \in Seq(Drop)
  <2>1. v \in [1 .. n -> Drop]
    BY <1>8, <1>9, <1>12
  <2>2. QED
    BY <2>1, SeqDef
<1>14. \A i \in DOMAIN v : \E p \in dropping : /\ v[i].doc = Loser(picked, p)
                                              /\ v[i].heirs = {Winner(picked, p)}
  BY <1>8, <1>9, <1>12
<1>15. QED
  BY <1>10, <1>13, <1>14

LEMMA JudgeStep ==
  ASSUME Inv, NEW r \in Rounds, Judge(r)
  PROVE  Inv'
<1>1. PICK picked : picked = rounds[r].picked
  OBVIOUS
<1>2. rounds[r] \in Round /\ picked \in Seq(Nat) /\ Distinct(picked) /\ rounds[r].doomed = <<>>
  BY <1>1 DEF Inv, TypeOK, Round, Fits, Judge, At
<1>3. docs' = docs /\ kb' = kb /\ mark' \in Nat /\ ~At(r, "idle")
  BY DEF Inv, TypeOK, Judge, At
<1>4. /\ seen'.stock = seen.stock /\ seen'.forgotten = seen.forgotten /\ seen'.heirs = seen.heirs
      /\ seen'.overlap = seen.overlap /\ seen' \in History
  <2>1. Range(picked) \subseteq Nat
    BY <1>2, LenProperties, ElementOfSeq DEF Range
  <2>2. seen' = [seen EXCEPT !.judged = @ \cup Range(picked)]
    BY <1>1 DEF Judge
  <2>3. QED
    BY <2>1, <2>2 DEF Inv, TypeOK, History
<1>5. kb \subseteq Nat /\ kb \subseteq DOMAIN docs
  BY DocFacts DEF Inv, TypeOK
<1>6. CASE rounds' = [rounds EXCEPT ![r].pc = "dedup", ![r].picked = <<>>]
  <2>1. PICK R : R = [rounds[r] EXCEPT !.pc = "dedup", !.picked = <<>>]
    OBVIOUS
  <2>2. rounds' = [rounds EXCEPT ![r] = R]
    BY <1>6, <2>1 DEF Inv, TypeOK
  <2>3. /\ R \in Round /\ R.doomed = rounds[r].doomed
        /\ R.picked = <<>> /\ R.groups = rounds[r].groups /\ R.pc = "dedup"
    BY <1>2, <2>1, EmptySeq DEF Round
  <2>4. Fits(R)
    BY <1>2, <2>3 DEF Inv, Fits, Distinct
  <2>5. QED
    BY <1>3, <1>4, <2>2, <2>3, <2>4, QuietStep
<1>7. ASSUME NEW dropping \in Drops(picked),
             rounds' = [rounds EXCEPT ![r].pc = "dedup", ![r].picked = <<>>,
                                      ![r].groups = Groups(Range(picked) \cap kb),
                                      ![r].doomed = Victims(picked, dropping)]
      PROVE  Inv'
  <2>1. PICK groups, victims : /\ groups = Groups(Range(picked) \cap kb)
                               /\ victims = Victims(picked, dropping)
    OBVIOUS
  <2>2. PICK R : R = [rounds[r] EXCEPT !.pc = "dedup", !.picked = <<>>, !.groups = groups,
                                       !.doomed = victims]
    OBVIOUS
  <2>3. rounds' = [rounds EXCEPT ![r] = R]
    BY <1>7, <2>1, <2>2 DEF Inv, TypeOK
  <2>4. groups \subseteq SUBSET kb
    BY <2>1 DEF Groups, Clusters, Component
  <2>5. victims \in Seq(Drop)
    BY <1>2, <2>1, VictimsFacts
  <2>6. ASSUME NEW i \in DOMAIN victims
        PROVE  \E p \in dropping : /\ victims[i].doc = Loser(picked, p)
                                   /\ victims[i].heirs = {Winner(picked, p)}
    BY <1>2, <2>1, VictimsFacts
  <2>7. /\ R \in Round /\ R.doomed = victims
        /\ R.picked = <<>> /\ R.groups = groups /\ R.pc = "dedup"
    BY <1>2, <1>5, <2>2, <2>4, <2>5, EmptySeq DEF Round
  <2>8. dropping \subseteq Pairs(picked)
    BY DEF Drops
  <2>9. Fits(R)
    <3>1. ASSUME NEW i \in DOMAIN victims
          PROVE  /\ victims[i].doc \in DOMAIN docs /\ victims[i].heirs # {}
                 /\ victims[i].heirs \subseteq DOMAIN docs
      <4>1. PICK p \in dropping : victims[i].doc = Loser(picked, p) /\ victims[i].heirs = {Winner(picked, p)}
        BY <2>6
      <4>2. Loser(picked, p) \in kb /\ Winner(picked, p) \in kb
        BY <1>2, <2>8, PairFacts
      <4>3. QED
        BY <1>5, <4>1, <4>2
    <3>2. \A group \in R.groups : group \subseteq DOMAIN docs
      BY <1>5, <2>4, <2>7
    <3>3. Distinct(R.picked)
      BY <2>7 DEF Distinct
    <3>4. QED
      BY <2>7, <3>1, <3>2, <3>3 DEF Fits
  <2>10. ASSUME NEW l \in LinksOf(victims)
         PROVE  \E p \in dropping : l[1] = Loser(picked, p) /\ l[2] = Winner(picked, p)
    <3>1. PICK i \in DOMAIN victims : l[1] = victims[i].doc /\ l[2] \in victims[i].heirs
      BY <2>10 DEF LinksOf
    <3>2. QED
      BY <2>6, <3>1
  <2>11. Acyclic(LinksOf(victims))
    <3>1. PICK V, D : V = LinksOf(victims) /\ D = DropLinks(picked, dropping)
      OBVIOUS
    <3>2. V \subseteq D
      <4>1. \A l \in V : l \in Nat \X Nat
        BY <3>1 DEF LinksOf
      <4>2. QED
        BY <2>10, <3>1, <4>1 DEF DropLinks
    <3>3. Acyclic(D)
      BY <1>2, <3>1, DropsAcyclic
    <3>4. Acyclic(V)
      BY <3>2, <3>3, FewerLinks
    <3>5. QED
      BY <3>1, <3>4
  <2>12. ASSUME NEW l \in LinksOf(victims)
         PROVE  /\ l[1] \in kb /\ l[2] \in kb
                /\ Ranked => docs[l[1]].time < docs[l[2]].time
    <3>1. PICK p \in dropping : l[1] = Loser(picked, p) /\ l[2] = Winner(picked, p)
      BY <2>10
    <3>2. PICK d, e : d = picked[p[1]] /\ e = picked[p[2]]
      OBVIOUS
    <3>3. /\ d # e /\ Loser(picked, p) = Worse(d, e)
          /\ l[1] \in kb /\ l[2] \in kb
          /\ (l[1] = d /\ l[2] = e) \/ (l[1] = e /\ l[2] = d)
      <4>1. p \in Pairs(picked)
        BY <2>8
      <4>2. /\ picked[p[1]] # picked[p[2]]
            /\ \/ Loser(picked, p) = picked[p[1]] /\ Winner(picked, p) = picked[p[2]]
               \/ Loser(picked, p) = picked[p[2]] /\ Winner(picked, p) = picked[p[1]]
            /\ Loser(picked, p) \in kb /\ Winner(picked, p) \in kb
        BY <1>2, <4>1, PairFacts
      <4>3. Loser(picked, p) = Worse(d, e)
        BY <3>2 DEF Loser
      <4>4. QED
        BY <3>1, <3>2, <4>2, <4>3
    <3>4. ASSUME Ranked
          PROVE  docs[l[1]].time < docs[l[2]].time
      <4>1. d \in DOMAIN docs /\ e \in DOMAIN docs
        BY <1>5, <3>3
      <4>2. /\ Worse(d, e) = d => docs[d].time < docs[e].time
            /\ Worse(d, e) = e => docs[e].time < docs[d].time
        BY <3>3, <3>4, <4>1, WorseIsOlder
      <4>3. QED
        BY <3>1, <3>3, <4>2
    <3>5. QED
      BY <3>3, <3>4
  <2>13. QED
    BY <1>2, <1>3, <1>4, <2>3, <2>7, <2>9, <2>11, <2>12, PlanStep
<1>8. QED
  BY <1>1, <1>6, <1>7 DEF Judge

\* What is to expire is an episode, and goes for what was made of it.
Distills(entry, distilled) ==
    /\ entry.doc \in kb /\ docs[entry.doc].kind = "episodic"
    /\ entry.heirs # {} /\ entry.heirs \subseteq distilled
    /\ \A s \in entry.heirs : entry.doc \in docs[s].from

LEMMA ExpiredFacts ==
  ASSUME Inv, NEW distilled \in SUBSET Semantic, NEW fresh
  PROVE  /\ Expired(distilled, fresh) \in Seq(Drop)
         /\ \A i \in DOMAIN Expired(distilled, fresh) :
               Distills(Expired(distilled, fresh)[i], distilled)
<1>1. PICK gone \in SUBSET kb : gone = {d \in kb : Expires(d, distilled, fresh)}
  OBVIOUS
<1>2. IsFiniteSet(gone) /\ gone \subseteq Nat /\ kb \subseteq Nat
  BY DocFacts, FS_Subset DEF Inv
<1>3. PICK before : before = {p \in gone \X gone : p[1] < p[2]}
  OBVIOUS
<1>4. StrictTotal(gone, before)
  BY <1>2, <1>3 DEF StrictTotal
<1>5. PICK old : old = Listed(gone, before)
  OBVIOUS
<1>6. old \in Seq(gone)
  BY <1>2, <1>4, <1>5, ListedFacts
<1>7. PICK n \in Nat : DOMAIN old = 1 .. n /\ \A i \in 1 .. n : old[i] \in gone
  BY <1>6, LenProperties, ElementOfSeq
<1>8. PICK v : v = [i \in DOMAIN old |->
                      [doc |-> old[i], heirs |-> {s \in distilled : old[i] \in docs[s].from}]]
  OBVIOUS
<1>9. v = Expired(distilled, fresh)
  BY <1>1, <1>3, <1>5, <1>8 DEF Expired
<1>10. ASSUME NEW i \in 1 .. n
       PROVE  v[i] \in Drop /\ Distills(v[i], distilled)
  <2>1. PICK d \in gone : d = old[i]
    BY <1>7
  <2>2. PICK heirs \in SUBSET distilled : heirs = {s \in distilled : d \in docs[s].from}
    OBVIOUS
  <2>3. v[i] = [doc |-> d, heirs |-> heirs]
    BY <1>7, <1>8, <2>1, <2>2
  <2>4. d \in kb /\ docs[d].kind = "episodic" /\ heirs # {}
    BY <1>1, <2>2 DEF Expires
  <2>5. heirs \subseteq Nat
    BY <1>2 DEF Semantic
  <2>6. QED
    BY <1>2, <2>2, <2>3, <2>4, <2>5 DEF Drop, Distills
<1>11. v \in Seq(Drop)
  <2>1. v \in [1 .. n -> Drop]
    BY <1>7, <1>8, <1>10
  <2>2. QED
    BY <2>1, SeqDef
<1>12. DOMAIN v = 1 .. n
  BY <1>7, <1>8
<1>13. QED
  BY <1>9, <1>10, <1>11, <1>12

LEMMA ScanStep ==
  ASSUME Inv, NEW r \in Rounds, Scan(r)
  PROVE  Inv'
<1>1. PICK distilled \in SUBSET Semantic, fresh \in {recalled, {}} :
        rounds' = [rounds EXCEPT ![r].pc = "ttl", ![r].groups = {}, ![r].calls = 0,
                                 ![r].doomed = Expired(distilled, fresh)]
  BY DEF Scan
<1>2. PICK old : old = Expired(distilled, fresh)
  OBVIOUS
<1>3. PICK R : R = [rounds[r] EXCEPT !.pc = "ttl", !.groups = {}, !.calls = 0, !.doomed = old]
  OBVIOUS
<1>4. rounds' = [rounds EXCEPT ![r] = R]
  BY <1>1, <1>2, <1>3 DEF Inv, TypeOK
<1>5. old \in Seq(Drop)
  BY <1>2, ExpiredFacts
<1>6. ASSUME NEW i \in DOMAIN old
      PROVE  Distills(old[i], distilled)
  BY <1>2, <1>6, ExpiredFacts
<1>7. rounds[r] \in Round /\ Fits(rounds[r]) /\ rounds[r].doomed = <<>> /\ ~At(r, "idle")
  BY DEF Inv, TypeOK, Scan, At
<1>8. /\ R \in Round /\ R.doomed = old /\ R.picked = rounds[r].picked /\ R.groups = {}
      /\ R.pc = "ttl"
  BY <1>3, <1>5, <1>7 DEF Round
<1>9. kb \subseteq DOMAIN docs /\ distilled \subseteq kb
  BY DEF Inv, TypeOK, Semantic
<1>10. Fits(R)
  <2>1. ASSUME NEW i \in DOMAIN old
        PROVE  /\ old[i].doc \in DOMAIN docs /\ old[i].heirs # {}
               /\ old[i].heirs \subseteq DOMAIN docs
    BY <1>6, <1>9 DEF Distills
  <2>2. QED
    BY <1>7, <1>8, <2>1 DEF Fits
<1>11. ASSUME NEW l \in LinksOf(old)
       PROVE  /\ l[1] \in kb /\ l[2] \in kb /\ l[1] \in docs[l[2]].from
              /\ docs[l[1]].kind = "episodic" /\ docs[l[2]].kind = "semantic"
  <2>1. PICK i \in DOMAIN old : l[1] = old[i].doc /\ l[2] \in old[i].heirs
    BY <1>11 DEF LinksOf
  <2>2. QED
    BY <1>6, <2>1 DEF Semantic, Distills
<1>12. Acyclic(LinksOf(old))
  <2>1. PICK V : V = LinksOf(old)
    OBVIOUS
  <2>2. Acyclic(V)
    <3>1. SUFFICES ASSUME NEW n \in Nat, NEW S \in SUBSET (1 .. n), S # {}
                   PROVE  \E x \in S : \A l \in V : l[1] = x => l[2] \notin S
      BY DEF Acyclic
    <3>2. CASE \E x \in S : docs[x].kind = "semantic"
      <4>1. PICK x \in S : docs[x].kind = "semantic"
        BY <3>2
      <4>2. \A l \in V : l[1] # x
        BY <1>11, <2>1, <4>1
      <4>3. QED
        BY <4>2
    <3>3. CASE \A x \in S : docs[x].kind # "semantic"
      <4>1. \A l \in V : l[2] \notin S
        BY <1>11, <2>1, <3>3
      <4>2. QED
        BY <3>1, <4>1
    <3>4. QED
      BY <3>2, <3>3
  <2>3. QED
    BY <2>1, <2>2
<1>13. ASSUME Ranked, NEW l \in LinksOf(old)
       PROVE  docs[l[1]].time < docs[l[2]].time
  <2>1. l[1] \in DOMAIN docs /\ l[2] \in DOMAIN docs /\ l[1] # l[2] /\ l[1] # 0
    BY <1>9, <1>11, DocFacts DEF Inv
  <2>2. docs[l[2]].time # NoTime
    BY <1>13, <2>1 DEF Inv, Memories, AddedApart, Ranked
  <2>3. QED
    BY <1>11, <2>1, <2>2 DEF Inv, Memories, MadeOfOlder
<1>14. docs' = docs /\ kb' = kb /\ mark' \in Nat /\ seen' = seen
  BY DEF Inv, TypeOK, Scan
<1>15. seen' \in History
  BY <1>14 DEF Inv, TypeOK
<1>16. QED
  BY <1>4, <1>7, <1>8, <1>10, <1>11, <1>12, <1>13, <1>14, <1>15, PlanStep

-----------------------------------------------------------------------------
(* What is added, and the other steps.                                     *)

\* A memory is added, and rounds have at most fewer groups.
LEMMA Grows ==
  ASSUME Inv, NEW doc \in Doc, docs' = Append(docs, doc), doc.time = Newest,
         doc.from \subseteq DOMAIN docs, kb' = kb \cup {Len(docs')},
         mark' = mark, seen' = seen, rounds' \in [Rounds -> Round],
         \A s \in Rounds : /\ rounds'[s].pc = rounds[s].pc /\ rounds'[s].doomed = rounds[s].doomed
                           /\ rounds'[s].picked = rounds[s].picked
                           /\ rounds'[s].groups \subseteq rounds[s].groups
  PROVE  Inv'
<1>1. PICK k \in Nat : /\ k = Len(docs) /\ DOMAIN docs = 1 .. k
                       /\ \A d \in 1 .. k : docs[d] \in Doc
                       /\ kb \subseteq 1 .. k
  BY DocFacts DEF Inv
<1>2. docs \in Seq(Doc)
  BY DEF Inv, TypeOK
<1>3. /\ docs' \in Seq(Doc) /\ Len(docs') = k + 1
      /\ \A d \in 1 .. k : docs'[d] = docs[d]
      /\ docs'[k + 1] = doc
  BY <1>1, <1>2, AppendProperties
<1>4. DOMAIN docs' = 1 .. k + 1
  BY <1>3, LenProperties
<1>5. DOMAIN docs \subseteq DOMAIN docs' /\ k + 1 \in DOMAIN docs' /\ k + 1 \notin DOMAIN docs
  BY <1>1, <1>4
<1>6. \A d \in DOMAIN docs' : d \in DOMAIN docs \/ d = k + 1
  BY <1>1, <1>4
<1>7. kb' = kb \cup {k + 1}
  BY <1>3
<1>8. TypeOK'
  <2>1. kb' \subseteq DOMAIN docs'
    BY <1>1, <1>5, <1>7
  <2>2. seen.stock \subseteq DOMAIN docs'
    BY <1>5 DEF Inv, TypeOK
  <2>3. QED
    BY <1>3, <2>1, <2>2 DEF Inv, TypeOK
<1>9. (\A s \in Rounds : Fits(rounds[s]))'
  <2>1. SUFFICES ASSUME NEW s \in Rounds PROVE Fits(rounds[s])'
    OBVIOUS
  <2>2. Fits(rounds[s])
    BY DEF Inv
  <2>3. Distinct(rounds'[s].picked)
    BY <2>2 DEF Fits
  <2>4. \A group \in rounds'[s].groups : group \subseteq DOMAIN docs'
    BY <1>5, <2>2 DEF Fits
  <2>5. /\ rounds'[s].pc \in {"idle", "collect", "judge"} => rounds'[s].doomed = <<>>
        /\ \A i \in DOMAIN rounds'[s].doomed :
              /\ rounds'[s].doomed[i].doc \in DOMAIN docs'
              /\ rounds'[s].doomed[i].heirs # {}
              /\ rounds'[s].doomed[i].heirs \subseteq DOMAIN docs'
    BY <1>5, <2>2 DEF Fits
  <2>6. QED
    BY <2>3, <2>4, <2>5 DEF Fits, Distinct
<1>10. OneAtATime'
  BY DEF Inv, OneAtATime, At
<1>11. Accounted'
  <2>1. \A d \in Retired' : d \in Retired
    BY <1>6, <1>7 DEF Retired
  <2>2. QED
    BY <1>5, <1>7, <2>1 DEF Inv, Memories, Accounted
<1>12. MadeOfOlder'
  <2>1. SUFFICES ASSUME NEW d \in DOMAIN docs', NEW source \in docs'[d].from \ {0}
                 PROVE  /\ source \in DOMAIN docs'
                        /\ docs'[d].time = NoTime \/ docs'[source].time < docs'[d].time
    BY DEF MadeOfOlder
  <2>2. CASE d \in DOMAIN docs
    <3>1. docs'[d] = docs[d]
      BY <1>1, <1>3, <2>2
    <3>2. /\ source \in DOMAIN docs
          /\ docs[d].time = NoTime \/ docs[source].time < docs[d].time
      BY <2>1, <2>2, <3>1 DEF Inv, Memories, MadeOfOlder
    <3>3. docs'[source] = docs[source]
      BY <1>1, <1>3, <3>2
    <3>4. QED
      BY <1>5, <3>1, <3>2, <3>3
  <2>3. CASE d = k + 1
    <3>1. source \in DOMAIN docs /\ docs'[d].time = Newest
      BY <1>3, <2>1, <2>3
    <3>2. docs'[source] = docs[source]
      BY <1>1, <1>3, <3>1
    <3>3. docs[source].time < Newest
      BY <3>1, NewestFacts DEF Inv
    <3>4. QED
      BY <1>5, <3>1, <3>2, <3>3
  <2>4. QED
    BY <1>6, <2>2, <2>3
<1>13. AddedApart'
  <2>1. \A d \in DOMAIN docs : docs'[d] = docs[d] /\ docs[d].time < Newest /\ docs[d].time \in Nat
    BY <1>1, <1>3, NewestFacts DEF Inv, Doc
  <2>2. Newest \in Nat /\ Newest # NoTime /\ docs'[k + 1].time = Newest
    BY <1>3, NewestFacts DEF Inv
  <2>3. SUFFICES ASSUME NEW d \in (DOMAIN docs') \ seen.stock
                 PROVE  /\ docs'[d].time # NoTime
                        /\ \A e \in DOMAIN docs' : e # d => docs'[e].time # docs'[d].time
    BY DEF AddedApart
  <2>4. CASE d \in DOMAIN docs
    <3>1. /\ docs[d].time # NoTime
          /\ \A e \in DOMAIN docs : e # d => docs[e].time # docs[d].time
      BY <2>3, <2>4 DEF Inv, Memories, AddedApart
    <3>2. QED
      BY <1>6, <2>1, <2>2, <2>4, <3>1
  <2>5. CASE d = k + 1
    BY <1>6, <2>1, <2>2, <2>5
  <2>6. QED
    BY <1>6, <2>4, <2>5
<1>14. Links' \subseteq Links
  <2>1. ASSUME NEW l \in Planned'
        PROVE  l \in Planned
    <3>1. /\ l \in Nat \X Nat
          /\ \E s \in Rounds : l \in LinksOf(rounds'[s].doomed)
      BY <2>1 DEF Planned, LinksOf
    <3>2. PICK s \in Rounds : l \in LinksOf(rounds'[s].doomed)
      BY <3>1
    <3>3. rounds'[s].doomed = rounds[s].doomed
      OBVIOUS
    <3>4. QED
      BY <3>1, <3>2, <3>3 DEF Planned
  <2>2. QED
    BY <2>1 DEF Links
<1>15. ForNewer' /\ NoCircle'
  <2>1. \A d \in DOMAIN docs : docs'[d] = docs[d]
    BY <1>1, <1>3
  <2>2. QED
    BY <1>14, <2>1, LinksStay
<1>16. QED
  BY <1>8, <1>9, <1>10, <1>11, <1>12, <1>13, <1>15 DEF Inv, Memories

LEMMA DistillStep ==
  ASSUME Inv, NEW r \in Rounds, Distill(r)
  PROVE  Inv'
<1>1. PICK group \in rounds[r].groups :
        /\ rounds' = [rounds EXCEPT ![r].groups = @ \ {group}, ![r].calls = @ + 1]
        /\ \/ /\ \E near \in {{}, group} :
                    docs' = Append(docs, [kind |-> "semantic", title |-> Newest,
                                          time |-> Newest, length |-> 1, expired |-> FALSE,
                                          from |-> group, near |-> near, theme |-> {}])
              /\ kb' = kb \cup {Len(docs')}
           \/ UNCHANGED <<docs, kb>>
  BY DEF Distill
<1>2. mark' = mark /\ seen' = seen /\ mark' \in Nat /\ seen' \in History /\ ~At(r, "idle")
  BY DEF Inv, TypeOK, Distill, Distilling, At
<1>3. PICK R : R = [rounds[r] EXCEPT !.groups = @ \ {group}, !.calls = @ + 1]
  OBVIOUS
<1>4. rounds' = [rounds EXCEPT ![r] = R]
  BY <1>1, <1>3 DEF Inv, TypeOK
<1>5. rounds[r] \in Round /\ Fits(rounds[r])
  BY DEF Inv, TypeOK
<1>6. /\ R \in Round /\ R.doomed = rounds[r].doomed /\ R.picked = rounds[r].picked
      /\ R.groups \subseteq rounds[r].groups /\ R.pc = rounds[r].pc
  <2>1. PICK groups, calls : groups = rounds[r].groups \ {group} /\ calls = rounds[r].calls + 1
    OBVIOUS
  <2>2. groups \subseteq rounds[r].groups /\ groups \in SUBSET SUBSET Nat /\ calls \in Nat
    BY <1>5, <2>1 DEF Round
  <2>3. R = [rounds[r] EXCEPT !.groups = groups, !.calls = calls]
    BY <1>3, <2>1
  <2>4. QED
    BY <1>5, <2>2, <2>3 DEF Round
<1>7. group \in SUBSET Nat /\ group \subseteq DOMAIN docs
  BY <1>5 DEF Round, Fits
<1>8. CASE UNCHANGED <<docs, kb>>
  <2>1. Fits(R)
    BY <1>5, <1>6 DEF Fits
  <2>2. QED
    BY <1>2, <1>4, <1>6, <1>8, <2>1, QuietStep
<1>9. ASSUME NEW near \in {{}, group},
             docs' = Append(docs, [kind |-> "semantic", title |-> Newest,
                                   time |-> Newest, length |-> 1, expired |-> FALSE,
                                   from |-> group, near |-> near, theme |-> {}]),
             kb' = kb \cup {Len(docs')}
      PROVE  Inv'
  <2>1. PICK doc : doc = [kind |-> "semantic", title |-> Newest, time |-> Newest, length |-> 1,
                          expired |-> FALSE, from |-> group, near |-> near, theme |-> {}]
    OBVIOUS
  <2>2. Newest \in Nat
    BY NewestFacts DEF Inv
  <2>3. doc \in Doc /\ doc.time = Newest /\ doc.from = group
    BY <1>7, <2>1, <2>2 DEF Doc
  <2>4. rounds' \in [Rounds -> Round] /\ rounds'[r] = R
        /\ \A s \in Rounds : s # r => rounds'[s] = rounds[s]
    BY <1>4, <1>6, PlannedOf
  <2>5. \A s \in Rounds : /\ rounds'[s].pc = rounds[s].pc /\ rounds'[s].doomed = rounds[s].doomed
                          /\ rounds'[s].picked = rounds[s].picked
                          /\ rounds'[s].groups \subseteq rounds[s].groups
    BY <1>6, <2>4
  <2>6. docs' = Append(docs, doc)
    BY <1>9, <2>1
  <2>7. QED
    BY <1>2, <1>7, <1>9, <2>3, <2>4, <2>5, <2>6, Grows
<1>10. QED
  BY <1>1, <1>8, <1>9

LEMMA LearnStep ==
  ASSUME Inv, Learn
  PROVE  Inv'
<1>1. PICK near \in {{}, {Max({0} \cup kb)}} :
        docs' = Append(docs, [kind |-> "episodic", title |-> Newest, time |-> Newest,
                              length |-> 1, expired |-> FALSE, from |-> {}, near |-> near,
                              theme |-> {}])
  BY DEF Learn
<1>2. Max({0} \cup kb) \in Nat
  <2>1. PICK k \in Nat : kb \subseteq 1 .. k
    BY DocFacts DEF Inv
  <2>2. PICK T : T = {0} \cup kb
    OBVIOUS
  <2>3. T \in SUBSET (0 .. k) /\ T # {}
    BY <2>1, <2>2
  <2>4. \E n \in T : \A m \in T : m =< n
    BY <2>3, GreatestOf
  <2>5. \E n \in T : \A m \in T : n >= m
    BY <2>3, <2>4
  <2>6. Max(T) \in T
    BY <2>5 DEF Max
  <2>7. QED
    BY <2>2, <2>3, <2>6
<1>3. near \in SUBSET Nat
  BY <1>2
<1>4. PICK doc : doc = [kind |-> "episodic", title |-> Newest, time |-> Newest, length |-> 1,
                        expired |-> FALSE, from |-> {}, near |-> near, theme |-> {}]
  OBVIOUS
<1>5. Newest \in Nat
  BY NewestFacts DEF Inv
<1>6. doc \in Doc /\ doc.time = Newest /\ doc.from = {}
  BY <1>3, <1>4, <1>5 DEF Doc
<1>7. /\ kb' = kb \cup {Len(docs')} /\ mark' = mark /\ seen' = seen /\ rounds' = rounds
  BY DEF Learn
<1>8. rounds' \in [Rounds -> Round]
  BY <1>7 DEF Inv, TypeOK
<1>9. docs' = Append(docs, doc)
  BY <1>1, <1>4
<1>10. QED
  BY <1>6, <1>7, <1>8, <1>9, Grows

\* The memories and the rounds stay as they are, or the rounds are gone.
LEMMA ForgetStep ==
  ASSUME Inv, Forget
  PROVE  Inv'
<1>1. PICK d \in kb : kb' = kb \ {d} /\ seen' = [seen EXCEPT !.forgotten = @ \cup {d}]
  BY DEF Forget
<1>2. docs' = docs /\ mark' = mark /\ rounds' = rounds
  BY DEF Forget
<1>3. kb \subseteq Nat
  BY DocFacts DEF Inv
<1>4. /\ seen' \in History /\ seen'.stock = seen.stock /\ seen'.heirs = seen.heirs
      /\ seen'.overlap = seen.overlap /\ seen'.forgotten = seen.forgotten \cup {d}
  BY <1>1, <1>3 DEF Inv, TypeOK, History
<1>5. TypeOK'
  BY <1>1, <1>2, <1>4 DEF Inv, TypeOK
<1>6. Accounted'
  <2>1. \A e \in Retired' : e \in Retired
    BY <1>1, <1>2, <1>4 DEF Retired
  <2>2. QED
    BY <1>1, <1>2, <1>4, <2>1 DEF Inv, Memories, Accounted
<1>7. MadeOfOlder' /\ AddedApart'
  BY <1>2, <1>4 DEF Inv, Memories, MadeOfOlder, AddedApart
<1>8. (\A r \in Rounds : Fits(rounds[r]))' /\ OneAtATime'
  BY <1>2, <1>4 DEF Inv, OneAtATime, At, Fits, Distinct
<1>9. Links' = Links
  BY <1>2, <1>4 DEF Links, Planned, LinksOf
<1>10. ForNewer' /\ NoCircle'
  BY <1>2, <1>4, <1>9, LinksStay
<1>11. QED
  BY <1>5, <1>6, <1>7, <1>8, <1>10 DEF Inv, Memories

LEMMA CrashStep ==
  ASSUME Inv, Crash
  PROVE  Inv'
<1>1. docs' = docs /\ kb' = kb /\ mark' = mark /\ seen' = seen /\ rounds' = [r \in Rounds |-> Resting]
  BY DEF Crash
<1>2. \A r \in Rounds : rounds'[r] = Resting
  BY <1>1
<1>3. TypeOK'
  BY <1>1, RestingFits DEF Inv, TypeOK
<1>4. Memories'
  BY <1>1 DEF Inv, Memories, Accounted, Retired, MadeOfOlder, AddedApart
<1>5. (\A r \in Rounds : Fits(rounds[r]))'
  BY <1>2 DEF Fits, Distinct, Resting
<1>6. OneAtATime'
  BY <1>2, RestingFits DEF OneAtATime, At
<1>7. Links' \subseteq Links
  <2>1. \A r \in Rounds : rounds'[r].doomed = <<>>
    BY <1>2, RestingFits
  <2>2. Planned' = {}
    BY <2>1 DEF Planned, LinksOf
  <2>3. QED
    BY <1>1, <2>2 DEF Links
<1>8. ForNewer' /\ NoCircle'
  BY <1>1, <1>7, LinksStay
<1>9. QED
  BY <1>3, <1>4, <1>5, <1>6, <1>8 DEF Inv

\* Nothing of the invariant changes.
LEMMA UntouchedStep ==
  ASSUME Inv, UNCHANGED <<docs, kb, mark, rounds, seen>>
  PROVE  Inv'
<1>1. TypeOK' /\ OneAtATime' /\ (\A r \in Rounds : Fits(rounds[r]))'
  BY DEF Inv, TypeOK, OneAtATime, At, Fits, Distinct
<1>2. Memories'
  BY DEF Inv, Memories, Accounted, Retired, MadeOfOlder, AddedApart
<1>3. Links' = Links
  BY DEF Links, Planned, LinksOf
<1>4. ForNewer' /\ NoCircle'
  BY <1>3, LinksStay
<1>5. QED
  BY <1>1, <1>2, <1>4 DEF Inv

-----------------------------------------------------------------------------
(* The theorems.                                                           *)

\* There is nothing at first that was deleted or is about to be.
LEMMA Initially == Init => Inv
<1>1. SUFFICES ASSUME Init PROVE Inv
  OBVIOUS
<1>2. docs \in Stocks /\ docs \in Seq(Memory)
  BY <1>1, ConsolidationAssumption DEF Init
<1>3. PICK k \in Nat : k = Len(docs) /\ DOMAIN docs = 1 .. k
  BY <1>2, LenProperties
<1>4. docs \in Seq(Doc)
  <2>1. Memory \subseteq Doc
    BY DEF Memory, Doc, NoMark
  <2>2. QED
    BY <1>2, <2>1, SeqMonotonic
<1>5. /\ kb = DOMAIN docs /\ mark = NoMark /\ rounds = [r \in Rounds |-> Resting]
      /\ seen = [stock |-> DOMAIN docs, judged |-> {}, forgotten |-> {}, heirs |-> {},
                 overlap |-> FALSE]
  BY <1>1 DEF Init
<1>6. seen \in History /\ seen.stock = DOMAIN docs /\ seen.heirs = {}
  BY <1>3, <1>5 DEF History
<1>7. TypeOK
  BY <1>4, <1>5, <1>6, RestingFits DEF TypeOK, NoMark
<1>8. Accounted
  BY <1>5, <1>6 DEF Accounted, Retired
<1>9. MadeOfOlder
  BY <1>2, ConsolidationAssumption DEF MadeOfOlder
<1>10. AddedApart
  BY <1>6 DEF AddedApart
<1>11. \A r \in Rounds : rounds[r] = Resting
  BY <1>5
<1>12. (\A r \in Rounds : Fits(rounds[r])) /\ OneAtATime
  BY <1>11, RestingFits DEF OneAtATime, At
<1>13. Links = {}
  BY <1>6, <1>11, RestingFits DEF Links, Planned, LinksOf
<1>14. ForNewer /\ NoCircle
  BY <1>13 DEF ForNewer, NoCircle, Acyclic
<1>15. QED
  BY <1>7, <1>8, <1>9, <1>10, <1>12, <1>14 DEF Inv, Memories

LEMMA InvStep == Inv /\ [Next]_vars => Inv'
<1>1. SUFFICES ASSUME Inv, [Next]_vars PROVE Inv'
  OBVIOUS
<1>2. ASSUME NEW r \in Rounds, StartRound(r) \/ Step(r)
      PROVE  Inv'
  BY <1>1, <1>2, StartRoundStep, CollectStep, JudgeStep, DistillStep, RetireStep, ScanStep,
     WriteStateStep DEF Step
<1>3. CASE Learn
  BY <1>1, <1>3, LearnStep
<1>4. CASE Forget
  BY <1>1, <1>4, ForgetStep
<1>5. CASE RecallHit
  BY <1>1, <1>5, UntouchedStep DEF RecallHit
<1>6. CASE Crash
  BY <1>1, <1>6, CrashStep
<1>7. CASE UNCHANGED vars
  BY <1>1, <1>7, UntouchedStep DEF vars
<1>8. QED
  BY <1>1, <1>2, <1>3, <1>4, <1>5, <1>6, <1>7 DEF Next

\* Whatever rounds fail, die or overlap and whatever the user does meanwhile, what was
\* deleted was deleted for something that is known (delete_with_audit,
\* consolidation.rs:729-757), and what was deleted and is planned to be leads in no
\* circle, under the conditions of FactsSurvive.
THEOREM ConsolidationInvariant == Spec => []Inv
<1>1. QED
  BY Initially, InvStep, PTL DEF Spec

\* What the invariant says of what is gone.
LEMMA NothingIsClosed == Inv => FactsSurvive
<1>1. SUFFICES ASSUME Inv, Ranked \/ ~seen.overlap, NEW gone \in SUBSET Retired, gone # {}
               PROVE  \E link \in seen.heirs : link[1] \in gone /\ link[2] \notin gone
  BY DEF FactsSurvive
<1>2. PICK k \in Nat : /\ DOMAIN docs = 1 .. k /\ \A d \in 1 .. k : docs[d] \in Doc
  BY <1>1, DocFacts DEF Inv
<1>3. PICK L, M : L = seen.heirs /\ M = Links
  OBVIOUS
<1>4. L \subseteq M
  BY <1>3 DEF Links
<1>5. Acyclic(L)
  <2>1. CASE Ranked
    <3>1. PICK time : time = [d \in 1 .. k |-> docs[d].time]
      OBVIOUS
    <3>2. \A d \in 1 .. k : time[d] \in Nat
      BY <1>2, <3>1 DEF Doc
    <3>3. ASSUME NEW l \in L
          PROVE  l[1] \in 1 .. k /\ l[2] \in 1 .. k /\ time[l[1]] < time[l[2]]
      <4>1. l[1] \in 1 .. k /\ l[2] \in 1 .. k
        BY <1>1, <1>2, <1>3, <1>4, LinksTyped
      <4>2. docs[l[1]].time < docs[l[2]].time
        BY <1>1, <1>3, <1>4, <2>1 DEF Inv, ForNewer
      <4>3. QED
        BY <3>1, <4>1, <4>2
    <3>4. QED
      BY <3>2, <3>3, RisingLinks
  <2>2. CASE ~seen.overlap
    <3>1. Acyclic(M)
      BY <1>1, <1>3, <2>2 DEF Inv, NoCircle
    <3>2. QED
      BY <1>4, <3>1, FewerLinks
  <2>3. QED
    BY <1>1, <2>1, <2>2
<1>6. gone \in SUBSET (1 .. k)
  BY <1>2 DEF Retired
<1>7. PICK x \in gone : \A l \in L : l[1] = x => l[2] \notin gone
  BY <1>1, <1>5, <1>6 DEF Acyclic
<1>8. PICK l \in L : l[1] = x
  BY <1>1, <1>3 DEF Inv, Memories, Accounted
<1>9. QED
  BY <1>3, <1>7, <1>8

\* No memories are retired for nothing but each other, however many rounds, memories,
\* failures and crashes there are (consolidation.rs:297-300, 729-757): what the worker
\* deletes lives on in what it kept, as long as memories have times of their own, or
\* rounds do not overlap.
THEOREM NothingIsLost == Spec => []FactsSurvive
<1>1. QED
  BY ConsolidationInvariant, NothingIsClosed, PTL

=============================================================================
