------------------------ MODULE EvidenceFusionProofs ------------------------
(***************************************************************************)
(* EvidenceFusion for every set of evidence ids and every number of        *)
(* findings: the source families are the common origins, the counted votes *)
(* are independent, a recommendation to proceed has nothing against it,    *)
(* and a contradiction never helps.                                        *)
(***************************************************************************)
EXTENDS EvidenceFusion, FiniteSetTheorems, TLAPS

-----------------------------------------------------------------------------
(* Naturals *)

LEMMA MinIsLeast ==
  ASSUME NEW S \in SUBSET Nat, S # {}
  PROVE  Min(S) \in S /\ \A x \in S : Min(S) <= x
<1> DEFINE R == OpToRel(<, Nat)
<1>1. \E x \in S : \A y \in S : ~ (<<y, x>> \in R)
  <2>1. IsWellFoundedOn(R, Nat)
    BY NatLessThanWellFounded
  <2> HIDE DEF R
  <2> QED BY <2>1, WFMin
<1>2. \A x, y \in Nat : <<y, x>> \in R <=> y < x
  BY DEF OpToRel
<1>3. \E x \in S : \A y \in S : x <= y
  <2> HIDE DEF R
  <2>1. PICK x \in S : \A y \in S : ~ (<<y, x>> \in R)
    BY <1>1
  <2>2. \A y \in S : x \in Nat /\ y \in Nat /\ ~ (y < x)
    BY <1>2, <2>1
  <2> QED BY <2>2
<1> QED BY <1>3 DEF Min

\* The members of S below b have a greatest one.
LEMMA GreatestBelow ==
  ASSUME NEW S \in SUBSET Nat, NEW a \in S, NEW b \in Nat, a < b
  PROVE  \E c \in S : a <= c /\ c < b /\ ~ \E d \in S : c < d /\ d < b
<1> DEFINE D == {n \in Nat : \E c \in S : a <= c /\ c < b /\ n = b - c}
<1>1. D \in SUBSET Nat /\ D # {}
  <2>1. b - a \in D
    OBVIOUS
  <2> QED BY <2>1
<1>2. Min(D) \in D /\ \A x \in D : Min(D) <= x
  <2> HIDE DEF D
  <2> QED BY <1>1, MinIsLeast
<1>3. PICK m : m \in D /\ \A x \in D : m <= x
  BY <1>2
<1>4. PICK c \in S : a <= c /\ c < b /\ m = b - c
  BY <1>3
<1>5. ASSUME NEW d \in S, c < d, d < b
      PROVE  FALSE
  <2>1. b - d \in D
    BY <1>4, <1>5
  <2>2. b - c <= b - d
    BY <1>3, <1>4, <2>1
  <2> QED BY <1>4, <1>5, <2>2
<1> QED BY <1>4, <1>5

-----------------------------------------------------------------------------
(* Reachability *)

Up(S) == Reachable(S, Parents)

\* Up(S) holds S, follows every derivation, and is the least such set.
LEMMA UpIsLeast ==
  ASSUME NEW S \in SUBSET pool
  PROVE  /\ S \subseteq Up(S) /\ Up(S) \subseteq pool
         /\ \A y \in Up(S) : Parents(y) \subseteq Up(S)
         /\ \A T \in SUBSET pool :
              S \subseteq T /\ (\A y \in T : Parents(y) \subseteq T) => Up(S) \subseteq T
<1>1. Up(S) = {x \in pool : ~\E T \in SUBSET (pool \ {x}) :
                              S \subseteq T /\ \A y \in T : Parents(y) \subseteq T}
  BY DEF Up, Reachable
<1>2. \A y : Parents(y) \subseteq pool
  BY DEF Parents
<1>3. S \subseteq Up(S) /\ Up(S) \subseteq pool
  BY <1>1
<1>4. ASSUME NEW T \in SUBSET pool, S \subseteq T, \A y \in T : Parents(y) \subseteq T
      PROVE  Up(S) \subseteq T
  <2> SUFFICES ASSUME NEW x \in Up(S), x \notin T
               PROVE  FALSE
    OBVIOUS
  <2>1. T \in SUBSET (pool \ {x})
    OBVIOUS
  <2> QED BY <1>1, <1>4, <2>1
<1>5. ASSUME NEW y \in Up(S), NEW z \in Parents(y), z \notin Up(S)
      PROVE  FALSE
  <2>1. z \in pool
    BY <1>2
  <2>2. PICK T \in SUBSET (pool \ {z}) : S \subseteq T /\ \A u \in T : Parents(u) \subseteq T
    BY <1>1, <1>5, <2>1
  <2>3. Up(S) \subseteq T
    BY <1>4, <2>2
  <2> QED BY <1>5, <2>2, <2>3
<1> QED BY <1>3, <1>4, <1>5

\* The same of the rows a chain of relations joins to e.
LEMMA OriginIsLeast ==
  ASSUME NEW e \in pool
  PROVE  /\ e \in CommonOrigin(e) /\ CommonOrigin(e) \subseteq pool
         /\ \A a \in CommonOrigin(e), b \in pool : Related(a, b) => b \in CommonOrigin(e)
         /\ \A T \in SUBSET pool :
              e \in T /\ (\A a \in T, b \in pool : Related(a, b) => b \in T)
                => CommonOrigin(e) \subseteq T
<1> DEFINE Near(a) == {b \in pool : Related(a, b)}
<1>1. CommonOrigin(e) = {x \in pool : ~\E T \in SUBSET (pool \ {x}) :
                              {e} \subseteq T /\ \A y \in T : Near(y) \subseteq T}
  BY DEF CommonOrigin, Reachable
<1>2. \A a : Near(a) \subseteq pool
  OBVIOUS
<1>3. e \in CommonOrigin(e) /\ CommonOrigin(e) \subseteq pool
  <2> HIDE DEF Near
  <2> QED BY <1>1
<1>4. ASSUME NEW T \in SUBSET pool, e \in T, \A a \in T : Near(a) \subseteq T
      PROVE  CommonOrigin(e) \subseteq T
  <2> HIDE DEF Near
  <2> SUFFICES ASSUME NEW x \in CommonOrigin(e), x \notin T
               PROVE  FALSE
    OBVIOUS
  <2>1. T \in SUBSET (pool \ {x})
    OBVIOUS
  <2> QED BY <1>1, <1>4, <2>1
<1>5. ASSUME NEW y \in CommonOrigin(e), NEW z \in Near(y), z \notin CommonOrigin(e)
      PROVE  FALSE
  <2> HIDE DEF Near
  <2>1. z \in pool
    BY <1>2
  <2>2. PICK T \in SUBSET (pool \ {z}) : {e} \subseteq T /\ \A u \in T : Near(u) \subseteq T
    BY <1>1, <1>5, <2>1
  <2>3. CommonOrigin(e) \subseteq T
    BY <1>4, <2>2
  <2> QED BY <1>5, <2>2, <2>3
<1>6. ASSUME NEW a \in CommonOrigin(e), NEW b \in pool, Related(a, b)
      PROVE  b \in CommonOrigin(e)
  BY <1>5, <1>6
<1>7. ASSUME NEW T \in SUBSET pool, e \in T,
             \A a \in T, b \in pool : Related(a, b) => b \in T
      PROVE  CommonOrigin(e) \subseteq T
  BY <1>4, <1>7
<1> QED BY <1>3, <1>6, <1>7

-----------------------------------------------------------------------------
(* Union-find *)

Singletons == {{e} : e \in pool}

First(s) == CHOOSE x \in s : TRUE

\* One step of the fold behind Blocks.
FoldStep(it, s) == IF s = {} THEN Singletons ELSE Union(First(s), it[s \ {First(s)}])

LEMMA FirstIsMember ==
  ASSUME NEW s, s # {}
  PROVE  First(s) \in s
BY DEF First

\* What the fold takes away makes the set of pairs smaller.
LEMMA RestIsSmaller ==
  ASSUME NEW P, IsFiniteSet(P), NEW s \in SUBSET P, s # {}
  PROVE  /\ s \ {First(s)} \in SUBSET P
         /\ Cardinality(s) \in Nat /\ Cardinality(s \ {First(s)}) \in Nat
         /\ Cardinality(s \ {First(s)}) = Cardinality(s) - 1
<1>1. IsFiniteSet(s)
  BY FS_Subset
<1>2. First(s) \in s
  BY FirstIsMember
<1> QED BY <1>1, <1>2, FS_RemoveElement, FS_CardinalityType

\* The recursion of FoldSet has a solution on every finite set of pairs.
LEMMA FoldExists ==
  ASSUME NEW P, IsFiniteSet(P)
  PROVE  \E it : it = [s \in SUBSET P |-> FoldStep(it, s)]
<1> DEFINE Solves(it, n) == \A s \in SUBSET P : Cardinality(s) <= n => it[s] = FoldStep(it, s)
           Bad == {n \in Nat : ~\E it : Solves(it, n)}
<1>0. \A s \in SUBSET P : IsFiniteSet(s) /\ Cardinality(s) \in Nat /\ Cardinality(s) <= Cardinality(P)
  BY FS_Subset, FS_CardinalityType
<1>1. \E it : Solves(it, 0)
  <2> DEFINE it == [s \in SUBSET P |-> Singletons]
  <2>1. ASSUME NEW s \in SUBSET P, Cardinality(s) <= 0
        PROVE  it[s] = FoldStep(it, s)
    <3>1. s = {}
      BY <1>0, <2>1, FS_EmptySet
    <3> QED BY <3>1 DEF FoldStep
  <2> QED BY <2>1
<1>2. ASSUME NEW n \in Nat, NEW it, Solves(it, n)
      PROVE  \E jt : Solves(jt, n + 1)
  <2> DEFINE jt == [s \in SUBSET P |-> IF Cardinality(s) <= n THEN it[s] ELSE FoldStep(it, s)]
  <2>1. ASSUME NEW s \in SUBSET P, Cardinality(s) <= n + 1
        PROVE  jt[s] = FoldStep(jt, s)
    <3>1. jt[s] = FoldStep(it, s)
      BY <1>2
    <3>2. CASE s = {}
      BY <3>1, <3>2 DEF FoldStep
    <3>3. CASE s # {}
      <4>1. PICK r : r = s \ {First(s)}
        OBVIOUS
      <4>2. r \in SUBSET P /\ Cardinality(r) <= n
        BY <2>1, <3>3, <4>1, RestIsSmaller
      <4>3. jt[r] = it[r]
        BY <4>2
      <4> HIDE DEF jt
      <4> QED BY <3>1, <3>3, <4>1, <4>3 DEF FoldStep
    <3> QED BY <3>2, <3>3
  <2> HIDE DEF jt
  <2> QED BY <2>1
<1>3. \E it : Solves(it, Cardinality(P))
  <2> HIDE DEF Solves
  <2> SUFFICES ASSUME ~\E it : Solves(it, Cardinality(P))
               PROVE  FALSE
    OBVIOUS
  <2>1. Cardinality(P) \in Nat
    BY FS_CardinalityType
  <2>2. Bad \in SUBSET Nat /\ Bad # {}
    BY <2>1
  <2>3. Min(Bad) \in Bad /\ \A x \in Bad : Min(Bad) <= x
    <3> HIDE DEF Bad
    <3> QED BY <2>2, MinIsLeast
  <2>4. PICK m : m \in Bad /\ \A x \in Bad : m <= x
    BY <2>3
  <2>5. m \in Nat /\ m # 0
    BY <1>1, <2>4
  <2>6. m - 1 \in Nat /\ m - 1 \notin Bad
    BY <2>4, <2>5
  <2>7. PICK it : Solves(it, m - 1)
    BY <2>6
  <2>8. \E jt : Solves(jt, m - 1 + 1)
    BY <1>2, <2>6, <2>7
  <2>9. m - 1 + 1 = m
    BY <2>5
  <2> QED BY <2>4, <2>8, <2>9
<1>4. PICK it : \A s \in SUBSET P : it[s] = FoldStep(it, s)
  BY <1>0, <1>3
<1> DEFINE jt == [s \in SUBSET P |-> it[s]]
<1>5. ASSUME NEW s \in SUBSET P
      PROVE  jt[s] = FoldStep(jt, s)
  <2>1. PICK r : r = s \ {First(s)} /\ r \in SUBSET P
    OBVIOUS
  <2>2. jt[r] = it[r] /\ jt[s] = it[s] /\ it[s] = FoldStep(it, s)
    BY <1>4, <2>1
  <2> HIDE DEF jt
  <2> QED BY <2>1, <2>2 DEF FoldStep
<1>6. jt = [s \in SUBSET P |-> FoldStep(jt, s)]
  <2>1. jt = [s \in SUBSET P |-> jt[s]]
    OBVIOUS
  <2> HIDE DEF jt
  <2> QED BY <1>5, <2>1
<1> QED BY <1>6

\* Blocks is that recursion, from the whole set of pairs down.
LEMMA BlocksFold ==
  ASSUME NEW P, IsFiniteSet(P)
  PROVE  \E it : (\A s \in SUBSET P : it[s] = FoldStep(it, s)) /\ Blocks(P) = it[P]
<1> DEFINE It == CHOOSE it : it = [s \in SUBSET P |-> FoldStep(it, s)]
<1>1. It = [s \in SUBSET P |-> FoldStep(It, s)]
  <2> QED BY FoldExists
<1>2. Blocks(P) = It[P]
  BY DEF Blocks, FoldSet, MapThenFoldSet, FoldStep, Singletons, First
<1> HIDE DEF It
<1>3. \A s \in SUBSET P : It[s] = FoldStep(It, s)
  BY <1>1
<1> QED BY <1>2, <1>3

\* Every row is in exactly one block.
Partition(blocks) ==
  /\ \A B \in blocks : B # {} /\ B \subseteq pool
  /\ \A e \in pool : \E B \in blocks : e \in B
  /\ \A B, C \in blocks : B = C \/ B \cap C = {}

\* T holds both ends of a pair or neither.
Keeps(T, pairs) == \A p \in pairs : p[1] \in T <=> p[2] \in T

\* The blocks keep the pairs together, and nothing but the pairs does.
Joined(blocks, pairs) ==
  /\ Partition(blocks)
  /\ \A B \in blocks : Keeps(B, pairs)
  /\ \A T \in SUBSET pool : Keeps(T, pairs) =>
       \A B \in blocks : B \cap T = {} \/ B \subseteq T

LEMMA UnionJoins ==
  ASSUME NEW blocks, NEW pairs, NEW p \in pool \X pool, Joined(blocks, pairs)
  PROVE  Joined(Union(p, blocks), pairs \cup {p})
<1>1. PICK a \in pool, b \in pool : p[1] = a /\ p[2] = b
  OBVIOUS
<1>2. PICK A \in blocks : a \in A
  BY DEF Joined, Partition
<1>3. PICK B \in blocks : b \in B
  BY DEF Joined, Partition
<1>4. PICK N : N = A \cup B
  OBVIOUS
<1>5. \A C \in blocks : (a \in C => C = A) /\ (b \in C => C = B)
  BY <1>2, <1>3 DEF Joined, Partition
<1>6. {C \in blocks : a \in C \/ b \in C} = {A, B}
  BY <1>2, <1>3, <1>5
<1>7. Union(p, blocks) = (blocks \ {A, B}) \cup {N}
  <2>1. UNION {A, B} = N
    BY <1>4
  <2> QED BY <1>1, <1>6, <2>1 DEF Union
<1>8. PICK new : new = Union(p, blocks) /\ \A C : C \in new <=> (C \in blocks /\ C # A /\ C # B) \/ C = N
  BY <1>7
<1>9. \A C \in blocks : C # A /\ C # B => C \cap N = {}
  BY <1>2, <1>3, <1>4 DEF Joined, Partition
<1>10. Partition(new)
  <2>1. \A C \in new : C # {} /\ C \subseteq pool
    BY <1>2, <1>3, <1>4, <1>8 DEF Joined, Partition
  <2>2. \A e \in pool : \E C \in new : e \in C
    <3> TAKE e \in pool
    <3>1. PICK C \in blocks : e \in C
      BY DEF Joined, Partition
    <3> QED BY <1>4, <1>8, <3>1
  <2>3. \A C, D \in new : C = D \/ C \cap D = {}
    <3> TAKE C \in new, D \in new
    <3>1. CASE C = N
      BY <1>8, <1>9, <3>1
    <3>2. CASE D = N
      BY <1>8, <1>9, <3>2
    <3>3. CASE C # N /\ D # N
      BY <1>8, <3>3 DEF Joined, Partition
    <3> QED BY <3>1, <3>2, <3>3
  <2> QED BY <2>1, <2>2, <2>3 DEF Partition
<1>11. \A C \in new : Keeps(C, pairs \cup {p})
  <2>1. Keeps(N, pairs \cup {p})
    BY <1>1, <1>2, <1>3, <1>4 DEF Keeps, Joined
  <2>2. ASSUME NEW C \in blocks, C # A, C # B
        PROVE  Keeps(C, pairs \cup {p})
    BY <1>1, <1>5, <2>2 DEF Keeps, Joined
  <2> QED BY <1>8, <2>1, <2>2
<1>12. ASSUME NEW T \in SUBSET pool, Keeps(T, pairs \cup {p}), NEW C \in new
       PROVE  C \cap T = {} \/ C \subseteq T
  <2>1. Keeps(T, pairs) /\ (a \in T <=> b \in T)
    BY <1>1, <1>12 DEF Keeps
  <2>2. \A D \in blocks : D \cap T = {} \/ D \subseteq T
    BY <2>1 DEF Joined
  <2>3. N \cap T = {} \/ N \subseteq T
    BY <1>2, <1>3, <1>4, <2>1, <2>2
  <2> QED BY <1>8, <2>2, <2>3
<1> QED BY <1>8, <1>10, <1>11, <1>12 DEF Joined

\* Blocks joins what its pairs join.
LEMMA BlocksJoined ==
  ASSUME IsFiniteSet(pool), NEW P \in SUBSET (pool \X pool)
  PROVE  Joined(Blocks(P), P)
<1>0. IsFiniteSet(P)
  BY FS_Product, FS_Subset
<1>1. PICK it : (\A s \in SUBSET P : it[s] = FoldStep(it, s)) /\ Blocks(P) = it[P]
  BY <1>0, BlocksFold
<1> DEFINE Bad == {n \in Nat : \E s \in SUBSET P : Cardinality(s) = n /\ ~Joined(it[s], s)}
<1>2. \A s \in SUBSET P : Cardinality(s) \in Nat
  BY <1>0, FS_Subset, FS_CardinalityType
<1>3. Joined(it[{}], {})
  <2>1. it[{}] = Singletons
    BY <1>1 DEF FoldStep
  <2>2. Partition(Singletons)
    BY DEF Partition, Singletons
  <2>3. \A T \in SUBSET pool, B \in Singletons : B \cap T = {} \/ B \subseteq T
    BY DEF Singletons
  <2> QED BY <2>1, <2>2, <2>3 DEF Joined, Keeps
<1>4. ASSUME Bad # {}
      PROVE  FALSE
  <2>1. Min(Bad) \in Bad /\ \A x \in Bad : Min(Bad) <= x
    <3>1. Bad \in SUBSET Nat
      OBVIOUS
    <3> HIDE DEF Bad
    <3> QED BY <1>4, <3>1, MinIsLeast
  <2>2. PICK m : m \in Bad /\ \A x \in Bad : m <= x
    BY <2>1
  <2>3. PICK s \in SUBSET P : Cardinality(s) = m /\ ~Joined(it[s], s)
    BY <2>2
  <2>4. s # {}
    BY <1>3, <2>3
  <2>5. PICK p, r : p = First(s) /\ r = s \ {First(s)}
    OBVIOUS
  <2>6. p \in s /\ p \in pool \X pool /\ s = r \cup {p}
    BY <2>4, <2>5, FirstIsMember
  <2>7. r \in SUBSET P /\ Cardinality(r) \in Nat /\ Cardinality(r) < m
    BY <1>0, <2>3, <2>4, <2>5, RestIsSmaller
  <2>8. Joined(it[r], r)
    BY <2>2, <2>7
  <2>9. it[s] = Union(p, it[r])
    BY <1>1, <2>4, <2>5 DEF FoldStep
  <2> QED BY <2>3, <2>6, <2>8, <2>9, UnionJoins
<1> QED BY <1>1, <1>2, <1>4

-----------------------------------------------------------------------------
(* Pairs and relations *)

\* A set that keeps neighbours together keeps everything together.
LEMMA WindowsConnect ==
  ASSUME NEW S \in SUBSET Nat, NEW T, Keeps(T, Windows(S)), NEW a \in S, NEW b \in S, a \in T
  PROVE  b \in T
<1>1. ASSUME NEW c \in S, NEW d \in S, c < d, ~\E x \in S : c < x /\ x < d
      PROVE  c \in T <=> d \in T
  <2>1. <<c, d>> \in Windows(S)
    BY <1>1 DEF Windows
  <2> QED BY <2>1 DEF Keeps
<1>2. ASSUME NEW u \in S, NEW v \in S, u < v
      PROVE  u \in T <=> v \in T
  <2> DEFINE Odd == {y \in S : u < y /\ ~(u \in T <=> y \in T)}
  <2>1. SUFFICES ASSUME Odd # {}
                 PROVE  FALSE
    BY <1>2
  <2>2. Min(Odd) \in Odd /\ \A x \in Odd : Min(Odd) <= x
    <3>1. Odd \in SUBSET Nat
      OBVIOUS
    <3> HIDE DEF Odd
    <3> QED BY <2>1, <3>1, MinIsLeast
  <2>3. PICK m : m \in Odd /\ \A x \in Odd : m <= x
    BY <2>2
  <2>4. PICK c \in S : u <= c /\ c < m /\ ~\E x \in S : c < x /\ x < m
    BY <2>3, GreatestBelow
  <2>5. c \in T <=> m \in T
    BY <1>1, <2>3, <2>4
  <2>6. u \in T <=> c \in T
    BY <2>3, <2>4
  <2> QED BY <2>3, <2>5, <2>6
<1> QED BY <1>2

\* The pool is a finite part of the recorded rows.
RowsSound ==
  /\ IsFiniteSet(pool)
  /\ pool \subseteq DOMAIN rows
  /\ DOMAIN rows \subseteq Ids
  /\ \A e \in DOMAIN rows : rows[e].kind \in Kinds

AllPairs == GroupPairs \cup AncestryPairs \cup TurnPairs

SameGroup(g) == {e \in pool : rows[e].kind.group = g}
SameTurn(t) == {e \in pool : rows[e].kind.turn = t}

LEMMA PairsOf ==
  /\ \A p : p \in GroupPairs <=>
       \E e \in pool : rows[e].kind.group # None /\ p \in Windows(SameGroup(rows[e].kind.group))
  /\ \A p : p \in TurnPairs <=>
       \E e \in pool : rows[e].kind.turn # None /\ p \in Windows(SameTurn(rows[e].kind.turn))
  /\ \A p : p \in AncestryPairs <=> \E e \in pool : \E x \in AncestorsOf(e) : p = <<e, x>>
<1>1. \A p : p \in GroupPairs <=>
       \E e \in pool : rows[e].kind.group # None /\ p \in Windows(SameGroup(rows[e].kind.group))
  BY DEF GroupPairs, SameGroup
<1>2. \A p : p \in TurnPairs <=>
       \E e \in pool : rows[e].kind.turn # None /\ p \in Windows(SameTurn(rows[e].kind.turn))
  BY DEF TurnPairs, SameTurn
<1>3. \A p : p \in AncestryPairs <=> \E e \in pool : \E x \in AncestorsOf(e) : p = <<e, x>>
  BY DEF AncestryPairs
<1> QED BY <1>1, <1>2, <1>3

LEMMA WindowsInSet ==
  ASSUME NEW S, NEW p \in Windows(S)
  PROVE  p = <<p[1], p[2]>> /\ p[1] \in S /\ p[2] \in S
BY DEF Windows

LEMMA AncestorsInPool ==
  ASSUME NEW e \in pool
  PROVE  /\ Parents(e) \in SUBSET pool
         /\ AncestorsOf(e) = Up(Parents(e)) \ {e}
         /\ AncestorsOf(e) \subseteq pool
         /\ Parents(e) \ {e} \subseteq AncestorsOf(e)
<1>1. Parents(e) \in SUBSET pool
  BY DEF Parents
<1>2. AncestorsOf(e) = Up(Parents(e)) \ {e}
  BY DEF AncestorsOf, Up
<1> QED BY <1>1, <1>2, UpIsLeast

LEMMA PairsInPool == AllPairs \in SUBSET (pool \X pool)
<1> SUFFICES ASSUME NEW p \in AllPairs
             PROVE  p \in pool \X pool
  OBVIOUS
<1>1. CASE p \in GroupPairs
  <2>1. PICK g : p \in Windows(SameGroup(g))
    BY <1>1, PairsOf
  <2> QED BY <2>1, WindowsInSet DEF SameGroup
<1>2. CASE p \in TurnPairs
  <2>1. PICK t : p \in Windows(SameTurn(t))
    BY <1>2, PairsOf
  <2> QED BY <2>1, WindowsInSet DEF SameTurn
<1>3. CASE p \in AncestryPairs
  BY <1>3, PairsOf, AncestorsInPool
<1> QED BY <1>1, <1>2, <1>3 DEF AllPairs

\* T follows the relations from its members.
Follows(T) == \A a \in T, b \in pool : Related(a, b) => b \in T

\* A set that keeps the pairs of union-find together follows the relations.
LEMMA KeepsFollows ==
  ASSUME RowsSound, NEW T \in SUBSET pool, Keeps(T, AllPairs)
  PROVE  Follows(T)
<1> SUFFICES ASSUME NEW a \in T, NEW b \in pool, Related(a, b)
             PROVE  b \in T
  BY DEF Follows
<1>0. pool \subseteq Nat
  BY IdsAreOrdered DEF RowsSound
<1>1. CASE rows[a].kind.group # None /\ rows[a].kind.group = rows[b].kind.group
  <2>1. PICK S : S = SameGroup(rows[a].kind.group)
    OBVIOUS
  <2>2. S \in SUBSET Nat /\ a \in S /\ b \in S
    BY <1>0, <1>1, <2>1 DEF SameGroup
  <2>3. Keeps(T, Windows(S))
    BY <1>1, <2>1, PairsOf DEF Keeps, AllPairs
  <2> QED BY <2>2, <2>3, WindowsConnect
<1>2. CASE rows[a].kind.turn # None /\ rows[a].kind.turn = rows[b].kind.turn
  <2>1. PICK S : S = SameTurn(rows[a].kind.turn)
    OBVIOUS
  <2>2. S \in SUBSET Nat /\ a \in S /\ b \in S
    BY <1>0, <1>2, <2>1 DEF SameTurn
  <2>3. Keeps(T, Windows(S))
    BY <1>2, <2>1, PairsOf DEF Keeps, AllPairs
  <2> QED BY <2>2, <2>3, WindowsConnect
<1>3. ASSUME NEW x \in pool, NEW y \in rows[x].from, y \in pool
      PROVE  x \in T <=> y \in T
  <2>1. CASE x = y
    BY <2>1
  <2>2. CASE x # y
    <3>1. y \in AncestorsOf(x)
      BY <1>3, <2>2, AncestorsInPool DEF Parents
    <3>2. <<x, y>> \in AllPairs
      BY <3>1, PairsOf DEF AllPairs
    <3> QED BY <3>2 DEF Keeps
  <2> QED BY <2>1, <2>2
<1> QED BY <1>1, <1>2, <1>3 DEF Related

LEMMA RelatedSymmetric ==
  ASSUME NEW a, NEW b, Related(a, b)
  PROVE  Related(b, a)
BY DEF Related

\* A row of T has all its ancestors in T.
LEMMA FollowsUp ==
  ASSUME NEW T \in SUBSET pool, Follows(T), NEW e \in T
  PROVE  AncestorsOf(e) \subseteq T
<1>1. \A y \in T : Parents(y) \subseteq T
  BY DEF Follows, Related, Parents
<1>2. Up(Parents(e)) \subseteq T
  BY <1>1, AncestorsInPool, UpIsLeast
<1> QED BY <1>2, AncestorsInPool

\* A set that follows the relations keeps the pairs of union-find together.
LEMMA FollowsKeeps ==
  ASSUME NEW T \in SUBSET pool, Follows(T)
  PROVE  Keeps(T, AllPairs)
<1>1. PICK R \in SUBSET pool : \A x : x \in R <=> x \in pool /\ x \notin T
  <2>1. pool \ T \in SUBSET pool
    OBVIOUS
  <2> QED BY <2>1
<1>2. Follows(R)
  BY <1>1, RelatedSymmetric DEF Follows
<1> SUFFICES ASSUME NEW p \in AllPairs
             PROVE  p[1] \in T <=> p[2] \in T
  BY DEF Keeps
<1>3. ASSUME NEW a \in pool, NEW b \in pool, Related(a, b)
      PROVE  a \in T <=> b \in T
  BY <1>3, RelatedSymmetric DEF Follows
<1>4. CASE p \in GroupPairs
  <2>1. PICK g : g # None /\ p \in Windows(SameGroup(g))
    BY <1>4, PairsOf
  <2>2. p[1] \in pool /\ p[2] \in pool /\ Related(p[1], p[2])
    BY <2>1, WindowsInSet DEF SameGroup, Related
  <2> QED BY <1>3, <2>2
<1>5. CASE p \in TurnPairs
  <2>1. PICK t : t # None /\ p \in Windows(SameTurn(t))
    BY <1>5, PairsOf
  <2>2. p[1] \in pool /\ p[2] \in pool /\ Related(p[1], p[2])
    BY <2>1, WindowsInSet DEF SameTurn, Related
  <2> QED BY <1>3, <2>2
<1>6. CASE p \in AncestryPairs
  <2>1. PICK e \in pool : \E x \in AncestorsOf(e) : p = <<e, x>>
    BY <1>6, PairsOf
  <2>2. PICK x \in AncestorsOf(e) : p = <<e, x>>
    BY <2>1
  <2>3. e \in T => x \in T
    BY FollowsUp
  <2>4. e \in R => x \in R
    BY <1>2, FollowsUp
  <2> QED BY <1>1, <2>2, <2>3, <2>4
<1> QED BY <1>4, <1>5, <1>6 DEF AllPairs

\* The block of a row is its common origin.
LEMMA BlockIsOrigin ==
  ASSUME RowsSound, NEW B \in Blocks(AllPairs), NEW a \in B
  PROVE  CommonOrigin(a) = B
<1>1. PICK blocks : blocks = Blocks(AllPairs) /\ Joined(blocks, AllPairs)
  BY PairsInPool, BlocksJoined DEF RowsSound
<1>2. B \in blocks /\ B \in SUBSET pool /\ a \in pool
  BY <1>1 DEF Joined, Partition
<1>3. CommonOrigin(a) \subseteq B
  <2>1. Follows(B)
    BY <1>1, <1>2, KeepsFollows DEF Joined
  <2> QED BY <1>2, <2>1, OriginIsLeast DEF Follows
<1>4. B \subseteq CommonOrigin(a)
  <2>1. PICK T \in SUBSET pool : T = CommonOrigin(a) /\ a \in T /\ Follows(T)
    BY <1>2, OriginIsLeast DEF Follows
  <2>2. Keeps(T, AllPairs)
    BY <2>1, FollowsKeeps
  <2> QED BY <1>1, <1>2, <2>1, <2>2 DEF Joined
<1> QED BY <1>3, <1>4

\* Two sourced rows have one family key exactly when they have one origin.
LEMMA KeyIsOrigin ==
  ASSUME RowsSound, NEW a \in Sourced, NEW b \in Sourced
  PROVE  FamilyKeys[a] = FamilyKeys[b] <=> b \in CommonOrigin(a)
<1>1. PICK blocks : blocks = Blocks(AllPairs) /\ Joined(blocks, AllPairs)
  BY PairsInPool, BlocksJoined DEF RowsSound
<1> DEFINE Home(e) == CHOOSE B \in blocks : e \in B
<1>2. ASSUME NEW e \in Sourced
      PROVE  /\ FamilyKeys[e] = Min(Home(e))
             /\ Home(e) \in blocks /\ e \in Home(e) /\ Min(Home(e)) \in Home(e)
             /\ Home(e) = CommonOrigin(e)
  <2>1. e \in pool /\ rows[e].kind.sourced
    BY DEF Sourced
  <2>2. FamilyKeys[e] = Min(Home(e))
    BY <1>1, <2>1 DEF FamilyKeys, Keys, AllPairs
  <2>3. \E B \in blocks : e \in B
    BY <1>1, <2>1 DEF Joined, Partition
  <2>4. Home(e) \in blocks /\ e \in Home(e)
    BY <2>3
  <2> HIDE DEF Home
  <2>5. Home(e) \in SUBSET Nat /\ Home(e) # {}
    BY <1>1, <2>4, IdsAreOrdered DEF Joined, Partition, RowsSound
  <2>6. Min(Home(e)) \in Home(e)
    BY <2>5, MinIsLeast
  <2> QED BY <1>1, <2>2, <2>4, <2>6, BlockIsOrigin
<1> HIDE DEF Home
<1>3. Home(a) = Home(b) <=> b \in Home(a)
  BY <1>1, <1>2 DEF Joined, Partition
<1>4. Min(Home(a)) = Min(Home(b)) => Home(a) = Home(b)
  BY <1>1, <1>2 DEF Joined, Partition
<1> QED BY <1>2, <1>3, <1>4

-----------------------------------------------------------------------------
(* The invariant *)

\* What the findings are about.
FindingsSound == \A f \in findings : f.judgement \in Judgements

IInv == RowsSound /\ FindingsSound

LEMMA InitInv == Init => IInv
<1> SUFFICES ASSUME Init
             PROVE  IInv
  OBVIOUS
<1>1. DOMAIN rows = {} /\ pool = {} /\ findings = {}
  BY DEF Init
<1>2. IsFiniteSet(pool)
  BY <1>1, FS_EmptySet
<1> QED BY <1>1, <1>2 DEF IInv, RowsSound, FindingsSound

LEMMA RecordEvidenceInv ==
  ASSUME IInv, NEW e \in Ids, NEW k \in Kinds, NEW from \in SUBSET Ids,
         RecordEvidence(e, k, from)
  PROVE  IInv'
<1>1. e \notin DOMAIN rows /\ pool' = pool \cup {e} /\ findings' = findings
  BY DEF RecordEvidence
<1>2. PICK D : D = DOMAIN rows
  OBVIOUS
<1>3. /\ DOMAIN rows' = D \cup {e}
      /\ rows'[e] = [kind |-> k, from |-> from]
      /\ \A x \in D : rows'[x] = rows[x]
  BY <1>1, <1>2 DEF RecordEvidence
<1>4. RowsSound'
  <2>1. IsFiniteSet(pool')
    BY <1>1, FS_AddElement DEF IInv, RowsSound
  <2>2. pool' \subseteq DOMAIN rows' /\ DOMAIN rows' \subseteq Ids
    BY <1>1, <1>2, <1>3 DEF IInv, RowsSound
  <2>3. \A x \in D \cup {e} : rows'[x].kind \in Kinds
    BY <1>2, <1>3 DEF IInv, RowsSound
  <2> QED BY <1>3, <2>1, <2>2, <2>3 DEF RowsSound
<1> QED BY <1>1, <1>4 DEF IInv, FindingsSound

LEMMA StepInv == IInv /\ [Next]_vars => IInv'
<1> SUFFICES ASSUME IInv, [Next]_vars
             PROVE  IInv'
  OBVIOUS
<1>1. ASSUME NEW e \in Ids, NEW k \in Kinds, NEW from \in SUBSET Ids,
             RecordEvidence(e, k, from)
      PROVE  IInv'
  BY <1>1, RecordEvidenceInv
<1>2. ASSUME NEW e \in Ids, LeavePool(e)
      PROVE  IInv'
  <2>1. pool' = pool \ {e} /\ rows' = rows /\ findings' = findings
    BY <1>2 DEF LeavePool
  <2>2. IsFiniteSet(pool')
    BY <2>1, FS_RemoveElement DEF IInv, RowsSound
  <2> QED BY <2>1, <2>2 DEF IInv, RowsSound, FindingsSound
<1>3. ASSUME NEW j \in Judgements, RecordFinding(j)
      PROVE  IInv'
  <2>1. pool' = pool /\ rows' = rows
    BY <1>3 DEF RecordFinding
  <2>2. PICK n : findings' = findings \cup {[judgement |-> j, nth |-> n]}
    BY <1>3 DEF RecordFinding
  <2>3. FindingsSound'
    BY <2>2 DEF IInv, FindingsSound
  <2> QED BY <2>1, <2>3 DEF IInv, RowsSound
<1>4. CASE UNCHANGED vars
  BY <1>4 DEF vars, IInv, RowsSound, FindingsSound
<1> QED BY <1>1, <1>2, <1>3, <1>4 DEF Next

LEMMA Invariant == Spec => []IInv
BY InitInv, StepInv, PTL DEF Spec

-----------------------------------------------------------------------------
(* Families *)

\* For every pool, order of arrival and order of ids, the families of the
\* union-find are the common origins of the sourced rows.
THEOREM FamiliesHaveOneOrigin == Spec => []FamiliesAreOrigins
<1>1. IInv => FamiliesAreOrigins
  <2> SUFFICES ASSUME IInv, NEW a \in Sourced
               PROVE  FamilyOf(FamilyKeys, a) \cap Sourced = CommonOrigin(a) \cap Sourced
    BY DEF FamiliesAreOrigins
  <2>1. \A x \in Sourced : x \in FamilyOf(FamilyKeys, a) <=> FamilyKeys[a] = FamilyKeys[x]
    BY DEF FamilyOf, Sourced
  <2> QED BY <2>1, KeyIsOrigin DEF IInv
<1> QED BY <1>1, Invariant, PTL

-----------------------------------------------------------------------------
(* Votes *)

\* R5 drops no side: what it discounts it keeps a representative of.
LEMMA GroupKeepsSides ==
  ASSUME NEW S
  PROVE  /\ OnePerGroup(S) \subseteq S
         /\ \A l \in S : \E m \in OnePerGroup(S) : m.relation = l.relation
<1> DEFINE Same(k, l) == /\ k.relation = l.relation
                         /\ Kind(k).group # None
                         /\ Kind(k).group = Kind(l).group
           Bucket(l) == {k \in S : k = l \/ Same(k, l)}
<1>1. OnePerGroup(S) = {l \in S : l = CHOOSE m \in Bucket(l) : TRUE}
  BY DEF OnePerGroup, Collapse
<1>2. ASSUME NEW l \in S
      PROVE  \E m \in S : m.relation = l.relation /\ m = CHOOSE k \in Bucket(m) : TRUE
  <2>1. PICK m : m = CHOOSE k \in Bucket(l) : TRUE
    OBVIOUS
  <2>2. m \in Bucket(l)
    <3>1. l \in Bucket(l)
      OBVIOUS
    <3> HIDE DEF Bucket
    <3> QED BY <2>1, <3>1
  <2>3. Bucket(m) = Bucket(l)
    BY <2>2
  <2>4. m \in S /\ m.relation = l.relation
    BY <2>2
  <2> HIDE DEF Bucket
  <2> QED BY <2>1, <2>3, <2>4
<1> HIDE DEF Bucket
<1> QED BY <1>1, <1>2

\* R5b keeps a representative too, and only one of each family.
LEMMA FamilyKeepsSides ==
  ASSUME NEW S, NEW keys
  PROVE  /\ OnePerFamily(S, keys) \subseteq S
         /\ \A l \in S : \E m \in OnePerFamily(S, keys) : m.relation = l.relation
         /\ \A k, l \in OnePerFamily(S, keys) :
              /\ k.relation = l.relation
              /\ keys[k.evidence] = keys[l.evidence]
              /\ Cardinality(FamilyOf(keys, l.evidence)) > 1
              => k = l
<1> DEFINE Same(k, l) == /\ k.relation = l.relation
                         /\ keys[k.evidence] = keys[l.evidence]
                         /\ Cardinality(FamilyOf(keys, l.evidence)) > 1
           Bucket(l) == {k \in S : k = l \/ Same(k, l)}
<1>1. OnePerFamily(S, keys) = {l \in S : l = CHOOSE m \in Bucket(l) : TRUE}
  BY DEF OnePerFamily, Collapse
<1>2. ASSUME NEW k, NEW l, keys[k.evidence] = keys[l.evidence]
      PROVE  FamilyOf(keys, k.evidence) = FamilyOf(keys, l.evidence)
  BY <1>2 DEF FamilyOf
<1>3. ASSUME NEW k \in S, NEW l \in S, Same(k, l)
      PROVE  Bucket(k) = Bucket(l)
  <2>1. FamilyOf(keys, k.evidence) = FamilyOf(keys, l.evidence)
    BY <1>2, <1>3
  <2> QED BY <1>3, <2>1
<1>4. ASSUME NEW l \in S
      PROVE  \E m \in S : m.relation = l.relation /\ m = CHOOSE k \in Bucket(m) : TRUE
  <2>1. PICK m : m = CHOOSE k \in Bucket(l) : TRUE
    OBVIOUS
  <2>2. m \in Bucket(l)
    <3>1. l \in Bucket(l)
      OBVIOUS
    <3> HIDE DEF Bucket
    <3> QED BY <2>1, <3>1
  <2>3. m \in S /\ m.relation = l.relation
    BY <2>2
  <2>4. Bucket(m) = Bucket(l)
    BY <1>3, <2>2
  <2> HIDE DEF Bucket
  <2> QED BY <2>1, <2>3, <2>4
<1> HIDE DEF Bucket
<1>5. ASSUME NEW k \in OnePerFamily(S, keys), NEW l \in OnePerFamily(S, keys), Same(k, l)
      PROVE  k = l
  BY <1>1, <1>3, <1>5
<1> QED BY <1>1, <1>4, <1>5

\* A side counts when it has a link that R3 and R4 leave.
LEMMA SidesAreCounted ==
  ASSUME NEW F
  PROVE  /\ Counted(F) \subseteq FreshEnough(Underived(Candidates(F)))
         /\ \A l \in FreshEnough(Underived(Candidates(F))) :
              \E m \in Counted(F) : m.relation = l.relation
<1>1. PICK S : S = FreshEnough(Underived(Candidates(F)))
  OBVIOUS
<1>2. PICK G : G = OnePerGroup(S)
  OBVIOUS
<1>3. Counted(F) = OnePerFamily(G, FamilyKeys)
  BY <1>1, <1>2 DEF Counted
<1>4. G \subseteq S /\ \A l \in S : \E m \in G : m.relation = l.relation
  BY <1>2, GroupKeepsSides
<1>5. Counted(F) \subseteq G /\ \A l \in G : \E m \in Counted(F) : m.relation = l.relation
  BY <1>3, FamilyKeepsSides
<1> QED BY <1>1, <1>4, <1>5

LEMMA TwoMembers ==
  ASSUME NEW S, IsFiniteSet(S), NEW a \in S, NEW b \in S, a # b
  PROVE  Cardinality(S) > 1
<1>1. Cardinality(S) \in Nat /\ Cardinality(S) # 0
  BY FS_CardinalityType, FS_EmptySet
<1>2. Cardinality(S) # 1
  <2>1. ~\E x : S = {x}
    OBVIOUS
  <2> QED BY <2>1, FS_Singleton
<1> QED BY <1>1, <1>2

LEMMA CountedIndependent ==
  ASSUME RowsSound, NEW F, NEW k \in Counted(F), NEW l \in Counted(F),
         k.evidence \in Sourced, l.evidence \in Sourced,
         k.relation = l.relation, k.evidence # l.evidence
  PROVE  l.evidence \notin CommonOrigin(k.evidence)
<1> SUFFICES ASSUME l.evidence \in CommonOrigin(k.evidence)
             PROVE  FALSE
  OBVIOUS
<1>1. PICK a \in Sourced, b \in Sourced : a = k.evidence /\ b = l.evidence /\ a # b
  OBVIOUS
<1>2. FamilyKeys[a] = FamilyKeys[b]
  BY <1>1, KeyIsOrigin
<1>3. Cardinality(FamilyOf(FamilyKeys, b)) > 1
  <2>1. a \in FamilyOf(FamilyKeys, b) /\ b \in FamilyOf(FamilyKeys, b)
    BY <1>2 DEF FamilyOf, Sourced
  <2>2. IsFiniteSet(FamilyOf(FamilyKeys, b))
    <3>1. FamilyOf(FamilyKeys, b) \in SUBSET pool
      BY DEF FamilyOf
    <3> QED BY <3>1, FS_Subset DEF RowsSound
  <2> QED BY <1>1, <2>1, <2>2, TwoMembers
<1>4. PICK S : Counted(F) = OnePerFamily(S, FamilyKeys)
  BY DEF Counted
<1>5. k = l
  BY <1>1, <1>2, <1>3, <1>4, FamilyKeepsSides
<1> QED BY <1>1, <1>5

\* Nothing is corroborated by itself, however many rows, findings and sources
\* there are.
THEOREM CountedVotesIndependent == Spec => []VotesAreIndependent
<1>1. IInv => VotesAreIndependent
  BY CountedIndependent DEF IInv, VotesAreIndependent
<1> QED BY <1>1, Invariant, PTL

-----------------------------------------------------------------------------
(* Verdicts *)

Supported(F) == \E l \in Counted(F) : l.relation = "supports"
Opposed(F) == \E l \in Counted(F) : l.relation = "contradicts"

Clean(F) ==
  Caveats(F, Counted(F)) = {} /\ Discounted(F, Counted(F)) = {} /\ ~Missing(F)

LEMMA VerdictVerified ==
  ASSUME NEW F
  PROVE  /\ Fuse(F).verdict = "Verified" <=> ~BudgetExceeded /\ Supported(F) /\ ~Opposed(F)
         /\ Fuse(F).verdict = "Verified" /\ Fuse(F).band = "Corroborated" => Clean(F)
<1>1. CASE BudgetExceeded
  <2>1. Fuse(F) = [verdict |-> "Review", band |-> "Undetermined"]
    BY <1>1 DEF Fuse
  <2> QED BY <1>1, <2>1
<1>2. CASE ~BudgetExceeded /\ Supported(F) /\ Opposed(F)
  <2>1. Fuse(F) = [verdict |-> "Review", band |-> "Conflicted"]
    BY <1>2 DEF Fuse, Supported, Opposed
  <2> QED BY <1>2, <2>1
<1>3. CASE ~BudgetExceeded /\ Supported(F) /\ ~Opposed(F)
  <2>1. Fuse(F) = [verdict |-> "Verified", band |-> IF Clean(F) THEN "Corroborated" ELSE "Qualified"]
    BY <1>3 DEF Fuse, Supported, Opposed, Clean
  <2> QED BY <1>3, <2>1
<1>4. CASE ~BudgetExceeded /\ ~Supported(F) /\ Opposed(F)
  <2>1. Fuse(F) = [verdict |-> "Contradicted", band |-> IF Clean(F) THEN "Corroborated" ELSE "Qualified"]
    BY <1>4 DEF Fuse, Supported, Opposed, Clean
  <2> QED BY <1>4, <2>1
<1>5. CASE ~BudgetExceeded /\ ~Supported(F) /\ ~Opposed(F)
  <2>1. Fuse(F) = [verdict |-> IF Missing(F) THEN "Unavailable" ELSE "Unverified",
                   band |-> "Undetermined"]
    BY <1>5 DEF Fuse, Supported, Opposed
  <2> QED BY <1>5, <2>1
<1> QED BY <1>1, <1>2, <1>3, <1>4, <1>5

\* A claim is opposed exactly when a contradiction is left by R3.
LEMMA OpposedWhen ==
  ASSUME NEW F
  PROVE  Opposed(F) <=> \E l \in Underived(Candidates(F)) : l.relation = "contradicts"
<1>1. \A l \in Underived(Candidates(F)) :
        l.relation = "contradicts" => l \in FreshEnough(Underived(Candidates(F)))
  BY DEF FreshEnough
<1>2. FreshEnough(Underived(Candidates(F))) \subseteq Underived(Candidates(F))
  BY DEF FreshEnough
<1> QED BY <1>1, <1>2, SidesAreCounted DEF Opposed

-----------------------------------------------------------------------------
(* A contradiction never helps *)

\* An ancestor's ancestor is an ancestor, or the row itself.
LEMMA AncestorsCompose ==
  ASSUME NEW c \in pool, NEW x \in AncestorsOf(c), NEW y \in AncestorsOf(x)
  PROVE  y \in AncestorsOf(c) \/ y = c
<1>1. Parents(c) \in SUBSET pool /\ x \in Up(Parents(c)) /\ x \in pool
  BY AncestorsInPool
<1>2. PICK U \in SUBSET pool : U = Up(Parents(c)) /\ \A z \in U : Parents(z) \subseteq U
  BY <1>1, UpIsLeast
<1>3. Up(Parents(x)) \subseteq U
  BY <1>1, <1>2, AncestorsInPool, UpIsLeast
<1>4. y \in U
  BY <1>1, <1>3, AncestorsInPool
<1> QED BY <1>2, <1>4, AncestorsInPool

LinkOf(f) == [evidence |-> f.judgement[2], relation |-> RelationOf(f.judgement[1]), nth |-> f.nth]

LEMMA LinksOf ==
  ASSUME NEW F
  PROVE  \A l : l \in Links(F) <=> \E f \in F : f.judgement[2] # None /\ l = LinkOf(f)
BY DEF Links, LinkOf

\* Without one contradiction that does not count, the sides are as before: a
\* link that R3 no longer discounts descends from the contradiction's row, which
\* itself descends from a voting row, and that is another one.
LEMMA WithoutContradiction ==
  ASSUME NEW F, NEW f \in F, f.judgement[1] = "Contradicted",
         \A l \in Candidates(F) : ~Mutual(l.evidence, f.judgement[2]),
         Supported(F), ~Opposed(F)
  PROVE  Supported(F \ {f}) /\ ~Opposed(F \ {f})
<1>1. PICK C, D : C = Candidates(F) /\ D = Candidates(F \ {f})
  OBVIOUS
<1>2. LinkOf(f).relation = "contradicts" /\ LinkOf(f).evidence = f.judgement[2]
  BY DEF LinkOf, RelationOf
<1>3. PICK lf : /\ lf = LinkOf(f) /\ lf.relation = "contradicts"
                /\ lf.evidence = f.judgement[2]
  BY <1>2
<1>4. D \subseteq C /\ \A l \in C : l = lf \/ l \in D
  <2>1. \A l : l \in Links(F \ {f}) => l \in Links(F)
    BY LinksOf
  <2>2. \A l : l \in Links(F) => l = lf \/ l \in Links(F \ {f})
    BY <1>3, LinksOf
  <2> QED BY <1>1, <2>1, <2>2 DEF Candidates
<1>5. \A l \in C : l.evidence \in pool
  BY <1>1 DEF Candidates
<1>6. \A S, l : l \in Underived(S) <=> l \in S /\ ~\E m \in S : m.evidence \in AncestorsOf(l.evidence)
  BY DEF Underived
<1>7. Supported(F \ {f})
  <2>1. PICK s \in Counted(F) : s.relation = "supports"
    BY DEF Supported
  <2>2. s \in FreshEnough(Underived(C))
    BY <1>1, <2>1, SidesAreCounted
  <2>3. s \in Underived(D)
    <3>1. s \in Underived(C)
      BY <2>2 DEF FreshEnough
    <3>2. s \in D
      BY <1>3, <1>4, <1>6, <2>1, <3>1
    <3> QED BY <1>4, <1>6, <3>1, <3>2
  <2>4. s \in FreshEnough(Underived(D))
    BY <2>2, <2>3 DEF FreshEnough
  <2> QED BY <1>1, <2>1, <2>4, SidesAreCounted DEF Supported
<1>8. ASSUME NEW c \in Underived(D), c.relation = "contradicts"
      PROVE  FALSE
  <2>1. \A l \in C : l.relation = "contradicts" => \E m \in C : m.evidence \in AncestorsOf(l.evidence)
    BY <1>1, <1>6, OpposedWhen
  <2>2. c \in D /\ c \in C /\ ~\E m \in D : m.evidence \in AncestorsOf(c.evidence)
    BY <1>4, <1>6, <1>8
  <2>3. lf \in C /\ lf.evidence \in AncestorsOf(c.evidence)
    BY <1>4, <1>8, <2>1, <2>2
  <2>4. PICK m \in C : m.evidence \in AncestorsOf(lf.evidence)
    BY <1>3, <2>1, <2>3
  <2>5. m # lf
    BY <1>5, <2>3, <2>4, AncestorsInPool
  <2>6. m.evidence \in AncestorsOf(c.evidence) \/ m.evidence = c.evidence
    BY <1>5, <2>2, <2>3, <2>4, AncestorsCompose
  <2>7. m.evidence # c.evidence
    BY <1>1, <1>3, <2>2, <2>3, <2>4 DEF Mutual
  <2> QED BY <1>4, <2>2, <2>4, <2>5, <2>6, <2>7
<1> QED BY <1>1, <1>7, <1>8, OpposedWhen

\* No contradiction is what a Verified verdict rests on, for any rows and
\* derivations, unless its row and another voting row are derived from each
\* other.
THEOREM ContradictionsDoNotHelp == Spec => []ContradictionNeverHelps
<1>1. IInv => ContradictionNeverHelps
  <2> SUFFICES ASSUME IInv, Fuse(findings).verdict = "Verified",
                      NEW f \in findings, f.judgement[1] = "Contradicted",
                      \A l \in Candidates(findings) : ~Mutual(l.evidence, f.judgement[2])
               PROVE  Fuse(findings \ {f}).verdict = "Verified"
    BY DEF ContradictionNeverHelps
  <2>1. ~BudgetExceeded /\ Supported(findings) /\ ~Opposed(findings)
    BY VerdictVerified
  <2>2. Supported(findings \ {f}) /\ ~Opposed(findings \ {f})
    BY <2>1, WithoutContradiction
  <2> QED BY <2>1, <2>2, VerdictVerified
<1> QED BY <1>1, Invariant, PTL

-----------------------------------------------------------------------------
(* Proceeding *)

LEMMA ProceedNeeds ==
  ASSUME NEW fused, NEW risk, NEW calibration,
         Recommendation(fused, risk, calibration) = "Proceed",
         fused.verdict \in {"Verified", "Contradicted", "Unverified", "Unavailable", "Review"}
  PROVE  /\ fused.verdict = "Verified" /\ fused.band = "Corroborated"
         /\ calibration \in {"NoActiveCalibration", "Valid"}
<1>1. PICK action : action = ActionFor(fused.verdict, fused.band, risk)
  OBVIOUS
<1>2. action = "Proceed" /\ calibration \in {"NoActiveCalibration", "Valid"}
  BY <1>1 DEF Recommendation, CalibrationFloor
<1>3. fused.verdict = "Verified" /\ fused.band = "Corroborated"
  BY <1>1, <1>2 DEF ActionFor
<1> QED BY <1>2, <1>3

LEMMA VerdictIsOne ==
  ASSUME NEW F
  PROVE  Fuse(F).verdict \in {"Verified", "Contradicted", "Unverified", "Unavailable", "Review"}
BY DEF Fuse

\* What a clean set of findings looks like.
LEMMA CleanLinks ==
  ASSUME IInv, Clean(findings), Supported(findings), ~Opposed(findings)
  PROVE  /\ \A l \in Links(findings) : l.evidence \in pool /\ l.relation # "contradicts"
         /\ \E l \in Links(findings) : l.relation = "supports"
         /\ \A l \in Links(findings) : l.relation = "supports" =>
              /\ l \in Counted(findings)
              /\ rows[l.evidence].kind.age = "fresh"
              /\ rows[l.evidence].kind.group # None
              /\ rows[l.evidence].from \cap pool \subseteq {l.evidence}
              /\ l.evidence \in Sourced
<1>1. PICK C, N : C = Candidates(findings) /\ N = Counted(findings)
  OBVIOUS
<1>2. /\ \A l \in Links(findings) : l.evidence \in pool
      /\ \A l \in C : l \in N
  BY <1>1 DEF Clean, Discounted
<1>3. \A l \in Links(findings) : l.relation # "neutral" => l \in C
  BY <1>1, <1>2 DEF Candidates
<1>4. N \subseteq FreshEnough(Underived(C)) /\ FreshEnough(Underived(C)) \subseteq Underived(C)
  BY <1>1, SidesAreCounted DEF FreshEnough
<1>5. \A l \in Links(findings) : l.relation # "contradicts"
  BY <1>1, <1>2, <1>3 DEF Opposed
<1>6. \E l \in Links(findings) : l.relation = "supports"
  BY <1>1, <1>4 DEF Supported, Underived, Candidates
<1>7. ASSUME NEW l \in Links(findings), l.relation = "supports"
      PROVE  /\ l \in N
             /\ rows[l.evidence].kind.age = "fresh"
             /\ rows[l.evidence].kind.group # None
             /\ rows[l.evidence].from \cap pool \subseteq {l.evidence}
             /\ l.evidence \in Sourced
  <2>1. l \in N /\ l \in FreshEnough(Underived(C)) /\ l \in Underived(C)
    BY <1>2, <1>3, <1>4, <1>7
  <2>2. PICK e \in pool : e = l.evidence
    BY <1>2
  <2>3. PICK k \in Kinds : k = rows[e].kind
    BY DEF IInv, RowsSound
  <2>4. ~(k.age = "stale")
    BY <1>7, <2>1, <2>2, <2>3 DEF FreshEnough, Kind
  <2>5. AncestorsOf(e) = {} /\ k.age # "indeterminate" /\ k.group # None
    BY <1>1, <2>1, <2>2, <2>3 DEF Clean, Caveats, Kind
  <2>6. k.age = "fresh" /\ k.sourced
    BY <2>4, <2>5, KindsAreRows
  <2>7. rows[e].from \cap pool \subseteq {e}
    BY <2>5, AncestorsInPool DEF Parents
  <2> QED BY <2>1, <2>2, <2>3, <2>5, <2>6, <2>7 DEF Sourced
<1> QED BY <1>1, <1>2, <1>5, <1>6, <1>7

\* To proceed is recommended only on support nobody can object to, for any
\* rows, findings, risk class and calibration.
THEOREM ProceedingIsClean == Spec => []ProceedIsClean
<1>1. IInv => ProceedIsClean
  <2> DEFINE links == Links(findings)
             support == {l.evidence : l \in {m \in links : m.relation = "supports"}}
  <2> SUFFICES ASSUME IInv, NEW risk \in RiskClass, NEW calibration \in Calibration,
                      Recommendation(Fuse(findings), risk, calibration) = "Proceed"
               PROVE  /\ support # {}
                      /\ {l \in links : l.relation = "contradicts"} = {}
                      /\ {l.evidence : l \in links} \subseteq pool
                      /\ \A e \in support : /\ rows[e].kind.age = "fresh"
                                            /\ rows[e].kind.group # None
                                            /\ rows[e].from \cap pool \subseteq {e}
                                            /\ support \cap CommonOrigin(e) = {e}
                      /\ ~Missing(findings)
                      /\ ~BudgetExceeded
                      /\ calibration \in {"NoActiveCalibration", "Valid"}
    BY DEF ProceedIsClean
  <2>1. /\ Fuse(findings).verdict = "Verified" /\ Fuse(findings).band = "Corroborated"
        /\ calibration \in {"NoActiveCalibration", "Valid"}
    BY VerdictIsOne, ProceedNeeds
  <2>2. ~BudgetExceeded /\ Supported(findings) /\ ~Opposed(findings) /\ Clean(findings)
    BY <2>1, VerdictVerified
  <2>3. /\ \A l \in links : l.evidence \in pool /\ l.relation # "contradicts"
        /\ \E l \in links : l.relation = "supports"
        /\ \A l \in links : l.relation = "supports" =>
             /\ l \in Counted(findings)
             /\ rows[l.evidence].kind.age = "fresh"
             /\ rows[l.evidence].kind.group # None
             /\ rows[l.evidence].from \cap pool \subseteq {l.evidence}
             /\ l.evidence \in Sourced
    BY <2>2, CleanLinks
  <2>4. ASSUME NEW e \in support
        PROVE  support \cap CommonOrigin(e) = {e}
    <3>1. PICK k \in links : k.relation = "supports" /\ k.evidence = e
      OBVIOUS
    <3>2. e \in CommonOrigin(e)
      BY <2>3, <3>1, OriginIsLeast
    <3>3. ASSUME NEW x \in support, x # e
          PROVE  x \notin CommonOrigin(e)
      <4>1. PICK l \in links : l.relation = "supports" /\ l.evidence = x
        OBVIOUS
      <4> HIDE DEF links, support
      <4> QED BY <2>3, <3>1, <3>3, <4>1, CountedIndependent DEF IInv
    <3> HIDE DEF links, support
    <3> QED BY <2>4, <3>2, <3>3
  <2>5. ~Missing(findings)
    BY <2>2 DEF Clean
  <2> QED BY <2>1, <2>2, <2>3, <2>4, <2>5
<1> QED BY <1>1, Invariant, PTL
=============================================================================
