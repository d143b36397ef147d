-------------------------- MODULE IDGeneratorProofs --------------------------
(* IDGenerator is a pool of ids, for every range [Start, End).              *)
(*                                                                          *)
(* The inductive invariant is TypeOK and NowIsFree.  What it rests on is    *)
(* that NextID finds an id not in use whenever one is left (NextIDFree):    *)
(* a non-empty set of numbers has a least one, and a set of fewer than Size *)
(* ids is not all of them.                                                  *)
EXTENDS IDGenerator, TLAPS, FiniteSetTheorems, WellFoundedInduction

\* A non-empty set of numbers has a least element, and Least is one.
LEMMA LeastIn ==
    ASSUME NEW S \in SUBSET Nat, S # {}
    PROVE  Least(S) \in S
<1>1. \E x \in S : \A y \in S : ~(<<y, x>> \in OpToRel(<, Nat))
  BY NatLessThanWellFounded, WFMin
<1>2. PICK x \in S : \A y \in S : ~(<<y, x>> \in OpToRel(<, Nat))
  BY <1>1
<1>3. \A y \in S : x <= y
  <2> TAKE y \in S
  <2>1. ~(<<y, x>> \in OpToRel(<, Nat))
    BY <1>2
  <2>2. x \in Nat /\ y \in Nat
    BY <1>2
  <2>3. ~(y < x)
    BY <2>1, <2>2 DEF OpToRel
  <2> QED BY <2>2, <2>3
<1> QED BY <1>2, <1>3 DEF Least

\* The ids form a finite set of Size elements.
LEMMA IdsFinite == IsFiniteSet(Ids) /\ Cardinality(Ids) = Size
<1>1. Start \in Int /\ End - 1 \in Int /\ Start <= End - 1
  BY RangeAssumption
<1>2. /\ IsFiniteSet(Start .. End - 1)
      /\ Cardinality(Start .. End - 1) = IF Start > End - 1 THEN 0 ELSE (End - 1) - Start + 1
  BY <1>1, FS_Interval
<1>3. Cardinality(Start .. End - 1) = End - Start
  BY <1>1, <1>2, RangeAssumption
<1> QED BY <1>2, <1>3 DEF Ids, Size

\* A set of ids is full, by its size, exactly when it holds them all.
LEMMA FullIsAll ==
    ASSUME NEW U \in SUBSET Ids
    PROVE  /\ Cardinality(U) \in Nat /\ Size \in Nat
           /\ Cardinality(U) < Size <=> U # Ids
<1>1. /\ Cardinality(U) <= Cardinality(Ids)
      /\ Cardinality(Ids) = Cardinality(U) => Ids = U
      /\ IsFiniteSet(U)
  BY IdsFinite, FS_Subset
<1>2. Cardinality(U) \in Nat
  BY <1>1, FS_CardinalityType
<1>3. Size \in Nat
  BY RangeAssumption DEF Size
<1>4. CASE U = Ids
  BY <1>2, <1>3, <1>4, IdsFinite
<1>5. CASE U # Ids
  BY <1>1, <1>2, <1>3, <1>5, IdsFinite
<1> QED BY <1>2, <1>3, <1>4, <1>5

\* NextID finds an id not in use whenever there is one.
LEMMA NextIDFree ==
    ASSUME NEW U \in SUBSET Ids, NEW n \in Ids
    PROVE  /\ NextID(U, n) \in Ids
           /\ U # Ids => NextID(U, n) \notin U
<1> DEFINE free  == Ids \ U
           later == {i \in free : i > n}
<1>1. free \in SUBSET Nat /\ later \in SUBSET Nat
  BY RangeAssumption DEF Ids
<1>2. CASE U = Ids
  <2>1. NextID(U, n) = n
    BY <1>2, FullIsAll DEF NextID
  <2> QED BY <1>2, <2>1
<1>3. CASE U # Ids
  <2>1. ~(Cardinality(U) >= Size)
    BY <1>3, FullIsAll
  <2>2. NextID(U, n) = IF later # {} THEN Least(later) ELSE Least(free)
    BY <2>1 DEF NextID
  <2>3. free # {}
    BY <1>3
  <2>4. Least(free) \in free
    BY <1>1, <2>3, LeastIn
  <2>5. later # {} => Least(later) \in later
    BY <1>1, LeastIn
  <2> QED BY <2>2, <2>4, <2>5
<1> QED BY <1>2, <1>3

------------------------------------------------------------------------------

IInv == TypeOK /\ NowIsFree

\* A generator that has handed out nothing has all ids free.
LEMMA InitIInv == Init => IInv
  BY RangeAssumption DEF Init, IInv, TypeOK, NowIsFree, Ids

\* What a call of GenerateOneID does from a state of the invariant.
LEMMA GenerateStep ==
    ASSUME IInv, GenerateOneID
    PROVE  /\ IInv'
           /\ Pool!Refuse \/ \E id \in Ids : Pool!Take(id)
<1> USE DEF IInv, TypeOK
<1>1. CASE use_set # Ids
  <2>1. /\ answer' = now
        /\ use_set' = use_set \union {now}
        /\ now' = NextID(use_set', now)
    BY <1>1, FullIsAll DEF GenerateOneID
  <2>2. now \notin use_set
    BY <1>1 DEF NowIsFree
  <2>3. use_set' \in SUBSET Ids
    BY <2>1
  <2>4. now' \in Ids /\ (use_set' # Ids => now' \notin use_set')
    BY <2>1, <2>3, NextIDFree
  <2>5. Pool!Take(now)
    BY <2>1, <2>2 DEF Pool!Take
  <2> QED BY <2>1, <2>3, <2>4, <2>5 DEF NowIsFree
<1>2. CASE use_set = Ids
  <2>1. answer' = End /\ now' = now /\ use_set' = use_set
    BY <1>2, FullIsAll DEF GenerateOneID
  <2>2. Pool!Refuse
    BY <1>2, <2>1 DEF Pool!Refuse
  <2> QED BY <1>2, <2>1, <2>2 DEF NowIsFree
<1> QED BY <1>1, <1>2

\* What a call of ReturnOneID does from a state of the invariant.
LEMMA ReturnStep ==
    ASSUME IInv, NEW id \in Ids, ReturnOneID(id)
    PROVE  IInv' /\ Pool!GiveBack(id)
<1> USE DEF IInv, TypeOK
<1>1. /\ id \in use_set
      /\ use_set' = use_set \ {id}
      /\ now' = IF now \in use_set' THEN NextID(use_set', now) ELSE now
      /\ answer' = answer
  BY DEF ReturnOneID
<1>2. use_set' \in SUBSET Ids /\ use_set' # Ids
  BY <1>1
<1>3. now' \in Ids /\ now' \notin use_set'
  BY <1>1, <1>2, NextIDFree
<1>4. Pool!GiveBack(id)
  BY <1>1 DEF Pool!GiveBack
<1> QED BY <1>1, <1>2, <1>3, <1>4 DEF NowIsFree

\* Every step keeps the invariant and is a step of the pool.
LEMMA StepIInv ==
    ASSUME IInv, [Next]_vars
    PROVE  IInv' /\ [Pool!Next]_<<use_set, answer>>
<1>1. CASE GenerateOneID
  BY <1>1, GenerateStep DEF Pool!Next
<1>2. ASSUME NEW id \in Ids, ReturnOneID(id)
      PROVE  IInv' /\ Pool!Next
  BY <1>2, ReturnStep DEF Pool!Next
<1>3. CASE UNCHANGED vars
  BY <1>3 DEF vars, IInv, TypeOK, NowIsFree
<1> QED BY <1>1, <1>2, <1>3 DEF Next

\* Type correctness, and the id handed out next is free unless none is.
THEOREM Invariance == Spec => [](TypeOK /\ NowIsFree)
<1>1. Init => IInv
  BY InitIInv
<1>2. IInv /\ [Next]_vars => IInv'
  BY StepIInv
<1>3. IInv => TypeOK /\ NowIsFree
  BY DEF IInv
<1> QED BY <1>1, <1>2, <1>3, PTL DEF Spec

\* The generator implements the pool: no id is handed out while it is held,
\* and none is refused while one is free.
THEOREM GeneratorIsPool == Spec => PoolSpec
<1>1. Init => IInv /\ Pool!Init
  BY InitIInv DEF Init, Pool!Init
<1>2. IInv /\ [Next]_vars => IInv' /\ [Pool!Next]_<<use_set, answer>>
  BY StepIInv
<1> QED BY <1>1, <1>2, PTL DEF Spec, PoolSpec, Pool!Spec
==============================================================================
