-------------------------- MODULE ObjectPoolProofs --------------------------
(***************************************************************************)
(* Proofs about ObjectPool, for every size and every width of the magic.   *)
(***************************************************************************)
EXTENDS ObjectPool, FiniteSetTheorems, TLAPS

\* The objects are finitely many, and so are those in any state of the pool.
LEMMA IndexFinite ==
    /\ IsFiniteSet(Index)
    /\ Cardinality(Index) = Size
  BY PoolAssumption, FS_Interval, SMT DEF Index

\* The number of free objects is a natural number.
LEMMA FreeCount == Cardinality(FreeObjects) \in Nat /\ IsFiniteSet(FreeObjects)
  <1>1. FreeObjects \subseteq Index
    BY DEF FreeObjects
  <1> QED
    BY <1>1, IndexFinite, FS_Subset, FS_CardinalityType

-----------------------------------------------------------------------------
(* Types *)

\* NextMagic stays within the width of a ushort.
LEMMA NextMagicType == ASSUME NEW m \in Magic PROVE NextMagic(m) \in Magic
  BY PoolAssumption, SMT DEF NextMagic, Magic

LEMMA TypeInit == Init => TypeOK
  BY PoolAssumption, SMT DEF Init, NextFree, TypeOK, Index, Magic

LEMMA TypeStep == TypeOK /\ [Next]_vars => TypeOK'
  <1> SUFFICES ASSUME TypeOK, [Next]_vars PROVE TypeOK'
    OBVIOUS
  <1>1. CASE Allocate
    BY <1>1 DEF TypeOK, Allocate, Pop
  <1>2. ASSUME NEW u \in Magic \X Index, Free(u) PROVE TypeOK'
    <2>1. u[1] \in Magic /\ u[2] \in Index
      OBVIOUS
    <2>2. NextMagic(u[1]) \in Magic
      BY <2>1, NextMagicType
    <2>3. frees' \in [Index -> Nat] /\ count' \in Int
      BY <1>2, <2>1, SMT DEF TypeOK, Free, CountFreed
    <2> QED
      BY <1>2, <2>1, <2>2, <2>3 DEF TypeOK, Free
  <1>3. CASE UNCHANGED vars
    BY <1>3 DEF vars, TypeOK
  <1> QED
    BY <1>1, <1>2, <1>3 DEF Next

\* Every field of the pool keeps its type.
THEOREM TypeCorrect == Spec => []TypeOK
  BY TypeInit, TypeStep, PTL DEF Spec

-----------------------------------------------------------------------------
(* The free list *)

LEMMA FreeListInit == Init => FreeListSound
  <1> SUFFICES ASSUME Init PROVE FreeListSound
    OBVIOUS
  <1>1. FreeObjects = Index /\ Cardinality(FreeObjects) = Size
    BY IndexFinite DEF FreeObjects, Init
  <1> DEFINE f == [k \in 1..Size |-> k - 1]
  <1>2. f \in [1..Size -> Index]
    BY PoolAssumption, SMT DEF Index
  <1>3. \A j, k \in 1..Size : f[j] = f[k] => j = k
    BY PoolAssumption, SMT
  <1>4. \A i \in Index : \E k \in 1..Size : f[k] = i
    <2> TAKE i \in Index
    <2>1. i + 1 \in 1..Size /\ f[i + 1] = i
      BY PoolAssumption, SMT DEF Index
    <2> QED
      BY <2>1
  <1>5. free = IF Size = 0 THEN NULL ELSE f[1]
    BY PoolAssumption, SMT DEF Init
  <1>6. \A k \in 1..Size : link[f[k]] = IF k = Size THEN NULL ELSE f[k + 1]
    BY PoolAssumption, SMT DEF Init, NextFree, Index
  <1>7. Lists(f, Size)
    BY <1>1, <1>3, <1>4, <1>5, <1>6 DEF Lists
  <1> HIDE DEF f
  <1> QED
    BY <1>1, <1>2, <1>7 DEF FreeListSound

\* Allocate pops the first element off the list.
LEMMA FreeListAllocate ==
    TypeOK /\ FreeListSound /\ Allocate => FreeListSound'
  <1> SUFFICES ASSUME TypeOK, FreeListSound, Allocate PROVE FreeListSound'
    OBVIOUS
  <1>0. PICK n \in Nat : n = Cardinality(FreeObjects)
    BY FreeCount
  <1>1. PICK f \in [1..n -> FreeObjects] : Lists(f, n)
    BY <1>0 DEF FreeListSound
  <1>2. n \in Nat /\ n # 0 /\ free = f[1] /\ free \in FreeObjects
    <2>1. n # 0 /\ free = f[1]
      BY <1>1 DEF Lists, Allocate
    <2>2. 1 \in 1..n
      BY <2>1, SMT
    <2> QED
      BY <2>1, <2>2
  <1>3. FreeObjects' = FreeObjects \ {free}
    BY DEF FreeObjects, Allocate
  <1>4. Cardinality(FreeObjects') = n - 1
    BY <1>0, <1>2, <1>3, FreeCount, FS_RemoveElement
  <1> DEFINE g == [k \in 1..(n - 1) |-> f[k + 1]]
  <1>5. \A k \in 1..(n - 1) : k + 1 \in 1..n /\ k \in 1..n /\ k + 1 # 1
    BY <1>2, SMT
  <1>6. \A j, k \in 1..n : f[j] = f[k] => j = k
    BY <1>1 DEF Lists
  <1>7. g \in [1..(n - 1) -> FreeObjects']
    <2> SUFFICES ASSUME NEW k \in 1..(n - 1) PROVE f[k + 1] \in FreeObjects \ {free}
      BY <1>3
    <2>1. k + 1 \in 1..n /\ 1 \in 1..n /\ k + 1 # 1
      BY <1>2, SMT
    <2> QED
      BY <2>1, <1>2, <1>6
  <1>8. \A j, k \in 1..(n - 1) : g[j] = g[k] => j = k
    <2> TAKE j, k \in 1..(n - 1)
    <2> HAVE g[j] = g[k]
    <2>1. j + 1 = k + 1
      BY <1>5, <1>6
    <2> QED
      BY <2>1, <1>2, SMT
  <1>9. \A i \in FreeObjects' : \E k \in 1..(n - 1) : g[k] = i
    <2> TAKE i \in FreeObjects'
    <2>1. PICK k \in 1..n : f[k] = i
      BY <1>1, <1>3 DEF Lists
    <2>2. k # 1
      BY <2>1, <1>2, <1>3
    <2>3. k - 1 \in 1..(n - 1) /\ (k - 1) + 1 = k
      BY <2>2, <1>2, SMT
    <2>4. g[k - 1] = i
      BY <2>1, <2>3
    <2> QED
      BY <2>3, <2>4
  <1>10. free' = link[f[1]] /\ 1 \in 1..n
    BY <1>2, SMT DEF Allocate, Pop
  <1>11. free' = IF n - 1 = 0 THEN NULL ELSE g[1]
    <2>1. free' = IF 1 = n THEN NULL ELSE f[1 + 1]
      BY <1>1, <1>10 DEF Lists
    <2>2. n - 1 = 0 <=> 1 = n
      BY <1>2, SMT
    <2>3. n # 1 => 1 \in 1..(n - 1) /\ 1 + 1 = 2
      BY <1>2, SMT
    <2> QED
      BY <2>1, <2>2, <2>3
  <1>12. \A k \in 1..(n - 1) : link'[g[k]] = IF k = n - 1 THEN NULL ELSE g[k + 1]
    <2> TAKE k \in 1..(n - 1)
    <2>1. k + 1 \in 1..n /\ (k + 1 = n <=> k = n - 1)
      BY <1>2, SMT
    <2>2. g[k] = f[k + 1] /\ g[k] # free /\ g[k] \in Index
      BY <1>3, <1>7, <2>1 DEF FreeObjects
    <2>3. link'[g[k]] = link[g[k]]
      BY <2>2 DEF Allocate, TypeOK
    <2>4. link[f[k + 1]] = IF k + 1 = n THEN NULL ELSE f[(k + 1) + 1]
      BY <1>1, <2>1 DEF Lists
    <2>5. k # n - 1 => k + 1 \in 1..(n - 1)
      BY <1>2, SMT
    <2> QED
      BY <2>1, <2>2, <2>3, <2>4, <2>5
  <1>13. Lists(g, n - 1)'
    BY <1>8, <1>9, <1>11, <1>12 DEF Lists
  <1> HIDE DEF g
  <1> QED
    BY <1>4, <1>7, <1>13 DEF FreeListSound

\* Free pushes the object on the front of the list.
LEMMA FreeListFree ==
    ASSUME TypeOK, FreeListSound, NEW u \in Magic \X Index, Free(u)
    PROVE  FreeListSound'
  <1> DEFINE i == u[2]
  <1>0. i \in Index /\ i \in allocated /\ i \notin FreeObjects
    BY DEF Free, Freeable, Names, FreeObjects
  <1> HIDE DEF i
  <1>1. /\ free' = i
        /\ link' = [link EXCEPT ![i] = free]
        /\ allocated' = allocated \ {i}
    BY DEF i, Free
  <1>2. PICK n \in Nat : n = Cardinality(FreeObjects)
    BY FreeCount
  <1>3. PICK f \in [1..n -> FreeObjects] : Lists(f, n)
    BY <1>2 DEF FreeListSound
  <1>4. FreeObjects' = FreeObjects \cup {i}
    BY <1>0, <1>1 DEF FreeObjects
  <1>5. Cardinality(FreeObjects') = n + 1
    BY <1>0, <1>2, <1>4, FreeCount, FS_AddElement
  <1> DEFINE g == [k \in 1..(n + 1) |-> IF k = 1 THEN i ELSE f[k - 1]]
  <1>6. \A k \in 1..(n + 1) : k # 1 => k - 1 \in 1..n /\ f[k - 1] \in FreeObjects
    <2> TAKE k \in 1..(n + 1)
    <2> HAVE k # 1
    <2>1. k - 1 \in 1..n
      BY SMT
    <2> QED
      BY <2>1
  <1>7. g \in [1..(n + 1) -> FreeObjects']
    BY <1>4, <1>6
  <1>8. \A j, k \in 1..(n + 1) : g[j] = g[k] => j = k
    <2> TAKE j, k \in 1..(n + 1)
    <2> HAVE g[j] = g[k]
    <2>1. j # 1 /\ k # 1 => f[j - 1] = f[k - 1]
      OBVIOUS
    <2>2. j # 1 /\ k # 1 => j - 1 = k - 1
      BY <2>1, <1>3, <1>6 DEF Lists
    <2>3. j = 1 <=> k = 1
      BY <1>0, <1>6
    <2> QED
      BY <2>2, <2>3, SMT
  <1>9. \A x \in FreeObjects' : \E k \in 1..(n + 1) : g[k] = x
    <2> TAKE x \in FreeObjects'
    <2>1. CASE x = i
      <3>1. 1 \in 1..(n + 1) /\ g[1] = i
        BY SMT
      <3> QED
        BY <2>1, <3>1
    <2>2. CASE x \in FreeObjects
      <3>1. PICK k \in 1..n : f[k] = x
        BY <1>3, <2>2 DEF Lists
      <3>2. k + 1 \in 1..(n + 1) /\ k + 1 # 1 /\ (k + 1) - 1 = k
        BY SMT
      <3>3. g[k + 1] = x
        BY <3>1, <3>2
      <3> QED
        BY <3>2, <3>3
    <2> QED
      BY <2>1, <2>2, <1>4
  <1>10. free' = IF n + 1 = 0 THEN NULL ELSE g[1]
    <2>1. 1 \in 1..(n + 1) /\ n + 1 # 0
      BY SMT
    <2> QED
      BY <1>1, <2>1
  <1>11. \A k \in 1..(n + 1) : link'[g[k]] = IF k = n + 1 THEN NULL ELSE g[k + 1]
    <2> TAKE k \in 1..(n + 1)
    <2>1. CASE k = 1
      <3>1. link'[g[k]] = free
        BY <1>0, <1>1, <2>1 DEF TypeOK
      <3>2. free = IF n = 0 THEN NULL ELSE f[1]
        BY <1>3 DEF Lists
      <3>3. (1 = n + 1 <=> n = 0) /\ (n # 0 => 1 + 1 \in 1..(n + 1) /\ (1 + 1) - 1 = 1)
        BY SMT
      <3>4. n # 0 => g[1 + 1] = f[1]
        BY <3>3
      <3> QED
        BY <2>1, <3>1, <3>2, <3>3, <3>4
    <2>2. CASE k # 1
      <3>1. g[k] = f[k - 1] /\ k - 1 \in 1..n /\ f[k - 1] \in FreeObjects
        BY <1>6, <2>2
      <3>2. f[k - 1] # i /\ f[k - 1] \in Index
        BY <1>0, <3>1 DEF FreeObjects
      <3>3. link'[f[k - 1]] = link[f[k - 1]]
        BY <1>1, <3>2 DEF TypeOK
      <3>4. link[f[k - 1]] = IF k - 1 = n THEN NULL ELSE f[(k - 1) + 1]
        BY <1>3, <3>1 DEF Lists
      <3>5. /\ k - 1 = n <=> k = n + 1
            /\ (k - 1) + 1 = k
            /\ k # n + 1 => k + 1 \in 1..(n + 1) /\ (k + 1) - 1 = k /\ k + 1 # 1
        BY <2>2, SMT
      <3>6. k # n + 1 => g[k + 1] = f[k]
        BY <3>5
      <3> QED
        BY <3>1, <3>3, <3>4, <3>5, <3>6
    <2> QED
      BY <2>1, <2>2
  <1>12. Lists(g, n + 1)'
    BY <1>8, <1>9, <1>10, <1>11 DEF Lists
  <1> HIDE DEF g
  <1> QED
    BY <1>5, <1>7, <1>12 DEF FreeListSound

LEMMA FreeListStep == TypeOK /\ FreeListSound /\ [Next]_vars => FreeListSound'
  <1> SUFFICES ASSUME TypeOK, FreeListSound, [Next]_vars PROVE FreeListSound'
    OBVIOUS
  <1>1. CASE UNCHANGED vars
    BY <1>1 DEF vars, FreeListSound, Lists, FreeObjects
  <1> QED
    BY <1>1, FreeListAllocate, FreeListFree DEF Next

\* The free list threads every free object exactly once and nothing else, after
\* any sequence of allocations and frees.
THEOREM FreeListInvariant == Spec => []FreeListSound
  BY TypeInit, TypeStep, FreeListInit, FreeListStep, PTL DEF Spec

\* In such a state an allocation fails only when everything is out, and the
\* object it hands out is out to no one.
LEMMA ListGivesAllocate == TypeOK /\ FreeListSound => AllocateSound
  <1> SUFFICES ASSUME TypeOK, FreeListSound PROVE AllocateSound
    OBVIOUS
  <1>1. PICK n \in Nat : n = Cardinality(FreeObjects)
    BY FreeCount
  <1>2. PICK f \in [1..n -> FreeObjects] : Lists(f, n)
    BY <1>1 DEF FreeListSound
  <1>3. CASE n = 0
    <2>1. free = NULL
      BY <1>2, <1>3 DEF Lists
    <2>2. FreeObjects = {}
      BY <1>1, <1>3, FreeCount, FS_EmptySet
    <2>3. allocated = Index
      BY <2>2 DEF TypeOK, FreeObjects
    <2> QED
      BY <2>1, <2>3, PoolAssumption DEF AllocateSound
  <1>4. CASE n # 0
    <2>1. 1 \in 1..n
      BY <1>4, SMT
    <2>2. free = f[1] /\ f[1] \in FreeObjects
      BY <1>2, <1>4, <2>1 DEF Lists
    <2> QED
      BY <2>2, PoolAssumption DEF AllocateSound, FreeObjects
  <1> QED
    BY <1>3, <1>4

\* Allocate serves as long as an object is free and never serves one twice.
THEOREM AllocationSafe == Spec => []AllocateSound
  BY TypeCorrect, FreeListInvariant, ListGivesAllocate, PTL

-----------------------------------------------------------------------------
(* The counter and the uids *)

LEMMA CountStep ==
    TypeOK /\ FreeListSound /\ CountExact /\ [Next]_vars => CountExact'
  <1> SUFFICES ASSUME TypeOK, FreeListSound, CountExact, [Next]_vars
               PROVE  CountExact'
    OBVIOUS
  <1>1. IsFiniteSet(allocated) /\ Cardinality(allocated) \in Nat
    BY IndexFinite, FS_Subset, FS_CardinalityType DEF TypeOK
  <1>2. CASE Allocate
    <2>1. free \notin allocated
      BY ListGivesAllocate DEF AllocateSound
    <2>2. Cardinality(allocated') = Cardinality(allocated) + 1
      BY <1>1, <1>2, <2>1, FS_AddElement DEF Allocate
    <2> QED
      BY <1>2, <2>2 DEF Allocate, CountExact
  <1>3. ASSUME NEW u \in Magic \X Index, Free(u) PROVE CountExact'
    <2>1. Cardinality(allocated') = Cardinality(allocated) - 1
      BY <1>1, <1>3, FS_RemoveElement DEF Free, Freeable
    <2> QED
      BY <1>3, <2>1 DEF Free, CountFreed, CountExact
  <1>4. CASE UNCHANGED vars
    BY <1>4 DEF vars, CountExact
  <1> QED
    BY <1>2, <1>3, <1>4 DEF Next

\* Count() is the number of objects out.
THEOREM CountInvariant == Spec => []CountExact
  <1>1. Init => CountExact
    BY FS_EmptySet DEF Init, CountExact
  <1> QED
    BY <1>1, CountStep, TypeCorrect, FreeListInvariant, PTL DEF Spec

\* NextMagic is the successor, except that the largest magic is followed by 0.
LEMMA NextMagicValue ==
    ASSUME NEW m \in Magic
    PROVE  NextMagic(m) = IF m = MagicMod - 1 THEN 0 ELSE m + 1
  BY PoolAssumption, SMT DEF NextMagic, Magic

LEMMA MagicStep == TypeOK /\ MagicCounts /\ [Next]_vars => MagicCounts'
  <1> SUFFICES ASSUME TypeOK, MagicCounts, [Next]_vars, NEW i \in Index
               PROVE  \E wraps \in 0..frees'[i] :
                          1 + frees'[i] = magic'[i] + wraps * MagicMod
    BY DEF MagicCounts
  <1>0. PICK w \in 0..frees[i] : 1 + frees[i] = magic[i] + w * MagicMod
    BY DEF MagicCounts
  <1>1. CASE Allocate
    BY <1>0, <1>1 DEF Allocate
  <1>2. ASSUME NEW u \in Magic \X Index, Free(u)
        PROVE  \E wraps \in 0..frees'[i] :
                   1 + frees'[i] = magic'[i] + wraps * MagicMod
    <2>1. CASE u[2] # i
      BY <1>0, <1>2, <2>1 DEF Free, TypeOK
    <2>2. CASE u[2] = i
      <3>1. u[1] = magic[i] /\ magic[i] \in Magic /\ frees[i] \in Nat
        BY <1>2, <2>2 DEF Free, Freeable, Names, TypeOK
      <3>2. magic'[i] = NextMagic(magic[i]) /\ frees'[i] = frees[i] + 1
        BY <1>2, <2>2, <3>1 DEF Free, TypeOK
      <3>3. (w + 1) * MagicMod = w * MagicMod + MagicMod
        BY PoolAssumption, SMT
      <3>4. w \in Nat /\ w * MagicMod \in Nat /\ MagicMod \in Nat
        BY <3>1, PoolAssumption, SMT
      <3>5. CASE magic[i] = MagicMod - 1
        <4>1. magic'[i] = 0
          BY <3>1, <3>2, <3>5, NextMagicValue
        <4>2. 1 + frees'[i] = magic'[i] + (w + 1) * MagicMod
          <5> DEFINE wm == w * MagicMod
          <5>1. 1 + frees[i] = (MagicMod - 1) + wm /\ wm \in Nat
            BY <1>0, <3>4, <3>5
          <5>2. (w + 1) * MagicMod = wm + MagicMod
            BY <3>3
          <5> HIDE DEF wm
          <5> QED
            BY <3>1, <3>2, <3>4, <4>1, <5>1, <5>2, SMT
        <4>3. w + 1 \in 0..frees'[i]
          BY <1>0, <3>1, <3>2, SMT
        <4> QED
          BY <4>2, <4>3
      <3>6. CASE magic[i] # MagicMod - 1
        <4>1. magic'[i] = magic[i] + 1
          BY <3>1, <3>2, <3>6, NextMagicValue
        <4>2. 1 + frees'[i] = magic'[i] + w * MagicMod
          BY <1>0, <3>1, <3>2, <3>4, <4>1, SMT DEF Magic
        <4>3. w \in 0..frees'[i]
          BY <1>0, <3>1, <3>2, SMT
        <4> QED
          BY <4>2, <4>3
      <3> QED
        BY <3>5, <3>6
    <2> QED
      BY <2>1, <2>2
  <1>3. CASE UNCHANGED vars
    BY <1>0, <1>3 DEF vars
  <1> QED
    BY <1>1, <1>2, <1>3 DEF Next

\* The magic of a uid counts the frees of its object, modulo its width: no
\* sequence of calls revives a freed uid sooner than that.
THEOREM MagicInvariant == Spec => []MagicCounts
  <1>1. Init => MagicCounts
    <2> SUFFICES ASSUME Init, NEW i \in Index
                 PROVE  \E wraps \in 0..frees[i] :
                            1 + frees[i] = magic[i] + wraps * MagicMod
      BY DEF MagicCounts
    <2>1. 0 \in 0..frees[i] /\ 1 + frees[i] = magic[i] + 0 * MagicMod
      BY PoolAssumption, SMT DEF Init
    <2> QED
      BY <2>1
  <1> QED
    BY <1>1, MagicStep, TypeCorrect, PTL DEF Spec

-----------------------------------------------------------------------------
(* The pool is an allocator *)

LEMMA AllocatorStep ==
    TypeOK /\ AllocateSound /\ [Next]_vars => [A!Next]_(A!vars)
  <1> SUFFICES ASSUME TypeOK, AllocateSound, [Next]_vars PROVE [A!Next]_(A!vars)
    OBVIOUS
  <1>1. CASE Allocate
    <2>1. free \in Index /\ free \notin allocated
      BY <1>1 DEF TypeOK, AllocateSound, Allocate
    <2>2. A!Allocate(free)
      BY <1>1, <2>1 DEF Allocate, A!Allocate
    <2> QED
      BY <2>1, <2>2 DEF A!Next
  <1>2. ASSUME NEW u \in Magic \X Index, Free(u) PROVE A!Next
    <2> DEFINE h == NextMagic(u[1])
    <2>1. u[1] \in Magic /\ u[2] \in Index /\ u[2] \in allocated /\ magic[u[2]] = u[1]
      BY <1>2 DEF Free, Freeable, Names
    <2>2. h \in Magic
      BY <2>1, NextMagicType
    <2>3. h # u[1]
      BY <2>1, PoolAssumption, SMT DEF NextMagic, Magic
    <2>4. magic' = [magic EXCEPT ![u[2]] = h] /\ allocated' = allocated \ {u[2]}
      BY <1>2 DEF Free
    <2> HIDE DEF h
    <2>5. A!Free(u[2])
      BY <2>1, <2>2, <2>3, <2>4 DEF A!Free
    <2> QED
      BY <2>1, <2>5 DEF A!Next
  <1>3. CASE UNCHANGED vars
    BY <1>3 DEF vars, A!vars
  <1> QED
    BY <1>1, <1>2, <1>3 DEF Next

\* Every behaviour of the pool is one of the abstract allocator.
THEOREM PoolImplementsAllocator == Spec => ImplementsAllocator
  <1>1. Init => A!Init
    BY PoolAssumption, SMT DEF Init, A!Init, Magic
  <1> QED
    BY <1>1, AllocatorStep, TypeCorrect, AllocationSafe, PTL
       DEF Spec, A!Spec, ImplementsAllocator

=============================================================================
