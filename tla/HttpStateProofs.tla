-------------------------- MODULE HttpStateProofs --------------------------
(* Proofs about PoolThreads and HttpState above it, for any number of threads, none of
   which is the main thread, for a pool of any size and for any contents. *)
EXTENDS HttpState, WellFoundedInduction, TLAPS

-----------------------------------------------------------------------------
(* Induction.  The library's theorems about it take an operator; its well-foundedness of
   the order of Nat does not. *)

LEMMA NatSetLeast ==
    ASSUME NEW S \in SUBSET Nat, S # {}
    PROVE  \E m \in S : \A n \in S : m <= n
  <1>1. PICK m \in S : \A n \in S : ~ (<<n, m>> \in OpToRel(<, Nat))
    BY WFMin, NatLessThanWellFounded, Zenon
  <1>2. \A n \in S : ~ (n < m)
    BY <1>1 DEF OpToRel
  <1> QED
    BY <1>2

\* A set of naturals that contains 0 and with every number the next one is all of them.
LEMMA NatSetInduction ==
    ASSUME NEW S \in SUBSET Nat, 0 \in S, \A n \in S : n + 1 \in S
    PROVE  S = Nat
  <1> SUFFICES ASSUME Nat \ S # {} PROVE FALSE
    OBVIOUS
  <1>1. PICK m \in Nat \ S : \A n \in Nat \ S : m <= n
    BY NatSetLeast
  <1>2. m # 0 /\ m - 1 \in Nat
    BY <1>1
  <1>3. m - 1 \in S
    BY <1>1, <1>2
  <1> QED
    BY <1>1, <1>2, <1>3

-----------------------------------------------------------------------------
(* The invariant of the pool *)

\* Where a thread is that holds the lock.
Inside == {"read", "none", "next", "move", "mark", "got",
           "check", "link", "head", "uid", "unlock"}

Types ==
    /\ TypeOK
    /\ pc \in [Threads -> Inside \cup {"idle", "lock"}]
    /\ uid \in [Threads -> Magic \X Index]

Exclusive == \A t \in Threads : pc[t] \in Inside => lock = t

\* A thread knows an object by one uid, and not at all once it frees it.
Once(t) ==
    /\ \A u, v \in held[t] : u[2] = v[2] => u = v
    /\ \A u \in held[t] : u[2] \notin InHand(t)

\* The object that t has taken off the list, or is about to put on it, without owning it.
Transit(t) == IF pc[t] \in {"mark", "head"} THEN {obj[t]} ELSE {}

\* What the local variables of a thread are worth while it holds the lock.
Locals(t) ==
    /\ pc[t] = "next" => obj[t] = free /\ free # NULL
    /\ pc[t] = "move" => obj[t] = free /\ free # NULL /\ next[t] = link[free]
    /\ pc[t] \in {"mark", "got", "link", "head", "uid"} => obj[t] # NULL
    /\ pc[t] = "head" => link[obj[t]] = free
    /\ pc[t] = "uid" => obj[t] = free

\* The uids a thread has, and its objects, are those of the pool: nobody else's call has
\* made them stale.
Valid(t) ==
    /\ \A u \in held[t] : magic[u[2]] = u[1] /\ u[2] \in allocated
    /\ pc[t] = "mark" => obj[t] \notin allocated
    /\ pc[t] = "got" => obj[t] \in allocated
    /\ pc[t] \in {"lock", "check", "link", "head", "uid"} =>
           obj[t] \in allocated /\ uid[t] = <<magic[obj[t]], obj[t]>>

\* The list runs through F, and through each of it once.
Runs(F) ==
    /\ free \in F \cup {NULL}
    /\ \A i \in F : link[i] \in F \cup {NULL} /\ (free # NULL => link[i] # free)
    /\ \A i, j \in F : link[i] = link[j] /\ link[i] # NULL => i = j

\* Nothing of F is off the list: no smaller set holds all that the list leads to.
Least(F) == \A L \in SUBSET F : Holds(L) => L = F

\* Nobody has what is on the list, and nobody owns what is on its way.
Apart(F) ==
    \A s \in Threads :
        /\ F \cap Owns(s) = {} /\ F \cap Transit(s) = {}
        /\ \A t \in Threads : Transit(s) \cap Owns(t) = {}

\* Every object is on the list or somebody has it, and what is on the list is not marked
\* as allocated, but for the one whose Free has not come to its end.
Accounted(F) ==
    /\ \A i \in Index \ F : \E s \in Threads : i \in Owns(s) \cup Transit(s)
    /\ \A i \in F \cap allocated : \E s \in Threads : pc[s] = "uid" /\ obj[s] = i

PoolInv ==
    /\ Types /\ Exclusive /\ OneOwner
    /\ \A t \in Threads : Once(t) /\ Locals(t) /\ Valid(t)
    /\ \E F \in SUBSET Index : Runs(F) /\ Least(F) /\ Apart(F) /\ Accounted(F)

-----------------------------------------------------------------------------
(* What the steps have in common *)

\* The other threads keep what they own.
OthersKeep(t) ==
    \A s \in Threads \ {t} :
        /\ pc'[s] = pc[s] /\ obj'[s] = obj[s] /\ uid'[s] = uid[s]
        /\ next'[s] = next[s] /\ held'[s] = held[s]
        /\ Owns(s)' = Owns(s) /\ Transit(s)' = Transit(s)
        /\ Once(s)' <=> Once(s)

LEMMA Others ==
    ASSUME Types, NEW t \in Threads,
           \A s \in Threads \ {t} :
               /\ pc'[s] = pc[s] /\ obj'[s] = obj[s] /\ uid'[s] = uid[s]
               /\ next'[s] = next[s] /\ held'[s] = held[s]
    PROVE  OthersKeep(t)
  <1> SUFFICES ASSUME NEW s \in Threads \ {t}
               PROVE  /\ Owns(s)' = Owns(s) /\ Transit(s)' = Transit(s)
                      /\ Once(s)' <=> Once(s)
    BY DEF OthersKeep
  <1>1. InHand(s)' = InHand(s)
    BY DEF InHand
  <1> QED
    BY <1>1 DEF Owns, Transit, Once

\* A thread outside the lock relies on no local variable.
LEMMA Outside ==
    ASSUME NEW s \in Threads, pc[s] \notin Inside
    PROVE  Locals(s)
  BY DEF Locals, Inside

\* While t holds the lock nobody else is inside.
LEMMA Alone ==
    ASSUME Exclusive, NEW t \in Threads, pc[t] \in Inside
    PROVE  \A s \in Threads \ {t} : pc[s] \notin Inside
  BY DEF Exclusive

\* What the others hold stays valid when the step leaves the marks and magics alone,
LEMMA OthersValid ==
    ASSUME NEW t \in Threads, OthersKeep(t), UNCHANGED <<allocated, magic>>,
           NEW s \in Threads \ {t}, Valid(s)
    PROVE  Valid(s)'
  BY DEF OthersKeep, Valid

\* and when a step inside the lock touches those of one object only that they do not own.
LEMMA OthersValidToo ==
    ASSUME Exclusive, Types, NEW t \in Threads, OthersKeep(t), pc[t] \in Inside,
           NEW s \in Threads \ {t}, Valid(s),
           \A i \in Owns(s) : magic'[i] = magic[i] /\ (i \in allocated' <=> i \in allocated)
    PROVE  Valid(s)'
  <1>1. pc[s] \notin Inside
    BY Alone
  <1>2. \A u \in held[s] : u[2] \in Owns(s)
    BY DEF Owns
  <1>3. pc[s] = "lock" /\ obj[s] \in Index => obj[s] \in Owns(s)
    BY ThreadsAssumption DEF Owns, InHand
  <1>4. pc[s] = "lock" /\ obj[s] \in allocated => obj[s] \in Index
    BY DEF Types, TypeOK
  <1> QED
    BY <1>1, <1>2, <1>3, <1>4 DEF OthersKeep, Valid, Inside

\* A step of t that leaves the list alone and after which t has what it had.
LEMMA QuietStep ==
    ASSUME PoolInv, NEW t \in Threads, OthersKeep(t), UNCHANGED <<free, link>>,
           Types', Exclusive', Once(t)', Locals(t)', \A s \in Threads : Valid(s)',
           Owns(t)' = Owns(t), Transit(t)' = Transit(t),
           allocated' \subseteq allocated, pc[t] = "uid" => obj[t] \notin allocated'
    PROVE  PoolInv'
  <1>1. \A s \in Threads \ {t} : Once(s)' /\ Locals(s)'
    BY DEF PoolInv, OthersKeep, Locals
  <1>2. \A s \in Threads : Owns(s)' = Owns(s) /\ Transit(s)' = Transit(s)
    BY DEF OthersKeep
  <1>3. OneOwner'
    BY <1>2 DEF PoolInv, OneOwner
  <1>4. PICK F \in SUBSET Index : Runs(F) /\ Least(F) /\ Apart(F) /\ Accounted(F)
    BY DEF PoolInv
  <1>5. Runs(F)' /\ Least(F)'
    BY <1>4 DEF Runs, Least, Holds
  <1>6. Apart(F)'
    BY <1>2, <1>4 DEF Apart
  <1>7. Accounted(F)'
    BY <1>2, <1>4 DEF Accounted, OthersKeep
  <1> QED
    BY <1>1, <1>3, <1>5, <1>6, <1>7 DEF PoolInv

\* The list stays the least one when its head is taken off,
LEMMA LeastWithoutHead ==
    ASSUME NEW F \in SUBSET Index, Least(F), free \in F, free' = link[free], UNCHANGED link,
           NEW G \in SUBSET Index, G = F \ {free}
    PROVE  Least(G)'
  <1> SUFFICES ASSUME NEW L \in SUBSET G, Holds(L)' PROVE L = G
    BY DEF Least
  <1>1. PICK K \in SUBSET F : K = L \cup {free}
    OBVIOUS
  <1>2. Holds(K)
    BY <1>1 DEF Holds
  <1> QED
    BY <1>1, <1>2 DEF Least

\* when an object off the list is linked to another one,
LEMMA LeastElsewhere ==
    ASSUME NEW F \in SUBSET Index, Least(F), UNCHANGED free, \A i \in F : link'[i] = link[i]
    PROVE  Least(F)'
  BY DEF Least, Holds

\* and when an object is put before its head.
LEMMA LeastWithHead ==
    ASSUME NEW F \in SUBSET Index, Runs(F), Least(F),
           NEW o \in Index \ F, link[o] = free, free' = o, UNCHANGED link
    PROVE  Least(F \cup {o})'
  <1> SUFFICES ASSUME NEW L \in SUBSET (F \cup {o}), Holds(L)' PROVE L = F \cup {o}
    BY DEF Least
  <1>1. o # NULL
    BY ThreadsAssumption
  <1>2. o \in L
    BY <1>1 DEF Holds
  <1>3. PICK K \in SUBSET F : K = L \ {o}
    OBVIOUS
  <1>4. Holds(K)
    BY <1>1, <1>2, <1>3 DEF Holds, Runs
  <1> QED
    BY <1>2, <1>3, <1>4 DEF Least

\* Unless the thread in the lock has just put an object there, nothing on the list is
\* marked as allocated.
LEMMA ListedUnmarked ==
    ASSUME Exclusive, NEW t \in Threads, pc[t] \in Inside \ {"uid"}, NEW F, Accounted(F)
    PROVE  F \cap allocated = {}
  BY Alone DEF Accounted, Inside

\* A step of t inside the lock that changes the list: F is what it runs through then.
LEMMA ListStep ==
    ASSUME PoolInv, NEW t \in Threads, OthersKeep(t), pc[t] \in Inside,
           Types', Exclusive', Once(t)', Locals(t)', \A s \in Threads : Valid(s)',
           NEW F \in SUBSET Index, Runs(F)', Least(F)', Accounted(F)',
           \A s \in Threads \ {t} : F \cap Owns(s) = {} /\ Owns(t)' \cap Owns(s) = {}
                                    /\ Transit(t)' \cap Owns(s) = {},
           F \cap (Owns(t)' \cup Transit(t)') = {},
           Transit(t)' \cap Owns(t)' = {}
    PROVE  PoolInv'
  <1>1. \A s \in Threads \ {t} : pc[s] \notin Inside
    BY Alone DEF PoolInv
  <1>2. \A s \in Threads \ {t} : Transit(s)' = {}
    BY <1>1 DEF OthersKeep, Transit, Inside
  <1>3. \A s \in Threads \ {t} : Once(s)' /\ Locals(s)'
    BY <1>1 DEF PoolInv, OthersKeep, Locals, Inside
  <1>4. OneOwner'
    BY DEF PoolInv, OneOwner, OthersKeep
  <1>5. Apart(F)'
    BY <1>2 DEF Apart, OthersKeep
  <1> QED
    BY <1>3, <1>4, <1>5 DEF PoolInv

-----------------------------------------------------------------------------
(* Allocate *)

LEMMA AllocateStep ==
    ASSUME Main = {}, PoolInv, NEW t \in Threads, Allocate(t)
    PROVE  PoolInv'
  <1> USE ThreadsAssumption DEF PoolInv, Types, TypeOK, Goto, shared, local
  <1>0. Locks(t) /\ t # NULL
    BY DEF Locks
  <1>1. CASE AllocateEnter(t)
    <2>1. OthersKeep(t)
      BY <1>1, Others DEF AllocateEnter
    <2>2. Types' /\ Exclusive'
      BY <1>0, <1>1 DEF AllocateEnter, Acquire, Exclusive, Inside
    <2>3. Once(t)' /\ Locals(t)' /\ Owns(t)' = Owns(t) /\ Transit(t)' = Transit(t)
      BY <1>1 DEF AllocateEnter, Once, Locals, Owns, InHand, Transit
    <2>4. Valid(t)'
      BY <1>1 DEF AllocateEnter, Valid
    <2>5. \A s \in Threads : Valid(s)'
      BY <1>1, <2>1, <2>4, OthersValid DEF AllocateEnter
    <2> HIDE DEF PoolInv, Types, TypeOK
    <2> QED
      BY <1>1, <2>1, <2>2, <2>3, <2>5, QuietStep DEF AllocateEnter
  <1>2. CASE AllocateRead(t)
    <2>1. OthersKeep(t)
      BY <1>2, Others DEF AllocateRead
    <2>2. Types' /\ Exclusive'
      BY <1>2 DEF AllocateRead, Exclusive, Inside
    <2>3. Once(t)' /\ Locals(t)' /\ Owns(t)' = Owns(t) /\ Transit(t)' = Transit(t)
      BY <1>2 DEF AllocateRead, Once, Locals, Owns, InHand, Transit
    <2>4. Valid(t)'
      BY <1>2 DEF AllocateRead, Valid
    <2>5. \A s \in Threads : Valid(s)'
      BY <1>2, <2>1, <2>4, OthersValid DEF AllocateRead
    <2> HIDE DEF PoolInv, Types, TypeOK
    <2> QED
      BY <1>2, <2>1, <2>2, <2>3, <2>5, QuietStep DEF AllocateRead
  <1>3. CASE AllocateNone(t)
    <2>1. OthersKeep(t)
      BY <1>3, Others DEF AllocateNone, Return
    <2>2. Types' /\ Exclusive'
      BY <1>3 DEF AllocateNone, Return, Exclusive, Inside, NoUid, Magic, Index
    <2>3. Once(t)' /\ Locals(t)' /\ Owns(t)' = Owns(t) /\ Transit(t)' = Transit(t)
      BY <1>3 DEF AllocateNone, Return, Once, Locals, Owns, InHand, Transit
    <2>4. Valid(t)'
      BY <1>3 DEF AllocateNone, Valid, Return
    <2>5. \A s \in Threads : Valid(s)'
      BY <1>3, <2>1, <2>4, OthersValid DEF AllocateNone
    <2> HIDE DEF PoolInv, Types, TypeOK
    <2> QED
      BY <1>3, <2>1, <2>2, <2>3, <2>5, QuietStep DEF AllocateNone
  <1>4. CASE AllocateNext(t)
    <2>1. OthersKeep(t)
      BY <1>4, Others DEF AllocateNext
    <2>2. Types' /\ Exclusive'
      BY <1>4 DEF AllocateNext, Locals, Exclusive, Inside
    <2>3. Once(t)' /\ Locals(t)' /\ Owns(t)' = Owns(t) /\ Transit(t)' = Transit(t)
      BY <1>4 DEF AllocateNext, Once, Locals, Owns, InHand, Transit
    <2>4. Valid(t)'
      BY <1>4 DEF AllocateNext, Valid
    <2>5. \A s \in Threads : Valid(s)'
      BY <1>4, <2>1, <2>4, OthersValid DEF AllocateNext
    <2> HIDE DEF PoolInv, Types, TypeOK
    <2> QED
      BY <1>4, <2>1, <2>2, <2>3, <2>5, QuietStep DEF AllocateNext
  <1>5. CASE AllocateMove(t)
    \* The head leaves the list.
    <2>1. OthersKeep(t)
      BY <1>5, Others DEF AllocateMove
    <2>2. Types' /\ Exclusive'
      BY <1>5 DEF AllocateMove, Locals, Exclusive, Inside
    <2>3. PICK F \in SUBSET Index : Runs(F) /\ Least(F) /\ Apart(F) /\ Accounted(F)
      OBVIOUS
    <2>4. /\ pc[t] = "move" /\ pc'[t] = "mark" /\ obj[t] = free /\ free # NULL
          /\ free' = link[free] /\ UNCHANGED <<link, obj, held>>
      BY <1>5 DEF AllocateMove, Locals
    <2>5. PICK G \in SUBSET Index : G = F \ {free}
      OBVIOUS
    <2>6. free \in F
      BY <2>3, <2>4 DEF Runs
    <2>7. Runs(G)'
      BY <2>3, <2>4, <2>5, <2>6 DEF Runs
    <2>8. Once(t)' /\ Locals(t)' /\ Owns(t)' = Owns(t) /\ Transit(t)' = {free}
      <3>1. InHand(t) = {} /\ InHand(t)' = {}
        BY <2>4 DEF InHand
      <3>2. Once(t)'
        BY <2>4, <3>1 DEF Once
      <3>3. Locals(t)'
        BY <2>4 DEF Locals
      <3> QED
        BY <2>4, <3>1, <3>2, <3>3 DEF Owns, Transit
    <2>9. \A s \in Threads : F \cap Owns(s) = {}
      BY <2>3 DEF Apart
    <2>10. \A s \in Threads \ {t} : Owns(t) \cap Owns(s) = {}
      BY DEF OneOwner
    <2>11. pc[t] \in Inside
      BY <2>4 DEF Inside
    <2>12. /\ \A s \in Threads \ {t} : G \cap Owns(s) = {} /\ Owns(t)' \cap Owns(s) = {}
                                        /\ Transit(t)' \cap Owns(s) = {}
           /\ G \cap (Owns(t)' \cup Transit(t)') = {}
           /\ Transit(t)' \cap Owns(t)' = {}
      BY <2>5, <2>6, <2>8, <2>9, <2>10
    <2>13. F \cap allocated = {}
      BY <2>3, <2>4, <2>11, ListedUnmarked
    <2>14. \A s \in Threads : Valid(s)'
      <3>1. Valid(t)'
        BY <1>5, <2>4, <2>6, <2>13 DEF Valid, AllocateMove
      <3> QED
        BY <1>5, <2>1, <3>1, OthersValid DEF AllocateMove
    <2>15. Least(G)'
      BY <2>3, <2>4, <2>5, <2>6, LeastWithoutHead
    <2>16. Accounted(G)'
      <3>1. Transit(t) = {}
        BY <2>4 DEF Transit
      <3>2. \A i \in Index \ G : \E s \in Threads : i \in Owns(s)' \cup Transit(s)'
        BY <2>1, <2>3, <2>5, <2>8, <3>1 DEF Accounted, OthersKeep
      <3>3. G \cap allocated' = {}
        BY <1>5, <2>5, <2>13 DEF AllocateMove
      <3> QED
        BY <3>2, <3>3 DEF Accounted
    <2> HIDE DEF PoolInv, Types, TypeOK
    <2> QED
      BY <2>1, <2>2, <2>7, <2>8, <2>11, <2>12, <2>14, <2>15, <2>16, ListStep
  <1>6. CASE AllocateMark(t)
    \* What was on its way is owned by t.
    <2>1. OthersKeep(t)
      BY <1>6, Others DEF AllocateMark
    <2>2. Types' /\ Exclusive'
      BY <1>6 DEF AllocateMark, Locals, Exclusive, Inside
    <2>3. PICK F \in SUBSET Index : Runs(F) /\ Least(F) /\ Apart(F) /\ Accounted(F)
      OBVIOUS
    <2>4. /\ pc[t] = "mark" /\ pc'[t] = "got" /\ obj[t] \in Index
          /\ link' = [link EXCEPT ![obj[t]] = NULL] /\ UNCHANGED <<free, obj, held>>
      BY <1>6 DEF AllocateMark, Locals
    <2>5. Transit(t) = {obj[t]} /\ Transit(t)' = {}
      BY <2>4 DEF Transit
    <2>6. obj[t] \notin F /\ \A s \in Threads : obj[t] \notin Owns(s) /\ F \cap Owns(s) = {}
      BY <2>3, <2>5 DEF Apart
    <2>7. Runs(F)'
      BY <2>3, <2>4, <2>6 DEF Runs
    <2>8. InHand(t)' = {obj[t]} /\ InHand(t) = {}
      BY <2>4 DEF InHand
    <2>9. Owns(t)' = Owns(t) \cup {obj[t]}
      BY <2>4, <2>8 DEF Owns
    <2>10. Once(t)' /\ Locals(t)'
      <3>1. obj[t] \notin Owns(t)
        BY <2>6
      <3>2. Once(t)'
        BY <2>4, <2>8, <3>1 DEF Once, Owns
      <3>3. Locals(t)'
        BY <2>4 DEF Locals
      <3> QED
        BY <3>2, <3>3
    <2>11. \A s \in Threads \ {t} : Owns(t) \cap Owns(s) = {}
      BY DEF OneOwner
    <2>12. pc[t] \in Inside
      BY <2>4 DEF Inside
    <2>13. /\ \A s \in Threads \ {t} : F \cap Owns(s) = {} /\ Owns(t)' \cap Owns(s) = {}
                                        /\ Transit(t)' \cap Owns(s) = {}
           /\ F \cap (Owns(t)' \cup Transit(t)') = {}
           /\ Transit(t)' \cap Owns(t)' = {}
      BY <2>5, <2>6, <2>9, <2>11
    <2>14. F \cap allocated = {}
      BY <2>3, <2>4, <2>12, ListedUnmarked
    <2>15. allocated' = allocated \cup {obj[t]} /\ magic' = magic
      BY <1>6 DEF AllocateMark
    <2>16. \A s \in Threads : Valid(s)'
      <3>1. Valid(t)'
        BY <2>4, <2>15 DEF Valid
      <3>2. ASSUME NEW s \in Threads \ {t} PROVE Valid(s)'
        <4>1. \A i \in Owns(s) : magic'[i] = magic[i] /\ (i \in allocated' <=> i \in allocated)
          BY <2>6, <2>15
        <4> HIDE DEF Types, TypeOK
        <4> QED
          BY <2>1, <2>12, <4>1, OthersValidToo
      <3> QED
        BY <3>1, <3>2
    <2>17. Least(F)'
      BY <2>3, <2>4, <2>6, LeastElsewhere
    <2>18. Accounted(F)'
      <3>1. \A i \in Index \ F : \E s \in Threads : i \in Owns(s)' \cup Transit(s)'
        BY <2>1, <2>3, <2>5, <2>9 DEF Accounted, OthersKeep
      <3>2. F \cap allocated' = {}
        BY <2>6, <2>14, <2>15
      <3> QED
        BY <3>1, <3>2 DEF Accounted
    <2> HIDE DEF PoolInv, Types, TypeOK
    <2> QED
      BY <2>1, <2>2, <2>7, <2>10, <2>12, <2>13, <2>16, <2>17, <2>18, ListStep
  <1>7. CASE AllocateLeave(t)
    <2>1. OthersKeep(t)
      BY <1>7, Others DEF AllocateLeave, Return
    <2>2. pc[t] = "got" /\ obj[t] \in Index /\ pc'[t] = "idle"
          /\ held'[t] = held[t] \cup {<<magic[obj[t]], obj[t]>>}
      BY <1>7 DEF AllocateLeave, Locals
    <2>3. Types' /\ Exclusive'
      <3>1. held' \in [Threads -> SUBSET (Magic \X Index)]
        BY <1>7, <2>2 DEF AllocateLeave
      <3> QED
        BY <1>7, <3>1 DEF AllocateLeave, Return, Exclusive, Inside, NoUid, Magic, Index
    <2>4. InHand(t) = {obj[t]} /\ InHand(t)' = {}
      BY <2>2 DEF InHand
    <2>5. Once(t)' /\ Locals(t)'
      <3>1. Once(t)'
        BY <2>2, <2>4 DEF Once
      <3>2. Locals(t)'
        BY <2>2 DEF Locals
      <3> QED
        BY <3>1, <3>2
    <2>6. Owns(t)' = Owns(t) /\ Transit(t)' = Transit(t)
      <3>1. Owns(t)' \subseteq Owns(t)
        BY <2>2, <2>4 DEF Owns
      <3>2. obj[t] \in Owns(t)' /\ Owns(t) \ {obj[t]} \subseteq Owns(t)'
        <4>1. PICK u \in held'[t] : u = <<magic[obj[t]], obj[t]>>
          BY <2>2
        <4>2. u[2] = obj[t] /\ held[t] \subseteq held'[t]
          BY <2>2, <4>1
        <4> HIDE DEF PoolInv, Types, TypeOK
        <4> QED
          BY <2>4, <4>1, <4>2 DEF Owns
      <3>3. Transit(t)' = Transit(t)
        BY <2>2 DEF Transit
      <3> HIDE DEF PoolInv, Types, TypeOK
      <3>4. Owns(t) \subseteq Owns(t)'
        BY <3>2
      <3> QED
        BY <3>1, <3>3, <3>4
    <2>7. Valid(t)'
      BY <1>7, <2>2 DEF AllocateLeave, Valid
    <2>8. \A s \in Threads : Valid(s)'
      BY <1>7, <2>1, <2>7, OthersValid DEF AllocateLeave
    <2> HIDE DEF PoolInv, Types, TypeOK
    <2> QED
      BY <1>7, <2>1, <2>2, <2>3, <2>5, <2>6, <2>8, QuietStep DEF AllocateLeave
  <1> QED
    BY <1>1, <1>2, <1>3, <1>4, <1>5, <1>6, <1>7 DEF Allocate

-----------------------------------------------------------------------------
(* Free, and the hand-over of an object *)

LEMMA FreeStep ==
    ASSUME Main = {}, PoolInv, NEW t \in Threads, Free(t)
    PROVE  PoolInv'
  <1> USE ThreadsAssumption DEF PoolInv, Types, TypeOK, Goto, shared, local
  <1>0. Locks(t) /\ t # NULL
    BY DEF Locks
  <1>1. CASE FreeGet(t)
    <2>1. OthersKeep(t)
      BY <1>1, Others DEF FreeGet
    <2>2. PICK u \in held[t] :
              /\ uid'  = [uid EXCEPT ![t] = u]
              /\ held' = [held EXCEPT ![t] = @ \ {u}]
              /\ obj'  = [obj EXCEPT ![t] = IF magic[u[2]] = u[1] THEN u[2] ELSE NULL]
      BY <1>1 DEF FreeGet
    <2>3. u \in Magic \X Index /\ u[2] \in Index /\ pc[t] = "idle" /\ pc'[t] = "lock"
      BY <1>1 DEF FreeGet
    <2>4. /\ magic[u[2]] = u[1] /\ u[2] \in allocated /\ u = <<u[1], u[2]>> /\ u[2] # NULL
          /\ held'[t] = held[t] \ {u} /\ obj'[t] = u[2] /\ uid'[t] = u
      BY <2>2, <2>3 DEF Valid
    <2>5. Types'
      BY <1>1, <2>2, <2>3 DEF FreeGet
    <2>6. Exclusive'
      BY <1>1 DEF FreeGet, Exclusive, Inside
    <2>7. InHand(t)' = {u[2]} /\ InHand(t) = {}
      BY <2>3, <2>4 DEF InHand
    <2>8. Once(t)'
      BY <2>4, <2>7 DEF Once
    <2>9. Owns(t)' = Owns(t)
      BY <2>4, <2>7 DEF Owns
    <2>10. Locals(t)' /\ Transit(t)' = Transit(t)
      BY <2>3 DEF Locals, Transit
    <2>11. Valid(t)'
      BY <1>1, <2>3, <2>4 DEF FreeGet, Valid
    <2>12. \A s \in Threads : Valid(s)'
      BY <1>1, <2>1, <2>11, OthersValid DEF FreeGet
    <2> HIDE DEF PoolInv, Types, TypeOK
    <2> QED
      BY <1>1, <2>1, <2>3, <2>5, <2>6, <2>8, <2>9, <2>10, <2>12, QuietStep DEF FreeGet
  <1>2. CASE FreeLock(t)
    <2>1. OthersKeep(t)
      BY <1>2, Others DEF FreeLock
    <2>2. Types' /\ Exclusive'
      BY <1>0, <1>2 DEF FreeLock, Acquire, Exclusive, Inside
    <2>3. Once(t)' /\ Locals(t)' /\ Owns(t)' = Owns(t) /\ Transit(t)' = Transit(t)
      BY <1>2 DEF FreeLock, Once, Locals, Owns, InHand, Transit
    <2>4. Valid(t)'
      BY <1>2 DEF FreeLock, Valid
    <2>5. \A s \in Threads : Valid(s)'
      BY <1>2, <2>1, <2>4, OthersValid DEF FreeLock
    <2> HIDE DEF PoolInv, Types, TypeOK
    <2> QED
      BY <1>2, <2>1, <2>2, <2>3, <2>5, QuietStep DEF FreeLock
  <1>3. CASE FreeCheck(t)
    <2>1. OthersKeep(t)
      BY <1>3, Others DEF FreeCheck
    <2>2. Types' /\ Exclusive'
      BY <1>3 DEF FreeCheck, Exclusive, Inside
    <2>3. /\ pc[t] = "check" /\ UNCHANGED <<held, obj>>
          /\ pc'[t] = "link" /\ obj[t] # NULL
      BY <1>3 DEF FreeCheck, Index, Valid
    <2>4. InHand(t)' = InHand(t)
      BY <2>3 DEF InHand
    <2>5. Once(t)' /\ Owns(t)' = Owns(t)
      BY <2>3, <2>4 DEF Once, Owns
    <2>6. Locals(t)' /\ Transit(t)' = Transit(t)
      BY <2>3 DEF Locals, Transit
    <2>7. Valid(t)'
      BY <1>3, <2>3 DEF FreeCheck, Valid
    <2>8. \A s \in Threads : Valid(s)'
      BY <1>3, <2>1, <2>7, OthersValid DEF FreeCheck
    <2> HIDE DEF PoolInv, Types, TypeOK
    <2> QED
      BY <1>3, <2>1, <2>2, <2>3, <2>5, <2>6, <2>8, QuietStep DEF FreeCheck
  <1>4. CASE FreeLink(t)
    \* From here on t does not own the object any more.
    <2>1. OthersKeep(t)
      BY <1>4, Others DEF FreeLink
    <2>2. Types' /\ Exclusive'
      BY <1>4 DEF FreeLink, Locals, Exclusive, Inside
    <2>3. PICK F \in SUBSET Index : Runs(F) /\ Least(F) /\ Apart(F) /\ Accounted(F)
      OBVIOUS
    <2>4. /\ pc[t] = "link" /\ pc'[t] = "head" /\ obj[t] \in Index
          /\ link' = [link EXCEPT ![obj[t]] = free] /\ UNCHANGED <<free, obj, held>>
      BY <1>4 DEF FreeLink, Locals
    <2>5. InHand(t) = {obj[t]} /\ InHand(t)' = {} /\ Transit(t)' = {obj[t]}
      BY <2>4 DEF InHand, Transit
    <2>6. \A s \in Threads : F \cap Owns(s) = {}
      BY <2>3 DEF Apart
    <2>7. obj[t] \in Owns(t) /\ obj[t] \notin F
      BY <2>5, <2>6 DEF Owns
    <2>8. Runs(F)'
      BY <2>3, <2>4, <2>7 DEF Runs
    <2>9. Once(t)' /\ obj[t] \notin Owns(t)' /\ Owns(t)' \subseteq Owns(t)
      <3>1. \A u \in held[t] : u[2] # obj[t]
        BY <2>5 DEF Once
      <3> QED
        BY <2>4, <2>5, <3>1 DEF Once, Owns
    <2>10. Locals(t)'
      BY <2>4 DEF Locals
    <2>11. \A s \in Threads \ {t} : Owns(t) \cap Owns(s) = {}
      BY DEF OneOwner
    <2>12. /\ \A s \in Threads \ {t} : F \cap Owns(s) = {} /\ Owns(t)' \cap Owns(s) = {}
                                        /\ Transit(t)' \cap Owns(s) = {}
           /\ F \cap (Owns(t)' \cup Transit(t)') = {}
           /\ Transit(t)' \cap Owns(t)' = {}
      BY <2>5, <2>6, <2>7, <2>9, <2>11
    <2>13. pc[t] \in Inside
      BY <2>4 DEF Inside
    <2>14. F \cap allocated = {}
      BY <2>3, <2>4, <2>13, ListedUnmarked
    <2>15. \A s \in Threads : Valid(s)'
      <3>1. Valid(t)'
        BY <1>4, <2>4 DEF FreeLink, Valid
      <3> QED
        BY <1>4, <2>1, <3>1, OthersValid DEF FreeLink
    <2>16. Least(F)'
      BY <2>3, <2>4, <2>7, LeastElsewhere
    <2>17. Accounted(F)'
      <3>1. Owns(t) \cup Transit(t) \subseteq Owns(t)' \cup Transit(t)'
        BY <2>4, <2>5 DEF Owns, Transit
      <3>2. \A i \in Index \ F : \E s \in Threads : i \in Owns(s)' \cup Transit(s)'
        BY <2>1, <2>3, <3>1 DEF Accounted, OthersKeep
      <3>3. F \cap allocated' = {}
        BY <1>4, <2>14 DEF FreeLink
      <3> QED
        BY <3>2, <3>3 DEF Accounted
    <2> HIDE DEF PoolInv, Types, TypeOK
    <2> QED
      BY <2>1, <2>2, <2>8, <2>9, <2>10, <2>12, <2>13, <2>15, <2>16, <2>17, ListStep
  <1>5. CASE FreeHead(t)
    \* The object is the new head of the list.
    <2>1. OthersKeep(t)
      BY <1>5, Others DEF FreeHead
    <2>2. Types' /\ Exclusive'
      BY <1>5 DEF FreeHead, Locals, Exclusive, Inside
    <2>3. PICK F \in SUBSET Index : Runs(F) /\ Least(F) /\ Apart(F) /\ Accounted(F)
      OBVIOUS
    <2>4. /\ pc[t] = "head" /\ pc'[t] = "uid" /\ obj[t] \in Index
          /\ free' = obj[t] /\ link[obj[t]] = free /\ UNCHANGED <<link, obj, held>>
      BY <1>5 DEF FreeHead, Locals
    <2>5. PICK G \in SUBSET Index : G = F \cup {obj[t]}
      BY <2>4
    <2>6. Transit(t) = {obj[t]} /\ Transit(t)' = {}
      BY <2>4 DEF Transit
    <2>7. obj[t] \notin F /\ \A s \in Threads : obj[t] \notin Owns(s) /\ F \cap Owns(s) = {}
      BY <2>3, <2>6 DEF Apart
    <2>8. Runs(G)'
      BY <2>3, <2>4, <2>5, <2>7 DEF Runs, Index
    <2>9. InHand(t) = {} /\ InHand(t)' = {}
      BY <2>4 DEF InHand
    <2>10. Once(t)' /\ Owns(t)' = Owns(t)
      BY <2>4, <2>9 DEF Once, Owns
    <2>11. Locals(t)'
      BY <2>4 DEF Locals
    <2>12. \A s \in Threads \ {t} : Owns(t) \cap Owns(s) = {}
      BY DEF OneOwner
    <2>13. /\ \A s \in Threads \ {t} : G \cap Owns(s) = {} /\ Owns(t)' \cap Owns(s) = {}
                                        /\ Transit(t)' \cap Owns(s) = {}
           /\ G \cap (Owns(t)' \cup Transit(t)') = {}
           /\ Transit(t)' \cap Owns(t)' = {}
      BY <2>5, <2>6, <2>7, <2>10, <2>12
    <2>14. pc[t] \in Inside
      BY <2>4 DEF Inside
    <2>15. F \cap allocated = {}
      BY <2>3, <2>4, <2>14, ListedUnmarked
    <2>16. \A s \in Threads : Valid(s)'
      <3>1. Valid(t)'
        BY <1>5, <2>4 DEF FreeHead, Valid
      <3> QED
        BY <1>5, <2>1, <3>1, OthersValid DEF FreeHead
    <2>17. Least(G)'
      BY <2>3, <2>4, <2>5, <2>7, LeastWithHead
    <2>18. Accounted(G)'
      <3>1. \A i \in Index \ G : \E s \in Threads : i \in Owns(s)' \cup Transit(s)'
        BY <2>1, <2>3, <2>5, <2>6, <2>10 DEF Accounted, OthersKeep
      <3>2. \A i \in G \cap allocated' : pc'[t] = "uid" /\ obj'[t] = i
        BY <1>5, <2>4, <2>5, <2>15 DEF FreeHead
      <3> QED
        BY <3>1, <3>2 DEF Accounted
    <2> HIDE DEF PoolInv, Types, TypeOK
    <2> QED
      BY <2>1, <2>2, <2>8, <2>10, <2>11, <2>13, <2>14, <2>16, <2>17, <2>18, ListStep
  <1>6. CASE FreeUid(t)
    <2>1. OthersKeep(t)
      BY <1>6, Others DEF FreeUid
    <2>2. Types' /\ Exclusive'
      <3>1. uid[t][1] \in Magic /\ NextMagic(uid[t][1]) \in Magic
        BY DEF NextMagic, Magic
      <3> QED
        BY <1>6, <3>1 DEF FreeUid, Exclusive, Inside
    <2>3. Once(t)' /\ Locals(t)' /\ Owns(t)' = Owns(t) /\ Transit(t)' = Transit(t)
      BY <1>6 DEF FreeUid, Once, Locals, Owns, InHand, Transit
    <2>4. PICK F \in SUBSET Index : Runs(F) /\ Least(F) /\ Apart(F) /\ Accounted(F)
      OBVIOUS
    <2>5. /\ pc[t] = "uid" /\ pc'[t] = "unlock" /\ UNCHANGED held
          /\ obj[t] = free /\ obj[t] \in F /\ pc[t] \in Inside
      BY <1>6, <2>4 DEF FreeUid, Locals, Runs, Inside
    <2>6. /\ magic' = [magic EXCEPT ![obj[t]] = NextMagic(uid[t][1])]
          /\ allocated' = allocated \ {obj[t]}
      BY <1>6 DEF FreeUid
    <2>7. \A s \in Threads : obj[t] \notin Owns(s)
      BY <2>4, <2>5 DEF Apart
    <2>8. \A s \in Threads : Valid(s)'
      <3>1. \A s \in Threads : \A i \in Owns(s) : magic'[i] = magic[i]
                                        /\ (i \in allocated' <=> i \in allocated)
        BY <2>6, <2>7
      <3>2. \A u \in held[t] : u[2] \in Owns(t)
        BY DEF Owns
      <3>3. Valid(t)'
        BY <2>5, <3>1, <3>2 DEF Valid
      <3> HIDE DEF Types, TypeOK
      <3> QED
        BY <2>1, <2>5, <3>1, <3>3, OthersValidToo
    <2> HIDE DEF PoolInv, Types, TypeOK
    <2> QED
      BY <1>6, <2>1, <2>2, <2>3, <2>6, <2>8, QuietStep DEF FreeUid
  <1>7. CASE FreeUnlock(t)
    <2>1. OthersKeep(t)
      BY <1>7, Others DEF FreeUnlock, Return
    <2>2. Types' /\ Exclusive'
      BY <1>7 DEF FreeUnlock, Return, Exclusive, Inside, NoUid, Magic, Index
    <2>3. Once(t)' /\ Locals(t)' /\ Owns(t)' = Owns(t) /\ Transit(t)' = Transit(t)
      BY <1>7 DEF FreeUnlock, Return, Once, Locals, Owns, InHand, Transit
    <2>4. Valid(t)'
      BY <1>7 DEF FreeUnlock, Valid, Return
    <2>5. \A s \in Threads : Valid(s)'
      BY <1>7, <2>1, <2>4, OthersValid DEF FreeUnlock
    <2> HIDE DEF PoolInv, Types, TypeOK
    <2> QED
      BY <1>7, <2>1, <2>2, <2>3, <2>5, QuietStep DEF FreeUnlock
  <1> QED
    BY <1>1, <1>2, <1>3, <1>4, <1>5, <1>6, <1>7 DEF Free

LEMMA HandOverStep ==
    ASSUME PoolInv, NEW s \in Threads, NEW t \in Threads, s # t, HandOver(s, t)
    PROVE  PoolInv'
  <1> USE DEF PoolInv, Types, TypeOK, shared, local
  <1>1. PICK u \in held[s] : held' = [held EXCEPT ![s] = @ \ {u}, ![t] = @ \cup {u}]
    BY DEF HandOver
  <1>2. UNCHANGED <<free, link, allocated, magic, lock, pc, obj, uid, next>> /\ pc[s] = "idle"
    BY DEF HandOver
  <1>3. Types' /\ Exclusive'
    BY <1>1, <1>2 DEF Exclusive
  <1>4. \A r \in Threads : InHand(r)' = InHand(r) /\ Transit(r)' = Transit(r) /\ Locals(r)'
    BY <1>2 DEF InHand, Transit, Locals
  <1>5. /\ held'[s] = held[s] \ {u} /\ held'[t] = held[t] \cup {u}
        /\ \A r \in Threads \ {s, t} : held'[r] = held[r]
    BY <1>1
  <1>6. u[2] \in Owns(s) /\ \A r \in Threads \ {s} : u[2] \notin Owns(r)
    BY DEF Owns, OneOwner
  <1>7. /\ Owns(s)' = Owns(s) \ {u[2]} /\ Owns(t)' = Owns(t) \cup {u[2]}
        /\ \A r \in Threads \ {s, t} : Owns(r)' = Owns(r)
    <2>1. \A v \in held[s] \ {u} : v[2] # u[2]
      BY DEF Once
    <2>2. u[2] \notin InHand(s)
      BY DEF Once
    <2> QED
      BY <1>4, <1>5, <2>1, <2>2 DEF Owns
  <1>8. OneOwner'
    BY <1>6, <1>7 DEF OneOwner
  <1>9. \A r \in Threads : Once(r)'
    <2>1. Once(s)' /\ \A r \in Threads \ {s, t} : Once(r)'
      BY <1>4, <1>5 DEF Once
    <2>2. \A v \in held[t] : v[2] # u[2]
      BY <1>6 DEF Owns
    <2>3. u[2] \notin InHand(t)
      BY <1>6 DEF Owns
    <2>4. Once(t)'
      BY <1>4, <1>5, <2>2, <2>3 DEF Once
    <2> QED
      BY <2>1, <2>4
  <1>10. PICK F \in SUBSET Index : Runs(F) /\ Least(F) /\ Apart(F) /\ Accounted(F)
    OBVIOUS
  <1>11. Runs(F)'
    BY <1>2, <1>10 DEF Runs
  <1>12. Apart(F)'
    <2>1. \A r \in Threads : Owns(r)' \subseteq UNION {Owns(q) : q \in Threads}
      BY <1>6, <1>7
    <2> QED
      BY <1>4, <1>10, <2>1 DEF Apart
  <1>13. Least(F)' /\ Accounted(F)'
    <2>1. Least(F)'
      BY <1>2, <1>10 DEF Least, Holds
    <2>2. \A r \in Threads : Owns(r) \subseteq UNION {Owns(q)' : q \in Threads}
      BY <1>7
    <2>3. \A i \in Index \ F : \E r \in Threads : i \in Owns(r)' \cup Transit(r)'
      BY <1>4, <1>10, <2>2 DEF Accounted
    <2> QED
      BY <1>2, <1>10, <2>1, <2>3 DEF Accounted
  <1>14. \A r \in Threads : Valid(r)'
    BY <1>1, <1>2, <1>5 DEF Valid
  <1> QED
    BY <1>3, <1>4, <1>8, <1>9, <1>11, <1>12, <1>13, <1>14

-----------------------------------------------------------------------------
(* The pool *)

LEMMA PoolInit == Init => PoolInv
  <1> SUFFICES ASSUME Init PROVE PoolInv
    OBVIOUS
  <1> USE ThreadsAssumption DEF Init
  <1>1. Types /\ Exclusive
    BY DEF Types, TypeOK, Exclusive, Inside, NoUid, Magic, Index
  <1>2. \A t \in Threads : /\ Owns(t) = {} /\ Transit(t) = {}
                           /\ Once(t) /\ Locals(t) /\ Valid(t)
    BY DEF Owns, InHand, Transit, Once, Locals, Valid
  <1>3. Runs(Index)
    BY DEF Runs, Index
  <1>4. Apart(Index) /\ OneOwner /\ Accounted(Index)
    BY <1>2 DEF Apart, OneOwner, Accounted
  <1>5. Least(Index)
    <2> SUFFICES ASSUME NEW L \in SUBSET Index, Holds(L) PROVE Index \subseteq L
      BY DEF Least
    <2> DEFINE S == {n \in Nat : n < Size => n \in L}
    <2>1. S \in SUBSET Nat /\ 0 \in S
      <3>1. 0 \in Index /\ 0 # NULL
        BY DEF Index
      <3> QED
        BY <3>1 DEF Holds
    <2>2. ASSUME NEW n \in S PROVE n + 1 \in S
      <3> SUFFICES ASSUME n + 1 < Size PROVE n + 1 \in L
        OBVIOUS
      <3>1. n \in L /\ link[n] = n + 1 /\ n + 1 \in Index
        BY DEF Index
      <3> QED
        BY <3>1 DEF Holds
    <2> HIDE DEF S
    <2>3. S = Nat
      BY <2>1, <2>2, NatSetInduction
    <2> QED
      BY <2>3 DEF S, Index
  <1> QED
    BY <1>1, <1>2, <1>3, <1>4, <1>5 DEF PoolInv

LEMMA PoolStep ==
    ASSUME Main = {}
    PROVE  PoolInv /\ [Next]_vars => PoolInv'
  <1> SUFFICES ASSUME PoolInv, [Next]_vars PROVE PoolInv'
    OBVIOUS
  <1>1. ASSUME NEW t \in Threads, Allocate(t) \/ Free(t) PROVE PoolInv'
    BY <1>1, AllocateStep, FreeStep
  <1>2. ASSUME NEW s \in Threads, NEW t \in Threads, s # t, HandOver(s, t) PROVE PoolInv'
    BY <1>2, HandOverStep
  <1>3. CASE UNCHANGED vars
    <2>1. UNCHANGED <<free, link, allocated, magic, lock, pc, obj, uid, next, held>>
      BY <1>3 DEF vars, shared, local
    <2>2. \A t \in Threads : /\ InHand(t)' = InHand(t) /\ Transit(t)' = Transit(t)
                             /\ Owns(t)' = Owns(t)
      BY <2>1 DEF InHand, Transit, Owns
    <2>3. (\A t \in Threads : Once(t) /\ Locals(t) /\ Valid(t))'
      BY <2>1, <2>2 DEF PoolInv, Once, Locals, Valid
    <2>4. (Types /\ Exclusive /\ OneOwner)'
      BY <2>1, <2>2 DEF PoolInv, Types, TypeOK, Exclusive, OneOwner
    <2>5. (\E F \in SUBSET Index : Runs(F) /\ Least(F) /\ Apart(F) /\ Accounted(F))'
      <3>1. \A F : (Runs(F)' <=> Runs(F)) /\ (Least(F)' <=> Least(F))
        BY <2>1 DEF Runs, Least, Holds
      <3>2. \A F : (Apart(F)' <=> Apart(F)) /\ (Accounted(F)' <=> Accounted(F))
        BY <2>1, <2>2 DEF Apart, Accounted
      <3> QED
        BY <3>1, <3>2 DEF PoolInv
    <2> QED
      BY <2>3, <2>4, <2>5 DEF PoolInv
  <1> QED
    BY <1>1, <1>2, <1>3 DEF Next

LEMMA PoolInvariant ==
    ASSUME Main = {}
    PROVE  Spec => []PoolInv
  BY PoolInit, PoolStep, PTL DEF Spec

\* However the calls of any number of threads interleave, the look-up of Free outside
\* the lock included, no object of the pool has two owners, as long as every thread takes
\* the lock.
THEOREM ThreadsShareNothing ==
    ASSUME Main = {}
    PROVE  Spec => []OneOwner
  <1>1. PoolInv => OneOwner
    BY DEF PoolInv
  <1> QED
    BY <1>1, PoolInvariant, PTL

\* The uid an owner has stays valid until it frees the object: no other thread's call,
\* however late, disturbs it.
THEOREM OwnersUidsValid ==
    ASSUME Main = {}
    PROVE  Spec => []OwnedUidValid
  <1>1. PoolInv => OwnedUidValid
    BY DEF PoolInv, Valid, OwnedUidValid
  <1> QED
    BY <1>1, PoolInvariant, PTL

\* When the threads are between two calls the list leads to every object that nobody owns.
LEMMA NothingLost == PoolInv => NoneLost
  <1> SUFFICES ASSUME PoolInv, \A t \in Threads : pc[t] = "idle", NEW i \in Index,
                      \A t \in Threads : i \notin Owns(t)
               PROVE  i \in Listed
    BY DEF NoneLost
  <1>1. PICK F \in SUBSET Index : Runs(F) /\ Least(F) /\ Apart(F) /\ Accounted(F)
    BY DEF PoolInv
  <1>2. \A t \in Threads : Transit(t) = {}
    BY DEF Transit
  <1>3. i \in F
    BY <1>1, <1>2 DEF Accounted
  <1>4. ASSUME NEW L \in SUBSET Index, Holds(L) PROVE i \in L
    <2>1. PICK K \in SUBSET F : K = L \cap F
      OBVIOUS
    <2>2. Holds(K)
      BY <1>1, <1>4, <2>1 DEF Holds, Runs
    <2>3. K = F
      BY <1>1, <2>2 DEF Least
    <2> QED
      BY <1>3, <2>1, <2>3
  <1> QED
    BY <1>4 DEF Listed

\* No object is ever lost, neither from the list nor by its owners, in a pool of any size.
THEOREM ThreadsLoseNothing ==
    ASSUME Main = {}
    PROVE  Spec => []NoneLost
  BY PoolInvariant, NothingLost, PTL

\* What every call does to the marks and magics is what an allocator does, or nothing.
LEMMA StepAllocates ==
    ASSUME Main = {}, PoolInv, [Next]_vars
    PROVE  [A!Next]_(A!vars)
  <1>1. ASSUME NEW t \in Threads, AllocateMark(t) PROVE A!Next
    <2>1. obj[t] \in Index /\ obj[t] \notin allocated
      BY <1>1 DEF AllocateMark, Goto, PoolInv, Types, TypeOK, Locals, Valid
    <2>2. A!Allocate(obj[t])
      BY <1>1, <2>1 DEF AllocateMark, A!Allocate
    <2> QED
      BY <2>1, <2>2 DEF A!Next
  <1>2. ASSUME NEW t \in Threads, FreeUid(t) PROVE A!Next
    <2>1. obj[t] \in Index /\ obj[t] \in allocated /\ uid[t][1] = magic[obj[t]]
      BY <1>2 DEF FreeUid, Goto, PoolInv, Types, TypeOK, Valid
    <2>2. NextMagic(magic[obj[t]]) \in Magic \ {magic[obj[t]]}
      <3>1. \A m \in Magic : m + 1 < MagicMod => NextMagic(m) = m + 1
        BY ThreadsAssumption DEF NextMagic, Magic
      <3>2. \A m \in Magic : m + 1 = MagicMod => NextMagic(m) = 0
        BY ThreadsAssumption DEF NextMagic, Magic
      <3>3. \A m \in Magic : NextMagic(m) \in Magic \ {m}
        BY <3>1, <3>2, ThreadsAssumption DEF Magic
      <3> QED
        BY <2>1, <3>3 DEF PoolInv, Types, TypeOK
    <2>3. A!Free(obj[t])
      BY <1>2, <2>1, <2>2 DEF FreeUid, A!Free
    <2> QED
      BY <2>1, <2>3 DEF A!Next
  <1>3. ASSUME NEW t \in Threads, Allocate(t) \/ Free(t), ~AllocateMark(t), ~FreeUid(t)
        PROVE  UNCHANGED A!vars
    BY <1>3 DEF Allocate, Free, AllocateEnter, AllocateRead, AllocateNone, AllocateNext,
                AllocateMove, AllocateLeave, FreeGet, FreeLock, FreeCheck, FreeLink,
                FreeHead, FreeUnlock, shared, A!vars
  <1>4. ASSUME NEW s \in Threads, NEW t \in Threads, HandOver(s, t) PROVE UNCHANGED A!vars
    BY <1>4 DEF HandOver, shared, A!vars
  <1>5. CASE UNCHANGED vars
    BY <1>5 DEF vars, shared, A!vars
  <1> QED
    BY <1>1, <1>2, <1>3, <1>4, <1>5 DEF Next

LEMMA InitAllocates == Init => A!Init
  BY ThreadsAssumption DEF Init, A!Init, Magic

\* Whatever the interleaving, the threads together are one allocator: an object is handed
\* out only while nobody has it, and its handle changes when it is given back.
THEOREM ThreadsImplementAllocator ==
    ASSUME Main = {}
    PROVE  Spec => ImplementsAllocator
  <1> USE DEF ImplementsAllocator, A!Spec
  <1>1. PoolInv /\ [Next]_vars => [A!Next]_(A!vars)
    BY StepAllocates
  <1> QED
    BY <1>1, PoolInvariant, InitAllocates, PTL DEF Spec

-----------------------------------------------------------------------------
(* The requests *)

\* A worker has one task from the hand-over until it frees it.
Busy ==
    \A t \in Workers :
        /\ at[t] = "idle" => held[t] = {}
        /\ at[t] # "idle" => pc[t] = "idle" /\ \E u \in Magic \X Index : held[t] = {u}

\* Only the task of a worker that is through has been answered.
Unanswered ==
    \A i \in Index : answers[i] = 0 \/ \E t \in Workers : at[t] = "done" /\ Task(t) = i

HttpInv ==
    /\ PoolInv
    /\ at \in [Workers -> {"idle", "called", "reading", "writing", "done"}]
    /\ request \in [Index -> Requests \cup {NULL}]
    /\ answers \in [Index -> Int]
    /\ Busy /\ Unanswered /\ AnsweredOnce

\* Every step of HttpState is a step of the pool or leaves it alone.
LEMMA HttpStepsPool ==
    ASSUME [HttpNext]_hvars
    PROVE  [Next]_vars
  <1> USE HttpAssumption
  <1>1. ASSUME Arrives PROVE [Next]_vars
    BY <1>1 DEF Arrives, Next, Allocate
  <1>2. ASSUME NEW t \in Workers, Process(t) PROVE [Next]_vars
    BY <1>2 DEF Process, Next, Workers
  <1>3. ASSUME NEW t \in Workers, Release(t) PROVE [Next]_vars
    BY <1>3 DEF Release, Next, Workers, Free
  <1>4. ASSUME NEW t \in Workers, Handler(t) PROVE UNCHANGED vars
    BY <1>4 DEF Handler, OnGet, OnGetConfig, OnOther, OpenForRead, Read, EndRead,
                OpenFails, OpenForWrite, Write, EndWrite, Ends, vars
  <1>5. CASE UNCHANGED hvars
    BY <1>5 DEF hvars
  <1> QED
    BY <1>1, <1>2, <1>3, <1>4, <1>5 DEF HttpNext

\* The task of a busy worker is the one that it holds.
LEMMA TaskHeld ==
    ASSUME NEW t \in Threads, NEW u \in Magic \X Index, held[t] = {u}
    PROVE  Task(t) = u[2] /\ Task(t) \in Index /\ Task(t) \in Owns(t)
  BY DEF Task, Owns

\* Two busy workers have different tasks, and neither is the one the listener is about
\* to get.
LEMMA TasksApart ==
    ASSUME PoolInv, Busy, NEW s \in Workers, at[s] # "idle"
    PROVE  /\ Task(s) \in Index
           /\ \A t \in Workers \ {s} : at[t] # "idle" => Task(t) # Task(s)
           /\ pc[Listener] = "got" => Task(s) # obj[Listener]
  <1>1. \A t \in Workers : at[t] # "idle" => Task(t) \in Index /\ Task(t) \in Owns(t)
    BY TaskHeld DEF Busy, Workers
  <1>2. pc[Listener] = "got" => obj[Listener] \in Owns(Listener)
    BY DEF Owns, InHand
  <1> QED
    BY <1>1, <1>2, HttpAssumption DEF PoolInv, OneOwner, Workers

\* A worker whose task stays in its hands keeps it.
LEMMA TaskKept ==
    ASSUME NEW t, held'[t] = held[t]
    PROVE  Task(t)' = Task(t)
  BY DEF Task

\* A handler that goes on.
LEMMA GoesOnStep ==
    ASSUME HttpInv, PoolInv', NEW t \in Workers, UNCHANGED <<pc, held, request, answers>>,
           at[t] \in {"called", "reading", "writing"},
           at' = at \/ \E a \in {"reading", "writing"} : at' = [at EXCEPT ![t] = a]
    PROVE  HttpInv'
  <1> USE DEF HttpInv
  <1>1. \A s \in Workers : Task(s)' = Task(s) /\ Asked(s)' = Asked(s)
    BY TaskKept DEF Asked
  <1>2. \A s \in Workers : (at'[s] = "done") <=> (at[s] = "done")
    OBVIOUS
  <1>3. Busy'
    BY DEF Busy
  <1>4. Unanswered'
    BY <1>1, <1>2 DEF Unanswered
  <1>5. AnsweredOnce'
    BY <1>1, <1>2 DEF AnsweredOnce
  <1> QED
    BY <1>3, <1>4, <1>5

\* A handler that ends, having answered n times.
LEMMA EndsStep ==
    ASSUME HttpInv, PoolInv', NEW t \in Workers, NEW n \in Int, Ends(t, n),
           UNCHANGED <<pc, held>>,
           at[t] \in {"called", "reading", "writing"},
           n = 1 \/ Asked(t) \in {"getconfig", "other"}
    PROVE  HttpInv'
  <1> USE DEF HttpInv
  <1>1. /\ at' = [at EXCEPT ![t] = "done"]
        /\ answers' = [answers EXCEPT ![Task(t)] = @ + n]
        /\ request' = request
    BY DEF Ends
  <1>2. \A s \in Workers : Task(s)' = Task(s) /\ Asked(s)' = Asked(s)
    BY <1>1, TaskKept DEF Asked
  <1>3. /\ Task(t) \in Index
        /\ \A s \in Workers \ {t} : at[s] # "idle" => Task(s) # Task(t)
    BY TasksApart
  <1>4. answers[Task(t)] = 0
    BY <1>3 DEF Unanswered
  <1>5. Busy'
    BY <1>1 DEF Busy
  <1>6. Unanswered'
    BY <1>1, <1>2, <1>3 DEF Unanswered
  <1>7. AnsweredOnce'
    <2> SUFFICES ASSUME NEW s \in Workers, at'[s] = "done",
                        Asked(s) \notin {"getconfig", "other"}
                 PROVE  answers'[Task(s)] = 1
      BY <1>2 DEF AnsweredOnce
    <2>1. CASE s = t
      BY <2>1, <1>1, <1>3, <1>4
    <2>2. CASE s # t
      <3>1. at[s] = "done" /\ Task(s) \in Index /\ Task(s) # Task(t)
        BY <2>2, <1>1, <1>3, TasksApart
      <3> QED
        BY <3>1, <1>1 DEF AnsweredOnce
    <2> QED
      BY <2>1, <2>2
  <1>8. /\ at' \in [Workers -> {"idle", "called", "reading", "writing", "done"}]
        /\ request' \in [Index -> Requests \cup {NULL}]
    BY <1>1
  <1>9. answers' \in [Index -> Int]
    BY <1>1, <1>3
  <1> QED
    BY <1>5, <1>6, <1>7, <1>8, <1>9

LEMMA HandlerStep ==
    ASSUME HttpInv, PoolInv', NEW t \in Workers, Handler(t)
    PROVE  HttpInv'
  <1>1. UNCHANGED <<pc, held>>
    BY DEF Handler, OnGet, OnGetConfig, OnOther, OpenForRead, Read, EndRead, OpenFails,
           OpenForWrite, Write, EndWrite, Ends, vars, local
  <1>2. CASE OnGet(t) \/ EndRead(t) \/ OpenFails(t) \/ EndWrite(t)
    BY <1>1, <1>2, EndsStep DEF OnGet, EndRead, OpenFails, EndWrite, Called
  <1>3. CASE OnGetConfig(t)
    BY <1>1, <1>3, EndsStep DEF OnGetConfig, Called
  <1>4. CASE OnOther(t)
    BY <1>1, <1>4, EndsStep DEF OnOther, Called
  <1>5. CASE OpenForRead(t) \/ OpenForWrite(t)
    <2>1. UNCHANGED <<request, answers>> /\ at[t] = "called"
      BY <1>5 DEF OpenForRead, OpenForWrite, Called
    <2>2. \E a \in {"reading", "writing"} : at' = [at EXCEPT ![t] = a]
      BY <1>5 DEF OpenForRead, OpenForWrite
    <2> QED
      BY <1>1, <2>1, <2>2, GoesOnStep
  <1>6. CASE Read(t) \/ Write(t)
    BY <1>1, <1>6, GoesOnStep DEF Read, Write, history
  <1> QED
    BY <1>2, <1>3, <1>4, <1>5, <1>6 DEF Handler

LEMMA HttpStep ==
    ASSUME Main = {}
    PROVE  HttpInv /\ [HttpNext]_hvars => HttpInv'
  <1> SUFFICES ASSUME HttpInv, [HttpNext]_hvars PROVE HttpInv'
    OBVIOUS
  <1>0. PoolInv'
    BY HttpStepsPool, PoolStep DEF HttpInv
  <1>1. CASE Arrives
    <2>1. /\ UNCHANGED <<at, answers>>
          /\ \A t \in Workers : pc'[t] = pc[t] /\ held'[t] = held[t]
      BY <1>1, HttpAssumption
      DEF Arrives, AllocateEnter, AllocateRead, AllocateNone, AllocateNext, AllocateMove,
          AllocateMark, AllocateLeave, Goto, Workers, http, handler, history,
          HttpInv, PoolInv, Types, TypeOK, local
    <2>2. /\ request' \in [Index -> Requests \cup {NULL}]
          /\ \A i \in Index : request'[i] = request[i] \/ (pc[Listener] = "got" /\ i = obj[Listener])
      BY <1>1 DEF Arrives, AllocateLeave, Goto, http, HttpInv
    <2>3. \A t \in Workers : Task(t)' = Task(t)
      BY <2>1, TaskKept
    <2>4. \A t \in Workers : at[t] # "idle" => Asked(t)' = Asked(t)
      BY <2>2, <2>3, TasksApart DEF Asked, HttpInv
    <2>5. Busy'
      BY <2>1 DEF HttpInv, Busy
    <2>6. Unanswered' /\ AnsweredOnce'
      BY <2>1, <2>3, <2>4 DEF HttpInv, Unanswered, AnsweredOnce
    <2> QED
      BY <1>0, <2>1, <2>2, <2>5, <2>6 DEF HttpInv
  <1>2. ASSUME NEW t \in Workers, Process(t) PROVE HttpInv'
    <2>1. /\ held[t] = {} /\ pc[t] = "idle" /\ at' = [at EXCEPT ![t] = "called"]
          /\ UNCHANGED <<pc, request, answers>>
      BY <1>2 DEF Process, HandOver, history
    <2>2. PICK u \in held[Listener] :
              held' = [held EXCEPT ![Listener] = @ \ {u}, ![t] = @ \cup {u}]
      BY <1>2 DEF Process, HandOver
    <2>3. /\ u \in Magic \X Index /\ held'[t] = {u}
          /\ \A s \in Workers \ {t} : held'[s] = held[s]
      BY <2>1, <2>2, HttpAssumption DEF HttpInv, PoolInv, Types, TypeOK, Workers
    <2>4. at[t] = "idle"
      BY <2>1 DEF HttpInv, Busy
    <2>5. \A s \in Workers \ {t} : Task(s)' = Task(s) /\ Asked(s)' = Asked(s)
      BY <2>1, <2>3, TaskKept DEF Asked
    <2>6. Busy'
      BY <2>1, <2>3 DEF HttpInv, Busy
    <2>7. \A s \in Workers : at'[s] = "done" <=> at[s] = "done" /\ s # t
      BY <2>1, <2>4 DEF HttpInv
    <2>8. Unanswered' /\ AnsweredOnce'
      BY <2>1, <2>4, <2>5, <2>7 DEF HttpInv, Unanswered, AnsweredOnce
    <2> QED
      BY <1>0, <2>1, <2>6, <2>8 DEF HttpInv
  <1>3. ASSUME NEW t \in Workers, Release(t), at[t] = "done", FreeGet(t) PROVE HttpInv'
    <2>1. /\ at' = [at EXCEPT ![t] = "idle"]
          /\ request' = [request EXCEPT ![Task(t)] = NULL]
          /\ answers' = [answers EXCEPT ![Task(t)] = 0]
      BY <1>3 DEF Release, FreeGet, FreeLock, FreeCheck, FreeLink, FreeHead, FreeUid,
                  FreeUnlock, Goto
    <2>2. PICK u \in held[t] : held' = [held EXCEPT ![t] = @ \ {u}]
      BY <1>3 DEF FreeGet
    <2>3. /\ held'[t] = {} /\ \A s \in Workers \ {t} : held'[s] = held[s] /\ pc'[s] = pc[s]
      BY <1>3, <2>2 DEF FreeGet, Goto, HttpInv, Busy, PoolInv, Types, TypeOK, Workers
    <2>4. \A s \in Workers \ {t} : Task(s)' = Task(s)
      BY <2>3, TaskKept
    <2>5. /\ Task(t) \in Index
          /\ \A s \in Workers \ {t} : at[s] # "idle" => Task(s) # Task(t) /\ Task(s) \in Index
      BY <1>3, TasksApart DEF HttpInv
    <2>6. \A s \in Workers \ {t} : at[s] # "idle" => Asked(s)' = Asked(s)
      BY <2>1, <2>4, <2>5 DEF Asked, HttpInv
    <2>7. Busy'
      BY <2>1, <2>3 DEF HttpInv, Busy
    <2>8. Unanswered'
      BY <2>1, <2>4, <2>5 DEF HttpInv, Unanswered
    <2>9. AnsweredOnce'
      BY <2>1, <2>4, <2>5, <2>6 DEF HttpInv, AnsweredOnce
    <2>10. /\ at' \in [Workers -> {"idle", "called", "reading", "writing", "done"}]
           /\ request' \in [Index -> Requests \cup {NULL}]
      BY <2>1 DEF HttpInv
    <2>11. answers' \in [Index -> Int]
      BY <2>1, <2>5 DEF HttpInv
    <2> QED
      BY <1>0, <2>7, <2>8, <2>9, <2>10, <2>11 DEF HttpInv
  <1>4. ASSUME NEW t \in Workers,
               FreeLock(t) \/ FreeCheck(t) \/ FreeLink(t) \/ FreeHead(t) \/ FreeUid(t)
                   \/ FreeUnlock(t),
               UNCHANGED http
        PROVE  HttpInv'
    <2>1. /\ UNCHANGED <<held, at, request, answers>>
          /\ pc[t] # "idle" /\ \A s \in Workers \ {t} : pc'[s] = pc[s]
      BY <1>4 DEF FreeLock, FreeCheck, FreeLink, FreeHead, FreeUid, FreeUnlock, Goto,
                  local, http, handler, history, Workers, HttpInv, PoolInv, Types
    <2>2. \A s \in Workers : Task(s)' = Task(s) /\ Asked(s)' = Asked(s)
      BY <2>1, TaskKept DEF Asked
    <2>3. Busy' /\ Unanswered' /\ AnsweredOnce'
      BY <2>1, <2>2 DEF HttpInv, Busy, Unanswered, AnsweredOnce
    <2> QED
      BY <1>0, <2>1, <2>3 DEF HttpInv
  <1>5. ASSUME NEW t \in Workers, Handler(t) PROVE HttpInv'
    BY <1>0, <1>5, HandlerStep
  <1>6. CASE UNCHANGED hvars
    <2>1. UNCHANGED <<pc, held, at, request, answers>>
      BY <1>6 DEF hvars, vars, local, http, handler, history
    <2>2. \A s \in Workers : Task(s)' = Task(s) /\ Asked(s)' = Asked(s)
      BY <2>1, TaskKept DEF Asked
    <2>3. Busy'
      BY <2>1 DEF HttpInv, Busy
    <2>4. Unanswered' /\ AnsweredOnce'
      BY <2>1, <2>2 DEF HttpInv, Unanswered, AnsweredOnce
    <2> QED
      BY <1>0, <2>1, <2>3, <2>4 DEF HttpInv
  <1> QED
    BY <1>1, <1>2, <1>3, <1>4, <1>5, <1>6 DEF HttpNext, Release

LEMMA HttpInvariant ==
    ASSUME Main = {}
    PROVE  HttpSpec => []HttpInv
  <1>1. HttpInit => HttpInv
    <2> SUFFICES ASSUME HttpInit PROVE HttpInv
      OBVIOUS
    <2>1. PoolInv
      BY PoolInit DEF HttpInit
    <2> QED
      BY <2>1 DEF HttpInit, Init, HttpInv, Busy, Unanswered, AnsweredOnce, Workers
  <1> QED
    BY <1>1, HttpStep, PTL DEF HttpSpec

\* No task is ever in the hands of two of the listener and the workers, with any number of
\* workers and tasks.
THEOREM TasksNotShared ==
    ASSUME Main = {}
    PROVE  HttpSpec => []OneOwner
  <1>1. HttpInv => OneOwner
    BY DEF HttpInv, PoolInv
  <1> QED
    BY <1>1, HttpInvariant, PTL

\* A task that goes back to the pool has been answered exactly once, on every way through
\* the handlers but the two that answer /getconfig twice and a POST never.
THEOREM RequestsAnsweredOnce ==
    ASSUME Main = {}
    PROVE  HttpSpec => []AnsweredOnce
  <1>1. HttpInv => AnsweredOnce
    BY DEF HttpInv
  <1> QED
    BY <1>1, HttpInvariant, PTL

\* The requests lose no task either: between two calls of the pool every task is on the
\* list, with the listener or with a worker.
THEOREM TasksNotLost ==
    ASSUME Main = {}
    PROVE  HttpSpec => []NoneLost
  <1>1. HttpInv => NoneLost
    BY NothingLost DEF HttpInv
  <1> QED
    BY <1>1, HttpInvariant, PTL

\* Whatever the requests do, the task pool below them is one allocator.
THEOREM RequestsImplementAllocator ==
    ASSUME Main = {}
    PROVE  HttpSpec => ImplementsAllocator
  <1> USE DEF ImplementsAllocator, A!Spec
  <1>1. HttpInv /\ [HttpNext]_hvars => [A!Next]_(A!vars)
    BY HttpStepsPool, StepAllocates DEF HttpInv
  <1>2. HttpInit => A!Init
    BY InitAllocates DEF HttpInit
  <1> QED
    BY <1>1, <1>2, HttpInvariant, PTL DEF HttpSpec

-----------------------------------------------------------------------------
(* The file *)

\* The first n pieces of c
Upto(c, n) == [k \in 1..n |-> <<c, k>>]

\* A FILE stands at its beginning unless its worker reads or writes, and a worker has
\* nothing it should read before it has opened the file.
Placed(t) ==
    /\ at[t] \notin {"reading", "writing"} => offset[t] = 0
    /\ at[t] \in {"idle", "called", "writing"} => reads[t] = NULL
    /\ at[t] = "writing" => Asked(t) \in Contents

Places ==
    /\ offset \in [Workers -> Nat]
    /\ data = [t \in Workers |-> data[t]]
    /\ reads \in [Workers -> Contents \cup {NULL}]
    /\ \A t \in Workers : Placed(t)

\* Of a PUT that no other overlaps the file has what was written so far, and nothing else.
WrittenSoFar ==
    /\ alone \subseteq Writers
    /\ \A t \in alone : /\ Writers = {t} /\ offset[t] <= Pieces[Asked(t)]
                        /\ file = Upto(Asked(t), offset[t])

\* When it is over the file is the whole of what was put, until the next one.
WrittenOut ==
    settled # NULL => settled \in Contents /\ Writers = {} /\ file = Whole(settled)

\* A GET that no PUT has overlapped has read the first pieces of it.
ReadSoFar ==
    \A t \in Workers :
        at[t] = "reading" /\ reads[t] # NULL =>
            /\ reads[t] = settled /\ offset[t] <= Pieces[settled]
            /\ data[t] = Upto(settled, offset[t])

FileInv == Places /\ WrittenSoFar /\ WrittenOut /\ ReadSoFar /\ WholeFile

LEMMA UptoSeq ==
    ASSUME NEW c, NEW n \in Nat
    PROVE  /\ Upto(c, n) \in Seq({c} \X Nat) /\ Len(Upto(c, n)) = n
           /\ \A k \in 1..n : Upto(c, n)[k] = <<c, k>>
  <1>1. Upto(c, n) \in [1..n -> {c} \X Nat]
    BY DEF Upto
  <1>2. Upto(c, n) \in Seq({c} \X Nat)
    BY <1>1
  <1> QED
    BY <1>1, <1>2 DEF Upto

\* One more piece
LEMMA UptoOneMore ==
    ASSUME NEW c, NEW n \in Nat
    PROVE  [k \in 1..(n + 1) |-> IF k = n + 1 THEN <<c, n + 1>> ELSE Upto(c, n)[k]]
               = Upto(c, n + 1)
  <1>1. ASSUME NEW k \in 1..(n + 1), k # n + 1 PROVE Upto(c, n)[k] = <<c, k>>
    <2>1. k \in 1..n
      BY <1>1
    <2> QED
      BY <2>1, UptoSeq
  <1> QED
    BY <1>1 DEF Upto

LEMMA UptoNext ==
    ASSUME NEW c, NEW n \in Nat
    PROVE  Append(Upto(c, n), <<c, n + 1>>) = Upto(c, n + 1)
  <1>1. PICK s \in Seq({c} \X Nat) : s = Upto(c, n) /\ Len(s) = n
    BY UptoSeq
  <1>2. Append(s, <<c, n + 1>>) = [k \in 1..(n + 1) |-> IF k = n + 1 THEN <<c, n + 1>> ELSE s[k]]
    BY <1>1
  <1> QED
    BY <1>1, <1>2, UptoOneMore

LEMMA WrittenNext ==
    ASSUME NEW c, NEW n \in Nat, file = Upto(c, n)
    PROVE  Written(n, <<c, n + 1>>) = Upto(c, n + 1)
  <1>1. Len(file) = n
    BY UptoSeq
  <1>2. Written(n, <<c, n + 1>>) =
            [k \in 1..(n + 1) |-> IF k = n + 1 THEN <<c, n + 1>> ELSE Upto(c, n)[k]]
    BY <1>1 DEF Written
  <1> QED
    BY <1>2, UptoOneMore

\* A busy worker that does not give its task back is asked for the same all along.
LEMMA AskedKept ==
    ASSUME HttpInv, [HttpNext]_hvars, NEW t \in Workers, at[t] \notin {"idle", "done"}
    PROVE  Asked(t)' = Asked(t)
  <1> SUFFICES held'[t] = held[t] /\ request'[Task(t)] = request[Task(t)]
    BY TaskKept DEF Asked
  <1>0. /\ Task(t) \in Index /\ pc[Listener] = "got" => Task(t) # obj[Listener]
        /\ \A s \in Workers \ {t} : at[s] # "idle" => Task(s) # Task(t)
    BY TasksApart DEF HttpInv
  <1>1. CASE Arrives
    <2>1. held'[t] = held[t]
      BY <1>1
      DEF Arrives, AllocateEnter, AllocateRead, AllocateNone, AllocateNext, AllocateMove,
          AllocateMark, AllocateLeave, Workers, http, HttpInv, PoolInv, Types, TypeOK
    <2>2. CASE UNCHANGED http
      BY <2>1, <2>2 DEF http
    <2>3. CASE pc[Listener] = "got"
               /\ \E r \in Requests : request' = [request EXCEPT ![obj[Listener]] = r]
      BY <1>0, <2>1, <2>3 DEF HttpInv
    <2> QED
      BY <1>1, <2>2, <2>3 DEF Arrives, AllocateLeave, Goto
  <1>2. ASSUME NEW s \in Workers, Process(s) PROVE held'[t] = held[t] /\ request' = request
    <2>1. held[s] = {} /\ pc[s] = "idle" /\ request' = request
      BY <1>2 DEF Process
    <2>2. PICK u \in held[Listener] :
              held' = [held EXCEPT ![Listener] = @ \ {u}, ![s] = @ \cup {u}]
      BY <1>2 DEF Process, HandOver
    <2>3. s # t /\ t # Listener
      BY <2>1 DEF HttpInv, Busy, Workers
    <2> QED
      BY <2>1, <2>2, <2>3 DEF HttpInv, PoolInv, Types, TypeOK, Workers
  <1>3. ASSUME NEW s \in Workers, Release(s)
        PROVE  held'[t] = held[t] /\ request'[Task(t)] = request[Task(t)]
    <2>1. CASE FreeGet(s) /\ at[s] = "done" /\ request' = [request EXCEPT ![Task(s)] = NULL]
      <3>1. s # t /\ Task(s) # Task(t)
        BY <1>0, <2>1
      <3>2. PICK u \in held[s] : held' = [held EXCEPT ![s] = @ \ {u}]
        BY <2>1 DEF FreeGet
      <3> QED
        BY <1>0, <2>1, <3>1, <3>2 DEF HttpInv, PoolInv, Types, TypeOK, Workers
    <2>2. CASE UNCHANGED <<held, request>>
      BY <2>2
    <2> QED
      BY <1>3, <2>1, <2>2 DEF Release, http, FreeLock, FreeCheck, FreeLink, FreeHead, FreeUid,
                              FreeUnlock
  <1>4. ASSUME NEW s \in Workers, Handler(s) PROVE UNCHANGED <<held, request>>
    BY <1>4 DEF Handler, OnGet, OnGetConfig, OnOther, OpenForRead, Read, EndRead,
                OpenFails, OpenForWrite, Write, EndWrite, Ends, vars
  <1>5. CASE UNCHANGED hvars
    BY <1>5 DEF hvars, vars, http
  <1> QED
    BY <1>1, <1>2, <1>3, <1>4, <1>5 DEF HttpNext

\* A step that leaves the file and what was read alone.
LEMMA FileSame ==
    ASSUME HttpInv, FileInv, UNCHANGED <<at, offset, data, file, settled, reads, alone>>,
           \A s \in Workers : at[s] = "writing" => Asked(s)' = Asked(s)
    PROVE  FileInv'
  <1> USE DEF FileInv
  <1>1. Writers' = Writers
    BY DEF Writers
  <1>2. Places'
    BY DEF Places, Placed
  <1>3. WrittenSoFar'
    BY <1>1 DEF WrittenSoFar, Writers
  <1> QED
    BY <1>1, <1>2, <1>3 DEF WrittenOut, ReadSoFar, WholeFile

\* A worker gets a task, ends a handler that has not touched the file, or gives its task
\* back.
LEMMA FileQuiet ==
    ASSUME HttpInv, FileInv, NEW t \in Workers,
           \A s \in Workers : at[s] = "writing" => Asked(s)' = Asked(s),
           NEW a \in {"idle", "called", "done"},
           at' = [at EXCEPT ![t] = a],
           \/ /\ at[t] \in {"idle", "called"}
              /\ a # "idle" /\ UNCHANGED <<data, reads>>
           \/ /\ at[t] = "done" /\ a = "idle"
              /\ data' = [data EXCEPT ![t] = <<>>] /\ reads' = [reads EXCEPT ![t] = NULL],
           UNCHANGED <<offset, file, settled, alone>>
    PROVE  FileInv'
  <1> USE DEF FileInv
  <1>0. at'[t] = a /\ at[t] \in {"idle", "called", "done"}
        /\ \A s \in Workers \ {t} : at'[s] = at[s]
    BY DEF HttpInv
  <1>1. Writers' = Writers
    BY <1>0 DEF Writers
  <1>2. reads'[t] = NULL /\ \A s \in Workers \ {t} : reads'[s] = reads[s] /\ data'[s] = data[s]
    BY DEF Places, Placed
  <1>3. Places'
    <2>1. \A s \in Workers : Placed(s)'
      BY <1>0, <1>2 DEF Places, Placed
    <2>2. data' = [s \in Workers |-> data'[s]] /\ reads' \in [Workers -> Contents \cup {NULL}]
      BY DEF Places
    <2> QED
      BY <2>1, <2>2 DEF Places
  <1>4. WrittenSoFar'
    BY <1>1 DEF WrittenSoFar, Writers
  <1>5. WrittenOut'
    BY <1>1 DEF WrittenOut
  <1>6. ReadSoFar' /\ WholeFile'
    BY <1>0, <1>2 DEF ReadSoFar, WholeFile
  <1> QED
    BY <1>3, <1>4, <1>5, <1>6

LEMMA OpenForReadFile ==
    ASSUME HttpInv, FileInv, NEW t \in Workers, OpenForRead(t),
           \A s \in Workers : at[s] = "writing" => Asked(s)' = Asked(s)
    PROVE  FileInv'
  <1> USE HttpAssumption DEF FileInv
  <1>0. /\ at[t] = "called" /\ at' = [at EXCEPT ![t] = "reading"]
        /\ data' = [data EXCEPT ![t] = <<>>] /\ reads' = [reads EXCEPT ![t] = settled]
        /\ UNCHANGED <<file, offset, settled, alone>>
    BY DEF OpenForRead, Called
  <1>1. Writers' = Writers
    BY <1>0 DEF Writers, HttpInv
  <1>2. /\ at'[t] = "reading" /\ data'[t] = <<>> /\ reads'[t] = settled /\ offset[t] = 0
        /\ \A s \in Workers \ {t} : /\ at'[s] = at[s] /\ reads'[s] = reads[s]
                                    /\ data'[s] = data[s]
    BY <1>0 DEF Places, Placed, HttpInv
  <1>3. Places'
    <2>1. \A s \in Workers : Placed(s)'
      BY <1>0, <1>2 DEF Places, Placed
    <2>2. data' = [s \in Workers |-> data'[s]] /\ reads' \in [Workers -> Contents \cup {NULL}]
      BY <1>0 DEF Places, WrittenOut
    <2> QED
      BY <1>0, <2>1, <2>2 DEF Places
  <1>4. WrittenSoFar' /\ WrittenOut'
    BY <1>0, <1>1 DEF WrittenSoFar, WrittenOut, Writers
  <1>5. ReadSoFar'
    <2>1. settled # NULL => Pieces[settled] \in Nat /\ <<>> = Upto(settled, 0)
      BY DEF WrittenOut, Upto
    <2> QED
      BY <1>0, <1>2, <2>1 DEF ReadSoFar
  <1>6. WholeFile'
    BY <1>2 DEF WholeFile
  <1> QED
    BY <1>3, <1>4, <1>5, <1>6

LEMMA ReadFile ==
    ASSUME HttpInv, FileInv, NEW t \in Workers, Read(t),
           \A s \in Workers : at[s] = "writing" => Asked(s)' = Asked(s)
    PROVE  FileInv'
  <1> USE HttpAssumption DEF FileInv
  <1>0. /\ at[t] = "reading" /\ offset[t] < Len(file) /\ offset' = [offset EXCEPT ![t] = @ + 1]
        /\ data' = [data EXCEPT ![t] = Append(@, file[offset[t] + 1])]
        /\ UNCHANGED <<at, file, settled, reads, alone>>
    BY DEF Read, More, history
  <1>1. Writers' = Writers /\ t \notin Writers
    BY <1>0 DEF Writers
  <1>2. /\ offset'[t] = offset[t] + 1 /\ data'[t] = Append(data[t], file[offset[t] + 1])
        /\ \A s \in Workers \ {t} : offset'[s] = offset[s] /\ data'[s] = data[s]
    BY <1>0 DEF Places
  <1>3. Places'
    <2>1. \A s \in Workers : Placed(s)'
      BY <1>0, <1>2 DEF Places, Placed
    <2>2. data' = [s \in Workers |-> data'[s]]
      BY <1>0 DEF Places
    <2> QED
      BY <1>0, <2>1, <2>2 DEF Places
  <1>4. WrittenSoFar' /\ WrittenOut'
    BY <1>0, <1>1, <1>2 DEF WrittenSoFar, WrittenOut, Writers
  <1>5. ASSUME reads[t] # NULL
        PROVE  /\ reads[t] = settled /\ offset'[t] <= Pieces[settled]
               /\ data'[t] = Upto(settled, offset'[t])
    <2>1. /\ reads[t] = settled /\ settled \in Contents /\ data[t] = Upto(settled, offset[t])
          /\ file = Upto(settled, Pieces[settled])
      BY <1>0, <1>5 DEF ReadSoFar, WrittenOut, Whole, Upto
    <2>2. offset[t] \in Nat /\ Pieces[settled] \in Nat
      BY <2>1 DEF Places
    <2>3. Len(file) = Pieces[settled]
      BY <2>1, <2>2, UptoSeq
    <2>4. offset[t] + 1 <= Pieces[settled]
      BY <1>0, <2>2, <2>3
    <2>5. offset[t] + 1 \in 1..Pieces[settled]
      BY <2>2, <2>4
    <2>6. file[offset[t] + 1] = <<settled, offset[t] + 1>>
      BY <2>1, <2>2, <2>5, UptoSeq
    <2>7. data'[t] = Upto(settled, offset[t] + 1)
      BY <1>2, <2>1, <2>2, <2>6, UptoNext
    <2> QED
      BY <1>2, <2>1, <2>4, <2>7
  <1>6. ReadSoFar'
    BY <1>0, <1>2, <1>5 DEF ReadSoFar
  <1>7. WholeFile'
    BY <1>0, <1>2 DEF WholeFile
  <1> QED
    BY <1>3, <1>4, <1>6, <1>7

LEMMA EndReadFile ==
    ASSUME HttpInv, FileInv, NEW t \in Workers, EndRead(t),
           \A s \in Workers : at[s] = "writing" => Asked(s)' = Asked(s)
    PROVE  FileInv'
  <1> USE HttpAssumption DEF FileInv
  <1>0. /\ at[t] = "reading" /\ ~(offset[t] < Len(file)) /\ offset' = [offset EXCEPT ![t] = 0]
        /\ at' = [at EXCEPT ![t] = "done"]
        /\ UNCHANGED <<data, file, settled, reads, alone>>
    BY DEF EndRead, Ends, More
  <1>1. Writers' = Writers /\ t \notin Writers
    BY <1>0 DEF Writers, HttpInv
  <1>2. /\ offset'[t] = 0 /\ at'[t] = "done"
        /\ \A s \in Workers \ {t} : offset'[s] = offset[s] /\ at'[s] = at[s]
    BY <1>0 DEF Places, HttpInv
  <1>3. Places'
    <2>1. \A s \in Workers : Placed(s)'
      BY <1>0, <1>2 DEF Places, Placed
    <2> QED
      BY <1>0, <2>1 DEF Places
  <1>4. WrittenSoFar' /\ WrittenOut'
    BY <1>0, <1>1, <1>2 DEF WrittenSoFar, WrittenOut, Writers
  <1>5. ASSUME reads[t] # NULL PROVE data[t] = Whole(reads[t])
    <2>1. /\ reads[t] = settled /\ settled \in Contents /\ data[t] = Upto(settled, offset[t])
          /\ file = Upto(settled, Pieces[settled]) /\ offset[t] <= Pieces[settled]
      BY <1>0, <1>5 DEF ReadSoFar, WrittenOut, Whole, Upto
    <2>2. offset[t] \in Nat /\ Pieces[settled] \in Nat
      BY <2>1 DEF Places
    <2>3. Len(file) = Pieces[settled]
      BY <2>1, <2>2, UptoSeq
    <2>4. offset[t] = Pieces[settled]
      BY <1>0, <2>1, <2>2, <2>3
    <2> QED
      BY <2>1, <2>4 DEF Whole, Upto
  <1>6. ReadSoFar'
    BY <1>0, <1>2 DEF ReadSoFar
  <1>7. WholeFile'
    BY <1>0, <1>2, <1>5 DEF WholeFile
  <1> QED
    BY <1>3, <1>4, <1>6, <1>7

LEMMA OpenForWriteFile ==
    ASSUME HttpInv, FileInv, NEW t \in Workers, OpenForWrite(t),
           \A s \in Workers : at[s] \in {"called", "writing"} => Asked(s)' = Asked(s)
    PROVE  FileInv'
  <1> USE HttpAssumption DEF FileInv
  <1>0. /\ at[t] = "called" /\ Asked(t) \in Contents /\ at' = [at EXCEPT ![t] = "writing"]
        /\ file' = <<>> /\ settled' = NULL /\ reads' = [w \in Workers |-> NULL]
        /\ alone' = (IF Writers = {} THEN {t} ELSE {}) /\ UNCHANGED <<offset, data>>
    BY DEF OpenForWrite, Called, Opened
  <1>1. Writers' = Writers \cup {t}
    BY <1>0 DEF Writers, HttpInv
  <1>2. /\ at'[t] = "writing" /\ Asked(t)' = Asked(t) /\ offset[t] = 0
        /\ \A s \in Workers \ {t} : at'[s] = at[s]
    BY <1>0 DEF Places, Placed, HttpInv
  <1>3. Places'
    <2>1. \A s \in Workers : Placed(s)'
      BY <1>0, <1>2 DEF Places, Placed
    <2> QED
      BY <1>0, <2>1 DEF Places
  <1>4. WrittenSoFar'
    <2>1. Pieces[Asked(t)] \in Nat /\ <<>> = Upto(Asked(t), 0)
      BY <1>0 DEF Upto
    <2> QED
      BY <1>0, <1>1, <1>2, <2>1 DEF WrittenSoFar
  <1> QED
    BY <1>0, <1>3, <1>4 DEF WrittenOut, ReadSoFar, WholeFile

LEMMA WriteFile ==
    ASSUME HttpInv, FileInv, NEW t \in Workers, Write(t),
           \A s \in Workers : at[s] = "writing" => Asked(s)' = Asked(s)
    PROVE  FileInv'
  <1> USE HttpAssumption DEF FileInv
  <1>0. /\ at[t] = "writing" /\ offset[t] < Pieces[Asked(t)]
        /\ file' = Written(offset[t], <<Asked(t), offset[t] + 1>>)
        /\ offset' = [offset EXCEPT ![t] = @ + 1]
        /\ UNCHANGED <<at, data, settled, reads, alone>>
    BY DEF Write, history
  <1>1. Writers' = Writers /\ t \in Writers
    BY <1>0 DEF Writers
  <1>2. /\ offset'[t] = offset[t] + 1 /\ offset[t] \in Nat /\ Asked(t)' = Asked(t)
        /\ \A s \in Workers \ {t} : offset'[s] = offset[s]
    BY <1>0 DEF Places
  <1>3. Places'
    <2>1. \A s \in Workers : Placed(s)'
      BY <1>0, <1>2 DEF Places, Placed
    <2> QED
      BY <1>0, <2>1 DEF Places
  <1>4. settled = NULL /\ \A s \in alone : s = t
    BY <1>1 DEF WrittenOut, WrittenSoFar
  <1>5. WrittenSoFar'
    <2> SUFFICES ASSUME t \in alone
                 PROVE  offset[t] + 1 <= Pieces[Asked(t)] /\ file' = Upto(Asked(t), offset[t] + 1)
      BY <1>0, <1>1, <1>2, <1>4 DEF WrittenSoFar
    <2>1. file = Upto(Asked(t), offset[t]) /\ Pieces[Asked(t)] \in Nat
      BY <1>0 DEF WrittenSoFar, Places, Placed
    <2>2. Written(offset[t], <<Asked(t), offset[t] + 1>>) = Upto(Asked(t), offset[t] + 1)
      BY <1>2, <2>1, WrittenNext
    <2> QED
      BY <1>0, <1>2, <2>1, <2>2
  <1>6. ReadSoFar'
    BY <1>0, <1>2, <1>4 DEF ReadSoFar
  <1> QED
    BY <1>0, <1>3, <1>4, <1>5, <1>6 DEF WrittenOut, WholeFile

LEMMA EndWriteFile ==
    ASSUME HttpInv, FileInv, NEW t \in Workers, EndWrite(t),
           \A s \in Workers : at[s] = "writing" => Asked(s)' = Asked(s)
    PROVE  FileInv'
  <1> USE HttpAssumption DEF FileInv
  <1>0. /\ at[t] = "writing" /\ offset[t] = Pieces[Asked(t)]
        /\ at' = [at EXCEPT ![t] = "done"] /\ offset' = [offset EXCEPT ![t] = 0]
        /\ settled' = (IF t \in alone THEN Asked(t) ELSE NULL) /\ alone' = alone \ {t}
        /\ UNCHANGED <<file, data, reads>>
    BY DEF EndWrite, Ends
  <1>1. Writers' = Writers \ {t} /\ t \in Writers
    BY <1>0 DEF Writers, HttpInv
  <1>2. /\ offset'[t] = 0 /\ at'[t] = "done" /\ reads[t] = NULL /\ Asked(t) \in Contents
        /\ \A s \in Workers \ {t} : offset'[s] = offset[s] /\ at'[s] = at[s]
    BY <1>0 DEF Places, Placed, HttpInv
  <1>3. Places'
    <2>1. \A s \in Workers : Placed(s)'
      BY <1>0, <1>2 DEF Places, Placed
    <2> QED
      BY <1>0, <2>1 DEF Places
  <1>4. settled = NULL /\ alone' = {}
    BY <1>0, <1>1 DEF WrittenOut, WrittenSoFar
  <1>5. WrittenSoFar'
    BY <1>4 DEF WrittenSoFar
  <1>6. WrittenOut'
    <2> SUFFICES ASSUME t \in alone
                 PROVE  Writers' = {} /\ file = Whole(Asked(t))
      BY <1>0, <1>2 DEF WrittenOut
    <2>1. Writers = {t} /\ file = Upto(Asked(t), Pieces[Asked(t)])
      BY <1>0 DEF WrittenSoFar
    <2> QED
      BY <1>1, <2>1 DEF Whole, Upto
  <1>7. \A s \in Workers : at[s] = "reading" => reads[s] = NULL
    BY <1>4 DEF ReadSoFar
  <1>8. ReadSoFar' /\ WholeFile'
    BY <1>0, <1>2, <1>7 DEF ReadSoFar, WholeFile
  <1> QED
    BY <1>3, <1>5, <1>6, <1>8

LEMMA FileStep ==
    ASSUME HttpInv, FileInv, [HttpNext]_hvars
    PROVE  FileInv'
  <1>0. \A s \in Workers : at[s] \in {"called", "writing"} => Asked(s)' = Asked(s)
    BY AskedKept
  <1>1. CASE Arrives \/ UNCHANGED hvars
    BY <1>0, <1>1, FileSame DEF Arrives, hvars, http, handler, history
  <1>2. ASSUME NEW t \in Workers, Process(t) PROVE FileInv'
    <2>1. at[t] = "idle"
      BY <1>2 DEF Process, HttpInv, Busy
    <2> QED
      BY <1>0, <1>2, <2>1, FileQuiet DEF Process, history
  <1>3. ASSUME NEW t \in Workers, Release(t) PROVE FileInv'
    <2>1. CASE UNCHANGED http
      BY <1>0, <2>1, FileSame DEF http, handler, history
    <2>2. CASE at[t] = "done" /\ at' = [at EXCEPT ![t] = "idle"]
               /\ data' = [data EXCEPT ![t] = <<>>] /\ reads' = [reads EXCEPT ![t] = NULL]
               /\ UNCHANGED <<offset, file, settled, alone>>
      BY <1>0, <2>2, FileQuiet
    <2> QED
      BY <1>3, <2>1, <2>2 DEF Release
  <1>4. ASSUME NEW t \in Workers, OnGet(t) \/ OnGetConfig(t) \/ OnOther(t) \/ OpenFails(t)
        PROVE  FileInv'
    <2>1. /\ at[t] = "called" /\ at' = [at EXCEPT ![t] = "done"]
          /\ offset' = [offset EXCEPT ![t] = 0]
          /\ UNCHANGED <<file, data, settled, reads, alone>>
      BY <1>4 DEF OnGet, OnGetConfig, OnOther, OpenFails, Called, Ends
    <2>2. offset' = offset
      BY <2>1 DEF FileInv, Places, Placed
    <2> QED
      BY <1>0, <2>1, <2>2, FileQuiet
  <1>5. ASSUME NEW t \in Workers, Handler(t) PROVE FileInv'
    BY <1>0, <1>4, <1>5, OpenForReadFile, ReadFile, EndReadFile, OpenForWriteFile, WriteFile,
       EndWriteFile DEF Handler
  <1> QED
    BY <1>1, <1>2, <1>3, <1>5 DEF HttpNext

\* A GET that no PUT overlaps is answered with the whole of what was put last and nothing
\* else, for any contents and however many workers read and write the file without a lock,
\* if no other PUT overlapped that one.
THEOREM FilesReadWhole ==
    ASSUME Main = {}
    PROVE  HttpSpec => []WholeFile
  <1>1. HttpInit => FileInv
    BY HttpAssumption
    DEF HttpInit, FileInv, Places, Placed, WrittenSoFar, WrittenOut, ReadSoFar, WholeFile,
        Writers
  <1>2. HttpInv /\ FileInv /\ [HttpNext]_hvars => FileInv'
    BY FileStep
  <1>3. FileInv => WholeFile
    BY DEF FileInv
  <1> QED
    BY <1>1, <1>2, <1>3, HttpInvariant, PTL DEF HttpSpec
=============================================================================
