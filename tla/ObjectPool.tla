----------------------------- MODULE ObjectPool -----------------------------
(***************************************************************************)
(* ObjectPool<T> (objectpool.h) as its callers on one thread see it: a     *)
(* fixed array of objects, a free list threaded through link_array, and a  *)
(* uid per object whose upper half (the magic) changes with every Free.    *)
(*                                                                         *)
(* An object is its index in data_array.  A uid is the pair of its magic   *)
(* and its index: Initialize admits at most 0xffff objects, so the index   *)
(* always fits the lower half.                                             *)
(***************************************************************************)
EXTENDS Integers, FiniteSets

CONSTANTS
    Size,       \* the number of objects
    MagicMod,   \* 2^16: the magic is a ushort
    NULL

Index == 0..(Size - 1)
Magic == 0..(MagicMod - 1)

ASSUME PoolAssumption ==
    /\ Size \in 1..65535
    /\ MagicMod \in Nat /\ MagicMod > 1
    /\ NULL \notin Index

VARIABLES
    free,       \* free_obj
    link,       \* link_array
    allocated,  \* the objects with data_allocate set
    count,
    magic,      \* the upper half of each object's uid
    frees       \* history: how often each object has been freed

vars == <<free, link, allocated, count, magic, frees>>

Uid(i) == <<magic[i], i>>

-----------------------------------------------------------------------------
\* Variant: the last object is not the end of the list.
NextFree_NoEnd(i) == i + 1

\* Initialize chains the objects in their order.
NextFree(i) == IF i = Size - 1 THEN NULL ELSE i + 1

\* Initialize
Init ==
    /\ free = 0
    /\ link = [i \in Index |-> NextFree(i)]
    /\ allocated = {}
    /\ count = 0
    /\ magic = [i \in Index |-> 1]
    /\ frees = [i \in Index |-> 0]

\* Variant: the popped object stays linked and the list head stays behind.
Pop_Forgets == free

\* free_obj after an allocation
Pop == link[free]

\* Allocate, when the list is not empty; otherwise it returns NULL.
Allocate ==
    /\ free # NULL
    /\ free'      = Pop
    /\ link'      = [link EXCEPT ![free] = NULL]
    /\ allocated' = allocated \cup {free}
    /\ count'     = count + 1
    /\ UNCHANGED <<magic, frees>>

\* Get: whether uid u names an object, allocated or not.
Names(u) == u[2] \in Index /\ magic[u[2]] = u[1]

\* Variant: the magic is not moved on.
NextMagic_Same(m) == m

\* The magic that replaces m: incremented as a ushort, so 0 follows 65535.
NextMagic(m) == IF m = 0 THEN 1 % MagicMod ELSE (m + 1) % MagicMod

\* Variant: a second Free of an object is not noticed.
Freeable_Again(u) == Names(u)

\* Free acts on the object that u names, unless it is free already.
Freeable(u) == Names(u) /\ u[2] \in allocated

\* Variant: count only ever grows.
CountFreed_Not == count

CountFreed == count - 1

Free(u) ==
    /\ Freeable(u)
    /\ link'      = [link EXCEPT ![u[2]] = free]
    /\ free'      = u[2]
    /\ count'     = CountFreed
    /\ magic'     = [magic EXCEPT ![u[2]] = NextMagic(u[1])]
    /\ allocated' = allocated \ {u[2]}
    /\ frees'     = [frees EXCEPT ![u[2]] = @ + 1]

\* Callers may free any uid: their own, one they have freed before, or one of
\* another pool.
Next ==
    \/ Allocate
    \/ \E u \in Magic \X Index : Free(u)

Spec == Init /\ [][Next]_vars

-----------------------------------------------------------------------------
(* Properties *)

\* Every field keeps its type.
TypeOK ==
    /\ free \in Index \cup {NULL}
    /\ link \in [Index -> Index \cup {NULL}]
    /\ allocated \subseteq Index
    /\ count \in Int
    /\ magic \in [Index -> Magic]
    /\ frees \in [Index -> Nat]

FreeObjects == Index \ allocated

\* f lists the n free objects in the order of the free list.
Lists(f, n) ==
    /\ \A j, k \in 1..n : f[j] = f[k] => j = k
    /\ \A i \in FreeObjects : \E k \in 1..n : f[k] = i
    /\ free = IF n = 0 THEN NULL ELSE f[1]
    /\ \A k \in 1..n : link[f[k]] = IF k = n THEN NULL ELSE f[k + 1]

\* Walking link_array from free_obj meets every free object exactly once, no
\* allocated one, and ends: no legal sequence of calls loses an object or links
\* one twice.
FreeListSound ==
    LET n == Cardinality(FreeObjects)
    IN  \E f \in [1..n -> FreeObjects] : Lists(f, n)

\* Count(), which decides whether the server has been abandoned (game.cpp:281),
\* is the number of objects out.
CountExact == count = Cardinality(allocated)

\* An allocation fails only when every object is out, and never hands out an
\* object that is.
AllocateSound ==
    /\ free = NULL => allocated = Index
    /\ free \notin allocated

\* The magic of an object counts its frees, less the times the ushort wrapped: a
\* uid that was freed names its object again only after MagicMod more frees.
MagicCounts ==
    \A i \in Index : \E wraps \in 0..frees[i] :
        1 + frees[i] = magic[i] + wraps * MagicMod

A == INSTANCE Allocator WITH Handle <- Magic, busy <- allocated, handle <- magic

\* The pool is an allocator: one owner at a time, and a freed handle dies.
ImplementsAllocator == A!Spec
=============================================================================
