---------------------------- MODULE PoolThreads ----------------------------
(***************************************************************************)
(* ObjectPool<T> (objectpool.h) called by several threads, one access to   *)
(* the shared fields at a time.  A thread that is not the main thread      *)
(* holds m_Lock during Allocate and Free, except for the Get at the head   *)
(* of Free; the main thread never takes it.                                *)
(*                                                                         *)
(* A thread frees an object it holds, once, and may hand it to another     *)
(* thread, as the HTTP listener does with its tasks.                       *)
(***************************************************************************)
EXTENDS Integers, FiniteSets

CONSTANTS
    Threads,    \* the threads that use the pool
    Main,       \* those of them for which IsMainThread() holds
    Size,
    MagicMod,
    NULL

Index == 0..(Size - 1)
Magic == 0..(MagicMod - 1)

ASSUME ThreadsAssumption ==
    /\ Main \subseteq Threads
    /\ Size \in Nat \ {0} /\ MagicMod \in Nat /\ MagicMod > 1
    /\ NULL \notin Index /\ NULL \notin Threads

VARIABLES
    free, link, allocated, magic,   \* as in ObjectPool
    lock,    \* the thread that holds m_Lock, or NULL
    pc,      \* what each thread does next
    obj,     \* the local variable ret, or obj, of each thread
    uid,     \* the argument of Free
    next,    \* the link that Allocate has read
    held     \* the objects each thread owns, with the uid it knows them by

shared == <<free, link, allocated, magic>>
local  == <<obj, uid, next>>
vars   == <<shared, lock, pc, local, held>>

NoUid == <<0, 0>>

Goto(t, from, to) == pc[t] = from /\ pc' = [pc EXCEPT ![t] = to]

-----------------------------------------------------------------------------
\* Variant: no thread locks.
Locks_None(t) == FALSE

Locks(t) == t \notin Main

\* m_Lock.Lock(), by the threads that call it.
Acquire(t) ==
    IF Locks(t) THEN lock = NULL /\ lock' = t ELSE UNCHANGED lock

\* m_Lock.Unlock(), and the call returns: its local variables are gone.
Return(t) ==
    /\ lock' = IF Locks(t) THEN NULL ELSE lock
    /\ obj'  = [obj EXCEPT ![t] = NULL]
    /\ next' = [next EXCEPT ![t] = NULL]
    /\ uid'  = [uid EXCEPT ![t] = NoUid]

\* Allocate
AllocateEnter(t) ==
    /\ Goto(t, "idle", "read")
    /\ Acquire(t)
    /\ UNCHANGED <<shared, local, held>>

AllocateRead(t) ==
    /\ Goto(t, "read", IF free = NULL THEN "none" ELSE "next")
    /\ obj' = [obj EXCEPT ![t] = free]
    /\ UNCHANGED <<shared, lock, uid, next, held>>

AllocateNone(t) ==
    /\ Goto(t, "none", "idle")
    /\ Return(t)
    /\ UNCHANGED <<shared, held>>

AllocateNext(t) ==
    /\ Goto(t, "next", "move")
    /\ next' = [next EXCEPT ![t] = link[obj[t]]]
    /\ UNCHANGED <<shared, lock, obj, uid, held>>

AllocateMove(t) ==
    /\ Goto(t, "move", "mark")
    /\ free' = next[t]
    /\ UNCHANGED <<link, allocated, magic, lock, local, held>>

AllocateMark(t) ==
    /\ Goto(t, "mark", "got")
    /\ link'      = [link EXCEPT ![obj[t]] = NULL]
    /\ allocated' = allocated \cup {obj[t]}
    /\ UNCHANGED <<free, magic, lock, local, held>>

\* Allocate returns and its caller reads the uid.
AllocateLeave(t) ==
    /\ Goto(t, "got", "idle")
    /\ Return(t)
    /\ held' = [held EXCEPT ![t] = @ \cup {<<magic[obj[t]], obj[t]>>}]
    /\ UNCHANGED shared

\* Free: Get comes before the lock.
FreeGet(t) ==
    /\ Goto(t, "idle", "lock")
    /\ \E u \in held[t] :
        /\ uid'  = [uid EXCEPT ![t] = u]
        /\ held' = [held EXCEPT ![t] = @ \ {u}]
        /\ obj'  = [obj EXCEPT ![t] = IF magic[u[2]] = u[1] THEN u[2] ELSE NULL]
    /\ UNCHANGED <<shared, lock, next>>

FreeLock(t) ==
    /\ Goto(t, "lock", "check")
    /\ Acquire(t)
    /\ UNCHANGED <<shared, local, held>>

FreeCheck(t) ==
    /\ Goto(t, "check", IF obj[t] \in allocated THEN "link" ELSE "unlock")
    /\ UNCHANGED <<shared, lock, local, held>>

FreeLink(t) ==
    /\ Goto(t, "link", "head")
    /\ link' = [link EXCEPT ![obj[t]] = free]
    /\ UNCHANGED <<free, allocated, magic, lock, local, held>>

FreeHead(t) ==
    /\ Goto(t, "head", "uid")
    /\ free' = obj[t]
    /\ UNCHANGED <<link, allocated, magic, lock, local, held>>

NextMagic(m) == (m + 1) % MagicMod

\* The magic is that of the argument, not that of the object.
FreeUid(t) ==
    /\ Goto(t, "uid", "unlock")
    /\ magic'     = [magic EXCEPT ![obj[t]] = NextMagic(uid[t][1])]
    /\ allocated' = allocated \ {obj[t]}
    /\ UNCHANGED <<free, link, lock, local, held>>

FreeUnlock(t) ==
    /\ Goto(t, "unlock", "idle")
    /\ Return(t)
    /\ UNCHANGED <<shared, held>>

\* A thread hands an object to another one.
HandOver(s, t) ==
    /\ pc[s] = "idle"
    /\ \E u \in held[s] :
        held' = [held EXCEPT ![s] = @ \ {u}, ![t] = @ \cup {u}]
    /\ UNCHANGED <<shared, lock, pc, local>>

-----------------------------------------------------------------------------
Init ==
    /\ free = 0
    /\ link = [i \in Index |-> IF i = Size - 1 THEN NULL ELSE i + 1]
    /\ allocated = {}
    /\ magic = [i \in Index |-> 1]
    /\ lock = NULL
    /\ pc = [t \in Threads |-> "idle"]
    /\ obj = [t \in Threads |-> NULL]
    /\ uid = [t \in Threads |-> NoUid]
    /\ next = [t \in Threads |-> NULL]
    /\ held = [t \in Threads |-> {}]

Allocate(t) ==
    \/ AllocateEnter(t) \/ AllocateRead(t) \/ AllocateNone(t)
    \/ AllocateNext(t) \/ AllocateMove(t) \/ AllocateMark(t) \/ AllocateLeave(t)

Free(t) ==
    \/ FreeGet(t) \/ FreeLock(t) \/ FreeCheck(t)
    \/ FreeLink(t) \/ FreeHead(t) \/ FreeUid(t) \/ FreeUnlock(t)

Next ==
    \/ \E t \in Threads : Allocate(t) \/ Free(t)
    \/ \E s, t \in Threads : s # t /\ HandOver(s, t)

Spec == Init /\ [][Next]_vars

-----------------------------------------------------------------------------
(* Properties *)

\* Every variable keeps its type.
TypeOK ==
    /\ free \in Index \cup {NULL}
    /\ link \in [Index -> Index \cup {NULL}]
    /\ allocated \subseteq Index
    /\ magic \in [Index -> Magic]
    /\ lock \in Threads \cup {NULL}
    /\ obj \in [Threads -> Index \cup {NULL}]
    /\ next \in [Threads -> Index \cup {NULL}]
    /\ held \in [Threads -> SUBSET (Magic \X Index)]

\* The object that thread t is about to return or to free.
InHand(t) ==
    IF pc[t] = "got" \/ (pc[t] \in {"lock", "check", "link"} /\ obj[t] # NULL)
    THEN {obj[t]} ELSE {}

\* The objects that thread t owns.
Owns(t) == {u[2] : u \in held[t]} \cup InHand(t)

\* Threads that lock never own the same object: no interleaving of their calls
\* hands one out twice, though Free looks its object up without the lock.
OneOwner ==
    \A s, t \in Threads : s # t => Owns(s) \cap Owns(t) = {}

\* An owner's uid stays valid until it frees it: nobody else's Free disturbs it.
OwnedUidValid ==
    \A t \in Threads : \A u \in held[t] : magic[u[2]] = u[1] /\ u[2] \in allocated

\* Whoever walks the free list from its head stays within the objects L.
Holds(L) ==
    /\ free \in L \cup {NULL}
    /\ \A i \in L : link[i] \in L \cup {NULL}

\* What the free list leads to: the objects in every such set.
Listed == {i \in Index : \A L \in SUBSET Index : Holds(L) => i \in L}

\* Nothing is lost: between two calls every object has an owner or can be allocated.
NoneLost ==
    (\A t \in Threads : pc[t] = "idle")
        => Index \subseteq Listed \cup UNION {Owns(t) : t \in Threads}

A == INSTANCE Allocator WITH Handle <- Magic, busy <- allocated, handle <- magic

\* Together the threads are one allocator.
ImplementsAllocator == A!Spec
=============================================================================
