-------------------------- MODULE ClientPoolProofs --------------------------
(***************************************************************************)
(* Proofs about ClientPool, for every size of the pool: the server calls   *)
(* it as ObjectPool expects, so that all of ObjectPoolProofs holds of it,  *)
(* and the nested calls end as the one step that Game takes.               *)
(***************************************************************************)
EXTENDS ClientPool, ObjectPoolProofs, SequenceTheorems

\* What the server does to the pool is an allocation, a free or nothing.
LEMMA PoolStep == TypeOK /\ [ServerNext]_svars => [Next]_vars
  <1> SUFFICES ASSUME TypeOK, [ServerNext]_svars PROVE [Next]_vars
    OBVIOUS
  <1>1. CASE Accept
    BY <1>1 DEF Accept, Next
  <1>2. CASE Return
    <2>1. CASE Freeable(Uid(Top.client))
      <3> DEFINE u == Uid(Top.client)
      <3>1. u \in Magic \X Index
        BY <2>1 DEF Freeable, Names, Uid, TypeOK
      <3>2. Free(u)
        BY <1>2, <2>1 DEF Return
      <3> QED
        BY <3>1, <3>2 DEF Next
    <2> QED
      BY <1>2, <2>1 DEF Return
  <1>3. CASE Enter \/ Loop \/ SetPhase \/ RankingEnds \/ UNCHANGED svars
    BY <1>3 DEF Enter, Loop, SetPhase, RankingEnds, svars
  <1>4. ASSUME NEW i \in Index, Introduce(i) \/ Drop(i) PROVE UNCHANGED vars
    BY <1>4 DEF Introduce, Drop
  <1> QED
    BY <1>1, <1>2, <1>3, <1>4 DEF ServerNext, Call

LEMMA ServerIsPool == ServerSpec => Spec
  <1>1. ServerInit => Init
    BY DEF ServerInit
  <1>2. TypeOK /\ [ServerNext]_svars => TypeOK'
    BY PoolStep, TypeStep
  <1> QED
    BY <1>1, <1>2, PoolStep, TypeInit, PTL DEF ServerSpec, Spec

\* Whatever the nesting of the calls, the free list of the server's client pool
\* stays a list of exactly the free clients.
THEOREM ServerFreeList == ServerSpec => []FreeListSound
  BY ServerIsPool, FreeListInvariant, PTL

\* Count(), by which the server sees that it has been abandoned, is exact.
THEOREM ServerCount == ServerSpec => []CountExact
  BY ServerIsPool, CountInvariant, PTL

\* The uid of a client that has gone does not name its slot's next client, up to
\* the wrap of the magic.
THEOREM ServerMagic == ServerSpec => []MagicCounts
  BY ServerIsPool, MagicInvariant, PTL

\* The server's use of the pool is that of an allocator.
THEOREM ServerIsAllocator == ServerSpec => ImplementsAllocator
  BY ServerIsPool, PoolImplementsAllocator, PTL

-----------------------------------------------------------------------------
(* The clients out and the clients connected *)

Returned == TypeOK /\ allocated = connected

LEMMA ReturnedStep == Returned /\ [ServerNext]_svars => Returned'
  <1> SUFFICES ASSUME Returned, [ServerNext]_svars PROVE Returned'
    OBVIOUS
  <1>0. TypeOK'
    BY PoolStep, TypeStep DEF Returned
  <1>1. CASE Accept
    BY <1>0, <1>1 DEF Returned, Accept, Allocate
  <1>2. CASE Return
    <2> DEFINE i == Top.client
    <2>1. connected' = connected \ {i}
      BY <1>2 DEF Return, Unlinked
    <2>2. CASE Freeable(Uid(i))
      <3>1. allocated' = allocated \ {i}
        BY <1>2, <2>2 DEF Return, Free, Uid
      <3> QED
        BY <1>0, <2>1, <3>1 DEF Returned
    <2>3. CASE ~Freeable(Uid(i))
      <3>1. allocated' = allocated
        BY <1>2, <2>3 DEF Return, vars
      <3>2. i \notin allocated
        BY <2>3 DEF Freeable, Names, Uid, Returned, TypeOK
      <3> QED
        BY <1>0, <2>1, <3>1, <3>2 DEF Returned
    <2> QED
      BY <2>2, <2>3
  <1>3. CASE Enter \/ Loop \/ SetPhase \/ RankingEnds \/ UNCHANGED svars
    BY <1>0, <1>3 DEF Returned, Enter, Loop, SetPhase, RankingEnds, svars, vars, session
  <1>4. ASSUME NEW i \in Index, Introduce(i) \/ Drop(i) PROVE Returned'
    BY <1>0, <1>4 DEF Returned, Introduce, Drop, vars, session
  <1> QED
    BY <1>1, <1>2, <1>3, <1>4 DEF ServerNext, Call

LEMMA ReturnedAlways == ServerSpec => []Returned
  <1>1. ServerInit => Returned
    BY TypeInit DEF ServerInit, Init, Returned
  <1> QED
    BY <1>1, ReturnedStep, PTL DEF ServerSpec

\* For a pool of any size the objects that are out are the connected clients.
THEOREM SlotsReturnedAlways == ServerSpec => []SlotsReturned
  <1>1. Returned => SlotsReturned
    BY DEF Returned, SlotsReturned
  <1> QED
    BY <1>1, ReturnedAlways, PTL

-----------------------------------------------------------------------------
(* The stack *)

Calls == [at : {"enter", "free"}, client : Index]
Ends  == [at : {"free"}, client : Index]
Loops == [at : {"loop"}, client : Nat]

\* The shapes of the stack.  A loop runs only in Wait, so no call above it starts
\* another, and below it there is at most the call that started it.
Nested ==
    \/ stack = <<>>
    \/ \E c \in Calls : stack = <<c>>
    \/ /\ phase = "Wait"
       /\ \/ \E l \in Loops : stack = <<l>>
          \/ \E l \in Loops, f \in Ends : stack = <<l, f>>
          \/ \E c \in Calls, l \in Loops : stack = <<c, l>>
          \/ \E c \in Calls, l \in Loops, f \in Ends : stack = <<c, l, f>>

\* The clients that call f is still going to close.
Doomed(f) ==
    IF f.at = "loop" THEN {i \in Valid : i >= f.client}
    ELSE IF f.at = "enter" THEN Falls(f.client) ELSE {f.client}

Spared(i) == \A k \in 1..Len(stack) : i \notin Doomed(stack[k])

\* The clients left over are those that no call under way is going to close.
AsOne == left = {i \in connected : Spared(i)}

NestInv == Returned /\ Nested /\ AsOne

\* One element in front of a short sequence.
LEMMA OnOne == ASSUME NEW a, NEW b PROVE <<a>> \o <<b>> = <<a, b>>
  <1> DEFINE S == {a, b}
  <1>1. <<a>> \in Seq(S) /\ <<b>> \in Seq(S) /\ <<a, b>> \in Seq(S)
    OBVIOUS
  <1>2. /\ <<a>> \o <<b>> \in Seq(S)
        /\ Len(<<a>> \o <<b>>) = 2
        /\ (<<a>> \o <<b>>)[1] = a
        /\ (<<a>> \o <<b>>)[2] = b
    BY <1>1, ConcatProperties
  <1>3. \A i \in 1..2 : (<<a>> \o <<b>>)[i] = <<a, b>>[i]
    BY <1>2
  <1> QED
    BY <1>1, <1>2, <1>3, SeqEqual

LEMMA OnTwo == ASSUME NEW a, NEW b, NEW c PROVE <<a>> \o <<b, c>> = <<a, b, c>>
  <1> DEFINE S == {a, b, c}
  <1>1. <<a>> \in Seq(S) /\ <<b, c>> \in Seq(S) /\ <<a, b, c>> \in Seq(S)
    OBVIOUS
  <1>2. /\ <<a>> \o <<b, c>> \in Seq(S)
        /\ Len(<<a>> \o <<b, c>>) = 3
        /\ (<<a>> \o <<b, c>>)[1] = a
        /\ (<<a>> \o <<b, c>>)[2] = b
        /\ (<<a>> \o <<b, c>>)[3] = c
    BY <1>1, ConcatProperties
  <1>3. \A i \in 1..3 : (<<a>> \o <<b, c>>)[i] = <<a, b, c>>[i]
    BY <1>2
  <1> QED
    BY <1>1, <1>2, <1>3, SeqEqual

LEMMA FrameTypes ==
    /\ \A i \in Index : Frame("enter", i) \in Calls /\ Frame("free", i) \in Ends
    /\ \A i \in Nat : Frame("loop", i) \in Loops
    /\ Ends \subseteq Calls
    /\ Index \subseteq Nat
  BY PoolAssumption DEF Frame, Calls, Ends, Loops, Index

\* The calls under way nest three deep at most.
LEMMA NestedIsBounded == Nested => NestingBounded
  <1>1. \A a, b, c : Len(<<>>) = 0 /\ Len(<<a>>) = 1 /\ Len(<<a, b>>) = 2 /\ Len(<<a, b, c>>) = 3
    OBVIOUS
  <1>2. Nested => Len(stack) \in {0, 1, 2, 3}
    BY <1>1, Zenon DEF Nested
  <1>3. \A k \in {0, 1, 2, 3} : k <= 3
    BY SMT
  <1> QED
    BY <1>2, <1>3, Zenon DEF NestingBounded

-----------------------------------------------------------------------------
(* The steps *)

\* OnDisconnected: alone on the stack it may end the game, above a loop it cannot.
LEMMA EnterNested == NestInv /\ Enter => Nested' /\ AsOne'
  <1> SUFFICES ASSUME NestInv, Enter PROVE Nested' /\ AsOne'
    OBVIOUS
  <1> DEFINE i == Top.client
             ends == i \in Valid /\ Players \ {i} = {} /\ phase # "Wait"
  <1>0. /\ connected \subseteq Index /\ connected' = connected /\ left' = left
        /\ Valid' = Valid /\ Players' = Players
    BY DEF NestInv, Returned, TypeOK, Enter, session, Valid, Players
  <1>1. ASSUME NEW c \in Calls, stack = <<c>> PROVE Nested' /\ AsOne'
    <2>1. Top = c /\ Tail(stack) = <<>> /\ c.at = "enter" /\ i \in Index /\ c.client = i
      BY <1>1 DEF Top, Enter, Calls
    <2> HIDE DEF i
    <2>2. Frame("free", i) \in Ends /\ Frame("loop", 0) \in Loops
      BY <2>1, FrameTypes
    <2>3. left = connected \ Falls(i)
      <3>1. Doomed(c) = Falls(i)
        BY <2>1 DEF Doomed
      <3>2. Len(stack) = 1 /\ stack[1] = c
        BY <1>1
      <3> QED
        BY <3>1, <3>2 DEF NestInv, AsOne, Spared
    <2>4. CASE ends
      <3>1. stack' = <<Frame("loop", 0), Frame("free", i)>> /\ phase' = "Wait"
        <4>1. stack' = <<Frame("loop", 0)>> \o (<<Frame("free", i)>> \o <<>>)
          BY <2>1, <2>4 DEF Enter, i
        <4>2. <<Frame("free", i)>> \o <<>> = <<Frame("free", i)>>
          OBVIOUS
        <4> QED
          BY <4>1, <4>2, <2>1, <2>4, OnOne DEF Enter, i
      <3>2. Nested'
        BY <3>1, <2>2 DEF Nested
      <3>3. Falls(i) = {i} \cup Valid
        BY <2>4 DEF Falls
      <3>4. Len(stack') = 2 /\ stack'[1] = Frame("loop", 0) /\ stack'[2] = Frame("free", i)
        BY <3>1
      <3>5. /\ (Doomed(stack[1]))' = {j \in Valid : j >= 0}
            /\ (Doomed(stack[2]))' = {i}
        BY <3>4, <1>0 DEF Doomed, Frame
      <3>6. {j \in Valid : j >= 0} = Valid
        <4>1. \A j \in Valid : j \in Nat
          BY <1>0, FrameTypes DEF Valid
        <4> QED
          BY <4>1, SMT
      <3>7. \A j : Spared(j)' <=> j \notin Falls(i)
        BY <3>3, <3>4, <3>5, <3>6 DEF Spared
      <3> QED
        BY <3>2, <3>7, <2>3, <1>0 DEF AsOne
    <2>5. CASE ~ends
      <3>1. stack' = <<Frame("free", i)>> /\ phase' = phase
        <4>1. <<Frame("free", i)>> \o <<>> = <<Frame("free", i)>>
          OBVIOUS
        <4> QED
          BY <4>1, <2>1, <2>5 DEF Enter, i
      <3>2. Nested'
        BY <3>1, <2>2, FrameTypes DEF Nested
      <3>3. Falls(i) = {i}
        BY <2>5 DEF Falls
      <3>4. Len(stack') = 1 /\ stack'[1] = Frame("free", i)
        BY <3>1
      <3>5. (Doomed(stack[1]))' = {i}
        BY <3>4 DEF Doomed, Frame
      <3>6. \A j : Spared(j)' <=> j # i
        BY <3>4, <3>5 DEF Spared
      <3> QED
        BY <3>2, <3>3, <3>6, <2>3, <1>0 DEF AsOne
    <2> QED
      BY <2>4, <2>5
  <1>2. ASSUME NEW c \in Calls, NEW l \in Loops, phase = "Wait", stack = <<c, l>>
        PROVE  Nested' /\ AsOne'
    <2>1. Top = c /\ Tail(stack) = <<l>> /\ c.at = "enter" /\ i \in Index /\ c.client = i
      BY <1>2 DEF Top, Enter, Calls
    <2>2. stack' = <<Frame("free", i), l>> /\ phase' = phase
      BY <1>2, <2>1, OnOne DEF Enter
    <2> HIDE DEF i
    <2>3. Nested'
      BY <1>2, <2>1, <2>2, FrameTypes DEF Nested
    <2>4. Doomed(c) = {i} /\ Doomed(l)' = Doomed(l)
      <3>1. Falls(i) = {i}
        BY <1>2 DEF Falls
      <3> QED
        BY <3>1, <1>0, <2>1 DEF Doomed, Loops
    <2>5. /\ Len(stack) = 2 /\ stack[1] = c /\ stack[2] = l
          /\ Len(stack') = 2 /\ stack'[1] = Frame("free", i) /\ stack'[2] = l
      BY <1>2, <2>2
    <2>6. (Doomed(stack[1]))' = {i} /\ (Doomed(stack[2]))' = Doomed(l)
      BY <2>4, <2>5 DEF Doomed, Frame
    <2>7. \A j : Spared(j)' <=> Spared(j)
      BY <2>4, <2>5, <2>6 DEF Spared
    <2> QED
      BY <2>3, <2>7, <1>0 DEF NestInv, AsOne
  <1>3. ASSUME NEW c \in Calls, NEW l \in Loops, NEW f \in Ends,
               phase = "Wait", stack = <<c, l, f>>
        PROVE  Nested' /\ AsOne'
    <2>1. Top = c /\ Tail(stack) = <<l, f>> /\ c.at = "enter" /\ i \in Index /\ c.client = i
      BY <1>3 DEF Top, Enter, Calls
    <2>2. stack' = <<Frame("free", i), l, f>> /\ phase' = phase
      BY <1>3, <2>1, OnTwo DEF Enter
    <2> HIDE DEF i
    <2>3. Nested'
      BY <1>3, <2>1, <2>2, FrameTypes DEF Nested
    <2>4. Doomed(c) = {i} /\ Doomed(l)' = Doomed(l) /\ Doomed(f)' = Doomed(f)
      <3>1. Falls(i) = {i}
        BY <1>3 DEF Falls
      <3> QED
        BY <3>1, <1>0, <2>1 DEF Doomed, Loops, Ends
    <2>5. /\ Len(stack) = 3 /\ stack[1] = c /\ stack[2] = l /\ stack[3] = f
          /\ Len(stack') = 3 /\ stack'[1] = Frame("free", i) /\ stack'[2] = l /\ stack'[3] = f
      BY <1>3, <2>2
    <2>6. /\ (Doomed(stack[1]))' = {i}
          /\ (Doomed(stack[2]))' = Doomed(l)
          /\ (Doomed(stack[3]))' = Doomed(f)
      BY <2>4, <2>5 DEF Doomed, Frame
    <2>7. \A j : Spared(j)' <=> Spared(j)
      BY <2>4, <2>5, <2>6 DEF Spared
    <2> QED
      BY <2>3, <2>7, <1>0 DEF NestInv, AsOne
  <1>4. ASSUME NEW l \in Loops, Top = l PROVE FALSE
    BY <1>4 DEF Enter, Loops
  <1>5. \A l : Head(<<l>>) = l /\ \A f : Head(<<l, f>>) = l
    OBVIOUS
  <1> QED
    BY <1>1, <1>2, <1>3, <1>4, <1>5 DEF NestInv, Nested, Top, Enter

\* The return of OnDisconnected closes the client that it was called for.
LEMMA ReturnNested == NestInv /\ Return => Nested' /\ AsOne'
  <1> SUFFICES ASSUME NestInv, Return PROVE Nested' /\ AsOne'
    OBVIOUS
  <1> DEFINE i == Top.client
  <1>0. /\ connected' = connected \ {i} /\ left' = left /\ phase' = phase
        /\ Valid' = Valid \ {i} /\ stack' = Tail(stack)
    BY DEF Return, Unlinked, Valid
  <1>1. ASSUME NEW c \in Calls, Top = c PROVE Doomed(c) = {i}
    BY <1>1 DEF Return, Doomed
  <1>2. ASSUME NEW l \in Loops PROVE Doomed(l)' = Doomed(l) \ {i}
    BY <1>0 DEF Doomed, Loops
  <1>3. ASSUME NEW f \in Ends PROVE Doomed(f)' = Doomed(f)
    BY DEF Doomed, Ends
  <1> HIDE DEF i
  <1>4. ASSUME NEW c \in Calls, stack = <<c>> PROVE Nested' /\ AsOne'
    <2>1. Top = c /\ stack' = <<>> /\ Len(stack) = 1 /\ stack[1] = c /\ Len(stack') = 0
      BY <1>0, <1>4 DEF Top
    <2>2. Doomed(c) = {i}
      BY <1>1, <2>1
    <2>3. \A j : (Spared(j) <=> j # i) /\ Spared(j)'
      BY <2>1, <2>2 DEF Spared
    <2> QED
      BY <1>0, <2>1, <2>3 DEF NestInv, AsOne, Nested
  <1>5. ASSUME NEW c \in Calls, NEW l \in Loops, phase = "Wait", stack = <<c, l>>
        PROVE  Nested' /\ AsOne'
    <2>1. /\ Top = c /\ stack' = <<l>>
          /\ Len(stack) = 2 /\ stack[1] = c /\ stack[2] = l
          /\ Len(stack') = 1 /\ stack'[1] = l
      BY <1>0, <1>5 DEF Top
    <2>2. Doomed(c) = {i} /\ (Doomed(stack[1]))' = Doomed(l) \ {i}
      BY <1>1, <1>2, <2>1
    <2>3. \A j : j # i => (Spared(j) <=> Spared(j)')
      BY <2>1, <2>2 DEF Spared
    <2>4. ~Spared(i)
      BY <2>1, <2>2 DEF Spared
    <2>5. Nested'
      BY <1>0, <1>5, <2>1 DEF Nested
    <2> QED
      BY <1>0, <2>3, <2>4, <2>5 DEF NestInv, AsOne
  <1>6. ASSUME NEW c \in Calls, NEW l \in Loops, NEW f \in Ends,
               phase = "Wait", stack = <<c, l, f>>
        PROVE  Nested' /\ AsOne'
    <2>1. /\ Top = c /\ stack' = <<l, f>>
          /\ Len(stack) = 3 /\ stack[1] = c /\ stack[2] = l /\ stack[3] = f
          /\ Len(stack') = 2 /\ stack'[1] = l /\ stack'[2] = f
      BY <1>0, <1>6 DEF Top
    <2>2. /\ Doomed(c) = {i}
          /\ (Doomed(stack[1]))' = Doomed(l) \ {i}
          /\ (Doomed(stack[2]))' = Doomed(f)
      BY <1>1, <1>2, <1>3, <2>1
    <2>3. \A j : j # i => (Spared(j) <=> Spared(j)')
      BY <2>1, <2>2 DEF Spared
    <2>4. ~Spared(i)
      BY <2>1, <2>2 DEF Spared
    <2>5. Nested'
      BY <1>0, <1>6, <2>1 DEF Nested
    <2> QED
      BY <1>0, <2>3, <2>4, <2>5 DEF NestInv, AsOne
  <1>7. ASSUME NEW l \in Loops, Top = l PROVE FALSE
    BY <1>7 DEF Return, Loops
  <1>8. \A l : Head(<<l>>) = l /\ \A f : Head(<<l, f>>) = l
    OBVIOUS
  <1> QED
    BY <1>4, <1>5, <1>6, <1>7, <1>8 DEF NestInv, Nested, Top, Return

\* The loop of EndGame: whatever it comes to, the clients that are going to be
\* closed remain the same.
LEMMA LoopNested == NestInv /\ Loop => Nested' /\ AsOne'
  <1> SUFFICES ASSUME NestInv, Loop PROVE Nested' /\ AsOne'
    OBVIOUS
  <1>i. PICK i : i = Top.client
    OBVIOUS
  <1> DEFINE n == Frame("loop", i + 1)
  <1>0. /\ connected \subseteq Index /\ connected' = connected /\ left' = left
        /\ phase' = phase /\ Valid' = Valid /\ Players' = Players
    BY DEF NestInv, Returned, TypeOK, Loop, session, Valid, Players
  <1>1. ASSUME NEW l \in Loops, Top = l
        PROVE  /\ i = l.client /\ i \in Nat /\ n \in Loops
               /\ Doomed(l) = {j \in Valid : j >= i}
               /\ Doomed(n)' = {j \in Valid : j >= i + 1}
    <2>1. i = l.client /\ i \in Nat /\ i + 1 \in Nat /\ l.at = "loop"
      BY <1>1, <1>i DEF Loops
    <2>2. n \in Loops /\ n.at = "loop" /\ n.client = i + 1
      BY <2>1, FrameTypes DEF Frame
    <2> QED
      BY <2>1, <2>2, <1>0 DEF Doomed
  <1>2. ASSUME NEW f \in Ends PROVE Doomed(f)' = Doomed(f) /\ Doomed(f) = {f.client}
    BY DEF Doomed, Ends
  <1>3. \A j \in Valid : j \in 0..(Size - 1)
    BY <1>0 DEF Valid, Index
  <1>4. ASSUME NEW l \in Loops, Top = l, i \notin Index PROVE Doomed(l) = {}
    BY <1>1, <1>3, <1>4, PoolAssumption, SMT DEF Index
  <1>5. ASSUME NEW l \in Loops, Top = l, i \notin Valid PROVE Doomed(n)' = Doomed(l)
    <2>1. \A j \in Valid : j >= i <=> j >= i + 1
      BY <1>1, <1>3, <1>5, SMT
    <2> QED
      BY <1>1, <1>5, <2>1
  <1>6. ASSUME NEW l \in Loops, Top = l, i \in Valid, phase = "Wait"
        PROVE  /\ Doomed(l) = {i} \cup Doomed(n)'
               /\ Frame("enter", i) \in Calls
               /\ Doomed(Frame("enter", i))' = {i}
    <2>1. \A j \in Valid : j >= i <=> (j = i \/ j >= i + 1)
      BY <1>1, <1>3, <1>6, SMT
    <2>2. Doomed(l) = {i} \cup Doomed(n)'
      BY <1>1, <1>6, <2>1
    <2>3. i \in Index
      BY <1>0, <1>6 DEF Valid
    <2>4. Falls(i)' = {i}
      BY <1>0, <1>6 DEF Falls
    <2> QED
      BY <2>2, <2>3, <2>4, FrameTypes, <1>0 DEF Doomed, Frame, Falls
  <1>7. \/ i \notin Index /\ stack' = Tail(stack)
        \/ i \in Valid /\ stack' = <<Frame("enter", i)>> \o (<<n>> \o Tail(stack))
        \/ /\ i \in Index /\ (i \notin Valid \/ Closing(i))
           /\ stack' = <<n>> \o Tail(stack)
    BY <1>i DEF Loop, NextInPool
  <1> HIDE DEF n
  <1>8. ASSUME NEW l \in Loops, stack = <<l>>, phase = "Wait" PROVE Nested' /\ AsOne'
    <2>1. Top = l /\ Tail(stack) = <<>> /\ Len(stack) = 1 /\ stack[1] = l
      BY <1>8 DEF Top
    <2>2. CASE i \notin Index /\ stack' = Tail(stack)
      <3>1. stack' = <<>> /\ Len(stack') = 0 /\ Doomed(l) = {}
        BY <1>4, <2>1, <2>2
      <3>2. \A j : Spared(j) /\ Spared(j)'
        BY <2>1, <3>1 DEF Spared
      <3> QED
        BY <3>1, <3>2, <1>0 DEF NestInv, AsOne, Nested
    <2>3. CASE i \in Valid /\ stack' = <<Frame("enter", i)>> \o (<<n>> \o Tail(stack))
      <3>1. stack' = <<Frame("enter", i), n>>
        <4>1. <<n>> \o <<>> = <<n>>
          OBVIOUS
        <4> QED
          BY <4>1, <2>1, <2>3, OnOne
      <3>2. Len(stack') = 2 /\ stack'[1] = Frame("enter", i) /\ stack'[2] = n
        BY <3>1
      <3>3. (Doomed(stack[1]))' = {i} /\ (Doomed(stack[2]))' = Doomed(n)'
        BY <1>6, <1>8, <2>1, <2>3, <3>2
      <3>4. \A j : Spared(j) <=> Spared(j)'
        BY <1>6, <1>8, <2>1, <2>3, <3>2, <3>3 DEF Spared
      <3>5. Nested'
        BY <1>0, <1>1, <1>6, <1>8, <2>1, <2>3, <3>1 DEF Nested
      <3> QED
        BY <3>4, <3>5, <1>0 DEF NestInv, AsOne
    <2>4. CASE /\ i \in Index /\ (i \notin Valid \/ Closing(i))
               /\ stack' = <<n>> \o Tail(stack)
      <3>1. ~Closing(i)
        BY <2>1 DEF Closing, Loops
      <3>2. <<n>> \o <<>> = <<n>>
        OBVIOUS
      <3>3. stack' = <<n>> /\ Len(stack') = 1 /\ stack'[1] = n
        <4>1. stack' = <<n>>
          BY <2>1, <2>4, <3>2, Zenon
        <4> QED
          BY <4>1
      <3>4. (Doomed(stack[1]))' = Doomed(l)
        BY <1>5, <2>1, <2>4, <3>1, <3>3
      <3>5. \A j : Spared(j) <=> Spared(j)'
        BY <2>1, <3>3, <3>4 DEF Spared
      <3>6. Nested'
        BY <1>0, <1>1, <1>8, <2>1, <3>3 DEF Nested
      <3> QED
        BY <3>5, <3>6, <1>0 DEF NestInv, AsOne
    <2> QED
      BY <1>7, <2>2, <2>3, <2>4
  <1>9. ASSUME NEW l \in Loops, NEW f \in Ends, stack = <<l, f>>, phase = "Wait"
        PROVE  Nested' /\ AsOne'
    <2>1. Top = l /\ Tail(stack) = <<f>> /\ Len(stack) = 2 /\ stack[1] = l /\ stack[2] = f
      BY <1>9 DEF Top
    <2>2. CASE i \notin Index /\ stack' = Tail(stack)
      <3>1. stack' = <<f>> /\ Len(stack') = 1 /\ stack'[1] = f /\ Doomed(l) = {}
        BY <1>4, <2>1, <2>2
      <3>2. (Doomed(stack[1]))' = Doomed(f)
        BY <1>2, <3>1
      <3>3. \A j : Spared(j) <=> Spared(j)'
        BY <2>1, <3>1, <3>2 DEF Spared
      <3>4. Nested'
        BY <3>1, FrameTypes DEF Nested
      <3> QED
        BY <3>3, <3>4, <1>0 DEF NestInv, AsOne
    <2>3. CASE i \in Valid /\ stack' = <<Frame("enter", i)>> \o (<<n>> \o Tail(stack))
      <3>1. stack' = <<Frame("enter", i), n, f>>
        BY <2>1, <2>3, OnOne, OnTwo
      <3>2. /\ Len(stack') = 3
            /\ stack'[1] = Frame("enter", i) /\ stack'[2] = n /\ stack'[3] = f
        BY <3>1
      <3>3. /\ (Doomed(stack[1]))' = {i}
            /\ (Doomed(stack[2]))' = Doomed(n)'
            /\ (Doomed(stack[3]))' = Doomed(f)
        BY <1>2, <1>6, <1>9, <2>1, <2>3, <3>2
      <3>4. \A j : Spared(j) <=> Spared(j)'
        BY <1>6, <1>9, <2>1, <2>3, <3>2, <3>3 DEF Spared
      <3>5. Nested'
        BY <1>0, <1>1, <1>6, <1>9, <2>1, <2>3, <3>1 DEF Nested
      <3> QED
        BY <3>4, <3>5, <1>0 DEF NestInv, AsOne
    <2>4. CASE /\ i \in Index /\ (i \notin Valid \/ Closing(i))
               /\ stack' = <<n>> \o Tail(stack)
      <3>1. stack' = <<n, f>>
        BY <2>1, <2>4, OnOne
      <3>2. Len(stack') = 2 /\ stack'[1] = n /\ stack'[2] = f
        BY <3>1
      <3>3. (Doomed(stack[1]))' = Doomed(n)' /\ (Doomed(stack[2]))' = Doomed(f)
        BY <1>2, <3>2
      <3>4. CASE i \notin Valid
        BY <1>5, <2>1, <3>2, <3>3, <3>4, <1>0, <1>1, <1>9, <3>1
           DEF Spared, NestInv, AsOne, Nested
      <3>5. CASE i \in Valid /\ Closing(i)
        <4>1. f.client = i
          BY <2>1, <3>5 DEF Closing, Loops
        <4>2. i \in Doomed(f) /\ Doomed(l) = {i} \cup Doomed(n)'
          BY <4>1, <1>2, <1>6, <1>9, <2>1, <3>5
        <4>3. \A j : Spared(j) <=> Spared(j)'
          BY <4>2, <2>1, <3>2, <3>3 DEF Spared
        <4>4. Nested'
          BY <1>0, <1>1, <1>9, <2>1, <3>1 DEF Nested
        <4> QED
          BY <4>3, <4>4, <1>0 DEF NestInv, AsOne
      <3> QED
        BY <2>4, <3>4, <3>5
    <2> QED
      BY <1>7, <2>2, <2>3, <2>4
  <1>10. ASSUME NEW c \in Calls, Top = c PROVE FALSE
    BY <1>10 DEF Loop, Calls
  <1>11. \A c : /\ Head(<<c>>) = c
                /\ \A l : Head(<<c, l>>) = c
                /\ \A l, f : Head(<<c, l, f>>) = c
    OBVIOUS
  <1> QED
    BY <1>8, <1>9, <1>10, <1>11 DEF NestInv, Nested, Top, Loop

\* Between the calls nobody is spared or doomed.
LEMMA Idle == ASSUME stack = <<>> PROVE Nested /\ \A i : Spared(i)
  <1>1. Len(stack) = 0
    OBVIOUS
  <1> QED
    BY <1>1 DEF Nested, Spared

LEMMA EventNested ==
    ASSUME NestInv, stack = <<>>,
           \/ Accept \/ SetPhase \/ RankingEnds
           \/ \E i \in Index : Introduce(i) \/ Drop(i)
    PROVE  Nested' /\ AsOne'
  <1>0. left = connected /\ connected \subseteq Index
    BY Idle DEF NestInv, AsOne, Returned, TypeOK
  <1>1. CASE Accept \/ SetPhase \/ \E i \in Index : Introduce(i)
    <2>1. stack' = <<>> /\ Len(stack') = 0 /\ left' = connected'
      BY <1>0, <1>1 DEF Accept, SetPhase, Introduce, session
    <2> QED
      BY <2>1 DEF Nested, AsOne, Spared
  <1>2. CASE RankingEnds
    <2>1. /\ stack' = <<Frame("loop", 0)>> /\ phase' = "Wait" /\ connected' = connected
          /\ left' = connected \ Valid /\ Valid' = Valid
      BY <1>0, <1>2 DEF RankingEnds, session, Valid
    <2>2. Len(stack') = 1 /\ stack'[1] = Frame("loop", 0)
      BY <2>1
    <2>3. \A j \in Valid : j \in Nat
      BY <1>0, FrameTypes DEF Valid
    <2>4. {j \in Valid : j >= 0} = Valid
      BY <2>3, SMT
    <2>5. (Doomed(stack[1]))' = Valid
      BY <2>1, <2>2, <2>4 DEF Doomed, Frame
    <2> QED
      BY <2>1, <2>2, <2>5, FrameTypes DEF Nested, AsOne, Spared
  <1>3. ASSUME NEW i \in Index, Drop(i) PROVE Nested' /\ AsOne'
    <2>1. /\ stack' = <<Frame("enter", i)>> /\ connected' = connected
          /\ left' = connected \ Falls(i) /\ Falls(i)' = Falls(i)
      BY <1>0, <1>3 DEF Drop, session, Falls, Valid, Players
    <2>2. Len(stack') = 1 /\ stack'[1] = Frame("enter", i)
      BY <2>1
    <2>3. (Doomed(stack[1]))' = Falls(i)
      BY <2>1, <2>2 DEF Doomed, Frame
    <2> QED
      BY <2>1, <2>2, <2>3, FrameTypes DEF Nested, AsOne, Spared
  <1> QED
    BY <1>1, <1>2, <1>3

LEMMA NestStep == NestInv /\ [ServerNext]_svars => NestInv'
  <1> SUFFICES ASSUME NestInv, [ServerNext]_svars PROVE NestInv'
    OBVIOUS
  <1>1. Returned'
    BY ReturnedStep DEF NestInv
  <1>2. CASE UNCHANGED svars
    BY <1>1, <1>2
       DEF NestInv, svars, session, Nested, AsOne, Spared, Doomed, Falls, Valid, Players
  <1>3. CASE Call
    BY <1>1, <1>3, EnterNested, ReturnNested, LoopNested DEF Call, NestInv
  <1>4. CASE \/ Accept \/ SetPhase \/ RankingEnds
             \/ \E i \in Index : Introduce(i) \/ Drop(i)
    <2>1. stack = <<>>
      BY <1>4 DEF Accept, SetPhase, RankingEnds, Introduce, Drop
    <2> QED
      BY <1>1, <1>4, <2>1, EventNested DEF NestInv
  <1> QED
    BY <1>2, <1>3, <1>4 DEF ServerNext

LEMMA NestAlways == ServerSpec => []NestInv
  <1>1. ServerInit => NestInv
    <2> SUFFICES ASSUME ServerInit PROVE NestInv
      OBVIOUS
    <2>1. Returned
      BY TypeInit DEF ServerInit, Init, Returned
    <2> QED
      BY <2>1, Idle DEF ServerInit, NestInv, AsOne
  <1> QED
    BY <1>1, NestStep, PTL DEF ServerSpec

\* However the nested calls run, with any number of clients and whether or not
\* a connection that is being closed calls OnDisconnected again, those are closed
\* that Game closes in one step.
THEOREM CascadeIsOneStep == ServerSpec => []CascadeAsOne
  <1>1. NestInv => CascadeAsOne
    BY Idle DEF NestInv, AsOne, CascadeAsOne
  <1> QED
    BY <1>1, NestAlways, PTL

\* The nesting does not grow with the number of clients.
THEOREM NestingIsBounded == ServerSpec => []NestingBounded
  <1>1. NestInv => NestingBounded
    BY NestedIsBounded DEF NestInv
  <1> QED
    BY <1>1, NestAlways, PTL

=============================================================================
