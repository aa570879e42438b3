------------------------- MODULE UdpSessionsProofs -------------------------
(* Proofs about UdpSessions, for any peers, pool and time steps. *)
EXTENDS UdpSessions, FiniteSetTheorems, SequenceTheorems, TLAPS

\* What the proofs need to know of the types.
Types ==
    /\ map \in [Guids -> Slots \cup {NONE}]
    /\ free \in Seq(Slots)
    /\ guid \in [Slots -> Guids \cup {NONE}]
    /\ tcp \subseteq Slots /\ sockets \subseteq Slots /\ sole \subseteq Slots

\* Types, FreeOnce and what both SoleRouted and its proof rest on: a slot in use by a
\* socket is in tcp, and one in tcp is in use.
SessionInv ==
    /\ Types
    /\ FreeOnce
    /\ tcp \subseteq Open
    /\ SoleRouted

-----------------------------------------------------------------------------
(* The free list *)

\* Adding slots in use to the free list, in any order, keeps every slot in it once and
\* takes no other slot out of use.
LEMMA FreeMore ==
    ASSUME free \in Seq(Slots), FreeOnce, NEW S \in SUBSET Slots,
           NEW q \in SetToSeqs(Freed(S)), free' = q \o free
    PROVE  /\ free' \in Seq(Slots)
           /\ FreeOnce'
           /\ Open \ S \subseteq Open'
           /\ Open' \subseteq Open
  <1> DEFINE n == Cardinality(Freed(S))
  <1>1. Freed(S) \subseteq Slots /\ Freed(S) \cap ToSet(free) = {}
    BY DEF Freed, Open
  <1>2. n \in Nat
    <2>1. IsFiniteSet(Slots)
      BY FS_Interval, UdpAssumption DEF Slots
    <2> QED
      BY <1>1, <2>1, FS_Subset, FS_CardinalityType
  <1>3. /\ q \in [1..n -> Freed(S)]
        /\ \A i, j \in 1..n : i # j => q[i] # q[j]
    BY DEF SetToSeqs
  <1>4. q \in Seq(Slots) /\ Len(q) = n
    BY <1>1, <1>2, <1>3
  <1> HIDE DEF n
  <1>5. /\ free' \in Seq(Slots)
        /\ Len(free') = n + Len(free)
        /\ \A i \in 1..n : free'[i] = q[i]
        /\ \A i \in (n + 1)..(n + Len(free)) : free'[i] = free[i - n]
    <2>1. \A s, t \in Seq(Slots) :
              /\ s \o t \in Seq(Slots)
              /\ Len(s \o t) = Len(s) + Len(t)
              /\ \A i \in 1..(Len(s) + Len(t)) :
                    (s \o t)[i] = IF i <= Len(s) THEN s[i] ELSE t[i - Len(s)]
      BY ConcatProperties
    <2>2. Len(free) \in Nat
      OBVIOUS
    <2>3. /\ \A i \in 1..n : i \in 1..(n + Len(free)) /\ i <= n
          /\ \A i \in (n + 1)..(n + Len(free)) : i \in 1..(n + Len(free)) /\ ~(i <= n)
      BY <2>2, <1>2
    <2> QED
      BY <2>1, <2>3, <1>4
  <1>6. Len(free) \in Nat /\ DOMAIN free = 1..Len(free) /\ DOMAIN free' = 1..(n + Len(free))
    BY <1>5
  <1>7. ASSUME NEW i \in DOMAIN free'
        PROVE  \/ i \in 1..n /\ free'[i] = q[i] /\ q[i] \in Freed(S)
               \/ i - n \in DOMAIN free /\ free'[i] = free[i - n] /\ free[i - n] \in ToSet(free)
    <2>1. i \in 1..n \/ (i \in (n + 1)..(n + Len(free)) /\ i - n \in 1..Len(free))
      BY <1>2, <1>6
    <2> QED
      BY <2>1, <1>3, <1>5, <1>6 DEF ToSet
  <1>8. FreeOnce'
    <2> SUFFICES ASSUME NEW i \in DOMAIN free', NEW j \in DOMAIN free', free'[i] = free'[j]
                 PROVE  i = j
      BY DEF FreeOnce, IsInjective
    <2>1. i \in Int /\ j \in Int
      BY <1>6
    <2>2. CASE i \in 1..n /\ j \in 1..n
      BY <2>2, <1>3, <1>5
    <2>3. CASE i - n \in DOMAIN free /\ j - n \in DOMAIN free
               /\ free'[i] = free[i - n] /\ free'[j] = free[j - n]
      <3>1. i - n = j - n
        BY <2>3 DEF FreeOnce, IsInjective
      <3> QED
        BY <3>1, <2>1, <1>2
    <2> QED
      BY <2>2, <2>3, <1>1, <1>7
  <1>9. ToSet(free') \subseteq ToSet(free) \cup Freed(S)
    BY <1>7 DEF ToSet
  <1>10. ToSet(free) \subseteq ToSet(free')
    <2> SUFFICES ASSUME NEW i \in DOMAIN free PROVE free[i] \in ToSet(free')
      BY DEF ToSet
    <2>1. i + n \in DOMAIN free' /\ i + n \in (n + 1)..(n + Len(free)) /\ (i + n) - n = i
      BY <1>2, <1>6
    <2> QED
      BY <2>1, <1>5 DEF ToSet
  <1>11. Freed(S) \subseteq S
    BY DEF Freed
  <1> QED
    BY <1>5, <1>8, <1>9, <1>10, <1>11 DEF Open

\* Taking the head of the free list puts that slot, and no other, in use.
LEMMA FreeLess ==
    ASSUME free \in Seq(Slots), FreeOnce, free # <<>>, free' = Tail(free)
    PROVE  /\ free' \in Seq(Slots)
           /\ FreeOnce'
           /\ Head(free) \in Slots \ Open
           /\ Open' = Open \cup {Head(free)}
  <1>1. /\ Head(free) = free[1] /\ free' \in Seq(Slots)
        /\ Len(free) \in Nat \ {0} /\ Len(free') = Len(free) - 1
        /\ \A i \in 1..Len(free') : free'[i] = free[i + 1]
        /\ DOMAIN free = 1..Len(free) /\ DOMAIN free' = 1..Len(free')
    BY HeadTailProperties, EmptySeq
  <1>2. FreeOnce'
    <2> SUFFICES ASSUME NEW i \in DOMAIN free', NEW j \in DOMAIN free', free'[i] = free'[j]
                 PROVE  i = j
      BY DEF FreeOnce, IsInjective
    <2>1. i \in Int /\ j \in Int /\ i + 1 \in DOMAIN free /\ j + 1 \in DOMAIN free
      BY <1>1
    <2>2. free[i + 1] = free[j + 1]
      BY <1>1
    <2>3. i + 1 = j + 1
      BY <2>1, <2>2 DEF FreeOnce, IsInjective
    <2> QED
      BY <2>1, <2>3
  <1>3. \A s : s \in ToSet(free) <=> s = free[1] \/ s \in ToSet(free')
    <2>1. \A i \in DOMAIN free : i = 1 \/ (i - 1 \in DOMAIN free' /\ free'[i - 1] = free[i])
      BY <1>1
    <2>2. \A i \in DOMAIN free' : i + 1 \in DOMAIN free /\ free'[i] = free[i + 1]
      BY <1>1
    <2>3. 1 \in DOMAIN free
      BY <1>1
    <2>4. ASSUME NEW i \in DOMAIN free PROVE free[i] = free[1] \/ free[i] \in ToSet(free')
      BY <2>1 DEF ToSet
    <2>5. free[1] \in ToSet(free) /\ ToSet(free') \subseteq ToSet(free)
      BY <2>2, <2>3 DEF ToSet
    <2> QED
      BY <2>4, <2>5 DEF ToSet
  <1>4. free[1] \notin ToSet(free')
    <2> SUFFICES ASSUME NEW i \in DOMAIN free', free'[i] = free[1] PROVE FALSE
      BY DEF ToSet
    <2>1. i + 1 \in DOMAIN free /\ 1 \in DOMAIN free /\ free[i + 1] = free[1] /\ i + 1 # 1
      BY <1>1
    <2> QED
      BY <2>1 DEF FreeOnce, IsInjective
  <1>5. free[1] \in Slots /\ free[1] \in ToSet(free)
    BY <1>1 DEF ToSet
  <1> QED
    BY <1>1, <1>2, <1>3, <1>4, <1>5 DEF Open

-----------------------------------------------------------------------------
(* The steps *)

\* What is left when the slots S are disconnected, if entries disappear only together
\* with the clients they name, and sockets too.
LEMMA DisconnectKeeps ==
    ASSUME SessionInv, NEW S \in SUBSET Slots, OnDisconnected(S), UNCHANGED guid,
           map' \in [Guids -> Slots \cup {NONE}],
           sockets' \subseteq sockets, sockets \ sockets' \subseteq S,
           \A g \in Guids : map'[g] = map[g] \/ (map'[g] = NONE /\ map[g] \in S)
    PROVE  SessionInv'
  <1> USE DEF SessionInv, Types
  <1>1. PICK q \in SetToSeqs(Freed(S)) : free' = q \o free
    BY DEF OnDisconnected
  <1>2. /\ free' \in Seq(Slots) /\ FreeOnce'
        /\ Open \ S \subseteq Open' /\ Open' \subseteq Open
    BY <1>1, FreeMore
  <1>3. tcp' = tcp \ S /\ sole' = sole \ S
    BY DEF OnDisconnected
  <1>4. Types' /\ (tcp \subseteq Open)'
    BY <1>2, <1>3
  <1>5. ASSUME NEW s \in sole'
        PROVE  /\ s \in Open'
               /\ s \in tcp' <=> s \in tcp
               /\ s \in sockets' <=> s \in sockets
               /\ Entries(s)' = Entries(s)
    <2>1. s \in sole /\ s \notin S /\ s \in Open /\ s \in Slots
      BY <1>3 DEF SoleRouted
    <2>2. s # NONE
      BY <2>1, UdpAssumption
    <2> QED
      BY <2>1, <2>2, <1>2, <1>3 DEF Entries
  <1>6. SoleRouted'
    BY <1>3, <1>5 DEF SoleRouted
  <1> QED
    BY <1>2, <1>4, <1>6

LEMMA StepSession == SessionInv /\ [Next]_vars => SessionInv'
  <1> SUFFICES ASSUME SessionInv, [Next]_vars PROVE SessionInv'
    OBVIOUS
  <1> USE DEF SessionInv, Types
  <1>0. /\ Open \subseteq Slots /\ NONE \notin Slots /\ NONE \notin Guids
        /\ \A g \in Guids : map[g] \in Slots \cup {NONE}
    BY UdpAssumption DEF Open
  <1>1. ASSUME NEW S \in SUBSET Slots, NEW also \in Along(S) PROVE also \subseteq Open
    BY DEF Along
  <1>2. ASSUME NEW g \in Guids, OnUdpAccept(g) PROVE SessionInv'
    <2>1. CASE free = <<>>
      BY <1>2, <2>1 DEF OnUdpAccept, SoleRouted, FreeOnce, Open, Entries
    <2>2. CASE free # <<>>
      <3> DEFINE new == Head(free)
      <3>1. /\ free' = Tail(free)
            /\ guid' = [guid EXCEPT ![new] = g]
            /\ map'  = IF map[g] = NONE THEN [map EXCEPT ![g] = new] ELSE map
            /\ sole' = IF map[g] = NONE /\ Entries(new) = {} /\ new \notin sockets
                       THEN sole \cup {new} ELSE sole
            /\ UNCHANGED <<tcp, sockets>>
        BY <1>2, <2>2 DEF OnUdpAccept
      <3>2. /\ free' \in Seq(Slots) /\ FreeOnce'
            /\ new \in Slots \ Open /\ Open' = Open \cup {new}
        BY <2>2, <3>1, FreeLess
      <3> HIDE DEF new
      <3>3. Types' /\ (tcp \subseteq Open)'
        BY <3>1, <3>2
      <3>4. ASSUME NEW s \in sole' PROVE SoleRouted!(s)'
        <4>1. CASE s \in sole
          <5>1. s \in Open /\ s # new
            BY <4>1, <3>2 DEF SoleRouted
          <5>2. Entries(s)' = Entries(s)
            BY <5>1, <3>1, <1>0 DEF Entries
          <5> QED
            BY <4>1, <5>1, <5>2, <3>1, <3>2 DEF SoleRouted
        <4>2. CASE s \notin sole
          <5>1. s = new /\ map[g] = NONE /\ Entries(new) = {} /\ new \notin sockets
            BY <4>2, <3>1
          <5>2. Entries(s)' = {g} /\ guid'[s] = g
            BY <5>1, <3>1, <3>2 DEF Entries
          <5>3. s \notin tcp' /\ s \notin sockets' /\ s \in Open'
            BY <5>1, <3>1, <3>2
          <5> QED
            BY <5>2, <5>3
        <4> QED
          BY <4>1, <4>2
      <3>5. SoleRouted'
        BY <3>4 DEF SoleRouted
      <3> QED
        BY <3>2, <3>3, <3>5
    <2> QED
      BY <2>1, <2>2
  <1>3. CASE OnTcpAccept
    <2> DEFINE new == Head(free)
    <2>1. /\ free # <<>> /\ free' = Tail(free)
          /\ tcp' = tcp \cup {new} /\ sockets' = sockets \cup {new}
          /\ sole' = IF Entries(new) = {} /\ new \notin sockets THEN sole \cup {new} ELSE sole
          /\ UNCHANGED <<map, guid>>
      BY <1>3 DEF OnTcpAccept, ByTcp
    <2>2. /\ free' \in Seq(Slots) /\ FreeOnce'
          /\ new \in Slots \ Open /\ Open' = Open \cup {new}
      BY <2>1, FreeLess
    <2> HIDE DEF new
    <2>3. Types' /\ (tcp \subseteq Open)'
      BY <2>1, <2>2
    <2>4. \A s : Entries(s)' = Entries(s)
      BY <2>1 DEF Entries
    <2>5. SoleRouted'
      BY <2>1, <2>2, <2>4 DEF SoleRouted
    <2> QED
      BY <2>2, <2>3, <2>5
  <1>4. ASSUME NEW g \in Guids, Heard(g) PROVE SessionInv'
    BY <1>4 DEF Heard, SoleRouted, FreeOnce, Open, Entries
  <1>5. ASSUME NEW g \in Guids, OnUdpClientDisconnected(g) PROVE SessionInv'
    <2>1. CASE map[g] = NONE
      BY <1>5, <2>1 DEF OnUdpClientDisconnected, SoleRouted, FreeOnce, Open, Entries
    <2>2. CASE map[g] # NONE
      <3>1. PICK also \in Along({map[g]}) : Disconnect({map[g]}, also)
        BY <1>5, <2>2 DEF OnUdpClientDisconnected
      <3>2. {map[g]} \cup also \in SUBSET Slots
        BY <2>2, <1>0, <1>1
      <3>3. UNCHANGED <<map, guid>>
        BY <1>5 DEF OnUdpClientDisconnected
      <3> QED
        BY <3>1, <3>2, <3>3, DisconnectKeeps DEF Disconnect
    <2> QED
      BY <2>1, <2>2
  <1>6. ASSUME NEW s \in Slots, OnTcpDisconnected(s) PROVE SessionInv'
    <2>1. PICK also \in Along({s}) :
              /\ OnDisconnected({s} \cup also)
              /\ sockets' = sockets \ ({s} \cup (also \cap tcp))
      BY <1>6 DEF OnTcpDisconnected
    <2>2. {s} \cup also \in SUBSET Slots
      BY <1>0, <1>1
    <2>3. UNCHANGED <<map, guid>>
      BY <1>6 DEF OnTcpDisconnected
    <2> QED
      BY <2>1, <2>2, <2>3, DisconnectKeeps
  <1>7. CASE GameDisconnects
    <2>1. PICK S \in SUBSET Open : Disconnect({}, S)
      BY <1>7 DEF GameDisconnects
    <2>2. {} \cup S \in SUBSET Slots
      BY <1>0
    <2>3. UNCHANGED <<map, guid>>
      BY <1>7 DEF GameDisconnects
    <2> QED
      BY <2>1, <2>2, <2>3, DisconnectKeeps DEF Disconnect
  <1>8. ASSUME NEW t \in Steps, UpdateHeart(t) PROVE SessionInv'
    \* An entry is erased together with the client it names.
    <2>1. PICK E \in SUBSET Mapped : \E also \in Along(TimedOut(E)) :
              /\ Disconnect(TimedOut(E), also)
              /\ map' = [g \in Guids |-> IF g \in E THEN NONE ELSE map[g]]
              /\ UNCHANGED guid
      BY <1>8 DEF UpdateHeart
    <2>2. PICK also \in Along(TimedOut(E)) : Disconnect(TimedOut(E), also)
      BY <2>1
    <2>3. TimedOut(E) \in SUBSET Slots
      BY <1>0 DEF TimedOut, Mapped
    <2>4. TimedOut(E) \cup also \in SUBSET Slots
      BY <2>3, <1>0, <1>1
    <2>5. \A g \in E : map[g] \in TimedOut(E)
      BY DEF TimedOut
    <2> QED
      BY <2>1, <2>2, <2>4, <2>5, DisconnectKeeps DEF Disconnect
  <1>9. CASE UNCHANGED vars
    BY <1>9 DEF vars, SoleRouted, FreeOnce, Open, Entries
  <1> QED
    BY <1>2, <1>3, <1>4, <1>5, <1>6, <1>7, <1>8, <1>9 DEF Next, Traffic, Timer

-----------------------------------------------------------------------------
(* The heartbeat *)

\* What SoleHeartHonest rests on: the heart of a client that its own peer alone keeps
\* has not run longer than that peer has been silent.
HeartInv ==
    /\ DOMAIN heart = Slots
    /\ silence \in [Slots -> Nat]
    /\ \A s \in sole \ tcp :
        /\ heart[s] \in Nat
        /\ silence[s] >= heart[s] \/ silence[s] > HeartTime

\* The slots that only their own peer names lose some by a disconnection and win none.
LEMMA DisconnectHeart ==
    ASSUME HeartInv, NEW S, OnDisconnected(S), UNCHANGED <<heart, silence>>
    PROVE  HeartInv'
  <1>1. sole' \ tcp' \subseteq sole \ tcp
    BY DEF OnDisconnected
  <1> QED
    BY <1>1 DEF HeartInv

\* For a slot that its own peer alone names, the loop of ServerUpdate comes by once.
LEMMA SoleBeatsOnce ==
    ASSUME SessionInv, NEW s \in sole \ tcp
    PROVE  /\ guid[s] \in Mapped /\ map[guid[s]] = s
           /\ Cardinality(Mapped \cap Entries(s)) = 1
           /\ \A g \in Entries(s) : \A place : Beats(g, place) \in {0, 1}
  <1>1. s \in Slots /\ s # NONE /\ Entries(s) = {guid[s]}
    BY UdpAssumption DEF SessionInv, Types, SoleRouted
  <1>2. guid[s] \in Guids /\ map[guid[s]] = s
    BY <1>1 DEF Entries
  <1>3. guid[s] \in Mapped /\ Mapped \cap Entries(s) = {guid[s]}
    BY <1>1, <1>2 DEF Mapped
  <1>4. Cardinality({guid[s]}) = 1
    BY FS_Singleton
  <1>5. ASSUME NEW g \in Entries(s), NEW place PROVE Beats(g, place) \in {0, 1}
    <2>1. g = guid[s] /\ Entries(map[g]) = {guid[s]}
      BY <1>1, <1>2
    <2> DEFINE H == {h \in Entries(map[g]) : place[h] <= place[g]}
    <2>2. H = {} \/ H = {guid[s]}
      BY <2>1
    <2>3. Cardinality(H) \in {0, 1}
      BY <2>2, <1>4, FS_EmptySet
    <2> QED
      BY <2>3 DEF Beats
  <1> QED
    BY <1>2, <1>3, <1>4, <1>5

LEMMA StepHeart == SessionInv /\ HeartInv /\ [Next]_vars => HeartInv'
  <1> SUFFICES ASSUME SessionInv, HeartInv, [Next]_vars PROVE HeartInv'
    OBVIOUS
  <1>0. /\ sole \subseteq Open /\ Open \subseteq Slots
        /\ HeartTime \in Nat /\ Steps \subseteq Nat
    BY UdpAssumption DEF SessionInv, SoleRouted, Open
  <1>1. ASSUME NEW g \in Guids, OnUdpAccept(g) PROVE HeartInv'
    <2>1. CASE free = <<>>
      BY <1>1, <2>1 DEF OnUdpAccept, HeartInv
    <2>2. CASE free # <<>>
      <3> DEFINE new == Head(free)
      <3>1. /\ heart'   = [heart EXCEPT ![new] = 0]
            /\ silence' = [silence EXCEPT ![new] = 0]
            /\ sole' \subseteq sole \cup {new}
            /\ tcp' = tcp
        BY <1>1, <2>2 DEF OnUdpAccept, HeartAtAccept
      <3>2. new \in Slots
        BY <2>2, HeadTailProperties DEF SessionInv, Types
      <3> HIDE DEF new
      <3>3. DOMAIN heart' = Slots /\ silence' \in [Slots -> Nat]
        BY <3>1 DEF HeartInv
      <3>4. ASSUME NEW s \in sole' \ tcp'
            PROVE  /\ heart'[s] \in Nat
                   /\ silence'[s] >= heart'[s] \/ silence'[s] > HeartTime
        <4>1. CASE s = new
          BY <4>1, <3>1, <3>2 DEF HeartInv
        <4>2. CASE s # new
          <5>1. s \in sole \ tcp /\ s \in Slots
            BY <4>2, <3>1, <1>0
          <5>2. heart'[s] = heart[s] /\ silence'[s] = silence[s]
            BY <4>2, <5>1, <3>1 DEF HeartInv
          <5> QED
            BY <5>1, <5>2 DEF HeartInv
        <4> QED
          BY <4>1, <4>2
      <3> QED
        BY <3>3, <3>4 DEF HeartInv
    <2> QED
      BY <2>1, <2>2
  <1>2. CASE OnTcpAccept
    <2>1. /\ tcp' = tcp \cup {Head(free)} /\ sole' \subseteq sole \cup {Head(free)}
          /\ UNCHANGED <<heart, silence>>
      BY <1>2 DEF OnTcpAccept, ByTcp
    <2>2. sole' \ tcp' \subseteq sole \ tcp
      BY <2>1
    <2> QED
      BY <2>1, <2>2 DEF HeartInv
  <1>3. ASSUME NEW g \in Guids, Heard(g) PROVE HeartInv'
    <2>1. /\ heart'   = IF map[g] = NONE THEN heart ELSE [heart EXCEPT ![map[g]] = 0]
          /\ silence' = [s \in Slots |->
                           IF s \in Open \ tcp /\ guid[s] = g THEN 0 ELSE silence[s]]
          /\ UNCHANGED <<tcp, sole>>
      BY <1>3 DEF Heard
    <2>2. DOMAIN heart' = Slots /\ silence' \in [Slots -> Nat]
      BY <2>1 DEF HeartInv
    <2>3. ASSUME NEW s \in sole' \ tcp'
          PROVE  /\ heart'[s] \in Nat
                 /\ silence'[s] >= heart'[s] \/ silence'[s] > HeartTime
      <3>1. s \in sole \ tcp /\ s \in Slots /\ s \in Open
        BY <2>1, <1>0
      <3>2. map[guid[s]] = s /\ (map[g] = s => guid[s] = g)
        BY <3>1, SoleBeatsOnce DEF SessionInv, SoleRouted, Entries
      <3>3. CASE guid[s] = g
        <4>1. s # NONE
          BY <3>1, UdpAssumption
        <4>2. heart'[s] = 0 /\ silence'[s] = 0
          BY <4>1, <2>1, <3>1, <3>2, <3>3 DEF HeartInv
        <4> QED
          BY <4>2
      <3>4. CASE guid[s] # g
        <4>1. map[g] # s
          BY <3>2, <3>4
        <4>2. heart'[s] = heart[s] /\ silence'[s] = silence[s]
          BY <4>1, <2>1, <3>1, <3>4 DEF HeartInv
        <4> QED
          BY <4>2, <3>1 DEF HeartInv
      <3> QED
        BY <3>3, <3>4
    <2> QED
      BY <2>2, <2>3 DEF HeartInv
  <1>4. ASSUME NEW g \in Guids, OnUdpClientDisconnected(g) PROVE HeartInv'
    BY <1>4, DisconnectHeart DEF OnUdpClientDisconnected, Disconnect, HeartInv
  <1>5. ASSUME NEW s \in Slots, OnTcpDisconnected(s) PROVE HeartInv'
    BY <1>5, DisconnectHeart DEF OnTcpDisconnected
  <1>6. CASE GameDisconnects
    BY <1>6, DisconnectHeart DEF GameDisconnects, Disconnect
  <1>7. ASSUME NEW t \in Steps, UpdateHeart(t) PROVE HeartInv'
    <2>1. /\ heart'   = [s \in Slots |-> heart[s] + t * Cardinality(Mapped \cap Entries(s))]
          /\ silence' = [s \in Slots |-> IF s \in Open \ tcp /\ silence[s] <= HeartTime
                                         THEN silence[s] + t ELSE silence[s]]
          /\ \E S : OnDisconnected(S)
      BY <1>7 DEF UpdateHeart, Disconnect
    <2>2. sole' \ tcp' \subseteq sole \ tcp
      BY <2>1 DEF OnDisconnected
    <2>3. t \in Nat
      BY <1>0
    <2>4. DOMAIN heart' = Slots /\ silence' \in [Slots -> Nat]
      BY <2>1, <2>3 DEF HeartInv
    <2>5. ASSUME NEW s \in sole' \ tcp'
          PROVE  /\ heart'[s] \in Nat
                 /\ silence'[s] >= heart'[s] \/ silence'[s] > HeartTime
      <3>1. s \in sole \ tcp /\ s \in Slots /\ s \in Open
        BY <2>2, <1>0
      <3>2. Cardinality(Mapped \cap Entries(s)) = 1
        BY <3>1, SoleBeatsOnce
      <3>3. /\ heart'[s] = heart[s] + t
            /\ silence'[s] = IF silence[s] <= HeartTime THEN silence[s] + t ELSE silence[s]
        <4>1. heart'[s] = heart[s] + t * 1
          BY <2>1, <3>1, <3>2
        <4>2. heart[s] \in Nat
          BY <3>1 DEF HeartInv
        <4> QED
          BY <4>1, <4>2, <2>1, <2>3, <3>1
      <3> QED
        BY <3>1, <3>3, <2>3, <1>0 DEF HeartInv
    <2> QED
      BY <2>4, <2>5 DEF HeartInv
  <1>8. CASE UNCHANGED vars
    BY <1>8 DEF vars, HeartInv
  <1> QED
    BY <1>1, <1>2, <1>3, <1>4, <1>5, <1>6, <1>7, <1>8 DEF Next, Traffic, Timer

\* A step that erases the entry of a client that only its own peer names, and takes the
\* client with it, finds that peer silent.
LEMMA SoleDroppedSilent ==
    ASSUME SessionInv, HeartInv, [Next]_vars, NEW g \in Guids,
           map'[g] = NONE, map[g] \in sole, map[g] \in Open \ Open'
    PROVE  Silent(map[g])
  <1> DEFINE s == map[g]
  <1>1. s \in Slots /\ s # NONE /\ g \in Mapped /\ g \in Entries(s)
    BY UdpAssumption DEF SessionInv, Types, Mapped, Entries
  <1>2. s \notin tcp
    BY <1>1 DEF SessionInv, SoleRouted
  <1>3. PICK t \in Steps : UpdateHeart(t)
    <2>1. map' # map
      BY <1>1
    <2>2. \A h \in Guids : ~OnUdpAccept(h)
      <3> SUFFICES ASSUME NEW h \in Guids, OnUdpAccept(h) PROVE FALSE
        OBVIOUS
      <3>1. map' = map \/ (map[h] = NONE /\ map' = [map EXCEPT ![h] = Head(free)])
        BY DEF OnUdpAccept
      <3>2. h # g => map'[g] = map[g]
        BY <3>1 DEF SessionInv, Types
      <3> QED
        BY <3>1, <3>2, <2>1, <1>1
    <2>3. \A h \in Guids : ~Heard(h) /\ ~OnUdpClientDisconnected(h)
      BY <2>1 DEF Heard, OnUdpClientDisconnected
    <2>4. ~OnTcpAccept /\ ~GameDisconnects /\ \A r \in Slots : ~OnTcpDisconnected(r)
      BY <2>1 DEF OnTcpAccept, GameDisconnects, OnTcpDisconnected
    <2> QED
      BY <2>1, <2>2, <2>3, <2>4 DEF Next, Traffic, Timer, vars
  <1>4. PICK place : g \in {h \in Mapped : heart[map[h]] + Beats(h, place) * t > HeartTime}
    <2>1. PICK place :
            LET erased == {h \in Mapped : heart[map[h]] + Beats(h, place) * t > HeartTime}
            IN  map' = [h \in Guids |-> IF h \in erased THEN NONE ELSE map[h]]
      BY <1>3 DEF UpdateHeart
    <2> QED
      BY <2>1, <1>1
  <1>5. /\ heart[s] \in Nat /\ silence[s] \in Nat /\ t \in Nat /\ HeartTime \in Nat
        /\ silence[s] >= heart[s] \/ silence[s] > HeartTime
    BY <1>1, <1>2, UdpAssumption DEF HeartInv
  <1>6. heart[s] + t > HeartTime
    <2>1. Beats(g, place) = 0 \/ Beats(g, place) = 1
      BY <1>1, <1>2, SoleBeatsOnce
    <2>2. heart[s] + Beats(g, place) * t > HeartTime
      BY <1>4
    <2> HIDE DEF s
    <2> QED
      BY <2>1, <2>2, <1>5
  <1>7. silence'[s] = IF silence[s] <= HeartTime THEN silence[s] + t ELSE silence[s]
    <2>1. silence' = [r \in Slots |-> IF r \in Open \ tcp /\ silence[r] <= HeartTime
                                      THEN silence[r] + t ELSE silence[r]]
      BY <1>3 DEF UpdateHeart
    <2> QED
      BY <2>1, <1>1, <1>2
  <1>8. silence'[s] > HeartTime
    BY <1>5, <1>6, <1>7
  <1> QED
    BY <1>8 DEF Silent

-----------------------------------------------------------------------------
(* The theorems *)

LEMMA SessionInvariant == Spec => []SessionInv
  <1>1. Init => SessionInv
    <2> SUFFICES ASSUME Init PROVE SessionInv
      OBVIOUS
    <2>1. free \in Seq(Slots)
      BY UdpAssumption DEF Init, Slots
    <2> QED
      BY <2>1 DEF Init, SessionInv, Types, FreeOnce, SoleRouted, IsInjective
  <1> QED
    BY <1>1, StepSession, PTL DEF Spec

\* Whoever disconnects a client, its peer, its socket, the game or a stale entry of
\* m_UdpClientMap, and however often: its slot is in the free list once.
THEOREM SlotsFreeOnce == Spec => []FreeOnce
  <1>1. SessionInv => FreeOnce
    BY DEF SessionInv
  <1> QED
    BY <1>1, SessionInvariant, PTL

\* With any number of peers and slots, a client that came to a slot nobody else named
\* gets the messages of its own peer or socket and of nobody else.
THEOREM ClientsReachedAlone == Spec => []SoleRouted
  <1>1. SessionInv => SoleRouted
    BY DEF SessionInv
  <1> QED
    BY <1>1, SessionInvariant, PTL

\* With any number of peers and slots and any steps of the timer, the heartbeat drops a
\* client that only its own peer names after HeartTime without a sign of life from it.
THEOREM HeartbeatDropsSilent == Spec => SoleHeartHonest
  <1>1. Init => HeartInv
    BY UdpAssumption DEF Init, HeartInv
  <1>2. Spec => []HeartInv
    BY <1>1, StepHeart, SessionInvariant, PTL DEF Spec
  <1>3. SessionInv /\ HeartInv /\ [Next]_vars =>
            [\A g \in Guids :
                LET s == map[g]
                IN  map'[g] = NONE /\ s \in sole /\ s \in Open \ Open' => Silent(s)]_vars
    BY SoleDroppedSilent
  <1> QED
    BY <1>2, <1>3, SessionInvariant, PTL DEF Spec, SoleHeartHonest
=============================================================================
