---------------------------- MODULE UdpSessions ----------------------------
(***************************************************************************)
(* How UDP peers and TCP sockets become clients (server.cpp):              *)
(* m_UdpClientMap from the guid of a RakNet peer to a slot of the client   *)
(* pool, the pool's free slots, which are reused last freed first, and the *)
(* heartbeat that disconnects silent peers.                                *)
(*                                                                         *)
(* An entry of the map outlives its client: only the heartbeat erases it.  *)
(* It acts on the UdpConnection of its slot though the slot may belong to  *)
(* a TCP client by then, whose socket it leaves open.                      *)
(* What the game does when a client goes is its own affair (module Game):  *)
(* here it may take any other clients down with it.                        *)
(***************************************************************************)
EXTENDS Integers, Sequences, FiniteSets, SequencesExt

CONSTANTS
    Guids,      \* the peers
    Size,       \* the size of the pool
    HeartTime,  \* gServer.m_HeartTime
    Steps,      \* the time steps ServerUpdate may be given
    NONE

Slots == 1..Size

ASSUME UdpAssumption ==
    /\ Size \in Nat \ {0} /\ HeartTime \in Nat
    /\ Steps \subseteq Nat \ {0}
    /\ NONE \notin Guids /\ NONE \notin Slots

VARIABLES
    peers,    \* the peers RakNet holds a connection with
    map,      \* m_UdpClientMap; NONE where there is no entry
    free,     \* the free list of m_ClientPool
    guid,     \* m_UdpGUID of each slot
    heart,    \* m_Heart of each slot
    tcp,      \* the slots in use whose connection is their TcpConnection
    sockets,  \* the slots whose TcpConnection has a socket
    \* History
    silence,  \* the time since the peer that occupies the slot was last heard
    sole      \* slots that nothing but their own peer or socket named from the start

vars == <<peers, map, free, guid, heart, tcp, sockets, silence, sole>>

Open == Slots \ ToSet(free)

Entries(s) == {g \in Guids : map[g] = s}

\* Variant: the entry of a client that has gone is passed over.
Mapped_Connected == {g \in Guids : map[g] \in Open}

Mapped == {g \in Guids : map[g] # NONE}

-----------------------------------------------------------------------------
\* Variant: the object is freed though it is free already.
Freed_Twice(S) == S

\* Free refuses an object that is not allocated.
Freed(S) == S \cap Open

\* The clients that may go along with the slots S: none, unless a client goes.
Along(S) == SUBSET (IF S \cap Open = {} THEN {} ELSE Open)

\* Client::OnDisconnected of every slot of S.  Which of them is freed first depends on
\* which call the others are nested in: any order may come.
OnDisconnected(S) ==
    /\ \E freed \in SetToSeqs(Freed(S)) : free' = freed \o free
    /\ tcp'  = tcp \ S
    /\ sole' = sole \ S

\* The peers whose addresses are in the UdpConnections of the slots S: RakNet drops them
\* when these are disconnected, though the slot be free or a TCP client's by then.
PeersOf(S) == {guid[s] : s \in S}

\* UdpConnection::Disconnect of the slots U, after which the game does
\* connection->Disconnect() to the slots `also'.
Disconnect(U, also) ==
    /\ OnDisconnected(U \cup also)
    /\ sockets' = sockets \ (also \cap tcp)

\* Variant: the last client's heartbeat goes on.
HeartAtAccept_Kept(s) == heart[s]

HeartAtAccept(s) == 0

\* OnUdpAccept: map.insert leaves an entry that is already there as it is.
OnUdpAccept(g) ==
    /\ g \notin peers
    /\ peers' = peers \cup {g}
    /\ IF free = <<>>
       THEN UNCHANGED <<map, free, guid, heart, silence, sole>>
       ELSE LET s == Head(free) IN
            /\ free'    = Tail(free)
            /\ guid'    = [guid EXCEPT ![s] = g]
            /\ heart'   = [heart EXCEPT ![s] = HeartAtAccept(s)]
            /\ map'     = IF map[g] = NONE THEN [map EXCEPT ![g] = s] ELSE map
            /\ silence' = [silence EXCEPT ![s] = 0]
            /\ sole'    = IF map[g] = NONE /\ Entries(s) = {} /\ s \notin sockets
                          THEN sole \cup {s} ELSE sole
    /\ UNCHANGED <<tcp, sockets>>

\* Variant: the client keeps the connection of the slot's last one.
ByTcp_Kept(s) == tcp

ByTcp(s) == tcp \cup {s}

\* OnTcpAccept; a socket that finds the pool full is neither served nor closed.
OnTcpAccept ==
    /\ free # <<>>
    /\ LET s == Head(free) IN
       /\ free'    = Tail(free)
       /\ tcp'     = ByTcp(s)
       /\ sockets' = sockets \cup {s}
       /\ sole'    = IF Entries(s) = {} /\ s \notin sockets THEN sole \cup {s} ELSE sole
    /\ UNCHANGED <<peers, map, guid, heart, silence>>

\* The socket of slot s is closed by its peer: OnDisconnected, whoever has the slot.
OnTcpDisconnected(s) ==
    /\ s \in sockets
    /\ \E also \in Along({s}) :
        /\ OnDisconnected({s} \cup also)
        /\ sockets' = sockets \ ({s} \cup (also \cap tcp))
        /\ peers'   = peers \ PeersOf(also \ tcp)
    /\ UNCHANGED <<map, guid, heart, silence>>

\* OnUdpClientMessage and OnKeepAlive: whatever arrives is a sign of life of the
\* slot that the peer's entry names, if it has one; find makes none.
Heard(g) ==
    /\ g \in peers
    /\ heart'   = IF map[g] = NONE THEN heart ELSE [heart EXCEPT ![map[g]] = 0]
    /\ silence' = [s \in Slots |-> IF s \in Open \ tcp /\ guid[s] = g THEN 0 ELSE silence[s]]
    /\ UNCHANGED <<peers, map, free, guid, tcp, sockets, sole>>

\* OnUdpClientDisconnected: RakNet has lost the peer.
OnUdpClientDisconnected(g) ==
    /\ g \in peers
    /\ IF map[g] = NONE
       THEN peers' = peers \ {g} /\ UNCHANGED <<free, tcp, sockets, sole>>
       ELSE \E also \in Along({map[g]}) :
            /\ Disconnect({map[g]}, also)
            /\ peers' = peers \ ({g} \cup PeersOf({map[g]} \cup (also \ tcp)))
    /\ UNCHANGED <<map, guid, heart, silence>>

\* Game disconnects clients: the end of a match, or a map that is too big.
GameDisconnects ==
    /\ \E S \in SUBSET Open \ {{}} : Disconnect({}, S) /\ peers' = peers \ PeersOf(S \ tcp)
    /\ UNCHANGED <<map, guid, heart, silence>>

-----------------------------------------------------------------------------
\* How often the loop of ServerUpdate has come by the slot of entry g when it is
\* at g, if it visits the entries by increasing place.
Beats(g, place) == Cardinality({h \in Entries(map[g]) : place[h] <= place[g]})

\* The slots the loop disconnects, when it erases the entries E.
TimedOut(E) == {map[g] : g \in E}

\* ServerUpdate: every entry adds t to the heart of its slot; unordered_map
\* fixes no order of the entries.
UpdateHeart(t) ==
    \E place \in [Mapped -> 1..Cardinality(Mapped)] :
        /\ IsInjective(place)
        /\ LET erased == {g \in Mapped : heart[map[g]] + Beats(g, place) * t > HeartTime}
           IN  /\ map' = [g \in Guids |-> IF g \in erased THEN NONE ELSE map[g]]
               /\ \E also \in Along(TimedOut(erased)) :
                      /\ Disconnect(TimedOut(erased), also)
                      /\ peers' = peers \ PeersOf(TimedOut(erased) \cup (also \ tcp))
        /\ heart'   = [s \in Slots |-> heart[s] + t * Cardinality(Mapped \cap Entries(s))]
        /\ silence' = [s \in Slots |->
                          IF s \in Open \ tcp /\ silence[s] <= HeartTime THEN silence[s] + t ELSE silence[s]]
        /\ UNCHANGED guid

-----------------------------------------------------------------------------
Init ==
    /\ peers = {}
    /\ map = [g \in Guids |-> NONE]
    /\ free = [i \in Slots |-> i]
    /\ guid \in [Slots -> {NONE}]
    /\ heart = [s \in Slots |-> 0]
    /\ tcp = {} /\ sockets = {}
    /\ silence = [s \in Slots |-> 0]
    /\ sole = {}

\* What the network brings.
Traffic == OnTcpAccept \/ \E g \in Guids : OnUdpAccept(g) \/ Heard(g)

Timer == \E t \in Steps : UpdateHeart(t)

Next ==
    \/ Traffic
    \/ \E g \in Guids : OnUdpClientDisconnected(g)
    \/ \E s \in Slots : OnTcpDisconnected(s)
    \/ GameDisconnects
    \/ Timer

\* The timer that calls ServerUpdate repeats for ever (server.cpp:520).
Spec == Init /\ [][Next]_vars /\ WF_vars(Timer)

-----------------------------------------------------------------------------
(* Properties *)

\* Every variable keeps its type.
TypeOK ==
    /\ peers \subseteq Guids
    /\ map \in [Guids -> Slots \cup {NONE}]
    /\ free \in Seq(Slots)
    /\ guid \in [Slots -> Guids \cup {NONE}]
    /\ heart \in [Slots -> Nat]
    /\ tcp \subseteq Open /\ sockets \subseteq Slots
    /\ silence \in [Slots -> Nat]
    /\ sole \subseteq Slots

\* A slot is free once, however many times it is disconnected: by its peer, by the
\* game and through stale entries of the map.
FreeOnce == IsInjective(free)

\* A client whose slot was named by no entry and no socket when it came, and whose
\* peer had none, is reached by its own peer or socket and by nobody else's for as
\* long as it stays, whatever the others do; no heartbeat runs for a TCP client.
SoleRouted ==
    \A s \in sole :
        /\ s \in Open
        /\ IF s \in tcp
           THEN Entries(s) = {} /\ s \in sockets
           ELSE Entries(s) = {guid[s]} /\ s \notin sockets

Silent(s) == silence'[s] > HeartTime

\* Such a client is dropped by the heartbeat only after HeartTime without a sign of
\* life.
SoleHeartHonest ==
    [][\A g \in Guids :
          LET s == map[g]
          IN  map'[g] = NONE /\ s \in sole /\ s \in Open \ Open' => Silent(s)]_vars

\* If the network stays quiet from some time on, every entry of the map is erased
\* and with it goes the client it was made for: silent peers do not keep slots.
QuietServerEmpties ==
    <>[][~Traffic]_vars
        => <>[]((\A g \in Guids : map[g] = NONE) /\ sole \subseteq tcp)

\* The configuration's "heartbeat time in seconds" (bin/config:9): the heartbeat
\* drops no client that was heard from within HeartTime.
HeartHonest ==
    [][\A g \in Guids :
          LET s == map[g]
          IN  map'[g] = NONE /\ s \in (Open \ tcp) \ Open' => Silent(s)]_vars
=============================================================================
