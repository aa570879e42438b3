----------------------------- MODULE ClientPool -----------------------------
(***************************************************************************)
(* The client pool of the server call by call: what happens on the stack   *)
(* when a client is disconnected (client.cpp, game.cpp) while the game may *)
(* disconnect others, itself included, from inside that call.              *)
(*                                                                         *)
(* Game takes the whole cascade for one step; here it runs frame by frame  *)
(* on the pool of ObjectPool, and `left' says what Game makes of it.       *)
(***************************************************************************)
EXTENDS ObjectPool, Sequences

VARIABLES
    phase,      \* "Wait" while m_GameState is Wait, else "Match"
    connected,  \* the clients whose connection is not NULL
    info,       \* m_SetUserInfo
    ob,         \* m_IsObClient
    stack,      \* the calls under way, the innermost first
    left        \* history: the clients that Game has left over

session == <<connected, info, ob>>
svars   == <<vars, phase, session, stack, left>>

\* A call of OnDisconnected before (at = "enter") and after (at = "free") it has
\* spoken to the game, and a loop of EndGame that comes to client i next.
Frame(at, i) == [at |-> at, client |-> i]

Valid   == connected \cap (info \cup ob)
Players == Valid \ ob

Top == Head(stack)

\* The connection of i is being closed already.
Closing(i) == \E k \in 1..Len(stack) : stack[k].at # "loop" /\ stack[k].client = i

-----------------------------------------------------------------------------
(* The calls *)

\* Variant: the loop begins before ClearData.
Enter_ClearsLate ==
    /\ stack # <<>> /\ Top.at = "enter"
    /\ LET i    == Top.client
           rest == <<Frame("free", i)>> \o Tail(stack)
       IN  IF i \in Valid /\ Players \ {i} = {} /\ phase # "Wait"
           THEN stack' = <<Frame("loop", 0)>> \o rest
           ELSE stack' = rest
    /\ UNCHANGED <<vars, phase, session, left>>

\* Client::OnDisconnected up to Free: Game::OnClientDisconnect looks for another
\* player and ends the game if there is none.
Enter ==
    /\ stack # <<>> /\ Top.at = "enter"
    /\ LET i    == Top.client
           rest == <<Frame("free", i)>> \o Tail(stack)
       IN  IF i \in Valid /\ Players \ {i} = {} /\ phase # "Wait"
           THEN phase' = "Wait" /\ stack' = <<Frame("loop", 0)>> \o rest
           ELSE UNCHANGED phase /\ stack' = rest
    /\ UNCHANGED <<vars, session, left>>

\* Variant: OnDisconnected leaves the connection as it is.
Unlinked_Not(i) == connected

Unlinked(i) == connected \ {i}

\* The rest of OnDisconnected: the uid is read only now, and may have been renewed
\* by a call further in, which has freed the client already.
Return ==
    /\ stack # <<>> /\ Top.at = "free"
    /\ IF Freeable(Uid(Top.client)) THEN Free(Uid(Top.client)) ELSE UNCHANGED vars
    /\ connected' = Unlinked(Top.client)
    /\ stack' = Tail(stack)
    /\ UNCHANGED <<phase, info, ob, left>>

\* Variant: the loop skips the client after one it has disconnected.
NextInPool_Skips(i) == i + 2

NextInPool(i) == i + 1

\* The loop of Game::EndGame.  A connection that is being closed already may or
\* may not call OnDisconnected again.
Loop ==
    /\ stack # <<>> /\ Top.at = "loop"
    /\ LET i    == Top.client
           rest == <<Frame("loop", NextInPool(i))>> \o Tail(stack)
       IN  \/ i \notin Index /\ stack' = Tail(stack)
           \/ i \in Valid /\ stack' = <<Frame("enter", i)>> \o rest
           \/ i \in Index /\ (i \notin Valid \/ Closing(i)) /\ stack' = rest
    /\ UNCHANGED <<vars, phase, session, left>>

-----------------------------------------------------------------------------
(* What the main thread calls when it is in none of them *)

\* OnUdpAccept, OnTcpAccept and OnConnected.
Accept ==
    /\ stack = <<>>
    /\ Allocate
    /\ connected' = connected \cup {free}
    /\ info'      = info \ {free}
    /\ ob'        = ob \ {free}
    /\ left'      = left \cup {free}
    /\ UNCHANGED <<phase, stack>>

\* CM_PLAYER_AVATAR_DATA and CM_OB_PLAYER_JOIN
Introduce(i) ==
    /\ stack = <<>>
    /\ i \in connected
    /\ \/ info' = info \cup {i} /\ UNCHANGED ob
       \/ ob' = ob \cup {i} /\ UNCHANGED info
    /\ UNCHANGED <<vars, phase, connected, stack, left>>

\* CM_REQUEST_LOAD_MAP and CM_STOP_GAME
SetPhase ==
    /\ stack = <<>>
    /\ connected # {}
    /\ phase' \in {"Wait", "Match"} \ {phase}
    /\ UNCHANGED <<vars, session, stack, left>>

\* The clients that Game!Disconnected closes.
Falls(i) ==
    {i} \cup (IF i \in Valid /\ Players \ {i} = {} /\ phase # "Wait" THEN Valid ELSE {})

\* The transport or the heartbeat disconnects a client, through an old entry of
\* m_UdpClientMap perhaps one that has gone already.
Drop(i) ==
    /\ stack = <<>>
    /\ stack' = <<Frame("enter", i)>>
    /\ left'  = left \ Falls(i)
    /\ UNCHANGED <<vars, phase, session>>

\* Game::Update ends the ranking.
RankingEnds ==
    /\ stack = <<>>
    /\ phase # "Wait"
    /\ phase' = "Wait"
    /\ stack' = <<Frame("loop", 0)>>
    /\ left'  = left \ Valid
    /\ UNCHANGED <<vars, session>>

-----------------------------------------------------------------------------
\* Game begins in None, which is not Wait.
ServerInit ==
    /\ Init
    /\ phase = "Match"
    /\ connected = {} /\ info = {} /\ ob = {}
    /\ stack = <<>>
    /\ left = {}

Call == Enter \/ Return \/ Loop

ServerNext ==
    \/ Call
    \/ Accept \/ SetPhase \/ RankingEnds
    \/ \E i \in Index : Introduce(i) \/ Drop(i)

ServerSpec == ServerInit /\ [][ServerNext]_svars

-----------------------------------------------------------------------------
(* Properties *)

\* Between two events the objects that are out are the connected clients: no way
\* through the nested calls frees a client that is in use or keeps one that is
\* gone, so Count() is the number of clients.
SlotsReturned == stack = <<>> => allocated = connected

\* However the calls nest, they leave the clients that Game leaves in one step.
CascadeAsOne == stack = <<>> => connected = left

\* The calls nest three deep at most, though every OnDisconnected may end the game
\* and the game disconnects the very client whose departure ended it.
NestingBounded == Len(stack) <= 3
=============================================================================
