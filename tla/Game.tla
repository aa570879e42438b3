------------------------------- MODULE Game -------------------------------
(***************************************************************************)
(* The match that broadcastserver runs: Game (game.cpp) together with the  *)
(* client sessions it reads and disconnects (client.cpp).                  *)
(*                                                                         *)
(* Everything here runs on the server's main thread: the timer calls       *)
(* Update, the transports deliver messages and disconnections, one handler *)
(* at a time.  A handler is therefore one action.                          *)
(*                                                                         *)
(* A slot is an element of the client pool.  Its flags are kept as sets of *)
(* slots, and as in the code a flag outlives the client it was set for     *)
(* unless OnConnected, OnRequestLoadMap or StartGame resets it.            *)
(***************************************************************************)
EXTENDS Integers, FiniteSets

CONSTANTS
    Slots,            \* the elements of gServer.m_ClientPool
    TotleTime,        \* gConfig.m_GameTime
    ShowTime,         \* gConfig.m_GameShowTime
    BalanceTime,      \* gConfig.m_GameBalanceTime
    SyncPeriod,       \* the 0.99 s of Update
    Steps,            \* the time steps the timer may report
    MaxStep,          \* the largest of them
    CheckConnection,  \* gServer.m_CheckConnection
    RestartLimit      \* the 5 s of Update

ASSUME GameAssumption ==
    /\ TotleTime \in Nat /\ ShowTime \in Nat /\ BalanceTime \in Nat
    /\ SyncPeriod \in Nat /\ RestartLimit \in Nat /\ MaxStep \in Nat
    /\ Steps \subseteq 1..MaxStep
    /\ CheckConnection \in BOOLEAN

VARIABLES
    state,       \* m_GameState
    runTime,     \* m_GameRunTime
    showTime,    \* m_GameShowTime
    syncTime,    \* m_GameSyncTime
    restart,     \* m_RestartTimer
    alive,       \* FALSE once Update has terminated the process
    open,        \* slots whose connection is not NULL (= allocated slots)
    named,       \* slots that have had a client: an entry of m_UdpClientMap or a
                 \* socket may still name them
    echoed,      \* slots with m_RevciveUID
    userInfo,    \* slots with m_SetUserInfo
    ob,          \* slots with m_IsObClient
    mapLoaded,   \* slots with m_MapLoaded
    complete,    \* slots with m_Complete
    \* History, read by the properties only: each is about the client that
    \* occupies the slot now.
    pending,     \* was sent SM_LAOD_GAME_MAP and has not answered since
    roster,      \* is listed in the last SM_GAME_START
    finished,    \* completed a lap since the last SM_GAME_START
    rankedAt     \* runTime when SM_SYNC_RANK_SCORE was sent in this match, or 0

clock   == <<runTime, showTime, syncTime, rankedAt>>
process == <<restart, alive, named>>
flags   == <<echoed, userInfo, ob, mapLoaded, complete>>
history == <<pending, roster, finished>>
vars    == <<state, clock, process, open, flags, history>>

States == {"None", "Wait", "Load", "Play", "Balance", "SyncScore", "Show"}

\* Variant: a slot that was freed still counts.
Valid_Freed == userInfo \cup ob

\* Client::IsValid: connected, and introduced as a player or as an observer.
Valid   == open \cap (userInfo \cup ob)
Players == Valid \ ob

-----------------------------------------------------------------------------
(* Connections *)

\* OnDisconnected of every slot of S: the slot goes back to the pool.
Close(S) ==
    /\ open'     = open \ S
    /\ pending'  = pending \ S
    /\ roster'   = roster \ S
    /\ finished' = finished \ S

\* Game::EndGame, with the connections `also' that its caller is closing.
\* The OnDisconnected of each client it drops calls OnClientDisconnect and
\* EndGame again, which finds Wait and returns.
EndGame(also) ==
    /\ state' = "Wait"
    /\ Close(also \cup (IF state = "Wait" THEN {} ELSE Valid))

\* Variant: an observer keeps the match alive too.
Remaining_Observers(c) == Valid \ {c}

\* Game::OnClientDisconnect: who can carry the match on without c.
Remaining(c) == Players \ {c}

\* Client::OnDisconnected, whoever asked for it: the peer, the transport,
\* the heartbeat or Game itself.
Disconnected(c) ==
    /\ c \in open
    /\ IF c \in Valid /\ Remaining(c) = {}
       THEN EndGame({c})
       ELSE Close({c}) /\ UNCHANGED state
    /\ UNCHANGED <<clock, process, flags>>

\* Variant: m_IsObClient keeps the value of the slot's last client.
Observers_Kept(c) == ob

\* m_IsObClient after OnConnected
Observers(c) == ob \ {c}

\* Allocate and Client::OnConnected.
Connected(c) ==
    /\ c \notin open
    /\ open'     = open \cup {c}
    /\ echoed'   = echoed \ {c}
    /\ userInfo' = userInfo \ {c}
    /\ ob'       = Observers(c)
    /\ named'    = named \cup {c}
    /\ UNCHANGED <<state, clock, restart, alive, mapLoaded, complete, history>>

\* Client::OnMessage: the first message of a session only sets m_RevciveUID.  Neither
\* it nor its callers ask whether the slot has a client.
FirstMessage(c) ==
    /\ c \in named \ echoed
    /\ echoed' = echoed \cup {c}
    /\ UNCHANGED <<state, clock, process, open, userInfo, ob, mapLoaded,
                   complete, history>>

-----------------------------------------------------------------------------
(* Game::OnClientMessage, one action per command *)

\* Client::OnMessage passes on every message but the first, for a freed slot too.
Sends(c) == c \in echoed

\* CM_OB_PLAYER_JOIN
OnObPlayerJoin(c) ==
    /\ Sends(c)
    /\ ob' = ob \cup {c}
    /\ UNCHANGED <<state, clock, process, open, echoed, userInfo, mapLoaded,
                   complete, history>>

\* CM_PLAYER_AVATAR_DATA
OnBroadcastAvatarData(c) ==
    /\ Sends(c)
    /\ userInfo' = userInfo \cup {c}
    /\ UNCHANGED <<state, clock, process, open, echoed, ob, mapLoaded,
                   complete, history>>

\* CM_SELECT_GAME_MAP whose data exceeds MAX_MAP_DATA_LEN; smaller data is
\* stored, broadcast and never read again.  For a freed slot this calls through the
\* connection that is NULL, which has no successor state.
OnRequestSelectMapTooBig(c) ==
    /\ Sends(c)
    /\ state = "Wait"
    /\ Disconnected(c)

\* Variant: the answers to an earlier request still count.
Unloaded_Never == mapLoaded

\* m_MapLoaded after OnRequestLoadMap
Unloaded == mapLoaded \ Valid

\* CM_REQUEST_LOAD_MAP, accepted; in a later state it is answered with
\* SM_GAME_STATE_ERROR and changes nothing.
OnRequestLoadMap(c) ==
    /\ Sends(c)
    /\ state \in {"None", "Wait", "Load"}
    /\ state'     = "Load"
    /\ mapLoaded' = Unloaded
    /\ pending'   = Valid
    /\ UNCHANGED <<clock, process, open, echoed, userInfo, ob, complete,
                   roster, finished>>

\* Variant: a finish of the last match is carried over.
Uncompleted_Never == complete

\* m_Complete after StartGame
Uncompleted == complete \ Players

\* Game::StartGame
StartGame ==
    IF state = "Load"
    THEN /\ state'    = "Show"
         /\ showTime' = ShowTime
         /\ syncTime' = 0
         /\ runTime'  = 0
         /\ complete' = Uncompleted
         /\ roster'   = Players
         /\ finished' = {}
         /\ rankedAt' = 0
    ELSE UNCHANGED <<state, clock, complete, roster, finished>>

\* Variant: the first answer starts the game.
AllLoaded_Any(loaded) == Valid \cap loaded # {}

AllLoaded(loaded) == Valid \subseteq loaded

\* Variant: the sender's own answer counts from its next one on.
OnClientMapLoaded_Late(c) ==
    /\ Sends(c)
    /\ mapLoaded' = mapLoaded \cup {c}
    /\ pending'   = pending \ {c}
    /\ IF AllLoaded(mapLoaded)
       THEN StartGame
       ELSE UNCHANGED <<state, clock, complete, roster, finished>>
    /\ UNCHANGED <<process, open, echoed, userInfo, ob>>

\* CM_GAME_MAP_LOADED: starts the game once every valid client has loaded.
OnClientMapLoaded(c) ==
    /\ Sends(c)
    /\ mapLoaded' = mapLoaded \cup {c}
    /\ pending'   = pending \ {c}
    /\ IF AllLoaded(mapLoaded')
       THEN StartGame
       ELSE UNCHANGED <<state, clock, complete, roster, finished>>
    /\ UNCHANGED <<process, open, echoed, userInfo, ob>>

\* Game::BalanceGame, for a caller whose game state is s
Balanced(s) == IF s = "Play" THEN "Balance" ELSE s

\* CM_PLAYER_MOVE that completes a valid lap (LapChecker says which do)
OnPlayerMove(c) ==
    /\ Sends(c)
    /\ complete' = complete \cup {c}
    /\ finished' = finished \cup ({c} \cap open)
    /\ state'    = Balanced(state)
    /\ UNCHANGED <<clock, process, open, echoed, userInfo, ob, mapLoaded,
                   pending, roster>>

\* Variant: a commit is taken at any time.
OnClientCommitSocre_AnyTime(c) ==
    /\ Sends(c)
    /\ state'    = "SyncScore"
    /\ rankedAt' = runTime
    /\ UNCHANGED <<runTime, showTime, syncTime, process, open, flags, history>>

\* CM_COMMIT_SCORE: the first commit publishes the ranking.
OnClientCommitSocre(c) ==
    /\ Sends(c)
    /\ state = "Balance"
    /\ state'    = "SyncScore"
    /\ rankedAt' = runTime
    /\ UNCHANGED <<runTime, showTime, syncTime, process, open, flags, history>>

\* CM_STOP_GAME: ClearData, in any state and by any client.
OnPlayerStopGame(c) ==
    /\ Sends(c)
    /\ state' = "Wait"
    /\ UNCHANGED <<clock, process, open, flags, history>>

-----------------------------------------------------------------------------
(* Game::Update *)

\* The server gives up once it has been empty for RestartLimit in total.
Abandoned(t) == CheckConnection /\ open = {} /\ restart + t > RestartLimit

\* Variant: only a server in Wait is watched.
Watch_InWait(t) ==
    /\ restart' = IF CheckConnection /\ open = {} /\ state = "Wait" THEN restart + t ELSE restart
    /\ alive'   = ~(Abandoned(t) /\ state = "Wait")

Watch(t) ==
    /\ restart' = IF CheckConnection /\ open = {} THEN restart + t ELSE restart
    /\ alive'   = ~Abandoned(t)

\* Variant: the balance time is not waited for.
RankingOver_AtOnce(r) == r > TotleTime

RankingOver(r) == r > TotleTime + BalanceTime

\* Variant: the clock stops with the race.
UpdateScore_Stopped(t) ==
    /\ state = "SyncScore"
    /\ UNCHANGED runTime
    /\ IF RankingOver(runTime')
       THEN EndGame({})
       ELSE UNCHANGED <<state, open, history>>
    /\ UNCHANGED <<showTime, syncTime, rankedAt>>

\* SyncScore: the ranking is on screen.
UpdateScore(t) ==
    /\ state = "SyncScore"
    /\ runTime' = runTime + t
    /\ IF RankingOver(runTime')
       THEN EndGame({})
       ELSE UNCHANGED <<state, open, history>>
    /\ UNCHANGED <<showTime, syncTime, rankedAt>>

\* Show: the camera flight before the start.
UpdateShow(t) ==
    /\ state = "Show"
    /\ showTime - t >= 0
    /\ showTime' = showTime - t
    /\ UNCHANGED <<state, runTime, syncTime, rankedAt, open, history>>

\* Variant: m_GameSyncTime is not moved on.
Synced_Never(r) == syncTime

\* m_GameSyncTime once the clock shows r: SyncGameTime sends it when it is due.
Synced(r) == IF r - syncTime > SyncPeriod THEN r ELSE syncTime

TimeUp(r) == r > TotleTime

\* Variant: the clock of a race that has lost its players is held.
UpdatePlay_Held(t) ==
    /\ \/ state = "Play" /\ UNCHANGED showTime
       \/ state = "Show" /\ showTime - t < 0 /\ showTime' = showTime - t
    /\ runTime'  = IF Players = {} THEN runTime ELSE runTime + t
    /\ syncTime' = Synced(runTime')
    /\ state'    = IF TimeUp(runTime') THEN Balanced("Play") ELSE "Play"
    /\ UNCHANGED <<rankedAt, open, history>>

\* Play, or the end of Show, which falls through into Play in the same call.
UpdatePlay(t) ==
    /\ \/ state = "Play" /\ UNCHANGED showTime
       \/ state = "Show" /\ showTime - t < 0 /\ showTime' = showTime - t
    /\ runTime'  = runTime + t
    /\ syncTime' = Synced(runTime')
    /\ state'    = IF TimeUp(runTime') THEN Balanced("Play") ELSE "Play"
    /\ UNCHANGED <<rankedAt, open, history>>

UpdateIdle ==
    /\ state \in {"None", "Wait", "Load", "Balance"}
    /\ UNCHANGED <<state, clock, open, history>>

Update(t) ==
    /\ Watch(t)
    /\ IF Abandoned(t)
       THEN UNCHANGED <<state, clock, open, history>>
       ELSE UpdateScore(t) \/ UpdateShow(t) \/ UpdatePlay(t) \/ UpdateIdle
    /\ UNCHANGED <<named, flags>>

-----------------------------------------------------------------------------
\* The pool is allocated with new[]: m_MapLoaded and m_Complete start with
\* whatever the memory held.
Init ==
    /\ state = "None"
    /\ runTime = 0 /\ showTime = 0 /\ syncTime = 0 /\ rankedAt = 0
    /\ restart = 0 /\ alive = TRUE
    /\ open = {} /\ named = {} /\ echoed = {} /\ userInfo = {} /\ ob = {}
    /\ mapLoaded \in SUBSET Slots
    /\ complete \in SUBSET Slots
    /\ pending = {} /\ roster = {} /\ finished = {}

Message(c) ==
    \/ FirstMessage(c)
    \/ OnObPlayerJoin(c)
    \/ OnBroadcastAvatarData(c)
    \/ OnRequestSelectMapTooBig(c)
    \/ OnRequestLoadMap(c)
    \/ OnClientMapLoaded(c)
    \/ OnPlayerMove(c)
    \/ OnClientCommitSocre(c)
    \/ OnPlayerStopGame(c)

Client == alive /\ \E c \in Slots : Connected(c) \/ Disconnected(c) \/ Message(c)
Timer  == alive /\ \E t \in Steps : Update(t)

Next == Client \/ Timer

\* The timer is armed at start-up with interval 0 and repeats (server.cpp:520):
\* the event loop never stops calling Update.  Nothing is assumed of clients.
Spec == Init /\ [][Next]_vars /\ WF_vars(Timer)

-----------------------------------------------------------------------------
(* Properties *)

\* Every variable keeps the type of the field it stands for, and what is known
\* of a client is known of a connected one.
TypeOK ==
    /\ state \in States
    /\ runTime \in Nat /\ syncTime \in Nat /\ rankedAt \in Nat
    /\ showTime \in Int /\ restart \in Nat
    /\ alive \in BOOLEAN
    /\ open \subseteq named /\ named \subseteq Slots /\ echoed \subseteq named
    /\ userInfo \subseteq Slots /\ ob \subseteq Slots
    /\ mapLoaded \subseteq Slots /\ complete \subseteq Slots
    /\ pending \subseteq open /\ roster \subseteq open /\ finished \subseteq open

\* A client that was asked to load the map and has not answered is still a valid
\* client with m_MapLoaded unset, so OnClientMapLoaded still waits for it.
StillAwaited == pending \subseteq Valid \ mapLoaded

\* The game starts (OnClientMapLoaded, StartGame) only when every client that was
\* sent SM_LAOD_GAME_MAP has answered since or has gone.
StartNeedsAnswers ==
    [][state # "Show" /\ state' = "Show" => pending' = {}]_vars

InMatch == state \in {"Show", "Play", "Balance", "SyncScore"}

\* What BalanceGame reports as completed, for the clients that SM_GAME_START
\* listed, is what they did in this match: m_Complete of an earlier match or an
\* earlier client of the slot never shows.
HonestResult ==
    InMatch => roster \cap complete = roster \cap finished

\* A slot that changes hands starts as a stranger: until it introduces itself the
\* new client gets no broadcast and keeps no match alive (OnConnected).
NoInheritedIdentity == [][(open' \ open) \cap Valid' = {}]_vars

\* While the clients load, nobody is left waiting for an answer that has come: the
\* moment everyone has answered is the start (OnClientMapLoaded), or somebody has
\* left, which nothing looks at again (OnClientDisconnect).
NobodyKeptWaiting ==
    [][state = "Load" /\ state' = "Load" /\ ~AllLoaded(mapLoaded)
        => ~AllLoaded(mapLoaded)' \/ open' # open]_vars

\* A game that ends leaves nobody behind: when m_GameState becomes Wait either
\* every valid client has been disconnected (EndGame) or nobody has
\* (CM_STOP_GAME); no client is left over on a match the others have lost.
ClosedTogether ==
    [][state # "Wait" /\ state' = "Wait" => Valid' = {} \/ open' = open]_vars

\* A match never outlives its last player (OnClientDisconnect): when the last
\* player goes, the game is in Wait, whoever watches; the only other way to lose
\* the last player is that it turns into an observer.
NoOrphanMatch ==
    [][Players # {} /\ Players' = {} => state' = "Wait" \/ ob' # ob]_vars

\* While the match runs its clients know the time to within SyncPeriod, whatever
\* the steps of the timer (SyncGameTime).
TimeSynced == state = "Play" => runTime - syncTime \in 0..SyncPeriod

\* The ranking stays on screen for the announced m_GameBalanceTime, up to the one
\* step by which the match itself overran, unless everyone leaves or a client
\* stops the game.
ScoreShownLongEnough ==
    [][state = "SyncScore" /\ runTime' # runTime /\ state' = "Wait"
        => runTime' - rankedAt > BalanceTime - MaxStep]_vars

\* With m_CheckConnection set, a server that every client has left for good
\* terminates (and is started afresh by its daemon), in whatever state the match
\* was left: Load, Balance and an empty Play included.
AbandonedServerQuits == <>[](open = {}) => <>(~alive)

\* A match that was started is over: it reaches the balance or is closed.
MatchEnds == (state = "Show") ~> (state \in {"Balance", "Wait"} \/ ~alive)

\* A published ranking is followed by the end of the game, with no help from the
\* clients.
RankingEnds == (state = "SyncScore") ~> (state = "Wait" \/ ~alive)

\* client.lua:18 calls GameBalanceTime the time after which the big screen returns
\* from the balance; SM_SYNC_RANK_SCORE sends it to every client.  The server
\* should then not hold the match longer than that.
BalanceTimeHonest ==
    state = "SyncScore" => runTime - rankedAt <= BalanceTime + MaxStep

\* Game implements Match: a member is a valid client, a player one that does not
\* observe.
M == INSTANCE Match WITH phase <- state, members <- Valid, players <- Players

\* Every behaviour of the game is one the clients were promised: phases in their
\* order, a match that closes takes every member along, and one that loses its
\* last player closes.
ImplementsMatch == M!Spec

=============================================================================
