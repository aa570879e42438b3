----------------------------- MODULE DropItems -----------------------------
(***************************************************************************)
(* The items on the track: DropItemManager, and the part of Game that      *)
(* starts it, drives it and pays the players who collect.                  *)
(*                                                                         *)
(* m_AliveDropItem is the sequence alive, oldest item first.  It is never  *)
(* cleared, while Init starts the ids of every match from 0 again.  Where  *)
(* the items lie comes from the tables of GameConfig, which the script     *)
(* fills before the first match.                                           *)
(***************************************************************************)
EXTENDS GameConfig, FiniteSets, SequencesExt

CONSTANTS
    Players,        \* the players of the match
    Kinds,          \* the entries of m_DropItemData, 1..n in their order
    TypeOf,         \* mType of each kind
    Icon,           \* DROPITEM_ICON, the type of a coin; the others are obstacles
    InitCount,      \* mInitCount of each kind
    MaxCount,       \* mMaxCount of each kind
    RefreshTime,    \* mRefreshTime of each kind
    Steps           \* the time steps of Update

ASSUME DropAssumption ==
    /\ IsFiniteSet(Kinds) /\ Kinds = 1..Cardinality(Kinds) /\ TypeOf \in [Kinds -> DropRows]
    /\ InitCount \in [Kinds -> Nat] /\ MaxCount \in [Kinds -> Nat]
    /\ RefreshTime \in [Kinds -> Nat]
    /\ Steps \subseteq Nat \ {0}

VARIABLES
    loaded,        \* GameConfig::Init has returned
    playing,       \* m_GameState is Play
    alive,         \* m_AliveDropItem
    gID,           \* the next id
    made,          \* mCount of each kind: only the unused overload decrements it
    refreshIndex,  \* mRefreshIndex of each kind
    timer,         \* mRefreshTime (of DropItem) of each kind
    initialised,   \* the kinds with mInitRefresh
    coinCount,     \* m_CoinCount of each player
    \* History
    round,         \* how many matches have been started
    starters,      \* the players that StartGame reset in this match
    gained         \* how many coins each starter was paid in this match

items   == <<alive, gID, made, refreshIndex, timer, initialised>>
history == <<round, starters, gained>>
vars    == <<configVars, loaded, playing, items, coinCount, history>>

-----------------------------------------------------------------------------
\* config.lua, up to its end: every kind has been given positions.
Script ==
    /\ ~loaded
    /\ \/ ConfigNext /\ UNCHANGED loaded
       \/ (\A k \in Kinds : count[TypeOf[k]] > 0) /\ loaded' = TRUE /\ UNCHANGED configVars
    /\ UNCHANGED <<playing, items, coinCount, history>>

\* The positions of a type are used in turn.
Position(k, n) == CopyDropItemPosition(TypeOf[k], n)

\* CreateDropItem, n times in a row, for kind k, from this id on
Created(k, n, first) ==
    [j \in 1..n |-> [id    |-> first + j - 1,
                     kind  |-> k,
                     pos   |-> Position(k, refreshIndex[k] + j - 1),
                     nth   |-> refreshIndex[k] + j - 1,
                     round |-> round]]

\* How many items Update creates at once for kind k: mInitCount the first time,
Initial(k) == IF k \in initialised THEN 0 ELSE InitCount[k]

\* Variant: the items are refreshed one beyond the maximum.
Refreshing_Beyond(k) == made[k] + Initial(k) <= MaxCount[k]

\* and one more when it is short of mMaxCount and its timer has run out.
Refreshing(k) == made[k] + Initial(k) < MaxCount[k]

Due(k, t) == Refreshing(k) /\ timer[k] + t > RefreshTime[k]

New(k, t) == Initial(k) + (IF Due(k, t) THEN 1 ELSE 0)

\* Variant: every kind numbers its items from gID on.
NextId_Same(new) == gID

\* The id that follows those of the items that Update has created so far.
NextId(new) == gID + Len(new)

\* What Update creates, kind after kind.
NewItems(t) ==
    LET upto[k \in 0..Cardinality(Kinds)] ==
            IF k = 0 THEN <<>>
            ELSE upto[k - 1] \o Created(k, New(k, t), NextId(upto[k - 1]))
    IN  upto[Cardinality(Kinds)]

\* Variant: the coins of the last match are kept.
CoinsAtStart_Kept(S) == coinCount

CoinsAtStart(S) == [p \in Players |-> IF p \in S THEN 0 ELSE coinCount[p]]

\* Game::StartGame: DropItemManager::Init, and the coins of the players present.
StartGame(S) ==
    /\ loaded /\ ~playing
    /\ playing'      = TRUE
    /\ gID'          = 0
    /\ made'         = [k \in Kinds |-> 0]
    /\ refreshIndex' = [k \in Kinds |-> 0]
    /\ timer'        = [k \in Kinds |-> 0]
    /\ initialised'  = {}
    /\ coinCount'    = CoinsAtStart(S)
    /\ round'        = round + 1
    /\ starters'     = S
    /\ gained'       = [p \in Players |-> 0]
    /\ UNCHANGED <<configVars, loaded, alive>>

\* DropItemManager::Update, in a tick of Play; the tick may be the last one.
Update(t) ==
    /\ playing
    /\ playing' \in BOOLEAN
    /\ alive'        = alive \o NewItems(t)
    /\ gID'          = NextId(NewItems(t))
    /\ made'         = [k \in Kinds |-> made[k] + New(k, t)]
    /\ refreshIndex' = [k \in Kinds |-> refreshIndex[k] + New(k, t)]
    /\ timer'        = [k \in Kinds |->
                          IF ~Refreshing(k) THEN 0
                          ELSE IF Due(k, t) THEN timer[k] + t - RefreshTime[k]
                          ELSE timer[k] + t]
    /\ initialised'  = Kinds
    /\ UNCHANGED <<configVars, loaded, coinCount, history>>

\* Variant: the oldest item of that id is taken.
Found_Oldest(id) == CHOOSE i \in DOMAIN alive :
    alive[i].id = id /\ \A j \in DOMAIN alive : alive[j].id = id => i <= j

\* GetDropItem looks from the end: the youngest item of that id is taken.
Found(id) == CHOOSE i \in DOMAIN alive :
    alive[i].id = id /\ \A j \in DOMAIN alive : alive[j].id = id => j <= i

\* m_CoinCount of p after it has run into an item of kind k
Paid(p, k) ==
    IF TypeOf[k] = Icon THEN coinCount[p] + 1
    ELSE IF coinCount[p] > 0 THEN coinCount[p] - 1 ELSE 0

\* OnPlayerGetDropItem: whatever the state of the game.
OnPlayerGetDropItem(p, id) ==
    /\ \E i \in DOMAIN alive : alive[i].id = id
    /\ LET i == Found(id) IN
       /\ alive'     = RemoveAt(alive, i)
       /\ coinCount' = [coinCount EXCEPT ![p] = Paid(p, alive[i].kind)]
       /\ gained'    = [gained EXCEPT ![p] = IF TypeOf[alive[i].kind] = Icon THEN @ + 1 ELSE @]
    /\ UNCHANGED <<configVars, loaded, playing, gID, made, refreshIndex, timer, initialised,
                   round, starters>>

\* EndGame, StopGame or the balance: nothing of the items is touched.
Stop ==
    /\ playing
    /\ playing' = FALSE
    /\ UNCHANGED <<configVars, loaded, items, coinCount, history>>

\* A slot passes to another client in the middle of a match, with its coins.
ChangeHands(p) ==
    /\ starters' = starters \ {p}
    /\ UNCHANGED <<configVars, loaded, playing, items, coinCount, round, gained>>

-----------------------------------------------------------------------------
Init ==
    /\ ConfigInit
    /\ loaded = FALSE
    /\ playing = FALSE
    /\ alive = <<>>
    /\ gID = 0
    /\ made = [k \in Kinds |-> 0]
    /\ refreshIndex = [k \in Kinds |-> 0]
    /\ timer = [k \in Kinds |-> 0]
    /\ initialised = {}
    /\ coinCount = [p \in Players |-> 0]
    /\ round = 0 /\ starters = {}
    /\ gained = [p \in Players |-> 0]

Next ==
    \/ Script
    \/ \E S \in SUBSET Players : StartGame(S)
    \/ \E t \in Steps : Update(t)
    \/ \E p \in Players, i \in DOMAIN alive : OnPlayerGetDropItem(p, alive[i].id)
    \/ Stop
    \/ \E p \in Players : ChangeHands(p)

Spec == Init /\ [][Next]_vars

-----------------------------------------------------------------------------
(* Properties *)

\* Every variable keeps its type; m_CoinCount never goes below 0.
TypeOK ==
    /\ ConfigTypeOK
    /\ loaded \in BOOLEAN /\ playing \in BOOLEAN
    /\ alive \in Seq([id : Nat, kind : Kinds, pos : Positions \cup {NONE},
                      nth : Nat, round : Nat])
    /\ gID \in Nat
    /\ made \in [Kinds -> Nat] /\ refreshIndex \in [Kinds -> Nat]
    /\ timer \in [Kinds -> Nat]
    /\ initialised \subseteq Kinds
    /\ coinCount \in [Players -> Nat]
    /\ round \in Nat /\ starters \subseteq Players /\ gained \in [Players -> Nat]

ThisRound(i) == alive[i].round = round

\* Within a match every announced item has its own id, so a collection names one.
IdsDistinct ==
    \A i, j \in DOMAIN alive :
        ThisRound(i) /\ ThisRound(j) /\ alive[i].id = alive[j].id => i = j

\* An item left over from an earlier match, whose id the new match uses again, is
\* never paid in place of the one on the track.
LeftoversLast ==
    [][\A i \in DOMAIN alive :
          alive' = RemoveAt(alive, i) /\ ~ThisRound(i)
            => \A j \in DOMAIN alive : ThisRound(j) => alive[j].id # alive[i].id]_vars

Largest(a, b) == IF a > b THEN a ELSE b

\* The refresh never puts more items of a kind on the track than the larger of its
\* initial and its maximal number.
NeverOverfull ==
    \A k \in Kinds :
        Cardinality({i \in DOMAIN alive : ThisRound(i) /\ alive[i].kind = k})
            <= Largest(InitCount[k], MaxCount[k])

\* The n-th item of a kind lies at the n-th position that the script gave for its
\* type, or round again at the first, as long as no type was given more positions
\* than its row holds.
ItemsWhereGiven ==
    WithinRows =>
        \A i \in DOMAIN alive :
            LET places == given[TypeOf[alive[i].kind]]
            IN  alive[i].pos = places[(alive[i].nth % Len(places)) + 1]

\* A player who was there at the start is credited no more coins than it collected
\* in this match: nothing is carried over from the last one; obstacles cost coins, but
\* nobody is ever in debt.
CoinsEarned ==
    /\ \A p \in starters : coinCount[p] <= gained[p]
    /\ \A p \in Players : coinCount[p] >= 0
=============================================================================
