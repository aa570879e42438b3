----------------------------- MODULE GameProofs -----------------------------
(***************************************************************************)
(* What holds of Game for any number of slots, any times and any steps of  *)
(* the timer: its types, the load barrier, the results it reports, how     *)
(* matches end, its clocks, and that it implements Match.                  *)
(***************************************************************************)
EXTENDS Game, TLAPS

-----------------------------------------------------------------------------
(* Types *)

LEMMA StepType == ASSUME NEW t \in Steps PROVE t \in Nat /\ t >= 1 /\ t <= MaxStep
  BY GameAssumption, SMT

LEMMA TypeInit == Init => TypeOK
  BY GameAssumption, SMT DEF Init, TypeOK, States

\* What EndGame and Close do to the types.
LEMMA CloseType ==
    ASSUME TypeOK, NEW S, Close(S)
    PROVE  /\ open' \subseteq named
           /\ pending' \subseteq open' /\ roster' \subseteq open' /\ finished' \subseteq open'
  BY SMT DEF TypeOK, Close

LEMMA DisconnectedType ==
    ASSUME TypeOK, NEW c \in Slots, Disconnected(c)
    PROVE  TypeOK'
  <1>1. PICK S : Close(S) /\ state' \in {state, "Wait"}
    BY DEF Disconnected, EndGame
  <1>2. UNCHANGED <<clock, process, flags>>
    BY DEF Disconnected
  <1> QED
    BY <1>1, <1>2, CloseType, SMT DEF TypeOK, States, clock, process, flags

LEMMA UpdateType ==
    ASSUME TypeOK, NEW t \in Steps, Update(t)
    PROVE  TypeOK'
  <1> USE StepType, GameAssumption
  <1>1. restart' \in Nat /\ alive' \in BOOLEAN
    BY SMT DEF TypeOK, Update, Watch, Abandoned
  <1>2. UNCHANGED <<named, flags>>
    BY DEF Update
  <1>3. /\ state' \in States
        /\ runTime' \in Nat /\ syncTime' \in Nat /\ rankedAt' \in Nat /\ showTime' \in Int
        /\ open' \subseteq named
        /\ pending' \subseteq open' /\ roster' \subseteq open' /\ finished' \subseteq open'
    <2>1. CASE UNCHANGED <<state, clock, open, history>>
      BY <2>1, SMT DEF TypeOK, clock, history
    <2>2. CASE UpdateScore(t)
      <3>1. CASE EndGame({})
        <4>1. PICK S : Close(S) /\ state' = "Wait"
          BY <3>1 DEF EndGame
        <4> QED
          BY <2>2, <4>1, CloseType, SMT DEF TypeOK, UpdateScore, States
      <3>2. CASE UNCHANGED <<state, open, history>>
        BY <2>2, <3>2, SMT DEF TypeOK, UpdateScore, history
      <3> QED
        BY <2>2, <3>1, <3>2 DEF UpdateScore
    <2>3. CASE UpdateShow(t)
      BY <2>3, SMT DEF TypeOK, UpdateShow, history
    <2>4. CASE UpdatePlay(t)
      BY <2>4, SMT DEF TypeOK, UpdatePlay, Synced, Balanced, States, history
    <2> QED
      BY <2>1, <2>2, <2>3, <2>4 DEF Update, UpdateIdle
  <1> QED
    BY <1>1, <1>2, <1>3 DEF TypeOK, flags

LEMMA TypeStep == TypeOK /\ [Next]_vars => TypeOK'
  <1> SUFFICES ASSUME TypeOK, [Next]_vars PROVE TypeOK'
    OBVIOUS
  <1>1. ASSUME NEW c \in Slots, Connected(c) PROVE TypeOK'
    BY <1>1, SMT DEF TypeOK, Connected, Observers, clock, process, history
  <1>2. ASSUME NEW c \in Slots, FirstMessage(c) PROVE TypeOK'
    BY <1>2, SMT DEF TypeOK, FirstMessage, clock, process, history
  <1>3. ASSUME NEW c \in Slots, OnObPlayerJoin(c) PROVE TypeOK'
    BY <1>3, SMT DEF TypeOK, OnObPlayerJoin, Sends, clock, process, history
  <1>4. ASSUME NEW c \in Slots, OnBroadcastAvatarData(c) PROVE TypeOK'
    BY <1>4, SMT DEF TypeOK, OnBroadcastAvatarData, Sends, clock, process, history
  <1>5. ASSUME NEW c \in Slots, OnRequestLoadMap(c) PROVE TypeOK'
    BY <1>5, SMT DEF TypeOK, OnRequestLoadMap, Unloaded, Valid, States, clock, process
  <1>6. ASSUME NEW c \in Slots, OnClientMapLoaded(c) PROVE TypeOK'
    <2>1. CASE StartGame /\ state = "Load"
      BY <1>6, <2>1, GameAssumption, SMT
      DEF TypeOK, OnClientMapLoaded, StartGame, Uncompleted, Players, Valid, States, process
    <2>2. CASE UNCHANGED <<state, clock, complete, roster, finished>>
      BY <1>6, <2>2, SMT DEF TypeOK, OnClientMapLoaded, clock, process
    <2> QED
      BY <1>6, <2>1, <2>2 DEF OnClientMapLoaded, StartGame
  <1>7. ASSUME NEW c \in Slots, OnPlayerMove(c) PROVE TypeOK'
    BY <1>7, SMT DEF TypeOK, OnPlayerMove, Balanced, Sends, States, clock, process
  <1>8. ASSUME NEW c \in Slots, OnClientCommitSocre(c) PROVE TypeOK'
    BY <1>8, SMT DEF TypeOK, OnClientCommitSocre, States, process, flags, history
  <1>9. ASSUME NEW c \in Slots, OnPlayerStopGame(c) PROVE TypeOK'
    BY <1>9, SMT DEF TypeOK, OnPlayerStopGame, States, clock, process, flags, history
  <1>10. CASE UNCHANGED vars
    BY <1>10 DEF TypeOK, vars, clock, process, flags, history
  <1> QED
    BY <1>1, <1>2, <1>3, <1>4, <1>5, <1>6, <1>7, <1>8, <1>9, <1>10,
       DisconnectedType, UpdateType
    DEF Next, Client, Timer, Message, OnRequestSelectMapTooBig

\* Every field keeps its type in every match (TypeOK).
THEOREM TypeCorrect == Spec => []TypeOK
  BY TypeInit, TypeStep, PTL DEF Spec

-----------------------------------------------------------------------------
(* The load barrier *)

\* A step of the timer leaves the flags alone and closes all valid slots or none.
LEMMA TimerSlots ==
    ASSUME NEW t \in Steps, Update(t)
    PROVE  /\ UNCHANGED flags
           /\ \/ UNCHANGED <<open, history>>
              \/ Close(Valid) /\ state' = "Wait" /\ state = "SyncScore"
  <1>1. UNCHANGED flags
    BY DEF Update
  <1>2. CASE UpdateScore(t) /\ EndGame({})
    <2>1. {} \cup (IF state = "Wait" THEN {} ELSE Valid) = Valid
      BY <1>2 DEF UpdateScore
    <2>2. Close(Valid) /\ state' = "Wait"
      BY <1>2, <2>1 DEF EndGame
    <2> QED
      BY <1>1, <1>2, <2>2 DEF UpdateScore
  <1>3. CASE UNCHANGED <<open, history>>
    BY <1>1, <1>3
  <1> QED
    BY <1>1, <1>2, <1>3 DEF Update, UpdateScore, UpdateShow, UpdatePlay, UpdateIdle

\* A disconnection closes c, and with it nobody or every valid client.
LEMMA DisconnectedSlots ==
    ASSUME NEW c \in Slots, Disconnected(c)
    PROVE  /\ UNCHANGED <<clock, process, flags>>
           /\ c \in open
           /\ \/ /\ Close({c}) /\ UNCHANGED state
                 /\ c \in Valid => Remaining(c) # {}
              \/ /\ Close({c}) /\ state = "Wait" /\ UNCHANGED state
                 /\ c \in Valid
              \/ /\ Close(Valid) /\ state # "Wait" /\ state' = "Wait"
                 /\ c \in Valid
  <1>1. CASE c \in Valid /\ Remaining(c) = {}
    <2>1. EndGame({c})
      BY <1>1 DEF Disconnected
    <2>2. CASE state = "Wait"
      <3>1. Close({c} \cup {})
        BY <2>1, <2>2 DEF EndGame
      <3>2. {c} \cup {} = {c}
        OBVIOUS
      <3> QED
        BY <1>1, <2>1, <2>2, <3>1, <3>2 DEF Disconnected, EndGame
    <2>3. CASE state # "Wait"
      <3>1. Close({c} \cup Valid)
        BY <2>1, <2>3 DEF EndGame
      <3>2. {c} \cup Valid = Valid
        BY <1>1
      <3> QED
        BY <1>1, <2>1, <2>3, <3>1, <3>2 DEF Disconnected, EndGame
    <2> QED
      BY <2>2, <2>3
  <1>2. CASE ~(c \in Valid /\ Remaining(c) = {})
    BY <1>2 DEF Disconnected
  <1> QED
    BY <1>1, <1>2

LEMMA StillAwaitedStep == TypeOK /\ StillAwaited /\ [Next]_vars => StillAwaited'
  <1> SUFFICES ASSUME TypeOK, StillAwaited, [Next]_vars PROVE StillAwaited'
    OBVIOUS
  <1> USE DEF StillAwaited, Valid
  <1>1. ASSUME NEW c \in Slots, Connected(c) PROVE StillAwaited'
    BY <1>1 DEF TypeOK, Connected, Observers, history
  <1>2. ASSUME NEW c \in Slots, Disconnected(c) PROVE StillAwaited'
    BY <1>2, DisconnectedSlots DEF Close, flags
  <1>3. ASSUME NEW c \in Slots,
               FirstMessage(c) \/ OnObPlayerJoin(c) \/ OnBroadcastAvatarData(c)
        PROVE  StillAwaited'
    BY <1>3 DEF FirstMessage, OnObPlayerJoin, OnBroadcastAvatarData, history
  <1>4. ASSUME NEW c \in Slots, OnRequestLoadMap(c) PROVE StillAwaited'
    BY <1>4 DEF OnRequestLoadMap, Unloaded
  <1>5. ASSUME NEW c \in Slots, OnClientMapLoaded(c) PROVE StillAwaited'
    BY <1>5 DEF OnClientMapLoaded
  <1>6. ASSUME NEW c \in Slots,
               OnPlayerMove(c) \/ OnClientCommitSocre(c) \/ OnPlayerStopGame(c)
        PROVE  StillAwaited'
    BY <1>6 DEF OnPlayerMove, OnClientCommitSocre, OnPlayerStopGame, flags, history
  <1>7. ASSUME NEW t \in Steps, Update(t) PROVE StillAwaited'
    BY <1>7, TimerSlots DEF Close, flags, history
  <1>8. CASE UNCHANGED vars
    BY <1>8 DEF vars, flags, history
  <1> QED
    BY <1>1, <1>2, <1>3, <1>4, <1>5, <1>6, <1>7, <1>8
    DEF Next, Client, Timer, Message, OnRequestSelectMapTooBig

\* Whoever was sent SM_LAOD_GAME_MAP and has not answered is still waited for
\* (StillAwaited), however clients come, go and change their roles.
THEOREM BarrierInvariant == Spec => []StillAwaited
  <1>1. Init => StillAwaited
    BY DEF Init, StillAwaited
  <1> QED
    BY <1>1, TypeInit, TypeStep, StillAwaitedStep, PTL DEF Spec

\* The game enters Show only from OnClientMapLoaded, in Load, with every valid slot
\* loaded.
LEMMA OnlyLoadedStarts ==
    ASSUME [Next]_vars, state # "Show", state' = "Show"
    PROVE  \E c \in Slots : /\ OnClientMapLoaded(c)
                            /\ AllLoaded(mapLoaded')
  <1>1. ASSUME NEW c \in Slots, Disconnected(c) PROVE FALSE
    BY <1>1, DisconnectedSlots
  <1>2. ASSUME NEW t \in Steps, Update(t) PROVE FALSE
    BY <1>2 DEF Update, UpdateScore, UpdateShow, UpdatePlay, UpdateIdle, EndGame, Balanced
  <1>3. ASSUME NEW c \in Slots, OnPlayerMove(c) PROVE FALSE
    BY <1>3 DEF OnPlayerMove, Balanced
  <1>4. PICK c \in Slots : OnClientMapLoaded(c)
    BY <1>1, <1>2, <1>3
    DEF Next, Client, Timer, Message, vars, Connected, FirstMessage, OnObPlayerJoin,
        OnBroadcastAvatarData, OnRequestSelectMapTooBig, OnRequestLoadMap,
        OnClientCommitSocre, OnPlayerStopGame
  <1> QED
    BY <1>4 DEF OnClientMapLoaded

\* The match starts only when every client that was sent the map has answered since
\* or has gone (StartNeedsAnswers).
THEOREM StartSafe == Spec => StartNeedsAnswers
  <1>1. StillAwaited /\ [Next]_vars
            => [state # "Show" /\ state' = "Show" => pending' = {}]_vars
    <2> SUFFICES ASSUME StillAwaited, [Next]_vars, state # "Show", state' = "Show"
                 PROVE  pending' = {}
      OBVIOUS
    <2>1. PICK c \in Slots : OnClientMapLoaded(c) /\ AllLoaded(mapLoaded')
      BY OnlyLoadedStarts
    <2> QED
      BY <2>1 DEF OnClientMapLoaded, AllLoaded, StillAwaited
  <1> QED
    BY <1>1, BarrierInvariant, PTL DEF Spec, StartNeedsAnswers

\* While the clients load, the answer that completes the barrier is the start
\* (NobodyKeptWaiting).
THEOREM LastAnswerStarts == Spec => NobodyKeptWaiting
  <1>1. [Next]_vars => [state = "Load" /\ state' = "Load" /\ ~AllLoaded(mapLoaded)
                            => ~AllLoaded(mapLoaded)' \/ open' # open]_vars
    <2> SUFFICES ASSUME [Next]_vars, state = "Load", state' = "Load",
                        ~AllLoaded(mapLoaded), open' = open
                 PROVE  ~AllLoaded(mapLoaded)'
      OBVIOUS
    <2>1. PICK w \in Valid : w \notin mapLoaded
      BY DEF AllLoaded
    <2>2. CASE UNCHANGED <<userInfo, mapLoaded>> /\ ob \subseteq ob'
      BY <2>1, <2>2 DEF Valid, AllLoaded
    <2>3. CASE UNCHANGED ob /\ UNCHANGED mapLoaded /\ userInfo \subseteq userInfo'
      BY <2>1, <2>3 DEF Valid, AllLoaded
    <2>4. ASSUME NEW c \in Slots, OnRequestLoadMap(c) PROVE ~AllLoaded(mapLoaded)'
      BY <2>1, <2>4 DEF OnRequestLoadMap, Unloaded, Valid, AllLoaded
    <2>5. ASSUME NEW c \in Slots, OnClientMapLoaded(c) PROVE ~AllLoaded(mapLoaded)'
      <3>1. ~(Valid \subseteq mapLoaded')
        BY <2>5 DEF OnClientMapLoaded, StartGame, AllLoaded
      <3>2. Valid' = Valid
        BY <2>5 DEF OnClientMapLoaded, Valid
      <3> QED
        BY <3>1, <3>2 DEF AllLoaded
    <2>6. ASSUME NEW c \in Slots, Disconnected(c) \/ Connected(c) PROVE FALSE
      BY <2>6 DEF Disconnected, EndGame, Close, Connected
    <2>7. ASSUME NEW t \in Steps, Update(t) PROVE ~AllLoaded(mapLoaded)'
      BY <2>2, <2>7, TimerSlots DEF flags
    <2>8. ASSUME NEW c \in Slots, Message(c) PROVE ~AllLoaded(mapLoaded)'
      BY <2>2, <2>3, <2>4, <2>5, <2>6, <2>8
      DEF Message, FirstMessage, OnObPlayerJoin, OnBroadcastAvatarData,
          OnRequestSelectMapTooBig, OnPlayerMove, OnClientCommitSocre, OnPlayerStopGame, flags
    <2> QED
      BY <2>2, <2>6, <2>7, <2>8 DEF Next, Client, Timer, vars, flags
  <1> QED
    BY <1>1, PTL DEF Spec, NobodyKeptWaiting

-----------------------------------------------------------------------------
(* The results that are reported *)

LEMMA HonestStep == TypeOK /\ HonestResult /\ [Next]_vars => HonestResult'
  <1> SUFFICES ASSUME TypeOK, HonestResult, [Next]_vars PROVE HonestResult'
    OBVIOUS
  <1> USE DEF HonestResult, InMatch
  <1>1. ASSUME NEW c \in Slots, Connected(c) PROVE HonestResult'
    BY <1>1 DEF Connected, history
  <1>2. ASSUME NEW c \in Slots, Disconnected(c) PROVE HonestResult'
    BY <1>2, DisconnectedSlots DEF Close, flags
  <1>3. ASSUME NEW c \in Slots,
               FirstMessage(c) \/ OnObPlayerJoin(c) \/ OnBroadcastAvatarData(c)
        PROVE  HonestResult'
    BY <1>3 DEF FirstMessage, OnObPlayerJoin, OnBroadcastAvatarData, history
  <1>4. ASSUME NEW c \in Slots, OnRequestLoadMap(c) PROVE HonestResult'
    BY <1>4 DEF OnRequestLoadMap
  <1>5. ASSUME NEW c \in Slots, OnClientMapLoaded(c) PROVE HonestResult'
    BY <1>5 DEF OnClientMapLoaded, StartGame, Uncompleted
  <1>6. ASSUME NEW c \in Slots, OnPlayerMove(c) PROVE HonestResult'
    BY <1>6 DEF OnPlayerMove, Balanced, TypeOK
  <1>7. ASSUME NEW c \in Slots, OnClientCommitSocre(c) \/ OnPlayerStopGame(c)
        PROVE  HonestResult'
    BY <1>7 DEF OnClientCommitSocre, OnPlayerStopGame, flags, history
  <1>8. ASSUME NEW t \in Steps, Update(t) PROVE HonestResult'
    <2>1. UNCHANGED complete
      BY <1>8 DEF Update, flags
    <2>2. CASE Close(Valid) /\ state' = "Wait"
      BY <2>2
    <2>3. CASE UNCHANGED <<open, history>> /\ InMatch
      BY <2>1, <2>3 DEF history
    <2>4. CASE UNCHANGED <<open, history>> /\ ~InMatch
      BY <1>8, <2>4 DEF Update, UpdateScore, UpdateShow, UpdatePlay, UpdateIdle, EndGame
    <2> QED
      BY <1>8, <2>2, <2>3, <2>4, TimerSlots
  <1>9. CASE UNCHANGED vars
    BY <1>9 DEF vars, flags, history
  <1> QED
    BY <1>1, <1>2, <1>3, <1>4, <1>5, <1>6, <1>7, <1>8, <1>9
    DEF Next, Client, Timer, Message, OnRequestSelectMapTooBig

\* What is reported as completed for the clients of SM_GAME_START is what they did in
\* this match (HonestResult), whatever the slots were used for before.
THEOREM ResultInvariant == Spec => []HonestResult
  <1>1. Init => HonestResult
    BY DEF Init, HonestResult, InMatch
  <1> QED
    BY <1>1, TypeInit, TypeStep, HonestStep, PTL DEF Spec

-----------------------------------------------------------------------------
(* How matches end, and who is in them *)

\* A slot that changes hands starts as a stranger (NoInheritedIdentity).
THEOREM FreshIdentity == Spec => NoInheritedIdentity
  <1>1. [Next]_vars => [(open' \ open) \cap Valid' = {}]_vars
    <2> SUFFICES ASSUME [Next]_vars, open' \ open # {}
                 PROVE  (open' \ open) \cap Valid' = {}
      OBVIOUS
    <2>1. ASSUME NEW c \in Slots, Disconnected(c) PROVE FALSE
      BY <2>1, DisconnectedSlots DEF Close
    <2>2. ASSUME NEW t \in Steps, Update(t) PROVE FALSE
      BY <2>2, TimerSlots DEF Close
    <2>3. PICK c \in Slots : Connected(c)
      BY <2>1, <2>2
      DEF Next, Client, Timer, Message, vars, FirstMessage, OnObPlayerJoin,
          OnBroadcastAvatarData, OnRequestSelectMapTooBig, OnRequestLoadMap,
          OnClientMapLoaded, OnPlayerMove, OnClientCommitSocre, OnPlayerStopGame
    <2> QED
      BY <2>3 DEF Connected, Observers, Valid
  <1> QED
    BY <1>1, PTL DEF Spec, NoInheritedIdentity

\* When the match becomes Wait every valid client has been disconnected or nobody
\* has (ClosedTogether).
THEOREM MatchClosesTogether == Spec => ClosedTogether
  <1>1. [Next]_vars
            => [state # "Wait" /\ state' = "Wait" => Valid' = {} \/ open' = open]_vars
    <2> SUFFICES ASSUME [Next]_vars, state # "Wait", state' = "Wait", open' # open
                 PROVE  Valid' = {}
      OBVIOUS
    <2>1. ASSUME NEW c \in Slots, Disconnected(c) PROVE Valid' = {}
      BY <2>1, DisconnectedSlots DEF Close, Valid, flags
    <2>2. ASSUME NEW t \in Steps, Update(t) PROVE Valid' = {}
      BY <2>2, TimerSlots DEF Close, Valid, flags
    <2> QED
      BY <2>1, <2>2
      DEF Next, Client, Timer, Message, vars, Connected, FirstMessage, OnObPlayerJoin,
          OnBroadcastAvatarData, OnRequestSelectMapTooBig, OnRequestLoadMap,
          OnClientMapLoaded, OnPlayerMove, OnClientCommitSocre, OnPlayerStopGame
  <1> QED
    BY <1>1, PTL DEF Spec, ClosedTogether

\* A match does not outlive its last player (NoOrphanMatch).
THEOREM NoMatchWithoutPlayer == Spec => NoOrphanMatch
  <1>1. TypeOK /\ [Next]_vars
            => [Players # {} /\ Players' = {} => state' = "Wait" \/ ob' # ob]_vars
    <2> SUFFICES ASSUME TypeOK, [Next]_vars, Players # {}, Players' = {}, ob' = ob
                 PROVE  state' = "Wait"
      OBVIOUS
    <2> USE DEF Players, Valid
    <2>1. ASSUME NEW c \in Slots, Disconnected(c) PROVE state' = "Wait"
      BY <2>1, DisconnectedSlots DEF Close, Remaining, flags
    <2>2. ASSUME NEW t \in Steps, Update(t) PROVE state' = "Wait"
      BY <2>2, TimerSlots DEF flags
    <2>3. ASSUME NEW c \in Slots, Connected(c) PROVE FALSE
      BY <2>3 DEF Connected
    <2>4. ASSUME NEW c \in Slots, Message(c) PROVE state' = "Wait"
      BY <2>1, <2>4
      DEF Message, FirstMessage, OnObPlayerJoin, OnBroadcastAvatarData,
          OnRequestSelectMapTooBig, OnRequestLoadMap, OnClientMapLoaded, OnPlayerMove,
          OnClientCommitSocre, OnPlayerStopGame, flags
    <2>5. CASE UNCHANGED vars
      BY <2>5 DEF vars, flags
    <2> QED
      BY <2>1, <2>2, <2>3, <2>4, <2>5 DEF Next, Client, Timer
  <1> QED
    BY <1>1, TypeInit, TypeStep, PTL DEF Spec, NoOrphanMatch

-----------------------------------------------------------------------------
(* The clocks *)

\* Where the clocks can be in each phase: the race overruns by one step at most.
ClockInv ==
    /\ state = "Show" => runTime = 0 /\ syncTime = 0
    /\ state = "Play" => runTime <= TotleTime /\ runTime - syncTime \in 0..SyncPeriod
    /\ state = "Balance" => runTime <= TotleTime + MaxStep
    /\ state = "SyncScore" => rankedAt <= TotleTime + MaxStep

LEMMA ClockStep == TypeOK /\ ClockInv /\ [Next]_vars => ClockInv'
  <1> SUFFICES ASSUME TypeOK, ClockInv, [Next]_vars PROVE ClockInv'
    OBVIOUS
  <1> USE GameAssumption
  <1>1. CASE UNCHANGED clock /\ (UNCHANGED state \/ state' \in {"Wait", "Load"})
    BY <1>1 DEF ClockInv, clock
  <1>2. ASSUME NEW c \in Slots, Disconnected(c) PROVE ClockInv'
    BY <1>1, <1>2, DisconnectedSlots
  <1>3. ASSUME NEW c \in Slots, OnClientMapLoaded(c) PROVE ClockInv'
    BY <1>1, <1>3 DEF ClockInv, OnClientMapLoaded, StartGame
  <1>4. ASSUME NEW c \in Slots, OnPlayerMove(c) PROVE ClockInv'
    BY <1>4, SMT DEF ClockInv, OnPlayerMove, Balanced, clock, TypeOK
  <1>5. ASSUME NEW c \in Slots, OnClientCommitSocre(c) PROVE ClockInv'
    BY <1>5, SMT DEF ClockInv, OnClientCommitSocre, TypeOK
  <1>6. ASSUME NEW t \in Steps, Update(t) PROVE ClockInv'
    <2>1. t \in Nat /\ t >= 1 /\ t <= MaxStep
      BY StepType
    <2>2. CASE UNCHANGED <<state, clock, open, history>>
      BY <1>1, <2>2
    <2>3. CASE UpdateScore(t)
      BY <2>3, SMT DEF ClockInv, UpdateScore, EndGame
    <2>4. CASE UpdateShow(t)
      BY <2>4, SMT DEF ClockInv, UpdateShow
    <2>5. CASE UpdatePlay(t)
      BY <2>1, <2>5, SMT DEF ClockInv, UpdatePlay, Synced, TimeUp, Balanced, TypeOK
    <2> QED
      BY <1>6, <2>2, <2>3, <2>4, <2>5 DEF Update, UpdateIdle
  <1>7. CASE UNCHANGED vars
    BY <1>1, <1>7 DEF vars
  <1> QED
    BY <1>1, <1>2, <1>3, <1>4, <1>5, <1>6, <1>7
    DEF Next, Client, Timer, Message, Connected, FirstMessage, OnObPlayerJoin,
        OnBroadcastAvatarData, OnRequestSelectMapTooBig, OnRequestLoadMap,
        OnPlayerStopGame

LEMMA ClockInvariant == Spec => []ClockInv
  <1>1. Init => ClockInv
    BY DEF Init, ClockInv
  <1> QED
    BY <1>1, TypeInit, TypeStep, ClockStep, PTL DEF Spec

\* During the match its clients know the time to within SyncPeriod (TimeSynced),
\* whatever the steps of the timer.
THEOREM ClientsKnowTheTime == Spec => []TimeSynced
  <1>1. ClockInv => TimeSynced
    BY DEF ClockInv, TimeSynced
  <1> QED
    BY <1>1, ClockInvariant, PTL

\* The timer ends a ranking only after the announced time, less the one step by which
\* the race may have overrun (ScoreShownLongEnough).
THEOREM RankingStays == Spec => ScoreShownLongEnough
  <1>1. TypeOK /\ ClockInv /\ [Next]_vars
            => [state = "SyncScore" /\ runTime' # runTime /\ state' = "Wait"
                  => runTime' - rankedAt > BalanceTime - MaxStep]_vars
    <2> SUFFICES ASSUME TypeOK, ClockInv, [Next]_vars,
                        state = "SyncScore", runTime' # runTime, state' = "Wait"
                 PROVE  runTime' - rankedAt > BalanceTime - MaxStep
      OBVIOUS
    <2>1. ASSUME NEW c \in Slots, Connected(c) \/ Disconnected(c) \/ Message(c)
          PROVE  FALSE
      BY <2>1, DisconnectedSlots
      DEF Message, Connected, FirstMessage, OnObPlayerJoin, OnBroadcastAvatarData,
          OnRequestSelectMapTooBig, OnRequestLoadMap, OnClientMapLoaded, StartGame,
          OnPlayerMove, OnClientCommitSocre, OnPlayerStopGame, clock
    <2>2. PICK t \in Steps : Update(t)
      BY <2>1 DEF Next, Client, Timer, vars, clock
    <2>3. UpdateScore(t)
      BY <2>2 DEF Update, UpdateShow, UpdatePlay, UpdateIdle, clock
    <2>4. RankingOver(runTime') /\ runTime' = runTime + t
      BY <2>3 DEF UpdateScore
    <2> QED
      BY <2>4, GameAssumption, StepType, SMT DEF RankingOver, TypeOK, ClockInv
  <1> QED
    BY <1>1, TypeInit, TypeStep, ClockInvariant, PTL DEF Spec, ScoreShownLongEnough

-----------------------------------------------------------------------------
(* Refinement *)

LEMMA DisconnectedImplements ==
    ASSUME TypeOK, NEW c \in Slots, Disconnected(c)
    PROVE  [M!Next]_(M!vars)
  <1>1. UNCHANGED <<userInfo, ob>>
    BY DisconnectedSlots DEF flags
  <1>2. CASE Close({c}) /\ UNCHANGED state
    <2>1. Valid' = Valid \ {c} /\ Players' = Players \ {c}
      BY <1>1, <1>2 DEF Close, Valid, Players
    <2>2. CASE c \in Valid
      <3>1. Players \ {c} # {} \/ state = "Wait"
        BY <1>2, <2>2, DisconnectedSlots DEF Remaining
      <3>2. M!Leave(c)
        BY <1>2, <2>1, <2>2, <3>1 DEF M!Leave
      <3> QED
        BY <3>2 DEF M!Next
    <2>3. CASE c \notin Valid
      BY <1>2, <2>1, <2>3 DEF M!vars, Players
    <2> QED
      BY <2>2, <2>3
  <1>3. CASE Close(Valid) /\ state # "Wait" /\ state' = "Wait"
    <2>1. Valid' = {} /\ Players' = {}
      BY <1>1, <1>3 DEF Close, Valid, Players
    <2>2. M!Close
      BY <1>3, <2>1 DEF M!Close
    <2> QED
      BY <2>2 DEF M!Next
  <1> QED
    BY <1>2, <1>3, DisconnectedSlots

LEMMA UpdateImplements ==
    ASSUME NEW t \in Steps, Update(t)
    PROVE  [M!Next]_(M!vars)
  <1>1. UNCHANGED <<userInfo, ob>>
    BY TimerSlots DEF flags
  <1>2. CASE Close(Valid) /\ state' = "Wait" /\ state = "SyncScore"
    <2>1. Valid' = {} /\ Players' = {}
      BY <1>1, <1>2 DEF Close, Valid, Players
    <2>2. M!Close
      BY <1>2, <2>1 DEF M!Close
    <2> QED
      BY <2>2 DEF M!Next
  <1>3. CASE UNCHANGED open
    <2>1. UNCHANGED <<Valid, Players>>
      BY <1>1, <1>3 DEF Valid, Players
    <2>2. CASE UNCHANGED state
      BY <2>1, <2>2 DEF M!vars
    <2>3. CASE UpdatePlay(t) /\ state' # state
      <3>1. M!Start \/ M!Balance
        BY <2>3 DEF UpdatePlay, Balanced, M!Start, M!Balance
      <3> QED
        BY <2>1, <3>1 DEF M!Next, M!Advance
    <2>4. CASE UpdateScore(t) /\ EndGame({})
      <3>1. Close(Valid) /\ state' = "Wait" /\ state = "SyncScore"
        <4>1. {} \cup (IF state = "Wait" THEN {} ELSE Valid) = Valid
          BY <2>4 DEF UpdateScore
        <4> QED
          BY <2>4, <4>1 DEF UpdateScore, EndGame
      <3> QED
        BY <1>2, <3>1
    <2> QED
      BY <2>2, <2>3, <2>4 DEF Update, UpdateScore, UpdateShow, UpdateIdle
  <1> QED
    BY <1>2, <1>3, TimerSlots

LEMMA MessageImplements ==
    ASSUME TypeOK, NEW c \in Slots, Message(c)
    PROVE  [M!Next]_(M!vars)
  <1>1. CASE OnRequestSelectMapTooBig(c)
    BY <1>1, DisconnectedImplements DEF OnRequestSelectMapTooBig
  <1>2. CASE FirstMessage(c)
    BY <1>2 DEF FirstMessage, Valid, Players, M!vars
  <1>3. CASE c \in open /\ OnObPlayerJoin(c)
    <2>1. Valid' = Valid \cup {c} /\ Players' = Players \ {c} /\ UNCHANGED state
      BY <1>3 DEF OnObPlayerJoin, Valid, Players
    <2>2. CASE c \notin Valid \/ c \in Players
      <3>1. M!Watch(c)
        BY <2>1, <2>2 DEF M!Watch
      <3> QED
        BY <3>1 DEF M!Next
    <2>3. CASE c \in Valid /\ c \notin Players
      BY <2>1, <2>3 DEF M!vars
    <2> QED
      BY <2>2, <2>3
  <1>4. CASE c \in open /\ OnBroadcastAvatarData(c)
    <2>1. Valid' = Valid \cup {c} /\ UNCHANGED <<state, ob>>
      BY <1>4 DEF OnBroadcastAvatarData, Valid
    <2>2. CASE c \in Valid
      BY <2>1, <2>2 DEF Players, M!vars
    <2>3. CASE c \notin Valid
      <3>1. c \notin ob
        BY <1>4, <2>3 DEF Valid
      <3>2. Players' = Players \cup {c}
        BY <2>1, <3>1 DEF Players
      <3>3. M!Play(c)
        BY <2>1, <2>3, <3>2 DEF M!Play
      <3> QED
        BY <3>3 DEF M!Next
    <2> QED
      BY <2>2, <2>3
  <1>5. ASSUME UNCHANGED <<open, userInfo, ob>>,
               UNCHANGED state \/ M!Gather \/ M!Show \/ M!Balance \/ M!Publish \/ M!Abort
        PROVE  [M!Next]_(M!vars)
    <2>1. UNCHANGED <<Valid, Players>>
      BY <1>5 DEF Valid, Players
    <2> QED
      BY <1>5, <2>1 DEF M!Next, M!Advance, M!vars
  <1>6. CASE OnRequestLoadMap(c)
    BY <1>5, <1>6 DEF OnRequestLoadMap, M!Gather
  <1>7. CASE OnClientMapLoaded(c)
    BY <1>5, <1>7 DEF OnClientMapLoaded, StartGame, M!Show
  <1>8. CASE OnPlayerMove(c)
    BY <1>5, <1>8 DEF OnPlayerMove, Balanced, M!Balance
  <1>9. CASE OnClientCommitSocre(c)
    BY <1>5, <1>9 DEF OnClientCommitSocre, M!Publish, flags
  <1>10. CASE OnPlayerStopGame(c)
    BY <1>5, <1>10 DEF OnPlayerStopGame, M!Abort, flags
  \* What a freed slot says of itself makes nobody a member.
  <1>11. CASE c \notin open /\ (OnObPlayerJoin(c) \/ OnBroadcastAvatarData(c))
    <2>1. UNCHANGED <<state, Valid, Players>>
      BY <1>11 DEF OnObPlayerJoin, OnBroadcastAvatarData, Valid, Players
    <2> QED
      BY <2>1 DEF M!vars
  <1> QED
    BY <1>1, <1>2, <1>3, <1>4, <1>6, <1>7, <1>8, <1>9, <1>10, <1>11 DEF Message

\* The game implements Match (ImplementsMatch): phases in their order, and a match
\* lives and closes with its players.
THEOREM GameImplementsMatch == Spec => ImplementsMatch
  <1>1. Init => M!Init
    BY DEF Init, M!Init, Valid, Players
  <1>2. TypeOK /\ [Next]_vars => [M!Next]_(M!vars)
    <2> SUFFICES ASSUME TypeOK, [Next]_vars PROVE [M!Next]_(M!vars)
      OBVIOUS
    <2>1. ASSUME NEW c \in Slots, Connected(c) PROVE [M!Next]_(M!vars)
      <3>1. UNCHANGED <<state, Valid, Players>>
        BY <2>1 DEF Connected, Observers, Valid, Players
      <3> QED
        BY <3>1 DEF M!vars
    <2>2. CASE UNCHANGED vars
      BY <2>2 DEF vars, flags, M!vars, Valid, Players
    <2> QED
      BY <2>1, <2>2, DisconnectedImplements, MessageImplements, UpdateImplements
      DEF Next, Client, Timer
  <1> QED
    BY <1>1, <1>2, TypeInit, TypeStep, PTL DEF Spec, ImplementsMatch, M!Spec

=============================================================================
