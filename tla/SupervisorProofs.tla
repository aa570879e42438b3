-------------------------- MODULE SupervisorProofs --------------------------
(* Proofs about Supervisor, for any number of processes. *)
EXTENDS Supervisor, TLAPS

\* The servers that have taken their snapshot.
PastScan == {p \in Pids : role[p] = "server" /\ pc[p] \in {"kill", "launch", "setup", "serving"}}

\* p has yet to visit q.
Hunts(p, q) == pc[p] = "kill" /\ q \in seen[p]

\* Of two servers with a snapshot the later one has the earlier one in it, and has not
\* visited it yet: the strengthening that makes OneServer inductive.
LaterHunts == \A p, q \in PastScan : p # q => Hunts(p, q) \/ Hunts(q, p)

-----------------------------------------------------------------------------
(* The building blocks of the actions *)

\* A process that ends takes nothing from the others.
LEMMA GoneKeepsHunt ==
    ASSUME TypeOK, LaterHunts, NEW x \in Pids, Gone(x)
    PROVE  LaterHunts'
  BY DEF TypeOK, LaterHunts, PastScan, Hunts, Gone, Goto

\* A new process is at "start" and in no snapshot that matters.
LEMMA CreateKeepsHunt ==
    ASSUME TypeOK, LaterHunts, NEW x \in Pids, NEW at, NEW r,
           pc[x] # "kill", Create(x, at, r),
           at \in {"kill", "launch", "setup", "serving"} => x \in PastScan
    PROVE  LaterHunts'
  <1>1. PICK n \in Pids \ Live :
            /\ pc'   = [pc EXCEPT ![x] = at, ![n] = "start"]
            /\ role' = [role EXCEPT ![n] = r]
            /\ seen' = [seen EXCEPT ![x] = {}]
    BY DEF Create
  <1>2. PastScan' \subseteq PastScan
    BY <1>1 DEF TypeOK, PastScan
  <1>3. ASSUME NEW p \in PastScan', NEW q \in Pids, Hunts(p, q)
        PROVE  Hunts(p, q)'
    BY <1>1, <1>3 DEF TypeOK, PastScan, Hunts
  <1> QED
    BY <1>2, <1>3 DEF LaterHunts, PastScan

\* A server that goes on from a place where it hunts nobody disturbs nothing.
LEMMA GotoKeepsHunt ==
    ASSUME TypeOK, LaterHunts, NEW x \in Pids, NEW at, Goto(x, at),
           \A p \in Pids \ {x} : seen'[p] = seen[p],
           pc[x] = "kill" => seen[x] = {},
           at \in {"launch", "setup", "serving"} => x \in PastScan,
           at # "kill"
    PROVE  LaterHunts'
  BY DEF TypeOK, LaterHunts, PastScan, Hunts, Goto

-----------------------------------------------------------------------------
LEMMA StepType == TypeOK /\ [Next]_vars => TypeOK'
  <1> USE DEF TypeOK, Goto, Gone, Create, Snapshot, Live
  <1> SUFFICES ASSUME TypeOK, [Next]_vars PROVE TypeOK'
    OBVIOUS
  <1>1. CASE UserStarts
    BY <1>1 DEF UserStarts
  <1>2. ASSUME NEW p \in Pids, Starts(p) \/ InitFails(p) \/ Crashes(p) \/ Quits(p) \/ Exits(p)
        PROVE  TypeOK'
    BY <1>2 DEF Starts, InitFails, Crashes, Quits, Exits
  <1>3. ASSUME NEW p \in Pids, Scan(p) \/ KillLoopEnds(p) \/ Serves(p)
        PROVE  TypeOK'
    BY <1>3 DEF Scan, KillLoopEnds, Serves
  <1>4. ASSUME NEW p \in Pids, NEW q \in Pids, Kill(p, q)
        PROVE  TypeOK'
    BY <1>4 DEF Kill, Unvisited
  <1>5. ASSUME NEW p \in Pids, LaunchDaemon(p) \/ LaunchFails(p)
        PROVE  TypeOK'
    BY <1>5 DEF LaunchDaemon, LaunchFails
  <1>6. ASSUME NEW p \in Pids, Look(p) \/ FindsServer(p) \/ RelaunchFails(p)
        PROVE  TypeOK'
    BY <1>6 DEF Look, FindsServer, RelaunchFails
  <1>7. ASSUME NEW p \in Pids, Relaunch(p)
        PROVE  TypeOK'
    BY <1>7 DEF Relaunch, Relaunched
  <1>8. CASE UNCHANGED vars
    BY <1>8 DEF vars
  <1> QED
    BY <1>1, <1>2, <1>3, <1>4, <1>5, <1>6, <1>7, <1>8
    DEF Next, Step, Server, Daemon, Fault

LEMMA StepHunt == TypeOK /\ LaterHunts /\ [Next]_vars => LaterHunts'
  <1> SUFFICES ASSUME TypeOK, LaterHunts, [Next]_vars PROVE LaterHunts'
    OBVIOUS
  <1>1. CASE UserStarts
    BY <1>1 DEF UserStarts, TypeOK, LaterHunts, PastScan, Hunts, Live
  <1>2. ASSUME NEW p \in Pids, InitFails(p) \/ Crashes(p) \/ Quits(p) \/ Exits(p)
        PROVE  LaterHunts'
    BY <1>2, GoneKeepsHunt DEF InitFails, Crashes, Quits, Exits
  <1>3. ASSUME NEW p \in Pids, Starts(p) PROVE LaterHunts'
    <2>1. PICK at \in {"look", "scan"} : Goto(p, at)
      BY <1>3 DEF Starts
    <2> QED
      BY <1>3, <2>1, GotoKeepsHunt DEF Starts
  <1>4. ASSUME NEW p \in Pids, Scan(p) PROVE LaterHunts'
    \* The snapshot holds everybody who has one already.
    <2>1. /\ PastScan' = PastScan \cup {p}
          /\ \A q \in PastScan : q # p => Hunts(p, q)'
          /\ \A q, r \in Pids : q # p /\ Hunts(q, r) => Hunts(q, r)'
      BY <1>4 DEF Scan, Is, Goto, Snapshot, TypeOK, PastScan, Hunts, Live
    <2>2. p \notin PastScan
      BY <1>4 DEF Scan, Is, PastScan
    <2> QED
      BY <2>1, <2>2 DEF LaterHunts, PastScan
  <1>5. ASSUME NEW p \in Pids, NEW q \in Pids, Kill(p, q) PROVE LaterHunts'
    <2>1. /\ PastScan' = PastScan \ {q}
          /\ \A r \in PastScan', s \in PastScan' : Hunts(r, s) => Hunts(r, s)'
      BY <1>5 DEF Kill, Is, Unvisited, TypeOK, PastScan, Hunts
    <2> QED
      BY <2>1 DEF LaterHunts
  <1>6. ASSUME NEW p \in Pids, KillLoopEnds(p) \/ Serves(p) \/ LaunchFails(p)
        PROVE  LaterHunts'
    \* The loop ends with nobody left to visit.
    <2>1. /\ p \in PastScan
          /\ pc[p] = "kill" => seen[p] = {}
          /\ \E at \in {"launch", "setup", "serving"} : Goto(p, at)
          /\ UNCHANGED seen
      BY <1>6 DEF KillLoopEnds, Serves, LaunchFails, Is, PastScan
    <2> QED
      BY <2>1, GotoKeepsHunt
  <1>7. ASSUME NEW p \in Pids, LaunchDaemon(p) PROVE LaterHunts'
    <2>0. p \in PastScan /\ pc[p] = "launch"
      BY <1>7 DEF LaunchDaemon, Is, PastScan
    <2>1. CASE AsDaemon
      BY <1>7, <2>0, <2>1, CreateKeepsHunt DEF LaunchDaemon
    <2>2. CASE ~AsDaemon
      BY <1>7, <2>0, <2>2, GotoKeepsHunt DEF LaunchDaemon
    <2> QED
      BY <2>1, <2>2
  <1>8. ASSUME NEW p \in Pids, Look(p) \/ FindsServer(p) \/ RelaunchFails(p)
        PROVE  LaterHunts'
    <2>1. /\ pc[p] # "kill"
          /\ \E at \in {"look", "judge"} : Goto(p, at)
          /\ \A q \in Pids \ {p} : seen'[q] = seen[q]
      BY <1>8 DEF Look, FindsServer, RelaunchFails, Is, Snapshot, TypeOK
    <2> QED
      BY <2>1, GotoKeepsHunt
  <1>9. ASSUME NEW p \in Pids, Relaunch(p) PROVE LaterHunts'
    BY <1>9, CreateKeepsHunt DEF Relaunch, Is
  <1>10. CASE UNCHANGED vars
    BY <1>10 DEF vars, LaterHunts, PastScan, Hunts
  <1> QED
    BY <1>1, <1>2, <1>3, <1>4, <1>5, <1>6, <1>7, <1>8, <1>9, <1>10
    DEF Next, Step, Server, Daemon, Fault

-----------------------------------------------------------------------------
\* The process table keeps its type.
THEOREM TypeCorrect == Spec => []TypeOK
  <1>1. Init => TypeOK
    BY DEF Init, TypeOK
  <1> QED
    BY <1>1, StepType, PTL DEF Spec

\* However many servers are started at a time, and whoever crashes in between, at
\* most one is past the process check of server.cpp, for any number of processes.
THEOREM OneServerInvariant == Spec => []OneServer
  <1>1. Init => LaterHunts
    BY DEF Init, LaterHunts, PastScan
  <1>2. LaterHunts => OneServer
    BY DEF LaterHunts, OneServer, Checked, PastScan, Hunts
  <1> QED
    BY <1>1, <1>2, StepHunt, TypeCorrect, PTL DEF Spec
=============================================================================
