----------------------------- MODULE Supervisor -----------------------------
(***************************************************************************)
(* How a server comes to be the only one and comes back after a crash:     *)
(* the process check of Server::Init (server.cpp) and the way Game::Update *)
(* terminates an abandoned server.                                         *)
(*                                                                         *)
(* A server kills every other process of the program that it finds in a    *)
(* snapshot of the process list, launches a daemon and serves.  The daemon *)
(* looks for a server in one snapshot after the other; when it finds none  *)
(* it launches one and exits.  With a window the daemon runs from a copy   *)
(* of the executable under another name; without, from the same file, and  *)
(* then it takes any other process of that file for a server.              *)
(*                                                                         *)
(* A process id is used again once its process is gone.                    *)
(***************************************************************************)
CONSTANTS
    Pids,      \* the process ids
    AsDaemon   \* RUN_AS_DAEMON: the server was started with --daemon

ASSUME SupervisorAssumption == AsDaemon \in BOOLEAN

VARIABLES
    window,  \* SHOW_WINDOW, the same for all processes
    role,    \* "daemon" for a process with IS_DAEMON_PROCESS, else "server"
    pc,      \* what each process does next; "gone" if there is none
    seen     \* what is left of the snapshot the process works on

vars == <<window, role, pc, seen>>

Live == {p \in Pids : pc[p] # "gone"}

Is(p, r, at) == role[p] = r /\ pc[p] = at

\* The servers that have been through the process check, up to `Max Client Is
\* Zero'.
Checked == {p \in Pids : role[p] = "server" /\ pc[p] \in {"launch", "setup", "serving"}}

Serving == {p \in Pids : Is(p, "server", "serving")}

-----------------------------------------------------------------------------
\* p goes on at `at'.
Goto(p, at) == pc' = [pc EXCEPT ![p] = at] /\ UNCHANGED role

\* The process ends, by itself or not; Windows forgets its data.
Gone(p) ==
    /\ Goto(p, "gone")
    /\ seen' = [seen EXCEPT ![p] = {}]
    /\ UNCHANGED window

\* CreateProcess: p goes on at `at' and a new process starts in role r.
Create(p, at, r) ==
    \E q \in Pids \ Live :
        /\ pc'   = [pc EXCEPT ![p] = at, ![q] = "start"]
        /\ role' = [role EXCEPT ![q] = r]
        /\ seen' = [seen EXCEPT ![p] = {}]
        /\ UNCHANGED window

\* CreateToolhelp32Snapshot, without the process itself.
Snapshot(p) == seen' = [seen EXCEPT ![p] = Live \ {p}] /\ UNCHANGED window

-----------------------------------------------------------------------------
(* Any process *)

\* Somebody starts the server.
UserStarts ==
    \E q \in Pids \ Live :
        /\ pc'   = [pc EXCEPT ![q] = "start"]
        /\ role' = [role EXCEPT ![q] = "server"]
        /\ UNCHANGED <<window, seen>>

\* BaseServer::Init, the scripts and the configuration.
Starts(p) ==
    /\ pc[p] = "start"
    /\ Goto(p, IF role[p] = "daemon" THEN "look" ELSE "scan")
    /\ UNCHANGED <<window, seen>>

\* Init returns false before the process check, where the configuration cannot
\* be read, or after it, where an address is taken: the process ends.
InitFails(p) == pc[p] \in {"start", "setup"} /\ Gone(p)

\* A crash, or a kill from outside.
Crashes(p) == p \in Live /\ Gone(p)

-----------------------------------------------------------------------------
(* The server *)

Scan(p) ==
    /\ Is(p, "server", "scan")
    /\ Goto(p, "kill")
    /\ Snapshot(p)

\* Variant: the loop ends with the first process it kills.
Unvisited_Break(p, q) == {}

\* What the kill loop of p has yet to visit after q.
Unvisited(p, q) == seen[p] \ {q}

\* The loop comes to q, and terminates it if it is still there.
Kill(p, q) ==
    /\ Is(p, "server", "kill")
    /\ q \in seen[p]
    /\ pc'   = [pc EXCEPT ![q] = "gone"]
    /\ seen' = [seen EXCEPT ![q] = {}, ![p] = Unvisited(p, q)]
    /\ UNCHANGED <<window, role>>

KillLoopEnds(p) ==
    /\ Is(p, "server", "kill")
    /\ seen[p] = {}
    /\ Goto(p, "launch")
    /\ UNCHANGED <<window, seen>>

\* With --daemon the server launches its daemon; it goes on even if that fails.
LaunchDaemon(p) ==
    /\ Is(p, "server", "launch")
    /\ IF AsDaemon
       THEN Create(p, "setup", "daemon")
       ELSE Goto(p, "setup") /\ UNCHANGED <<window, seen>>

LaunchFails(p) ==
    /\ AsDaemon
    /\ Is(p, "server", "launch")
    /\ Goto(p, "setup")
    /\ UNCHANGED <<window, seen>>

\* The pool, the listeners and the timer are set up.
Serves(p) ==
    /\ Is(p, "server", "setup")
    /\ Goto(p, "serving")
    /\ UNCHANGED <<window, seen>>

\* With --checkconnection Game::Update terminates a server everyone has left.
Quits(p) == Is(p, "server", "serving") /\ Gone(p)

-----------------------------------------------------------------------------
(* The daemon *)

Look(p) ==
    /\ Is(p, "daemon", "look")
    /\ Goto(p, "judge")
    /\ Snapshot(p)

\* The processes that a daemon takes for the server, by the name of their file.
Targets == IF window THEN {q \in Live : role[q] = "server"} ELSE Live

\* A process that is gone by now cannot be opened.  Sleep(1000) follows.
FindsServer(p) ==
    /\ Is(p, "daemon", "judge")
    /\ seen[p] \cap Targets # {}
    /\ Goto(p, "look")
    /\ seen' = [seen EXCEPT ![p] = {}]
    /\ UNCHANGED window

\* Variant: the arguments of the daemon are passed on as they are.
Relaunched_AllArguments == "daemon"

\* --daemon_process is left out of the arguments of the new process.
Relaunched == "server"

\* The daemon launches a server,
Relaunch(p) ==
    /\ Is(p, "daemon", "judge")
    /\ seen[p] \cap Targets = {}
    /\ Create(p, "exit", Relaunched)

\* and exits, if the new server has not killed it by then.
Exits(p) == Is(p, "daemon", "exit") /\ Gone(p)

\* CreateProcess fails; Sleep(1000) follows.
RelaunchFails(p) ==
    /\ Is(p, "daemon", "judge")
    /\ seen[p] \cap Targets = {}
    /\ Goto(p, "look")
    /\ seen' = [seen EXCEPT ![p] = {}]
    /\ UNCHANGED window

-----------------------------------------------------------------------------
Init ==
    /\ window \in BOOLEAN
    /\ role = [p \in Pids |-> "server"]
    /\ pc = [p \in Pids |-> "gone"]
    /\ seen = [p \in Pids |-> {}]

Server(p) ==
    \/ Scan(p) \/ (\E q \in Pids : Kill(p, q)) \/ KillLoopEnds(p)
    \/ LaunchDaemon(p) \/ Serves(p)

Daemon(p) == Look(p) \/ FindsServer(p) \/ Relaunch(p) \/ Exits(p)

Step(p) == Starts(p) \/ Server(p) \/ Daemon(p)

\* What the world does to the processes.
Fault ==
    \/ UserStarts
    \/ \E p \in Pids : InitFails(p) \/ Crashes(p) \/ LaunchFails(p) \/ RelaunchFails(p)

Next ==
    \/ \E p \in Pids : Step(p) \/ Quits(p)
    \/ Fault

\* Windows schedules every process; nothing else is assumed.
Spec == Init /\ [][Next]_vars /\ \A p \in Pids : WF_vars(Step(p))

-----------------------------------------------------------------------------
(* Properties *)

\* Every variable keeps its type.
TypeOK ==
    /\ window \in BOOLEAN
    /\ role \in [Pids -> {"server", "daemon"}]
    /\ pc \in [Pids -> {"gone", "start", "scan", "kill", "launch", "setup", "serving",
                        "look", "judge", "exit"}]
    /\ seen \in [Pids -> SUBSET Pids]

\* However many servers are started at a time, by users and by daemons, and whoever
\* crashes: at most one is past the process check.  No two servers ever contend for
\* the addresses.
OneServer == \A p, q \in Checked : p = q

\* Without a window two daemons take each other for the server, for ever; with one, two
\* daemons with old snapshots may launch servers that kill each other time and again.
\* One that has launched its server and is about to exit looks for nothing any more.
TwoDaemons ==
    \E p, q \in Live : p # q /\ {role[p], role[q]} = {"daemon"} /\ "exit" \notin {pc[p], pc[q]}

\* Once the world leaves the processes alone a server serves time and again, whatever
\* was killed, lost or started twice before and however often the server quits, as
\* long as there is any process left and not two daemons that look for the server.  A
\* server that quits, and a daemon that exits, do not count as crashes.
ServerComesBack ==
    <>[][\E p \in Pids : Step(p) \/ Quits(p)]_vars /\ []<>(Live # {}) /\ <>[]~TwoDaemons
        => []<>(Serving # {})

=============================================================================
