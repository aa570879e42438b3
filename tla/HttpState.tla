----------------------------- MODULE HttpState -----------------------------
(***************************************************************************)
(* The HTTP side of the server (serverstate.cpp).  The listener's thread   *)
(* takes a task from the task pool for each request, worker threads run    *)
(* OnGet, OnPut and OnPost, and give the task back.  They share the pool   *)
(* (PoolThreads) and the files below the working directory; a file is      *)
(* written and read buffer by buffer, with no lock.                        *)
(*                                                                         *)
(* The file system is one file.  A piece of it is a buffer's worth of one  *)
(* of the contents that are put; a piece nobody has written is HOLE.       *)
(***************************************************************************)
EXTENDS PoolThreads, Sequences

CONSTANTS
    Listener,   \* the thread that accepts requests; the others are workers
    Contents,   \* what clients put
    Pieces,     \* the number of pieces of each
    HOLE

Workers == Threads \ {Listener}

ASSUME HttpAssumption ==
    /\ Listener \in Threads
    /\ Pieces \in [Contents -> Nat]
    /\ NULL \notin Contents

VARIABLES
    request,   \* what each task is about
    at,        \* how far each worker is in its handler
    file,      \* the pieces of the file; NULL if there is none
    offset,    \* where each worker's FILE stands
    data,      \* what each worker has read
    \* History
    answers,   \* how often each task's request was answered
    settled,   \* what was put last, if no other PUT overlapped it and it is over
    reads,     \* the content that each worker should read, NULL once a PUT meddles
    alone      \* the workers in a PUT that no other PUT has overlapped

handler == <<at, offset, data>>
history == <<answers, settled, reads, alone>>
http    == <<request, handler, file, history>>
hvars   == <<vars, http>>

\* The requests by what the handlers do with them.  "getstate" stands for a GET of
\* an unknown path and for a missing file name too, "other" for a PUT of another path
\* and for every POST.
Requests == {"getconfig", "getstate", "getfile", "other"} \cup Contents

Whole(c) == [k \in 1..Pieces[c] |-> <<c, k>>]

Writers == {t \in Workers : at[t] = "writing"}

-----------------------------------------------------------------------------
(* The listener and the hand-over to the workers *)

\* A request arrives and finds a task; without one it is dropped.
Arrives ==
    \/ /\ AllocateLeave(Listener)
       /\ \E r \in Requests : request' = [request EXCEPT ![obj[Listener]] = r]
       /\ UNCHANGED <<handler, file, history>>
    \/ /\ \/ AllocateEnter(Listener) \/ AllocateRead(Listener) \/ AllocateNone(Listener)
          \/ AllocateNext(Listener) \/ AllocateMove(Listener) \/ AllocateMark(Listener)
       /\ UNCHANGED http

\* The task that worker t has in hand, and what it is about.
Task(t)   == CHOOSE i \in Index : \E u \in held[t] : u[2] = i
Asked(t)  == request[Task(t)]

\* A worker that is idle gets the task.
Process(t) ==
    /\ held[t] = {} /\ pc[t] = "idle"
    /\ HandOver(Listener, t)
    /\ at' = [at EXCEPT ![t] = "called"]
    /\ UNCHANGED <<request, offset, data, file, history>>

\* The handler is through and the worker frees the task; its request is done with.
Release(t) ==
    \/ /\ at[t] = "done"
       /\ FreeGet(t)
       /\ at'      = [at EXCEPT ![t] = "idle"]
       /\ data'    = [data EXCEPT ![t] = <<>>]
       /\ request' = [request EXCEPT ![Task(t)] = NULL]
       /\ reads'   = [reads EXCEPT ![t] = NULL]
       /\ answers' = [answers EXCEPT ![Task(t)] = 0]
       /\ UNCHANGED <<offset, file, settled, alone>>
    \/ /\ \/ FreeLock(t) \/ FreeCheck(t) \/ FreeLink(t)
          \/ FreeHead(t) \/ FreeUid(t) \/ FreeUnlock(t)
       /\ UNCHANGED http

-----------------------------------------------------------------------------
(* The handlers *)

Called(t, R) == at[t] = "called" /\ Asked(t) \in R

\* The handler of t ends, having called EndWrite n times.
Ends(t, n) ==
    /\ at'      = [at EXCEPT ![t] = "done"]
    /\ offset'  = [offset EXCEPT ![t] = 0]
    /\ answers' = [answers EXCEPT ![Task(t)] = @ + n]
    /\ UNCHANGED <<vars, request>>

\* /getstate, an unknown path, a file that is not there.
OnGet(t) ==
    /\ Called(t, {"getstate"} \cup (IF file = NULL THEN {"getfile"} ELSE {}))
    /\ Ends(t, 1)
    /\ UNCHANGED <<file, data, settled, reads, alone>>

\* /getconfig is answered, and then the last branch answers 404.
OnGetConfig(t) ==
    /\ Called(t, {"getconfig"})
    /\ Ends(t, 2)
    /\ UNCHANGED <<file, data, settled, reads, alone>>

\* OnPost, and OnPut of another path
OnOther(t) ==
    /\ Called(t, {"other"})
    /\ Ends(t, 0)
    /\ UNCHANGED <<file, data, settled, reads, alone>>

\* /getfile opens the file.
OpenForRead(t) ==
    /\ Called(t, {"getfile"})
    /\ file # NULL
    /\ at'    = [at EXCEPT ![t] = "reading"]
    /\ data'  = [data EXCEPT ![t] = <<>>]
    /\ reads' = [reads EXCEPT ![t] = settled]
    /\ UNCHANGED <<vars, request, file, offset, answers, settled, alone>>

\* Whether the worker's FILE is not at its end.
More(t) == offset[t] < Len(file)

\* fread and evbuffer_add of one buffer
Read(t) ==
    /\ at[t] = "reading"
    /\ More(t)
    /\ data'   = [data EXCEPT ![t] = Append(@, file[offset[t] + 1])]
    /\ offset' = [offset EXCEPT ![t] = @ + 1]
    /\ UNCHANGED <<vars, request, at, file, history>>

EndRead(t) ==
    /\ at[t] = "reading"
    /\ ~More(t)
    /\ Ends(t, 1)
    /\ UNCHANGED <<file, data, settled, reads, alone>>

\* Variant: the file is opened without truncating it.
Opened_AsItIs == IF file = NULL THEN <<>> ELSE file

\* What mode wb+ makes of the file
Opened == <<>>

\* Variant: a write error is not answered.
OpenFails_Silent(t) ==
    /\ Called(t, Contents)
    /\ Ends(t, 0)
    /\ UNCHANGED <<file, data, settled, reads, alone>>

\* /putfile cannot open the file.
OpenFails(t) ==
    /\ Called(t, Contents)
    /\ Ends(t, 1)
    /\ UNCHANGED <<file, data, settled, reads, alone>>

\* /putfile empties the file.
OpenForWrite(t) ==
    /\ Called(t, Contents)
    /\ at'      = [at EXCEPT ![t] = "writing"]
    /\ file'    = Opened
    /\ settled' = NULL
    /\ alone'   = IF Writers = {} THEN {t} ELSE {}
    /\ reads'   = [w \in Workers |-> NULL]
    /\ UNCHANGED <<vars, request, offset, data, answers>>

\* The file after piece p was written at offset o of it: the place may lie beyond
\* its end.
Written(o, p) ==
    [k \in 1..(IF o + 1 > Len(file) THEN o + 1 ELSE Len(file)) |->
        IF k = o + 1 THEN p ELSE IF k <= Len(file) THEN file[k] ELSE HOLE]

\* fwrite of one buffer
Write(t) ==
    /\ at[t] = "writing"
    /\ offset[t] < Pieces[Asked(t)]
    /\ file'   = Written(offset[t], <<Asked(t), offset[t] + 1>>)
    /\ offset' = [offset EXCEPT ![t] = @ + 1]
    /\ UNCHANGED <<vars, request, at, data, history>>

\* fclose and the answer.  With no other PUT since it was opened the file is this one's.
EndWrite(t) ==
    /\ at[t] = "writing"
    /\ offset[t] = Pieces[Asked(t)]
    /\ Ends(t, 1)
    /\ settled' = IF t \in alone THEN Asked(t) ELSE NULL
    /\ alone'   = alone \ {t}
    /\ UNCHANGED <<file, data, reads>>

-----------------------------------------------------------------------------
HttpInit ==
    /\ Init
    /\ request = [i \in Index |-> NULL]
    /\ at = [t \in Workers |-> "idle"]
    /\ file = NULL
    /\ offset = [t \in Workers |-> 0]
    /\ data = [t \in Workers |-> <<>>]
    /\ answers = [i \in Index |-> 0]
    /\ settled = NULL
    /\ reads = [t \in Workers |-> NULL]
    /\ alone = {}

Handler(t) ==
    \/ OnGet(t) \/ OnGetConfig(t) \/ OnOther(t)
    \/ OpenForRead(t) \/ Read(t) \/ EndRead(t)
    \/ OpenFails(t) \/ OpenForWrite(t) \/ Write(t) \/ EndWrite(t)

HttpNext ==
    \/ Arrives
    \/ \E t \in Workers : Process(t) \/ Handler(t) \/ Release(t)

HttpSpec == HttpInit /\ [][HttpNext]_hvars

-----------------------------------------------------------------------------
(* Properties *)

\* A task goes back to the pool with its request answered exactly once, whichever
\* way its handler took; but /getconfig is answered twice, and a POST or a PUT of
\* another path never.
AnsweredOnce ==
    \A t \in Workers :
        at[t] = "done" /\ Asked(t) \notin {"getconfig", "other"} => answers[Task(t)] = 1

\* A GET that no PUT overlaps is answered with the whole of what was put last, and
\* nothing of what was in the file before, if no other PUT overlapped that one.
WholeFile ==
    \A t \in Workers :
        at[t] = "done" /\ reads[t] # NULL => data[t] = Whole(reads[t])
=============================================================================
