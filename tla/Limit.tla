-------------------------------- MODULE Limit --------------------------------
(***************************************************************************)
(* max_connections (ngx_rtmp_limit_module.c): a counter of connections in  *)
(* shared memory, under the mutex of its zone.  A worker runs one handler  *)
(* at a time; the handler of CONNECT adds one and the handler of           *)
(* DISCONNECT, which the posted close of every session fires, takes one    *)
(* off.  ++*nconn is a load and a store.                                   *)
(*                                                                         *)
(* Sessions of a worker that dies are gone without DISCONNECT.  The zone   *)
(* outlives them: ngx_rtmp_limit_shm_init keeps the counter over a reload, *)
(* and a worker started anew finds it as it was.                           *)
(***************************************************************************)
EXTENDS Shmtx

CONSTANTS
    Sessions,    \* connections that may be open at once
    MaxConn,     \* lmcf->max_conn
    MaxAccepts,  \* bound: connections accepted in a run
    MaxDeaths    \* bound: workers that die in a run

ASSUME LimitAssumption ==
    /\ IsFiniteSet(Sessions) /\ NULL \notin Sessions
    /\ {MaxConn, MaxAccepts, MaxDeaths} \subseteq Nat

VARIABLES
    nconn,       \* *nconn
    conn,        \* "none", "connect" (CONNECT is running), "in", "refused"
                 \* (finalized, close posted), "disconnect"
    owner,       \* worker that serves the session
    task,        \* session whose handler a worker runs
    reg,         \* nconn as loaded by the handler
    stage,       \* in the critical section: "load", "store", "stored"
    accepts, deaths,
    leaked       \* ghost: connections counted for workers that died

limitVars == <<nconn, conn, owner, task, reg, stage, accepts, deaths, leaked>>
vars == <<mutexVars, limitVars>>

Init ==
    /\ MutexInit
    /\ nconn = 0
    /\ conn = [s \in Sessions |-> "none"]
    /\ owner = [s \in Sessions |-> NULL]
    /\ task = [p \in Workers |-> NULL]
    /\ reg = [p \in Workers |-> 0]
    /\ stage = [p \in Workers |-> "load"]
    /\ accepts = 0 /\ deaths = 0 /\ leaked = 0

\* ngx_rtmp_init_session fires CONNECT.
Connect(p, s) ==
    /\ conn[s] = "none" /\ accepts < MaxAccepts
    /\ Request(p)
    /\ conn' = [conn EXCEPT ![s] = "connect"]
    /\ owner' = [owner EXCEPT ![s] = p]
    /\ task' = [task EXCEPT ![p] = s]
    /\ accepts' = accepts + 1
    /\ UNCHANGED <<nconn, reg, stage, deaths, leaked>>

\* The posted close of a session (ngx_rtmp_close_session_handler), whatever
\* the reason it was finalized for.
Disconnect(p, s) ==
    /\ conn[s] \in {"in", "refused"} /\ owner[s] = p
    /\ Request(p)
    /\ conn' = [conn EXCEPT ![s] = "disconnect"]
    /\ task' = [task EXCEPT ![p] = s]
    /\ UNCHANGED <<nconn, owner, reg, stage, accepts, deaths, leaked>>

\* Changed on purpose: the counter is loaded before the lock is taken.
LoadEarly(p) ==
    /\ pc[p] \in {"try", "held"} /\ stage[p] = "load"
    /\ reg' = [reg EXCEPT ![p] = nconn]
    /\ stage' = [stage EXCEPT ![p] = "store"]
    /\ UNCHANGED <<mutexVars, nconn, conn, owner, task, accepts, deaths, leaked>>

Load(p) ==
    /\ pc[p] = "held" /\ stage[p] = "load"
    /\ reg' = [reg EXCEPT ![p] = nconn]
    /\ stage' = [stage EXCEPT ![p] = "store"]
    /\ UNCHANGED <<mutexVars, nconn, conn, owner, task, accepts, deaths, leaked>>

\* n = ++*nconn, or n = --*nconn
Store(p) ==
    LET n == IF conn[task[p]] = "connect" THEN reg[p] + 1 ELSE reg[p] - 1
    IN  /\ pc[p] = "held" /\ stage[p] = "store"
        /\ reg' = [reg EXCEPT ![p] = n]
        /\ nconn' = n
        /\ stage' = [stage EXCEPT ![p] = "stored"]
        /\ UNCHANGED <<mutexVars, conn, owner, task, accepts, deaths, leaked>>

Release(p) ==
    /\ stage[p] = "stored"
    /\ Unlock(p)
    /\ UNCHANGED limitVars

\* The handler returns: a new connection beyond max_conn is finalized.
Finish(p) ==
    LET s == task[p]
    IN  /\ Return(p)
        /\ conn' = [conn EXCEPT ![s] =
               IF conn[s] = "disconnect" THEN "none"
               ELSE IF reg[p] > MaxConn THEN "refused" ELSE "in"]
        /\ owner' = [owner EXCEPT ![s] = IF conn[s] = "disconnect" THEN NULL ELSE p]
        /\ task' = [task EXCEPT ![p] = NULL]
        /\ reg' = [reg EXCEPT ![p] = 0]
        /\ stage' = [stage EXCEPT ![p] = "load"]
        /\ UNCHANGED <<nconn, accepts, deaths, leaked>>

\* A connection stands in the counter from the store of its CONNECT to the
\* store of its DISCONNECT.
Counted(s) ==
    LET stored == stage[owner[s]] = "stored"
    IN  \/ conn[s] \in {"in", "refused"}
        \/ conn[s] = "connect" /\ stored
        \/ conn[s] = "disconnect" /\ ~ stored

WorkerDies(p) ==
    LET mine == {s \in Sessions : owner[s] = p}
    IN  /\ deaths < MaxDeaths
        /\ Die(p)
        /\ deaths' = deaths + 1
        /\ leaked' = leaked + Cardinality({s \in mine : Counted(s)})
        /\ conn' = [s \in Sessions |-> IF s \in mine THEN "none" ELSE conn[s]]
        /\ owner' = [s \in Sessions |-> IF s \in mine THEN NULL ELSE owner[s]]
        /\ task' = [task EXCEPT ![p] = NULL]
        /\ reg' = [reg EXCEPT ![p] = 0]
        /\ stage' = [stage EXCEPT ![p] = "load"]
        /\ UNCHANGED <<nconn, accepts>>

\* Steps of the mutex that change nothing here.
InMutex(p) == LockStep(p) /\ UNCHANGED limitVars
Wakes(p) == WakeupStep(p) /\ UNCHANGED limitVars
Reaped(p) == Reap(p) /\ UNCHANGED limitVars
Respawned(p) == Respawn(p) /\ UNCHANGED limitVars
MasterReturns == Return(Master) /\ UNCHANGED limitVars

Next ==
    \/ \E p \in Workers, s \in Sessions : Connect(p, s) \/ Disconnect(p, s)
    \/ \E p \in Workers : InMutex(p) \/ Load(p) \/ Store(p) \/ Release(p) \/ Finish(p)
    \/ \E p \in Procs : Wakes(p)
    \/ \E p \in Workers : WorkerDies(p) \/ Reaped(p) \/ Respawned(p)
    \/ MasterReturns

Spec == Init /\ [][Next]_vars

-----------------------------------------------------------------------------
(* Properties. *)

TypeOK ==
    /\ MutexTypeOK
    /\ nconn \in Int
    /\ conn \in [Sessions -> {"none", "connect", "in", "refused", "disconnect"}]
    /\ owner \in [Sessions -> Workers \cup {NULL}]
    /\ task \in [Workers -> Sessions \cup {NULL}]
    /\ reg \in [Workers -> Int]
    /\ stage \in [Workers -> {"load", "store", "stored"}]

\* The counter is the number of connections it stands for, plus those of
\* workers that died: no interleaving of handlers loses or doubles an update,
\* no DISCONNECT comes without its CONNECT, and what a dead worker had counted
\* is never taken off again.
CounterExact ==
    nconn = Cardinality({s \in Sessions : conn[s] # "none" /\ Counted(s)}) + leaked

\* No more connections are served than max_connections, over all workers.
LimitKept == Cardinality({s \in Sessions : conn[s] = "in"}) <= MaxConn

=============================================================================
