----------------------------- MODULE LimitProofs -----------------------------
(***************************************************************************)
(* max_connections for any numbers of workers, connections and deaths.     *)
(* Every behaviour of Limit is one of the mutex, which gives mutual        *)
(* exclusion; with it the value a handler has loaded is still the counter  *)
(* when it stores, so that the counter is exact.  LimitKept needs one step *)
(* more: a connection is admitted by a value the handler keeps after it    *)
(* has left the critical section, so what is bounded is the set of those   *)
(* admitted together with those that hold a value that admits them.        *)
(***************************************************************************)
EXTENDS Limit, ShmtxProofs

-----------------------------------------------------------------------------
(* Limit implements the mutex. *)

LEMMA InitImplements == Init => MutexInit
  BY DEF Init

LEMMA StepImplements ==
  ASSUME [Next]_vars
  PROVE  [MutexNext]_mutexVars
<1>1. CASE UNCHANGED vars
  BY <1>1 DEF vars
<1>2. CASE \E p \in Workers, s \in Sessions : Connect(p, s) \/ Disconnect(p, s)
  <2>1. \E p \in Workers : Request(p)
    BY <1>2 DEF Connect, Disconnect
  <2> QED BY <2>1 DEF MutexNext
<1>3. CASE \E p \in Workers : InMutex(p)
  BY <1>3 DEF InMutex, MutexNext
<1>4. CASE \E p \in Workers : Load(p) \/ Store(p)
  BY <1>4 DEF Load, Store
<1>5. CASE \E p \in Workers : Release(p)
  BY <1>5 DEF Release, MutexNext
<1>6. CASE \E p \in Workers : Finish(p)
  <2>1. \E p \in Workers : Return(p)
    BY <1>6 DEF Finish
  <2> QED BY <2>1 DEF MutexNext, Procs
<1>7. CASE \E p \in Procs : Wakes(p)
  BY <1>7 DEF Wakes, MutexNext
<1>8. CASE \E p \in Workers : WorkerDies(p)
  <2>1. \E p \in Workers : Die(p)
    BY <1>8 DEF WorkerDies
  <2> QED BY <2>1 DEF MutexNext
<1>9. CASE \E p \in Workers : Reaped(p) \/ Respawned(p)
  BY <1>9 DEF Reaped, Respawned, MutexNext
<1>10. CASE MasterReturns
  BY <1>10 DEF MasterReturns, MutexNext, Procs
<1> QED BY <1>1, <1>2, <1>3, <1>4, <1>5, <1>6, <1>7, <1>8, <1>9, <1>10 DEF Next

\* The handlers of the limit module use the mutex as ngx_shmtx.c provides it:
\* every behaviour of Limit is a behaviour of the mutex.
THEOREM LimitImplementsMutex == Spec => MutexSpec
<1>1. Init => MutexInit
  BY InitImplements
<1>2. [Next]_vars => [MutexNext]_mutexVars
  BY StepImplements
<1> QED BY <1>1, <1>2, PTL DEF Spec, MutexSpec

-----------------------------------------------------------------------------
(* Which handler runs where. *)

LimitType ==
    /\ nconn \in Int /\ leaked \in Nat
    /\ conn \in [Sessions -> {"none", "connect", "in", "refused", "disconnect"}]
    /\ owner \in [Sessions -> Workers \cup {NULL}]
    /\ task \in [Workers -> Sessions \cup {NULL}]
    /\ reg \in [Workers -> Int]
    /\ stage \in [Workers -> {"load", "store", "stored"}]

Critical == {"held", "done"} \cup InWakeup

\* A worker has a task from its request for the lock to its return, and the
\* stages of the handler agree with where it is in the mutex.
Tasks ==
    \A p \in Workers :
        /\ task[p] = NULL <=> pc[p] \in {"out", "dead", "gone"}
        /\ task[p] # NULL => /\ owner[task[p]] = p
                             /\ conn[task[p]] \in {"connect", "disconnect"}
        /\ stage[p] # "load" => pc[p] \in Critical
        /\ pc[p] \in Critical \ {"held"} => stage[p] = "stored"

\* A session has an owner while it exists, and while one of its handlers runs
\* that is what its owner does.
Owners ==
    \A s \in Sessions :
        /\ owner[s] = NULL <=> conn[s] = "none"
        /\ conn[s] \in {"connect", "disconnect"} => task[owner[s]] = s

\* Between load and store nobody else changes the counter.
Fresh == \A p \in Workers : stage[p] = "store" => reg[p] = nconn

Handlers == LimitType /\ Tasks /\ Owners /\ Fresh

LEMMA InitHandlers == Init => Handlers
<1> SUFFICES ASSUME Init PROVE Handlers
  OBVIOUS
<1>1. LimitType
  BY DEF Init, LimitType
<1>2. Tasks
  BY DEF Init, MutexInit, Tasks, Procs, Critical, InWakeup
<1>3. Owners /\ Fresh
  BY DEF Init, Owners, Fresh
<1> QED BY <1>1, <1>2, <1>3 DEF Handlers

\* Connect and Disconnect start a handler on a worker that runs none.
LEMMA RequestHandlers ==
  ASSUME Control, Handlers, NEW p \in Workers, NEW s \in Sessions,
         Connect(p, s) \/ Disconnect(p, s)
  PROVE  Handlers'
<1> USE ShmtxAssumption, LimitAssumption
<1>t. pc \in [Procs -> Places] /\ p \in Procs
  BY DEF Control, MutexTypeOK, Procs
<1>1. pc[p] = "out" /\ pc' = [pc EXCEPT ![p] = "try"] /\ task[p] = NULL
  BY DEF Connect, Disconnect, Request, Goto, Handlers, Tasks
<1>2. LimitType'
  BY DEF Connect, Disconnect, Handlers, LimitType
<1>3. Tasks'
  BY <1>1, <1>t DEF Connect, Disconnect, Handlers, LimitType, Tasks, Owners, Critical, InWakeup
<1>4. Owners'
  BY <1>1 DEF Connect, Disconnect, Handlers, LimitType, Tasks, Owners
<1>5. Fresh'
  BY DEF Connect, Disconnect, Handlers, LimitType, Fresh
<1> QED BY <1>2, <1>3, <1>4, <1>5 DEF Handlers

\* Steps inside the mutex change nothing of the handlers.
LEMMA MutexHandlers ==
  ASSUME Control, Handlers, UNCHANGED limitVars,
         \/ \E p \in Workers : LockStep(p) \/ Reap(p) \/ Respawn(p)
         \/ \E p \in Procs : WakeupStep(p)
         \/ Return(Master)
  PROVE  Handlers'
<1> USE ShmtxAssumption, LimitAssumption
<1>t. pc \in [Procs -> Places] /\ Workers \subseteq Procs /\ Master \in Procs
  BY DEF Control, MutexTypeOK, Procs
<1>1. LimitType' /\ Owners' /\ Fresh'
  BY DEF limitVars, Handlers, LimitType, Owners, Fresh
<1>2. \A q \in Workers :
        /\ task'[q] = task[q] /\ stage'[q] = stage[q]
        /\ owner' = owner /\ conn' = conn
  BY DEF limitVars
<1>3. \A q \in Workers :
        /\ pc'[q] \in {"out", "dead", "gone"} <=> pc[q] \in {"out", "dead", "gone"}
        /\ pc[q] \in Critical => pc'[q] \in Critical
        /\ pc'[q] \in Critical \ {"held"} => pc[q] \in Critical \ {"held"}
  <2> TAKE q \in Workers
  <2>1. CASE \E p \in Workers : LockStep(p)
    BY <2>1, <1>t DEF LockStep, Try, TryLock, Announce, Retry, SemWait, Goto, Critical, InWakeup
  <2>2. CASE \E p \in Workers : Reap(p) \/ Respawn(p)
    BY <2>2, <1>t DEF Reap, Respawn, Goto, Critical, InWakeup
  <2>3. CASE \E p \in Procs : WakeupStep(p)
    BY <2>3, <1>t DEF WakeupStep, ReadWait, DecWait, Post, Goto, Critical, InWakeup
  <2>4. CASE Return(Master)
    BY <2>4, <1>t DEF Return, Goto, Critical, InWakeup
  <2> QED BY <2>1, <2>2, <2>3, <2>4
<1>4. Tasks'
  BY <1>2, <1>3, <1>t DEF Handlers, Tasks
<1> QED BY <1>1, <1>4 DEF Handlers

\* The critical section.  Only the holder of the lock is in it, so a store
\* leaves no other worker with a value it has loaded.
LEMMA SectionHandlers ==
  ASSUME Control, Handlers, NEW p \in Workers, Load(p) \/ Store(p) \/ Release(p)
  PROVE  Handlers'
<1> USE ShmtxAssumption, LimitAssumption
<1>t. pc \in [Procs -> Places] /\ p \in Procs
  BY DEF Control, MutexTypeOK, Procs
<1>1. CASE Load(p)
  <2>1. LimitType'
    BY <1>1 DEF Load, Handlers, LimitType
  <2>2. Tasks'
    BY <1>1 DEF Load, mutexVars, Handlers, LimitType, Tasks, Critical
  <2>3. Owners' /\ Fresh'
    BY <1>1 DEF Load, Handlers, LimitType, Owners, Fresh
  <2> QED BY <2>1, <2>2, <2>3 DEF Handlers
<1>2. CASE Store(p)
  <2>1. LimitType'
    BY <1>2 DEF Store, Handlers, LimitType
  <2>2. Tasks'
    BY <1>2 DEF Store, mutexVars, Handlers, LimitType, Tasks, Critical
  <2>3. Owners'
    BY <1>2 DEF Store, Handlers, LimitType, Owners
  <2>4. \A q \in Workers : stage[q] = "store" => pc[q] = "held"
    BY DEF Handlers, Tasks
  <2>5. \A q \in Workers : stage[q] = "store" => q = p
    BY <1>2, <2>4 DEF Store, Control, Named
  <2>6. stage' = [stage EXCEPT ![p] = "stored"] /\ stage \in [Workers -> {"load", "store", "stored"}]
    BY <1>2 DEF Store, Handlers, LimitType
  <2>7. \A q \in Workers : stage'[q] # "store"
    BY <2>5, <2>6
  <2>8. Fresh'
    BY <2>7 DEF Fresh
  <2> QED BY <2>1, <2>2, <2>3, <2>8 DEF Handlers
<1>3. CASE Release(p)
  <2>1. LimitType' /\ Owners' /\ Fresh'
    BY <1>3 DEF Release, limitVars, Handlers, LimitType, Owners, Fresh
  <2>2. Tasks'
    BY <1>3, <1>t DEF Release, Unlock, Goto, limitVars, Handlers, LimitType, Tasks, Critical, InWakeup
  <2> QED BY <2>1, <2>2 DEF Handlers
<1> QED BY <1>1, <1>2, <1>3

\* The return of a handler, and the death of a worker with its sessions.
LEMMA EndHandlers ==
  ASSUME Control, Handlers, NEW p \in Workers, Finish(p) \/ WorkerDies(p)
  PROVE  Handlers'
<1> USE ShmtxAssumption, LimitAssumption
<1>t. pc \in [Procs -> Places] /\ p \in Procs
  BY DEF Control, MutexTypeOK, Procs
<1>1. CASE Finish(p)
  <2>1. task[p] \in Sessions /\ pc[p] = "done" /\ pc' = [pc EXCEPT ![p] = "out"]
    BY <1>1 DEF Finish, Return, Goto, Handlers, LimitType, Tasks
  <2>2. LimitType'
    BY <1>1, <2>1 DEF Finish, Handlers, LimitType
  <2>3. Tasks'
    BY <1>1, <2>1, <1>t DEF Finish, Handlers, LimitType, Tasks, Critical, InWakeup
  <2>4. Owners'
    BY <1>1, <2>1 DEF Finish, Handlers, LimitType, Tasks, Owners
  <2>5. Fresh'
    BY <1>1 DEF Finish, Handlers, LimitType, Fresh
  <2> QED BY <2>2, <2>3, <2>4, <2>5 DEF Handlers
<1>2. CASE WorkerDies(p)
  <2>1. pc' = [pc EXCEPT ![p] = "dead"]
    BY <1>2 DEF WorkerDies, Die, Goto
  <2>2. LimitType'
    <3>1. Cardinality({s \in {s \in Sessions : owner[s] = p} : Counted(s)}) \in Nat
      <4>1. {s \in {s \in Sessions : owner[s] = p} : Counted(s)} \in SUBSET Sessions
        OBVIOUS
      <4> QED BY <4>1, FS_Subset, FS_CardinalityType
    <3>2. leaked' \in Nat /\ nconn' \in Int
      BY <1>2, <3>1 DEF WorkerDies, Handlers, LimitType
    <3> QED BY <1>2, <3>2 DEF WorkerDies, Handlers, LimitType
  <2>3. Tasks'
    BY <1>2, <2>1, <1>t DEF WorkerDies, Handlers, LimitType, Tasks, Critical, InWakeup
  <2>4. Owners'
    BY <1>2 DEF WorkerDies, Handlers, LimitType, Tasks, Owners
  <2>5. Fresh'
    BY <1>2 DEF WorkerDies, Handlers, LimitType, Fresh
  <2> QED BY <2>2, <2>3, <2>4, <2>5 DEF Handlers
<1> QED BY <1>1, <1>2

-----------------------------------------------------------------------------
(* The counter and the bound. *)

InCount == {s \in Sessions : conn[s] # "none" /\ Counted(s)}

\* Sessions that are served, or whose handler holds a value that admits them.
Admitted ==
    {s \in Sessions :
        \/ conn[s] = "in"
        \/ conn[s] = "connect" /\ stage[owner[s]] = "stored" /\ reg[owner[s]] <= MaxConn}

Bounded == Cardinality(Admitted) <= MaxConn

Account == CounterExact /\ Bounded

\* Sets of sessions are finite, and a subset is no larger.
LEMMA FiniteSessions ==
  ASSUME NEW S \in SUBSET Sessions
  PROVE  /\ IsFiniteSet(S) /\ Cardinality(S) \in Nat
         /\ \A T \in SUBSET S : Cardinality(T) \in Nat /\ Cardinality(T) <= Cardinality(S)
<1>1. IsFiniteSet(S)
  BY LimitAssumption, FS_Subset
<1>2. Cardinality(S) \in Nat
  BY <1>1, FS_CardinalityType
<1>3. ASSUME NEW T \in SUBSET S
      PROVE  Cardinality(T) \in Nat /\ Cardinality(T) <= Cardinality(S)
  <2>1. IsFiniteSet(T) /\ Cardinality(T) <= Cardinality(S)
    BY <1>1, FS_Subset
  <2> QED BY <2>1, FS_CardinalityType
<1> QED BY <1>1, <1>2, <1>3

LEMMA SubsetsOfSessions ==
  /\ InCount \in SUBSET Sessions /\ InCount' \in SUBSET Sessions
  /\ Admitted \in SUBSET Sessions /\ Admitted' \in SUBSET Sessions
  BY DEF InCount, Admitted

\* A step that keeps both sets, the counter and the leak keeps the account.
LEMMA SameAccount ==
  ASSUME Account, InCount' = InCount, Admitted' = Admitted,
         nconn' = nconn, leaked' = leaked
  PROVE  Account'
<1>1. CounterExact'
  BY DEF Account, CounterExact, InCount
<1>2. Bounded'
  BY DEF Account, Bounded
<1> QED BY <1>1, <1>2 DEF Account

\* Nothing is counted or admitted by steps that leave the sessions and what
\* has been stored alone.
LEMMA QuietAccount ==
  ASSUME Handlers, Account,
         UNCHANGED limitVars \/ \E p \in Workers : Load(p)
  PROVE  Account'
<1>1. CASE UNCHANGED limitVars
  <2>1. InCount' = InCount /\ Admitted' = Admitted
    BY <1>1 DEF limitVars, InCount, Counted, Admitted
  <2> QED BY <1>1, <2>1, SameAccount DEF limitVars
<1>2. ASSUME NEW p \in Workers, Load(p)
      PROVE  Account'
  <2>1. \A q \in Workers : /\ stage'[q] = "stored" <=> stage[q] = "stored"
                           /\ stage[q] = "stored" => reg'[q] = reg[q]
    BY <1>2 DEF Load, Handlers, LimitType
  <2>2. \A s \in Sessions : conn[s] # "none" => owner[s] \in Workers
    BY DEF Handlers, LimitType, Owners
  <2>3. conn' = conn /\ owner' = owner /\ nconn' = nconn /\ leaked' = leaked
    BY <1>2 DEF Load
  <2>4. InCount' = InCount
    BY <2>1, <2>2, <2>3 DEF InCount, Counted
  <2>5. Admitted' = Admitted
    BY <2>1, <2>2, <2>3 DEF Admitted
  <2> QED BY <2>3, <2>4, <2>5, SameAccount
<1> QED BY <1>1, <1>2

\* A session enters its handlers as it leaves them: not counted before the
\* store of CONNECT, counted until the store of DISCONNECT.
LEMMA RequestAccount ==
  ASSUME Handlers, Account, NEW p \in Workers, NEW s \in Sessions,
         Connect(p, s) \/ Disconnect(p, s)
  PROVE  /\ nconn' = nconn /\ leaked' = leaked
         /\ InCount' = InCount /\ Admitted' \in SUBSET Admitted
<1>1. pc[p] = "out"
  BY DEF Connect, Disconnect, Request
<1>2. stage[p] = "load"
  BY <1>1 DEF Handlers, Tasks, LimitType, Critical, InWakeup
<1>3. /\ stage' = stage /\ reg' = reg /\ nconn' = nconn /\ leaked' = leaked
      /\ conn' = [conn EXCEPT ![s] = conn'[s]]
      /\ owner' = [owner EXCEPT ![s] = p]
  BY DEF Connect, Disconnect, Handlers, LimitType
<1>4. /\ conn \in [Sessions -> {"none", "connect", "in", "refused", "disconnect"}]
      /\ owner \in [Sessions -> Workers \cup {NULL}]
  BY DEF Handlers, LimitType
<1>5. \/ conn[s] = "none" /\ conn'[s] = "connect"
      \/ conn[s] \in {"in", "refused"} /\ conn'[s] = "disconnect"
  BY <1>4 DEF Connect, Disconnect
<1>6. \A t \in Sessions : t \in InCount' <=> t \in InCount
  BY <1>2, <1>3, <1>4, <1>5 DEF InCount, Counted
<1>7. \A t \in Sessions : t \in Admitted' => t \in Admitted
  BY <1>2, <1>3, <1>4, <1>5 DEF Admitted
<1> QED BY <1>3, <1>6, <1>7, SubsetsOfSessions

\* The store of CONNECT adds its session to the count.
LEMMA StoreSets ==
  ASSUME Handlers, NEW p \in Workers, Store(p)
  PROVE  /\ task[p] \in Sessions /\ leaked' = leaked
         /\ conn[task[p]] = "connect" =>
               /\ nconn' = nconn + 1
               /\ InCount' = InCount \cup {task[p]} /\ task[p] \notin InCount
               /\ nconn' > MaxConn => Admitted' = Admitted
               /\ Admitted' \in SUBSET InCount'
         /\ conn[task[p]] # "connect" =>
               /\ nconn' = nconn - 1
               /\ InCount' = InCount \ {task[p]} /\ task[p] \in InCount
               /\ Admitted' = Admitted
<1> DEFINE s == task[p]
<1>1. pc[p] = "held" /\ stage[p] = "store"
  BY DEF Store
<1>2. s \in Sessions /\ owner[s] = p /\ conn[s] \in {"connect", "disconnect"}
  BY <1>1 DEF Handlers, Tasks, LimitType
<1>3. reg[p] = nconn /\ nconn \in Int
  BY <1>1 DEF Handlers, Fresh, LimitType
<1>4. /\ conn' = conn /\ owner' = owner /\ leaked' = leaked
      /\ stage' = [stage EXCEPT ![p] = "stored"]
      /\ reg' = [reg EXCEPT ![p] = nconn']
      /\ nconn' = IF conn[s] = "connect" THEN nconn + 1 ELSE nconn - 1
  BY <1>3 DEF Store
<1>5. /\ stage \in [Workers -> {"load", "store", "stored"}] /\ reg \in [Workers -> Int]
      /\ conn \in [Sessions -> {"none", "connect", "in", "refused", "disconnect"}]
  BY DEF Handlers, LimitType
<1>6. \A t \in Sessions : conn[t] # "none" => owner[t] \in Workers
  BY DEF Handlers, LimitType, Owners
<1>7. \A t \in Sessions : t # s /\ conn[t] \in {"connect", "disconnect"} => owner[t] # p
  BY DEF Handlers, Owners
<1>8. \A q \in Workers : q # p => stage'[q] = stage[q] /\ reg'[q] = reg[q]
  BY <1>4, <1>5
<1>9. stage'[p] = "stored" /\ reg'[p] = nconn'
  BY <1>4, <1>5
<1> HIDE DEF s
<1>10. \A t \in Sessions : t # s => (t \in InCount' <=> t \in InCount)
  BY <1>4, <1>6, <1>7, <1>8 DEF InCount, Counted
<1>11. s \in InCount <=> conn[s] = "disconnect"
  BY <1>1, <1>2 DEF InCount, Counted
<1>12. s \in InCount' <=> conn[s] = "connect"
  BY <1>2, <1>4, <1>9 DEF InCount, Counted
<1>13. \A t \in Sessions : t # s => (t \in Admitted' <=> t \in Admitted)
  BY <1>4, <1>6, <1>7, <1>8 DEF Admitted
<1>14. s \notin Admitted
  BY <1>1, <1>2 DEF Admitted
<1>15. s \in Admitted' <=> conn[s] = "connect" /\ nconn' <= MaxConn
  BY <1>2, <1>4, <1>9 DEF Admitted
<1>16. \A t \in Sessions : t \in Admitted' => t \in InCount'
  BY DEF Admitted, InCount, Counted
<1>17. InCount \in SUBSET Sessions /\ InCount' \in SUBSET Sessions
       /\ Admitted \in SUBSET Sessions /\ Admitted' \in SUBSET Sessions
  BY SubsetsOfSessions
<1>18. CASE conn[s] = "connect"
  <2>1. InCount' = InCount \cup {s} /\ s \notin InCount
    BY <1>2, <1>10, <1>11, <1>12, <1>17, <1>18
  <2>2. nconn' = nconn + 1
    BY <1>4, <1>18
  <2>3. nconn' > MaxConn => s \notin Admitted'
    BY <1>3, <1>15, <2>2, LimitAssumption
  <2>4. nconn' > MaxConn => Admitted' = Admitted
    BY <2>3, <1>13, <1>14, <1>17
  <2>5. Admitted' \in SUBSET InCount'
    BY <1>16, <1>17
  <2> QED BY <1>2, <1>4, <1>18, <2>1, <2>2, <2>4, <2>5 DEF s
<1>19. CASE conn[s] # "connect"
  <2>1. InCount' = InCount \ {s} /\ s \in InCount
    BY <1>2, <1>10, <1>11, <1>12, <1>17, <1>19
  <2>2. Admitted' = Admitted
    BY <1>13, <1>14, <1>15, <1>17, <1>19
  <2>3. nconn' = nconn - 1
    BY <1>4, <1>19
  <2> QED BY <1>2, <1>4, <1>19, <2>1, <2>2, <2>3 DEF s
<1> QED BY <1>18, <1>19

\* The counter follows its set, and a value that admits is at most MaxConn
\* and at least the number of sessions counted.
LEMMA StoreAccount ==
  ASSUME Handlers, Handlers', Account, NEW p \in Workers, Store(p)
  PROVE  Account'
<1> DEFINE s == task[p]
<1>1. nconn \in Int /\ leaked \in Nat /\ leaked' = leaked
  BY StoreSets DEF Handlers, LimitType
<1>2. /\ IsFiniteSet(InCount) /\ Cardinality(InCount) \in Nat
      /\ Cardinality(InCount') \in Nat
      /\ \A T \in SUBSET InCount' :
            Cardinality(T) \in Nat /\ Cardinality(T) <= Cardinality(InCount')
  BY SubsetsOfSessions, FiniteSessions
<1>3. nconn = Cardinality(InCount) + leaked
  BY DEF Account, CounterExact, InCount
<1>4. Cardinality(Admitted) <= MaxConn
  BY DEF Account, Bounded
<1>5. CASE conn[s] = "connect"
  <2>1. nconn' = nconn + 1 /\ InCount' = InCount \cup {s} /\ s \notin InCount
    BY <1>5, StoreSets
  <2>2. Cardinality(InCount') = Cardinality(InCount) + 1
    BY <1>2, <2>1, FS_AddElement
  <2>3. nconn' = Cardinality(InCount') + leaked'
    BY <1>1, <1>2, <1>3, <2>1, <2>2
  <2>4. CounterExact'
    BY <2>3 DEF CounterExact, InCount
  <2>5. CASE nconn' > MaxConn
    <3>1. Admitted' = Admitted
      BY <1>5, <2>5, StoreSets
    <3> QED BY <1>4, <2>4, <3>1 DEF Account, Bounded
  <2>6. CASE ~ (nconn' > MaxConn)
    <3>1. Admitted' \in SUBSET InCount'
      BY <1>5, StoreSets
    <3>2. Cardinality(Admitted') \in Nat /\ Cardinality(Admitted') <= Cardinality(InCount')
      BY <1>2, <3>1
    <3>3. Cardinality(Admitted') <= MaxConn
      BY <1>1, <1>2, <2>1, <2>3, <2>6, <3>2, LimitAssumption
    <3> QED BY <2>4, <3>3 DEF Account, Bounded
  <2> QED BY <2>5, <2>6
<1>6. CASE conn[s] # "connect"
  <2>1. nconn' = nconn - 1 /\ InCount' = InCount \ {s} /\ s \in InCount /\ Admitted' = Admitted
    BY <1>6, StoreSets
  <2>2. Cardinality(InCount') = Cardinality(InCount) - 1
    BY <1>2, <2>1, FS_RemoveElement
  <2>3. nconn' = Cardinality(InCount') + leaked'
    BY <1>1, <1>2, <1>3, <2>1, <2>2
  <2>4. CounterExact'
    BY <2>3 DEF CounterExact, InCount
  <2> QED BY <1>4, <2>1, <2>4 DEF Account, Bounded
<1> QED BY <1>5, <1>6

\* The return of a handler counts and admits nobody new.
LEMMA FinishSets ==
  ASSUME Handlers, NEW p \in Workers, Finish(p)
  PROVE  /\ nconn' = nconn /\ leaked' = leaked
         /\ InCount' = InCount /\ Admitted' \in SUBSET Admitted
<1> DEFINE s == task[p]
<1>1. pc[p] = "done"
  BY DEF Finish, Return
<1>2. /\ s \in Sessions /\ owner[s] = p /\ conn[s] \in {"connect", "disconnect"}
      /\ stage[p] = "stored" /\ reg[p] \in Int
  BY <1>1 DEF Handlers, Tasks, LimitType, Critical
<1>3. /\ stage \in [Workers -> {"load", "store", "stored"}] /\ reg \in [Workers -> Int]
      /\ conn \in [Sessions -> {"none", "connect", "in", "refused", "disconnect"}]
      /\ owner \in [Sessions -> Workers \cup {NULL}]
  BY DEF Handlers, LimitType
<1>4. \A t \in Sessions :
        t # s => /\ conn'[t] = conn[t] /\ owner'[t] = owner[t]
                 /\ conn[t] \in {"connect", "disconnect"} => owner[t] # p
                 /\ conn[t] # "none" => owner[t] \in Workers
  <2>1. \A t \in Sessions : t # s => conn'[t] = conn[t] /\ owner'[t] = owner[t]
    BY <1>3 DEF Finish
  <2>2. \A t \in Sessions : conn[t] \in {"connect", "disconnect"} => task[owner[t]] = t
    BY DEF Handlers, Owners
  <2>3. \A t \in Sessions : conn[t] # "none" => owner[t] \in Workers
    BY DEF Handlers, Owners, LimitType
  <2> QED BY <2>1, <2>2, <2>3
<1>5. \A q \in Workers : q # p => stage'[q] = stage[q] /\ reg'[q] = reg[q]
  BY <1>3 DEF Finish
<1>6. conn'[s] = IF conn[s] = "disconnect" THEN "none"
                 ELSE IF reg[p] > MaxConn THEN "refused" ELSE "in"
  BY <1>2, <1>3 DEF Finish
<1>7. nconn' = nconn /\ leaked' = leaked
  BY DEF Finish
<1> HIDE DEF s
<1>8. ASSUME NEW t \in Sessions, t # s
      PROVE  (t \in InCount' <=> t \in InCount) /\ (t \in Admitted' => t \in Admitted)
  <2>1. conn'[t] = conn[t] /\ owner'[t] = owner[t]
    BY <1>4, <1>8
  <2>2. CASE conn[t] \in {"connect", "disconnect"}
    <3>1. owner[t] \in Workers /\ owner[t] # p
      BY <1>4, <1>8, <2>2
    <3>2. stage'[owner[t]] = stage[owner[t]] /\ reg'[owner[t]] = reg[owner[t]]
      BY <1>5, <3>1
    <3> QED BY <2>1, <3>2 DEF InCount, Counted, Admitted
  <2>3. CASE conn[t] \notin {"connect", "disconnect"}
    BY <2>1, <2>3 DEF InCount, Counted, Admitted
  <2> QED BY <2>2, <2>3
<1>9. s \in InCount' <=> s \in InCount
  BY <1>2, <1>6 DEF InCount, Counted
<1>10. s \in Admitted' => s \in Admitted
  BY <1>2, <1>6, LimitAssumption DEF Admitted
<1>11. \A t \in Sessions : (t \in InCount' <=> t \in InCount) /\ (t \in Admitted' => t \in Admitted)
  BY <1>8, <1>9, <1>10
<1> QED BY <1>7, <1>11, SubsetsOfSessions

\* What the sessions of a dying worker counted for moves to the leak.
LEMMA DeathSets ==
  ASSUME Handlers, NEW p \in Workers, WorkerDies(p)
  PROVE  LET gone == {s \in {s \in Sessions : owner[s] = p} : Counted(s)}
         IN  /\ nconn' = nconn /\ leaked' = leaked + Cardinality(gone)
             /\ gone \in SUBSET InCount /\ InCount' = InCount \ gone
             /\ Admitted' \in SUBSET Admitted
<1> DEFINE gone == {s \in {s \in Sessions : owner[s] = p} : Counted(s)}
<1>1. nconn' = nconn /\ leaked' = leaked + Cardinality(gone)
  BY DEF WorkerDies
<1>2. /\ stage \in [Workers -> {"load", "store", "stored"}] /\ reg \in [Workers -> Int]
      /\ conn \in [Sessions -> {"none", "connect", "in", "refused", "disconnect"}]
      /\ owner \in [Sessions -> Workers \cup {NULL}]
  BY DEF Handlers, LimitType
<1>3. \A s \in Sessions : (owner[s] = p => conn[s] # "none")
                       /\ (conn[s] # "none" => owner[s] \in Workers)
  BY <1>2, ShmtxAssumption DEF Handlers, Owners
<1>4. /\ \A q \in Workers : q # p => stage'[q] = stage[q] /\ reg'[q] = reg[q]
      /\ \A s \in Sessions : owner[s] = p => conn'[s] = "none"
      /\ \A s \in Sessions : owner[s] # p => conn'[s] = conn[s] /\ owner'[s] = owner[s]
  BY <1>2 DEF WorkerDies
<1>5. \A s \in Sessions : s \in gone => s \in InCount
  BY <1>3 DEF InCount
<1>6. \A s \in Sessions : owner[s] = p => s \notin InCount' /\ (s \in InCount => s \in gone)
  BY <1>4 DEF InCount
<1>7. ASSUME NEW s \in Sessions, owner[s] # p
      PROVE  (s \in InCount' <=> s \in InCount) /\ s \notin gone /\ (s \in Admitted' => s \in Admitted)
  <2>1. conn'[s] = conn[s] /\ owner'[s] = owner[s] /\ s \notin gone
    BY <1>4, <1>7
  <2>2. CASE conn[s] = "none"
    BY <2>1, <2>2 DEF InCount, Admitted
  <2>3. CASE conn[s] # "none"
    <3>1. owner[s] \in Workers
      BY <1>3, <2>3
    <3>2. stage'[owner[s]] = stage[owner[s]] /\ reg'[owner[s]] = reg[owner[s]]
      BY <1>4, <1>7, <3>1
    <3> QED BY <2>1, <3>2 DEF InCount, Counted, Admitted
  <2> QED BY <2>2, <2>3
<1>8. ASSUME NEW s \in Sessions
      PROVE  s \in Admitted' => s \in Admitted
  <2>1. CASE owner[s] = p
    <3>1. conn'[s] = "none"
      BY <1>4, <2>1
    <3> QED BY <3>1 DEF Admitted
  <2> QED BY <1>7, <2>1
<1>9. gone \in SUBSET Sessions
  OBVIOUS
<1>10. gone \in SUBSET InCount /\ InCount' = InCount \ gone
  BY <1>5, <1>6, <1>7, <1>9, SubsetsOfSessions
<1>11. Admitted' \in SUBSET Admitted
  BY <1>8, SubsetsOfSessions
<1> QED BY <1>1, <1>10, <1>11

\* Requests, returns and deaths.
LEMMA ShrinkAccount ==
  ASSUME Handlers, Account, Admitted' \in SUBSET Admitted, CounterExact'
  PROVE  Account'
<1>1. Cardinality(Admitted) \in Nat /\ Cardinality(Admitted) <= MaxConn
  BY SubsetsOfSessions, FiniteSessions DEF Account, Bounded
<1>2. Cardinality(Admitted') \in Nat /\ Cardinality(Admitted') <= Cardinality(Admitted)
  BY SubsetsOfSessions, FiniteSessions
<1>3. Cardinality(Admitted') <= MaxConn
  BY <1>1, <1>2, LimitAssumption
<1> QED BY <1>3 DEF Account, Bounded

LEMMA DeathAccount ==
  ASSUME Handlers, Account, NEW p \in Workers, WorkerDies(p)
  PROVE  Account'
<1> DEFINE gone == {s \in {s \in Sessions : owner[s] = p} : Counted(s)}
<1>1. /\ nconn' = nconn /\ leaked' = leaked + Cardinality(gone)
      /\ gone \in SUBSET InCount /\ InCount' = InCount \ gone
      /\ Admitted' \in SUBSET Admitted
  BY DeathSets
<1>2. nconn = Cardinality(InCount) + leaked
  BY DEF Account, CounterExact, InCount
<1>3. IsFiniteSet(InCount) /\ Cardinality(InCount) \in Nat
  BY SubsetsOfSessions, FiniteSessions
<1> HIDE DEF gone
<1>4. InCount \cap gone = gone
  BY <1>1
<1>5. Cardinality(InCount \ gone) = Cardinality(InCount) - Cardinality(gone)
  BY <1>3, <1>4, FS_Difference
<1>6. Cardinality(gone) \in Nat
  BY <1>1, FiniteSessions, SubsetsOfSessions
<1>7. leaked \in Nat
  BY DEF Handlers, LimitType
<1>8. nconn' = Cardinality(InCount') + leaked'
  BY <1>1, <1>2, <1>3, <1>5, <1>6, <1>7
<1>9. CounterExact'
  BY <1>8 DEF CounterExact, InCount
<1> QED BY <1>1, <1>9, ShrinkAccount

LEMMA RequestFinishAccount ==
  ASSUME Handlers, Account,
         \/ \E p \in Workers, s \in Sessions : Connect(p, s) \/ Disconnect(p, s)
         \/ \E p \in Workers : Finish(p)
  PROVE  Account'
<1>1. /\ nconn' = nconn /\ leaked' = leaked
      /\ InCount' = InCount /\ Admitted' \in SUBSET Admitted
  BY RequestAccount, FinishSets
<1>2. CounterExact'
  BY <1>1 DEF Account, CounterExact, InCount
<1> QED BY <1>1, <1>2, ShrinkAccount

-----------------------------------------------------------------------------

LimitInv == Handlers /\ Account

LEMMA InitLimit == Init => LimitInv
<1> SUFFICES ASSUME Init PROVE LimitInv
  OBVIOUS
<1>1. InCount = {} /\ Admitted = {}
  BY DEF Init, InCount, Admitted
<1>2. CounterExact /\ Bounded
  BY <1>1, FS_EmptySet, LimitAssumption DEF Init, CounterExact, Bounded, InCount
<1> QED BY <1>2, InitHandlers DEF LimitInv, Account

LEMMA NextLimit ==
  ASSUME Control, LimitInv, [Next]_vars
  PROVE  LimitInv'
<1> USE DEF LimitInv
<1>1. CASE UNCHANGED vars
  <2>1. UNCHANGED limitVars /\ pc' = pc
    BY <1>1 DEF vars, mutexVars
  <2>2. Handlers'
    BY <2>1 DEF limitVars, Handlers, LimitType, Tasks, Owners, Fresh
  <2> QED BY <2>1, <2>2, QuietAccount
<1>2. CASE \E p \in Workers, s \in Sessions : Connect(p, s) \/ Disconnect(p, s)
  BY <1>2, RequestHandlers, RequestFinishAccount
<1>3. CASE \E p \in Workers : Load(p)
  BY <1>3, SectionHandlers, QuietAccount
<1>4. CASE \E p \in Workers : Store(p)
  BY <1>4, SectionHandlers, StoreAccount
<1>5. CASE \E p \in Workers : Release(p)
  <2>1. UNCHANGED limitVars
    BY <1>5 DEF Release
  <2> QED BY <1>5, <2>1, SectionHandlers, QuietAccount
<1>6. CASE \E p \in Workers : Finish(p)
  BY <1>6, EndHandlers, RequestFinishAccount
<1>7. CASE \E p \in Workers : WorkerDies(p)
  BY <1>7, EndHandlers, DeathAccount
<1>8. CASE \/ \E p \in Workers : InMutex(p) \/ Reaped(p) \/ Respawned(p)
           \/ \E p \in Procs : Wakes(p)
           \/ MasterReturns
  <2>1. /\ UNCHANGED limitVars
        /\ \/ \E p \in Workers : LockStep(p) \/ Reap(p) \/ Respawn(p)
           \/ \E p \in Procs : WakeupStep(p)
           \/ Return(Master)
    BY <1>8 DEF InMutex, Reaped, Respawned, Wakes, MasterReturns
  <2> QED BY <2>1, MutexHandlers, QuietAccount
<1> QED BY <1>1, <1>2, <1>3, <1>4, <1>5, <1>6, <1>7, <1>8 DEF Next

\* Both invariants hold in every state: that of the mutex because Limit
\* implements it, that of the handlers on top of it.
THEOREM LimitSafe == Spec => []LimitInv
<1>1. Spec => []MutexInv
  BY LimitImplementsMutex, MutexSafe, PTL
<1>2. Init => LimitInv
  BY InitLimit
<1>3. MutexInv /\ LimitInv /\ [Next]_vars => LimitInv'
  BY NextLimit DEF MutexInv
<1> QED BY <1>1, <1>2, <1>3, PTL DEF Spec

\* The shared counter of ngx_rtmp_limit_connect and ngx_rtmp_limit_disconnect
\* is exact up to the connections of workers that died.
THEOREM CounterIsExact == Spec => []CounterExact
<1>1. LimitInv => CounterExact
  BY DEF LimitInv, Account
<1> QED BY <1>1, LimitSafe, PTL

\* max_connections is kept over all workers.
THEOREM LimitIsKept == Spec => []LimitKept
<1>1. LimitInv => LimitKept
  <2> SUFFICES ASSUME LimitInv PROVE LimitKept
    OBVIOUS
  <2> DEFINE served == {s \in Sessions : conn[s] = "in"}
  <2>1. served \in SUBSET Admitted
    BY DEF Admitted
  <2>2. Cardinality(Admitted) \in Nat /\ Cardinality(Admitted) <= MaxConn
    BY SubsetsOfSessions, FiniteSessions DEF LimitInv, Account, Bounded
  <2>3. Cardinality(served) \in Nat /\ Cardinality(served) <= Cardinality(Admitted)
    BY <2>1, SubsetsOfSessions, FiniteSessions
  <2>4. Cardinality(served) <= MaxConn
    BY <2>2, <2>3, LimitAssumption
  <2> QED BY <2>4 DEF LimitKept
<1> QED BY <1>1, LimitSafe, PTL

=============================================================================
