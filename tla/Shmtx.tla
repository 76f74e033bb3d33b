-------------------------------- MODULE Shmtx --------------------------------
(***************************************************************************)
(* The mutex that worker processes share (ngx_shmtx.c built with atomic    *)
(* operations and POSIX semaphores): a lock word, a count of waiters and a *)
(* semaphore.  Every atomic operation is a step of its own, so processes   *)
(* interleave between any two of them.                                     *)
(*                                                                         *)
(* Processes die at any point.  The master learns of it (SIGCHLD) and      *)
(* frees a lock the dead process held: ngx_process_get_status,             *)
(* ngx_unlock_mutexes.  The process it starts in its place has another     *)
(* pid; here it takes over the identity, which no word refers to by then.  *)
(***************************************************************************)
EXTENDS Integers, FiniteSets

CONSTANTS
    Workers,     \* processes that use the mutex
    Master,      \* the process that reaps them
    NULL         \* *mtx->lock == 0

ASSUME ShmtxAssumption ==
    /\ IsFiniteSet(Workers)
    /\ Master \notin Workers
    /\ NULL \notin Workers

VARIABLES
    lock,        \* *mtx->lock: pid of the holder
    wait,        \* *mtx->wait
    sem,         \* value of mtx->sem
    pc,          \* where each process is
    seen,        \* `wait` as read in ngx_shmtx_wakeup
    lost,        \* ghost: posts owed by processes that died before making them
    cut          \* ghost: who released last died before its wake-up was complete

mutexVars == <<lock, wait, sem, pc, seen, lost, cut>>

Procs == Workers \cup {Master}

\* "out" is outside the mutex code and "done" the return from unlock; a process
\* in "held" has the lock.
InLock   == {"try", "add", "retry", "sleep"}
InWakeup == {"wake", "dec", "post"}
Places   == {"out", "held", "done", "dead", "gone"} \cup InLock \cup InWakeup

Goto(p, place) == pc' = [pc EXCEPT ![p] = place]

MutexInit ==
    /\ lock = NULL
    /\ wait = 0
    /\ sem = 0
    /\ pc = [p \in Procs |-> "out"]
    /\ seen = [p \in Procs |-> 0]
    /\ lost = 0
    /\ cut = FALSE

-----------------------------------------------------------------------------
(* ngx_shmtx_lock.  A compare-and-set that fails has met the lock taken, so  *)
(* the test before it and the attempts of the spin loop add nothing.         *)

Request(p) ==
    /\ pc[p] = "out"
    /\ Goto(p, "try")
    /\ UNCHANGED <<lock, wait, sem, seen, lost, cut>>

TryLock(p, place, otherwise) ==
    /\ pc[p] = place
    /\ IF lock = NULL
       THEN lock' = p /\ Goto(p, "held")
       ELSE lock' = lock /\ Goto(p, otherwise)
    /\ UNCHANGED <<wait, sem, seen, lost, cut>>

\* The for loop's first attempts, with and without spinning.
Try(p) == TryLock(p, "try", "add")

\* ngx_atomic_fetch_add(mtx->wait, 1)
Announce(p) ==
    /\ pc[p] = "add"
    /\ wait' = wait + 1
    /\ Goto(p, "retry")
    /\ UNCHANGED <<lock, sem, seen, lost, cut>>

\* Changed on purpose: sleep without a second look at the lock.
NoRetry(p) ==
    /\ pc[p] = "retry"
    /\ Goto(p, "sleep")
    /\ UNCHANGED <<lock, wait, sem, seen, lost, cut>>

\* The attempt after announcing; success leaves the announcement behind.
Retry(p) == TryLock(p, "retry", "sleep")

\* sem_wait; EINTR calls it again.
SemWait(p) ==
    /\ pc[p] = "sleep"
    /\ sem > 0
    /\ sem' = sem - 1
    /\ Goto(p, "try")
    /\ UNCHANGED <<lock, wait, seen, lost, cut>>

-----------------------------------------------------------------------------
(* ngx_shmtx_unlock and ngx_shmtx_wakeup. *)

Unlock(p) ==
    /\ pc[p] = "held"
    /\ lock' = NULL
    /\ cut' = FALSE
    /\ Goto(p, "wake")
    /\ UNCHANGED <<wait, sem, seen, lost>>

\* wait = *mtx->wait
ReadWait(p) ==
    /\ pc[p] = "wake"
    /\ IF wait = 0
       THEN Goto(p, "done") /\ UNCHANGED seen
       ELSE Goto(p, "dec") /\ seen' = [seen EXCEPT ![p] = wait]
    /\ UNCHANGED <<lock, wait, sem, lost, cut>>

\* ngx_atomic_cmp_set(mtx->wait, wait, wait - 1)
DecWait(p) ==
    /\ pc[p] = "dec"
    /\ IF wait = seen[p]
       THEN wait' = wait - 1 /\ Goto(p, "post")
       ELSE wait' = wait /\ Goto(p, "wake")
    /\ seen' = [seen EXCEPT ![p] = 0]
    /\ UNCHANGED <<lock, sem, lost, cut>>

Post(p) ==
    /\ pc[p] = "post"
    /\ sem' = sem + 1
    /\ Goto(p, "done")
    /\ UNCHANGED <<lock, wait, seen, lost, cut>>

Return(p) ==
    /\ pc[p] = "done"
    /\ Goto(p, "out")
    /\ UNCHANGED <<lock, wait, sem, seen, lost, cut>>

-----------------------------------------------------------------------------
(* Death of a worker, ngx_process_get_status in the master, and the worker  *)
(* started in its place.                                                    *)

Die(p) ==
    /\ pc[p] \notin {"dead", "gone"}
    /\ Goto(p, "dead")
    /\ lost' = IF pc[p] = "post" THEN lost + 1 ELSE lost
    /\ cut' = (cut \/ pc[p] \in InWakeup \cup {"try"})
    /\ seen' = [seen EXCEPT ![p] = 0]
    /\ UNCHANGED <<lock, wait, sem>>

\* ngx_shmtx_force_unlock(mtx, pid)
Reap(p) ==
    /\ pc[p] = "dead" /\ pc[Master] = "out"
    /\ IF lock = p
       THEN /\ lock' = NULL /\ cut' = FALSE
            /\ pc' = [pc EXCEPT ![p] = "gone", ![Master] = "wake"]
       ELSE /\ Goto(p, "gone")
            /\ UNCHANGED <<lock, cut>>
    /\ UNCHANGED <<wait, sem, seen, lost>>

Respawn(p) ==
    /\ pc[p] = "gone" /\ pc[Master] = "out"
    /\ Goto(p, "out")
    /\ UNCHANGED <<lock, wait, sem, seen, lost, cut>>

\* What a process does inside the mutex code.
LockStep(p)   == Try(p) \/ Announce(p) \/ Retry(p) \/ SemWait(p)
WakeupStep(p) == ReadWait(p) \/ DecWait(p) \/ Post(p)

MutexNext ==
    \/ \E p \in Workers :
          \/ Request(p) \/ LockStep(p) \/ Unlock(p)
          \/ Die(p) \/ Reap(p) \/ Respawn(p)
    \/ \E p \in Procs : WakeupStep(p) \/ Return(p)

MutexSpec == MutexInit /\ [][MutexNext]_mutexVars

-----------------------------------------------------------------------------
(* Properties. *)

MutexTypeOK ==
    /\ lock \in Workers \cup {NULL}
    /\ wait \in Nat /\ sem \in Nat /\ lost \in Nat
    /\ pc \in [Procs -> Places]
    /\ seen \in [Procs -> Nat]
    /\ cut \in BOOLEAN

\* Two workers are never between ngx_shmtx_lock and ngx_shmtx_unlock at once,
\* also when workers die with the lock and the master frees it for them.
Exclusive ==
    \A p, q \in Workers : pc[p] = "held" /\ pc[q] = "held" => p = q

\* Processes that have announced themselves and may come to sleep.
Waiting == {p \in Workers : pc[p] \in {"retry", "sleep"}}
Posting == {p \in Procs : pc[p] = "post"}

\* Every process that sleeps, or is about to, is still counted: in the count
\* of waiters, in a post on its way, or in the semaphore.  Only a process that
\* dies between taking a waiter off the count and posting takes one away.
WakeupOwed ==
    wait + sem + Cardinality(Posting) + lost >= Cardinality(Waiting)

\* A free mutex with sleepers is never left alone: somebody is on the way to
\* the lock or to the semaphore, or the semaphore is already posted.  Only a
\* process that dies inside ngx_shmtx_wakeup, or that was woken and dies before
\* its attempt, leaves the sleepers to the next release; when it had already
\* taken one off the count and not posted, to nobody.
NoLostWakeup ==
    (lock = NULL /\ \E p \in Workers : pc[p] = "sleep") =>
        \/ sem > 0
        \/ lost > 0 \/ cut
        \/ \E p \in Procs : pc[p] \in InWakeup \cup {"try"}

=============================================================================
