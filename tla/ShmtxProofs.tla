----------------------------- MODULE ShmtxProofs -----------------------------
(***************************************************************************)
(* The mutex of ngx_shmtx.c for any finite set of processes, any number of *)
(* deaths included.  Exclusive needs that a process in the critical        *)
(* section is named by the lock word.  NoLostWakeup needs WakeupOwed: a    *)
(* process that reads `wait` as zero and returns from ngx_shmtx_wakeup may *)
(* only do so when what the sleepers are owed is in the semaphore or on    *)
(* its way there.                                                          *)
(***************************************************************************)
EXTENDS Shmtx, FiniteSetTheorems, TLAPS

Named == \A p \in Workers : pc[p] = "held" => lock = p

\* A process goes to decrement `wait` only with a value it read above zero.
ReadSome == \A p \in Procs : pc[p] = "dec" => seen[p] > 0

Control == MutexTypeOK /\ Named /\ ReadSome

MutexInv == Control /\ WakeupOwed /\ NoLostWakeup

-----------------------------------------------------------------------------
(* Control. *)

LEMMA InitControl == MutexInit => Control
<1> SUFFICES ASSUME MutexInit PROVE Control
  OBVIOUS
<1>1. MutexTypeOK
  BY DEF MutexInit, MutexTypeOK, Places
<1>2. Named /\ ReadSome
  BY DEF MutexInit, Named, ReadSome, Procs
<1> QED BY <1>1, <1>2 DEF Control

\* Taking the lock, sleeping and waking up keep the lock word right.
LEMMA LockControl ==
  ASSUME Control, NEW p \in Workers, Request(p) \/ LockStep(p)
  PROVE  Control'
<1> USE ShmtxAssumption DEF Goto, Procs
<1>1. CASE Request(p)
  BY <1>1 DEF Request, Control, MutexTypeOK, Named, ReadSome, Places, InLock, InWakeup
<1>2. CASE Try(p)
  BY <1>2 DEF Try, TryLock, Control, MutexTypeOK, Named, ReadSome, Places, InLock, InWakeup
<1>3. CASE Announce(p)
  BY <1>3 DEF Announce, Control, MutexTypeOK, Named, ReadSome, Places, InLock, InWakeup
<1>4. CASE Retry(p)
  BY <1>4 DEF Retry, TryLock, Control, MutexTypeOK, Named, ReadSome, Places, InLock, InWakeup
<1>5. CASE SemWait(p)
  BY <1>5 DEF SemWait, Control, MutexTypeOK, Named, ReadSome, Places, InLock, InWakeup
<1> QED BY <1>1, <1>2, <1>3, <1>4, <1>5 DEF LockStep

\* Releasing the lock and waking a sleeper, by a worker or by the master.
LEMMA WakeupControl ==
  ASSUME Control, NEW p \in Procs,
         (p \in Workers /\ Unlock(p)) \/ WakeupStep(p) \/ Return(p)
  PROVE  Control'
<1> USE ShmtxAssumption DEF Goto, Procs
<1>1. CASE p \in Workers /\ Unlock(p)
  BY <1>1 DEF Unlock, Control, MutexTypeOK, Named, ReadSome, Places, InLock, InWakeup
<1>2. CASE ReadWait(p)
  BY <1>2 DEF ReadWait, Control, MutexTypeOK, Named, ReadSome, Places, InLock, InWakeup
<1>3. CASE DecWait(p)
  BY <1>3 DEF DecWait, Control, MutexTypeOK, Named, ReadSome, Places, InLock, InWakeup
<1>4. CASE Post(p)
  BY <1>4 DEF Post, Control, MutexTypeOK, Named, ReadSome, Places, InLock, InWakeup
<1>5. CASE Return(p)
  BY <1>5 DEF Return, Control, MutexTypeOK, Named, ReadSome, Places, InLock, InWakeup
<1> QED BY <1>1, <1>2, <1>3, <1>4, <1>5 DEF WakeupStep

\* A death leaves the lock word naming the dead; only then may the master
\* free it.
LEMMA DeathControl ==
  ASSUME Control, NEW p \in Workers, Die(p) \/ Reap(p) \/ Respawn(p)
  PROVE  Control'
<1> USE ShmtxAssumption DEF Goto, Procs
<1>1. CASE Die(p)
  BY <1>1 DEF Die, Control, MutexTypeOK, Named, ReadSome, Places, InLock, InWakeup
<1>2. CASE Reap(p)
  BY <1>2 DEF Reap, Control, MutexTypeOK, Named, ReadSome, Places, InLock, InWakeup
<1>3. CASE Respawn(p)
  BY <1>3 DEF Respawn, Control, MutexTypeOK, Named, ReadSome, Places, InLock, InWakeup
<1> QED BY <1>1, <1>2, <1>3

-----------------------------------------------------------------------------
(* What the sleepers are owed. *)

\* Sets of processes are finite.
LEMMA FiniteProcs ==
  ASSUME NEW S \in SUBSET Procs
  PROVE  IsFiniteSet(S) /\ Cardinality(S) \in Nat
<1>1. IsFiniteSet(Procs)
  BY ShmtxAssumption, FS_AddElement DEF Procs
<1>2. IsFiniteSet(S)
  BY <1>1, FS_Subset
<1> QED BY <1>2, FS_CardinalityType

\* One process more, or one less.
LEMMA OneMoreProc ==
  ASSUME NEW S \in SUBSET Procs, NEW x, x \notin S
  PROVE  Cardinality(S \cup {x}) = Cardinality(S) + 1
<1>1. IsFiniteSet(S)
  BY FiniteProcs
<1> QED BY <1>1, FS_AddElement

LEMMA OneLessProc ==
  ASSUME NEW S \in SUBSET Procs, NEW x \in S
  PROVE  Cardinality(S \ {x}) = Cardinality(S) - 1
<1>1. IsFiniteSet(S)
  BY FiniteProcs
<1> QED BY <1>1, FS_RemoveElement

\* The account, now and in the next state, is made of natural numbers.
LEMMA AccountType ==
  ASSUME Control, Control'
  PROVE  /\ Waiting \in SUBSET Procs /\ Posting \in SUBSET Procs
         /\ Waiting' \in SUBSET Procs /\ Posting' \in SUBSET Procs
         /\ Cardinality(Waiting) \in Nat /\ Cardinality(Posting) \in Nat
         /\ Cardinality(Waiting') \in Nat /\ Cardinality(Posting') \in Nat
         /\ wait \in Nat /\ sem \in Nat /\ lost \in Nat
         /\ wait' \in Nat /\ sem' \in Nat /\ lost' \in Nat
<1>1. /\ Waiting \in SUBSET Procs /\ Posting \in SUBSET Procs
      /\ Waiting' \in SUBSET Procs /\ Posting' \in SUBSET Procs
  BY DEF Waiting, Posting, Procs
<1>2. /\ Cardinality(Waiting) \in Nat /\ Cardinality(Posting) \in Nat
      /\ Cardinality(Waiting') \in Nat /\ Cardinality(Posting') \in Nat
  BY <1>1, FiniteProcs
<1> QED BY <1>1, <1>2 DEF Control, MutexTypeOK

\* A step that moves no process into or out of the two sets and takes nothing
\* away keeps the account.
LEMMA SameSetsOwed ==
  ASSUME Control, Control', WakeupOwed,
         Waiting' = Waiting, Posting' = Posting,
         wait' + sem' + lost' >= wait + sem + lost
  PROVE  WakeupOwed'
<1>1. Cardinality(Waiting') = Cardinality(Waiting) /\ Cardinality(Posting') = Cardinality(Posting)
  OBVIOUS
<1> QED BY <1>1, AccountType DEF WakeupOwed

\* A step after which fewer processes wait keeps the account as well.
LEMMA FewerOwed ==
  ASSUME Control, Control', WakeupOwed,
         Waiting' \in SUBSET Waiting, Posting' = Posting,
         wait' + sem' + lost' >= wait + sem + lost
  PROVE  WakeupOwed'
<1>1. IsFiniteSet(Waiting)
  BY FiniteProcs, AccountType
<1>2. Cardinality(Waiting') <= Cardinality(Waiting)
  BY <1>1, FS_Subset
<1>3. Cardinality(Posting') = Cardinality(Posting)
  OBVIOUS
<1> QED BY <1>2, <1>3, AccountType DEF WakeupOwed

\* Entering the queue adds one to both sides; leaving it takes one off both.
LEMMA LockOwed ==
  ASSUME Control, Control', WakeupOwed, NEW p \in Workers, Request(p) \/ LockStep(p)
  PROVE  WakeupOwed'
<1> USE ShmtxAssumption
<1>t. pc \in [Procs -> Places] /\ p \in Procs
  BY DEF Control, MutexTypeOK, Procs
<1>a. wait \in Nat /\ sem \in Nat /\ lost \in Nat
  BY AccountType
<1>1. CASE Request(p) \/ Try(p)
  <2>1. Waiting' = Waiting /\ Posting' = Posting
    BY <1>1, <1>t DEF Request, Try, TryLock, Goto, Waiting, Posting, Procs
  <2>2. wait' + sem' + lost' >= wait + sem + lost
    BY <1>1, <1>a DEF Request, Try, TryLock
  <2> QED BY <2>1, <2>2, SameSetsOwed
<1>2. CASE Announce(p)
  <2>1. Waiting' = Waiting \cup {p} /\ p \notin Waiting /\ Posting' = Posting
    BY <1>2, <1>t DEF Announce, Goto, Waiting, Posting, Procs
  <2>2. Cardinality(Waiting') = Cardinality(Waiting) + 1
    BY <2>1, OneMoreProc, AccountType
  <2>3. Cardinality(Posting') = Cardinality(Posting)
    BY <2>1
  <2>4. wait' = wait + 1 /\ sem' = sem /\ lost' = lost
    BY <1>2 DEF Announce
  <2> QED BY <2>2, <2>3, <2>4, AccountType DEF WakeupOwed
<1>3. CASE Retry(p)
  <2>1. Waiting' \in SUBSET Waiting /\ Posting' = Posting
    BY <1>3, <1>t DEF Retry, TryLock, Goto, Waiting, Posting, Procs
  <2>2. wait' + sem' + lost' >= wait + sem + lost
    BY <1>3, <1>a DEF Retry, TryLock
  <2> QED BY <2>1, <2>2, FewerOwed
<1>4. CASE SemWait(p)
  <2>1. Waiting' = Waiting \ {p} /\ p \in Waiting /\ Posting' = Posting
    BY <1>4, <1>t DEF SemWait, Goto, Waiting, Posting, Procs
  <2>2. Cardinality(Waiting') = Cardinality(Waiting) - 1
    BY <2>1, OneLessProc, AccountType
  <2>3. Cardinality(Posting') = Cardinality(Posting)
    BY <2>1
  <2>4. wait' = wait /\ sem' = sem - 1 /\ lost' = lost
    BY <1>4 DEF SemWait
  <2> QED BY <2>2, <2>3, <2>4, AccountType DEF WakeupOwed
<1> QED BY <1>1, <1>2, <1>3, <1>4 DEF LockStep

\* Waking a sleeper moves what it is owed from `wait` to a post on its way
\* and from there to the semaphore.
LEMMA WakeupsOwed ==
  ASSUME Control, Control', WakeupOwed, NEW p \in Procs,
         Unlock(p) \/ WakeupStep(p) \/ Return(p)
  PROVE  WakeupOwed'
<1> USE ShmtxAssumption
<1>t. pc \in [Procs -> Places]
  BY DEF Control, MutexTypeOK
<1>a. wait \in Nat /\ sem \in Nat /\ lost \in Nat
  BY AccountType
<1>1. CASE Unlock(p) \/ ReadWait(p) \/ Return(p)
  <2>1. Waiting' = Waiting /\ Posting' = Posting
    BY <1>1, <1>t DEF Unlock, ReadWait, Return, Goto, Waiting, Posting, Procs
  <2>2. wait' + sem' + lost' >= wait + sem + lost
    BY <1>1, <1>a DEF Unlock, ReadWait, Return
  <2> QED BY <2>1, <2>2, SameSetsOwed
<1>2. CASE DecWait(p) /\ wait = seen[p]
  <2>1. Waiting' = Waiting /\ Posting' = Posting \cup {p} /\ p \notin Posting
    BY <1>2, <1>t DEF DecWait, Goto, Waiting, Posting, Procs
  <2>2. Cardinality(Posting') = Cardinality(Posting) + 1
    BY <2>1, OneMoreProc, AccountType
  <2>3. Cardinality(Waiting') = Cardinality(Waiting)
    BY <2>1
  <2>4. wait' = wait - 1 /\ sem' = sem /\ lost' = lost
    BY <1>2 DEF DecWait
  <2> QED BY <2>2, <2>3, <2>4, AccountType DEF WakeupOwed
<1>3. CASE DecWait(p) /\ wait # seen[p]
  <2>1. Waiting' = Waiting /\ Posting' = Posting
    BY <1>3, <1>t DEF DecWait, Goto, Waiting, Posting, Procs
  <2>2. wait' + sem' + lost' >= wait + sem + lost
    BY <1>3, <1>a DEF DecWait
  <2> QED BY <2>1, <2>2, SameSetsOwed
<1>4. CASE Post(p)
  <2>1. Waiting' = Waiting /\ Posting' = Posting \ {p} /\ p \in Posting
    BY <1>4, <1>t DEF Post, Goto, Waiting, Posting, Procs
  <2>2. Cardinality(Posting') = Cardinality(Posting) - 1
    BY <2>1, OneLessProc, AccountType
  <2>3. Cardinality(Waiting') = Cardinality(Waiting)
    BY <2>1
  <2>4. wait' = wait /\ sem' = sem + 1 /\ lost' = lost
    BY <1>4 DEF Post
  <2> QED BY <2>2, <2>3, <2>4, AccountType DEF WakeupOwed
<1> QED BY <1>1, <1>2, <1>3, <1>4 DEF WakeupStep

\* A process that dies with a post to make leaves it to the ghost `lost`.
LEMMA DeathOwed ==
  ASSUME Control, Control', WakeupOwed, NEW p \in Workers, Die(p) \/ Reap(p) \/ Respawn(p)
  PROVE  WakeupOwed'
<1> USE ShmtxAssumption
<1>t. pc \in [Procs -> Places] /\ p \in Procs
  BY DEF Control, MutexTypeOK, Procs
<1>a. wait \in Nat /\ sem \in Nat /\ lost \in Nat
  BY AccountType
<1>1. CASE Reap(p) \/ Respawn(p)
  <2>1. Waiting' = Waiting /\ Posting' = Posting
    BY <1>1, <1>t DEF Reap, Respawn, Goto, Waiting, Posting, Procs
  <2>2. wait' + sem' + lost' >= wait + sem + lost
    BY <1>1, <1>a DEF Reap, Respawn
  <2> QED BY <2>1, <2>2, SameSetsOwed
<1>2. CASE Die(p) /\ pc[p] # "post"
  <2>1. Waiting' \in SUBSET Waiting /\ Posting' = Posting
    BY <1>2, <1>t DEF Die, Goto, Waiting, Posting, Procs
  <2>2. wait' + sem' + lost' >= wait + sem + lost
    BY <1>2, <1>a DEF Die
  <2> QED BY <2>1, <2>2, FewerOwed
<1>3. CASE Die(p) /\ pc[p] = "post"
  <2>1. Waiting' = Waiting /\ Posting' = Posting \ {p} /\ p \in Posting
    BY <1>3, <1>t DEF Die, Goto, Waiting, Posting, Procs
  <2>2. Cardinality(Posting') = Cardinality(Posting) - 1
    BY <2>1, OneLessProc, AccountType
  <2>3. Cardinality(Waiting') = Cardinality(Waiting)
    BY <2>1
  <2>4. wait' = wait /\ sem' = sem /\ lost' = lost + 1
    BY <1>3 DEF Die
  <2> QED BY <2>2, <2>3, <2>4, AccountType DEF WakeupOwed
<1> QED BY <1>1, <1>2, <1>3

-----------------------------------------------------------------------------
(* No wake-up is lost. *)

\* Somebody is under way to the lock or to the semaphore.
Underway == \E p \in Procs : pc[p] \in InWakeup \cup {"try"}

Sleeping == \E p \in Workers : pc[p] = "sleep"

\* On the way to the lock: the lock is taken, or the process is on its way.
LEMMA LockWakes ==
  ASSUME Control, Control', NoLostWakeup, NEW p \in Workers, Request(p) \/ LockStep(p)
  PROVE  NoLostWakeup'
<1>t. pc \in [Procs -> Places] /\ p \in Procs /\ p # NULL
  BY ShmtxAssumption DEF Control, MutexTypeOK, Procs
<1>1. CASE Request(p) \/ SemWait(p)
  <2>1. pc'[p] = "try"
    BY <1>1, <1>t DEF Request, SemWait, Goto
  <2> QED BY <2>1, <1>t DEF NoLostWakeup
<1>2. CASE Try(p) \/ Retry(p)
  <2>1. lock' # NULL
    BY <1>2, <1>t DEF Try, Retry, TryLock
  <2> QED BY <2>1 DEF NoLostWakeup
<1>3. CASE Announce(p)
  <2>1. pc' = [pc EXCEPT ![p] = "retry"] /\ pc[p] = "add"
        /\ lock' = lock /\ sem' = sem /\ lost' = lost /\ cut' = cut
    BY <1>3 DEF Announce, Goto
  <2> QED BY <2>1, <1>t DEF NoLostWakeup, InWakeup
<1> QED BY <1>1, <1>2, <1>3 DEF LockStep

\* Who finds `wait` zero leaves nobody behind that is not already owed a post:
\* the one step that needs WakeupOwed.
LEMMA ReadZeroWakes ==
  ASSUME Control, Control', WakeupOwed, NEW p \in Procs, ReadWait(p), wait = 0, Sleeping
  PROVE  sem > 0 \/ lost > 0 \/ \E q \in Procs : q # p /\ pc[q] = "post"
<1>1. PICK q \in Workers : pc[q] = "sleep"
  BY DEF Sleeping
<1>2. q \in Waiting
  BY <1>1 DEF Waiting
<1>3. IsFiniteSet(Waiting) /\ IsFiniteSet(Posting)
  BY FiniteProcs, AccountType
<1>4. Cardinality(Waiting) # 0
  BY <1>2, <1>3, FS_EmptySet
<1>5. sem + Cardinality(Posting) + lost >= 1
  BY <1>4, AccountType DEF WakeupOwed
<1>6. CASE Cardinality(Posting) = 0
  BY <1>5, <1>6, AccountType
<1>7. CASE Cardinality(Posting) # 0
  <2>1. Posting # {}
    BY <1>7, FS_EmptySet
  <2>2. PICK r \in Procs : pc[r] = "post"
    BY <2>1 DEF Posting
  <2>3. pc[p] = "wake"
    BY DEF ReadWait
  <2> QED BY <2>2, <2>3
<1> QED BY <1>6, <1>7

\* Releasing the lock and waking a sleeper.
LEMMA WakeupWakes ==
  ASSUME Control, Control', WakeupOwed, NoLostWakeup, NEW p \in Procs,
         Unlock(p) \/ WakeupStep(p) \/ Return(p)
  PROVE  NoLostWakeup'
<1>t. pc \in [Procs -> Places] /\ sem \in Nat
  BY DEF Control, MutexTypeOK
<1>1. CASE Unlock(p) \/ DecWait(p) \/ (ReadWait(p) /\ wait # 0)
  <2>1. pc'[p] \in InWakeup
    BY <1>1, <1>t DEF Unlock, DecWait, ReadWait, Goto, InWakeup
  <2> QED BY <2>1 DEF NoLostWakeup
<1>2. CASE Post(p)
  <2>1. sem' > 0
    BY <1>2, <1>t DEF Post
  <2> QED BY <2>1 DEF NoLostWakeup
<1>3. CASE ReadWait(p) /\ wait = 0
  <2>1. pc' = [pc EXCEPT ![p] = "done"] /\ sem' = sem /\ lost' = lost
    BY <1>3 DEF ReadWait, Goto
  <2>2. CASE Sleeping
    <3>1. sem > 0 \/ lost > 0 \/ \E q \in Procs : q # p /\ pc[q] = "post"
      BY <1>3, <2>2, ReadZeroWakes
    <3>2. sem' > 0 \/ lost' > 0 \/ \E q \in Procs : pc'[q] = "post"
      BY <2>1, <3>1, <1>t
    <3> QED BY <3>2 DEF NoLostWakeup, InWakeup
  <2>3. CASE ~ Sleeping
    <3>1. ~ Sleeping'
      BY <2>1, <2>3, <1>t DEF Sleeping, Procs
    <3> QED BY <3>1 DEF NoLostWakeup, Sleeping
  <2> QED BY <2>2, <2>3
<1>4. CASE Return(p)
  <2>1. pc' = [pc EXCEPT ![p] = "out"] /\ pc[p] = "done"
        /\ lock' = lock /\ sem' = sem /\ lost' = lost /\ cut' = cut
    BY <1>4 DEF Return, Goto
  <2>2. Sleeping' => Sleeping
    BY <2>1, <1>t DEF Sleeping, Procs
  <2>3. Underway => Underway'
    BY <2>1, <1>t DEF Underway, InWakeup
  <2> QED BY <2>1, <2>2, <2>3 DEF NoLostWakeup, Sleeping, Underway
<1> QED BY <1>1, <1>2, <1>3, <1>4 DEF WakeupStep

\* Deaths: one on the way to the lock or in the wake-up is recorded by `cut`.
LEMMA DeathWakes ==
  ASSUME Control, Control', NoLostWakeup, NEW p \in Workers, Die(p) \/ Reap(p) \/ Respawn(p)
  PROVE  NoLostWakeup'
<1>t. pc \in [Procs -> Places] /\ p \in Procs /\ Master \in Procs /\ Master # p
  BY ShmtxAssumption DEF Control, MutexTypeOK, Procs
<1>1. CASE Die(p) /\ pc[p] \in InWakeup \cup {"try"}
  <2>1. cut'
    BY <1>1 DEF Die
  <2> QED BY <2>1 DEF NoLostWakeup
<1>2. CASE Die(p) /\ pc[p] \notin InWakeup \cup {"try"}
  <2>1. pc' = [pc EXCEPT ![p] = "dead"]
        /\ lock' = lock /\ sem' = sem /\ lost' = lost /\ cut' = cut
    BY <1>2 DEF Die, Goto, InWakeup, Control, MutexTypeOK
  <2>2. Sleeping' => Sleeping
    BY <2>1, <1>t DEF Sleeping, Procs
  <2>3. Underway => Underway'
    BY <1>2, <2>1, <1>t DEF Underway, InWakeup
  <2> QED BY <2>1, <2>2, <2>3 DEF NoLostWakeup, Sleeping, Underway
<1>3. CASE Reap(p) /\ lock = p
  <2>1. pc'[Master] = "wake"
    BY <1>3, <1>t DEF Reap
  <2> QED BY <2>1, <1>t DEF NoLostWakeup, InWakeup
<1>4. CASE (Reap(p) /\ lock # p) \/ Respawn(p)
  <2>1. PICK place \in {"gone", "out"} : pc' = [pc EXCEPT ![p] = place]
    BY <1>4 DEF Reap, Respawn, Goto
  <2>2. pc[p] \in {"dead", "gone"}
        /\ lock' = lock /\ sem' = sem /\ lost' = lost /\ cut' = cut
    BY <1>4 DEF Reap, Respawn
  <2>3. Sleeping' => Sleeping
    BY <2>1, <1>t DEF Sleeping, Procs
  <2>4. Underway => Underway'
    BY <2>1, <2>2, <1>t DEF Underway, InWakeup
  <2> QED BY <2>2, <2>3, <2>4 DEF NoLostWakeup, Sleeping, Underway
<1> QED BY <1>1, <1>2, <1>3, <1>4

-----------------------------------------------------------------------------

LEMMA InitMutex == MutexInit => MutexInv
<1> SUFFICES ASSUME MutexInit PROVE MutexInv
  OBVIOUS
<1>1. Control
  BY InitControl
<1>2. Waiting = {} /\ Posting = {}
  BY DEF MutexInit, Waiting, Posting, Procs
<1>3. WakeupOwed
  BY <1>2, FS_EmptySet DEF WakeupOwed, MutexInit
<1>4. NoLostWakeup
  BY DEF NoLostWakeup, MutexInit, Procs
<1> QED BY <1>1, <1>3, <1>4 DEF MutexInv

\* Every step of the mutex keeps the invariant.
LEMMA NextMutex ==
  ASSUME MutexInv, MutexNext
  PROVE  MutexInv'
<1> USE DEF MutexInv
<1>1. CASE \E p \in Workers : Request(p) \/ LockStep(p)
  BY <1>1, LockControl, LockOwed, LockWakes
<1>2. CASE \E p \in Procs : (p \in Workers /\ Unlock(p)) \/ WakeupStep(p) \/ Return(p)
  BY <1>2, WakeupControl, WakeupsOwed, WakeupWakes
<1>3. CASE \E p \in Workers : Die(p) \/ Reap(p) \/ Respawn(p)
  BY <1>3, DeathControl, DeathOwed, DeathWakes
<1>4. \A p \in Workers : p \in Procs
  BY DEF Procs
<1> QED BY <1>1, <1>2, <1>3, <1>4 DEF MutexNext

LEMMA StutterMutex ==
  ASSUME MutexInv, UNCHANGED mutexVars
  PROVE  MutexInv'
  BY DEF mutexVars, MutexInv, Control, MutexTypeOK, Named, ReadSome, WakeupOwed,
     Waiting, Posting, NoLostWakeup

\* The invariant holds in every state of the mutex.
THEOREM MutexSafe == MutexSpec => []MutexInv
<1>1. MutexInit => MutexInv
  BY InitMutex
<1>2. MutexInv /\ [MutexNext]_mutexVars => MutexInv'
  BY NextMutex, StutterMutex
<1> QED BY <1>1, <1>2, PTL DEF MutexSpec

\* Mutual exclusion of ngx_shmtx_lock, with forced unlocks.
THEOREM MutexExclusive == MutexSpec => []Exclusive
<1>1. MutexInv => Exclusive
  BY DEF MutexInv, Control, Named, Exclusive
<1> QED BY <1>1, MutexSafe, PTL

\* No waiter of ngx_shmtx_lock is forgotten by the wake-up protocol.
THEOREM MutexOwed == MutexSpec => []WakeupOwed
<1>1. MutexInv => WakeupOwed
  BY DEF MutexInv
<1> QED BY <1>1, MutexSafe, PTL

\* No free mutex is left to sleepers alone.
THEOREM MutexWakes == MutexSpec => []NoLostWakeup
<1>1. MutexInv => NoLostWakeup
  BY DEF MutexInv
<1> QED BY <1>1, MutexSafe, PTL

=============================================================================
