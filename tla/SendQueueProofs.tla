--------------------------- MODULE SendQueueProofs ---------------------------
(***************************************************************************)
(* Proofs about SendQueue for any number of sessions, chains and messages, *)
(* any queue length that divides the range of size_t (a power of two) and  *)
(* any split of messages into pieces.                                      *)
(***************************************************************************)
EXTENDS SendQueue, RingArithmetic, TLAPS

\* The subtraction in ngx_rtmp_send_message is right when this holds.
QueueDivides == SizeMod % OutQueue = 0

-----------------------------------------------------------------------------
(* Ring arithmetic for the queue length of the sessions. *)

LEMMA WrapRange == ASSUME NEW i \in Int PROVE Wrap(i) \in Slots
  BY DivMod, QueueAssumption DEF Wrap, Slots

LEMMA SizeTDistance ==
  ASSUME QueueDivides, NEW a \in Slots, NEW b \in Slots
  PROVE  Wrap((b - a) % SizeMod) = Wrap(b - a)
  <1>1. /\ OutQueue \in Nat \ {0} /\ SizeMod \in Nat
        /\ SizeMod >= OutQueue /\ SizeMod % OutQueue = 0
        /\ a \in 0 .. OutQueue - 1 /\ b \in 0 .. OutQueue - 1
    BY QueueAssumption DEF Slots, QueueDivides
  <1>2. \A x, y \in 0 .. OutQueue - 1 :
           ((y - x) % SizeMod) % OutQueue = (y - x) % OutQueue
    BY <1>1, UnsignedDistance, Zenon
  <1> QED BY <1>1, <1>2, Zenon DEF Wrap

LEMMA WrapOneMore ==
  ASSUME NEW a \in Slots, NEW b \in Slots, Wrap(b - a) + 1 < OutQueue
  PROVE  Wrap(Wrap(b + 1) - a) = Wrap(b - a) + 1
  <1>1. OutQueue \in Nat \ {0} /\ a \in 0 .. OutQueue - 1 /\ b \in 0 .. OutQueue - 1
    BY QueueAssumption DEF Slots
  <1>2. ((b - a) % OutQueue) + 1 < OutQueue
    BY Zenon DEF Wrap
  <1>3. (((b + 1) % OutQueue) - a) % OutQueue = ((b - a) % OutQueue) + 1
    BY <1>1, <1>2, OneMore, Zenon
  <1> QED BY <1>3, Zenon DEF Wrap

LEMMA WrapFewer ==
  ASSUME NEW a \in Slots, NEW b \in Slots, NEW g \in Nat, g <= Wrap(b - a)
  PROVE  Wrap(b - Wrap(a + g)) = Wrap(b - a) - g
  <1>1. OutQueue \in Nat \ {0} /\ a \in 0 .. OutQueue - 1 /\ b \in 0 .. OutQueue - 1
    BY QueueAssumption DEF Slots
  <1>2. g <= (b - a) % OutQueue
    BY Zenon DEF Wrap
  <1>3. (b - ((a + g) % OutQueue)) % OutQueue = ((b - a) % OutQueue) - g
    BY <1>1, <1>2, Fewer, Zenon
  <1> QED BY <1>3, Zenon DEF Wrap

\* u units of n messages are done; k more complete `gone` of them.
LEMMA UnitsDone ==
  ASSUME NEW n \in Nat, NEW u \in 0 .. Units - 1, NEW k \in 0 .. n * Units - u
  PROVE  /\ (u + k) \div Units \in 0 .. n
         /\ (u + k) % Units \in 0 .. Units - 1
         /\ k = n * Units - u => (u + k) \div Units = n
  <1>1. (u + k) \div Units \in 0 .. n
    BY DoneBound, QueueAssumption
  <1>2. (u + k) % Units \in 0 .. Units - 1
    BY DivMod, QueueAssumption
  <1>3. ASSUME k = n * Units - u PROVE (u + k) \div Units = n
    <2>1. u + k = n * Units
      BY <1>3, QueueAssumption
    <2>2. (n * Units) \div Units = n
      BY QueueAssumption
    <2> QED BY <2>1, <2>2
  <1> QED BY <1>1, <1>2, <1>3

-----------------------------------------------------------------------------
(* The ring's indices, and the write event and timer. *)

\* What the indices and flags may be; the reference counts come later.
IndexType ==
    /\ out_pos \in [Sessions -> Slots]
    /\ out_last \in [Sessions -> Slots]
    /\ sent \in [Sessions -> 0 .. Units - 1]
    /\ wactive \in [Sessions -> BOOLEAN]
    /\ wtimer \in [Sessions -> BOOLEAN]
    /\ room \in [Sessions -> BOOLEAN]
    /\ conn \in [Sessions -> {"none", "open", "closing"}]
    /\ queued \in [Sessions -> Nat]

\* The window between the indices is what has been accepted and not released:
\* the ring never wraps onto itself.
WindowExact == \A s \in Sessions : queued[s] = Pending(s)

\* While a session is open its write event is armed exactly when its timer is,
\* and what waits without them is corked.
Watched ==
    \A s \in Sessions :
        /\ conn[s] = "open" => (wactive[s] <=> wtimer[s])
        /\ conn[s] = "open" /\ ~ wactive[s] /\ Pending(s) > 0 =>
              OutBuffer /\ Pending(s) < OutCork
        /\ conn[s] = "none" => ~ wactive[s] /\ ~ wtimer[s] /\ Pending(s) = 0

RingInv == IndexType /\ WindowExact /\ Watched

\* Slots are a range that starts at zero.
LEMMA PendingRange ==
  ASSUME IndexType, NEW s \in Sessions
  PROVE  Pending(s) \in Slots /\ Pending(s) \in Nat
  <1>1. out_last[s] - out_pos[s] \in Int
    BY QueueAssumption DEF IndexType, Slots
  <1> QED BY <1>1, WrapRange, QueueAssumption DEF Pending, Slots

\* When the queue divides the range of size_t, nmsg is the true length plus one.
LEMMA NMsgExact ==
  ASSUME QueueDivides, IndexType, NEW s \in Sessions
  PROVE  NMsg(s) = Pending(s) + 1
  <1>1. out_pos[s] \in Slots /\ out_last[s] \in Slots
    BY DEF IndexType
  <1> QED BY <1>1, SizeTDistance DEF NMsg, Pending

\* An accepted message finds a free slot besides its own.
LEMMA AcceptedFits ==
  ASSUME QueueDivides, IndexType, NEW s \in Sessions, NEW p \in 0 .. 3,
         ~ DropsAt(NMsg(s), p)
  PROVE  /\ Pending(s) + 1 < OutQueue
         /\ Wrap(Wrap(out_last[s] + 1) - out_pos[s]) = Pending(s) + 1
         /\ Wrap(out_last[s] + 1) \in Slots
  <1>1. out_pos[s] \in Slots /\ out_last[s] \in Slots
    BY DEF IndexType
  <1>2. (p * OutQueue) \div 4 >= 0
    BY QueueAssumption
  <1>3. Pending(s) + 1 < OutQueue
    BY <1>2, NMsgExact, PendingRange, QueueAssumption DEF DropsAt, Slots
  <1>4. Wrap(out_last[s] + 1) \in Slots
    BY <1>1, WrapRange DEF Slots
  <1> QED BY <1>1, <1>3, <1>4, WrapOneMore DEF Pending

\* The loop of ngx_rtmp_send keeps the invariant, whatever the socket takes.
LEMMA LoopKeepsRing ==
  ASSUME RingInv, NEW s \in Sessions, conn[s] = "open",
         NEW q, NEW last \in Slots, NEW r, NEW n, NEW least,
         n = Wrap(last - out_pos[s]),
         SendLoop(s, q, last, r, n, least)
  PROVE  RingInv'
  <1> USE DEF RingInv
  <1>0. /\ out_pos[s] \in Slots
        /\ sent[s] \in 0 .. Units - 1
        /\ n \in Nat
    BY WrapRange DEF IndexType, Slots
  <1> DEFINE todo == n * Units - sent[s]
             gone(k) == (sent[s] + k) \div Units
  <1>1. PICK k \in 0 .. todo :
          /\ out_pos' = [out_pos EXCEPT ![s] = Wrap(@ + gone(k))]
          /\ out_last' = [out_last EXCEPT ![s] = last]
          /\ sent' = [sent EXCEPT ![s] = (@ + k) % Units]
          /\ queued' = [queued EXCEPT ![s] = n - gone(k)]
          /\ \/ k = todo /\ Drained(s)
             \/ k < todo /\ Again(s)
             \/ k < todo /\ Failed(s)
    BY DEF SendLoop
  <1> DEFINE g == gone(k)
  <1>2. /\ g \in 0 .. n
        /\ (sent[s] + k) % Units \in 0 .. Units - 1
        /\ k = todo => g = n
    BY <1>0, <1>1, UnitsDone
  <1>3. Wrap(out_pos[s] + g) \in Slots
    BY <1>0, <1>2, WrapRange DEF Slots
  <1>4. Wrap(last - Wrap(out_pos[s] + g)) = n - g
    BY <1>0, <1>2, WrapFewer
  <1> HIDE DEF gone, g
  <1>5. /\ wactive' \in [Sessions -> BOOLEAN]
        /\ wtimer' \in [Sessions -> BOOLEAN]
        /\ room' \in [Sessions -> BOOLEAN]
        /\ conn' \in [Sessions -> {"none", "open", "closing"}]
    <2>1. CASE Drained(s)
      BY <2>1 DEF Drained, IndexType
    <2>2. CASE Again(s)
      BY <2>2 DEF Again, IndexType
    <2>3. CASE Failed(s)
      BY <2>3 DEF Failed, IndexType
    <2> QED BY <1>1, <2>1, <2>2, <2>3
  <1>6. IndexType'
    <2>1. n - g \in Nat
      BY <1>0, <1>2
    <2>2. queued' \in [Sessions -> Nat]
      BY <1>1, <2>1 DEF IndexType, g
    <2>3. /\ out_pos' \in [Sessions -> Slots]
          /\ out_last' \in [Sessions -> Slots]
          /\ sent' \in [Sessions -> 0 .. Units - 1]
      BY <1>1, <1>2, <1>3 DEF IndexType, g
    <2> QED BY <1>5, <2>2, <2>3 DEF IndexType
  <1>7. \A t \in Sessions : Pending(t)' = IF t = s THEN n - g ELSE Pending(t)
    BY <1>1, <1>4 DEF Pending, IndexType, g
  <1>8. WindowExact'
    BY <1>1, <1>7 DEF WindowExact, IndexType, g
  <1>9. Watched'
    <2> SUFFICES ASSUME NEW t \in Sessions
                 PROVE  /\ (conn[t] = "open" => (wactive[t] <=> wtimer[t]))'
                        /\ (conn[t] = "open" /\ ~ wactive[t] /\ Pending(t) > 0 =>
                              OutBuffer /\ Pending(t) < OutCork)'
                        /\ (conn[t] = "none" =>
                              ~ wactive[t] /\ ~ wtimer[t] /\ Pending(t) = 0)'
      BY DEF Watched
    <2>1. CASE t # s
      BY <2>1, <1>1, <1>7 DEF Watched, IndexType, Drained, Again, Failed
    <2>2. CASE t = s /\ k = todo /\ Drained(s)
      <3>1. Pending(s)' = 0
        BY <2>2, <1>0, <1>2, <1>7
      <3>2. ~ wactive'[s] /\ ~ wtimer'[s] /\ conn'[s] = "open"
        BY <2>2 DEF Drained, IndexType
      <3> QED BY <2>2, <3>1, <3>2
    <2>3. CASE t = s /\ Again(s)
      BY <2>3 DEF Again, IndexType
    <2>4. CASE t = s /\ Failed(s)
      BY <2>4 DEF Failed, IndexType
    <2> QED BY <1>1, <2>1, <2>2, <2>3, <2>4
  <1> QED BY <1>6, <1>8, <1>9

-----------------------------------------------------------------------------
(* Every step keeps the invariant. *)

\* The initial state has empty rings and nothing armed.
LEMMA InitRing == Init => RingInv
  <1> SUFFICES ASSUME Init PROVE RingInv
    OBVIOUS
  <1>1. \A s \in Sessions : Pending(s) = 0
    BY ModSmall, QueueAssumption DEF Init, Pending, Wrap
  <1>2. IndexType
    BY QueueAssumption DEF Init, IndexType, Slots
  <1> QED BY <1>1, <1>2 DEF Init, RingInv, WindowExact, Watched

\* ngx_rtmp_send_message.
LEMMA SendMessageKeepsRing ==
  ASSUME QueueDivides, RingInv,
         NEW s \in Sessions, NEW c \in Chains, NEW p \in 0 .. 4, SendMessage(s, c, p)
  PROVE  RingInv'
  <1> DEFINE priority == IF p > 3 THEN 3 ELSE p
             q    == [out[s] EXCEPT ![out_last[s]] = c]
             last == Wrap(out_last[s] + 1)
             waits == Corked(NMsg(s), priority) \/ wactive[s] \/ conn[s] = "closing"
  <1>0. IndexType
    BY DEF RingInv
  <1>1. /\ conn[s] \in {"open", "closing"}
        /\ ~ DropsAt(NMsg(s), priority)
        /\ priority \in 0 .. 3
    BY <1>0 DEF SendMessage, IndexType
  <1>2. /\ Pending(s) + 1 < OutQueue
        /\ Wrap(last - out_pos[s]) = Pending(s) + 1
        /\ last \in Slots
    BY <1>0, <1>1, AcceptedFits
  <1>3. CASE ~ waits
    <2>1. /\ conn[s] = "open"
          /\ SendLoop(s, q, last, Acquired(c), queued[s] + 1, 0)
      BY <1>1, <1>3 DEF SendMessage
    <2>2. queued[s] + 1 = Wrap(last - out_pos[s])
      BY <1>2 DEF RingInv, WindowExact
    <2> HIDE DEF q, last
    <2> QED BY <2>1, <2>2, <1>2, LoopKeepsRing
  <1>4. CASE waits
    <2>1. /\ out_last' = [out_last EXCEPT ![s] = last]
          /\ queued' = [queued EXCEPT ![s] = @ + 1]
          /\ UNCHANGED <<out_pos, sent, wactive, wtimer, room, conn>>
      BY <1>4 DEF SendMessage
    <2>2. IndexType'
      BY <2>1, <1>0, <1>2 DEF IndexType
    <2>3. \A t \in Sessions : Pending(t)' = IF t = s THEN Pending(s) + 1 ELSE Pending(t)
      BY <2>1, <1>0, <1>2 DEF Pending, IndexType
    <2>4. WindowExact'
      BY <2>1, <2>3, <1>0 DEF WindowExact, RingInv, IndexType
    <2>5. Corked(NMsg(s), priority) => OutBuffer /\ Pending(s) + 1 < OutCork
      BY <1>0, NMsgExact DEF Corked
    <2>6. Watched'
      BY <2>1, <2>3, <2>5, <1>1, <1>4 DEF Watched, RingInv
    <2> QED BY <2>2, <2>4, <2>6 DEF RingInv
  <1> QED BY <1>3, <1>4

\* A writable socket.
LEMMA WriteEventKeepsRing ==
  ASSUME RingInv, NEW s \in Sessions, WriteEvent(s)
  PROVE  RingInv'
  <1>1. /\ conn[s] = "open"
        /\ SendLoop(s, out[s], out_last[s], ref, queued[s], 1)
    BY DEF WriteEvent
  <1>2. out_last[s] \in Slots /\ queued[s] = Wrap(out_last[s] - out_pos[s])
    BY DEF RingInv, IndexType, WindowExact, Pending
  <1> QED BY <1>1, <1>2, LoopKeepsRing

\* Steps that leave the indices alone.
LEMMA FlagsKeepRing ==
  ASSUME RingInv, NEW s \in Sessions,
         PeerReads(s) \/ WriteTimeout(s) \/ InitSession(s) \/ FinalizeSession(s)
  PROVE  RingInv'
  <1>1. UNCHANGED <<out_pos, out_last, sent, queued>>
    BY DEF PeerReads, WriteTimeout, InitSession, FinalizeSession
  <1>2. \A t \in Sessions : Pending(t)' = Pending(t)
    BY <1>1 DEF Pending
  <1>3. CASE PeerReads(s)
    BY <1>1, <1>2, <1>3 DEF PeerReads, RingInv, IndexType, WindowExact, Watched
  <1>4. CASE WriteTimeout(s)
    BY <1>1, <1>2, <1>4 DEF WriteTimeout, RingInv, IndexType, WindowExact, Watched
  <1>5. CASE InitSession(s)
    BY <1>1, <1>2, <1>5, PendingRange DEF InitSession, RingInv, IndexType, WindowExact, Watched
  <1>6. CASE FinalizeSession(s)
    BY <1>1, <1>2, <1>6 DEF FinalizeSession, RingInv, IndexType, WindowExact, Watched
  <1> QED BY <1>3, <1>4, <1>5, <1>6

\* The close handler leaves an empty ring.
LEMMA CloseKeepsRing ==
  ASSUME RingInv, NEW s \in Sessions, CloseSession(s)
  PROVE  RingInv'
  <1>1. 0 \in Slots /\ 0 \in 0 .. Units - 1 /\ Wrap(0 - 0) = 0
    BY ModSmall, QueueAssumption DEF Wrap, Slots
  <1>2. IndexType'
    BY <1>1 DEF CloseSession, RingInv, IndexType
  <1>3. \A t \in Sessions : Pending(t)' = IF t = s THEN 0 ELSE Pending(t)
    BY <1>1 DEF CloseSession, RingInv, IndexType, Pending
  <1>4. WindowExact'
    BY <1>3 DEF CloseSession, RingInv, IndexType, WindowExact
  <1>5. Watched'
    BY <1>3 DEF CloseSession, RingInv, IndexType, Watched
  <1> QED BY <1>2, <1>4, <1>5 DEF RingInv

LEMMA NextKeepsRing ==
  ASSUME QueueDivides, RingInv, [Next]_vars
  PROVE  RingInv'
  <1>1. CASE \/ \E c \in Chains, m \in Messages : AllocSharedBuf(c, m)
             \/ \E c \in Chains : FreeSharedChain(c)
             \/ UNCHANGED vars
    <2>1. UNCHANGED <<out_pos, out_last, sent, wactive, wtimer, room, conn, queued>>
      BY <1>1 DEF AllocSharedBuf, FreeSharedChain, vars
    <2> QED BY <2>1 DEF RingInv, IndexType, WindowExact, Watched, Pending
  <1>2. CASE \E s \in Sessions, c \in Chains, p \in 0 .. 4 : SendMessage(s, c, p)
    BY <1>2, SendMessageKeepsRing
  <1>3. CASE \E s \in Sessions : WriteEvent(s)
    BY <1>3, WriteEventKeepsRing
  <1>4. CASE \E s \in Sessions :
               PeerReads(s) \/ WriteTimeout(s) \/ InitSession(s) \/ FinalizeSession(s)
    BY <1>4, FlagsKeepRing
  <1>5. CASE \E s \in Sessions : CloseSession(s)
    BY <1>5, CloseKeepsRing
  <1> QED BY <1>1, <1>2, <1>3, <1>4, <1>5 DEF Next

\* The invariant holds always.
THEOREM RingSafe == ASSUME QueueDivides PROVE Spec => []RingInv
  <1>1. Init => RingInv
    BY InitRing
  <1>2. RingInv /\ [Next]_vars => RingInv'
    BY NextKeepsRing
  <1> QED BY <1>1, <1>2, PTL DEF Spec

\* Ring overflow is impossible: with a queue length that divides the range of
\* size_t, ngx_rtmp_send_message leaves a slot free whatever the sequence of
\* calls, partial writes and closes.
THEOREM QueueNeverFull == ASSUME QueueDivides PROVE Spec => []OneSlotFree
  <1>1. RingInv => OneSlotFree
    BY PendingRange, QueueAssumption DEF RingInv, WindowExact, OneSlotFree, Slots
  <1> QED BY <1>1, RingSafe, PTL

\* No wake-up is lost in ngx_rtmp_send and ngx_rtmp_send_message: what waits in
\* an open session is watched by the write event and its timer, or is corked.
THEOREM EveryWaitIsWatched == ASSUME QueueDivides PROVE Spec => []NoLostWakeup
  <1>1. RingInv => NoLostWakeup
    BY DEF RingInv, Watched, NoLostWakeup
  <1> QED BY <1>1, RingSafe, PTL

=============================================================================
