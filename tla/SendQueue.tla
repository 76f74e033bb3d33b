------------------------------ MODULE SendQueue ------------------------------
(***************************************************************************)
(* The output side of RTMP sessions: the ring s->out of reference-counted  *)
(* message chains, filled by ngx_rtmp_send_message and drained by          *)
(* ngx_rtmp_send, and the pool of shared chains (cscf->free) that all the  *)
(* sessions of a server draw from.                                         *)
(*                                                                         *)
(* One worker runs one handler at a time, so an action is a whole handler. *)
(* A chain is an identity; `data` says which message its buffers hold, and *)
(* changes when the chain is reused.  Every message takes Units successful *)
(* calls of c->send, so s->out_chain / s->out_bpos are the number `sent`   *)
(* of units of out[out_pos] already written.  Slots outside the window     *)
(* out_pos .. out_last are NULL here: the code leaves a stale pointer, and *)
(* a step that read one would be an error in the model.                    *)
(***************************************************************************)
EXTENDS Integers, FiniteSets

CONSTANTS
    Sessions,   \* session objects
    Chains,     \* chains that cscf->pool can provide
    Messages,   \* what a chain may hold
    OutQueue,   \* s->out_queue, from the out_queue directive
    OutCork,    \* s->out_cork
    OutBuffer,  \* s->out_buffer: messages may be held back until OutCork
    SizeMod,    \* size_t arithmetic is modulo SizeMod
    Units,      \* successful c->send calls one message takes
    NULL

\* The directive accepts any size; a queue of one slot could hold nothing.
ASSUME QueueAssumption ==
    /\ OutQueue \in Nat \ {0}
    /\ OutCork \in Nat
    /\ OutBuffer \in BOOLEAN
    /\ SizeMod \in Nat /\ SizeMod >= OutQueue
    /\ Units \in Nat \ {0}
    /\ NULL \notin Chains
    /\ IsFiniteSet(Sessions)

VARIABLES
    ref,        \* ngx_rtmp_ref(chain); 0 is: on cscf->free or never allocated
    data,       \* message in the chain's buffers
    held,       \* chains whose allocation reference is still with its maker
    out,        \* s->out
    out_pos, out_last,
    sent,       \* units of out[out_pos] written
    wactive,    \* c->write->active
    wtimer,     \* c->write->timer_set
    room,       \* the peer has read something since the socket was full
    conn,       \* "none", "open", or "closing" (c->destroyed, close posted)
    queued      \* ghost: messages accepted and not yet released

vars == <<ref, data, held, out, out_pos, out_last, sent, wactive, wtimer, room, conn, queued>>

Slots == 0 .. OutQueue - 1
Wrap(i) == i % OutQueue

\* Messages between out_pos and out_last.
Pending(s) == Wrap(out_last[s] - out_pos[s])

Init ==
    /\ ref = [c \in Chains |-> 0]
    /\ data \in [Chains -> Messages]
    /\ held = {}
    /\ out = [s \in Sessions |-> [i \in Slots |-> NULL]]
    /\ out_pos = [s \in Sessions |-> 0]
    /\ out_last = [s \in Sessions |-> 0]
    /\ sent = [s \in Sessions |-> 0]
    /\ wactive = [s \in Sessions |-> FALSE]
    /\ wtimer = [s \in Sessions |-> FALSE]
    /\ room = [s \in Sessions |-> FALSE]
    /\ conn = [s \in Sessions |-> "none"]
    /\ queued = [s \in Sessions |-> 0]

-----------------------------------------------------------------------------
(* Shared chains. *)

\* A handler or the codec context takes a chain and fills it with m.
AllocSharedBuf(c, m) ==
    /\ ref[c] = 0
    /\ ref' = [ref EXCEPT ![c] = 1]
    /\ data' = [data EXCEPT ![c] = m]
    /\ held' = held \cup {c}
    /\ UNCHANGED <<out, out_pos, out_last, sent, wactive, wtimer, room, conn, queued>>

\* Its maker puts the reference it was created with.
FreeSharedChain(c) ==
    /\ c \in held
    /\ held' = held \ {c}
    /\ ref' = [ref EXCEPT ![c] = @ - 1]
    /\ UNCHANGED <<data, out, out_pos, out_last, sent, wactive, wtimer, room, conn, queued>>

-----------------------------------------------------------------------------
(* Sending. *)

\* Changed on purpose: the length without the message being added.
NMsgBefore(s) == Wrap((out_last[s] - out_pos[s]) % SizeMod)

\* nmsg of ngx_rtmp_send_message: the subtraction is done in size_t.
NMsg(s) == Wrap((out_last[s] - out_pos[s]) % SizeMod) + 1

DropsAt(n, priority) == n + (priority * OutQueue) \div 4 >= OutQueue

\* The message stays in the ring although the socket could take it.
Corked(n, priority) == priority > 0 /\ OutBuffer /\ n < OutCork

\* Changed on purpose: the queue takes no reference of its own.
NotAcquired(c) == ref

\* ngx_rtmp_acquire_shared_chain
Acquired(c) == [ref EXCEPT ![c] = @ + 1]

\* The slots of the first n messages of session s.
FirstSlots(s, n) == {i \in Slots : Wrap(i - out_pos[s]) < n}

\* How often c is put when the first n messages of ring q are released.
Released(q, s, n, c) == Cardinality({i \in FirstSlots(s, n) : q[i] = c})

\* Ring q with those messages taken out.
Without(q, s, n) == [i \in Slots |-> IF i \in FirstSlots(s, n) THEN NULL ELSE q[i]]

\* The ways out of the loop of ngx_rtmp_send: nothing left to write;
Drained(s) ==
    /\ wactive' = [wactive EXCEPT ![s] = FALSE]
    /\ wtimer' = [wtimer EXCEPT ![s] = FALSE]
    /\ room' = [room EXCEPT ![s] = FALSE]
    /\ UNCHANGED conn

\* Changed on purpose: a full socket arms the write event without the timer.
AgainUntimed(s) ==
    /\ wactive' = [wactive EXCEPT ![s] = TRUE]
    /\ wtimer' = [wtimer EXCEPT ![s] = FALSE]
    /\ room' = [room EXCEPT ![s] = FALSE]
    /\ UNCHANGED conn

\* the socket is full (NGX_AGAIN), so the timer and the write event are armed;
Again(s) ==
    /\ wactive' = [wactive EXCEPT ![s] = TRUE]
    /\ wtimer' = [wtimer EXCEPT ![s] = TRUE]
    /\ room' = [room EXCEPT ![s] = FALSE]
    /\ UNCHANGED conn

\* a failed c->send, or a write event that cannot be armed.
Failed(s) ==
    /\ wtimer' = [wtimer EXCEPT ![s] = FALSE]
    /\ conn' = [conn EXCEPT ![s] = "closing"]
    /\ UNCHANGED <<wactive, room>>

\* The loop of ngx_rtmp_send on ring q that ends at `last`, with reference
\* counts r and n messages in all; the socket takes k units, at least `least`.
SendLoop(s, q, last, r, n, least) ==
    LET todo == Wrap(last - out_pos[s]) * Units - sent[s]
    IN  \E k \in 0 .. todo :
          LET gone == (sent[s] + k) \div Units
          IN  /\ k >= least \/ k = todo
              /\ out' = [out EXCEPT ![s] = Without(q, s, gone)]
              /\ out_pos' = [out_pos EXCEPT ![s] = Wrap(@ + gone)]
              /\ out_last' = [out_last EXCEPT ![s] = last]
              /\ sent' = [sent EXCEPT ![s] = (@ + k) % Units]
              /\ ref' = [c \in Chains |-> r[c] - Released(q, s, gone, c)]
              /\ queued' = [queued EXCEPT ![s] = n - gone]
              /\ \/ k = todo /\ Drained(s)
                 \/ k < todo /\ Again(s)
                 \/ k < todo /\ Failed(s)

\* ngx_rtmp_send_message accepts chain c at the given priority.  The message
\* is held back, or left to the armed write event, or sent at once.
SendMessage(s, c, p) ==
    LET priority == IF p > 3 THEN 3 ELSE p
        nmsg     == NMsg(s)
        q        == [out[s] EXCEPT ![out_last[s]] = c]
        last     == Wrap(out_last[s] + 1)
        r        == Acquired(c)
        waits    == Corked(nmsg, priority) \/ wactive[s] \/ conn[s] = "closing"
    IN  /\ conn[s] # "none"
        /\ c \in held
        /\ ~ DropsAt(nmsg, priority)
        /\ \/ /\ waits
              /\ out' = [out EXCEPT ![s] = q]
              /\ out_last' = [out_last EXCEPT ![s] = last]
              /\ ref' = r
              /\ queued' = [queued EXCEPT ![s] = @ + 1]
              /\ UNCHANGED <<out_pos, sent, wactive, wtimer, room, conn>>
           \/ /\ ~ waits
              /\ SendLoop(s, q, last, r, queued[s] + 1, 0)
        /\ UNCHANGED <<data, held>>

\* The peer reads, and the full socket has room again; it may never do so.
PeerReads(s) ==
    /\ conn[s] = "open"
    /\ wactive[s]
    /\ ~ room[s]
    /\ room' = [room EXCEPT ![s] = TRUE]
    /\ UNCHANGED <<ref, data, held, out, out_pos, out_last, sent, wactive, wtimer, conn, queued>>

\* epoll reports the socket writable, once it can take something.
WriteEvent(s) ==
    /\ conn[s] = "open"
    /\ wactive[s]
    /\ room[s]
    /\ SendLoop(s, out[s], out_last[s], ref, queued[s], 1)
    /\ UNCHANGED <<data, held>>

\* ngx_rtmp_send entered by its timer.
WriteTimeout(s) ==
    /\ conn[s] = "open"
    /\ wtimer[s]
    /\ wtimer' = [wtimer EXCEPT ![s] = FALSE]
    /\ conn' = [conn EXCEPT ![s] = "closing"]
    /\ UNCHANGED <<ref, data, held, out, out_pos, out_last, sent, wactive, room, queued>>

-----------------------------------------------------------------------------
(* Session life cycle. *)

InitSession(s) ==
    /\ conn[s] = "none"
    /\ conn' = [conn EXCEPT ![s] = "open"]
    /\ UNCHANGED <<ref, data, held, out, out_pos, out_last, sent, wactive, wtimer, room, queued>>

\* Any other handler gives the session up.
FinalizeSession(s) ==
    /\ conn[s] = "open"
    /\ conn' = [conn EXCEPT ![s] = "closing"]
    /\ UNCHANGED <<ref, data, held, out, out_pos, out_last, sent, wactive, wtimer, room, queued>>

\* ngx_rtmp_close_session_handler releases what is still queued; the session's
\* memory goes, so a later session starts from zeroed fields.
CloseSession(s) ==
    /\ conn[s] = "closing"
    /\ ref' = [c \in Chains |-> ref[c] - Released(out[s], s, Pending(s), c)]
    /\ out' = [out EXCEPT ![s] = [i \in Slots |-> NULL]]
    /\ out_pos' = [out_pos EXCEPT ![s] = 0]
    /\ out_last' = [out_last EXCEPT ![s] = 0]
    /\ sent' = [sent EXCEPT ![s] = 0]
    /\ wactive' = [wactive EXCEPT ![s] = FALSE]
    /\ wtimer' = [wtimer EXCEPT ![s] = FALSE]
    /\ room' = [room EXCEPT ![s] = FALSE]
    /\ conn' = [conn EXCEPT ![s] = "none"]
    /\ queued' = [queued EXCEPT ![s] = 0]
    /\ UNCHANGED <<data, held>>

Next ==
    \/ \E c \in Chains, m \in Messages : AllocSharedBuf(c, m)
    \/ \E c \in Chains : FreeSharedChain(c)
    \/ \E s \in Sessions, c \in Chains, p \in 0 .. 4 : SendMessage(s, c, p)
    \/ \E s \in Sessions : PeerReads(s)
    \/ \E s \in Sessions : WriteEvent(s)
    \/ \E s \in Sessions : WriteTimeout(s)
    \/ \E s \in Sessions : InitSession(s)
    \/ \E s \in Sessions : FinalizeSession(s)
    \/ \E s \in Sessions : CloseSession(s)

Spec == Init /\ [][Next]_vars

\* The event loop delivers a writable socket or, failing that, the timer
\* (ngx_rtmp_send re-arms it at every write event, so a peer that keeps reading
\* may never time out).  Nothing is assumed of the peer.
Fairness == \A s \in Sessions : WF_vars(WriteEvent(s) \/ WriteTimeout(s))

FairSpec == Spec /\ Fairness

-----------------------------------------------------------------------------
(* Properties. *)

\* Type invariant.  Reference counts never go below zero: no chain is put more
\* often than ngx_rtmp_alloc_shared_buf and ngx_rtmp_send_message took it.
TypeOK ==
    /\ ref \in [Chains -> Nat]
    /\ data \in [Chains -> Messages]
    /\ held \subseteq Chains
    /\ out \in [Sessions -> [Slots -> Chains \cup {NULL}]]
    /\ out_pos \in [Sessions -> Slots]
    /\ out_last \in [Sessions -> Slots]
    /\ sent \in [Sessions -> 0 .. Units - 1]
    /\ wactive \in [Sessions -> BOOLEAN]
    /\ wtimer \in [Sessions -> BOOLEAN]
    /\ room \in [Sessions -> BOOLEAN]
    /\ conn \in [Sessions -> {"none", "open", "closing"}]
    /\ queued \in [Sessions -> Nat]

\* ngx_rtmp_send_message never fills the last slot of the ring ("we always
\* leave 1 slot free"), so that out_pos = out_last always means empty.
OneSlotFree == \A s \in Sessions : queued[s] < OutQueue

\* A chain's count is exactly the references to it: its maker's, if not yet
\* put, and one for each slot of each ring.  So ngx_rtmp_free_shared_chain
\* puts a chain back on cscf->free when nobody can reach it, and not before.
Places(c) == {p \in Sessions \X Slots : out[p[1]][p[2]] = c}
RefExact ==
    \A c \in Chains : ref[c] = Cardinality(Places(c)) + (IF c \in held THEN 1 ELSE 0)

\* No lost wake-up: a queued message of an open session is waited for by an
\* armed write event with its timer, or is one of fewer than out_cork messages
\* held back on purpose (the early return of ngx_rtmp_send_message).
NoLostWakeup ==
    \A s \in Sessions : conn[s] = "open" /\ Pending(s) > 0 =>
        \/ wactive[s] /\ wtimer[s]
        \/ OutBuffer /\ Pending(s) < OutCork

\* A message at the head of the ring that the socket did not take at once is
\* written out in full, or the session is given up: the write event and the
\* timer of ngx_rtmp_send leave no third way.
HeadLeaves ==
    \A s \in Sessions, i \in Slots :
        (conn[s] = "open" /\ wactive[s] /\ out_pos[s] = i)
            ~> (conn[s] # "open" \/ out_pos[s] # i)

\* The sessions behave as first-in first-out queues of message contents with
\* the drop rule of ngx_rtmp_send_message stated on the true queue length.
Fifo == INSTANCE MessageFifo WITH
    Depth  <- OutQueue,
    fifo   <- [s \in Sessions |->
                [i \in 1 .. Pending(s) |-> data[out[s][Wrap(out_pos[s] + i - 1)]]]],
    cursor <- sent,
    state  <- conn

\* No message is lost, reordered, cut short or overwritten by the reuse of its
\* chain between ngx_rtmp_send_message and the socket.
ImplementsFifo == Fifo!Spec

=============================================================================
