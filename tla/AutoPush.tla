------------------------------ MODULE AutoPush -------------------------------
(***************************************************************************)
(* rtmp_auto_push (ngx_rtmp_auto_push_module.c): every worker listens on a *)
(* unix socket named after its slot, and the worker with the publisher of  *)
(* a stream pushes it to the others, found in its copy of the table of     *)
(* processes.  One stream is followed, over crashes, reloads and shutdowns *)
(* of Process.                                                             *)
(*                                                                         *)
(* connect() on a unix socket succeeds at once or is refused at once.  The *)
(* new binary of an upgrade is taken to use another socket directory.      *)
(***************************************************************************)
EXTENDS Process

CONSTANTS
    MaxPublishes   \* bound: times the stream is published

ASSUME AutoPushAssumption == MaxPublishes \in Nat

VARIABLES
    socket,        \* slot -> pid bound to its socket file, 0 without a file
    pub,           \* worker of the publisher, 0 when nobody publishes
    slots,         \* ctx->slots
    relays,        \* slot -> worker the relay of that slot leads to, 0 without
    push_evt,      \* ctx->push_evt.timer_set
    times          \* publishes so far

pushVars == <<socket, pub, slots, relays, push_evt, times>>
vars == <<procVars, pushVars>>

None == [i \in Slots |-> 0]
NoSlots == [i \in Slots |-> FALSE]

\* A listening socket takes connections until its worker closes it.
Listening(p) == p # 0 /\ w[p].st \in {"running", "hung"}

\* Changed on purpose: only as many slots as there are workers are looked at.
KnownFew(p) == {i \in Slots : i < N /\ i # w[p].slot /\ w[p].tab[i] \notin {0, -1}}

\* Slots that reconnect looks at.
Known(p) == {i \in Slots : i # w[p].slot /\ w[p].tab[i] \notin {0, -1}}

\* ngx_rtmp_auto_push_reconnect in worker p, with ctx->slots as given.
Reconnect(p, marked) ==
    LET fresh == {i \in Known(p) : ~ marked[i] /\ Listening(socket[i])}
        npushed == Cardinality(fresh) + Cardinality({i \in Known(p) : marked[i]})
    IN  /\ slots' = [i \in Slots |-> marked[i] \/ i \in fresh]
        /\ relays' = [i \in Slots |-> IF i \in fresh THEN socket[i]
                                      ELSE IF marked[i] THEN relays[i] ELSE 0]
        /\ push_evt' = (npushed + 1 # N)

\* ngx_rtmp_auto_push_publish for a client of worker p.
Publish(p) ==
    /\ m.up /\ w[p].st = "running" /\ pub = 0 /\ times < MaxPublishes
    /\ pub' = p
    /\ Reconnect(p, NoSlots)
    /\ times' = times + 1
    /\ UNCHANGED <<procVars, socket>>

Forget == slots' = NoSlots /\ relays' = None /\ push_evt' = FALSE

\* ngx_rtmp_auto_push_delete_stream for the publisher; the relay module ends
\* the relays with it.
Unpublish ==
    /\ m.up /\ pub # 0 /\ ~ Hung(pub)
    /\ pub' = 0 /\ Forget
    /\ UNCHANGED <<procVars, socket, times>>

PushTimer ==
    /\ m.up /\ pub # 0 /\ push_evt /\ ~ Hung(pub)
    /\ Reconnect(pub, slots)
    /\ UNCHANGED <<procVars, socket, pub, times>>

\* ngx_rtmp_auto_push_delete_stream for a relay that ended.
RelayEnds(i) ==
    /\ m.up /\ pub # 0 /\ ~ Hung(pub) /\ relays[i] # 0
    /\ IF Alive(relays[i]) THEN Counts("drops", MaxDrops) ELSE UNCHANGED used
    /\ slots' = [slots EXCEPT ![i] = FALSE]
    /\ relays' = [relays EXCEPT ![i] = 0]
    /\ push_evt' = TRUE
    /\ UNCHANGED <<m, w, sigs, socket, pub, times>>

-----------------------------------------------------------------------------
(* The steps of the processes, with their sockets and sessions. *)

\* A worker that is gone takes its publisher with it; the relays that led to
\* it end later, when the publisher's worker notices.
Sessions ==
    /\ UNCHANGED times
    /\ IF pub # 0 /\ w'[pub].st \in {"zombie", "gone"}
       THEN pub' = 0 /\ Forget
       ELSE UNCHANGED <<pub, slots, relays, push_evt>>

\* Sessions keep an exiting worker.
Busy(p) == p = pub \/ \E i \in Slots : relays[i] = p

\* ngx_rtmp_auto_push_init_process
InitProcess(p) ==
    /\ Starts(p) /\ Sessions
    /\ socket' = [socket EXCEPT ![w[p].slot] = p]

\* ngx_rtmp_auto_push_exit_process
ExitProcess(p) == socket' = [socket EXCEPT ![w[p].slot] = 0]

HearsMaster(p) ==
    /\ ReadsChannel(p) /\ Sessions
    /\ IF w[p].term THEN ExitProcess(p) ELSE UNCHANGED socket

Leaves(p) ==
    /\ ExitsGracefully(p) /\ ~ Busy(p)
    /\ Sessions /\ ExitProcess(p)

\* Deaths without exit_process, and steps that concern no worker's sockets.
Other(p) ==
    /\ StartFails(p) \/ Crashes(p) \/ Hangs(p) \/ BinaryEnds(p)
    /\ Sessions /\ UNCHANGED socket

MasterTurn ==
    /\ (\E ok \in BOOLEAN : MasterWakes(ok)) \/ AlarmFires \/ (\E sig \in Signals : Send(sig))
    /\ Sessions /\ UNCHANGED socket

Init ==
    /\ ProcInit
    /\ socket = None /\ pub = 0
    /\ slots = NoSlots /\ relays = None /\ push_evt = FALSE
    /\ times = 0

Next ==
    \/ MasterTurn
    \/ \E p \in Pids :
          InitProcess(p) \/ HearsMaster(p) \/ Leaves(p) \/ Other(p) \/ Publish(p)
    \/ Unpublish \/ PushTimer
    \/ \E i \in Slots : RelayEnds(i)

PushDue ==
    /\ m.up /\ pub # 0 /\ push_evt /\ ~ Hung(pub)
    /\ \/ \E i \in Known(pub) : ~ slots[i] /\ Listening(socket[i])
       \/ Cardinality({i \in Known(pub) : slots[i]}) + 1 = N

\* The master is scheduled when a signal is pending, its timer expires, a
\* worker that is not hung comes back to its event loop, an exiting one leaves
\* when it has no sessions, and a relay to a dead worker ends.  Each of these
\* actions ends the condition it waits for, so weak fairness says that the
\* condition is false again and again.  So it is with the publisher's timer
\* while there is a worker it can still reach, or nothing to wait for.
Fairness ==
    /\ []<>(~ m.up \/ sigs = {})
    /\ []<>(~ m.up \/ ~ m.itimer)
    /\ []<>(~ m.up \/ \A p \in Pids :
               /\ w[p].st # "starting" /\ ~ Readable(p)
               /\ w[p].st = "exiting" => Busy(p))
    /\ []<>(~ PushDue)
    /\ []<>(~ m.up \/ pub = 0 \/ Hung(pub) \/
               \A i \in Slots : relays[i] # 0 => Alive(relays[i]))

Spec == Init /\ [][Next]_vars /\ Fairness

-----------------------------------------------------------------------------
(* Properties. *)

\* A published stream comes to be pushed to every other worker that serves,
\* or ends; save while a relay to a worker told to stop takes the place of one
\* in the count.
PushedEverywhere ==
    (m.up /\ pub # 0) ~>
        \/ ~ m.up \/ pub = 0 \/ ~ Serves(pub) \/ Hung(pub)
        \/ \A q \in Pids : Serves(q) /\ q # pub => \E i \in Slots : relays[i] = q
        \/ \E i \in Slots : relays[i] # 0 /\ ~ Serves(relays[i])
        \/ Cardinality({q \in Pids : Serves(q)}) > N

\* After a reload the workers of the old configuration go away, except those
\* that hang and those that sessions keep: the publisher's own and the ones it
\* pushes to.
ReloadEnds ==
    (m.up /\ OldWorkers # {}) ~> (~ m.up \/ \A p \in OldWorkers : Hung(p) \/ Busy(p))

\* The master exits when told to: after TERM whatever its workers do, after
\* QUIT unless a worker hangs or is kept by sessions.
ShutdownEnds ==
    (m.up /\ m.flags \cap {"terminate", "quit"} # {}) ~>
        \/ ~ m.up
        \/ /\ "terminate" \notin m.flags
           /\ \E p \in Pids : Alive(p) /\ (Hung(p) \/ Busy(p))

=============================================================================
