------------------------------- MODULE Notify -------------------------------
(***************************************************************************)
(* The notify module over Live, with the netcall connections it makes: a   *)
(* publish or a play is put off until an HTTP server has answered, a timer *)
(* reports to the server while a session publishes, and the answers come   *)
(* back after the session has closed its stream, played something else,    *)
(* been finalized or gone.                                                 *)
(*                                                                         *)
(* A call that fails at once (ngx_rtmp_netcall_send closing it) is one     *)
(* that is answered with nothing in the next step.  The `done` calls have  *)
(* no handle: they are detached from the start, touch no session and are   *)
(* left out.  Where to push or pull after a redirect is left to Relay.     *)
(***************************************************************************)
EXTENDS Live

CONSTANTS
    Calls,          \* netcall connections
    Asks,           \* which of "publish" and "play" have a URL
    UpdateStrict,   \* notify_update_strict
    UpdateIgnore    \* notify_update_fail_ignore is not 0

ASSUME NotifyAssumption ==
    /\ Asks \subseteq {"publish", "play"}
    /\ {UpdateStrict, UpdateIgnore} \subseteq BOOLEAN

VARIABLES
    flags,  \* ctx->flags
    timer,  \* ctx->update_evt.timer_set
    call    \* the netcall session of a connection, NULL when it is closed

notifyVars == <<flags, timer, call>>
nvars      == <<vars, notifyVars>>

NotifyInit ==
    /\ Init
    /\ flags = [s \in Sessions |-> {}]
    /\ timer = [s \in Sessions |-> FALSE]
    /\ call = [c \in Calls |-> NULL]

\* The netcall session that ngx_rtmp_netcall_create makes for a call.
Made(kind, s, n) == [kind |-> kind, of |-> s, name |-> n, attached |-> TRUE]

\* ngx_rtmp_netcall_create: a connection is opened, or that fails at once.
Create(kind, s, n, failed) ==
    \/ /\ ~ failed
       /\ \E c \in Calls : call[c] = NULL /\ call' = [call EXCEPT ![c] = Made(kind, s, n)]
    \/ /\ failed
       /\ UNCHANGED call

-----------------------------------------------------------------------------
(* Commands. *)

NotifyAccept(s) ==
    /\ Accept(s)
    /\ flags' = [flags EXCEPT ![s] = {}]
    /\ UNCHANGED <<timer, call>>

\* ngx_rtmp_notify_publish
NotifyPublish(s, n) ==
    /\ sess[s] = "open"
    /\ flags' = [flags EXCEPT ![s] = @ \cup {"publishing"}]
    /\ timer' = [timer EXCEPT ![s] = TRUE]
    /\ \/ /\ "publish" \notin Asks
          /\ Publish(s, n)
          /\ UNCHANGED call
       \/ /\ "publish" \in Asks
          /\ \E failed \in BOOLEAN :
                /\ Create("publish", s, n, failed)
                /\ sess' = IF failed THEN Finalize({s}) ELSE sess
          /\ UNCHANGED <<rtype, liveVars>>

\* ngx_rtmp_notify_play; playing alone does not start the update timer.
NotifyPlay(s, n) ==
    /\ sess[s] = "open"
    /\ flags' = [flags EXCEPT ![s] = @ \cup {"playing"}]
    /\ \/ /\ "play" \notin Asks
          /\ Play(s, n, FALSE, FALSE)
          /\ UNCHANGED call
       \/ /\ "play" \in Asks
          /\ \E failed \in BOOLEAN :
                /\ Create("play", s, n, failed)
                /\ sess' = IF failed THEN Finalize({s}) ELSE sess
          /\ UNCHANGED <<rtype, liveVars>>
    /\ UNCHANGED timer

\* ngx_rtmp_live_checking_callback through ngx_rtmp_notify_play1, which makes
\* a call for the player p and does nothing when that fails.
NotifyCheckFires(n) ==
    /\ check[n]
    /\ \E p \in members[n], failed \in BOOLEAN :
          /\ flags' = [flags EXCEPT ![p] = @ \cup {"playing"}]
          /\ IF "play" \in Asks THEN Create("play", p, n, failed)
             ELSE failed /\ UNCHANGED call
    /\ UNCHANGED <<vars, timer>>

\* Changed on purpose: the timer is not deleted.
ReportedOn(s) == timer

\* The update timers after ngx_rtmp_notify_close_stream of s.
ReportingAfter(s) == [timer EXCEPT ![s] = FALSE]

\* ngx_rtmp_notify_close_stream
NotifyCloseStream(s) ==
    /\ \/ CloseStream(s, {})
       \/ sess[s] = "open" /\ stream[s] = NULL /\ UNCHANGED vars
    /\ flags' = [flags EXCEPT ![s] = {}]
    /\ timer' = ReportingAfter(s)
    /\ UNCHANGED call

\* ngx_rtmp_netcall_disconnect
Detached(s) ==
    [c \in Calls |-> IF call[c] # NULL /\ call[c].of = s
                     THEN [call[c] EXCEPT !.attached = FALSE] ELSE call[c]]

\* The posted close: the command module closes the stream, then the netcall
\* module lets go of the calls, then the session's memory goes.
NotifyCloseSession(s) ==
    /\ CloseSession(s, {})
    /\ flags' = [flags EXCEPT ![s] = {}]
    /\ timer' = ReportingAfter(s)
    /\ call' = Detached(s)

-----------------------------------------------------------------------------
(* Answers: nothing, 2xx, 3xx, 3xx without a usable target, anything else.   *)

Answers == {"none", "ok", "redirect", "misdirect", "error"}

\* Changed on purpose: a late answer makes a publisher of a session that has
\* joined as a player.
StartedTwice(s, n) ==
    \/ stream[s] = NULL /\ PublishLive(s, n)
    \/ /\ stream[s] # NULL
       /\ publisher' = [publisher EXCEPT ![s] = TRUE]
       /\ UNCHANGED <<stream, active, paused, idle, streamVars>>

\* next_publish: the session that has joined meanwhile is left as it is.
Started(s, n) == PublishLive(s, n)

\* ngx_rtmp_notify_publish_handle; a redirect may give the stream a new name.
PublishHandle(s, n, a) ==
    /\ \/ /\ a \in {"none", "misdirect", "error"}
          /\ sess' = Finalize({s})
          /\ UNCHANGED <<rtype, liveVars>>
       \/ /\ a \in {"ok", "redirect", "misdirect"}
          /\ \E m \in IF a = "redirect" THEN Names ELSE {n} : Started(s, m)
          /\ UNCHANGED <<sess, rtype>>
    /\ flags' = [flags EXCEPT ![s] = IF a = "error" THEN @ \ {"publishing"} ELSE @]
    /\ UNCHANGED timer

\* ngx_rtmp_notify_play_handle
PlayHandle(s, n, a) ==
    /\ \/ /\ a \in {"none", "error"}
          /\ sess' = Finalize({s})
          /\ UNCHANGED <<rtype, liveVars>>
       \/ a = "misdirect" /\ BadRedirect(s)
       \/ /\ a \in {"ok", "redirect"}
          /\ rtype' = [rtype EXCEPT ![s] = @ \/ a = "redirect"]
          /\ \E relaying \in {FALSE, a = "redirect"}, bad \in SUBSET {s} :
                PlayLive(s, n, relaying, bad) /\ sess' = Finalize(bad)
    /\ flags' = [flags EXCEPT ![s] = IF a \in {"error", "misdirect"} THEN @ \ {"playing"} ELSE @]
    /\ UNCHANGED timer

\* s->update_fail_cnt is 0 again whenever the handler ends, so a failure is
\* ignored always or never.
UpdateFails(a) ==
    IF UpdateStrict THEN a \notin {"none", "ok"} ELSE a = "error" /\ ~ UpdateIgnore

\* ngx_rtmp_notify_update_handle; no answer ends the reports.
UpdateHandle(s, a) ==
    /\ sess' = IF UpdateFails(a) THEN Finalize({s}) ELSE sess
    /\ timer' = [timer EXCEPT ![s] = @ \/ ~ (a = "none" \/ UpdateFails(a))]
    /\ UNCHANGED <<rtype, liveVars, flags>>

\* ngx_rtmp_netcall_close, for whatever reason; a detached call touches nothing
\* but itself.
Reply(c, a) ==
    LET k == call[c]
    IN  /\ k # NULL
        /\ call' = [call EXCEPT ![c] = NULL]
        /\ \/ k.attached /\ k.kind = "publish" /\ PublishHandle(k.of, k.name, a)
           \/ k.attached /\ k.kind = "play" /\ PlayHandle(k.of, k.name, a)
           \/ k.attached /\ k.kind = "update" /\ UpdateHandle(k.of, a)
           \/ ~ k.attached /\ UNCHANGED <<vars, flags, timer>>

\* ngx_rtmp_notify_update; when the call cannot be made the handle is called
\* with nothing.
UpdateFires(s) ==
    /\ timer[s]
    /\ timer' = [timer EXCEPT ![s] = FALSE]
    /\ \E failed \in BOOLEAN : Create("update", s, NULL, failed)
    /\ UNCHANGED <<vars, flags>>

NotifyDrop(s) == Drop(s) /\ UNCHANGED notifyVars

NotifyNext ==
    \/ \E s \in Sessions : NotifyAccept(s)
    \/ \E s \in Sessions, n \in Names : NotifyPublish(s, n)
    \/ \E s \in Sessions, n \in Names : NotifyPlay(s, n)
    \/ \E n \in Names : NotifyCheckFires(n)
    \/ \E s \in Sessions : NotifyCloseStream(s)
    \/ \E s \in Sessions : NotifyCloseSession(s)
    \/ \E c \in Calls, a \in Answers : Reply(c, a)
    \/ \E s \in Sessions : UpdateFires(s)
    \/ \E s \in Sessions : NotifyDrop(s)

NotifySpec == NotifyInit /\ [][NotifyNext]_nvars

-----------------------------------------------------------------------------
(* Properties. *)

\* Nothing acts for a session whose memory is gone: every call that still
\* names it is detached (ngx_rtmp_netcall_disconnect), and its update timer is
\* off, however late an answer has set it again (ngx_rtmp_notify_close_stream
\* runs once more when the session closes).
NothingOutlives ==
    \A s \in Sessions : sess[s] = "none" =>
        /\ ~ timer[s]
        /\ \A c \in Calls : call[c] # NULL /\ call[c].of = s => ~ call[c].attached

\* Putting publish and play off until an answer is in does nothing to a stream
\* that Live does not do: a late answer never makes a publisher or a player of
\* a session that is gone, and never of one that has joined meanwhile.
ImplementsLive == Spec

=============================================================================
