------------------------------- MODULE Relay --------------------------------
(***************************************************************************)
(* The relay module over Live: connections this worker opens to other      *)
(* servers (or to other workers), to pull a stream that is played here or  *)
(* to push one that is published here.  A pull is one source, the relay    *)
(* session, with the local players linked to it; a push is one source, the *)
(* local publisher, with a relay session linked to it.  The source is the  *)
(* publish end: it is in the hash under its name and heads the list of     *)
(* play ends, which is threaded through ctx->next.                         *)
(*                                                                         *)
(* The action that plays or publishes is the one of Live with what the     *)
(* notify and relay handlers do before it in the chain; closing a stream   *)
(* is the one of Live after ngx_rtmp_relay_close.  Status (StreamBegin,    *)
(* pause) touches no relay state and is left to Live.  Names are not       *)
(* prefixes of one another and have a hash bucket each.                    *)
(***************************************************************************)
EXTENDS Live

CONSTANTS
    Relays,     \* sessions made by ngx_rtmp_relay_create_connection
    Ways,       \* what a play does before it reaches the live module
    Push,       \* the application has a push directive
    Refuses,    \* connecting may fail at once
    Replays     \* a client may pull or push again on the same session

ASSUME RelayAssumption ==
    /\ Relays \subseteq FromRelay
    /\ Ways \subseteq {"local", "redirect", "pull"}
    /\ {Push, Refuses, Replays} \subseteq BOOLEAN

VARIABLES
    hash,   \* racf->ctx: the publish end of a name
    cname,  \* ctx->name
    link,   \* ctx->publish
    play,   \* ctx->play, the first play end
    nxt,    \* ctx->next
    hold,   \* ctx->hold_evt.timer_set
    push,   \* ctx->push_evt.timer_set
    fault   \* the worker has used a context that is NULL or freed, and is lost

endVars   == <<hash, cname, link, play, nxt>>
relayVars == <<endVars, hold, push, fault>>
rvars     == <<vars, relayVars>>

Clients == Sessions \ Relays

RelayInit ==
    /\ Init
    /\ hash = [n \in Names |-> NULL]
    /\ cname = [s \in Sessions |-> NULL]
    /\ link = [s \in Sessions |-> NULL]
    /\ play = [s \in Sessions |-> NULL]
    /\ nxt = [s \in Sessions |-> NULL]
    /\ hold = [s \in Sessions |-> FALSE]
    /\ push = [s \in Sessions |-> FALSE]
    /\ fault = FALSE

\* The contexts that a walk along ctx->next from h meets.
Walk(h) ==
    LET step[k \in 0..Cardinality(Sessions)] ==
            IF k = 0 THEN {h} \ {NULL}
            ELSE step[k - 1] \cup ({nxt[t] : t \in step[k - 1]} \ {NULL})
    IN  step[Cardinality(Sessions)]

-----------------------------------------------------------------------------
(* Linking.  r is the relay session that the step opens, NULL for none. *)

\* Changed on purpose: the publish end does not learn of a second play end.
LinkedUnseen(e, p) ==
    /\ link' = [link EXCEPT ![e] = link[p]]
    /\ nxt' = [nxt EXCEPT ![e] = play[p]]
    /\ UNCHANGED <<play, hash>>

\* ngx_rtmp_relay_create where p is in the hash: e becomes its first play end.
Linked(e, p) ==
    /\ link' = [link EXCEPT ![e] = link[p]]
    /\ nxt' = [nxt EXCEPT ![e] = play[p]]
    /\ play' = [play EXCEPT ![p] = e]
    /\ UNCHANGED hash

\* ngx_rtmp_relay_create where the name is new: p is its publish end and e the
\* only play end.  e->next is not written.
Created(e, p, n) ==
    /\ link' = [link EXCEPT ![e] = p, ![p] = p]
    /\ play' = [play EXCEPT ![p] = e]
    /\ hash' = [hash EXCEPT ![n] = p]
    /\ UNCHANGED nxt

\* ngx_rtmp_relay_pull for the player s, with the sessions `bad` it finalizes.
Pull(s, n, r, bad) ==
    \/ /\ link[s] # NULL
       /\ r = NULL /\ bad = {}
       /\ UNCHANGED endVars
    \/ /\ link[s] = NULL /\ hash[n] # NULL
       /\ r = NULL /\ bad = {}
       /\ cname' = [cname EXCEPT ![s] = n]
       /\ Linked(s, hash[n])
    \/ /\ link[s] = NULL /\ hash[n] = NULL
       /\ r # NULL /\ bad = {}
       /\ cname' = [cname EXCEPT ![s] = n, ![r] = n]
       /\ Created(s, r, n)
    \/ /\ link[s] = NULL /\ hash[n] = NULL
       /\ Refuses
       /\ r = NULL /\ bad = {s}
       /\ cname' = [cname EXCEPT ![s] = n]
       /\ UNCHANGED <<hash, link, play, nxt>>

\* ngx_rtmp_relay_push of what s publishes as n.  The connection r is made
\* first; it is given up when s is the play end of something else.
PushTo(s, n, r, bad, failed) ==
    \/ /\ r # NULL /\ hash[n] # NULL
       /\ bad = {} /\ ~ failed
       /\ cname' = [cname EXCEPT ![r] = n]
       /\ Linked(r, hash[n])
    \/ /\ r # NULL /\ hash[n] = NULL /\ link[s] = NULL
       /\ bad = {} /\ ~ failed
       /\ cname' = [cname EXCEPT ![s] = n, ![r] = n]
       /\ Created(r, s, n)
    \/ /\ r # NULL /\ hash[n] = NULL /\ link[s] # NULL
       /\ bad = {r} /\ failed
       /\ cname' = [cname EXCEPT ![r] = n]
       /\ UNCHANGED <<hash, link, play, nxt>>
    \/ /\ r = NULL /\ Refuses
       /\ bad = {} /\ failed
       /\ UNCHANGED endVars

\* The sessions after a step that opens the relay session r (NULL for none)
\* and finalizes those of bad.
SessAfter(r, bad) ==
    [t \in Sessions |-> IF t \in bad /\ (sess[t] = "open" \/ t = r) THEN "closing"
                        ELSE IF t = r THEN "open" ELSE sess[t]]

\* The relay sessions that ngx_rtmp_relay_create_connection may open now.
Fresh == {r \in Relays : sess[r] = "none"} \cup {NULL}

-----------------------------------------------------------------------------
(* Closing. *)

\* Changed on purpose: a play end leaves its list to those behind it only.
UnlinkedHead(s) ==
    IF link[s] # NULL /\ link[s] # s /\ play[link[s]] = s
    THEN [play EXCEPT ![link[s]] = NULL] ELSE play

\* Changed on purpose: the publish end keeps a play end that has gone.
HeadsKept(s) == play

\* The heads of the lists after ngx_rtmp_relay_close of s.
HeadsAfter(s) ==
    IF link[s] # NULL /\ link[s] # s /\ play[link[s]] = s
    THEN [play EXCEPT ![link[s]] = nxt[s]] ELSE play

\* Changed on purpose: the entry of a publish end stays in the hash.
HashKept(s) == hash

\* The hash after ngx_rtmp_relay_close of s.
HashAfter(s) ==
    IF link[s] = s /\ hash[cname[s]] = s THEN [hash EXCEPT ![cname[s]] = nxt[s]] ELSE hash

\* Changed on purpose: the timer of a publish end that closes runs on.
PushesKept(s) == [t \in Sessions |-> push[t] \/ (t = link[s] /\ t # s /\ s \in Relays)]

\* A push that closes sets the timer of its publish end, which deletes it when
\* it closes itself.
PushesAfter(s) ==
    [t \in Sessions |-> IF t = s THEN push[s] /\ link[s] # s
                        ELSE push[t] \/ (t = link[s] /\ s \in Relays)]

\* ngx_rtmp_relay_close: a play end leaves its list, and asks for a new push
\* when it was one; a publish end orphans its list and leaves the hash.  The
\* contexts of `gone` are freed in the same step.
RelayClose(s, gone) ==
    LET p == link[s]
    IN  /\ link' = [t \in Sessions |-> IF t = s \/ (p = s /\ t \in Walk(play[s]))
                                       THEN NULL ELSE link[t]]
        /\ play' = [t \in Sessions |-> IF t \in gone THEN NULL ELSE HeadsAfter(s)[t]]
        /\ nxt' = [t \in Sessions |->
                      IF t \in gone THEN NULL
                      ELSE IF p \notin {NULL, s} /\ t \in Walk(play[p]) /\ nxt[t] = s
                      THEN nxt[s] ELSE nxt[t]]
        /\ cname' = [t \in Sessions |-> IF t \in gone THEN NULL ELSE cname[t]]
        /\ hash' = HashAfter(s)
        /\ push' = PushesAfter(s)

\* ngx_rtmp_relay_player_dry, after RelayClose(s): the publish end that nobody
\* plays any more and that has no play end.
Dried(s) ==
    IF RunsDry(s) /\ hash'[stream[s]] # NULL
    THEN {p \in Sessions : link'[hash'[stream[s]]] = p /\ play'[p] = NULL}
    ELSE {}

\* An HLS player that leaves last starts the hold timer of the publish end.
HoldAfter(s) ==
    [t \in Sessions |-> (hold[t] /\ ~ (t = s /\ link[s] = s)) \/ (s \in Hls /\ t \in Dried(s))]

\* Any other player that leaves last takes the publish end with it.
Taken(s) == IF s \in Hls THEN {} ELSE Dried(s)

-----------------------------------------------------------------------------
(* Handlers. *)

\* closeStream or deleteStream from a client.
RelayCloseStream(s) ==
    /\ ~ fault
    /\ RelayClose(s, {})
    /\ hold' = HoldAfter(s)
    /\ \/ CloseStream(s, Taken(s))
       \/ sess[s] = "open" /\ stream[s] = NULL /\ UNCHANGED vars
    /\ UNCHANGED fault

\* The posted close of a session.
RelayCloseSession(s) ==
    /\ ~ fault
    /\ RelayClose(s, {s})
    /\ hold' = HoldAfter(s)
    /\ CloseSession(s, Taken(s))
    /\ UNCHANGED fault


\* ngx_rtmp_relay_player_new: the first player of a held pull lets it go on.
HoldReleased(s, n) ==
    LET p == hash'[n]
    IN  IF stream[s] = NULL /\ stream'[s] = n /\ p # NULL /\ play'[p] = NULL
        THEN [hold EXCEPT ![p] = FALSE] ELSE hold

\* play: the notify handler (redirect) or the relay handler (pull) links s to
\* a pull of the stream, then the live module joins it.  A redirect comes with
\* the answer to a request, perhaps after the session was finalized.
RelayPlay(s, n, way) ==
    /\ ~ fault
    /\ sess[s] # "none"
    /\ way = "pull" => sess[s] = "open" /\ s \notin Relays /\ (Replays \/ cname[s] = NULL)
    /\ \E r \in Fresh, lost \in SUBSET {s}, bad \in SUBSET {s} :
          /\ IF way = "pull" \/ (way = "redirect" /\ hash[n] = NULL)
             THEN Pull(s, n, r, lost)
             ELSE r = NULL /\ lost = {} /\ UNCHANGED endVars
          /\ rtype' = [t \in Sessions |-> rtype[t] \/ t = r \/ (t = s /\ way = "redirect")]
          /\ PlayLive(s, n, hash'[n] # NULL, bad)
          /\ sess' = SessAfter(r, lost \cup bad)
    /\ hold' = HoldReleased(s, n)
    /\ UNCHANGED <<push, fault>>

\* publish: the relay handler pushes the stream, then the live module joins it.
\* When the push fails the handler sets the timer of the context it looked up
\* before, which a session that has neither pulled nor pushed does not have.
RelayPublish(s, n) ==
    /\ ~ fault
    /\ sess[s] # "none"
    /\ s \notin Hls
    /\ Push => Replays \/ cname[s] = NULL
    /\ \E r \in Fresh, bad \in SUBSET Relays, failed \in BOOLEAN :
          /\ IF Push THEN PushTo(s, n, r, bad, failed)
             ELSE r = NULL /\ bad = {} /\ ~ failed /\ UNCHANGED endVars
          /\ push' = [push EXCEPT ![s] = @ \/ (failed /\ cname[s] # NULL)]
          /\ fault' = (failed /\ cname[s] = NULL)
          /\ rtype' = [t \in Sessions |-> rtype[t] /\ t # r]
          /\ sess' = SessAfter(r, bad)
    /\ PublishLive(s, n)
    /\ UNCHANGED hold

\* The remote server answers createStream: a publish end publishes what it
\* pulls, a play end plays what it pushes.
Result(r) ==
    /\ ~ fault
    /\ sess[r] = "open"
    /\ \/ /\ link[r] = r
          /\ PublishLive(r, cname[r])
          /\ UNCHANGED <<sess, rtype, relayVars>>
       \/ /\ link[r] # r
          /\ \E way \in (Ways \ {"pull"}) \cup {"local"} : RelayPlay(r, cname[r], way)

\* ngx_rtmp_relay_stream_eof
StreamEof(r) ==
    /\ ~ fault
    /\ link[r] = r
    /\ Drop(r)
    /\ UNCHANGED relayVars

\* ngx_rtmp_relay_push_reconnect, for the one target.  A timer that has outlived
\* its session finds freed memory.
PushFires(s) ==
    /\ ~ fault
    /\ push[s]
    /\ fault' = (sess[s] = "none")
    /\ \E r \in Fresh, bad \in SUBSET Relays, failed \in BOOLEAN :
          /\ IF sess[s] # "none" /\ Walk(play[s]) \cap Relays = {}
             THEN PushTo(s, cname[s], r, bad, failed)
             ELSE r = NULL /\ bad = {} /\ ~ failed /\ UNCHANGED endVars
          /\ push' = [push EXCEPT ![s] = failed]
          /\ rtype' = [t \in Sessions |-> rtype[t] /\ t # r]
          /\ sess' = SessAfter(r, bad)
    /\ UNCHANGED <<liveVars, hold>>

\* ngx_rtmp_relay_hold_timeout
HoldFires(s) ==
    /\ ~ fault
    /\ hold[s]
    /\ hold' = [hold EXCEPT ![s] = FALSE]
    /\ sess' = Finalize({link[s]})
    /\ UNCHANGED <<rtype, liveVars, endVars, push, fault>>

\* Handlers that leave the relay module alone.
RelayAccept(s) == ~ fault /\ Accept(s) /\ UNCHANGED relayVars
RelayDrop(s) == ~ fault /\ Drop(s) /\ UNCHANGED relayVars
RelayBadRedirect(s) == ~ fault /\ "redirect" \in Ways /\ BadRedirect(s) /\ UNCHANGED relayVars
RelayCheckFires(n) == ~ fault /\ CheckFires(n) /\ UNCHANGED relayVars

RelayNext ==
    \/ \E s \in Clients : RelayAccept(s)
    \/ \E s \in Clients, n \in Names, way \in Ways : RelayPlay(s, n, way)
    \/ \E s \in Clients, n \in Names : RelayPublish(s, n)
    \/ \E r \in Relays : Result(r)
    \/ \E r \in Relays : StreamEof(r)
    \/ \E s \in Clients : RelayCloseStream(s)
    \/ \E s \in Sessions : RelayCloseSession(s)
    \/ \E s \in Sessions : PushFires(s)
    \/ \E s \in Sessions : HoldFires(s)
    \/ \E n \in Names : RelayCheckFires(n)
    \/ \E s \in Sessions : RelayDrop(s)
    \/ \E s \in Sessions : RelayBadRedirect(s)

RelaySpec == RelayInit /\ [][RelayNext]_rvars

-----------------------------------------------------------------------------
(* Properties. *)

\* The list of a publish end holds exactly the contexts that point back at it,
\* each of them once, as the drawing at the head of ngx_rtmp_relay_module.c
\* has it: every (next) hangs on its own (src).  ngx_rtmp_relay_close walks
\* this list and writes to what it meets.
RelayLists ==
    \A p \in Sessions : link[p] = p =>
        /\ Walk(play[p]) = {s \in Sessions \ {p} : link[s] = p}
        /\ \A s \in Walk(play[p]) : s \notin Walk(nxt[s])

\* The hash holds the publish ends and nothing else, each under its name and
\* not freed, so a stream is never pulled twice; a play end points at a
\* publish end, never at a context that ngx_rtmp_relay_close has let go.
RelayHash ==
    /\ \A n \in Names : hash[n] # NULL =>
           sess[hash[n]] # "none" /\ link[hash[n]] = hash[n] /\ cname[hash[n]] = n
    /\ \A s \in Sessions : link[s] = s => hash[cname[s]] = s
    /\ \A s \in Sessions : link[s] # NULL => sess[s] # "none" /\ link[link[s]] = link[s]

\* The timers of a relay context run only while it is a publish end, so neither
\* ngx_rtmp_relay_hold_timeout nor ngx_rtmp_relay_push_reconnect finds a
\* session that is gone.
RelayTimers == \A p \in Sessions : hold[p] \/ push[p] => link[p] = p


\* With idle_streams, players of a stream that has no publisher are looked
\* after: a pull of it is under way, or the timer that asks again is set
\* (release note of 2015/7/19: asked every 5 seconds until a publisher is up).
AlwaysChecking ==
    \A n \in table \cap IdleStreams : publishing[n] \/ check[n] \/ hash[n] # NULL

=============================================================================
