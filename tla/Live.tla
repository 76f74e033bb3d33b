-------------------------------- MODULE Live --------------------------------
(***************************************************************************)
(* The live module of one worker: the table of streams of an application,  *)
(* the sessions that publish or play each stream, the status (active or    *)
(* not) that stream and sessions show, the idle timer of a publisher and   *)
(* the timer that looks for a publisher while players wait.                *)
(*                                                                         *)
(* A stream is known by its name.  stream->ctx is a list of contexts; its  *)
(* order shows only in which player a check is made for, so it is a set    *)
(* here and that player is any of it.  Whether a message to a subscriber   *)
(* fits its output queue is left open (SendQueue).  What the relay module  *)
(* answers (`relaying`) and whom it finalizes (`extra`) are parameters of  *)
(* the operations; Relay supplies them.                                    *)
(***************************************************************************)
EXTENDS Naturals, FiniteSets

CONSTANTS
    Sessions, Names,
    Hls,            \* sessions made by the HLS module (s->hls)
    FromRelay,      \* sessions whose flashver is NGX_RTMP_RELAY_NAME
    IdleStreams,    \* streams of applications with idle_streams
    IdleTimeout,    \* drop_idle_publisher is set
    NULL

ASSUME LiveAssumption ==
    /\ Hls \subseteq Sessions
    /\ FromRelay \subseteq Sessions
    /\ IdleStreams \subseteq Names
    /\ IdleTimeout \in BOOLEAN
    /\ NULL \notin Names

VARIABLES
    sess,       \* "none", "open", or "closing" (finalized, close posted)
    rtype,      \* s->relay_type is not NGX_NONE_RELAY
    stream,     \* ctx->stream
    publisher,  \* ctx->publishing
    active,     \* ctx->active
    paused,     \* ctx->paused
    idle,       \* ctx->idle_evt.timer_set
    table,      \* streams in lacf->streams
    members,    \* sessions of stream->ctx
    publishing, \* stream->publishing
    sactive,    \* stream->active
    check       \* stream->check_evt.timer_set

ctxVars    == <<stream, publisher, active, paused, idle>>
streamVars == <<table, members, publishing, sactive, check>>
liveVars   == <<ctxVars, streamVars>>
vars       == <<sess, rtype, liveVars>>

Init ==
    /\ sess = [s \in Sessions |-> "none"]
    /\ rtype = [s \in Sessions |-> FALSE]
    /\ stream = [s \in Sessions |-> NULL]
    /\ publisher = [s \in Sessions |-> FALSE]
    /\ active = [s \in Sessions |-> FALSE]
    /\ paused = [s \in Sessions |-> FALSE]
    /\ idle = [s \in Sessions |-> FALSE]
    /\ table = {}
    /\ members = [n \in Names |-> {}]
    /\ publishing = [n \in Names |-> FALSE]
    /\ sactive = [n \in Names |-> FALSE]
    /\ check = [n \in Names |-> FALSE]

\* ngx_rtmp_finalize_session for each session of S.
Finalize(S) ==
    [t \in Sessions |-> IF t \in S /\ sess[t] = "open" THEN "closing" ELSE sess[t]]

-----------------------------------------------------------------------------
(* Status. *)

\* Those whose ctx->active ngx_rtmp_live_set_status changes to `on` when it is
\* called for s while the stream's list is `list`: s itself and, when s is the
\* publisher, every subscriber that differs.
StatusChanges(s, on, list) ==
    IF active[s] = on THEN {}
    ELSE {s} \cup (IF publisher[s]
                   THEN {p \in list : ~ publisher[p] /\ active[p] # on}
                   ELSE {})

\* ngx_rtmp_live_start (on) and ngx_rtmp_live_stop for s on stream n.
SetStatus(s, n, on, list) ==
    LET told == StatusChanges(s, on, list)
    IN  /\ active' = [t \in Sessions |-> IF t \in told THEN on ELSE active[t]]
        /\ sactive' = IF publisher[s] /\ told # {}
                      THEN [sactive EXCEPT ![n] = on] ELSE sactive
        /\ idle' = IF publisher[s] /\ told # {} /\ IdleTimeout
                   THEN [idle EXCEPT ![s] = on] ELSE idle

\* Subscribers told of a status whose queue refuses the message are finalized.
MayFail(s, on, list) == {p \in StatusChanges(s, on, list) : ~ publisher[p] /\ p \notin Hls}

-----------------------------------------------------------------------------
(* Joining and leaving. *)

\* Changed on purpose: a session that has joined may join again.
ClearedAnyway(s) ==
    /\ active' = [active EXCEPT ![s] = FALSE]
    /\ paused' = [paused EXCEPT ![s] = FALSE]
    /\ idle' = [idle EXCEPT ![s] = FALSE]

\* ngx_rtmp_live_join clears the context of a session that has not joined.
Cleared(s) ==
    /\ stream[s] = NULL
    /\ active' = [active EXCEPT ![s] = FALSE]
    /\ paused' = [paused EXCEPT ![s] = FALSE]
    /\ idle' = [idle EXCEPT ![s] = FALSE]

\* ngx_rtmp_live_join that is refused.
Refused(s) ==
    /\ Cleared(s)
    /\ publisher' = [publisher EXCEPT ![s] = FALSE]
    /\ UNCHANGED <<stream, streamVars>>

\* ngx_rtmp_live_join as publisher.
JoinPublisher(s, n) ==
    /\ ~ publishing[n]
    /\ Cleared(s)
    /\ table' = table \cup {n}
    /\ members' = [members EXCEPT ![n] = @ \cup {s}]
    /\ publishing' = [publishing EXCEPT ![n] = TRUE]
    /\ check' = [check EXCEPT ![n] = FALSE]
    /\ stream' = [stream EXCEPT ![s] = n]
    /\ publisher' = [publisher EXCEPT ![s] = TRUE]
    /\ UNCHANGED sactive

\* A stream that nobody publishes takes players only when they may wait.
MayJoin(s, n) == (n \in table /\ publishing[n]) \/ n \in IdleStreams \/ rtype'[s]

\* ngx_rtmp_live_join as subscriber.
JoinPlayer(s, n, relaying) ==
    /\ stream[s] = NULL
    /\ MayJoin(s, n)
    /\ table' = table \cup {n}
    /\ members' = [members EXCEPT ![n] = @ \cup {s}]
    /\ stream' = [stream EXCEPT ![s] = n]
    /\ publisher' = [publisher EXCEPT ![s] = FALSE]
    /\ active' = [active EXCEPT ![s] = sactive[n] /\ s \notin Hls]
    /\ paused' = [paused EXCEPT ![s] = FALSE]
    /\ idle' = [idle EXCEPT ![s] = FALSE]
    /\ check' = IF publishing[n] \/ relaying THEN check ELSE [check EXCEPT ![n] = TRUE]
    /\ UNCHANGED <<publishing, sactive>>

\* Players that lose their publisher s of stream n: all of them are finalized
\* or, with idle_streams, only the relay sessions among them.
Orphans(s, n) ==
    {p \in members[n] \ {s} : ~ publisher[p] /\ (n \in IdleStreams => p \in FromRelay)}

\* Whom ngx_rtmp_live_close_stream of s finalizes, a refused status aside.
LeaveFinalizes(s) == IF publisher[s] THEN Orphans(s, stream[s]) ELSE {}

\* The publisher takes the stream's mark with it.
MarkedWithout(s, n) == publishing[n] /\ ~ publisher[s]

\* A stream whose list is empty is deleted.
TableAfter(n, rest) == IF rest = {} THEN table \ {n} ELSE table

\* Changed on purpose: the timer of a deleted stream runs on.
CheckKept(s, n, rest) ==
    check[n] \/ (publisher[s] /\ n \in IdleStreams /\ \E p \in rest : ~ publisher[p])

\* With idle_streams the check starts when a publisher leaves players behind;
\* deleting the stream deletes its timer.
CheckAfter(s, n, rest) ==
    /\ rest # {}
    /\ check[n] \/ (publisher[s] /\ n \in IdleStreams /\ \E p \in rest : ~ publisher[p])

\* ngx_rtmp_live_close_stream of a session that has joined.
Leave(s) ==
    LET n    == stream[s]
        rest == members[n] \ {s}
    IN  /\ n # NULL
        /\ members' = [members EXCEPT ![n] = rest]
        /\ publishing' = [publishing EXCEPT ![n] = MarkedWithout(s, n)]
        /\ IF publisher[s] \/ sactive[n]
           THEN SetStatus(s, n, FALSE, rest)
           ELSE UNCHANGED <<active, sactive, idle>>
        /\ table' = TableAfter(n, rest)
        /\ check' = [check EXCEPT ![n] = CheckAfter(s, n, rest)]
        /\ stream' = [stream EXCEPT ![s] = NULL]
        /\ UNCHANGED <<publisher, paused>>

\* The last player has left a stream that is still published: this is when
\* ngx_rtmp_relay_player_dry is called.
RunsDry(s) ==
    /\ stream[s] # NULL
    /\ ~ publisher[s]
    /\ \E p \in Sessions : members[stream[s]] \ {s} = {p} /\ publisher[p]

-----------------------------------------------------------------------------
(* Handlers.  Publish and play also run from the reply to an HTTP request,  *)
(* on a session that has been finalized in the meantime.                    *)

Accept(s) ==
    /\ sess[s] = "none"
    /\ sess' = [sess EXCEPT ![s] = "open"]
    /\ rtype' = [rtype EXCEPT ![s] = FALSE]
    /\ publisher' = [publisher EXCEPT ![s] = FALSE]
    /\ active' = [active EXCEPT ![s] = FALSE]
    /\ paused' = [paused EXCEPT ![s] = FALSE]
    /\ UNCHANGED <<stream, idle, streamVars>>

\* ngx_rtmp_live_publish; a second publisher is told BadName and stays.
PublishLive(s, n) ==
    \/ JoinPublisher(s, n)
    \/ publishing[n] /\ Refused(s)
    \/ stream[s] # NULL /\ UNCHANGED liveVars

Publish(s, n) ==
    /\ sess[s] # "none"
    /\ s \notin Hls
    /\ PublishLive(s, n)
    /\ UNCHANGED <<sess, rtype>>

\* ngx_rtmp_live_play of s, with the sessions `bad` it finalizes: a player that
\* is refused, or one whose queue refuses the status of an active stream.
PlayLive(s, n, relaying, bad) ==
    \/ /\ JoinPlayer(s, n, relaying)
       /\ bad # {} => sactive[n] /\ s \notin Hls
    \/ /\ stream[s] = NULL
       /\ ~ MayJoin(s, n)
       /\ Refused(s)
       /\ bad = {s}
    \/ /\ stream[s] # NULL
       /\ bad = {}
       /\ UNCHANGED liveVars

\* play; rt: the session was told (302) where to pull from.
Play(s, n, rt, relaying) ==
    /\ sess[s] # "none"
    /\ rtype' = [rtype EXCEPT ![s] = @ \/ rt]
    /\ \E bad \in SUBSET {s} : PlayLive(s, n, relaying, bad) /\ sess' = Finalize(bad)

\* closeStream, or play2 before it plays another stream.
CloseStream(s, extra) ==
    /\ sess[s] = "open"
    /\ Leave(s)
    /\ \E bad \in SUBSET MayFail(s, FALSE, members[stream[s]] \ {s}) :
          sess' = Finalize(LeaveFinalizes(s) \cup bad \cup extra)
    /\ UNCHANGED rtype

\* The posted close event: NGX_RTMP_DISCONNECT closes the stream, then the
\* session's memory goes.
CloseSession(s, extra) ==
    /\ sess[s] = "closing"
    /\ \/ /\ Leave(s)
          /\ \E bad \in SUBSET MayFail(s, FALSE, members[stream[s]] \ {s}) :
                sess' = [Finalize(LeaveFinalizes(s) \cup bad \cup extra) EXCEPT ![s] = "none"]
       \/ /\ stream[s] = NULL
          /\ sess' = [Finalize(extra) EXCEPT ![s] = "none"]
          /\ UNCHANGED liveVars
    /\ UNCHANGED rtype

\* ngx_rtmp_live_pause; also taken from a publisher.
Pause(s, on) ==
    LET n == stream[s]
    IN  /\ sess[s] = "open"
        /\ n # NULL /\ s \notin Hls
        /\ paused' = [paused EXCEPT ![s] = on]
        /\ SetStatus(s, n, ~ on, members[n])
        /\ \E bad \in SUBSET MayFail(s, ~ on, members[n]) : sess' = Finalize(bad)
        /\ UNCHANGED <<rtype, stream, publisher, table, members, publishing, check>>

\* StreamBegin or media (on), StreamEOF (not on) from the publisher.  Media on
\* an active stream changes nothing but the deadline of the idle timer.
Signal(s, on) ==
    LET n == stream[s]
    IN  /\ sess[s] = "open"
        /\ n # NULL /\ publisher[s] /\ s \notin Hls
        /\ SetStatus(s, n, on, members[n])
        /\ \E bad \in SUBSET MayFail(s, on, members[n]) : sess' = Finalize(bad)
        /\ UNCHANGED <<rtype, stream, publisher, paused, table, members, publishing, check>>

\* ngx_rtmp_live_idle
IdleFires(s) ==
    /\ idle[s]
    /\ idle' = [idle EXCEPT ![s] = FALSE]
    /\ sess' = Finalize({s})
    /\ UNCHANGED <<rtype, stream, publisher, active, paused, streamVars>>

\* ngx_rtmp_live_checking_callback: unless somebody publishes, a request is
\* made for the player at the head of the list and the timer is set again.  A
\* request that fails at once finalizes that player; an answer comes as Play
\* or as Drop.
CheckFires(n) ==
    LET asked == IF publishing[n] THEN {} ELSE members[n]
    IN  /\ check[n]
        /\ check' = [check EXCEPT ![n] = asked # {}]
        /\ sess' \in {sess} \cup {Finalize({p}) : p \in asked}
        /\ UNCHANGED <<rtype, ctxVars, table, members, publishing, sactive>>

\* Any other reason to give a session up: socket, ping, another module.
Drop(s) ==
    /\ sess[s] = "open"
    /\ sess' = Finalize({s})
    /\ UNCHANGED <<rtype, liveVars>>

\* A redirect that names no usable source: the session's relay type is set by
\* the time it is given up.
BadRedirect(s) ==
    /\ sess[s] # "none"
    /\ rtype' = [rtype EXCEPT ![s] = TRUE]
    /\ sess' = Finalize({s})
    /\ UNCHANGED liveVars

Next ==
    \/ \E s \in Sessions : Accept(s)
    \/ \E s \in Sessions, n \in Names : Publish(s, n)
    \/ \E s \in Sessions, n \in Names, rt, relaying \in BOOLEAN : Play(s, n, rt, relaying)
    \/ \E s \in Sessions : CloseStream(s, {})
    \/ \E s \in Sessions : CloseSession(s, {})
    \/ \E s \in Sessions, on \in BOOLEAN : Pause(s, on)
    \/ \E s \in Sessions, on \in BOOLEAN : Signal(s, on)
    \/ \E s \in Sessions : IdleFires(s)
    \/ \E n \in Names : CheckFires(n)
    \/ \E s \in Sessions : Drop(s)
    \/ \E s \in Sessions : BadRedirect(s)

Spec == Init /\ [][Next]_vars

-----------------------------------------------------------------------------
(* Properties. *)

\* The variables have the shapes of the C fields they stand for; ctx->stream
\* points at a stream of the table or at nothing.
TypeOK ==
    /\ sess \in [Sessions -> {"none", "open", "closing"}]
    /\ table \subseteq Names
    /\ stream \in [Sessions -> table \cup {NULL}]
    /\ rtype \in [Sessions -> BOOLEAN]
    /\ publisher \in [Sessions -> BOOLEAN]
    /\ active \in [Sessions -> BOOLEAN]
    /\ paused \in [Sessions -> BOOLEAN]
    /\ idle \in [Sessions -> BOOLEAN]
    /\ members \in [Names -> SUBSET Sessions]
    /\ publishing \in [Names -> BOOLEAN]
    /\ sactive \in [Names -> BOOLEAN]
    /\ check \in [Names -> BOOLEAN]

\* The stream table and the contexts agree: a session is in the list of the
\* stream its context points at and in no other, a stream is in the table
\* exactly while it has a member, and no list holds a session whose memory
\* is gone (ngx_rtmp_live_join, ngx_rtmp_live_close_stream and the DISCONNECT
\* handler between them).
Registry ==
    /\ \A s \in Sessions, n \in Names : s \in members[n] <=> stream[s] = n
    /\ \A n \in Names : n \in table <=> members[n] # {}
    /\ \A s \in Sessions : stream[s] # NULL => sess[s] # "none"

\* A stream is marked published exactly while one of its members publishes it,
\* and it never has two publishers, whatever the order of publish, refusal,
\* closeStream and late answers.
OnePublisher ==
    \A n \in Names :
        /\ publishing[n] <=> \E s \in members[n] : publisher[s]
        /\ \A s, t \in members[n] : publisher[s] /\ publisher[t] => s = t

\* No timer outlives what its handler touches: the check timer runs only for a
\* stream that is in the table and has no publisher, the idle timer only for
\* an active publisher that is still in its stream.  A timer of a context that
\* ngx_rtmp_live_join clears would stay in the timer tree.
TimersSound ==
    /\ \A n \in Names : check[n] => n \in table /\ ~ publishing[n]
    /\ \A s \in Sessions :
           idle[s] => IdleTimeout /\ stream[s] # NULL /\ publisher[s] /\ active[s]

\* The status shown agrees with the stream: a stream is active exactly while
\* its publisher is, and then every player that has not paused is active too,
\* so none misses the start that a publisher's StreamBegin, media or unpause
\* announces (ngx_rtmp_live_set_status).
StatusAgrees ==
    \A n \in Names :
        /\ sactive[n] <=> \E s \in members[n] : publisher[s] /\ active[s]
        /\ sactive[n] => \A p \in members[n] :
               publisher[p] \/ paused[p] \/ p \in Hls \/ active[p]

\* Without idle_streams nobody waits at a stream that has no publisher, except
\* a session that was told to expect one (a relay type) or one being closed.
NoOrphanPlayers ==
    \A n \in Names \ IdleStreams : \A p \in members[n] :
        publishing[n] \/ rtype[p] \/ sess[p] = "closing"

=============================================================================
