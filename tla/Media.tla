-------------------------------- MODULE Media --------------------------------
(***************************************************************************)
(* What a live player is sent (ngx_rtmp_live_av and the status calls of    *)
(* ngx_rtmp_live_module.c that start it afresh).  One player stands for    *)
(* all: the loop treats each by itself.                                    *)
(*                                                                         *)
(* A message is sent on one of two chunk streams, with its time or with    *)
(* the difference to the one before.  view is what the player makes of     *)
(* them: the time it has arrived at on each chunk stream and the codec     *)
(* headers it decodes with.  ngx_rtmp_send_message may refuse any message, *)
(* since the queue of the player may be full (SendQueue).                  *)
(***************************************************************************)
EXTENDS Codec

VARIABLES
    source,        \* the publisher: here, ctx->active (and stream->active), ctx->cs
    player         \* the player: here, active, paused, ended (finalized), cs, view

mediaVars == <<source, player>>

Streams == {0, 1}

Quiet == [active |-> FALSE, timestamp |-> 0, dropped |-> 0]

NoSource == [here |-> FALSE, active |-> FALSE, cs |-> [i \in Streams |-> Quiet]]

NoPlayer ==
    [here |-> FALSE, active |-> FALSE, paused |-> FALSE, ended |-> FALSE,
     cs |-> [i \in Streams |-> Quiet],
     view |-> [clock |-> [i \in Streams |-> 0], off |-> [i \in Streams |-> FALSE],
               aac |-> 0, avc |-> 0]]

\* A player whose session is finalized; what it is still sent does not matter.
Ended == [NoPlayer EXCEPT !.here = TRUE, !.ended = TRUE]

\* What may be refused while a handler sends to the player, if anything: after
\* the first refusal a handler is done with the player, or the session is ended.
Refusals == {"nothing", "notice", "status", "header", "coheader", "dummy", "packet"}

\* The chunk stream of a message: csidx.
ChunkStream(kind) == IF conf.live.interleave \/ IsVideo(kind) THEN 0 ELSE 1

\* ngx_rtmp_live_set_status for a subscriber, which then counts on nothing that it
\* was sent before.
SetStatus(p, active, refused) ==
    CASE ~ p.here \/ p.ended \/ p.active = active -> p
      [] p.here /\ ~ p.ended /\ p.active # active /\ refused = "status" -> Ended
      [] OTHER -> [NoPlayer EXCEPT !.here = TRUE, !.active = active, !.paused = p.paused]

\* ngx_rtmp_live_set_status for the publisher
SetStatusAll(active, refused) ==
    /\ source' = [source EXCEPT !.active = active]
    /\ player' = IF source.active = active THEN player ELSE SetStatus(player, active, refused)

-----------------------------------------------------------------------------
(* ngx_rtmp_live_av for one player, in the order of its code.               *)

\* Changed on purpose: what was dropped is not forgotten.
SyncedHalf(c) ==
    IF c.active /\ conf.live.sync > 0 /\ (c.dropped > conf.live.sync \/ c.dropped < 0)
    THEN [c EXCEPT !.active = FALSE] ELSE c

\* A player that has missed too much gets the time afresh; dropped is unsigned.
Synced(c) ==
    IF c.active /\ conf.live.sync > 0 /\ (c.dropped > conf.live.sync \/ c.dropped < 0)
    THEN Quiet ELSE c

Waits(p, kind) ==
    \/ IsHeader(kind)
    \/ conf.live.wait_video /\ ~ IsVideo(kind) /\ ~ p.cs[0].active
    \/ conf.live.wait_key /\ kind # "key" /\ ChunkStream(kind) = 0

\* A message with its time t.
Absolute(p, i, t) == [p EXCEPT !.view.clock[i] = t, !.view.off[i] = FALSE]

\* The headers that a player which has none is sent first.
Own(kind) == IF IsVideo(kind) THEN "avc" ELSE "aac"

Other(kind) == IF IsVideo(kind) THEN "aac" ELSE "avc"

\* Changed on purpose: a header that is refused is dropped as a picture is.
RelativeOptional(p, i, kind, delta, refused) ==
    IF refused = "packet" THEN [p EXCEPT !.cs[i].dropped = @ + delta]
    ELSE LET u == [p EXCEPT !.cs[i].timestamp = @ + delta, !.view.clock[i] = @ + delta]
         IN  IF IsHeader(kind) THEN [u EXCEPT !.view[kind] = codec'[kind]] ELSE u

\* The message with the difference of its time.
Relative(p, i, kind, delta, refused) ==
    LET u == [p EXCEPT !.cs[i].timestamp = @ + delta, !.view.clock[i] = @ + delta]
    IN  CASE refused = "packet" ->
               IF IsHeader(kind) THEN Ended ELSE [p EXCEPT !.cs[i].dropped = @ + delta]
          [] refused # "packet" /\ IsHeader(kind) ->
               [u EXCEPT !.view[kind] = codec'[kind]]
          [] OTHER -> u

\* The first message on a chunk stream, last and t being the times of the
\* publisher's message before and of this one.  A dummy of the other kind that
\* follows a message sent in full puts the chunk stream back to the time before.
First(p, i, kind, last, t, refused) ==
    LET header   == codec'[Own(kind)]
        coheader == IF conf.live.interleave THEN codec'[Other(kind)] ELSE 0
        dummy    == /\ conf.live.wait_video /\ IsVideo(kind) /\ ~ p.cs[1].active
                    /\ refused # "dummy"
        p1 == IF header = 0 THEN p ELSE [Absolute(p, i, last) EXCEPT !.view[Own(kind)] = header]
        p2 == IF coheader = 0 THEN p1
              ELSE [Absolute(p1, i, last) EXCEPT !.view[Other(kind)] = coheader]
        p3 == [p2 EXCEPT !.cs[i].active = TRUE, !.cs[i].timestamp = last]
        p4 == [Absolute(p, i, t) EXCEPT !.cs[i].active = TRUE, !.cs[i].timestamp = t]
    IN  CASE header > 0 /\ refused = "header" -> p
          [] ~ (header > 0 /\ refused = "header") /\ coheader > 0 /\ refused = "coheader" -> p1
          [] header + coheader = 0 /\ refused = "packet" -> p
          [] header + coheader = 0 /\ refused # "packet" ->
               IF dummy THEN [p4 EXCEPT !.view.clock[i] = last, !.view.off[i] = last # t] ELSE p4
          [] OTHER -> Relative(p3, i, kind, t - last, refused)

Deliver(p, kind, last, t, refused) ==
    LET i == ChunkStream(kind)
        u == [p EXCEPT !.cs[i] = Synced(@)]
    IN  CASE ~ p.here \/ p.ended \/ p.paused -> p
          [] p.here /\ ~ p.ended /\ ~ p.paused /\ u.cs[i].active -> Relative(u, i, kind, t - last, refused)
          [] OTHER -> IF Waits(u, kind) THEN u ELSE First(u, i, kind, last, t, refused)

-----------------------------------------------------------------------------
(* The handlers. *)

\* ngx_rtmp_live_av
MediaAv(kind, refused) ==
    LET i    == ChunkStream(kind)
        last == IF source.cs[i].active THEN source.cs[i].timestamp ELSE now'
        p    == IF source.active THEN player ELSE SetStatus(player, TRUE, refused)
    IN  IF ~ source.here THEN UNCHANGED mediaVars
        ELSE /\ source' = [source EXCEPT !.active = TRUE, !.cs[i].active = TRUE,
                                         !.cs[i].timestamp = now']
             /\ player' = Deliver(p, kind, last, now', refused)

\* The publisher joins the stream, and leaves it with ngx_rtmp_live_stop; its
\* players stay with idle_streams.
MediaPublish ==
    /\ source' = IF source.here \/ ~ conf.live.on THEN source ELSE [NoSource EXCEPT !.here = TRUE]
    /\ UNCHANGED player

MediaUnpublish(refused) ==
    /\ source' = NoSource
    /\ player' = IF source.active THEN SetStatus(player, FALSE, refused) ELSE player

\* ngx_rtmp_live_stream_begin and ngx_rtmp_live_stream_eof
MediaSignal(active, refused) ==
    IF source.here THEN SetStatusAll(active, refused) ELSE UNCHANGED mediaVars

\* A player joins; it is started if the stream is.
MediaPlay(refused) ==
    /\ conf.live.on /\ ~ player.here
    /\ player' = IF source.active THEN SetStatus([NoPlayer EXCEPT !.here = TRUE], TRUE, refused)
                 ELSE [NoPlayer EXCEPT !.here = TRUE]
    /\ UNCHANGED source

MediaLeave ==
    /\ player.here /\ player' = NoPlayer
    /\ UNCHANGED source

\* ngx_rtmp_live_pause
MediaPause(pause, refused) ==
    /\ player.here /\ ~ player.ended
    /\ player' = IF refused = "notice" THEN Ended
                 ELSE SetStatus([player EXCEPT !.paused = pause], ~ pause, refused)
    /\ UNCHANGED source

MediaInit == source = NoSource /\ player = NoPlayer

-----------------------------------------------------------------------------
(* Properties. *)

\* A player decodes with the publisher's last codec headers: once a chunk stream
\* runs, the header that was sent when it began and those that came later have
\* reached the player, whatever was dropped, or its session is finalized.
Decodable ==
    ~ player.ended => \A i \in Streams : player.cs[i].active =>
        /\ i = 0 => codec.avc \in {0, player.view.avc}
        /\ i = 1 \/ conf.live.interleave => codec.aac \in {0, player.view.aac}

\* Times agree: on a chunk stream that runs, the player has arrived at the time
\* that the server keeps for it, and what it lags behind the publisher is what
\* was dropped, which the sync directive bounds.  The exception is a dummy
\* message sent after a message of a codec without header.
ClockExact ==
    ~ player.ended => \A i \in Streams : player.cs[i].active =>
        /\ player.cs[i].timestamp + player.cs[i].dropped = source.cs[i].timestamp
        /\ player.view.off[i] \/ player.view.clock[i] = player.cs[i].timestamp

=============================================================================
