------------------------------- MODULE Outputs -------------------------------
(***************************************************************************)
(* What a worker makes of one published stream: a recording, the media     *)
(* sent to a player, HLS fragments, and the commands run for it.  The      *)
(* modules act on the same calls and messages: a message goes through      *)
(* codec, record, live and hls in this order, and publish, closeStream,    *)
(* StreamBegin and StreamEOF pass through all that are configured.  Beside *)
(* it, viewers play files.                                                 *)
(***************************************************************************)
EXTENDS Record, Media, Hls, Exec, Play

streamVars == <<codecVars, recVars, mediaVars, hlsVars, execVars>>
vars == <<streamVars, playVars>>

-----------------------------------------------------------------------------
(* What can go wrong in a call, where the part that it concerns is configured. *)

FaultsIn(S) == IF conf.record THEN S ELSE {NoFault}

RefusalsIn(S) == IF conf.live.on /\ player.here THEN S ELSE {"nothing"}

CutsIn(S) == IF conf.hls.on THEN S ELSE {"nothing"}

-----------------------------------------------------------------------------
(* The publisher. *)

Av ==
    \E kind \in Kinds, step \in conf.steps :
        /\ CodecAv(kind, step)
        /\ \E late \in BOOLEAN, fault \in FaultsIn(Faults) : RecordAv(kind, late, fault)
        /\ \E refused \in RefusalsIn(Refusals) : MediaAv(kind, refused)
        /\ \E full \in {FALSE, conf.hls.on}, cut \in CutsIn(Cuts) : HlsAv(kind, full, cut)
        /\ UNCHANGED execVars

Publish ==
    /\ \E fault \in FaultsIn(OpenFaults) : RecordStart(fault)
    /\ MediaPublish
    /\ HlsPublish
    /\ \E ok \in BOOLEAN : ExecPublish(ok)
    /\ UNCHANGED codecVars

CloseStream ==
    /\ RecordStop
    /\ \E refused \in RefusalsIn({"nothing", "status"}) : MediaUnpublish(refused)
    /\ \E cut \in CutsIn(PlaylistCuts \cup {"nothing"}) : HlsCloseStream(cut)
    /\ ExecUnpublish
    /\ UNCHANGED codecVars

\* The connection is lost: NGX_RTMP_DISCONNECT closes the stream, and the memory
\* of the session goes.
Disconnect ==
    /\ RecordForget
    /\ \E refused \in RefusalsIn({"nothing", "status"}) : MediaUnpublish(refused)
    /\ \E cut \in CutsIn(PlaylistCuts \cup {"nothing"}) : HlsDisconnect(cut)
    /\ ExecUnpublish
    /\ CodecDisconnect

StreamBegin ==
    /\ ctx \/ source.here
    /\ IF ctx THEN \E fault \in FaultsIn(OpenFaults) : RecordStart(fault) ELSE UNCHANGED recVars
    /\ \E refused \in RefusalsIn({"nothing", "status"}) : MediaSignal(TRUE, refused)
    /\ UNCHANGED <<codecVars, hlsVars, execVars>>

StreamEof ==
    /\ ctx \/ source.here \/ hls.ctx
    /\ RecordStop
    /\ \E refused \in RefusalsIn({"nothing", "status"}) : MediaSignal(FALSE, refused)
    /\ \E cut \in CutsIn(PlaylistCuts \cup {"nothing"}) : HlsStreamEof(cut)
    /\ UNCHANGED <<codecVars, execVars>>

-----------------------------------------------------------------------------
(* What happens apart from it. *)

FileStep ==
    /\ conf.record
    /\ \/ \E fault \in OpenFaults : ManualOpen(fault)
       \/ ManualClose
       \/ OtherOpens
       \/ OtherCloses

PlayerStep ==
    \/ \E refused \in {"nothing", "status"} : MediaPlay(refused)
    \/ MediaLeave
    \/ \E pause \in BOOLEAN, refused \in {"nothing", "notice", "status"} :
          MediaPause(pause, refused)

CommandStep ==
    \/ \E s \in Players, ok \in BOOLEAN : ExecPlay(s, ok)
    \/ \E s \in Players : ExecLeave(s)
    \/ Ends
    \/ \E ok \in BOOLEAN : Noticed(ok) \/ TimerFires(ok)

Init ==
    /\ CodecInit /\ RecordInit /\ MediaInit /\ HlsInit /\ ExecInit /\ PlayInit
    /\ commands = conf.commands

StreamStep ==
    \/ Av
    \/ Publish
    \/ CloseStream
    \/ Disconnect
    \/ StreamBegin
    \/ StreamEof
    \/ FileStep /\ UNCHANGED <<codecVars, mediaVars, hlsVars, execVars>>
    \/ PlayerStep /\ UNCHANGED <<codecVars, recVars, hlsVars, execVars>>
    \/ \E frag \in conf.hls.slices :
          HlsStartSlice(frag) /\ UNCHANGED <<codecVars, recVars, mediaVars, execVars>>
    \/ CommandStep /\ UNCHANGED <<codecVars, recVars, mediaVars, hlsVars>>

Next ==
    \/ StreamStep /\ UNCHANGED playVars
    \/ VodStep /\ UNCHANGED streamVars

Spec == Init /\ [][Next]_vars

=============================================================================
