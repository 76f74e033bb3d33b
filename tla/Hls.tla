--------------------------------- MODULE Hls ---------------------------------
(***************************************************************************)
(* The fragments and the playlist that ngx_rtmp_hls_module.c makes of a    *)
(* published stream: when a fragment ends and the next one begins, how     *)
(* they are numbered, and what the playlist lists, also after a fragment   *)
(* or a playlist could not be written and after the publisher came back.   *)
(*                                                                         *)
(* Fragments are named by number (the default).  A playlist is its media   *)
(* sequence number and its fragments; one without fragments does not       *)
(* exist.  Times count seconds.                                            *)
(***************************************************************************)
EXTENDS Codec, Sequences

CONSTANT
    MaxCuts        \* bound: fragments and playlists that cannot be written

ASSUME HlsAssumption == MaxCuts \in Nat

VARIABLES
    hls,           \* the publisher's context
    playlist,      \* index.m3u8
    bak,           \* index.m3u8.bak
    cuts           \* failures so far

hlsVars == <<hls, playlist, bak, cuts>>

NoList == [seq |-> 0, frags |-> <<>>]

NoFrag == [id |-> 0, discont |-> FALSE, first |-> "nothing"]

Silent == -1

\* How far time may go back within a fragment.
Back == 1

Slots == 0 .. 2 * conf.hls.winfrags

\* The context of a session that has not published (ctx is FALSE), or has anew.
\* Ghosts: wrote, this publication has written a playlist; late, at some time
\* a playlist was written after the stream was closed; keyed, a key frame was seen.
NoHls ==
    [ctx |-> FALSE, joined |-> FALSE, opened |-> FALSE, frag |-> 0, nfrags |-> 0,
     frag_ts |-> 0, is_first_packge |-> TRUE, base |-> 0, sliced |-> FALSE,
     aframe |-> Silent, frags |-> [i \in Slots |-> NoFrag],
     wrote |-> FALSE, late |-> FALSE, keyed |-> FALSE]

\* What cannot be done: opening a fragment, or opening, writing or renaming the
\* playlist.
PlaylistCuts == {"open", "write", "rename"}

Cuts == {"nothing", "fragment"} \cup PlaylistCuts

\* A call of the module is an operator on t, all of this in mid-handler.
HlsNow == [h |-> hls, playlist |-> playlist, bak |-> bak]

\* ngx_rtmp_hls_get_frag: its place in the ring.
Slot(h, n) == (h.frag + n) % (2 * conf.hls.winfrags + 1)

NextFrag(h) ==
    IF h.nfrags = conf.hls.winfrags THEN [h EXCEPT !.frag = @ + 1]
    ELSE [h EXCEPT !.nfrags = @ + 1]

\* ngx_rtmp_hls_write_playlist: to the .bak file, which is then renamed.  When
\* that fails the .bak file is as it was, cut short, or the new playlist.
WritePlaylist(t, cut) ==
    LET list == [seq |-> t.h.frag,
                 frags |-> [i \in 1 .. t.h.nfrags |-> t.h.frags[Slot(t.h, i - 1)]]]
        done == cut \notin PlaylistCuts
    IN  [t EXCEPT !.playlist = IF done THEN list ELSE @,
                  !.bak = CASE cut = "open" -> @
                            [] cut = "rename" -> list
                            [] OTHER -> NoList,
                  !.h.wrote = @ \/ done,
                  !.h.late = @ \/ ~ t.h.joined]

CloseFragment(t, cut) ==
    IF ~ t.h.opened THEN t
    ELSE WritePlaylist([t EXCEPT !.h = NextFrag([@ EXCEPT !.opened = FALSE])], cut)

\* ngx_rtmp_hls_flush_audio
FlushAudio(h) == IF h.opened THEN [h EXCEPT !.aframe = Silent] ELSE h

\* Changed on purpose: a fragment that could not be written is counted.
OpenFragmentSkip(t, ts, discont, cut) ==
    LET frag == [id |-> t.h.frag + t.h.nfrags, discont |-> discont, first |-> "nothing"]
    IN  IF t.h.opened THEN t
        ELSE IF cut = "fragment" THEN [t EXCEPT !.h = NextFrag(@)]
        ELSE [t EXCEPT !.h = FlushAudio([@ EXCEPT !.opened = TRUE, !.frag_ts = ts,
                                                  !.frags[Slot(t.h, t.h.nfrags)] = frag])]

OpenFragment(t, ts, discont, cut) ==
    LET frag == [id |-> t.h.frag + t.h.nfrags, discont |-> discont, first |-> "nothing"]
    IN  IF t.h.opened \/ cut = "fragment" THEN t
        ELSE [t EXCEPT !.h = FlushAudio([@ EXCEPT !.opened = TRUE, !.frag_ts = ts,
                                                  !.frags[Slot(t.h, t.h.nfrags)] = frag])]


\* ngx_rtmp_hls_restore_m3u8 copies the playlist for the next publication.
RestoreM3u8(t) ==
    IF t.playlist = NoList THEN t ELSE [t EXCEPT !.bak = t.playlist]

-----------------------------------------------------------------------------
(* ngx_rtmp_hls_update_fragment, in the order of its code. *)

\* The slicing directive takes a boundary back; the aligned one also starts the
\* time of a stream that has no fragment.
Same(h, ts) == h.frag_ts \div conf.hls.fraglen = ts \div conf.hls.fraglen

TooShort(h, ts) ==
    IF conf.hls.aligned THEN Same(h, ts) \/ (~ h.opened /\ h.frag_ts = 0)
    ELSE h.opened /\ ts >= h.frag_ts /\ ts - h.frag_ts < conf.hls.fraglen

UpdateFragment(t, ts, boundary, rate, cut) ==
    LET d       == ts - t.h.frag_ts
        force   == t.h.opened /\ (d > conf.hls.max_fraglen \/ d < - Back)
        discont == ~ t.h.opened \/ force
        due     == IF conf.hls.slicing_way = 1
                   THEN ~ t.h.is_first_packge /\ ts - t.h.base >= conf.hls.fraglen
                   ELSE force \/ (boundary /\ ~ TooShort(t.h, ts))
        begun   == [t EXCEPT !.h.is_first_packge = FALSE,
                             !.h.base = IF conf.hls.slicing_way = 1 /\ (t.h.is_first_packge \/ due)
                                        THEN ts ELSE @,
                             !.h.frag_ts = IF conf.hls.aligned /\ ~ t.h.opened /\ TooShort(t.h, ts)
                                           THEN ts ELSE @]
        after  == IF due /\ ~ (conf.hls.relay /\ ~ t.h.sliced)
                   THEN OpenFragment(CloseFragment(begun, cut), ts, discont, cut)
                   ELSE begun
        h       == after.h
    IN  IF h.aframe # Silent /\ h.aframe + conf.hls.max_audio_delay \div rate < ts
        THEN [after EXCEPT !.h = FlushAudio(@)] ELSE after

-----------------------------------------------------------------------------
(* The handlers. *)

\* Nothing reads a place of the ring that is in no fragment's use, nor, unless
\* slicing is aligned, the time of a fragment that is closed.
HlsBecomes(t) ==
    LET used == {Slot(t.h, i) : i \in 0 .. t.h.nfrags - (IF t.h.opened THEN 0 ELSE 1)}
    IN  /\ hls' = [t.h EXCEPT !.frags = [i \in Slots |-> IF i \in used THEN @[i] ELSE NoFrag],
                              !.frag_ts = IF t.h.opened \/ conf.hls.aligned THEN @ ELSE 0]
        /\ playlist' = t.playlist /\ bak' = t.bak

\* What Step(cut) makes of it, for a failure within the bound that makes a difference.
Failing(Step(_), cut) ==
    /\ cut # "nothing" => cuts < MaxCuts /\ Step(cut) # Step("nothing")
    /\ HlsBecomes(Step(cut))
    /\ cuts' = cuts + (IF cut = "nothing" THEN 0 ELSE 1)

\* ngx_rtmp_hls_audio: full says that the buffer has no room left.
Audio(t, ts, full, cut) ==
    LET u == UpdateFragment(t, ts, codec'.avc = 0, 2, cut)
        v == IF full THEN [u EXCEPT !.h = FlushAudio(@)] ELSE u
    IN  IF codec'.aac = 0 THEN t
        ELSE [v EXCEPT !.h.aframe = IF @ = Silent THEN ts ELSE @]

\* Changed on purpose: any picture may begin a fragment.
AnyPicture(h, kind) == codec'.aac = 0 \/ ~ h.opened \/ h.aframe # Silent

Boundary(h, kind) ==
    kind = "key" /\ (codec'.aac = 0 \/ ~ h.opened \/ h.aframe # Silent)

\* ngx_rtmp_hls_video
Video(t, kind, ts, cut) ==
    LET u     == UpdateFragment(t, ts, Boundary(t.h, kind), 1, cut)
        here  == Slot(u.h, u.h.nfrags)
        first == IF kind = "inter" /\ ~ t.h.keyed THEN "early" ELSE kind
        v     == [u EXCEPT !.h.keyed = @ \/ kind = "key"]
    IN  CASE codec'.avc = 0 -> t
          [] codec'.avc # 0 /\ u.h.opened /\ u.h.frags[here].first = "nothing" ->
               [v EXCEPT !.h.frags[here].first = first]
          [] OTHER -> v

HlsAv(kind, full, cut) ==
    LET Step(c) == CASE ~ hls.ctx \/ IsHeader(kind) -> HlsNow
                     [] hls.ctx /\ kind = "aud" -> Audio(HlsNow, now', full, c)
                     [] OTHER -> Video(HlsNow, kind, now', c)
    IN  Failing(Step, cut)

\* ngx_rtmp_hls_publish.  hls_continuous goes on with the sequence number of the
\* playlist that was kept (ngx_rtmp_hls_restore_stream), not behind its fragments.
HlsPublish ==
    /\ conf.hls.on => ~ hls.joined
    /\ hls' = IF ~ conf.hls.on THEN hls
              ELSE [NoHls EXCEPT !.ctx = TRUE, !.joined = TRUE, !.late = hls.late,
                                 !.frag = IF conf.hls.continuous THEN bak.seq ELSE 0]
    /\ UNCHANGED <<playlist, bak, cuts>>

\* ngx_rtmp_hls_stream_eof
HlsStreamEof(cut) ==
    LET Step(c) == RestoreM3u8(CloseFragment([HlsNow EXCEPT !.h = FlushAudio(@)], c))
    IN  IF hls.ctx THEN Failing(Step, cut) ELSE cut = "nothing" /\ UNCHANGED hlsVars

\* ngx_rtmp_hls_close_stream
Leave(t, cut) ==
    IF ~ t.h.joined THEN t
    ELSE [RestoreM3u8(CloseFragment(t, cut)) EXCEPT !.h.joined = FALSE]

HlsCloseStream(cut) ==
    LET Step(c) == Leave(HlsNow, c)
    IN  Failing(Step, cut)

HlsDisconnect(cut) ==
    LET Step(c) == LET t == Leave(HlsNow, c) IN [t EXCEPT !.h = [NoHls EXCEPT !.late = t.h.late]]
    IN  Failing(Step, cut)

\* ngx_rtmp_hls_start_hls_slice: a relay goes on with the numbers of its source.
HlsStartSlice(frag) ==
    /\ conf.hls.relay /\ hls.ctx
    /\ hls' = IF hls.sliced THEN hls
              ELSE [hls EXCEPT !.frag = frag, !.frag_ts = now, !.sliced = TRUE]
    /\ UNCHANGED <<playlist, bak, cuts>>

HlsInit ==
    /\ hls = NoHls /\ playlist = NoList /\ bak = NoList
    /\ cuts = 0

-----------------------------------------------------------------------------
(* Properties. *)

\* The playlist can be followed by number: it has no gaps, the nth fragment is
\* the one that its sequence number says, there are no more than hls_playlist_length
\* allows, and none is still being written.  The playlist that a former publication
\* left is exempt from the last: hls_continuous writes its fragments again.
PlaylistSound ==
    LET listed == {playlist.frags[i].id : i \in DOMAIN playlist.frags}
    IN  /\ Len(playlist.frags) <= conf.hls.winfrags
        /\ \A i \in DOMAIN playlist.frags : playlist.frags[i].id = playlist.seq + i - 1
        /\ hls.wrote /\ hls.opened => hls.frags[Slot(hls, hls.nfrags)].id \notin listed

\* A player can start at every fragment: the first picture in a fragment is a
\* key frame, but where fragments are cut by time alone (slicing_way 1), where the
\* playlist says that there is a discontinuity and before the first key frame.
StartsWithKey ==
    conf.hls.slicing_way = 0 =>
        \A i \in DOMAIN playlist.frags :
            playlist.frags[i].first = "inter" => playlist.frags[i].discont


=============================================================================
