-------------------------------- MODULE Play ---------------------------------
(***************************************************************************)
(* A viewer of files (ngx_rtmp_play_module.c with the reader of            *)
(* ngx_rtmp_flv_module.c).  The entries of an application are tried in     *)
(* turn: a local one is opened, a remote one is fetched into a temporary   *)
(* file by an HTTP call (ngx_rtmp_netcall_module.c), which may be kept.    *)
(* Calls belong to the session: closeStream does not end them, and their   *)
(* answers find whatever the session plays by then.                        *)
(***************************************************************************)
EXTENDS Codec, Sequences, FiniteSets, SequencesExt

CONSTANTS
    Calls,         \* HTTP calls that can be under way
    MaxRefused     \* bound: messages refused because the queue is full

ASSUME PlayAssumption ==
    /\ IsFiniteSet(Calls) /\ MaxRefused \in Nat
    /\ \A c \in Confs : c.vod.on => c.vod.starts \subseteq Nat /\ c.vod.tape # <<>>

VARIABLES
    vod,           \* the module's context of the session
    flv,           \* the reader's; last is 0 where mask has it not used, and two ghosts:
                   \* clock, what the viewer takes for the time of each track; slip, tracks
                   \* that a refused message has put behind
    calls,         \* [start, buf, got, bad]: v->start, cs->in, units received so far,
                   \* whether the server refuses
    disk,          \* inodes: cache, the file kept in local_path (0: none); temps, those in
                   \* temp_path; data, what they hold; held, descriptors open
    up,            \* the session: "open", or "closing" once it is finalized
    refusals

playVars == <<vod, flv, calls, disk, up, refusals>>

Inodes == 1 .. 3
Tracks == {"aud", "vid"}
Unset  == -1

\* fd: inode of ctx->file, 0: NGX_INVALID_FILE; rw: opened for writing; hdr: how far
\* ncrs and nheader have come in the header of the answer; evt: where ctx->send_evt is;
\* ended, a ghost: the file was sent to its end, or can not be read
NoCtx ==
    [fd |-> 0, rw |-> FALSE, file_id |-> 0, nentry |-> 0, hdr |-> "start", nbody |-> 0,
     post_seek |-> Unset, opened |-> FALSE, joined |-> FALSE, playing |-> FALSE,
     evt |-> {}, ended |-> FALSE]

NoFlv ==
    [offset |-> 0, start |-> 0, mask |-> {}, last |-> [i \in Tracks |-> 0],
     clock |-> [i \in Tracks |-> 0], slip |-> {}]

\* A call made for a play that begins at start.
Asked(start) == [start |-> start, buf |-> <<>>, got |-> 0, bad |-> FALSE]

NoCall == [Asked(0) EXCEPT !.got = Unset]

\* Whether the queue of the session has no room for what is sent.
Blocks == IF refusals < MaxRefused THEN BOOLEAN ELSE {FALSE}

\* Where ngx_rtmp_play_open meets that: nowhere, before it joins or after.
OpenBlocks == IF refusals < MaxRefused THEN {"no", "before", "after"} ELSE {"no"}

Refuse(blocked) == refusals' = IF blocked THEN refusals + 1 ELSE refusals

-----------------------------------------------------------------------------
(* Each of these maps a state w of context, reader and disk to the next one; *)
(* ok is what the function returns, asks that a call is to be made.           *)

World == [v |-> vod, f |-> flv, d |-> disk, asks |-> FALSE, ok |-> TRUE]

Failed(w) == [w EXCEPT !.ok = FALSE]

\* ngx_post_event leaves an event where it is posted.
Post(evt, queue) == IF evt \cap {"posted", "dry"} = {} THEN evt \cup {queue} ELSE evt

CloseFile(w) ==
    IF w.v.fd = 0 THEN w
    ELSE [w EXCEPT !.v.fd = 0, !.v.rw = FALSE, !.d.held = @ - 1]

\* ngx_rtmp_play_cleanup_local_file
CleanupLocalFile(w) == [w EXCEPT !.v.file_id = 0, !.d.temps = @ \ {w.v.file_id}]

\* ngx_rtmp_play_copy_local_file: the rename works or does not.
CopyLocalFile(w, renamed) ==
    IF w.v.file_id = 0 THEN w
    ELSE LET x == CleanupLocalFile(w)
         IN  IF renamed THEN [x EXCEPT !.d.cache = w.v.file_id] ELSE x

\* ngx_rtmp_play_do_seek with ngx_rtmp_flv_seek
DoSeek(w, timestamp) ==
    [w EXCEPT !.f = [NoFlv EXCEPT !.start = timestamp, !.offset = Unset],
              !.v.ended = FALSE,
              !.v.evt = IF w.v.playing THEN Post(@, "posted") ELSE @]

\* Changed on purpose: the reader starts anew and the chunk streams go on.
StartUnmasked(w) ==
    [w EXCEPT !.f.offset = Unset, !.v.ended = FALSE,
              !.v.evt = Post(@, "posted"), !.v.playing = TRUE]

\* ngx_rtmp_play_do_start with ngx_rtmp_flv_start
DoStart(w) ==
    [w EXCEPT !.f = [NoFlv EXCEPT !.start = w.f.start, !.offset = Unset],
              !.v.ended = FALSE, !.v.evt = Post(@, "posted"), !.v.playing = TRUE]

\* ngx_rtmp_play_do_stop
DoStop(w) == [w EXCEPT !.v.evt = {}, !.v.playing = FALSE]

\* ngx_rtmp_play_open with ngx_rtmp_play_join and ngx_rtmp_flv_init
PlayOpen(w, start, blocked) ==
    IF w.v.fd = 0 \/ blocked = "before" \/ w.v.joined THEN Failed(w)
    ELSE IF blocked = "after" THEN Failed([w EXCEPT !.v.joined = TRUE])
    ELSE LET x == [w EXCEPT !.v.joined = TRUE, !.f = NoFlv]
             y == DoSeek(x, IF w.v.post_seek # Unset THEN w.v.post_seek ELSE start)
         IN  [DoStart(y) EXCEPT !.v.opened = TRUE]

\* ngx_rtmp_play_open_remote up to the call: a temporary file, which is deleted at
\* once where there is no local_path to keep it in.
OpenTemp(w) ==
    LET i == CHOOSE j \in Inodes : j # w.d.cache /\ j \notin w.d.temps
    IN  [w EXCEPT !.v.fd = i, !.v.rw = TRUE, !.v.hdr = "start", !.v.nbody = 0,
                  !.v.file_id = IF conf.vod.local THEN i ELSE 0,
                  !.d.temps = IF conf.vod.local THEN @ \cup {i} ELSE @,
                  !.d.data[i] = <<>>, !.d.held = @ + 1, !.asks = TRUE]

\* The entries after the current one that can be opened or asked for.
Candidates(w) ==
    {n \in DOMAIN conf.vod.entries :
        n > w.v.nentry /\ (conf.vod.entries[n] = "remote" \/ w.d.cache # 0)}

\* Changed on purpose: the temporary file of the entry that failed stays.
TidiedFile(w) == CloseFile(w)

\* What ngx_rtmp_play_next_entry begins with.
Tidied(w) == CleanupLocalFile(CloseFile(w))

\* ngx_rtmp_play_next_entry
NextEntry(w, start, blocked) ==
    LET C == Candidates(w)
        n == CHOOSE n \in C : \A i \in C : n <= i
        x == [Tidied(w) EXCEPT !.v.nentry = n]
    IN  IF C = {} THEN [Tidied(w) EXCEPT !.v.nentry = Len(conf.vod.entries)]
        ELSE IF conf.vod.entries[n] = "remote" THEN OpenTemp(x)
        ELSE PlayOpen([x EXCEPT !.v.fd = w.d.cache, !.d.held = @ + 1], start, blocked)

-----------------------------------------------------------------------------
(* Calls.  A unit of an answer is its header, with a status of 2xx or another, *)
(* a tag of the file (its number), or a part of an error page.                 *)

Header == 0
Refusal == -1
Page == -2

\* One unit in ngx_rtmp_play_remote_sink.  The tenth byte of what is taken for the
\* header is looked at once; the body of an answer is no header (it has another byte
\* there, and no empty line).  A file that was closed, or opened to be read, can not
\* be written to.
Take(r, unit) ==
    LET v == r.w.v
        Rejected(hdr) == [r EXCEPT !.w.ok = FALSE, !.w.v.hdr = hdr, !.left = <<unit>>]
    IN  CASE ~ r.w.ok -> [r EXCEPT !.left = Append(@, unit)]
          [] r.w.ok /\ v.hdr = "start" ->
                IF unit = Header THEN [r EXCEPT !.w.v.hdr = "done"] ELSE Rejected("past")
          [] r.w.ok /\ v.hdr = "past" ->
                IF unit \in {Header, Refusal} THEN [r EXCEPT !.w.v.hdr = "done"] ELSE r
          [] r.w.ok /\ v.hdr = "done" ->
                IF ~ v.rw THEN Rejected("done")
                ELSE [r EXCEPT !.w.d.data[v.fd] = Append(@, unit), !.w.v.nbody = @ + 1]

\* ngx_rtmp_play_remote_sink: w after the units in buf, and those left over.
Sink(w, buf) == FoldLeft(Take, [w |-> w, left |-> <<>>], buf)

\* ngx_rtmp_play_remote_handle
RemoteHandle(w, start, blocked, renamed) ==
    IF w.v.nbody = 0 THEN NextEntry(w, start, blocked)
    ELSE PlayOpen(CopyLocalFile(w, renamed), start, blocked)

\* The session is finalized when a handler fails.
WorldBecomes(w) ==
    /\ vod' = w.v /\ flv' = w.f
    /\ disk' = [w.d EXCEPT !.data = [i \in Inodes |->
                   IF i \in {w.v.fd, w.d.cache} \cup w.d.temps THEN @[i] ELSE <<>>]]
    /\ up' = IF w.ok THEN up ELSE "closing"

\* w, with a call (ngx_rtmp_netcall_create) if w asks for one.  The connection may
\* fail, and the temporary file before it.
Continue(w, under, start) ==
    \/ /\ ~ w.asks
       /\ WorldBecomes(w) /\ calls' = under
    \/ /\ w.asks
       /\ LET free == {c \in Calls : under[c] = NoCall}
          IN  free # {} /\ calls' = [under EXCEPT ![CHOOSE c \in free : TRUE] = Asked(start)]
       /\ WorldBecomes(w)
    \/ /\ w.asks
       /\ calls' = under
       /\ WorldBecomes(Failed(w)) \/ WorldBecomes(Failed(Tidied(w)))

\* ngx_rtmp_netcall_close: what was received goes to the sink, then the handler runs.
NetcallClose(c, w, buf) ==
    \E blocked \in OpenBlocks, renamed \in BOOLEAN :
        LET x == [Sink(w, buf).w EXCEPT !.ok = TRUE]
            y == RemoteHandle(x, calls[c].start, blocked, renamed)
        IN  /\ blocked # "no" => ~ y.ok
            /\ ~ renamed => x.v.file_id # 0 /\ x.v.nbody > 0
            /\ Refuse(blocked # "no")
            /\ Continue(y, [calls EXCEPT ![c] = NoCall], calls[c].start)

\* The unit that the server sends next.
Unit(call) ==
    CASE call.got = 0 -> IF call.bad THEN Refusal ELSE Header
      [] call.got > 0 -> IF call.bad THEN Page ELSE call.got

\* ngx_rtmp_netcall_recv: a full buffer goes to the sink before more is read.
NetcallRecv(c) ==
    LET call == calls[c]
        full == Len(call.buf) = conf.vod.bufsize
        r    == Sink(World, call.buf)
    IN  /\ call # NoCall
        /\ IF full /\ ~ r.w.ok THEN NetcallClose(c, [r.w EXCEPT !.ok = TRUE], r.left)
           ELSE /\ call.got <= Len(conf.vod.tape)
                /\ \E bad \in (IF call.got = 0 THEN BOOLEAN ELSE {call.bad}) :
                     LET next == [call EXCEPT !.bad = bad]
                     IN  calls' = [calls EXCEPT ![c] =
                            [next EXCEPT !.got = @ + 1,
                                         !.buf = Append(IF full THEN <<>> ELSE @, Unit(next))]]
                /\ IF full THEN WorldBecomes(r.w) ELSE UNCHANGED <<vod, flv, disk, up>>
                /\ UNCHANGED refusals

\* The server closes the connection, it is lost, or times out: the same to the code.
NetcallEnds(c) ==
    /\ calls[c] # NoCall
    /\ NetcallClose(c, World, calls[c].buf)

-----------------------------------------------------------------------------
(* Sending. *)

\* ngx_rtmp_flv_timestamp_to_offset: the number of a tag, out of the index that the
\* file may have in its metadata.
TimestampToOffset(timestamp) ==
    LET n     == Len(conf.vod.tape)
        later == {i \in 1 .. n - 1 : timestamp < conf.vod.tape[i].at}
    IN  IF timestamp <= 0 \/ ~ conf.vod.index THEN 1
        ELSE IF later = {} THEN n ELSE CHOOSE i \in later : \A j \in later : i <= j

\* The tag at `offset` is there, behind what belongs before it.
Readable(offset) ==
    /\ vod.fd # 0 /\ offset <= Len(disk.data[vod.fd])
    /\ \A i \in 1 .. offset : disk.data[vod.fd][i] = i

\* What the viewer's clock of a track shows after a message at time t: a message
\* that follows another one of its track has the difference to the last tag, which
\* can not be negative.
ClockAfter(track, t) ==
    CASE track \notin flv.mask -> t
      [] track \in flv.mask /\ t >= flv.last[track] -> flv.clock[track] + t - flv.last[track]
      [] track \in flv.mask /\ t < flv.last[track] -> Unset

\* Changed on purpose: a viewer that is too slow is given up.
AgainDropped(evt) == evt

\* ngx_rtmp_play_send after NGX_AGAIN: it goes on when the queue has been sent.
Again(evt) == Post(evt, "dry")

\* ngx_rtmp_play_send with ngx_rtmp_flv_send, out of a queue of events or the timer;
\* full: the message is refused; ahead: it is early enough to wait.
VodSend(e, full, ahead) ==
    LET looked == flv.offset = Unset
        offset == IF looked THEN TimestampToOffset(flv.start) ELSE flv.offset
        start  == IF looked THEN Unset ELSE flv.start
        evt    == vod.evt \ {e}
        tag    == conf.vod.tape[offset]
        read   == [flv EXCEPT !.offset = offset + 1, !.start = start, !.last[tag.k] = tag.at]
        first  == start = Unset
    IN  /\ e \in vod.evt
        /\ IF ~ Readable(offset)
           THEN /\ ~ full /\ ~ ahead
                /\ vod' = [vod EXCEPT !.evt = evt, !.ended = TRUE]
                /\ flv' = [flv EXCEPT !.offset = offset, !.start = start]
           ELSE IF full
           THEN /\ ~ ahead
                /\ vod' = [vod EXCEPT !.evt = Again(evt)]
                /\ flv' = [read EXCEPT !.slip = @ \cup ({tag.k} \cap flv.mask)]
           ELSE /\ first => ~ ahead
                /\ vod' = [vod EXCEPT !.evt = IF ahead THEN evt \cup {"timer"} ELSE Post(evt, "posted")]
                /\ flv' = [read EXCEPT !.start = IF first THEN tag.at ELSE start,
                                       !.mask = @ \cup {tag.k},
                                       !.clock[tag.k] = ClockAfter(tag.k, tag.at)]
        /\ Refuse(full)
        /\ UNCHANGED <<calls, disk, up>>

-----------------------------------------------------------------------------
(* What the viewer asks for. *)

\* ngx_rtmp_play_play.  A context that is in use after its file is gone (a call that
\* outlived its stream can do that) is not to be cleared: that is left out.
VodPlay(start) ==
    /\ up = "open" /\ vod.fd = 0
    /\ ~ vod.joined /\ vod.evt = {}
    /\ \E blocked \in OpenBlocks :
          LET w == NextEntry([World EXCEPT !.v = NoCtx], start, blocked)
          IN  /\ blocked # "no" => ~ w.ok
              /\ Refuse(blocked # "no")
              /\ Continue(w, calls, start)

\* ngx_rtmp_play_close_stream
ClosedStream(w) == [CleanupLocalFile(CloseFile(DoStop(w))) EXCEPT !.v.joined = FALSE]

VodCloseStream ==
    /\ up = "open" /\ vod # NoCtx
    /\ WorldBecomes(ClosedStream(World))
    /\ UNCHANGED <<calls, refusals>>

\* The session is closed: NGX_RTMP_DISCONNECT closes its stream and detaches its
\* calls, which act no more.  Another viewer comes.
VodDisconnect ==
    /\ vod # NoCtx
    /\ LET w == ClosedStream(World) IN disk' = w.d
    /\ vod' = NoCtx /\ flv' = NoFlv /\ up' = "open"
    /\ calls' = [c \in Calls |-> NoCall]
    /\ UNCHANGED refusals

\* ngx_rtmp_play_seek; what it sends to the viewer before or after may be refused.
VodSeek(timestamp) ==
    /\ up = "open" /\ vod.fd # 0
    /\ \E blocked \in Blocks, sought \in BOOLEAN :
          LET w == DoSeek(World, timestamp)
          IN  /\ IF ~ vod.opened
                 THEN ~ blocked /\ sought /\ WorldBecomes([World EXCEPT !.v.post_seek = timestamp])
                 ELSE /\ ~ sought => blocked
                      /\ LET x == IF sought THEN w ELSE World
                         IN  WorldBecomes(IF blocked THEN Failed(x) ELSE x)
              /\ Refuse(blocked)
    /\ UNCHANGED calls

\* ngx_rtmp_play_pause
VodPause(pause) ==
    /\ up = "open" /\ vod.fd # 0 /\ vod.opened
    /\ \E blocked \in Blocks :
          /\ WorldBecomes(IF blocked THEN Failed(World) ELSE IF pause THEN DoStop(World) ELSE DoStart(World))
          /\ Refuse(blocked)
    /\ UNCHANGED calls

VodStep ==
    /\ conf.vod.on
    /\ \/ \E start \in conf.vod.starts : VodPlay(start) \/ VodSeek(start)
       \/ \E pause \in BOOLEAN : VodPause(pause)
       \/ VodCloseStream
       \/ VodDisconnect
       \/ \E e \in {"timer", "posted", "dry"}, full \in Blocks, ahead \in BOOLEAN :
             VodSend(e, full, ahead)
       \/ \E c \in Calls : NetcallRecv(c) \/ NetcallEnds(c)

PlayInit ==
    /\ vod = NoCtx /\ flv = NoFlv /\ up = "open" /\ refusals = 0
    /\ calls = [c \in Calls |-> NoCall]
    /\ disk = [cache |-> IF conf.vod.present THEN 1 ELSE 0, temps |-> {}, held |-> 0,
               data |-> [i \in Inodes |-> IF i = 1 /\ conf.vod.present
                                          THEN [n \in 1 .. Len(conf.vod.tape) |-> n]
                                          ELSE <<>>]]

-----------------------------------------------------------------------------
(* Properties. *)

\* Nothing is left behind, in whatever order answers, closeStream, another play and
\* the end of the session come: the context has the one descriptor that is open, and
\* the one temporary file that exists.
FilesTidy ==
    /\ disk.held = IF vod.fd = 0 THEN 0 ELSE 1
    /\ disk.temps = {vod.file_id} \ {0}

\* A file that plays is sent to its end: an event will go on with it, through pauses,
\* seeks and full queues.  And nothing is sent out of one that is paused or closed.
SendOwed ==
    /\ vod.playing /\ ~ vod.ended => vod.evt # {}
    /\ vod.evt # {} => vod.playing

\* The viewer's clock shows the time of the last tag of the track, also after seeks
\* and pauses; but for a message that was refused, which the differences of the
\* following ones skip.
VodClock ==
    \A i \in flv.mask : i \in flv.slip \/ flv.clock[i] = flv.last[i]

=============================================================================
