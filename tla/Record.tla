------------------------------- MODULE Record --------------------------------
(***************************************************************************)
(* A recorder of one publishing session (ngx_rtmp_record_module.c): when   *)
(* its file is opened and closed, what is written to it, and what happens  *)
(* when the file system fails.                                             *)
(*                                                                         *)
(* A file is a sequence of tags, the FLV header among them; sizes count    *)
(* tags.  Media is AAC and H.264, so that frames depend on codec headers.  *)
(* A descriptor is a number that the worker's other files may take once it *)
(* is closed.  A call of the module is an operator on t, the recorder and  *)
(* its surroundings in the middle of a handler.                            *)
(***************************************************************************)
EXTENDS Codec, Sequences, FiniteSets, FiniteSetsExt, SequencesExt

CONSTANTS
    Fds,           \* bound: descriptors
    MaxFaults      \* bound: calls in which the file system fails

ASSUME RecordAssumption ==
    /\ Fds \subseteq Nat \ {0}
    /\ MaxFaults \in Nat

VARIABLES
    ctx,           \* the session has a context of this module
    rec,           \* rctx
    file,          \* the recorded file
    torn,          \* a write to it stopped in the middle of a tag
    fds,           \* whose file each descriptor is: "none", "rec", "other"
    owed,          \* files opened for which record_done was not yet called
    faults         \* faults so far

recVars == <<ctx, rec, file, torn, fds, owed, faults>>

\* rctx after ngx_memzero, without a file.
Closed == [fd |-> 0, failed |-> FALSE, initialized |-> FALSE, aac |-> FALSE, avc |-> FALSE,
           key |-> FALSE, nframes |-> 0, offset |-> 0, epoch |-> 0, shift |-> 0]

NoFault == [what |-> "none", nth |-> 0]

\* The ways in which a call can go differently: the file cannot be opened; a
\* torn file that is appended to looks like an empty one; the FLV header, or
\* the head or the body of the nth tag that the call writes, cannot be written.
OpenFaults == {NoFault} \cup [what : {"open", "restart"}, nth : {0}]

Faults == OpenFaults \cup [what : {"start"}, nth : {0}] \cup [what : {"head", "body"}, nth : 1 .. 3]

Now(go) == [rec |-> rec, file |-> file, torn |-> torn, fds |-> fds, owed |-> owed,
            writes |-> 0, go |-> go]

Put(f, at, tag) == IF at < Len(f) THEN [f EXCEPT ![at + 1] = tag] ELSE Append(f, tag)

-----------------------------------------------------------------------------
(* The calls. *)

\* ngx_rtmp_record_node_open.  Appending goes on behind the last tag, in its
\* time; a file with nothing but the header is written from the start.
Open(t, fault) ==
    LET free   == {f \in Fds : t.fds[f] = "none"}
        offset == IF ~ conf.append \/ Len(t.file) < 2 \/ (t.torn /\ fault.what = "restart")
                  THEN 0 ELSE Len(t.file)
        shift  == IF offset = 0 \/ t.torn THEN 0 ELSE Last(t.file).at
    IN  CASE t.rec.fd # 0 -> t
          [] t.rec.fd = 0 /\ (fault.what = "open" \/ free = {}) ->
               [t EXCEPT !.rec = [Closed EXCEPT !.failed = TRUE]]
          [] OTHER ->
               [t EXCEPT !.rec = [Closed EXCEPT !.fd = Min(free), !.offset = offset,
                                                !.shift = shift],
                         !.file = IF conf.append THEN @ ELSE <<>>,
                         !.torn = @ /\ conf.append,
                         !.fds[Min(free)] = "rec",
                         !.owed = @ + 1]

\* Changed on purpose: the number of the closed descriptor stays.
CloseStale(t) ==
    IF t.rec.fd = 0 \/ t.fds[t.rec.fd] = "none" THEN t
    ELSE [t EXCEPT !.fds[t.rec.fd] = "none", !.owed = @ - 1]

\* ngx_rtmp_record_node_close.  Closing a descriptor that is not open is an
\* error that is noted.
Close(t) ==
    IF t.rec.fd = 0 THEN t
    ELSE [t EXCEPT !.rec.failed = @ \/ t.fds[t.rec.fd] = "none",
                   !.fds[t.rec.fd] = "none",
                   !.rec.fd = 0,
                   !.owed = @ - 1]

\* Changed on purpose: the limit itself is allowed.
ReachedLate(r) ==
    \/ conf.max_size > 0 /\ r.offset > conf.max_size
    \/ conf.max_frames > 0 /\ r.nframes > conf.max_frames

Reached(r) ==
    \/ conf.max_size > 0 /\ r.offset >= conf.max_size
    \/ conf.max_frames > 0 /\ r.nframes >= conf.max_frames


\* ngx_rtmp_record_write_frame.  When the head of the tag cannot be written the
\* descriptor is closed and its number stays in rctx; when the body cannot, the
\* file keeps what was written of the tag.  A file at its limit is closed, and
\* the caller is not told.
WriteFrame(t, kind, inc, fault) ==
    LET r    == t.rec
        n    == t.writes + 1
        shut == r.fd = 0 \/ t.fds[r.fd] = "none"
        mine == t.fds[r.fd] = "rec"
        at   == IF now' < r.epoch THEN 0 ELSE now' - r.epoch
        u    == [t EXCEPT !.file = IF mine THEN Put(@, r.offset, [k |-> kind, at |-> at]) ELSE @,
                          !.rec.offset = @ + 1, !.rec.nframes = @ + inc, !.writes = n]
    IN  CASE shut \/ fault = [what |-> "head", nth |-> n] ->
               [t EXCEPT !.rec.failed = TRUE, !.go = FALSE, !.writes = n,
                         !.fds = IF r.fd = 0 THEN @ ELSE [@ EXCEPT ![r.fd] = "none"]]
          [] ~ shut /\ fault = [what |-> "body", nth |-> n] ->
               [u EXCEPT !.rec.nframes = r.nframes, !.go = FALSE, !.torn = @ \/ mine]
          [] OTHER -> IF Reached(u.rec) THEN Close(u) ELSE u

-----------------------------------------------------------------------------
(* ngx_rtmp_record_node_av, in the order of its code. *)

IsKey(kind) == kind \in {"avc", "key"}

BreakFrame(kind) == IF IsVideo(kind) THEN IsKey(kind) ELSE ~ conf.video

\* A frame to break at opens the file, or another one when the interval is over.
Rotate(t, kind, late, fault) ==
    CASE ~ BreakFrame(kind) \/ conf.manual -> t
      [] BreakFrame(kind) /\ ~ conf.manual /\ conf.interval ->
           IF late THEN Open(Close(t), fault) ELSE t
      [] OTHER -> IF t.rec.failed THEN t ELSE Open(t, fault)

Wanted(t, kind) ==
    /\ ~ (conf.manual /\ ~ BreakFrame(kind) /\ t.rec.nframes = 0)
    /\ t.rec.fd # 0
    /\ IF IsVideo(kind) THEN conf.video \/ (conf.keyframes /\ IsKey(kind)) ELSE conf.audio

\* The first message that is wanted starts the file.
Begin(t, fault) ==
    LET u == [t EXCEPT !.rec.initialized = TRUE, !.rec.epoch = now' - t.rec.shift]
        shut == t.fds[t.rec.fd] = "none"
        mine == t.fds[t.rec.fd] = "rec"
    IN  CASE t.rec.initialized -> t
          [] ~ t.rec.initialized /\ t.rec.offset > 0 -> u
          [] OTHER ->
               IF shut \/ fault.what = "start"
               THEN [Close(u) EXCEPT !.go = FALSE]
               ELSE [u EXCEPT !.file = IF mine THEN Put(@, 0, [k |-> "flv", at |-> 0]) ELSE @,
                              !.rec.offset = 1]

\* A codec header that the file has not yet.
Headers(t, fault) ==
    LET Send(v, kind, wanted) ==
            LET u == WriteFrame(v, kind, 0, fault)
            IN  IF ~ v.go \/ v.rec[kind] \/ codec'[kind] = 0 \/ ~ wanted THEN v
                ELSE IF u.go THEN [u EXCEPT !.rec[kind] = TRUE] ELSE u
    IN  Send(Send(t, "aac", conf.audio), "avc", conf.video \/ conf.keyframes)

\* Changed on purpose: a file may begin with any picture.
FrameAnyway(t, kind, fault) ==
    LET r == t.rec
    IN  IF IF IsVideo(kind) THEN ~ r.avc ELSE ~ r.aac THEN t
        ELSE WriteFrame(t, kind, 1, fault)

\* The message itself, once its codec header and a key frame are in the file.
Frame(t, kind, fault) ==
    LET r == t.rec
        u == [t EXCEPT !.rec.key = @ \/ kind = "key"]
    IN  CASE IF IsVideo(kind) THEN ~ r.avc ELSE ~ r.aac -> t
          [] IsVideo(kind) /\ r.avc /\ ~ u.rec.key -> t
          [] OTHER -> WriteFrame(u, kind, 1, fault)

NodeAv(t, kind, late, fault) ==
    LET t1 == Rotate(t, kind, late, fault)
        t2 == Begin(t1, fault)
        t3 == Headers(t2, fault)
    IN  CASE ~ Wanted(t1, kind) -> t1
          [] Wanted(t1, kind) /\ ~ t2.go -> t2
          [] OTHER -> IF t3.go THEN Frame(t3, kind, fault) ELSE t3

-----------------------------------------------------------------------------
(* The handlers.  The composition says when they run.                       *)

\* Without a file only rctx->failed is looked at: opening clears the rest.
Becomes(t) ==
    /\ rec' = IF t.rec.fd = 0 THEN [Closed EXCEPT !.failed = t.rec.failed] ELSE t.rec
    /\ file' = t.file /\ torn' = t.torn /\ fds' = t.fds /\ owed' = t.owed

\* What Step(fault) makes of the recorder, for a fault within the bound that
\* makes a difference.
Faulty(Step(_), fault) ==
    /\ fault # NoFault => faults < MaxFaults
    /\ \E t \in {Step(fault)} :
          /\ fault # NoFault => t # Step(NoFault)
          /\ Becomes(t)
    /\ faults' = faults + (IF fault = NoFault THEN 0 ELSE 1)

\* ngx_rtmp_record_publish, and ngx_rtmp_record_stream_begin for a session that
\* has published.
RecordStart(fault) ==
    LET Step(f) == IF conf.record /\ ~ conf.manual THEN Open(Now(TRUE), f) ELSE Now(TRUE)
    IN  /\ ctx' = conf.record
        /\ Faulty(Step, fault)

\* ngx_rtmp_record_close_stream and ngx_rtmp_record_stream_eof
RecordStop ==
    /\ Becomes(IF ctx THEN Close(Now(TRUE)) ELSE Now(TRUE))
    /\ UNCHANGED <<ctx, faults>>

\* The session ends after its stream was closed: its memory goes.
RecordForget ==
    /\ Becomes([(IF ctx THEN Close(Now(TRUE)) ELSE Now(TRUE)) EXCEPT !.rec = Closed])
    /\ ctx' = FALSE
    /\ UNCHANGED faults

\* ngx_rtmp_record_open and ngx_rtmp_record_close, for the control module.
ManualOpen(fault) ==
    LET Step(f) == Open(Now(TRUE), f)
    IN  /\ conf.record
        /\ ctx' = TRUE
        /\ Faulty(Step, fault)

ManualClose ==
    /\ conf.record
    /\ ctx' = TRUE
    /\ Becomes(Close(Now(TRUE)))
    /\ UNCHANGED faults

\* ngx_rtmp_record_av
RecordAv(kind, late, fault) ==
    LET Step(f) == IF ctx THEN NodeAv(Now(TRUE), kind, late, f) ELSE Now(TRUE)
    IN  /\ late => conf.record /\ conf.interval
        /\ Faulty(Step, fault)
        /\ UNCHANGED ctx

\* Another part of the worker opens a file or a connection, or closes it.
OtherOpens ==
    /\ \A f \in Fds : fds[f] # "other"
    /\ \E f \in Fds : fds[f] = "none"
    /\ fds' = [fds EXCEPT ![Min({f \in Fds : fds[f] = "none"})] = "other"]
    /\ UNCHANGED <<ctx, rec, file, torn, owed, faults>>

OtherCloses ==
    /\ \E f \in Fds : fds[f] = "other" /\ fds' = [fds EXCEPT ![f] = "none"]
    /\ UNCHANGED <<ctx, rec, file, torn, owed, faults>>

RecordInit ==
    /\ ctx = FALSE /\ rec = Closed /\ file = <<>> /\ torn = FALSE
    /\ fds = [f \in Fds |-> "none"] /\ owed = 0
    /\ faults = 0

-----------------------------------------------------------------------------
(* Properties. *)

\* What was recorded can be played: the FLV header comes first and once, a
\* frame comes after its codec header, pictures begin with a key frame, and
\* times do not go back, also where a later recording was appended; unless a
\* write failed in the middle of a tag, which nothing repairs.
Playable ==
    LET Before(i, kind) == \E j \in 1 .. i - 1 : file[j].k = kind
    IN  torn \/ \A i \in 1 .. Len(file) :
            /\ file[i].k = "flv" <=> i = 1
            /\ file[i].k = "aud" => Before(i, "aac")
            /\ file[i].k = "key" => Before(i, "avc")
            /\ file[i].k = "inter" => Before(i, "key")
            /\ i > 1 => file[i].at >= file[i - 1].at

\* The recorder writes to its own file and to no other: the number in rctx is
\* that of its file.  The exception is a recorder that failed to write the head
\* of a tag: it closed the file and keeps the number.
OwnFile == rec.fd # 0 => fds[rec.fd] = "rec" \/ rec.failed


\* record_max_size and record_max_frames: a file that is open is below them, but
\* for one that holds the FLV header alone, and no file grows beyond them, also
\* when the limit is reached at a codec header, in the middle of a message.  The
\* exceptions are a file that is appended to, whose size is looked at after a
\* tag was written, and one that a failed write left torn.
LimitsKept ==
    LET own == rec.fd # 0 /\ fds[rec.fd] = "rec"
    IN  conf.append \/ torn \/
        /\ own /\ conf.max_frames > 0 => rec.nframes < conf.max_frames
        /\ own /\ conf.max_size > 0 => rec.offset < Max({conf.max_size, 2})
        /\ conf.max_size > 0 => Len(file) <= Max({conf.max_size, 2})

=============================================================================
