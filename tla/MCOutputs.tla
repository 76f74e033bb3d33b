------------------------------ MODULE MCOutputs ------------------------------
(* Instance of Outputs for TLC. *)
EXTENDS Outputs

NoCommands == [push |-> FALSE, pull |-> FALSE, respawn |-> "no"]

NoLive == [on |-> FALSE, interleave |-> FALSE, wait_key |-> FALSE, wait_video |-> FALSE,
           sync |-> 0]

HlsOff == [on |-> FALSE, aligned |-> FALSE, slicing_way |-> 0, fraglen |-> 2,
           max_fraglen |-> 5, winfrags |-> 1, max_audio_delay |-> 2,
           continuous |-> FALSE, relay |-> FALSE, slices |-> {}]

Tape == <<[k |-> "aud", at |-> 0], [k |-> "vid", at |-> 1], [k |-> "aud", at |-> 2],
          [k |-> "vid", at |-> 3]>>

NoVod == [on |-> FALSE, entries |-> <<"local">>, local |-> TRUE, present |-> FALSE,
          index |-> TRUE, bufsize |-> 2, starts |-> {0}, tape |-> Tape]

Nothing == [record |-> FALSE, audio |-> TRUE, video |-> TRUE, keyframes |-> FALSE,
            manual |-> FALSE, append |-> FALSE, interval |-> FALSE,
            max_size |-> 0, max_frames |-> 0, commands |-> NoCommands,
            live |-> NoLive, hls |-> HlsOff, vod |-> NoVod,
            kinds |-> Kinds, steps |-> {1}, messages |-> 0]

-----------------------------------------------------------------------------

\* record all; once with everything else
Plain == [Nothing EXCEPT !.record = TRUE, !.messages = 4]

Recorders ==
    {[Plain EXCEPT !.messages = 3],
     [Plain EXCEPT !.max_size = 4],
     [Plain EXCEPT !.messages = 2, !.live.on = TRUE, !.hls.on = TRUE,
                   !.kinds = {"avc", "key"}],
     [Plain EXCEPT !.append = TRUE, !.max_size = 4, !.video = FALSE],
     [Plain EXCEPT !.append = TRUE, !.interval = TRUE, !.audio = FALSE],
     [Plain EXCEPT !.manual = TRUE, !.messages = 3],
     [Plain EXCEPT !.video = FALSE, !.audio = FALSE, !.keyframes = TRUE,
                   !.interval = TRUE, !.max_frames = 1]}

Commands ==
    {[Nothing EXCEPT !.commands = [push |-> TRUE, pull |-> TRUE, respawn |-> respawn]]
        : respawn \in {"no", "now", "later"}}

\* live on
Playing == [Nothing EXCEPT !.live.on = TRUE, !.steps = {1, 2}, !.messages = 4]

Lives ==
    {[Playing EXCEPT !.live.sync = 1],
     [Playing EXCEPT !.live.interleave = TRUE, !.live.wait_key = TRUE],
     [Playing EXCEPT !.live.wait_video = TRUE, !.live.sync = 1, !.steps = {1, -1}],
     [Playing EXCEPT !.live.interleave = TRUE, !.live.wait_video = TRUE,
                     !.steps = {1}]}

\* hls on
Slicing == [Nothing EXCEPT !.hls.on = TRUE, !.messages = 6]

Fragments ==
    {[Slicing EXCEPT !.hls.continuous = TRUE, !.kinds = {"avc", "key", "inter"}, !.steps = {2}],
     [Slicing EXCEPT !.hls.aligned = TRUE, !.hls.winfrags = 2, !.kinds = {"aac", "aud"},
                     !.steps = {1, 2, -2}, !.messages = 5],
     [Slicing EXCEPT !.steps = {1, 2}, !.messages = 5],
     [Slicing EXCEPT !.hls.slicing_way = 1],
     [Slicing EXCEPT !.hls.relay = TRUE, !.hls.slices = {2}, !.kinds = {"avc", "key", "inter"},
                     !.steps = {1, 6}, !.messages = 5]}

\* play, with a file that is there, one that is kept once it is fetched, and one that
\* is there in case that neither of two servers has it
Viewing == [Nothing EXCEPT !.vod.on = TRUE]

Viewers ==
    {[Viewing EXCEPT !.vod.present = TRUE, !.vod.starts = 0 .. 3],
     [Viewing EXCEPT !.vod.entries = <<"local", "remote">>, !.vod.tape = SubSeq(Tape, 1, 2)],
     [Viewing EXCEPT !.vod.entries = <<"remote", "remote", "local">>, !.vod.present = TRUE,
                     !.vod.tape = SubSeq(Tape, 1, 1), !.vod.local = FALSE]}

MCConfs == Viewers \cup Recorders \cup Commands \cup Lives \cup Fragments

=============================================================================
