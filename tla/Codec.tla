-------------------------------- MODULE Codec --------------------------------
(***************************************************************************)
(* The media that a publisher sends, as the modules behind                 *)
(* ngx_rtmp_codec_module.c see it.  A message is a codec header ("aac",    *)
(* "avc"), audio ("aud") or a picture ("key", "inter").  The codec module  *)
(* runs first and keeps the last header of each kind.                      *)
(***************************************************************************)
EXTENDS Integers

Kinds == {"aac", "aud", "avc", "key", "inter"}

CONSTANT
    Confs          \* configurations to look at; one is drawn at the start

ASSUME CodecAssumption == \A c \in Confs : c.kinds \subseteq Kinds /\ c.messages \in Nat /\ c.steps \subseteq Int

VARIABLES
    conf,          \* the application's configuration; kinds are the messages that the
                   \* publisher sends, steps the differences of the timestamps of two
                   \* messages, and messages is a bound
    codec,         \* the last codec header of each kind: the number of its message,
                   \* where players tell headers apart; 0: none
    now,           \* timestamp of the last message of this or a former session
    sent           \* messages so far

codecVars == <<conf, codec, now, sent>>

IsHeader(kind) == kind \in {"aac", "avc"}

IsVideo(kind) == kind \in {"avc", "key", "inter"}

\* ngx_rtmp_codec_av
CodecAv(kind, step) ==
    /\ kind \in conf.kinds
    /\ sent < conf.messages /\ sent' = sent + 1
    /\ step \in conf.steps /\ now + step >= 0
    /\ now' = now + step
    /\ codec' = IF ~ IsHeader(kind) THEN codec
                ELSE [codec EXCEPT ![kind] = IF conf.live.on THEN sent + 1 ELSE 1]
    /\ UNCHANGED conf

\* ngx_rtmp_codec_disconnect
CodecDisconnect ==
    /\ codec' = [aac |-> 0, avc |-> 0]
    /\ UNCHANGED <<conf, now, sent>>

CodecInit ==
    /\ conf \in Confs
    /\ codec = [aac |-> 0, avc |-> 0] /\ now = 0 /\ sent = 0

=============================================================================
