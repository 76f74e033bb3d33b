----------------------------- MODULE LiveCount ------------------------------
(***************************************************************************)
(* The process-wide counter of players, ngx_rtmp_playing, beside Live.     *)
(* Its companion ngx_rtmp_publishing is added to nowhere, so it is 0.      *)
(***************************************************************************)
EXTENDS Live

CONSTANT MaxCount   \* bound: plays are counted up to here

ASSUME CountAssumption == MaxCount \in Nat

VARIABLE nplaying

cvars == <<vars, nplaying>>

CountInit == Init /\ nplaying = 0

\* Changed on purpose: whoever leaves is taken off the players.
PlayingLess(s) == IF nplaying > 0 THEN nplaying - 1 ELSE 0

\* ngx_rtmp_playing after ngx_rtmp_live_close_stream of s, which has joined.
PlayingAfter(s) == IF ~ publisher[s] /\ nplaying > 0 THEN nplaying - 1 ELSE nplaying

\* Closing a stream, with the session or alone.
CountClose(s) ==
    /\ CloseStream(s, {}) \/ CloseSession(s, {})
    /\ nplaying' = IF stream[s] # NULL THEN PlayingAfter(s) ELSE nplaying

\* ngx_rtmp_live_play counts every play, also one that is refused, a second one
\* of a session that has joined, and the answer to a check.
CountPlay(s, n, rt, relaying) ==
    /\ nplaying < MaxCount
    /\ Play(s, n, rt, relaying)
    /\ nplaying' = nplaying + 1

\* The other handlers count nothing.
CountOther(s) ==
    /\ \/ Accept(s)
       \/ \E n \in Names : Publish(s, n)
       \/ \E on \in BOOLEAN : Pause(s, on) \/ Signal(s, on)
       \/ \E n \in Names : CheckFires(n)
       \/ IdleFires(s)
       \/ Drop(s)
       \/ BadRedirect(s)
    /\ UNCHANGED nplaying

CountNext ==
    \/ \E s \in Sessions, n \in Names, rt, relaying \in BOOLEAN : CountPlay(s, n, rt, relaying)
    \/ \E s \in Sessions : CountClose(s)
    \/ \E s \in Sessions : CountOther(s)

CountSpec == CountInit /\ [][CountNext]_cvars

\* The number of players that the statistics page prints never falls short:
\* each session that plays has been counted, and nobody else's departure takes
\* it off again (ngx_rtmp_live_play, ngx_rtmp_live_close_stream).
PlayersNotMissed ==
    nplaying >= Cardinality({s \in Sessions : stream[s] # NULL /\ ~ publisher[s]})

=============================================================================
