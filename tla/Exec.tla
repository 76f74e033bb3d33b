-------------------------------- MODULE Exec ---------------------------------
(***************************************************************************)
(* Commands run for a stream (ngx_rtmp_exec_module.c): the push command of *)
(* the publisher, and the pull command that the players of a stream share  *)
(* and that runs while it has players.                                     *)
(***************************************************************************)
EXTENDS Integers, FiniteSets

CONSTANTS
    Players,
    MaxForkFails   \* bound: times that fork or pipe fails

ASSUME ExecAssumption == IsFiniteSet(Players) /\ MaxForkFails \in Nat

VARIABLES
    commands,      \* [push, pull : BOOLEAN, respawn : {"no", "now", "later"}]
    push,          \* ngx_rtmp_exec_t of the publisher's context
    publishing,    \* NGX_RTMP_EXEC_PUBLISHING in the flags of that context
    pull,          \* ngx_rtmp_exec_t of the pull context of the stream
    playing,       \* players whose ctx->pull is that context
    counter,       \* pctx->counter; 0: there is no context
    forkFails

execVars == <<commands, push, publishing, pull, playing, counter, forkFails>>

\* active: e->active; timer: e->respawn_evt.timer_set; child: the process
Idle == [active |-> FALSE, timer |-> FALSE, child |-> "none"]

\* ngx_rtmp_exec_run
Run(e, ok) ==
    IF e.active \/ ~ ok THEN e ELSE [e EXCEPT !.active = TRUE, !.child = "runs"]

\* Changed on purpose: the timer is left alone.
KillOnly(e) == [Idle EXCEPT !.timer = e.timer]

\* ngx_rtmp_exec_kill with a signal.
Kill(e) == Idle

\* Changed on purpose: the command is started before its end is noted.
ChildDeadFirst(e, ok) ==
    CASE commands.respawn = "no" -> Idle
      [] commands.respawn = "now" -> Kill(Run(e, ok))
      [] commands.respawn = "later" -> [Idle EXCEPT !.timer = TRUE]

\* ngx_rtmp_exec_child_dead: the command's end of the pipe was closed.
ChildDead(e, ok) ==
    CASE commands.respawn = "no" -> Idle
      [] commands.respawn = "now" -> Run(Idle, ok)
      [] commands.respawn = "later" -> [Idle EXCEPT !.timer = TRUE]

\* ngx_rtmp_exec_respawn, when the timer expires.
Respawn(e, ok) == Run([e EXCEPT !.timer = FALSE], ok)

\* A process is to be started, and is if ok.
Forks(needed, ok) ==
    /\ ~ ok => needed /\ forkFails < MaxForkFails
    /\ forkFails' = IF ok THEN forkFails ELSE forkFails + 1

-----------------------------------------------------------------------------

\* ngx_rtmp_exec_publish
ExecPublish(ok) ==
    /\ Forks(commands.push /\ ~ push.active, ok)
    /\ push' = IF commands.push THEN Run(push, ok) ELSE push
    /\ publishing' = (commands.push \/ commands.pull)
    /\ UNCHANGED <<commands, pull, playing, counter>>

\* ngx_rtmp_exec_init_pull_ctx
Counted(s) == IF s \in playing THEN counter ELSE counter + 1

\* ngx_rtmp_exec_play
ExecPlay(s, ok) ==
    /\ commands.pull
    /\ Forks(Counted(s) = 1 /\ ~ pull.active, ok)
    /\ playing' = playing \cup {s}
    /\ counter' = Counted(s)
    /\ pull' = IF Counted(s) = 1 THEN Run(pull, ok) ELSE pull
    /\ UNCHANGED <<commands, push, publishing>>

\* ngx_rtmp_exec_close_stream of the publisher
ExecUnpublish ==
    /\ push' = Kill(push)
    /\ publishing' = FALSE
    /\ UNCHANGED <<commands, pull, playing, counter, forkFails>>

\* ngx_rtmp_exec_close_stream of a player; with the last one the pull context
\* goes.
ExecLeave(s) ==
    /\ s \in playing
    /\ playing' = playing \ {s}
    /\ counter' = counter - 1
    /\ pull' = IF counter = 1 THEN Kill(pull) ELSE pull
    /\ UNCHANGED <<commands, push, publishing, forkFails>>

\* A command ends by itself; the worker sees it later, unless it kills it first.
Ends ==
    /\ \/ push.child = "runs" /\ push' = [push EXCEPT !.child = "ended"] /\ UNCHANGED pull
       \/ pull.child = "runs" /\ pull' = [pull EXCEPT !.child = "ended"] /\ UNCHANGED push
    /\ UNCHANGED <<commands, publishing, playing, counter, forkFails>>

Noticed(ok) ==
    /\ Forks(commands.respawn = "now", ok)
    /\ \/ push.child = "ended" /\ push' = ChildDead(push, ok) /\ UNCHANGED pull
       \/ pull.child = "ended" /\ pull' = ChildDead(pull, ok) /\ UNCHANGED push
    /\ UNCHANGED <<commands, publishing, playing, counter>>

TimerFires(ok) ==
    /\ \/ /\ push.timer /\ push' = Respawn(push, ok) /\ UNCHANGED pull
          /\ Forks(~ push.active, ok)
       \/ /\ pull.timer /\ pull' = Respawn(pull, ok) /\ UNCHANGED push
          /\ Forks(~ pull.active, ok)
    /\ UNCHANGED <<commands, publishing, playing, counter>>

ExecInit ==
    /\ push = Idle /\ pull = Idle /\ publishing = FALSE
    /\ playing = {} /\ counter = 0 /\ forkFails = 0

-----------------------------------------------------------------------------
(* Properties. *)

\* The pull context lives as long as a player refers to it, whether players play
\* again, leave, or leave while the command waits to be started again; and
\* neither a process nor a respawn timer outlives the stream it was for: the
\* timer's event is in memory that goes with it.
NothingLeft ==
    /\ counter = Cardinality(playing)
    /\ counter = 0 => pull = Idle
    /\ ~ publishing => push = Idle

\* While the stream is published, or played, its command runs or a timer will
\* start it again, whatever the order of its end, of a repeated publish or play
\* and of the timer; unless it is not to be respawned, or a fork has failed.
CommandsOwed ==
    commands.respawn # "no" /\ forkFails = 0 =>
        /\ publishing /\ commands.push => push.active \/ push.timer
        /\ counter > 0 => pull.active \/ pull.timer

=============================================================================
