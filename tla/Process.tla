------------------------------- MODULE Process -------------------------------
(***************************************************************************)
(* The master process and its children (os/unix/ngx_process_cycle.c,       *)
(* ngx_process.c): the table of processes, the signals of the operator,    *)
(* respawning, graceful shutdown, reload, termination and the upgrade to a *)
(* new binary.                                                             *)
(*                                                                         *)
(* The master blocks its signals except in sigsuspend, so one turn of its  *)
(* loop, with the handlers of all pending signals before it, is one step.  *)
(* ngx_spawn_process, ngx_signal_worker_processes and the others are       *)
(* operators on the memory of the master, the children and the pending     *)
(* signals, composed in the order of the calls.                            *)
(*                                                                         *)
(* fork, socketpair and the writes to the channels succeed; a worker reads *)
(* everything in its channel in one turn, as ngx_channel_handler does.     *)
(***************************************************************************)
EXTENDS Integers, FiniteSets, Sequences, SequencesExt

CONSTANTS
    N,             \* ccf->worker_processes
    MaxProcesses,  \* NGX_MAX_PROCESSES
    KillAfter,     \* 1000: the delay after which TERM becomes KILL
    Signals,       \* what the operator sends: subset of
                   \* {"HUP", "QUIT", "TERM", "WINCH", "USR2"}
    MaxEvents,     \* bound: signals and faults in a run
    MaxCrashes, MaxHangs, MaxFatals, MaxReloads, MaxDrops   \* bounds: of each kind

ASSUME ProcessAssumption ==
    /\ N \in Nat \ {0} /\ {MaxProcesses, KillAfter} \subseteq Nat
    /\ Signals \subseteq {"HUP", "QUIT", "TERM", "WINCH", "USR2"}
    /\ {MaxEvents, MaxCrashes, MaxHangs, MaxFatals, MaxReloads, MaxDrops} \subseteq Nat

VARIABLES
    m,             \* memory of the master
    w,             \* its children; the index is the pid
    sigs,          \* signals pending at the master
    used           \* events so far: signals, crashes, hangs, fatal exits,
                   \* connections lost between live workers

procVars == <<m, w, sigs, used>>

Slots == 0 .. MaxProcesses - 1

Pids == 1 .. Len(w)

\* A slot that was never used; one that was freed has pid -1.
Unused == [pid |-> 0, exited |-> FALSE, exiting |-> FALSE, respawn |-> FALSE,
           just_spawn |-> FALSE, detached |-> FALSE]

\* The kinds of ngx_spawn_process.
RESPAWN      == [Unused EXCEPT !.respawn = TRUE]
JUST_RESPAWN == [Unused EXCEPT !.respawn = TRUE, !.just_spawn = TRUE]
DETACHED     == [Unused EXCEPT !.detached = TRUE]

Alive(p) == w[p].st \notin {"zombie", "gone"}

-----------------------------------------------------------------------------
(* The calls of the master.  `t` is [m, w, sigs] in the middle of a turn.   *)

\* A child: its place in its own cycle, its copy of the table, and the table
\* as it will be when everything in its channel is read.
Child(t, s, detached) ==
    LET tab == [i \in Slots |-> t.m.procs[i].pid]
    IN  [st |-> IF detached THEN "binary" ELSE "starting", slot |-> s, gen |-> t.m.gen,
         quit |-> FALSE, term |-> FALSE, tab |-> tab, news |-> tab]

\* ngx_spawn_process into slot s
SpawnAt(t, s, entry) ==
    [t EXCEPT !.m.procs[s] = [entry EXCEPT !.pid = Len(t.w) + 1, !.exited = FALSE],
              !.m.last = IF s = @ THEN @ + 1 ELSE @,
              !.w = Append(@, Child(t, s, entry.detached))]

\* The first free slot.
FreeSlot(t) ==
    CHOOSE s \in 0 .. t.m.last :
        /\ s = t.m.last \/ t.m.procs[s].pid = -1
        /\ \A i \in 0 .. s - 1 : t.m.procs[i].pid # -1

\* Changed on purpose: only the processes in lower slots are told.
PassOpenBelow(t, s) ==
    LET told == {t.m.procs[i].pid : i \in {i \in 0 .. s - 1 : ~ t.m.procs[i].detached}}
    IN  [t EXCEPT !.w = [p \in DOMAIN @ |->
            IF p \in told /\ @[p].st \notin {"zombie", "gone"}
            THEN [@[p] EXCEPT !.news[s] = t.m.procs[s].pid] ELSE @[p]]]

\* ngx_pass_open_channel: the process of slot s is announced to the others.
PassOpen(t, s) ==
    LET told == {t.m.procs[i].pid : i \in {i \in 0 .. t.m.last - 1 :
                    i # s /\ ~ t.m.procs[i].detached}}
    IN  [t EXCEPT !.w = [p \in DOMAIN @ |->
            IF p \in told /\ @[p].st \notin {"zombie", "gone"}
            THEN [@[p] EXCEPT !.news[s] = t.m.procs[s].pid] ELSE @[p]]]

StartWorker(t, entry) ==
    LET s == FreeSlot(t)
    IN  IF s = MaxProcesses THEN t ELSE PassOpen(SpawnAt(t, s, entry), s)

\* ngx_start_worker_processes
StartWorkers(t, entry) ==
    FoldLeft(LAMBDA acc, i : StartWorker(acc, entry), t, [i \in 1 .. N |-> i])

\* A child ends; the kernel keeps it for waitpid.
Ended(fatal) == [st |-> "zombie", fatal |-> fatal]

\* ngx_signal_worker_processes: QUIT and TERM go through the channel, to which
\* a write succeeds also when the reader is dead, for the master keeps both
\* ends open; KILL goes to the process.
SignalWorkers(t, sig) ==
    LET mine(i) == i < t.m.last /\ t.m.procs[i].pid # -1 /\ ~ t.m.procs[i].detached
        told(i) == /\ mine(i) /\ ~ t.m.procs[i].just_spawn
                   /\ ~ (t.m.procs[i].exiting /\ sig = "QUIT")
        Reaches(p) == \E i \in Slots : told(i) /\ t.m.procs[i].pid = p
        Hit(c) == CASE c.st \in {"zombie", "gone"} -> c
                    [] sig = "QUIT" -> [c EXCEPT !.quit = TRUE]
                    [] sig = "TERM" -> [c EXCEPT !.term = TRUE]
                    [] sig = "KILL" -> Ended(FALSE)
    IN  [t EXCEPT
           !.m.procs = [i \in Slots |->
               [@[i] EXCEPT !.just_spawn = @ /\ ~ mine(i),
                            !.exiting = @ \/ told(i)]],
           !.w = [p \in DOMAIN @ |-> IF Reaches(p) THEN Hit(@[p]) ELSE @[p]],
           !.sigs = IF sig = "KILL" /\ \E p \in DOMAIN t.w :
                           Reaches(p) /\ t.w[p].st \notin {"zombie", "gone"}
                    THEN @ \cup {"CHLD"} ELSE @]

\* Changed on purpose: no child is respawned, whatever its exit code.
GetStatusFatal(t) ==
    LET dead(i) == /\ i < t.m.last /\ t.m.procs[i].pid \in DOMAIN t.w
                   /\ t.w[t.m.procs[i].pid].st = "zombie"
    IN  [t EXCEPT
           !.m.procs = [i \in Slots |->
               IF dead(i) THEN [@[i] EXCEPT !.exited = TRUE, !.respawn = FALSE] ELSE @[i]],
           !.w = [p \in DOMAIN @ |->
               IF @[p].st = "zombie" THEN [st |-> "gone"] ELSE @[p]]]

\* ngx_process_get_status: every child that ended is marked in the table.
GetStatus(t) ==
    LET dead(i) == /\ i < t.m.last /\ t.m.procs[i].pid \in DOMAIN t.w
                   /\ t.w[t.m.procs[i].pid].st = "zombie"
    IN  [t EXCEPT
           !.m.procs = [i \in Slots |->
               IF dead(i)
               THEN [@[i] EXCEPT !.exited = TRUE,
                                 !.respawn = @ /\ ~ t.w[t.m.procs[i].pid].fatal]
               ELSE @[i]],
           !.w = [p \in DOMAIN @ |->
               IF @[p].st = "zombie" THEN [st |-> "gone"] ELSE @[p]]]

Has(t, flag) == flag \in t.m.flags

Clear(t, flag) == [t EXCEPT !.m.flags = @ \ {flag}]

\* Changed on purpose: the table shrinks whichever slot is freed.
ReapSlotShrink(t, i) ==
    LET e == t.m.procs[i]
    IN  CASE e.pid = -1 -> t
          [] e.pid # -1 /\ ~ e.exited ->
               [t EXCEPT !.m.live = @ \/ e.exiting \/ ~ e.detached]
          [] e.exited /\ e.respawn /\ ~ e.exiting /\ t.m.flags \cap {"terminate", "quit"} = {} ->
               [PassOpen(SpawnAt(t, i, e), i) EXCEPT !.m.live = TRUE]
          [] OTHER -> [t EXCEPT !.m.last = @ - 1, !.m.procs[i].pid = -1]

\* Changed on purpose: a child that is exiting does not count as live.
ReapSlotHasty(t, i) ==
    LET e == t.m.procs[i]
    IN  CASE e.pid = -1 -> t
          [] e.pid # -1 /\ ~ e.exited ->
               [t EXCEPT !.m.live = @ \/ (~ e.exiting /\ ~ e.detached)]
          [] e.exited /\ e.respawn /\ ~ e.exiting /\ t.m.flags \cap {"terminate", "quit"} = {} ->
               [PassOpen(SpawnAt(t, i, e), i) EXCEPT !.m.live = TRUE]
          [] OTHER -> [t EXCEPT !.m.procs[i].pid = -1]

\* One slot in ngx_reap_children.  CLOSE_CHANNEL changes no pid in the tables
\* of the workers.
ReapSlot(t, i) ==
    LET e == t.m.procs[i]
        binary == e.pid = t.m.new_binary
    IN  CASE e.pid = -1 -> t
          [] e.pid # -1 /\ ~ e.exited ->
               [t EXCEPT !.m.live = @ \/ e.exiting \/ ~ e.detached]
          [] e.exited /\ e.respawn /\ ~ e.exiting /\ t.m.flags \cap {"terminate", "quit"} = {} ->
               [PassOpen(SpawnAt(t, i, e), i) EXCEPT !.m.live = TRUE]
          [] OTHER ->
               [t EXCEPT
                  !.m.new_binary = IF binary THEN 0 ELSE @,
                  !.m.flags = IF binary /\ t.m.noaccepting THEN @ \cup {"restart"} ELSE @,
                  !.m.noaccepting = @ /\ ~ binary,
                  !.m.last = IF i = @ - 1 THEN @ - 1 ELSE @,
                  !.m.procs[i].pid = IF i = t.m.last - 1 THEN @ ELSE -1]

\* ngx_reap_children
ReapChildren(t) ==
    FoldLeft(ReapSlot, [t EXCEPT !.m.live = FALSE],
             [i \in 1 .. t.m.last |-> i - 1])

-----------------------------------------------------------------------------
(* One turn of ngx_master_process_cycle. *)

\* ngx_signal_handler for every pending signal.
Handle(t, pending) ==
    LET flag == [HUP |-> "reconfigure", QUIT |-> "quit", TERM |-> "terminate",
                 WINCH |-> "noaccept", USR2 |-> "change_binary"]
        heard == {x \in pending : x \in DOMAIN flag /\ ~ (x = "USR2" /\ t.m.new_binary > 0)}
        u == [t EXCEPT !.m.flags = @ \cup {flag[x] : x \in heard},
                       !.m.sigalrm = @ \/ "ALRM" \in pending]
    IN  IF "CHLD" \in pending THEN GetStatus(u) ELSE u

\* Changed on purpose: a process told to stop is killed only after a delay
\* that no doubling reaches.
TerminateMildly(t) ==
    LET u == [t EXCEPT !.m.delay = IF @ = 0 THEN 50 ELSE @]
    IN  IF u.m.sigio > 0
        THEN [u EXCEPT !.m.sigio = @ - 1]
        ELSE SignalWorkers([u EXCEPT !.m.sigio = N + 2], "TERM")

Terminate(t) ==
    LET u == [t EXCEPT !.m.delay = IF @ = 0 THEN 50 ELSE @]
    IN  IF u.m.sigio > 0
        THEN [u EXCEPT !.m.sigio = @ - 1]
        ELSE SignalWorkers([u EXCEPT !.m.sigio = N + 2],
                           IF u.m.delay > KillAfter THEN "KILL" ELSE "TERM")

\* Changed on purpose: the workers of the old configuration are not told.
ReconfigureMute(t) ==
    IF Has(t, "reconfigure")
    THEN StartWorkers([Clear(t, "reconfigure") EXCEPT !.m.gen = @ + 1, !.m.live = TRUE],
                      JUST_RESPAWN)
    ELSE t

\* The reload proper: new workers first, then QUIT to the others.
Reconfigure(t) ==
    LET u == StartWorkers([Clear(t, "reconfigure") EXCEPT !.m.gen = @ + 1], JUST_RESPAWN)
    IN  IF Has(t, "reconfigure")
        THEN SignalWorkers([u EXCEPT !.m.live = TRUE], "QUIT")
        ELSE t

Restart(t) ==
    IF Has(t, "restart")
    THEN [StartWorkers(Clear(t, "restart"), RESPAWN) EXCEPT !.m.live = TRUE]
    ELSE t

\* ngx_exec_new_binary; it fails when the pid file cannot be renamed or no
\* slot is free.
ChangeBinary(t, ok) ==
    LET s == FreeSlot(t)
    IN  CASE ~ Has(t, "change_binary") -> t
          [] Has(t, "change_binary") /\ (~ ok \/ s = MaxProcesses) ->
               [Clear(t, "change_binary") EXCEPT !.m.new_binary = -1]
          [] OTHER ->
               [SpawnAt(Clear(t, "change_binary"), s, DETACHED)
                   EXCEPT !.m.new_binary = Len(t.w) + 1]

NoAccept(t) ==
    IF Has(t, "noaccept")
    THEN SignalWorkers([Clear(t, "noaccept") EXCEPT !.m.noaccepting = TRUE], "QUIT")
    ELSE t

\* HUP while a new binary runs: the old one starts its workers again.  `live`
\* is left as it was.
TakeBack(t) ==
    StartWorkers([Clear(t, "reconfigure") EXCEPT !.m.noaccepting = FALSE], RESPAWN)

\* What follows sigsuspend.  `ok` is whether ngx_init_cycle accepts the
\* configuration and the file system does what it is asked; when a reload
\* fails, `continue` leaves the other flags to the next turn.
Body(t, ok) ==
    CASE ~ t.m.live /\ t.m.flags \cap {"terminate", "quit"} # {} -> [t EXCEPT !.m.up = FALSE]
      [] Has(t, "terminate") -> Terminate(t)
      [] Has(t, "quit") -> SignalWorkers(t, "QUIT")
      [] Has(t, "reconfigure") /\ t.m.new_binary # 0 -> TakeBack(t)
      [] Has(t, "reconfigure") /\ ~ ok -> Clear(t, "reconfigure")
      [] OTHER -> NoAccept(ChangeBinary(Restart(Reconfigure(t)), ok))

\* The top of the loop: a timer while terminating.  Delays above KillAfter
\* are not told apart.
Suspend(t) ==
    LET fired == t.m.delay > 0 /\ t.m.sigalrm
    IN  [t EXCEPT !.m.sigio = IF fired THEN 0 ELSE @,
                  !.m.delay = IF fired /\ @ <= KillAfter THEN 2 * @ ELSE @,
                  !.m.sigalrm = @ /\ ~ fired,
                  !.m.itimer = t.m.delay > 0]

MasterWakes(ok) ==
    LET t0 == Handle([m |-> m, w |-> w, sigs |-> {}], sigs)
        t1 == IF "CHLD" \in sigs THEN ReapChildren(t0) ELSE t0
        t2 == Body(t1, ok)
        t3 == IF t2.m.up THEN Suspend(t2) ELSE t2
    IN  /\ m.up /\ sigs # {}
        /\ ok \/ sigs \cap {"HUP", "USR2"} # {}
        /\ m' = t3.m /\ w' = t3.w /\ sigs' = t3.sigs
        /\ UNCHANGED used

AlarmFires ==
    /\ m.up /\ m.itimer
    /\ m' = [m EXCEPT !.itimer = FALSE]
    /\ sigs' = sigs \cup {"ALRM"}
    /\ UNCHANGED <<w, used>>

\* One event more, within the bounds.
Counts(kind, max) ==
    /\ used[kind] < max
    /\ used.others + used.reloads + used.crashes + used.hangs + used.fatals
        + used.drops < MaxEvents
    /\ used' = [used EXCEPT ![kind] = @ + 1]

\* The operator.
Send(sig) ==
    /\ m.up /\ sig \in Signals \ sigs
    /\ IF sig = "HUP" THEN Counts("reloads", MaxReloads) ELSE Counts("others", MaxEvents)
    /\ sigs' = sigs \cup {sig}
    /\ UNCHANGED <<m, w>>

-----------------------------------------------------------------------------
(* The children.  What they do after the master has exited is left out.     *)

Becomes(p, child) == w' = [w EXCEPT ![p] = child]

Dies(p, fatal) == Becomes(p, Ended(fatal)) /\ sigs' = sigs \cup {"CHLD"}

\* ngx_worker_process_init, which exits with code 2 when it fails.
Starts(p) ==
    /\ m.up /\ w[p].st = "starting"
    /\ Becomes(p, [w[p] EXCEPT !.st = "running"])
    /\ UNCHANGED <<m, sigs, used>>

StartFails(p) ==
    /\ m.up /\ w[p].st = "starting" /\ Counts("fatals", MaxFatals)
    /\ Dies(p, TRUE)
    /\ UNCHANGED m

InChannel(p) == w[p].quit \/ w[p].term \/ w[p].news # w[p].tab

Readable(p) == w[p].st \in {"running", "exiting"} /\ InChannel(p)

\* A turn of ngx_worker_process_cycle with ngx_channel_handler.  Reading makes
\* room in the channel, of which SIGIO tells the master; without a flag set a
\* turn of the master for SIGIO alone changes nothing.
ReadsChannel(p) ==
    /\ m.up /\ Readable(p)
    /\ IF w[p].term
       THEN Dies(p, FALSE)
       ELSE /\ Becomes(p, [w[p] EXCEPT !.st = IF w[p].quit THEN "exiting" ELSE @,
                                       !.quit = FALSE, !.tab = w[p].news])
            /\ sigs' = IF m.flags = {} THEN sigs ELSE sigs \cup {"IO"}
    /\ UNCHANGED <<m, used>>

\* The last timer of an exiting worker is gone.
ExitsGracefully(p) ==
    /\ m.up /\ w[p].st = "exiting" /\ ~ InChannel(p)
    /\ Dies(p, FALSE)
    /\ UNCHANGED <<m, used>>

Crashes(p) ==
    /\ m.up /\ w[p].st \in {"starting", "running", "exiting", "hung", "stuck"}
    /\ Counts("crashes", MaxCrashes)
    /\ Dies(p, FALSE)
    /\ UNCHANGED m

\* A worker that no longer comes back to its event loop; "stuck" when it had
\* closed its listening sockets before.
Hangs(p) ==
    /\ m.up /\ w[p].st \in {"running", "exiting"} /\ Counts("hangs", MaxHangs)
    /\ Becomes(p, [w[p] EXCEPT !.st = IF @ = "running" THEN "hung" ELSE "stuck"])
    /\ UNCHANGED <<m, sigs>>

\* The new binary may end at any time.
BinaryEnds(p) ==
    /\ m.up /\ w[p].st = "binary"
    /\ Dies(p, FALSE)
    /\ UNCHANGED <<m, used>>

ProcInit ==
    LET m0 == [procs |-> [i \in Slots |-> Unused], last |-> 0, live |-> TRUE, up |-> TRUE,
               flags |-> {}, noaccepting |-> FALSE, new_binary |-> 0, gen |-> 0,
               sigalrm |-> FALSE, itimer |-> FALSE, delay |-> 0, sigio |-> 0]
        t == StartWorkers([m |-> m0, w |-> <<>>, sigs |-> {}], RESPAWN)
    IN  /\ m = t.m /\ w = t.w /\ sigs = {}
        /\ used = [others |-> 0, reloads |-> 0, crashes |-> 0, hangs |-> 0,
                   fatals |-> 0, drops |-> 0]

-----------------------------------------------------------------------------
(* Properties. *)

Hung(p) == w[p].st \in {"hung", "stuck"}

Worker(p) == p \in Pids /\ Alive(p) /\ w[p].st # "binary"

\* Every live worker is in the table of the master that started it, in a slot
\* of its own and not marked as exited.
NoForgotten ==
    m.up => \A p \in Pids : Worker(p) =>
        \E i \in 0 .. m.last - 1 : m.procs[i].pid = p /\ w[p].slot = i /\ ~ m.procs[i].exited

\* The master exits after its workers.  The exception is a master that runs
\* beside a new binary: a HUP then starts workers without setting `live`, and
\* a QUIT or TERM that comes before the next SIGCHLD leaves them alone.
NoOrphan == ~ m.up /\ m.new_binary = 0 => \A p \in Pids : ~ Worker(p)

\* A worker knows every other one, or will when it reads its channel.
TablesComplete ==
    \A p, q \in Pids : p # q /\ Worker(p) /\ Worker(q) => w[p].news[w[q].slot] = q

\* The master has workers to keep, and no order waits for its next turn.
Serving == m.up /\ ~ m.noaccepting /\ m.flags = {}

\* A worker that nobody told to stop.
Serves(p) == Worker(p) /\ ~ w[p].quit /\ ~ w[p].term /\ w[p].st \notin {"exiting", "stuck"}

\* Workers that crash are replaced.
WorkersRestored ==
    [](Serving => <>(~ Serving \/
        Cardinality({p \in Pids : Serves(p)}) >= N - used.fatals))

\* Workers of an old configuration.
OldWorkers == {p \in Pids : Worker(p) /\ w[p].gen < m.gen}

=============================================================================
