--------------------------- MODULE DaemonLifecycle ---------------------------
(* The daemon process and the commands that find, start and stop it:        *)
(* EnsureDaemon of internal/client/client.go, and `daemon start` and        *)
(* `daemon stop` of cmd/flf/main.go.                                        *)
(*                                                                          *)
(* All they share is the home directory: daemon.json, which names the port  *)
(* and the pid of a daemon, daemon.lock, and the database.  Any number of   *)
(* commands run at once, each a process; a daemon goes through its start    *)
(* by itself, and nothing but daemon.json tells a second one of the first.  *)
(*                                                                          *)
(* A port is taken as the pid of its daemon, and neither is used again.     *)
(* Abstracted: lock files that cannot be opened, what store.Open migrates,  *)
(* `daemon status`, which is the first probe alone, and all but one of the  *)
(* sessions of a daemon, of which AgentSessions has the whole.              *)
EXTENDS Naturals

CONSTANTS
    Client,         \* commands that may run at the same time
    Free,           \* nobody holds daemon.lock
    Probes,         \* of EnsureDaemon for the daemon it has spawned, 3 in the code
    MaxDaemons,     \* bound: daemons forked in all; one more fails to fork
    MaxCommands,    \* bound: commands begun in all
    MaxFaults       \* bound: crashes, and answers later than their timeout

ASSUME DaemonAssumption ==
    /\ Free \notin Client
    /\ {Probes, MaxDaemons, MaxCommands, MaxFaults} \subseteq Nat \ {0}

Pid == 1 .. MaxDaemons
None == 0
Op == {"ensure", "start", "stop"}

VARIABLES
    file,       \* daemon.json: a pid, or None while it is absent or half written
    lock,       \* the holder of the flock on daemon.lock
    cl,         \* per client, its command and where it stands
    phase,      \* per daemon, how far it is
    row,        \* per daemon, the status of its session's row
    agent,      \* per daemon, its session in its manager
    ended,      \* per daemon, how it ended
    gone,       \* per daemon, the daemons that were dead when it reconciled
    begun, faults

daemonVars == <<phase, row, agent, ended, gone>>
vars == <<file, lock, cl, daemonVars, begun, faults>>

Open == {"queued", "running"}
Starting == {"starting", "open", "reconciled", "listening"}
Alive(p) == phase[p] \in Starting \cup {"serving", "stopping"}
\* It answers until the barrier of its shutdown is passed.
Answers(p) == p # None /\ phase[p] \in {"serving", "stopping"}

Idle == [op |-> "none", at |-> "idle", stage |-> "none", saw |-> None, tries |-> 0,
         reach |-> None, told |-> "none"]

Init ==
    /\ file = None /\ lock = Free
    /\ cl = [c \in Client |-> Idle]
    /\ phase = [p \in Pid |-> "unborn"]
    /\ row = [p \in Pid |-> "none"]
    /\ agent = [p \in Pid |-> "none"]
    /\ ended = [p \in Pid |-> "none"]
    /\ gone = [p \in Pid |-> {}]
    /\ begun = 0 /\ faults = 0

----------------------------------------------------------------------------
(* A daemon *)

Enter(p, next) == phase' = [phase EXCEPT ![p] = next]

\* store.Open: PRAGMA, migrations.
OpenStore(p) ==
    /\ phase[p] = "starting"
    /\ Enter(p, "open")
    /\ UNCHANGED <<file, lock, cl, row, agent, ended, gone, begun, faults>>

\* A slip in Reconcile: only running rows are closed.
ReconcileRunning(p) ==
    /\ phase[p] = "open"
    /\ Enter(p, "reconciled")
    /\ row' = [q \in Pid |-> IF row[q] = "running" THEN "closed" ELSE row[q]]
    /\ gone' = [gone EXCEPT ![p] = {q \in Pid : phase[q] = "dead"}]
    /\ UNCHANGED <<file, lock, cl, agent, ended, begun, faults>>

\* It closes every open row, whosever it is.
Reconcile(p) ==
    /\ phase[p] = "open"
    /\ Enter(p, "reconciled")
    /\ row' = [q \in Pid |-> IF row[q] \in Open THEN "closed" ELSE row[q]]
    /\ gone' = [gone EXCEPT ![p] = {q \in Pid : phase[q] = "dead"}]
    /\ UNCHANGED <<file, lock, cl, agent, ended, begun, faults>>

\* net.Listen, and os.WriteFile has truncated daemon.json.
Listen(p) ==
    /\ phase[p] = "reconciled"
    /\ Enter(p, "listening")
    /\ file' = None
    /\ UNCHANGED <<lock, cl, row, agent, ended, gone, begun, faults>>

\* From here on a request is answered, since the port accepts it already.
Publish(p) ==
    /\ phase[p] = "listening"
    /\ Enter(p, "serving")
    /\ file' = p
    /\ UNCHANGED <<lock, cl, row, agent, ended, gone, begun, faults>>

\* Its one session.  Start inserts the row before it asks whether the manager
\* is closed, so that a shutdown may come in between.
StartInserts(p) ==
    /\ Answers(p) /\ agent[p] = "none"
    /\ row' = [row EXCEPT ![p] = "queued"]
    /\ agent' = [agent EXCEPT ![p] = "inserted"]
    /\ UNCHANGED <<file, lock, cl, phase, ended, gone, begun, faults>>

\* The shutdown has been asked for before it closes the manager.
StartRegisters(p) ==
    /\ Answers(p) /\ agent[p] = "inserted"
    /\ \/ agent' = [agent EXCEPT ![p] = "waiting"] /\ UNCHANGED row
       \/ /\ phase[p] = "stopping"
          /\ agent' = [agent EXCEPT ![p] = "over"] /\ row' = [row EXCEPT ![p] = "closed"]
    /\ UNCHANGED <<file, lock, cl, phase, ended, gone, begun, faults>>

\* A slip in MarkSessionRunning: the status is not compared.
MarkSessionRunningAny(p) ==
    /\ Answers(p) /\ agent[p] = "waiting"
    /\ row' = [row EXCEPT ![p] = "running"]
    /\ agent' = [agent EXCEPT ![p] = "running"]
    /\ UNCHANGED <<file, lock, cl, phase, ended, gone, begun, faults>>

\* dispatch marks the row if it is still queued.
MarkSessionRunning(p) ==
    /\ Answers(p) /\ agent[p] = "waiting"
    /\ row' = [row EXCEPT ![p] = IF @ = "queued" THEN "running" ELSE @]
    /\ agent' = [agent EXCEPT ![p] = IF row[p] = "queued" THEN "running" ELSE "over"]
    /\ UNCHANGED <<file, lock, cl, phase, ended, gone, begun, faults>>

\* The row is finished whatever its status is by then; that of a session which
\* still waits is, once the manager is closed.
FinishSession(p) ==
    /\ \/ Answers(p) /\ agent[p] = "running"
       \/ phase[p] = "stopping" /\ agent[p] = "waiting"
    /\ row' = [row EXCEPT ![p] = "closed"]
    /\ agent' = [agent EXCEPT ![p] = "over"]
    /\ UNCHANGED <<file, lock, cl, phase, ended, gone, begun, faults>>

\* ShutdownAndWait has returned and srv.Close ends Serve.  The barrier is for
\* the sessions that are registered.
Exit(p) ==
    /\ phase[p] = "stopping" /\ agent[p] \notin {"waiting", "running"}
    /\ Enter(p, "dead") /\ ended' = [ended EXCEPT ![p] = "clean"]
    /\ UNCHANGED <<file, lock, cl, row, agent, gone, begun, faults>>

\* A crash, or an error of the start: a busy database, or a migration that
\* another daemon has applied since this one read the version.
Crash(p) ==
    /\ Alive(p) /\ faults < MaxFaults
    /\ Enter(p, "dead") /\ ended' = [ended EXCEPT ![p] = "crashed"]
    /\ faults' = faults + 1
    /\ UNCHANGED <<file, lock, cl, row, agent, gone, begun>>

----------------------------------------------------------------------------
(* The commands *)

Goto(c, at) == [cl EXCEPT ![c].at = at]
\* What a command prints last, and of which daemon.
Told(k, code) ==
    [Idle EXCEPT !.told = code, !.saw = IF code \in {"STARTED", "STOPPED"} THEN k.saw ELSE None]
Tell(c, code) == [cl EXCEPT ![c] = Told(@, code)]
\* It reads daemon.json anew, and what it knew of it is of no use any more.
Stage(c, s) == [cl EXCEPT ![c].at = "read", ![c].stage = s, ![c].saw = None, ![c].reach = None]
Unlock(c) == lock' = IF lock = c THEN Free ELSE lock

Begin(c, op) ==
    /\ cl[c].at = "idle" /\ begun < MaxCommands
    /\ begun' = begun + 1
    /\ cl' = [cl EXCEPT ![c] =
                [Idle EXCEPT !.op = op, !.at = IF op = "start" THEN "spawn" ELSE "read",
                             !.stage = IF op = "ensure" THEN "first" ELSE op]]
    /\ UNCHANGED <<file, lock, daemonVars, faults>>

\* daemon.json, once; the request that goes to its port comes later.
ReadFile(c) ==
    /\ cl[c].at = "read"
    /\ cl' = IF file # None
             THEN [cl EXCEPT ![c].saw = file,
                             ![c].at = IF cl[c].op = "stop" THEN "ask" ELSE "probe"]
             ELSE IF cl[c].op = "stop" THEN Tell(c, "DAEMON_DOWN")
             ELSE [cl EXCEPT ![c].saw = None, ![c].at = "probe"]
    /\ UNCHANGED <<file, lock, daemonVars, begun, faults>>

\* A slip in Reached: the return under the lock leaves it held.
ReachedKeepsLock(c) ==
    /\ cl' = IF cl[c].stage = "locked" THEN Stage(c, "again") ELSE Tell(c, "UP")
    /\ UNCHANGED lock

\* DaemonBaseURLContext returned the port.
Reached(c) ==
    IF cl[c].stage = "locked" THEN Unlock(c) /\ cl' = Stage(c, "again")
                              ELSE cl' = Tell(c, "UP") /\ UNCHANGED lock

\* DaemonBaseURLContext returned an error.
Missed(k) ==
    CASE k.stage = "first"  -> [k EXCEPT !.at = "lock", !.saw = None]
      [] k.stage = "locked" -> [k EXCEPT !.at = "spawn", !.saw = None]
      [] k.stage = "wait" /\ k.tries + 1 < Probes ->
             [k EXCEPT !.at = "read", !.saw = None, !.tries = @ + 1]
      [] OTHER -> Told(k, "DAEMON_DOWN")

Probe(c) ==
    /\ cl[c].at = "probe"
    /\ IF Answers(cl[c].saw) THEN Reached(c)
       ELSE cl' = [cl EXCEPT ![c] = Missed(@)] /\ UNCHANGED lock
    /\ UNCHANGED <<file, daemonVars, begun, faults>>

\* The answer takes more than a second.  The command cannot know better then,
\* and its reach is forgotten.
ProbeTimesOut(c) ==
    /\ cl[c].at = "probe" /\ Answers(cl[c].saw) /\ faults < MaxFaults
    /\ faults' = faults + 1
    /\ cl' = [cl EXCEPT ![c] = [Missed(@) EXCEPT !.reach = None]]
    /\ UNCHANGED <<file, lock, daemonVars, begun>>

\* A slip in Lock: who gets the lock spawns, without another look.
LockAndSpawn(c) ==
    /\ cl[c].at = "lock" /\ lock = Free
    /\ lock' = c
    /\ cl' = [cl EXCEPT ![c].at = "spawn", ![c].stage = "locked",
                        ![c].reach = IF Answers(file) THEN file ELSE None]
    /\ UNCHANGED <<file, daemonVars, begun, faults>>

\* reach is no variable of the code: it remembers the daemon that could be
\* found when the lock was taken, and is None of who goes on without the lock.
Lock(c) ==
    /\ cl[c].at = "lock" /\ lock = Free
    /\ lock' = c
    /\ cl' = [Stage(c, "locked") EXCEPT ![c].reach = IF Answers(file) THEN file ELSE None]
    /\ UNCHANGED <<file, daemonVars, begun, faults>>

\* After five seconds the same goes on without the lock.
LockTimesOut(c) ==
    /\ cl[c].at = "lock" /\ lock # Free
    /\ cl' = Stage(c, "locked")
    /\ UNCHANGED <<file, lock, daemonVars, begun, faults>>

\* spawnDaemon runs `daemon start --background`, which forks the daemon; here
\* the two are one.  EnsureDaemon does not wait for it, and lets go of the lock.
Spawn(c) ==
    /\ cl[c].at = "spawn"
    /\ IF \E p \in Pid : phase[p] = "unborn"
       THEN \E p \in Pid :
                /\ phase[p] = "unborn" /\ \A q \in 1 .. p - 1 : phase[q] # "unborn"
                /\ Enter(p, "starting")
                /\ cl' = IF cl[c].op = "start"
                         THEN [cl EXCEPT ![c].at = "await", ![c].saw = p]
                         ELSE Stage(c, "wait")
       ELSE /\ cl' = Tell(c, IF cl[c].op = "start" THEN "DAEMON_ERROR" ELSE "DAEMON_DOWN")
            /\ UNCHANGED phase
    /\ Unlock(c)
    /\ UNCHANGED <<file, row, agent, ended, gone, begun, faults>>

\* A slip in AwaitDaemonPort: any port that is published is taken for the child's.
AwaitAnyPort(c) ==
    /\ cl[c].at = "await"
    /\ cl' = Tell(c, IF file # None THEN "STARTED" ELSE "DAEMON_ERROR")
    /\ UNCHANGED <<file, lock, daemonVars, begun, faults>>

\* The last poll: the child's own entry, or else its end or 50 polls in vain.
AwaitDaemonPort(c) ==
    /\ cl[c].at = "await"
    /\ cl' = Tell(c, IF file = cl[c].saw THEN "STARTED" ELSE "DAEMON_ERROR")
    /\ UNCHANGED <<file, lock, daemonVars, begun, faults>>

\* POST /api/shutdown.  It is answered before the shutdown begins.
RequestDaemonShutdown(c) ==
    /\ cl[c].at = "ask"
    /\ IF Answers(cl[c].saw)
       THEN /\ Enter(cl[c].saw, "stopping")
            /\ \/ cl' = Goto(c, "wait") /\ UNCHANGED faults
               \* the answer is late
               \/ faults < MaxFaults /\ faults' = faults + 1 /\ cl' = Goto(c, "kill")
       ELSE cl' = Goto(c, "kill") /\ UNCHANGED <<phase, faults>>
    /\ UNCHANGED <<file, lock, row, agent, ended, gone, begun>>

\* A slip in WaitForProcessExit: there is no deadline.
WaitForProcessExitForever(c) ==
    /\ cl[c].at = "wait" /\ ~Alive(cl[c].saw)
    /\ cl' = Goto(c, "remove")
    /\ UNCHANGED <<file, lock, daemonVars, begun, faults>>

\* The last poll: the process is gone, or five seconds are over.
WaitForProcessExit(c) ==
    /\ cl[c].at = "wait"
    /\ cl' = Goto(c, IF Alive(cl[c].saw) THEN "kill" ELSE "remove")
    /\ UNCHANGED <<file, lock, daemonVars, begun, faults>>

\* A process that is gone cannot be killed, and the command fails.
Kill(c) ==
    /\ cl[c].at = "kill"
    /\ LET p == cl[c].saw
       IN  IF Alive(p)
           THEN /\ Enter(p, "dead") /\ ended' = [ended EXCEPT ![p] = "killed"]
                /\ cl' = Goto(c, "remove") /\ UNCHANGED file
           ELSE /\ file' = None
                /\ cl' = Tell(c, "DAEMON_DOWN") /\ UNCHANGED <<phase, ended>>
    /\ UNCHANGED <<lock, row, agent, gone, begun, faults>>

\* os.Remove(daemon.json), whosever it is by now.
Remove(c) ==
    /\ cl[c].at = "remove"
    /\ file' = None
    /\ cl' = Tell(c, "STOPPED")
    /\ UNCHANGED <<lock, daemonVars, begun, faults>>

ClientStep(c) ==
    \/ ReadFile(c) \/ Probe(c)
    \/ Lock(c) \/ LockTimesOut(c) \/ Spawn(c) \/ AwaitDaemonPort(c)
    \/ RequestDaemonShutdown(c) \/ WaitForProcessExit(c) \/ Kill(c) \/ Remove(c)

DaemonStep(p) ==
    \/ OpenStore(p) \/ Reconcile(p) \/ Listen(p) \/ Publish(p)
    \/ StartInserts(p) \/ StartRegisters(p) \/ MarkSessionRunning(p) \/ FinishSession(p)
    \/ Exit(p) \/ Crash(p)

Next ==
    \/ \E c \in Client : \/ \E op \in Op : Begin(c, op)
                         \/ ClientStep(c) \/ ProbeTimesOut(c)
    \/ \E p \in Pid : DaemonStep(p)

\* A command that runs goes on running.  Nothing is assumed of the daemons.
Spec == Init /\ [][Next]_vars /\ \A c \in Client : WF_vars(ClientStep(c))

----------------------------------------------------------------------------
(* Properties *)

\* Types; the lock is held by a command between taking it and the end of its
\* recheck; daemon.json never names a daemon that does not listen yet.
TypeOK ==
    /\ file \in Pid \cup {None}
    /\ \A c \in Client :
        /\ cl[c].saw \in Pid \cup {None} /\ cl[c].tries < Probes
        /\ cl[c].at \in {"ask", "await", "wait", "kill", "remove"} => cl[c].saw \in Pid
        /\ lock = c => /\ cl[c].stage = "locked"
                       /\ cl[c].at \in {"read", "probe", "spawn"}
    /\ \A p \in Pid :
        /\ (phase[p] = "dead") = (ended[p] # "none")
        /\ file = p => phase[p] \in {"serving", "stopping", "dead"}

\* Who holds the lock spawns a daemon only when none could be found: one that
\* could be found when he took the lock has since stopped answering, or
\* daemon.json has been changed under him (the recheck in
\* EnsureDaemonContext).  It is all the lock achieves: a daemon that has been
\* spawned and not yet published is not found, and one whose answer is later
\* than a second, or that is looked for without the lock, is not meant.
SpawnIsRechecked ==
    \A c \in Client :
        LET p == cl[c].reach
        IN  cl[c].at = "spawn" /\ p # None => ~Answers(p) \/ file # p

\* What a command reports is so.  "Started" means that the child it forked
\* itself has published its port; "stopped" that the process it was asked to
\* stop is gone; and that one which went by itself has finished the row of
\* every session it had registered, whatever else was started, stopped or
\* killed meanwhile.  A row which Start has inserted and not yet registered is
\* beyond the barrier, and may be left queued for the next daemon.
ToldIsTrue ==
    \A c \in Client :
        LET p == cl[c].saw
        IN  /\ cl[c].told = "STARTED" =>
                   phase[p] \in {"serving", "stopping", "dead"}
            /\ cl[c].told = "STOPPED" =>
                   /\ phase[p] = "dead"
                   /\ ended[p] = "clean" /\ row[p] \in Open => agent[p] = "inserted"

\* Once a daemon has reconciled, no row is open of a daemon that was dead by
\* then: every session an earlier daemon left behind is closed, queued ones
\* too, before anyone is served.
NoOrphanRow ==
    \A p, q \in Pid : q \in gone[p] => row[q] \notin Open

\* A row that is closed stays so, also when it was closed by another daemon
\* on the same database while its own still has the session in its queue.
ClosedStaysClosed ==
    [][\A p \in Pid : row[p] = "closed" => row'[p] \notin Open]_vars

\* Every command returns, whether or not the daemon it waits for ever gets on
\* or ever ends, and so nobody keeps the lock.
CommandsReturn == \A c \in Client : []<>(cl[c].at = "idle")
=============================================================================
