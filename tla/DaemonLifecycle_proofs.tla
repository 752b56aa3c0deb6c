----------------------- MODULE DaemonLifecycle_proofs -----------------------
(* Of DaemonLifecycle, for any number of commands, daemons, probes and      *)
(* faults: its types and safety properties, from one inductive invariant.   *)
EXTENDS DaemonLifecycle, TLAPS

Phase == Starting \cup {"unborn", "serving", "stopping", "dead"}
Published(p) == phase[p] \in {"serving", "stopping", "dead"}

Code == {"UP", "DAEMON_DOWN", "DAEMON_ERROR", "STARTED", "STOPPED"}
At == {"idle", "read", "probe", "lock", "spawn", "await", "ask", "wait", "kill", "remove"}
StageOf == {"none", "first", "locked", "again", "wait", "start", "stop"}

Command ==
    [op : Op \cup {"none"}, at : At, stage : StageOf,
     saw : Pid \cup {None}, tries : Nat, reach : Pid \cup {None},
     told : Code \cup {"none"}]

Types ==
    /\ file \in Pid \cup {None}
    /\ lock \in Client \cup {Free}
    /\ cl \in [Client -> Command]
    /\ phase \in [Pid -> Phase]
    /\ row \in [Pid -> {"none", "queued", "running", "closed"}]
    /\ agent \in [Pid -> {"none", "inserted", "waiting", "running", "over"}]
    /\ ended \in [Pid -> {"none", "clean", "crashed", "killed"}]
    /\ gone \in [Pid -> SUBSET Pid]
    /\ begun \in Nat /\ faults \in Nat

\* Where a command stands, and what it knows.  What it read in daemon.json has
\* been published; what it reports is so; and a daemon found when it took the
\* lock is the one its probe asks, or cannot be found any more.
CommandInv(c) ==
    LET k == cl[c]
    IN  /\ k.tries < Probes
        /\ k.at \in {"ask", "await", "wait", "kill", "remove"} => k.saw # None
        /\ k.at \in {"await", "ask", "wait", "kill", "remove"} => k.stage # "locked"
        /\ k.op \in {"start", "stop"} => k.stage = k.op
        /\ k.at = "lock" => k.stage = "first"
        /\ k.at = "spawn" => k.stage \in {"locked", "start"}
        /\ k.at # "idle" => k.told = "none"
        /\ lock = c => k.stage = "locked" /\ k.at \in {"read", "probe", "spawn"}
        /\ k.saw # None => phase[k.saw] # "unborn"
        /\ k.reach # None => Published(k.reach)
        /\ k.reach # None /\ k.at = "probe" /\ k.stage = "locked" =>
               k.saw = k.reach \/ phase[k.reach] = "dead" \/ file # k.reach
        /\ k.reach # None /\ k.at = "spawn" => phase[k.reach] = "dead" \/ file # k.reach
        /\ k.told = "STARTED" => k.saw # None /\ Published(k.saw)
        /\ k.at = "remove" \/ k.told = "STOPPED" => k.saw # None /\ phase[k.saw] = "dead"

\* A daemon's session and its row, which another daemon may close, and its end.
ProcessInv(p) ==
    /\ agent[p] = "none" => row[p] = "none"
    /\ agent[p] \in {"inserted", "waiting"} => row[p] \in {"queued", "closed"}
    /\ agent[p] = "running" => row[p] \in {"running", "closed"}
    /\ agent[p] = "over" => row[p] = "closed"
    /\ (phase[p] = "dead") <=> (ended[p] # "none")
    /\ ended[p] = "clean" => agent[p] \in {"none", "inserted", "over"}

FileInv == file # None => Published(file)
GoneInv == \A p, q \in Pid : q \in gone[p] => phase[q] = "dead" /\ row[q] \notin Open

IInv == /\ Types /\ FileInv /\ GoneInv
        /\ \A c \in Client : CommandInv(c)
        /\ \A p \in Pid : ProcessInv(p)

----------------------------------------------------------------------------
(* The types *)

LEMMA Constants ==
    /\ Probes \in Nat \ {0} /\ MaxDaemons \in Nat \ {0}
    /\ \A c \in Client : c # Free
BY DaemonAssumption

\* The fields of a command can be written one by one.
LEMMA Update ==
    ASSUME NEW k \in Command
    PROVE  /\ \A a \in At : [k EXCEPT !.at = a] \in Command
           /\ \A s \in StageOf : [k EXCEPT !.stage = s] \in Command
           /\ \A p \in Pid \cup {None} :
                [k EXCEPT !.saw = p] \in Command /\ [k EXCEPT !.reach = p] \in Command
           /\ \A n \in Nat : [k EXCEPT !.tries = n] \in Command
           /\ \A d \in Code : [k EXCEPT !.told = d] \in Command
BY DEF Command

\* A command is a record of Command also after a step in it.
LEMMA CommandStep ==
    ASSUME NEW k \in Command, NEW code \in Code
    PROVE  /\ Idle \in Command /\ Told(k, code) \in Command
           /\ Missed(k) \in Command /\ [Missed(k) EXCEPT !.reach = None] \in Command
<1>1. Idle \in Command
  BY DEF Idle, Command, At, StageOf
<1>2. \A d \in Code : Told(k, d) \in Command
  <2> SUFFICES ASSUME NEW d \in Code PROVE Told(k, d) \in Command
    OBVIOUS
  <2> DEFINE p == IF d \in {"STARTED", "STOPPED"} THEN k.saw ELSE None
  <2>1. p \in Pid \cup {None}
    BY DEF Command, At, StageOf
  <2> HIDE DEF p
  <2>2. Told(k, d) = [Idle EXCEPT !.told = d, !.saw = p]
    BY DEF Told, p
  <2>3. [Idle EXCEPT !.told = d] \in Command
    BY <1>1, Update
  <2> QED
    BY <2>1, <2>2, <2>3, Update
<1>3. Missed(k) \in Command
  <2>1. CASE k.stage = "first"
    BY <2>1 DEF Missed, Command, At, StageOf
  <2>2. CASE k.stage = "locked"
    BY <2>2 DEF Missed, Command, At, StageOf
  <2>3. CASE k.stage = "wait" /\ k.tries + 1 < Probes
    <3>1. Missed(k) = [[[k EXCEPT !.at = "read"] EXCEPT !.saw = None]
                         EXCEPT !.tries = k.tries + 1]
      BY <2>3 DEF Missed, Command, At, StageOf
    <3>2. k.tries + 1 \in Nat
      BY DEF Command, At, StageOf
    <3>3. [k EXCEPT !.at = "read"] \in Command
      BY Update DEF At
    <3>4. [[k EXCEPT !.at = "read"] EXCEPT !.saw = None] \in Command
      BY <3>3, Update
    <3> QED
      BY <3>1, <3>2, <3>4, Update
  <2>4. CASE /\ k.stage # "first" /\ k.stage # "locked"
             /\ ~(k.stage = "wait" /\ k.tries + 1 < Probes)
    <3>1. Missed(k) = Told(k, "DAEMON_DOWN")
      BY <2>4 DEF Missed
    <3> QED
      BY <3>1, <1>2 DEF Code
  <2> QED
    BY <2>1, <2>2, <2>3, <2>4
<1>4. \A m \in Command : [m EXCEPT !.reach = None] \in Command
  BY DEF Command, At, StageOf
<1> QED
  BY <1>1, <1>2, <1>3, <1>4

LEMMA TypesStep ==
    ASSUME Types, [Next]_vars
    PROVE  Types'
<1> USE DEF Types
<1>0. \A c \in Client, d \in Code :
        /\ Told(cl[c], d) \in Command
        /\ Missed(cl[c]) \in Command /\ [Missed(cl[c]) EXCEPT !.reach = None] \in Command
  BY CommandStep
<1>1. ASSUME NEW c \in Client, NEW op \in Op, Begin(c, op) PROVE Types'
  <2>1. [Idle EXCEPT !.op = op, !.at = IF op = "start" THEN "spawn" ELSE "read",
                     !.stage = IF op = "ensure" THEN "first" ELSE op] \in Command
    BY DEF Idle, Command, At, StageOf, Op, None
  <2> QED
    BY <1>1, <2>1 DEF Begin, daemonVars
<1>2. ASSUME NEW c \in Client, ReadFile(c) PROVE Types'
  <2>1. CASE file # None
    BY <1>2, <2>1 DEF ReadFile, daemonVars, Command, At, StageOf
  <2>2. CASE file = None /\ cl[c].op = "stop"
    BY <1>2, <2>2, <1>0 DEF ReadFile, Tell, Code, daemonVars
  <2>3. CASE file = None /\ cl[c].op # "stop"
    BY <1>2, <2>3 DEF ReadFile, daemonVars, Command, At, StageOf
  <2> QED
    BY <2>1, <2>2, <2>3
<1>3. ASSUME NEW c \in Client, Probe(c) PROVE Types'
  <2>1. CASE Answers(cl[c].saw) /\ cl[c].stage = "locked"
    BY <1>3, <2>1 DEF Probe, Reached, Unlock, Stage, daemonVars, Command, At, StageOf
  <2>2. CASE Answers(cl[c].saw) /\ cl[c].stage # "locked"
    BY <1>3, <2>2, <1>0 DEF Probe, Reached, Tell, Code, daemonVars
  <2>3. CASE ~Answers(cl[c].saw)
    BY <1>3, <2>3, <1>0 DEF Probe, Code, daemonVars
  <2> QED
    BY <2>1, <2>2, <2>3
<1>4. ASSUME NEW c \in Client, ProbeTimesOut(c) PROVE Types'
  BY <1>4, <1>0 DEF ProbeTimesOut, Code, daemonVars
<1>5. ASSUME NEW c \in Client, Lock(c) \/ LockTimesOut(c) PROVE Types'
  BY <1>5, SMTT(30) DEF Lock, LockTimesOut, Stage, daemonVars, Command, At, StageOf
<1>6. ASSUME NEW c \in Client, Spawn(c) PROVE Types'
  <2>1. CASE \E p \in Pid : phase[p] = "unborn"
    <3>1. PICK p \in Pid : /\ Enter(p, "starting")
                            /\ cl' = IF cl[c].op = "start"
                                     THEN [cl EXCEPT ![c].at = "await", ![c].saw = p]
                                     ELSE Stage(c, "wait")
      BY <1>6, <2>1 DEF Spawn
    <3>2. cl' \in [Client -> Command]
      <4>1. CASE cl[c].op = "start"
        <5>1. [cl[c] EXCEPT !.at = "await"] \in Command
          BY Update DEF At
        <5>2. [[cl[c] EXCEPT !.at = "await"] EXCEPT !.saw = p] \in Command
          BY <5>1, Update
        <5> QED
          BY <3>1, <4>1, <5>2
      <4>2. CASE cl[c].op # "start"
        <5>1. [cl[c] EXCEPT !.at = "read"] \in Command
          BY Update DEF At
        <5>2. [[cl[c] EXCEPT !.at = "read"] EXCEPT !.stage = "wait"] \in Command
          BY <5>1, Update DEF StageOf
        <5>3. [[[cl[c] EXCEPT !.at = "read"] EXCEPT !.stage = "wait"] EXCEPT !.saw = None] \in Command
          BY <5>2, Update
        <5>4. [[[[cl[c] EXCEPT !.at = "read"] EXCEPT !.stage = "wait"] EXCEPT !.saw = None]
                 EXCEPT !.reach = None] \in Command
          BY <5>3, Update
        <5> QED
          BY <3>1, <4>2, <5>4 DEF Stage
      <4> QED
        BY <4>1, <4>2
    <3>3. phase' \in [Pid -> Phase]
      BY <3>1 DEF Enter, Phase, Starting
    <3> QED
      BY <1>6, <3>2, <3>3 DEF Spawn, Unlock
  <2>2. CASE ~\E p \in Pid : phase[p] = "unborn"
    BY <1>6, <2>2, <1>0 DEF Spawn, Tell, Code, Unlock
  <2> QED
    BY <2>1, <2>2
<1>7. ASSUME NEW c \in Client, AwaitDaemonPort(c) PROVE Types'
  BY <1>7, <1>0 DEF AwaitDaemonPort, Tell, Code, daemonVars
<1>8. ASSUME NEW c \in Client, RequestDaemonShutdown(c) PROVE Types'
  <2>1. PICK a \in {"wait", "kill"} : cl' = Goto(c, a)
    BY <1>8 DEF RequestDaemonShutdown
  <2>2. [cl[c] EXCEPT !.at = a] \in Command
    BY Update DEF At
  <2>3. cl' \in [Client -> Command]
    BY <2>1, <2>2 DEF Goto
  <2>4. phase' \in [Pid -> Phase] /\ faults' \in Nat
    BY <1>8 DEF RequestDaemonShutdown, Enter, Phase
  <2> QED
    BY <1>8, <2>3, <2>4 DEF RequestDaemonShutdown
<1>9. ASSUME NEW c \in Client, WaitForProcessExit(c) PROVE Types'
  BY <1>9 DEF WaitForProcessExit, Goto, daemonVars, Command, At, StageOf
<1>10. ASSUME NEW c \in Client, Kill(c) PROVE Types'
  <2>1. CASE Alive(cl[c].saw)
    <3>1. cl' \in [Client -> Command]
      BY <1>10, <2>1, SMTT(30) DEF Kill, Goto, Command, At, StageOf
    <3>2. phase' \in [Pid -> Phase] /\ ended' \in [Pid -> {"none", "clean", "crashed", "killed"}]
      BY <1>10, <2>1 DEF Kill, Enter, Phase
    <3> QED
      BY <1>10, <2>1, <3>1, <3>2 DEF Kill
  <2>2. CASE ~Alive(cl[c].saw)
    BY <1>10, <2>2, <1>0 DEF Kill, Tell, Code
  <2> QED
    BY <2>1, <2>2
<1>11. ASSUME NEW c \in Client, Remove(c) PROVE Types'
  BY <1>11, <1>0 DEF Remove, Tell, Code, daemonVars
<1>12. ASSUME NEW p \in Pid, OpenStore(p) \/ Listen(p) \/ Publish(p) PROVE Types'
  BY <1>12 DEF OpenStore, Listen, Publish, Enter, Phase, Starting
<1>13. ASSUME NEW p \in Pid, Reconcile(p) PROVE Types'
  BY <1>13 DEF Reconcile, Enter, Phase, Starting
<1>14. ASSUME NEW p \in Pid, StartInserts(p) \/ StartRegisters(p) \/ MarkSessionRunning(p) \/ FinishSession(p) PROVE Types'
  BY <1>14 DEF StartInserts, StartRegisters, MarkSessionRunning, FinishSession
<1>15. ASSUME NEW p \in Pid, Exit(p) \/ Crash(p) PROVE Types'
  BY <1>15 DEF Exit, Crash, Enter, Phase
<1>16. CASE UNCHANGED vars
  BY <1>16 DEF vars, daemonVars
<1> QED
  BY <1>1, <1>2, <1>3, <1>4, <1>5, <1>6, <1>7, <1>8, <1>9, <1>10, <1>11, <1>12, <1>13,
     <1>14, <1>15, <1>16 DEF Next, ClientStep, DaemonStep

----------------------------------------------------------------------------
(* What a step changes *)

\* A daemon only moves on, and one that has been published stays so or dies.
LEMMA ProcessFrame ==
    ASSUME Types, [Next]_vars, NEW p \in Pid
    PROVE  /\ phase[p] # "unborn" => phase'[p] # "unborn"
           /\ Published(p) => Published(p)'
           /\ phase[p] = "dead" => phase'[p] = "dead"
<1> USE DEF Types, Published
<1>1. ASSUME NEW c \in Client, Spawn(c) PROVE phase[p] # "unborn" => phase'[p] = phase[p]
  BY <1>1 DEF Spawn, Enter
<1>2. ASSUME NEW c \in Client, RequestDaemonShutdown(c) \/ Kill(c)
      PROVE  \/ phase'[p] = phase[p]
             \/ Alive(p) /\ phase'[p] = "dead"
             \/ Answers(p) /\ phase'[p] = "stopping"
  BY <1>2 DEF RequestDaemonShutdown, Kill, Enter
<1>3. ASSUME NEW q \in Pid, DaemonStep(q)
      PROVE  /\ phase[p] # "unborn" => phase'[p] # "unborn"
             /\ Published(p) => Published(p)'
             /\ phase[p] = "dead" => phase'[p] = "dead"
  BY <1>3 DEF DaemonStep, OpenStore, Reconcile, Listen, Publish, StartInserts, StartRegisters,
              MarkSessionRunning, FinishSession, Exit, Crash, Enter, Alive, Starting
<1>4. ASSUME NEW c \in Client, NEW op \in Op,
             \/ Begin(c, op) \/ ReadFile(c) \/ Probe(c) \/ ProbeTimesOut(c) \/ Lock(c)
             \/ LockTimesOut(c) \/ AwaitDaemonPort(c) \/ WaitForProcessExit(c) \/ Remove(c)
      PROVE  phase' = phase
  BY <1>4 DEF Begin, ReadFile, Probe, ProbeTimesOut, Lock, LockTimesOut, AwaitDaemonPort,
              WaitForProcessExit, Remove, daemonVars
<1>5. CASE UNCHANGED vars
  BY <1>5 DEF vars, daemonVars
<1>6. "stop" \in Op
  BY DEF Op
<1> QED
  BY <1>1, <1>2, <1>3, <1>4, <1>5, <1>6 DEF Next, ClientStep, Answers, Alive, Starting

\* daemon.json is emptied, or names a daemon that had not been published.
LEMMA FileFrame ==
    ASSUME Types, [Next]_vars
    PROVE  \/ file' = file \/ file' = None
           \/ file' \in Pid /\ phase[file'] = "listening" /\ phase'[file'] = "serving"
<1>1. ASSUME NEW q \in Pid, DaemonStep(q)
      PROVE  \/ file' = file \/ file' = None
             \/ file' = q /\ phase[q] = "listening" /\ phase'[q] = "serving"
  BY <1>1 DEF DaemonStep, OpenStore, Reconcile, Listen, Publish, StartInserts, StartRegisters,
              MarkSessionRunning, FinishSession, Exit, Crash, Enter, Types
<1>2. ASSUME NEW c \in Client, NEW op \in Op,
             \/ Begin(c, op) \/ ReadFile(c) \/ Probe(c) \/ ProbeTimesOut(c) \/ Lock(c)
             \/ LockTimesOut(c) \/ AwaitDaemonPort(c) \/ WaitForProcessExit(c)
             \/ Spawn(c) \/ RequestDaemonShutdown(c)
      PROVE  file' = file
  BY <1>2 DEF Begin, ReadFile, Probe, ProbeTimesOut, Lock, LockTimesOut, Spawn,
              AwaitDaemonPort, RequestDaemonShutdown, WaitForProcessExit
<1>3. ASSUME NEW c \in Client, Kill(c) \/ Remove(c) PROVE file' = file \/ file' = None
  BY <1>3 DEF Kill, Remove
<1>4. CASE UNCHANGED vars
  BY <1>4 DEF vars
<1>5. "stop" \in Op
  BY DEF Op
<1> QED
  BY <1>1, <1>2, <1>3, <1>4, <1>5 DEF Next, ClientStep

LEMMA FileStep ==
    ASSUME Types, Types', FileInv, [Next]_vars
    PROVE  FileInv'
<1>1. \A p \in Pid : Published(p) => Published(p)'
  BY ProcessFrame
<1> QED
  BY <1>1, FileFrame DEF FileInv, Types, Published

----------------------------------------------------------------------------
(* The daemons *)

LEMMA ProcessStep ==
    ASSUME Types, Types', [Next]_vars, NEW p \in Pid, ProcessInv(p)
    PROVE  ProcessInv(p)'
<1> USE DEF Types, ProcessInv
<1>1. ASSUME NEW c \in Client, Spawn(c) PROVE ProcessInv(p)'
  BY <1>1 DEF Spawn, Enter
<1>2. ASSUME NEW c \in Client, RequestDaemonShutdown(c) PROVE ProcessInv(p)'
  BY <1>2 DEF RequestDaemonShutdown, Answers, Enter
<1>3. ASSUME NEW c \in Client, Kill(c) PROVE ProcessInv(p)'
  BY <1>3 DEF Kill, Alive, Starting, Enter
<1>4. ASSUME NEW c \in Client, NEW op \in Op,
             \/ Begin(c, op) \/ ReadFile(c) \/ Probe(c) \/ ProbeTimesOut(c) \/ Lock(c)
             \/ LockTimesOut(c) \/ AwaitDaemonPort(c) \/ WaitForProcessExit(c) \/ Remove(c)
      PROVE  ProcessInv(p)'
  BY <1>4 DEF Begin, ReadFile, Probe, ProbeTimesOut, Lock, LockTimesOut, AwaitDaemonPort,
              WaitForProcessExit, Remove, daemonVars
<1>5. ASSUME NEW q \in Pid, OpenStore(q) \/ Listen(q) \/ Publish(q) PROVE ProcessInv(p)'
  BY <1>5 DEF OpenStore, Listen, Publish, Enter
<1>6. ASSUME NEW q \in Pid, Reconcile(q) PROVE ProcessInv(p)'
  BY <1>6 DEF Reconcile, Enter, Open
<1>7. ASSUME NEW q \in Pid, StartInserts(q) \/ StartRegisters(q) \/ MarkSessionRunning(q) \/ FinishSession(q)
      PROVE  ProcessInv(p)'
  BY <1>7 DEF StartInserts, StartRegisters, MarkSessionRunning, FinishSession, Answers
<1>8. ASSUME NEW q \in Pid, Exit(q) PROVE ProcessInv(p)'
  BY <1>8 DEF Exit, Enter
<1>9. ASSUME NEW q \in Pid, Crash(q) PROVE ProcessInv(p)'
  BY <1>9 DEF Crash, Alive, Starting, Enter
<1>10. CASE UNCHANGED vars
  BY <1>10 DEF vars, daemonVars
<1>11. "stop" \in Op
  BY DEF Op
<1> QED
  BY <1>1, <1>2, <1>3, <1>4, <1>5, <1>6, <1>7, <1>8, <1>9, <1>10, <1>11
     DEF Next, ClientStep, DaemonStep

\* A row changes by a reconciliation, which closes it if it is open, or by a
\* step of its own daemon, which is not dead; none of them opens a closed one.
LEMMA RowFrame ==
    ASSUME Types, [Next]_vars, NEW p \in Pid, ProcessInv(p)
    PROVE  /\ row[p] = "closed" => row'[p] = "closed"
           /\ phase[p] = "dead" => row'[p] \in {row[p], "closed"}
<1> USE DEF Types
<1>1. ASSUME NEW q \in Pid, Reconcile(q) PROVE row'[p] \in {row[p], "closed"}
  BY <1>1 DEF Reconcile
<1>2. ASSUME NEW q \in Pid, StartInserts(q) \/ StartRegisters(q) \/ MarkSessionRunning(q) \/ FinishSession(q)
      PROVE  /\ row[p] = "closed" => row'[p] = "closed"
             /\ phase[p] = "dead" => row'[p] = row[p]
  BY <1>2 DEF StartInserts, StartRegisters, MarkSessionRunning, FinishSession, Answers, ProcessInv
<1>3. ASSUME NEW q \in Pid,
             OpenStore(q) \/ Listen(q) \/ Publish(q) \/ Exit(q) \/ Crash(q)
      PROVE  row' = row
  BY <1>3 DEF OpenStore, Listen, Publish, Exit, Crash
<1>4. ASSUME NEW c \in Client, NEW op \in Op,
             \/ Begin(c, op) \/ ReadFile(c) \/ Probe(c) \/ ProbeTimesOut(c) \/ Lock(c)
             \/ LockTimesOut(c) \/ Spawn(c) \/ AwaitDaemonPort(c)
             \/ RequestDaemonShutdown(c) \/ WaitForProcessExit(c) \/ Kill(c) \/ Remove(c)
      PROVE  row' = row
  BY <1>4 DEF Begin, ReadFile, Probe, ProbeTimesOut, Lock, LockTimesOut, Spawn, AwaitDaemonPort,
              RequestDaemonShutdown, WaitForProcessExit, Kill, Remove, daemonVars
<1>5. CASE UNCHANGED vars
  BY <1>5 DEF vars, daemonVars
<1>6. "stop" \in Op
  BY DEF Op
<1> QED
  BY <1>1, <1>2, <1>3, <1>4, <1>5, <1>6 DEF Next, ClientStep, DaemonStep

LEMMA GoneStep ==
    ASSUME Types, GoneInv, [Next]_vars, \A p \in Pid : ProcessInv(p)
    PROVE  GoneInv'
<1>1. \A q \in Pid : phase[q] = "dead" => phase'[q] = "dead" /\ row'[q] \in {row[q], "closed"}
  BY ProcessFrame, RowFrame
<1>2. ASSUME NEW p \in Pid, Reconcile(p) PROVE GoneInv'
  <2>1. \A q \in Pid : row'[q] \notin Open
    BY <1>2 DEF Reconcile, Types, Open
  <2>2. \A r, q \in Pid : q \in gone'[r] => phase[q] = "dead"
    BY <1>2 DEF Reconcile, Types, GoneInv
  <2> QED
    BY <1>1, <2>1, <2>2 DEF GoneInv
<1>3. CASE gone' = gone
  BY <1>1, <1>3 DEF GoneInv, Open
<1>4. ASSUME NEW c \in Client, ClientStep(c) \/ ProbeTimesOut(c) PROVE gone' = gone
  BY <1>4 DEF ClientStep, ReadFile, Probe, ProbeTimesOut, Lock, LockTimesOut, Spawn,
              AwaitDaemonPort, RequestDaemonShutdown, WaitForProcessExit, Kill, Remove, daemonVars
<1>5. ASSUME NEW c \in Client, NEW op \in Op, Begin(c, op) PROVE gone' = gone
  BY <1>5 DEF Begin, daemonVars
<1>6. ASSUME NEW p \in Pid, DaemonStep(p), ~Reconcile(p) PROVE gone' = gone
  BY <1>6 DEF DaemonStep, OpenStore, Listen, Publish, StartInserts, StartRegisters,
              MarkSessionRunning, FinishSession, Exit, Crash
<1>7. CASE UNCHANGED vars
  BY <1>3, <1>7 DEF vars, daemonVars
<1> QED
  BY <1>2, <1>3, <1>4, <1>5, <1>6, <1>7 DEF Next

----------------------------------------------------------------------------
(* The commands *)

\* What is left of a command that has reported, and of one whose probe failed.
LEMMA ToldFields ==
    ASSUME NEW k \in Command, NEW code \in Code
    PROVE  /\ Told(k, code).at = "idle" /\ Told(k, code).told = code
           /\ Told(k, code).op = "none" /\ Told(k, code).stage = "none"
           /\ Told(k, code).tries = 0 /\ Told(k, code).reach = None
           /\ Told(k, code).saw =
                 IF code \in {"STARTED", "STOPPED"} THEN k.saw ELSE None
BY DEF Told, Idle

LEMMA MissedFields ==
    ASSUME NEW k \in Command, k.tries < Probes
    PROVE  \/ Missed(k) = Told(k, "DAEMON_DOWN")
           \/ /\ Missed(k).op = k.op /\ Missed(k).stage = k.stage /\ Missed(k).saw = None
              /\ Missed(k).reach = k.reach /\ Missed(k).told = k.told
              /\ Missed(k).tries < Probes
              /\ \/ k.stage = "first" /\ Missed(k).at = "lock"
                 \/ k.stage = "locked" /\ Missed(k).at = "spawn"
                 \/ k.stage = "wait" /\ Missed(k).at = "read"
<1>1. CASE k.stage = "first"
  BY <1>1 DEF Missed, Command
<1>2. CASE k.stage = "locked"
  BY <1>2 DEF Missed, Command
<1>3. CASE k.stage = "wait" /\ k.tries + 1 < Probes
  <2>1. Missed(k) = [k EXCEPT !.at = "read", !.saw = None, !.tries = k.tries + 1]
    BY <1>3 DEF Missed, Command
  <2> QED
    BY <1>3, <2>1 DEF Command
<1>4. CASE /\ k.stage # "first" /\ k.stage # "locked"
           /\ ~(k.stage = "wait" /\ k.tries + 1 < Probes)
  BY <1>4 DEF Missed
<1> QED
  BY <1>1, <1>2, <1>3, <1>4

\* What a command knows is not undone by a step of anybody else.
LEMMA OtherCommand ==
    ASSUME Types, [Next]_vars, NEW d \in Client, CommandInv(d),
           cl'[d] = cl[d], lock' = d => lock = d
    PROVE  CommandInv(d)'
<1>1. \A p \in Pid : /\ phase[p] # "unborn" => phase'[p] # "unborn"
                     /\ Published(p) => Published(p)'
                     /\ phase[p] = "dead" => phase'[p] = "dead"
  BY ProcessFrame
<1>2. \A p \in Pid : Published(p) /\ file' = p => file = p \/ p = None
  BY FileFrame DEF Published
<1>3. cl[d].saw \in Pid \cup {None} /\ cl[d].reach \in Pid \cup {None}
  BY DEF Types, Command
<1> QED
  BY <1>1, <1>2, <1>3 DEF CommandInv

\* A step is of at most one command.
LEMMA CommandFrame ==
    ASSUME Types, [Next]_vars
    PROVE  \/ cl' = cl /\ lock' = lock
           \/ \E c \in Client :
                /\ ClientStep(c) \/ ProbeTimesOut(c) \/ \E op \in Op : Begin(c, op)
                /\ \A d \in Client \ {c} : cl'[d] = cl[d] /\ (lock' = d => lock = d)
<1> USE DEF Types
<1>1. ASSUME NEW c \in Client, ReadFile(c), NEW d \in Client \ {c}
      PROVE  cl'[d] = cl[d] /\ (lock' = d => lock = d)
  BY <1>1 DEF ReadFile, Tell
<1>2. ASSUME NEW c \in Client, Probe(c) \/ ProbeTimesOut(c), NEW d \in Client \ {c}
      PROVE  cl'[d] = cl[d] /\ (lock' = d => lock = d)
  BY <1>2, Constants DEF Probe, ProbeTimesOut, Reached, Tell, Stage, Unlock
<1>3. ASSUME NEW c \in Client, Lock(c) \/ LockTimesOut(c), NEW d \in Client \ {c}
      PROVE  cl'[d] = cl[d] /\ (lock' = d => lock = d)
  BY <1>3 DEF Lock, LockTimesOut, Stage
<1>4. ASSUME NEW c \in Client, Spawn(c), NEW d \in Client \ {c}
      PROVE  cl'[d] = cl[d] /\ (lock' = d => lock = d)
  BY <1>4, Constants DEF Spawn, Tell, Stage, Unlock
<1>5. ASSUME NEW c \in Client, RequestDaemonShutdown(c), NEW d \in Client \ {c}
      PROVE  cl'[d] = cl[d] /\ (lock' = d => lock = d)
  BY <1>5 DEF RequestDaemonShutdown, Goto
<1>6. ASSUME NEW c \in Client, NEW d \in Client \ {c},
             AwaitDaemonPort(c) \/ WaitForProcessExit(c) \/ Kill(c) \/ Remove(c)
      PROVE  cl'[d] = cl[d] /\ (lock' = d => lock = d)
  BY <1>6 DEF AwaitDaemonPort, WaitForProcessExit, Kill, Remove, Tell, Goto
<1>7. ASSUME NEW c \in Client, NEW op \in Op, Begin(c, op), NEW d \in Client \ {c}
      PROVE  cl'[d] = cl[d] /\ (lock' = d => lock = d)
  BY <1>7 DEF Begin
<1>8. ASSUME NEW p \in Pid, DaemonStep(p) PROVE cl' = cl /\ lock' = lock
  BY <1>8 DEF DaemonStep, OpenStore, Reconcile, Listen, Publish, StartInserts, StartRegisters,
              MarkSessionRunning, FinishSession, Exit, Crash
<1>9. CASE UNCHANGED vars
  BY <1>9 DEF vars
<1> QED
  BY <1>1, <1>2, <1>3, <1>4, <1>5, <1>6, <1>7, <1>8, <1>9 DEF Next, ClientStep

\* A report ends a command, and is true if what it says is.
LEMMA TellStep ==
    ASSUME Types, NEW c \in Client, NEW code \in Code, cl' = Tell(c, code),
           lock' # c,
           code = "STARTED" =>
               cl[c].saw # None /\ phase'[cl[c].saw] \in {"serving", "stopping", "dead"},
           code = "STOPPED" => cl[c].saw # None /\ phase'[cl[c].saw] = "dead"
    PROVE  CommandInv(c)'
<1>1. cl'[c] = Told(cl[c], code) /\ cl[c] \in Command
  BY DEF Tell, Types
<1>2. CASE code \in {"STARTED", "STOPPED"}
  BY <1>1, <1>2, ToldFields, Constants DEF CommandInv, Published
<1>3. CASE code \notin {"STARTED", "STOPPED"}
  BY <1>1, <1>3, ToldFields, Constants DEF CommandInv
<1> QED
  BY <1>2, <1>3

LEMMA OwnCommand ==
    ASSUME Types, FileInv, [Next]_vars, NEW c \in Client, CommandInv(c),
           ClientStep(c) \/ ProbeTimesOut(c) \/ \E op \in Op : Begin(c, op)
    PROVE  CommandInv(c)'
<1> USE DEF Types
<1>1. \A p \in Pid : /\ phase[p] # "unborn" => phase'[p] # "unborn"
                     /\ Published(p) => Published(p)'
                     /\ phase[p] = "dead" => phase'[p] = "dead"
  BY ProcessFrame
<1>2. cl[c] \in Command /\ cl[c].saw \in Pid \cup {None} /\ cl[c].reach \in Pid \cup {None}
  BY DEF Command
<1>3. ASSUME NEW op \in Op, Begin(c, op) PROVE CommandInv(c)'
  BY <1>3, Constants DEF Begin, Idle, CommandInv, Op
<1>4. CASE ReadFile(c)
  <2>1. CASE file # None
    BY <1>1, <1>2, <1>4, <2>1 DEF ReadFile, CommandInv, FileInv, Published, daemonVars
  <2>2. CASE file = None /\ cl[c].op = "stop"
    BY <1>2, <1>4, <2>2, TellStep DEF ReadFile, CommandInv, Code
  <2>3. CASE file = None /\ cl[c].op # "stop"
    BY <1>2, <1>4, <2>3 DEF ReadFile, CommandInv, Published, daemonVars
  <2> QED
    BY <2>1, <2>2, <2>3
<1>5. CASE Probe(c)
  <2>1. CASE Answers(cl[c].saw) /\ cl[c].stage = "locked"
    <3>1. cl' = Stage(c, "again") /\ lock' # c /\ phase' = phase
      BY <1>5, <2>1, Constants DEF Probe, Reached, Unlock, daemonVars
    <3> QED
      BY <1>2, <2>1, <3>1 DEF Stage, CommandInv, Published, Command
  <2>2. CASE Answers(cl[c].saw) /\ cl[c].stage # "locked"
    BY <1>2, <1>5, <2>2, TellStep DEF Probe, Reached, CommandInv, Code
  <2>3. CASE ~Answers(cl[c].saw) /\ Missed(cl[c]) = Told(cl[c], "DAEMON_DOWN")
    <3>1. cl' = Tell(c, "DAEMON_DOWN") /\ lock' = lock
      BY <1>5, <2>3 DEF Probe, Tell
    <3>2. lock # c
      <4>1. CASE cl[c].stage = "locked"
        <5>1. Missed(cl[c]) = [cl[c] EXCEPT !.at = "spawn", !.saw = None]
          BY <4>1 DEF Missed
        <5>2. Missed(cl[c]).at = "spawn"
          BY <1>2, <5>1 DEF Command
        <5>3. Told(cl[c], "DAEMON_DOWN").at = "idle"
          BY <1>2, ToldFields DEF Code
        <5> QED
          BY <2>3, <5>2, <5>3
      <4>2. CASE cl[c].stage # "locked"
        BY <4>2 DEF CommandInv
      <4> QED
        BY <4>1, <4>2
    <3> QED
      BY <3>1, <3>2, TellStep DEF Code
  <2>4. CASE ~Answers(cl[c].saw) /\ Missed(cl[c]) # Told(cl[c], "DAEMON_DOWN")
    BY <1>2, <1>5, <2>4, MissedFields
       DEF Probe, Answers, CommandInv, Published, daemonVars
  <2> QED
    BY <2>1, <2>2, <2>3, <2>4
<1>6. CASE ProbeTimesOut(c)
  <2>1. cl'[c] = [Missed(cl[c]) EXCEPT !.reach = None] /\ lock' = lock /\ phase' = phase
    BY <1>6 DEF ProbeTimesOut, daemonVars
  <2>2. Missed(cl[c]) \in Command
    BY <1>2, CommandStep DEF Code
  <2>3. CASE Missed(cl[c]) = Told(cl[c], "DAEMON_DOWN")
    <3>1. lock # c
      <4>1. CASE cl[c].stage = "locked"
        <5>1. Missed(cl[c]) = [cl[c] EXCEPT !.at = "spawn", !.saw = None]
          BY <4>1 DEF Missed
        <5>2. Missed(cl[c]).at = "spawn"
          BY <1>2, <5>1 DEF Command
        <5>3. Told(cl[c], "DAEMON_DOWN").at = "idle"
          BY <1>2, ToldFields DEF Code
        <5> QED
          BY <2>3, <5>2, <5>3
      <4>2. CASE cl[c].stage # "locked"
        BY <4>2 DEF CommandInv
      <4> QED
        BY <4>1, <4>2
    <3>2. /\ cl'[c].at = "idle" /\ cl'[c].told = "DAEMON_DOWN" /\ cl'[c].op = "none"
          /\ cl'[c].tries = 0 /\ cl'[c].reach = None /\ cl'[c].saw = None
      BY <1>2, <2>1, <2>2, <2>3, ToldFields DEF Code, Command
    <3> QED
      BY <2>1, <3>1, <3>2, Constants DEF CommandInv
  <2>4. CASE Missed(cl[c]) # Told(cl[c], "DAEMON_DOWN")
    <3>1. /\ cl'[c].at = Missed(cl[c]).at /\ cl'[c].stage = Missed(cl[c]).stage
          /\ cl'[c].op = Missed(cl[c]).op /\ cl'[c].saw = Missed(cl[c]).saw
          /\ cl'[c].tries = Missed(cl[c]).tries /\ cl'[c].told = Missed(cl[c]).told
          /\ cl'[c].reach = None
      BY <2>1, <2>2 DEF Command
    <3> QED
      BY <1>2, <1>6, <2>1, <2>4, <3>1, MissedFields
         DEF ProbeTimesOut, Answers, CommandInv, Published
  <2> QED
    BY <2>3, <2>4
<1>7. CASE Lock(c)
  <2>1. /\ cl'[c].at = "read" /\ cl'[c].stage = "locked" /\ cl'[c].op = cl[c].op
        /\ cl'[c].saw = None /\ cl'[c].tries = cl[c].tries /\ cl'[c].told = cl[c].told
        /\ cl'[c].reach = IF Answers(file) THEN file ELSE None
        /\ cl[c].at = "lock" /\ phase' = phase
    BY <1>2, <1>7 DEF Lock, Stage, Command, daemonVars
  <2>2. cl'[c].reach # None => phase'[cl'[c].reach] \in {"serving", "stopping", "dead"}
    <3>1. CASE Answers(file)
      BY <2>1, <3>1 DEF Answers
    <3>2. CASE ~Answers(file)
      BY <2>1, <3>2
    <3> QED
      BY <3>1, <3>2
  <2> QED
    BY <1>2, <2>1, <2>2 DEF CommandInv, Published
<1>8. CASE LockTimesOut(c)
  <2>1. /\ cl'[c].at = "read" /\ cl'[c].stage = "locked" /\ cl'[c].op = cl[c].op
        /\ cl'[c].saw = None /\ cl'[c].tries = cl[c].tries /\ cl'[c].told = cl[c].told
        /\ cl'[c].reach = None
        /\ cl[c].at = "lock" /\ phase' = phase
    BY <1>2, <1>8 DEF LockTimesOut, Stage, Command, daemonVars
  <2> QED
    BY <1>2, <2>1 DEF CommandInv, Published
<1>9. CASE Spawn(c)
  <2>1. lock' # c
    BY <1>9, Constants DEF Spawn, Unlock
  <2>2. CASE \E p \in Pid : phase[p] = "unborn"
    <3>1. PICK p \in Pid :
            /\ phase'[p] = "starting" /\ cl[c].at = "spawn"
            /\ cl' = IF cl[c].op = "start" THEN [cl EXCEPT ![c].at = "await", ![c].saw = p]
                                            ELSE Stage(c, "wait")
      BY <1>9, <2>2 DEF Spawn, Enter
    <3>2. CASE cl[c].op = "start"
      <4>1. /\ cl'[c].at = "await" /\ cl'[c].saw = p /\ cl'[c].op = cl[c].op
            /\ cl'[c].stage = cl[c].stage /\ cl'[c].tries = cl[c].tries
            /\ cl'[c].told = cl[c].told /\ cl'[c].reach = cl[c].reach
        BY <1>2, <3>1, <3>2 DEF Command
      <4>2. p # None
        BY DEF Pid, None
      <4> QED
        BY <1>1, <1>2, <2>1, <3>1, <3>2, <4>1, <4>2
           DEF CommandInv, Published
    <3>3. CASE cl[c].op # "start"
      <4>1. /\ cl'[c].at = "read" /\ cl'[c].saw = None /\ cl'[c].op = cl[c].op
            /\ cl'[c].stage = "wait" /\ cl'[c].tries = cl[c].tries
            /\ cl'[c].told = cl[c].told /\ cl'[c].reach = None
        BY <1>2, <3>1, <3>3 DEF Stage, Command
      <4> QED
        BY <1>1, <1>2, <2>1, <3>1, <3>3, <4>1 DEF CommandInv, Published
    <3> QED
      BY <3>2, <3>3
  <2>3. CASE ~\E p \in Pid : phase[p] = "unborn"
    <3>1. PICK code \in {"DAEMON_ERROR", "DAEMON_DOWN"} : cl' = Tell(c, code)
      BY <1>9, <2>3 DEF Spawn
    <3> QED
      BY <2>1, <3>1, TellStep DEF Code
  <2> QED
    BY <2>2, <2>3
<1>10. CASE AwaitDaemonPort(c)
  <2>1. lock' = lock /\ phase' = phase /\ lock # c /\ cl[c].saw # None
    BY <1>10 DEF AwaitDaemonPort, CommandInv, daemonVars
  <2>2. CASE file = cl[c].saw
    <3>1. cl' = Tell(c, "STARTED")
      BY <1>10, <2>2 DEF AwaitDaemonPort
    <3>2. phase'[cl[c].saw] \in {"serving", "stopping", "dead"}
      BY <2>1, <2>2 DEF FileInv, Published
    <3> QED
      BY <2>1, <3>1, <3>2, TellStep DEF Code
  <2>3. CASE file # cl[c].saw
    <3>1. cl' = Tell(c, "DAEMON_ERROR")
      BY <1>10, <2>3 DEF AwaitDaemonPort
    <3> QED
      BY <2>1, <3>1, TellStep DEF Code
  <2> QED
    BY <2>2, <2>3
<1>11. CASE RequestDaemonShutdown(c)
  <2>1. PICK a \in {"wait", "kill"} : cl' = Goto(c, a)
    BY <1>11 DEF RequestDaemonShutdown
  <2>2. /\ cl'[c].at = a /\ cl'[c].saw = cl[c].saw /\ cl'[c].op = cl[c].op
        /\ cl'[c].stage = cl[c].stage /\ cl'[c].tries = cl[c].tries
        /\ cl'[c].told = cl[c].told /\ cl'[c].reach = cl[c].reach
    BY <1>2, <2>1 DEF Goto, Command
  <2> QED
    BY <1>1, <1>2, <1>11, <2>2 DEF RequestDaemonShutdown, CommandInv
<1>12. CASE WaitForProcessExit(c)
  BY <1>1, <1>2, <1>12
     DEF WaitForProcessExit, Goto, Alive, Starting, Phase, CommandInv, Published, daemonVars
<1>13. CASE Kill(c)
  <2>1. lock' = lock /\ lock # c /\ cl[c].saw # None /\ cl[c].at = "kill"
    BY <1>13 DEF Kill, CommandInv
  <2>2. CASE Alive(cl[c].saw)
    <3>1. /\ cl'[c].at = "remove" /\ cl'[c].saw = cl[c].saw /\ cl'[c].op = cl[c].op
          /\ cl'[c].stage = cl[c].stage /\ cl'[c].tries = cl[c].tries
          /\ cl'[c].told = cl[c].told /\ cl'[c].reach = cl[c].reach
      BY <1>2, <1>13, <2>2 DEF Kill, Goto, Command
    <3>2. phase'[cl[c].saw] = "dead"
      BY <1>2, <1>13, <2>1, <2>2 DEF Kill, Enter
    <3> QED
      BY <1>1, <1>2, <2>1, <3>1, <3>2 DEF CommandInv, Published
  <2>3. CASE ~Alive(cl[c].saw)
    <3>1. cl' = Tell(c, "DAEMON_DOWN")
      BY <1>13, <2>3 DEF Kill
    <3> QED
      BY <2>1, <3>1, TellStep DEF Code
  <2> QED
    BY <2>2, <2>3
<1>14. CASE Remove(c)
  BY <1>2, <1>14, TellStep DEF Remove, CommandInv, Code, daemonVars
<1> QED
  BY <1>3, <1>4, <1>5, <1>6, <1>7, <1>8, <1>9, <1>10, <1>11, <1>12, <1>13, <1>14 DEF ClientStep

LEMMA CommandInvStep ==
    ASSUME Types, FileInv, [Next]_vars, \A c \in Client : CommandInv(c)
    PROVE  \A c \in Client : CommandInv(c)'
<1>1. CASE cl' = cl /\ lock' = lock
  BY <1>1, OtherCommand
<1>2. CASE ~(cl' = cl /\ lock' = lock)
  <2>1. PICK c \in Client :
          /\ ClientStep(c) \/ ProbeTimesOut(c) \/ \E op \in Op : Begin(c, op)
          /\ \A d \in Client \ {c} : cl'[d] = cl[d] /\ (lock' = d => lock = d)
    BY <1>2, CommandFrame
  <2>2. CommandInv(c)'
    BY <2>1, OwnCommand
  <2>3. \A d \in Client \ {c} : CommandInv(d)'
    BY <2>1, OtherCommand
  <2> QED
    BY <2>2, <2>3
<1> QED
  BY <1>1, <1>2

----------------------------------------------------------------------------
(* The inductive invariant *)

LEMMA InitIInv == Init => IInv
<1> SUFFICES ASSUME Init PROVE IInv
  OBVIOUS
<1>1. Types
  BY CommandStep DEF Init, Types, Idle, Command, At, StageOf, Phase
<1>2. FileInv /\ GoneInv
  BY DEF Init, FileInv, GoneInv
<1>3. ASSUME NEW c \in Client PROVE CommandInv(c)
  BY Constants DEF Init, Idle, CommandInv
<1>4. ASSUME NEW p \in Pid PROVE ProcessInv(p)
  BY DEF Init, ProcessInv
<1> QED
  BY <1>1, <1>2, <1>3, <1>4 DEF IInv

LEMMA NextIInv == IInv /\ [Next]_vars => IInv'
<1> SUFFICES ASSUME IInv, [Next]_vars PROVE IInv'
  OBVIOUS
<1>1. /\ Types /\ FileInv /\ GoneInv
      /\ \A c \in Client : CommandInv(c)
      /\ \A p \in Pid : ProcessInv(p)
  BY DEF IInv
<1>2. Types'
  BY <1>1, TypesStep
<1>3. FileInv' /\ GoneInv'
  BY <1>1, <1>2, FileStep, GoneStep
<1>4. \A c \in Client : CommandInv(c)'
  BY <1>1, CommandInvStep
<1>5. \A p \in Pid : ProcessInv(p)'
  BY <1>1, <1>2, ProcessStep
<1> QED
  BY <1>2, <1>3, <1>4, <1>5 DEF IInv

LEMMA Invariance == Spec => []IInv
<1>1. Init => IInv
  BY InitIInv
<1>2. IInv /\ [Next]_vars => IInv'
  BY NextIInv
<1> QED
  BY <1>1, <1>2, PTL DEF Spec

----------------------------------------------------------------------------
(* What follows from it *)

\* The lock is held by a command between taking it and the end of its recheck,
\* and daemon.json never names a daemon that does not listen yet, however many
\* commands and daemons there are.
THEOREM TypeCorrect == Spec => []TypeOK
<1>1. IInv => TypeOK
  <2> SUFFICES ASSUME IInv PROVE TypeOK
    OBVIOUS
  <2>1. ASSUME NEW c \in Client
        PROVE  /\ cl[c].saw \in Pid \cup {None} /\ cl[c].tries < Probes
               /\ cl[c].at \in {"ask", "await", "wait", "kill", "remove"} => cl[c].saw \in Pid
               /\ lock = c => /\ cl[c].stage = "locked"
                              /\ cl[c].at \in {"read", "probe", "spawn"}
    BY DEF IInv, Types, Command, CommandInv
  <2>2. ASSUME NEW p \in Pid
        PROVE  /\ (phase[p] = "dead") = (ended[p] # "none")
               /\ file = p => phase[p] \in {"serving", "stopping", "dead"}
    <3>1. p # None
      BY DEF Pid, None
    <3> QED
      BY <3>1 DEF IInv, ProcessInv, FileInv, Published
  <2> QED
    BY <2>1, <2>2 DEF TypeOK, IInv, Types
<1> QED
  BY <1>1, Invariance, PTL

\* Nobody who waited for the lock spawns a daemon while the one he could have
\* found when he got it can be found still.
THEOREM SpawnStaysRechecked == Spec => []SpawnIsRechecked
<1>1. IInv => SpawnIsRechecked
  BY DEF IInv, CommandInv, SpawnIsRechecked, Answers
<1> QED
  BY <1>1, Invariance, PTL

\* What a command reports of a daemon was so and stays so; a row that is open
\* after a clean end is one that was never registered.
THEOREM ToldStaysTrue == Spec => []ToldIsTrue
<1>1. ASSUME IInv PROVE ToldIsTrue
  <2>1. ASSUME NEW p \in Pid, ended[p] = "clean", row[p] \in Open
        PROVE  agent[p] = "inserted"
    BY <1>1, <2>1 DEF IInv, ProcessInv, Open
  <2>2. ASSUME NEW c \in Client
        PROVE  /\ cl[c].told = "STARTED" => Published(cl[c].saw)
               /\ cl[c].told = "STOPPED" =>
                    /\ phase[cl[c].saw] = "dead"
                    /\ ended[cl[c].saw] = "clean" /\ row[cl[c].saw] \in Open =>
                         agent[cl[c].saw] = "inserted"
    <3>1. CommandInv(c) /\ cl[c].saw \in Pid \cup {None}
      BY <1>1 DEF IInv, Types, Command
    <3> QED
      BY <2>1, <3>1 DEF CommandInv
  <2> QED
    BY <2>2, Zenon DEF ToldIsTrue, Published, Open
<1> QED
  BY <1>1, Invariance, PTL

\* A daemon that has reconciled leaves no row open of one that was dead by
\* then, however many have come and gone.
THEOREM NoRowIsOrphaned == Spec => []NoOrphanRow
<1>1. IInv => NoOrphanRow
  BY DEF IInv, GoneInv, NoOrphanRow
<1> QED
  BY <1>1, Invariance, PTL

\* No step of any daemon opens a closed row again.
THEOREM RowsStayClosed == Spec => ClosedStaysClosed
<1>1. IInv /\ [Next]_vars => [\A p \in Pid : row[p] = "closed" => row'[p] \notin Open]_vars
  <2> SUFFICES ASSUME IInv, [Next]_vars, NEW p \in Pid, row[p] = "closed"
               PROVE  row'[p] \notin Open
    OBVIOUS
  <2>1. row'[p] = "closed"
    BY RowFrame DEF IInv
  <2> QED
    BY <2>1 DEF Open
<1> QED
  BY <1>1, Invariance, PTL DEF Spec, ClosedStaysClosed
=============================================================================
