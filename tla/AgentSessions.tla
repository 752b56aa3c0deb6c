--------------------------- MODULE AgentSessions ---------------------------
(* The daemon's session manager (internal/session/manager.go) over the      *)
(* agent_sessions rows it keeps in the store (internal/store/session.go).   *)
(*                                                                          *)
(* A human message that mentions agents makes its HTTP handler call Start,  *)
(* which inserts one row per agent and starts one dispatch goroutine per    *)
(* row.  A goroutine takes a slot of a semaphore, registers itself, runs    *)
(* the agent's command and resolves the reply.  Cancel requests, shutdown   *)
(* requests, a crash of the daemon and its restart interleave with that at  *)
(* every point where the code takes the mutex, calls the store, reads a     *)
(* context or waits.                                                        *)
(*                                                                          *)
(* Abstracted: thread content, prompts, transcripts and exit codes.  How a  *)
(* self-posted reply is recognised is in ReplyResolution; here agentPosted  *)
(* may answer anything.                                                     *)
EXTENDS Integers, FiniteSets

CONSTANTS
    Trigger,                \* human messages that open with mentions
    Agent,                  \* agent names
    Canceler,               \* concurrent POST /v1/sessions/:id/cancel requests
    Stopper,                \* concurrent POST /api/shutdown requests
    MaxConcurrentSessions,  \* capacity of the semaphore
    MaxBoots,               \* bound: times the daemon is started
    StoreMayFail            \* may a store call of the manager return an error?

ASSUME SlotsAssumption == MaxConcurrentSessions \in Nat \ {0}
ASSUME BootsAssumption == MaxBoots \in Nat
ASSUME FaultAssumption == StoreMayFail \in BOOLEAN
ASSUME FiniteAssumption == IsFiniteSet(Trigger \X Agent)

\* agent_sessions is UNIQUE(trigger_message_id, agent_name): a row is its key.
Session == Trigger \X Agent

Open == {"queued", "running"}
Terminal == {"succeeded", "failed", "canceled"}

VARIABLES
    \* the database: survives a crash
    row,        \* agent_sessions.status, "none" before the INSERT
    started,    \* rows whose started_at is set
    posted,     \* sessions postReply appended a message for
    lost,       \* rows whose last terminal write failed and was ignored
    \* the Manager: lost with the process
    queued, running, closed, sem, wg,
    mctx,       \* m.ctx is canceled
    ctx,        \* runs whose own context was canceled through running[id]
    once,       \* shutdownOnce: "no", "busy", "done"
    snapshot,   \* ids the winner of shutdownOnce still has to sweep
    \* where each goroutine stands
    asked,      \* triggers whose Start was called
    left,       \* names Start has not handled yet
    pc,         \* of Start and then dispatch, per session
    cpc, target,
    kpc,
    \* the rest of the machine
    proc,       \* the agent's process group
    up, boots

rowVars == <<row, started, posted, lost>>
slotVars == <<queued, running, sem, wg>>
stopVars == <<closed, mctx, once, snapshot, kpc>>
cancelVars == <<ctx, cpc, target>>
startVars == <<asked, left>>
hostVars == <<up, boots>>
vars == <<rowVars, slotVars, stopVars, cancelVars, startVars, pc, proc, hostVars>>

\* "new" and "abort" are Start's own steps for the row; a status of Terminal is
\* the pc of a run about to call FinishSession with that status.
StartPC == {"new", "abort"}
HoldPC == {"slot", "shut", "mark", "failq", "prompt", "exec", "err", "reply",
           "grace", "post", "append", "link", "unreg", "release"} \cup Terminal
WaitedPC == HoldPC \cup {"wait", "bail", "exit"}
PC == {"none", "done"} \cup StartPC \cup WaitedPC

Init ==
    /\ row = [s \in Session |-> "none"]
    /\ started = {} /\ posted = {} /\ lost = {}
    /\ queued = {} /\ running = {} /\ sem = 0 /\ wg = 0
    /\ closed = FALSE /\ mctx = FALSE /\ once = "no" /\ snapshot = {}
    /\ ctx = {}
    /\ asked = {} /\ left = [t \in Trigger |-> {}]
    /\ pc = [s \in Session |-> "none"]
    /\ cpc = [c \in Canceler |-> "idle"] /\ target = [c \in Canceler |-> {}]
    /\ kpc = [k \in Stopper |-> "idle"]
    /\ proc = [s \in Session |-> "none"]
    /\ up = TRUE /\ boots = 1

Goto(s, at) == pc' = [pc EXCEPT ![s] = at]
CtxDone(s) == mctx \/ s \in ctx

\* FinishSession: an UPDATE by id alone, whatever the row's status is; the
\* manager ignores the error it may return.
FinishSession(s, status) ==
    /\ UNCHANGED <<started, posted>>
    /\ \/ row' = [row EXCEPT ![s] = status] /\ lost' = lost \ {s}
       \/ StoreMayFail /\ row' = row /\ lost' = lost \cup {s}

----------------------------------------------------------------------------
(* Slips that a change to the manager could make.  Nothing below uses these  *)
(* definitions: each stands in for the action its comment names, to show     *)
(* that a property notices.                                                  *)

\* For Acquire: the semaphore's capacity is not looked at.
AcquireUnbounded(s) ==
    /\ pc[s] = "wait"
    /\ sem' = sem + 1
    /\ Goto(s, "slot")
    /\ UNCHANGED <<rowVars, queued, running, wg, stopVars, cancelVars, startVars, proc, hostVars>>

\* For EnterRun: m.closed is not looked at again once a slot is held.
EnterRunWhenClosed(s) ==
    /\ pc[s] = "slot"
    /\ queued' = queued \ {s} /\ running' = running \cup {s}
    /\ Goto(s, "mark")
    /\ UNCHANGED <<rowVars, sem, wg, stopVars, cancelVars, startVars, proc, hostVars>>

\* For EnterRun: the cancel function is never put into m.running.
EnterRunUnregistered(s) ==
    /\ pc[s] = "slot"
    /\ queued' = queued \ {s}
    /\ Goto(s, IF closed THEN "shut" ELSE "mark")
    /\ UNCHANGED <<rowVars, running, sem, wg, stopVars, cancelVars, startVars, proc, hostVars>>

\* For ShutOut: the slot is given back here and again by the deferred call.
ShutOutReturnsSlot(s) ==
    /\ pc[s] = "shut"
    /\ FinishSession(s, "canceled")
    /\ sem' = sem - 1
    /\ Goto(s, "release")
    /\ UNCHANGED <<queued, running, wg, stopVars, cancelVars, startVars, proc, hostVars>>

\* For ShutOut: the early return skips the deferred release of the slot.
ShutOutKeepsSlot(s) ==
    /\ pc[s] = "shut"
    /\ FinishSession(s, "canceled")
    /\ Goto(s, "exit")
    /\ UNCHANGED <<slotVars, stopVars, cancelVars, startVars, proc, hostVars>>

\* For Bail: the early return comes before wg.Done is deferred.
BailWithoutDone(s) ==
    /\ pc[s] = "bail"
    /\ FinishSession(s, "canceled")
    /\ Goto(s, "done")
    /\ UNCHANGED <<slotVars, stopVars, cancelVars, startVars, proc, hostVars>>

\* For MarkSessionRunning: WHERE id = ? alone.
MarkAnyRow(s) ==
    /\ pc[s] = "mark"
    /\ row' = [row EXCEPT ![s] = "running"]
    /\ started' = started \cup {s}
    /\ Goto(s, "prompt")
    /\ UNCHANGED <<posted, lost, slotVars, stopVars, cancelVars, startVars, proc, hostVars>>

\* For MarkSessionRunning: run goes on when the UPDATE changed no row.
MarkErrorIgnored(s) ==
    /\ pc[s] = "mark"
    /\ IF row[s] = "queued"
       THEN row' = [row EXCEPT ![s] = "running"] /\ started' = started \cup {s}
       ELSE UNCHANGED <<row, started>>
    /\ Goto(s, "prompt")
    /\ UNCHANGED <<posted, lost, slotVars, stopVars, cancelVars, startVars, proc, hostVars>>

\* For FailIfStillQueued: any error of MarkSessionRunning ends the run quietly.
NeverFailQueued(s) ==
    /\ pc[s] = "failq"
    /\ Goto(s, "unreg")
    /\ UNCHANGED <<rowVars, slotVars, stopVars, cancelVars, startVars, proc, hostVars>>

\* For RunFailed: every error of the runner is a failure of the agent.
RunFailedAlwaysFails(s) ==
    /\ pc[s] = "err"
    /\ Goto(s, "failed")
    /\ UNCHANGED <<rowVars, slotVars, stopVars, cancelVars, startVars, proc, hostVars>>

\* For PostReply: the context is not read again after the grace period.
PostReplyUnchecked(s) ==
    /\ pc[s] = "post"
    /\ \E at \in {"append", "succeeded"} : Goto(s, at)
    /\ UNCHANGED <<rowVars, slotVars, stopVars, cancelVars, startVars, proc, hostVars>>

\* For Release: the slot is not given back.
ReleaseNothing(s) ==
    /\ pc[s] = "release"
    /\ Goto(s, "exit")
    /\ UNCHANGED <<rowVars, slotVars, stopVars, cancelVars, startVars, proc, hostVars>>

\* For ShutdownJoins: a caller that did not win shutdownOnce does not wait.
JoinWithoutWait(k) ==
    /\ up /\ kpc[k] = "idle" /\ once = "done"
    /\ kpc' = [kpc EXCEPT ![k] = "returned"]
    /\ UNCHANGED <<rowVars, slotVars, closed, mctx, once, snapshot, cancelVars, startVars, pc, proc, hostVars>>

----------------------------------------------------------------------------
(* Start, in the goroutine of the message's HTTP handler. *)

\* The names in any order stand for the message's own.
Start(t) ==
    /\ up /\ t \notin asked
    /\ asked' = asked \cup {t}
    /\ \E names \in SUBSET Agent : left' = [left EXCEPT ![t] = names]
    /\ UNCHANGED <<rowVars, slotVars, stopVars, cancelVars, pc, proc, hostVars>>

Ready(t, a) == a \in left[t] /\ \A b \in Agent : pc[<<t, b>>] \notin StartPC

\* The name resolves to no entry, or CreateSession returns an error.
SkipName(t, a) ==
    /\ Ready(t, a)
    /\ left' = [left EXCEPT ![t] = @ \ {a}]
    /\ UNCHANGED <<rowVars, slotVars, stopVars, cancelVars, asked, pc, proc, hostVars>>

CreateSession(t, a) ==
    /\ Ready(t, a) /\ row[<<t, a>>] = "none"
    /\ row' = [row EXCEPT ![<<t, a>>] = "queued"]
    /\ left' = [left EXCEPT ![t] = @ \ {a}]
    /\ Goto(<<t, a>>, "new")
    /\ UNCHANGED <<started, posted, lost, slotVars, stopVars, cancelVars, asked, proc, hostVars>>

Register(s) ==
    /\ pc[s] = "new"
    /\ IF closed
       THEN Goto(s, "abort") /\ UNCHANGED <<queued, wg>>
       ELSE Goto(s, "wait") /\ queued' = queued \cup {s} /\ wg' = wg + 1
    /\ UNCHANGED <<rowVars, running, sem, stopVars, cancelVars, startVars, proc, hostVars>>

AbortStart(s) ==
    /\ pc[s] = "abort"
    /\ FinishSession(s, "canceled")
    /\ Goto(s, "done")
    /\ UNCHANGED <<slotVars, stopVars, cancelVars, startVars, proc, hostVars>>

----------------------------------------------------------------------------
(* dispatch: the session's goroutine. *)

Acquire(s) ==
    /\ pc[s] = "wait" /\ sem < MaxConcurrentSessions
    /\ sem' = sem + 1
    /\ Goto(s, "slot")
    /\ UNCHANGED <<rowVars, queued, running, wg, stopVars, cancelVars, startVars, proc, hostVars>>

\* The other case of the select: m.ctx is done; dropQueued, then FinishSession.
GiveUp(s) ==
    /\ pc[s] = "wait" /\ mctx
    /\ queued' = queued \ {s}
    /\ Goto(s, "bail")
    /\ UNCHANGED <<rowVars, running, sem, wg, stopVars, cancelVars, startVars, proc, hostVars>>

Bail(s) ==
    /\ pc[s] = "bail"
    /\ FinishSession(s, "canceled")
    /\ Goto(s, "exit")
    /\ UNCHANGED <<slotVars, stopVars, cancelVars, startVars, proc, hostVars>>

EnterRun(s) ==
    /\ pc[s] = "slot"
    /\ queued' = queued \ {s}
    /\ IF closed
       THEN Goto(s, "shut") /\ UNCHANGED running
       ELSE Goto(s, "mark") /\ running' = running \cup {s}
    /\ UNCHANGED <<rowVars, sem, wg, stopVars, cancelVars, startVars, proc, hostVars>>

ShutOut(s) ==
    /\ pc[s] = "shut"
    /\ FinishSession(s, "canceled")
    /\ Goto(s, "release")
    /\ UNCHANGED <<slotVars, stopVars, cancelVars, startVars, proc, hostVars>>

\* The deferred cancel of the run's context and delete from m.running.
Unregister(s) ==
    /\ pc[s] = "unreg"
    /\ ctx' = ctx \cup {s} /\ running' = running \ {s}
    /\ Goto(s, "release")
    /\ UNCHANGED <<rowVars, queued, sem, wg, stopVars, cpc, target, startVars, proc, hostVars>>

Release(s) ==
    /\ pc[s] = "release"
    /\ sem' = sem - 1
    /\ Goto(s, "exit")
    /\ UNCHANGED <<rowVars, queued, running, wg, stopVars, cancelVars, startVars, proc, hostVars>>

WgDone(s) ==
    /\ pc[s] = "exit"
    /\ wg' = wg - 1
    /\ Goto(s, "done")
    /\ UNCHANGED <<rowVars, queued, running, sem, stopVars, cancelVars, startVars, proc, hostVars>>

----------------------------------------------------------------------------
(* run: the session proper. *)

\* The UPDATE asks for status = 'queued'; no such row is an error like any other.
MarkSessionRunning(s) ==
    /\ pc[s] = "mark"
    /\ \/ /\ row[s] = "queued"
          /\ row' = [row EXCEPT ![s] = "running"]
          /\ started' = started \cup {s}
          /\ Goto(s, "prompt")
       \/ /\ row[s] # "queued" \/ StoreMayFail
          /\ Goto(s, "failq")
          /\ UNCHANGED <<row, started>>
    /\ UNCHANGED <<posted, lost, slotVars, stopVars, cancelVars, startVars, proc, hostVars>>

FailIfStillQueued(s) ==
    /\ pc[s] = "failq"
    /\ \/ row[s] # "queued" /\ Goto(s, "unreg")
       \/ (row[s] = "queued" \/ StoreMayFail) /\ Goto(s, "failed")
    /\ UNCHANGED <<rowVars, slotVars, stopVars, cancelVars, startVars, proc, hostVars>>

\* buildPrompt, the prompt event and the runner's cmd.Start.
Spawn(s) ==
    /\ pc[s] = "prompt"
    /\ \/ Goto(s, "failed") /\ UNCHANGED proc      \* no prompt
       \/ Goto(s, "err") /\ UNCHANGED proc         \* spawn failed
       \/ Goto(s, "exec") /\ proc' = [proc EXCEPT ![s] = "live"]
    /\ UNCHANGED <<rowVars, slotVars, stopVars, cancelVars, startVars, hostVars>>

\* The command exits, times out, or is killed because the context is done; the
\* runner kills what is left of the group on each of these paths.
ChildEnds(s) ==
    /\ pc[s] = "exec" /\ proc[s] = "live"
    /\ proc' = [proc EXCEPT ![s] = "gone"]
    /\ UNCHANGED <<rowVars, slotVars, stopVars, cancelVars, startVars, pc, hostVars>>

\* The runner tells a timeout, then a canceled context, from an exit code.
RunReturns(s) ==
    /\ pc[s] = "exec" /\ proc[s] = "gone"
    /\ \/ Goto(s, "err")
       \/ ~CtxDone(s) /\ Goto(s, "reply")
    /\ UNCHANGED <<rowVars, slotVars, stopVars, cancelVars, startVars, proc, hostVars>>

RunFailed(s) ==
    /\ pc[s] = "err"
    /\ Goto(s, IF CtxDone(s) THEN "canceled" ELSE "failed")
    /\ UNCHANGED <<rowVars, slotVars, stopVars, cancelVars, startVars, proc, hostVars>>

\* reply = stdout posts at once; cli and auto first look for the agent's post.
ResolveReply(s) ==
    /\ pc[s] = "reply"
    /\ IF CtxDone(s) THEN Goto(s, "canceled")
                     ELSE \E at \in {"post", "grace"} : Goto(s, at)
    /\ UNCHANGED <<rowVars, slotVars, stopVars, cancelVars, startVars, proc, hostVars>>

\* posted; cli and not posted, or the count failed; auto and not posted.
AgentPosted(s) ==
    /\ pc[s] = "grace"
    /\ IF CtxDone(s) THEN Goto(s, "canceled")
                     ELSE \E at \in {"succeeded", "failed", "post"} : Goto(s, at)
    /\ UNCHANGED <<rowVars, slotVars, stopVars, cancelVars, startVars, proc, hostVars>>

\* An agent that printed nothing succeeds and posts nothing.
PostReply(s) ==
    /\ pc[s] = "post"
    /\ IF CtxDone(s) THEN Goto(s, "canceled")
                     ELSE \E at \in {"append", "succeeded"} : Goto(s, at)
    /\ UNCHANGED <<rowVars, slotVars, stopVars, cancelVars, startVars, proc, hostVars>>

AppendReply(s) ==
    /\ pc[s] = "append"
    /\ \/ posted' = posted \cup {s} /\ Goto(s, "link")
       \/ StoreMayFail /\ posted' = posted /\ Goto(s, "failed")
    /\ UNCHANGED <<row, started, lost, slotVars, stopVars, cancelVars, startVars, proc, hostVars>>

\* MessageIDBySeq and SetSessionReply.
LinkReply(s) ==
    /\ pc[s] = "link"
    /\ Goto(s, "succeeded") \/ (StoreMayFail /\ Goto(s, "failed"))
    /\ UNCHANGED <<rowVars, slotVars, stopVars, cancelVars, startVars, proc, hostVars>>

Finish(s) ==
    /\ pc[s] \in Terminal
    /\ FinishSession(s, pc[s])
    /\ Goto(s, "unreg")
    /\ UNCHANGED <<slotVars, stopVars, cancelVars, startVars, proc, hostVars>>

----------------------------------------------------------------------------
(* Cancel: read the status, then look the run up, then act on what was found. *)

\* No row is ErrNotFound and a final one ErrTerminal: neither changes anything.
CancelReads(c, s) ==
    /\ up /\ cpc[c] = "idle" /\ row[s] \in Open
    /\ cpc' = [cpc EXCEPT ![c] = "lookup"]
    /\ target' = [target EXCEPT ![c] = {s}]
    /\ UNCHANGED <<rowVars, slotVars, stopVars, ctx, startVars, pc, proc, hostVars>>

CancelLooksUp(c) ==
    /\ cpc[c] = "lookup"
    /\ cpc' = [cpc EXCEPT ![c] = IF target[c] \subseteq running THEN "fire" ELSE "write"]
    /\ UNCHANGED <<rowVars, slotVars, stopVars, ctx, target, startVars, pc, proc, hostVars>>

CancelReturns(c) ==
    /\ cpc' = [cpc EXCEPT ![c] = "over"]
    /\ target' = [target EXCEPT ![c] = {}]

CancelFires(c) ==
    /\ cpc[c] = "fire"
    /\ ctx' = ctx \cup target[c]
    /\ CancelReturns(c)
    /\ UNCHANGED <<rowVars, slotVars, stopVars, startVars, pc, proc, hostVars>>

CancelWrites(c) ==
    /\ cpc[c] = "write"
    /\ \E s \in target[c] : FinishSession(s, "canceled")
    /\ CancelReturns(c)
    /\ UNCHANGED <<slotVars, stopVars, ctx, startVars, pc, proc, hostVars>>

----------------------------------------------------------------------------
(* ShutdownAndWait: one caller runs the body of shutdownOnce, the others     *)
(* wait for it in Do; then all of them wait for the WaitGroup.               *)

ShutdownFirst(k) ==
    /\ up /\ kpc[k] = "idle" /\ once = "no"
    /\ once' = "busy" /\ closed' = TRUE
    /\ snapshot' = queued /\ queued' = {}
    /\ kpc' = [kpc EXCEPT ![k] = "cancel"]
    /\ UNCHANGED <<rowVars, running, sem, wg, mctx, cancelVars, startVars, pc, proc, hostVars>>

ShutdownCancels(k) ==
    /\ kpc[k] = "cancel"
    /\ mctx' = TRUE
    /\ kpc' = [kpc EXCEPT ![k] = "sweep"]
    /\ UNCHANGED <<rowVars, slotVars, closed, once, snapshot, cancelVars, startVars, pc, proc, hostVars>>

ShutdownSweeps(k) ==
    /\ kpc[k] = "sweep"
    /\ \E s \in snapshot : /\ FinishSession(s, "canceled")
                           /\ snapshot' = snapshot \ {s}
    /\ UNCHANGED <<slotVars, closed, mctx, once, kpc, cancelVars, startVars, pc, proc, hostVars>>

ShutdownSwept(k) ==
    /\ kpc[k] = "sweep" /\ snapshot = {}
    /\ once' = "done"
    /\ kpc' = [kpc EXCEPT ![k] = "wait"]
    /\ UNCHANGED <<rowVars, slotVars, closed, mctx, snapshot, cancelVars, startVars, pc, proc, hostVars>>

ShutdownJoins(k) ==
    /\ up /\ kpc[k] = "idle" /\ once = "done"
    /\ kpc' = [kpc EXCEPT ![k] = "wait"]
    /\ UNCHANGED <<rowVars, slotVars, closed, mctx, once, snapshot, cancelVars, startVars, pc, proc, hostVars>>

WaitReturns(k) ==
    /\ kpc[k] = "wait" /\ wg = 0
    /\ kpc' = [kpc EXCEPT ![k] = "returned"]
    /\ UNCHANGED <<rowVars, slotVars, closed, mctx, once, snapshot, cancelVars, startVars, pc, proc, hostVars>>

----------------------------------------------------------------------------
(* The process. *)

\* Every goroutine and all of the Manager go; an agent's process group, which
\* the daemon put in a group of its own, does not.
ProcessEnds ==
    /\ up' = FALSE
    /\ queued' = {} /\ running' = {} /\ sem' = 0 /\ wg' = 0
    /\ closed' = FALSE /\ mctx' = FALSE /\ once' = "no" /\ snapshot' = {}
    /\ ctx' = {}
    /\ left' = [t \in Trigger |-> {}]
    /\ pc' = [s \in Session |-> IF pc[s] = "none" THEN "none" ELSE "done"]
    /\ cpc' = [c \in Canceler |-> IF cpc[c] = "idle" THEN "idle" ELSE "over"]
    /\ target' = [c \in Canceler |-> {}]
    /\ kpc' = [k \in Stopper |-> IF kpc[k] = "idle" THEN "idle" ELSE "over"]
    /\ proc' = [s \in Session |-> IF proc[s] = "live" THEN "orphan" ELSE proc[s]]
    /\ UNCHANGED <<rowVars, asked, boots>>

\* ShutdownAndWait has returned: srv.Close, and daemonStart returns.
Exit == up /\ (\E k \in Stopper : kpc[k] = "returned") /\ ProcessEnds

\* A crash is worth modelling while the daemon can be started again.
Crash == up /\ boots < MaxBoots /\ ProcessEnds

OrphanEnds(s) ==
    /\ proc[s] = "orphan"
    /\ proc' = [proc EXCEPT ![s] = "gone"]
    /\ UNCHANGED <<rowVars, slotVars, stopVars, cancelVars, startVars, pc, hostVars>>

\* daemonStart: NewManager and Reconcile, before the listener serves anything.
Boot ==
    /\ ~up /\ boots < MaxBoots
    /\ up' = TRUE /\ boots' = boots + 1
    /\ row' = [s \in Session |-> IF row[s] \in Open THEN "canceled" ELSE row[s]]
    /\ lost' = {}
    /\ UNCHANGED <<started, posted, slotVars, stopVars, cancelVars, startVars, pc, proc>>

----------------------------------------------------------------------------
StartLoop(t) == \E a \in Agent : SkipName(t, a) \/ CreateSession(t, a)

Goroutine(s) ==
    \/ Register(s) \/ AbortStart(s)
    \/ Acquire(s) \/ GiveUp(s) \/ Bail(s) \/ EnterRun(s) \/ ShutOut(s)
    \/ MarkSessionRunning(s) \/ FailIfStillQueued(s) \/ Spawn(s)
    \/ ChildEnds(s) \/ RunReturns(s) \/ RunFailed(s)
    \/ ResolveReply(s) \/ AgentPosted(s) \/ PostReply(s)
    \/ AppendReply(s) \/ LinkReply(s) \/ Finish(s)
    \/ Unregister(s) \/ Release(s) \/ WgDone(s)

Cancel(c) == CancelLooksUp(c) \/ CancelFires(c) \/ CancelWrites(c)

Shutdown(k) ==
    \/ ShutdownCancels(k) \/ ShutdownSweeps(k) \/ ShutdownSwept(k)
    \/ WaitReturns(k)

Next ==
    \/ \E t \in Trigger : Start(t) \/ StartLoop(t)
    \/ \E s \in Session : Goroutine(s) \/ OrphanEnds(s)
    \/ \E c \in Canceler : Cancel(c) \/ \E s \in Session : CancelReads(c, s)
    \/ \E k \in Stopper : ShutdownFirst(k) \/ ShutdownJoins(k) \/ Shutdown(k)
    \/ Exit \/ Crash \/ Boot

\* The Go scheduler runs every goroutine that can run, a channel serves its
\* waiting senders in order, and each run has a finite timeout; requests,
\* crashes and restarts are never owed.
Fairness ==
    /\ \A t \in Trigger : WF_vars(StartLoop(t))
    /\ \A s \in Session : WF_vars(Goroutine(s))
    /\ \A c \in Canceler : WF_vars(Cancel(c))
    /\ \A k \in Stopper : WF_vars(Shutdown(k))

Spec == Init /\ [][Next]_vars /\ Fairness
=============================================================================
