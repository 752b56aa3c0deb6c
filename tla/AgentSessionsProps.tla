------------------------- MODULE AgentSessionsProps -------------------------
(* What AgentSessions is checked for. *)
EXTENDS AgentSessions

Running(s) == proc[s] = "live"

\* Every variable has its type.
TypeOK ==
    /\ row \in [Session -> {"none"} \cup Open \cup Terminal]
    /\ started \subseteq Session /\ posted \subseteq Session /\ lost \subseteq Session
    /\ queued \subseteq Session /\ running \subseteq Session
    /\ sem \in Nat /\ wg \in Nat
    /\ closed \in BOOLEAN /\ mctx \in BOOLEAN
    /\ ctx \subseteq Session
    /\ once \in {"no", "busy", "done"} /\ snapshot \subseteq Session
    /\ asked \subseteq Trigger /\ left \in [Trigger -> SUBSET Agent]
    /\ pc \in [Session -> PC]
    /\ cpc \in [Canceler -> {"idle", "lookup", "fire", "write", "over"}]
    /\ target \in [Canceler -> SUBSET Session]
    /\ kpc \in [Stopper -> {"idle", "cancel", "sweep", "wait", "returned", "over"}]
    /\ proc \in [Session -> {"none", "live", "gone", "orphan"}]
    /\ up \in BOOLEAN /\ boots \in Nat

\* The semaphore counts exactly the goroutines that still have to give a slot
\* back, so no path through dispatch leaks or returns a slot twice, and the
\* agents running under this daemon are at most MaxConcurrentSessions.
SlotsBounded ==
    /\ sem = Cardinality({s \in Session : pc[s] \in HoldPC})
    /\ Cardinality({s \in Session : Running(s)}) <= MaxConcurrentSessions

\* While an agent runs, its cancel function is in m.running: a Cancel or a
\* Shutdown that comes now reaches it.
LiveIsCancelable ==
    \A s \in Session : Running(s) => s \in running /\ s \notin queued /\ up

\* A row a client sees as open is somebody's to finish: a goroutine of this
\* daemon, unless a terminal write failed and the manager ignored the error.
\* No interleaving of Start, dispatch, Cancel and Shutdown strands a row.
NoStuckRow ==
    \A s \in Session :
        up /\ row[s] \in Open => pc[s] \notin {"none", "done"} \/ s \in lost

\* A session that was finished before it was ever marked running (canceled in
\* the queue, at shutdown, or by a restart) spawned no agent and posted nothing.
NeverStartedNeverRan ==
    \A s \in Session :
        s \notin started => proc[s] = "none" /\ s \notin posted

\* ShutdownAndWait returns to every caller, the one that ran the body of
\* shutdownOnce and the ones that joined it, only when no session goroutine
\* and no agent is left and every row a dispatch goroutine was started for is
\* final; what may still be open is a row between Start's INSERT and its check
\* of m.closed.
ShutdownBarrier ==
    (\E k \in Stopper : kpc[k] = "returned") =>
        \A s \in Session :
            /\ pc[s] \notin WaitedPC /\ ~Running(s)
            /\ row[s] \in Open => pc[s] \in StartPC \/ s \in lost

\* A final status never goes back to an open one, and a session that was
\* finished unstarted is never started: MarkSessionRunning's WHERE clause is
\* all that keeps a canceled queued session from running.  FinishSession has no
\* such clause, and one final status does replace another: that of a run that
\* has ended, only by a Cancel under way since its row was open, and only a
\* "canceled" by the end of the run.
FinishedStaysFinished ==
    [][\A s \in Session : row[s] \in Terminal =>
            /\ row'[s] \in Terminal
            /\ s \in started' => s \in started
            /\ row'[s] # row[s] =>
                \/ row'[s] = "canceled" /\ \E c \in Canceler : s \in target[c]
                \/ row[s] = "canceled" /\ row'[s] = pc[s]]_vars

\* Whatever comes after it, a session that has a row and is not running when the
\* manager is closed is not started: not by Start, which may just have inserted
\* the row, not by its goroutine, which may wait for a slot or have got one, and
\* not in a later life of the daemon.
UnstartedOnceClosed(s) ==
    [](closed /\ row[s] # "none" /\ s \notin running \cup started => [](s \notin started))

\* Once shutdown has closed the manager, only the runs it finds in m.running can
\* still start an agent (manager.go: Start, dispatch, Shutdown, Reconcile).
ClosedStartsNoMore == \A s \in Session : UnstartedOnceClosed(s)

\* Whatever comes after it, a cancel before the reply is due silences the run.
SilentOnceCanceled(s) ==
    [](CtxDone(s) /\ pc[s] \in {"mark", "prompt", "exec", "err", "reply", "grace", "post"}
        /\ s \notin posted => [](s \notin posted))

\* A run that was canceled, by its own context or by shutdown, before the reply
\* was due posts none, however far the agent had got (resolveReply, postReply).
CanceledRunIsSilent == \A s \in Session : SilentOnceCanceled(s)

\* A canceled run whose agent was alive ends as "canceled", not as a success
\* or a failure of the agent.
CanceledRunEndsCanceled ==
    \A s \in Session :
        (CtxDone(s) /\ Running(s)) ~> (row[s] = "canceled" \/ s \in lost \/ ~up)

\* Every session a Start has queued is finished, whatever is canceled, shut
\* down or failing, as long as the daemon lives and its terminal write works.
QueuedIsFinished ==
    \A s \in Session :
        row[s] = "queued" ~> (row[s] \in Terminal \/ s \in lost \/ ~up)

\* A shutdown that has begun returns: nobody waits for a slot, a context or a
\* WaitGroup that never comes.
ShutdownReturns ==
    \A k \in Stopper : kpc[k] = "cancel" ~> (kpc[k] = "returned" \/ ~up)

\* The manager implements the promise.
Lifecycle == INSTANCE SessionLifecycle WITH
    MaxLive <- MaxConcurrentSessions,
    status <- [s \in Session |-> CASE row[s] = "none" -> "absent"
                                   [] row[s] \in Open -> row[s]
                                   [] OTHER -> "settled"],
    begun <- started,
    ran <- {s \in Session : proc[s] # "none"},
    live <- {s \in Session : Running(s)},
    replied <- posted

\* Every behaviour of the manager is one of SessionLifecycle.
ImplementsLifecycle == Lifecycle!Spec

----------------------------------------------------------------------------
(* What the repository says and the code does not do. *)

\* manager.go:271: ShutdownAndWait "does not return until every session row is
\* terminal, for this caller and for any concurrent one".
BarrierMeansAllTerminal ==
    (\E k \in Stopper : kpc[k] = "returned") => \A s \in Session : row[s] \notin Open

\* backend.md:433: a queued session "is finished canceled without running", and
\* manager_test.go:676: "a canceled queued session must not spawn an agent".
CanceledNeverSpawns ==
    [][\A s \in Session : row[s] = "canceled" /\ ~Running(s) => proc'[s] # "live"]_vars
=============================================================================
