------------------------ MODULE AgentSessions_proofs ------------------------
(* The session manager, for every number of triggers, agents, requests,     *)
(* slots and restarts.  The inductive invariant ties each goroutine's place *)
(* in the code to the row, the maps, the agent's process and the counters;  *)
(* none of the safety properties is inductive without it.                   *)
EXTENDS AgentSessionsProps, FiniteSetTheorems, TLAPS

\* Between m.running[id] = cancel and the deferred delete.
RunPC == {"mark", "failq", "prompt", "exec", "err", "reply", "grace", "post",
          "append", "link", "unreg"} \cup Terminal
EarlyPC == {"new", "abort", "wait", "bail", "slot", "shut", "mark", "failq"}
AgentPC == {"prompt", "exec", "err", "reply", "grace", "post", "append"}
RepliedPC == {"reply", "grace", "post", "append"}

\* The row and its goroutine.
RowInv(s) ==
    /\ row[s] = "none" <=> pc[s] = "none"
    /\ pc[s] \in EarlyPC => row[s] # "running"
    /\ up /\ pc[s] \in {"unreg", "release", "exit", "done"} =>
            row[s] \in Terminal \/ s \in lost

\* The manager's maps and its goroutine.
MapInv(s) ==
    /\ s \in queued => pc[s] \in {"wait", "slot"}
    /\ s \in running <=> pc[s] \in RunPC
    /\ ~up => pc[s] \in {"none", "done"}

\* The agent's process, its reply and the goroutine.
AgentInv(s) ==
    /\ pc[s] \in EarlyPC \cup {"none", "prompt"} => proc[s] = "none"
    /\ proc[s] = "live" => pc[s] = "exec"
    /\ pc[s] \in RepliedPC => proc[s] = "gone"
    /\ pc[s] = "exec" => proc[s] # "none"
    /\ pc[s] \in EarlyPC \cup AgentPC \cup {"none"} => s \notin posted
    /\ pc[s] \in AgentPC \cup {"link"} => s \in started
    /\ s \notin started => proc[s] = "none" /\ s \notin posted

\* The requests: what they still have to finish has a row, and a shutdown that
\* has begun has closed the manager.
RequestInv ==
    /\ \A c \in Canceler : \A s \in target[c] : row[s] # "none"
    /\ \A s \in snapshot : row[s] # "none"
    /\ \A t \in Trigger : left[t] # {} => up
    /\ once # "no" => up /\ closed
    /\ \A k \in Stopper : kpc[k] \notin {"idle", "over"} => up /\ closed

ReturnedInv ==
    \A k \in Stopper : kpc[k] = "returned" => \A s \in Session : pc[s] \notin WaitedPC

\* A session whose goroutine has not finished the row yet.
PendingPC == {"new", "abort", "wait", "bail", "slot", "shut", "mark", "failq", "prompt",
              "exec", "err", "reply", "grace", "post", "append", "link"} \cup Terminal

\* Until a session's goroutine finishes the row nobody else does, other than by
\* canceling it; and what the shutdown still has to sweep is not running.
OwnRow(s) ==
    /\ pc[s] \in PendingPC => row[s] \in Open \cup {"canceled"}
    /\ s \in snapshot =>
        /\ closed
        /\ pc[s] \in {"wait", "slot", "bail", "shut", "release", "exit", "done"}
        /\ row[s] \in {"queued", "canceled"}

OwnInv == \A s \in Session : OwnRow(s)

LocalInv == \A s \in Session : RowInv(s) /\ MapInv(s) /\ AgentInv(s)

Count(f, S) == Cardinality({s \in Session : f[s] \in S})

\* Goroutines that hold a slot, and those that owe a wg.Done.
Holders == Count(pc, HoldPC)
Waited == Count(pc, WaitedPC)

CountInv ==
    /\ sem = Holders /\ sem <= MaxConcurrentSessions
    /\ wg = Waited

IInv == TypeOK /\ LocalInv /\ OwnInv /\ RequestInv /\ ReturnedInv /\ CountInv

----------------------------------------------------------------------------
(* Counting goroutines by where they stand. *)

LEMMA CountIsNat == \A f, S : Count(f, S) \in Nat
<1> SUFFICES ASSUME NEW f, NEW S PROVE Count(f, S) \in Nat
  OBVIOUS
<1>1. IsFiniteSet({s \in Session : f[s] \in S})
  BY FiniteAssumption, FS_Subset DEF Session
<1> QED
  BY <1>1, FS_CardinalityType DEF Count

\* One goroutine moves: the count of the places S changes only if it enters or
\* leaves S.
LEMMA CountMove ==
  ASSUME NEW f, NEW g, NEW s \in Session, NEW S,
         \A r \in Session : r # s => g[r] = f[r]
  PROVE  /\ (f[s] \in S <=> g[s] \in S) => Count(g, S) = Count(f, S)
         /\ f[s] \notin S /\ g[s] \in S => Count(g, S) = Count(f, S) + 1
         /\ f[s] \in S /\ g[s] \notin S =>
                Count(f, S) > 0 /\ Count(g, S) = Count(f, S) - 1
<1> DEFINE F == {r \in Session : f[r] \in S}
           G == {r \in Session : g[r] \in S}
<1>1. IsFiniteSet(F) /\ IsFiniteSet(G)
  BY FiniteAssumption, FS_Subset DEF Session
<1>2. Cardinality(F) \in Nat /\ Cardinality(G) \in Nat
  BY <1>1, FS_CardinalityType
<1>3. ASSUME f[s] \in S <=> g[s] \in S PROVE F = G
  BY <1>3
<1>4. ASSUME f[s] \notin S, g[s] \in S PROVE Cardinality(G) = Cardinality(F) + 1
  <2>1. G = F \cup {s} /\ s \notin F
    BY <1>4
  <2> QED
    BY <2>1, <1>1, FS_AddElement
<1>5. ASSUME f[s] \in S, g[s] \notin S PROVE Cardinality(F) = Cardinality(G) + 1
  <2>1. F = G \cup {s} /\ s \notin G
    BY <1>5
  <2> QED
    BY <2>1, <1>1, FS_AddElement
<1> QED
  BY <1>2, <1>3, <1>4, <1>5 DEF Count

LEMMA CountEmpty ==
  ASSUME NEW f, NEW S, \A s \in Session : f[s] \notin S
  PROVE  Count(f, S) = 0
<1>1. {s \in Session : f[s] \in S} = {}
  OBVIOUS
<1> QED
  BY <1>1, FS_EmptySet DEF Count

LEMMA CountZero ==
  ASSUME NEW f, NEW S, Count(f, S) = 0
  PROVE  \A s \in Session : f[s] \notin S
<1>1. IsFiniteSet({s \in Session : f[s] \in S})
  BY FiniteAssumption, FS_Subset DEF Session
<1> QED
  BY <1>1, FS_EmptySet DEF Count

\* The two counts the manager keeps, when the goroutine of s goes to at.
LEMMA MoveCounts ==
  ASSUME TypeOK, NEW s \in Session, NEW at, Goto(s, at)
  PROVE  /\ (pc[s] \in HoldPC <=> at \in HoldPC) => Holders' = Holders
         /\ pc[s] \notin HoldPC /\ at \in HoldPC => Holders' = Holders + 1
         /\ pc[s] \in HoldPC /\ at \notin HoldPC =>
                Holders > 0 /\ Holders' = Holders - 1
         /\ (pc[s] \in WaitedPC <=> at \in WaitedPC) => Waited' = Waited
         /\ pc[s] \notin WaitedPC /\ at \in WaitedPC => Waited' = Waited + 1
         /\ pc[s] \in WaitedPC /\ at \notin WaitedPC =>
                Waited > 0 /\ Waited' = Waited - 1
<1>1. pc'[s] = at /\ \A r \in Session : r # s => pc'[r] = pc[r]
  BY DEF TypeOK, Goto
<1>2. /\ (pc[s] \in HoldPC <=> at \in HoldPC) => Holders' = Holders
      /\ pc[s] \notin HoldPC /\ at \in HoldPC => Holders' = Holders + 1
      /\ pc[s] \in HoldPC /\ at \notin HoldPC =>
             Holders > 0 /\ Holders' = Holders - 1
  BY <1>1, CountMove DEF Holders
<1>3. /\ (pc[s] \in WaitedPC <=> at \in WaitedPC) => Waited' = Waited
      /\ pc[s] \notin WaitedPC /\ at \in WaitedPC => Waited' = Waited + 1
      /\ pc[s] \in WaitedPC /\ at \notin WaitedPC =>
             Waited > 0 /\ Waited' = Waited - 1
  BY <1>1, CountMove DEF Waited
<1> QED
  BY <1>2, <1>3

LEMMA CountsAreNat == Holders \in Nat /\ Waited \in Nat
  BY CountIsNat DEF Holders, Waited

LEMMA StillCounts == UNCHANGED pc => Holders' = Holders /\ Waited' = Waited
  BY DEF Holders, Waited, Count

LEMMA NoneCounts ==
  ASSUME pc' = [s \in Session |-> IF pc[s] = "none" THEN "none" ELSE "done"]
  PROVE  Holders' = 0 /\ Waited' = 0
<1>1. \A s \in Session : pc'[s] \notin HoldPC /\ pc'[s] \notin WaitedPC
  BY DEF HoldPC, WaitedPC, Terminal
<1> QED
  BY <1>1, CountEmpty DEF Holders, Waited

LEMMA NoneWaits == Waited = 0 => \A s \in Session : pc[s] \notin WaitedPC
  BY CountZero DEF Waited

LEMMA CountStep == TypeOK /\ LocalInv /\ CountInv /\ [Next]_vars => CountInv'
<1> SUFFICES ASSUME TypeOK, LocalInv, CountInv, [Next]_vars PROVE CountInv'
  OBVIOUS
<1> USE MoveCounts, CountsAreNat, StillCounts, NoneCounts, SlotsAssumption
        DEF CountInv, Terminal, StartPC, WaitedPC, HoldPC,
            slotVars, rowVars, stopVars, cancelVars, startVars, hostVars
<1>1. ASSUME NEW t \in Trigger, Start(t)
     PROVE  CountInv'
  BY <1>1 DEF Start
<1>2. ASSUME NEW t \in Trigger, NEW a \in Agent, SkipName(t, a)
     PROVE  CountInv'
  BY <1>2 DEF SkipName, Ready
<1>3. ASSUME NEW t \in Trigger, NEW a \in Agent, CreateSession(t, a)
     PROVE  CountInv'
  <2>1. <<t, a>> \in Session
    BY DEF Session
  <2>2. pc[<<t, a>>] = "none"
    BY <2>1, <1>3 DEF CreateSession, LocalInv, RowInv
  <2> QED
    BY <2>1, <2>2, <1>3 DEF CreateSession, Ready
<1>4. ASSUME NEW s \in Session, Register(s)
     PROVE  CountInv'
  BY <1>4 DEF Register
<1>5. ASSUME NEW s \in Session, AbortStart(s)
     PROVE  CountInv'
  BY <1>5 DEF AbortStart, FinishSession
<1>6. ASSUME NEW s \in Session, Acquire(s)
     PROVE  CountInv'
  BY <1>6 DEF Acquire
<1>7. ASSUME NEW s \in Session, GiveUp(s)
     PROVE  CountInv'
  BY <1>7 DEF GiveUp
<1>8. ASSUME NEW s \in Session, Bail(s)
     PROVE  CountInv'
  BY <1>8 DEF Bail, FinishSession
<1>9. ASSUME NEW s \in Session, EnterRun(s)
     PROVE  CountInv'
  BY <1>9 DEF EnterRun
<1>10. ASSUME NEW s \in Session, ShutOut(s)
     PROVE  CountInv'
  BY <1>10 DEF ShutOut, FinishSession
<1>11. ASSUME NEW s \in Session, MarkSessionRunning(s)
     PROVE  CountInv'
  BY <1>11 DEF MarkSessionRunning
<1>12. ASSUME NEW s \in Session, FailIfStillQueued(s)
     PROVE  CountInv'
  BY <1>12 DEF FailIfStillQueued
<1>13. ASSUME NEW s \in Session, Spawn(s)
     PROVE  CountInv'
  BY <1>13 DEF Spawn
<1>14. ASSUME NEW s \in Session, ChildEnds(s)
     PROVE  CountInv'
  BY <1>14 DEF ChildEnds
<1>15. ASSUME NEW s \in Session, RunReturns(s)
     PROVE  CountInv'
  BY <1>15 DEF RunReturns
<1>16. ASSUME NEW s \in Session, RunFailed(s)
     PROVE  CountInv'
  BY <1>16 DEF RunFailed
<1>17. ASSUME NEW s \in Session, ResolveReply(s)
     PROVE  CountInv'
  BY <1>17 DEF ResolveReply
<1>18. ASSUME NEW s \in Session, AgentPosted(s)
     PROVE  CountInv'
  BY <1>18 DEF AgentPosted
<1>19. ASSUME NEW s \in Session, PostReply(s)
     PROVE  CountInv'
  BY <1>19 DEF PostReply
<1>20. ASSUME NEW s \in Session, AppendReply(s)
     PROVE  CountInv'
  BY <1>20 DEF AppendReply
<1>21. ASSUME NEW s \in Session, LinkReply(s)
     PROVE  CountInv'
  BY <1>21 DEF LinkReply
<1>22. ASSUME NEW s \in Session, Finish(s)
     PROVE  CountInv'
  BY <1>22 DEF Finish, FinishSession
<1>23. ASSUME NEW s \in Session, Unregister(s)
     PROVE  CountInv'
  BY <1>23 DEF Unregister
<1>24. ASSUME NEW s \in Session, Release(s)
     PROVE  CountInv'
  BY <1>24 DEF Release
<1>25. ASSUME NEW s \in Session, WgDone(s)
     PROVE  CountInv'
  BY <1>25 DEF WgDone
<1>26. ASSUME NEW s \in Session, OrphanEnds(s)
     PROVE  CountInv'
  BY <1>26 DEF OrphanEnds
<1>27. ASSUME NEW c \in Canceler, NEW s \in Session, CancelReads(c, s)
     PROVE  CountInv'
  BY <1>27 DEF CancelReads
<1>28. ASSUME NEW c \in Canceler, CancelLooksUp(c)
     PROVE  CountInv'
  BY <1>28 DEF CancelLooksUp
<1>29. ASSUME NEW c \in Canceler, CancelFires(c)
     PROVE  CountInv'
  BY <1>29 DEF CancelFires, CancelReturns
<1>30. ASSUME NEW c \in Canceler, CancelWrites(c)
     PROVE  CountInv'
  BY <1>30 DEF CancelWrites, FinishSession, CancelReturns
<1>31. ASSUME NEW k \in Stopper, ShutdownFirst(k)
     PROVE  CountInv'
  BY <1>31 DEF ShutdownFirst
<1>32. ASSUME NEW k \in Stopper, ShutdownJoins(k)
     PROVE  CountInv'
  BY <1>32 DEF ShutdownJoins
<1>33. ASSUME NEW k \in Stopper, ShutdownCancels(k)
     PROVE  CountInv'
  BY <1>33 DEF ShutdownCancels
<1>34. ASSUME NEW k \in Stopper, ShutdownSweeps(k)
     PROVE  CountInv'
  BY <1>34 DEF ShutdownSweeps, FinishSession
<1>35. ASSUME NEW k \in Stopper, ShutdownSwept(k)
     PROVE  CountInv'
  BY <1>35 DEF ShutdownSwept
<1>36. ASSUME NEW k \in Stopper, WaitReturns(k)
     PROVE  CountInv'
  BY <1>36 DEF WaitReturns
<1>37. ASSUME Exit
     PROVE  CountInv'
  BY <1>37 DEF Exit, ProcessEnds
<1>38. ASSUME Crash
     PROVE  CountInv'
  BY <1>38 DEF Crash, ProcessEnds
<1>39. ASSUME Boot
     PROVE  CountInv'
  BY <1>39 DEF Boot
<1>40. ASSUME UNCHANGED vars
     PROVE  CountInv'
  BY <1>40 DEF vars
<1>. QED
  BY Zenon, <1>1, <1>2, <1>3, <1>4, <1>5, <1>6, <1>7, <1>8, <1>9, <1>10, <1>11, <1>12, <1>13, <1>14, <1>15, <1>16, <1>17, <1>18, <1>19, <1>20, <1>21, <1>22, <1>23, <1>24, <1>25, <1>26, <1>27, <1>28, <1>29, <1>30, <1>31, <1>32, <1>33, <1>34, <1>35, <1>36, <1>37, <1>38, <1>39, <1>40
  DEF Next, StartLoop, Goroutine, Cancel, Shutdown

LEMMA TypeStep == TypeOK /\ CountInv /\ [Next]_vars => TypeOK'
<1> SUFFICES ASSUME TypeOK, CountInv, [Next]_vars PROVE TypeOK'
  OBVIOUS
<1> USE DEF TypeOK, Session, Open, Terminal, PC, StartPC, WaitedPC, HoldPC,
            rowVars, slotVars, stopVars, cancelVars, startVars, hostVars
<1>1. ASSUME NEW t \in Trigger, Start(t)
     PROVE  TypeOK'
  BY <1>1 DEF Start
<1>2. ASSUME NEW t \in Trigger, NEW a \in Agent, SkipName(t, a)
     PROVE  TypeOK'
  BY <1>2 DEF SkipName, Ready
<1>3. ASSUME NEW t \in Trigger, NEW a \in Agent, CreateSession(t, a)
     PROVE  TypeOK'
  BY <1>3 DEF CreateSession, Ready, Goto
<1>4. ASSUME NEW s \in Session, Register(s)
     PROVE  TypeOK'
  BY <1>4 DEF Register, Goto
<1>5. ASSUME NEW s \in Session, AbortStart(s)
     PROVE  TypeOK'
  BY <1>5 DEF AbortStart, Goto, FinishSession
<1>6. ASSUME NEW s \in Session, Acquire(s)
     PROVE  TypeOK'
  BY <1>6 DEF Acquire, Goto
<1>7. ASSUME NEW s \in Session, GiveUp(s)
     PROVE  TypeOK'
  BY <1>7 DEF GiveUp, Goto
<1>8. ASSUME NEW s \in Session, Bail(s)
     PROVE  TypeOK'
  BY <1>8 DEF Bail, Goto, FinishSession
<1>9. ASSUME NEW s \in Session, EnterRun(s)
     PROVE  TypeOK'
  BY <1>9 DEF EnterRun, Goto
<1>10. ASSUME NEW s \in Session, ShutOut(s)
     PROVE  TypeOK'
  BY <1>10 DEF ShutOut, Goto, FinishSession
<1>11. ASSUME NEW s \in Session, MarkSessionRunning(s)
     PROVE  TypeOK'
  <2>1. row' \in [Session -> {"none"} \cup Open \cup Terminal] /\ started' \subseteq Session
    BY <1>11 DEF MarkSessionRunning, Goto
  <2>2. pc' \in [Session -> PC]
    BY <1>11 DEF MarkSessionRunning, Goto
  <2> QED
    BY <2>1, <2>2, <1>11 DEF MarkSessionRunning
<1>12. ASSUME NEW s \in Session, FailIfStillQueued(s)
     PROVE  TypeOK'
  BY <1>12 DEF FailIfStillQueued, Goto
<1>13. ASSUME NEW s \in Session, Spawn(s)
     PROVE  TypeOK'
  BY <1>13 DEF Spawn, Goto
<1>14. ASSUME NEW s \in Session, ChildEnds(s)
     PROVE  TypeOK'
  BY <1>14 DEF ChildEnds
<1>15. ASSUME NEW s \in Session, RunReturns(s)
     PROVE  TypeOK'
  BY <1>15 DEF RunReturns, Goto
<1>16. ASSUME NEW s \in Session, RunFailed(s)
     PROVE  TypeOK'
  BY <1>16 DEF RunFailed, Goto
<1>17. ASSUME NEW s \in Session, ResolveReply(s)
     PROVE  TypeOK'
  BY <1>17 DEF ResolveReply, Goto
<1>18. ASSUME NEW s \in Session, AgentPosted(s)
     PROVE  TypeOK'
  BY <1>18 DEF AgentPosted, Goto
<1>19. ASSUME NEW s \in Session, PostReply(s)
     PROVE  TypeOK'
  BY <1>19 DEF PostReply, Goto
<1>20. ASSUME NEW s \in Session, AppendReply(s)
     PROVE  TypeOK'
  BY <1>20 DEF AppendReply, Goto
<1>21. ASSUME NEW s \in Session, LinkReply(s)
     PROVE  TypeOK'
  BY <1>21 DEF LinkReply, Goto
<1>22. ASSUME NEW s \in Session, Finish(s)
     PROVE  TypeOK'
  BY <1>22 DEF Finish, Goto, FinishSession
<1>23. ASSUME NEW s \in Session, Unregister(s)
     PROVE  TypeOK'
  BY <1>23 DEF Unregister, Goto
<1>24. ASSUME NEW s \in Session, Release(s)
     PROVE  TypeOK'
  <2>1. sem > 0
    BY <1>24, MoveCounts, SMTT(30) DEF Release, CountInv
  <2> QED
    BY <2>1, <1>24 DEF Release, Goto
<1>25. ASSUME NEW s \in Session, WgDone(s)
     PROVE  TypeOK'
  <2>1. wg > 0
    BY <1>25, MoveCounts DEF WgDone, CountInv
  <2> QED
    BY <2>1, <1>25 DEF WgDone, Goto
<1>26. ASSUME NEW s \in Session, OrphanEnds(s)
     PROVE  TypeOK'
  BY <1>26 DEF OrphanEnds
<1>27. ASSUME NEW c \in Canceler, NEW s \in Session, CancelReads(c, s)
     PROVE  TypeOK'
  BY <1>27 DEF CancelReads
<1>28. ASSUME NEW c \in Canceler, CancelLooksUp(c)
     PROVE  TypeOK'
  BY <1>28 DEF CancelLooksUp
<1>29. ASSUME NEW c \in Canceler, CancelFires(c)
     PROVE  TypeOK'
  BY <1>29 DEF CancelFires, CancelReturns
<1>30. ASSUME NEW c \in Canceler, CancelWrites(c)
     PROVE  TypeOK'
  BY <1>30 DEF CancelWrites, FinishSession, CancelReturns
<1>31. ASSUME NEW k \in Stopper, ShutdownFirst(k)
     PROVE  TypeOK'
  BY <1>31 DEF ShutdownFirst
<1>32. ASSUME NEW k \in Stopper, ShutdownJoins(k)
     PROVE  TypeOK'
  BY <1>32 DEF ShutdownJoins
<1>33. ASSUME NEW k \in Stopper, ShutdownCancels(k)
     PROVE  TypeOK'
  BY <1>33 DEF ShutdownCancels
<1>34. ASSUME NEW k \in Stopper, ShutdownSweeps(k)
     PROVE  TypeOK'
  BY <1>34 DEF ShutdownSweeps, FinishSession
<1>35. ASSUME NEW k \in Stopper, ShutdownSwept(k)
     PROVE  TypeOK'
  BY <1>35 DEF ShutdownSwept
<1>36. ASSUME NEW k \in Stopper, WaitReturns(k)
     PROVE  TypeOK'
  BY <1>36 DEF WaitReturns
<1>37. ASSUME Exit
     PROVE  TypeOK'
  BY <1>37 DEF Exit, ProcessEnds
<1>38. ASSUME Crash
     PROVE  TypeOK'
  BY <1>38 DEF Crash, ProcessEnds
<1>39. ASSUME Boot
     PROVE  TypeOK'
  BY <1>39 DEF Boot
<1>40. ASSUME UNCHANGED vars
     PROVE  TypeOK'
  BY <1>40 DEF vars
<1>. QED
  BY Zenon, <1>1, <1>2, <1>3, <1>4, <1>5, <1>6, <1>7, <1>8, <1>9, <1>10, <1>11, <1>12, <1>13, <1>14, <1>15, <1>16, <1>17, <1>18, <1>19, <1>20, <1>21, <1>22, <1>23, <1>24, <1>25, <1>26, <1>27, <1>28, <1>29, <1>30, <1>31, <1>32, <1>33, <1>34, <1>35, <1>36, <1>37, <1>38, <1>39, <1>40
  DEF Next, StartLoop, Goroutine, Cancel, Shutdown

LEMMA LocalStep == TypeOK /\ LocalInv /\ RequestInv /\ [Next]_vars => LocalInv'
<1> SUFFICES ASSUME TypeOK, LocalInv, RequestInv, [Next]_vars PROVE LocalInv'
  OBVIOUS
<1> USE DEF LocalInv, RowInv, MapInv, AgentInv, RequestInv, TypeOK, Open, Terminal,
            PC, StartPC, WaitedPC, HoldPC, RunPC, EarlyPC, AgentPC, RepliedPC,
            rowVars, slotVars, stopVars, cancelVars, startVars, hostVars
<1>1. ASSUME NEW t \in Trigger, Start(t)
     PROVE  LocalInv'
  BY <1>1 DEF Start
<1>2. ASSUME NEW t \in Trigger, NEW a \in Agent, SkipName(t, a)
     PROVE  LocalInv'
  BY <1>2 DEF SkipName, Ready
<1>3. ASSUME NEW t \in Trigger, NEW a \in Agent, CreateSession(t, a)
     PROVE  LocalInv'
  <2>1. <<t, a>> \in Session
    BY DEF Session
  <2>2. pc[<<t, a>>] = "none"
    BY <2>1, <1>3 DEF CreateSession, LocalInv, RowInv
  <2>3. PICK s \in Session :
          /\ pc[s] = "none" /\ row' = [row EXCEPT ![s] = "queued"]
          /\ pc' = [pc EXCEPT ![s] = "new"]
    BY <2>1, <2>2, <1>3 DEF CreateSession, Goto
  <2> QED
    BY <2>3, <1>3 DEF CreateSession, Ready
<1>4. ASSUME NEW s \in Session, Register(s)
     PROVE  LocalInv'
  BY <1>4 DEF Register, Goto
<1>5. ASSUME NEW s \in Session, AbortStart(s)
     PROVE  LocalInv'
  BY <1>5 DEF AbortStart, Goto, FinishSession
<1>6. ASSUME NEW s \in Session, Acquire(s)
     PROVE  LocalInv'
  BY <1>6 DEF Acquire, Goto
<1>7. ASSUME NEW s \in Session, GiveUp(s)
     PROVE  LocalInv'
  BY <1>7 DEF GiveUp, Goto
<1>8. ASSUME NEW s \in Session, Bail(s)
     PROVE  LocalInv'
  BY <1>8 DEF Bail, Goto, FinishSession
<1>9. ASSUME NEW s \in Session, EnterRun(s)
     PROVE  LocalInv'
  BY <1>9 DEF EnterRun, Goto
<1>10. ASSUME NEW s \in Session, ShutOut(s)
     PROVE  LocalInv'
  BY <1>10 DEF ShutOut, Goto, FinishSession
<1>11. ASSUME NEW s \in Session, MarkSessionRunning(s)
     PROVE  LocalInv'
  BY <1>11 DEF MarkSessionRunning, Goto
<1>12. ASSUME NEW s \in Session, FailIfStillQueued(s)
     PROVE  LocalInv'
  BY <1>12 DEF FailIfStillQueued, Goto
<1>13. ASSUME NEW s \in Session, Spawn(s)
     PROVE  LocalInv'
  BY <1>13 DEF Spawn, Goto
<1>14. ASSUME NEW s \in Session, ChildEnds(s)
     PROVE  LocalInv'
  BY <1>14 DEF ChildEnds
<1>15. ASSUME NEW s \in Session, RunReturns(s)
     PROVE  LocalInv'
  BY <1>15 DEF RunReturns, Goto
<1>16. ASSUME NEW s \in Session, RunFailed(s)
     PROVE  LocalInv'
  BY <1>16 DEF RunFailed, Goto
<1>17. ASSUME NEW s \in Session, ResolveReply(s)
     PROVE  LocalInv'
  BY <1>17 DEF ResolveReply, Goto
<1>18. ASSUME NEW s \in Session, AgentPosted(s)
     PROVE  LocalInv'
  BY <1>18 DEF AgentPosted, Goto
<1>19. ASSUME NEW s \in Session, PostReply(s)
     PROVE  LocalInv'
  BY <1>19 DEF PostReply, Goto
<1>20. ASSUME NEW s \in Session, AppendReply(s)
     PROVE  LocalInv'
  BY <1>20 DEF AppendReply, Goto
<1>21. ASSUME NEW s \in Session, LinkReply(s)
     PROVE  LocalInv'
  BY <1>21 DEF LinkReply, Goto
<1>22. ASSUME NEW s \in Session, Finish(s)
     PROVE  LocalInv'
  BY <1>22 DEF Finish, Goto, FinishSession
<1>23. ASSUME NEW s \in Session, Unregister(s)
     PROVE  LocalInv'
  BY <1>23 DEF Unregister, Goto
<1>24. ASSUME NEW s \in Session, Release(s)
     PROVE  LocalInv'
  BY <1>24 DEF Release, Goto
<1>25. ASSUME NEW s \in Session, WgDone(s)
     PROVE  LocalInv'
  BY <1>25 DEF WgDone, Goto
<1>26. ASSUME NEW s \in Session, OrphanEnds(s)
     PROVE  LocalInv'
  BY <1>26 DEF OrphanEnds
<1>27. ASSUME NEW c \in Canceler, NEW s \in Session, CancelReads(c, s)
     PROVE  LocalInv'
  BY <1>27 DEF CancelReads
<1>28. ASSUME NEW c \in Canceler, CancelLooksUp(c)
     PROVE  LocalInv'
  BY <1>28 DEF CancelLooksUp
<1>29. ASSUME NEW c \in Canceler, CancelFires(c)
     PROVE  LocalInv'
  BY <1>29 DEF CancelFires, CancelReturns
<1>30. ASSUME NEW c \in Canceler, CancelWrites(c)
     PROVE  LocalInv'
  BY <1>30 DEF CancelWrites, FinishSession, CancelReturns
<1>31. ASSUME NEW k \in Stopper, ShutdownFirst(k)
     PROVE  LocalInv'
  BY <1>31 DEF ShutdownFirst
<1>32. ASSUME NEW k \in Stopper, ShutdownJoins(k)
     PROVE  LocalInv'
  BY <1>32 DEF ShutdownJoins
<1>33. ASSUME NEW k \in Stopper, ShutdownCancels(k)
     PROVE  LocalInv'
  BY <1>33 DEF ShutdownCancels
<1>34. ASSUME NEW k \in Stopper, ShutdownSweeps(k)
     PROVE  LocalInv'
  BY <1>34 DEF ShutdownSweeps, FinishSession
<1>35. ASSUME NEW k \in Stopper, ShutdownSwept(k)
     PROVE  LocalInv'
  BY <1>35 DEF ShutdownSwept
<1>36. ASSUME NEW k \in Stopper, WaitReturns(k)
     PROVE  LocalInv'
  BY <1>36 DEF WaitReturns
<1>37. ASSUME Exit
     PROVE  LocalInv'
  BY <1>37 DEF Exit, ProcessEnds
<1>38. ASSUME Crash
     PROVE  LocalInv'
  BY <1>38 DEF Crash, ProcessEnds
<1>39. ASSUME Boot
     PROVE  LocalInv'
  BY <1>39 DEF Boot
<1>40. ASSUME UNCHANGED vars
     PROVE  LocalInv'
  BY <1>40 DEF vars
<1>. QED
  BY Zenon, <1>1, <1>2, <1>3, <1>4, <1>5, <1>6, <1>7, <1>8, <1>9, <1>10, <1>11, <1>12, <1>13, <1>14, <1>15, <1>16, <1>17, <1>18, <1>19, <1>20, <1>21, <1>22, <1>23, <1>24, <1>25, <1>26, <1>27, <1>28, <1>29, <1>30, <1>31, <1>32, <1>33, <1>34, <1>35, <1>36, <1>37, <1>38, <1>39, <1>40
  DEF Next, StartLoop, Goroutine, Cancel, Shutdown

\* Every step keeps it: the entries of m.queued that a shutdown takes have not
\* been marked running, and a closed manager lets none of them run.
LEMMA OwnStep == TypeOK /\ LocalInv /\ OwnInv /\ [Next]_vars => OwnInv'
<1> SUFFICES ASSUME TypeOK, LocalInv, OwnInv, [Next]_vars PROVE OwnInv'
  OBVIOUS
<1>0. ASSUME NEW s \in queued
      PROVE  pc[s] \in {"wait", "slot"} /\ row[s] # "running" /\ s \in Session
  BY <1>0 DEF TypeOK, LocalInv, MapInv, RowInv, EarlyPC
<1> USE DEF OwnInv, OwnRow, PendingPC, TypeOK, Open, Terminal,
            rowVars, slotVars, stopVars, cancelVars, startVars, hostVars
<1>1. ASSUME NEW t \in Trigger, Start(t)
     PROVE  OwnInv'
  BY <1>1 DEF Start
<1>2. ASSUME NEW t \in Trigger, NEW a \in Agent, SkipName(t, a)
     PROVE  OwnInv'
  BY <1>2 DEF SkipName, Ready
<1>3. ASSUME NEW t \in Trigger, NEW a \in Agent, CreateSession(t, a)
     PROVE  OwnInv'
  <2>1. PICK s \in Session :
          /\ row[s] = "none" /\ row' = [row EXCEPT ![s] = "queued"]
          /\ pc' = [pc EXCEPT ![s] = "new"]
    BY <1>3 DEF CreateSession, Session, Goto
  <2> QED
    BY <2>1, <1>3 DEF CreateSession
<1>4. ASSUME NEW s \in Session, Register(s)
     PROVE  OwnInv'
  BY <1>4 DEF Register, Goto
<1>5. ASSUME NEW s \in Session, AbortStart(s)
     PROVE  OwnInv'
  BY <1>5 DEF AbortStart, Goto, FinishSession
<1>6. ASSUME NEW s \in Session, Acquire(s)
     PROVE  OwnInv'
  BY <1>6 DEF Acquire, Goto
<1>7. ASSUME NEW s \in Session, GiveUp(s)
     PROVE  OwnInv'
  BY <1>7 DEF GiveUp, Goto
<1>8. ASSUME NEW s \in Session, Bail(s)
     PROVE  OwnInv'
  BY <1>8 DEF Bail, Goto, FinishSession
<1>9. ASSUME NEW s \in Session, EnterRun(s)
     PROVE  OwnInv'
  BY <1>9 DEF EnterRun, Goto
<1>10. ASSUME NEW s \in Session, ShutOut(s)
     PROVE  OwnInv'
  BY <1>10 DEF ShutOut, Goto, FinishSession
<1>11. ASSUME NEW s \in Session, MarkSessionRunning(s)
     PROVE  OwnInv'
  BY <1>11 DEF MarkSessionRunning, Goto
<1>12. ASSUME NEW s \in Session, FailIfStillQueued(s)
     PROVE  OwnInv'
  BY <1>12 DEF FailIfStillQueued, Goto
<1>13. ASSUME NEW s \in Session, Spawn(s)
     PROVE  OwnInv'
  BY <1>13 DEF Spawn, Goto
<1>14. ASSUME NEW s \in Session, ChildEnds(s)
     PROVE  OwnInv'
  BY <1>14 DEF ChildEnds
<1>15. ASSUME NEW s \in Session, RunReturns(s)
     PROVE  OwnInv'
  BY <1>15 DEF RunReturns, Goto
<1>16. ASSUME NEW s \in Session, RunFailed(s)
     PROVE  OwnInv'
  BY <1>16 DEF RunFailed, Goto
<1>17. ASSUME NEW s \in Session, ResolveReply(s)
     PROVE  OwnInv'
  BY <1>17 DEF ResolveReply, Goto
<1>18. ASSUME NEW s \in Session, AgentPosted(s)
     PROVE  OwnInv'
  BY <1>18 DEF AgentPosted, Goto
<1>19. ASSUME NEW s \in Session, PostReply(s)
     PROVE  OwnInv'
  BY <1>19 DEF PostReply, Goto
<1>20. ASSUME NEW s \in Session, AppendReply(s)
     PROVE  OwnInv'
  BY <1>20 DEF AppendReply, Goto
<1>21. ASSUME NEW s \in Session, LinkReply(s)
     PROVE  OwnInv'
  BY <1>21 DEF LinkReply, Goto
<1>22. ASSUME NEW s \in Session, Finish(s)
     PROVE  OwnInv'
  BY <1>22 DEF Finish, Goto, FinishSession
<1>23. ASSUME NEW s \in Session, Unregister(s)
     PROVE  OwnInv'
  BY <1>23 DEF Unregister, Goto
<1>24. ASSUME NEW s \in Session, Release(s)
     PROVE  OwnInv'
  BY <1>24 DEF Release, Goto
<1>25. ASSUME NEW s \in Session, WgDone(s)
     PROVE  OwnInv'
  BY <1>25 DEF WgDone, Goto
<1>26. ASSUME NEW s \in Session, OrphanEnds(s)
     PROVE  OwnInv'
  BY <1>26 DEF OrphanEnds
<1>27. ASSUME NEW c \in Canceler, NEW s \in Session, CancelReads(c, s)
     PROVE  OwnInv'
  BY <1>27 DEF CancelReads
<1>28. ASSUME NEW c \in Canceler, CancelLooksUp(c)
     PROVE  OwnInv'
  BY <1>28 DEF CancelLooksUp
<1>29. ASSUME NEW c \in Canceler, CancelFires(c)
     PROVE  OwnInv'
  BY <1>29 DEF CancelFires, CancelReturns
<1>30. ASSUME NEW c \in Canceler, CancelWrites(c)
     PROVE  OwnInv'
  BY <1>30 DEF CancelWrites, FinishSession, CancelReturns
<1>31. ASSUME NEW k \in Stopper, ShutdownFirst(k)
     PROVE  OwnInv'
  BY <1>0, <1>31 DEF ShutdownFirst
<1>32. ASSUME NEW k \in Stopper, ShutdownJoins(k)
     PROVE  OwnInv'
  BY <1>32 DEF ShutdownJoins
<1>33. ASSUME NEW k \in Stopper, ShutdownCancels(k)
     PROVE  OwnInv'
  BY <1>33 DEF ShutdownCancels
<1>34. ASSUME NEW k \in Stopper, ShutdownSweeps(k)
     PROVE  OwnInv'
  BY <1>34 DEF ShutdownSweeps, FinishSession
<1>35. ASSUME NEW k \in Stopper, ShutdownSwept(k)
     PROVE  OwnInv'
  BY <1>35 DEF ShutdownSwept
<1>36. ASSUME NEW k \in Stopper, WaitReturns(k)
     PROVE  OwnInv'
  BY <1>36 DEF WaitReturns
<1>37. ASSUME Exit
     PROVE  OwnInv'
  BY <1>37 DEF Exit, ProcessEnds
<1>38. ASSUME Crash
     PROVE  OwnInv'
  BY <1>38 DEF Crash, ProcessEnds
<1>39. ASSUME Boot
     PROVE  OwnInv'
  BY <1>39 DEF Boot
<1>40. ASSUME UNCHANGED vars
     PROVE  OwnInv'
  BY <1>40 DEF vars
<1>. QED
  BY Zenon, <1>1, <1>2, <1>3, <1>4, <1>5, <1>6, <1>7, <1>8, <1>9, <1>10, <1>11, <1>12, <1>13, <1>14, <1>15, <1>16, <1>17, <1>18, <1>19, <1>20, <1>21, <1>22, <1>23, <1>24, <1>25, <1>26, <1>27, <1>28, <1>29, <1>30, <1>31, <1>32, <1>33, <1>34, <1>35, <1>36, <1>37, <1>38, <1>39, <1>40
  DEF Next, StartLoop, Goroutine, Cancel, Shutdown

LEMMA RequestStep ==
  TypeOK /\ LocalInv /\ CountInv /\ RequestInv /\ ReturnedInv /\ [Next]_vars
    => RequestInv' /\ ReturnedInv'
<1> SUFFICES ASSUME TypeOK, LocalInv, CountInv, RequestInv, ReturnedInv, [Next]_vars
             PROVE  RequestInv' /\ ReturnedInv'
  OBVIOUS
<1> USE DEF LocalInv, RowInv, MapInv, RequestInv, ReturnedInv, TypeOK, Open, Terminal,
            PC, StartPC, WaitedPC, HoldPC,
            rowVars, slotVars, stopVars, cancelVars, startVars, hostVars
<1>1. ASSUME NEW t \in Trigger, Start(t)
     PROVE  RequestInv' /\ ReturnedInv'
  BY <1>1 DEF Start
<1>2. ASSUME NEW t \in Trigger, NEW a \in Agent, SkipName(t, a)
     PROVE  RequestInv' /\ ReturnedInv'
  BY <1>2 DEF SkipName, Ready
<1>3. ASSUME NEW t \in Trigger, NEW a \in Agent, CreateSession(t, a)
     PROVE  RequestInv' /\ ReturnedInv'
  <2>1. <<t, a>> \in Session
    BY DEF Session
  <2>2. pc[<<t, a>>] = "none"
    BY <2>1, <1>3 DEF CreateSession, LocalInv, RowInv
  <2> QED
    BY <2>1, <2>2, <1>3 DEF CreateSession, Ready, Goto
<1>4. ASSUME NEW s \in Session, Register(s)
     PROVE  RequestInv' /\ ReturnedInv'
  BY <1>4 DEF Register, Goto
<1>5. ASSUME NEW s \in Session, AbortStart(s)
     PROVE  RequestInv' /\ ReturnedInv'
  BY <1>5 DEF AbortStart, Goto, FinishSession
<1>6. ASSUME NEW s \in Session, Acquire(s)
     PROVE  RequestInv' /\ ReturnedInv'
  BY <1>6 DEF Acquire, Goto
<1>7. ASSUME NEW s \in Session, GiveUp(s)
     PROVE  RequestInv' /\ ReturnedInv'
  BY <1>7 DEF GiveUp, Goto
<1>8. ASSUME NEW s \in Session, Bail(s)
     PROVE  RequestInv' /\ ReturnedInv'
  BY <1>8 DEF Bail, Goto, FinishSession
<1>9. ASSUME NEW s \in Session, EnterRun(s)
     PROVE  RequestInv' /\ ReturnedInv'
  BY <1>9 DEF EnterRun, Goto
<1>10. ASSUME NEW s \in Session, ShutOut(s)
     PROVE  RequestInv' /\ ReturnedInv'
  BY <1>10 DEF ShutOut, Goto, FinishSession
<1>11. ASSUME NEW s \in Session, MarkSessionRunning(s)
     PROVE  RequestInv' /\ ReturnedInv'
  BY <1>11 DEF MarkSessionRunning, Goto
<1>12. ASSUME NEW s \in Session, FailIfStillQueued(s)
     PROVE  RequestInv' /\ ReturnedInv'
  BY <1>12 DEF FailIfStillQueued, Goto
<1>13. ASSUME NEW s \in Session, Spawn(s)
     PROVE  RequestInv' /\ ReturnedInv'
  BY <1>13 DEF Spawn, Goto
<1>14. ASSUME NEW s \in Session, ChildEnds(s)
     PROVE  RequestInv' /\ ReturnedInv'
  BY <1>14 DEF ChildEnds
<1>15. ASSUME NEW s \in Session, RunReturns(s)
     PROVE  RequestInv' /\ ReturnedInv'
  BY <1>15 DEF RunReturns, Goto
<1>16. ASSUME NEW s \in Session, RunFailed(s)
     PROVE  RequestInv' /\ ReturnedInv'
  BY <1>16 DEF RunFailed, Goto
<1>17. ASSUME NEW s \in Session, ResolveReply(s)
     PROVE  RequestInv' /\ ReturnedInv'
  BY <1>17 DEF ResolveReply, Goto
<1>18. ASSUME NEW s \in Session, AgentPosted(s)
     PROVE  RequestInv' /\ ReturnedInv'
  BY <1>18 DEF AgentPosted, Goto
<1>19. ASSUME NEW s \in Session, PostReply(s)
     PROVE  RequestInv' /\ ReturnedInv'
  BY <1>19 DEF PostReply, Goto
<1>20. ASSUME NEW s \in Session, AppendReply(s)
     PROVE  RequestInv' /\ ReturnedInv'
  BY <1>20 DEF AppendReply, Goto
<1>21. ASSUME NEW s \in Session, LinkReply(s)
     PROVE  RequestInv' /\ ReturnedInv'
  BY <1>21 DEF LinkReply, Goto
<1>22. ASSUME NEW s \in Session, Finish(s)
     PROVE  RequestInv' /\ ReturnedInv'
  BY <1>22 DEF Finish, Goto, FinishSession
<1>23. ASSUME NEW s \in Session, Unregister(s)
     PROVE  RequestInv' /\ ReturnedInv'
  BY <1>23 DEF Unregister, Goto
<1>24. ASSUME NEW s \in Session, Release(s)
     PROVE  RequestInv' /\ ReturnedInv'
  BY <1>24 DEF Release, Goto
<1>25. ASSUME NEW s \in Session, WgDone(s)
     PROVE  RequestInv' /\ ReturnedInv'
  BY <1>25 DEF WgDone, Goto
<1>26. ASSUME NEW s \in Session, OrphanEnds(s)
     PROVE  RequestInv' /\ ReturnedInv'
  BY <1>26 DEF OrphanEnds
<1>27. ASSUME NEW c \in Canceler, NEW s \in Session, CancelReads(c, s)
     PROVE  RequestInv' /\ ReturnedInv'
  BY <1>27 DEF CancelReads
<1>28. ASSUME NEW c \in Canceler, CancelLooksUp(c)
     PROVE  RequestInv' /\ ReturnedInv'
  BY <1>28 DEF CancelLooksUp
<1>29. ASSUME NEW c \in Canceler, CancelFires(c)
     PROVE  RequestInv' /\ ReturnedInv'
  BY <1>29 DEF CancelFires, CancelReturns
<1>30. ASSUME NEW c \in Canceler, CancelWrites(c)
     PROVE  RequestInv' /\ ReturnedInv'
  BY <1>30 DEF CancelWrites, FinishSession, CancelReturns
<1>31. ASSUME NEW k \in Stopper, ShutdownFirst(k)
     PROVE  RequestInv' /\ ReturnedInv'
  BY <1>31 DEF ShutdownFirst
<1>32. ASSUME NEW k \in Stopper, ShutdownJoins(k)
     PROVE  RequestInv' /\ ReturnedInv'
  BY <1>32 DEF ShutdownJoins
<1>33. ASSUME NEW k \in Stopper, ShutdownCancels(k)
     PROVE  RequestInv' /\ ReturnedInv'
  BY <1>33 DEF ShutdownCancels
<1>34. ASSUME NEW k \in Stopper, ShutdownSweeps(k)
     PROVE  RequestInv' /\ ReturnedInv'
  BY <1>34 DEF ShutdownSweeps, FinishSession
<1>35. ASSUME NEW k \in Stopper, ShutdownSwept(k)
     PROVE  RequestInv' /\ ReturnedInv'
  BY <1>35 DEF ShutdownSwept
<1>36. ASSUME NEW k \in Stopper, WaitReturns(k)
     PROVE  RequestInv' /\ ReturnedInv'
  <2>1. \A s \in Session : pc[s] \notin WaitedPC
    BY <1>36, NoneWaits DEF WaitReturns, CountInv
  <2> QED
    BY <2>1, <1>36 DEF WaitReturns
<1>37. ASSUME Exit
     PROVE  RequestInv' /\ ReturnedInv'
  BY <1>37 DEF Exit, ProcessEnds
<1>38. ASSUME Crash
     PROVE  RequestInv' /\ ReturnedInv'
  BY <1>38 DEF Crash, ProcessEnds
<1>39. ASSUME Boot
     PROVE  RequestInv' /\ ReturnedInv'
  BY <1>39 DEF Boot
<1>40. ASSUME UNCHANGED vars
     PROVE  RequestInv' /\ ReturnedInv'
  BY <1>40 DEF vars
<1>. QED
  BY Zenon, <1>1, <1>2, <1>3, <1>4, <1>5, <1>6, <1>7, <1>8, <1>9, <1>10, <1>11, <1>12, <1>13, <1>14, <1>15, <1>16, <1>17, <1>18, <1>19, <1>20, <1>21, <1>22, <1>23, <1>24, <1>25, <1>26, <1>27, <1>28, <1>29, <1>30, <1>31, <1>32, <1>33, <1>34, <1>35, <1>36, <1>37, <1>38, <1>39, <1>40
  DEF Next, StartLoop, Goroutine, Cancel, Shutdown

----------------------------------------------------------------------------
LEMMA InitInv == Init => IInv
<1> SUFFICES ASSUME Init PROVE IInv
  OBVIOUS
<1>1. TypeOK
  BY DEF Init, TypeOK, PC
<1>2. LocalInv
  BY DEF Init, LocalInv, RowInv, MapInv, AgentInv, EarlyPC, AgentPC, RepliedPC, RunPC, Terminal
<1>3. RequestInv /\ ReturnedInv /\ OwnInv
  BY DEF Init, RequestInv, ReturnedInv, OwnInv, OwnRow, PendingPC, Terminal
<1>4. CountInv
  <2>1. \A s \in Session : pc[s] \notin HoldPC /\ pc[s] \notin WaitedPC
    BY DEF Init, HoldPC, WaitedPC, Terminal
  <2>2. Holders = 0 /\ Waited = 0
    BY <2>1, CountEmpty DEF Holders, Waited
  <2> QED
    BY <2>2, SlotsAssumption DEF Init, CountInv
<1> QED
  BY <1>1, <1>2, <1>3, <1>4 DEF IInv

LEMMA StepInv == IInv /\ [Next]_vars => IInv'
  BY TypeStep, LocalStep, OwnStep, RequestStep, CountStep DEF IInv

\* The invariant holds in every state of every behaviour of the manager.
THEOREM Invariance == Spec => []IInv
  BY InitInv, StepInv, PTL DEF Spec

\* Every variable keeps its type: in particular neither the semaphore nor the
\* WaitGroup is ever taken below zero.
THEOREM TypeCorrect == Spec => []TypeOK
<1>1. IInv => TypeOK
  BY DEF IInv
<1> QED
  BY <1>1, Invariance, PTL

\* The slots handed out are those of the goroutines that will give them back,
\* and no more agents run at a time than MaxConcurrentSessions.
THEOREM SlotsAreBounded == Spec => []SlotsBounded
<1>1. ASSUME IInv PROVE SlotsBounded
  <2> DEFINE H == {s \in Session : pc[s] \in HoldPC}
             R == {s \in Session : Running(s)}
  <2>1. sem = Cardinality(H) /\ Cardinality(H) <= MaxConcurrentSessions
    BY <1>1 DEF IInv, CountInv, Holders, Count
  <2>2. R \subseteq H
    BY <1>1 DEF IInv, LocalInv, AgentInv, Running, HoldPC
  <2>3. IsFiniteSet(H)
    BY FiniteAssumption, FS_Subset DEF Session
  <2>4. Cardinality(R) <= Cardinality(H) /\ IsFiniteSet(R)
    BY <2>2, <2>3, FS_Subset
  <2>5. Cardinality(R) \in Nat /\ Cardinality(H) \in Nat
    BY <2>3, <2>4, FS_CardinalityType
  <2> QED
    BY <2>1, <2>4, <2>5, SlotsAssumption DEF SlotsBounded
<1> QED
  BY <1>1, Invariance, PTL

\* A running agent is always in reach of Cancel and Shutdown.
THEOREM LiveStaysCancelable == Spec => []LiveIsCancelable
<1>1. IInv => LiveIsCancelable
  BY DEF IInv, LocalInv, MapInv, AgentInv, LiveIsCancelable, Running, RunPC, Terminal
<1> QED
  BY <1>1, Invariance, PTL

\* No interleaving leaves an open row without a goroutine to finish it.
THEOREM NoRowIsStuck == Spec => []NoStuckRow
<1>1. IInv => NoStuckRow
  BY DEF IInv, LocalInv, RowInv, NoStuckRow, Open, Terminal
<1> QED
  BY <1>1, Invariance, PTL

\* A session finished before it was started ran no agent and posted nothing.
THEOREM UnstartedNeverRan == Spec => []NeverStartedNeverRan
<1>1. IInv => NeverStartedNeverRan
  BY DEF IInv, LocalInv, AgentInv, NeverStartedNeverRan
<1> QED
  BY <1>1, Invariance, PTL

\* ShutdownAndWait is a barrier for every caller, over every registered session.
THEOREM ShutdownIsBarrier == Spec => []ShutdownBarrier
<1>1. ASSUME IInv, NEW k \in Stopper, kpc[k] = "returned", NEW s \in Session
      PROVE  /\ pc[s] \notin WaitedPC /\ ~Running(s)
             /\ row[s] \in Open => pc[s] \in StartPC \/ s \in lost
  <2>1. pc[s] \notin WaitedPC /\ up
    BY <1>1 DEF IInv, ReturnedInv, RequestInv
  <2>2. ~Running(s)
    BY <1>1, <2>1 DEF IInv, LocalInv, AgentInv, Running, WaitedPC, HoldPC
  <2>3. pc[s] \in StartPC \cup {"none", "done"}
    BY <1>1, <2>1 DEF IInv, TypeOK, PC
  <2> QED
    BY <1>1, <2>1, <2>2, <2>3 DEF IInv, LocalInv, RowInv, Open, Terminal
<1>2. IInv => ShutdownBarrier
  BY <1>1 DEF ShutdownBarrier
<1> QED
  BY <1>2, Invariance, PTL

----------------------------------------------------------------------------
(* Steps. *)

FinalStep ==
    \A s \in Session : row[s] \in Terminal =>
        /\ row'[s] \in Terminal
        /\ s \in started' => s \in started
        /\ row'[s] # row[s] =>
            \/ row'[s] = "canceled" /\ \E c \in Canceler : s \in target[c]
            \/ row[s] = "canceled" /\ row'[s] = pc[s]

\* No step takes a final row back, starts its session, or gives it another final
\* status other than by a Cancel or by the end of a run that was canceled.
LEMMA NextIsFinal == TypeOK /\ OwnInv /\ [Next]_vars => FinalStep
<1> SUFFICES ASSUME TypeOK, OwnInv, [Next]_vars PROVE FinalStep
  OBVIOUS
<1> USE DEF FinalStep, OwnInv, OwnRow, PendingPC, TypeOK, Open, Terminal,
            rowVars, slotVars, stopVars, cancelVars, startVars, hostVars
<1>1. ASSUME NEW t \in Trigger, Start(t)
     PROVE  FinalStep
  BY <1>1 DEF Start
<1>2. ASSUME NEW t \in Trigger, NEW a \in Agent, SkipName(t, a)
     PROVE  FinalStep
  BY <1>2 DEF SkipName, Ready
<1>3. ASSUME NEW t \in Trigger, NEW a \in Agent, CreateSession(t, a)
     PROVE  FinalStep
  <2>1. PICK s \in Session :
          row[s] = "none" /\ row' = [row EXCEPT ![s] = "queued"]
    BY <1>3 DEF CreateSession, Session
  <2> QED
    BY <2>1, <1>3 DEF CreateSession
<1>4. ASSUME NEW s \in Session, Register(s)
     PROVE  FinalStep
  BY <1>4 DEF Register, Goto
<1>5. ASSUME NEW s \in Session, AbortStart(s)
     PROVE  FinalStep
  BY <1>5 DEF AbortStart, Goto, FinishSession
<1>6. ASSUME NEW s \in Session, Acquire(s)
     PROVE  FinalStep
  BY <1>6 DEF Acquire, Goto
<1>7. ASSUME NEW s \in Session, GiveUp(s)
     PROVE  FinalStep
  BY <1>7 DEF GiveUp, Goto
<1>8. ASSUME NEW s \in Session, Bail(s)
     PROVE  FinalStep
  BY <1>8 DEF Bail, Goto, FinishSession
<1>9. ASSUME NEW s \in Session, EnterRun(s)
     PROVE  FinalStep
  BY <1>9 DEF EnterRun, Goto
<1>10. ASSUME NEW s \in Session, ShutOut(s)
     PROVE  FinalStep
  BY <1>10 DEF ShutOut, Goto, FinishSession
<1>11. ASSUME NEW s \in Session, MarkSessionRunning(s)
     PROVE  FinalStep
  BY <1>11 DEF MarkSessionRunning, Goto
<1>12. ASSUME NEW s \in Session, FailIfStillQueued(s)
     PROVE  FinalStep
  BY <1>12 DEF FailIfStillQueued, Goto
<1>13. ASSUME NEW s \in Session, Spawn(s)
     PROVE  FinalStep
  BY <1>13 DEF Spawn, Goto
<1>14. ASSUME NEW s \in Session, ChildEnds(s)
     PROVE  FinalStep
  BY <1>14 DEF ChildEnds
<1>15. ASSUME NEW s \in Session, RunReturns(s)
     PROVE  FinalStep
  BY <1>15 DEF RunReturns, Goto
<1>16. ASSUME NEW s \in Session, RunFailed(s)
     PROVE  FinalStep
  BY <1>16 DEF RunFailed, Goto
<1>17. ASSUME NEW s \in Session, ResolveReply(s)
     PROVE  FinalStep
  BY <1>17 DEF ResolveReply, Goto
<1>18. ASSUME NEW s \in Session, AgentPosted(s)
     PROVE  FinalStep
  BY <1>18 DEF AgentPosted, Goto
<1>19. ASSUME NEW s \in Session, PostReply(s)
     PROVE  FinalStep
  BY <1>19 DEF PostReply, Goto
<1>20. ASSUME NEW s \in Session, AppendReply(s)
     PROVE  FinalStep
  BY <1>20 DEF AppendReply, Goto
<1>21. ASSUME NEW s \in Session, LinkReply(s)
     PROVE  FinalStep
  BY <1>21 DEF LinkReply, Goto
<1>22. ASSUME NEW s \in Session, Finish(s)
     PROVE  FinalStep
  BY <1>22 DEF Finish, Goto, FinishSession
<1>23. ASSUME NEW s \in Session, Unregister(s)
     PROVE  FinalStep
  BY <1>23 DEF Unregister, Goto
<1>24. ASSUME NEW s \in Session, Release(s)
     PROVE  FinalStep
  BY <1>24 DEF Release, Goto
<1>25. ASSUME NEW s \in Session, WgDone(s)
     PROVE  FinalStep
  BY <1>25 DEF WgDone, Goto
<1>26. ASSUME NEW s \in Session, OrphanEnds(s)
     PROVE  FinalStep
  BY <1>26 DEF OrphanEnds
<1>27. ASSUME NEW c \in Canceler, NEW s \in Session, CancelReads(c, s)
     PROVE  FinalStep
  BY <1>27 DEF CancelReads
<1>28. ASSUME NEW c \in Canceler, CancelLooksUp(c)
     PROVE  FinalStep
  BY <1>28 DEF CancelLooksUp
<1>29. ASSUME NEW c \in Canceler, CancelFires(c)
     PROVE  FinalStep
  BY <1>29 DEF CancelFires, CancelReturns
<1>30. ASSUME NEW c \in Canceler, CancelWrites(c)
     PROVE  FinalStep
  BY <1>30 DEF CancelWrites, FinishSession, CancelReturns
<1>31. ASSUME NEW k \in Stopper, ShutdownFirst(k)
     PROVE  FinalStep
  BY <1>31 DEF ShutdownFirst
<1>32. ASSUME NEW k \in Stopper, ShutdownJoins(k)
     PROVE  FinalStep
  BY <1>32 DEF ShutdownJoins
<1>33. ASSUME NEW k \in Stopper, ShutdownCancels(k)
     PROVE  FinalStep
  BY <1>33 DEF ShutdownCancels
<1>34. ASSUME NEW k \in Stopper, ShutdownSweeps(k)
     PROVE  FinalStep
  BY <1>34 DEF ShutdownSweeps, FinishSession
<1>35. ASSUME NEW k \in Stopper, ShutdownSwept(k)
     PROVE  FinalStep
  BY <1>35 DEF ShutdownSwept
<1>36. ASSUME NEW k \in Stopper, WaitReturns(k)
     PROVE  FinalStep
  BY <1>36 DEF WaitReturns
<1>37. ASSUME Exit
     PROVE  FinalStep
  BY <1>37 DEF Exit, ProcessEnds
<1>38. ASSUME Crash
     PROVE  FinalStep
  BY <1>38 DEF Crash, ProcessEnds
<1>39. ASSUME Boot
     PROVE  FinalStep
  BY <1>39 DEF Boot
<1>40. ASSUME UNCHANGED vars
     PROVE  FinalStep
  BY <1>40 DEF vars
<1>. QED
  BY Zenon, <1>1, <1>2, <1>3, <1>4, <1>5, <1>6, <1>7, <1>8, <1>9, <1>10, <1>11, <1>12, <1>13, <1>14, <1>15, <1>16, <1>17, <1>18, <1>19, <1>20, <1>21, <1>22, <1>23, <1>24, <1>25, <1>26, <1>27, <1>28, <1>29, <1>30, <1>31, <1>32, <1>33, <1>34, <1>35, <1>36, <1>37, <1>38, <1>39, <1>40
  DEF Next, StartLoop, Goroutine, Cancel, Shutdown

\* A final row stays final, and if it was never started it never will be; what a
\* run ended with, only a Cancel that read the row open replaces, and only a
\* canceled one, the end of its run (FinishSession, Cancel, run).
THEOREM FinalStaysFinal == Spec => FinishedStaysFinished
<1>1. IInv /\ [Next]_vars => [FinalStep]_vars
  BY NextIsFinal DEF IInv
<1> QED
  BY <1>1, Invariance, PTL DEF Spec, FinishedStaysFinished, FinalStep

-----------------------------------------------------------------------------
(* A session that a shutdown finds not running. *)

\* x has a row and no run, and is not started: its goroutine is gone, or the
\* manager is closed.
Late(x) ==
    /\ x \notin started /\ row[x] # "none"
    /\ pc[x] = "done" \/ (closed /\ pc[x] \notin RunPC)

\* No step ends that: the closed manager lets nothing run, and when the process
\* ends so does the goroutine.
LEMMA LateStep ==
    ASSUME NEW x \in Session, TypeOK, LocalInv, Late(x), [Next]_vars
    PROVE  Late(x)'
<1>0. pc[x] # "none"
  BY DEF Late, LocalInv, RowInv
<1> USE DEF Late, RunPC, TypeOK, Terminal,
            rowVars, slotVars, stopVars, cancelVars, startVars, hostVars
<1>1. ASSUME NEW t \in Trigger, Start(t)
     PROVE  Late(x)'
  BY <1>1 DEF Start
<1>2. ASSUME NEW t \in Trigger, NEW a \in Agent, SkipName(t, a)
     PROVE  Late(x)'
  BY <1>2 DEF SkipName, Ready
<1>3. ASSUME NEW t \in Trigger, NEW a \in Agent, CreateSession(t, a)
     PROVE  Late(x)'
  <2>1. PICK s \in Session : row[s] = "none" /\ pc' = [pc EXCEPT ![s] = "new"]
    BY <1>3 DEF CreateSession, Session, Goto
  <2>2. s # x
    BY <2>1 DEF Late
  <2> QED
    BY <2>1, <2>2, <1>3 DEF CreateSession
<1>4. ASSUME NEW s \in Session, Register(s)
     PROVE  Late(x)'
  BY <1>4 DEF Register, Goto
<1>5. ASSUME NEW s \in Session, AbortStart(s)
     PROVE  Late(x)'
  BY <1>5 DEF AbortStart, Goto, FinishSession
<1>6. ASSUME NEW s \in Session, Acquire(s)
     PROVE  Late(x)'
  BY <1>6 DEF Acquire, Goto
<1>7. ASSUME NEW s \in Session, GiveUp(s)
     PROVE  Late(x)'
  BY <1>7 DEF GiveUp, Goto
<1>8. ASSUME NEW s \in Session, Bail(s)
     PROVE  Late(x)'
  BY <1>8 DEF Bail, Goto, FinishSession
<1>9. ASSUME NEW s \in Session, EnterRun(s)
     PROVE  Late(x)'
  BY <1>9 DEF EnterRun, Goto
<1>10. ASSUME NEW s \in Session, ShutOut(s)
     PROVE  Late(x)'
  BY <1>10 DEF ShutOut, Goto, FinishSession
<1>11. ASSUME NEW s \in Session, MarkSessionRunning(s)
     PROVE  Late(x)'
  BY <1>11 DEF MarkSessionRunning, Goto
<1>12. ASSUME NEW s \in Session, FailIfStillQueued(s)
     PROVE  Late(x)'
  BY <1>12 DEF FailIfStillQueued, Goto
<1>13. ASSUME NEW s \in Session, Spawn(s)
     PROVE  Late(x)'
  BY <1>13 DEF Spawn, Goto
<1>14. ASSUME NEW s \in Session, ChildEnds(s)
     PROVE  Late(x)'
  BY <1>14 DEF ChildEnds
<1>15. ASSUME NEW s \in Session, RunReturns(s)
     PROVE  Late(x)'
  BY <1>15 DEF RunReturns, Goto
<1>16. ASSUME NEW s \in Session, RunFailed(s)
     PROVE  Late(x)'
  BY <1>16 DEF RunFailed, Goto
<1>17. ASSUME NEW s \in Session, ResolveReply(s)
     PROVE  Late(x)'
  BY <1>17 DEF ResolveReply, Goto
<1>18. ASSUME NEW s \in Session, AgentPosted(s)
     PROVE  Late(x)'
  BY <1>18 DEF AgentPosted, Goto
<1>19. ASSUME NEW s \in Session, PostReply(s)
     PROVE  Late(x)'
  BY <1>19 DEF PostReply, Goto
<1>20. ASSUME NEW s \in Session, AppendReply(s)
     PROVE  Late(x)'
  BY <1>20 DEF AppendReply, Goto
<1>21. ASSUME NEW s \in Session, LinkReply(s)
     PROVE  Late(x)'
  BY <1>21 DEF LinkReply, Goto
<1>22. ASSUME NEW s \in Session, Finish(s)
     PROVE  Late(x)'
  BY <1>22 DEF Finish, Goto, FinishSession
<1>23. ASSUME NEW s \in Session, Unregister(s)
     PROVE  Late(x)'
  BY <1>23 DEF Unregister, Goto
<1>24. ASSUME NEW s \in Session, Release(s)
     PROVE  Late(x)'
  BY <1>24 DEF Release, Goto
<1>25. ASSUME NEW s \in Session, WgDone(s)
     PROVE  Late(x)'
  BY <1>25 DEF WgDone, Goto
<1>26. ASSUME NEW s \in Session, OrphanEnds(s)
     PROVE  Late(x)'
  BY <1>26 DEF OrphanEnds
<1>27. ASSUME NEW c \in Canceler, NEW s \in Session, CancelReads(c, s)
     PROVE  Late(x)'
  BY <1>27 DEF CancelReads
<1>28. ASSUME NEW c \in Canceler, CancelLooksUp(c)
     PROVE  Late(x)'
  BY <1>28 DEF CancelLooksUp
<1>29. ASSUME NEW c \in Canceler, CancelFires(c)
     PROVE  Late(x)'
  BY <1>29 DEF CancelFires, CancelReturns
<1>30. ASSUME NEW c \in Canceler, CancelWrites(c)
     PROVE  Late(x)'
  BY <1>30 DEF CancelWrites, FinishSession, CancelReturns
<1>31. ASSUME NEW k \in Stopper, ShutdownFirst(k)
     PROVE  Late(x)'
  BY <1>31 DEF ShutdownFirst
<1>32. ASSUME NEW k \in Stopper, ShutdownJoins(k)
     PROVE  Late(x)'
  BY <1>32 DEF ShutdownJoins
<1>33. ASSUME NEW k \in Stopper, ShutdownCancels(k)
     PROVE  Late(x)'
  BY <1>33 DEF ShutdownCancels
<1>34. ASSUME NEW k \in Stopper, ShutdownSweeps(k)
     PROVE  Late(x)'
  BY <1>34 DEF ShutdownSweeps, FinishSession
<1>35. ASSUME NEW k \in Stopper, ShutdownSwept(k)
     PROVE  Late(x)'
  BY <1>35 DEF ShutdownSwept
<1>36. ASSUME NEW k \in Stopper, WaitReturns(k)
     PROVE  Late(x)'
  BY <1>36 DEF WaitReturns
<1>37. ASSUME Exit
     PROVE  Late(x)'
  BY <1>0, <1>37 DEF Exit, ProcessEnds
<1>38. ASSUME Crash
     PROVE  Late(x)'
  BY <1>0, <1>38 DEF Crash, ProcessEnds
<1>39. ASSUME Boot
     PROVE  Late(x)'
  BY <1>39 DEF Boot
<1>40. ASSUME UNCHANGED vars
     PROVE  Late(x)'
  BY <1>40 DEF vars
<1>. QED
  BY Zenon, <1>1, <1>2, <1>3, <1>4, <1>5, <1>6, <1>7, <1>8, <1>9, <1>10, <1>11, <1>12, <1>13, <1>14, <1>15, <1>16, <1>17, <1>18, <1>19, <1>20, <1>21, <1>22, <1>23, <1>24, <1>25, <1>26, <1>27, <1>28, <1>29, <1>30, <1>31, <1>32, <1>33, <1>34, <1>35, <1>36, <1>37, <1>38, <1>39, <1>40
  DEF Next, StartLoop, Goroutine, Cancel, Shutdown

\* What has a row and is not running when the manager is closed is never started
\* (Start, dispatch, Shutdown, Reconcile).
THEOREM ClosedStartsNothing == Spec => ClosedStartsNoMore
<1>1. ASSUME NEW x \in Session
      PROVE  Spec => UnstartedOnceClosed(x)
  <2>1. IInv /\ closed /\ row[x] # "none" /\ x \notin running \cup started => Late(x)
    BY DEF IInv, LocalInv, MapInv, Late
  <2>2. IInv /\ Late(x) /\ [Next]_vars => Late(x)'
    BY LateStep DEF IInv
  <2>3. Late(x) => x \notin started
    BY DEF Late
  <2> QED
    BY <2>1, <2>2, <2>3, Invariance, PTL DEF Spec, UnstartedOnceClosed
<1> QED
  BY <1>1 DEF ClosedStartsNoMore

-----------------------------------------------------------------------------
(* A canceled run. *)

\* Before a run's reply is due; past the point where it posts it or not.
DuePC == {"mark", "prompt", "exec", "err", "reply", "grace", "post"}
PastPC == {"failq", "unreg", "release", "exit", "done"} \cup Terminal

\* The run of x has posted nothing and will not.
Silent(x) ==
    /\ x \notin posted
    /\ (CtxDone(x) /\ pc[x] \in DuePC) \/ pc[x] \in PastPC

\* No step ends that: a context stays canceled as long as its run is there.
LEMMA SilentStep ==
    ASSUME NEW x \in Session, TypeOK, LocalInv, Silent(x), [Next]_vars
    PROVE  Silent(x)'
<1>0. pc[x] = "done" => row[x] # "none"
  BY DEF LocalInv, RowInv
<1> USE DEF Silent, DuePC, PastPC, CtxDone, TypeOK, Terminal,
            rowVars, slotVars, stopVars, cancelVars, startVars, hostVars
<1>1. ASSUME NEW t \in Trigger, Start(t)
     PROVE  Silent(x)'
  BY <1>1 DEF Start
<1>2. ASSUME NEW t \in Trigger, NEW a \in Agent, SkipName(t, a)
     PROVE  Silent(x)'
  BY <1>2 DEF SkipName, Ready
<1>3. ASSUME NEW t \in Trigger, NEW a \in Agent, CreateSession(t, a)
     PROVE  Silent(x)'
  <2>1. PICK s \in Session : row[s] = "none" /\ pc' = [pc EXCEPT ![s] = "new"]
    BY <1>3 DEF CreateSession, Session, Goto
  <2>2. s # x
    BY <1>0, <2>1, <1>3 DEF CreateSession, LocalInv, RowInv
  <2> QED
    BY <2>1, <2>2, <1>3 DEF CreateSession
<1>4. ASSUME NEW s \in Session, Register(s)
     PROVE  Silent(x)'
  BY <1>4 DEF Register, Goto
<1>5. ASSUME NEW s \in Session, AbortStart(s)
     PROVE  Silent(x)'
  BY <1>5 DEF AbortStart, Goto, FinishSession
<1>6. ASSUME NEW s \in Session, Acquire(s)
     PROVE  Silent(x)'
  BY <1>6 DEF Acquire, Goto
<1>7. ASSUME NEW s \in Session, GiveUp(s)
     PROVE  Silent(x)'
  BY <1>7 DEF GiveUp, Goto
<1>8. ASSUME NEW s \in Session, Bail(s)
     PROVE  Silent(x)'
  BY <1>8 DEF Bail, Goto, FinishSession
<1>9. ASSUME NEW s \in Session, EnterRun(s)
     PROVE  Silent(x)'
  BY <1>9 DEF EnterRun, Goto
<1>10. ASSUME NEW s \in Session, ShutOut(s)
     PROVE  Silent(x)'
  BY <1>10 DEF ShutOut, Goto, FinishSession
<1>11. ASSUME NEW s \in Session, MarkSessionRunning(s)
     PROVE  Silent(x)'
  BY <1>11 DEF MarkSessionRunning, Goto
<1>12. ASSUME NEW s \in Session, FailIfStillQueued(s)
     PROVE  Silent(x)'
  BY <1>12 DEF FailIfStillQueued, Goto
<1>13. ASSUME NEW s \in Session, Spawn(s)
     PROVE  Silent(x)'
  BY <1>13 DEF Spawn, Goto
<1>14. ASSUME NEW s \in Session, ChildEnds(s)
     PROVE  Silent(x)'
  BY <1>14 DEF ChildEnds
<1>15. ASSUME NEW s \in Session, RunReturns(s)
     PROVE  Silent(x)'
  BY <1>15 DEF RunReturns, Goto
<1>16. ASSUME NEW s \in Session, RunFailed(s)
     PROVE  Silent(x)'
  BY <1>16 DEF RunFailed, Goto
<1>17. ASSUME NEW s \in Session, ResolveReply(s)
     PROVE  Silent(x)'
  BY <1>17 DEF ResolveReply, Goto
<1>18. ASSUME NEW s \in Session, AgentPosted(s)
     PROVE  Silent(x)'
  BY <1>18 DEF AgentPosted, Goto
<1>19. ASSUME NEW s \in Session, PostReply(s)
     PROVE  Silent(x)'
  BY <1>19 DEF PostReply, Goto
<1>20. ASSUME NEW s \in Session, AppendReply(s)
     PROVE  Silent(x)'
  BY <1>20 DEF AppendReply, Goto
<1>21. ASSUME NEW s \in Session, LinkReply(s)
     PROVE  Silent(x)'
  BY <1>21 DEF LinkReply, Goto
<1>22. ASSUME NEW s \in Session, Finish(s)
     PROVE  Silent(x)'
  BY <1>22 DEF Finish, Goto, FinishSession
<1>23. ASSUME NEW s \in Session, Unregister(s)
     PROVE  Silent(x)'
  BY <1>23 DEF Unregister, Goto
<1>24. ASSUME NEW s \in Session, Release(s)
     PROVE  Silent(x)'
  BY <1>24 DEF Release, Goto
<1>25. ASSUME NEW s \in Session, WgDone(s)
     PROVE  Silent(x)'
  BY <1>25 DEF WgDone, Goto
<1>26. ASSUME NEW s \in Session, OrphanEnds(s)
     PROVE  Silent(x)'
  BY <1>26 DEF OrphanEnds
<1>27. ASSUME NEW c \in Canceler, NEW s \in Session, CancelReads(c, s)
     PROVE  Silent(x)'
  BY <1>27 DEF CancelReads
<1>28. ASSUME NEW c \in Canceler, CancelLooksUp(c)
     PROVE  Silent(x)'
  BY <1>28 DEF CancelLooksUp
<1>29. ASSUME NEW c \in Canceler, CancelFires(c)
     PROVE  Silent(x)'
  BY <1>29 DEF CancelFires, CancelReturns
<1>30. ASSUME NEW c \in Canceler, CancelWrites(c)
     PROVE  Silent(x)'
  BY <1>30 DEF CancelWrites, FinishSession, CancelReturns
<1>31. ASSUME NEW k \in Stopper, ShutdownFirst(k)
     PROVE  Silent(x)'
  BY <1>31 DEF ShutdownFirst
<1>32. ASSUME NEW k \in Stopper, ShutdownJoins(k)
     PROVE  Silent(x)'
  BY <1>32 DEF ShutdownJoins
<1>33. ASSUME NEW k \in Stopper, ShutdownCancels(k)
     PROVE  Silent(x)'
  BY <1>33 DEF ShutdownCancels
<1>34. ASSUME NEW k \in Stopper, ShutdownSweeps(k)
     PROVE  Silent(x)'
  BY <1>34 DEF ShutdownSweeps, FinishSession
<1>35. ASSUME NEW k \in Stopper, ShutdownSwept(k)
     PROVE  Silent(x)'
  BY <1>35 DEF ShutdownSwept
<1>36. ASSUME NEW k \in Stopper, WaitReturns(k)
     PROVE  Silent(x)'
  BY <1>36 DEF WaitReturns
<1>37. ASSUME Exit
     PROVE  Silent(x)'
  BY <1>37 DEF Exit, ProcessEnds
<1>38. ASSUME Crash
     PROVE  Silent(x)'
  BY <1>38 DEF Crash, ProcessEnds
<1>39. ASSUME Boot
     PROVE  Silent(x)'
  BY <1>39 DEF Boot
<1>40. ASSUME UNCHANGED vars
     PROVE  Silent(x)'
  BY <1>40 DEF vars
<1>. QED
  BY Zenon, <1>1, <1>2, <1>3, <1>4, <1>5, <1>6, <1>7, <1>8, <1>9, <1>10, <1>11, <1>12, <1>13, <1>14, <1>15, <1>16, <1>17, <1>18, <1>19, <1>20, <1>21, <1>22, <1>23, <1>24, <1>25, <1>26, <1>27, <1>28, <1>29, <1>30, <1>31, <1>32, <1>33, <1>34, <1>35, <1>36, <1>37, <1>38, <1>39, <1>40
  DEF Next, StartLoop, Goroutine, Cancel, Shutdown

\* A run that is canceled before its reply is due posts none (run,
\* resolveReply, postReply).
THEOREM CanceledRunStaysSilent == Spec => CanceledRunIsSilent
<1>1. ASSUME NEW x \in Session
      PROVE  Spec => SilentOnceCanceled(x)
  <2>1. CtxDone(x) /\ pc[x] \in {"mark", "prompt", "exec", "err", "reply", "grace", "post"}
          /\ x \notin posted => Silent(x)
    BY DEF Silent, DuePC
  <2>2. IInv /\ Silent(x) /\ [Next]_vars => Silent(x)'
    BY SilentStep DEF IInv
  <2>3. Silent(x) => x \notin posted
    BY DEF Silent
  <2> QED
    BY <2>1, <2>2, <2>3, Invariance, PTL DEF Spec, SilentOnceCanceled
<1> QED
  BY <1>1 DEF CanceledRunIsSilent
=============================================================================
