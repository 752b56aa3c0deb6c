----------------------- MODULE SessionLifecycle_proofs -----------------------
(* The session manager implements SessionLifecycle: each of its steps is one *)
(* of the lifecycle's, or leaves what the lifecycle speaks of alone.         *)
EXTENDS AgentSessions_proofs

\* Writing a final status settles an open row, and changes nothing when the row
\* is final already or the write is lost.
LEMMA FinishSettles ==
  ASSUME TypeOK, NEW s \in Session, NEW f \in Terminal, FinishSession(s, f),
         row[s] # "none", UNCHANGED <<proc, posted, started>>
  PROVE  [Lifecycle!Next]_(Lifecycle!vars)
<1> DEFINE Old(r) == CASE row[r] = "none" -> "absent"
                      [] row[r] \in Open -> row[r]
                      [] OTHER -> "settled"
           New(r) == CASE row'[r] = "none" -> "absent"
                      [] row'[r] \in Open -> row'[r]
                      [] OTHER -> "settled"
<1>1. CASE row'[s] = row[s] \/ row[s] \in Terminal
  <2>1. row' = row \/ (row' = [row EXCEPT ![s] = f] /\ row[s] \in Terminal)
    BY <1>1 DEF FinishSession, TypeOK
  <2>2. UNCHANGED <<proc, posted, started>>
    OBVIOUS
  <2>3. CASE row' = row
    BY <2>2, <2>3 DEF Running, Lifecycle!vars
  <2>4. CASE row' = [row EXCEPT ![s] = f] /\ row[s] \in Terminal
    <3>1. /\ row'[s] # "none" /\ row'[s] \notin Open /\ row[s] \notin Open
          /\ \A r \in Session \ {s} : row'[r] = row[r]
      BY <2>4 DEF TypeOK, Open, Terminal
    <3>2. \A r \in Session : /\ row'[r] = "none" <=> row[r] = "none"
                             /\ row'[r] \in Open <=> row[r] \in Open
                             /\ row[r] \in Open => row'[r] = row[r]
      BY <3>1
    <3>3. \A r \in Session : New(r) = Old(r)
      BY <3>2
    <3>4. [r \in Session |-> New(r)] = [r \in Session |-> Old(r)]
      BY Zenon, <3>3
    <3> QED
      BY Zenon, <2>2, <3>4 DEF Running, Lifecycle!vars
  <2> QED
    BY <2>1, <2>3, <2>4
<1>2. CASE row[s] \in Open /\ row'[s] # row[s]
  <2>1. row' = [row EXCEPT ![s] = f] /\ UNCHANGED <<proc, posted, started>>
    BY <1>2 DEF FinishSession
  <2>2. \A r \in Session : New(r) = IF r = s THEN "settled" ELSE Old(r)
    BY <2>1 DEF TypeOK, Open, Terminal
  <2>3. Old(s) \in {"queued", "running"}
    BY <1>2 DEF Open
  <2>4. [r \in Session |-> New(r)] = [[r \in Session |-> Old(r)] EXCEPT ![s] = "settled"]
    <3> HIDE DEF Old, New
    <3> QED
      BY <2>2
  <2>5. [r \in Session |-> Old(r)][s] \in {"queued", "running"}
    BY Zenon, <2>3
  <2>6. Lifecycle!Settle(s)
    BY Zenon, <2>1, <2>4, <2>5 DEF Running, Lifecycle!Settle
  <2> QED
    BY <2>6 DEF Lifecycle!Next
<1> QED
  BY <1>1, <1>2 DEF TypeOK

\* A goroutine about to spawn holds a slot that no running agent uses.
LEMMA FreeSlot ==
  ASSUME TypeOK, LocalInv, CountInv, NEW s \in Session, pc[s] = "prompt"
  PROVE  Cardinality({r \in Session : Running(r)}) < MaxConcurrentSessions
<1> DEFINE H == {r \in Session : pc[r] \in HoldPC}
           R == {r \in Session : Running(r)}
<1>1. IsFiniteSet(H) /\ Cardinality(H) <= MaxConcurrentSessions
  BY FiniteAssumption, FS_Subset DEF Session, CountInv, Holders, Count
<1>2. R \subseteq H /\ s \in H /\ s \notin R
  BY DEF LocalInv, AgentInv, Running, HoldPC
<1>3. /\ IsFiniteSet(R) /\ Cardinality(R) <= Cardinality(H)
      /\ Cardinality(R) = Cardinality(H) => R = H
  BY <1>1, <1>2, FS_Subset
<1>4. Cardinality(R) \in Nat /\ Cardinality(H) \in Nat
  BY <1>1, <1>3, FS_CardinalityType
<1> QED
  BY <1>1, <1>2, <1>3, <1>4, SlotsAssumption

LEMMA SameCardinality == \A S : Lifecycle!Cardinality(S) = Cardinality(S)
  BY DEF Lifecycle!Cardinality, Cardinality

LEMMA InitRefines == Init => Lifecycle!Init
  BY DEF Init, Lifecycle!Init, Running, Open

LEMMA StepRefines == IInv /\ [Next]_vars => [Lifecycle!Next]_(Lifecycle!vars)
<1> SUFFICES ASSUME TypeOK, LocalInv, RequestInv, CountInv, [Next]_vars
             PROVE  [Lifecycle!Next]_(Lifecycle!vars)
  BY DEF IInv
<1> USE DEF TypeOK, Open, Terminal, Running,
            rowVars, slotVars, stopVars, cancelVars, startVars, hostVars
<1>1. ASSUME NEW t \in Trigger, Start(t)
     PROVE  [Lifecycle!Next]_(Lifecycle!vars)
  BY <1>1 DEF Lifecycle!vars, Start
<1>2. ASSUME NEW t \in Trigger, NEW a \in Agent, SkipName(t, a)
     PROVE  [Lifecycle!Next]_(Lifecycle!vars)
  BY <1>2 DEF Lifecycle!vars, SkipName, Ready
<1>3. ASSUME NEW t \in Trigger, NEW a \in Agent, CreateSession(t, a)
     PROVE  [Lifecycle!Next]_(Lifecycle!vars)
  <2>1. PICK s \in Session :
          row[s] = "none" /\ row' = [row EXCEPT ![s] = "queued"]
    BY <1>3 DEF Lifecycle!vars, CreateSession, Session
  <2>2. UNCHANGED <<started, proc, posted>>
    BY <1>3 DEF CreateSession
  <2>3. Lifecycle!Admit(s)
    BY <2>1, <2>2 DEF Lifecycle!Admit
  <2> QED
    BY <2>3 DEF Lifecycle!Next
<1>4. ASSUME NEW s \in Session, Register(s)
     PROVE  [Lifecycle!Next]_(Lifecycle!vars)
  BY <1>4 DEF Lifecycle!vars, Register, Goto
<1>5. ASSUME NEW s \in Session, AbortStart(s)
     PROVE  [Lifecycle!Next]_(Lifecycle!vars)
  <2>1. row[s] # "none" /\ UNCHANGED <<proc, posted, started>>
    BY <1>5 DEF AbortStart, FinishSession, LocalInv, RowInv
  <2>2. \E f \in Terminal : FinishSession(s, f)
    BY <1>5 DEF AbortStart
  <2> QED
    BY <2>1, <2>2, FinishSettles
<1>6. ASSUME NEW s \in Session, Acquire(s)
     PROVE  [Lifecycle!Next]_(Lifecycle!vars)
  BY <1>6 DEF Lifecycle!vars, Acquire, Goto
<1>7. ASSUME NEW s \in Session, GiveUp(s)
     PROVE  [Lifecycle!Next]_(Lifecycle!vars)
  BY <1>7 DEF Lifecycle!vars, GiveUp, Goto
<1>8. ASSUME NEW s \in Session, Bail(s)
     PROVE  [Lifecycle!Next]_(Lifecycle!vars)
  <2>1. row[s] # "none" /\ UNCHANGED <<proc, posted, started>>
    BY <1>8 DEF Bail, FinishSession, LocalInv, RowInv
  <2>2. \E f \in Terminal : FinishSession(s, f)
    BY <1>8 DEF Bail
  <2> QED
    BY <2>1, <2>2, FinishSettles
<1>9. ASSUME NEW s \in Session, EnterRun(s)
     PROVE  [Lifecycle!Next]_(Lifecycle!vars)
  BY <1>9 DEF Lifecycle!vars, EnterRun, Goto
<1>10. ASSUME NEW s \in Session, ShutOut(s)
     PROVE  [Lifecycle!Next]_(Lifecycle!vars)
  <2>1. row[s] # "none" /\ UNCHANGED <<proc, posted, started>>
    BY <1>10 DEF ShutOut, FinishSession, LocalInv, RowInv
  <2>2. \E f \in Terminal : FinishSession(s, f)
    BY <1>10 DEF ShutOut
  <2> QED
    BY <2>1, <2>2, FinishSettles
<1>11. ASSUME NEW s \in Session, MarkSessionRunning(s)
     PROVE  [Lifecycle!Next]_(Lifecycle!vars)
  <2>1. CASE row' = row
    BY <2>1, <1>11 DEF MarkSessionRunning, Lifecycle!vars
  <2>2. CASE row' # row
    <3>1. Lifecycle!Begin(s)
      BY <2>2, <1>11, ZenonT(60) DEF MarkSessionRunning, Lifecycle!Begin
    <3> QED
      BY <3>1 DEF Lifecycle!Next
  <2> QED
    BY <2>1, <2>2
<1>12. ASSUME NEW s \in Session, FailIfStillQueued(s)
     PROVE  [Lifecycle!Next]_(Lifecycle!vars)
  BY <1>12 DEF Lifecycle!vars, FailIfStillQueued, Goto
<1>13. ASSUME NEW s \in Session, Spawn(s)
     PROVE  [Lifecycle!Next]_(Lifecycle!vars)
  <2>1. CASE proc' = proc
    BY <2>1, <1>13 DEF Spawn, Lifecycle!vars
  <2>2. CASE proc' # proc
    <3>1. s \in started /\ proc[s] = "none" /\ proc' = [proc EXCEPT ![s] = "live"]
      BY <2>2, <1>13 DEF Spawn, LocalInv, AgentInv, AgentPC
    <3>2. Cardinality({r \in Session : Running(r)}) < MaxConcurrentSessions
      BY <1>13, FreeSlot DEF Spawn
    <3>3. UNCHANGED <<row, started, posted>>
      BY <1>13 DEF Spawn
    <3>4. {r \in Session : proc'[r] # "none"} = {r \in Session : proc[r] # "none"} \cup {s}
      BY <3>1
    <3>5. {r \in Session : Running(r)}' = {r \in Session : Running(r)} \cup {s}
      BY <3>1
    <3>6. Lifecycle!Spawn(s)
      BY <3>1, <3>2, <3>3, <3>4, <3>5, SameCardinality DEF Lifecycle!Spawn
    <3> QED
      BY <3>6 DEF Lifecycle!Next
  <2> QED
    BY <2>1, <2>2
<1>14. ASSUME NEW s \in Session, ChildEnds(s)
     PROVE  [Lifecycle!Next]_(Lifecycle!vars)
  <2>1. Lifecycle!Reap(s)
    BY <1>14 DEF ChildEnds, Lifecycle!Reap
  <2> QED
    BY <2>1 DEF Lifecycle!Next
<1>15. ASSUME NEW s \in Session, RunReturns(s)
     PROVE  [Lifecycle!Next]_(Lifecycle!vars)
  BY <1>15 DEF Lifecycle!vars, RunReturns, Goto
<1>16. ASSUME NEW s \in Session, RunFailed(s)
     PROVE  [Lifecycle!Next]_(Lifecycle!vars)
  BY <1>16 DEF Lifecycle!vars, RunFailed, Goto
<1>17. ASSUME NEW s \in Session, ResolveReply(s)
     PROVE  [Lifecycle!Next]_(Lifecycle!vars)
  BY <1>17 DEF Lifecycle!vars, ResolveReply, Goto
<1>18. ASSUME NEW s \in Session, AgentPosted(s)
     PROVE  [Lifecycle!Next]_(Lifecycle!vars)
  BY <1>18 DEF Lifecycle!vars, AgentPosted, Goto
<1>19. ASSUME NEW s \in Session, PostReply(s)
     PROVE  [Lifecycle!Next]_(Lifecycle!vars)
  BY <1>19 DEF Lifecycle!vars, PostReply, Goto
<1>20. ASSUME NEW s \in Session, AppendReply(s)
     PROVE  [Lifecycle!Next]_(Lifecycle!vars)
  <2>1. CASE posted' = posted
    BY <2>1, <1>20 DEF AppendReply, Lifecycle!vars
  <2>2. CASE posted' # posted
    <3>1. proc[s] = "gone" /\ s \notin posted
      BY <1>20 DEF AppendReply, LocalInv, AgentInv, AgentPC, RepliedPC
    <3>2. Lifecycle!Reply(s)
      BY <2>2, <3>1, <1>20 DEF AppendReply, Lifecycle!Reply
    <3> QED
      BY <3>2 DEF Lifecycle!Next
  <2> QED
    BY <2>1, <2>2
<1>21. ASSUME NEW s \in Session, LinkReply(s)
     PROVE  [Lifecycle!Next]_(Lifecycle!vars)
  BY <1>21 DEF Lifecycle!vars, LinkReply, Goto
<1>22. ASSUME NEW s \in Session, Finish(s)
     PROVE  [Lifecycle!Next]_(Lifecycle!vars)
  <2>1. row[s] # "none" /\ UNCHANGED <<proc, posted, started>>
    BY <1>22 DEF Finish, FinishSession, LocalInv, RowInv
  <2>2. \E f \in Terminal : FinishSession(s, f)
    BY <1>22 DEF Finish
  <2> QED
    BY <2>1, <2>2, FinishSettles
<1>23. ASSUME NEW s \in Session, Unregister(s)
     PROVE  [Lifecycle!Next]_(Lifecycle!vars)
  BY <1>23 DEF Lifecycle!vars, Unregister, Goto
<1>24. ASSUME NEW s \in Session, Release(s)
     PROVE  [Lifecycle!Next]_(Lifecycle!vars)
  BY <1>24 DEF Lifecycle!vars, Release, Goto
<1>25. ASSUME NEW s \in Session, WgDone(s)
     PROVE  [Lifecycle!Next]_(Lifecycle!vars)
  BY <1>25 DEF Lifecycle!vars, WgDone, Goto
<1>26. ASSUME NEW s \in Session, OrphanEnds(s)
     PROVE  [Lifecycle!Next]_(Lifecycle!vars)
  BY <1>26 DEF Lifecycle!vars, OrphanEnds
<1>27. ASSUME NEW c \in Canceler, NEW s \in Session, CancelReads(c, s)
     PROVE  [Lifecycle!Next]_(Lifecycle!vars)
  BY <1>27 DEF Lifecycle!vars, CancelReads
<1>28. ASSUME NEW c \in Canceler, CancelLooksUp(c)
     PROVE  [Lifecycle!Next]_(Lifecycle!vars)
  BY <1>28 DEF Lifecycle!vars, CancelLooksUp
<1>29. ASSUME NEW c \in Canceler, CancelFires(c)
     PROVE  [Lifecycle!Next]_(Lifecycle!vars)
  BY <1>29 DEF Lifecycle!vars, CancelFires, CancelReturns
<1>30. ASSUME NEW c \in Canceler, CancelWrites(c)
     PROVE  [Lifecycle!Next]_(Lifecycle!vars)
  <2>1. PICK s \in target[c] : FinishSession(s, "canceled")
    BY <1>30 DEF CancelWrites
  <2>2. s \in Session /\ row[s] # "none" /\ UNCHANGED <<proc, posted, started>>
    BY <2>1, <1>30 DEF CancelWrites, FinishSession, RequestInv
  <2> QED
    BY <2>1, <2>2, FinishSettles
<1>31. ASSUME NEW k \in Stopper, ShutdownFirst(k)
     PROVE  [Lifecycle!Next]_(Lifecycle!vars)
  BY <1>31 DEF Lifecycle!vars, ShutdownFirst
<1>32. ASSUME NEW k \in Stopper, ShutdownJoins(k)
     PROVE  [Lifecycle!Next]_(Lifecycle!vars)
  BY <1>32 DEF Lifecycle!vars, ShutdownJoins
<1>33. ASSUME NEW k \in Stopper, ShutdownCancels(k)
     PROVE  [Lifecycle!Next]_(Lifecycle!vars)
  BY <1>33 DEF Lifecycle!vars, ShutdownCancels
<1>34. ASSUME NEW k \in Stopper, ShutdownSweeps(k)
     PROVE  [Lifecycle!Next]_(Lifecycle!vars)
  <2>1. PICK s \in snapshot : FinishSession(s, "canceled")
    BY <1>34 DEF ShutdownSweeps
  <2>2. s \in Session /\ row[s] # "none" /\ UNCHANGED <<proc, posted, started>>
    BY <2>1, <1>34 DEF ShutdownSweeps, FinishSession, RequestInv
  <2> QED
    BY <2>1, <2>2, FinishSettles
<1>35. ASSUME NEW k \in Stopper, ShutdownSwept(k)
     PROVE  [Lifecycle!Next]_(Lifecycle!vars)
  BY <1>35 DEF Lifecycle!vars, ShutdownSwept
<1>36. ASSUME NEW k \in Stopper, WaitReturns(k)
     PROVE  [Lifecycle!Next]_(Lifecycle!vars)
  BY <1>36 DEF Lifecycle!vars, WaitReturns
<1>37. ASSUME Exit
     PROVE  [Lifecycle!Next]_(Lifecycle!vars)
  <2>1. Lifecycle!Die
    BY <1>37 DEF Exit, ProcessEnds, Lifecycle!Die
  <2> QED
    BY <2>1 DEF Lifecycle!Next
<1>38. ASSUME Crash
     PROVE  [Lifecycle!Next]_(Lifecycle!vars)
  <2>1. Lifecycle!Die
    BY <1>38 DEF Crash, ProcessEnds, Lifecycle!Die
  <2> QED
    BY <2>1 DEF Lifecycle!Next
<1>39. ASSUME Boot
     PROVE  [Lifecycle!Next]_(Lifecycle!vars)
  <2>1. \A s \in Session : ~Running(s)
    BY <1>39 DEF Boot, LocalInv, MapInv, AgentInv
  <2>2. Lifecycle!Recover
    BY <2>1, <1>39 DEF Boot, Lifecycle!Recover
  <2> QED
    BY <2>2 DEF Lifecycle!Next
<1>40. ASSUME UNCHANGED vars
     PROVE  [Lifecycle!Next]_(Lifecycle!vars)
  BY <1>40 DEF Lifecycle!vars, vars
<1>. QED
  BY <1>1, <1>2, <1>3, <1>4, <1>5, <1>6, <1>7, <1>8, <1>9, <1>10, <1>11, <1>12, <1>13, <1>14, <1>15, <1>16, <1>17, <1>18, <1>19, <1>20, <1>21, <1>22, <1>23, <1>24, <1>25, <1>26, <1>27, <1>28, <1>29, <1>30, <1>31, <1>32, <1>33, <1>34, <1>35, <1>36, <1>37, <1>38, <1>39, <1>40
  DEF Next, StartLoop, Goroutine, Cancel, Shutdown

\* Every behaviour of the manager, with its requests, faults, crashes and
\* restarts, is one the lifecycle allows.
THEOREM ManagerImplementsLifecycle == Spec => ImplementsLifecycle
  BY InitRefines, StepRefines, Invariance, PTL
     DEF Spec, ImplementsLifecycle, Lifecycle!Spec
=============================================================================
