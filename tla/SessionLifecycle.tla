-------------------------- MODULE SessionLifecycle --------------------------
(* What the daemon promises about agent sessions, without goroutines, maps, *)
(* contexts or a mutex: the life of each row, and which agents may be       *)
(* running beside it.  A row is settled once it has a final status; which   *)
(* one is not told apart.                                                   *)
EXTENDS Integers, FiniteSets

CONSTANTS Session, MaxLive

VARIABLES
    status,     \* "absent", "queued", "running", "settled"
    begun,      \* sessions that were marked running at some time
    ran,        \* sessions an agent was spawned for
    live,       \* sessions whose agent is a child of the daemon right now
    replied     \* sessions the daemon posted a reply for

vars == <<status, begun, ran, live, replied>>

Init ==
    /\ status = [s \in Session |-> "absent"]
    /\ begun = {} /\ ran = {} /\ live = {} /\ replied = {}

Admit(s) ==
    /\ status[s] = "absent"
    /\ status' = [status EXCEPT ![s] = "queued"]
    /\ UNCHANGED <<begun, ran, live, replied>>

Begin(s) ==
    /\ status[s] = "queued"
    /\ status' = [status EXCEPT ![s] = "running"]
    /\ begun' = begun \cup {s}
    /\ UNCHANGED <<ran, live, replied>>

\* An agent runs once, only for a session that has begun, and in a free slot.
Spawn(s) ==
    /\ s \in begun \ ran
    /\ Cardinality(live) < MaxLive
    /\ ran' = ran \cup {s} /\ live' = live \cup {s}
    /\ UNCHANGED <<status, begun, replied>>

Reap(s) ==
    /\ s \in live
    /\ live' = live \ {s}
    /\ UNCHANGED <<status, begun, ran, replied>>

\* A reply is posted once, after the agent has ended.
Reply(s) ==
    /\ s \in ran \ (live \cup replied)
    /\ replied' = replied \cup {s}
    /\ UNCHANGED <<status, begun, ran, live>>

Settle(s) ==
    /\ status[s] \in {"queued", "running"}
    /\ status' = [status EXCEPT ![s] = "settled"]
    /\ UNCHANGED <<begun, ran, live, replied>>

\* The daemon goes: it has no children any more.
Die == live' = {} /\ UNCHANGED <<status, begun, ran, replied>>

\* It comes back: nothing an earlier one left open stays open.
Recover ==
    /\ live = {}
    /\ status' = [s \in Session |->
                    IF status[s] = "absent" THEN "absent" ELSE "settled"]
    /\ UNCHANGED <<begun, ran, live, replied>>

Next ==
    \/ \E s \in Session : \/ Admit(s) \/ Begin(s) \/ Settle(s)
                          \/ Spawn(s) \/ Reap(s) \/ Reply(s)
    \/ Die \/ Recover

Spec == Init /\ [][Next]_vars
=============================================================================
