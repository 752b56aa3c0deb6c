-------------------------- MODULE MCAgentSessions ---------------------------
EXTENDS AgentSessionsProps, TLC

Symmetry == Permutations(Trigger) \cup Permutations(Agent)
              \cup Permutations(Canceler) \cup Permutations(Stopper)
=============================================================================
