------------------------- MODULE MCReplyResolution -------------------------
EXTENDS ReplyResolution, TLC

Symmetry == Permutations(Thread) \cup Permutations(Agent)
=============================================================================
