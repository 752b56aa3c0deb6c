----------------------------- MODULE MCTuiModel -----------------------------
EXTENDS TuiModel

\* A channel with two threads, of which one has a message.
MCInitialDB ==
    LET c == CreateChannel(EmptyDB, "dev", NoRepo, TRUE).db
        t == CreateThread(CreateThread(c, 1, "dev").db, 1, "dev").db
    IN  AppendMessage(t, 1, "ann", "human", "hi", 0, 0).db
=============================================================================
