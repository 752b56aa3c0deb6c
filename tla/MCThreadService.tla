--------------------------- MODULE MCThreadService ---------------------------
EXTENDS ThreadService, TLC

\* An orphaned channel "dev" with a thread of a message and a reply to it, and
\* an empty thread.
MCInitialDB ==
    LET c == CreateChannel(EmptyDB, "dev", NoRepo, TRUE).db
        t == CreateThread(CreateThread(c, 1, "t").db, 1, "t").db
        m == AppendMessage(t, 1, "ann", "human", "hi", 0, 0).db
    IN  AppendMessage(m, 1, "ann", "human", "hi", 0, 1).db

\* Flags that a command does not use have these values.
Flags == [op |-> "", agent |-> FALSE, all |-> FALSE, channel |-> "dev", repo |-> NoRepo,
          title |-> "t", thread |-> 0, as |-> "ann", by |-> "", ref |-> 0, body |-> "hi",
          json |-> FALSE, last |-> 0, after |-> 0, lines |-> <<>>]
Cmd(op) == [Flags EXCEPT !.op = op]
On(op, t) == [Flags EXCEPT !.op = op, !.channel = "", !.thread = t]

Message(seq, ref, body) == [type |-> "", seq |-> seq, ref |-> ref, name |-> "ann",
                            author |-> "", body |-> body, at |-> 0]
Reaction(ref) == [type |-> "reaction", seq |-> 0, ref |-> ref, name |-> "ann",
                  author |-> "", body |-> "+1", at |-> 0]
BadName == [Reaction(1) EXCEPT !.name = "no1"]

\* A message without a source seq, whose content is a newline, then two with,
\* the second a reply.
Sourced2 == <<Message(0, 0, "newline"), Message(4, 0, "hi"), Message(7, 4, "@bot"), Reaction(7)>>

\* All but one are commands of flf: an agent's import is not, but the route
\* takes it. The two channels named "dev" are of a repository and of none.
\* The batch of two mentions is refused unless the thread has grown by a message
\* before it, as are the reactions unless their messages exist by then.
MCCommands ==
    { [On("send", 1) EXCEPT !.by = "seq", !.ref = 2, !.body = "@bot"],
      [On("send", 1) EXCEPT !.by = "id", !.ref = 1, !.agent = TRUE, !.body = "@bot"],
      [On("react", 2) EXCEPT !.by = "seq", !.ref = 1, !.body = "+1"],
      [Cmd("react") EXCEPT !.by = "id", !.ref = 4, !.body = "+1"],
      [On("append", 1) EXCEPT !.lines = <<Message(0, 2, "@bot"), Message(0, 4, "@bot")>>],
      [On("append", 1) EXCEPT !.lines = <<Message(0, 0, "hi"), BadName>>, !.agent = TRUE],
      [On("import", 1) EXCEPT !.lines = SubSeq(Sourced2, 1, 3)],
      [Cmd("import") EXCEPT !.lines = Tail(Sourced2), !.channel = "new"],
      [On("react", 0) EXCEPT !.by = "seq", !.ref = 1],
      [On("import", 2) EXCEPT !.lines = <<Message(1, 0, "@bot")>>, !.agent = TRUE],
      On("import", 2),
      [On("export", 1) EXCEPT !.after = 1],
      [On("read", 1) EXCEPT !.last = 1],
      On("export", 1),
      On("read", 1),
      [Cmd("newChannel") EXCEPT !.repo = "repo", !.json = TRUE],
      Cmd("newThread"),
      [Cmd("listChannels") EXCEPT !.repo = "repo"],
      [Cmd("listThreads") EXCEPT !.repo = "repo"],
      Cmd("inbox") }

Symmetry == Permutations(Client)
=============================================================================
