----------------------- MODULE ReplyResolution_proofs -----------------------
(* Proofs about ReplyResolution: its types, and that a reply is the         *)
(* session's own, that a credited run is credited for a message in its      *)
(* agent's name, and that nothing is posted on top of an agent's answer.    *)
(*                                                                          *)
(* The argument: a thread only grows, so what is true of a message stays    *)
(* true; what a message says of its author follows from the action that     *)
(* appended it; and a session depends on its own messages alone.            *)
EXTENDS ReplyResolution, TLAPS

Types ==
    /\ messages \in [Thread -> Seq(Message)]
    /\ mode \in [Session -> ReplyMode \cup {"none"}]
    /\ pc \in [Session -> PC]
    /\ ctx \subseteq Session
    /\ exitSeq \in [Session -> Nat]
    /\ got \in [Session -> Nat]
    /\ reply \in [Session -> Nat]

\* The manager's own post for s stands at seq i.
OwnOutput(s, i) ==
    /\ i \in 1 .. LastSeq(ThreadOf(s))
    /\ messages[ThreadOf(s)][i].of = s
    /\ messages[ThreadOf(s)][i].via = "stdout"

\* What a message m at seq i tells of the run it comes from: it is of the same
\* thread, was made after that run's trigger, and carries the agent's name unless
\* the command in the prompt posted it.  One of no run is a person's, or claimed.
Says(m, th, i) ==
    /\ m.of = Nobody => m.author_type = "human" \/ m.via = "claimed"
    /\ m.of # Nobody =>
        /\ m.author_type = "agent"
        /\ ThreadOf(m.of) = th
        /\ TriggerSeq(m.of) < i
        /\ m.via # "prompt" => m.name = AgentOf(m.of)
        /\ m.via = "prompt" => m.name = UserName

MessageInv == \A th \in Thread : \A i \in 1 .. LastSeq(th) : Says(messages[th][i], th, i)

Credited(s) ==
    \E i \in TriggerSeq(s) + 1 .. LastSeq(ThreadOf(s)) :
        LET m == messages[ThreadOf(s)][i]
        IN  \/ m.of # Nobody /\ AgentOf(m.of) = AgentOf(s)
            \/ m.via = "claimed" /\ m.name = AgentOf(s)

\* Where a session stands and what that says: a session that is there has its
\* trigger, counts only what it may count, and reaches the append only when it
\* found no answer among what was posted before its agent exited.
SessionInv(s) ==
    /\ mode[s] = "none" <=> pc[s] = "none"
    /\ pc[s] # "none" => TriggerSeq(s) <= LastSeq(ThreadOf(s))
    /\ exitSeq[s] <= LastSeq(ThreadOf(s))
    /\ got[s] # 0 => OwnOutput(s, got[s])
    /\ pc[s] = "link" => got[s] # 0
    /\ reply[s] # 0 => OwnOutput(s, reply[s])
    /\ OutputPosted(s) => pc[s] \in {"link", "succeeded"}
    /\ pc[s] \in {"post", "append", "link"} => mode[s] # "cli"
    /\ (mode[s] = "auto" /\ (pc[s] \in {"post", "append", "link"} \/ OutputPosted(s)))
            => ~PostedBy(s, "self", exitSeq[s])
    /\ (UserName \notin Agent /\ (pc[s] = "found" \/ (mode[s] = "cli" /\ pc[s] = "succeeded")))
            => Credited(s)

IInv ==
    /\ Types
    /\ MessageInv
    /\ \A s \in Session : SessionInv(s)

----------------------------------------------------------------------------

\* The parts of a session's key.
LEMMA SessionParts ==
    ASSUME NEW s \in Session
    PROVE  /\ ThreadOf(s) \in Thread
           /\ TriggerSeq(s) \in Nat \ {0}
           /\ AgentOf(s) \in Agent
           /\ s # Nobody
<1>1. MaxMessages \in Nat
  BY BoundAssumption
<1>2. PICK th \in Thread, q \in 1 .. MaxMessages, a \in Agent : s = <<th, q, a>>
  BY DEF Session
<1>3. s[1] = th /\ s[2] = q /\ s[3] = a
  BY <1>2
<1>4. s # <<>>
  BY <1>2
<1> QED
  BY <1>1, <1>2, <1>3, <1>4 DEF ThreadOf, TriggerSeq, AgentOf, Nobody

\* An append adds one message at the end of one thread and changes nothing else.
LEMMA AppendFacts ==
    ASSUME Types, NEW th \in Thread, NEW m \in Message, Append1(th, m)
    PROVE  /\ messages' \in [Thread -> Seq(Message)]
           /\ \A t \in Thread : t # th => messages'[t] = messages[t]
           /\ Len(messages'[th]) = Len(messages[th]) + 1
           /\ messages'[th][Len(messages[th]) + 1] = m
           /\ \A i \in 1 .. Len(messages[th]) : messages'[th][i] = messages[th][i]
<1>1. messages[th] \in Seq(Message)
  BY DEF Types
<1>2. messages'[th] = Append(messages[th], m)
  BY DEF Types, Append1
<1>3. messages' \in [Thread -> Seq(Message)]
  BY <1>1 DEF Types, Append1
<1>4. \A t \in Thread : t # th => messages'[t] = messages[t]
  BY DEF Types, Append1
<1> QED
  BY <1>1, <1>2, <1>3, <1>4

\* What any step does to the threads: they grow, and nothing in them changes.
Grown ==
    /\ messages' \in [Thread -> Seq(Message)]
    /\ \A t \in Thread :
        /\ Len(messages[t]) <= Len(messages'[t])
        /\ \A i \in 1 .. Len(messages[t]) : messages'[t][i] = messages[t][i]

\* No message of s that the manager posted is new.
NoOutput(s) ==
    \A i \in Len(messages[ThreadOf(s)]) + 1 .. Len(messages'[ThreadOf(s)]) :
        ~(messages'[ThreadOf(s)][i].of = s /\ messages'[ThreadOf(s)][i].via = "stdout")

\* A step that leaves the threads alone lets them grow and posts no output.
LEMMA SameMessages ==
    ASSUME Types, UNCHANGED messages
    PROVE  Grown /\ \A s \in Session : NoOutput(s)
<1>1. \A t \in Thread : messages[t] \in Seq(Message) /\ Len(messages[t]) \in Nat
  BY DEF Types
<1> QED
  BY <1>1, SessionParts DEF Types, Grown, NoOutput

\* An append lets the threads grow, and posts output only if it is output.
LEMMA OneMessage ==
    ASSUME Types, NEW th \in Thread, NEW m \in Message, Append1(th, m)
    PROVE  /\ Grown
           /\ \A s \in Session : ~(m.of = s /\ m.via = "stdout") => NoOutput(s)
<1>1. \A t \in Thread : messages[t] \in Seq(Message) /\ Len(messages[t]) \in Nat
  BY DEF Types
<1>2. Grown
  BY <1>1, AppendFacts, SMTT(20) DEF Grown
<1>3. ASSUME NEW s \in Session, ~(m.of = s /\ m.via = "stdout")
      PROVE  NoOutput(s)
  <2>1. CASE ThreadOf(s) = th
    <3>1. \A i \in Len(messages[th]) + 1 .. Len(messages'[th]) : i = Len(messages[th]) + 1
      BY <1>1, AppendFacts
    <3> QED
      BY <1>3, <2>1, <3>1, AppendFacts DEF NoOutput
  <2>2. CASE ThreadOf(s) # th
    BY <1>1, <2>2, AppendFacts, SessionParts DEF NoOutput
  <2> QED
    BY <2>1, <2>2
<1> QED
  BY <1>2, <1>3

\* An append keeps the invariant of the messages when the new one satisfies it.
LEMMA MessageAdded ==
    ASSUME Types, NEW th \in Thread, NEW m \in Message, Append1(th, m),
           Says(m, th, Len(messages[th]) + 1),
           MessageInv
    PROVE  MessageInv'
<1>1. \A t \in Thread : Len(messages[t]) \in Nat
  BY DEF Types
<1> SUFFICES ASSUME NEW t \in Thread, NEW i \in 1 .. Len(messages'[t])
             PROVE  Says(messages'[t][i], t, i)
  BY DEF LastSeq, MessageInv
<1>2. CASE i \in 1 .. Len(messages[t])
  <2>1. messages'[t][i] = messages[t][i]
    BY <1>2, AppendFacts
  <2>2. Says(messages[t][i], t, i)
    BY <1>2 DEF MessageInv, LastSeq
  <2> QED
    BY <2>1, <2>2
<1>3. CASE i \notin 1 .. Len(messages[t])
  <2>1. t = th
    BY <1>3, AppendFacts
  <2>2. i = Len(messages[th]) + 1
    BY <1>1, <1>3, <2>1, AppendFacts
  <2> QED
    BY <2>1, <2>2, AppendFacts
<1> QED
  BY <1>2, <1>3

\* What s knows of its thread when a step posts none of its output.
LEMMA ThreadKept ==
    ASSUME Types, Grown, NEW s \in Session, NoOutput(s)
    PROVE  /\ LastSeq(ThreadOf(s)) \in Nat /\ LastSeq(ThreadOf(s))' \in Nat
           /\ LastSeq(ThreadOf(s)) <= LastSeq(ThreadOf(s))'
           /\ \A i \in Nat : OwnOutput(s, i) => OwnOutput(s, i)'
           /\ OutputPosted(s)' <=> OutputPosted(s)
           /\ \A n \in Nat : n <= LastSeq(ThreadOf(s)) =>
                 (PostedBy(s, "self", n)' <=> PostedBy(s, "self", n))
           /\ Credited(s) => Credited(s)'
<1> DEFINE th == ThreadOf(s)
<1>1. th \in Thread /\ TriggerSeq(s) \in Nat
  BY SessionParts
<1>2. /\ Len(messages[th]) \in Nat /\ Len(messages'[th]) \in Nat
      /\ Len(messages[th]) <= Len(messages'[th])
      /\ \A i \in 1 .. Len(messages[th]) : messages'[th][i] = messages[th][i]
  BY <1>1 DEF Types, Grown
<1>3. \A i \in Nat : OwnOutput(s, i) => OwnOutput(s, i)'
  BY <1>2 DEF OwnOutput, LastSeq
<1>4. OutputPosted(s)' <=> OutputPosted(s)
  BY <1>2, SMTT(20) DEF OutputPosted, PostedBy, LastSeq, NoOutput
<1>5. \A n \in Nat : n <= LastSeq(ThreadOf(s)) =>
         (PostedBy(s, "self", n)' <=> PostedBy(s, "self", n))
  BY <1>2 DEF PostedBy, LastSeq
<1>6. Credited(s) => Credited(s)'
  BY <1>1, <1>2 DEF Credited, LastSeq
<1> QED
  BY <1>2, <1>3, <1>4, <1>5, <1>6 DEF LastSeq

\* A session that a step leaves alone keeps its invariant, whatever others post.
LEMMA SessionKept ==
    ASSUME Types, Grown, NEW s \in Session, NoOutput(s), SessionInv(s),
           mode'[s] = mode[s], pc'[s] = pc[s], exitSeq'[s] = exitSeq[s],
           got'[s] = got[s], reply'[s] = reply[s]
    PROVE  SessionInv(s)'
<1>1. exitSeq[s] \in Nat /\ got[s] \in Nat /\ reply[s] \in Nat /\ TriggerSeq(s) \in Nat
  BY SessionParts DEF Types
<1> QED
  BY <1>1, ThreadKept DEF SessionInv

----------------------------------------------------------------------------
(* One lemma per group of actions.                                          *)

\* A session other than the one that takes a step keeps its invariant.
LEMMA OthersKept ==
    ASSUME IInv, Grown, NEW s \in Session,
           \A t \in Session : t # s => NoOutput(t),
           \A t \in Session : t # s =>
               /\ mode'[t] = mode[t] /\ pc'[t] = pc[t] /\ exitSeq'[t] = exitSeq[t]
               /\ got'[t] = got[t] /\ reply'[t] = reply[t]
    PROVE  \A t \in Session : t # s => SessionInv(t)'
BY SessionKept DEF IInv

\* What the prompt's command and an agent that names itself put into a message.
LEMMA Names ==
    ASSUME NEW s \in Session
    PROVE  /\ MessageName(DefaultName(""), AgentOf(s)) = UserName
           /\ MessageName(DefaultName(AgentOf(s)), AgentOf(s)) = AgentOf(s)
<1>1. UserName # "" /\ AgentOf(s) # ""
  BY SessionParts, NameAssumption, Zenon
<1> QED
  BY <1>1, Zenon DEF MessageName, DefaultName

\* The message of AgentPosts.
Post(s, via) == [name |-> IF via = "prompt" THEN UserName ELSE AgentOf(s),
                 author_type |-> "agent", of |-> s, via |-> via]

\* AgentPosts is one append to the agent's thread, under the name the CLI and the handler make.
LEMMA AgentPostsOne ==
    ASSUME NEW s \in Session, NEW via \in {"self", "prompt"}, AgentPosts(s, via)
    PROVE  /\ pc[s] \in Live
           /\ Append1(ThreadOf(s), Post(s, via))
           /\ UNCHANGED <<mode, pc, ctx, exitSeq, got, reply>>
<1>1. CASE via = "prompt"
  <2>1. MessageName(DefaultName(IF via = "prompt" THEN "" ELSE AgentOf(s)), AgentOf(s)) = UserName
    BY <1>1, Names, Zenon
  <2> QED
    BY <1>1, <2>1, Zenon DEF AgentPosts, Post
<1>2. CASE via # "prompt"
  <2>1. MessageName(DefaultName(IF via = "prompt" THEN "" ELSE AgentOf(s)), AgentOf(s)) = AgentOf(s)
    BY <1>2, Names, Zenon
  <2> QED
    BY <1>2, <2>1, Zenon DEF AgentPosts, Post
<1> QED
  BY <1>1, <1>2

\* Live sessions have started.
LEMMA LiveHasTrigger ==
    ASSUME IInv, NEW s \in Session, pc[s] \in Live
    PROVE  TriggerSeq(s) <= Len(messages[ThreadOf(s)])
BY DEF IInv, SessionInv, Live, LastSeq

\* A message an agent posts itself keeps the invariant: what others counted or linked is as it was.
LEMMA AgentPostsKeeps ==
    ASSUME IInv, NEW s \in Session, NEW via \in {"self", "prompt"}, AgentPosts(s, via)
    PROVE  IInv'
<1> DEFINE th == ThreadOf(s)  m == Post(s, via)
<1>1. th \in Thread /\ TriggerSeq(s) \in Nat /\ AgentOf(s) \in Agent /\ s # Nobody
  BY SessionParts
<1>2. m \in Message
  BY <1>1 DEF Message, Post, Author
<1>3. /\ pc[s] \in Live
      /\ Append1(th, m)
      /\ UNCHANGED <<mode, pc, ctx, exitSeq, got, reply>>
  BY AgentPostsOne
<1>4. m.of = s /\ m.via = via /\ m.author_type = "agent"
      /\ m.name = IF via = "prompt" THEN UserName ELSE AgentOf(s)
  BY DEF Post
<1>5. Grown /\ \A t \in Session : NoOutput(t)
  <2>1. \A t \in Session : ~(m.of = t /\ m.via = "stdout")
    BY <1>4
  <2> HIDE DEF m
  <2> QED
    BY <1>1, <1>2, <1>3, <2>1, OneMessage DEF IInv
<1>6. Says(m, th, Len(messages[th]) + 1)
  <2>1. TriggerSeq(s) <= Len(messages[th]) /\ Len(messages[th]) \in Nat
    BY <1>1, <1>3, LiveHasTrigger DEF IInv, Types
  <2> HIDE DEF m
  <2> QED
    BY <1>1, <1>4, <2>1 DEF Says
<1> HIDE DEF m
<1>7. Types'
  BY <1>1, <1>2, <1>3, AppendFacts DEF IInv, Types
<1>8. MessageInv'
  BY <1>1, <1>2, <1>3, <1>6, MessageAdded DEF IInv
<1>9. \A t \in Session : SessionInv(t)'
  BY <1>3, <1>5, SessionKept DEF IInv
<1> QED
  BY <1>7, <1>8, <1>9 DEF IInv

\* A message claimed in an agent's name is of no run, so no session's own posts
\* change by it.
LEMMA ClaimsKeeps ==
    ASSUME IInv, NEW th \in Thread, NEW name \in Agent, Claims(th, name)
    PROVE  IInv'
<1> DEFINE m == [name |-> name, author_type |-> "agent", of |-> Nobody, via |-> "claimed"]
<1>1. Append1(th, m) /\ UNCHANGED <<mode, pc, ctx, exitSeq, got, reply>>
  BY DEF Claims
<1>2. m \in Message
  BY DEF Message, Author
<1>3. m.of = Nobody /\ m.via = "claimed"
  OBVIOUS
<1> HIDE DEF m
<1>4. Grown /\ \A t \in Session : NoOutput(t)
  BY <1>1, <1>2, <1>3, OneMessage DEF IInv
<1>5. Types'
  BY <1>1, <1>2, AppendFacts DEF IInv, Types
<1>6. Says(m, th, Len(messages[th]) + 1)
  BY <1>3 DEF Says
<1>7. MessageInv'
  BY <1>1, <1>2, <1>6, MessageAdded DEF IInv
<1>8. \A t \in Session : SessionInv(t)'
  BY <1>1, <1>4, SessionKept DEF IInv
<1> QED
  BY <1>5, <1>7, <1>8 DEF IInv

\* postReply's append keeps the invariant: it comes of a session that has posted nothing yet.
LEMMA AppendReplyKeeps ==
    ASSUME IInv, NEW s \in Session, AppendReply(s)
    PROVE  IInv'
<1> DEFINE th == ThreadOf(s)  m == Post(s, "stdout")
<1>1. th \in Thread /\ TriggerSeq(s) \in Nat /\ AgentOf(s) \in Agent /\ s # Nobody
  BY SessionParts
<1>2. m \in Message
  BY <1>1 DEF Message, Post, Author
<1>3. /\ pc[s] = "append"
      /\ Append1(th, m)
      /\ got' = [got EXCEPT ![s] = Len(messages[th]) + 1]
      /\ pc' = [pc EXCEPT ![s] = "link"]
      /\ UNCHANGED <<mode, ctx, exitSeq, reply>>
  BY DEF AppendReply, Post, LastSeq, Goto
<1>4. m.of = s /\ m.via = "stdout" /\ m.author_type = "agent" /\ m.name = AgentOf(s)
  BY DEF Post
<1> HIDE DEF m
<1>5. Grown /\ \A t \in Session : t # s => NoOutput(t)
  BY <1>1, <1>2, <1>3, <1>4, OneMessage DEF IInv
<1>6. /\ TriggerSeq(s) <= Len(messages[th]) /\ Len(messages[th]) \in Nat
      /\ Types
  BY <1>1, <1>3, LiveHasTrigger DEF IInv, Types, Live
<1>7. Says(m, th, Len(messages[th]) + 1)
  BY <1>1, <1>4, <1>6 DEF Says
<1>8. Types'
  BY <1>1, <1>2, <1>3, <1>6, AppendFacts DEF Types, PC, Live
<1>9. MessageInv'
  BY <1>1, <1>2, <1>3, <1>7, MessageAdded DEF IInv
<1>10. \A t \in Session : t # s => SessionInv(t)'
  BY <1>3, <1>5, <1>6, OthersKept DEF Types
<1>11. SessionInv(s)'
  <2>1. /\ Len(messages'[th]) = Len(messages[th]) + 1
        /\ messages'[th][Len(messages[th]) + 1] = m
        /\ \A i \in 1 .. Len(messages[th]) : messages'[th][i] = messages[th][i]
    BY <1>1, <1>2, <1>3, <1>6, AppendFacts
  <2>2. /\ mode'[s] = mode[s] /\ exitSeq'[s] = exitSeq[s] /\ reply'[s] = reply[s]
        /\ pc'[s] = "link" /\ got'[s] = Len(messages[th]) + 1
        /\ exitSeq[s] \in Nat
    BY <1>3, <1>6 DEF Types
  <2>3. SessionInv(s)
    BY DEF IInv
  <2>4. OwnOutput(s, got[s])'
    BY <1>4, <1>6, <2>1, <2>2 DEF OwnOutput, LastSeq
  <2>5. reply[s] # 0 => OwnOutput(s, reply[s])'
    BY <1>6, <2>1, <2>2, <2>3 DEF OwnOutput, LastSeq, SessionInv
  <2>6. exitSeq[s] <= Len(messages[th]) /\ mode[s] # "none" /\ mode[s] # "cli"
    BY <1>3, <2>3 DEF SessionInv, LastSeq
  <2>7. mode[s] = "auto" => ~PostedBy(s, "self", exitSeq[s])'
    BY <1>3, <1>6, <2>1, <2>2, <2>3, <2>6 DEF PostedBy, SessionInv
  <2> QED
    BY <1>1, <1>6, <2>1, <2>2, <2>4, <2>5, <2>6, <2>7 DEF SessionInv, LastSeq
<1> QED
  BY <1>8, <1>9, <1>10, <1>11 DEF IInv

\* The new sessions of a person's message are fresh: their trigger is that
\* message, so none of them was there.
LEMMA HumanPostsKeeps ==
    ASSUME IInv, NEW th \in Thread, NEW name \in Author, NEW who \in SUBSET Agent,
           HumanPosts(th, name, who)
    PROVE  IInv'
<1> DEFINE m == [name |-> name, author_type |-> "human", of |-> Nobody, via |-> "human"]
           New == {s \in Session : ThreadOf(s) = th /\ TriggerSeq(s) = LastSeq(th) + 1
                                     /\ AgentOf(s) \in who}
<1>1. PICK choice \in [New -> ReplyMode] :
          mode' = [s \in Session |-> IF s \in New THEN choice[s] ELSE mode[s]]
  BY DEF HumanPosts
<1>2. /\ Append1(th, m)
      /\ pc' = [s \in Session |-> IF s \in New THEN "queued" ELSE pc[s]]
      /\ UNCHANGED <<ctx, exitSeq, got, reply>>
  BY DEF HumanPosts
<1>3. m \in Message
  BY DEF Message, Author
<1>4. m.of = Nobody /\ m.author_type = "human" /\ m.via = "human"
  OBVIOUS
<1> HIDE DEF m
<1>5. Grown /\ \A t \in Session : NoOutput(t)
  BY <1>2, <1>3, <1>4, OneMessage DEF IInv
<1>6. Types /\ Len(messages[th]) \in Nat /\ Len(messages'[th]) = Len(messages[th]) + 1
  BY <1>2, <1>3, AppendFacts DEF IInv, Types
<1>7. Says(m, th, Len(messages[th]) + 1)
  BY <1>4 DEF Says
<1>8. MessageInv'
  BY <1>2, <1>3, <1>7, MessageAdded DEF IInv
<1>9. ASSUME NEW s \in New
      PROVE  /\ ThreadOf(s) = th /\ TriggerSeq(s) = Len(messages[th]) + 1
             /\ choice[s] \in ReplyMode /\ choice[s] # "none"
  BY <1>1, ModeAssumption DEF LastSeq
<1> HIDE DEF New
<1>10. New \subseteq Session
  BY DEF New
<1>11. Types'
  BY <1>1, <1>2, <1>3, <1>6, <1>9, <1>10, AppendFacts DEF Types, PC
<1>12. ASSUME NEW s \in Session
       PROVE  SessionInv(s)'
  <2>1. SessionInv(s)
    BY DEF IInv
  <2>2. CASE s \notin New
    <3>1. mode'[s] = mode[s] /\ pc'[s] = pc[s]
      BY <1>1, <1>2, <2>2
    <3> QED
      BY <1>2, <1>5, <1>6, <2>1, <3>1, SessionKept
  <2>3. CASE s \in New
    <3>1. mode'[s] = choice[s] /\ pc'[s] = "queued"
      BY <1>1, <1>2, <2>3
    <3>2. pc[s] = "none"
      BY <1>6, <1>9, <2>1, <2>3 DEF SessionInv, LastSeq
    <3>3. mode'[s] # "cli" \/ pc'[s] # "succeeded"
      BY <3>1
    <3>4. ~OutputPosted(s)
      BY <2>1, <3>2 DEF SessionInv
    <3>5. /\ exitSeq[s] \in Nat /\ got[s] \in Nat /\ reply[s] \in Nat
          /\ exitSeq'[s] = exitSeq[s] /\ got'[s] = got[s] /\ reply'[s] = reply[s]
      BY <1>2, <1>6 DEF Types
    <3>6. TriggerSeq(s) <= LastSeq(ThreadOf(s))'
      BY <1>6, <1>9, <2>3 DEF LastSeq
    <3>7. mode'[s] # "none"
      BY <1>9, <2>3, <3>1
    <3> QED
      BY <1>5, <1>6, <2>1, <3>1, <3>2, <3>4, <3>5, <3>6, <3>7, ThreadKept DEF SessionInv
  <2> QED
    BY <2>2, <2>3
<1> QED
  BY <1>8, <1>11, <1>12 DEF IInv


----------------------------------------------------------------------------
(* The steps that post nothing: the session's own, and Cancel.              *)

\* A step of s that posts nothing keeps the messages and the other sessions.
LEMMA QuietStep ==
    ASSUME IInv, NEW s \in Session, UNCHANGED <<messages, mode, got>>,
           ctx' \subseteq Session,
           \E at \in PC : Goto(s, at),
           exitSeq' = exitSeq \/ exitSeq' = [exitSeq EXCEPT ![s] = LastSeq(ThreadOf(s))],
           reply' = reply \/ reply' = [reply EXCEPT ![s] = got[s]],
           SessionInv(s)'
    PROVE  IInv'
<1>1. Types /\ MessageInv /\ Grown /\ \A t \in Session : NoOutput(t)
  BY SameMessages DEF IInv
<1>2. LastSeq(ThreadOf(s)) \in Nat
  BY <1>1, ThreadKept
<1>3. Types'
  BY <1>1, <1>2 DEF Types, Goto
<1>4. MessageInv'
  BY <1>1 DEF MessageInv, LastSeq
<1>5. \A t \in Session : t # s =>
        /\ mode'[t] = mode[t] /\ pc'[t] = pc[t] /\ exitSeq'[t] = exitSeq[t]
        /\ got'[t] = got[t] /\ reply'[t] = reply[t]
  BY <1>1, <1>2 DEF Types, Goto
<1>6. \A t \in Session : t # s => SessionInv(t)'
  BY <1>1, <1>5, OthersKept
<1> QED
  BY <1>3, <1>4, <1>6 DEF IInv

\* What s has of a step that posts nothing.
LEMMA OwnFacts ==
    ASSUME IInv, NEW s \in Session, UNCHANGED <<messages, mode, got>>
    PROVE  /\ SessionInv(s)
           /\ mode'[s] = mode[s] /\ got'[s] = got[s]
           /\ exitSeq[s] \in Nat /\ got[s] \in Nat /\ reply[s] \in Nat
           /\ \A at : Goto(s, at) => pc'[s] = at
           /\ LastSeq(ThreadOf(s)) \in Nat /\ LastSeq(ThreadOf(s))' = LastSeq(ThreadOf(s))
           /\ \A i \in Nat : OwnOutput(s, i) => OwnOutput(s, i)'
           /\ OutputPosted(s)' <=> OutputPosted(s)
           /\ \A n \in Nat : n <= LastSeq(ThreadOf(s)) =>
                 (PostedBy(s, "self", n)' <=> PostedBy(s, "self", n))
           /\ Credited(s) => Credited(s)'
<1>1. Types /\ Grown /\ NoOutput(s) /\ SessionInv(s)
  BY SameMessages DEF IInv
<1>2. \A at : Goto(s, at) => pc'[s] = at
  BY <1>1 DEF Types, Goto
<1>3. exitSeq[s] \in Nat /\ got[s] \in Nat /\ reply[s] \in Nat
  BY <1>1 DEF Types
<1>4. LastSeq(ThreadOf(s))' = LastSeq(ThreadOf(s))
  BY DEF LastSeq
<1> QED
  BY <1>1, <1>2, <1>3, <1>4, ThreadKept

\* What agentPosted counts is a message of a run of the agent, if $USER names no
\* agent, or one claimed in its name; and what the agent posted under its name before it exited is counted.
LEMMA CountedMeans ==
    ASSUME IInv, NEW s \in Session
    PROVE  /\ Counted(s) /\ UserName \notin Agent => Credited(s)
           /\ PostedBy(s, "self", exitSeq[s]) => Counted(s)
<1> DEFINE th == ThreadOf(s)
<1>1. th \in Thread /\ TriggerSeq(s) \in Nat /\ AgentOf(s) \in Agent /\ s # Nobody
  BY SessionParts
<1>2. /\ messages[th] \in Seq(Message) /\ Len(messages[th]) \in Nat
      /\ exitSeq[s] \in Nat /\ exitSeq[s] <= Len(messages[th])
  BY <1>1 DEF IInv, Types, SessionInv, LastSeq
<1>3. \A i \in 1 .. Len(messages[th]) : Says(messages[th][i], th, i)
  BY <1>1 DEF IInv, MessageInv, LastSeq
<1>4. ASSUME Counted(s), UserName \notin Agent
      PROVE  Credited(s)
  <2>1. PICK i \in TriggerSeq(s) + 1 .. Len(messages[th]) :
           messages[th][i].name = AgentOf(s) /\ messages[th][i].author_type = "agent"
    BY <1>4 DEF Counted, LastSeq
  <2>2. Says(messages[th][i], th, i)
    BY <1>1, <1>2, <1>3, <2>1
  <2>3. \/ messages[th][i].of # Nobody /\ AgentOf(messages[th][i].of) = AgentOf(s)
        \/ messages[th][i].via = "claimed" /\ messages[th][i].name = AgentOf(s)
    BY <1>1, <1>4, <2>1, <2>2 DEF Says
  <2> QED
    BY <2>3 DEF Credited, LastSeq
<1>5. ASSUME PostedBy(s, "self", exitSeq[s])
      PROVE  Counted(s)
  <2>1. PICK i \in 1 .. exitSeq[s] : messages[th][i].of = s /\ messages[th][i].via = "self"
    BY <1>5 DEF PostedBy
  <2>2. i \in 1 .. Len(messages[th]) /\ Says(messages[th][i], th, i)
    BY <1>2, <1>3, <2>1
  <2>3. /\ messages[th][i].name = AgentOf(s) /\ messages[th][i].author_type = "agent"
        /\ i \in TriggerSeq(s) + 1 .. Len(messages[th])
    BY <1>1, <1>2, <2>1, <2>2 DEF Says
  <2> QED
    BY <2>3 DEF Counted, LastSeq
<1> QED
  BY <1>4, <1>5

\* Every step of a session keeps the invariant.
LEMMA StepKeeps ==
    ASSUME IInv, NEW s \in Session, Step(s)
    PROVE  IInv'
<1> USE DEF PC, Live, Final
<1>0. ctx \subseteq Session
  BY DEF IInv, Types
<1>1. CASE Dispatch(s)
  <2>1. pc[s] = "queued" /\ Goto(s, "exec") /\ UNCHANGED <<messages, mode, ctx, exitSeq, got, reply>>
    BY <1>1 DEF Dispatch
  <2>2. SessionInv(s)'
    BY <2>1, OwnFacts DEF SessionInv
  <2> QED
    BY <1>0, <2>1, <2>2, QuietStep
<1>2. CASE RunFails(s)
  <2>1. PICK at \in {"canceled", "failed"} : Goto(s, at)
    BY <1>2 DEF RunFails
  <2>2. pc[s] = "exec" /\ UNCHANGED <<messages, mode, ctx, exitSeq, got, reply>>
    BY <1>2 DEF RunFails
  <2>3. SessionInv(s)'
    BY <2>1, <2>2, OwnFacts DEF SessionInv
  <2> QED
    BY <1>0, <2>1, <2>2, <2>3, QuietStep
<1>3. CASE ResolveReply(s)
  <2>1. /\ pc[s] = "exec" /\ UNCHANGED <<messages, mode, ctx, got, reply>>
        /\ exitSeq' = [exitSeq EXCEPT ![s] = LastSeq(ThreadOf(s))]
    BY <1>3 DEF ResolveReply
  <2>2. PICK at \in {"post", "grace"} :
            Goto(s, at) /\ (at = "post" <=> mode[s] = "stdout")
    BY <1>3 DEF ResolveReply
  <2>3. exitSeq'[s] = LastSeq(ThreadOf(s))
    BY <2>1 DEF IInv, Types
  <2>4. SessionInv(s)'
    BY <2>1, <2>2, <2>3, OwnFacts DEF SessionInv
  <2> QED
    BY <1>0, <2>1, <2>2, <2>4, QuietStep
<1>4. CASE CountPosts(s)
  <2>1. pc[s] = "grace" /\ UNCHANGED <<messages, mode, ctx, exitSeq, got, reply>>
    BY <1>4 DEF CountPosts
  <2>2. PICK at \in {"canceled", "found", "failed", "post"} :
          /\ Goto(s, at)
          /\ at = "found" => Counted(s)
          /\ at = "post" => ~Counted(s) /\ mode[s] # "cli"
    BY <1>4 DEF CountPosts
  <2>3. SessionInv(s)'
    BY <2>1, <2>2, OwnFacts, CountedMeans DEF SessionInv
  <2> QED
    BY <1>0, <2>1, <2>2, <2>3, QuietStep
<1>5. CASE Found(s)
  <2>1. pc[s] = "found" /\ Goto(s, "succeeded") /\ UNCHANGED <<messages, mode, ctx, exitSeq, got, reply>>
    BY <1>5 DEF Found
  <2>2. SessionInv(s)'
    BY <2>1, OwnFacts DEF SessionInv
  <2> QED
    BY <1>0, <2>1, <2>2, QuietStep
<1>6. CASE PostReply(s)
  <2>1. pc[s] = "post" /\ UNCHANGED <<messages, mode, ctx, exitSeq, got, reply>>
    BY <1>6 DEF PostReply
  <2>2. PICK at \in {"canceled", "succeeded", "append"} : Goto(s, at)
    BY <1>6 DEF PostReply
  <2>3. SessionInv(s)'
    BY <2>1, <2>2, OwnFacts DEF SessionInv
  <2> QED
    BY <1>0, <2>1, <2>2, <2>3, QuietStep
<1>7. CASE AppendReply(s)
  BY <1>7, AppendReplyKeeps
<1>8. CASE LinkReply(s)
  <2>1. /\ pc[s] = "link" /\ Goto(s, "succeeded")
        /\ UNCHANGED <<messages, mode, ctx, exitSeq, got>>
        /\ reply' = [reply EXCEPT ![s] = got[s]]
    BY <1>8 DEF LinkReply
  <2>2. reply'[s] = got[s]
    BY <2>1 DEF IInv, Types
  <2>3. SessionInv(s)'
    BY <2>1, <2>2, OwnFacts DEF SessionInv
  <2> QED
    BY <1>0, <2>1, <2>3, QuietStep
<1> QED
  BY <1>1, <1>2, <1>3, <1>4, <1>5, <1>6, <1>7, <1>8 DEF Step

\* A cancel touches the context alone.
LEMMA CancelKeeps ==
    ASSUME IInv, NEW s \in Session, Cancel(s)
    PROVE  IInv'
<1>1. ctx' \subseteq Session /\ UNCHANGED <<messages, mode, pc, exitSeq, got, reply>>
  BY DEF Cancel, IInv, Types
<1>2. Types'
  BY <1>1 DEF IInv, Types
<1>3. MessageInv'
  BY <1>1 DEF IInv, MessageInv, LastSeq
<1>4. \A t \in Session : SessionInv(t)'
  BY <1>1, SameMessages, SessionKept DEF IInv
<1> QED
  BY <1>2, <1>3, <1>4 DEF IInv

----------------------------------------------------------------------------

\* The initial state: empty threads and no sessions.
LEMMA InitIInv == Init => IInv
<1> SUFFICES ASSUME Init PROVE IInv
  OBVIOUS
<1>1. Types
  BY DEF Init, Types, PC
<1>2. \A th \in Thread : LastSeq(th) = 0
  BY DEF Init, LastSeq
<1>3. MessageInv
  BY <1>2 DEF MessageInv
<1>4. ASSUME NEW s \in Session
      PROVE  SessionInv(s)
  <2>1. LastSeq(ThreadOf(s)) = 0
    BY <1>2, SessionParts
  <2>2. ~OutputPosted(s)
    BY <2>1 DEF OutputPosted, PostedBy
  <2>3. /\ mode[s] = "none" /\ pc[s] = "none"
        /\ exitSeq[s] = 0 /\ got[s] = 0 /\ reply[s] = 0
    BY DEF Init
  <2> QED
    BY <2>1, <2>2, <2>3 DEF SessionInv
<1> QED
  BY <1>1, <1>3, <1>4 DEF IInv

\* A step that changes nothing.
LEMMA StutterKeeps ==
    ASSUME IInv, UNCHANGED vars
    PROVE  IInv'
<1>1. UNCHANGED <<messages, mode, pc, ctx, exitSeq, got, reply>>
  BY DEF vars
<1>2. Types' /\ MessageInv'
  BY <1>1 DEF IInv, Types, MessageInv, LastSeq
<1>3. \A t \in Session : SessionInv(t)'
  BY <1>1, SameMessages, SessionKept DEF IInv
<1> QED
  BY <1>2, <1>3 DEF IInv

\* IInv is inductive.
LEMMA NextIInv == IInv /\ [Next]_vars => IInv'
<1> SUFFICES ASSUME IInv, [Next]_vars PROVE IInv'
  OBVIOUS
<1>1. ASSUME NEW th \in Thread, NEW name \in Author, NEW who \in SUBSET Agent,
             HumanPosts(th, name, who)
      PROVE  IInv'
  BY <1>1, HumanPostsKeeps
<1>2. ASSUME NEW s \in Session, Step(s)
      PROVE  IInv'
  BY <1>2, StepKeeps
<1>3. ASSUME NEW s \in Session, Cancel(s)
      PROVE  IInv'
  BY <1>3, CancelKeeps
<1>4. ASSUME NEW s \in Session, NEW via \in {"self", "prompt"}, AgentPosts(s, via)
      PROVE  IInv'
  BY <1>4, AgentPostsKeeps
<1>5. ASSUME NEW th \in Thread, NEW name \in Agent, Claims(th, name)
      PROVE  IInv'
  BY <1>5, ClaimsKeeps
<1>6. CASE UNCHANGED vars
  BY <1>6, StutterKeeps
<1> QED
  BY <1>1, <1>2, <1>3, <1>4, <1>5, <1>6 DEF Next

\* The inductive invariant holds of every behaviour.
THEOREM Invariance == Spec => []IInv
BY InitIInv, NextIInv, PTL DEF Spec

\* Every variable has its type, and the seqs a session keeps are within its
\* thread (the rows and the goroutine of internal/session/manager.go).
THEOREM TypesOK == Spec => []TypeOK
<1>1. IInv => TypeOK
  <2> SUFFICES ASSUME IInv, NEW s \in Session
               PROVE  {exitSeq[s], got[s], reply[s]} \subseteq 0 .. LastSeq(ThreadOf(s))
    BY DEF IInv, Types, TypeOK
  <2>1. LastSeq(ThreadOf(s)) \in Nat
    BY SessionParts DEF IInv, Types, LastSeq
  <2>2. exitSeq[s] \in Nat /\ got[s] \in Nat /\ reply[s] \in Nat
    BY DEF IInv, Types
  <2> QED
    BY <2>1, <2>2 DEF IInv, SessionInv, OwnOutput
<1> QED
  BY <1>1, Invariance, PTL

\* The manager posts nothing on top of an answer that an agent in mode "auto"
\* posted under its name before it exited (resolveReply, agentPosted).
THEOREM NothingPostedTwice == Spec => []NoDuplicateReply
<1>1. IInv => NoDuplicateReply
  BY DEF IInv, SessionInv, NoDuplicateReply
<1> QED
  BY <1>1, Invariance, PTL

\* A run that counts as answered is so for a message after its trigger that a
\* run of its agent posted, or that somebody posted in that agent's name with
\* the agent's header, if $USER names no agent: never for what another agent's
\* run posts as itself, or a person (CountAgentMessagesAfter and the names of
\* `flf message send`).
THEOREM CreditIsOwn == Spec => []CreditIsTheAgents
<1>1. IInv => CreditIsTheAgents
  BY DEF IInv, SessionInv, CreditIsTheAgents, Credited
<1> QED
  BY <1>1, Invariance, PTL

\* reply_message_id names the manager's own post for the session (postReply,
\* MessageIDBySeq, SetSessionReply).
THEOREM ReplyIsOwn == Spec => []ReplyIsOwnMessage
<1>1. IInv => ReplyIsOwnMessage
  BY DEF IInv, SessionInv, ReplyIsOwnMessage, OwnOutput
<1> QED
  BY <1>1, Invariance, PTL
=============================================================================
