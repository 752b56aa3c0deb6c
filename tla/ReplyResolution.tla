-------------------------- MODULE ReplyResolution --------------------------
(* Which message of a thread is a session's reply.                          *)
(*                                                                          *)
(* An agent in mode "stdout" has its output posted for it; in mode "cli" it *)
(* must post by itself; in mode "auto" its output is posted only if it did  *)
(* not.  The manager cannot tell who ran `flf message send`: it counts the  *)
(* messages of the thread that carry the agent's name and the author type   *)
(* "agent" after the trigger (internal/session/manager.go, resolveReply).   *)
(* Here several sessions of one thread resolve their replies while people   *)
(* and agents append to it.                                                 *)
(*                                                                          *)
(* Abstracted: slots, shutdown, restarts and store errors, which are        *)
(* AgentSessions' subject, and what a message says.  The trigger's append   *)
(* and Start are one step: a session's row has no effect until it runs.     *)
(* A run's posts land before its session is over.                           *)
EXTENDS Integers, Sequences, FiniteSets

CONSTANTS
    Thread,
    Agent,          \* names of agents
    UserName,       \* $USER, in the daemon's environment and so in its children's
    ReplyMode,      \* the reply modes the configuration uses
    MaxMessages,    \* bound: people and agents append while a thread is shorter
    MaxSessions     \* bound: sessions ever started

ASSUME ModeAssumption == ReplyMode \subseteq {"stdout", "cli", "auto"}
ASSUME NameAssumption == "" \notin Agent \cup {UserName}
ASSUME BoundAssumption == MaxMessages \in Nat /\ MaxSessions \in Nat

\* A session is known by its thread, its trigger's seq and its agent.
Session == Thread \X (1 .. MaxMessages) \X Agent
ThreadOf(s) == s[1]
TriggerSeq(s) == s[2]
AgentOf(s) == s[3]

Nobody == <<>>
Author == Agent \cup {UserName}
Message == [name : Author, author_type : {"human", "agent"},
            of : Session \cup {Nobody},             \* the run it comes from
            via : {"human", "self", "prompt", "stdout", "claimed"}]     \* how it was posted

VARIABLES
    messages,   \* per thread; a message's seq is its index
    mode,       \* reply mode of each session, "none" before it exists
    pc,         \* where its goroutine stands
    ctx,        \* runs whose context is canceled
    exitSeq,    \* length of the thread when the agent exited
    got,        \* the seq postReply's append returned
    reply       \* agent_sessions.reply_message_id, as a seq; 0 for NULL

vars == <<messages, mode, pc, ctx, exitSeq, got, reply>>

Final == {"succeeded", "failed", "canceled"}
Live == {"exec", "grace", "found", "post", "append", "link"}
PC == {"none", "queued"} \cup Live \cup Final

Init ==
    /\ messages = [th \in Thread |-> <<>>]
    /\ mode = [s \in Session |-> "none"]
    /\ pc = [s \in Session |-> "none"]
    /\ ctx = {}
    /\ exitSeq = [s \in Session |-> 0]
    /\ got = [s \in Session |-> 0]
    /\ reply = [s \in Session |-> 0]

Goto(s, at) == pc' = [pc EXCEPT ![s] = at]
LastSeq(th) == Len(messages[th])

\* appendMessage gives a message the seq after the thread's last one.
Append1(th, m) == messages' = [messages EXCEPT ![th] = Append(@, m)]

\* A slip in Counted, not part of Next: the query forgets author_type.
CountedByName(s) ==
    \E i \in TriggerSeq(s) + 1 .. LastSeq(ThreadOf(s)) :
        messages[ThreadOf(s)][i].name = AgentOf(s)

\* CountAgentMessagesAfter(thread, name, trigger.Seq) > 0
Counted(s) ==
    \E i \in TriggerSeq(s) + 1 .. LastSeq(ThreadOf(s)) :
        LET m == messages[ThreadOf(s)][i]
        IN  m.name = AgentOf(s) /\ m.author_type = "agent"

----------------------------------------------------------------------------
(* Slips that a change to the code could make; none is part of Next. *)

\* For CountPosts: only what is posted after the agent exited counts.
CountPostsAfterExit(s) ==
    /\ pc[s] = "grace"
    /\ Goto(s, IF s \in ctx THEN "canceled"
               ELSE IF Counted(s) /\ LastSeq(ThreadOf(s)) > exitSeq[s] THEN "found"
               ELSE IF mode[s] = "cli" THEN "failed" ELSE "post")
    /\ UNCHANGED <<messages, mode, ctx, exitSeq, got, reply>>

\* For AppendReply: the seq is taken for the next message's, not this one's.
AppendReplyNextSeq(s) ==
    /\ pc[s] = "append"
    /\ Append1(ThreadOf(s), [name |-> AgentOf(s), author_type |-> "agent",
                             of |-> s, via |-> "stdout"])
    /\ got' = [got EXCEPT ![s] = LastSeq(ThreadOf(s)) + 2]
    /\ Goto(s, "link")
    /\ UNCHANGED <<mode, ctx, exitSeq, reply>>

\* For LinkReply: the thread's last message is taken for the one appended.
LinkLastMessage(s) ==
    /\ pc[s] = "link"
    /\ reply' = [reply EXCEPT ![s] = LastSeq(ThreadOf(s))]
    /\ Goto(s, "succeeded")
    /\ UNCHANGED <<messages, mode, ctx, exitSeq, got>>

----------------------------------------------------------------------------
(* What reaches the thread. *)

\* POST /v1/threads/:id/messages without X-Fluffle-Agent, under any name, and
\* the Start it leads to for the agents it mentions.  Start reads the
\* configuration anew, so a mode is per session.
HumanPosts(th, name, who) ==
    LET seq == LastSeq(th) + 1
        New == {s \in Session : ThreadOf(s) = th /\ TriggerSeq(s) = seq /\ AgentOf(s) \in who}
    IN  /\ seq <= MaxMessages
        /\ Cardinality({s \in Session : mode[s] # "none"} \cup New) <= MaxSessions
        /\ Append1(th, [name |-> name, author_type |-> "human", of |-> Nobody, via |-> "human"])
        /\ \E m \in [New -> ReplyMode] :
               mode' = [s \in Session |-> IF s \in New THEN m[s] ELSE mode[s]]
        /\ pc' = [s \in Session |-> IF s \in New THEN "queued" ELSE pc[s]]
        /\ UNCHANGED <<ctx, exitSeq, got, reply>>

\* The name `flf message send` puts into the body: --as, or else $USER.
DefaultName(as) == IF as # "" THEN as ELSE UserName

\* The name the handler gives a message: the body's, or else its agent id.
MessageName(name, agentID) == IF name # "" THEN name ELSE agentID

\* The agent's process posts with X-Fluffle-Agent set, so that no session
\* starts: "prompt" is the command the prompt spells out, which has --agent-id
\* and no --as; "self" names the agent, by --as or by leaving Name empty.
AgentPosts(s, via) ==
    LET as == IF via = "prompt" THEN "" ELSE AgentOf(s)
        name == MessageName(DefaultName(as), AgentOf(s))
        m == [name |-> name, author_type |-> "agent", of |-> s, via |-> via]
    IN  /\ pc[s] \in Live
        /\ LastSeq(ThreadOf(s)) < MaxMessages
        /\ Append1(ThreadOf(s), m)
        /\ UNCHANGED <<mode, pc, ctx, exitSeq, got, reply>>

\* The same request from anyone else, whose header and name the handler takes as
\* they come: a person's shell, a process that outlives its run, a run that
\* posts under another agent's name with --as.
Claims(th, name) ==
    /\ LastSeq(th) < MaxMessages
    /\ Append1(th, [name |-> name, author_type |-> "agent", of |-> Nobody, via |-> "claimed"])
    /\ UNCHANGED <<mode, pc, ctx, exitSeq, got, reply>>

----------------------------------------------------------------------------
(* run and resolveReply, in the goroutine of the session. *)

Dispatch(s) ==
    /\ pc[s] = "queued"
    /\ Goto(s, "exec")
    /\ UNCHANGED <<messages, mode, ctx, exitSeq, got, reply>>

Cancel(s) ==
    /\ pc[s] \in Live
    /\ ctx' = ctx \cup {s}
    /\ UNCHANGED <<messages, mode, pc, exitSeq, got, reply>>

\* Run returns without an error, and resolveReply goes by the mode.  The context
\* is read on the way; a cancel before that read ends the run by RunFails.
ResolveReply(s) ==
    /\ pc[s] = "exec" /\ s \notin ctx
    /\ exitSeq' = [exitSeq EXCEPT ![s] = LastSeq(ThreadOf(s))]
    /\ Goto(s, IF mode[s] = "stdout" THEN "post" ELSE "grace")
    /\ UNCHANGED <<messages, mode, ctx, got, reply>>

RunFails(s) ==
    /\ pc[s] = "exec"
    /\ Goto(s, IF s \in ctx THEN "canceled" ELSE "failed")
    /\ UNCHANGED <<messages, mode, ctx, exitSeq, got, reply>>

\* agentPosted: a poll that counts something ends the wait, and one that counts
\* nothing may be the last, because of the deadline or of the context, which is
\* read next.
CountPosts(s) ==
    /\ pc[s] = "grace"
    /\ Goto(s, IF s \in ctx THEN "canceled"
               ELSE IF Counted(s) THEN "found"
               ELSE IF mode[s] = "cli" THEN "failed" ELSE "post")
    /\ UNCHANGED <<messages, mode, ctx, exitSeq, got, reply>>

Found(s) ==
    /\ pc[s] = "found"
    /\ Goto(s, "succeeded")
    /\ UNCHANGED <<messages, mode, ctx, exitSeq, got, reply>>

\* postReply: blank output is posted by nobody and is no failure.
PostReply(s) ==
    /\ pc[s] = "post"
    /\ IF s \in ctx THEN Goto(s, "canceled")
       ELSE \E at \in {"succeeded", "append"} : Goto(s, at)
    /\ UNCHANGED <<messages, mode, ctx, exitSeq, got, reply>>

AppendReply(s) ==
    /\ pc[s] = "append"
    /\ Append1(ThreadOf(s), [name |-> AgentOf(s), author_type |-> "agent",
                             of |-> s, via |-> "stdout"])
    /\ got' = [got EXCEPT ![s] = LastSeq(ThreadOf(s)) + 1]
    /\ Goto(s, "link")
    /\ UNCHANGED <<mode, ctx, exitSeq, reply>>

\* MessageIDBySeq, SetSessionReply, FinishSession.
LinkReply(s) ==
    /\ pc[s] = "link"
    /\ reply' = [reply EXCEPT ![s] = got[s]]
    /\ Goto(s, "succeeded")
    /\ UNCHANGED <<messages, mode, ctx, exitSeq, got>>

----------------------------------------------------------------------------

Step(s) ==
    \/ Dispatch(s) \/ RunFails(s) \/ ResolveReply(s) \/ CountPosts(s) \/ Found(s)
    \/ PostReply(s) \/ AppendReply(s) \/ LinkReply(s)

Next ==
    \/ \E th \in Thread, name \in Author, who \in SUBSET Agent : HumanPosts(th, name, who)
    \/ \E th \in Thread, name \in Agent : Claims(th, name)
    \/ \E s \in Session :
        \/ Step(s)
        \/ Cancel(s)
        \/ \E via \in {"self", "prompt"} : AgentPosts(s, via)

Spec == Init /\ [][Next]_vars

----------------------------------------------------------------------------
(* Properties *)

\* Every variable has its type, and a session's bookkeeping stays within its
\* thread.
TypeOK ==
    /\ messages \in [Thread -> Seq(Message)]
    /\ mode \in [Session -> ReplyMode \cup {"none"}]
    /\ pc \in [Session -> PC]
    /\ ctx \subseteq Session
    /\ \A s \in Session : {exitSeq[s], got[s], reply[s]} \subseteq 0 .. LastSeq(ThreadOf(s))

PostedBy(s, via, upTo) ==
    \E i \in 1 .. upTo : LET m == messages[ThreadOf(s)][i] IN m.of = s /\ m.via = via

OutputPosted(s) == PostedBy(s, "stdout", LastSeq(ThreadOf(s)))

\* An agent in mode "auto" that answered under its name before it exited does
\* not have its output posted on top of the answer, whatever other sessions,
\* agents and people post to the thread meanwhile.
NoDuplicateReply ==
    \A s \in Session :
        mode[s] = "auto" /\ PostedBy(s, "self", exitSeq[s]) => ~OutputPosted(s)

\* A run is taken to have replied only on account of a message after its trigger
\* that a run of that very agent posted in its thread, or that somebody posted
\* there in that agent's name with the agent's header, which the code cannot tell
\* from the run's own: what another agent's run posts as itself never counts, nor
\* what a person posts, under whatever name, nor an answer to an earlier mention.
\* It takes a $USER that names no agent: the prompt's command posts under $USER,
\* and would answer for that agent whoever runs it.
CreditIsTheAgents ==
    UserName \notin Agent => \A s \in Session :
        pc[s] = "found" \/ (mode[s] = "cli" /\ pc[s] = "succeeded") =>
            \E i \in TriggerSeq(s) + 1 .. LastSeq(ThreadOf(s)) :
                LET m == messages[ThreadOf(s)][i]
                IN  \/ m.of # Nobody /\ AgentOf(m.of) = AgentOf(s)
                    \/ m.via = "claimed" /\ m.name = AgentOf(s)

\* reply_message_id is the message the manager posted for this very session,
\* however many messages landed between the append and the link.
ReplyIsOwnMessage ==
    \A s \in Session : reply[s] # 0 =>
        LET m == messages[ThreadOf(s)][reply[s]] IN m.of = s /\ m.via = "stdout"

\* What docs/agent-sessions.md says of the command in the prompt: an agent that
\* runs it has replied, so it does not end as one that did not, and its output
\* is not posted beside its reply.
PromptCommandReplies ==
    \A s \in Session :
        mode[s] \in {"cli", "auto"} /\ PostedBy(s, "prompt", exitSeq[s]) =>
            pc[s] # "failed" /\ ~OutputPosted(s)
=============================================================================
