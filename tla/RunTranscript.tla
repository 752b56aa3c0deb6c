--------------------------- MODULE RunTranscript ---------------------------
(* From an agent's output to its transcript: one execution of a command by  *)
(* internal/runner (exec.go, runner.go) with its output written to          *)
(* agent_session_events by internal/session/stream.go.                      *)
(*                                                                          *)
(* Two goroutines drain the command's pipes.  Each hands what a read        *)
(* returned through a limiter, which keeps the head and the tail of an      *)
(* output that is too long, to the stream writer, which gathers it in a     *)
(* buffer and flushes the buffer to the store: when it has grown enough, on *)
(* a ticker, and at the end.  A third goroutine, the session's, waits for   *)
(* the command, seals the limiters and closes the writer.                   *)
(*                                                                          *)
(* The k-th piece of output of a stream is the number k; sizes are counted  *)
(* in pieces.  Abstracted: the kill of the process group (its members       *)
(* write no more once the command is dead) and errors of the store.         *)
EXTENDS Integers, Sequences, FiniteSets

CONSTANTS
    headBytes, tailBytes,   \* what the limiter keeps of a stream
    StreamFlushBytes,       \* a buffer of this size is flushed at once
    MaxOutput               \* bound: pieces the command writes, both streams together

ASSUME SizeAssumption ==
    /\ headBytes \in Nat /\ tailBytes \in Nat \ {0}
    /\ StreamFlushBytes \in Nat \ {0} /\ MaxOutput \in Nat

Stream == {"stdout", "stderr"}
ElisionMarker == 0
Goroutine == Stream \cup {"loop", "main"}   \* a stream's name: its drain

VARIABLES
    proc,       \* the command: "live" or "dead"
    written,    \* per stream, how many pieces it has written
    taken,      \* per stream, how many its drain has read from the pipe
    closed,     \* cmd.Wait has closed the read ends of the pipes
    lim,        \* per stream, the limiter
    emitted,    \* per stream, all that was handed to OnChunk
    bufs,       \* per stream, the writer's buffer
    flushing,   \* per stream, who holds flushMu and what it took from the buffer
    events,     \* per stream, the contents of its agent_session_events rows put
                \* together in order, as collectStdout does for a reply
    pc,         \* where each goroutine stands
    todo,       \* streams the flushAll of "loop" and of "main" has not flushed
    stop        \* closeAll has closed the stop channel

runnerVars == <<proc, written, taken, closed, lim, emitted>>
vars == <<runnerVars, bufs, flushing, events, pc, todo, stop>>

Free == [by |-> "none", payload |-> <<>>]

Init ==
    /\ proc = "live"
    /\ written = [st \in Stream |-> 0] /\ taken = [st \in Stream |-> 0]
    /\ closed = FALSE
    /\ lim = [st \in Stream |-> [head |-> 0, tail |-> <<>>, overflow |-> FALSE]]
    /\ emitted = [st \in Stream |-> <<>>]
    /\ bufs = [st \in Stream |-> <<>>] /\ flushing = [st \in Stream |-> Free]
    /\ events = [st \in Stream |-> <<>>]
    /\ pc = [g \in Goroutine |-> IF g = "main" THEN "wait" ELSE "idle"]
    /\ todo = [g \in {"loop", "main"} |-> {}]
    /\ stop = FALSE

Goto(g, at) == pc' = [pc EXCEPT ![g] = at]

\* Pieces i to j of a stream.
Pieces(i, j) == [k \in 1 .. (IF j < i THEN 0 ELSE j - i + 1) |-> i + k - 1]
LastOf(seq, n) == SubSeq(seq, (IF Len(seq) > n THEN Len(seq) - n ELSE 0) + 1, Len(seq))

\* A slip in KeepTail: what has fallen out of the tail is not dropped.
KeepTailWhole(tail, b) == tail \o b
KeepTail(tail, b) == LastOf(tail \o b, tailBytes)

\* limiter.push: the limiter after b, and what of b goes on at once.
Push(l, b) ==
    LET room == headBytes - l.head
    IN  IF l.overflow
        THEN [lim |-> [l EXCEPT !.tail = KeepTail(@, b)], out |-> <<>>]
        ELSE IF Len(b) <= room
        THEN [lim |-> [l EXCEPT !.head = @ + Len(b)], out |-> b]
        ELSE [lim |-> [head |-> headBytes, overflow |-> TRUE,
                       tail |-> KeepTail(<<>>, SubSeq(b, room + 1, Len(b)))],
              out |-> SubSeq(b, 1, room)]

\* limiter.Seal: what is still to come.
Sealed(l) == IF l.overflow THEN <<ElisionMarker>> \o l.tail ELSE <<>>

\* streamWriter.write, called by g, which goes to `next` afterwards, by way of
\* flush if the buffer has grown to StreamFlushBytes.
Write(g, st, out, next) ==
    /\ emitted' = [emitted EXCEPT ![st] = @ \o out]
    /\ bufs' = [bufs EXCEPT ![st] = @ \o out]
    /\ Goto(g, IF Len(bufs[st]) + Len(out) >= StreamFlushBytes /\ out # <<>>
               THEN "flush" ELSE next)

----------------------------------------------------------------------------
(* Slips that a change to the code could make; none is part of Next. *)

\* For TakeBuffer: there is no flushMu.
TakeUnlocked(g, st) ==
    /\ bufs[st] # <<>>
    /\ flushing' = [flushing EXCEPT ![st] = [by |-> g, payload |-> bufs[st]]]
    /\ bufs' = [bufs EXCEPT ![st] = <<>>]

\* For CloseFlushes: only the loop's ticks flush.
CloseFlushesNothing ==
    /\ pc["main"] = "join" /\ pc["loop"] = "done"
    /\ Goto("main", "flushall")
    /\ todo' = [todo EXCEPT !["main"] = {}]
    /\ UNCHANGED <<runnerVars, bufs, flushing, events, stop>>

\* For CloseStops: closeAll waits for the loop without telling it to stop.
CloseForgetsStop ==
    /\ pc["main"] = "close"
    /\ Goto("main", "join")
    /\ UNCHANGED <<runnerVars, bufs, flushing, events, todo, stop>>

----------------------------------------------------------------------------
(* The command and cmd.Wait. *)

Writes(st) ==
    /\ proc = "live"
    /\ written["stdout"] + written["stderr"] < MaxOutput
    /\ written' = [written EXCEPT ![st] = @ + 1]
    /\ UNCHANGED <<proc, taken, closed, lim, emitted, bufs, flushing, events, pc, todo, stop>>

Exits ==
    /\ proc = "live"
    /\ proc' = "dead"
    /\ UNCHANGED <<written, taken, closed, lim, emitted, bufs, flushing, events, pc, todo, stop>>

\* cmd.Wait returns once the command is dead, and closes the pipes as it does.
WaitReturns ==
    /\ pc["main"] = "wait" /\ proc = "dead"
    /\ closed' = TRUE
    /\ Goto("main", "drains")
    /\ UNCHANGED <<proc, written, taken, lim, emitted, bufs, flushing, events, todo, stop>>

----------------------------------------------------------------------------
(* A drain: Read, push, OnChunk; any error of Read ends it. *)

DrainReads(st) ==
    /\ pc[st] = "idle" /\ ~closed
    /\ \E n \in taken[st] + 1 .. written[st] :
           LET p == Push(lim[st], Pieces(taken[st] + 1, n))
           IN  /\ taken' = [taken EXCEPT ![st] = n]
               /\ lim' = [lim EXCEPT ![st] = p.lim]
               /\ Write(st, st, p.out, "idle")
    /\ UNCHANGED <<proc, written, closed, flushing, events, todo, stop>>

\* End of file, or a pipe that Wait has closed under the drain.
DrainEnds(st) ==
    /\ pc[st] = "idle"
    /\ closed \/ (proc = "dead" /\ taken[st] = written[st])
    /\ Goto(st, "done")
    /\ UNCHANGED <<runnerVars, bufs, flushing, events, todo, stop>>

----------------------------------------------------------------------------
(* streamWriter.flush: the buffer is taken under flushMu and mu, and        *)
(* flushMu is held until the store has it.                                  *)

TakeBuffer(g, st) ==
    /\ flushing[st] = Free /\ bufs[st] # <<>>
    /\ flushing' = [flushing EXCEPT ![st] = [by |-> g, payload |-> bufs[st]]]
    /\ bufs' = [bufs EXCEPT ![st] = <<>>]

\* AppendSessionEvent, then flushMu is released.
AppendEvent(g, st) ==
    /\ flushing[st].by = g
    /\ events' = [events EXCEPT ![st] = @ \o flushing[st].payload]
    /\ flushing' = [flushing EXCEPT ![st] = Free]

NothingToFlush(st) == flushing[st] = Free /\ bufs[st] = <<>>

DrainFlushes(st) ==
    /\ \/ pc[st] = "flush" /\ TakeBuffer(st, st) /\ Goto(st, "append") /\ UNCHANGED events
       \/ pc[st] = "flush" /\ NothingToFlush(st) /\ Goto(st, "idle")
            /\ UNCHANGED <<bufs, flushing, events>>
       \/ pc[st] = "append" /\ AppendEvent(st, st) /\ Goto(st, "idle") /\ UNCHANGED bufs
    /\ UNCHANGED <<runnerVars, todo, stop>>

\* flushAll, by the loop or by closeAll: a map's keys come in any order.
FlushAll(g) ==
    /\ \E st \in todo[g] :
        \/ /\ pc[g] = "flushall"
           /\ TakeBuffer(g, st)
           /\ Goto(g, "append")
           /\ UNCHANGED <<events, todo>>
        \/ /\ pc[g] = "flushall"
           /\ NothingToFlush(st)
           /\ todo' = [todo EXCEPT ![g] = @ \ {st}]
           /\ UNCHANGED <<bufs, flushing, events, pc>>
        \/ /\ pc[g] = "append"
           /\ AppendEvent(g, st)
           /\ todo' = [todo EXCEPT ![g] = @ \ {st}]
           /\ Goto(g, "flushall")
           /\ UNCHANGED bufs
    /\ UNCHANGED <<runnerVars, stop>>

\* With the ticker and the stop channel both ready, select takes either.
LoopTicks ==
    /\ pc["loop"] = "idle"
    /\ Goto("loop", "flushall")
    /\ todo' = [todo EXCEPT !["loop"] = Stream]
    /\ UNCHANGED <<runnerVars, bufs, flushing, events, stop>>

LoopSleeps ==
    /\ pc["loop"] = "flushall" /\ todo["loop"] = {}
    /\ Goto("loop", "idle")
    /\ UNCHANGED <<runnerVars, bufs, flushing, events, todo, stop>>

LoopStops ==
    /\ pc["loop"] = "idle" /\ stop
    /\ Goto("loop", "done")
    /\ UNCHANGED <<runnerVars, bufs, flushing, events, todo, stop>>

----------------------------------------------------------------------------
(* The session's goroutine: the end of Run, then closeAll. *)

\* wg.Wait.  `todo` holds the streams left to seal meanwhile.
DrainsJoined ==
    /\ pc["main"] = "drains"
    /\ \A st \in Stream : pc[st] = "done"
    /\ Goto("main", "seal")
    /\ todo' = [todo EXCEPT !["main"] = Stream]
    /\ UNCHANGED <<runnerVars, bufs, flushing, events, stop>>

\* stdout is sealed before stderr.
Seal ==
    LET st == IF "stdout" \in todo["main"] THEN "stdout" ELSE "stderr"
    IN  /\ pc["main"] = "seal" /\ todo["main"] # {}
        /\ Write("main", st, Sealed(lim[st]), IF st = "stdout" THEN "seal" ELSE "close")
        /\ todo' = [todo EXCEPT !["main"] = @ \ {st}]
        /\ UNCHANGED <<proc, written, taken, closed, lim, flushing, events, stop>>

\* The flush of a sealed stream; the one sealed last is not in todo any more.
SealFlushes ==
    LET st == IF "stderr" \in todo["main"] THEN "stdout" ELSE "stderr"
        next == IF st = "stdout" THEN "seal" ELSE "close"
    IN  /\ \/ /\ pc["main"] = "flush" /\ TakeBuffer("main", st)
              /\ Goto("main", "sealed") /\ UNCHANGED events
           \/ /\ pc["main"] = "flush" /\ NothingToFlush(st)
              /\ Goto("main", next) /\ UNCHANGED <<bufs, flushing, events>>
           \/ /\ pc["main"] = "sealed" /\ AppendEvent("main", st)
              /\ Goto("main", next) /\ UNCHANGED bufs
        /\ UNCHANGED <<runnerVars, todo, stop>>

CloseStops ==
    /\ pc["main"] = "close"
    /\ stop' = TRUE
    /\ Goto("main", "join")
    /\ UNCHANGED <<runnerVars, bufs, flushing, events, todo>>

CloseFlushes ==
    /\ pc["main"] = "join" /\ pc["loop"] = "done"
    /\ Goto("main", "flushall")
    /\ todo' = [todo EXCEPT !["main"] = Stream]
    /\ UNCHANGED <<runnerVars, bufs, flushing, events, stop>>

\* closeAll sets done; nobody is left who could write.
CloseReturns ==
    /\ pc["main"] = "flushall" /\ todo["main"] = {}
    /\ Goto("main", "done")
    /\ UNCHANGED <<runnerVars, bufs, flushing, events, todo, stop>>

----------------------------------------------------------------------------

Main == \/ WaitReturns \/ DrainsJoined \/ Seal \/ SealFlushes
        \/ CloseStops \/ CloseFlushes \/ FlushAll("main") \/ CloseReturns
Drain(st) == DrainReads(st) \/ DrainEnds(st) \/ DrainFlushes(st)
Loop == LoopTicks \/ LoopSleeps \/ FlushAll("loop")

Next ==
    \/ Exits \/ Main \/ Loop \/ LoopStops
    \/ \E st \in Stream : Writes(st) \/ Drain(st)

\* The command may run for ever as far as this module goes: Exits is not fair.
\* A goroutine that can go on does.  The loop's select is random, so that a
\* stop it is offered again and again is taken in the end: LoopStops is
\* strongly fair.
Fairness ==
    /\ WF_vars(Main) /\ WF_vars(Loop) /\ SF_vars(LoopStops)
    /\ \A st \in Stream : WF_vars(Drain(st))

Spec == Init /\ [][Next]_vars /\ Fairness

----------------------------------------------------------------------------
(* Properties *)

Piece == 0 .. MaxOutput

\* Every variable has its type; a drain reads no more than was written, and the
\* limiter keeps no more than its two parts.
TypeOK ==
    /\ proc \in {"live", "dead"} /\ closed \in BOOLEAN /\ stop \in BOOLEAN
    /\ written \in [Stream -> Nat] /\ taken \in [Stream -> Nat]
    /\ written["stdout"] + written["stderr"] <= MaxOutput
    /\ lim \in [Stream -> [head : 0 .. headBytes, tail : Seq(Piece), overflow : BOOLEAN]]
    /\ \A st \in Stream : taken[st] <= written[st] /\ Len(lim[st].tail) <= tailBytes
    /\ emitted \in [Stream -> Seq(Piece)]
    /\ bufs \in [Stream -> Seq(Piece)]
    /\ flushing \in [Stream -> [by : Goroutine \cup {"none"}, payload : Seq(Piece)]]
    /\ events \in [Stream -> Seq(Piece)]
    /\ pc \in [Goroutine -> {"idle", "flush", "append", "flushall", "wait", "drains", "seal",
                              "sealed", "close", "join", "done"}]
    /\ todo \in [{"loop", "main"} -> SUBSET Stream]

\* What the runner hands over is in the rows, with the flusher or in the buffer,
\* in the order it was handed over: however the drain, the ticker and closeAll
\* meet, no flush overtakes another of its stream, and none stores a piece twice
\* or drops one.
TranscriptInOrder ==
    \A st \in Stream : events[st] \o flushing[st].payload \o bufs[st] = emitted[st]

\* The head and the tail of an output of n pieces, and the marker between them.
Elided(n) == Pieces(1, headBytes) \o <<ElisionMarker>>
               \o LastOf(Pieces(headBytes + 1, n), tailBytes)

\* When closeAll returns, and collectStdout reads, the rows hold all that the
\* drains have read, if that fits the head and the tail, and else the head, the
\* marker and the tail: nothing is left in memory, and nothing is dropped without
\* the marker.  With an output longer than the head that fits both, the marker may
\* come where nothing was dropped: NoMarkerUnderBudget is about that.
TranscriptIsComplete ==
    pc["main"] = "done" => \A st \in Stream :
        \/ taken[st] <= headBytes + tailBytes /\ events[st] = Pieces(1, taken[st])
        \/ taken[st] > headBytes /\ events[st] = Elided(taken[st])

\* When the command is dead, its session comes to an end: Run returns, the loop
\* stops and closeAll returns, whatever the ticker does meanwhile.
RunEnds == proc = "dead" ~> pc["main"] = "done"

\* What the runner's tests say of an output (internal/runner/exec_test.go:204:
\* "exact bytes, once, in order"): all the command wrote has been read.
OutputIsCaptured ==
    pc["main"] = "done" => \A st \in Stream : taken[st] = written[st]

\* What they say of an output within the budget (internal/runner/exec_test.go:206:
\* "marker appended to under-budget output"): the marker is not in its transcript.
NoMarkerUnderBudget ==
    \A st \in Stream : written[st] <= headBytes + tailBytes =>
        \A k \in 1 .. Len(events[st]) : events[st][k] # ElisionMarker
=============================================================================
