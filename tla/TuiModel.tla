------------------------------ MODULE TuiModel ------------------------------
(* The terminal interface: Update of internal/tui/model.go with the reply   *)
(* box of compose.go and the requests of api.go, over a database that       *)
(* others append to.                                                        *)
(*                                                                          *)
(* Update handles one message at a time.  A command it returns runs in a    *)
(* goroutine of its own and ends in another message, so that requests are   *)
(* answered, and answers handled, in any order with each other and with     *)
(* keys; net holds the commands under way, the clock among them, and the    *)
(* messages on their way back.                                              *)
(*                                                                          *)
(* Abstracted: what is drawn (detail, the status band, cells), widths, and  *)
(* the text in the box but for whether it is blank.  Rows and messages are  *)
(* their id and thread, all the model's decisions look at.                  *)
EXTENDS ThreadStore, Integers

CONSTANTS
    InitialDB,
    RowLimit,       \* what fetchRows asks for, 200 in the code
    MinHeight,      \* of a terminal that keys are handled in
    Chrome,         \* rows that are not the list's: title, footer, status, slack, header
    Heights,        \* of the terminal, as it is resized
    Text,           \* what is written, by others and in the box
    MaxNet,         \* bound: requests and messages under way
    MaxKeys,        \* bound: keys and resizes
    MaxAppends,     \* bound: messages of others
    MaxFaults       \* bound: requests that fail

ASSUME TuiAssumption ==
    {RowLimit, MaxNet, MaxKeys, MaxAppends, MaxFaults, MinHeight, Chrome} \cup Heights \subseteq Nat
ASSUME TextAssumption == Text \in Content
ASSUME InitialAssumption == Consistent(InitialDB)

VARIABLES
    m,          \* the model
    box,        \* the reply box
    net,        \* a set: nth tells equal ones apart
    d,          \* the database
    quitting, keys, appends, faults

vars == <<m, box, net, d, quitting, keys, appends, faults>>

Granularity == {"message", "thread", "channel"}
Lesser(a, b) == IF a < b THEN a ELSE b
Greater(a, b) == IF a > b THEN a ELSE b

----------------------------------------------------------------------------
(* The daemon's side *)

Ref(s) == [i \in DOMAIN s |-> [id |-> s[i].id, thread |-> s[i].thread]]
Rows(g) == Ref(ListRows(d, g, RowLimit))
Messages(t) == Ref(ListMessages(d, t))

----------------------------------------------------------------------------
(* The list *)

Visible(k) == Greater(k.height - Chrome, 1)

\* The scroll is bounded by the list, and then by the cursor.
Clamp(k) ==
    LET n == Len(k.rows)
        cursor == Lesser(Greater(k.cursor, 0), n - 1)
        top == cursor - Visible(k) + 1
        inList == Lesser(Greater(k.scroll, 0), Greater(0, n - Visible(k)))
        scroll == Greater(0, Lesser(inList, top))
    IN  IF n = 0 THEN [k EXCEPT !.cursor = 0, !.scroll = 0]
        ELSE [k EXCEPT !.cursor = cursor,
                       !.scroll = IF cursor >= scroll + Visible(k) THEN top ELSE scroll]

\* The thread of the selected row, 0 without one: a channel's row has none.
SelectedThread(k) == IF k.cursor < Len(k.rows) THEN k.rows[k.cursor + 1].thread ELSE 0

\* The cursor is carried over by the id of its row, or goes to the first row.
ApplyRows(k, rows) ==
    LET previous == IF k.cursor < Len(k.rows) THEN k.rows[k.cursor + 1].id ELSE 0
        shown == IF k.reversed THEN Reverse(rows) ELSE rows
        at == {i \in DOMAIN shown : shown[i].id = previous}
        first == CHOOSE i \in at : \A j \in at : i <= j
    IN  Clamp([k EXCEPT !.rows = shown, !.cursor = IF at = {} THEN 0 ELSE first - 1])

----------------------------------------------------------------------------
(* Commands, as sets of what they put under way *)

Asked(kind, g, t) == {[kind |-> kind, gran |-> g, thread |-> t, at |-> "asked", out |-> <<>>,
                          nth |-> 1]}

FetchRows(k) == Asked("rows", k.gran, 0)
FetchThread(t) == IF t = 0 THEN {} ELSE Asked("thread", None, t)
SendReply(t) == Asked("send", None, t)
Message(kind) == [kind |-> kind, gran |-> None, thread |-> 0, at |-> "answered", out |-> <<>>,
                  nth |-> 1]
ComposeSend == {Message("compose")}
\* tea.Tick, whose message comes after two seconds
Clock == {Message("tick")}

\* The model and the command after the selection may have moved.
SyncThread(k) ==
    LET t == SelectedThread(k)
    IN  [m |-> [k EXCEPT !.threadID = t],
         cmd |-> IF t = k.threadID THEN {} ELSE FetchThread(t)]

\* A slip in RefetchThread: only a thread that is not loaded is fetched.
RefetchThreadUnloaded(k) ==
    IF SelectedThread(k) = k.threadID THEN {} ELSE FetchThread(SelectedThread(k))

RefetchThread(k) == FetchThread(SelectedThread(k))

Refresh(k) == FetchRows(k) \cup RefetchThread(k) \cup Clock

----------------------------------------------------------------------------

Closed == [active |-> FALSE, blank |-> TRUE]

Init ==
    /\ m = [gran |-> "message", reversed |-> FALSE, rows |-> <<>>, cursor |-> 0,
            scroll |-> 0, threadID |-> 0, thread |-> <<>>, height |-> 0]
    /\ box = Closed
    /\ net = Refresh(m)
    /\ d = InitialDB
    /\ quitting = FALSE /\ keys = 0 /\ appends = 0 /\ faults = 0

Fresh(rest, e) ==
    CHOOSE x \in {[e EXCEPT !.nth = n] : n \in 1 .. Cardinality(rest) + 1} : x \notin rest

Run(rest, cmd) == net' = rest \cup {Fresh(rest, e) : e \in cmd}
Without(e) == net \ {e}

\* Others append, an agent or `flf message send`.
OtherAppends(t) ==
    /\ appends < MaxAppends
    /\ d' = AppendMessage(d, t, "ann", "human", Text, 0, 0).db
    /\ appends' = appends + 1
    /\ UNCHANGED <<m, box, net, quitting, keys, faults>>

\* A request is answered with what the database holds now.
Serve(e) ==
    /\ e.at = "asked"
    /\ UNCHANGED <<m, box, quitting, keys, appends, faults>>
    /\ \E out \in {CASE e.kind = "rows"   -> Rows(e.gran)
                     [] e.kind = "thread" -> Messages(e.thread)
                     [] OTHER             -> <<>>} :
           Run(Without(e), {[e EXCEPT !.at = "answered", !.out = out]})
    /\ d' = IF e.kind = "send" THEN AppendMessage(d, e.thread, "you", "human", Text, 0, 0).db
                               ELSE d

\* No answer: the daemon is down or slow, or the answer is lost, that of a send
\* also after the append.
RequestFails(e) ==
    /\ e.at # "failed" /\ e.kind \notin {"compose", "tick"} /\ faults < MaxFaults
    /\ UNCHANGED <<m, box, d, quitting, keys, appends>>
    /\ Run(Without(e), {[e EXCEPT !.at = "failed", !.out = <<>>]})
    /\ faults' = faults + 1

----------------------------------------------------------------------------
(* Update *)

Handled(e) == ~quitting /\ e.at # "asked"

\* A slip in RowsFetched: the answer arms the next tick as well.
RowsFetchedArms(e) ==
    /\ Handled(e) /\ e.kind = "rows"
    /\ UNCHANGED <<box, d, quitting, keys, appends, faults>>
    /\ \E o \in {SyncThread(ApplyRows(m, e.out))} :
           IF e.at = "failed" \/ e.gran # m.gran
           THEN m' = m /\ net' = Without(e)
           ELSE m' = o.m /\ Run(Without(e), o.cmd \cup Clock)

\* Rows of another granularity are stale.
RowsFetched(e) ==
    /\ Handled(e) /\ e.kind = "rows"
    /\ UNCHANGED <<box, d, quitting, keys, appends, faults>>
    /\ \E o \in {SyncThread(ApplyRows(m, e.out))} :
           IF e.at = "failed" \/ e.gran # m.gran
           THEN m' = m /\ net' = Without(e)
           ELSE m' = o.m /\ Run(Without(e), o.cmd)

\* A slip in ThreadFetched: whatever arrives is shown.
ThreadFetchedAny(e) ==
    /\ Handled(e) /\ e.kind = "thread"
    /\ UNCHANGED <<box, d, quitting, keys, appends, faults>>
    /\ m' = IF e.at = "failed" THEN [m EXCEPT !.thread = <<>>, !.threadID = 0]
            ELSE [m EXCEPT !.thread = e.out]
    /\ net' = Without(e)

\* Messages of another thread than the selected one are stale; a failure lets
\* the next SyncThread try again.
ThreadFetched(e) ==
    /\ Handled(e) /\ e.kind = "thread"
    /\ UNCHANGED <<box, d, quitting, keys, appends, faults>>
    /\ m' = CASE e.thread # m.threadID -> m
              [] e.thread = m.threadID /\ e.at = "failed" ->
                     [m EXCEPT !.thread = <<>>, !.threadID = 0]
              [] OTHER -> [m EXCEPT !.thread = e.out]
    /\ net' = Without(e)

\* handleComposeSend: to the thread that is loaded now, not the one the box
\* was opened for.
ComposeSent(e) ==
    /\ Handled(e) /\ e.kind = "compose"
    /\ UNCHANGED <<m, d, quitting, keys, appends, faults>>
    /\ box' = Closed
    /\ Run(Without(e), IF m.threadID = 0 THEN {} ELSE SendReply(m.threadID))

Sent(e) ==
    /\ Handled(e) /\ e.kind = "send"
    /\ UNCHANGED <<m, box, d, quitting, keys, appends, faults>>
    /\ Run(Without(e), IF e.at = "failed" THEN {}
                       ELSE FetchRows(m) \cup FetchThread(m.threadID))

Room == Cardinality(net) + 2 <= MaxNet

\* Only here, and by Init, is a tick armed.
Tick(e) ==
    /\ Handled(e) /\ e.kind = "tick" /\ Room
    /\ UNCHANGED <<m, box, d, quitting, keys, appends, faults>>
    /\ Run(Without(e), Refresh(m))

----------------------------------------------------------------------------
(* Keys.  The box takes them all but ctrl+c while it is open. *)

Key ==
    /\ ~quitting /\ keys < MaxKeys /\ Room
    /\ keys' = keys + 1
    /\ UNCHANGED <<d, appends, faults>>

ListKey == Key /\ ~box.active /\ m.height >= MinHeight /\ UNCHANGED quitting
BoxKey == Key /\ box.active /\ UNCHANGED <<m, quitting>>

Moved(k) ==
    \E o \in {SyncThread(Clamp(k))} : m' = o.m /\ Run(net, o.cmd) /\ UNCHANGED box

Up == ListKey /\ Moved([m EXCEPT !.cursor = Greater(@ - 1, 0)])
Down == ListKey /\ Moved([m EXCEPT !.cursor = IF @ < Len(m.rows) - 1 THEN @ + 1 ELSE @])

\* enter
OpenThread == ListKey /\ SelectedThread(m) # 0 /\ Moved(m)

\* r, with the title of the selected row
OpenReply ==
    /\ ListKey /\ SelectedThread(m) # 0
    /\ box' = [active |-> TRUE, blank |-> TRUE]
    /\ \E o \in {SyncThread(m)} : m' = o.m /\ Run(net, o.cmd)

NextGranularity ==
    CASE m.gran = "message" -> "thread" [] m.gran = "thread" -> "channel" [] OTHER -> "message"

\* g
Regroup ==
    /\ ListKey
    /\ m' = [m EXCEPT !.gran = NextGranularity, !.rows = <<>>, !.cursor = 0, !.scroll = 0,
                      !.threadID = 0, !.thread = <<>>]
    /\ Run(net, FetchRows(m'))
    /\ UNCHANGED box

\* v: the thread is not synced, since the row under the cursor stays.
ReverseOrder ==
    /\ ListKey
    /\ m' = ApplyRows([m EXCEPT !.reversed = ~@], m.rows)
    /\ UNCHANGED <<box, net>>

Type == BoxKey /\ box' = [box EXCEPT !.blank = FALSE] /\ UNCHANGED net

\* Enter leaves the box open until the command's message is handled.
SendKey == BoxKey /\ ~box.blank /\ Run(net, ComposeSend) /\ UNCHANGED box

CancelKey == BoxKey /\ box' = Closed /\ UNCHANGED net

\* A slip in Resize: the scroll is left to the next rows.
ResizeUnclamped(h) ==
    /\ Key
    /\ m' = [m EXCEPT !.height = h]
    /\ UNCHANGED <<box, net, quitting>>

Resize(h) ==
    /\ Key
    /\ m' = Clamp([m EXCEPT !.height = h])
    /\ UNCHANGED <<box, net, quitting>>

\* ctrl+c
Quit == Key /\ quitting' = TRUE /\ UNCHANGED <<m, box, net>>

Serving == \E e \in net : Serve(e)

Handling ==
    \E e \in net : RowsFetched(e) \/ ThreadFetched(e) \/ ComposeSent(e) \/ Sent(e) \/ Tick(e)

Next ==
    \/ \E t \in DOMAIN d.threads : OtherAppends(t)
    \/ Serving
    \/ \E e \in net : RequestFails(e)
    \/ Handling
    \/ Up \/ Down \/ OpenThread \/ OpenReply \/ Regroup \/ ReverseOrder
    \/ Type \/ SendKey \/ CancelKey
    \/ \E h \in Heights : Resize(h)
    \/ Quit

\* Requests are answered, or time out, and messages are handled, in whatever
\* order: none waits for ever, since only MaxNet are under way.
CanServe == \E e \in net : e.at = "asked"
CanHandle == \E e \in net : Handled(e) /\ (e.kind = "tick" => Room)

\* WF_vars(Serving) /\ WF_vars(Handling), with what enables them spelled out:
\* to find out by ENABLED takes TLC a hundred times as long.
Fairness ==
    /\ []<>~CanServe \/ []<><<Serving>>_vars
    /\ []<>~CanHandle \/ []<><<Handling>>_vars

Spec == Init /\ [][Next]_vars /\ Fairness

----------------------------------------------------------------------------
(* Properties *)

\* Types, and the window of the list: the cursor is on a row, the row is
\* drawn, and the window is as full as the list allows, after any sequence of
\* answers, keys and resizes (clamp).
TypeOK ==
    /\ m.gran \in Granularity /\ m.reversed \in BOOLEAN
    /\ m.cursor \in 0 .. Greater(0, Len(m.rows) - 1)
    /\ m.scroll \in 0 .. Greater(0, Len(m.rows) - Visible(m))
    /\ m.scroll <= m.cursor /\ m.cursor < m.scroll + Visible(m)
    /\ \A i, j \in DOMAIN m.rows : m.rows[i].id = m.rows[j].id => i = j
    /\ box.active \in BOOLEAN /\ quitting \in BOOLEAN

\* There is one tick in flight, always: no answer, key or failure stops the
\* clock or starts a second one (refresh).
OneTick == Cardinality({e \in net : e.kind = "tick"}) = 1

Waiting(t) == \E e \in net : e.kind = "thread" /\ e.thread = t

\* The thread that is loaded, and that a reply is sent to, is the one of the
\* selected row, whose title the pane has; and the messages in the pane are
\* its own, unless its are under way.  No late answer puts other messages
\* there, and none that failed leaves them there.
PaneIsTheSelection ==
    LET t == SelectedThread(m)
    IN  /\ m.threadID \in {0, t}
        /\ m.thread # <<>> /\ t # 0 => m.thread[1].thread = t \/ Waiting(t)

Current ==
    LET rows == Rows(m.gran)  t == SelectedThread(m)
    IN  /\ m.rows = IF m.reversed THEN Reverse(rows) ELSE rows
        /\ t # 0 => m.threadID = t /\ m.thread = Messages(t)

\* When nobody writes or presses a key any more, the list and the pane come to
\* show what the database holds and go on doing so, whatever failed or came
\* out of order before: also a message appended to the thread that is on
\* screen already.
FeedCatchesUp == <>[](quitting \/ Current)
=============================================================================
