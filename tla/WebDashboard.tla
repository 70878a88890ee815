---------------------------- MODULE WebDashboard ----------------------------
(***************************************************************************)
(* broker/conveyor_web.py: a thread reads events from the broker, stores   *)
(* the current one and puts it in the queue of every open stream; the main *)
(* thread is an HTTPServer, which serves one request at a time, and the    *)
(* request for /events lasts as long as the browser's tab.                 *)
(*                                                                         *)
(* Events are numbered as the reader gets them.  A tab that does not read  *)
(* blocks the server's write to it; the snapshot is the first write on a   *)
(* connection and never blocks.  Tabs, TCP and the broker are external.    *)
(***************************************************************************)
EXTENDS Naturals, Sequences, FiniteSets

CONSTANTS
    Tabs,         \* the browser tabs
    QueueSize,    \* maxsize of a stream's queue (64)
    MaxHistory,   \* MAX_HISTORY (200)
    MaxEvents,    \* bound of the model: events that come
    None          \* no tab

ASSUME DashboardAssumption ==
    /\ QueueSize \in Nat /\ MaxHistory \in Nat /\ MaxEvents \in Nat
    /\ None \notin Tabs

VARIABLES
    tab,        \* "closed"; "asking" for /events or "asks" for another page, not served
                \* yet; "open", "stalled" or "gone" while it is served
    shown,      \* the event a tab shows, 0 if none
    current,    \* _current: the event, 0 before the first
    history,    \* _history, newest first
    clients,    \* _clients: the tabs whose queue is registered
    queue,      \* the queue of each tab's stream
    rpc,        \* the reader: "offline", "read", "broadcast"
    spc,        \* the server: "accept", "snapshot", "register", "get", "write",
                \* "unregister"
    serving,    \* the tab it serves
    msg,        \* what it writes: an event, 0 for a heartbeat
    missed      \* history: an event fell between the stream's snapshot and its
                \* registration

readerVars == <<current, history, rpc>>
serverVars == <<spc, serving, msg, missed>>
vars == <<tab, shown, clients, queue, readerVars, serverVars>>

Streaming == spc \in {"get", "write", "unregister"}

\* Put in front of a sequence, and cut to a length
Prepend(e, s, n) == SubSeq(<<e>> \o s, 1, IF Len(s) < n THEN Len(s) + 1 ELSE n)

----------------------------------------------------------------------------
(* Deliberately wrong variants; PROJECT.json names them to show that each   *)
(* property can fail.                                                       *)

\* A queue that is filled like the history.
QueuedInFront(q, e) == <<e>> \o q

\* A full queue that loses the event and stays registered.
DeadNever == {}

\* A history without maxlen.
HistoryWithUnbounded(e) == <<e>> \o history

\* A get without a timeout.
MayBeatNever == FALSE

\* A handler that ends without taking its queue off the list.
AfterUnregisterKept(t) == clients

----------------------------------------------------------------------------
(* The browsers.                                                            *)

\* Opens the page's stream, also again after an error
Ask(t) ==
    /\ tab[t] = "closed"
    /\ tab' = [tab EXCEPT ![t] = "asking"]
    /\ UNCHANGED <<shown, clients, queue, readerVars, serverVars>>

\* Asks for / or /api/state
AskPage(t) ==
    /\ tab[t] = "closed"
    /\ tab' = [tab EXCEPT ![t] = "asks"]
    /\ UNCHANGED <<shown, clients, queue, readerVars, serverVars>>

Stall(t) ==
    /\ tab[t] = "open"
    /\ tab' = [tab EXCEPT ![t] = "stalled"]
    /\ UNCHANGED <<shown, clients, queue, readerVars, serverVars>>

GoOn(t) ==
    /\ tab[t] = "stalled"
    /\ tab' = [tab EXCEPT ![t] = "open"]
    /\ UNCHANGED <<shown, clients, queue, readerVars, serverVars>>

\* Writing to it raises OSError from now on.
Leave(t) ==
    /\ tab[t] \in {"open", "stalled"}
    /\ tab' = [tab EXCEPT ![t] = "gone"]
    /\ UNCHANGED <<shown, clients, queue, readerVars, serverVars>>

----------------------------------------------------------------------------
(* _mqtt_reader                                                             *)

HistoryWith(e) == Prepend(e, history, MaxHistory)

\* A PUBLISH comes: the critical section of _state_lock
Store ==
    /\ rpc = "read"
    /\ current < MaxEvents
    /\ current' = current + 1
    /\ history' = HistoryWith(current')
    /\ rpc' = "broadcast"
    /\ UNCHANGED <<tab, shown, clients, queue, serverVars>>

Queued(q, e) == Append(q, e)

\* The registered queues without room
Full == {t \in clients : Len(queue[t]) = QueueSize}
Dead == Full

\* _broadcast, under _clients_lock
Broadcast ==
    /\ rpc = "broadcast"
    /\ queue' = [t \in Tabs |-> IF t \in clients \ Full THEN Queued(queue[t], current)
                                                        ELSE queue[t]]
    /\ clients' = clients \ Dead
    /\ rpc' = "read"
    /\ missed' = (missed \/ (spc = "register" /\ shown[serving] < current))
    /\ UNCHANGED <<tab, shown, current, history, spc, serving, msg>>

\* The connection fails, or what came makes the reader raise
ReaderFails ==
    /\ rpc = "read"
    /\ rpc' = "offline"
    /\ UNCHANGED <<tab, shown, clients, queue, current, history, serverVars>>

ReaderConnects ==
    /\ rpc = "offline"
    /\ rpc' = "read"
    /\ UNCHANGED <<tab, shown, clients, queue, current, history, serverVars>>

Reader == Store \/ Broadcast \/ ReaderConnects

----------------------------------------------------------------------------
(* The server: serve_forever and do_GET.                                    *)

ServePage(t) ==
    /\ spc = "accept"
    /\ tab[t] = "asks"
    /\ tab' = [tab EXCEPT ![t] = "closed"]
    /\ UNCHANGED <<shown, clients, queue, readerVars, serverVars>>

\* _serve_sse, its headers
ServeStream(t) ==
    /\ spc = "accept"
    /\ tab[t] = "asking"
    /\ tab' = [tab EXCEPT ![t] = "open"]
    /\ serving' = t
    /\ spc' = "snapshot"
    /\ missed' = FALSE
    /\ UNCHANGED <<shown, clients, queue, readerVars, msg>>

\* Back in serve_forever; the socket is closed.
EndRequest ==
    /\ tab' = [tab EXCEPT ![serving] = "closed"]
    /\ spc' = "accept"
    /\ serving' = None

\* The snapshot, under _state_lock, if there is one
Snapshot ==
    /\ spc = "snapshot"
    /\ \/ /\ current = 0 \/ tab[serving] # "gone"
          /\ shown' = [shown EXCEPT ![serving] = IF current = 0 THEN @ ELSE current]
          /\ spc' = "register"
          /\ UNCHANGED <<tab, serving>>
       \/ /\ current # 0 /\ tab[serving] = "gone"
          /\ EndRequest
          /\ UNCHANGED shown
    /\ UNCHANGED <<clients, queue, readerVars, msg, missed>>

\* A new queue in _clients
Register ==
    /\ spc = "register"
    /\ clients' = clients \cup {serving}
    /\ queue' = [queue EXCEPT ![serving] = <<>>]
    /\ spc' = "get"
    /\ UNCHANGED <<tab, shown, readerVars, serving, msg, missed>>

Get ==
    /\ spc = "get"
    /\ queue[serving] # <<>>
    /\ msg' = Head(queue[serving])
    /\ queue' = [queue EXCEPT ![serving] = Tail(@)]
    /\ spc' = "write"
    /\ UNCHANGED <<tab, shown, clients, readerVars, serving, missed>>

MayBeat == queue[serving] = <<>>

\* get's timeout: a heartbeat
Heartbeat ==
    /\ spc = "get"
    /\ MayBeat
    /\ msg' = 0
    /\ spc' = "write"
    /\ UNCHANGED <<tab, shown, clients, queue, readerVars, serving, missed>>

Write ==
    /\ spc = "write"
    /\ \/ /\ tab[serving] = "open"
          /\ shown' = [shown EXCEPT ![serving] = IF msg = 0 THEN @ ELSE msg]
          /\ spc' = "get"
       \/ /\ tab[serving] = "gone"
          /\ spc' = "unregister"
          /\ UNCHANGED shown
    /\ msg' = 0
    /\ UNCHANGED <<tab, clients, queue, readerVars, serving, missed>>

AfterUnregister(t) == clients \ {t}

\* finally
Unregister ==
    /\ spc = "unregister"
    /\ clients' = AfterUnregister(serving)
    /\ queue' = [queue EXCEPT ![serving] = <<>>]
    /\ EndRequest
    /\ UNCHANGED <<shown, readerVars, msg, missed>>

Server ==
    \/ \E t \in Tabs : ServePage(t) \/ ServeStream(t)
    \/ Snapshot \/ Register \/ Get \/ Heartbeat \/ Write \/ Unregister

----------------------------------------------------------------------------
Init ==
    /\ tab = [t \in Tabs |-> "closed"]
    /\ shown = [t \in Tabs |-> 0]
    /\ current = 0 /\ history = <<>>
    /\ clients = {} /\ queue = [t \in Tabs |-> <<>>]
    /\ rpc = "offline"
    /\ spc = "accept" /\ serving = None /\ msg = 0 /\ missed = FALSE

Browser == \E t \in Tabs : Ask(t) \/ AskPage(t) \/ Stall(t) \/ GoOn(t) \/ Leave(t)

Next == Browser \/ Reader \/ ReaderFails \/ Server

Spec == Init /\ [][Next]_vars

\* Both threads run.  What a browser does is up to it.
FairSpec == Spec /\ WF_vars(Server) /\ WF_vars(Reader)

----------------------------------------------------------------------------
TypeOK ==
    /\ tab \in [Tabs -> {"closed", "asking", "asks", "open", "stalled", "gone"}]
    /\ shown \in [Tabs -> 0 .. MaxEvents]
    /\ current \in 0 .. MaxEvents
    /\ history \in Seq(1 .. MaxEvents) /\ Len(history) <= MaxHistory
    /\ clients \subseteq Tabs
    /\ queue \in [Tabs -> Seq(1 .. MaxEvents)]
    /\ \A t \in Tabs : Len(queue[t]) <= QueueSize
    /\ rpc \in {"offline", "read", "broadcast"}
    /\ spc \in {"accept", "snapshot", "register", "get", "write", "unregister"}
    /\ serving \in Tabs \cup {None}
    /\ msg \in 0 .. MaxEvents
    /\ missed \in BOOLEAN

\* Only the stream being served has a queue registered: a tab that left, or whose
\* queue was full, leaves none behind.
NoQueueLeftBehind == clients # {} => Streaming /\ clients = {serving}

\* The events a stream has still to write follow each other without a gap, and as
\* long as its queue is registered they go up to the last one broadcast: a stream
\* that cannot keep up is cut off and never skips events.
LastBroadcast == IF rpc = "broadcast" THEN current - 1 ELSE current
Pending == (IF msg = 0 THEN <<>> ELSE <<msg>>) \o queue[serving]
StreamHasNoGaps ==
    Streaming =>
        /\ \A i \in 1 .. Len(Pending) - 1 : Pending[i + 1] = Pending[i] + 1
        /\ serving \in clients /\ Pending # <<>> => Pending[Len(Pending)] = LastBroadcast

\* The server and the stream of an open tab have nothing left to do.
Idle == spc = "get" /\ queue[serving] = <<>> /\ rpc = "read"

\* What an open tab shows is up to date, unless its queue was taken off the list
\* or an event was stored after its snapshot and broadcast before its queue was
\* registered: of the two locks' four critical sections only this order loses.
StaleOnlyByGap ==
    Idle /\ tab[serving] = "open" /\ serving \in clients /\ ~missed
        => shown[serving] = current

\* A tab never goes back to an older event, whatever order the reader and the
\* server run in and however often it comes back.
ShownGoesForward == [][\A t \in Tabs : shown'[t] >= shown[t]]_shown

\* A tab that left is noticed, even when no event comes, and the next is served.
LeavingFreesServer == \A t \in Tabs : tab[t] = "gone" ~> tab[t] # "gone"
=============================================================================
