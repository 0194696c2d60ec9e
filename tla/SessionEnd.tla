------------------------------ MODULE SessionEnd ------------------------------
(***************************************************************************)
(* The threads of one running instance and the three ways to ask it to     *)
(* stop: the main thread, which has the wheel and takes signals; the       *)
(* thread of the hidden window of g25_windows.py, to which Windows sends   *)
(* the end of the session; and a thread of the control server.             *)
(*                                                                         *)
(* request_stop is three steps for each of them: it looks at stop_event,   *)
(* has the state lock for a moment, and sets stop_event.  How long a wait  *)
(* lasts is left open: what waits with a timeout may give up at any time.  *)
(***************************************************************************)
EXTENDS Naturals, Sequences

CONSTANTS Free, MaxQueries      \* nobody has the state lock; the ends of session Windows plans

ASSUME SessionAssumption == MaxQueries \in Nat

Threads == {"main", "window", "control"}

VARIABLES
    pc,             \* pc[t]: where a thread is
    stop, stopped,  \* stop_event, stopped_event
    ready, error,   \* what the window's thread tells the start
    hwnd,           \* there is a window
    queue,          \* the messages for the window
    stateLock,      \* the thread in an update of the status
    signal,         \* _signal_received
    wheel,          \* a force is on the wheel, or the neutral one
    session,        \* where Windows is with the end of the session
    queries,
    causes          \* why the instance should stop

vars == <<pc, stop, stopped, ready, error, hwnd, queue, stateLock, signal, wheel,
          session, queries, causes>>

events == <<stop, stopped, ready, error>>
world == <<wheel, session, queries, causes>>

Alive == session # "over"

Step(t, from, to) ==
    /\ Alive /\ pc[t] = from
    /\ pc' = [pc EXCEPT ![t] = to]

\* request_stop: with stop_event set it only sets it again; otherwise the
\* status says "stopping" first.
BeginRequest(t, from, locked, done) ==
    \/ /\ Step(t, from, done)
       /\ stop
       /\ UNCHANGED stateLock
    \/ /\ Step(t, from, locked)
       /\ ~stop /\ stateLock = Free
       /\ stateLock' = t

EndRequest(t, locked, done) ==
    /\ Step(t, locked, done)
    /\ stateLock' = Free /\ stop' = TRUE
    /\ UNCHANGED <<stopped, ready, error, hwnd, queue, signal, world>>

-----------------------------------------------------------------------------
(* The main thread. *)

\* SessionNotifications.start
StartWindow ==
    /\ Alive /\ pc["main"] = "enter"
    /\ pc' = [pc EXCEPT !["main"] = "starting", !["window"] = "begin"]
    /\ UNCHANGED <<events, hwnd, queue, stateLock, signal, world>>

WindowStarted ==
    /\ ready
    /\ Step("main", "starting", IF error THEN "close" ELSE "loop")
    /\ UNCHANGED <<events, hwnd, queue, stateLock, signal, world>>

StartTimesOut ==
    /\ ~ready
    /\ Step("main", "starting", "close")
    /\ UNCHANGED <<events, hwnd, queue, stateLock, signal, world>>

\* should_stop: a signal becomes a request on the main thread itself.
ShouldStop ==
    /\ \/ signal /\ Step("main", "loop", "request") /\ signal' = FALSE
       \/ ~signal /\ stop /\ Step("main", "loop", "leave") /\ UNCHANGED signal
       \/ ~signal /\ ~stop /\ Step("main", "loop", "pass") /\ UNCHANGED signal
    /\ UNCHANGED <<events, hwnd, queue, stateLock, world>>

\* A pass puts a force on the wheel, and may have something to report.
Pass ==
    /\ \/ Step("main", "pass", "loop") /\ UNCHANGED stateLock
       \/ stateLock = Free /\ Step("main", "pass", "update") /\ stateLock' = "main"
    /\ wheel' \in {"force", "neutral"}
    /\ UNCHANGED <<events, hwnd, queue, signal, session, queries, causes>>

Updated ==
    /\ Step("main", "update", "loop")
    /\ stateLock' = Free
    /\ UNCHANGED <<events, hwnd, queue, signal, world>>

MainRequests ==
    /\ BeginRequest("main", "request", "requesting", "leave")
    /\ UNCHANGED <<events, hwnd, queue, signal, world>>

MainRequested == EndRequest("main", "requesting", "leave")

\* Mutant: whoever waits is told before the wheel is neutral.
LeaveTellsFirst ==
    /\ Step("main", "leave", "neutralise")
    /\ stateLock = Free
    /\ stopped' = TRUE
    /\ UNCHANGED <<stop, ready, error, hwnd, queue, stateLock, signal, world>>

\* The status says "stopping" before the wheel is let go.
Leave ==
    /\ Step("main", "leave", "neutralise")
    /\ stateLock = Free
    /\ UNCHANGED <<events, hwnd, queue, stateLock, signal, world>>

Neutralise ==
    /\ Step("main", "neutralise", "close")
    /\ wheel' = "neutral"
    /\ UNCHANGED <<events, hwnd, queue, stateLock, signal, session, queries, causes>>

\* Mutant: the window is closed first.
CloseWindowFirst ==
    /\ Step("main", "close", "post")
    /\ UNCHANGED <<events, hwnd, queue, stateLock, signal, world>>

\* Runtime.close: first whoever waits for the wheel to be neutral is told,
Close ==
    /\ Step("main", "close", "post")
    /\ stopped' = TRUE
    /\ UNCHANGED <<stop, ready, error, hwnd, queue, stateLock, signal, world>>

\* Mutant: another message.
PostQuit ==
    /\ Step("main", "post", "join")
    /\ queue' = IF hwnd THEN Append(queue, "quit") ELSE queue
    /\ UNCHANGED <<events, hwnd, stateLock, signal, world>>

\* then the window is asked to close, if there is one already and still,
Post ==
    /\ Step("main", "post", "join")
    /\ queue' = IF hwnd THEN Append(queue, "close") ELSE queue
    /\ UNCHANGED <<events, hwnd, stateLock, signal, world>>

\* and its thread is waited for, up to five seconds.
Join ==
    /\ Step("main", "join", "ended")
    /\ UNCHANGED <<events, hwnd, queue, stateLock, signal, world>>

\* Mutant: the handler requests the stop itself, on the thread it has interrupted.
SignalHandlerRequests ==
    /\ Alive /\ pc["main"] \in {"loop", "pass", "update"}
    /\ "signal" \notin causes
    /\ pc' = [pc EXCEPT !["main"] = "request"]
    /\ causes' = causes \cup {"signal"}
    /\ UNCHANGED <<events, hwnd, queue, stateLock, signal, wheel, session, queries>>

\* The handler runs on the main thread, at any time, also while that has the
\* state lock; it only leaves the number of the signal.
SignalHandler ==
    /\ Alive /\ pc["main"] \notin {"enter", "starting", "ended"} /\ ~signal
    /\ "signal" \notin causes
    /\ signal' = TRUE
    /\ causes' = causes \cup {"signal"}
    /\ UNCHANGED <<pc, events, hwnd, queue, stateLock, wheel, session, queries>>

Main ==
    \/ StartWindow \/ WindowStarted \/ StartTimesOut \/ ShouldStop \/ Pass \/ Updated
    \/ MainRequests \/ MainRequested \/ Leave \/ Neutralise \/ Close \/ Post \/ Join

-----------------------------------------------------------------------------
(* The thread of the window. *)

CreateWindow ==
    /\ Step("window", "begin", "get")
    /\ hwnd' = TRUE /\ ready' = TRUE
    /\ UNCHANGED <<stop, stopped, error, queue, stateLock, signal, world>>

\* RegisterClass, CreateWindow or GetMessage fails.
WindowFails ==
    /\ \E from \in {"begin", "get"} : Step("window", from, "failed")
    /\ error' = TRUE
    /\ causes' = causes \cup {"window"}
    /\ UNCHANGED <<stop, stopped, ready, hwnd, queue, stateLock, signal, wheel, session, queries>>

\* Mutant: the failure is only logged.
FailedSilently ==
    /\ Step("window", "failed", "finish")
    /\ UNCHANGED <<events, hwnd, queue, stateLock, signal, world>>

FailedRequests ==
    /\ BeginRequest("window", "failed", "failing", "finish")
    /\ UNCHANGED <<events, hwnd, queue, signal, world>>

FailedRequested == EndRequest("window", "failing", "finish")

Received(message) ==
    /\ queue # << >> /\ Head(queue) = message
    /\ queue' = Tail(queue)

\* Mutant: the question already stops the service.
QueryStops ==
    /\ Step("window", "get", "get") /\ Received("query")
    /\ session' = "agreed" /\ stop' = TRUE
    /\ UNCHANGED <<stopped, ready, error, hwnd, stateLock, signal, wheel, queries, causes>>

\* Windows may still hear from another program that the session must go on.
QueryEndSession ==
    /\ Step("window", "get", "get") /\ Received("query")
    /\ session' = "agreed"
    /\ UNCHANGED <<events, hwnd, stateLock, signal, wheel, queries, causes>>

EndSession ==
    /\ Received("end")
    /\ Step("window", "get", "request")
    /\ causes' = causes \cup {"session"}
    /\ UNCHANGED <<events, hwnd, stateLock, signal, wheel, session, queries>>

SessionGoesOn ==
    /\ Step("window", "get", "get") /\ Received("cancel")
    /\ UNCHANGED <<events, hwnd, stateLock, signal, world>>

WindowRequests ==
    /\ BeginRequest("window", "request", "requesting", "wait")
    /\ UNCHANGED <<events, hwnd, queue, signal, world>>

WindowRequested == EndRequest("window", "requesting", "wait")

\* The notification returns when the wheel is neutral, or after four seconds.
NotificationReturns ==
    /\ Step("window", "wait", "get")
    /\ session' = IF stopped THEN "notified" ELSE "gaveUp"
    /\ UNCHANGED <<events, hwnd, queue, stateLock, signal, wheel, queries, causes>>

CloseMonitor ==
    /\ Step("window", "get", "finish") /\ Received("close")
    /\ UNCHANGED <<events, hwnd, stateLock, signal, world>>

Finish ==
    /\ Step("window", "finish", "ended")
    /\ ready' = TRUE /\ hwnd' = FALSE /\ queue' = << >>
    /\ UNCHANGED <<stop, stopped, error, stateLock, signal, world>>

Window ==
    \/ CreateWindow \/ FailedRequests \/ FailedRequested \/ QueryEndSession \/ EndSession
    \/ SessionGoesOn \/ WindowRequests \/ WindowRequested \/ NotificationReturns
    \/ CloseMonitor \/ Finish

-----------------------------------------------------------------------------
(* The control server, and Windows. *)

PostStop ==
    /\ pc["main"] \notin {"enter", "starting", "ended"}
    /\ BeginRequest("control", "enter", "requesting", "ended")
    /\ causes' = causes \cup {"control"}
    /\ UNCHANGED <<events, hwnd, queue, signal, wheel, session, queries>>

PostedStop == EndRequest("control", "requesting", "ended")

QuerySession ==
    /\ session = "on" /\ hwnd /\ queries < MaxQueries
    /\ session' = "asked" /\ queries' = queries + 1
    /\ queue' = Append(queue, "query")
    /\ UNCHANGED <<pc, events, hwnd, stateLock, signal, wheel, causes>>

Decide ==
    /\ session = "agreed" /\ hwnd
    /\ \E message \in {"end", "cancel"} :
           /\ queue' = Append(queue, message)
           /\ session' = IF message = "end" THEN "ending" ELSE "on"
    /\ UNCHANGED <<pc, events, hwnd, stateLock, signal, wheel, queries, causes>>

\* The process may be ended once it has returned from the notification, or
\* when it has no window left that could be notified.
Terminate ==
    /\ \/ session \in {"notified", "gaveUp"}
       \/ session \in {"asked", "agreed", "ending"} /\ ~hwnd
    /\ session' = "over"
    /\ UNCHANGED <<pc, events, hwnd, queue, stateLock, signal, wheel, queries, causes>>

-----------------------------------------------------------------------------
Init ==
    /\ pc = [t \in Threads |-> "enter"]
    /\ stop = FALSE /\ stopped = FALSE /\ ready = FALSE /\ error = FALSE
    /\ hwnd = FALSE /\ queue = << >> /\ stateLock = Free /\ signal = FALSE
    /\ wheel = "neutral" /\ session = "on" /\ queries = 0 /\ causes = {}

Next ==
    \/ Main \/ SignalHandler \/ Window \/ WindowFails
    \/ PostStop \/ PostedStop
    \/ QuerySession \/ Decide \/ Terminate

Spec == Init /\ [][Next]_vars

\* Every thread runs when it can; a lock that is free again and again is given
\* to the thread that waits for it.  Nothing has to be asked of the instance,
\* and nothing has to fail.
FairSpec ==
    /\ Spec
    /\ WF_vars(Main)
    /\ WF_vars(Window) /\ SF_vars(WindowRequests) /\ SF_vars(FailedRequests)
    /\ WF_vars(PostedStop)

-----------------------------------------------------------------------------
(* Properties. *)

MainSteps == {"enter", "starting", "loop", "pass", "update", "request", "requesting",
              "leave", "neutralise", "close", "post", "join", "ended"}
WindowSteps == {"enter", "begin", "get", "failed", "failing", "request", "requesting",
                "wait", "finish", "ended"}
ControlSteps == {"enter", "requesting", "ended"}

TypeOK ==
    /\ pc \in [Threads -> MainSteps \cup WindowSteps]
    /\ pc["main"] \in MainSteps /\ pc["window"] \in WindowSteps /\ pc["control"] \in ControlSteps
    /\ stop \in BOOLEAN /\ stopped \in BOOLEAN /\ ready \in BOOLEAN /\ error \in BOOLEAN
    /\ hwnd \in BOOLEAN /\ signal \in BOOLEAN
    /\ queue \in Seq({"query", "end", "cancel", "close"})
    /\ stateLock \in Threads \cup {Free}
    /\ wheel \in {"force", "neutral"}
    /\ session \in {"on", "asked", "agreed", "ending", "notified", "gaveUp", "over"}
    /\ queries \in 0 .. MaxQueries
    /\ causes \subseteq {"signal", "control", "session", "window"}

\* g25_windows.py:32 "Windows may terminate us after this notification
\* returns": unless it gave up, the wheel is neutral then, and stays so.
NotifiedMeansNeutral == session = "notified" => wheel = "neutral"

\* The main thread never waits for the window's thread while that waits for it.
NoMutualWait == ~(pc["main"] = "join" /\ pc["window"] = "wait" /\ ~stopped)

\* g25_windows.py:28: a question, and an end of session that another program
\* has cancelled, leave the service running; it stops only when it has to.
StopsForACause == stop => causes # {}

\* While the main loop runs, Windows can reach it, or it is about to stop.
WatchedWhileRunning ==
    pc["main"] \in {"loop", "pass", "update"} =>
        hwnd \/ stop

\* Whoever asks for it: the instance neutralises the wheel and ends.
StopsAreHeeded == causes # {} ~> (pc["main"] = "ended" \/ ~Alive)
=============================================================================
