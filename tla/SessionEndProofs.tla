--------------------------- MODULE SessionEndProofs ---------------------------
(***************************************************************************)
(* Proofs about SessionEnd, for any number of questions of Windows: when   *)
(* the notification returns the wheel is neutral, no two threads wait for  *)
(* each other, nothing but a request ends the main loop, and a request     *)
(* does, within twelve steps.                                              *)
(***************************************************************************)
EXTENDS SessionEnd, TLAPS

\* The main thread has closed, or will never have had, the wheel output.
Quiet == {"enter", "starting", "close", "post", "join", "ended"}

\* stopped_event is set with the wheel neutral, and it is set when the main
\* thread turns to the window.
StoppedOK ==
    /\ pc["main"] \in Quiet => wheel = "neutral"
    /\ stopped <=> pc["main"] \in {"post", "join", "ended"}
    /\ session = "notified" => stopped

\* Every thread on its way to stop_event has a cause.
CauseOK ==
    /\ stop \/ signal => causes # {}
    /\ pc["main"] \in {"request", "requesting"} => causes # {}
    /\ pc["window"] \in {"failed", "failing", "request", "requesting"} => causes # {}
    /\ pc["control"] = "requesting" => causes # {}

\* The window goes only when the main thread has asked for it, or with a request to stop.
WindowOK ==
    /\ \A i \in 1 .. Len(queue) : queue[i] = "close" => pc["main"] \in {"join", "ended"}
    /\ pc["window"] \in {"finish", "ended"} => stop \/ pc["main"] \in {"join", "ended"}
    /\ ready => hwnd \/ pc["window"] = "ended"
    /\ pc["main"] = "enter" => pc["window"] = "enter"

IInv == TypeOK /\ StoppedOK /\ CauseOK /\ WindowOK /\ WatchedWhileRunning

-----------------------------------------------------------------------------
\* The initial state satisfies the invariant.
LEMMA InitInv == Init => IInv
<1>1. SUFFICES ASSUME Init PROVE IInv
  OBVIOUS
<1>2. queue = << >> /\ queue \in Seq({"query", "end", "cancel", "close"}) /\ Len(queue) = 0
  BY <1>1 DEF Init
<1>3. TypeOK
  <2>1. /\ pc \in [Threads -> MainSteps \cup WindowSteps]
        /\ pc["main"] \in MainSteps /\ pc["window"] \in WindowSteps /\ pc["control"] \in ControlSteps
    BY <1>1 DEF Init, Threads, MainSteps, WindowSteps, ControlSteps
  <2>2. queries \in 0 .. MaxQueries  BY <1>1, SessionAssumption DEF Init
  <2>3. QED  BY <1>1, <1>2, <2>1, <2>2, Zenon DEF Init, TypeOK
<1>4. StoppedOK /\ CauseOK /\ WatchedWhileRunning
  BY <1>1 DEF Init, StoppedOK, CauseOK, WatchedWhileRunning, Threads, Quiet
<1>5. WindowOK
  BY <1>1, <1>2 DEF Init, WindowOK, Threads
<1>6. QED  BY <1>3, <1>4, <1>5 DEF IInv

\* The message that is taken from the queue, and what is left of it.
LEMMA ReceivedQueue ==
    ASSUME TypeOK, NEW m, Received(m)
    PROVE  /\ queue' \in Seq({"query", "end", "cancel", "close"})
           /\ \A i \in 1 .. Len(queue') : i + 1 \in 1 .. Len(queue) /\ queue'[i] = queue[i + 1]
           /\ 1 \in 1 .. Len(queue) /\ queue[1] = m
BY DEF TypeOK, Received

\* The message that is added.
LEMMA AppendedQueue ==
    ASSUME TypeOK, NEW m \in {"query", "end", "cancel", "close"}, queue' = Append(queue, m)
    PROVE  /\ queue' \in Seq({"query", "end", "cancel", "close"})
           /\ \A i \in 1 .. Len(queue') : queue'[i] = m \/ (i \in 1 .. Len(queue) /\ queue'[i] = queue[i])
<1> DEFINE M == {"query", "end", "cancel", "close"}
<1>0. queue' = Append(queue, m)  OBVIOUS
<1>1. queue \in Seq(M) /\ m \in M  BY DEF TypeOK
<1> HIDE DEF M
<1>2. queue' \in Seq(M) /\ Len(queue') = Len(queue) + 1  BY <1>1
<1>3. ASSUME NEW i \in 1 .. Len(queue')
      PROVE  queue'[i] = m \/ (i \in 1 .. Len(queue) /\ queue'[i] = queue[i])
  <2>1. CASE i = Len(queue) + 1
    <3>1. Append(queue, m)[Len(queue) + 1] = m  BY <1>1
    <3>2. queue'[i] = m  BY <1>0, <2>1, <3>1, Zenon
    <3>3. QED  BY <3>2
  <2>2. CASE i # Len(queue) + 1
    <3>1. i \in 1 .. Len(queue)  BY <1>1, <1>2, <2>2
    <3>2. Append(queue, m)[i] = queue[i]  BY <1>1, <3>1
    <3>3. QED  BY <1>0, <3>1, <3>2
  <2>3. QED  BY <2>1, <2>2
<1>4. QED  BY <1>2, <1>3 DEF M

\* A step of the main thread keeps the invariant.
LEMMA MainKeeps == ASSUME IInv, Main \/ SignalHandler PROVE IInv'
<1> USE DEF IInv, TypeOK, StoppedOK, CauseOK, WatchedWhileRunning, Step, Alive, events, world,
            Threads, MainSteps, WindowSteps, ControlSteps, Quiet
<1>1. CASE StartWindow
  <2>1. /\ pc' \in [Threads -> MainSteps \cup WindowSteps]
        /\ pc'["main"] = "starting" /\ pc'["window"] = "begin" /\ pc'["control"] = pc["control"]
        /\ pc["main"] = "enter"
    BY <1>1 DEF StartWindow
  <2>2. WindowOK'  BY <1>1, <2>1 DEF StartWindow, WindowOK
  <2>3. QED  BY <1>1, <2>1, <2>2 DEF StartWindow
<1>2. CASE WindowStarted  BY <1>2 DEF WindowStarted, WindowOK
<1>3. CASE StartTimesOut  BY <1>3 DEF StartTimesOut, WindowOK
<1>4. CASE ShouldStop
  <2>1. PICK to \in {"request", "leave", "pass"} :
            /\ Step("main", "loop", to)
            /\ to = "request" => signal
    BY <1>4 DEF ShouldStop
  <2>2. signal' \in BOOLEAN /\ (signal' => signal)
    <3>1. CASE signal   BY <1>4, <3>1, Zenon DEF ShouldStop
    <3>2. CASE ~signal
      <4>1. signal' = signal  BY <1>4, <3>2, Zenon DEF ShouldStop
      <4>2. QED  BY <4>1
    <3>3. QED  BY <3>1, <3>2
  <2>3. UNCHANGED <<events, hwnd, queue, stateLock, world>>  BY <1>4 DEF ShouldStop
  <2>4. WindowOK'  BY <2>1, <2>3 DEF WindowOK
  <2>5. QED  BY <2>1, <2>2, <2>3, <2>4
<1>5. CASE Pass           BY <1>5 DEF Pass, WindowOK
<1>6. CASE Updated        BY <1>6 DEF Updated, WindowOK
<1>7. CASE MainRequests   BY <1>7 DEF MainRequests, BeginRequest, WindowOK
<1>8. CASE MainRequested  BY <1>8 DEF MainRequested, EndRequest, WindowOK
<1>9. CASE Leave          BY <1>9 DEF Leave, WindowOK
<1>10. CASE Neutralise    BY <1>10 DEF Neutralise, WindowOK
<1>11. CASE Close         BY <1>11 DEF Close, WindowOK
<1>12. CASE Post
  <2>1. /\ queue' \in Seq({"query", "end", "cancel", "close"})
        /\ \A i \in 1 .. Len(queue') :
               queue'[i] = "close" \/ (i \in 1 .. Len(queue) /\ queue'[i] = queue[i])
    BY <1>12, AppendedQueue DEF Post
  <2>2. pc'["main"] = "join" /\ pc' = [pc EXCEPT !["main"] = "join"]  BY <1>12 DEF Post
  <2>3. WindowOK'  BY <1>12, <2>2 DEF Post, WindowOK
  <2>4. QED  BY <1>12, <2>1, <2>3 DEF Post
<1>13. CASE Join           BY <1>13 DEF Join, WindowOK
<1>14. CASE SignalHandler  BY <1>14 DEF SignalHandler, WindowOK
<1>15. QED
  BY <1>1, <1>2, <1>3, <1>4, <1>5, <1>6, <1>7, <1>8, <1>9, <1>10, <1>11, <1>12, <1>13, <1>14
     DEF Main

\* A step of the window's thread keeps the invariant.
LEMMA WindowKeeps == ASSUME IInv, Window \/ WindowFails PROVE IInv'
<1> USE DEF IInv, TypeOK, StoppedOK, CauseOK, WatchedWhileRunning, Step, Alive, events, world,
            Threads, MainSteps, WindowSteps, ControlSteps, Quiet
<1>1. CASE CreateWindow         BY <1>1 DEF CreateWindow, WindowOK
<1>2. CASE WindowFails          BY <1>2 DEF WindowFails, WindowOK
<1>3. CASE FailedRequests       BY <1>3 DEF FailedRequests, BeginRequest, WindowOK
<1>4. CASE FailedRequested      BY <1>4 DEF FailedRequested, EndRequest, WindowOK
<1>5. CASE QueryEndSession
  <2>0. /\ \A i \in 1 .. Len(queue') : i + 1 \in 1 .. Len(queue) /\ queue'[i] = queue[i + 1]
        /\ pc'["main"] = pc["main"] /\ pc["window"] = "get"
    BY <1>5, ReceivedQueue DEF QueryEndSession
  <2>1. WindowOK'  BY <1>5, <2>0 DEF QueryEndSession, WindowOK
  <2>2. CauseOK'   BY <1>5 DEF QueryEndSession
  <2>3. TypeOK'    BY <1>5, ReceivedQueue DEF QueryEndSession
  <2>4. StoppedOK' /\ WatchedWhileRunning'  BY <1>5 DEF QueryEndSession
  <2>5. QED  BY <2>1, <2>2, <2>3, <2>4
<1>6. CASE EndSession
  <2>0. /\ \A i \in 1 .. Len(queue') : i + 1 \in 1 .. Len(queue) /\ queue'[i] = queue[i + 1]
        /\ pc'["main"] = pc["main"] /\ pc["window"] = "get"
    BY <1>6, ReceivedQueue DEF EndSession
  <2>1. WindowOK'  BY <1>6, <2>0 DEF EndSession, WindowOK
  <2>2. CauseOK'   BY <1>6 DEF EndSession
  <2>3. TypeOK'    BY <1>6, ReceivedQueue DEF EndSession
  <2>4. StoppedOK' /\ WatchedWhileRunning'  BY <1>6 DEF EndSession
  <2>5. QED  BY <2>1, <2>2, <2>3, <2>4
<1>7. CASE SessionGoesOn
  <2>0. /\ \A i \in 1 .. Len(queue') : i + 1 \in 1 .. Len(queue) /\ queue'[i] = queue[i + 1]
        /\ pc'["main"] = pc["main"] /\ pc["window"] = "get"
    BY <1>7, ReceivedQueue DEF SessionGoesOn
  <2>1. WindowOK'  BY <1>7, <2>0 DEF SessionGoesOn, WindowOK
  <2>2. CauseOK'   BY <1>7 DEF SessionGoesOn
  <2>3. TypeOK'    BY <1>7, ReceivedQueue DEF SessionGoesOn
  <2>4. StoppedOK' /\ WatchedWhileRunning'  BY <1>7 DEF SessionGoesOn
  <2>5. QED  BY <2>1, <2>2, <2>3, <2>4
<1>8. CASE WindowRequests       BY <1>8 DEF WindowRequests, BeginRequest, WindowOK
<1>9. CASE WindowRequested      BY <1>9 DEF WindowRequested, EndRequest, WindowOK
<1>10. CASE NotificationReturns BY <1>10 DEF NotificationReturns, WindowOK
<1>11. CASE CloseMonitor        BY <1>11, ReceivedQueue DEF CloseMonitor, WindowOK
<1>12. CASE Finish
  <2>1. queue' \in Seq({"query", "end", "cancel", "close"}) /\ Len(queue') = 0
    BY <1>12 DEF Finish
  <2>2. WindowOK'  BY <1>12, <2>1 DEF Finish, WindowOK
  <2>3. CauseOK' /\ StoppedOK'  BY <1>12 DEF Finish
  <2>4. WatchedWhileRunning'  BY <1>12 DEF Finish, WindowOK
  <2>5. TypeOK'  BY <1>12, <2>1 DEF Finish
  <2>6. QED  BY <2>2, <2>3, <2>4, <2>5
<1>13. QED
  BY <1>1, <1>2, <1>3, <1>4, <1>5, <1>6, <1>7, <1>8, <1>9, <1>10, <1>11, <1>12 DEF Window

\* A step of the control server or of Windows keeps the invariant.
LEMMA OthersKeep ==
    ASSUME IInv, PostStop \/ PostedStop \/ QuerySession \/ Decide \/ Terminate
    PROVE  IInv'
<1> USE DEF IInv, TypeOK, StoppedOK, CauseOK, WatchedWhileRunning, Step, Alive, events, world,
            Threads, MainSteps, WindowSteps, ControlSteps, Quiet
<1>1. CASE PostStop      BY <1>1 DEF PostStop, BeginRequest, WindowOK
<1>2. CASE PostedStop    BY <1>2 DEF PostedStop, EndRequest, WindowOK
<1>3. CASE QuerySession  BY <1>3, AppendedQueue, SessionAssumption DEF QuerySession, WindowOK
<1>4. CASE Decide        BY <1>4, AppendedQueue DEF Decide, WindowOK
<1>5. CASE Terminate     BY <1>5 DEF Terminate, WindowOK
<1>6. QED  BY <1>1, <1>2, <1>3, <1>4, <1>5

-----------------------------------------------------------------------------
\* The invariant holds in every state.
THEOREM Invariance == Spec => []IInv
<1>1. IInv /\ [Next]_vars => IInv'
  <2>1. SUFFICES ASSUME IInv, [Next]_vars PROVE IInv'
    OBVIOUS
  <2>2. CASE UNCHANGED vars
    BY <2>1, <2>2 DEF vars, IInv, TypeOK, StoppedOK, CauseOK, WindowOK, WatchedWhileRunning
  <2>3. QED  BY <2>1, <2>2, MainKeeps, WindowKeeps, OthersKeep DEF Next
<1>2. QED  BY InitInv, <1>1, PTL DEF Spec

\* The state has its type.
THEOREM TypeCorrect == Spec => []TypeOK
<1>1. IInv => TypeOK  BY DEF IInv
<1>2. QED  BY <1>1, Invariance, PTL

\* g25_windows.py:32: when Windows may end the process, the wheel is neutral,
\* unless the notification gave up waiting for it.
THEOREM NotifiedNeutral == Spec => []NotifiedMeansNeutral
<1>1. IInv => NotifiedMeansNeutral
  BY DEF IInv, StoppedOK, Quiet, NotifiedMeansNeutral
<1>2. QED  BY <1>1, Invariance, PTL

\* The main thread and the window's thread never wait for each other.
THEOREM NeverBothWait == Spec => []NoMutualWait
<1>1. IInv => NoMutualWait  BY DEF IInv, StoppedOK, NoMutualWait
<1>2. QED  BY <1>1, Invariance, PTL

\* g25_windows.py:28: nothing but a signal, a command, an end of the session
\* that is final or the loss of the window stops the service.
THEOREM OnlyForACause == Spec => []StopsForACause
<1>1. IInv => StopsForACause  BY DEF IInv, CauseOK, StopsForACause
<1>2. QED  BY <1>1, Invariance, PTL

\* The main loop does not run unwatched.
THEOREM AlwaysWatched == Spec => []WatchedWhileRunning
<1>1. IInv => WatchedWhileRunning  BY DEF IInv
<1>2. QED  BY <1>1, Invariance, PTL

-----------------------------------------------------------------------------
(* The end. *)

\* The main thread has something to stop for, or is on its way out.
Called ==
    \/ stop \/ signal
    \/ pc["main"] \in {"request", "requesting", "leave", "neutralise", "close", "post", "join", "ended"}

\* The steps the main thread has left then, at most.
StepsFrom ==
    [enter |-> 12, starting |-> 11, pass |-> 10, update |-> 9, loop |-> 8, request |-> 7,
     requesting |-> 6, leave |-> 5, neutralise |-> 4, close |-> 3, post |-> 2, join |-> 1,
     ended |-> 0]

StepsLeft == StepsFrom[pc["main"]]

\* g25_runtime.py:196-207 (request_stop, should_stop): a main thread that is called, by a request of any
\* thread or by a signal that only left its number, stays called, and each of its steps brings its
\* end nearer; it is over after twelve at most.  No step of the other threads, nor of Windows, sends
\* it back.
EachStepNearsTheEnd ==
    [][Called => /\ Called'
                 /\ StepsLeft \in 0 .. 12 /\ (StepsLeft = 0 <=> pc["main"] = "ended")
                 /\ IF Main THEN StepsLeft' < StepsLeft ELSE StepsLeft' = StepsLeft]_vars

\* What is left at each place.
LEMMA StepsAt ==
    /\ StepsFrom["enter"] = 12 /\ StepsFrom["starting"] = 11 /\ StepsFrom["pass"] = 10
    /\ StepsFrom["update"] = 9 /\ StepsFrom["loop"] = 8 /\ StepsFrom["request"] = 7
    /\ StepsFrom["requesting"] = 6 /\ StepsFrom["leave"] = 5 /\ StepsFrom["neutralise"] = 4
    /\ StepsFrom["close"] = 3 /\ StepsFrom["post"] = 2 /\ StepsFrom["join"] = 1
    /\ StepsFrom["ended"] = 0
BY DEF StepsFrom

\* The places of the main thread before and after a step of its own, once it is called.
LEMMA MainMoves ==
    ASSUME TypeOK, Called, Main
    PROVE  /\ Called'
           /\ \/ pc["main"] = "enter" /\ pc'["main"] = "starting"
              \/ pc["main"] = "starting" /\ pc'["main"] \in {"loop", "close"}
              \/ pc["main"] = "loop" /\ pc'["main"] \in {"request", "leave"}
              \/ pc["main"] = "pass" /\ pc'["main"] \in {"loop", "update"}
              \/ pc["main"] = "update" /\ pc'["main"] = "loop"
              \/ pc["main"] = "request" /\ pc'["main"] \in {"requesting", "leave"}
              \/ pc["main"] = "requesting" /\ pc'["main"] = "leave"
              \/ pc["main"] = "leave" /\ pc'["main"] = "neutralise"
              \/ pc["main"] = "neutralise" /\ pc'["main"] = "close"
              \/ pc["main"] = "close" /\ pc'["main"] = "post"
              \/ pc["main"] = "post" /\ pc'["main"] = "join"
              \/ pc["main"] = "join" /\ pc'["main"] = "ended"
<1>1. pc \in [Threads -> MainSteps \cup WindowSteps] /\ "main" \in Threads
  BY DEF TypeOK, Threads
<1>2. ASSUME NEW from, NEW to, Step("main", from, to)
      PROVE  pc["main"] = from /\ pc'["main"] = to
  BY <1>1, <1>2 DEF Step
<1>3. CASE StartWindow
  <2>1. pc["main"] = "enter" /\ pc'["main"] = "starting" /\ UNCHANGED <<stop, signal>>
    BY <1>1, <1>3 DEF StartWindow, events
  <2>2. Called'  BY <2>1 DEF Called
  <2>3. QED  BY <2>1, <2>2
<1>4. CASE WindowStarted \/ StartTimesOut
  <2>1. pc["main"] = "starting" /\ pc'["main"] \in {"loop", "close"} /\ UNCHANGED <<stop, signal>>
    BY <1>2, <1>4 DEF WindowStarted, StartTimesOut, events
  <2>2. QED  BY <2>1 DEF Called
<1>5. CASE ShouldStop
  <2>1. pc["main"] = "loop" /\ stop' = stop  BY <1>2, <1>5 DEF ShouldStop, events
  <2>2. stop \/ signal  BY <2>1 DEF Called
  <2>3. pc'["main"] \in {"request", "leave"}  BY <1>2, <1>5, <2>2 DEF ShouldStop
  <2>4. QED  BY <2>1, <2>3 DEF Called
<1>6. CASE Pass \/ Updated
  <2>1. /\ \/ pc["main"] = "pass" /\ pc'["main"] \in {"loop", "update"}
           \/ pc["main"] = "update" /\ pc'["main"] = "loop"
        /\ UNCHANGED <<stop, signal>>
    BY <1>2, <1>6 DEF Pass, Updated, events
  <2>2. QED  BY <2>1 DEF Called
<1>7. CASE MainRequests \/ MainRequested
  <2>1. \/ pc["main"] = "request" /\ pc'["main"] \in {"requesting", "leave"}
        \/ pc["main"] = "requesting" /\ pc'["main"] = "leave"
    BY <1>2, <1>7 DEF MainRequests, MainRequested, BeginRequest, EndRequest
  <2>2. QED  BY <2>1 DEF Called
<1>8. CASE Leave \/ Neutralise \/ Close \/ Post \/ Join
  <2>1. \/ pc["main"] = "leave" /\ pc'["main"] = "neutralise"
        \/ pc["main"] = "neutralise" /\ pc'["main"] = "close"
        \/ pc["main"] = "close" /\ pc'["main"] = "post"
        \/ pc["main"] = "post" /\ pc'["main"] = "join"
        \/ pc["main"] = "join" /\ pc'["main"] = "ended"
    BY <1>2, <1>8 DEF Leave, Neutralise, Close, Post, Join
  <2>2. QED  BY <2>1 DEF Called
<1>9. QED  BY <1>3, <1>4, <1>5, <1>6, <1>7, <1>8 DEF Main

\* Nobody else moves the main thread, nor takes back what calls it.
LEMMA OthersLeaveMain ==
    ASSUME TypeOK, [Next]_vars, ~Main
    PROVE  pc'["main"] = pc["main"] /\ (stop => stop') /\ (signal => signal')
<1>1. pc \in [Threads -> MainSteps \cup WindowSteps]
      /\ "main" \in Threads /\ "window" # "main" /\ "control" # "main"
  BY DEF TypeOK, Threads
<1>2. ASSUME NEW t \in {"window", "control"}, NEW from, NEW to, Step(t, from, to)
      PROVE  pc'["main"] = pc["main"]
  BY <1>1, <1>2 DEF Step
<1>3. ASSUME NEW t \in {"window", "control"}, NEW from, NEW locked, NEW done,
             BeginRequest(t, from, locked, done)
      PROVE  pc'["main"] = pc["main"]
  BY <1>2, <1>3 DEF BeginRequest
<1>4. ASSUME NEW t \in {"window", "control"}, NEW locked, NEW done, EndRequest(t, locked, done)
      PROVE  pc'["main"] = pc["main"] /\ stop' /\ signal' = signal
  BY <1>2, <1>4 DEF EndRequest
<1>5. CASE SignalHandler
  BY <1>5 DEF SignalHandler, events
<1>6. CASE Window
  <2>1. CASE FailedRequested  BY <1>4, <2>1 DEF FailedRequested
  <2>2. CASE WindowRequested  BY <1>4, <2>2 DEF WindowRequested
  <2>3. CASE FailedRequests \/ WindowRequests
    BY <1>3, <2>3 DEF FailedRequests, WindowRequests, events
  <2>4. CASE CreateWindow \/ QueryEndSession \/ EndSession \/ SessionGoesOn
             \/ NotificationReturns \/ CloseMonitor \/ Finish
    BY <1>2, <2>4 DEF CreateWindow, QueryEndSession, EndSession, SessionGoesOn,
                      NotificationReturns, CloseMonitor, Finish, events, world
  <2>5. QED  BY <1>6, <2>1, <2>2, <2>3, <2>4 DEF Window
<1>7. CASE WindowFails
  BY <1>2, <1>7 DEF WindowFails
<1>8. CASE PostStop
  BY <1>3, <1>8 DEF PostStop, events
<1>9. CASE PostedStop
  BY <1>4, <1>9 DEF PostedStop
<1>10. CASE QuerySession \/ Decide \/ Terminate
  BY <1>10 DEF QuerySession, Decide, Terminate, events
<1>11. CASE UNCHANGED vars
  BY <1>11 DEF vars
<1>12. QED  BY <1>5, <1>6, <1>7, <1>8, <1>9, <1>10, <1>11 DEF Next

\* g25_runtime.py:196-207: whoever asks, the main thread is at most twelve of its own steps from its end.
THEOREM StopIsNear == Spec => EachStepNearsTheEnd
<1>1. ASSUME TypeOK, [Next]_vars, Called
      PROVE  /\ Called'
             /\ StepsLeft \in 0 .. 12 /\ (StepsLeft = 0 <=> pc["main"] = "ended")
             /\ IF Main THEN StepsLeft' < StepsLeft ELSE StepsLeft' = StepsLeft
  <2>1. StepsLeft \in 0 .. 12 /\ (StepsLeft = 0 <=> pc["main"] = "ended")
    <3>1. pc["main"] \in MainSteps  BY <1>1 DEF TypeOK
    <3>2. QED  BY <3>1, StepsAt DEF MainSteps, StepsLeft
  <2>2. CASE Main
    <3>1. Called' /\ StepsLeft' < StepsLeft  BY <1>1, <2>2, MainMoves, StepsAt DEF StepsLeft
    <3>2. QED  BY <2>1, <2>2, <3>1
  <2>3. CASE ~Main
    <3>1. pc'["main"] = pc["main"] /\ (stop => stop') /\ (signal => signal')
      BY <1>1, <2>3, OthersLeaveMain
    <3>2. StepsLeft' = StepsLeft  BY <3>1 DEF StepsLeft, StepsFrom
    <3>3. Called'  BY <1>1, <3>1 DEF Called
    <3>4. QED  BY <2>1, <2>3, <3>2, <3>3
  <2>4. QED  BY <2>2, <2>3
<1>2. QED  BY <1>1, TypeCorrect, PTL DEF Spec, EachStepNearsTheEnd
=============================================================================
