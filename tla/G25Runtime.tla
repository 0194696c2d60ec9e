------------------------------ MODULE G25Runtime ------------------------------
(***************************************************************************)
(* The processes of g25_runtime.py and g25_service.py: the instances that  *)
(* "run" starts and the commands "start", "status" and "stop" that look    *)
(* for one.  They share, for every data directory, the instance lock and   *)
(* runtime.json, which says where the control server of an instance is,    *)
(* and, over all data directories, the two ports of the effect input.      *)
(*                                                                         *)
(* Of the status an instance reports only what the commands tell apart is  *)
(* kept: whether it is starting, up or stopping.                           *)
(***************************************************************************)
EXTENDS Naturals

CONSTANTS
    Servers,        \* the instances, each one process that is run at most once
    Clients,        \* the management commands, each one process too
    Roots,          \* the data directories
    Home,           \* the data directory of an instance or a command
    Given,          \* Given[c]: the commands that c can be
    Child,          \* Child[c]: the instance that command c launches if it launches one
    Free, Nobody,   \* the lock that nobody has; no instance
    Polls,          \* how often a command polls before its deadline
    MaxFaults       \* bounds the faults of a behaviour: a process that is killed,
                    \* a file that another process keeps open, a reply that is late

Processes == Servers \cup Clients
CommandNames == {"start", "status", "stop"}

ASSUME RuntimeAssumption ==
    /\ Home \in [Processes -> Roots]
    /\ Given \in [Clients -> SUBSET CommandNames]
    /\ Child \in [Clients -> Servers]
    /\ \A c \in Clients : Home[Child[c]] = Home[c]
    /\ \A c, d \in Clients : Child[c] = Child[d] => c = d
    /\ Servers \cap Clients = {}
    /\ Free \notin Processes /\ Nobody \notin Servers
    /\ Polls \in Nat /\ MaxFaults \in Nat

VARIABLES
    lock,           \* lock[r]: the process that has locked runtime.lock
    file,           \* file[r]: the instance that runtime.json is about
    port,           \* the instance that has the ports of the effect input
    server,         \* server[s]: where an instance is, and what it reports
    client,         \* client[c]: where a command is, and what it has seen
    faults

vars == <<lock, file, port, server, client, faults>>

-----------------------------------------------------------------------------
(* The instances. *)

\* Where an instance is between its start and its end: what it does next.
Steps == {"new", "acquire", "publish", "bind", "loop", "neutralise", "sockets",
          "shutdown", "unpublish", "release", "exited"}

\* An instance has locked its data directory from Acquire to Release,
Locked == Steps \ {"new", "acquire", "exited"}
\* its file is there from Publish to Unpublish,
Published == {"bind", "loop", "neutralise", "sockets", "shutdown", "unpublish"}
\* its control server answers,
Answering == {"publish", "bind", "loop", "neutralise", "sockets", "shutdown"}
\* and its wheel output may be open.
AtTheWheel == {"loop", "neutralise"}
Past == {"sockets", "shutdown", "unpublish", "release", "exited"}

\* How an instance has ended: with exit code 0, 1 or 2, or killed.
Codes == {"none", "clean", "error", "duplicate", "killed"}
States == {"starting", "up", "stopping"}

Goto(s, from, to) ==
    /\ server[s].pc = from
    /\ server' = [server EXCEPT ![s].pc = to]

\* The main program ends with an error, and the context it was in is left.
Fail(s, from, to) ==
    /\ server[s].pc = from
    /\ server' = [server EXCEPT ![s].pc = to, ![s].code = "error"]

Fault == faults < MaxFaults /\ faults' = faults + 1

Run(s) ==
    /\ s \notin {Child[c] : c \in Clients}
    /\ Goto(s, "new", "acquire")
    /\ UNCHANGED <<lock, file, port, client, faults>>

\* settings.json is not valid.
BadSettings(s) ==
    /\ Fail(s, "acquire", "exited")
    /\ UNCHANGED <<lock, file, port, client, faults>>

\* Mutant: the lock is shared.
AcquireShared(s) ==
    /\ Goto(s, "acquire", "publish")
    /\ lock' = [lock EXCEPT ![Home[s]] = s]
    /\ UNCHANGED <<file, port, client, faults>>

Acquire(s) ==
    /\ IF lock[Home[s]] = Free
       THEN /\ Goto(s, "acquire", "publish")
            /\ lock' = [lock EXCEPT ![Home[s]] = s]
       ELSE /\ server[s].pc = "acquire"
            /\ server' = [server EXCEPT ![s].pc = "exited", ![s].code = "duplicate"]
            /\ UNCHANGED lock
    /\ UNCHANGED <<file, port, client, faults>>

\* The control server is up; runtime.json, also one that an instance left
\* behind, is replaced.
Publish(s) ==
    /\ Goto(s, "publish", "bind")
    /\ file' = [file EXCEPT ![Home[s]] = s]
    /\ UNCHANGED <<lock, port, client, faults>>

\* The window of the session or the file fails, for one because a command has it open.
PublishFails(s) ==
    /\ Fault
    /\ Fail(s, "publish", "release")
    /\ UNCHANGED <<lock, file, port, client>>

\* Both ports, or none: when the second is taken the first is closed.
Bind(s) ==
    /\ IF port = Nobody
       THEN /\ Goto(s, "bind", "loop")
            /\ port' = s
       ELSE /\ Fail(s, "bind", "shutdown")
            /\ UNCHANGED port
    /\ UNCHANGED <<lock, file, client, faults>>

\* Finding and losing the wheel is reported, also after a stop was.
Report(s) ==
    /\ server[s].pc = "loop"
    /\ server' = [server EXCEPT ![s].state = "up"]
    /\ UNCHANGED <<lock, file, port, client, faults>>

\* Mutant: the sockets are closed before the output is.
LeaveLoopClosesSockets(s) ==
    /\ server[s].pc = "loop" /\ server[s].stop
    /\ server' = [server EXCEPT ![s].pc = "neutralise", ![s].state = "stopping", ![s].code = "clean"]
    /\ port' = Nobody
    /\ UNCHANGED <<lock, file, client, faults>>

LeaveLoop(s) ==
    /\ server[s].pc = "loop" /\ server[s].stop
    /\ server' = [server EXCEPT ![s].pc = "neutralise", ![s].state = "stopping", ![s].code = "clean"]
    /\ UNCHANGED <<lock, file, port, client, faults>>

\* The main loop ends with an exception it does not handle.
Crash(s) ==
    /\ Fault
    /\ server[s].pc = "loop"
    /\ server' = [server EXCEPT ![s].pc = "neutralise", ![s].state = "stopping", ![s].code = "error"]
    /\ UNCHANGED <<lock, file, port, client>>

Neutralise(s) ==
    /\ Goto(s, "neutralise", "sockets")
    /\ UNCHANGED <<lock, file, port, client, faults>>

CloseSockets(s) ==
    /\ Goto(s, "sockets", "shutdown")
    /\ port' = Nobody
    /\ UNCHANGED <<lock, file, client, faults>>

Shutdown(s) ==
    /\ Goto(s, "shutdown", "unpublish")
    /\ UNCHANGED <<lock, file, port, client, faults>>

Unpublish(s) ==
    /\ Goto(s, "unpublish", "release")
    /\ file' = [file EXCEPT ![Home[s]] = Nobody]
    /\ UNCHANGED <<lock, port, client, faults>>

\* Mutant: the error is ignored.
UnpublishFailsQuietly(s) ==
    /\ Fault
    /\ Goto(s, "unpublish", "release")
    /\ UNCHANGED <<lock, file, port, client>>

\* Another process has runtime.json open: the process ends here, its lock with it.
UnpublishFails(s) ==
    /\ Fault
    /\ Fail(s, "unpublish", "exited")
    /\ lock' = [lock EXCEPT ![Home[s]] = Free]
    /\ UNCHANGED <<file, port, client>>

Release(s) ==
    /\ Goto(s, "release", "exited")
    /\ lock' = [lock EXCEPT ![Home[s]] = Free]
    /\ UNCHANGED <<file, port, client, faults>>

\* The system takes the lock and the ports of a process back, never its file.
Kill(s) ==
    /\ Fault
    /\ server[s].pc \in Locked
    /\ server' = [server EXCEPT ![s].pc = "exited", ![s].code = "killed"]
    /\ lock' = [lock EXCEPT ![Home[s]] = Free]
    /\ port' = IF port = s THEN Nobody ELSE port
    /\ UNCHANGED <<file, client>>

\* Sign-out, Ctrl+C, a signal.
SessionEnds(s) ==
    /\ server[s].pc \in {"bind", "loop"} /\ ~server[s].stop
    /\ server' = [server EXCEPT ![s].stop = TRUE, ![s].state = "stopping"]
    /\ UNCHANGED <<lock, file, port, client, faults>>

EndOfInstance(s) ==
    \/ LeaveLoop(s) \/ Neutralise(s) \/ CloseSockets(s)
    \/ Shutdown(s) \/ Unpublish(s) \/ Release(s)

ServerStep(s) ==
    \/ Run(s) \/ BadSettings(s) \/ Acquire(s) \/ Publish(s) \/ PublishFails(s)
    \/ Bind(s) \/ Report(s) \/ Crash(s) \/ UnpublishFails(s) \/ Kill(s)
    \/ SessionEnds(s) \/ EndOfInstance(s)

-----------------------------------------------------------------------------
(* The commands. *)

CommandSteps == {"idle", "endpoint", "query", "ask", "launch", "child",
                 "probe", "post", "wait", "drop", "done"}
Phases == {"first", "polling", "last"}
Answers == States \cup {"unknown", "none", "stopped", "unresponsive", "timeout", "error"}
Idle == [command |-> "status", pc |-> "idle", phase |-> "first", asked |-> Nobody,
         target |-> Nobody, left |-> Polls, answer |-> "unknown"]

Move(c, from, to) ==
    /\ client[c].pc = from
    /\ client' = [client EXCEPT ![c].pc = to]

Answer(c, from, what) ==
    /\ client[c].pc = from
    /\ client' = [client EXCEPT ![c].pc = "done", ![c].answer = what]

OnlyClient == UNCHANGED <<lock, file, port, server, faults>>

Invoke(c) ==
    /\ client[c].pc = "idle"
    /\ \E name \in Given[c] :
           client' = [client EXCEPT
               ![c].command = name,
               ![c].pc = IF name = "stop" THEN "endpoint" ELSE "query"]
    /\ OnlyClient

\* stop reads the file for itself before query_status reads it again.
ReadEndpoint(c) ==
    /\ client[c].pc = "endpoint"
    /\ client' = [client EXCEPT
           ![c].asked = file[Home[c]],
           ![c].pc = IF file[Home[c]] = Nobody THEN "probe" ELSE "query"]
    /\ OnlyClient

\* The status is all the command wanted.
Satisfied(c, reply) ==
    \/ client[c].command = "status"
    \/ /\ client[c].command = "start"
       /\ \/ client[c].phase = "first" /\ reply # "none"
          \/ client[c].phase = "polling" /\ reply \notin {"none", "starting"}
          \/ client[c].phase = "last"

\* How a command goes on after query_status.
After(c, reply) ==
    CASE Satisfied(c, reply) -> "done"
      [] client[c].command = "stop" -> IF reply = "none" THEN "probe" ELSE "post"
      [] client[c].command = "start" /\ client[c].phase = "first" -> "launch"
      [] OTHER -> "child"

Replied(c, reply) ==
    client' = [client EXCEPT
        ![c].pc = After(c, reply), ![c].target = Nobody,
        ![c].answer = IF Satisfied(c, reply) THEN reply ELSE @]

\* query_status reads the file
Query(c) ==
    /\ client[c].pc = "query"
    /\ IF file[Home[c]] = Nobody
       THEN Replied(c, "none")
       ELSE client' = [client EXCEPT ![c].pc = "ask", ![c].target = file[Home[c]]]
    /\ OnlyClient

\* and asks the instance that the file was about, if it is there still.
Ask(c) ==
    /\ client[c].pc = "ask"
    /\ LET t == client[c].target IN
       Replied(c, IF server[t].pc \in Answering THEN server[t].state ELSE "none")
    /\ OnlyClient

\* Mutant: a file whose instance does not answer is removed.
AskTimesOutCleans(c) ==
    /\ Fault
    /\ client[c].pc = "ask"
    /\ Replied(c, "none")
    /\ file' = [file EXCEPT ![Home[c]] = Nobody]
    /\ UNCHANGED <<lock, port, server>>

AskTimesOut(c) ==
    /\ Fault
    /\ client[c].pc = "ask"
    /\ Replied(c, "none")
    /\ UNCHANGED <<lock, file, port, server>>

Launch(c) ==
    /\ client[c].pc = "launch"
    /\ client' = [client EXCEPT ![c].pc = "query", ![c].phase = "polling"]
    /\ Goto(Child[c], "new", "acquire")
    /\ UNCHANGED <<lock, file, port, faults>>

\* Mutant: the deadline is looked at only after the poll.
CheckChildOnceMore(c) ==
    /\ client[c].pc = "child"
    /\ client' = [client EXCEPT ![c] =
           IF server[Child[c]].pc = "exited" THEN [@ EXCEPT !.pc = "query", !.phase = "last"]
           ELSE IF @.left >= 0 THEN [@ EXCEPT !.pc = "query", !.left = client[c].left - 1]
           ELSE [@ EXCEPT !.pc = "done", !.answer = "timeout"]]
    /\ OnlyClient

\* Mutant: there is no deadline.
CheckChildForever(c) ==
    /\ client[c].pc = "child"
    /\ client' = [client EXCEPT ![c] =
           IF server[Child[c]].pc = "exited" THEN [@ EXCEPT !.pc = "query", !.phase = "last"]
           ELSE [@ EXCEPT !.pc = "query"]]
    /\ OnlyClient

\* A process that was launched and has ended may have lost a race: its winner is asked for once more.
CheckChild(c) ==
    /\ client[c].pc = "child"
    /\ client' = [client EXCEPT ![c] =
           IF server[Child[c]].pc = "exited" THEN [@ EXCEPT !.pc = "query", !.phase = "last"]
           ELSE IF @.left > 0 THEN [@ EXCEPT !.pc = "query", !.left = client[c].left - 1]
           ELSE [@ EXCEPT !.pc = "done", !.answer = "timeout"]]
    /\ OnlyClient

\* Mutant: only the state is changed.
RequestStopReports(s) ==
    server' = [server EXCEPT ![s].state = "stopping"]

RequestStop(s) ==
    server' = [server EXCEPT
        ![s].stop = TRUE,
        ![s].state = IF server[s].stop THEN @ ELSE "stopping"]

\* The instance of the first reading is told to stop.
Post(c) ==
    /\ client[c].pc = "post"
    /\ IF server[client[c].asked].pc \in Answering
       THEN Move(c, "post", "wait") /\ RequestStop(client[c].asked)
       ELSE Answer(c, "post", "error") /\ UNCHANGED server
    /\ UNCHANGED <<lock, file, port, faults>>

\* No reply in time: the instance has got the request or not.
PostTimesOut(c) ==
    /\ Fault
    /\ Answer(c, "post", "error")
    /\ \/ server[client[c].asked].pc \in Answering /\ RequestStop(client[c].asked)
       \/ UNCHANGED server
    /\ UNCHANGED <<lock, file, port>>

\* Taking the lock is how a command finds out that no process has it.
TryLock(c, from) ==
    /\ lock[Home[c]] = Free
    /\ Move(c, from, "drop")
    /\ lock' = [lock EXCEPT ![Home[c]] = c]
    /\ UNCHANGED <<file, port, server, faults>>

\* Mutant: no file is taken for no instance.
ProbeFile(c) ==
    \/ TryLock(c, "probe")
    \/ /\ file[Home[c]] = Nobody
       /\ Answer(c, "probe", "stopped")
       /\ OnlyClient
    \/ /\ lock[Home[c]] # Free /\ file[Home[c]] # Nobody
       /\ Answer(c, "probe", "unresponsive")
       /\ OnlyClient

Probe(c) ==
    \/ TryLock(c, "probe")
    \/ /\ lock[Home[c]] # Free
       /\ Answer(c, "probe", "unresponsive")
       /\ OnlyClient

Wait(c) ==
    \/ TryLock(c, "wait")
    \/ /\ lock[Home[c]] # Free /\ client[c].pc = "wait" /\ client[c].left > 0
       /\ client' = [client EXCEPT ![c].left = @ - 1]
       /\ OnlyClient
    \/ /\ client[c].left = 0
       /\ Answer(c, "wait", "timeout")
       /\ OnlyClient

Drop(c) ==
    /\ Answer(c, "drop", "stopped")
    /\ lock' = [lock EXCEPT ![Home[c]] = Free]
    /\ UNCHANGED <<file, port, server, faults>>

KillCommand(c) ==
    /\ Fault
    /\ client[c].pc \notin {"idle", "done"}
    /\ Answer(c, client[c].pc, "error")
    /\ lock' = IF lock[Home[c]] = c THEN [lock EXCEPT ![Home[c]] = Free] ELSE lock
    /\ UNCHANGED <<file, port, server>>

CommandStep(c) ==
    \/ ReadEndpoint(c) \/ Query(c) \/ Ask(c) \/ Launch(c) \/ CheckChild(c)
    \/ Post(c) \/ Probe(c) \/ Wait(c) \/ Drop(c)

ClientStep(c) ==
    \/ Invoke(c) \/ CommandStep(c)
    \/ AskTimesOut(c) \/ PostTimesOut(c) \/ KillCommand(c)

-----------------------------------------------------------------------------
Init ==
    /\ lock = [r \in Roots |-> Free]
    /\ file = [r \in Roots |-> Nobody]
    /\ port = Nobody
    /\ server = [s \in Servers |->
                    [pc |-> "new", stop |-> FALSE, state |-> "starting", code |-> "none"]]
    /\ client = [c \in Clients |-> Idle]
    /\ faults = 0

Next ==
    \/ \E s \in Servers : ServerStep(s)
    \/ \E c \in Clients : ClientStep(c)

Spec == Init /\ [][Next]_vars

\* The system runs every process that can run; nothing obliges anybody to
\* start one or to end a session, and no fault has to happen.
FairSpec ==
    /\ Spec
    /\ \A s \in Servers : WF_vars(Acquire(s) \/ Publish(s) \/ Bind(s) \/ EndOfInstance(s))
    /\ \A c \in Clients : WF_vars(CommandStep(c))

-----------------------------------------------------------------------------
(* Properties. *)

TypeOK ==
    /\ lock \in [Roots -> Processes \cup {Free}]
    /\ file \in [Roots -> Servers \cup {Nobody}]
    /\ port \in Servers \cup {Nobody}
    /\ server \in [Servers -> [pc : Steps, stop : BOOLEAN, state : States, code : Codes]]
    /\ client \in [Clients -> [command : CommandNames, pc : CommandSteps, phase : Phases,
                               asked : Servers \cup {Nobody}, target : Servers \cup {Nobody},
                               left : 0 .. Polls, answer : Answers]]
    /\ faults \in 0 .. MaxFaults

\* The processes that believe they have locked their data directory.
Holders == {s \in Servers : server[s].pc \in Locked} \cup {c \in Clients : client[c].pc = "drop"}

\* README.md:97 "Only one managed process can use a data directory", and no
\* command finds it free while an instance is in it.
DirectoryHasOneHolder == \A p, q \in Holders : Home[p] = Home[q] => p = q

\* While an instance can be reached, runtime.json leads to it and to no
\* other: a stop never goes to an instance that is not there, and no instance
\* removes the file of the next one.
EndpointIsTrue == \A s \in Servers : server[s].pc \in Published => file[Home[s]] = s

\* An instance that has ended with exit code 0 has left no file behind.
CleanExitLeavesNoEndpoint ==
    \A s \in Servers :
        server[s].pc = "exited" /\ server[s].code = "clean" => file[Home[s]] # s

\* A stop command that says "stopped" and had found an instance has seen this
\* instance end, whichever instances have come and gone since.
StopMeansStopped ==
    \A c \in Clients :
        client[c].answer = "stopped" /\ client[c].asked # Nobody =>
            server[client[c].asked].pc = "exited"

\* What the commands and instances of all data directories together keep to:
\* the wheel has one owner at a time.
Lease == INSTANCE WheelLease WITH
    Instances <- Servers,
    Commands <- Clients,
    owners <- {s \in Servers : server[s].pc \in AtTheWheel},
    over <- {s \in Servers : server[s].pc \in Past},
    confirmed <- [c \in Clients |->
                    IF client[c].answer = "stopped" THEN client[c].asked ELSE Nobody]

LeaseSpec == Lease!Spec

\* A command that is given is answered, before the deadline or at it.
CommandsAreAnswered ==
    \A c \in Clients : client[c].pc # "idle" ~> client[c].pc = "done"

\* An instance that has accepted a stop ends.
StopsAreHeeded ==
    \A c \in Clients :
        client[c].pc = "wait" ~> /\ client[c].asked \in Servers
                                 /\ server[client[c].asked].pc = "exited"
=============================================================================
