--------------------------- MODULE G25RuntimeProofs ---------------------------
(***************************************************************************)
(* Proofs about G25Runtime, for any number of instances, commands and data *)
(* directories and any number of faults: one holder per data directory,    *)
(* one owner of the wheel over all of them, what runtime.json says, what   *)
(* "stopped" means, how far a command is from its answer, and an accepted  *)
(* stop from the end of its instance.                                      *)
(***************************************************************************)
EXTENDS G25Runtime, TLAPS

\* The instances that runtime.json can have been about: those past Publish.
Reached == Steps \ {"new", "acquire", "publish"}

\* The lock is with whom it should be.
LockOK ==
    /\ \A s \in Servers : server[s].pc \in Locked => lock[Home[s]] = s
    /\ \A c \in Clients : client[c].pc = "drop" => lock[Home[c]] = c

\* The ports are with the instance whose main loop runs or whose wheel output
\* may still be open.
PortOK == \A s \in Servers : server[s].pc \in AtTheWheel \cup {"sockets"} => port = s

\* What a file leads to, and what a command has read in it, has been published
\* in this data directory.
SeenOK ==
    /\ \A r \in Roots : file[r] # Nobody =>
           Home[file[r]] = r /\ server[file[r]].pc \in Reached
    /\ \A c \in Clients : client[c].asked # Nobody =>
           Home[client[c].asked] = Home[c] /\ server[client[c].asked].pc \in Reached
    /\ \A c \in Clients : client[c].pc = "ask" => client[c].target \in Servers

\* A command that has the lock, or has had it and says so, has outlived the
\* instance it found.
StoppedOK ==
    /\ \A c \in Clients :
           /\ client[c].pc = "drop" \/ client[c].answer = "stopped"
           /\ client[c].asked # Nobody
           => server[client[c].asked].pc = "exited"
    /\ \A c \in Clients : client[c].answer = "stopped" => client[c].pc = "done"

\* An instance on its way to exit code 0 has removed its file when it gets there.
CleanOK ==
    \A s \in Servers :
        server[s].pc \in {"release", "exited"} /\ server[s].code = "clean" => file[Home[s]] # s

IInv == TypeOK /\ LockOK /\ PortOK /\ EndpointIsTrue /\ SeenOK /\ StoppedOK /\ CleanOK

-----------------------------------------------------------------------------
(* The initial state, and what the steps change. *)

\* The initial state satisfies the invariant.
LEMMA InitInv == Init => IInv
BY RuntimeAssumption, SMTT(30)
   DEF Init, IInv, TypeOK, LockOK, PortOK, EndpointIsTrue, SeenOK, StoppedOK, CleanOK, Idle,
       Steps, States, Codes, CommandNames, CommandSteps, Phases, Answers, Locked, Published,
       AtTheWheel, Processes

\* The types of the two records.
ServerRecord == [pc : Steps, stop : BOOLEAN, state : States, code : Codes]
ClientRecord == [command : CommandNames, pc : CommandSteps, phase : Phases,
                 asked : Servers \cup {Nobody}, target : Servers \cup {Nobody},
                 left : 0 .. Polls, answer : Answers]

\* What a step makes of the one instance it is a step of.
Moved(s, to, code) ==
    /\ server' \in [Servers -> ServerRecord]
    /\ server'[s].pc = to /\ server'[s].code = code
    /\ \A t \in Servers \ {s} : server'[t] = server[t]

\* What a step makes of the one command it is a step of.
Changed(c, v) ==
    /\ v \in ClientRecord
    /\ client' \in [Clients -> ClientRecord]
    /\ client'[c] = v
    /\ \A d \in Clients \ {c} : client'[d] = client[d]

\* One value of the function of the instances is replaced.
LEMMA ServerUpdate ==
    ASSUME TypeOK, NEW s \in Servers, NEW v \in ServerRecord, server' = [server EXCEPT ![s] = v]
    PROVE  Moved(s, v.pc, v.code)
BY DEF TypeOK, Moved, ServerRecord

\* Goto changes only where the instance is.
LEMMA GotoMoves ==
    ASSUME TypeOK, NEW s \in Servers, NEW from, NEW to \in Steps, Goto(s, from, to)
    PROVE  server[s].pc = from /\ Moved(s, to, server[s].code)
<1> DEFINE v == [server[s] EXCEPT !.pc = to]
<1>1. v \in ServerRecord /\ v.pc = to /\ v.code = server[s].code  BY DEF TypeOK, ServerRecord
<1>2. server' = [server EXCEPT ![s] = v]  BY Zenon DEF Goto
<1>3. QED  BY <1>1, <1>2, ServerUpdate DEF Goto

\* Fail sets the exit code too.
LEMMA FailMoves ==
    ASSUME TypeOK, NEW s \in Servers, NEW from, NEW to \in Steps, Fail(s, from, to)
    PROVE  server[s].pc = from /\ Moved(s, to, "error")
<1> DEFINE v == [server[s] EXCEPT !.pc = to, !.code = "error"]
<1>1. v \in ServerRecord /\ v.pc = to /\ v.code = "error"  BY DEF TypeOK, ServerRecord, Codes
<1>2. server' = [server EXCEPT ![s] = v]  BY Zenon DEF Fail
<1>3. QED  BY <1>1, <1>2, ServerUpdate DEF Fail

\* One value of the function of the commands is replaced.
LEMMA ClientUpdate ==
    ASSUME TypeOK, NEW c \in Clients, NEW v \in ClientRecord, client' = [client EXCEPT ![c] = v]
    PROVE  Changed(c, v)
BY DEF TypeOK, Changed, ClientRecord

\* Move changes only where the command is.
LEMMA MoveChanges ==
    ASSUME TypeOK, NEW c \in Clients, NEW from, NEW to \in CommandSteps, Move(c, from, to)
    PROVE  client[c].pc = from /\ Changed(c, [client[c] EXCEPT !.pc = to])
<1>1. [client[c] EXCEPT !.pc = to] \in ClientRecord  BY DEF TypeOK, ClientRecord
<1>2. client' = [client EXCEPT ![c] = [client[c] EXCEPT !.pc = to]]  BY Zenon DEF Move
<1>3. QED  BY <1>1, <1>2, ClientUpdate DEF Move

\* Answer ends the command.
LEMMA AnswerChanges ==
    ASSUME TypeOK, NEW c \in Clients, NEW from, NEW what \in Answers, Answer(c, from, what)
    PROVE  client[c].pc = from /\ Changed(c, [client[c] EXCEPT !.pc = "done", !.answer = what])
<1> DEFINE v == [client[c] EXCEPT !.pc = "done", !.answer = what]
<1>1. v \in ClientRecord  BY DEF TypeOK, ClientRecord, CommandSteps
<1>2. client' = [client EXCEPT ![c] = v]  BY Zenon DEF Answer
<1>3. QED  BY <1>1, <1>2, ClientUpdate DEF Answer

\* The rest of a status query never says that an instance is stopped.
LEMMA RepliedChanges ==
    ASSUME TypeOK, NEW c \in Clients, NEW reply \in States \cup {"none"}, Replied(c, reply),
           client[c].answer = "stopped" => client[c].pc = "done", client[c].pc # "done"
    PROVE  \E v \in ClientRecord :
              /\ Changed(c, v)
              /\ v.asked = client[c].asked
              /\ v.pc \in {"done", "probe", "post", "launch", "child"}
              /\ v.answer # "stopped"
<1> DEFINE a == IF Satisfied(c, reply) THEN reply ELSE client[c].answer
           v == [client[c] EXCEPT !.pc = After(c, reply), !.target = Nobody, !.answer = a]
<1>1. After(c, reply) \in {"done", "probe", "post", "launch", "child"}  BY DEF After
<1>2. a \in Answers /\ a # "stopped"  BY DEF Answers, States, TypeOK
<1> HIDE DEF a
<1>3. v \in ClientRecord  BY <1>1, <1>2 DEF TypeOK, ClientRecord, CommandSteps
<1>4. client' = [client EXCEPT ![c] = v]  BY Zenon DEF Replied, a
<1>5. /\ v.asked = client[c].asked
      /\ v.pc = After(c, reply)
      /\ v.answer = a
  BY DEF TypeOK
<1>6. QED  BY <1>1, <1>2, <1>3, <1>4, <1>5, ClientUpdate

-----------------------------------------------------------------------------
(* What the steps of an instance are to the invariant. *)

Row(s, from, to, code) == server[s].pc = from /\ Moved(s, to, code)

Unlocked(s) == lock' = [lock EXCEPT ![Home[s]] = Free]

\* The steps before the main loop,
Starting(s) ==
    \/ \E code \in Codes : Row(s, "acquire", "exited", code) /\ code # "clean" /\ UNCHANGED <<lock, file, port>>
    \/ Row(s, "new", "acquire", server[s].code) /\ UNCHANGED <<lock, file, port>>
    \/ /\ Row(s, "acquire", "publish", server[s].code)
       /\ lock[Home[s]] = Free /\ lock' = [lock EXCEPT ![Home[s]] = s]
       /\ UNCHANGED <<file, port>>
    \/ /\ Row(s, "publish", "bind", server[s].code)
       /\ file' = [file EXCEPT ![Home[s]] = s]
       /\ UNCHANGED <<lock, port>>
    \/ Row(s, "publish", "release", "error") /\ UNCHANGED <<lock, file, port>>
    \/ /\ Row(s, "bind", "loop", server[s].code)
       /\ port = Nobody /\ port' = s
       /\ UNCHANGED <<lock, file>>
    \/ Row(s, "bind", "shutdown", "error") /\ UNCHANGED <<lock, file, port>>

\* and those from it on.
Ending(s) ==
    \/ Moved(s, server[s].pc, server[s].code) /\ UNCHANGED <<lock, file, port>>
    \/ \E code \in Codes : Row(s, "loop", "neutralise", code) /\ UNCHANGED <<lock, file, port>>
    \/ Row(s, "neutralise", "sockets", server[s].code) /\ UNCHANGED <<lock, file, port>>
    \/ Row(s, "sockets", "shutdown", server[s].code) /\ port' = Nobody /\ UNCHANGED <<lock, file>>
    \/ Row(s, "shutdown", "unpublish", server[s].code) /\ UNCHANGED <<lock, file, port>>
    \/ /\ Row(s, "unpublish", "release", server[s].code)
       /\ file' = [file EXCEPT ![Home[s]] = Nobody]
       /\ UNCHANGED <<lock, port>>
    \/ Row(s, "unpublish", "exited", "error") /\ Unlocked(s) /\ UNCHANGED <<file, port>>
    \/ Row(s, "release", "exited", server[s].code) /\ Unlocked(s) /\ UNCHANGED <<file, port>>
    \/ /\ server[s].pc \in Locked /\ Moved(s, "exited", "killed")
       /\ Unlocked(s) /\ port' = (IF port = s THEN Nobody ELSE port)
       /\ UNCHANGED file

\* Every step of an instance is one of these.
LEMMA ServerTable ==
    ASSUME TypeOK, NEW s \in Servers, ServerStep(s)
    PROVE  /\ Starting(s) \/ Ending(s)
           /\ client' = client
           /\ faults' \in 0 .. MaxFaults
<1>0. faults' \in 0 .. MaxFaults /\ client' = client
  <2>1. faults' = faults \/ Fault
    BY DEF ServerStep, EndOfInstance, Run, BadSettings, Acquire, Publish, PublishFails, Bind, Report,
           LeaveLoop, Crash, Neutralise, CloseSockets, Shutdown, Unpublish, UnpublishFails, Release,
           Kill, SessionEnds
  <2>2. faults' \in 0 .. MaxFaults
    BY <2>1, RuntimeAssumption DEF Fault, TypeOK
  <2>3. client' = client
    BY DEF ServerStep, EndOfInstance, Run, BadSettings, Acquire, Publish, PublishFails, Bind, Report,
           LeaveLoop, Crash, Neutralise, CloseSockets, Shutdown, Unpublish, UnpublishFails, Release,
           Kill, SessionEnds
  <2>4. QED  BY <2>2, <2>3
<1>b. SUFFICES Starting(s) \/ Ending(s)
  BY <1>0
<1>a. /\ {"new", "acquire", "publish", "bind", "loop", "neutralise", "sockets", "shutdown",
          "unpublish", "release", "exited"} \subseteq Steps
      /\ {"error", "duplicate", "clean", "killed"} \subseteq Codes
      /\ server[s] \in ServerRecord /\ server[s].code \in Codes /\ server[s].pc \in Steps
  BY DEF Steps, Codes, TypeOK, ServerRecord
<1>1. CASE Run(s)          BY <1>a, <1>1, GotoMoves DEF Run, Starting, Row
<1>2. CASE BadSettings(s)  BY <1>a, <1>2, FailMoves DEF BadSettings, Starting, Row
<1>3. CASE Acquire(s)
  <2>1. CASE lock[Home[s]] = Free
    BY <1>a, <1>3, <2>1, GotoMoves DEF Acquire, Starting, Row
  <2>2. CASE lock[Home[s]] # Free
    <3> DEFINE v == [server[s] EXCEPT !.pc = "exited", !.code = "duplicate"]
    <3>1. v \in ServerRecord /\ v.pc = "exited" /\ v.code = "duplicate"
      BY <1>a DEF ServerRecord
    <3>2. server' = [server EXCEPT ![s] = v]  BY <1>3, <2>2, Zenon DEF Acquire
    <3>3. Row(s, "acquire", "exited", "duplicate")
      BY <1>3, <2>2, <3>1, <3>2, ServerUpdate DEF Acquire, Row
    <3>4. QED  BY <1>a, <1>3, <2>2, <3>3 DEF Acquire, Starting
  <2>3. QED  BY <2>1, <2>2
<1>4. CASE Publish(s)       BY <1>a, <1>4, GotoMoves DEF Publish, Starting, Row
<1>5. CASE PublishFails(s)  BY <1>a, <1>5, FailMoves DEF PublishFails, Starting, Row
<1>6. CASE Bind(s)          BY <1>a, <1>6, GotoMoves, FailMoves DEF Bind, Starting, Row
<1>7. CASE Report(s)
  <2> DEFINE v == [server[s] EXCEPT !.state = "up"]
  <2>1. v \in ServerRecord /\ v.pc = server[s].pc /\ v.code = server[s].code
    BY <1>a DEF ServerRecord, States
  <2>2. server' = [server EXCEPT ![s] = v]  BY <1>7, Zenon DEF Report
  <2>3. QED  BY <1>7, <2>1, <2>2, ServerUpdate DEF Report, Ending
<1>8. CASE LeaveLoop(s) \/ Crash(s)
  <2>1. PICK code \in {"clean", "error"} :
            server' = [server EXCEPT ![s].pc = "neutralise", ![s].state = "stopping", ![s].code = code]
    BY <1>8, Zenon DEF LeaveLoop, Crash
  <2>0. server[s].pc = "loop" /\ UNCHANGED <<lock, file, port>>
    BY <1>8, Zenon DEF LeaveLoop, Crash
  <2> DEFINE v == [server[s] EXCEPT !.pc = "neutralise", !.state = "stopping", !.code = code]
  <2>2. v \in ServerRecord /\ v.pc = "neutralise" /\ v.code = code
    BY <1>a, <2>1 DEF ServerRecord, States
  <2>3. server' = [server EXCEPT ![s] = v]  BY <2>1, Zenon
  <2>4. Row(s, "loop", "neutralise", code)
    BY <2>0, <2>2, <2>3, ServerUpdate DEF Row
  <2>5. QED  BY <1>a, <2>0, <2>1, <2>4 DEF Ending
<1>9. CASE Neutralise(s) \/ CloseSockets(s) \/ Shutdown(s)
  <2>1. CASE Neutralise(s)    BY <1>a, <2>1, GotoMoves DEF Neutralise, Ending, Row
  <2>2. CASE CloseSockets(s)  BY <1>a, <2>2, GotoMoves DEF CloseSockets, Ending, Row
  <2>3. CASE Shutdown(s)      BY <1>a, <2>3, GotoMoves DEF Shutdown, Ending, Row
  <2>4. QED  BY <1>9, <2>1, <2>2, <2>3
<1>10. CASE Unpublish(s) \/ Release(s)
  <2>1. CASE Unpublish(s)  BY <1>a, <2>1, GotoMoves DEF Unpublish, Ending, Row
  <2>2. CASE Release(s)    BY <1>a, <2>2, GotoMoves DEF Release, Ending, Row, Unlocked
  <2>3. QED  BY <1>10, <2>1, <2>2
<1>11. CASE UnpublishFails(s)
  BY <1>a, <1>11, FailMoves DEF UnpublishFails, Ending, Row, Unlocked
<1>12. CASE Kill(s)
  <2> DEFINE v == [server[s] EXCEPT !.pc = "exited", !.code = "killed"]
  <2>1. v \in ServerRecord /\ v.pc = "exited" /\ v.code = "killed"
    BY <1>a DEF ServerRecord
  <2>2. server' = [server EXCEPT ![s] = v]  BY <1>12, Zenon DEF Kill
  <2>3. Moved(s, "exited", "killed")  BY <2>1, <2>2, ServerUpdate
  <2>4. QED  BY <1>12, <2>3, Zenon DEF Kill, Ending, Unlocked
<1>13. CASE SessionEnds(s)
  <2> DEFINE v == [server[s] EXCEPT !.stop = TRUE, !.state = "stopping"]
  <2>1. v \in ServerRecord /\ v.pc = server[s].pc /\ v.code = server[s].code
    BY <1>a DEF ServerRecord, States
  <2>2. server' = [server EXCEPT ![s] = v]  BY <1>13, Zenon DEF SessionEnds
  <2>3. QED  BY <1>13, <2>1, <2>2, ServerUpdate DEF SessionEnds, Ending
<1>14. QED
  BY <1>1, <1>2, <1>3, <1>4, <1>5, <1>6, <1>7, <1>8, <1>9, <1>10, <1>11, <1>12, <1>13
     DEF ServerStep, EndOfInstance


\* The parts of the type that a step of an instance changes.
LEMMA TypeKept ==
    ASSUME TypeOK, NEW s \in Servers, client' = client, faults' \in 0 .. MaxFaults,
           server' \in [Servers -> ServerRecord],
           \/ lock' = lock
           \/ lock' = [lock EXCEPT ![Home[s]] = s]
           \/ lock' = [lock EXCEPT ![Home[s]] = Free],
           \/ file' = file
           \/ file' = [file EXCEPT ![Home[s]] = s]
           \/ file' = [file EXCEPT ![Home[s]] = Nobody],
           port' \in {port, s, Nobody}
    PROVE  TypeOK'
<1>1. lock' \in [Roots -> Processes \cup {Free}]            BY RuntimeAssumption DEF TypeOK, Processes
<1>2. file' \in [Roots -> Servers \cup {Nobody}]            BY RuntimeAssumption DEF TypeOK, Processes
<1>3. port' \in Servers \cup {Nobody}                       BY DEF TypeOK
<1>4. QED  BY <1>1, <1>2, <1>3 DEF TypeOK, ServerRecord

\* The steps before the main loop keep the invariant.
LEMMA StartingKeeps ==
    ASSUME IInv, NEW s \in Servers, Starting(s), client' = client, faults' \in 0 .. MaxFaults
    PROVE  IInv'
<1> USE RuntimeAssumption DEF Starting, Row
<1>1. TypeOK'           BY TypeKept, Zenon DEF IInv, Moved
<1>2. LockOK'
  <2>1. \A p \in Processes : Home[p] \in Roots  OBVIOUS
  <2>2. \A c \in Clients : client'[c].pc = "drop" => lock'[Home[c]] = c
    BY <2>1 DEF IInv, TypeOK, LockOK, Processes
  <2>3. \A t \in Servers \ {s} : server'[t].pc \in Locked => lock'[Home[t]] = t
    BY <2>1 DEF IInv, TypeOK, LockOK, Moved, Processes, Locked
  <2>4. server'[s].pc \in Locked => lock'[Home[s]] = s
    BY <2>1 DEF IInv, TypeOK, LockOK, Moved, Locked, Steps, Processes
  <2>5. QED  BY <2>2, <2>3, <2>4 DEF LockOK
<1>3. PortOK'           BY DEF IInv, TypeOK, PortOK, Moved, AtTheWheel, Processes
<1>4. EndpointIsTrue'   BY DEF IInv, TypeOK, LockOK, EndpointIsTrue, Moved, Locked, Published, Steps, Processes
<1>5. SeenOK'
  <2>1. \A t \in Servers : server[t].pc \in Reached => server'[t].pc \in Reached
    BY DEF Moved, Reached, Steps
  <2>2. \A r \in Roots : file'[r] = file[r] \/ (r = Home[s] /\ file'[r] = s /\ server'[s].pc \in Reached)
    BY DEF IInv, TypeOK, Moved, Reached, Steps, Processes
  <2>3. QED  BY <2>1, <2>2 DEF IInv, TypeOK, SeenOK
<1>6. StoppedOK'        BY DEF IInv, TypeOK, StoppedOK, Moved
<1>7. CleanOK'
  <2>1. ~(server'[s].pc \in {"release", "exited"} /\ server'[s].code = "clean")
    BY DEF Moved
  <2>2. \A t \in Servers \ {s} : file'[Home[t]] = t => file[Home[t]] = t
    BY DEF IInv, TypeOK, Moved, Processes
  <2>3. QED  BY <2>1, <2>2 DEF IInv, CleanOK, Moved
<1>8. QED  BY <1>1, <1>2, <1>3, <1>4, <1>5, <1>6, <1>7 DEF IInv

\* The steps from the main loop on keep the invariant.
LEMMA EndingKeeps ==
    ASSUME IInv, NEW s \in Servers, Ending(s), client' = client, faults' \in 0 .. MaxFaults
    PROVE  IInv'
<1> USE RuntimeAssumption DEF Ending, Row, Unlocked
<1>1. TypeOK'           BY TypeKept, Zenon DEF IInv, Moved
<1>2. LockOK'           BY DEF IInv, TypeOK, LockOK, Moved, Locked, Steps, Processes
<1>3. PortOK'           BY DEF IInv, TypeOK, PortOK, Moved, AtTheWheel, Processes
<1>4. EndpointIsTrue'   BY DEF IInv, TypeOK, LockOK, EndpointIsTrue, Moved, Locked, Published, Steps, Processes
<1>5. SeenOK'
  <2>1. \A t \in Servers : server[t].pc \in Reached => server'[t].pc \in Reached
    BY DEF IInv, TypeOK, Moved, Reached, Steps, Locked
  <2>2. \A r \in Roots : file'[r] = file[r] \/ file'[r] = Nobody
    BY DEF IInv, TypeOK, Processes
  <2>3. QED  BY <2>1, <2>2 DEF IInv, TypeOK, SeenOK
<1>6. StoppedOK'        BY DEF IInv, TypeOK, StoppedOK, Moved, Locked
<1>7. CleanOK'          BY DEF IInv, TypeOK, CleanOK, LockOK, Moved, Locked, Steps, SeenOK, Reached, Processes
<1>8. QED  BY <1>1, <1>2, <1>3, <1>4, <1>5, <1>6, <1>7 DEF IInv

-----------------------------------------------------------------------------
(* What the steps of a command are to the invariant. *)

\* A command that goes on without the lock, and does not say "stopped".
Unlocking(c, v) ==
    /\ client[c].pc # "drop" /\ client[c].pc # "done"
    /\ v.asked \in {client[c].asked, file[Home[c]]}
    /\ v.pc # "drop" /\ v.answer # "stopped"
    /\ v.pc = "ask" => v.target \in Servers
    /\ lock' = lock

\* One that takes the lock.
Taking(c, v) ==
    /\ client[c].pc # "done"
    /\ v.asked = client[c].asked /\ v.pc = "drop" /\ v.answer # "stopped"
    /\ lock[Home[c]] = Free /\ lock' = [lock EXCEPT ![Home[c]] = c]

\* One that releases it.
Dropping(c, v) ==
    /\ client[c].pc # "done"
    /\ v.asked = client[c].asked /\ v.pc = "done"
    /\ \/ lock' = [lock EXCEPT ![Home[c]] = Free]
       \/ client[c].pc # "drop" /\ lock' = lock
    /\ lock' # lock => lock[Home[c]] = c
    /\ v.answer = "stopped" => client[c].pc = "drop"

\* The instances do not notice, but for a stop or a launch.
Noticed(c) ==
    \/ server' = server
    \/ \E s \in Servers : Moved(s, server[s].pc, server[s].code)
    \/ \E s \in Servers : server[s].pc = "new" /\ Moved(s, "acquire", server[s].code)

\* A request to stop leaves an instance where it is.
LEMMA RequestMoves ==
    ASSUME TypeOK, NEW s \in Servers, RequestStop(s)
    PROVE  Moved(s, server[s].pc, server[s].code)
<1> DEFINE v == [server[s] EXCEPT !.stop = TRUE,
                                  !.state = IF server[s].stop THEN server[s].state ELSE "stopping"]
<1>1. v \in ServerRecord /\ v.pc = server[s].pc /\ v.code = server[s].code
  BY DEF TypeOK, ServerRecord, States
<1>2. server' = [server EXCEPT ![s] = v]  BY Zenon DEF RequestStop
<1>3. QED  BY <1>1, <1>2, ServerUpdate

\* A request to an instance that is not one changes nothing.
LEMMA RequestNotices ==
    ASSUME TypeOK, NEW c \in Clients, RequestStop(client[c].asked)
    PROVE  Noticed(c)
<1>1. CASE client[c].asked \in Servers  BY <1>1, RequestMoves DEF Noticed
<1>2. CASE client[c].asked \notin Servers
  BY <1>2 DEF RequestStop, TypeOK, Noticed
<1>3. QED  BY <1>1, <1>2

\* Every step of a command is one of these.
LEMMA ClientTable ==
    ASSUME IInv, NEW c \in Clients, ClientStep(c)
    PROVE  /\ \E v \in ClientRecord :
                  Changed(c, v) /\ (Unlocking(c, v) \/ Taking(c, v) \/ Dropping(c, v))
           /\ Noticed(c)
           /\ UNCHANGED <<file, port>>
           /\ faults' \in 0 .. MaxFaults
<1> DEFINE Goal == \E v \in ClientRecord :
                       Changed(c, v) /\ (Unlocking(c, v) \/ Taking(c, v) \/ Dropping(c, v))
<1>0. TypeOK  BY DEF IInv
<1>a. /\ client[c] \in ClientRecord
      /\ {"idle", "endpoint", "query", "ask", "launch", "child", "probe", "post", "wait", "drop",
          "done"} \subseteq CommandSteps
      /\ {"unknown", "none", "stopped", "unresponsive", "timeout", "error"} \subseteq Answers
      /\ {"first", "polling", "last"} \subseteq Phases
      /\ Home[c] \in Roots /\ file[Home[c]] \in Servers \cup {Nobody}
      /\ client[c].answer = "stopped" => client[c].pc = "done"
  BY <1>0, RuntimeAssumption
     DEF TypeOK, ClientRecord, CommandSteps, Answers, Phases, Processes, IInv, StoppedOK
<1>1. CASE Invoke(c)
  <2>1. PICK name \in Given[c] :
            client' = [client EXCEPT ![c].command = name,
                                     ![c].pc = IF name = "stop" THEN "endpoint" ELSE "query"]
    BY <1>1, Zenon DEF Invoke
  <2> DEFINE v == [client[c] EXCEPT !.command = name, !.pc = IF name = "stop" THEN "endpoint" ELSE "query"]
  <2>2. name \in CommandNames  BY RuntimeAssumption
  <2>3. /\ v \in ClientRecord /\ v.asked = client[c].asked /\ v.pc \in {"endpoint", "query"}
        /\ v.answer = client[c].answer
    BY <1>a, <2>2 DEF ClientRecord
  <2>4. client' = [client EXCEPT ![c] = v]  BY <2>1, Zenon
  <2>5. client[c].pc = "idle" /\ lock' = lock  BY <1>1, Zenon DEF Invoke, OnlyClient
  <2>6. Goal  BY <1>0, <1>a, <2>3, <2>4, <2>5, ClientUpdate DEF Unlocking
  <2>7. QED  BY <1>0, <1>1, <2>6 DEF Invoke, OnlyClient, Noticed, TypeOK
<1>2. CASE ReadEndpoint(c)
  <2> DEFINE q == IF file[Home[c]] = Nobody THEN "probe" ELSE "query"
             v == [client[c] EXCEPT !.asked = file[Home[c]], !.pc = q]
  <2>1. q \in {"probe", "query"}  OBVIOUS
  <2>2. client' = [client EXCEPT ![c] = v]  BY <1>2, Zenon DEF ReadEndpoint
  <2> HIDE DEF q
  <2>3. /\ v \in ClientRecord /\ v.asked = file[Home[c]] /\ v.pc = q
        /\ v.answer = client[c].answer
    BY <1>a, <2>1 DEF ClientRecord
  <2>4. client[c].pc = "endpoint" /\ lock' = lock  BY <1>2, Zenon DEF ReadEndpoint, OnlyClient
  <2>5. Goal  BY <1>0, <1>a, <2>1, <2>2, <2>3, <2>4, ClientUpdate DEF Unlocking
  <2>6. QED  BY <1>0, <1>2, <2>5 DEF ReadEndpoint, OnlyClient, Noticed, TypeOK
<1>3. CASE Query(c) /\ file[Home[c]] # Nobody
  <2> DEFINE v == [client[c] EXCEPT !.pc = "ask", !.target = file[Home[c]]]
  <2>1. /\ v \in ClientRecord /\ v.asked = client[c].asked /\ v.pc = "ask"
        /\ v.answer = client[c].answer /\ v.target = file[Home[c]]
    BY <1>a DEF ClientRecord
  <2>2. client' = [client EXCEPT ![c] = v]  BY <1>3, Zenon DEF Query
  <2>3. client[c].pc = "query" /\ lock' = lock  BY <1>3, Zenon DEF Query, OnlyClient
  <2>4. Goal  BY <1>0, <1>3, <1>a, <2>1, <2>2, <2>3, ClientUpdate DEF Unlocking
  <2>5. QED  BY <1>0, <1>3, <2>4 DEF Query, OnlyClient, Noticed, TypeOK
<1>4. CASE (Query(c) /\ file[Home[c]] = Nobody) \/ Ask(c) \/ AskTimesOut(c)
  <2>1. /\ client[c].pc \in {"query", "ask"} /\ UNCHANGED <<lock, file, port, server>>
        /\ faults' = faults \/ Fault
    BY <1>4, Zenon DEF Query, Ask, AskTimesOut, OnlyClient
  <2>2. PICK reply \in States \cup {"none"} : Replied(c, reply)
    <3>1. CASE Ask(c)
      <4>1. client[c].target \in Servers  BY <1>0, <3>1 DEF Ask, IInv, SeenOK
      <4>2. server[client[c].target].state \in States  BY <1>0, <4>1 DEF TypeOK
      <4>3. QED  BY <3>1, <4>2 DEF Ask
    <3>2. QED  BY <1>4, <3>1 DEF Query, AskTimesOut
  <2>3. Goal  BY <1>0, <1>a, <2>1, <2>2, RepliedChanges DEF Unlocking
  <2>4. QED  BY <1>0, <2>1, <2>3, RuntimeAssumption DEF Noticed, Fault, TypeOK
<1>5. CASE Launch(c)
  <2> DEFINE v == [client[c] EXCEPT !.pc = "query", !.phase = "polling"]
  <2>1. /\ v \in ClientRecord /\ v.asked = client[c].asked /\ v.pc = "query"
        /\ v.answer = client[c].answer
    BY <1>a DEF ClientRecord
  <2>2. client' = [client EXCEPT ![c] = v]  BY <1>5, Zenon DEF Launch
  <2>3. client[c].pc = "launch" /\ UNCHANGED <<lock, file, port, faults>>  BY <1>5, Zenon DEF Launch
  <2>4. Goal  BY <1>0, <1>a, <2>1, <2>2, <2>3, ClientUpdate DEF Unlocking
  <2>5. Child[c] \in Servers /\ "acquire" \in Steps  BY RuntimeAssumption DEF Steps
  <2>6. Noticed(c)  BY <1>0, <1>5, <2>5, GotoMoves DEF Launch, Noticed
  <2>7. QED  BY <1>0, <2>3, <2>4, <2>6 DEF TypeOK
<1>6. CASE CheckChild(c)
  <2> DEFINE v1 == [client[c] EXCEPT !.pc = "query", !.phase = "last"]
             v2 == [client[c] EXCEPT !.pc = "query", !.left = client[c].left - 1]
             v3 == [client[c] EXCEPT !.pc = "done", !.answer = "timeout"]
  <2>1. \/ client' = [client EXCEPT ![c] = v1]
        \/ client' = [client EXCEPT ![c] = v2] /\ client[c].left > 0
        \/ client' = [client EXCEPT ![c] = v3]
    <3>1. CASE server[Child[c]].pc = "exited"  BY <1>6, <3>1, Zenon DEF CheckChild
    <3>2. CASE server[Child[c]].pc # "exited" /\ client[c].left > 0
      BY <1>6, <3>2, Zenon DEF CheckChild
    <3>3. CASE server[Child[c]].pc # "exited" /\ ~(client[c].left > 0)
      BY <1>6, <3>3, Zenon DEF CheckChild
    <3>4. QED  BY <3>1, <3>2, <3>3
  <2>2. /\ v1 \in ClientRecord /\ v1.asked = client[c].asked /\ v1.pc = "query"
        /\ v1.answer = client[c].answer
    BY <1>a DEF ClientRecord
  <2>3. /\ client[c].left > 0 => v2 \in ClientRecord
        /\ v2.asked = client[c].asked /\ v2.pc = "query" /\ v2.answer = client[c].answer
    <3>1. client[c].left > 0 => client[c].left - 1 \in 0 .. Polls
      BY <1>a, RuntimeAssumption DEF ClientRecord
    <3>2. QED  BY <1>a, <3>1 DEF ClientRecord
  <2>4. /\ v3 \in ClientRecord /\ v3.asked = client[c].asked /\ v3.pc = "done"
        /\ v3.answer = "timeout"
    BY <1>a DEF ClientRecord
  <2>5. client[c].pc = "child" /\ UNCHANGED <<lock, file, port, server, faults>>
    BY <1>6, Zenon DEF CheckChild, OnlyClient
  <2> HIDE DEF v1, v2, v3
  <2>6. PICK v \in ClientRecord :
            /\ client' = [client EXCEPT ![c] = v]
            /\ v.asked = client[c].asked /\ v.pc \in {"query", "done"} /\ v.answer # "stopped"
    BY <1>a, <2>1, <2>2, <2>3, <2>4, <2>5
  <2>7. Goal  BY <1>0, <2>5, <2>6, ClientUpdate DEF Unlocking
  <2>8. QED  BY <1>0, <2>5, <2>7 DEF Noticed, TypeOK
<1>7. ASSUME NEW from \in {"post", "wait", "probe"}, NEW what \in {"error", "timeout", "unresponsive"},
             Answer(c, from, what), lock' = lock
      PROVE  Goal
  <2> DEFINE v == [client[c] EXCEPT !.pc = "done", !.answer = what]
  <2>1. client[c].pc = from /\ Changed(c, v)  BY <1>0, <1>7, <1>a, AnswerChanges
  <2>2. v \in ClientRecord /\ v.asked = client[c].asked /\ v.pc = "done" /\ v.answer = what
    BY <1>a, <1>7 DEF ClientRecord
  <2>3. QED  BY <1>7, <2>1, <2>2 DEF Unlocking
<1>8. CASE Post(c) \/ PostTimesOut(c)
  <2>1. UNCHANGED <<lock, file, port>> /\ (faults' = faults \/ Fault)
    BY <1>8, Zenon DEF Post, PostTimesOut
  <2>2. Noticed(c)
    BY <1>0, <1>8, RequestNotices DEF Post, PostTimesOut, Noticed
  <2>3. CASE Move(c, "post", "wait")
    <3> DEFINE v == [client[c] EXCEPT !.pc = "wait"]
    <3>1. client[c].pc = "post" /\ Changed(c, v)  BY <1>0, <1>a, <2>3, MoveChanges
    <3>2. /\ v \in ClientRecord /\ v.asked = client[c].asked /\ v.pc = "wait"
          /\ v.answer = client[c].answer
      BY <1>a DEF ClientRecord
    <3>3. Goal  BY <1>a, <2>1, <3>1, <3>2 DEF Unlocking
    <3>4. QED  BY <1>0, <2>1, <2>2, <3>3, RuntimeAssumption DEF Fault, TypeOK
  <2>4. CASE Answer(c, "post", "error")
    <3>1. Goal  BY <1>7, <2>1, <2>4
    <3>2. QED  BY <1>0, <2>1, <2>2, <3>1, RuntimeAssumption DEF Fault, TypeOK
  <2>5. QED  BY <1>8, <2>3, <2>4 DEF Post, PostTimesOut
<1>9. ASSUME NEW from \in {"wait", "probe"}, TryLock(c, from)
      PROVE  Goal
  <2> DEFINE v == [client[c] EXCEPT !.pc = "drop"]
  <2>1. client[c].pc = from /\ Changed(c, v)  BY <1>0, <1>9, <1>a, MoveChanges DEF TryLock
  <2>2. /\ v \in ClientRecord /\ v.asked = client[c].asked /\ v.pc = "drop"
        /\ v.answer = client[c].answer
    BY <1>a DEF ClientRecord
  <2>3. QED  BY <1>9, <1>a, <2>1, <2>2 DEF Taking, TryLock
<1>10. CASE Probe(c)
  <2>1. Goal  BY <1>7, <1>9, <1>10 DEF Probe, OnlyClient
  <2>2. UNCHANGED <<file, port, server, faults>>  BY <1>10, Zenon DEF Probe, TryLock, OnlyClient
  <2>3. QED  BY <1>0, <2>1, <2>2 DEF Noticed, TypeOK
<1>11. CASE Wait(c)
  <2>1. ASSUME client[c].pc = "wait", client[c].left > 0,
               client' = [client EXCEPT ![c].left = @ - 1],
               OnlyClient
        PROVE  Goal
    <3> DEFINE v == [client[c] EXCEPT !.left = client[c].left - 1]
    <3>0. client[c].left - 1 \in 0 .. Polls
      BY <1>a, <2>1, RuntimeAssumption DEF ClientRecord
    <3>1. /\ v \in ClientRecord /\ v.asked = client[c].asked /\ v.pc = client[c].pc
          /\ v.answer = client[c].answer
      BY <1>a, <3>0 DEF ClientRecord
    <3>2. client' = [client EXCEPT ![c] = v]  BY <2>1, Zenon
    <3>3. lock' = lock /\ client[c].pc = "wait"  BY <2>1 DEF OnlyClient
    <3> HIDE DEF v
    <3>4. QED  BY <1>0, <1>a, <3>1, <3>2, <3>3, ClientUpdate DEF Unlocking
  <2>2. Goal  BY <1>7, <1>9, <1>11, <2>1 DEF Wait, OnlyClient
  <2>3. UNCHANGED <<file, port, server, faults>>  BY <1>11, Zenon DEF Wait, TryLock, OnlyClient
  <2>4. QED  BY <1>0, <2>2, <2>3 DEF Noticed, TypeOK
<1>12. CASE Drop(c)
  <2> DEFINE v == [client[c] EXCEPT !.pc = "done", !.answer = "stopped"]
  <2>1. client[c].pc = "drop" /\ Changed(c, v)  BY <1>0, <1>12, <1>a, AnswerChanges DEF Drop
  <2>2. v \in ClientRecord /\ v.asked = client[c].asked /\ v.pc = "done"
    BY <1>a DEF ClientRecord
  <2>3. lock[Home[c]] = c  BY <2>1 DEF IInv, LockOK
  <2>4. lock' = [lock EXCEPT ![Home[c]] = Free] /\ UNCHANGED <<file, port, server, faults>>
    BY <1>12, Zenon DEF Drop
  <2>5. Goal  BY <2>1, <2>2, <2>3, <2>4 DEF Dropping
  <2>6. QED  BY <1>0, <2>4, <2>5 DEF Noticed, TypeOK
<1>13. CASE KillCommand(c)
  <2> DEFINE v == [client[c] EXCEPT !.pc = "done", !.answer = "error"]
  <2>1. Changed(c, v)  BY <1>0, <1>13, <1>a, AnswerChanges DEF KillCommand
  <2>2. /\ v \in ClientRecord /\ v.asked = client[c].asked /\ v.pc = "done" /\ v.answer = "error"
    BY <1>a DEF ClientRecord
  <2>3. /\ UNCHANGED <<file, port, server>> /\ Fault /\ client[c].pc # "done"
        /\ lock' = IF lock[Home[c]] = c THEN [lock EXCEPT ![Home[c]] = Free] ELSE lock
    BY <1>13, Zenon DEF KillCommand
  <2>4. client[c].pc = "drop" => lock[Home[c]] = c  BY DEF IInv, LockOK
  <2>5. Goal  BY <2>1, <2>2, <2>3, <2>4 DEF Dropping
  <2>6. QED  BY <1>0, <2>3, <2>5, RuntimeAssumption DEF Noticed, Fault, TypeOK
<1>14. QED
  BY <1>1, <1>2, <1>3, <1>4, <1>5, <1>6, <1>8, <1>10, <1>11, <1>12, <1>13
     DEF ClientStep, CommandStep

\* A step of a command keeps the invariant.
LEMMA ClientKeeps ==
    ASSUME IInv, NEW c \in Clients, ClientStep(c)
    PROVE  IInv'
<1>0. /\ TypeOK
      /\ \A p \in Processes : Home[p] \in Roots
      /\ Noticed(c) /\ UNCHANGED <<file, port>> /\ faults' \in 0 .. MaxFaults
  BY ClientTable, RuntimeAssumption DEF IInv
<1>1. PICK v \in ClientRecord :
          Changed(c, v) /\ (Unlocking(c, v) \/ Taking(c, v) \/ Dropping(c, v))
  BY ClientTable
<1>2. \A t \in Servers :
          /\ server'[t].code = server[t].code
          /\ \/ server'[t].pc = server[t].pc
             \/ server[t].pc = "new" /\ server'[t].pc = "acquire"
  BY <1>0 DEF Noticed, Moved
<1>3. TypeOK'
  <2>1. server' \in [Servers -> ServerRecord]  BY <1>0 DEF Noticed, Moved, TypeOK, ServerRecord
  <2>2. lock' \in [Roots -> Processes \cup {Free}]
    BY <1>0, <1>1 DEF TypeOK, Unlocking, Taking, Dropping, Processes
  <2>3. QED  BY <1>0, <1>1, <2>1, <2>2 DEF TypeOK, Changed, ServerRecord, ClientRecord
<1>4. LockOK'
  <2>1. lock' = lock \/ lock[Home[c]] \in {Free, c}
    BY <1>1 DEF Unlocking, Taking, Dropping
  <2>2. \A s \in Servers : server'[s].pc \in Locked => lock'[Home[s]] = s
    <3>1. SUFFICES ASSUME NEW s \in Servers, server'[s].pc \in Locked
                   PROVE  lock'[Home[s]] = s
      OBVIOUS
    <3>2. server[s].pc \in Locked  BY <1>2, <3>1 DEF Locked
    <3>3. lock[Home[s]] = s  BY <3>2 DEF IInv, LockOK
    <3>4. s # c /\ s # Free  BY RuntimeAssumption DEF Processes
    <3>5. lock' = lock \/ Home[s] # Home[c]  BY <2>1, <3>3, <3>4
    <3>6. QED
      BY <1>0, <1>1, <3>3, <3>5 DEF Unlocking, Taking, Dropping, TypeOK, Processes
  <2>3. \A d \in Clients : client'[d].pc = "drop" => lock'[Home[d]] = d
    <3>1. client'[c].pc = "drop" => lock'[Home[c]] = c
      BY <1>0, <1>1 DEF Changed, Unlocking, Taking, Dropping, TypeOK, Processes
    <3>2. SUFFICES ASSUME NEW d \in Clients \ {c}, client'[d].pc = "drop"
                   PROVE  lock'[Home[d]] = d
      BY <3>1
    <3>3. lock[Home[d]] = d  BY <1>1, <3>2 DEF Changed, IInv, LockOK
    <3>4. d # c /\ d # Free  BY RuntimeAssumption DEF Processes
    <3>5. lock' = lock \/ Home[d] # Home[c]  BY <2>1, <3>3, <3>4
    <3>6. QED
      BY <1>0, <1>1, <3>3, <3>5 DEF Unlocking, Taking, Dropping, TypeOK, Processes
  <2>4. QED  BY <2>2, <2>3 DEF LockOK
<1>5. PortOK'          BY <1>0, <1>2 DEF IInv, PortOK, AtTheWheel
<1>6. EndpointIsTrue'  BY <1>0, <1>2 DEF IInv, EndpointIsTrue, Published
<1>7. SeenOK'
  <2>1. \A s \in Servers : server[s].pc \in Reached => server'[s].pc \in Reached
    BY <1>2 DEF Reached
  <2>2. v.asked # Nobody => Home[v.asked] = Home[c] /\ server[v.asked].pc \in Reached
    BY <1>0, <1>1 DEF IInv, SeenOK, TypeOK, Unlocking, Taking, Dropping, Processes
  <2>3. v.pc = "ask" => v.target \in Servers
    BY <1>1 DEF Unlocking, Taking, Dropping
  <2>4. v.asked \in Servers \cup {Nobody}  BY DEF ClientRecord
  <2>5. QED  BY <1>0, <1>1, <2>1, <2>2, <2>3, <2>4 DEF IInv, SeenOK, TypeOK, Changed
<1>8. StoppedOK'
  <2>1. \A s \in Servers : server[s].pc = "exited" => server'[s].pc = "exited"
    BY <1>2
  <2>2. v.answer = "stopped" => v.pc = "done" /\ v.asked = client[c].asked /\ client[c].pc \in {"drop"}
    BY <1>1 DEF Unlocking, Taking, Dropping
  <2>3. CASE v.pc = "drop"
    <3>1. lock[Home[c]] = Free /\ v.asked = client[c].asked
      BY <1>1, <2>3 DEF Unlocking, Taking, Dropping
    <3>2. ASSUME v.asked # Nobody PROVE server[v.asked].pc = "exited"
      <4>1. v.asked \in Servers  BY <3>2 DEF ClientRecord
      <4>2. Home[v.asked] = Home[c] /\ server[v.asked].pc \in Reached
        BY <3>1, <3>2 DEF IInv, SeenOK
      <4>3. server[v.asked].pc \notin Locked
        BY <3>1, <4>1, <4>2, RuntimeAssumption DEF IInv, LockOK, Processes
      <4>4. QED  BY <4>2, <4>3 DEF Reached, Locked, Steps
    <3>3. v.asked # Nobody => v.asked \in Servers /\ server'[v.asked].pc = "exited"
      BY <2>1, <3>2 DEF ClientRecord
    <3>4. \A d \in Clients : client[d].asked # Nobody => client[d].asked \in Servers
      BY <1>0 DEF TypeOK
    <3>5. v.answer # "stopped"  BY <2>2, <2>3
    <3>6. QED  BY <1>1, <2>1, <3>3, <3>4, <3>5 DEF IInv, StoppedOK, Changed
  <2>4. CASE v.pc # "drop"
    <3>1. v.answer = "stopped" /\ v.asked # Nobody => server[v.asked].pc = "exited"
      BY <2>2 DEF IInv, StoppedOK
    <3>2. QED  BY <1>0, <1>1, <2>1, <2>2, <2>4, <3>1 DEF IInv, StoppedOK, Changed, TypeOK, ClientRecord
  <2>5. QED  BY <2>3, <2>4
<1>9. CleanOK'         BY <1>0, <1>2 DEF IInv, CleanOK
<1>10. QED  BY <1>3, <1>4, <1>5, <1>6, <1>7, <1>8, <1>9 DEF IInv

-----------------------------------------------------------------------------
(* The theorems. *)

\* Every step keeps the invariant.
LEMMA NextKeeps == IInv /\ [Next]_vars => IInv'
<1>1. SUFFICES ASSUME IInv, [Next]_vars PROVE IInv'
  OBVIOUS
<1>2. ASSUME NEW s \in Servers, ServerStep(s) PROVE IInv'
  BY <1>1, <1>2, ServerTable, StartingKeeps, EndingKeeps DEF IInv
<1>3. ASSUME NEW c \in Clients, ClientStep(c) PROVE IInv'
  BY <1>1, <1>3, ClientKeeps
<1>4. CASE UNCHANGED vars
  BY <1>1, <1>4 DEF vars, IInv, TypeOK, LockOK, PortOK, EndpointIsTrue, SeenOK, StoppedOK, CleanOK
<1>5. QED  BY <1>1, <1>2, <1>3, <1>4 DEF Next

\* The invariant holds in every state the processes can reach.
THEOREM Invariance == Spec => []IInv
<1>1. QED  BY InitInv, NextKeeps, PTL DEF Spec

\* The state has its type.
THEOREM TypeCorrect == Spec => []TypeOK
<1>1. IInv => TypeOK  BY DEF IInv
<1>2. QED  BY <1>1, Invariance, PTL

\* README.md:97: only one process at a time has a data directory, instances
\* and the probes of stop commands together.
THEOREM OneHolder == Spec => []DirectoryHasOneHolder
<1>1. IInv => DirectoryHasOneHolder
  BY DEF IInv, LockOK, DirectoryHasOneHolder, Holders
<1>2. QED  BY <1>1, Invariance, PTL

\* runtime.json leads to the instance that can be reached.
THEOREM EndpointTrue == Spec => []EndpointIsTrue
<1>1. IInv => EndpointIsTrue  BY DEF IInv
<1>2. QED  BY <1>1, Invariance, PTL

\* An instance that has ended with exit code 0 has left no file behind.
THEOREM CleanExit == Spec => []CleanExitLeavesNoEndpoint
<1>1. IInv => CleanExitLeavesNoEndpoint
  BY DEF IInv, CleanOK, CleanExitLeavesNoEndpoint
<1>2. QED  BY <1>1, Invariance, PTL

\* "stopped" is said only of an instance that has ended.
THEOREM StoppedIsStopped == Spec => []StopMeansStopped
<1>1. IInv => StopMeansStopped
  BY DEF IInv, StoppedOK, StopMeansStopped
<1>2. QED  BY <1>1, Invariance, PTL

-----------------------------------------------------------------------------
(* The lease. *)

owners == {s \in Servers : server[s].pc \in AtTheWheel}
over == {s \in Servers : server[s].pc \in Past}
confirmed == [c \in Clients |->
                 IF client[c].answer = "stopped" THEN client[c].asked ELSE Nobody]

\* A step of an instance takes the wheel, gives it back for good, or does neither.
LEMMA ServerRefines ==
    ASSUME IInv, NEW s \in Servers, Starting(s) \/ Ending(s), client' = client
    PROVE  Lease!Next \/ UNCHANGED Lease!leaseVars
<1>1. confirmed' = confirmed  BY DEF confirmed
<1>2. \A t \in Servers \ {s} : server'[t] = server[t]
  BY Zenon DEF Starting, Ending, Row, Moved
<1>3. CASE server'[s].pc \in Past
  <2>1. owners' = owners \ {s}  BY <1>2, <1>3 DEF owners, Past, AtTheWheel
  <2>2. over' = over \cup {s}  BY <1>2, <1>3 DEF over
  <2>3. Lease!End(s)
    BY <1>1, <2>1, <2>2, Zenon DEF Lease!End, owners, over, confirmed
  <2>4. QED  BY <2>3, Zenon DEF Lease!Next
<1>4. CASE server'[s].pc \notin Past /\ server'[s].pc = "loop" /\ server[s].pc = "bind"
  <2>1. port = Nobody
    BY <1>4 DEF Starting, Ending, Row, Moved
  <2>2. owners = {}  BY <2>1, RuntimeAssumption DEF IInv, PortOK, owners
  <2>3. owners' = {s}  BY <1>2, <1>4, <2>2 DEF owners, AtTheWheel
  <2>4. over' = over /\ s \notin over  BY <1>2, <1>4 DEF over, Past
  <2>5. Lease!Take(s)
    BY <1>1, <2>2, <2>3, <2>4, Zenon DEF Lease!Take, owners, over, confirmed
  <2>6. QED  BY <2>5, Zenon DEF Lease!Next
<1>5. CASE server'[s].pc \notin Past /\ ~(server'[s].pc = "loop" /\ server[s].pc = "bind")
  <2>1. /\ server[s].pc \notin Past
        /\ server'[s].pc \in AtTheWheel <=> server[s].pc \in AtTheWheel
    BY <1>5 DEF Starting, Ending, Row, Moved, Past, AtTheWheel
  <2>2. owners' = owners  BY <1>2, <2>1 DEF owners
  <2>3. over' = over  BY <1>2, <1>5, <2>1 DEF over
  <2>4. QED  BY <1>1, <2>2, <2>3, Zenon DEF Lease!leaseVars, owners, over, confirmed
<1>6. QED  BY <1>3, <1>4, <1>5

\* A step of a command confirms the end of an instance, or does nothing to the lease.
LEMMA ClientRefines ==
    ASSUME IInv, NEW c \in Clients, ClientStep(c)
    PROVE  Lease!Next \/ UNCHANGED Lease!leaseVars
<1>1. PICK v \in ClientRecord :
          Changed(c, v) /\ (Unlocking(c, v) \/ Taking(c, v) \/ Dropping(c, v))
  BY ClientTable
<1>2. \A t \in Servers :
          \/ server'[t].pc = server[t].pc
          \/ server[t].pc = "new" /\ server'[t].pc = "acquire"
  BY ClientTable DEF Noticed, Moved
<1>3. owners' = owners /\ over' = over  BY <1>2 DEF owners, over, AtTheWheel, Past
<1>4. client[c].answer # "stopped"
  BY <1>1 DEF Unlocking, Taking, Dropping, IInv, StoppedOK
<1>5. CASE v.answer = "stopped"
  <2>1. v.asked = client[c].asked /\ client[c].pc = "drop"
    BY <1>1, <1>5 DEF Unlocking, Taking, Dropping
  <2>2. confirmed' = [confirmed EXCEPT ![c] = v.asked]
    BY <1>1, <1>5 DEF confirmed, Changed
  <2>3. CASE v.asked = Nobody
    <3>1. confirmed' = confirmed  BY <1>4, <2>2, <2>3 DEF confirmed
    <3>2. QED  BY <1>3, <3>1, Zenon DEF Lease!leaseVars, owners, over, confirmed
  <2>4. CASE v.asked # Nobody
    <3>1. v.asked \in Servers /\ server[v.asked].pc = "exited"
      BY <2>1, <2>4 DEF ClientRecord, IInv, StoppedOK
    <3>2. v.asked \in over  BY <3>1 DEF over, Past
    <3>3. Lease!Confirm(c, v.asked)
      BY <1>3, <2>2, <3>2, Zenon DEF Lease!Confirm, owners, over, confirmed
    <3>4. QED  BY <3>1, <3>3, Zenon DEF Lease!Next
  <2>5. QED  BY <2>3, <2>4
<1>6. CASE v.answer # "stopped"
  <2>1. confirmed' = confirmed
    BY <1>1, <1>4, <1>6 DEF confirmed, Changed
  <2>2. QED  BY <1>3, <2>1, Zenon DEF Lease!leaseVars, owners, over, confirmed
<1>7. QED  BY <1>5, <1>6

\* The processes of all data directories together implement WheelLease: the
\* wheel has one owner at a time, an instance has it once, and a stop command
\* confirms only what is over.
THEOREM RuntimeImplementsLease == Spec => LeaseSpec
<1>1. Init => Lease!Init
  BY DEF Init, Lease!Init, AtTheWheel, Past, Idle
<1>2. IInv /\ [Next]_vars => [Lease!Next]_(Lease!leaseVars)
  <2>1. SUFFICES ASSUME IInv, [Next]_vars
                 PROVE  Lease!Next \/ UNCHANGED Lease!leaseVars
    OBVIOUS
  <2>2. ASSUME NEW s \in Servers, ServerStep(s) PROVE Lease!Next \/ UNCHANGED Lease!leaseVars
    BY <2>1, <2>2, ServerTable, ServerRefines DEF IInv
  <2>3. ASSUME NEW c \in Clients, ClientStep(c) PROVE Lease!Next \/ UNCHANGED Lease!leaseVars
    BY <2>1, <2>3, ClientRefines
  <2>4. CASE UNCHANGED vars
    BY <2>4 DEF vars, Lease!leaseVars
  <2>5. QED  BY <2>1, <2>2, <2>3, <2>4 DEF Next
<1>3. QED  BY <1>1, <1>2, Invariance, PTL DEF Spec, LeaseSpec, Lease!Spec

-----------------------------------------------------------------------------
(* The end of a command. *)

\* The steps that are left of a command at each place it can be at in each phase, at most, as far
\* as no poll is repeated.
AheadIn ==
    [first   |-> [idle |-> 10, endpoint |-> 9, query |-> 8, ask |-> 7, launch |-> 6, post |-> 3,
                  wait |-> 2, probe |-> 2, drop |-> 1, done |-> 0],
     polling |-> [query |-> 5, ask |-> 4, child |-> 3, done |-> 0],
     last    |-> [query |-> 2, ask |-> 1, done |-> 0]]

\* A poll is three steps: the file, the instance, the child.
Ahead(k) == 3 * k.left + AheadIn[k.phase][k.pc]

\* Where a command can be in its phase; only start launches and leaves the first phase.
PlaceOK(k) ==
    /\ k.pc \in DOMAIN AheadIn[k.phase]
    /\ k.phase # "first" \/ k.pc = "launch" => k.command = "start"

PlacesOK == \A c \in Clients : PlaceOK(client[c])

\* g25_runtime.py:355, :383 (`while time.monotonic() < deadline`): every step of a command brings its
\* answer nearer, the repeated polls included, no step of another process takes it away again, and
\* an answer that is given stays.
EachStepNearsTheAnswer ==
    [][\A c \in Clients :
           /\ Ahead(client[c]) \in 0 .. 3 * Polls + 10
           /\ IF ClientStep(c) THEN Ahead(client'[c]) < Ahead(client[c])
                               ELSE client'[c] = client[c]
           /\ client[c].pc = "done" => client'[c] = client[c]]_vars

\* What comes after k keeps to the places and is nearer to the answer.
Nearer(k, v) == PlaceOK(v) /\ Ahead(v) < Ahead(k)

\* The measure at each place.
LEMMA AheadAt ==
    ASSUME NEW k \in ClientRecord, PlaceOK(k)
    PROVE  /\ AheadIn[k.phase][k.pc] \in 0 .. 10
           /\ k.pc = "done" <=> AheadIn[k.phase][k.pc] = 0
BY DEF ClientRecord, Phases, PlaceOK, AheadIn

\* A command that is at a place of its phase is never further away than the bound.
LEMMA AheadBound ==
    ASSUME Polls \in Nat, NEW k \in ClientRecord, PlaceOK(k)
    PROVE  Ahead(k) \in 0 .. 3 * Polls + 10
<1>1. AheadIn[k.phase][k.pc] \in 0 .. 10  BY AheadAt
<1>2. k.left \in 0 .. Polls  BY DEF ClientRecord
<1>3. QED  BY <1>1, <1>2 DEF Ahead

\* To be answered is nearer than anything else.
LEMMA DoneIsNearer ==
    ASSUME NEW k \in ClientRecord, PlaceOK(k), k.pc # "done",
           NEW v, v.pc = "done", v.phase = k.phase, v.left = k.left, v.command = k.command
    PROVE  Nearer(k, v)
<1>1. AheadIn[k.phase][k.pc] \in 1 .. 10  BY AheadAt
<1>2. k.left \in 0 .. Polls /\ k.phase \in Phases  BY DEF ClientRecord
<1>3. PlaceOK(v) /\ AheadIn[v.phase][v.pc] = 0  BY <1>2 DEF Phases, PlaceOK, AheadIn
<1>4. QED  BY <1>1, <1>2, <1>3, RuntimeAssumption DEF Nearer, Ahead

\* The ways on within a phase.
LEMMA OnIsNearer ==
    ASSUME NEW k \in ClientRecord, PlaceOK(k),
           NEW v, v.phase = k.phase, v.left = k.left,
           k.phase = "first" \/ v.command = k.command,
           v.pc = "launch" => v.command = "start",
           \/ k.pc = "idle" /\ v.pc \in {"endpoint", "query"}
           \/ k.pc = "endpoint" /\ v.pc \in {"probe", "query"}
           \/ k.pc = "query" /\ v.pc = "ask"
           \/ k.pc \in {"query", "ask"} /\ v.pc \in {"probe", "post", "launch"} /\ k.phase = "first"
           \/ k.pc \in {"query", "ask"} /\ v.pc = "child" /\ k.phase = "polling"
           \/ k.pc = "post" /\ v.pc = "wait"
           \/ k.pc \in {"probe", "wait"} /\ v.pc = "drop"
    PROVE  Nearer(k, v)
<1>1. k.left \in 0 .. Polls /\ k.phase \in Phases  BY DEF ClientRecord
<1>2. PlaceOK(v) /\ AheadIn[v.phase][v.pc] < AheadIn[k.phase][k.pc]
  <2>1. CASE k.phase = "first"  BY <2>1 DEF PlaceOK, AheadIn
  <2>2. CASE k.phase = "polling"  BY <2>2 DEF PlaceOK, AheadIn
  <2>3. CASE k.phase = "last"  BY <2>3 DEF PlaceOK, AheadIn
  <2>4. QED  BY <1>1, <2>1, <2>2, <2>3 DEF Phases
<1>3. AheadIn[v.phase][v.pc] \in Nat /\ AheadIn[k.phase][k.pc] \in Nat
  BY <1>1, <1>2 DEF Phases, PlaceOK, AheadIn
<1>4. QED  BY <1>1, <1>2, <1>3, RuntimeAssumption DEF Nearer, Ahead

\* The ways from a phase into the next, and the waits.
LEMMA PollIsNearer ==
    ASSUME NEW k \in ClientRecord, PlaceOK(k), NEW v, v.command = k.command,
           \/ /\ k.pc = "launch" /\ v.pc = "query" /\ v.phase = "polling" /\ v.left = k.left
              /\ k.command = "start"
           \/ /\ k.pc = "child" /\ v.pc = "query" /\ v.phase = "last" /\ v.left = k.left
           \/ /\ k.pc = "child" /\ v.pc = "query" /\ v.phase = k.phase /\ v.left = k.left - 1
           \/ /\ k.pc = "wait" /\ v.pc = "wait" /\ v.phase = k.phase /\ v.left = k.left - 1
    PROVE  Nearer(k, v)
<1>1. k.left \in 0 .. Polls /\ k.phase \in Phases  BY DEF ClientRecord
<1>2. CASE k.pc = "launch"
  <2>1. k.phase = "first"  BY <1>1, <1>2 DEF Phases, PlaceOK, AheadIn
  <2>2. QED  BY <1>1, <1>2, <2>1, RuntimeAssumption DEF Nearer, Ahead, PlaceOK, AheadIn
<1>3. CASE k.pc = "child"
  <2>1. k.phase = "polling"  BY <1>1, <1>3 DEF Phases, PlaceOK, AheadIn
  <2>2. QED  BY <1>1, <1>3, <2>1, RuntimeAssumption DEF Nearer, Ahead, PlaceOK, AheadIn
<1>4. CASE k.pc = "wait"
  <2>1. k.phase = "first"  BY <1>1, <1>4 DEF Phases, PlaceOK, AheadIn
  <2>2. QED  BY <1>1, <1>4, <2>1, RuntimeAssumption DEF Nearer, Ahead, PlaceOK, AheadIn
<1>5. QED  BY <1>2, <1>3, <1>4

\* The rest of a status query.
LEMMA RepliedNears ==
    ASSUME TypeOK, NEW c \in Clients, PlaceOK(client[c]), NEW reply, Replied(c, reply),
           client[c].pc \in {"query", "ask"}
    PROVE  Nearer(client[c], client'[c])
<1> DEFINE k == client[c]  v == client'[c]
<1>1. k \in ClientRecord /\ k.phase \in Phases /\ k.command \in CommandNames
  BY DEF TypeOK, ClientRecord
<1>2. /\ v.pc = After(c, reply)
      /\ v.phase = k.phase /\ v.left = k.left /\ v.command = k.command
  BY DEF TypeOK, Replied
<1>3. CASE k.phase = "first"
  <2>1. After(c, reply) \in {"done", "probe", "post", "launch"}
    BY <1>1, <1>3 DEF After, Satisfied, CommandNames
  <2>2. After(c, reply) = "launch" => k.command = "start"
    BY <1>1, <1>3 DEF After, Satisfied, CommandNames
  <2>3. QED  BY <1>1, <1>2, <1>3, <2>1, <2>2, DoneIsNearer, OnIsNearer
<1>4. CASE k.phase = "polling"
  <2>1. After(c, reply) \in {"done", "child"}
    BY <1>4 DEF After, Satisfied, PlaceOK
  <2>2. QED  BY <1>1, <1>2, <1>4, <2>1, DoneIsNearer, OnIsNearer
<1>5. CASE k.phase = "last"
  <2>1. After(c, reply) = "done"  BY <1>5 DEF After, Satisfied, PlaceOK
  <2>2. QED  BY <1>1, <1>2, <2>1, DoneIsNearer
<1>6. QED  BY <1>1, <1>3, <1>4, <1>5 DEF Phases

\* An answer ends the command.
LEMMA AnswerNears ==
    ASSUME TypeOK, NEW c \in Clients, PlaceOK(client[c]), NEW from, NEW what,
           Answer(c, from, what), client[c].pc # "done"
    PROVE  Nearer(client[c], client'[c])
<1>1. client[c] \in ClientRecord  BY DEF TypeOK, ClientRecord
<1>2. /\ client'[c].pc = "done" /\ client'[c].phase = client[c].phase
      /\ client'[c].left = client[c].left /\ client'[c].command = client[c].command
  BY DEF TypeOK, Answer
<1>3. QED  BY <1>1, <1>2, DoneIsNearer

\* A command that only goes on.
LEMMA MoveNears ==
    ASSUME TypeOK, NEW c \in Clients, PlaceOK(client[c]), NEW from, NEW to, Move(c, from, to),
           \/ from = "post" /\ to = "wait"
           \/ from \in {"probe", "wait"} /\ to = "drop"
    PROVE  Nearer(client[c], client'[c])
<1>1. client[c] \in ClientRecord  BY DEF TypeOK, ClientRecord
<1>2. /\ client[c].pc = from
      /\ client'[c].pc = to /\ client'[c].phase = client[c].phase
      /\ client'[c].left = client[c].left /\ client'[c].command = client[c].command
  BY DEF TypeOK, Move
<1>3. QED  BY <1>1, <1>2, OnIsNearer

\* Every step of a command, also one that fails, is one towards its answer.
LEMMA StepNears ==
    ASSUME TypeOK, NEW c \in Clients, PlaceOK(client[c]), ClientStep(c)
    PROVE  client[c].pc # "done" /\ Nearer(client[c], client'[c])
<1> DEFINE k == client[c]  v == client'[c]
           Goal == k.pc # "done" /\ Nearer(k, v)
<1>0. k \in ClientRecord  BY DEF TypeOK, ClientRecord
<1>1. CASE Invoke(c)
  <2>1. /\ k.pc = "idle" /\ v.pc \in {"endpoint", "query"}
        /\ v.phase = k.phase /\ v.left = k.left
    BY <1>1 DEF Invoke, TypeOK
  <2>2. k.phase = "first"  BY <1>0, <2>1 DEF ClientRecord, Phases, PlaceOK, AheadIn
  <2>3. QED  BY <1>0, <2>1, <2>2, OnIsNearer
<1>2. CASE ReadEndpoint(c)
  <2>1. /\ k.pc = "endpoint" /\ v.pc \in {"probe", "query"}
        /\ v.phase = k.phase /\ v.left = k.left /\ v.command = k.command
    BY <1>2 DEF ReadEndpoint, TypeOK
  <2>2. QED  BY <1>0, <2>1, OnIsNearer
<1>3. CASE Query(c) /\ file[Home[c]] # Nobody
  <2>1. /\ k.pc = "query" /\ v.pc = "ask"
        /\ v.phase = k.phase /\ v.left = k.left /\ v.command = k.command
    BY <1>3 DEF Query, TypeOK
  <2>2. QED  BY <1>0, <2>1, OnIsNearer
<1>4. CASE (Query(c) /\ file[Home[c]] = Nobody) \/ Ask(c) \/ AskTimesOut(c)
  <2>1. k.pc \in {"query", "ask"} /\ \E reply : Replied(c, reply)
    BY <1>4, Zenon DEF Query, Ask, AskTimesOut
  <2>2. QED  BY <2>1, RepliedNears
<1>5. CASE Launch(c)
  <2>1. /\ k.pc = "launch" /\ v.pc = "query" /\ v.phase = "polling"
        /\ v.left = k.left /\ v.command = k.command
    BY <1>5 DEF Launch, TypeOK
  <2>2. k.command = "start"  BY <2>1 DEF PlaceOK
  <2>3. QED  BY <1>0, <2>1, <2>2, PollIsNearer
<1>6. CASE CheckChild(c)
  <2>1. k.pc = "child"  BY <1>6 DEF CheckChild
  <2>2. \/ /\ v.pc = "query" /\ v.phase = "last"
           /\ v.left = k.left /\ v.command = k.command
        \/ /\ v.pc = "query" /\ v.phase = k.phase
           /\ v.left = k.left - 1 /\ v.command = k.command
        \/ /\ v.pc = "done" /\ v.phase = k.phase
           /\ v.left = k.left /\ v.command = k.command
    BY <1>6 DEF CheckChild, TypeOK
  <2>3. QED  BY <1>0, <2>1, <2>2, PollIsNearer, DoneIsNearer
<1>7. CASE Post(c) \/ PostTimesOut(c)
  <2>1. k.pc = "post" /\ (Move(c, "post", "wait") \/ Answer(c, "post", "error"))
    BY <1>7, Zenon DEF Post, PostTimesOut, Move, Answer
  <2>2. QED  BY <2>1, MoveNears, AnswerNears
<1>8. CASE Probe(c)
  <2>1. \/ Move(c, "probe", "drop")
        \/ Answer(c, "probe", "unresponsive") /\ k.pc = "probe"
    BY <1>8, Zenon DEF Probe, TryLock, Answer
  <2>2. QED  BY <2>1, MoveNears, AnswerNears DEF Move
<1>9. CASE Wait(c)
  <2>1. CASE TryLock(c, "wait")
    BY <2>1, MoveNears DEF TryLock, Move
  <2>2. CASE k.pc = "wait" /\ client' = [client EXCEPT ![c].left = @ - 1]
    <3>1. /\ v.pc = "wait" /\ v.phase = k.phase /\ v.left = k.left - 1 /\ v.command = k.command
      BY <2>2 DEF TypeOK
    <3>2. QED  BY <1>0, <2>2, <3>1, PollIsNearer
  <2>3. CASE Answer(c, "wait", "timeout")
    BY <2>3, AnswerNears DEF Answer
  <2>4. QED  BY <1>9, <2>1, <2>2, <2>3, Zenon DEF Wait
<1>10. CASE Drop(c)
  BY <1>10, AnswerNears DEF Drop, Answer
<1>11. CASE KillCommand(c)
  BY <1>11, AnswerNears DEF KillCommand
<1>12. QED
  BY <1>1, <1>2, <1>3, <1>4, <1>5, <1>6, <1>7, <1>8, <1>9, <1>10, <1>11
     DEF ClientStep, CommandStep

\* No step of another process moves a command.
LEMMA OthersStay ==
    ASSUME IInv, [Next]_vars, NEW c \in Clients, ~ClientStep(c)
    PROVE  client'[c] = client[c]
<1>1. ASSUME NEW s \in Servers, ServerStep(s) PROVE client' = client
  BY <1>1, ServerTable DEF IInv
<1>2. ASSUME NEW d \in Clients, ClientStep(d) PROVE client'[c] = client[c]
  <2>1. PICK v \in ClientRecord : Changed(d, v)  BY <1>2, ClientTable
  <2>2. c # d  BY <1>2
  <2>3. QED  BY <2>1, <2>2 DEF Changed
<1>3. QED  BY <1>1, <1>2 DEF Next, vars

\* Every command stays at a place of its phase.
LEMMA PlacesKept == IInv /\ PlacesOK /\ [Next]_vars => PlacesOK'
<1>1. SUFFICES ASSUME IInv, PlacesOK, [Next]_vars, NEW c \in Clients PROVE PlaceOK(client'[c])
  BY DEF PlacesOK, PlaceOK
<1>2. TypeOK /\ PlaceOK(client[c])  BY <1>1 DEF IInv, PlacesOK
<1>3. CASE ClientStep(c)  BY <1>2, <1>3, StepNears DEF Nearer
<1>4. CASE ~ClientStep(c)
  <2>1. client'[c] = client[c]  BY <1>1, <1>4, OthersStay
  <2>2. QED  BY <1>2, <2>1
<1>5. QED  BY <1>3, <1>4

\* g25_runtime.py:355, :383: however the instances, the other commands and the faults come between,
\* a command that is given is at most 3 * Polls + 10 steps of its own away from its answer.
THEOREM AnswerIsNear == Spec => EachStepNearsTheAnswer
<1> DEFINE Nears(c) ==
        /\ Ahead(client[c]) \in 0 .. 3 * Polls + 10
        /\ IF ClientStep(c) THEN Ahead(client'[c]) < Ahead(client[c])
                            ELSE client'[c] = client[c]
        /\ client[c].pc = "done" => client'[c] = client[c]
<1>1. Init => PlacesOK  BY DEF Init, Idle, PlacesOK, PlaceOK, AheadIn
<1>2. IInv /\ PlacesOK /\ [Next]_vars => \A c \in Clients : Nears(c)
  <2>1. SUFFICES ASSUME IInv, PlacesOK, [Next]_vars, NEW c \in Clients PROVE Nears(c)
    OBVIOUS
  <2>2. TypeOK /\ PlaceOK(client[c]) /\ client[c] \in ClientRecord
    BY <2>1 DEF IInv, PlacesOK, TypeOK, ClientRecord
  <2>3. Ahead(client[c]) \in 0 .. 3 * Polls + 10  BY <2>2, RuntimeAssumption, AheadBound
  <2>4. CASE ClientStep(c)  BY <2>2, <2>3, <2>4, StepNears, Zenon DEF Nearer
  <2>5. CASE ~ClientStep(c)  BY <2>1, <2>3, <2>5, OthersStay, Zenon
  <2>6. QED  BY <2>4, <2>5
<1>3. QED
  BY <1>1, <1>2, PlacesKept, Invariance, PTL DEF Spec, EachStepNearsTheAnswer

-----------------------------------------------------------------------------
(* The end of an instance. *)

\* The steps that are left of an instance.
LeftAt == [new |-> 10, acquire |-> 9, publish |-> 8, bind |-> 7, loop |-> 6, neutralise |-> 5,
           sockets |-> 4, shutdown |-> 3, unpublish |-> 2, release |-> 1, exited |-> 0]

\* Only a stop posts and waits, and from its first reading on it has an instance.
AskOK(c) ==
    /\ client[c].pc \in {"post", "wait"} => client[c].command = "stop"
    /\ client[c].command = "stop" /\ client[c].pc \in {"query", "ask", "post", "wait"} =>
           client[c].asked \in Servers
    /\ client[c].pc = "wait" => server[client[c].asked].stop

AskedOK == \A c \in Clients : AskOK(c)

\* g25_runtime.py:353 (`control_request(endpoint, "stop")`) and :196 (request_stop): a command that
\* waits has had its request accepted by the instance it names, a request is never taken back, no
\* step sends an instance back, and each of those that end it brings the end nearer.
AcceptedStopsStay ==
    [][/\ \A c \in Clients : client[c].pc = "wait" =>
              client[c].asked \in Servers /\ server[client[c].asked].stop
       /\ \A s \in Servers :
              /\ server[s].stop => server'[s].stop
              /\ LeftAt[server'[s].pc] \in 0 .. LeftAt[server[s].pc]
              /\ EndOfInstance(s) => LeftAt[server'[s].pc] < LeftAt[server[s].pc]]_vars

\* An instance goes on and keeps a request.
Onward(s) ==
    /\ server[s].stop => server'[s].stop
    /\ LeftAt[server'[s].pc] \in 0 .. LeftAt[server[s].pc]

\* Where nothing happens to an instance it has not been sent back.
LEMMA StillOnward ==
    ASSUME TypeOK, NEW s \in Servers, server'[s] = server[s]
    PROVE  Onward(s)
<1>1. server[s].pc \in Steps  BY DEF TypeOK
<1>2. LeftAt[server[s].pc] \in 0 .. LeftAt[server[s].pc]  BY <1>1 DEF Steps, LeftAt
<1>3. QED  BY <1>2 DEF Onward

\* The steps of an instance.
LEMMA ServerOnward ==
    ASSUME TypeOK, NEW s \in Servers, ServerStep(s)
    PROVE  /\ Onward(s)
           /\ \A t \in Servers \ {s} : server'[t] = server[t]
           /\ EndOfInstance(s) => LeftAt[server'[s].pc] < LeftAt[server[s].pc]
<1>1. server[s].pc \in Steps  BY DEF TypeOK
<1>2. CASE Run(s)
  BY <1>1, <1>2 DEF Run, Goto, EndOfInstance, LeaveLoop, Neutralise, CloseSockets, Shutdown,
     Unpublish, Release, TypeOK, Onward, LeftAt
<1>3. CASE BadSettings(s) \/ Acquire(s)
  BY <1>1, <1>3 DEF BadSettings, Acquire, Goto, Fail, EndOfInstance, LeaveLoop, Neutralise,
     CloseSockets, Shutdown, Unpublish, Release, TypeOK, Onward, LeftAt
<1>4. CASE Publish(s) \/ PublishFails(s) \/ Bind(s)
  BY <1>1, <1>4 DEF Publish, PublishFails, Bind, Goto, Fail, EndOfInstance, LeaveLoop, Neutralise,
     CloseSockets, Shutdown, Unpublish, Release, TypeOK, Onward, LeftAt
<1>5. CASE Report(s) \/ Crash(s) \/ SessionEnds(s)
  BY <1>1, <1>5 DEF Report, Crash, SessionEnds, EndOfInstance, LeaveLoop, Neutralise,
     CloseSockets, Shutdown, Unpublish, Release, Goto, TypeOK, Onward, LeftAt
<1>6. CASE UnpublishFails(s)
  BY <1>1, <1>6 DEF UnpublishFails, Fail, EndOfInstance, LeaveLoop, Neutralise,
     CloseSockets, Shutdown, Unpublish, Release, Goto, TypeOK, Onward, LeftAt
<1>7. CASE Kill(s)
  <2>1. LeftAt["exited"] = 0 /\ LeftAt[server[s].pc] \in 1 .. 9
    BY <1>1, <1>7 DEF Kill, Locked, Steps, LeftAt
  <2>2. /\ server'[s].pc = "exited" /\ server'[s].stop = server[s].stop
        /\ \A t \in Servers \ {s} : server'[t] = server[t]
    BY <1>7 DEF Kill, TypeOK
  <2>3. QED  BY <2>1, <2>2 DEF Onward
<1>8. CASE EndOfInstance(s)
  BY <1>8 DEF EndOfInstance, LeaveLoop, Neutralise, CloseSockets, Shutdown, Unpublish, Release,
     Goto, TypeOK, Onward, LeftAt
<1>9. QED  BY <1>2, <1>3, <1>4, <1>5, <1>6, <1>7, <1>8, Zenon DEF ServerStep

\* The two things a command does to an instance: it launches it or asks it to stop.
LEMMA CommandOnward ==
    ASSUME TypeOK, NEW c \in Clients, ClientStep(c), client[c].pc = "post" => client[c].asked \in Servers,
           NEW s \in Servers
    PROVE  Onward(s) /\ (EndOfInstance(s) => LeftAt[server'[s].pc] < LeftAt[server[s].pc])
<1>1. server[s].pc \in Steps /\ Child[c] \in Servers  BY RuntimeAssumption DEF TypeOK
<1>2. CASE server' = server
  <2>1. ~EndOfInstance(s)
    BY <1>2 DEF EndOfInstance, LeaveLoop, Neutralise, CloseSockets, Shutdown, Unpublish, Release,
       Goto, TypeOK
  <2>2. QED  BY <1>2, <2>1, StillOnward
<1>3. CASE Launch(c)
  <2>1. ~EndOfInstance(s)
    BY <1>1, <1>3 DEF Launch, EndOfInstance, LeaveLoop, Neutralise, CloseSockets, Shutdown, Unpublish,
       Release, Goto, TypeOK
  <2>2. CASE s = Child[c]  BY <1>3, <2>1, <2>2 DEF Launch, Goto, TypeOK, Onward, LeftAt
  <2>3. CASE s # Child[c]
    <3>1. server'[s] = server[s]  BY <1>3, <2>3 DEF Launch, Goto, TypeOK
    <3>2. QED  BY <2>1, <3>1, StillOnward
  <2>4. QED  BY <2>2, <2>3
<1>4. CASE client[c].pc = "post" /\ RequestStop(client[c].asked)
  <2>1. server'[s].pc = server[s].pc /\ (server[s].stop => server'[s].stop)
    BY <1>4 DEF RequestStop, TypeOK
  <2>2. ~EndOfInstance(s)
    BY <1>1, <2>1 DEF EndOfInstance, LeaveLoop, Neutralise, CloseSockets, Shutdown, Unpublish,
       Release, Goto, TypeOK
  <2>3. LeftAt[server[s].pc] \in 0 .. LeftAt[server[s].pc]  BY <1>1 DEF Steps, LeftAt
  <2>4. QED  BY <2>1, <2>2, <2>3 DEF Onward
<1>5. server' = server \/ Launch(c) \/ (client[c].pc = "post" /\ RequestStop(client[c].asked))
  BY Zenon DEF ClientStep, CommandStep, Invoke, ReadEndpoint, Query, Ask, CheckChild, Probe, TryLock,
     Wait, Drop, Post, Move, Answer, AskTimesOut, PostTimesOut, KillCommand, OnlyClient
<1>6. QED  BY <1>2, <1>3, <1>4, <1>5

\* Every step keeps what is asked for, and sends nobody back.
LEMMA NextOnward ==
    ASSUME IInv, AskedOK, [Next]_vars, NEW s \in Servers
    PROVE  Onward(s) /\ (EndOfInstance(s) => LeftAt[server'[s].pc] < LeftAt[server[s].pc])
<1>0. TypeOK  BY DEF IInv
<1>1. CASE server'[s] = server[s]
  <2>1. ~EndOfInstance(s)
    BY <1>0, <1>1 DEF EndOfInstance, LeaveLoop, Neutralise, CloseSockets, Shutdown, Unpublish,
       Release, Goto, TypeOK
  <2>2. QED  BY <1>0, <1>1, <2>1, StillOnward
<1>2. ASSUME NEW t \in Servers, ServerStep(t), server'[s] # server[s]
      PROVE  Onward(s) /\ (EndOfInstance(s) => LeftAt[server'[s].pc] < LeftAt[server[s].pc])
  <2>1. s = t  BY <1>0, <1>2, ServerOnward
  <2>2. QED  BY <1>0, <1>2, <2>1, ServerOnward
<1>3. ASSUME NEW c \in Clients, ClientStep(c)
      PROVE  Onward(s) /\ (EndOfInstance(s) => LeftAt[server'[s].pc] < LeftAt[server[s].pc])
  <2>1. client[c].pc = "post" => client[c].asked \in Servers  BY DEF AskedOK, AskOK
  <2>2. QED  BY <1>0, <1>3, <2>1, CommandOnward
<1>4. UNCHANGED vars => server'[s] = server[s]  BY DEF vars
<1>5. QED  BY <1>1, <1>2, <1>3, <1>4 DEF Next

\* The rest of a status query keeps whom the command found.
LEMMA RepliedAsks ==
    ASSUME TypeOK, NEW c \in Clients, AskOK(c), NEW reply, Replied(c, reply),
           client[c].pc \in {"query", "ask"}
    PROVE  AskOK(c)'
<1>1. /\ client'[c].pc = After(c, reply)
      /\ client'[c].command = client[c].command /\ client'[c].asked = client[c].asked
  BY DEF TypeOK, Replied
<1>2. After(c, reply) \in {"done", "probe", "post", "launch", "child"}  BY DEF After
<1>3. After(c, reply) = "post" => client[c].command = "stop"  BY DEF After
<1>4. QED  BY <1>1, <1>2, <1>3 DEF AskOK

\* The command that takes a step.
LEMMA StepAsks ==
    ASSUME TypeOK, NEW c \in Clients, AskOK(c), PlaceOK(client[c]), ClientStep(c),
           \A s \in Servers : Onward(s)
    PROVE  AskOK(c)'
<1> DEFINE k == client[c]  v == client'[c]
<1>1. CASE Invoke(c)
  <2>1. v.pc = "endpoint" \/ (v.pc = "query" /\ v.command # "stop")
    BY <1>1 DEF Invoke, TypeOK
  <2>2. QED  BY <2>1 DEF AskOK
<1>2. CASE ReadEndpoint(c)
  <2>1. v.pc = "probe" \/ (v.pc = "query" /\ v.asked \in Servers)
    BY <1>2, RuntimeAssumption DEF ReadEndpoint, TypeOK, Processes
  <2>2. QED  BY <2>1 DEF AskOK
<1>3. CASE Query(c) /\ file[Home[c]] # Nobody
  <2>1. k.pc = "query" /\ v.pc = "ask" /\ v.asked = k.asked /\ v.command = k.command
    BY <1>3 DEF Query, TypeOK
  <2>2. QED  BY <2>1 DEF AskOK
<1>4. CASE (Query(c) /\ file[Home[c]] = Nobody) \/ Ask(c) \/ AskTimesOut(c)
  <2>1. k.pc \in {"query", "ask"} /\ \E reply : Replied(c, reply)
    BY <1>4, Zenon DEF Query, Ask, AskTimesOut
  <2>2. QED  BY <2>1, RepliedAsks
<1>5. CASE Launch(c)
  <2>1. v.pc = "query" /\ v.command = "start"
    BY <1>5 DEF Launch, TypeOK, PlaceOK
  <2>2. QED  BY <2>1 DEF AskOK
<1>6. CASE CheckChild(c)
  <2>1. k.pc = "child" /\ k.phase # "first"
    BY <1>6 DEF CheckChild, TypeOK, Phases, PlaceOK, AheadIn
  <2>2. v.pc \in {"query", "done"} /\ v.command = "start"
    BY <1>6, <2>1 DEF CheckChild, TypeOK, PlaceOK
  <2>3. QED  BY <2>2 DEF AskOK
<1>7. CASE Move(c, "post", "wait") /\ RequestStop(k.asked)
  <2>1. /\ k.pc = "post" /\ v.pc = "wait" /\ v.asked = k.asked /\ v.command = k.command
    BY <1>7 DEF Move, TypeOK
  <2>2. k.asked \in Servers /\ k.command = "stop"  BY <2>1 DEF AskOK
  <2>3. server'[k.asked].stop  BY <1>7, <2>2 DEF RequestStop, TypeOK
  <2>4. QED  BY <2>1, <2>2, <2>3 DEF AskOK
<1>8. CASE v.pc \in {"drop", "done"}
  BY <1>8 DEF AskOK
<1>9. CASE k.pc = "wait" /\ client' = [client EXCEPT ![c].left = @ - 1]
  <2>1. v.pc = "wait" /\ v.asked = k.asked /\ v.command = k.command  BY <1>9 DEF TypeOK
  <2>2. k.asked \in Servers /\ server[k.asked].stop /\ k.command = "stop"  BY <1>9 DEF AskOK
  <2>3. QED  BY <2>1, <2>2 DEF AskOK, Onward
<1>10. ASSUME NEW from, NEW to, Move(c, from, to) PROVE v.pc = to
  BY <1>10 DEF Move, TypeOK
<1>11. ASSUME NEW from, NEW what, Answer(c, from, what) PROVE v.pc = "done"
  BY <1>11 DEF Answer, TypeOK
<1>12. CASE Post(c) \/ PostTimesOut(c)
  <2>1. (Move(c, "post", "wait") /\ RequestStop(k.asked)) \/ Answer(c, "post", "error")
    BY <1>12, Zenon DEF Post, PostTimesOut
  <2>2. QED  BY <1>7, <1>8, <1>11, <2>1
<1>13. CASE Probe(c)
  <2>1. Move(c, "probe", "drop") \/ Answer(c, "probe", "unresponsive")
    BY <1>13, Zenon DEF Probe, TryLock
  <2>2. QED  BY <1>8, <1>10, <1>11, <2>1
<1>14. CASE Wait(c)
  <2>1. \/ Move(c, "wait", "drop") \/ Answer(c, "wait", "timeout")
        \/ k.pc = "wait" /\ client' = [client EXCEPT ![c].left = @ - 1]
    BY <1>14, Zenon DEF Wait, TryLock
  <2>2. QED  BY <1>8, <1>9, <1>10, <1>11, <2>1
<1>15. CASE Drop(c) \/ KillCommand(c)
  <2>1. \E from, what : Answer(c, from, what)  BY <1>15, Zenon DEF Drop, KillCommand
  <2>2. QED  BY <1>8, <1>11, <2>1
<1>16. QED
  BY <1>1, <1>2, <1>3, <1>4, <1>5, <1>6, <1>12, <1>13, <1>14, <1>15
     DEF ClientStep, CommandStep

\* Whom the commands have asked stays asked.
LEMMA AskedKept == IInv /\ PlacesOK /\ AskedOK /\ [Next]_vars => AskedOK'
<1>1. SUFFICES ASSUME IInv, PlacesOK, AskedOK, [Next]_vars, NEW c \in Clients
               PROVE  AskOK(c)'
  BY DEF AskedOK, AskOK
<1>2. TypeOK /\ PlaceOK(client[c]) /\ AskOK(c)  BY <1>1 DEF IInv, PlacesOK, AskedOK, AskOK
<1>3. \A s \in Servers : Onward(s)  BY <1>1, NextOnward
<1>4. CASE ClientStep(c)  BY <1>2, <1>3, <1>4, StepAsks
<1>5. CASE ~ClientStep(c)
  <2>1. client'[c] = client[c]  BY <1>1, <1>5, OthersStay
  <2>2. client[c].pc = "wait" => client[c].asked \in Servers  BY <1>2 DEF AskOK
  <2>3. QED  BY <1>2, <1>3, <2>1, <2>2 DEF AskOK, Onward
<1>6. QED  BY <1>4, <1>5

\* g25_runtime.py:353, :196: a stop that waits waits for an instance that has its request, that
\* nothing talks out of it, and that is at most ten steps from its end.
THEOREM StopIsKept == Spec => AcceptedStopsStay
<1> DEFINE Kept ==
        /\ \A c \in Clients : client[c].pc = "wait" =>
               client[c].asked \in Servers /\ server[client[c].asked].stop
        /\ \A s \in Servers :
               /\ server[s].stop => server'[s].stop
               /\ LeftAt[server'[s].pc] \in 0 .. LeftAt[server[s].pc]
               /\ EndOfInstance(s) => LeftAt[server'[s].pc] < LeftAt[server[s].pc]
<1>1. Init => PlacesOK /\ AskedOK
  BY DEF Init, Idle, PlacesOK, PlaceOK, AheadIn, AskedOK, AskOK
<1>2. IInv /\ AskedOK /\ [Next]_vars => Kept
  <2>1. SUFFICES ASSUME IInv, AskedOK, [Next]_vars PROVE Kept
    OBVIOUS
  <2>2. \A c \in Clients : client[c].pc = "wait" =>
            client[c].asked \in Servers /\ server[client[c].asked].stop
    BY <2>1 DEF AskedOK, AskOK
  <2>3. \A s \in Servers : Onward(s) /\ (EndOfInstance(s) => LeftAt[server'[s].pc] < LeftAt[server[s].pc])
    BY <2>1, NextOnward
  <2>4. QED  BY <2>2, <2>3, Zenon DEF Onward
<1>3. QED
  BY <1>1, <1>2, PlacesKept, AskedKept, Invariance, PTL DEF Spec, AcceptedStopsStay
=============================================================================
