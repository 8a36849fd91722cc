----------------------------- MODULE ServicesProofs -----------------------------
(***************************************************************************)
(* Proofs about the services, for any number of requests, servers,         *)
(* processes and executions and for all limits.                            *)
(*                                                                         *)
(* Each service has an invariant of its own, kept by its own next-state    *)
(* relation; a step of Services is a step of one of them and a stutter of  *)
(* the others.  LockFileProofs has the invariant of the lock file.         *)
(***************************************************************************)
EXTENDS Services, LockFileProofs, FiniteSetTheorems, SequenceTheorems

-------------------------------------------------------------------------------
(* The server process *)

\* No request is looked at before the transport is connected.
IdleWhileStarting == stage \in StartUp => \A r \in ToolCalls : call[r] = "none"

\* disconnect() begins when drain() is over.
LinksStayOpen ==
    phase \in {"off", "drain", "stopHealth"} =>
        Linked({"closing", "closed", "terminated", "gone"}) = {}

\* Nobody connects any more when start() is done.
LinksAreSettled ==
    /\ phase # "off" /\ "start-up" \notin cutShort => stage \notin StartUp
    /\ stage \in {"health", "transport", "serving"} \/ (phase # "off" /\ "start-up" \notin cutShort) =>
           Linked({"none", "connecting"}) = {}

\* The phases of disconnect(), one by one.
ChildrenEnd ==
    phase # "off" /\ "start-up" \notin cutShort => \A s \in MCPServers :
        /\ phase \in {"close", "grace", "over"} => link[s] # "up"
        /\ phase \in {"grace", "over"} => link[s] # "closing"
        /\ phase \in {"grace", "over"} /\ s \in StdioServers => link[s] # "closed"
        /\ phase = "over" => link[s] # "terminated"

ServerInv ==
    /\ ServerTypeOK /\ stage # "listen"
    /\ SlotsAreCounted /\ IdleWhileStarting
    /\ LinksStayOpen /\ LinksAreSettled /\ ChildrenEnd
    /\ NobodyCutOff

\* The server's invariant holds when it starts.
LEMMA ServerInitInv == ServerInit => ServerInv
<1> SUFFICES ASSUME ServerInit PROVE ServerInv
  OBVIOUS
<1> USE DEF ServerInit, Pool!ACInit
<1>1. ServerTypeOK /\ stage # "listen"
  BY DEF ServerTypeOK, StartUp, Answers, Ending
<1>2. inside = {r \in ToolCalls : call[r] = "running"} /\ closed = (phase # "off")
  OBVIOUS
<1>3. Cardinality(inside) <= PoolLimit
  BY FS_EmptySet, ServerAssumption
<1>4. IdleWhileStarting /\ LinksStayOpen /\ LinksAreSettled /\ ChildrenEnd /\ NobodyCutOff
  BY DEF IdleWhileStarting, LinksStayOpen, LinksAreSettled, ChildrenEnd, NobodyCutOff, Linked, StartUp
<1> QED  BY <1>1, <1>2, <1>3, <1>4 DEF ServerInv, SlotsAreCounted

\* What the steps of start() and of shutdown() leave alone.
LEMMA OnlyHandlersMoveCalls ==
    StartStep \/ Signal \/ EndStep => UNCHANGED <<call, inside, forgotten>>
BY DEF StartStep, StartWithoutConfig, LoadConfig, RegisterTools, ServersUnreadable, Dial, Connected,
       ConnectFails, InitializeFails, Initialized, StartHealthServer, ConnectTransport, Abort,
       StartFrame, Signal, Pool!Close, EndFrame, EndStep, Drained, DrainTimedOut, StopHealthServer,
       CloseClient, ChildObeys, Terminate, Kill, Exit, Deadline, pool

\* The pool is closed by the signal alone.
LEMMA OnlySignalCloses ==
    /\ [ServerNext]_serverVars =>
         \/ Signal
         \/ closed' = closed /\ (phase # "off" <=> phase' # "off")
    /\ Signal => phase = "off" /\ phase' = "drain" /\ closed' = TRUE
<1>1. ASSUME [ServerNext]_serverVars, ~Signal
      PROVE  closed' = closed /\ (phase # "off" <=> phase' # "off")
  <2>1. CASE StartStep
    BY <2>1 DEF StartStep, StartWithoutConfig, LoadConfig, RegisterTools, ServersUnreadable, Dial,
         Connected, ConnectFails, InitializeFails, Initialized, StartHealthServer, ConnectTransport,
         Abort, StartFrame, pool
  <2>2. CASE \E r \in ToolCalls : RefuseCall(r) \/ AcceptCall(r) \/ Execute(r) \/ Finish(r) \/ Answer(r)
    BY <2>2 DEF RefuseCall, AcceptCall, Execute, Finish, Answer, HandlerFrame, pool, Pool!Enter,
         Pool!PassOn, Pool!Leave
  <2>3. CASE EndStep
    BY <2>3 DEF EndStep, Drained, DrainTimedOut, StopHealthServer, CloseClient, ChildObeys, Terminate,
         Kill, Exit, Deadline, DeadlineMayPass, EndFrame, pool
  <2>4. CASE UNCHANGED serverVars
    BY <2>4 DEF serverVars, pool
  <2> QED  BY <1>1, <2>1, <2>2, <2>3, <2>4 DEF ServerNext
<1>2. Signal => phase = "off" /\ phase' = "drain" /\ closed' = TRUE
  BY DEF Signal, PhasesUnderWay, Pool!Close
<1> QED  BY <1>1, <1>2

\* Every step of the server keeps the types.
LEMMA ServerTypesKept ==
    ServerTypeOK /\ stage # "listen" /\ [ServerNext]_serverVars => ServerTypeOK' /\ stage' # "listen"
<1> SUFFICES ASSUME ServerTypeOK, stage # "listen", [ServerNext]_serverVars
             PROVE  ServerTypeOK' /\ stage' # "listen"
  OBVIOUS
<1>0. closed' \in BOOLEAN
  <2>1. closed \in BOOLEAN
    BY DEF ServerTypeOK
  <2>2. CASE Signal
    BY <2>2, OnlySignalCloses
  <2>3. CASE ~Signal
    BY <2>1, <2>3, OnlySignalCloses
  <2> QED  BY <2>2, <2>3
<1> DEFINE Others ==
      /\ stage \in StartUp \cup {"serving", "exited"} /\ stage # "listen"
      /\ exitCode \in {0, 1}
      /\ tools \subseteq {"typescript", "python"}
      /\ limiter \in {"none", "on", "destroyed"}
      /\ link \in [MCPServers -> {"none", "connecting", "up", "down", "closing", "closed",
                                  "terminated", "gone"}]
      /\ healthServer \in {"none", "listening", "stopped"}
      /\ call \in [ToolCalls -> Answers \cup {"none", "admitted", "queued", "running", "ran"}]
      /\ inside \subseteq ToolCalls /\ forgotten = 0
      /\ phase \in Ending \cup {"off", "over"}
      /\ cutShort \subseteq {"start-up", "drain", "all"}
<1>00. Others /\ stage # "listen"
  BY DEF ServerTypeOK
<1> SUFFICES Others'
  BY <1>0 DEF ServerTypeOK
<1> USE <1>00 DEF StartUp, Answers, Ending
<1>1. CASE StartStep
  <2>1. CASE StartWithoutConfig \/ ServersUnreadable \/ InitializeFails
    BY <2>1 DEF StartWithoutConfig, ServersUnreadable, InitializeFails, Abort, pool
  <2>2. CASE LoadConfig \/ RegisterTools \/ Initialized \/ StartHealthServer \/ ConnectTransport
    BY <2>2 DEF LoadConfig, RegisterTools, Initialized, StartHealthServer, ConnectTransport,
                GoTo, StartFrame, pool
  <2>3. CASE Dial
    BY <2>3 DEF Dial, GoTo, StartFrame, pool
  <2>4. CASE \E s \in MCPServers : Connected(s) \/ ConnectFails(s)
    BY <2>4 DEF Connected, ConnectFails, StartFrame, pool
  <2> QED  BY <1>1, <2>1, <2>2, <2>3, <2>4 DEF StartStep
<1>2. ASSUME NEW r \in ToolCalls, RefuseCall(r) \/ AcceptCall(r) \/ Execute(r) \/ Finish(r) \/ Answer(r)
      PROVE  Others'
  <2>1. CASE RefuseCall(r) \/ AcceptCall(r) \/ Answer(r)
    <3>1. UNCHANGED <<stage, exitCode, tools, limiter, link, healthServer, inside, forgotten, phase, cutShort>>
      BY <2>1 DEF RefuseCall, AcceptCall, Answer, HandlerFrame, pool
    <3>2. call' \in [ToolCalls -> Answers \cup {"none", "admitted", "queued", "running", "ran"}]
      BY <2>1 DEF RefuseCall, AcceptCall, Answer, Move
    <3> QED  BY <3>1, <3>2
  <2>2. CASE Execute(r)
    BY <2>2 DEF Execute, Pool!Enter, Move, HandlerFrame, pool
  <2>3. CASE Finish(r)
    BY <2>3 DEF Finish, Queue, Pool!PassOn, Pool!Leave, Move, HandlerFrame, pool
  <2> QED  BY <1>2, <2>1, <2>2, <2>3
<1>3. CASE Signal
  BY <1>3 DEF Signal, Pool!Close, EndFrame
<1>4. CASE EndStep
  <2>1. CASE Drained \/ DrainTimedOut \/ StopHealthServer \/ Terminate \/ Kill
    BY <2>1 DEF Drained, DrainTimedOut, StopHealthServer, Terminate, Kill, EndFrame, pool
  <2>2. CASE \E s \in MCPServers : CloseClient(s) \/ ChildObeys(s)
    BY <2>2 DEF CloseClient, ChildObeys, EndFrame, pool
  <2>3. CASE Exit \/ Deadline
    BY <2>3 DEF Exit, Deadline, pool
  <2> QED  BY <1>4, <2>1, <2>2, <2>3 DEF EndStep
<1>5. CASE UNCHANGED serverVars
  BY <1>5 DEF serverVars, pool
<1> QED  BY <1>1, <1>2, <1>3, <1>4, <1>5 DEF ServerNext

\* The pool's specification counts as this one does.
LEMMA PoolCountsAlike == Pool!Cardinality(inside) = Cardinality(inside)
BY DEF Pool!Cardinality, Cardinality

\* The slots and the handlers go on agreeing: whoever starts to run takes a free slot, or
\* the one of a request that ends.
LEMMA SlotsStayCounted == ServerInv /\ [ServerNext]_serverVars => SlotsAreCounted'
<1> SUFFICES ASSUME ServerInv, [ServerNext]_serverVars PROVE SlotsAreCounted'
  OBVIOUS
<1> USE DEF ServerInv
<1>1. closed' = (phase' # "off")
  BY OnlySignalCloses DEF SlotsAreCounted
<1>0. IsFiniteSet(inside) /\ Cardinality(inside) \in Nat /\ PoolLimit \in Nat \ {0}
  BY ServerAssumption, FS_Subset, FS_CardinalityType DEF ServerTypeOK
<1>8. forgotten = 0
  BY DEF ServerTypeOK
<1>2. CASE UNCHANGED <<call, inside>>
  BY <1>1, <1>2 DEF SlotsAreCounted
<1>3. ASSUME NEW r \in ToolCalls, Execute(r) PROVE SlotsAreCounted'
  <2>1. CASE Pool!Enter(r) /\ Move(r, "running")
    <3>1. inside' = inside \cup {r} /\ r \notin inside /\ Cardinality(inside) < PoolLimit
      BY <2>1, <1>0, <1>8, PoolCountsAlike DEF Pool!Enter
    <3>2. Cardinality(inside') = Cardinality(inside) + 1
      BY <3>1, <1>0, FS_AddElement
    <3>3. call' = [call EXCEPT ![r] = "running"]
      BY <2>1 DEF Move
    <3>4. inside' = {q \in ToolCalls : call'[q] = "running"}
      BY <3>1, <3>3 DEF SlotsAreCounted, ServerTypeOK
    <3> QED  BY <1>0, <1>1, <3>1, <3>2, <3>4 DEF SlotsAreCounted
  <2>2. CASE UNCHANGED pool /\ (Move(r, "queued") \/ Move(r, "refused"))
    <3>1. inside' = inside /\ inside = {q \in ToolCalls : call'[q] = "running"}
      BY <1>3, <2>2 DEF Move, Execute, SlotsAreCounted, ServerTypeOK, pool
    <3> QED  BY <1>1, <3>1 DEF SlotsAreCounted
  <2> QED  BY <1>3, <2>1, <2>2 DEF Execute
<1>4. ASSUME NEW r \in ToolCalls, Finish(r) PROVE SlotsAreCounted'
  <2>1. ASSUME NEW w \in Queue, Pool!PassOn(r, w), call' = [call EXCEPT ![r] = "ran", ![w] = "running"]
        PROVE  SlotsAreCounted'
    <3>1. w \in ToolCalls /\ call[w] = "queued" /\ call[r] = "running" /\ r \in inside /\ w \notin inside
      BY <1>4, <2>1 DEF Queue, Finish, Pool!PassOn, SlotsAreCounted
    <3>2. inside' = (inside \ {r}) \cup {w}
      BY <2>1 DEF Pool!PassOn
    <3>3. inside' = {q \in ToolCalls : call'[q] = "running"}
      BY <2>1, <3>1, <3>2 DEF SlotsAreCounted, ServerTypeOK
    <3>4. IsFiniteSet(inside \ {r}) /\ Cardinality(inside \ {r}) = Cardinality(inside) - 1
      BY <1>0, <3>1, FS_RemoveElement
    <3>5. Cardinality((inside \ {r}) \cup {w}) = Cardinality(inside \ {r}) + 1
      BY <3>1, <3>4, FS_AddElement
    <3>6. Cardinality(inside') = Cardinality(inside)
      BY <1>0, <3>2, <3>4, <3>5
    <3> QED  BY <1>1, <3>3, <3>6 DEF SlotsAreCounted
  <2>2. CASE Pool!Leave(r) /\ Move(r, "ran")
    <3>1. inside' = inside \ {r} /\ r \in inside
      BY <2>2 DEF Pool!Leave
    <3>2. Cardinality(inside') = Cardinality(inside) - 1
      BY <1>0, <3>1, FS_RemoveElement
    <3>3. inside' = {q \in ToolCalls : call'[q] = "running"}
      BY <2>2, <3>1 DEF Move, SlotsAreCounted, ServerTypeOK
    <3> QED  BY <1>0, <1>1, <3>2, <3>3 DEF SlotsAreCounted
  <2> QED  BY <1>4, <2>1, <2>2 DEF Finish
<1>5. ASSUME NEW r \in ToolCalls, RefuseCall(r) \/ AcceptCall(r) \/ Answer(r) PROVE SlotsAreCounted'
  <2>1. inside' = inside /\ inside = {q \in ToolCalls : call'[q] = "running"}
    BY <1>5 DEF RefuseCall, AcceptCall, Answer, Move, SlotsAreCounted, ServerTypeOK, pool
  <2> QED  BY <1>1, <2>1 DEF SlotsAreCounted
<1>6. CASE StartStep \/ Signal \/ EndStep
  BY <1>2, <1>6, OnlyHandlersMoveCalls
<1>7. CASE UNCHANGED serverVars
  BY <1>2, <1>7 DEF serverVars, pool
<1> QED  BY <1>3, <1>4, <1>5, <1>6, <1>7 DEF ServerNext

\* Only a request that was admitted runs or waits, and requests are admitted when start() is
\* done.
LEMMA IdleStaysIdle == ServerInv /\ [ServerNext]_serverVars => IdleWhileStarting'
<1> SUFFICES ASSUME ServerInv, [ServerNext]_serverVars PROVE IdleWhileStarting'
  OBVIOUS
<1> USE DEF ServerInv, IdleWhileStarting, StartUp
<1>1. CASE StartStep
  <2>1. stage \in StartUp /\ call' = call
    BY <1>1, OnlyHandlersMoveCalls DEF StartStep, StartWithoutConfig, LoadConfig, RegisterTools,
       ServersUnreadable, Dial, Connected, ConnectFails, InitializeFails, Initialized, AllSettled,
       StartHealthServer, ConnectTransport
  <2> QED  BY <2>1
<1>2. ASSUME NEW r \in ToolCalls, RefuseCall(r) \/ AcceptCall(r) \/ Execute(r) \/ Finish(r) \/ Answer(r)
      PROVE  stage' \notin StartUp
  <2>1. stage' = stage /\ (stage = "serving" \/ call[r] # "none")
    BY <1>2 DEF RefuseCall, AcceptCall, Execute, Finish, Answer, HandlerFrame
  <2> QED  BY <2>1
<1>3. CASE Signal \/ EndStep
  <2>1. call' = call /\ (stage' = stage \/ stage' = "exited")
    BY <1>3, OnlyHandlersMoveCalls DEF Signal, EndStep, Drained, DrainTimedOut, StopHealthServer,
       CloseClient, ChildObeys, Terminate, Kill, Exit, Deadline
  <2> QED  BY <2>1
<1>4. CASE UNCHANGED serverVars
  BY <1>4 DEF serverVars
<1> QED  BY <1>1, <1>2, <1>3, <1>4 DEF ServerNext

\* Connections are closed and children ended in the phases that are for it, and no server
\* connects after start().
LEMMA LinksKept ==
    ServerInv /\ [ServerNext]_serverVars => LinksStayOpen' /\ LinksAreSettled' /\ ChildrenEnd'
<1> SUFFICES ASSUME ServerInv, [ServerNext]_serverVars
             PROVE  LinksStayOpen' /\ LinksAreSettled' /\ ChildrenEnd'
  OBVIOUS
<1> DEFINE LinkInv == LinksStayOpen /\ LinksAreSettled /\ ChildrenEnd
           Links == [MCPServers -> {"none", "connecting", "up", "down", "closing", "closed",
                                    "terminated", "gone"}]
<1>0. LinkInv /\ link \in Links /\ stage # "listen"
  BY DEF ServerInv, ServerTypeOK
<1> SUFFICES LinkInv'
  OBVIOUS
<1> USE <1>0 DEF LinksStayOpen, LinksAreSettled, ChildrenEnd, Linked, StartUp
<1>1. CASE StartStep
  <2>1. stage \in StartUp /\ UNCHANGED <<phase, cutShort>>
    BY <1>1 DEF StartStep, StartWithoutConfig, LoadConfig, RegisterTools, ServersUnreadable, Dial,
       Connected, ConnectFails, InitializeFails, Initialized, AllSettled, StartHealthServer,
       ConnectTransport, Abort, StartFrame
  <2>2. phase = "off" \/ "start-up" \in cutShort
    BY <2>1
  <2>3. CASE UNCHANGED link /\ stage' = "exited"
    BY <2>1, <2>2, <2>3
  <2>4. CASE LoadConfig \/ RegisterTools
    BY <2>1, <2>2, <2>4 DEF LoadConfig, RegisterTools, GoTo, StartFrame
  <2>5. CASE Dial
    <3>1. link' = [s \in MCPServers |-> "connecting"] /\ stage' = "list"
      BY <2>5 DEF Dial, GoTo
    <3> QED  BY <2>1, <2>2, <3>1
  <2>6. ASSUME NEW s \in MCPServers, Connected(s) \/ ConnectFails(s) PROVE LinkInv'
    <3>1. PICK to \in {"up", "down"} : link' = [link EXCEPT ![s] = to] /\ stage' = stage /\ stage = "list"
      BY <2>6 DEF Connected, ConnectFails
    <3> QED  BY <2>1, <2>2, <3>1
  <2>7. CASE Initialized
    BY <2>1, <2>2, <2>7 DEF Initialized, AllSettled, GoTo
  <2>8. CASE StartHealthServer \/ ConnectTransport
    BY <2>1, <2>2, <2>8 DEF StartHealthServer, ConnectTransport, GoTo
  <2>9. CASE StartWithoutConfig \/ ServersUnreadable \/ InitializeFails
    BY <2>3, <2>9 DEF StartWithoutConfig, ServersUnreadable, InitializeFails, Abort
  <2> QED  BY <1>1, <2>4, <2>5, <2>6, <2>7, <2>8, <2>9 DEF StartStep
<1>2. CASE UNCHANGED <<stage, link, phase, cutShort>>
  BY <1>2
<1>3. CASE Signal
  <2>1. phase = "off" /\ phase' = "drain" /\ UNCHANGED <<stage, link>>
    BY <1>3 DEF Signal, PhasesUnderWay
  <2>2. "start-up" \notin cutShort' => stage \notin StartUp
    BY <1>3 DEF Signal
  <2>3. "start-up" \notin cutShort' => stage \in {"health", "transport", "serving", "exited"}
    BY <2>2 DEF ServerInv, ServerTypeOK
  <2>4. stage # "exited"
    BY <1>3 DEF Signal, Lives
  <2> QED  BY <2>1, <2>2, <2>3, <2>4
<1>4. CASE EndStep
  <2>1. CASE Drained \/ DrainTimedOut
    <3>1. phase = "drain" /\ phase' = "stopHealth" /\ UNCHANGED <<stage, link>>
          /\ ("start-up" \in cutShort' <=> "start-up" \in cutShort)
      BY <2>1 DEF Drained, DrainTimedOut, EndFrame
    <3> QED  BY <3>1
  <2>2. CASE StopHealthServer
    <3>1. phase = "stopHealth" /\ phase' = "close" /\ UNCHANGED <<stage, cutShort>>
      BY <2>2 DEF StopHealthServer
    <3>2. link' = [s \in MCPServers |-> IF link[s] = "up" THEN "closing" ELSE link[s]]
      BY <2>2 DEF StopHealthServer
    <3> QED  BY <3>1, <3>2
  <2>3. ASSUME NEW s \in MCPServers, CloseClient(s) \/ ChildObeys(s) PROVE LinkInv'
    <3>1. UNCHANGED <<stage, phase, cutShort>>
      BY <2>3 DEF CloseClient, ChildObeys
    <3>2. CASE CloseClient(s)
      <4>1. phase = "close" /\ link' = [link EXCEPT ![s] = IF s \in StdioServers THEN "closed" ELSE "gone"]
        BY <3>2 DEF CloseClient
      <4> QED  BY <3>1, <4>1
    <3>3. CASE ChildObeys(s)
      <4>1. link[s] \in {"closed", "terminated"} /\ link' = [link EXCEPT ![s] = "gone"]
        BY <3>3 DEF ChildObeys
      <4> QED  BY <3>1, <4>1
    <3> QED  BY <2>3, <3>2, <3>3
  <2>4. CASE Terminate
    <3>1. phase = "close" /\ phase' = "grace" /\ UNCHANGED <<stage, cutShort>> /\ Linked({"closing"}) = {}
      BY <2>4 DEF Terminate
    <3>2. link' = [s \in MCPServers |-> IF s \in StdioServers /\ link[s] \in {"closed", "up"}
                                        THEN "terminated" ELSE link[s]]
      BY <2>4 DEF Terminate, OnRecord
    <3> QED  BY <3>1, <3>2
  <2>5. CASE Kill
    <3>1. phase = "grace" /\ phase' = "over" /\ UNCHANGED <<stage, cutShort>>
      BY <2>5 DEF Kill
    <3>2. link' = [s \in MCPServers |-> IF link[s] = "terminated" THEN "gone" ELSE link[s]]
      BY <2>5 DEF Kill, KilledChildren
    <3> QED  BY <3>1, <3>2
  <2>6. CASE Exit \/ Deadline
    <3>1. stage' = "exited" /\ UNCHANGED <<phase, link>> /\ phase \notin {"off", "drain"}
          /\ ("start-up" \in cutShort' <=> "start-up" \in cutShort)
      BY <2>6 DEF Exit, Deadline, DeadlineMayPass
    <3> QED  BY <3>1
  <2> QED  BY <1>4, <2>1, <2>2, <2>3, <2>4, <2>5, <2>6 DEF EndStep
<1>5. ASSUME NEW r \in ToolCalls, RefuseCall(r) \/ AcceptCall(r) \/ Execute(r) \/ Finish(r) \/ Answer(r)
      PROVE  UNCHANGED <<stage, link, phase, cutShort>>
  BY <1>5 DEF RefuseCall, AcceptCall, Execute, Finish, Answer, HandlerFrame
<1>6. CASE UNCHANGED serverVars
  BY <1>2, <1>6 DEF serverVars
<1> QED  BY <1>1, <1>2, <1>3, <1>4, <1>5, <1>6 DEF ServerNext

\* Whoever runs keeps its clients and the process: code starts only before the signal, and
\* drain() gives way when nothing runs or the 30 seconds are over.
LEMMA NobodyIsCutOff == ServerInv /\ [ServerNext]_serverVars => NobodyCutOff'
<1> SUFFICES ASSUME ServerInv, [ServerNext]_serverVars,
                    inside' # {}, "drain" \notin cutShort'
             PROVE  Lives' /\ phase' \in {"off", "drain"}
  BY LinksKept DEF NobodyCutOff, LinksStayOpen
<1> USE DEF Lives
<1>1. "drain" \notin cutShort
  <2>1. cutShort \subseteq cutShort'
    <3>1. CASE StartStep
      BY <3>1 DEF StartStep, StartWithoutConfig, LoadConfig, RegisterTools, ServersUnreadable, Dial,
         Connected, ConnectFails, InitializeFails, Initialized, StartHealthServer, ConnectTransport,
         Abort, StartFrame
    <3>2. CASE \E r \in ToolCalls : RefuseCall(r) \/ AcceptCall(r) \/ Execute(r) \/ Finish(r) \/ Answer(r)
      BY <3>2 DEF RefuseCall, AcceptCall, Execute, Finish, Answer, HandlerFrame
    <3>3. CASE Signal \/ EndStep
      BY <3>3 DEF Signal, EndStep, Drained, DrainTimedOut, StopHealthServer, CloseClient, ChildObeys,
         Terminate, Kill, Exit, Deadline
    <3>4. CASE UNCHANGED serverVars
      BY <3>4 DEF serverVars
    <3> QED  BY <3>1, <3>2, <3>3, <3>4 DEF ServerNext
  <2> QED  BY <2>1
<1>2. inside # {} => Lives /\ phase \in {"off", "drain"} /\ stage \notin StartUp
  BY <1>1 DEF ServerInv, NobodyCutOff, SlotsAreCounted, IdleWhileStarting
<1>3. CASE UNCHANGED <<stage, phase, inside>>
  BY <1>2, <1>3
<1>4. CASE StartStep
  <2>1. stage \in StartUp
    BY <1>4 DEF StartUp, StartStep, StartWithoutConfig, LoadConfig, RegisterTools, ServersUnreadable,
       Dial, Connected, ConnectFails, InitializeFails, Initialized, AllSettled, StartHealthServer,
       ConnectTransport
  <2> QED  BY <1>2, <1>4, <2>1, OnlyHandlersMoveCalls
<1>5. ASSUME NEW r \in ToolCalls, RefuseCall(r) \/ AcceptCall(r) \/ Execute(r) \/ Finish(r) \/ Answer(r)
      PROVE  Lives' /\ phase' \in {"off", "drain"}
  <2>1. UNCHANGED <<stage, phase>>
    BY <1>5 DEF RefuseCall, AcceptCall, Execute, Finish, Answer, HandlerFrame
  <2>2. CASE RefuseCall(r) \/ AcceptCall(r) \/ Answer(r)
    BY <1>3, <2>1, <2>2 DEF RefuseCall, AcceptCall, Answer, pool
  <2>3. CASE Execute(r)
    <3>1. Lives /\ (inside' = inside \/ ~closed)
      BY <2>3 DEF Execute, Pool!Enter, pool
    <3>2. ~closed => phase = "off"
      BY DEF ServerInv, SlotsAreCounted
    <3> QED  BY <1>2, <2>1, <3>1, <3>2
  <2>4. CASE Finish(r)
    <3>1. r \in inside
      BY <2>4 DEF Finish, Pool!PassOn, Pool!Leave
    <3> QED  BY <1>2, <2>1, <3>1
  <2> QED  BY <1>5, <2>2, <2>3, <2>4
<1>6. CASE Signal
  BY <1>6 DEF Signal
<1>7. CASE EndStep
  <2>1. inside' = inside /\ inside # {}
    BY <1>7, OnlyHandlersMoveCalls
  <2>2. CASE Drained \/ DrainTimedOut
    BY <2>1, <2>2 DEF Drained, NothingRuns, DrainTimedOut
  <2>3. CASE \E s \in MCPServers : CloseClient(s) \/ ChildObeys(s)
    BY <1>2, <2>1, <2>3 DEF CloseClient, ChildObeys
  <2>4. CASE StopHealthServer \/ Terminate \/ Kill \/ Exit \/ Deadline
    BY <1>2, <2>1, <2>4 DEF StopHealthServer, Terminate, Kill, Exit, Deadline, DeadlineMayPass
  <2> QED  BY <1>7, <2>2, <2>3, <2>4 DEF EndStep
<1>8. CASE UNCHANGED serverVars
  BY <1>3, <1>8 DEF serverVars, pool
<1> QED  BY <1>4, <1>5, <1>6, <1>7, <1>8 DEF ServerNext

\* The parts together.
LEMMA ServerInvKept == ServerInv /\ [ServerNext]_serverVars => ServerInv'
<1> SUFFICES ASSUME ServerInv, [ServerNext]_serverVars PROVE ServerInv'
  OBVIOUS
<1>1. ServerTypeOK' /\ stage' # "listen"
  BY ServerTypesKept DEF ServerInv
<1> QED  BY <1>1, SlotsStayCounted, IdleStaysIdle, LinksKept, NobodyIsCutOff DEF ServerInv

\* What the invariant says about the children at the end of a shutdown.
LEMMA ServerInvImplies == ServerInv => NoChildLeft
<1> SUFFICES ASSUME ServerInv, phase = "over", "start-up" \notin cutShort, NEW s \in StdioServers
             PROVE  link[s] \in {"down", "gone"}
  BY DEF NoChildLeft
<1>1. s \in MCPServers /\ link[s] \in {"none", "connecting", "up", "down", "closing", "closed",
                                       "terminated", "gone"}
  BY ServerAssumption DEF ServerInv, ServerTypeOK
<1>2. link[s] \notin {"none", "connecting"}
  BY <1>1 DEF ServerInv, LinksAreSettled, Linked
<1> QED  BY <1>1, <1>2 DEF ServerInv, ChildrenEnd

-------------------------------------------------------------------------------
(* The graceful shutdown handler *)

\* Which tasks are done: the server has closed when its task has ended, and a queue that has
\* no task was empty and stays so, or cannot be drained.
GracefulInv ==
    /\ GracefulTypeOK
    /\ shutdownAt \in {"tasks", "flush"} =>
         /\ "close" \in tasks \/ ~listening
         /\ "drain" \in tasks \/ queued = 0 \/ ~drainable
    /\ shutdownAt = "flush" => tasks = {}
    /\ ExitCodeIsTrue

\* The handler's invariant holds when the process starts.
LEMMA GracefulInitInv == GracefulInit => GracefulInv
BY GracefulAssumption DEF GracefulInit, GracefulInv, GracefulTypeOK, ExitCodeIsTrue

\* No step of the handler, of the server or of the queue breaks it.
LEMMA GracefulInvKept == GracefulInv /\ [GracefulNext]_gracefulVars => GracefulInv'
<1> SUFFICES ASSUME GracefulInv, [GracefulNext]_gracefulVars PROVE GracefulInv'
  OBVIOUS
<1> USE GracefulAssumption DEF GracefulInv, GracefulTypeOK, ExitCodeIsTrue
<1>1. CASE RequestComes
  BY <1>1 DEF RequestComes
<1>2. CASE RequestIsServed
  BY <1>2 DEF RequestIsServed
<1>3. CASE BeginShutdown
  BY <1>3 DEF BeginShutdown
<1>4. CASE StartTasks
  BY <1>4 DEF StartTasks, TasksNeeded
<1>5. CASE ServerCloses
  BY <1>5 DEF ServerCloses
<1>6. CASE QueueDrains
  BY <1>6 DEF QueueDrains
<1>7. CASE AllTasksEnd \/ DrainTimeoutPasses
  <2>1. UNCHANGED <<listening, queued, drainable, tasks, shutdownCode>> /\ shutdownAt = "tasks"
    BY <1>7 DEF AllTasksEnd, DrainTimeoutPasses
  <2>2. shutdownAt' = "late" \/ (shutdownAt' = "flush" /\ tasks = {})
    BY <1>7 DEF AllTasksEnd, DrainTimeoutPasses
  <2> QED  BY <2>1, <2>2
<1>8. CASE ExitDone \/ ExitLate \/ ExitOnError
  <2>1. UNCHANGED <<listening, queued, drainable, tasks>> /\ shutdownAt' = "exited"
    BY <1>8 DEF ExitDone, ExitLate, ExitOnError, ExitWith
  <2>2. shutdownCode' = 1 \/ (shutdownCode' = 0 /\ shutdownAt = "flush")
    BY <1>8 DEF ExitDone, ExitLate, ExitOnError, ExitWith
  <2>3. GracefulTypeOK'
    BY <2>1, <2>2
  <2> QED  BY <2>1, <2>2, <2>3
<1>9. CASE UNCHANGED gracefulVars
  BY <1>9 DEF gracefulVars
<1> QED  BY <1>1, <1>2, <1>3, <1>4, <1>5, <1>6, <1>7, <1>8, <1>9 DEF GracefulNext, GracefulStep

-------------------------------------------------------------------------------
(* The circuit breaker *)

BreakerInv == BreakerTypeOK /\ StatsAreTrue /\ TrialDecides

\* The breaker starts closed, with nothing counted.
LEMMA BreakerInitInv == BreakerInit => BreakerInv
<1> SUFFICES ASSUME BreakerInit PROVE BreakerInv
  OBVIOUS
<1> USE DEF BreakerInit
<1>0. pendingClose \in BOOLEAN /\ nextAttemptKnown \in BOOLEAN /\ ~nextAttemptKnown
  OBVIOUS
<1>00. consecutiveFailures \in 0..MaxFailures /\ consecutiveFailures < FailureThreshold
  BY BreakerAssumption
<1>000. guarded \in [GuardedCalls -> {"idle", "called", "trial"}]
  OBVIOUS
<1>1. BreakerTypeOK
  BY <1>0, <1>00, <1>000 DEF BreakerTypeOK, BreakerStates
<1>2. StatsAreTrue
  BY <1>0, <1>00 DEF StatsAreTrue
<1>3. TrialDecides
  BY DEF TrialDecides
<1> QED  BY <1>1, <1>2, <1>3 DEF BreakerInv

\* An answer moves a breaker that is half open, so that the trial is in flight as long as it
\* stays so; the statistics move with it.
LEMMA BreakerInvKept == BreakerInv /\ [BreakerNext]_breakerVars => BreakerInv'
<1> SUFFICES ASSUME BreakerInv, [BreakerNext]_breakerVars PROVE BreakerInv'
  OBVIOUS
<1> USE DEF BreakerInv
<1>1. ASSUME NEW c \in GuardedCalls, Fire(c) PROVE BreakerInv'
  <2>1. UNCHANGED <<breaker, consecutiveFailures, statsState, nextAttemptKnown>>
    BY <1>1 DEF Fire
  <2>2. guarded' = [guarded EXCEPT ![c] = IF pendingClose THEN "trial" ELSE "called"]
    BY <1>1 DEF Fire
  <2>3. guarded[c] = "idle" /\ pendingClose' = FALSE /\ (breaker = "closed" \/ pendingClose)
    BY <1>1 DEF Fire
  <2>4. guarded' \in [GuardedCalls -> {"idle", "called", "trial"}]
    BY <2>2 DEF BreakerTypeOK
  <2>5. BreakerTypeOK'
    BY <2>1, <2>3, <2>4 DEF BreakerTypeOK
  <2>6. StatsAreTrue'
    BY <2>1 DEF StatsAreTrue
  <2>7. ASSUME breaker' = "half-open" PROVE c \in InFlight' /\ guarded'[c] = "trial"
    <3>1. pendingClose
      BY <2>1, <2>3, <2>7
    <3> QED  BY <2>2, <3>1 DEF InFlight, BreakerTypeOK
  <2> QED  BY <2>5, <2>6, <2>7 DEF TrialDecides
<1>2. ASSUME NEW c \in GuardedCalls, Succeed(c) PROVE BreakerInv'
  <2>1. guarded' = [guarded EXCEPT ![c] = "idle"] /\ consecutiveFailures' = 0
    BY <1>2 DEF Succeed, Returns
  <2>2. guarded' \in [GuardedCalls -> {"idle", "called", "trial"}]
    BY <2>1 DEF BreakerTypeOK
  <2>3. CASE breaker = "half-open"
    <3>1. OnClose
      BY <1>2, <2>3 DEF Succeed
    <3>2. breaker' = "closed" /\ statsState' = "closed" /\ pendingClose' \in BOOLEAN
          /\ nextAttemptKnown' \in BOOLEAN /\ ~nextAttemptKnown'
      BY <3>1 DEF OnClose
    <3>3. consecutiveFailures' \in 0..MaxFailures /\ consecutiveFailures' < FailureThreshold
      BY <2>1, BreakerAssumption
    <3> QED  BY <2>2, <3>2, <3>3 DEF BreakerTypeOK, BreakerStates, StatsAreTrue, TrialDecides
  <2>4. CASE breaker # "half-open"
    <3>1. Unmoved /\ nextAttemptKnown' = FALSE
      BY <1>2, <2>4 DEF Succeed
    <3>5. nextAttemptKnown' \in BOOLEAN /\ ~nextAttemptKnown'
      BY <3>1
    <3>6. consecutiveFailures' \in 0..MaxFailures /\ consecutiveFailures' < FailureThreshold
      BY <2>1, BreakerAssumption
    <3>2. BreakerTypeOK'
      BY <2>2, <3>1, <3>5, <3>6 DEF Unmoved, BreakerTypeOK
    <3>3. StatsAreTrue'
      BY <3>1, <3>5, <3>6 DEF Unmoved, StatsAreTrue
    <3>4. TrialDecides'
      BY <2>4, <3>1 DEF Unmoved, TrialDecides
    <3> QED  BY <3>2, <3>3, <3>4
  <2> QED  BY <2>3, <2>4
<1>3. ASSUME NEW c \in GuardedCalls, Fail(c) PROVE BreakerInv'
  <2>1. guarded' = [guarded EXCEPT ![c] = "idle"]
    BY <1>3 DEF Fail, Returns
  <2>2. guarded' \in [GuardedCalls -> {"idle", "called", "trial"}]
    BY <2>1 DEF BreakerTypeOK
  <2>3. consecutiveFailures' = consecutiveFailures + 1 /\ consecutiveFailures' \in 0..MaxFailures
    BY <1>3, BreakerAssumption DEF Fail, BreakerTypeOK
  <2>4. CASE OnOpen
    <3> QED  BY <2>2, <2>3, <2>4 DEF OnOpen, BreakerTypeOK, BreakerStates, StatsAreTrue, TrialDecides
  <2>5. CASE ~MustOpen(consecutiveFailures') /\ Unmoved /\ UNCHANGED nextAttemptKnown
    <3>1. UNCHANGED <<breaker, pendingClose, statsState, nextAttemptKnown>>
      BY <2>5 DEF Unmoved
    <3>2. BreakerTypeOK'
      BY <2>2, <2>3, <3>1 DEF BreakerTypeOK
    <3>3. breaker = "closed" => consecutiveFailures' < FailureThreshold
      BY <2>3, <2>5, BreakerAssumption DEF MustOpen, ThresholdReached
    <3>4. StatsAreTrue'
      BY <3>1, <3>3 DEF StatsAreTrue
    <3>5. TrialDecides'
      BY <2>5, <3>1 DEF MustOpen, TrialDecides
    <3> QED  BY <3>2, <3>4, <3>5
  <2> QED  BY <1>3, <2>4, <2>5 DEF Fail
<1>4. CASE CoolDown
  BY <1>4 DEF CoolDown, OnHalfOpen, BreakerTypeOK, BreakerStates, StatsAreTrue, TrialDecides
<1>5. CASE ResetBreaker
  <2>1. breaker' = "closed" /\ statsState' = "closed" /\ pendingClose' \in BOOLEAN
        /\ nextAttemptKnown' \in BOOLEAN /\ ~nextAttemptKnown' /\ guarded' = guarded
    BY <1>5 DEF ResetBreaker, OnClose
  <2>2. consecutiveFailures' \in 0..MaxFailures /\ consecutiveFailures' < FailureThreshold
    BY <1>5, BreakerAssumption DEF ResetBreaker
  <2> QED  BY <2>1, <2>2 DEF BreakerTypeOK, BreakerStates, StatsAreTrue, TrialDecides
<1>6. CASE UNCHANGED breakerVars
  <2>1. UNCHANGED InFlight
    BY <1>6 DEF breakerVars, InFlight
  <2> QED  BY <1>6, <2>1 DEF breakerVars, BreakerTypeOK, StatsAreTrue, TrialDecides
<1> QED  BY <1>1, <1>2, <1>3, <1>4, <1>5, <1>6 DEF BreakerNext

-------------------------------------------------------------------------------
(* The connection to Redis *)

RedisInv == RedisTypeOK /\ NeverGivesUp

\* The first client is connecting when the provider is made.
LEMMA RedisInitInv == RedisInit => RedisInv
<1> SUFFICES ASSUME RedisInit PROVE RedisInv
  OBVIOUS
<1> USE DEF RedisInit
<1>1. isRedisConnected \in BOOLEAN /\ reconnectTimer \in BOOLEAN /\ destroyed \in BOOLEAN
  OBVIOUS
<1>2. redisClient \in 0..MaxClients /\ racing \subseteq RedisClients
  BY RedisAssumption DEF RedisClients
<1>3. clientState \in [RedisClients -> {"none", "connecting", "socket", "ready", "gone"}]
  OBVIOUS
<1>4. redisClient \in racing
  OBVIOUS
<1> QED  BY <1>1, <1>2, <1>3, <1>4 DEF RedisInv, RedisTypeOK, NeverGivesUp

\* The flag falls only when the interval starts, and a client that stops racing is ready or
\* is followed by the interval.
LEMMA RedisInvKept == RedisInv /\ [RedisNext]_redisVars => RedisInv'
<1> SUFFICES ASSUME RedisInv, [RedisNext]_redisVars PROVE RedisInv'
  OBVIOUS
<1> DEFINE States == {"none", "connecting", "socket", "ready", "gone"}
<1>0. /\ clientState \in [RedisClients -> States] /\ racing \subseteq RedisClients
      /\ redisClient \in 0..MaxClients
      /\ isRedisConnected \in BOOLEAN /\ reconnectTimer \in BOOLEAN /\ destroyed \in BOOLEAN
  BY DEF RedisInv, RedisTypeOK
<1> USE DEF RedisInv
<1>1. ASSUME NEW i \in RedisClients, SocketConnected(i) PROVE RedisInv'
  <2>1. clientState' \in [RedisClients -> States]
    BY <1>0, <1>1 DEF SocketConnected
  <2> QED  BY <1>0, <1>1, <2>1 DEF SocketConnected, RedisTypeOK, NeverGivesUp
<1>2. ASSUME NEW i \in RedisClients, ClientReady(i) PROVE RedisInv'
  <2>1. clientState' \in [RedisClients -> States] /\ racing' \subseteq RedisClients
    BY <1>0, <1>2 DEF ClientReady
  <2>2. isRedisConnected' \in BOOLEAN
    BY <1>2 DEF ClientReady
  <2>3. RedisTypeOK'
    BY <1>0, <1>2, <2>1, <2>2 DEF ClientReady, RedisTypeOK
  <2>4. NeverGivesUp'
    BY <1>2 DEF ClientReady, NeverGivesUp
  <2> QED  BY <2>3, <2>4
<1>3. ASSUME NEW i \in RedisClients, ClientError(i) \/ ConnectTimeout(i) PROVE RedisInv'
  <2>1. clientState' \in [RedisClients -> States] /\ racing' \subseteq RedisClients
    BY <1>0, <1>3 DEF ClientError, ConnectTimeout
  <2>2. isRedisConnected' = FALSE /\ reconnectTimer' = TRUE /\ UNCHANGED <<redisClient, destroyed>>
    BY <1>3 DEF ClientError, ConnectTimeout, HandleRedisError, TimerAfterError
  <2> QED  BY <1>0, <2>1, <2>2 DEF RedisTypeOK, NeverGivesUp
<1>4. CASE StopReconnecting
  BY <1>0, <1>4 DEF StopReconnecting, RedisTypeOK, NeverGivesUp
<1>5. CASE Reconnect
  <2>1. PICK i \in Fresh :
          /\ redisClient' = i
          /\ clientState' = [Quit(redisClient, clientState) EXCEPT ![i] = "connecting"]
          /\ racing' = racing \cup {i}
    BY <1>5 DEF Reconnect
  <2>2. i \in RedisClients
    BY <2>1 DEF Fresh
  <2>3. i \in 0..MaxClients
    BY <2>2, RedisAssumption DEF RedisClients
  <2>4. Quit(redisClient, clientState) \in [RedisClients -> States]
    BY <1>0 DEF Quit
  <2>5. clientState' \in [RedisClients -> States]
    BY <2>1, <2>4
  <2>6. RedisTypeOK'
    BY <1>0, <1>5, <2>1, <2>2, <2>3, <2>5 DEF Reconnect, RedisTypeOK
  <2>7. NeverGivesUp'
    BY <2>1 DEF NeverGivesUp
  <2> QED  BY <2>6, <2>7
<1>6. CASE Destroy
  <2>1. clientState' \in [RedisClients -> States]
    BY <1>0, <1>6 DEF Destroy, Quit
  <2>2. destroyed' = TRUE /\ reconnectTimer' = FALSE /\ redisClient' = 0 /\ UNCHANGED <<isRedisConnected, racing>>
    BY <1>6 DEF Destroy
  <2>3. 0 \in 0..MaxClients
    BY RedisAssumption
  <2> QED  BY <1>0, <2>1, <2>2, <2>3 DEF RedisTypeOK, NeverGivesUp
<1>7. CASE UNCHANGED redisVars
  BY <1>7 DEF redisVars, RedisTypeOK, NeverGivesUp
<1> QED  BY <1>1, <1>2, <1>3, <1>4, <1>5, <1>6, <1>7 DEF RedisNext

-------------------------------------------------------------------------------
(* The audit log *)

\* A file has entries of its own day, or of later days by which the cached path was out of
\* date; and cleanup() has set its eyes on files that were too old already, or a day short of
\* it in a zone other than UTC.
AuditInv ==
    /\ AuditTypeOK
    /\ currentLogFile <= today
    /\ \A d \in Days : logFiles[d] \subseteq d..(d + stale)
    /\ \A d \in toDelete : d < today - RetentionDays + Ahead
    /\ EntriesAreRetained

\* There are no files in the beginning.
LEMMA AuditInitInv == AuditInit => AuditInv
<1> SUFFICES ASSUME AuditInit PROVE AuditInv
  OBVIOUS
<1> USE DEF AuditInit
<1>1. utc \in BOOLEAN /\ stale \in Nat /\ shortened \subseteq Nat
  OBVIOUS
<1>2. today \in Days /\ currentLogFile \in Days \cup {NoPath} /\ currentLogFile <= today
  BY AuditAssumption DEF Days, NoPath
<1>3. logFiles \in [Days -> SUBSET Days] /\ \A d \in Days : logFiles[d] = {}
  OBVIOUS
<1>4. AuditTypeOK
  BY <1>1, <1>2, <1>3 DEF AuditTypeOK
<1> QED  BY <1>2, <1>3, <1>4 DEF AuditInv, EntriesAreRetained

\* What is deleted is as old as the retention asks for, but for the days that the path was
\* out of date and the one of the zone, whatever day it is when it is deleted.
LEMMA AuditInvKept == AuditInv /\ [AuditNext]_auditVars => AuditInv'
<1> SUFFICES ASSUME AuditInv, [AuditNext]_auditVars PROVE AuditInv'
  OBVIOUS
<1>0. /\ today \in Days /\ utc \in BOOLEAN /\ currentLogFile \in Days \cup {NoPath}
      /\ logFiles \in [Days -> SUBSET Days]
      /\ toDelete \subseteq Days /\ stale \in Nat /\ shortened \subseteq Nat
  BY DEF AuditInv, AuditTypeOK
<1>00. Days \subseteq Nat /\ Ahead \in {0, 1} /\ RetentionDays \in Nat /\ NoPath = -1
  BY AuditAssumption DEF Days, Ahead, NoPath
<1>000. /\ currentLogFile <= today
        /\ \A d \in Days : logFiles[d] \subseteq d..(d + stale)
        /\ \A d \in toDelete : d < today - RetentionDays + Ahead
        /\ \A days \in shortened : days <= stale + Ahead
  BY DEF AuditInv, EntriesAreRetained
<1>1. CASE LogEntry
  <2>1. LogPath \in Days /\ LogPath <= today
    BY <1>0, <1>00, <1>000 DEF LogPath
  <2>2. logFiles' \in [Days -> SUBSET Days] /\ currentLogFile' = LogPath
    BY <1>0, <1>1, <2>1 DEF LogEntry
  <2>3. stale' \in Nat /\ stale <= stale' /\ today - LogPath <= stale'
    BY <1>0, <1>00, <1>1, <2>1 DEF LogEntry
  <2>4. UNCHANGED <<today, utc, toDelete, shortened>> /\ Ahead' = Ahead
    BY <1>1 DEF LogEntry, Ahead
  <2>5. AuditTypeOK'
    BY <1>0, <2>1, <2>2, <2>3, <2>4 DEF AuditTypeOK
  <2>6. ASSUME NEW d \in Days PROVE logFiles'[d] \subseteq d..(d + stale')
    <3>1. logFiles[d] \subseteq d..(d + stale')
      BY <1>0, <1>00, <1>000, <2>3
    <3>2. logFiles'[d] \subseteq logFiles[d] \cup (IF d = LogPath THEN {today} ELSE {})
      BY <1>0, <1>1, <2>1 DEF LogEntry
    <3>3. ASSUME d = LogPath PROVE today \in d..(d + stale')
      <4>1. today \in Int /\ d \in Int /\ stale' \in Int
        BY <1>0, <1>00, <2>3
      <4>2. d <= today /\ today - d <= stale'
        BY <2>1, <2>3, <3>3
      <4>3. \A x, y, z \in Int : x <= y /\ y - x <= z => y \in x..(x + z)
        OBVIOUS
      <4> QED  BY ONLY <4>1, <4>2, <4>3
    <3> QED  BY <3>1, <3>2, <3>3
  <2>7. ASSUME NEW days \in shortened PROVE days <= stale' + Ahead
    <3>1. days \in Int /\ stale \in Int /\ stale' \in Int /\ Ahead \in Int
      BY <1>0, <1>00, <2>3
    <3>2. days <= stale + Ahead /\ stale <= stale'
      BY <1>000, <2>3
    <3>3. \A x, y, z, a \in Int : x <= y + a /\ y <= z => x <= z + a
      OBVIOUS
    <3> QED  BY ONLY <3>1, <3>2, <3>3
  <2> QED  BY <1>000, <2>1, <2>2, <2>4, <2>5, <2>6, <2>7 DEF AuditInv, EntriesAreRetained
<1>2. CASE Rotate
  <2>1. currentLogFile' = NoPath /\ UNCHANGED <<today, utc, logFiles, toDelete, stale, shortened, Ahead>>
    BY <1>2 DEF Rotate, Ahead
  <2>2. currentLogFile' <= today'
    BY <1>0, <1>00, <2>1
  <2> QED  BY <1>0, <1>000, <2>1, <2>2 DEF AuditInv, AuditTypeOK, EntriesAreRetained
<1>3. CASE BeginCleanup
  <2>1. UNCHANGED <<today, utc, currentLogFile, logFiles, stale, shortened, Ahead>>
    BY <1>3 DEF BeginCleanup, Ahead
  <2>2. PICK ahead \in 0..Ahead : toDelete' = {d \in OldFiles(ahead) : logFiles[d] # {}}
    BY <1>3 DEF BeginCleanup
  <2>3. toDelete' \subseteq Days /\ \A d \in toDelete' : d < today - RetentionDays + Ahead
    BY <1>0, <1>00, <2>2 DEF OldFiles
  <2> QED  BY <1>0, <1>000, <2>1, <2>3 DEF AuditInv, AuditTypeOK, EntriesAreRetained
<1>4. ASSUME NEW d \in Days, DeleteLog(d) PROVE AuditInv'
  <2>1. d < today - RetentionDays + Ahead /\ logFiles[d] \subseteq d..(d + stale)
    BY <1>000, <1>4 DEF DeleteLog
  <2>2. UNCHANGED <<today, utc, currentLogFile, stale, Ahead>> /\ toDelete' \subseteq toDelete
    BY <1>4 DEF DeleteLog, Ahead
  <2>3. logFiles' \in [Days -> SUBSET Days] /\ \A e \in Days : logFiles'[e] \subseteq logFiles[e]
    BY <1>0, <1>4 DEF DeleteLog
  <2>4. ASSUME NEW days \in Missing(logFiles[d]) PROVE days \in Nat /\ days <= stale + Ahead
    <3>1. PICK e \in logFiles[d] : e >= today - RetentionDays /\ days = e - (today - RetentionDays) + 1
      BY DEF Missing
    <3>2. e \in d..(d + stale)
      BY <2>1
    <3> QED  BY <1>0, <1>00, <2>1, <3>1, <3>2
  <2>5. shortened' \subseteq shortened \cup Missing(logFiles[d])
    BY <1>4 DEF DeleteLog
  <2>6. shortened' \subseteq Nat /\ \A days \in shortened' : days <= stale + Ahead
    BY <1>0, <1>000, <2>4, <2>5
  <2>7. AuditTypeOK'
    BY <1>0, <2>2, <2>3, <2>6 DEF AuditTypeOK
  <2> QED  BY <1>000, <2>2, <2>3, <2>6, <2>7 DEF AuditInv, EntriesAreRetained
<1>5. CASE NextDay
  <2>1. today' = today + 1 /\ today' \in Days /\ today \in Int
    BY <1>0, <1>5, AuditAssumption DEF NextDay, Days
  <2>2. UNCHANGED <<utc, currentLogFile, logFiles, toDelete, stale, shortened, Ahead>>
    BY <1>5 DEF NextDay, Ahead
  <2>3. currentLogFile' <= today' /\ \A d \in toDelete' : d < today' - RetentionDays + Ahead
    BY <1>0, <1>00, <1>000, <2>1, <2>2
  <2>4. AuditTypeOK'
    BY <1>0, <2>1, <2>2 DEF AuditTypeOK
  <2> QED  BY <1>000, <2>2, <2>3, <2>4 DEF AuditInv, EntriesAreRetained
<1>6. CASE UNCHANGED auditVars
  <2>1. Ahead' = Ahead
    BY <1>6 DEF auditVars, Ahead
  <2> QED  BY <1>6, <2>1 DEF auditVars, AuditInv, AuditTypeOK, EntriesAreRetained
<1> QED  BY <1>1, <1>2, <1>3, <1>4, <1>5, <1>6 DEF AuditNext

-------------------------------------------------------------------------------
(* The timer of the daily sync *)

\* What has been done so far, on each platform: install() has put in effect the steps it is
\* past, and uninstall(), unless it passed something over, has ended the timer first.  With
\* systemd the last step of install() is what exists() asks for.
SystemdInv ==
    /\ operation = "install" => /\ position \in 1..5
                                /\ position >= 2 => "timer" \in effects
                                /\ position >= 3 => "service" \in effects
                                /\ position >= 5 => "enabled" \in effects
    /\ operation = "uninstall" => /\ position \in 1..4
                                  /\ position >= 2 /\ ~passedOver => "active" \notin effects
    /\ ~passedOver /\ "active" \in effects => {"timer", "service", "enabled"} \subseteq effects
    /\ reported = "installed" /\ operation # "uninstall" =>
         {"timer", "service", "enabled", "active"} \subseteq effects
LaunchdInv ==
    /\ operation # "none" => position \in 1..2
    /\ operation = "install" /\ position = 2 => "plist" \in effects
    /\ reported = "installed" /\ operation # "uninstall" => {"plist", "active"} \subseteq effects
TaskInv ==
    /\ position = 1
    /\ reported = "installed" /\ operation # "uninstall" => "task" \in effects

EffectsInv ==
    /\ SchedulerTypeOK
    /\ platform = "none" => operation = "none" /\ position = 1 /\ reported = "nothing" /\ effects = {}
    /\ operation = "none" => position = 1
    /\ platform = "linux" => SystemdInv
    /\ platform = "darwin" => LaunchdInv
    /\ platform = "win32" => TaskInv

\* The files an install() is past are whole, and all of them are once it says it is done.
WholeFilesInv ==
    /\ platform \in {"none", "win32"} => halfWritten = {}
    /\ platform = "linux" => halfWritten \subseteq {"timer", "service"}
    /\ platform = "darwin" => halfWritten \subseteq {"plist"}
    /\ platform = "linux" /\ operation = "install" /\ position >= 2 => "timer" \notin halfWritten
    /\ platform = "linux" /\ operation = "install" /\ position >= 3 => "service" \notin halfWritten
    /\ platform = "darwin" /\ operation = "install" /\ position >= 2 => "plist" \notin halfWritten
    /\ reported = "installed" /\ operation = "none" => halfWritten = {}

SchedulerInv == EffectsInv /\ WholeFilesInv

\* No platform has been chosen yet.
LEMMA SchedulerInitInv == SchedulerInit => SchedulerInv
<1> SUFFICES ASSUME SchedulerInit PROVE SchedulerInv
  OBVIOUS
<1>1. passedOver \in BOOLEAN
  BY DEF SchedulerInit
<1>2. EffectsInv
  BY <1>1 DEF SchedulerInit, EffectsInv, SchedulerTypeOK
<1>3. WholeFilesInv
  BY DEF SchedulerInit, WholeFilesInv
<1> QED  BY <1>2, <1>3 DEF SchedulerInv

\* The steps of each platform, spelt out.
LEMMA StepsAre ==
    /\ platform = "linux" =>
         /\ Steps("install") = <<"timer", "service", "reload", "enabled", "active">>
         /\ Steps("uninstall") = <<"active", "enabled", "timer", "service">>
    /\ platform = "darwin" =>
         Steps("install") = <<"plist", "active">> /\ Steps("uninstall") = <<"active", "plist">>
    /\ platform = "win32" => \A op : Steps(op) = <<"task">>
BY DEF Steps, SystemdSteps, LaunchdSteps, TaskSteps

\* What install() leaves on each platform.
LEMMA LastingAre ==
    /\ platform = "linux" => Lasting("install") = {"timer", "service", "enabled", "active"}
    /\ platform = "darwin" => Lasting("install") = {"plist", "active"}
    /\ platform = "win32" => Lasting("install") = {"task"}
<1>1. ASSUME platform = "linux" PROVE Lasting("install") = {"timer", "service", "enabled", "active"}
  <2> DEFINE t == <<"timer", "service", "reload", "enabled", "active">>
  <2>1. ToSet(t) = {t[1], t[2], t[3], t[4], t[5]}
    BY DEF ToSet
  <2> QED  BY <1>1, <2>1, StepsAre DEF Lasting
<1>2. ASSUME platform = "darwin" PROVE Lasting("install") = {"plist", "active"}
  <2> DEFINE t == <<"plist", "active">>
  <2>1. ToSet(t) = {t[1], t[2]}
    BY DEF ToSet
  <2> QED  BY <1>2, <2>1, StepsAre DEF Lasting
<1>3. ASSUME platform = "win32" PROVE Lasting("install") = {"task"}
  <2> DEFINE t == <<"task">>
  <2>1. ToSet(t) = {t[1]}
    BY DEF ToSet
  <2> QED  BY <1>3, <2>1, StepsAre DEF Lasting
<1> QED  BY <1>1, <1>2, <1>3

\* Whatever fails, and wherever the process dies, what is in effect is as far as the steps
\* went.
LEMMA EffectsInvKept == EffectsInv /\ [SchedulerNext]_schedulerVars => EffectsInv'
<1> SUFFICES ASSUME EffectsInv, [SchedulerNext]_schedulerVars PROVE EffectsInv'
  OBVIOUS
<1> DEFINE Kinds == {"timer", "service", "enabled", "active", "plist", "task"}
<1>0. /\ platform \in {"none", "linux", "darwin", "win32"}
      /\ effects \subseteq Kinds
      /\ operation \in {"none", "install", "uninstall"}
      /\ position \in 1..5
      /\ reported \in {"nothing", "installed", "failed", "uninstalled"}
      /\ passedOver \in BOOLEAN
  BY DEF EffectsInv, SchedulerTypeOK
<1>00. halfWritten' \subseteq Files
  <2>1. halfWritten \subseteq Files
    BY DEF EffectsInv, SchedulerTypeOK
  <2> QED  BY <2>1 DEF SchedulerNext, schedulerVars, CreateScheduler, BeginOperation, OpenFile, StepWorks,
              InstallStepFails, UninstallStepFails, SchedulerDies
<1>1. CASE CreateScheduler
  BY <1>0, <1>00, <1>1 DEF CreateScheduler, EffectsInv, SchedulerTypeOK, SystemdInv, LaunchdInv, TaskInv
<1>2. ASSUME NEW op \in {"install", "uninstall"}, BeginOperation(op) PROVE EffectsInv'
  BY <1>0, <1>00, <1>2 DEF BeginOperation, EffectsInv, SchedulerTypeOK, SystemdInv, LaunchdInv, TaskInv
<1>3. CASE SchedulerDies \/ InstallStepFails
  <2>1. /\ operation # "none" /\ operation' = "none" /\ position' = 1
        /\ reported' \in {"nothing", "failed"} /\ UNCHANGED <<platform, effects, passedOver>>
    BY <1>3 DEF SchedulerDies, InstallStepFails, EndOperation
  <2> QED  BY <1>0, <1>00, <2>1 DEF EffectsInv, SchedulerTypeOK, SystemdInv, LaunchdInv, TaskInv
<1>4. CASE StepWorks \/ UninstallStepFails
  <2>1. operation # "none" /\ platform' = platform /\ platform # "none" /\ Advance
    BY <1>4 DEF StepWorks, UninstallStepFails, EffectsInv
  <2> DEFINE Step1 == Steps(operation)[position]
  <2>2. \/ operation = "install" /\ effects' = effects \cup ({Step1} \ {"reload"}) /\ passedOver' = passedOver
        \/ operation = "uninstall" /\ effects' = effects \ {Step1} /\ passedOver' = passedOver
        \/ operation = "uninstall" /\ effects' = effects
           /\ passedOver' = (passedOver \/ Step1 \in effects)
    BY <1>0, <1>4 DEF StepWorks, UninstallStepFails, Step
  <2>3. \/ /\ position = Len(Steps(operation)) /\ operation' = "none" /\ position' = 1
           /\ reported' = IF operation = "install" THEN "installed" ELSE "uninstalled"
        \/ position # Len(Steps(operation)) /\ position' = position + 1 /\ UNCHANGED <<operation, reported>>
    BY <2>1 DEF Advance, EndOperation
  <2> HIDE DEF Step1
  <2>4. CASE platform = "linux" /\ operation = "install"
    <3>1. Len(Steps(operation)) = 5
      BY <2>4, StepsAre
    <3>2. /\ position = 1 => Step1 = "timer"
          /\ position = 2 => Step1 = "service"
          /\ position = 3 => Step1 = "reload"
          /\ position = 4 => Step1 = "enabled"
          /\ position = 5 => Step1 = "active"
      BY <2>4, StepsAre DEF Step1
    <3>3. effects' = effects \cup ({Step1} \ {"reload"}) /\ passedOver' = passedOver
      BY <2>2, <2>4
    <3>4. SystemdInv
      BY <2>4 DEF EffectsInv
    <3>5. position \in {1, 2, 3, 4, 5}
      BY <1>0
    <3>6. effects' \subseteq Kinds /\ effects \subseteq effects'
      BY <1>0, <3>2, <3>3, <3>5
    <3> DEFINE done == {"timer", "service", "enabled", "active"}
    <3>8. /\ position >= 2 => "timer" \in effects
          /\ position >= 3 => "service" \in effects
          /\ position >= 5 => "enabled" \in effects
          /\ ~passedOver /\ "active" \in effects => done \subseteq effects
          /\ reported = "installed" => done \subseteq effects
      BY <2>4, <3>4 DEF SystemdInv
    <3>9. ASSUME position = 5 PROVE SystemdInv'
      <4>1. operation' = "none" /\ done \subseteq effects'
        BY <2>3, <2>4, <3>1, <3>2, <3>3, <3>8, <3>9
      <4> QED  BY <2>3, <3>1, <3>9, <4>1 DEF SystemdInv
    <3>10. ASSUME position # 5 PROVE SystemdInv'
      <4>1. position' = position + 1 /\ position' \in 2..5 /\ UNCHANGED <<operation, reported>>
        BY <2>3, <3>1, <3>5, <3>10
      <4>2. "active" \in effects' => "active" \in effects
        BY <3>2, <3>3, <3>5, <3>10
      <4>3. /\ position' >= 2 => "timer" \in effects'
            /\ position' >= 3 => "service" \in effects'
            /\ position' >= 5 => "enabled" \in effects'
        BY <3>2, <3>3, <3>5, <3>8, <4>1
      <4>4. ~passedOver' /\ "active" \in effects' => done \subseteq effects'
        BY <3>3, <3>8, <4>2
      <4>5. reported' = "installed" => done \subseteq effects'
        BY <3>3, <3>8, <4>1
      <4> QED  BY <2>4, <4>1, <4>3, <4>4, <4>5 DEF SystemdInv
    <3>7. SystemdInv' /\ position' \in 1..5
      <4>1. position' \in 1..5
        BY <2>3, <3>1, <3>5
      <4> QED  BY <3>9, <3>10, <4>1
    <3> QED  BY <1>0, <1>00, <2>1, <2>3, <2>4, <3>1, <3>3, <3>6, <3>7 DEF EffectsInv, SchedulerTypeOK
  <2>5. CASE platform = "linux" /\ operation = "uninstall"
    <3>1. Len(Steps(operation)) = 4
      BY <2>5, StepsAre
    <3>2. /\ position = 1 => Step1 = "active"
          /\ position = 2 => Step1 = "enabled"
          /\ position = 3 => Step1 = "timer"
          /\ position = 4 => Step1 = "service"
      BY <2>5, StepsAre DEF Step1
    <3>3. /\ effects' \subseteq effects
          /\ ~passedOver' => ~passedOver /\ effects' = effects \ {Step1}
          /\ passedOver' \in BOOLEAN
      BY <1>0, <2>2, <2>5
    <3>4. SystemdInv
      BY <2>5 DEF EffectsInv
    <3>5. position \in {1, 2, 3, 4}
      BY <2>5, <3>4 DEF SystemdInv
    <3>6. operation' = "uninstall" \/ reported' = "uninstalled"
      BY <2>3, <2>5
    <3>8. position' \in 1..4 /\ (operation' = "uninstall" => position' = position + 1)
      <4>1. CASE position = 4
        BY <2>3, <3>1, <4>1
      <4>2. CASE position # 4
        BY <2>3, <3>1, <3>5, <4>2
      <4> QED  BY <4>1, <4>2
    <3>9. ~passedOver /\ "active" \in effects => position = 1 /\ {"timer", "service", "enabled"} \subseteq effects
      BY <2>5, <3>4, <3>5 DEF SystemdInv
    <3>10. ~passedOver' => "active" \notin effects'
      BY <3>2, <3>3, <3>9
    <3>11. operation' = "uninstall" \/ operation' = "none"
      BY <2>3, <2>5
    <3>12. reported' = "installed" => operation' = "uninstall"
      BY <3>6
    <3>7. SystemdInv' /\ position' \in 1..5
      BY <3>8, <3>10, <3>11, <3>12 DEF SystemdInv
    <3> QED  BY <1>0, <1>00, <2>1, <2>3, <2>5, <3>1, <3>3, <3>7 DEF EffectsInv, SchedulerTypeOK
  <2>6. CASE platform = "darwin"
    <3>1. Len(Steps(operation)) = 2 /\ Step1 \in {"plist", "active"}
      BY <1>0, <2>1, <2>6, StepsAre DEF Step1, EffectsInv, LaunchdInv
    <3>2. operation = "install" => /\ position = 1 => Step1 = "plist"
                                   /\ position = 2 => Step1 = "active"
      BY <2>6, StepsAre DEF Step1
    <3>3. LaunchdInv
      BY <2>6 DEF EffectsInv
    <3>4. passedOver' \in BOOLEAN /\ effects' \subseteq Kinds
      BY <1>0, <2>2, <3>1
    <3>5. operation = "install" => effects' = effects \cup {Step1}
      BY <2>2, <3>1
    <3>6. position \in {1, 2}
      BY <2>1, <3>3 DEF LaunchdInv
    <3>7. LaunchdInv' /\ position' \in 1..5
      BY <1>0, <2>1, <2>3, <3>1, <3>2, <3>3, <3>5, <3>6 DEF LaunchdInv
    <3> QED  BY <1>0, <1>00, <2>1, <2>3, <2>6, <3>1, <3>4, <3>7 DEF EffectsInv, SchedulerTypeOK
  <2>7. CASE platform = "win32"
    <3>1. TaskInv
      BY <2>7 DEF EffectsInv
    <3>2. Len(Steps(operation)) = 1 /\ Step1 = "task"
      BY <2>7, <3>1, StepsAre DEF Step1, TaskInv
    <3>3. passedOver' \in BOOLEAN /\ effects' \subseteq Kinds
      BY <1>0, <2>2, <3>2
    <3>4. operation = "install" => effects' = effects \cup {"task"}
      BY <2>2, <3>2
    <3>5. TaskInv' /\ position' \in 1..5
      BY <1>0, <2>1, <2>3, <3>1, <3>2, <3>4 DEF TaskInv
    <3> QED  BY <1>0, <1>00, <2>1, <2>3, <2>7, <3>2, <3>1, <3>3, <3>5 DEF EffectsInv, SchedulerTypeOK, TaskInv
  <2> QED  BY <1>0, <2>1, <2>4, <2>5, <2>6, <2>7
<1>5. CASE OpenFile
  <2>1. /\ operation = "install" /\ effects' = effects \cup {Step} /\ Step \in Files
        /\ UNCHANGED <<platform, operation, position, reported, passedOver>>
    BY <1>5 DEF OpenFile
  <2>2. effects' \subseteq Kinds /\ ("active" \in effects' <=> "active" \in effects)
    BY <1>0, <2>1 DEF Files
  <2>4. ASSUME SystemdInv PROVE SystemdInv'
    BY <2>1, <2>2, <2>4 DEF SystemdInv
  <2>5. ASSUME LaunchdInv PROVE LaunchdInv'
    BY <2>1, <2>5 DEF LaunchdInv
  <2>6. ASSUME TaskInv PROVE TaskInv'
    BY <2>1, <2>6 DEF TaskInv
  <2> QED  BY <1>0, <1>00, <2>1, <2>2, <2>4, <2>5, <2>6 DEF EffectsInv, SchedulerTypeOK
<1>6. CASE UNCHANGED schedulerVars
  BY <1>0, <1>00, <1>6 DEF schedulerVars, EffectsInv, SchedulerTypeOK, SystemdInv, LaunchdInv, TaskInv
<1> QED  BY <1>1, <1>2, <1>3, <1>4, <1>5, <1>6 DEF SchedulerNext

\* A file is opened at its own step of install(), which does not end before it is written.
LEMMA WholeFilesKept == SchedulerInv /\ [SchedulerNext]_schedulerVars => WholeFilesInv'
<1> SUFFICES ASSUME SchedulerInv, [SchedulerNext]_schedulerVars PROVE WholeFilesInv'
  OBVIOUS
<1>0. /\ platform \in {"none", "linux", "darwin", "win32"}
      /\ operation \in {"none", "install", "uninstall"}
      /\ position \in 1..5 /\ position \in Int
      /\ platform = "none" => operation = "none"
      /\ operation = "none" => position = 1
      /\ platform = "darwin" /\ operation # "none" => position \in 1..2
      /\ platform = "linux" /\ operation = "uninstall" => position \in 1..4
      /\ platform = "win32" => position = 1
      /\ WholeFilesInv
  BY DEF SchedulerInv, EffectsInv, SchedulerTypeOK, SystemdInv, LaunchdInv, TaskInv
<1>1. CASE CreateScheduler
  BY <1>0, <1>1 DEF CreateScheduler, WholeFilesInv
<1>2. ASSUME NEW op \in {"install", "uninstall"}, BeginOperation(op) PROVE WholeFilesInv'
  BY <1>0, <1>2 DEF BeginOperation, WholeFilesInv
<1>3. CASE SchedulerDies \/ InstallStepFails
  BY <1>0, <1>3 DEF SchedulerDies, InstallStepFails, EndOperation, WholeFilesInv
<1>10. /\ platform = "linux" /\ operation = "install" =>
            /\ position = 1 => Step = "timer"
            /\ position = 2 => Step = "service"
            /\ position = 3 => Step = "reload"
            /\ position = 4 => Step = "enabled"
            /\ position = 5 => Step = "active"
            /\ Len(Steps(operation)) = 5
       /\ platform = "darwin" /\ operation = "install" =>
            /\ position = 1 => Step = "plist"
            /\ position = 2 => Step = "active"
            /\ Len(Steps(operation)) = 2
       /\ platform = "win32" /\ operation = "install" =>
            Step = "task" /\ Len(Steps(operation)) = 1
  BY <1>0, StepsAre DEF Step
<1>4. CASE OpenFile
  <2>1. /\ operation = "install" /\ Step \in {"timer", "service", "plist"}
        /\ halfWritten' = halfWritten \cup {Step}
        /\ UNCHANGED <<platform, operation, position, reported>>
    BY <1>4 DEF OpenFile, Files
  <2>2. CASE platform = "linux"
    <3>1. \/ position = 1 /\ Step = "timer"
          \/ position = 2 /\ Step = "service"
      BY <1>0, <1>10, <2>1, <2>2
    <3> QED  BY <1>0, <2>1, <2>2, <3>1 DEF WholeFilesInv
  <2>3. CASE platform = "darwin"
    <3>1. position = 1 /\ Step = "plist"
      BY <1>0, <1>10, <2>1, <2>3
    <3> QED  BY <1>0, <2>1, <2>3, <3>1 DEF WholeFilesInv
  <2> QED  BY <1>0, <1>10, <2>1, <2>2, <2>3
<1>5. CASE UninstallStepFails
  <2>1. /\ operation = "uninstall" /\ UNCHANGED <<platform, halfWritten>>
        /\ operation' \in {"uninstall", "none"}
        /\ reported' = "uninstalled" \/ operation' = "uninstall"
    BY <1>5 DEF UninstallStepFails, Advance, EndOperation
  <2> QED  BY <1>0, <2>1 DEF WholeFilesInv
<1>6. CASE StepWorks /\ operation # "install"
  <2>1. /\ operation = "uninstall" /\ UNCHANGED platform /\ halfWritten' \subseteq halfWritten
        /\ operation' \in {"uninstall", "none"}
        /\ reported' = "uninstalled" \/ operation' = "uninstall"
    BY <1>0, <1>6 DEF StepWorks, Advance, EndOperation
  <2> QED  BY <1>0, <2>1 DEF WholeFilesInv
<1>7. CASE StepWorks /\ operation = "install"
  <2>1. UNCHANGED platform /\ halfWritten' = halfWritten \ {Step}
    BY <1>7 DEF StepWorks
  <2>2. \/ position = Len(Steps(operation)) /\ operation' = "none"
        \/ /\ position # Len(Steps(operation)) /\ position' = position + 1
           /\ UNCHANGED <<operation, reported>>
    BY <1>7 DEF StepWorks, Advance, EndOperation
  <2>3. CASE platform = "linux"
    <3>1. CASE position = 5
      <4>1. halfWritten = {} /\ operation' = "none"
        BY <1>0, <1>7, <1>10, <2>2, <2>3, <3>1 DEF WholeFilesInv
      <4> QED  BY <2>1, <2>3, <4>1 DEF WholeFilesInv
    <3>2. CASE position # 5
      <4>1. position' = position + 1 /\ UNCHANGED <<operation, reported>>
        BY <1>7, <1>10, <2>2, <2>3, <3>2
      <4> QED  BY <1>0, <1>7, <1>10, <2>1, <2>3, <4>1 DEF WholeFilesInv
    <3> QED  BY <3>1, <3>2
  <2>4. CASE platform = "darwin"
    <3>1. CASE position = 2
      <4>1. halfWritten = {} /\ operation' = "none"
        BY <1>0, <1>7, <1>10, <2>2, <2>4, <3>1 DEF WholeFilesInv
      <4> QED  BY <2>1, <2>4, <4>1 DEF WholeFilesInv
    <3>2. CASE position # 2
      <4>1. position = 1 /\ position' = 2 /\ UNCHANGED <<operation, reported>> /\ Step = "plist"
        BY <1>0, <1>7, <1>10, <2>2, <2>4, <3>2
      <4> QED  BY <1>0, <1>7, <2>1, <2>4, <4>1 DEF WholeFilesInv
    <3> QED  BY <3>1, <3>2
  <2>5. CASE platform = "win32"
    BY <1>0, <2>1, <2>5 DEF WholeFilesInv
  <2> QED  BY <1>0, <1>7, <2>3, <2>4, <2>5
<1>8. CASE UNCHANGED schedulerVars
  BY <1>0, <1>8 DEF schedulerVars, WholeFilesInv
<1> QED  BY <1>0, <1>1, <1>2, <1>3, <1>4, <1>5, <1>6, <1>7, <1>8 DEF SchedulerNext

LEMMA SchedulerInvKept == SchedulerInv /\ [SchedulerNext]_schedulerVars => SchedulerInv'
BY EffectsInvKept, WholeFilesKept DEF SchedulerInv

\* What the invariant says about exists(), and about an install() that says it is done.
LEMMA SchedulerInvImplies == SchedulerInv => ExistsMeansComplete
<1> SUFFICES ASSUME SchedulerInv PROVE ExistsMeansComplete
  OBVIOUS
<1>1. CASE platform = "none"
  BY <1>1 DEF SchedulerInv, EffectsInv, WholeFilesInv, ExistsMeansComplete, Exists
<1>2. CASE platform = "linux"
  BY <1>2, LastingAre DEF SchedulerInv, EffectsInv, WholeFilesInv, SystemdInv, ExistsMeansComplete, Exists
<1>3. CASE platform = "darwin"
  BY <1>3, LastingAre DEF SchedulerInv, EffectsInv, WholeFilesInv, LaunchdInv, ExistsMeansComplete, Exists
<1>4. CASE platform = "win32"
  BY <1>4, LastingAre DEF SchedulerInv, EffectsInv, WholeFilesInv, TaskInv, ExistsMeansComplete, Exists
<1> QED  BY <1>1, <1>2, <1>3, <1>4 DEF SchedulerInv, EffectsInv, WholeFilesInv, SchedulerTypeOK

-------------------------------------------------------------------------------
(* Executions in Pyodide *)

\* The servers that may run at each point of an execution.
ServersByPoint ==
    \A e \in PyRuns :
        /\ pyAt[e] \in Returned \cup {"idle"} => servers[e] = {}
        /\ pyAt[e] = "bridge" => servers[e] \subseteq {"stream"}
        /\ pyAt[e] = "proxy" => servers[e] \subseteq {"stream", "bridge"}
        /\ pyAt[e] \in {"stopStream", "stopProxy"} => "bridge" \notin servers[e]
        /\ pyAt[e] = "stopProxy" => "stream" \notin servers[e]

\* Code begins after the interpreter was got and prepared; only code leaves tasks, at its end,
\* and only code and tasks go astray or are misled.
CodeByPoint ==
    \A e \in PyRuns :
        /\ pyAt[e] \in {"idle", "bridge", "proxy", "get", "loading", "inject", "capture"} =>
               code[e] = "none"
        /\ pyAt[e] = "run" => code[e] # "none"
        /\ code[e] = "none" => e \notin strayed \cup misled
        /\ code[e] \in {"none", "running"} => leftTasks[e] = "none"
        /\ pyAt[e] \in {"inject", "capture"} \/ code[e] # "none" => interpreter[e] \in PyRuns

\* An interpreter that was never shared has one user or none; its globals name the proxy of
\* that one, and its sys.stdout is captured by that one from the capture to the restoration,
\* and by nobody otherwise.
UnsharedIsOwn ==
    \A i \in PyRuns \ shared :
        /\ \A e, f \in Users(i) : e = f
        /\ \A e \in Users(i) :
             /\ credentials[i] = e
             /\ Runs(e) => stdout[i] = [now |-> e, original |-> Console, capture |-> e]
             /\ ~Runs(e) => stdout[i].now = Console
        /\ Users(i) = {} => stdout[i].now = Console

\* There nobody is misled, and only the output of tasks goes astray.
NoneStrayed ==
    \A e \in PyRuns : Of(e) \in PyRuns \ shared =>
        e \notin misled /\ (e \in strayed => leftTasks[e] # "none")

PyInv == PyTypeOK /\ ServersByPoint /\ CodeByPoint /\ UnsharedIsOwn /\ NoneStrayed

\* Nothing is started or loaded in the beginning.
LEMMA PyInitInv == PyInit => PyInv
<1> SUFFICES ASSUME PyInit PROVE PyInv
  OBVIOUS
<1> USE DEF PyInit
<1>1. PyTypeOK
  BY DEF PyTypeOK
<1>2. ServersByPoint /\ CodeByPoint /\ NoneStrayed
  BY DEF ServersByPoint, CodeByPoint, NoneStrayed, Returned
<1>3. \A i \in PyRuns : Users(i) = {}
  BY PyAssumption DEF Users, Runs
<1>4. UnsharedIsOwn
  BY <1>3 DEF UnsharedIsOwn
<1> QED  BY <1>1, <1>2, <1>4 DEF PyInv

\* Every step of an execution keeps the types.
LEMMA PyTypesKept == PyTypeOK /\ [PyNext]_pyVars => PyTypeOK'
<1> SUFFICES ASSUME PyTypeOK, [PyNext]_pyVars PROVE PyTypeOK'
  OBVIOUS
<1> USE DEF PyTypeOK
<1>1. ASSUME NEW e \in PyRuns, Begin(e) \/ StartBridge(e) \/ StartProxy(e) \/ CleanUp(e) PROVE PyTypeOK'
  <2>1. UNCHANGED <<pythonVars, shared>>
    BY <1>1 DEF Begin, StartBridge, StartProxy, CleanUp, NothingInPython, Alike
  <2>2. \E w \in SUBSET PyServers : Started(e, w) \/ Stopped(e, w)
    BY <1>1 DEF Begin, StartBridge, StartProxy, CleanUp, StopBridge, StopStream, StopProxy, PyServers,
                StoppedOnProxyError
  <2>3. servers' \in [PyRuns -> SUBSET PyServers]
    BY <2>2 DEF Started, Stopped
  <2>4. \E w \in {"bridge", "proxy", "thrown", "get", "returned", "stopStream", "stopProxy"} : PyGoto(e, w)
    BY <1>1 DEF Begin, StartBridge, StartProxy, CleanUp, StopBridge, StopStream, StopProxy
  <2>5. pyAt' \in [PyRuns -> Returned \cup {"idle", "bridge", "proxy", "get", "loading", "inject",
                           "capture", "run", "stopBridge", "stopStream", "stopProxy"}]
    BY <2>4 DEF PyGoto, Returned
  <2> QED  BY <2>1, <2>3, <2>5 DEF pythonVars
<1>2. ASSUME NEW e \in PyRuns, GetCached(e) \/ GetLoads(e) \/ Loaded(e) \/ LoadFails(e) PROVE PyTypeOK'
  <2>1. UNCHANGED <<code, leftTasks, servers, credentials, stdout, misled, strayed, shared>>
    BY <1>2 DEF GetCached, GetLoads, Loaded, LoadFails, NothingInPython, pythonVars, Alike
  <2>2. \E w \in {"inject", "loading", "stopBridge"} : PyGoto(e, w)
    BY <1>2 DEF GetCached, GetLoads, Loaded, LoadFails
  <2>3. pyAt' \in [PyRuns -> Returned \cup {"idle", "bridge", "proxy", "get", "loading", "inject",
                           "capture", "run", "stopBridge", "stopStream", "stopProxy"}]
    BY <2>2 DEF PyGoto
  <2>4. pyodideCache' \in PyRuns \cup {Console} /\ interpreter' \in [PyRuns -> PyRuns \cup {Console}]
    BY <1>2 DEF GetCached, GetLoads, Loaded, LoadFails, NothingInPython, pythonVars
  <2> QED  BY <2>1, <2>3, <2>4
<1>3. ASSUME NEW e \in PyRuns,
             \/ Inject(e) \/ CaptureStdout(e) \/ PreparationFails(e) \/ CallTool(e) \/ PrintLine(e)
             \/ CodeEnds(e) \/ TasksEnd(e) \/ RestoreStdout(e) \/ ExecutionEnds(e) \/ ExecutionTimesOut(e)
      PROVE  PyTypeOK'
  <2> USE DEF NothingInPython, pythonVars, StaysPut, NoteSharing, Alike
  <2>1. UNCHANGED <<pyodideCache, interpreter, servers>>
    BY <1>3 DEF Inject, CaptureStdout, PreparationFails, CallTool, PrintLine, CodeEnds, TasksEnd,
                RestoreStdout, ExecutionEnds, ExecutionTimesOut
  <2>2. (\E w \in {"capture", "run", "stopBridge"} : PyGoto(e, w)) \/ pyAt' = pyAt
    BY <1>3 DEF Inject, CaptureStdout, PreparationFails, CallTool, PrintLine, CodeEnds, TasksEnd,
                RestoreStdout, ExecutionEnds, ExecutionTimesOut
  <2>3. pyAt' \in [PyRuns -> Returned \cup {"idle", "bridge", "proxy", "get", "loading", "inject",
                           "capture", "run", "stopBridge", "stopStream", "stopProxy"}]
    BY <2>2 DEF PyGoto
  <2>4. strayed' \subseteq PyRuns /\ misled' \subseteq PyRuns
    BY <1>3 DEF Inject, CaptureStdout, PreparationFails, CallTool, PrintLine, CodeEnds, TasksEnd,
                RestoreStdout, ExecutionEnds, ExecutionTimesOut
  <2>5. shared' \subseteq PyRuns
    BY <1>3 DEF Inject, CaptureStdout, PreparationFails, CallTool, PrintLine, CodeEnds, TasksEnd,
                RestoreStdout, ExecutionEnds, ExecutionTimesOut
  <2>6. code' \in [PyRuns -> {"none", "running", "restoring", "over"}]
    BY <1>3 DEF Inject, CaptureStdout, PreparationFails, CallTool, PrintLine, CodeEnds, TasksEnd,
                RestoreStdout, ExecutionEnds, ExecutionTimesOut
  <2>7. leftTasks' \in [PyRuns -> {"none", "going", "gone"}]
    <3>1. leftTasks' = leftTasks \/ \E l \in {"none", "going", "gone"} : leftTasks' = [leftTasks EXCEPT ![e] = l]
      <4>1. CASE CodeEnds(e) \/ TasksEnd(e)
        BY <4>1 DEF CodeEnds, TasksEnd
      <4>2. CASE ~(CodeEnds(e) \/ TasksEnd(e))
        BY <1>3, <4>2 DEF Inject, CaptureStdout, PreparationFails, CallTool, PrintLine, RestoreStdout,
                          ExecutionEnds, ExecutionTimesOut
      <4> QED  BY <4>1, <4>2
    <3> QED  BY <3>1
  <2>8. credentials' \in [PyRuns -> PyRuns \cup {Console}]
    BY <1>3 DEF Inject, Injected, CaptureStdout, PreparationFails, CallTool, PrintLine, CodeEnds, TasksEnd,
                RestoreStdout, ExecutionEnds, ExecutionTimesOut
  <2>9. stdout' \in [PyRuns -> [now : PyRuns \cup {Console}, original : PyRuns \cup {Console},
                                capture : PyRuns \cup {Console}]]
    <3>1. CASE CaptureStdout(e)
      BY <3>1 DEF CaptureStdout
    <3>2. CASE RestoreStdout(e)
      <4>1. stdout' = [stdout EXCEPT ![interpreter[e]].now = stdout[interpreter[e]].original]
        BY <3>2 DEF RestoreStdout, Of
      <4>2. CASE interpreter[e] \in PyRuns
        BY <4>1, <4>2
      <4>3. CASE interpreter[e] \notin PyRuns
        BY <4>1, <4>3
      <4> QED  BY <4>2, <4>3
    <3>3. CASE PreparationFails(e)
      BY <3>3 DEF PreparationFails
    <3>4. CASE UNCHANGED stdout
      BY <3>4
    <3> QED  BY <1>3, <3>1, <3>2, <3>3, <3>4 DEF Inject, CallTool, PrintLine, CodeEnds, TasksEnd,
                ExecutionEnds, ExecutionTimesOut
  <2> QED  BY <2>1, <2>3, <2>4, <2>5, <2>6, <2>7, <2>8, <2>9
<1>4. CASE UNCHANGED pyVars
  BY <1>4 DEF pyVars, pythonVars
<1> QED  BY <1>1, <1>2, <1>3, <1>4 DEF PyNext

\* However an execution ends, it passes the stopping of what it has started.
LEMMA ServersByPointKept == PyInv /\ [PyNext]_pyVars => ServersByPoint'
<1> SUFFICES ASSUME PyInv, [PyNext]_pyVars PROVE ServersByPoint'
  OBVIOUS
<1> USE DEF PyInv, ServersByPoint, Returned
<1>0. /\ servers \in [PyRuns -> SUBSET PyServers]
      /\ DOMAIN pyAt = PyRuns /\ pyAt = [e \in PyRuns |-> pyAt[e]]
  BY DEF PyTypeOK
<1>1. ASSUME NEW e \in PyRuns, Begin(e) \/ StartBridge(e) \/ StartProxy(e) \/ CleanUp(e)
      PROVE  ServersByPoint'
  BY <1>0, <1>1 DEF Begin, StartBridge, StartProxy, CleanUp, StopBridge, StopStream, StopProxy, PyServers,
              StoppedOnProxyError, Started, Stopped, PyGoto
<1>2. ASSUME NEW e \in PyRuns, UNCHANGED servers,
             \/ pyAt' = pyAt
             \/ PyGoto(e, "inject") \/ PyGoto(e, "loading") \/ PyGoto(e, "stopBridge")
             \/ PyGoto(e, "capture") \/ PyGoto(e, "run")
      PROVE  ServersByPoint'
  BY <1>0, <1>2 DEF PyGoto
<1>3. ASSUME NEW e \in PyRuns,
             \/ GetCached(e) \/ GetLoads(e) \/ Loaded(e) \/ LoadFails(e)
             \/ Inject(e) \/ CaptureStdout(e) \/ PreparationFails(e) \/ CallTool(e) \/ PrintLine(e)
             \/ CodeEnds(e) \/ TasksEnd(e) \/ RestoreStdout(e) \/ ExecutionEnds(e) \/ ExecutionTimesOut(e)
      PROVE  ServersByPoint'
  BY <1>2, <1>3 DEF GetCached, GetLoads, Loaded, LoadFails, Inject, CaptureStdout, PreparationFails, CallTool,
              PrintLine, CodeEnds, TasksEnd, RestoreStdout, ExecutionEnds, ExecutionTimesOut, StaysPut
<1>4. CASE UNCHANGED pyVars
  BY <1>4 DEF pyVars
<1> QED  BY <1>1, <1>3, <1>4 DEF PyNext

\* Code starts where an interpreter was prepared for it.
LEMMA CodeByPointKept == PyInv /\ [PyNext]_pyVars => CodeByPoint'
<1> SUFFICES ASSUME PyInv, [PyNext]_pyVars PROVE CodeByPoint'
  OBVIOUS
<1> USE DEF CodeByPoint
<1>0. /\ CodeByPoint
      /\ DOMAIN pyAt = PyRuns /\ pyAt = [e \in PyRuns |-> pyAt[e]]
      /\ code \in [PyRuns -> {"none", "running", "restoring", "over"}]
      /\ leftTasks \in [PyRuns -> {"none", "going", "gone"}]
      /\ interpreter \in [PyRuns -> PyRuns \cup {Console}]
      /\ pyodideCache \in PyRuns \cup {Console}
  BY DEF PyInv, PyTypeOK
\* Before an execution has an interpreter it has no code.
<1>1. ASSUME NEW e \in PyRuns, pyAt[e] \in {"idle", "bridge", "proxy", "get"},
             UNCHANGED <<interpreter, code, leftTasks, misled, strayed>>,
             NEW w \in {"bridge", "proxy", "get", "loading", "thrown", "returned"}, PyGoto(e, w)
      PROVE  CodeByPoint'
  BY <1>0, <1>1 DEF PyGoto
\* Afterwards it may have.
<1>2. ASSUME NEW e \in PyRuns, UNCHANGED <<interpreter, code, leftTasks, misled, strayed>>,
             NEW w \in {"stopBridge", "stopStream", "stopProxy", "returned"}, PyGoto(e, w)
      PROVE  CodeByPoint'
  BY <1>0, <1>2 DEF PyGoto
<1>3. ASSUME NEW e \in PyRuns, Begin(e) \/ StartBridge(e) \/ StartProxy(e) \/ CleanUp(e) PROVE CodeByPoint'
  BY <1>1, <1>2, <1>3 DEF Begin, StartBridge, StartProxy, CleanUp, StopBridge, StopStream, StopProxy,
                          NothingInPython, pythonVars
<1>4. ASSUME NEW e \in PyRuns, GetLoads(e) PROVE CodeByPoint'
  BY <1>1, <1>4 DEF GetLoads, NothingInPython, pythonVars
<1>5. ASSUME NEW e \in PyRuns, GetCached(e) \/ Loaded(e) PROVE CodeByPoint'
  <2>1. pyAt[e] \in {"get", "loading"} /\ PyGoto(e, "inject") /\ UNCHANGED <<code, leftTasks, misled, strayed>>
    BY <1>5 DEF GetCached, Loaded
  <2>2. PICK i \in PyRuns : interpreter' = [interpreter EXCEPT ![e] = i]
    BY <1>0, <1>5 DEF GetCached, Loaded
  <2> QED  BY <1>0, <2>1, <2>2 DEF PyGoto
<1>6. ASSUME NEW e \in PyRuns, LoadFails(e) \/ ExecutionEnds(e) \/ ExecutionTimesOut(e) \/ PreparationFails(e)
      PROVE  CodeByPoint'
  BY <1>2, <1>6 DEF LoadFails, ExecutionEnds, ExecutionTimesOut, PreparationFails, NothingInPython, pythonVars,
                    StaysPut
<1>7. ASSUME NEW e \in PyRuns, Inject(e) PROVE CodeByPoint'
  <2>1. pyAt[e] = "inject" /\ PyGoto(e, "capture") /\ UNCHANGED <<interpreter, code, leftTasks, misled, strayed>>
    BY <1>7 DEF Inject, StaysPut
  <2> QED  BY <1>0, <2>1 DEF PyGoto
<1>8. ASSUME NEW e \in PyRuns, CaptureStdout(e) PROVE CodeByPoint'
  <2>1. pyAt[e] = "capture" /\ PyGoto(e, "run") /\ UNCHANGED <<interpreter, leftTasks, misled, strayed>>
    BY <1>8 DEF CaptureStdout, StaysPut
  <2>2. code' = [code EXCEPT ![e] = "running"]
    BY <1>8 DEF CaptureStdout
  <2> QED  BY <1>0, <2>1, <2>2 DEF PyGoto
<1>9. ASSUME NEW e \in PyRuns, CallTool(e) \/ PrintLine(e) \/ CodeEnds(e) \/ TasksEnd(e) \/ RestoreStdout(e)
      PROVE  CodeByPoint'
  <2>1. UNCHANGED <<pyAt, interpreter>> /\ strayed' \subseteq strayed \cup {e} /\ misled' \subseteq misled \cup {e}
    BY <1>9 DEF CallTool, PrintLine, CodeEnds, TasksEnd, RestoreStdout, StaysPut
  <2>2. code[e] # "none"
    BY <1>0, <1>9 DEF CallTool, PrintLine, CodeEnds, TasksEnd, RestoreStdout, Acts
  <2>3. CASE UNCHANGED <<code, leftTasks>>
    BY <1>0, <2>1, <2>2, <2>3
  <2>4. CASE CodeEnds(e)
    <3>1. code' = [code EXCEPT ![e] = "restoring"] /\ \A f \in PyRuns : f # e => leftTasks'[f] = leftTasks[f]
      BY <1>0, <2>4 DEF CodeEnds
    <3> QED  BY <1>0, <2>1, <2>2, <3>1
  <2>5. CASE TasksEnd(e)
    <3>1. code' = code /\ leftTasks' = [leftTasks EXCEPT ![e] = "gone"] /\ code[e] \notin {"none", "running"}
      BY <1>0, <2>5 DEF TasksEnd
    <3> QED  BY <1>0, <2>1, <2>2, <3>1
  <2>6. CASE RestoreStdout(e)
    <3>1. code' = [code EXCEPT ![e] = "over"] /\ leftTasks' = leftTasks
      BY <2>6 DEF RestoreStdout
    <3> QED  BY <1>0, <2>1, <2>2, <3>1
  <2> QED  BY <1>9, <2>3, <2>4, <2>5, <2>6 DEF CallTool, PrintLine
<1>10. CASE UNCHANGED pyVars
  BY <1>10 DEF pyVars, pythonVars, PyInv
<1> QED  BY <1>3, <1>4, <1>5, <1>6, <1>7, <1>8, <1>9, <1>10 DEF PyNext

\* Whoever counts the users of an interpreter finds two of them shared.
LEMMA TwoShare ==
    ASSUME NoteSharing, NEW i \in PyRuns, i \notin shared', NEW e \in Users(i)', NEW f \in Users(i)'
    PROVE  e = f
<1> SUFFICES ASSUME e # f PROVE FALSE
  OBVIOUS
<1> DEFINE U == Users(i)'
<1>1. U \subseteq PyRuns
  BY DEF Users
<1>2. ~(Cardinality(U) > 1)
  BY DEF NoteSharing
<1> HIDE DEF U
<1>3. IsFiniteSet(U)
  BY <1>1, FS_Subset, PyAssumption
<1>4. e \in U /\ f \in U
  BY DEF U
<1>5. IsFiniteSet({e}) /\ Cardinality({e}) = 1
  BY FS_Singleton
<1>6. Cardinality({e} \cup {f}) = 2
  BY <1>5, FS_AddElement
<1>7. Cardinality({e} \cup {f}) <= Cardinality(U)
  BY <1>3, <1>4, FS_Subset
<1>8. Cardinality(U) \in Nat
  BY <1>3, FS_CardinalityType
<1> QED  BY <1>2, <1>6, <1>7, <1>8

\* As long as an interpreter is not shared, preparing it, capturing and restoring its output
\* are all the doing of one execution.
LEMMA UnsharedKept == PyInv /\ [PyNext]_pyVars => UnsharedIsOwn'
<1> SUFFICES ASSUME PyInv, [PyNext]_pyVars, NEW i \in PyRuns, i \notin shared'
             PROVE  /\ \A e, f \in Users(i)' : e = f
                    /\ \A e \in Users(i)' :
                         /\ credentials'[i] = e
                         /\ Runs(e)' => stdout'[i] = [now |-> e, original |-> Console, capture |-> e]
                         /\ ~Runs(e)' => stdout'[i].now = Console
                    /\ Users(i)' = {} => stdout'[i].now = Console
  BY DEF UnsharedIsOwn
<1> DEFINE Own ==
      /\ \A e, f \in Users(i) : e = f
      /\ \A e \in Users(i) :
           /\ credentials[i] = e
           /\ Runs(e) => stdout[i] = [now |-> e, original |-> Console, capture |-> e]
           /\ ~Runs(e) => stdout[i].now = Console
      /\ Users(i) = {} => stdout[i].now = Console
<1> SUFFICES Own'
  OBVIOUS
<1>0. /\ CodeByPoint
      /\ DOMAIN pyAt = PyRuns /\ pyAt = [e \in PyRuns |-> pyAt[e]]
      /\ code \in [PyRuns -> {"none", "running", "restoring", "over"}]
      /\ leftTasks \in [PyRuns -> {"none", "going", "gone"}]
      /\ interpreter \in [PyRuns -> PyRuns \cup {Console}]
      /\ credentials \in [PyRuns -> PyRuns \cup {Console}]
      /\ DOMAIN stdout = PyRuns /\ stdout = [j \in PyRuns |-> stdout[j]]
  BY DEF PyInv, PyTypeOK
<1>000. stdout \in [PyRuns -> [now : PyRuns \cup {Console}, original : PyRuns \cup {Console},
                                 capture : PyRuns \cup {Console}]]
  BY DEF PyInv, PyTypeOK
<1>00. Own
  <2>1. shared \subseteq shared'
    BY DEF PyNext, Begin, StartBridge, StartProxy, CleanUp, GetCached, GetLoads, Loaded, LoadFails, Inject,
           CaptureStdout, PreparationFails, CallTool, PrintLine, CodeEnds, TasksEnd, RestoreStdout,
           ExecutionEnds, ExecutionTimesOut, NoteSharing, Alike, pyVars
  <2> QED  BY <2>1 DEF PyInv, UnsharedIsOwn
\* Nobody comes or goes.
<1>1. ASSUME Users(i)' = Users(i), UNCHANGED <<credentials, stdout>>,
             \A e \in Users(i) : Runs(e)' <=> Runs(e)
      PROVE  Own'
  BY <1>00, <1>1
<1>2. ASSUME NEW e \in PyRuns,
             \/ Begin(e) \/ StartBridge(e) \/ StartProxy(e) \/ CleanUp(e) \/ GetLoads(e) \/ LoadFails(e)
             \/ GetCached(e) \/ Loaded(e)
      PROVE  Own'
  <2>1. UNCHANGED <<code, leftTasks, credentials, stdout>>
    BY <1>2 DEF Begin, StartBridge, StartProxy, CleanUp, GetLoads, LoadFails, GetCached, Loaded, NothingInPython,
                pythonVars
  <2>2. pyAt[e] \notin {"capture", "run"} /\ \E w : w \notin {"capture", "run"} /\ pyAt' = [pyAt EXCEPT ![e] = w]
    BY <1>2 DEF Begin, StartBridge, StartProxy, CleanUp, StopBridge, StopStream, StopProxy, GetLoads,
                LoadFails, GetCached, Loaded, PyGoto
  <2>3. interpreter' = interpreter \/ (code[e] = "none" /\ leftTasks[e] = "none" /\ \E j : interpreter' = [interpreter EXCEPT ![e] = j])
    BY <1>0, <1>2 DEF Begin, StartBridge, StartProxy, CleanUp, GetLoads, LoadFails, GetCached, Loaded,
                      NothingInPython, pythonVars, CodeByPoint
  <2>4. Users(i)' = Users(i)
    BY <1>0, <2>1, <2>2, <2>3 DEF Users, Runs
  <2> QED  BY <1>1, <2>1, <2>4 DEF Runs
<1>3. ASSUME NEW e \in PyRuns, CallTool(e) \/ PrintLine(e) PROVE Own'
  <2>1. UNCHANGED <<pyAt, code, leftTasks, interpreter, credentials, stdout>>
    BY <1>3 DEF CallTool, PrintLine, StaysPut
  <2>2. Users(i)' = Users(i)
    BY <2>1 DEF Users, Runs
  <2> QED  BY <1>1, <2>1, <2>2 DEF Runs
<1>9. ASSUME NEW e \in PyRuns, CodeEnds(e) PROVE Own'
  <2>1. UNCHANGED <<pyAt, interpreter, credentials, stdout>> /\ code[e] = "running"
    BY <1>9 DEF CodeEnds, StaysPut
  <2>2. /\ code' = [code EXCEPT ![e] = "restoring"]
        /\ \A f \in PyRuns : f # e => leftTasks'[f] = leftTasks[f]
    BY <1>0, <1>9 DEF CodeEnds
  <2>3. \A f \in PyRuns : Runs(f)' <=> Runs(f)
    BY <1>0, <2>1, <2>2 DEF Runs
  <2>4. Users(i)' = Users(i)
    BY <1>0, <2>1, <2>2, <2>3 DEF Users, Runs
  <2>5. Users(i) \subseteq PyRuns
    BY DEF Users, Runs
  <2> QED  BY <1>1, <2>1, <2>3, <2>4, <2>5
\* Whoever leaves runs no code, so that sys.stdout is restored.
<1>10. ASSUME NEW e \in PyRuns, UNCHANGED <<code, credentials>>, stdout'[i] = stdout[i] \/ ~Runs(e),
              stdout'[i].now = stdout[i].now,
              Users(i)' = Users(i) \/ (e \in Users(i) /\ ~Runs(e) /\ Users(i)' = Users(i) \ {e}),
              e \in Users(i) \/ stdout'[i] = stdout[i]
       PROVE  Own'
  <2>1. CASE Users(i)' = Users(i)
    BY <1>00, <1>10, <2>1 DEF Runs
  <2>2. CASE e \in Users(i) /\ ~Runs(e) /\ Users(i)' = Users(i) \ {e}
    <3>1. Users(i)' = {} /\ stdout[i].now = Console
      BY <1>00, <2>2
    <3> QED  BY <1>10, <3>1
  <2> QED  BY <1>10, <2>1, <2>2
<1>4. ASSUME NEW e \in PyRuns, ExecutionEnds(e) \/ ExecutionTimesOut(e) PROVE Own'
  <2>1. UNCHANGED <<interpreter, code, leftTasks, credentials, stdout>> /\ pyAt[e] = "run"
    BY <1>4 DEF ExecutionEnds, ExecutionTimesOut, NothingInPython, pythonVars
  <2>2. pyAt' = [pyAt EXCEPT ![e] = "stopBridge"]
    BY <1>4 DEF ExecutionEnds, ExecutionTimesOut, PyGoto
  <2>3. Users(i)' = IF Runs(e) \/ leftTasks[e] = "going" THEN Users(i) ELSE Users(i) \ {e}
    BY <1>0, <2>1, <2>2 DEF Users, Runs
  <2>4. Users(i)' = Users(i) \/ (e \in Users(i) /\ ~Runs(e) /\ Users(i)' = Users(i) \ {e})
    BY <2>3
  <2> QED  BY <1>10, <2>1, <2>4
<1>11. ASSUME NEW e \in PyRuns, TasksEnd(e) PROVE Own'
  <2>1. UNCHANGED <<pyAt, interpreter, code, credentials, stdout>>
    BY <1>11 DEF TasksEnd, StaysPut
  <2>2. leftTasks' = [leftTasks EXCEPT ![e] = "gone"]
    BY <1>11 DEF TasksEnd
  <2>3. Users(i)' = IF Runs(e) \/ pyAt[e] \in {"capture", "run"} THEN Users(i) ELSE Users(i) \ {e}
    BY <1>0, <2>1, <2>2 DEF Users, Runs
  <2>4. Users(i)' = Users(i) \/ (e \in Users(i) /\ ~Runs(e) /\ Users(i)' = Users(i) \ {e})
    BY <2>3
  <2> QED  BY <1>10, <2>1, <2>4
<1>12. ASSUME NEW e \in PyRuns, PreparationFails(e) PROVE Own'
  <2>1. pyAt[e] = "capture" /\ UNCHANGED <<interpreter, code, leftTasks, credentials>>
    BY <1>12 DEF PreparationFails, StaysPut
  <2>2. pyAt' = [pyAt EXCEPT ![e] = "stopBridge"]
    BY <1>12 DEF PreparationFails, PyGoto
  <2>3. ~Runs(e) /\ leftTasks[e] = "none" /\ interpreter[e] \in PyRuns
    BY <1>0, <2>1 DEF CodeByPoint, Runs
  <2>4. Users(i)' = Users(i) \ {e}
    BY <1>0, <2>1, <2>2, <2>3 DEF Users, Runs
  <2>5. /\ \A j \in PyRuns : stdout'[j].now = stdout[j].now
        /\ \A j \in PyRuns \ {interpreter[e]} : stdout'[j] = stdout[j]
    <3>1. \/ stdout' = stdout
          \/ stdout' = [stdout EXCEPT ![interpreter[e]].capture = e]
          \/ stdout' = [stdout EXCEPT ![interpreter[e]].capture = e,
                                     ![interpreter[e]].original = stdout[interpreter[e]].now]
      BY <1>12 DEF PreparationFails, Of
    <3> QED  BY <1>000, <2>3, <3>1
  <2>6. e \in Users(i) <=> interpreter[e] = i
    BY <2>1 DEF Users, Runs
  <2> QED  BY <1>10, <2>1, <2>3, <2>4, <2>5, <2>6
<1>5. ASSUME NEW e \in PyRuns, Inject(e) PROVE Own'
  <2>1. pyAt[e] = "inject" /\ pyAt' = [pyAt EXCEPT ![e] = "capture"] /\ UNCHANGED <<interpreter, code, leftTasks, stdout>>
    BY <1>5 DEF Inject, PyGoto, StaysPut
  <2>2. credentials' = [credentials EXCEPT ![interpreter[e]] = e] /\ NoteSharing
    BY <1>5 DEF Inject, Injected, Of
  <2>3. code[e] = "none" /\ leftTasks[e] = "none" /\ interpreter[e] \in PyRuns
    BY <1>0, <2>1 DEF CodeByPoint
  <2>4. CASE interpreter[e] # i
    <3>1. Users(i)' = Users(i) /\ credentials'[i] = credentials[i]
      BY <1>0, <2>1, <2>2, <2>3, <2>4 DEF Users, Runs
    <3> QED  BY <1>00, <2>1, <3>1 DEF Runs
  <2>5. CASE interpreter[e] = i
    <3>1. Users(i)' = Users(i) \cup {e} /\ e \notin Users(i)
      BY <1>0, <2>1, <2>3, <2>5 DEF Users, Runs
    <3>2. \A f, g \in Users(i)' : f = g
      BY <2>2, TwoShare
    <3>3. Users(i) = {} /\ Users(i)' = {e}
      BY <3>1, <3>2
    <3>4. stdout'[i].now = Console /\ credentials'[i] = e /\ code'[e] = "none"
      BY <1>00, <1>0, <2>1, <2>2, <2>3, <2>5, <3>3 DEF Runs
    <3> QED  BY <3>3, <3>4 DEF Runs
  <2> QED  BY <2>4, <2>5
<1>6. ASSUME NEW e \in PyRuns, CaptureStdout(e) PROVE Own'
  <2>1. pyAt[e] = "capture" /\ pyAt' = [pyAt EXCEPT ![e] = "run"] /\ UNCHANGED <<interpreter, leftTasks, credentials>>
    BY <1>6 DEF CaptureStdout, PyGoto, StaysPut
  <2>2. /\ stdout' = [stdout EXCEPT ![interpreter[e]] = [now |-> e, original |-> @.now, capture |-> e]]
        /\ code' = [code EXCEPT ![e] = "running"]
    BY <1>6 DEF CaptureStdout, Of
  <2>3. code[e] = "none" /\ leftTasks[e] = "none" /\ interpreter[e] \in PyRuns
    BY <1>0, <2>1 DEF CodeByPoint
  <2>4. Users(i)' = Users(i)
    BY <1>0, <2>1, <2>2 DEF Users, Runs
  <2>5. CASE interpreter[e] # i
    <3>1. stdout'[i] = stdout[i] /\ e \notin Users(i)
      BY <1>0, <2>2, <2>3, <2>5 DEF Users, Runs
    <3>2. \A f \in Users(i) : code'[f] = code[f]
      BY <1>0, <2>2, <3>1
    <3> QED  BY <1>00, <2>1, <2>4, <3>1, <3>2 DEF Runs
  <2>6. CASE interpreter[e] = i
    <3>1. e \in Users(i)
      BY <2>1, <2>6 DEF Users, Runs
    <3>2. stdout[i].now = Console /\ Users(i) = {e}
      BY <1>00, <2>3, <3>1 DEF Runs
    <3>3. stdout'[i] = [now |-> e, original |-> Console, capture |-> e] /\ code'[e] = "running"
      BY <1>0, <2>2, <2>6, <3>2
    <3> QED  BY <1>00, <2>1, <2>4, <3>2, <3>3 DEF Runs
  <2> QED  BY <2>5, <2>6
<1>7. ASSUME NEW e \in PyRuns, RestoreStdout(e) PROVE Own'
  <2>1. code[e] = "restoring" /\ UNCHANGED <<pyAt, interpreter, leftTasks, credentials>>
    BY <1>7 DEF RestoreStdout, StaysPut
  <2>2. /\ code' = [code EXCEPT ![e] = "over"]
        /\ stdout' = [stdout EXCEPT ![interpreter[e]].now = stdout[interpreter[e]].original]
    BY <1>7 DEF RestoreStdout, Of
  <2>3. interpreter[e] \in PyRuns
    BY <1>0, <2>1 DEF CodeByPoint
  <2>4. CASE interpreter[e] # i
    <3>1. stdout'[i] = stdout[i] /\ e \notin Users(i) /\ Users(i)' = Users(i)
      BY <1>0, <2>1, <2>2, <2>3, <2>4 DEF Users, Runs
    <3>2. \A f \in Users(i) : code'[f] = code[f]
      BY <1>0, <2>2, <3>1
    <3> QED  BY <1>00, <2>1, <3>1, <3>2 DEF Runs
  <2>5. CASE interpreter[e] = i
    <3>1. e \in Users(i)
      BY <2>1, <2>5 DEF Users, Runs
    <3>2. Users(i) = {e} /\ stdout[i] = [now |-> e, original |-> Console, capture |-> e]
      BY <1>00, <2>1, <3>1 DEF Runs
    <3>3. stdout'[i].now = Console /\ code'[e] = "over"
      BY <1>0, <2>2, <2>5, <3>2
    <3>4. Users(i)' \subseteq {e}
      BY <1>0, <2>1, <2>2, <3>2 DEF Users, Runs
    <3> QED  BY <1>00, <2>1, <3>2, <3>3, <3>4 DEF Runs
  <2> QED  BY <2>4, <2>5
<1>8. CASE UNCHANGED pyVars
  <2>1. UNCHANGED <<pyAt, interpreter, code, leftTasks, credentials, stdout>>
    BY <1>8 DEF pyVars, pythonVars
  <2>2. Users(i)' = Users(i)
    BY <2>1 DEF Users, Runs
  <2> QED  BY <1>1, <2>1, <2>2 DEF Runs
<1> QED  BY <1>2, <1>3, <1>4, <1>5, <1>6, <1>7, <1>8, <1>9, <1>11, <1>12 DEF PyNext

\* Code and tasks that call in an interpreter of their own reach their own proxy, and what code
\* prints reaches its own capture.
LEMMA NoneStrayedKept == PyInv /\ [PyNext]_pyVars => NoneStrayed'
<1> SUFFICES ASSUME PyInv, [PyNext]_pyVars, NEW f \in PyRuns, interpreter'[f] \in PyRuns,
                    interpreter'[f] \notin shared'
             PROVE  f \notin misled' /\ (f \in strayed' => leftTasks'[f] # "none")
  BY DEF NoneStrayed, Of
<1> DEFINE Goal == f \notin misled' /\ (f \in strayed' => leftTasks'[f] # "none")
<1>0. /\ CodeByPoint
      /\ code \in [PyRuns -> {"none", "running", "restoring", "over"}]
      /\ leftTasks \in [PyRuns -> {"none", "going", "gone"}]
      /\ interpreter \in [PyRuns -> PyRuns \cup {Console}]
  BY DEF PyInv, PyTypeOK
<1>1. shared \subseteq shared'
  BY DEF PyNext, Begin, StartBridge, StartProxy, CleanUp, GetCached, GetLoads, Loaded, LoadFails, Inject,
         CaptureStdout, PreparationFails, CallTool, PrintLine, CodeEnds, TasksEnd, RestoreStdout,
         ExecutionEnds, ExecutionTimesOut, NoteSharing, Alike, pyVars
<1>00. interpreter'[f] = interpreter[f] => f \notin misled /\ (f \in strayed => leftTasks[f] # "none")
  BY <1>1 DEF PyInv, NoneStrayed, Of
<1>2. ASSUME UNCHANGED <<interpreter, leftTasks, misled, strayed>> PROVE Goal
  BY <1>00, <1>2
<1>3. ASSUME NEW e \in PyRuns, GetCached(e) \/ Loaded(e) PROVE Goal
  <2>1. pyAt[e] \in {"get", "loading"} /\ UNCHANGED <<leftTasks, misled, strayed>>
    BY <1>3 DEF GetCached, Loaded
  <2>2. f = e => f \notin strayed \cup misled
    BY <1>0, <2>1 DEF CodeByPoint
  <2>3. f # e => interpreter'[f] = interpreter[f]
    BY <1>0, <1>3 DEF GetCached, Loaded
  <2> QED  BY <1>00, <2>1, <2>2, <2>3
\* What whoever acts finds in an interpreter of its own.
<1>4. ASSUME Runs(f) \/ leftTasks[f] = "going", interpreter' = interpreter
      PROVE  /\ credentials[interpreter[f]] = f
             /\ Runs(f) => stdout[interpreter[f]] = [now |-> f, original |-> Console, capture |-> f]
  <2>1. f \in Users(interpreter[f]) /\ interpreter[f] \in PyRuns \ shared
    BY <1>1, <1>4 DEF Users
  <2> QED  BY <2>1 DEF PyInv, UnsharedIsOwn
<1>5. ASSUME NEW e \in PyRuns, CallTool(e) PROVE Goal
  <2>1. UNCHANGED <<interpreter, leftTasks, strayed>>
        /\ misled' = misled \cup (IF credentials[interpreter[e]] # e THEN {e} ELSE {})
    BY <1>5 DEF CallTool, StaysPut, Of
  <2>2. f = e => Runs(f) \/ leftTasks[f] = "going"
    BY <1>5 DEF CallTool, Acts, Runs
  <2> QED  BY <1>00, <1>4, <2>1, <2>2
<1>6. ASSUME NEW e \in PyRuns, PrintLine(e) PROVE Goal
  <2>1. UNCHANGED <<interpreter, leftTasks, misled>>
        /\ strayed' = strayed \cup (IF stdout[interpreter[e]].now # e THEN {e} ELSE {})
    BY <1>6 DEF PrintLine, StaysPut, Of
  <2>2. f = e => Runs(f) \/ leftTasks[f] = "going"
    BY <1>6 DEF PrintLine, Acts, Runs
  <2> QED  BY <1>00, <1>4, <2>1, <2>2
<1>7. ASSUME NEW e \in PyRuns, RestoreStdout(e) PROVE Goal
  <2>1. UNCHANGED <<interpreter, leftTasks, misled>>
        /\ strayed' = strayed \cup (IF stdout[interpreter[e]].capture # e THEN {e} ELSE {})
    BY <1>7 DEF RestoreStdout, StaysPut, Of
  <2>2. f = e => Runs(f)
    BY <1>7 DEF RestoreStdout, Runs
  <2> QED  BY <1>00, <1>4, <2>1, <2>2
<1>8. ASSUME NEW e \in PyRuns, CodeEnds(e) \/ TasksEnd(e) PROVE Goal
  <2>1. UNCHANGED <<interpreter, misled, strayed>>
    BY <1>8 DEF CodeEnds, TasksEnd, StaysPut
  <2>2. f # e => leftTasks'[f] = leftTasks[f]
    BY <1>0, <1>8 DEF CodeEnds, TasksEnd
  <2>3. f = e => leftTasks[f] = "none" \/ leftTasks'[f] = "gone"
    BY <1>0, <1>8 DEF CodeEnds, TasksEnd, CodeByPoint
  <2> QED  BY <1>00, <2>1, <2>2, <2>3
<1>9. ASSUME NEW e \in PyRuns,
             \/ Begin(e) \/ StartBridge(e) \/ StartProxy(e) \/ CleanUp(e) \/ GetLoads(e) \/ LoadFails(e)
             \/ Inject(e) \/ CaptureStdout(e) \/ PreparationFails(e) \/ ExecutionEnds(e) \/ ExecutionTimesOut(e)
      PROVE Goal
  BY <1>2, <1>9 DEF Begin, StartBridge, StartProxy, CleanUp, GetLoads, LoadFails, Inject, CaptureStdout,
                    PreparationFails, ExecutionEnds, ExecutionTimesOut, NothingInPython, pythonVars, StaysPut
<1>10. CASE UNCHANGED pyVars
  BY <1>2, <1>10 DEF pyVars, pythonVars
<1> QED  BY <1>3, <1>5, <1>6, <1>7, <1>8, <1>9, <1>10 DEF PyNext

\* The parts together.
LEMMA PyInvKept == PyInv /\ [PyNext]_pyVars => PyInv'
<1> SUFFICES ASSUME PyInv, [PyNext]_pyVars PROVE PyInv'
  OBVIOUS
<1>1. PyTypeOK'
  BY PyTypesKept DEF PyInv
<1> QED  BY <1>1, ServersByPointKept, CodeByPointKept, UnsharedKept, NoneStrayedKept DEF PyInv

\* What the invariant says about the servers and the output of an execution.
LEMMA PyInvImplies == PyInv => ServersAreStopped /\ OwnProxyUnlessShared
<1> SUFFICES ASSUME PyInv PROVE ServersAreStopped /\ OwnProxyUnlessShared
  OBVIOUS
<1>1. ServersAreStopped
  BY DEF PyInv, ServersByPoint, ServersAreStopped
<1>2. ASSUME NEW e \in PyRuns, Of(e) # Console, Of(e) \notin shared
      PROVE  /\ e \notin misled
             /\ e \in strayed => leftTasks[e] # "none"
             /\ (\A f \in PyRuns : Of(f) = Of(e) => ~Runs(f)) => stdout[Of(e)].now = Console
  <2>1. Of(e) \in PyRuns \ shared
    BY <1>2 DEF PyInv, PyTypeOK, Of
  <2>2. e \notin misled /\ (e \in strayed => leftTasks[e] # "none")
    BY <2>1 DEF PyInv, NoneStrayed
  <2>3. \A f \in Users(Of(e)) : f \in PyRuns /\ Of(f) = Of(e)
    BY DEF Users, Of
  <2>4. (\A f \in PyRuns : Of(f) = Of(e) => ~Runs(f)) => stdout[Of(e)].now = Console
    BY <2>1, <2>3 DEF PyInv, UnsharedIsOwn
  <2> QED  BY <2>2, <2>4
<1> QED  BY <1>1, <1>2 DEF OwnProxyUnlessShared

-------------------------------------------------------------------------------
(* The configuration writer *)

\* Files hold settings, and whoever writes is in the middle of its update.
ConfigTypes ==
    /\ ConfigTypeOK
    /\ DOMAIN files = {ConfigFile, TempFile, BackupFile}
    /\ \A f \in DOMAIN files : files[f].status = "whole" => files[f].data \subseteq Settings
    /\ \A p \in Processes : updating[p] # "writing" => writing[p] = NotWriting
    /\ \A p \in Processes : updating[p] = "writing" => writing[p].file \in {TempFile, ConfigFile}

\* Without two updates at a time the one under way has merged what is saved, or replaces it,
\* and has the temporary file to itself.
OneUpdate ==
    ~overlapped =>
        /\ \A p, q \in UnderWay : p = q
        /\ \A p \in UnderWay : IF p \in replacing THEN p \in merged[p]
                               ELSE saved \cup {p} \subseteq merged[p]
        /\ \A p \in UnderWay : updating[p] = "writing" => writing[p].file = TempFile /\ ~writing[p].mixed
        /\ \A p \in UnderWay : updating[p] = "rename" => files[TempFile] = Whole(merged[p])

ConfigInv == ConfigTypes /\ OneUpdate /\ ConfigIsWhole

\* The three files have different names, none of which is the absence of one.
LEMMA FileNames ==
    /\ ConfigFile # TempFile /\ ConfigFile # BackupFile /\ TempFile # BackupFile
    /\ ConfigFile # NoFileName /\ TempFile # NoFileName
<1>1. Len(ConfigFile) = 1 /\ Len(TempFile) = 2 /\ Len(BackupFile) = 2 /\ Len(NoFileName) = 0
  BY DEF ConfigFile, TempFile, BackupFile, NoFileName
<1>2. TempFile[2] = "tmp" /\ BackupFile[2] = "backup"
  BY DEF TempFile, BackupFile
<1> QED  BY <1>1, <1>2

\* The configuration is what the user left there, or nothing.
LEMMA ConfigInitInv == ConfigInit => ConfigInv
<1> SUFFICES ASSUME ConfigInit PROVE ConfigInv
  OBVIOUS
<1> USE FileNames DEF ConfigInit
<1>1. /\ DOMAIN files = {ConfigFile, TempFile, BackupFile}
      /\ files[TempFile] = Absent /\ files[BackupFile] = Absent
      /\ \/ files[ConfigFile] = Whole(UserSettings) /\ saved = UserSettings
         \/ files[ConfigFile] = Absent /\ saved = {}
  BY DEF Whole, Absent
<1>2. \A f \in DOMAIN files : /\ files[f].status \in {"absent", "torn", "whole"}
                              /\ files[f].status = "whole" => files[f].data \subseteq Settings
  BY <1>1 DEF Whole, Absent, Settings
<1>3. NotWriting \in [file : DOMAIN files \cup {NoFileName}, mixed : BOOLEAN]
  BY DEF NotWriting
<1>4. FilesTypeOK
  BY <1>2, <1>3 DEF FilesTypeOK
<1>5. overlapped \in BOOLEAN
  OBVIOUS
<1>6. ConfigTypeOK
  BY <1>1, <1>4, <1>5 DEF ConfigTypeOK, Settings
<1>7. ConfigTypes
  BY <1>1, <1>2, <1>6 DEF ConfigTypes
<1>8. OneUpdate
  BY DEF OneUpdate, UnderWay
<1>9. ConfigIsWhole
  BY <1>1 DEF ConfigIsWhole, IsWhole, Whole, NoConfig
<1> QED  BY <1>7, <1>8, <1>9 DEF ConfigInv

FileNamesAre == {ConfigFile, TempFile, BackupFile}

\* What a file may hold is one of three kinds.
LEMMA ContentsAre ==
    ConfigTypes => \A f \in FileNamesAre :
        files[f].status \in {"absent", "torn"} \/ (files[f].status = "whole" /\ files[f].data \subseteq Settings)
BY DEF ConfigTypes, ConfigTypeOK, FilesTypeOK, FileNamesAre

\* The files keep their kinds: they are copied, emptied, renamed, or filled with what was
\* merged.
LEMMA FilesKept ==
    ASSUME ConfigTypes, [ConfigNext]_configVars
    PROVE  /\ DOMAIN files' = FileNamesAre
           /\ \A f \in FileNamesAre :
                files'[f].status \in {"absent", "torn"} \/ (files'[f].status = "whole" /\ files'[f].data \subseteq Settings)
<1> DEFINE Good(x) == x.status \in {"absent", "torn"} \/ (x.status = "whole" /\ x.data \subseteq Settings)
           Goal == DOMAIN files' = FileNamesAre /\ \A f \in FileNamesAre : Good(files'[f])
<1>0. DOMAIN files = FileNamesAre /\ \A f \in FileNamesAre : Good(files[f])
  BY ContentsAre DEF ConfigTypes, FileNamesAre
<1>00. /\ merged \in [Processes -> SUBSET Settings]
       /\ ConfigFile \in FileNamesAre /\ TempFile \in FileNamesAre /\ BackupFile \in FileNamesAre
  BY DEF ConfigTypes, ConfigTypeOK, FileNamesAre
<1>000. Good(Absent) /\ Good(Torn) /\ \A d \in SUBSET Settings : Good(Whole(d))
  BY DEF Absent, Torn, Whole
<1> SUFFICES Goal
  OBVIOUS
<1> HIDE DEF Good
<1>1. ASSUME files' = files PROVE Goal
  BY <1>0, <1>1
<1>2. ASSUME NEW f \in FileNamesAre, NEW x, Good(x), files' = [files EXCEPT ![f] = x] PROVE Goal
  BY <1>0, <1>2
<1>3. ASSUME NEW p \in Processes, CopyToBackup(p) \/ BackupConfig(p) PROVE Goal
  <2>1. files' = files \/ files' = [files EXCEPT ![BackupFile] = files[ConfigFile]]
    BY <1>3 DEF CopyToBackup, BackupConfig
  <2> QED  BY <1>0, <1>00, <1>1, <1>2, <2>1
<1>4. ASSUME NEW p \in Processes, WriteTemp(p) PROVE Goal
  <2>1. files' = [files EXCEPT ![TempFile] = Torn]
    BY <1>4 DEF WriteTemp, WrittenFile, BeginWrite
  <2> QED  BY <1>00, <1>000, <1>2, <2>1
<1>5. ASSUME NEW p \in Processes, TempWritten(p) PROVE Goal
  <2>1. updating[p] = "writing" /\ EndWrite(p, merged[p])
    BY <1>5 DEF TempWritten
  <2>2. writing[p].file \in FileNamesAre
    BY <1>00, <2>1 DEF ConfigTypes
  <2>3. files' = [files EXCEPT ![writing[p].file] = Whole(merged[p])]
        \/ files' = [files EXCEPT ![writing[p].file] = Torn]
    BY <2>1 DEF EndWrite
  <2>4. merged[p] \in SUBSET Settings
    BY <1>00
  <2> QED  BY <1>000, <1>2, <2>2, <2>3, <2>4
<1>6. ASSUME NEW p \in Processes, Rename(p) PROVE Goal
  <2>1. files' = [files EXCEPT ![ConfigFile] = files[TempFile], ![TempFile] = Absent]
    BY <1>6 DEF Rename, WrittenFile
  <2> QED  BY <1>0, <1>00, <1>000, <2>1
<1>7. ASSUME NEW p \in Processes,
             \/ ReadConfig(p) \/ ReadConfigFails(p) \/ WriteConfig(p) \/ WriteTempFails(p)
             \/ RenameFails(p) \/ UpdaterDies(p)
      PROVE  files' = files
  BY <1>7 DEF ReadConfig, ReadConfigFails, WriteConfig, WriteTempFails, RenameFails, UpdaterDies, fileVars,
              FailWrite
<1>8. CASE UNCHANGED configVars
  BY <1>1, <1>8 DEF configVars, fileVars
<1> QED  BY <1>1, <1>3, <1>4, <1>5, <1>6, <1>7, <1>8 DEF ConfigNext

\* A process is in the middle of a write exactly as long as its update says so.
LEMMA WritesKept ==
    ASSUME ConfigTypes, [ConfigNext]_configVars
    PROVE  /\ writing' \in [Processes -> [file : FileNamesAre \cup {NoFileName}, mixed : BOOLEAN]]
           /\ \A p \in Processes : updating'[p] # "writing" => writing'[p] = NotWriting
           /\ \A p \in Processes : updating'[p] = "writing" => writing'[p].file \in {TempFile, ConfigFile}
           /\ updating' \in [Processes -> {"idle", "copy", "write", "writing", "rename", "failed", "dead"}]
<1> DEFINE Writes == [file : FileNamesAre \cup {NoFileName}, mixed : BOOLEAN]
           Where == {"idle", "copy", "write", "writing", "rename", "failed", "dead"}
           Goal == /\ writing' \in [Processes -> Writes]
                   /\ \A p \in Processes : updating'[p] # "writing" => writing'[p] = NotWriting
                   /\ \A p \in Processes : updating'[p] = "writing" => writing'[p].file \in {TempFile, ConfigFile}
                   /\ updating' \in [Processes -> Where]
<1>0. /\ writing \in [Processes -> Writes] /\ updating \in [Processes -> Where]
      /\ \A p \in Processes : updating[p] # "writing" => writing[p] = NotWriting
      /\ \A p \in Processes : updating[p] = "writing" => writing[p].file \in {TempFile, ConfigFile}
      /\ ConfigFile \in FileNamesAre /\ TempFile \in FileNamesAre
  BY DEF ConfigTypes, ConfigTypeOK, FilesTypeOK, FileNamesAre
<1>00. NotWriting \in Writes
  BY DEF NotWriting
<1> SUFFICES Goal
  OBVIOUS
<1>1. ASSUME NEW p \in Processes, updating[p] # "writing", writing' = writing,
             NEW w \in Where \ {"writing"}, updating' = [updating EXCEPT ![p] = w]
      PROVE  Goal
  BY <1>0, <1>1
<1>2. ASSUME NEW p \in Processes, NEW w \in Where \ {"writing"}, updating' = [updating EXCEPT ![p] = w],
             StopWriting(p)
      PROVE  Goal
  BY <1>0, <1>00, <1>2 DEF StopWriting
<1>3. ASSUME NEW p \in Processes,
             ReadConfig(p) \/ ReadConfigFails(p) \/ WriteConfig(p) \/ CopyToBackup(p) \/ RenameFails(p)
      PROVE  Goal
  BY <1>1, <1>3 DEF ReadConfig, ReadConfigFails, WriteConfig, CopyToBackup, RenameFails, Proceed, fileVars
<1>4. ASSUME NEW p \in Processes, TempWritten(p) \/ WriteTempFails(p) \/ UpdaterDies(p) PROVE Goal
  BY <1>2, <1>4 DEF TempWritten, WriteTempFails, UpdaterDies, EndWrite, FailWrite, Proceed
<1>5. ASSUME NEW p \in Processes, WriteTemp(p) PROVE Goal
  <2>1. updating' = [updating EXCEPT ![p] = "writing"]
    BY <1>5 DEF WriteTemp, Proceed
  <2>2. writing' = [q \in Processes |->
                     IF q = p THEN [file |-> TempFile, mixed |-> Writers(TempFile) # {}]
                     ELSE IF q \in Writers(TempFile) THEN [file |-> TempFile, mixed |-> TRUE]
                     ELSE writing[q]]
    BY <1>5 DEF WriteTemp, BeginWrite, WrittenFile
  <2>3. writing' \in [Processes -> Writes]
    BY <1>0, <2>2
  <2>4. ASSUME NEW q \in Processes
        PROVE  /\ updating'[q] # "writing" => writing'[q] = NotWriting
               /\ updating'[q] = "writing" => writing'[q].file \in {TempFile, ConfigFile}
    <3>1. q \in Writers(TempFile) => updating[q] = "writing"
      BY <1>0, FileNames DEF Writers, NotWriting
    <3>2. CASE q = p
      BY <1>0, <2>1, <2>2, <3>2
    <3>3. CASE q # p /\ q \in Writers(TempFile)
      BY <1>0, <2>1, <2>2, <3>1, <3>3
    <3>4. CASE q # p /\ q \notin Writers(TempFile)
      BY <1>0, <2>1, <2>2, <3>4
    <3> QED  BY <3>2, <3>3, <3>4
  <2> QED  BY <1>0, <2>1, <2>3, <2>4
<1>6. ASSUME NEW p \in Processes, Rename(p) PROVE Goal
  <2>1. updating' = [updating EXCEPT ![p] = "idle"] /\ updating[p] = "rename"
    BY <1>6 DEF Rename, Proceed
  <2>2. writing' = [q \in Processes |-> IF writing[q].file = TempFile
                                        THEN [writing[q] EXCEPT !.file = ConfigFile] ELSE writing[q]]
    BY <1>6 DEF Rename
  <2>3. writing' \in [Processes -> Writes]
    BY <1>0, <2>2
  <2>4. ASSUME NEW q \in Processes
        PROVE  /\ updating'[q] # "writing" => writing'[q] = NotWriting
               /\ updating'[q] = "writing" => writing'[q].file \in {TempFile, ConfigFile}
    <3>1. writing[q] = NotWriting => writing'[q] = NotWriting
      BY <2>2, FileNames DEF NotWriting
    <3>2. updating'[q] = "writing" => updating[q] = "writing"
      BY <1>0, <2>1
    <3>3. updating'[q] # "writing" => updating[q] # "writing"
      BY <1>0, <2>1
    <3>4. writing[q].file \in {TempFile, ConfigFile} => writing'[q].file \in {TempFile, ConfigFile}
      BY <1>0, <2>2
    <3> QED  BY <1>0, <3>1, <3>2, <3>3, <3>4
  <2> QED  BY <1>0, <2>1, <2>3, <2>4
<1>7. ASSUME UNCHANGED <<writing, updating>> PROVE Goal
  BY <1>0, <1>7
<1>8. ASSUME NEW p \in Processes, BackupConfig(p) PROVE Goal
  BY <1>7, <1>8 DEF BackupConfig
<1>9. CASE UNCHANGED configVars
  BY <1>7, <1>9 DEF configVars, fileVars
<1> QED  BY <1>3, <1>4, <1>5, <1>6, <1>8, <1>9 DEF ConfigNext

\* Every step that moves an update counts those under way.
LEMMA UpdatesAreCounted ==
    [ConfigNext]_configVars =>
        overlapped' = overlapped \/ overlapped' = (overlapped \/ Cardinality(UnderWay') > 1)
<1>1. ASSUME NEW p \in Processes, NEW w, Proceed(p, w)
      PROVE  overlapped' = (overlapped \/ Cardinality(UnderWay') > 1)
  BY <1>1 DEF Proceed
<1>2. ASSUME NEW p \in Processes,
             \/ ReadConfig(p) \/ ReadConfigFails(p) \/ WriteConfig(p) \/ CopyToBackup(p)
             \/ WriteTemp(p) \/ TempWritten(p) \/ WriteTempFails(p)
             \/ Rename(p) \/ RenameFails(p) \/ UpdaterDies(p)
      PROVE  \E w : Proceed(p, w)
  BY <1>2 DEF ReadConfig, ReadConfigFails, WriteConfig, CopyToBackup, WriteTemp, TempWritten,
     WriteTempFails, Rename, RenameFails, UpdaterDies
<1>3. ASSUME NEW p \in Processes, BackupConfig(p) PROVE overlapped' = overlapped
  BY <1>3 DEF BackupConfig
<1>4. CASE UNCHANGED configVars
  BY <1>4 DEF configVars
<1> QED  BY <1>1, <1>2, <1>3, <1>4 DEF ConfigNext

\* The types, of the files and of the rest.
LEMMA ConfigTypesKept == ConfigTypes /\ [ConfigNext]_configVars => ConfigTypes'
<1> SUFFICES ASSUME ConfigTypes, [ConfigNext]_configVars PROVE ConfigTypes'
  OBVIOUS
<1>0. /\ merged \in [Processes -> SUBSET Settings] /\ Processes \subseteq Settings
      /\ replacing \subseteq Processes /\ saved \subseteq Settings /\ overlapped \in BOOLEAN
  BY DEF ConfigTypes, ConfigTypeOK, Settings
<1>1. merged' \in [Processes -> SUBSET Settings]
  <2>1. ASSUME NEW p \in Processes, ReadConfig(p) PROVE merged' \in [Processes -> SUBSET Settings]
    <3>1. Existing \subseteq Settings
      BY <2>1, ContentsAre DEF ReadConfig, IsWhole, FileNamesAre, Existing, NoConfig
    <3>2. {p} \cup Existing \in SUBSET Settings
      BY <1>0, <3>1
    <3> QED  BY <1>0, <2>1, <3>2 DEF ReadConfig, MergedWith
  <2>2. ASSUME NEW p \in Processes, WriteConfig(p) PROVE merged' \in [Processes -> SUBSET Settings]
    <3>1. {p} \in SUBSET Settings
      BY <1>0
    <3> QED  BY <1>0, <2>2, <3>1 DEF WriteConfig
  <2>3. ASSUME NEW p \in Processes,
               \/ ReadConfigFails(p) \/ CopyToBackup(p) \/ WriteTemp(p) \/ TempWritten(p)
               \/ WriteTempFails(p) \/ Rename(p) \/ RenameFails(p) \/ BackupConfig(p) \/ UpdaterDies(p)
        PROVE  merged' = merged
    BY <2>3 DEF ReadConfigFails, CopyToBackup, WriteTemp, TempWritten, WriteTempFails, Rename, RenameFails,
                BackupConfig, UpdaterDies
  <2>4. CASE UNCHANGED configVars
    BY <1>0, <2>4 DEF configVars
  <2> QED  BY <1>0, <2>1, <2>2, <2>3, <2>4 DEF ConfigNext
<1>2. replacing' \subseteq Processes /\ saved' \subseteq Settings /\ overlapped' \in BOOLEAN
  <2>1. replacing' \subseteq Processes /\ saved' \subseteq Settings
    BY <1>0 DEF ConfigNext, ReadConfig, ReadConfigFails, WriteConfig, CopyToBackup, WriteTemp, TempWritten,
       WriteTempFails, Rename, RenameFails, BackupConfig, UpdaterDies, configVars
  <2>3. overlapped' \in BOOLEAN
    BY <1>0, UpdatesAreCounted
  <2> QED  BY <2>1, <2>3
<1>3. FilesTypeOK'
  BY FilesKept, WritesKept DEF FilesTypeOK
<1>4. ConfigTypeOK'
  BY <1>1, <1>2, <1>3, WritesKept DEF ConfigTypeOK
<1> QED  BY <1>4, FilesKept, WritesKept DEF ConfigTypes, FileNamesAre

\* Whoever counts the updates under way finds two of them overlapped.
LEMMA TwoOverlap ==
    ASSUME NEW p, NEW w, Proceed(p, w), ~overlapped', NEW e \in UnderWay', NEW f \in UnderWay'
    PROVE  e = f
<1> SUFFICES ASSUME e # f PROVE FALSE
  OBVIOUS
<1> DEFINE U == UnderWay'
<1>1. U \subseteq Processes
  BY DEF UnderWay
<1>2. ~(Cardinality(U) > 1)
  BY DEF Proceed
<1> HIDE DEF U
<1>3. IsFiniteSet(U)
  BY <1>1, FS_Subset, FilesAssumption
<1>4. e \in U /\ f \in U
  BY DEF U
<1>5. IsFiniteSet({e}) /\ Cardinality({e}) = 1
  BY FS_Singleton
<1>6. Cardinality({e} \cup {f}) = 2
  BY <1>5, FS_AddElement
<1>7. Cardinality({e} \cup {f}) <= Cardinality(U)
  BY <1>3, <1>4, FS_Subset
<1>8. Cardinality(U) \in Nat
  BY <1>3, FS_CardinalityType
<1> QED  BY <1>2, <1>6, <1>7, <1>8

\* One update at a time writes what it merged, and then what is saved is in the file.
LEMMA OneUpdateKept ==
    ConfigInv /\ [ConfigNext]_configVars => OneUpdate' /\ ConfigIsWhole'
<1> SUFFICES ASSUME ConfigInv, [ConfigNext]_configVars, ~overlapped'
             PROVE  OneUpdate' /\ ConfigIsWhole'
  BY DEF OneUpdate, ConfigIsWhole
<1> DEFINE Kept(p) ==
      /\ IF p \in replacing THEN p \in merged[p] ELSE saved \cup {p} \subseteq merged[p]
      /\ updating[p] = "writing" => writing[p].file = TempFile /\ ~writing[p].mixed
      /\ updating[p] = "rename" => files[TempFile] = Whole(merged[p])
           WholeFile == \/ NoConfig /\ saved = {}
                        \/ files[ConfigFile].status = "whole" /\ saved \subseteq files[ConfigFile].data
           Goal == /\ \A p, q \in UnderWay' : p = q
                   /\ \A p \in UnderWay' : Kept(p)'
                   /\ WholeFile'
<1>0. /\ updating \in [Processes -> {"idle", "copy", "write", "writing", "rename", "failed", "dead"}]
      /\ merged \in [Processes -> SUBSET Settings]
      /\ DOMAIN files = FileNamesAre
      /\ ConfigFile \in FileNamesAre /\ TempFile \in FileNamesAre /\ BackupFile \in FileNamesAre
      /\ writing \in [Processes -> [file : FileNamesAre \cup {NoFileName}, mixed : BOOLEAN]]
  BY DEF ConfigInv, ConfigTypes, ConfigTypeOK, FilesTypeOK, FileNamesAre
<1>00. ~overlapped
  BY UpdatesAreCounted
<1>000. (\A p, q \in UnderWay : p = q) /\ (\A p \in UnderWay : Kept(p)) /\ WholeFile
  BY <1>00 DEF ConfigInv, OneUpdate, ConfigIsWhole, IsWhole
<1>0000. WholeFile => saved \subseteq Existing
  BY DEF Existing, NoConfig, Absent
<1> SUFFICES Goal
  BY DEF OneUpdate, ConfigIsWhole, IsWhole
<1> USE DEF NoConfig
\* The update under way goes on, or ends without having an effect.
<1>1. ASSUME UnderWay' \subseteq UnderWay, UNCHANGED <<merged, replacing, saved>>,
             files'[ConfigFile] = files[ConfigFile], files'[TempFile] = files[TempFile],
             \A q \in UnderWay' : \/ writing'[q] = writing[q] /\ updating'[q] = updating[q]
                                  \/ updating'[q] \notin {"writing", "rename"}
      PROVE  Goal
  BY <1>000, <1>1
<1>2. ASSUME NEW p \in Processes, ReadConfig(p) \/ WriteConfig(p) PROVE Goal
  <2>1. Proceed(p, "copy") /\ updating' = [updating EXCEPT ![p] = "copy"] /\ UNCHANGED <<files, writing, saved>>
    BY <1>2 DEF ReadConfig, WriteConfig, Proceed, fileVars
  <2>2. p \in UnderWay'
    BY <1>0, <2>1 DEF UnderWay
  <2>3. \A q \in UnderWay' : q = p
    BY <2>1, <2>2, TwoOverlap
  <2>4. Kept(p)'
    <3>1. CASE ReadConfig(p)
      <4>1. p \notin replacing' /\ merged' = [merged EXCEPT ![p] = {p} \cup Existing]
        BY <3>1 DEF ReadConfig, MergedWith
      <4>2. saved' \cup {p} \subseteq merged'[p]
        BY <1>0, <1>000, <1>0000, <2>1, <4>1
      <4> QED  BY <1>0, <2>1, <4>1, <4>2
    <3>2. CASE WriteConfig(p)
      <4>1. p \in replacing' /\ merged' = [merged EXCEPT ![p] = {p}]
        BY <3>2 DEF WriteConfig
      <4> QED  BY <1>0, <2>1, <4>1
    <3> QED  BY <1>2, <3>1, <3>2
  <2> QED  BY <1>000, <2>1, <2>3, <2>4
<1>3. ASSUME NEW p \in Processes, ReadConfigFails(p) \/ RenameFails(p) PROVE Goal
  <2>1. updating' = [updating EXCEPT ![p] = "failed"] /\ UNCHANGED <<files, writing, saved, merged, replacing>>
    BY <1>3 DEF ReadConfigFails, RenameFails, Proceed, fileVars
  <2>2. UnderWay' \subseteq UnderWay /\ \A q \in UnderWay' : updating'[q] = updating[q]
    BY <1>0, <2>1 DEF UnderWay
  <2> QED  BY <1>1, <2>1, <2>2
<1>4. ASSUME NEW p \in Processes, WriteTempFails(p) \/ UpdaterDies(p) PROVE Goal
  <2>1. PICK w \in {"failed", "dead"} : updating' = [updating EXCEPT ![p] = w]
    BY <1>4 DEF WriteTempFails, UpdaterDies, Proceed
  <2>2. UNCHANGED <<files, saved, merged, replacing>> /\ writing' = [writing EXCEPT ![p] = NotWriting]
    BY <1>4 DEF WriteTempFails, UpdaterDies, FailWrite, StopWriting
  <2>3. UnderWay' \subseteq UnderWay /\ \A q \in UnderWay' : updating'[q] = updating[q] /\ writing'[q] = writing[q]
    BY <1>0, <2>1, <2>2 DEF UnderWay
  <2> QED  BY <1>1, <2>2, <2>3
<1>5. ASSUME NEW p \in Processes, BackupConfig(p) PROVE Goal
  <2>1. files' = [files EXCEPT ![BackupFile] = files[ConfigFile]]
        /\ UNCHANGED <<writing, updating, merged, replacing, saved>>
    BY <1>5 DEF BackupConfig
  <2>2. files'[ConfigFile] = files[ConfigFile] /\ files'[TempFile] = files[TempFile]
    BY <1>0, <2>1, FileNames
  <2>3. UnderWay' = UnderWay
    BY <2>1 DEF UnderWay
  <2> QED  BY <1>1, <2>1, <2>2, <2>3
<1>6. ASSUME NEW p \in Processes, CopyToBackup(p) PROVE Goal
  <2>1. updating[p] = "copy" /\ updating' = [updating EXCEPT ![p] = "write"]
        /\ UNCHANGED <<writing, merged, replacing, saved>>
    BY <1>6 DEF CopyToBackup, Proceed
  <2>2. files' = files \/ files' = [files EXCEPT ![BackupFile] = files[ConfigFile]]
    BY <1>6 DEF CopyToBackup
  <2>3. files'[ConfigFile] = files[ConfigFile] /\ files'[TempFile] = files[TempFile]
    BY <1>0, <2>2, FileNames
  <2>4. UnderWay' = UnderWay /\ \A q \in UnderWay' : updating'[q] = updating[q] \/ updating'[q] = "write"
    BY <1>0, <2>1 DEF UnderWay
  <2> QED  BY <1>1, <2>1, <2>3, <2>4
<1>7. ASSUME NEW p \in Processes, WriteTemp(p) PROVE Goal
  <2>1. updating[p] = "write" /\ updating' = [updating EXCEPT ![p] = "writing"]
        /\ UNCHANGED <<merged, replacing, saved>>
    BY <1>7 DEF WriteTemp, Proceed
  <2>2. files' = [files EXCEPT ![TempFile] = Torn]
        /\ writing' = [q \in Processes |->
                     IF q = p THEN [file |-> TempFile, mixed |-> Writers(TempFile) # {}]
                     ELSE IF q \in Writers(TempFile) THEN [file |-> TempFile, mixed |-> TRUE]
                     ELSE writing[q]]
    BY <1>7 DEF WriteTemp, BeginWrite, WrittenFile
  <2>3. p \in UnderWay /\ UnderWay' = UnderWay
    BY <1>0, <2>1 DEF UnderWay
  <2>4. Writers(TempFile) = {}
    <3> SUFFICES ASSUME NEW q \in Processes, writing[q].file = TempFile PROVE FALSE
      BY DEF Writers
    <3>1. updating[q] = "writing"
      BY FileNames DEF ConfigInv, ConfigTypes, NotWriting
    <3>2. q \in UnderWay
      BY <3>1 DEF UnderWay
    <3> QED  BY <1>000, <2>1, <2>3, <3>1, <3>2
  <2>5. writing'[p].file = TempFile /\ ~writing'[p].mixed
    BY <2>2, <2>4
  <2>6. updating'[p] = "writing"
    BY <1>0, <2>1
  <2>7. \A q \in UnderWay' : q = p
    BY <1>000, <2>3
  <2>8. Kept(p)'
    BY <1>000, <2>1, <2>3, <2>5, <2>6
  <2>9. WholeFile'
    BY <1>0, <1>000, <2>1, <2>2, FileNames
  <2> QED  BY <2>7, <2>8, <2>9
<1>8. ASSUME NEW p \in Processes, TempWritten(p) PROVE Goal
  <2>1. updating[p] = "writing" /\ updating' = [updating EXCEPT ![p] = "rename"]
        /\ UNCHANGED <<merged, replacing, saved>> /\ EndWrite(p, merged[p])
    BY <1>8 DEF TempWritten, Proceed
  <2>2. p \in UnderWay /\ UnderWay' = UnderWay
    BY <1>0, <2>1 DEF UnderWay
  <2>3. writing[p].file = TempFile /\ ~writing[p].mixed
    BY <1>000, <2>1, <2>2
  <2>4. files' = [files EXCEPT ![TempFile] = Whole(merged[p])]
    BY <2>1, <2>3 DEF EndWrite
  <2>5. \A q \in UnderWay' : q = p
    BY <1>000, <2>2
  <2>6. updating'[p] = "rename" /\ files'[TempFile] = Whole(merged'[p])
    BY <1>0, <2>1, <2>4
  <2>7. Kept(p)'
    BY <1>000, <2>1, <2>2, <2>6
  <2>8. WholeFile'
    BY <1>0, <1>000, <2>1, <2>4, FileNames
  <2> QED  BY <2>5, <2>7, <2>8
<1>9. ASSUME NEW p \in Processes, Rename(p) PROVE Goal
  <2>1. updating[p] = "rename" /\ updating' = [updating EXCEPT ![p] = "idle"]
        /\ files' = [files EXCEPT ![ConfigFile] = files[TempFile], ![TempFile] = Absent]
        /\ saved' = IF p \in replacing THEN {p} ELSE saved \cup {p}
    BY <1>9 DEF Rename, Proceed, WrittenFile
  <2>2. p \in UnderWay
    BY <2>1 DEF UnderWay
  <2>3. UnderWay' = {}
    BY <1>0, <1>000, <2>1, <2>2 DEF UnderWay
  <2>4. files[TempFile] = Whole(merged[p])
    BY <1>000, <2>1, <2>2
  <2>5. files'[ConfigFile] = Whole(merged[p])
    BY <1>0, <2>1, <2>4, FileNames
  <2>6. saved' \subseteq merged[p]
    BY <1>000, <2>1, <2>2
  <2>7. WholeFile'
    BY <2>5, <2>6 DEF Whole
  <2> QED  BY <2>3, <2>7
<1>10. CASE UNCHANGED configVars
  <2>1. UNCHANGED <<files, writing, updating, merged, replacing, saved>>
    BY <1>10 DEF configVars, fileVars
  <2>2. UnderWay' = UnderWay
    BY <2>1 DEF UnderWay
  <2> QED  BY <1>1, <2>1, <2>2
<1> QED  BY <1>2, <1>3, <1>4, <1>5, <1>6, <1>7, <1>8, <1>9, <1>10 DEF ConfigNext

\* The parts together.
LEMMA ConfigInvKept == ConfigInv /\ [ConfigNext]_configVars => ConfigInv'
BY ConfigTypesKept, OneUpdateKept DEF ConfigInv

-------------------------------------------------------------------------------
(* The token bucket *)

\* A bucket that is there, or none, and the units in it.
ProperBuckets == {NoBucket} \cup [units : 0..Capacity, age : 0..(StaleAge + 1)]

UnitsIn(b) ==
    IF b = NoBucket THEN Capacity ELSE Min({Capacity, b.units + b.age * MaxPerWindow})

\* What was admitted in the last so many ticks and what is left is no more than the burst
\* and the refill of that time.
TokensAreSpent(b, s) ==
    \A a \in Ages : s[a] * BucketWindow + UnitsIn(b) <= Capacity + a * MaxPerWindow

\* A bucket tells how long ago its client was admitted last; without one it was not of late.
BucketRemembers(b, s) == \A a \in Ages : b = NoBucket \/ b.age > a => s[a] = 0

\* What is missing for a request comes in as long as the client was told to wait.
PromiseIsKept(b, p) == p >= 0 => UnitsIn(b) + p * MaxPerWindow >= BucketWindow

ClientInv(b, s, p) ==
    /\ b \in ProperBuckets /\ s \in [Ages -> Nat] /\ p \in NoPromise..BucketWindow
    /\ TokensAreSpent(b, s) /\ BucketRemembers(b, s) /\ PromiseIsKept(b, p)

BucketInv ==
    /\ BucketTypeOK
    /\ \A c \in BucketClients : ClientInv(bucket[c], served[c], promised[c])

\* The parameters, and what the rest is built from them.
LEMMA BucketNumbers ==
    /\ MaxPerWindow \in Nat /\ MaxPerWindow >= 1
    /\ BucketWindow \in Nat /\ BucketWindow >= 1
    /\ Capacity \in Nat /\ Capacity >= BucketWindow
    /\ StaleAge \in Nat /\ StaleAge >= BucketWindow
<1>1. \A x \in Nat, y \in Nat \ {0} : y * x \in Nat /\ y * x >= x
  OBVIOUS
<1>2. BurstSize * BucketWindow \in Nat /\ BurstSize * BucketWindow >= BucketWindow
  BY <1>1, BucketAssumption
<1> QED  BY <1>2, BucketAssumption DEF Capacity, StaleAge

\* What the ticks of a time refill, with a tick more and a tick less.
LEMMA RefillOfTicks ==
    ASSUME NEW t \in Int
    PROVE  /\ t * MaxPerWindow \in Int
           /\ t >= 0 => t * MaxPerWindow \in Nat /\ t * MaxPerWindow >= t
           /\ (t + 1) * MaxPerWindow = t * MaxPerWindow + MaxPerWindow
           /\ (t - 1) * MaxPerWindow = t * MaxPerWindow - MaxPerWindow
           /\ 0 * MaxPerWindow = 0
<1>1. \A x \in Nat, y \in Nat \ {0} : x * y \in Nat /\ x * y >= x
  OBVIOUS
<1>2. \A x, y \in Int : (x + 1) * y = x * y + y /\ (x - 1) * y = x * y - y /\ 0 * y = 0 /\ x * y \in Int
  OBVIOUS
<1> QED  BY <1>1, <1>2, BucketAssumption

\* checkLimit() counts the units of the client's bucket, before a step and after it.
LEMMA LevelIsUnits ==
    ASSUME NEW c
    PROVE  Level(c) = UnitsIn(bucket[c]) /\ Level(c)' = UnitsIn(bucket'[c])
BY DEF Level, Refilled, UnitsIn

\* A bucket holds no more than its capacity, and as many units as it kept and was refilled with.
LEMMA UnitsAre ==
    ASSUME NEW b \in ProperBuckets
    PROVE  /\ UnitsIn(b) \in Nat /\ UnitsIn(b) <= Capacity
           /\ b = NoBucket => UnitsIn(b) = Capacity
           /\ b # NoBucket =>
                LET filled == b.units + b.age * MaxPerWindow
                IN  /\ b.units \in 0..Capacity /\ b.age \in 0..(StaleAge + 1) /\ filled \in Nat
                    /\ UnitsIn(b) = IF Capacity <= filled THEN Capacity ELSE filled
<1>1. \A x, y \in Nat : Min({x, y}) = IF x <= y THEN x ELSE y
  BY DEF Min
<1>2. CASE b = NoBucket
  BY <1>2, BucketNumbers DEF UnitsIn
<1>3. CASE b # NoBucket
  <2>1. b.units \in 0..Capacity /\ b.age \in 0..(StaleAge + 1)
    BY <1>3 DEF ProperBuckets
  <2>2. b.age * MaxPerWindow \in Nat
    BY <2>1, RefillOfTicks, BucketNumbers
  <2>3. b.units + b.age * MaxPerWindow \in Nat
    BY <2>1, <2>2, BucketNumbers
  <2> QED  BY <1>1, <1>3, <2>1, <2>3, BucketNumbers DEF UnitsIn
<1> QED  BY <1>2, <1>3

\* A bucket that was just used is as full as it says; a tick adds its refill to one that
\* is not stale, and one that is stale has enough for a request.
LEMMA UnitsOf ==
    /\ \A u \in 0..Capacity : LET b == [units |-> u, age |-> 0]
                              IN  b \in ProperBuckets /\ b # NoBucket /\ UnitsIn(b) = u
    /\ \A b \in ProperBuckets : b # NoBucket /\ b.age <= StaleAge =>
         LET older == [b EXCEPT !.age = @ + 1]
         IN  /\ older \in ProperBuckets /\ older # NoBucket /\ older.age = b.age + 1
             /\ UnitsIn(older) >= UnitsIn(b) /\ UnitsIn(older) <= UnitsIn(b) + MaxPerWindow
             /\ UnitsIn(older) = Capacity \/ UnitsIn(older) = UnitsIn(b) + MaxPerWindow
    /\ \A b \in ProperBuckets : b # NoBucket /\ b.age > StaleAge => UnitsIn(b) >= BucketWindow
<1>1. ASSUME NEW u \in 0..Capacity
      PROVE  LET b == [units |-> u, age |-> 0]
             IN  b \in ProperBuckets /\ b # NoBucket /\ UnitsIn(b) = u
  <2> DEFINE b == [units |-> u, age |-> 0]
  <2>1. b \in ProperBuckets /\ b # NoBucket /\ b.units = u /\ b.age = 0
    BY BucketNumbers DEF ProperBuckets, NoBucket
  <2>2. 0 * MaxPerWindow = 0
    BY RefillOfTicks
  <2> HIDE DEF b
  <2> DEFINE filled == b.units + b.age * MaxPerWindow
  <2>3. filled = u
    BY <2>1, <2>2
  <2>4. UnitsIn(b) = IF Capacity <= filled THEN Capacity ELSE filled
    BY <2>1, UnitsAre
  <2> HIDE DEF filled
  <2>5. UnitsIn(b) = u
    BY <2>3, <2>4, BucketNumbers
  <2> QED  BY <2>1, <2>5 DEF b
<1>2. ASSUME NEW b \in ProperBuckets, b # NoBucket, b.age <= StaleAge
      PROVE  LET older == [b EXCEPT !.age = @ + 1]
             IN  /\ older \in ProperBuckets /\ older # NoBucket /\ older.age = b.age + 1
                 /\ UnitsIn(older) >= UnitsIn(b) /\ UnitsIn(older) <= UnitsIn(b) + MaxPerWindow
                 /\ UnitsIn(older) = Capacity \/ UnitsIn(older) = UnitsIn(b) + MaxPerWindow
  <2> DEFINE older == [b EXCEPT !.age = @ + 1]
  <2>1. older \in ProperBuckets /\ older # NoBucket /\ older.age = b.age + 1 /\ older.units = b.units
    BY <1>2, BucketNumbers DEF ProperBuckets, NoBucket
  <2>2. b.age \in Nat /\ b.units \in Nat
    BY <1>2, UnitsAre
  <2>3. (b.age + 1) * MaxPerWindow = b.age * MaxPerWindow + MaxPerWindow
    BY <2>2, RefillOfTicks
  <2> HIDE DEF older
  <2>4. older.units + older.age * MaxPerWindow = (b.units + b.age * MaxPerWindow) + MaxPerWindow
    BY <2>1, <2>2, <2>3, RefillOfTicks, BucketNumbers
  <2> DEFINE before == b.units + b.age * MaxPerWindow
             after == older.units + older.age * MaxPerWindow
  <2>5. before \in Nat /\ UnitsIn(b) = IF Capacity <= before THEN Capacity ELSE before
    BY <1>2, UnitsAre
  <2>6. after \in Nat /\ UnitsIn(older) = IF Capacity <= after THEN Capacity ELSE after
    BY <2>1, UnitsAre
  <2>7. after = before + MaxPerWindow
    BY <2>4
  <2> HIDE DEF before, after
  <2>8. /\ UnitsIn(older) >= UnitsIn(b) /\ UnitsIn(older) <= UnitsIn(b) + MaxPerWindow
        /\ UnitsIn(older) = Capacity \/ UnitsIn(older) = UnitsIn(b) + MaxPerWindow
    BY <2>5, <2>6, <2>7, BucketNumbers
  <2> QED  BY <2>1, <2>8 DEF older
<1>3. ASSUME NEW b \in ProperBuckets, b # NoBucket, b.age > StaleAge
      PROVE  UnitsIn(b) >= BucketWindow
  <2>1. b.age \in Nat /\ b.units \in Nat
    BY <1>3, UnitsAre
  <2>2. b.age * MaxPerWindow \in Nat /\ b.age * MaxPerWindow >= b.age
    BY <2>1, RefillOfTicks
  <2> DEFINE filled == b.units + b.age * MaxPerWindow
  <2>3. filled >= BucketWindow
    BY <1>3, <2>1, <2>2, BucketNumbers
  <2>4. UnitsIn(b) = IF Capacity <= filled THEN Capacity ELSE filled
    BY <1>3, UnitsAre
  <2> HIDE DEF filled
  <2> QED  BY <2>3, <2>4, BucketNumbers
<1> QED  BY <1>1, <1>2, <1>3

\* What is left at a refusal and comes in until the time told is enough for a request.
LEMMA ResetInIs ==
    ASSUME NEW u \in Nat, u < BucketWindow
    PROVE  LET wait == RoundedUp(BucketWindow - u, MaxPerWindow)
           IN  wait \in 0..BucketWindow /\ u + wait * MaxPerWindow >= BucketWindow
<1> DEFINE n == BucketWindow - u
           wait == RoundedUp(n, MaxPerWindow)
<1>1. n \in Nat /\ n <= BucketWindow
  BY BucketNumbers
<1>2. /\ wait \in Nat /\ wait * MaxPerWindow >= n /\ wait * MaxPerWindow < n + MaxPerWindow
  <2> SUFFICES ASSUME NEW k \in Nat
               PROVE  LET w == RoundedUp(k, MaxPerWindow)
                      IN  w \in Nat /\ w * MaxPerWindow >= k /\ w * MaxPerWindow < k + MaxPerWindow
    BY <1>1
  <2> QED  BY BucketAssumption DEF RoundedUp
<1> HIDE DEF wait, n
<1>3. wait <= n
  <2> SUFFICES ASSUME wait - 1 >= n PROVE FALSE
    BY <1>1, <1>2
  <2>1. (wait - 1) * MaxPerWindow = wait * MaxPerWindow - MaxPerWindow
    BY <1>2, RefillOfTicks
  <2>2. \A x, y \in Nat, m \in Nat \ {0} : x >= y => x * m >= y * m
    OBVIOUS
  <2>3. n * MaxPerWindow >= n /\ (wait - 1) * MaxPerWindow >= n * MaxPerWindow
    BY <1>1, <1>2, <2>2, RefillOfTicks, BucketAssumption
  <2>4. n * MaxPerWindow \in Nat /\ wait * MaxPerWindow \in Nat
    BY <1>1, <1>2, RefillOfTicks
  <2> QED  BY <1>1, <1>2, <2>1, <2>3, <2>4, BucketNumbers
<1> QED  BY <1>1, <1>2, <1>3, BucketNumbers DEF wait, n

\* A client without a bucket may take its whole burst.
LEMMA FreshClient == ClientInv(NoBucket, NoneServed, NoPromise)
<1>1. NoBucket \in ProperBuckets /\ UnitsIn(NoBucket) = Capacity
  BY DEF ProperBuckets, UnitsIn
<1>2. NoneServed \in [Ages -> Nat] /\ \A a \in Ages : NoneServed[a] = 0
  BY DEF NoneServed
<1>3. NoPromise \in NoPromise..BucketWindow /\ ~(NoPromise >= 0)
  BY BucketNumbers DEF NoPromise
<1>4. TokensAreSpent(NoBucket, NoneServed)
  <2> SUFFICES ASSUME NEW a \in Ages
               PROVE  NoneServed[a] * BucketWindow + Capacity <= Capacity + a * MaxPerWindow
    BY <1>1 DEF TokensAreSpent
  <2>1. a * MaxPerWindow \in Nat
    BY RefillOfTicks, BucketNumbers DEF Ages
  <2>2. NoneServed[a] * BucketWindow = 0
    BY <1>2, BucketNumbers
  <2> QED  BY <2>1, <2>2, BucketNumbers
<1> QED  BY <1>1, <1>2, <1>3, <1>4 DEF ClientInv, BucketRemembers, PromiseIsKept

\* An admitted request takes one token and is counted once.
LEMMA AdmittedClient ==
    ASSUME NEW b, NEW s, NEW p, ClientInv(b, s, p), UnitsIn(b) >= BucketWindow
    PROVE  ClientInv([units |-> UnitsIn(b) - BucketWindow, age |-> 0],
                     [a \in Ages |-> s[a] + 1], NoPromise)
<1> DEFINE used == [units |-> UnitsIn(b) - BucketWindow, age |-> 0]
           more == [a \in Ages |-> s[a] + 1]
<1>1. UnitsIn(b) \in Nat /\ UnitsIn(b) <= Capacity
  BY UnitsAre DEF ClientInv
<1>2. UnitsIn(b) - BucketWindow \in 0..Capacity
  BY <1>1, BucketNumbers
<1>3. used \in ProperBuckets /\ used # NoBucket /\ UnitsIn(used) = UnitsIn(b) - BucketWindow
  BY <1>2, UnitsOf
<1>4. used.age = 0
  OBVIOUS
<1>5. more \in [Ages -> Nat]
  BY DEF ClientInv
<1>6. TokensAreSpent(used, more)
  <2> SUFFICES ASSUME NEW a \in Ages
               PROVE  (s[a] + 1) * BucketWindow + (UnitsIn(b) - BucketWindow)
                          <= Capacity + a * MaxPerWindow
    BY <1>3 DEF TokensAreSpent
  <2>1. s[a] \in Nat /\ s[a] * BucketWindow + UnitsIn(b) <= Capacity + a * MaxPerWindow
    BY DEF ClientInv, TokensAreSpent
  <2>2. \A x, y \in Nat : (x + 1) * y = x * y + y /\ x * y \in Nat
    OBVIOUS
  <2>3. (s[a] + 1) * BucketWindow = s[a] * BucketWindow + BucketWindow /\ s[a] * BucketWindow \in Nat
    BY <2>1, <2>2, BucketNumbers
  <2>4. a * MaxPerWindow \in Nat
    BY RefillOfTicks, BucketNumbers DEF Ages
  <2> QED  BY <1>1, <2>1, <2>3, <2>4, BucketNumbers
<1>7. \A a \in Ages : ~(used.age > a)
  BY <1>4 DEF Ages
<1>8. NoPromise \in NoPromise..BucketWindow /\ ~(NoPromise >= 0)
  BY BucketNumbers DEF NoPromise
<1> HIDE DEF used, more
<1>9. ClientInv(used, more, NoPromise)
  BY <1>3, <1>5, <1>6, <1>7, <1>8 DEF ClientInv, BucketRemembers, PromiseIsKept
<1> QED  BY <1>9 DEF used, more

\* A refused request takes nothing, and is told a time by which there is a token.
LEMMA RefusedClient ==
    ASSUME NEW b, NEW s, NEW p, ClientInv(b, s, p), ~(UnitsIn(b) >= BucketWindow)
    PROVE  ClientInv([units |-> UnitsIn(b), age |-> 0], s,
                     RoundedUp(BucketWindow - UnitsIn(b), MaxPerWindow))
<1> DEFINE used == [units |-> UnitsIn(b), age |-> 0]
           wait == RoundedUp(BucketWindow - UnitsIn(b), MaxPerWindow)
<1>1. UnitsIn(b) \in Nat /\ UnitsIn(b) <= Capacity
  BY UnitsAre DEF ClientInv
<1>2. UnitsIn(b) \in 0..Capacity /\ UnitsIn(b) < BucketWindow
  BY <1>1, BucketNumbers
<1>3. used \in ProperBuckets /\ used # NoBucket /\ UnitsIn(used) = UnitsIn(b)
  BY <1>2, UnitsOf
<1>4. used.age = 0
  OBVIOUS
<1>5. wait \in 0..BucketWindow /\ UnitsIn(b) + wait * MaxPerWindow >= BucketWindow
  BY <1>1, <1>2, ResetInIs
<1>6. \A a \in Ages : ~(used.age > a)
  BY <1>4 DEF Ages
<1> HIDE DEF used, wait
<1>7. wait \in NoPromise..BucketWindow
  BY <1>5, BucketNumbers DEF NoPromise
<1>8. ClientInv(used, s, wait)
  BY <1>3, <1>5, <1>6, <1>7 DEF ClientInv, TokensAreSpent, BucketRemembers, PromiseIsKept
<1> QED  BY <1>8 DEF used, wait

\* A stale bucket is one that had filled up: nothing is lost with it.
LEMMA ForgottenClient ==
    ASSUME NEW b, NEW s, NEW p, ClientInv(b, s, p), b.age > StaleAge, b # NoBucket
    PROVE  ClientInv(NoBucket, s, p)
<1>1. NoBucket \in ProperBuckets /\ UnitsIn(NoBucket) = Capacity
  BY DEF ProperBuckets, UnitsIn
<1>2. b.age \in Nat
  BY UnitsAre, BucketNumbers DEF ClientInv
<1>3. \A a \in Ages : b.age > a
  BY <1>2, BucketNumbers DEF Ages
<1>4. \A a \in Ages : s[a] = 0
  BY <1>3 DEF ClientInv, BucketRemembers
<1>5. TokensAreSpent(NoBucket, s)
  <2> SUFFICES ASSUME NEW a \in Ages
               PROVE  s[a] * BucketWindow + Capacity <= Capacity + a * MaxPerWindow
    BY <1>1 DEF TokensAreSpent
  <2>1. a * MaxPerWindow \in Nat
    BY RefillOfTicks, BucketNumbers DEF Ages
  <2>2. s[a] * BucketWindow = 0
    BY <1>4, BucketNumbers
  <2> QED  BY <2>1, <2>2, BucketNumbers
<1>6. PromiseIsKept(NoBucket, p)
  <2> SUFFICES ASSUME p >= 0 PROVE Capacity + p * MaxPerWindow >= BucketWindow
    BY <1>1 DEF PromiseIsKept
  <2>1. p \in Nat
    BY BucketNumbers DEF ClientInv, NoPromise
  <2> QED  BY <2>1, RefillOfTicks, BucketNumbers
<1> QED  BY <1>1, <1>4, <1>5, <1>6 DEF ClientInv, BucketRemembers

\* A tick fills the buckets, ages what was admitted, and shortens the waits.
LEMMA ElapsedClient ==
    ASSUME NEW b, NEW s, NEW p, ClientInv(b, s, p)
    PROVE  ClientInv(IF b = NoBucket \/ b.age > StaleAge THEN b ELSE [b EXCEPT !.age = @ + 1],
                     [a \in Ages |-> IF a = 0 THEN 0 ELSE s[a - 1]],
                     IF p > 0 THEN p - 1 ELSE p)
<1> DEFINE older == IF b = NoBucket \/ b.age > StaleAge THEN b ELSE [b EXCEPT !.age = @ + 1]
           past == [a \in Ages |-> IF a = 0 THEN 0 ELSE s[a - 1]]
           left == IF p > 0 THEN p - 1 ELSE p
<1>1. b \in ProperBuckets /\ UnitsIn(b) \in Nat /\ UnitsIn(b) <= Capacity
  BY UnitsAre DEF ClientInv
<1>2. b # NoBucket => b.age \in Nat
  BY <1>1, UnitsAre, BucketNumbers
<1>3. /\ older \in ProperBuckets
      /\ UnitsIn(older) >= UnitsIn(b) /\ UnitsIn(older) <= UnitsIn(b) + MaxPerWindow
      /\ UnitsIn(older) >= BucketWindow \/ UnitsIn(older) = UnitsIn(b) + MaxPerWindow
      /\ older = NoBucket => b = NoBucket
      /\ b # NoBucket => older.age \in Nat /\ older.age <= b.age + 1
  <2>1. CASE b = NoBucket
    BY <2>1, <1>1, UnitsAre, BucketNumbers
  <2>2. CASE b # NoBucket /\ b.age > StaleAge
    <3>1. UnitsIn(b) >= BucketWindow
      BY <2>2, <1>1, UnitsOf
    <3> QED  BY <2>2, <3>1, <1>1, <1>2, BucketNumbers
  <2>3. CASE b # NoBucket /\ ~(b.age > StaleAge)
    <3>1. b.age <= StaleAge
      BY <2>3, <1>2, BucketNumbers
    <3>2. older = [b EXCEPT !.age = @ + 1]
      BY <2>3
    <3> HIDE DEF older
    <3>3. /\ older \in ProperBuckets /\ older # NoBucket /\ older.age = b.age + 1
          /\ UnitsIn(older) >= UnitsIn(b) /\ UnitsIn(older) <= UnitsIn(b) + MaxPerWindow
          /\ UnitsIn(older) = Capacity \/ UnitsIn(older) = UnitsIn(b) + MaxPerWindow
      BY <2>3, <3>1, <3>2, <1>1, UnitsOf
    <3> QED  BY <2>3, <3>3, <1>2, BucketNumbers
  <2> QED  BY <2>1, <2>2, <2>3
<1>4. \A a \in Ages : a # 0 => a - 1 \in Ages
  BY BucketNumbers DEF Ages
<1>5. past \in [Ages -> Nat]
  BY <1>4 DEF ClientInv
<1>6. \A a \in Ages : past[a] = IF a = 0 THEN 0 ELSE s[a - 1]
  OBVIOUS
<1>7. UnitsIn(older) \in Nat /\ UnitsIn(older) <= Capacity
  BY <1>3, UnitsAre
<1>8. p \in Int /\ left \in NoPromise..BucketWindow /\ (left >= 0 => p >= 0) /\ (p > 0 => left = p - 1)
      /\ (~(p > 0) => left = p)
  BY BucketNumbers DEF ClientInv, NoPromise
<1> HIDE DEF older, past, left
<1>9. TokensAreSpent(older, past)
  <2> SUFFICES ASSUME NEW a \in Ages
               PROVE  past[a] * BucketWindow + UnitsIn(older) <= Capacity + a * MaxPerWindow
    BY DEF TokensAreSpent
  <2>1. a \in Nat /\ a * MaxPerWindow \in Nat
    BY RefillOfTicks, BucketNumbers DEF Ages
  <2>2. CASE a = 0
    <3>1. past[a] * BucketWindow = 0
      BY <2>2, <1>6, BucketNumbers
    <3> QED  BY <3>1, <2>1, <1>7, BucketNumbers
  <2>3. CASE a # 0
    <3>1. past[a] = s[a - 1] /\ a - 1 \in Ages
      BY <2>3, <1>4, <1>6
    <3>2. past[a] * BucketWindow + UnitsIn(b) <= Capacity + (a - 1) * MaxPerWindow
      BY <3>1 DEF ClientInv, TokensAreSpent
    <3>3. (a - 1) * MaxPerWindow = a * MaxPerWindow - MaxPerWindow
      BY <2>1, RefillOfTicks
    <3>4. past[a] * BucketWindow \in Nat
      <4>1. past[a] \in Nat
        BY <1>5
      <4> QED  BY <4>1, BucketNumbers
    <3> QED  BY <3>2, <3>3, <3>4, <2>1, <1>1, <1>3, <1>7, BucketNumbers
  <2> QED  BY <2>2, <2>3
<1>10. BucketRemembers(older, past)
  <2> SUFFICES ASSUME NEW a \in Ages, older = NoBucket \/ older.age > a PROVE past[a] = 0
    BY DEF BucketRemembers
  <2>1. CASE a = 0
    BY <2>1, <1>6
  <2>2. CASE a # 0
    <3>1. past[a] = s[a - 1] /\ a - 1 \in Ages /\ a \in Nat
      BY <2>2, <1>4, <1>6, BucketNumbers DEF Ages
    <3>2. b = NoBucket \/ b.age > a - 1
      BY <3>1, <1>2, <1>3
    <3> QED  BY <3>1, <3>2 DEF ClientInv, BucketRemembers
  <2> QED  BY <2>1, <2>2
<1>11. PromiseIsKept(older, left)
  <2> SUFFICES ASSUME left >= 0 PROVE UnitsIn(older) + left * MaxPerWindow >= BucketWindow
    BY DEF PromiseIsKept
  <2>1. UnitsIn(b) + p * MaxPerWindow >= BucketWindow
    BY <1>8 DEF ClientInv, PromiseIsKept
  <2>2. left \in Nat /\ left * MaxPerWindow \in Nat
    BY <1>8, RefillOfTicks
  <2>3. CASE p > 0
    <3>1. left * MaxPerWindow = p * MaxPerWindow - MaxPerWindow
      BY <2>3, <1>8, RefillOfTicks
    <3>2. p * MaxPerWindow \in Int
      BY <1>8, RefillOfTicks
    <3> QED  BY <3>1, <3>2, <2>1, <2>2, <1>1, <1>3, <1>7, BucketNumbers
  <2>4. CASE ~(p > 0)
    <3>1. left * MaxPerWindow = p * MaxPerWindow
      BY <2>4, <1>8
    <3> QED  BY <3>1, <2>1, <2>2, <1>1, <1>3, <1>7, BucketNumbers
  <2> QED  BY <2>3, <2>4
<1>12. ClientInv(older, past, left)
  BY <1>3, <1>5, <1>8, <1>9, <1>10, <1>11 DEF ClientInv
<1> QED  BY <1>12 DEF older, past, left

\* The bucket's invariant holds at the start.
LEMMA BucketInitInv == BucketInit => BucketInv
<1> SUFFICES ASSUME BucketInit PROVE BucketInv
  OBVIOUS
<1>1. NoBucket \in [units : 0..Capacity, age : -1..(StaleAge + 1)]
  BY BucketNumbers DEF NoBucket
<1>2. BucketTypeOK
  BY <1>1, BucketNumbers DEF BucketInit, BucketTypeOK, NoneServed, NoPromise
<1> QED  BY <1>2, FreshClient DEF BucketInit, BucketInv

\* The proper buckets are of the type that is checked.
LEMMA ClientTypes ==
    ASSUME NEW b, NEW s, NEW p, ClientInv(b, s, p)
    PROVE  /\ b \in [units : 0..Capacity, age : -1..(StaleAge + 1)]
           /\ s \in [Ages -> Nat] /\ p \in NoPromise..BucketWindow
BY BucketNumbers DEF ClientInv, ProperBuckets, NoBucket

\* Every step keeps the bucket's invariant, for all clients.
LEMMA BucketInvKept == BucketInv /\ [BucketNext]_bucketVars => BucketInv'
<1> SUFFICES ASSUME BucketInv, [BucketNext]_bucketVars PROVE BucketInv'
  OBVIOUS
<1>1. /\ bucket = [c \in BucketClients |-> bucket[c]]
      /\ served = [c \in BucketClients |-> served[c]]
      /\ promised = [c \in BucketClients |-> promised[c]]
  BY DEF BucketInv, BucketTypeOK
<1>2. ASSUME /\ bucket' = [c \in BucketClients |-> bucket'[c]]
             /\ served' = [c \in BucketClients |-> served'[c]]
             /\ promised' = [c \in BucketClients |-> promised'[c]],
             \A c \in BucketClients : ClientInv(bucket'[c], served'[c], promised'[c])
      PROVE  BucketInv'
  <2>1. \A c \in BucketClients : /\ bucket'[c] \in [units : 0..Capacity, age : -1..(StaleAge + 1)]
                                 /\ served'[c] \in [Ages -> Nat]
                                 /\ promised'[c] \in NoPromise..BucketWindow
    BY <1>2, ClientTypes
  <2>2. BucketTypeOK'
    BY <1>2, <2>1 DEF BucketTypeOK
  <2> QED  BY <1>2, <2>2 DEF BucketInv
<1>3. \A c \in BucketClients : /\ ClientInv(bucket[c], served[c], promised[c])
                               /\ Level(c) = UnitsIn(bucket[c])
  BY LevelIsUnits DEF BucketInv
<1>4. CASE UNCHANGED bucketVars
  BY <1>1, <1>2, <1>3, <1>4 DEF bucketVars
<1>5. ASSUME NEW c \in BucketClients, Admit(c) PROVE BucketInv'
  <2> DEFINE used == [units |-> UnitsIn(bucket[c]) - BucketWindow, age |-> 0]
             more == [a \in Ages |-> served[c][a] + 1]
  <2>1. /\ bucket' = [bucket EXCEPT ![c] = used] /\ served' = [served EXCEPT ![c] = more]
        /\ promised' = [promised EXCEPT ![c] = NoPromise]
        /\ UnitsIn(bucket[c]) >= BucketWindow
    BY <1>3, <1>5 DEF Admit, Allowed
  <2>2. ClientInv(used, more, NoPromise)
    BY <1>3, <2>1, AdmittedClient
  <2> HIDE DEF used, more
  <2> QED  BY <1>1, <1>2, <1>3, <2>1, <2>2
<1>6. ASSUME NEW c \in BucketClients, Reject(c) PROVE BucketInv'
  <2> DEFINE used == [units |-> UnitsIn(bucket[c]), age |-> 0]
             wait == RoundedUp(BucketWindow - UnitsIn(bucket[c]), MaxPerWindow)
  <2>1. /\ bucket' = [bucket EXCEPT ![c] = used] /\ served' = served
        /\ promised' = [promised EXCEPT ![c] = wait]
        /\ ~(UnitsIn(bucket[c]) >= BucketWindow)
    BY <1>3, <1>6 DEF Reject, Allowed, ResetIn
  <2>2. ClientInv(used, served[c], wait)
    BY <1>3, <2>1, RefusedClient
  <2> HIDE DEF used, wait
  <2> QED  BY <1>1, <1>2, <1>3, <2>1, <2>2
<1>7. ASSUME NEW c \in BucketClients, ResetBucket(c) PROVE BucketInv'
  BY <1>1, <1>2, <1>3, <1>7, FreshClient DEF ResetBucket
<1>8. CASE CleanupBuckets
  <2>1. /\ bucket' = [c \in BucketClients |-> IF IsStale(c) THEN NoBucket ELSE bucket[c]]
        /\ served' = served /\ promised' = promised
    BY <1>8 DEF CleanupBuckets
  <2>2. ASSUME NEW c \in BucketClients, IsStale(c)
        PROVE  ClientInv(NoBucket, served[c], promised[c])
    <3>1. bucket[c].age > StaleAge /\ bucket[c] # NoBucket
      BY <2>2, BucketNumbers DEF IsStale, NoBucket
    <3> QED  BY <3>1, <1>3, ForgottenClient
  <2> QED  BY <1>1, <1>2, <1>3, <2>1, <2>2
<1>9. CASE Elapse
  <2> DEFINE older(b) == IF b = NoBucket \/ b.age > StaleAge THEN b ELSE [b EXCEPT !.age = @ + 1]
             past(s) == [a \in Ages |-> IF a = 0 THEN 0 ELSE s[a - 1]]
             left(p) == IF p > 0 THEN p - 1 ELSE p
  <2>1. /\ bucket' = [c \in BucketClients |-> older(bucket[c])]
        /\ served' = [c \in BucketClients |-> past(served[c])]
        /\ promised' = [c \in BucketClients |-> left(promised[c])]
    BY <1>9 DEF Elapse, IsStale
  <2>2. \A c \in BucketClients : ClientInv(older(bucket[c]), past(served[c]), left(promised[c]))
    BY <1>3, ElapsedClient
  <2> HIDE DEF older, past, left
  <2> QED  BY <1>2, <2>1, <2>2
<1> QED  BY <1>4, <1>5, <1>6, <1>7, <1>8, <1>9 DEF BucketNext

\* What the limiter promises follows from its invariant.
LEMMA BucketInvImplies == BucketInv => BurstIsBounded /\ ResetInSuffices
<1> SUFFICES ASSUME BucketInv PROVE BurstIsBounded /\ ResetInSuffices
  OBVIOUS
<1>1. ASSUME NEW c \in BucketClients
      PROVE  /\ UnitsIn(bucket[c]) \in Nat /\ Level(c) = UnitsIn(bucket[c])
             /\ ClientInv(bucket[c], served[c], promised[c])
  BY UnitsAre, LevelIsUnits DEF BucketInv, ClientInv
<1>2. ASSUME NEW c \in BucketClients, NEW a \in Ages
      PROVE  served[c][a] * BucketWindow <= Capacity + a * MaxPerWindow
  <2>1. served[c][a] \in Nat
        /\ served[c][a] * BucketWindow + UnitsIn(bucket[c]) <= Capacity + a * MaxPerWindow
    BY <1>1 DEF ClientInv, TokensAreSpent
  <2>2. served[c][a] * BucketWindow \in Nat
    BY <2>1, BucketNumbers
  <2>3. a * MaxPerWindow \in Nat
    BY RefillOfTicks, BucketNumbers DEF Ages
  <2> QED  BY <1>1, <2>1, <2>2, <2>3, BucketNumbers
<1>3. ASSUME NEW c \in BucketClients, promised[c] = 0 PROVE Allowed(c)
  <2>1. UnitsIn(bucket[c]) + 0 * MaxPerWindow >= BucketWindow
    BY <1>1, <1>3 DEF ClientInv, PromiseIsKept
  <2> QED  BY <1>1, <2>1, RefillOfTicks DEF Allowed
<1> QED  BY <1>2, <1>3 DEF BurstIsBounded, ResetInSuffices

-------------------------------------------------------------------------------
(* The sliding window *)

\* The timestamps past the window, and those that are left without them.
ExpiredIn(t, w) == {i \in DOMAIN t : t[i] > w}
RecentIn(t, w) == SubSeq(t, Cardinality(ExpiredIn(t, w)) + 1, Len(t))

OldestFirst(t) == \A i, j \in 1..Len(t) : i < j => t[j] <= t[i]

\* Who was admitted in the last so many ticks has a timestamp among the last ones.
AdmissionsAreStamped(t, s, w) ==
    \A a \in 0..w :
        s[a] <= Len(t) /\ (s[a] > 0 => t[Len(t) - s[a] + 1] <= a)

\* The oldest timestamp expires in the time told.
RetryIsLate(t, r, w) == r >= 0 /\ Len(t) > 0 => t[1] + r > w

KeyInv(t, s, r, limit, w) ==
    /\ t \in Seq(0..Forgotten) /\ OldestFirst(t) /\ Len(t) <= limit
    /\ s \in [WindowAges -> Nat] /\ r \in NotTold..(LongestWindow + SecondTicks + 1)
    /\ AdmissionsAreStamped(t, s, w) /\ RetryIsLate(t, r, w)

WindowInv ==
    /\ timestamps = [k \in BucketKeys |-> timestamps[k]]
    /\ admitted = [k \in BucketKeys |-> admitted[k]]
    /\ retryAt = [k \in BucketKeys |-> retryAt[k]]
    /\ \A k \in BucketKeys : KeyInv(timestamps[k], admitted[k], retryAt[k], LimitOf(k), WindowOf(k))

\* The limits and times of the limiter.
LEMMA WindowNumbers ==
    /\ LongestWindow \in Nat /\ LongestWindow >= 1 /\ SecondTicks \in Nat /\ SecondTicks >= 1
    /\ Forgotten \in Nat /\ Forgotten = LongestWindow + 1
    /\ WindowAges = 0..LongestWindow /\ NotTold = -1
    /\ \A k : LimitOf(k) \in Nat /\ LimitOf(k) >= 1
    /\ \A k : WindowOf(k) \in 1..LongestWindow
BY WindowAssumption DEF LongestWindow, Forgotten, WindowAges, NotTold, LimitOf, WindowOf

\* checkLimit() removes the expired timestamps from the bucket it looks at.
LEMMA RecentIsIn == ASSUME NEW k PROVE Recent(k) = RecentIn(timestamps[k], WindowOf(k))
BY DEF Recent, Expired, RecentIn, ExpiredIn

\* The expired timestamps are the first ones, and the others stay in their order.
LEMMA RecentIs ==
    ASSUME NEW t \in Seq(0..Forgotten), NEW w \in 1..LongestWindow, OldestFirst(t)
    PROVE  \E m \in 0..Len(t) :
             /\ \A i \in 1..Len(t) : t[i] > w <=> i <= m
             /\ RecentIn(t, w) \in Seq(0..Forgotten) /\ Len(RecentIn(t, w)) = Len(t) - m
             /\ \A i \in 1..(Len(t) - m) : RecentIn(t, w)[i] = t[m + i]
<1> DEFINE expired == {i \in 1..Len(t) : t[i] > w}
           m == Cardinality(expired)
<1>1. Len(t) \in Nat /\ DOMAIN t = 1..Len(t) /\ \A i \in 1..Len(t) : t[i] \in 0..Forgotten
  BY LenProperties
<1>2. ExpiredIn(t, w) = expired
  BY <1>1 DEF ExpiredIn
<1>3. IsFiniteSet(1..Len(t)) /\ Cardinality(1..Len(t)) = Len(t)
  <2>1. \A a, b \in Int : IsFiniteSet(a..b) /\ Cardinality(a..b) = IF a > b THEN 0 ELSE b - a + 1
    BY ONLY FS_Interval
  <2>2. ASSUME NEW n \in Nat PROVE IsFiniteSet(1..n) /\ Cardinality(1..n) = n
    <3>1. 1 \in Int /\ n \in Int
      OBVIOUS
    <3>2. IsFiniteSet(1..n) /\ Cardinality(1..n) = IF 1 > n THEN 0 ELSE n - 1 + 1
      BY ONLY <2>1, <3>1
    <3>3. (IF 1 > n THEN 0 ELSE n - 1 + 1) = n
      OBVIOUS
    <3> QED  BY ONLY <3>2, <3>3
  <2> QED  BY ONLY <1>1, <2>2
<1>4. expired \subseteq 1..Len(t)
  OBVIOUS
<1> HIDE DEF expired
<1>5. IsFiniteSet(expired) /\ m \in Nat /\ m <= Len(t)
  BY <1>3, <1>4, FS_Subset, FS_CardinalityType
<1>6. ASSUME NEW i \in 1..Len(t) PROVE t[i] > w <=> i <= m
  <2>1. CASE t[i] > w
    <3>1. 1..i \subseteq expired
      BY <2>1, <1>1, WindowNumbers DEF expired, OldestFirst
    <3>2. IsFiniteSet(1..i) /\ Cardinality(1..i) = i
      BY <1>1, FS_Interval
    <3>3. i <= m
      BY <3>1, <3>2, <1>5, FS_Subset
    <3> QED  BY <2>1, <3>3
  <2>2. CASE ~(t[i] > w)
    <3>1. expired \subseteq 1..(i - 1)
      <4> SUFFICES ASSUME NEW j \in expired PROVE j < i
        BY <1>1, <1>4
      <4>1. j \in 1..Len(t) /\ t[j] > w
        BY DEF expired
      <4>2. i < j => t[j] <= t[i]
        BY <4>1 DEF OldestFirst
      <4>3. t[i] \in 0..Forgotten /\ t[j] \in 0..Forgotten
        BY <1>1, <4>1
      <4> QED  BY <4>1, <4>2, <4>3, <2>2, WindowNumbers
    <3>2. IsFiniteSet(1..(i - 1)) /\ Cardinality(1..(i - 1)) = i - 1
      <4> DEFINE last == i - 1
      <4>1. last \in Nat /\ 1 \in Int /\ last \in Int
        BY <1>1
      <4> HIDE DEF last
      <4>2. /\ IsFiniteSet(1..last)
            /\ Cardinality(1..last) = IF 1 > last THEN 0 ELSE last - 1 + 1
        BY <4>1, FS_Interval
      <4>3. Cardinality(1..last) = last
        BY <4>1, <4>2
      <4> QED  BY <4>2, <4>3 DEF last
    <3>3. m <= i - 1
      BY <3>1, <3>2, <1>5, FS_Subset
    <3> QED  BY <2>2, <3>3, <1>5
  <2> QED  BY <2>1, <2>2
<1>7. RecentIn(t, w) = SubSeq(t, m + 1, Len(t))
  BY <1>2 DEF RecentIn
<1> HIDE DEF m
<1>8. \A i \in (m + 1)..Len(t) : t[i] \in 0..Forgotten
  BY <1>1, <1>5
<1>9. /\ RecentIn(t, w) \in Seq(0..Forgotten)
      /\ Len(RecentIn(t, w)) = IF m + 1 <= Len(t) THEN Len(t) - (m + 1) + 1 ELSE 0
      /\ \A i \in 1..(Len(t) - (m + 1) + 1) : RecentIn(t, w)[i] = t[(m + 1) + i - 1]
  <2>1. m + 1 \in Int /\ Len(t) \in Int
    BY <1>1, <1>5
  <2> QED  BY <2>1, <1>7, <1>8, SubSeqProperties
<1>10. Len(RecentIn(t, w)) = Len(t) - m
  <2> DEFINE n == Len(t)
             rest == Len(RecentIn(t, w))
  <2>1. n \in Nat /\ m \in Nat /\ m <= n /\ rest = IF m + 1 <= n THEN n - (m + 1) + 1 ELSE 0
    BY <1>1, <1>5, <1>9
  <2> HIDE DEF n, rest
  <2>2. rest = n - m
    BY <2>1
  <2> QED  BY <2>2 DEF n, rest
<1>11. \A i \in 1..(Len(t) - m) : RecentIn(t, w)[i] = t[m + i]
  <2> SUFFICES ASSUME NEW i \in 1..(Len(t) - m) PROVE RecentIn(t, w)[i] = t[m + i]
    OBVIOUS
  <2>1. i \in 1..(Len(t) - (m + 1) + 1) /\ (m + 1) + i - 1 = m + i
    BY <1>1, <1>5
  <2> QED  BY <2>1, <1>9
<1> QED  BY <1>5, <1>6, <1>9, <1>10, <1>11

\* A bucket that was not used yet.
LEMMA FreshWindow ==
    ASSUME NEW k PROVE KeyInv(<<>>, [a \in WindowAges |-> 0], NotTold, LimitOf(k), WindowOf(k))
<1>1. <<>> \in Seq(0..Forgotten) /\ Len(<<>>) = 0
  BY EmptySeq
<1>2. NotTold \in NotTold..(LongestWindow + SecondTicks + 1) /\ ~(NotTold >= 0)
  BY WindowNumbers
<1>3. [a \in WindowAges |-> 0] \in [WindowAges -> Nat]
  OBVIOUS
<1>4. AdmissionsAreStamped(<<>>, [a \in WindowAges |-> 0], WindowOf(k))
  BY <1>1, WindowNumbers DEF AdmissionsAreStamped
<1>5. OldestFirst(<<>>) /\ Len(<<>>) <= LimitOf(k)
  BY <1>1, WindowNumbers DEF OldestFirst
<1> QED  BY <1>1, <1>2, <1>3, <1>4, <1>5 DEF KeyInv, RetryIsLate

\* An admitted request is stamped, and counted, once.
LEMMA StampedWindow ==
    ASSUME NEW t, NEW s, NEW r, NEW l \in Nat, NEW w \in 1..LongestWindow,
           KeyInv(t, s, r, l, w), Len(RecentIn(t, w)) < l
    PROVE  KeyInv(Append(RecentIn(t, w), 0), [a \in WindowAges |-> s[a] + 1], NotTold, l, w)
<1> DEFINE rest == RecentIn(t, w)
           stamped == Append(rest, 0)
           more == [a \in WindowAges |-> s[a] + 1]
<1>1. t \in Seq(0..Forgotten) /\ OldestFirst(t) /\ s \in [WindowAges -> Nat]
  BY DEF KeyInv
<1>2. Len(t) \in Nat /\ \A i \in 1..Len(t) : t[i] \in 0..Forgotten
  BY <1>1, LenProperties
<1>3. PICK m \in 0..Len(t) :
        /\ \A i \in 1..Len(t) : t[i] > w <=> i <= m
        /\ rest \in Seq(0..Forgotten) /\ Len(rest) = Len(t) - m
        /\ \A i \in 1..(Len(t) - m) : rest[i] = t[m + i]
  BY <1>1, RecentIs
<1>4. /\ rest \in Seq(0..Forgotten) /\ Len(rest) < l /\ Len(rest) = Len(t) - m
      /\ m \in Nat /\ m <= Len(t)
  BY <1>2, <1>3
<1> HIDE DEF rest
<1>5. 0 \in 0..Forgotten
  BY WindowNumbers
<1>6. /\ stamped \in Seq(0..Forgotten) /\ Len(stamped) = Len(rest) + 1
      /\ \A i \in 1..Len(rest) : stamped[i] = rest[i]
      /\ stamped[Len(rest) + 1] = 0
  BY <1>4, <1>5, AppendProperties
<1>7. \A a \in WindowAges : more[a] = s[a] + 1 /\ s[a] \in Nat
  BY <1>1
<1>8. more \in [WindowAges -> Nat]
  BY <1>1
<1> HIDE DEF stamped, more
<1>9. \A i \in 1..Len(stamped) : stamped[i] = IF i = Len(stamped) THEN 0 ELSE t[m + i]
  <2> SUFFICES ASSUME NEW i \in 1..Len(stamped)
               PROVE  stamped[i] = IF i = Len(stamped) THEN 0 ELSE t[m + i]
    OBVIOUS
  <2>1. CASE i = Len(stamped)
    BY <2>1, <1>6
  <2>2. CASE i # Len(stamped)
    <3>1. i \in 1..Len(rest)
      <4>1. Len(rest) \in Nat /\ i \in 1..(Len(rest) + 1) /\ i # Len(rest) + 1
        BY <2>2, <1>2, <1>4, <1>6
      <4>2. \A n \in Nat : \A k \in 1..(n + 1) : k # n + 1 => k \in 1..n
        OBVIOUS
      <4> QED  BY ONLY <4>1, <4>2
    <3>2. i \in 1..(Len(t) - m)
      BY <3>1, <1>4
    <3> QED  BY <2>2, <3>1, <3>2, <1>3, <1>6
  <2> QED  BY <2>1, <2>2
<1>10. OldestFirst(stamped)
  <2> SUFFICES ASSUME NEW i \in 1..Len(stamped), NEW j \in 1..Len(stamped), i < j
               PROVE  stamped[j] <= stamped[i]
    BY DEF OldestFirst
  <2>1. Len(stamped) = Len(t) - m + 1
    BY <1>4, <1>6
  <2>2. i # Len(stamped) /\ m + i \in 1..Len(t) /\ stamped[i] = t[m + i]
    BY <2>1, <1>2, <1>9
  <2>3. CASE j = Len(stamped)
    BY <2>2, <2>3, <1>2, <1>9
  <2>4. CASE j # Len(stamped)
    <3>1. m + j \in 1..Len(t) /\ stamped[j] = t[m + j] /\ m + i < m + j
      <4> DEFINE n == Len(t)
                 k == Len(stamped)
      <4>1. n \in Nat /\ k = n - m + 1 /\ m \in Nat /\ m <= n /\ j \in 1..k /\ j # k /\ i \in 1..k
        BY <2>1, <2>4, <1>2, <1>4
      <4> HIDE DEF n, k
      <4>3. j \in Nat /\ i \in Nat /\ j >= 1 /\ j <= n - m
        BY <4>1
      <4>2. m + j \in 1..n /\ m + i < m + j
        BY <4>1, <4>3
      <4> QED  BY <2>4, <4>2, <1>9 DEF n
    <3> QED  BY <2>2, <3>1, <1>1 DEF OldestFirst
  <2> QED  BY <2>3, <2>4
<1>11. AdmissionsAreStamped(stamped, more, w)
  <2> SUFFICES ASSUME NEW a \in 0..w
               PROVE  more[a] <= Len(stamped) /\ stamped[Len(stamped) - more[a] + 1] <= a
    BY DEF AdmissionsAreStamped
  <2>1. a \in WindowAges
    BY WindowNumbers
  <2>2. s[a] <= Len(t) /\ (s[a] > 0 => t[Len(t) - s[a] + 1] <= a) /\ more[a] = s[a] + 1 /\ s[a] \in Nat
    BY <2>1, <1>7 DEF KeyInv, AdmissionsAreStamped
  <2>3. Len(stamped) = Len(t) - m + 1
    BY <1>4, <1>6
  <2>4. CASE s[a] = 0
    <3>1. Len(stamped) - more[a] + 1 = Len(stamped) /\ Len(stamped) \in 1..Len(stamped)
      BY <2>2, <2>3, <2>4, <1>2
    <3>2. stamped[Len(stamped)] = 0
      BY <3>1, <1>9
    <3> QED  BY <3>1, <3>2, <2>1, <2>2, <2>3, <2>4, <1>2
  <2>5. CASE s[a] > 0
    <3> DEFINE i == Len(t) - s[a] + 1
    <3>1. i \in 1..Len(t) /\ t[i] <= a
      BY <2>2, <2>5, <1>2
    <3>2. ~(t[i] > w)
      BY <3>1, <2>1, <1>2, WindowNumbers
    <3>3. i > m
      BY <3>1, <3>2, <1>3
    <3>4. /\ Len(stamped) - more[a] + 1 = i - m
          /\ i - m \in 1..Len(stamped) /\ i - m # Len(stamped) /\ m + (i - m) = i
          /\ more[a] <= Len(stamped)
      <4> DEFINE n == Len(t)
                 k == Len(stamped)
                 c == s[a]
      <4>1. /\ n \in Nat /\ m \in Nat /\ m <= n /\ k = n - m + 1 /\ c \in Nat /\ c > 0
            /\ more[a] = c + 1 /\ i = n - c + 1 /\ i > m
        BY <2>2, <2>3, <2>5, <3>3, <1>2, <1>4
      <4> HIDE DEF n, k, c, i
      <4>2. /\ k - (c + 1) + 1 = i - m /\ i - m \in 1..k /\ i - m # k /\ m + (i - m) = i
            /\ c + 1 <= k
        BY <4>1
      <4> QED  BY <4>1, <4>2 DEF k, c
    <3>5. stamped[i - m] = t[m + (i - m)]
      BY <3>4, <1>9
    <3> HIDE DEF i
    <3> QED  BY <3>1, <3>4, <3>5
  <2> QED  BY <2>2, <2>4, <2>5
<1>12. NotTold \in NotTold..(LongestWindow + SecondTicks + 1) /\ ~(NotTold >= 0)
  BY WindowNumbers
<1>13. Len(stamped) <= l
  BY <1>2, <1>4, <1>6
<1>14. KeyInv(stamped, more, NotTold, l, w)
  BY <1>6, <1>8, <1>10, <1>11, <1>12, <1>13 DEF KeyInv, RetryIsLate
<1> QED  BY <1>14 DEF stamped, more, rest

\* The whole seconds of a time are as long as it, or less than a second longer.
LEMMA InSecondsIs ==
    ASSUME NEW n \in Nat
    PROVE  SecondTicks * InSeconds(n) \in n..(n + SecondTicks - 1)
BY WindowAssumption DEF InSeconds

\* A refusal only removes what has expired, and tells when the oldest timestamp left will have.
LEMMA RefusedWindow ==
    ASSUME NEW t, NEW s, NEW r, NEW l \in Nat \ {0}, NEW w \in 1..LongestWindow,
           KeyInv(t, s, r, l, w), Len(RecentIn(t, w)) >= l
    PROVE  KeyInv(RecentIn(t, w), s,
                    SecondTicks * InSeconds(w - Head(RecentIn(t, w))) + 1, l, w)
<1> DEFINE rest == RecentIn(t, w)
           wait == SecondTicks * InSeconds(w - Head(rest)) + 1
<1>1. t \in Seq(0..Forgotten) /\ OldestFirst(t) /\ s \in [WindowAges -> Nat] /\ Len(t) <= l
  BY DEF KeyInv
<1>2. Len(t) \in Nat /\ \A i \in 1..Len(t) : t[i] \in 0..Forgotten
  BY <1>1, LenProperties
<1>3. PICK m \in 0..Len(t) :
        /\ \A i \in 1..Len(t) : t[i] > w <=> i <= m
        /\ rest \in Seq(0..Forgotten) /\ Len(rest) = Len(t) - m
        /\ \A i \in 1..(Len(t) - m) : rest[i] = t[m + i]
  BY <1>1, RecentIs
<1>4. /\ rest \in Seq(0..Forgotten) /\ Len(rest) >= l /\ Len(rest) = Len(t) - m
      /\ m \in Nat /\ m <= Len(t)
  BY <1>2, <1>3
<1> HIDE DEF rest
<1>5. m = 0 /\ Len(rest) = Len(t) /\ Len(t) = l
  BY <1>1, <1>2, <1>4
<1>6. rest = t
  <2>1. \A i \in 1..Len(rest) : rest[i] = t[i]
    BY <1>2, <1>3, <1>5
  <2> QED  BY <2>1, <1>1, <1>4, <1>5, SeqEqual
<1>7. t[1] \in 0..w /\ Head(rest) = t[1]
  <2>1. 1 \in 1..Len(t)
    BY <1>2, <1>5
  <2>2. ~(t[1] > w) /\ t[1] \in 0..Forgotten
    BY <2>1, <1>2, <1>3, <1>5
  <2>3. Head(rest) = t[1]
    BY <1>6, <1>1, <2>1
  <2> QED  BY <2>2, <2>3, WindowNumbers
<1>8. w - t[1] \in Nat
  BY <1>7, WindowNumbers
<1>9. SecondTicks * InSeconds(w - t[1]) \in
          (w - t[1])..(w - t[1] + SecondTicks - 1)
  BY <1>8, InSecondsIs
<1>10. wait = SecondTicks * InSeconds(w - t[1]) + 1
  BY <1>7
<1> HIDE DEF wait
<1>11. wait \in NotTold..(LongestWindow + SecondTicks + 1) /\ t[1] + wait > w
  BY <1>7, <1>9, <1>10, WindowNumbers
<1>12. KeyInv(t, s, wait, l, w)
  BY <1>11 DEF KeyInv, RetryIsLate
<1> QED  BY <1>6, <1>12 DEF rest, wait

\* A tick ages the timestamps as it ages what was admitted, and the time told comes nearer.
LEMMA OlderWindow ==
    ASSUME NEW t, NEW s, NEW r, NEW l \in Nat, NEW w \in 1..LongestWindow, KeyInv(t, s, r, l, w)
    PROVE  KeyInv([i \in DOMAIN t |-> IF t[i] = Forgotten THEN Forgotten ELSE t[i] + 1],
                    [a \in WindowAges |-> IF a = 0 THEN 0 ELSE s[a - 1]],
                    IF r > 0 THEN r - 1 ELSE r, l, w)
<1> DEFINE older == [i \in DOMAIN t |-> IF t[i] = Forgotten THEN Forgotten ELSE t[i] + 1]
           past == [a \in WindowAges |-> IF a = 0 THEN 0 ELSE s[a - 1]]
           left == IF r > 0 THEN r - 1 ELSE r
<1>1. t \in Seq(0..Forgotten) /\ OldestFirst(t) /\ s \in [WindowAges -> Nat] /\ Len(t) <= l
  BY DEF KeyInv
<1>2. Len(t) \in Nat /\ DOMAIN t = 1..Len(t) /\ \A i \in 1..Len(t) : t[i] \in 0..Forgotten
  BY <1>1, LenProperties
<1>3. older \in Seq(0..Forgotten) /\ Len(older) = Len(t)
  <2>1. older \in [1..Len(t) -> 0..Forgotten]
    BY <1>2, WindowNumbers
  <2> HIDE DEF older
  <2>2. older \in Seq(0..Forgotten)
    BY <2>1, <1>2, SeqDef
  <2>3. DOMAIN older = 1..Len(older) /\ Len(older) \in Nat /\ DOMAIN older = 1..Len(t)
    BY <2>1, <2>2, LenProperties
  <2>4. \A x, y \in Nat : 1..x = 1..y => x <= y
    OBVIOUS
  <2>5. 1..Len(older) = 1..Len(t) /\ Len(older) \in Nat /\ Len(t) \in Nat
    BY <2>3, <1>2
  <2> DEFINE n == Len(t)
             k == Len(older)
  <2>6. 1..k = 1..n /\ k \in Nat /\ n \in Nat
    BY <2>5
  <2> HIDE DEF n, k
  <2>7. k <= n /\ n <= k
    BY <2>4, <2>6
  <2> QED  BY <2>2, <2>6, <2>7 DEF n, k
<1>4. \A i \in 1..Len(t) : older[i] = IF t[i] = Forgotten THEN Forgotten ELSE t[i] + 1
  BY <1>2
<1>5. \A a \in WindowAges : a # 0 => a - 1 \in WindowAges
  BY WindowNumbers
<1>6. past \in [WindowAges -> Nat] /\ \A a \in WindowAges : past[a] = IF a = 0 THEN 0 ELSE s[a - 1]
  BY <1>1, <1>5
<1>7. /\ r \in Int /\ left \in NotTold..(LongestWindow + SecondTicks + 1)
      /\ left >= 0 => r >= 0 /\ left + 1 >= r /\ (left = 0 => r <= 1)
      /\ r > 0 => left = r - 1
      /\ ~(r > 0) => left = r
  BY WindowNumbers DEF KeyInv
<1> HIDE DEF older, past, left
<1>8. OldestFirst(older)
  <2> SUFFICES ASSUME NEW i \in 1..Len(t), NEW j \in 1..Len(t), i < j PROVE older[j] <= older[i]
    BY <1>3 DEF OldestFirst
  <2>1. t[j] <= t[i]
    BY <1>1 DEF OldestFirst
  <2> QED  BY <2>1, <1>2, <1>4, WindowNumbers
<1>9. AdmissionsAreStamped(older, past, w)
  <2> SUFFICES ASSUME NEW a \in 0..w
               PROVE  past[a] <= Len(t) /\ (past[a] > 0 => older[Len(t) - past[a] + 1] <= a)
    BY <1>3 DEF AdmissionsAreStamped
  <2>0. a \in WindowAges
    BY WindowNumbers
  <2>1. CASE a = 0
    BY <2>0, <2>1, <1>2, <1>6
  <2>2. CASE a # 0
    <3>1. past[a] = s[a - 1] /\ a - 1 \in 0..w /\ past[a] \in Nat
      BY <2>0, <2>2, <1>5, <1>6
    <3>2. past[a] <= Len(t) /\ (past[a] > 0 => t[Len(t) - past[a] + 1] <= a - 1)
      BY <3>1 DEF KeyInv, AdmissionsAreStamped
    <3>3. ASSUME past[a] > 0 PROVE older[Len(t) - past[a] + 1] <= a
      <4>1. Len(t) - past[a] + 1 \in 1..Len(t)
        BY <3>1, <3>2, <3>3, <1>2
      <4> DEFINE i == Len(t) - past[a] + 1
      <4>2. i \in 1..Len(t) /\ t[i] <= a - 1 /\ t[i] \in 0..Forgotten
        BY <4>1, <3>2, <3>3, <1>2
      <4> HIDE DEF i
      <4>4. older[i] <= a
        BY <4>2, <1>4, WindowNumbers
      <4> QED  BY <4>4 DEF i
    <3> QED  BY <3>2, <3>3
  <2> QED  BY <2>1, <2>2
<1>10. RetryIsLate(older, left, w)
  <2> SUFFICES ASSUME left >= 0, Len(t) > 0 PROVE older[1] + left > w
    BY <1>3 DEF RetryIsLate
  <2>1. t[1] + r > w /\ r >= 0
    BY <1>7 DEF KeyInv, RetryIsLate
  <2>2. 1 \in 1..Len(t) /\ t[1] \in 0..Forgotten
    BY <1>2
  <2>3. older[1] = IF t[1] = Forgotten THEN Forgotten ELSE t[1] + 1
    BY <2>2, <1>4
  <2> QED  BY <2>1, <2>2, <2>3, <1>7, WindowNumbers
<1>11. KeyInv(older, past, left, l, w)
  BY <1>1, <1>3, <1>6, <1>7, <1>8, <1>9, <1>10 DEF KeyInv
<1> QED  BY <1>11 DEF older, past, left

\* The window's invariant holds at the start.
LEMMA WindowInitInv == WindowInit => WindowInv
BY FreshWindow DEF WindowInit, WindowInv

\* Every step keeps the window's invariant, for all buckets.
LEMMA WindowInvKept == WindowInv /\ [WindowNext]_windowVars => WindowInv'
<1> SUFFICES ASSUME WindowInv, [WindowNext]_windowVars PROVE WindowInv'
  OBVIOUS
<1>1. /\ timestamps = [k \in BucketKeys |-> timestamps[k]]
      /\ admitted = [k \in BucketKeys |-> admitted[k]]
      /\ retryAt = [k \in BucketKeys |-> retryAt[k]]
  BY DEF WindowInv
<1>2. \A k \in BucketKeys : KeyInv(timestamps[k], admitted[k], retryAt[k], LimitOf(k), WindowOf(k))
  BY DEF WindowInv
<1>3. \A k \in BucketKeys : Recent(k) = RecentIn(timestamps[k], WindowOf(k))
  BY RecentIsIn
<1>4. \A k \in BucketKeys : LimitOf(k) \in Nat \ {0} /\ WindowOf(k) \in 1..LongestWindow
  BY WindowNumbers
<1>5. CASE UNCHANGED windowVars
  BY <1>1, <1>2, <1>5 DEF windowVars, WindowInv
<1>6. ASSUME NEW k \in BucketKeys, AdmitInWindow(k) PROVE WindowInv'
  <2> DEFINE stamped == Append(RecentIn(timestamps[k], WindowOf(k)), 0)
             more == [a \in WindowAges |-> admitted[k][a] + 1]
  <2>1. /\ timestamps' = [timestamps EXCEPT ![k] = stamped]
        /\ admitted' = [admitted EXCEPT ![k] = more]
        /\ retryAt' = [retryAt EXCEPT ![k] = NotTold]
        /\ Len(RecentIn(timestamps[k], WindowOf(k))) < LimitOf(k)
    BY <1>3, <1>6 DEF AdmitInWindow
  <2>2. KeyInv(stamped, more, NotTold, LimitOf(k), WindowOf(k))
    BY <1>2, <1>4, <2>1, StampedWindow
  <2> HIDE DEF stamped, more
  <2> QED  BY <1>1, <1>2, <2>1, <2>2 DEF WindowInv
<1>7. ASSUME NEW k \in BucketKeys, RejectInWindow(k) PROVE WindowInv'
  <2> DEFINE rest == RecentIn(timestamps[k], WindowOf(k))
             wait == SecondTicks * InSeconds(WindowOf(k) - Head(rest)) + 1
  <2>1. /\ timestamps' = [timestamps EXCEPT ![k] = rest]
        /\ admitted' = admitted
        /\ retryAt' = [retryAt EXCEPT ![k] = wait]
        /\ Len(rest) >= LimitOf(k)
    BY <1>3, <1>7 DEF RejectInWindow
  <2>2. KeyInv(rest, admitted[k], wait, LimitOf(k), WindowOf(k))
    BY <1>2, <1>4, <2>1, RefusedWindow
  <2> HIDE DEF rest, wait
  <2> QED  BY <1>1, <1>2, <2>1, <2>2 DEF WindowInv
<1>8. ASSUME NEW c \in WindowClients, ResetClient(c) PROVE WindowInv'
  <2> DEFINE none == [a \in WindowAges |-> 0]
  <2>1. /\ timestamps' = [k \in BucketKeys |-> IF k[1] = c THEN <<>> ELSE timestamps[k]]
        /\ admitted' = [k \in BucketKeys |-> IF k[1] = c THEN none ELSE admitted[k]]
        /\ retryAt' = [k \in BucketKeys |-> IF k[1] = c THEN NotTold ELSE retryAt[k]]
    BY <1>8 DEF ResetClient
  <2>2. \A k \in BucketKeys : KeyInv(<<>>, none, NotTold, LimitOf(k), WindowOf(k))
    BY FreshWindow
  <2> HIDE DEF none
  <2> QED  BY <1>1, <1>2, <2>1, <2>2 DEF WindowInv
<1>9. CASE TimeGoesOn
  <2> DEFINE older(t) == [i \in DOMAIN t |-> IF t[i] = Forgotten THEN Forgotten ELSE t[i] + 1]
             past(s) == [a \in WindowAges |-> IF a = 0 THEN 0 ELSE s[a - 1]]
             left(r) == IF r > 0 THEN r - 1 ELSE r
  <2>1. /\ timestamps' = [k \in BucketKeys |-> older(timestamps[k])]
        /\ admitted' = [k \in BucketKeys |-> past(admitted[k])]
        /\ retryAt' = [k \in BucketKeys |-> left(retryAt[k])]
    BY <1>9 DEF TimeGoesOn
  <2>2. ASSUME NEW k \in BucketKeys
        PROVE  KeyInv(older(timestamps[k]), past(admitted[k]), left(retryAt[k]), LimitOf(k), WindowOf(k))
    <3>1. KeyInv(timestamps[k], admitted[k], retryAt[k], LimitOf(k), WindowOf(k))
          /\ LimitOf(k) \in Nat /\ WindowOf(k) \in 1..LongestWindow
      BY <1>2, <1>4
    <3> QED  BY <3>1, OlderWindow
  <2> HIDE DEF older, past, left
  <2> QED  BY <2>1, <2>2 DEF WindowInv
<1> QED  BY <1>5, <1>6, <1>7, <1>8, <1>9 DEF WindowNext

\* What the limiter promises follows from its invariant.
LEMMA WindowInvImplies == WindowInv => WindowTypeOK /\ WindowIsBounded /\ RetryAfterSuffices
<1> SUFFICES ASSUME WindowInv PROVE WindowTypeOK /\ WindowIsBounded /\ RetryAfterSuffices
  OBVIOUS
<1>1. ASSUME NEW k \in BucketKeys
      PROVE  /\ timestamps[k] \in Seq(0..Forgotten) /\ admitted[k] \in [WindowAges -> Nat]
             /\ retryAt[k] \in NotTold..(LongestWindow + SecondTicks + 1)
             /\ KeyInv(timestamps[k], admitted[k], retryAt[k], LimitOf(k), WindowOf(k))
  BY DEF WindowInv, KeyInv
<1>2. WindowTypeOK
  BY <1>1 DEF WindowTypeOK, WindowInv
<1>3. ASSUME NEW k \in BucketKeys PROVE admitted[k][WindowOf(k)] <= LimitOf(k)
  <2>1. WindowOf(k) \in WindowAges /\ WindowOf(k) \in 0..WindowOf(k)
    BY WindowNumbers
  <2>2. Len(timestamps[k]) \in Nat /\ LimitOf(k) \in Nat /\ admitted[k][WindowOf(k)] \in Nat
    BY <1>1, <2>1, LenProperties, WindowNumbers
  <2>3. admitted[k][WindowOf(k)] <= Len(timestamps[k]) /\ Len(timestamps[k]) <= LimitOf(k)
    BY <1>1, <2>1 DEF KeyInv, AdmissionsAreStamped
  <2> QED  BY <2>2, <2>3
<1>4. ASSUME NEW k \in BucketKeys, retryAt[k] = 0 PROVE Len(Recent(k)) < LimitOf(k)
  <2> DEFINE t == timestamps[k]
             w == WindowOf(k)
  <2>1. t \in Seq(0..Forgotten) /\ OldestFirst(t) /\ Len(t) <= LimitOf(k) /\ RetryIsLate(t, 0, w)
    BY <1>1, <1>4 DEF KeyInv
  <2>0. w \in 1..LongestWindow
    BY WindowNumbers
  <2> HIDE DEF t, w
  <2>2. Len(t) \in Nat /\ \A i \in 1..Len(t) : t[i] \in 0..Forgotten
    BY <2>1, LenProperties
  <2>3. PICK m \in 0..Len(t) :
          /\ \A i \in 1..Len(t) : t[i] > w <=> i <= m
          /\ Len(RecentIn(t, w)) = Len(t) - m
    BY <2>0, <2>1, RecentIs
  <2>4. LimitOf(k) \in Nat /\ LimitOf(k) >= 1
    BY WindowNumbers
  <2>5. CASE Len(t) = 0
    BY <2>2, <2>3, <2>4, <2>5, RecentIsIn DEF t, w
  <2>6. CASE Len(t) > 0
    <3>1. 1 \in 1..Len(t) /\ t[1] > w
      BY <2>0, <2>1, <2>2, <2>6, WindowNumbers DEF RetryIsLate
    <3>2. m >= 1
      BY <2>3, <3>1
    <3>3. Len(RecentIn(t, w)) < LimitOf(k)
      BY <2>1, <2>2, <2>3, <2>4, <3>2
    <3> QED  BY <3>3, RecentIsIn DEF t, w
  <2> QED  BY <2>2, <2>5, <2>6
<1> QED  BY <1>2, <1>3, <1>4 DEF WindowIsBounded, RetryAfterSuffices

-------------------------------------------------------------------------------
(* All services together *)

EveryInv ==
    /\ part \in Parts
    /\ ServerInv /\ GracefulInv
    /\ BucketInv /\ WindowInv /\ BreakerInv
    /\ RedisInv /\ PyInv
    /\ LockInv /\ ConfigInv /\ AuditInv /\ SchedulerInv

\* A step of the whole is one of a service and leaves the others alone, or of none.
LEMMA ServicesMove ==
    ASSUME [Next]_vars
    PROVE  /\ UNCHANGED part
           /\ [ServerNext]_serverVars /\ [GracefulNext]_gracefulVars
           /\ [BucketNext]_bucketVars /\ [WindowNext]_windowVars /\ [BreakerNext]_breakerVars
           /\ [RedisNext]_redisVars /\ [PyNext]_pyVars
           /\ [LockNext]_lockVars /\ [ConfigNext]_configVars
           /\ [AuditNext]_auditVars /\ [SchedulerNext]_schedulerVars
<1> DEFINE Goal ==
             /\ UNCHANGED part
             /\ [ServerNext]_serverVars /\ [GracefulNext]_gracefulVars
             /\ [BucketNext]_bucketVars /\ [WindowNext]_windowVars /\ [BreakerNext]_breakerVars
             /\ [RedisNext]_redisVars /\ [PyNext]_pyVars
             /\ [LockNext]_lockVars /\ [ConfigNext]_configVars
             /\ [AuditNext]_auditVars /\ [SchedulerNext]_schedulerVars
<1> USE DEF Turn, exitVars, accessVars, runtimeVars, diskVars
<1>1. ASSUME ServerTurn PROVE Goal
  BY <1>1 DEF ServerTurn
<1>2. ASSUME HandlerTurn PROVE Goal
  BY <1>2 DEF HandlerTurn
<1>3. ASSUME BucketTurn PROVE Goal
  BY <1>3 DEF BucketTurn
<1>4. ASSUME WindowTurn PROVE Goal
  BY <1>4 DEF WindowTurn
<1>5. ASSUME BreakerTurn PROVE Goal
  BY <1>5 DEF BreakerTurn
<1>6. ASSUME RedisTurn PROVE Goal
  BY <1>6 DEF RedisTurn
<1>7. ASSUME PyodideTurn PROVE Goal
  BY <1>7 DEF PyodideTurn
<1>8. ASSUME LockTurn PROVE Goal
  BY <1>8 DEF LockTurn
<1>9. ASSUME ConfigTurn PROVE Goal
  BY <1>9 DEF ConfigTurn
<1>10. ASSUME AuditTurn PROVE Goal
  BY <1>10 DEF AuditTurn
<1>11. ASSUME SchedulerTurn PROVE Goal
  BY <1>11 DEF SchedulerTurn
<1>12. ASSUME UNCHANGED vars PROVE Goal
  BY <1>12 DEF vars
<1> HIDE DEF Goal
<1>13. Goal
  BY <1>1, <1>2, <1>3, <1>4, <1>5, <1>6, <1>7, <1>8, <1>9, <1>10, <1>11, <1>12 DEF Next
<1> QED  BY <1>13 DEF Goal

\* Every service starts in its invariant.
LEMMA EveryInitInv == Init => EveryInv
BY ServerInitInv, GracefulInitInv, BucketInitInv, WindowInitInv, BreakerInitInv, RedisInitInv,
   PyInitInv, LockInitInv, ConfigInitInv, AuditInitInv, SchedulerInitInv
DEF Init, EveryInv

\* Every step keeps the invariants of all services.
LEMMA EveryInvKept == EveryInv /\ [Next]_vars => EveryInv'
<1> SUFFICES ASSUME EveryInv, [Next]_vars PROVE EveryInv'
  OBVIOUS
<1>1. part' \in Parts
  BY ServicesMove DEF EveryInv
<1>2. ServerInv' /\ GracefulInv' /\ BucketInv' /\ WindowInv' /\ BreakerInv' /\ RedisInv' /\ PyInv'
  BY ServicesMove, ServerInvKept, GracefulInvKept, BucketInvKept, WindowInvKept, BreakerInvKept,
     RedisInvKept, PyInvKept DEF EveryInv
<1>3. LockInv /\ [LockNext]_lockVars => LockInv'
  BY LockTypes, JudgedRight, ExclusionKept DEF LockInv
<1>4. LockInv' /\ ConfigInv' /\ AuditInv' /\ SchedulerInv'
  BY <1>3, ServicesMove, ConfigInvKept, AuditInvKept, SchedulerInvKept DEF EveryInv
<1> QED  BY <1>1, <1>2, <1>4 DEF EveryInv

\* In every behaviour of the services each one is in its invariant, whatever the others do.
THEOREM EveryService == Spec => []EveryInv
<1> QED  BY EveryInitInv, EveryInvKept, PTL DEF Spec

\* What each service keeps consistent in itself holds for any number of requests, servers,
\* processes, executions and days: the slots of the pool are the requests inside it, children
\* end with the server, the exit code is that of what was done, the breaker's figures and its
\* trial are right, Redis is tried again, Pyodide's servers are stopped, entries of the audit log
\* are kept as long as they should be, and an installed schedule is complete.
THEOREM ServicesAreConsistent == Spec => []ServicesInv
<1>1. EveryInv => TypeOK
  BY WindowInvImplies
  DEF EveryInv, TypeOK, ServerInv, GracefulInv, BucketInv, BreakerInv, RedisInv, PyInv, LockInv,
      ConfigInv, ConfigTypes, AuditInv, SchedulerInv, EffectsInv, WholeFilesInv
<1>2. EveryInv => /\ SlotsAreCounted /\ NoChildLeft /\ ExitCodeIsTrue
                  /\ StatsAreTrue /\ TrialDecides /\ NeverGivesUp
  BY ServerInvImplies DEF EveryInv, ServerInv, GracefulInv, BreakerInv, RedisInv
<1>3. EveryInv => ServersAreStopped /\ EntriesAreRetained /\ ExistsMeansComplete
  BY PyInvImplies, SchedulerInvImplies DEF EveryInv, AuditInv
<1>4. EveryInv => ServicesInv
  BY <1>1, <1>2, <1>3 DEF ServicesInv
<1> QED  BY EveryService, <1>4, PTL

\* Both limiters keep their limits for all rates, windows and bursts: in no part of a window
\* is more admitted than promised, and who waits as long as told is admitted.
THEOREM LimitersKeepLimits == Spec => []LimitsAreKept
<1>1. EveryInv => LimitsAreKept
  BY BucketInvImplies, WindowInvImplies DEF EveryInv, LimitsAreKept
<1> QED  BY EveryService, <1>1, PTL

\* While code runs, and the 30 seconds of drain() have not passed, its MCP clients stay open
\* and the process lives, for any number of requests, servers and slots.
THEOREM ShutdownWaitsForHandlers == Spec => []NobodyCutOff
<1>1. EveryInv => NobodyCutOff
  BY DEF EveryInv, ServerInv
<1> QED  BY EveryService, <1>1, PTL

\* The lock file excludes in the whole system as it does alone.
THEOREM LockExcludesInServices == Spec => []ExclusiveUnlessRaced
<1>1. EveryInv => ExclusiveUnlessRaced
  BY DEF EveryInv, LockInv
<1> QED  BY EveryService, <1>1, PTL

\* The configuration file is whole and has what was saved, for any number of processes that
\* die at any time, unless two of them overlapped.
THEOREM ConfigStaysWhole == Spec => []ConfigIsWhole
<1>1. EveryInv => ConfigIsWhole
  BY DEF EveryInv, ConfigInv
<1> QED  BY EveryService, <1>1, PTL

\* Python code in an interpreter that no two used at the same time reaches its own proxy only,
\* and sys.stdout is restored after it, for any number of executions.
THEOREM OwnProxyOnly == Spec => []OwnProxyUnlessShared
<1>1. EveryInv => OwnProxyUnlessShared
  BY PyInvImplies DEF EveryInv
<1> QED  BY EveryService, <1>1, PTL
=================================================================================
