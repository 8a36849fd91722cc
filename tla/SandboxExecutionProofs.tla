------------------------ MODULE SandboxExecutionProofs ------------------------
(***************************************************************************)
(* Safety of MCPProxyServer for any number of requests, and of             *)
(* SandboxExecution, which has a proxy in it.  What holds of every proxy   *)
(* is proved of ProxySpec alone (ProxyInv); every behaviour of an          *)
(* execution is one of its proxy (ExecutionHasProxy), so that it holds in  *)
(* executions too; and what the executor leaves behind is an invariant of  *)
(* its own on top of it (StepInv).                                         *)
(***************************************************************************)
EXTENDS SandboxExecution, FiniteSetTheorems, SequenceTheorems, TLAPS

-------------------------------------------------------------------------------
(* The proxy *)

\* What stop() can rely on: its drain waits for something unless it was told that it is
\* over, is told so when nothing is left, and only then; afterwards nothing is added.
DrainInv ==
    /\ server \in {"none", "listening"} => drainResolver = "none"
    /\ server = "none" => activeRequests = 0
    /\ server = "draining" => drainResolver # "none"
    /\ server = "draining" /\ activeRequests = 0 => drainResolver = "resolved"
    /\ drainResolver = "resolved" => activeRequests = 0
    /\ server \in {"closing", "closed"} /\ ~waitedOut => activeRequests = 0

ProxyInv ==
    /\ ProxyTypeOK
    /\ ActiveAccounting
    /\ LogAccounting
    /\ DrainInv

\* The sets of requests are finite, so their sizes are numbers.
LEMMA InFinite ==
    ASSUME NEW where PROVE IsFiniteSet(In(where)) /\ Cardinality(In(where)) \in Nat
  BY FS_Subset, FS_CardinalityType, ProxyAssumption DEF In

\* What one request's move does to a set of requests.
LEMMA GotoChangesIn ==
    ASSUME ProxyTypeOK, NEW r \in Requests, NEW to, Goto(r, to), NEW where
    PROVE  /\ to \in where => In(where)' = In(where) \cup {r}
           /\ to \notin where => In(where)' = In(where) \ {r}
  BY DEF ProxyTypeOK, Goto, In

\* A handler that begins is counted.
LEMMA EnteringIsCounted ==
    ASSUME ProxyInv, NEW r \in Requests, NEW to \in InHandler, Goto(r, to),
           request[r] \notin InHandler, activeRequests' = activeRequests + 1
    PROVE  ActiveAccounting'
<1>1. In(InHandler)' = In(InHandler) \cup {r} /\ r \notin In(InHandler)
  BY GotoChangesIn DEF ProxyInv, In
<1> QED
  BY <1>1, InFinite, FS_AddElement DEF ProxyInv, ActiveAccounting

\* A handler that ends is counted, and the last one resolves the drain.
LEMMA LeavingIsCounted ==
    ASSUME ProxyInv, NEW r \in Requests, NEW to, to \notin InHandler, Goto(r, to),
           request[r] \in InHandler, Leave
    PROVE  ActiveAccounting' /\ activeRequests > 0 /\ activeRequests' = activeRequests - 1
<1>1. In(InHandler)' = In(InHandler) \ {r} /\ r \in In(InHandler)
  BY GotoChangesIn DEF ProxyInv, In
<1>2. Cardinality(In(InHandler)') = Cardinality(In(InHandler)) - 1
  BY <1>1, InFinite, FS_RemoveElement
<1>3. Cardinality(In(InHandler)') \in Nat
  BY <1>1, InFinite, FS_RemoveElement, FS_CardinalityType
<1> QED
  BY <1>2, <1>3, InFinite DEF ProxyInv, ActiveAccounting, Leave

\* Moves between the places of a handler, or outside of one, do not count.
LEMMA MovingIsNotCounted ==
    ASSUME ProxyInv, NEW r \in Requests, NEW to, Goto(r, to),
           (request[r] \in InHandler) <=> (to \in InHandler), UNCHANGED activeRequests
    PROVE  ActiveAccounting'
<1>1. In(InHandler)' = In(InHandler)
  BY GotoChangesIn DEF ProxyInv, In
<1> QED
  BY <1>1 DEF ProxyInv, ActiveAccounting

\* A call that was answered is added to the log, once.
LEMMA LoggedOnce ==
    ASSUME ProxyInv, NEW r \in Requests, NEW status \in {"success", "error"},
           ToolAnswers(r, status)
    PROVE  LogAccounting'
<1> DEFINE entry == [request |-> r, status |-> status]
           Entries == [request : Requests, status : {"success", "error"}]
<1>1. callLog \in Seq(Entries) /\ entry \in Entries /\ callLog' = Append(callLog, entry)
  BY DEF ProxyInv, ProxyTypeOK, ToolAnswers, Log
<1>2. In({"called"})' = In({"called"}) \cup {r} /\ r \notin In({"called"})
  <2>1. Goto(r, "called") /\ request[r] = "calling"
    BY DEF ToolAnswers
  <2>2. r \notin In({"called"})
    BY <2>1 DEF In
  <2> QED
    BY <2>1, <2>2, GotoChangesIn DEF ProxyInv
<1>3. Len(callLog') = Len(callLog) + 1
  BY <1>1, AppendProperties
<1>4. ToSet(callLog') = ToSet(callLog) \cup {entry}
  BY <1>1, AppendProperties, LenProperties DEF ToSet
<1>5. LoggedRequests' = LoggedRequests \cup {r}
  <2>1. entry.request = r
    OBVIOUS
  <2> HIDE DEF entry
  <2> QED
    BY <1>4, <2>1 DEF LoggedRequests
<1> QED
  BY <1>2, <1>3, <1>5, InFinite, FS_AddElement DEF ProxyInv, LogAccounting

\* No other step changes the log, or the set of the calls that were answered.
LEMMA LogKept ==
    ASSUME ProxyInv, UNCHANGED callLog, In({"called"})' = In({"called"})
    PROVE  LogAccounting'
  BY DEF ProxyInv, LogAccounting, LoggedRequests

\* The proxy's invariant holds when the server is made.
LEMMA ProxyInitInv == ProxyInit => ProxyInv
<1> SUFFICES ASSUME ProxyInit PROVE ProxyInv
  OBVIOUS
<1>1. \A where : "idle" \notin where => In(where) = {}
  BY DEF ProxyInit, In
<1>2. ProxyTypeOK
  <2>1. callLog \in Seq([request : Requests, status : {"success", "error"}])
    BY EmptySeq DEF ProxyInit
  <2>2. request \in [Requests -> InHandler \cup {"idle", "sent", "refused", "called"}]
    BY DEF ProxyInit
  <2>3. /\ activeRequests \in Int
        /\ drainResolver \in {"none", "waiting", "resolved"}
        /\ server \in {"none", "listening", "draining", "closing", "closed"}
    BY DEF ProxyInit
  <2>4. waitedOut \in BOOLEAN
    BY DEF ProxyInit
  <2> QED
    BY <2>1, <2>2, <2>3, <2>4 DEF ProxyTypeOK
<1>3. ActiveAccounting
  BY <1>1, FS_EmptySet DEF ProxyInit, ActiveAccounting, InHandler
<1>4. LogAccounting
  <2>1. In({"called"}) = {} /\ callLog = <<>>
    BY <1>1 DEF ProxyInit
  <2>2. ToSet(callLog) = {}
    BY <2>1 DEF ToSet
  <2>3. LoggedRequests = {}
    BY <2>2 DEF LoggedRequests
  <2> QED
    BY <2>1, <2>3, FS_EmptySet DEF LogAccounting
<1> QED
  BY <1>2, <1>3, <1>4 DEF ProxyInit, ProxyInv, DrainInv

\* Every step of the proxy keeps its types.
LEMMA ProxyTypes == ProxyTypeOK /\ [ProxyNext]_proxyVars => ProxyTypeOK'
<1> SUFFICES ASSUME ProxyTypeOK, [ProxyNext]_proxyVars PROVE ProxyTypeOK'
  OBVIOUS
<1> USE DEF ProxyTypeOK, InHandler, Goto
<1>1. ASSUME NEW r \in Requests,
             \/ Send(r) \/ RejectRequest(r)
             \/ \E where \in {"reading", "querying"} : AcceptRequest(r, where)
             \/ QueryEnds(r) \/ ReadBody(r) \/ RefuseCall(r) \/ CallTool(r)
      PROVE  ProxyTypeOK'
  BY <1>1 DEF Send, RejectRequest, AcceptRequest, QueryEnds, ReadBody, RefuseCall, CallTool, Leave
<1>2. ASSUME NEW r \in Requests, NEW status \in {"success", "error"}, ToolAnswers(r, status)
      PROVE  ProxyTypeOK'
  BY <1>2 DEF ToolAnswers, Log, Leave
<1>3. CASE StartProxy \/ StopProxy \/ CloseProxy \/ \E timedOut \in BOOLEAN : EndDrain(timedOut)
  BY <1>3 DEF StartProxy, StopProxy, CloseProxy, EndDrain
<1>4. CASE UNCHANGED proxyVars
  BY <1>4 DEF proxyVars
<1> QED
  BY <1>1, <1>2, <1>3, <1>4 DEF ProxyNext, ProxyHandles, ProxyStops

\* Every step of the proxy keeps the accounts and the drain.
LEMMA ProxyStepInv == ProxyInv /\ [ProxyNext]_proxyVars => ProxyInv'
<1> SUFFICES ASSUME ProxyInv, [ProxyNext]_proxyVars PROVE ProxyInv'
  OBVIOUS
<1>0. ProxyTypeOK'
  BY ProxyTypes DEF ProxyInv
<1>1. ASSUME NEW r \in Requests, NEW from, NEW to, request[r] = from, Goto(r, to),
             from # "called", to # "called", UNCHANGED callLog
      PROVE  LogAccounting'
  <2>1. In({"called"})' = In({"called"})
    <3>1. r \notin In({"called"})
      BY <1>1 DEF In
    <3> QED
      BY <1>1, <3>1, GotoChangesIn DEF ProxyInv
  <2> QED
    BY <1>1, <2>1, LogKept
<1>2. ASSUME NEW r \in Requests, Send(r) \/ RejectRequest(r) PROVE ProxyInv'
  <2>1. PICK from \in {"idle", "sent"}, to \in {"sent", "refused"} :
            /\ request[r] = from /\ Goto(r, to)
            /\ UNCHANGED <<callLog, activeRequests, drainResolver, server, waitedOut>>
    BY <1>2 DEF Send, RejectRequest
  <2>2. ActiveAccounting'
    BY <2>1, MovingIsNotCounted DEF InHandler
  <2>3. LogAccounting'
    BY <1>1, <2>1
  <2> QED
    BY <1>0, <2>1, <2>2, <2>3 DEF ProxyInv, DrainInv
<1>3. ASSUME NEW r \in Requests, NEW where \in {"reading", "querying"}, AcceptRequest(r, where)
      PROVE  ProxyInv'
  <2>1. ActiveAccounting'
    BY <1>3, EnteringIsCounted DEF AcceptRequest, InHandler
  <2>2. LogAccounting'
    BY <1>1, <1>3 DEF AcceptRequest
  <2>3. DrainInv'
    BY <1>3 DEF AcceptRequest, ProxyInv, DrainInv
  <2> QED
    BY <1>0, <2>1, <2>2, <2>3 DEF ProxyInv
<1>4. ASSUME NEW r \in Requests, ReadBody(r) \/ CallTool(r) PROVE ProxyInv'
  <2>1. PICK from \in InHandler, to \in InHandler :
            /\ request[r] = from /\ Goto(r, to)
            /\ UNCHANGED <<callLog, activeRequests, drainResolver, server, waitedOut>>
    BY <1>4 DEF ReadBody, CallTool, InHandler
  <2>2. ActiveAccounting'
    BY <2>1, MovingIsNotCounted
  <2>3. LogAccounting'
    BY <1>1, <2>1 DEF InHandler
  <2> QED
    BY <1>0, <2>1, <2>2, <2>3 DEF ProxyInv, DrainInv
<1>5. ASSUME NEW r \in Requests, NEW to \in {"refused", "called"}, request[r] \in InHandler,
             Goto(r, to), Leave, UNCHANGED <<server, waitedOut>>
      PROVE  ActiveAccounting' /\ DrainInv'
  <2>1. ActiveAccounting' /\ activeRequests > 0 /\ activeRequests' = activeRequests - 1
    BY <1>5, LeavingIsCounted DEF InHandler
  <2>2. activeRequests \in Int
    BY DEF ProxyInv, ProxyTypeOK
  <2> QED
    BY <1>5, <2>1, <2>2 DEF ProxyInv, ProxyTypeOK, DrainInv, Leave, IsLast
<1>6. ASSUME NEW r \in Requests, QueryEnds(r) \/ RefuseCall(r) PROVE ProxyInv'
  <2>1. /\ request[r] \in InHandler /\ Goto(r, "refused") /\ Leave
        /\ UNCHANGED <<callLog, server, waitedOut>>
    BY <1>6 DEF QueryEnds, RefuseCall, InHandler
  <2>2. ActiveAccounting' /\ DrainInv'
    BY <1>5, <2>1
  <2>3. LogAccounting'
    BY <1>1, <2>1 DEF InHandler
  <2> QED
    BY <1>0, <2>2, <2>3 DEF ProxyInv
<1>7. ASSUME NEW r \in Requests, NEW status \in {"success", "error"}, ToolAnswers(r, status)
      PROVE  ProxyInv'
  <2>1. ActiveAccounting' /\ DrainInv'
    BY <1>5, <1>7 DEF ToolAnswers, InHandler
  <2>2. LogAccounting'
    BY <1>7, LoggedOnce
  <2> QED
    BY <1>0, <2>1, <2>2 DEF ProxyInv
<1>8. ASSUME UNCHANGED <<request, callLog, activeRequests>> PROVE ActiveAccounting' /\ LogAccounting'
  BY <1>8 DEF ProxyInv, ActiveAccounting, LogAccounting, LoggedRequests, In
<1>9. CASE StartProxy \/ StopProxy \/ CloseProxy \/ \E timedOut \in BOOLEAN : EndDrain(timedOut)
  <2>1. UNCHANGED <<request, callLog, activeRequests>>
    BY <1>9 DEF StartProxy, StopProxy, CloseProxy, EndDrain
  <2>2. activeRequests \in Nat
    BY InFinite DEF ProxyInv, ActiveAccounting
  <2>3. DrainInv'
    BY <1>9, <2>1, <2>2
    DEF StartProxy, StopProxy, CloseProxy, EndDrain, DrainIsOver, ProxyInv, ProxyTypeOK, DrainInv
  <2> QED
    BY <1>0, <1>8, <2>1, <2>3 DEF ProxyInv
<1>10. CASE UNCHANGED proxyVars
  BY <1>0, <1>8, <1>10 DEF proxyVars, ProxyInv, DrainInv
<1> QED
  BY <1>2, <1>3, <1>4, <1>6, <1>7, <1>9, <1>10 DEF ProxyNext, ProxyHandles, ProxyStops

\* The inductive invariant of the proxy, in any surroundings.
THEOREM ProxyInvariance == ProxySpec => []ProxyInv
  BY ProxyInitInv, ProxyStepInv, PTL DEF ProxySpec

\* What the proxy promises follows from its invariant.
LEMMA ProxyInvImplies == ProxyInv => StopCutsNobodyOff /\ DrainIsTold
<1> SUFFICES ASSUME ProxyInv PROVE StopCutsNobodyOff /\ DrainIsTold
  OBVIOUS
<1>1. activeRequests = 0 => In(InHandler) = {}
  BY InFinite, FS_EmptySet DEF ProxyInv, ActiveAccounting
<1> QED
  BY <1>1 DEF ProxyInv, DrainInv, StopCutsNobodyOff, DrainIsTold

-------------------------------------------------------------------------------
(* The execution around it *)

\* A step of an execution is a step of its proxy, or leaves the proxy alone.
LEMMA ExecutionStepsProxy == [Next]_vars => [ProxyNext]_proxyVars
<1> SUFFICES ASSUME [Next]_vars PROVE [ProxyNext]_proxyVars
  OBVIOUS
<1>1. CASE SetUp
  BY <1>1 DEF SetUp, StartStreaming, CheckPolicy, ProxyStarts, ProxyDoesNotStart, StartBridge,
              WriteFile, VerifyFile, Spawn, SpawnFails, ProxyNext
<1>2. CASE CleanUp
  BY <1>2 DEF CleanUp, FinallyStopsStream, BeginProxyStop, ProxyIsStopped, StopBridge, Unlink,
              UnwindStream, ProxyNext
<1>3. CASE ProcessCloses \/ Timeout \/ UNCHANGED vars
  BY <1>3 DEF ProcessCloses, Timeout, vars
<1>4. CASE ProxyWorks \/ \E r \in Requests : SandboxSends(r)
  BY <1>4 DEF ProxyWorks, SandboxSends, ProxyNext
<1> QED
  BY <1>1, <1>2, <1>3, <1>4 DEF Next

\* Every behaviour of an execution is, for its proxy, a behaviour of the proxy alone: the
\* executor starts it once, stops it once, and lets it work meanwhile.
THEOREM ExecutionHasProxy == Spec => ProxySpec
<1>1. Init => ProxyInit
  BY DEF Init
<1> QED
  BY <1>1, ExecutionStepsProxy, PTL DEF Spec, ProxySpec

\* What an executor has started, at each step of it.
WithoutFile == {"begin", "policy", "proxy", "bridge", "write",
                "unwindProxy", "unwindProxyWait", "unwindStream"}
AfterOutcome == {"stopStream", "stopProxy", "stopProxyWait", "stopBridge", "unlink", "returned"}

StepInv ==
    /\ step \in {"begin", "policy", "proxy"} => server = "none"
    /\ step \in {"stopBridge", "unlink"} => server = "closed"
    /\ step \in {"unwindStream", "returned"} => server \in {"none", "closed"}
    /\ stream = "open" =>
         \/ step \notin {"begin", "stopProxy", "stopProxyWait", "stopBridge", "unlink", "returned"}
         \/ step = "returned" /\ outcome = "denied"
    /\ bridge = "open" =>
         step \in {"write", "verify", "spawn", "run", "stopStream", "stopProxy", "stopProxyWait",
                   "stopBridge", "crashed"}
    /\ process = "running" => step = "run"
    /\ file = "written" => step \notin WithoutFile \cup {"returned"}
    /\ step \in WithoutFile => file = "none"
    /\ file = "partial" => outcome = "thrown" /\ step \in AfterOutcome

ExecTypes ==
    /\ options \in [language : {"typescript", "python"}, streaming : BOOLEAN,
                    sampling : BOOLEAN, denied : BOOLEAN]
    /\ step \in Steps
    /\ stream \in {"none", "broken", "open", "stopped"}
    /\ bridge \in {"none", "open", "stopped"}
    /\ file \in {"none", "partial", "written", "removed", "undeletable"}
    /\ process \in {"none", "running", "ended"}
    /\ outcome \in {"none", "denied", "failed", "thrown", "exited", "unspawned", "timeout"}
    /\ reported \in Seq([request : Requests, status : {"success", "error"}])

IInv == ProxyInv /\ ExecTypes /\ StepInv /\ ReportIsTruthful

\* The invariant of the execution holds before it begins.
LEMMA ExecInit == Init => IInv
<1> SUFFICES ASSUME Init PROVE IInv
  OBVIOUS
<1>1. ProxyInv
  BY ProxyInitInv DEF Init
<1>2. ExecTypes
  <2>1. reported \in Seq([request : Requests, status : {"success", "error"}])
    BY EmptySeq DEF Init
  <2>2. /\ options \in [language : {"typescript", "python"}, streaming : BOOLEAN,
                        sampling : BOOLEAN, denied : BOOLEAN]
        /\ step = "begin" /\ stream = "none" /\ bridge = "none"
        /\ file = "none" /\ process = "none" /\ outcome = "none"
    BY DEF Init
  <2> QED
    BY <2>1, <2>2 DEF ExecTypes, Steps
<1>3. StepInv
  BY DEF Init, ProxyInit, StepInv, WithoutFile
<1>4. ReportIsTruthful
  BY DEF Init, ProxyInit, ReportIsTruthful, IsPrefix
<1> QED
  BY <1>1, <1>2, <1>3, <1>4 DEF IInv

\* A prefix agrees with the whole, as far as it goes.
LEMMA PrefixPointwise ==
    ASSUME NEW S, NEW s \in Seq(S), NEW t \in Seq(S)
    PROVE  IsPrefix(s, t) <=> Len(s) <= Len(t) /\ \A i \in 1..Len(s) : s[i] = t[i]
<1>1. SubSeq(s, 1, Len(s)) = s
  BY SubSeqFull
<1>2. ASSUME Len(s) <= Len(t)
      PROVE  /\ SubSeq(t, 1, Len(s)) \in Seq(S)
             /\ Len(SubSeq(t, 1, Len(s))) = Len(s)
             /\ \A i \in 1..Len(s) : SubSeq(t, 1, Len(s))[i] = t[i]
  <2>1. Len(s) \in Nat /\ Len(t) \in Nat
    BY LenProperties
  <2>2. \A i \in 1..Len(s) : t[i] \in S
    BY <1>2, <2>1, ElementOfSeq
  <2> QED
    BY <2>1, <2>2, SubSeqProperties
<1>3. ASSUME Len(s) <= Len(t), \A i \in 1..Len(s) : s[i] = t[i]
      PROVE  SubSeq(t, 1, Len(s)) = s
  BY <1>2, <1>3, SeqEqual
<1> QED
  BY <1>1, <1>2, <1>3 DEF IsPrefix

\* A report that is a part of the log remains one when the log grows.
LEMMA PrefixOfAppend ==
    ASSUME NEW S, NEW s \in Seq(S), NEW t \in Seq(S), NEW e \in S, IsPrefix(s, t)
    PROVE  IsPrefix(s, Append(t, e))
<1>1. Append(t, e) \in Seq(S) /\ Len(Append(t, e)) = Len(t) + 1
      /\ \A i \in 1..Len(t) : Append(t, e)[i] = t[i]
  BY AppendProperties
<1>2. Len(s) \in Nat /\ Len(t) \in Nat /\ Len(s) <= Len(t) /\ \A i \in 1..Len(s) : s[i] = t[i]
  BY PrefixPointwise, LenProperties
<1>3. Len(s) <= Len(Append(t, e)) /\ \A i \in 1..Len(s) : s[i] = Append(t, e)[i]
  BY <1>1, <1>2
<1> HIDE DEF IsPrefix
<1> QED
  BY <1>1, <1>3, PrefixPointwise

\* The whole log is a prefix of the log.
LEMMA PrefixOfItself == ASSUME NEW S, NEW s \in Seq(S) PROVE IsPrefix(s, s)
  BY PrefixPointwise, LenProperties

\* The log is the report, or grows beyond it.
LEMMA ReportStaysTrue == IInv /\ [Next]_vars => ReportIsTruthful'
<1> DEFINE Entries == [request : Requests, status : {"success", "error"}]
<1> SUFFICES ASSUME IInv, [Next]_vars PROVE ReportIsTruthful'
  OBVIOUS
<1>1. callLog \in Seq(Entries) /\ reported \in Seq(Entries)
  BY DEF IInv, ExecTypes, ProxyInv, ProxyTypeOK
<1>2. CASE reported' = callLog /\ callLog' = callLog
  BY <1>1, <1>2, PrefixOfItself DEF ReportIsTruthful
<1>3. CASE UNCHANGED <<reported, callLog>>
  BY <1>3 DEF IInv, ReportIsTruthful
<1>4. ASSUME NEW r \in Requests, NEW status \in {"success", "error"}, ToolAnswers(r, status),
             UNCHANGED reported
      PROVE  ReportIsTruthful'
  <2>1. PICK entry \in Entries : callLog' = Append(callLog, entry)
    BY <1>4 DEF ToolAnswers, Log
  <2> QED
    BY <1>1, <1>4, <2>1, PrefixOfAppend DEF IInv, ReportIsTruthful
<1>5. CASE SetUp \/ CleanUp \/ (\E r \in Requests : SandboxSends(r)) \/ UNCHANGED vars
  <2>1. UNCHANGED <<reported, callLog>>
    BY <1>5
    DEF SetUp, StartStreaming, CheckPolicy, ProxyStarts, StartProxy, ProxyDoesNotStart,
        StartBridge, WriteFile, VerifyFile, Spawn, SpawnFails, CleanUp, FinallyStopsStream,
        BeginProxyStop, StopProxy, ProxyIsStopped, StopBridge, Unlink, UnwindStream,
        SandboxSends, Send, vars, execVars, proxyVars
  <2> QED
    BY <1>3, <2>1
<1>6. CASE ProcessCloses \/ Timeout
  BY <1>2, <1>6 DEF ProcessCloses, Timeout, Decide, proxyVars
<1>7. CASE ProxyWorks
  <2>1. UNCHANGED reported
    BY <1>7 DEF ProxyWorks, execVars
  <2>2. CASE UNCHANGED callLog
    BY <1>3, <2>1, <2>2
  <2>3. CASE \E r \in Requests, status \in {"success", "error"} : ToolAnswers(r, status)
    BY <1>4, <2>1, <2>3
  <2> QED
    BY <1>7, <2>2, <2>3
    DEF ProxyWorks, ProxyHandles, ProxyStops, RejectRequest, AcceptRequest, QueryEnds, ReadBody,
        RefuseCall, CallTool, EndDrain, CloseProxy
<1> QED
  BY <1>5, <1>6, <1>7 DEF Next

\* Every step of an execution keeps the types.
LEMMA ExecTypesKept == IInv /\ [Next]_vars => ExecTypes'
<1> SUFFICES ASSUME IInv, [Next]_vars PROVE ExecTypes'
  OBVIOUS
<1> USE DEF IInv, ExecTypes, Steps
<1>1. CASE SetUp
  BY <1>1 DEF SetUp, StartStreaming, CheckPolicy, ProxyStarts, ProxyDoesNotStart, StartBridge,
              WriteFile, VerifyFile, Spawn, SpawnFails
<1>2. CASE CleanUp
  BY <1>2 DEF CleanUp, FinallyStopsStream, StopStream, StreamIfAny, BeginProxyStop, ProxyIsStopped,
              StopBridge, Unlink, UnwindStream
<1>3. CASE ProcessCloses \/ Timeout
  BY <1>3 DEF ProcessCloses, Timeout, Decide, ProxyInv, ProxyTypeOK
<1>4. CASE ProxyWorks \/ (\E r \in Requests : SandboxSends(r)) \/ UNCHANGED vars
  BY <1>4 DEF ProxyWorks, SandboxSends, execVars, vars
<1> QED
  BY <1>1, <1>2, <1>3, <1>4 DEF Next

\* Each step of the executor starts or stops what its place in the code says.
LEMMA StepInvKept == IInv /\ [Next]_vars => StepInv'
<1> SUFFICES ASSUME IInv, [Next]_vars PROVE StepInv'
  OBVIOUS
<1> USE DEF StepInv, WithoutFile, AfterOutcome
<1>0. StepInv /\ ExecTypes /\ ProxyTypeOK
  BY DEF IInv, ProxyInv
<1>1. ASSUME NEW ok \in BOOLEAN,
             StartStreaming(ok) \/ StartBridge(ok) \/ WriteFile(ok) \/ VerifyFile(ok)
      PROVE  StepInv'
  BY <1>0, <1>1 DEF StartStreaming, StartBridge, WriteFile, VerifyFile, proxyVars, ExecTypes
<1>2. CASE CheckPolicy \/ ProxyStarts \/ ProxyDoesNotStart \/ Spawn \/ SpawnFails
  BY <1>0, <1>2 DEF CheckPolicy, ProxyStarts, StartProxy, ProxyDoesNotStart, Spawn, SpawnFails,
                    proxyVars, ExecTypes
<1>3. CASE ProcessCloses \/ Timeout
  BY <1>0, <1>3 DEF ProcessCloses, Timeout, Decide, proxyVars
<1>4. CASE ProxyWorks \/ (\E r \in Requests : SandboxSends(r)) \/ UNCHANGED vars
  <2>1. UNCHANGED execVars
    BY <1>4 DEF ProxyWorks, SandboxSends, vars
  <2>2. (server = "none" => server' = "none") /\ (server = "closed" => server' = "closed")
    BY <1>4 DEF ProxyWorks, SandboxSends, vars, proxyVars, ProxyHandles, ProxyStops, Send,
                RejectRequest, AcceptRequest, QueryEnds, ReadBody, RefuseCall, CallTool,
                ToolAnswers, EndDrain, CloseProxy
  <2> QED
    BY <1>0, <2>1, <2>2 DEF execVars
<1>5. CASE FinallyStopsStream \/ UnwindStream
  BY <1>0, <1>5 DEF FinallyStopsStream, StopStream, UnwindStream, StreamIfAny, proxyVars
<1>6. CASE BeginProxyStop \/ ProxyIsStopped
  BY <1>0, <1>6 DEF BeginProxyStop, StopProxy, ProxyIsStopped, proxyVars
<1>7. ASSUME NEW removed \in BOOLEAN, StopBridge \/ Unlink(removed) PROVE StepInv'
  BY <1>0, <1>7 DEF StopBridge, Unlink, proxyVars
<1> QED
  BY <1>1, <1>2, <1>3, <1>4, <1>5, <1>6, <1>7 DEF Next, SetUp, CleanUp

-------------------------------------------------------------------------------
(* The theorems *)

\* The inductive invariant of an execution.
THEOREM Invariance == Spec => []IInv
<1>1. IInv /\ [Next]_vars => IInv'
  <2>1. ProxyInv /\ [Next]_vars => ProxyInv'
    BY ExecutionStepsProxy, ProxyStepInv
  <2> QED
    BY <2>1, ExecTypesKept, StepInvKept, ReportStaysTrue DEF IInv
<1> QED
  BY ExecInit, <1>1, PTL DEF Spec

\* The types are right, the counter of active requests is the number of handlers under
\* way, and the log has one record for each call that was answered.
THEOREM AccountsAgree == Spec => []ExecutionInv
<1>1. IInv => ExecutionInv
  BY DEF IInv, ProxyInv, ExecTypes, ExecutionInv, TypeOK
<1> QED
  BY Invariance, <1>1, PTL

\* stop() of the proxy closes it on handlers under way only when its time was over.
THEOREM StopIsGraceful == Spec => []StopCutsNobodyOff
<1>1. IInv => StopCutsNobodyOff
  BY ProxyInvImplies DEF IInv
<1> QED
  BY Invariance, <1>1, PTL

\* A drain that has nothing left to wait for has been told so, however many requests there were.
THEOREM DrainIsHeard == Spec => []DrainIsTold
<1>1. IInv => DrainIsTold
  BY ProxyInvImplies DEF IInv
<1> QED
  BY Invariance, <1>1, PTL

\* What an execution reports of its calls stays true.
THEOREM ReportIsTrue == Spec => []ReportIsTruthful
<1>1. IInv => ReportIsTruthful
  BY DEF IInv
<1> QED
  BY Invariance, <1>1, PTL

\* On every path of the executor, what it started is stopped when it returns, with the
\* exceptions the property names.
THEOREM CleansUp == Spec => []NothingLeftBehind
<1>1. IInv => NothingLeftBehind
  <2> SUFFICES ASSUME IInv, step = "returned" PROVE NothingLeftBehind
    BY DEF NothingLeftBehind
  <2>1. activeRequests = 0 => In(InHandler) = {}
    BY InFinite, FS_EmptySet DEF IInv, ProxyInv, ActiveAccounting
  <2>2. ~waitedOut => In(InHandler) = {}
    BY <2>1 DEF IInv, StepInv, ProxyInv, DrainInv
  <2> QED
    BY <2>2 DEF IInv, StepInv, WithoutFile, NothingLeftBehind
<1> QED
  BY Invariance, <1>1, PTL
===============================================================================
