-------------------------- MODULE SamplingBridgeProofs --------------------------
(***************************************************************************)
(* Safety of SamplingBridge for any set of calls, any limits and any cost  *)
(* of a call.  IInv is inductive.  A step either leaves the counters and   *)
(* the sets they count alone (a quiet step), or it is one of the five      *)
(* steps that admit, count or give back a round; these are treated one by  *)
(* one.                                                                    *)
(***************************************************************************)
EXTENDS SamplingBridge, FiniteSetTheorems, TLAPS

\* Where a call may be.
CallStates == InFlight \cup {"idle", "abandoned", "succeeded", "refused"}

(* Counting a set of calls *)

LEMMA SetsOfCalls ==
  ASSUME NEW S \in SUBSET Calls
  PROVE  IsFiniteSet(S) /\ Cardinality(S) \in Nat
  BY FS_Subset, FS_CardinalityType, BridgeAssumption

LEMMA Added ==
  ASSUME NEW S \in SUBSET Calls, NEW c \in Calls \ S
  PROVE  Cardinality(S \cup {c}) = Cardinality(S) + 1
  BY SetsOfCalls, FS_AddElement

LEMMA Removed ==
  ASSUME NEW S \in SUBSET Calls, NEW c \in S
  PROVE  Cardinality(S \ {c}) = Cardinality(S) - 1
  BY SetsOfCalls, FS_RemoveElement

-------------------------------------------------------------------------------
(* Types *)

LEMMA InitTypeOK == Init => TypeOK
<1> SUFFICES ASSUME Init PROVE TypeOK
  OBVIOUS
<1>1. cost \in [Calls -> Nat]
  BY DEF Init
<1>2. pc \in [Calls -> InFlight \cup {"idle", "abandoned", "succeeded", "refused"}]
  BY DEF Init
<1>3. samplingMode \in {"mcp", "direct"} /\ hasProvider \in BOOLEAN
  BY DEF Init
<1>4. roundsUsed \in Nat /\ tokensUsed \in Nat
  BY DEF Init
<1>5. samplingCalls \subseteq Calls /\ activeRequests \subseteq Calls /\ gone \subseteq Calls
  BY DEF Init
<1>6. server \in {"serving", "stopping", "closing", "stopped"}
  BY DEF Init
<1>7. waitedOut \in BOOLEAN /\ raced \in BOOLEAN
  BY DEF Init
<1> QED
  BY <1>1, <1>2, <1>3, <1>4, <1>5, <1>6, <1>7 DEF TypeOK

\* The parts of the type invariant that only a few steps change.
LEMMA PcStep ==
  ASSUME TypeOK, NEW c \in Calls, NEW w \in CallStates, Goto(c, w)
  PROVE  pc' \in [Calls -> CallStates]
  BY DEF Goto, TypeOK, CallStates

LEMMA RespondStep ==
  ASSUME TypeOK, NEW c \in Calls, NEW w \in CallStates, Respond(c, w)
  PROVE  /\ pc' \in [Calls -> CallStates]
         /\ activeRequests' \subseteq Calls
<1>1. Goto(c, w)
  BY DEF Respond
<1>2. activeRequests' \subseteq activeRequests
  BY DEF Respond
<1> QED
  BY <1>1, <1>2, PcStep DEF TypeOK

LEMMA HandleType ==
  ASSUME TypeOK, NEW c \in Calls, Handle(c)
  PROVE  TypeOK'
<1> USE DEF quota, lifecycle
<1>0. {"idle", "reading", "opening", "mcp", "provider", "updating", "streaming", "settling",
       "rollback", "abandoned", "succeeded", "refused"} \subseteq CallStates
  BY DEF CallStates, InFlight
<1>1. CASE RefuseRequest(c)
  BY <1>0, <1>1, RespondStep DEF RefuseRequest, TypeOK, CallStates
<1>2. CASE RefuseQuota(c)
  BY <1>0, <1>2, RespondStep DEF RefuseQuota, TypeOK, CallStates
<1>3. ASSUME NEW stream \in BOOLEAN, Admit(c, stream) PROVE TypeOK'
  <2>1. raced' \in BOOLEAN
    BY <1>3 DEF Admit, TypeOK
  <2>2. pc' \in [Calls -> CallStates] /\ activeRequests' \subseteq Calls
    <3>1. CASE samplingMode = "direct" /\ ~hasProvider
      BY <1>0, <1>3, <3>1, RespondStep DEF Admit
    <3>2. CASE ~(samplingMode = "direct" /\ ~hasProvider)
      BY <1>0, <1>3, <3>2, PcStep DEF Admit, TypeOK
    <3> QED
      BY <3>1, <3>2
  <2> QED
    BY <1>3, <2>1, <2>2 DEF Admit, TypeOK, CallStates
<1>4. CASE Update(c)
  <2>1. roundsUsed' \in Nat /\ tokensUsed' \in Nat
    BY <1>4 DEF Update, RoundsAfterUpdate, TypeOK
  <2>2. pc' \in [Calls -> CallStates] /\ activeRequests' \subseteq Calls
    BY <1>0, <1>4, RespondStep DEF Update
  <2> QED
    BY <1>4, <2>1, <2>2 DEF Update, TypeOK, CallStates
<1>5. CASE RefuseUpdate(c)
  BY <1>0, <1>5, RespondStep DEF RefuseUpdate, TypeOK, CallStates
<1>6. CASE OpenStream(c)
  <2>1. pc' \in [Calls -> CallStates]
    BY <1>0, <1>6, PcStep DEF OpenStream, AfterOpening
  <2> QED
    BY <1>6, <2>1 DEF OpenStream, TypeOK, CallStates
<1>7. CASE SettleStream(c)
  <2>1. tokensUsed' \in Nat
    BY <1>7 DEF SettleStream, TypeOK
  <2>2. pc' \in [Calls -> CallStates] /\ activeRequests' \subseteq Calls
    BY <1>0, <1>7, RespondStep DEF SettleStream
  <2> QED
    BY <1>7, <2>1, <2>2 DEF SettleStream, TypeOK, CallStates
<1>8. CASE RefuseStream(c)
  BY <1>0, <1>8, PcStep DEF RefuseStream, TypeOK, CallStates
<1>9. CASE Rollback(c)
  <2>1. roundsUsed' \in Nat
    BY <1>9 DEF Rollback, RoundsAfterRollback, TypeOK
  <2>2. pc' \in [Calls -> CallStates] /\ activeRequests' \subseteq Calls
    BY <1>0, <1>9, RespondStep DEF Rollback
  <2> QED
    BY <1>9, <2>1, <2>2 DEF Rollback, TypeOK, CallStates
<1> QED
  BY <1>1, <1>2, <1>3, <1>4, <1>5, <1>6, <1>7, <1>8, <1>9 DEF Handle

LEMMA LLMType ==
  ASSUME TypeOK, NEW c \in Calls, LLM(c)
  PROVE  TypeOK'
<1> USE DEF quota, lifecycle
<1>0. {"provider", "updating", "settling", "rollback", "abandoned", "refused"}
        \subseteq CallStates
  BY DEF CallStates, InFlight
<1>1. ASSUME NEW tokens \in Usage, Answer(c, tokens) PROVE TypeOK'
  <2>1. cost' \in [Calls -> Nat]
    BY <1>1, BridgeAssumption DEF Answer, TypeOK
  <2>2. pc' \in [Calls -> CallStates]
    BY <1>0, <1>1, PcStep DEF Answer
  <2> QED
    BY <1>1, <2>1, <2>2 DEF Answer, TypeOK, CallStates
<1>2. ASSUME NEW tokens \in Usage, StreamEnds(c, tokens) PROVE TypeOK'
  <2>1. cost' \in [Calls -> Nat]
    BY <1>2, BridgeAssumption DEF StreamEnds, TypeOK
  <2>2. pc' \in [Calls -> CallStates]
    BY <1>0, <1>2, PcStep DEF StreamEnds
  <2> QED
    BY <1>2, <2>1, <2>2 DEF StreamEnds, TypeOK, CallStates
<1>3. CASE McpFails(c)
  <2>1. pc' \in [Calls -> CallStates] /\ activeRequests' \subseteq Calls
    BY <1>0, <1>3, RespondStep, PcStep DEF McpFails, TypeOK
  <2> QED
    BY <1>3, <2>1 DEF McpFails, TypeOK, CallStates
<1>4. CASE ProviderFails(c)
  BY <1>0, <1>4, RespondStep DEF ProviderFails, TypeOK, CallStates
<1>5. CASE StreamFails(c)
  BY <1>0, <1>5, PcStep DEF StreamFails, TypeOK, CallStates
<1>6. CASE StreamAbandoned(c)
  BY <1>0, <1>6, PcStep DEF StreamAbandoned, TypeOK, CallStates
<1> QED
  BY <1>1, <1>2, <1>3, <1>4, <1>5, <1>6 DEF LLM

LEMMA TypeStep == TypeOK /\ [Next]_vars => TypeOK'
<1> SUFFICES ASSUME TypeOK, [Next]_vars PROVE TypeOK'
  OBVIOUS
<1> USE DEF quota, lifecycle
<1>1. ASSUME NEW c \in Calls, Arrive(c) PROVE TypeOK'
  <2>1. pc' \in [Calls -> CallStates]
    BY <1>1, PcStep DEF Arrive, CallStates, InFlight
  <2> QED
    BY <1>1, <2>1 DEF Arrive, TypeOK, CallStates
<1>2. ASSUME NEW c \in Calls, Handle(c) PROVE TypeOK'
  BY <1>2, HandleType
<1>3. ASSUME NEW c \in Calls, LLM(c) PROVE TypeOK'
  BY <1>3, LLMType
<1>4. ASSUME NEW c \in Calls, LoseConnection(c) PROVE TypeOK'
  BY <1>4 DEF LoseConnection, TypeOK
<1>5. CASE Stop
  BY <1>5 DEF Stop, TypeOK
<1>6. ASSUME NEW timedOut \in BOOLEAN, Close(timedOut) PROVE TypeOK'
  BY <1>6 DEF Close, TypeOK, NothingActive
<1>7. CASE Closed
  BY <1>7 DEF Closed, TypeOK
<1>8. CASE UNCHANGED vars
  BY <1>8 DEF vars, TypeOK
<1> QED
  BY <1>1, <1>2, <1>3, <1>4, <1>5, <1>6, <1>7, <1>8 DEF Next

-------------------------------------------------------------------------------
(* Rounds: what they count, and the limit while nothing races *)

RoundInv == RecordInv /\ RoundAccounting /\ RaceInv

\* A quiet step: counters and counted calls stay, and no call starts to wait for its
\* round.
Quiet ==
    /\ roundsUsed' = roundsUsed
    /\ samplingCalls' = samplingCalls
    /\ In({"succeeded"})' = In({"succeeded"})
    /\ CountedStreams' = CountedStreams
    /\ Uncounted' \subseteq Uncounted
    /\ raced => raced'

LEMMA QuietRounds ==
  ASSUME TypeOK, RoundInv, Quiet
  PROVE  RoundInv'
<1>1. RecordInv' /\ RoundAccounting'
  BY DEF RoundInv, RecordInv, RoundAccounting, Quiet
<1>2. Cardinality(Uncounted') <= Cardinality(Uncounted)
  BY FS_Subset, SetsOfCalls DEF Quiet, Uncounted, In
<1>3. Cardinality(Uncounted) \in Nat /\ Cardinality(Uncounted') \in Nat
  BY SetsOfCalls DEF Uncounted, In
<1>4. RaceInv'
  BY <1>2, <1>3, BridgeAssumption DEF RaceInv, RoundInv, Quiet, TypeOK
<1> QED
  BY <1>1, <1>4 DEF RoundInv

\* A call that moves between places of the same kind moves quietly.
LEMMA QuietMove ==
  ASSUME TypeOK, NEW c \in Calls, NEW w, Goto(c, w),
         UNCHANGED <<roundsUsed, samplingCalls, raced>>,
         pc[c] # "succeeded" /\ w # "succeeded",
         pc[c] \in {"streaming", "settling", "rollback", "abandoned"}
           <=> w \in {"streaming", "settling", "rollback", "abandoned"},
         w \in {"opening", "mcp", "provider", "updating"}
           => pc[c] \in {"opening", "mcp", "provider", "updating"}
  PROVE  Quiet
<1>1. In({"succeeded"})' = In({"succeeded"})
  BY DEF Goto, TypeOK, In
<1>2. CountedStreams' = CountedStreams
  BY DEF Goto, TypeOK, In, CountedStreams
<1>3. Uncounted' \subseteq Uncounted
  BY DEF Goto, TypeOK, In, Uncounted
<1> QED
  BY <1>1, <1>2, <1>3 DEF Quiet

LEMMA QuietHandle ==
  ASSUME TypeOK, NEW c \in Calls,
         RefuseRequest(c) \/ RefuseQuota(c) \/ RefuseUpdate(c) \/ RefuseStream(c) \/ Arrive(c)
  PROVE  Quiet
<1> USE DEF quota
<1>1. CASE RefuseRequest(c)
  BY <1>1, QuietMove DEF RefuseRequest, Respond
<1>2. CASE RefuseQuota(c)
  BY <1>2, QuietMove DEF RefuseQuota, Respond
<1>3. CASE RefuseUpdate(c)
  BY <1>3, QuietMove DEF RefuseUpdate, Respond
<1>4. CASE RefuseStream(c)
  BY <1>4, QuietMove DEF RefuseStream
<1>5. CASE Arrive(c)
  BY <1>5, QuietMove DEF Arrive
<1> QED
  BY <1>1, <1>2, <1>3, <1>4, <1>5

LEMMA QuietLLM ==
  ASSUME TypeOK, NEW c \in Calls, LLM(c)
  PROVE  Quiet
<1> USE DEF quota
<1>1. ASSUME NEW tokens \in Usage, Answer(c, tokens) PROVE Quiet
  BY <1>1, QuietMove DEF Answer
<1>2. ASSUME NEW tokens \in Usage, StreamEnds(c, tokens) PROVE Quiet
  BY <1>2, QuietMove DEF StreamEnds
<1>3. CASE McpFails(c)
  <2>1. CASE hasProvider
    BY <1>3, <2>1, QuietMove DEF McpFails
  <2>2. CASE ~hasProvider
    BY <1>3, <2>2, QuietMove DEF McpFails, Respond
  <2> QED
    BY <2>1, <2>2
<1>4. CASE ProviderFails(c)
  BY <1>4, QuietMove DEF ProviderFails, Respond
<1>5. CASE StreamFails(c)
  BY <1>5, QuietMove DEF StreamFails
<1>6. CASE StreamAbandoned(c)
  BY <1>6, QuietMove DEF StreamAbandoned
<1> QED
  BY <1>1, <1>2, <1>3, <1>4, <1>5, <1>6 DEF LLM

\* The check leaves a round for the call it admits, unless another call is past the check.
LEMMA AdmitRounds ==
  ASSUME TypeOK, RoundInv, NEW c \in Calls, NEW stream \in BOOLEAN, Admit(c, stream)
  PROVE  RoundInv'
<1> USE DEF quota
<1>1. pc[c] = "reading" /\ UNCHANGED <<roundsUsed, samplingCalls>>
  BY DEF Admit
<1>2. CASE samplingMode = "direct" /\ ~hasProvider
  <2>1. Goto(c, "refused")
    BY <1>2 DEF Admit, Respond
  <2>2. In({"succeeded"})' = In({"succeeded"}) /\ CountedStreams' = CountedStreams
        /\ Uncounted' \subseteq Uncounted
    BY <1>1, <2>1 DEF Goto, TypeOK, In, CountedStreams, Uncounted
  <2>3. Quiet
    BY <1>1, <2>2 DEF Quiet, Admit
  <2> QED
    BY <2>3, QuietRounds
<1>3. CASE ~(samplingMode = "direct" /\ ~hasProvider)
  <2>1. PICK w \in {"opening", "mcp", "provider"} : Goto(c, w)
    BY <1>3 DEF Admit
  <2>2. In({"succeeded"})' = In({"succeeded"}) /\ CountedStreams' = CountedStreams
    BY <1>1, <2>1 DEF Goto, TypeOK, In, CountedStreams
  <2>3. RecordInv' /\ RoundAccounting'
    BY <1>1, <2>2 DEF RoundInv, RecordInv, RoundAccounting
  <2>4. Uncounted' = Uncounted \cup {c}
    BY <2>1 DEF Goto, TypeOK, In, Uncounted
  <2>5. ~raced' => Uncounted' = {c}
    BY <2>4 DEF Admit
  <2>6. Cardinality({c}) = 1
    BY FS_Singleton
  <2>7. RaceInv'
    <3>1. ~raced' => Cardinality(Uncounted') = 1
      BY <2>5, <2>6
    <3>2. roundsUsed' + 1 <= MaxRounds
      BY <1>1, BridgeAssumption DEF Admit, RoundLeft, TypeOK
    <3> QED
      BY <3>1, <3>2 DEF RaceInv
  <2> QED
    BY <2>3, <2>7 DEF RoundInv
<1> QED
  BY <1>2, <1>3

\* Counting the round of a call that was past the check.
LEMMA UpdateRounds ==
  ASSUME TypeOK, RoundInv, NEW c \in Calls, Update(c)
  PROVE  RoundInv'
<1>1. pc[c] = "updating" /\ Goto(c, "succeeded") /\ raced' = raced
  BY DEF Update, Respond
<1>2. roundsUsed' = roundsUsed + 1 /\ samplingCalls' = samplingCalls \cup {c}
  BY DEF Update, RoundsAfterUpdate
<1>3. In({"succeeded"})' = In({"succeeded"}) \cup {c} /\ CountedStreams' = CountedStreams
  BY <1>1 DEF Goto, TypeOK, In, CountedStreams
<1>4. Uncounted' = Uncounted \ {c} /\ c \in Uncounted
  BY <1>1 DEF Goto, TypeOK, In, Uncounted
<1>5. RecordInv'
  BY <1>2, <1>3 DEF RoundInv, RecordInv
<1>6. Cardinality(samplingCalls') = Cardinality(samplingCalls) + 1
  <2>1. c \notin samplingCalls
    BY <1>1 DEF RoundInv, RecordInv, In
  <2> QED
    BY <1>2, <2>1, Added DEF TypeOK
<1>7. RoundAccounting'
  <2>1. Cardinality(samplingCalls) \in Nat /\ Cardinality(CountedStreams) \in Nat
    BY SetsOfCalls DEF TypeOK, CountedStreams, In
  <2> QED
    BY <1>2, <1>3, <1>6, <2>1 DEF RoundInv, RoundAccounting
<1>8. Cardinality(Uncounted') = Cardinality(Uncounted) - 1 /\ Cardinality(Uncounted) \in Nat
  BY <1>4, Removed, SetsOfCalls DEF Uncounted, In
<1>9. RaceInv'
  BY <1>1, <1>2, <1>8, BridgeAssumption DEF RoundInv, RaceInv, TypeOK
<1> QED
  BY <1>5, <1>7, <1>9 DEF RoundInv

LEMMA OpenStreamRounds ==
  ASSUME TypeOK, RoundInv, NEW c \in Calls, OpenStream(c)
  PROVE  RoundInv'
<1>1. PICK w \in {"streaming", "rollback"} : Goto(c, w)
  BY DEF OpenStream, AfterOpening
<1>2. /\ pc[c] = "opening" /\ raced' = raced
      /\ roundsUsed' = roundsUsed + 1 /\ samplingCalls' = samplingCalls
  BY DEF OpenStream
<1>3. In({"succeeded"})' = In({"succeeded"})
  BY <1>1, <1>2 DEF Goto, TypeOK, In
<1>4. CountedStreams' = CountedStreams \cup {c} /\ c \notin CountedStreams
  BY <1>1, <1>2 DEF Goto, TypeOK, In, CountedStreams
<1>5. Uncounted' = Uncounted \ {c} /\ c \in Uncounted
  BY <1>1, <1>2 DEF Goto, TypeOK, In, Uncounted
<1>6. RecordInv'
  BY <1>2, <1>3 DEF RoundInv, RecordInv
<1>7. RoundAccounting'
  <2>1. Cardinality(CountedStreams') = Cardinality(CountedStreams) + 1
    BY <1>4, Added DEF CountedStreams, In
  <2>2. Cardinality(samplingCalls) \in Nat /\ Cardinality(CountedStreams) \in Nat
    BY SetsOfCalls DEF TypeOK, CountedStreams, In
  <2> QED
    BY <1>2, <2>1, <2>2 DEF RoundInv, RoundAccounting
<1>8. Cardinality(Uncounted') = Cardinality(Uncounted) - 1 /\ Cardinality(Uncounted) \in Nat
  BY <1>5, Removed, SetsOfCalls DEF Uncounted, In
<1>9. RaceInv'
  BY <1>2, <1>8, BridgeAssumption DEF RoundInv, RaceInv, TypeOK
<1> QED
  BY <1>6, <1>7, <1>9 DEF RoundInv

\* A stream that is settled keeps the round it was counted with.
LEMMA SettleStreamRounds ==
  ASSUME TypeOK, RoundInv, NEW c \in Calls, SettleStream(c)
  PROVE  RoundInv'
<1>1. pc[c] = "settling" /\ Goto(c, "succeeded") /\ raced' = raced
  BY DEF SettleStream, Respond
<1>2. roundsUsed' = roundsUsed /\ samplingCalls' = samplingCalls \cup {c}
  BY DEF SettleStream
<1>3. In({"succeeded"})' = In({"succeeded"}) \cup {c} /\ Uncounted' = Uncounted
  BY <1>1 DEF Goto, TypeOK, In, Uncounted
<1>4. CountedStreams' = CountedStreams \ {c} /\ c \in CountedStreams
  BY <1>1 DEF Goto, TypeOK, In, CountedStreams
<1>5. RecordInv' /\ RaceInv'
  BY <1>1, <1>2, <1>3 DEF RoundInv, RecordInv, RaceInv
<1>6. Cardinality(samplingCalls') = Cardinality(samplingCalls) + 1
  <2>1. c \notin samplingCalls
    BY <1>1 DEF RoundInv, RecordInv, In
  <2> QED
    BY <1>2, <2>1, Added DEF TypeOK
<1>7. Cardinality(CountedStreams') = Cardinality(CountedStreams) - 1
  BY <1>4, Removed DEF CountedStreams, In
<1>8. Cardinality(samplingCalls) \in Nat /\ Cardinality(CountedStreams) \in Nat
  BY SetsOfCalls DEF TypeOK, CountedStreams, In
<1> QED
  BY <1>2, <1>5, <1>6, <1>7, <1>8 DEF RoundInv, RoundAccounting

\* A rollback finds the round it gives back: the counter is not at zero.
LEMMA RollbackRounds ==
  ASSUME TypeOK, RoundInv, NEW c \in Calls, Rollback(c)
  PROVE  RoundInv'
<1>1. pc[c] = "rollback" /\ Goto(c, "refused") /\ raced' = raced
      /\ samplingCalls' = samplingCalls
  BY DEF Rollback, Respond
<1>2. In({"succeeded"})' = In({"succeeded"}) /\ Uncounted' = Uncounted
  BY <1>1 DEF Goto, TypeOK, In, Uncounted
<1>3. CountedStreams' = CountedStreams \ {c} /\ c \in CountedStreams
  BY <1>1 DEF Goto, TypeOK, In, CountedStreams
<1>4. Cardinality(CountedStreams') = Cardinality(CountedStreams) - 1
  BY <1>3, Removed DEF CountedStreams, In
<1>5. /\ Cardinality(samplingCalls) \in Nat
      /\ Cardinality(CountedStreams) \in Nat
      /\ Cardinality(CountedStreams') \in Nat
      /\ Cardinality(Uncounted) \in Nat
  BY SetsOfCalls DEF TypeOK, CountedStreams, Uncounted, In
<1>6. roundsUsed' = roundsUsed - 1
  BY <1>4, <1>5 DEF Rollback, RoundsAfterRollback, RoundInv, RoundAccounting
<1>7. RecordInv' /\ RoundAccounting'
  BY <1>1, <1>2, <1>4, <1>5, <1>6 DEF RoundInv, RecordInv, RoundAccounting
<1>8. RaceInv'
  BY <1>1, <1>2, <1>5, <1>6, BridgeAssumption DEF RoundInv, RaceInv, TypeOK
<1> QED
  BY <1>7, <1>8 DEF RoundInv

LEMMA RoundStep == TypeOK /\ RoundInv /\ [Next]_vars => RoundInv'
<1> SUFFICES ASSUME TypeOK, RoundInv, [Next]_vars PROVE RoundInv'
  OBVIOUS
<1>1. ASSUME NEW c \in Calls, Arrive(c) PROVE RoundInv'
  BY <1>1, QuietHandle, QuietRounds
<1>2. ASSUME NEW c \in Calls, Handle(c) PROVE RoundInv'
  BY <1>2, QuietHandle, QuietRounds, AdmitRounds, UpdateRounds, OpenStreamRounds,
     SettleStreamRounds, RollbackRounds DEF Handle
<1>3. ASSUME NEW c \in Calls, LLM(c) PROVE RoundInv'
  BY <1>3, QuietLLM, QuietRounds
<1>4. CASE UNCHANGED <<roundsUsed, samplingCalls, pc, raced>>
  BY <1>4, QuietRounds DEF Quiet, CountedStreams, Uncounted, In
<1> QED
  BY <1>1, <1>2, <1>3, <1>4 DEF Next, LoseConnection, Stop, Close, Closed, vars, quota

-------------------------------------------------------------------------------
(* Tokens: checked and counted in one section, whatever other calls did before *)

LEMMA TokenStep == TypeOK /\ TokenLimit /\ [Next]_vars => TokenLimit'
<1> SUFFICES ASSUME TypeOK, TokenLimit, [Next]_vars PROVE TokenLimit'
  OBVIOUS
<1>1. ASSUME NEW c \in Calls, Update(c) PROVE TokenLimit'
  BY <1>1 DEF Update, MayCount, Fits, TokenLimit
<1>2. ASSUME NEW c \in Calls, SettleStream(c) PROVE TokenLimit'
  BY <1>2 DEF SettleStream, MayCount, Fits, TokenLimit
<1>3. CASE tokensUsed' = tokensUsed
  BY <1>3 DEF TokenLimit
<1>4. ASSUME NEW c \in Calls, Handle(c) PROVE TokenLimit'
  BY <1>1, <1>2, <1>3, <1>4 DEF Handle, RefuseRequest, RefuseQuota, Admit, RefuseUpdate,
     OpenStream, RefuseStream, Rollback, quota
<1>5. ASSUME NEW c \in Calls, LLM(c) PROVE TokenLimit'
  BY <1>3, <1>5 DEF LLM, Answer, StreamEnds, McpFails, ProviderFails, StreamFails,
     StreamAbandoned, quota
<1> QED
  BY <1>3, <1>4, <1>5 DEF Next, Arrive, LoseConnection, Stop, Close, Closed, vars, quota

\* The part of the check that asks for room for 0 tokens can never refuse a call.
THEOREM UpfrontTokenCheckIsVacuous == TypeOK /\ TokenLimit => Fits(0)
  BY DEF TypeOK, TokenLimit, Fits

-------------------------------------------------------------------------------
(* Tokens: what they count *)

\* A call more, and its cost more; nobody else's cost changes.
LEMMA TokensAdded ==
  ASSUME TypeOK, IsFiniteSet(TokensOf(samplingCalls)), NEW c \in Calls \ samplingCalls,
         UNCHANGED cost, samplingCalls' = samplingCalls \cup {c}
  PROVE  /\ IsFiniteSet(TokensOf(samplingCalls)')
         /\ Cardinality(TokensOf(samplingCalls)') = Cardinality(TokensOf(samplingCalls)) + cost[c]
<1> DEFINE S == samplingCalls
           T == TokensOf(S)
           n == cost[c]
           own == {c} \X (1..n)
<1>1. n \in Nat
  BY DEF TypeOK
<1>2. T' = T \cup own /\ T \cap own = {}
  <2> DEFINE U == S \cup {c}
  <2>1. T' = TokensOf(U)
    BY DEF TokensOf
  <2>2. \A x : x \in T <=> \E d \in S : x \in {d} \X (1..cost[d])
    BY DEF TokensOf
  <2>3. \A x : x \in TokensOf(U) <=> \E d \in U : x \in {d} \X (1..cost[d])
    BY DEF TokensOf
  <2> HIDE DEF T
  <2>4. TokensOf(U) = T \cup own
    BY <2>2, <2>3
  <2>5. ASSUME NEW x \in T, x \in own PROVE FALSE
    <3>1. PICK d \in S : x \in {d} \X (1..cost[d])
      BY <2>2, <2>5
    <3>2. d = c
      BY <2>5, <3>1
    <3> QED
      BY <3>1, <3>2
  <2> QED
    BY <2>1, <2>4, <2>5
<1> HIDE DEF n
<1>3. IsFiniteSet(1..n) /\ Cardinality(1..n) = n
  BY <1>1, FS_Interval
<1>4. IsFiniteSet({c}) /\ Cardinality({c}) = 1
  BY FS_Singleton
<1>5. IsFiniteSet(own) /\ Cardinality(own) = n
  <2>1. IsFiniteSet(own) /\ Cardinality(own) = Cardinality({c}) * Cardinality(1..n)
    BY <1>3, <1>4, FS_Product
  <2>2. 1 * n = n
    BY <1>1
  <2> QED
    BY <1>3, <1>4, <2>1, <2>2
<1> HIDE DEF own, T
<1>6. /\ IsFiniteSet(T \cup own)
      /\ Cardinality(T \cup own) = Cardinality(T) + Cardinality(own) - Cardinality(T \cap own)
  BY <1>5, FS_Union DEF T
<1>7. Cardinality(T \cap own) = 0 /\ Cardinality(T) \in Nat
  BY <1>2, FS_EmptySet, FS_CardinalityType DEF T
<1>8. Cardinality(T \cup own) = Cardinality(T) + n
  BY <1>1, <1>5, <1>6, <1>7
<1>9. IsFiniteSet(T') /\ Cardinality(T') = Cardinality(T) + n
  BY <1>2, <1>6, <1>8
<1> QED
  BY <1>9 DEF T, n

\* A call that succeeds is counted with its cost.
LEMMA CountTokens ==
  ASSUME TypeOK, RecordInv, TokenInv, NEW c \in Calls, pc[c] # "succeeded", UNCHANGED cost,
         tokensUsed' = tokensUsed + cost[c], samplingCalls' = samplingCalls \cup {c}
  PROVE  TokenInv'
<1>1. c \notin samplingCalls
  BY DEF RecordInv, In
<1>2. /\ IsFiniteSet(TokensOf(samplingCalls)')
      /\ Cardinality(TokensOf(samplingCalls)') = Cardinality(TokensOf(samplingCalls)) + cost[c]
  BY <1>1, TokensAdded DEF TokenInv
<1> QED
  BY <1>2 DEF TokenInv, TokenAccounting

\* The cost of a call that did not succeed yet is not counted.
LEMMA TokensStay ==
  ASSUME TypeOK, TokenInv, UNCHANGED <<tokensUsed, samplingCalls>>,
         \A c \in samplingCalls : cost'[c] = cost[c]
  PROVE  TokenInv'
<1>1. TokensOf(samplingCalls)' = TokensOf(samplingCalls)
  BY DEF TokensOf
<1> QED
  BY <1>1 DEF TokenInv, TokenAccounting

LEMMA TokenAccountingStep == TypeOK /\ RecordInv /\ TokenInv /\ [Next]_vars => TokenInv'
<1> SUFFICES ASSUME TypeOK, RecordInv, TokenInv, [Next]_vars PROVE TokenInv'
  OBVIOUS
<1>1. ASSUME NEW c \in Calls, Update(c) \/ SettleStream(c) PROVE TokenInv'
  BY <1>1, CountTokens DEF Update, SettleStream
<1>2. ASSUME NEW c \in Calls, NEW tokens \in Usage, Answer(c, tokens) \/ StreamEnds(c, tokens)
      PROVE  TokenInv'
  <2>1. UNCHANGED <<tokensUsed, samplingCalls>> /\ c \notin samplingCalls
    BY <1>2 DEF Answer, StreamEnds, quota, RecordInv, In
  <2>2. \A d \in samplingCalls : cost'[d] = cost[d]
    BY <1>2, <2>1 DEF Answer, StreamEnds, TypeOK
  <2> QED
    BY <2>1, <2>2, TokensStay
<1>3. CASE UNCHANGED <<tokensUsed, samplingCalls, cost>>
  BY <1>3, TokensStay
<1>4. ASSUME NEW c \in Calls, Handle(c) PROVE TokenInv'
  BY <1>1, <1>3, <1>4 DEF Handle, RefuseRequest, RefuseQuota, Admit, RefuseUpdate,
     OpenStream, RefuseStream, Rollback, quota
<1>5. ASSUME NEW c \in Calls, LLM(c) PROVE TokenInv'
  BY <1>2, <1>3, <1>5 DEF LLM, McpFails, ProviderFails, StreamFails, StreamAbandoned, quota
<1> QED
  BY <1>3, <1>4, <1>5 DEF Next, Arrive, LoseConnection, Stop, Close, Closed, vars, quota

-------------------------------------------------------------------------------
(* stop(): calls under way are active, and none comes in once the server is closed *)

\* A step of a call that is under way.
CallStep(c) ==
    /\ c \in In(InFlight)
    /\ server' = server
    /\ waitedOut' = waitedOut
    /\ \A d \in Calls \ {c} : pc'[d] = pc[d]
    /\ activeRequests \ {c} \subseteq activeRequests'
    /\ c \in activeRequests /\ c \in In(InFlight)' => c \in activeRequests'

LEMMA HandleIsCallStep ==
  ASSUME TypeOK, NEW c \in Calls, Handle(c)
  PROVE  CallStep(c)
<1> USE DEF lifecycle, CallStep, In, InFlight, Goto, Respond, Finished, TypeOK
<1>1. CASE RefuseRequest(c)
  BY <1>1 DEF RefuseRequest
<1>2. CASE RefuseQuota(c)
  BY <1>2 DEF RefuseQuota
<1>3. ASSUME NEW stream \in BOOLEAN, Admit(c, stream) PROVE CallStep(c)
  BY <1>3 DEF Admit
<1>4. CASE Update(c)
  BY <1>4 DEF Update
<1>5. CASE RefuseUpdate(c)
  BY <1>5 DEF RefuseUpdate
<1>6. CASE OpenStream(c)
  BY <1>6 DEF OpenStream
<1>7. CASE SettleStream(c)
  BY <1>7 DEF SettleStream
<1>8. CASE RefuseStream(c)
  BY <1>8 DEF RefuseStream
<1>9. CASE Rollback(c)
  BY <1>9 DEF Rollback
<1> QED
  BY <1>1, <1>2, <1>3, <1>4, <1>5, <1>6, <1>7, <1>8, <1>9 DEF Handle

LEMMA LLMIsCallStep ==
  ASSUME TypeOK, NEW c \in Calls, LLM(c)
  PROVE  CallStep(c)
<1> USE DEF lifecycle, CallStep, In, InFlight, Goto, Respond, Finished, TypeOK
<1>1. ASSUME NEW tokens \in Usage, Answer(c, tokens) \/ StreamEnds(c, tokens)
      PROVE CallStep(c)
  BY <1>1 DEF Answer, StreamEnds
<1>2. CASE McpFails(c)
  BY <1>2 DEF McpFails
<1>3. CASE ProviderFails(c)
  BY <1>3 DEF ProviderFails
<1>4. CASE StreamFails(c) \/ StreamAbandoned(c)
  BY <1>4 DEF StreamFails, StreamAbandoned
<1> QED
  BY <1>1, <1>2, <1>3, <1>4 DEF LLM

LEMMA ActivityStep == TypeOK /\ ActivityInv /\ [Next]_vars => ActivityInv'
<1> SUFFICES ASSUME TypeOK, ActivityInv, [Next]_vars PROVE ActivityInv'
  OBVIOUS
<1> USE DEF ActivityInv, StopCutsNobodyOff
<1>1. ASSUME NEW c \in Calls, CallStep(c) PROVE ActivityInv'
  BY <1>1 DEF CallStep, In
<1>2. ASSUME NEW c \in Calls, Arrive(c) PROVE ActivityInv'
  BY <1>2 DEF Arrive, In, Goto, lifecycle, TypeOK
<1>3. ASSUME NEW c \in Calls, LoseConnection(c) PROVE ActivityInv'
  BY <1>3 DEF LoseConnection, In
<1>4. CASE Stop
  BY <1>4 DEF Stop, In
<1>5. ASSUME NEW timedOut \in BOOLEAN, Close(timedOut) PROVE ActivityInv'
  BY <1>5 DEF Close, WaitIsOver, NothingActive, In
<1>6. CASE Closed
  BY <1>6 DEF Closed, In
<1>7. CASE UNCHANGED vars
  BY <1>7 DEF vars, In
<1> QED
  BY <1>1, <1>2, <1>3, <1>4, <1>5, <1>6, <1>7, HandleIsCallStep, LLMIsCallStep DEF Next

-------------------------------------------------------------------------------
(* The theorems *)

LEMMA InitIInv == Init => IInv
<1> SUFFICES ASSUME Init PROVE IInv
  OBVIOUS
<1>1. /\ In({"succeeded"}) = {} /\ CountedStreams = {}
      /\ Uncounted = {} /\ In(InFlight) = {}
  BY DEF Init, In, CountedStreams, Uncounted, InFlight
<1>2. Cardinality(samplingCalls) = 0 /\ Cardinality(CountedStreams) = 0
      /\ Cardinality(Uncounted) = 0
  BY <1>1, FS_EmptySet DEF Init
<1>3. RecordInv /\ RoundAccounting
  BY <1>1, <1>2 DEF Init, RecordInv, RoundAccounting
<1>4. RaceInv /\ TokenLimit
  BY <1>2, BridgeAssumption DEF Init, RaceInv, TokenLimit
<1>5. ActivityInv
  BY <1>1 DEF Init, ActivityInv, StopCutsNobodyOff
<1>6. TokenInv
  <2>1. TokensOf(samplingCalls) = {}
    BY DEF Init, TokensOf
  <2> QED
    BY <2>1, FS_EmptySet DEF Init, TokenInv, TokenAccounting
<1> QED
  BY <1>3, <1>4, <1>5, <1>6, InitTypeOK DEF IInv

LEMMA IInvStep == IInv /\ [Next]_vars => IInv'
  BY TypeStep, RoundStep, TokenAccountingStep, TokenStep, ActivityStep DEF IInv, RoundInv

\* The invariant holds of every reachable state.
THEOREM Invariance == Spec => []IInv
<1>1. Init => IInv
  BY InitIInv
<1>2. IInv /\ [Next]_vars => IInv'
  BY IInvStep
<1> QED
  BY <1>1, <1>2, PTL DEF Spec

\* The types of the bridge's state.
THEOREM TypeCorrect == Spec => []TypeOK
  BY Invariance, PTL DEF IInv

\* No interleaving of calls and streams makes the tokens counted exceed the budget,
\* although what a call costs is known only after the call.
THEOREM TokensBounded == Spec => []TokenLimit
  BY Invariance, PTL DEF IInv

\* Rounds are counted for calls that succeeded and streams not rolled back, and for
\* nothing else.
THEOREM RoundsAccounted == Spec => []RoundAccounting
  BY Invariance, PTL DEF IInv

\* The counters say what happened: rounds as above, and as many tokens as the calls that
\* succeeded cost, whatever streams and calls overlap or fail.
THEOREM CountersAreRight == Spec => []BridgeInv
  BY Invariance, PTL DEF IInv, TokenInv, BridgeInv

\* The rounds stay within the limit unless two calls pass the check before one of them
\* is counted: that race is the only way to exceed it.
THEOREM RoundsBoundedWithoutRace == Spec => []RoundLimitWithoutRace
<1>1. IInv => RoundLimitWithoutRace
  <2> SUFFICES ASSUME IInv PROVE RoundLimitWithoutRace
    OBVIOUS
  <2>1. Cardinality(Uncounted) \in Nat
    BY SetsOfCalls DEF Uncounted, In
  <2> QED
    BY <2>1, BridgeAssumption DEF IInv, RaceInv, RoundLimitWithoutRace, TypeOK
<1> QED
  BY <1>1, Invariance, PTL

\* stop() closes the server on no call under way, unless it waited as long as it may.
THEOREM StopIsGraceful == Spec => []StopCutsNobodyOff
  BY Invariance, PTL DEF IInv, ActivityInv
===============================================================================
