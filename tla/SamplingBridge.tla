----------------------------- MODULE SamplingBridge -----------------------------
(***************************************************************************)
(* The bridge through which sandboxed code samples an LLM, with its quota  *)
(* of rounds and tokens (src/core/server/sampling-bridge-server.ts and the *)
(* quota counters of src/security/rate-limiter.ts).                        *)
(*                                                                         *)
(* A call is one HTTP request to /sample.  A section under AsyncLock is    *)
(* one action: 'rate-limit-update' serializes every change of the quota.   *)
(* The check has a lock key of its own and reads the two counters in       *)
(* turn; that it could see one of them older than the other changes        *)
(* nothing, because its token part never refuses anyone (TokenLimit).      *)
(* What a call costs is known after the LLM answered: Usage.               *)
(*                                                                         *)
(* An operator written right above another one, with a name that says what *)
(* is wrong with it, is a faulty variant of it: the properties are known   *)
(* to notice it in its place.  No specification uses it.                   *)
(***************************************************************************)
EXTENDS Integers, FiniteSets

CONSTANTS Calls,      \* requests to the bridge
          MaxRounds,  \* maxRoundsPerExecution
          MaxTokens,  \* maxTokensPerExecution
          Usage       \* what calls may cost, in tokens

\* A limit of 0 would mean no limit; the configuration's schema excludes it.
ASSUME BridgeAssumption ==
    /\ IsFiniteSet(Calls)
    /\ MaxRounds \in Nat \ {0}
    /\ MaxTokens \in Nat \ {0}
    /\ Usage \subseteq Nat

VARIABLES
    samplingMode,   \* "mcp" until MCP sampling fails once, or "direct"
    hasProvider,    \* is there a provider: never changes
    roundsUsed,
    tokensUsed,
    samplingCalls,  \* calls that succeeded
    cost,           \* what a call cost, once known
    pc,             \* where each call is
    activeRequests, \* responses the server has not seen finish
    gone,           \* calls whose connection is lost
    server,         \* "serving", stop() "stopping" then "closing", "stopped"
    waitedOut,      \* stop() gave up waiting for responses
    raced           \* history: two calls were between the check and the count of a round

vars == <<samplingMode, hasProvider, roundsUsed, tokensUsed, samplingCalls, cost, pc,
          activeRequests, gone, server, waitedOut, raced>>

quota == <<roundsUsed, tokensUsed, samplingCalls>>
lifecycle == <<hasProvider, gone, server, waitedOut>>

In(where) == {c \in Calls : pc[c] \in where}

InFlight == {"reading", "opening", "mcp", "provider", "updating",
             "streaming", "settling", "rollback"}

\* Past the check of the quota, with the round not counted yet.
Uncounted == In({"opening", "mcp", "provider", "updating"})

\* Streams are counted first and settled later.
CountedStreams == In({"streaming", "settling", "rollback", "abandoned"})

TypeOK ==
    /\ samplingMode \in {"mcp", "direct"}
    /\ hasProvider \in BOOLEAN
    /\ roundsUsed \in Nat
    /\ tokensUsed \in Nat
    /\ samplingCalls \subseteq Calls
    /\ cost \in [Calls -> Nat]
    /\ pc \in [Calls -> InFlight \cup {"idle", "abandoned", "succeeded", "refused"}]
    /\ activeRequests \subseteq Calls
    /\ gone \subseteq Calls
    /\ server \in {"serving", "stopping", "closing", "stopped"}
    /\ waitedOut \in BOOLEAN
    /\ raced \in BOOLEAN

Init ==
    /\ samplingMode \in {"mcp", "direct"}
    /\ hasProvider \in BOOLEAN
    /\ roundsUsed = 0
    /\ tokensUsed = 0
    /\ samplingCalls = {}
    /\ cost = [c \in Calls |-> 0]
    /\ pc = [c \in Calls |-> "idle"]
    /\ activeRequests = {}
    /\ gone = {}
    /\ server = "serving"
    /\ waitedOut = FALSE
    /\ raced = FALSE

-------------------------------------------------------------------------------
Goto(c, where) == pc' = [pc EXCEPT ![c] = where]

\* A response is active until 'finish', which a lost connection never emits.
Finished(c) == IF c \in gone THEN {} ELSE {c}

\* The call ends with a response, and its entry in activeRequests with the response.
Respond(c, outcome) ==
    /\ Goto(c, outcome)
    /\ activeRequests' = activeRequests \ Finished(c)

Arrive(c) ==
    /\ pc[c] = "idle"
    /\ server \in {"serving", "stopping"}
    /\ Goto(c, "reading")
    /\ activeRequests' = activeRequests \cup {c}
    /\ UNCHANGED <<samplingMode, quota, cost, lifecycle, raced>>

\* Unknown route, unreadable body, wrong token; prompt or model that is not allowed.
RefuseRequest(c) ==
    /\ pc[c] = "reading"
    /\ Respond(c, "refused")
    /\ UNCHANGED <<samplingMode, quota, cost, lifecycle, raced>>

RoundLeftOffByOne == roundsUsed <= MaxRounds
RoundLeft == roundsUsed < MaxRounds

Fits(tokens) == tokensUsed + tokens <= MaxTokens

RefuseQuota(c) ==
    /\ pc[c] = "reading"
    /\ ~(RoundLeft /\ Fits(0))
    /\ Respond(c, "refused")
    /\ UNCHANGED <<samplingMode, quota, cost, lifecycle, raced>>

\* The check that admits a call, which may ask for a stream, and everything up to its
\* next await.
Admit(c, stream) ==
    /\ pc[c] = "reading"
    /\ RoundLeft
    /\ Fits(0)
    /\ raced' = (raced \/ Uncounted # {})
    /\ IF samplingMode = "direct" /\ ~hasProvider
       THEN Respond(c, "refused")
       ELSE /\ Goto(c, IF stream THEN "opening"
                       ELSE IF samplingMode = "mcp" THEN "mcp" ELSE "provider")
            /\ UNCHANGED activeRequests
    /\ UNCHANGED <<samplingMode, quota, cost, lifecycle>>

-------------------------------------------------------------------------------
(* Calls without streaming *)

\* The tokens of an MCP answer are estimated by the maxTokens of the request.
Answer(c, tokens) ==
    /\ pc[c] \in {"mcp", "provider"}
    /\ cost' = [cost EXCEPT ![c] = tokens]
    /\ Goto(c, "updating")
    /\ UNCHANGED <<samplingMode, quota, activeRequests, lifecycle, raced>>

McpFails(c) ==
    /\ pc[c] = "mcp"
    /\ samplingMode' = "direct"
    /\ IF hasProvider
       THEN Goto(c, "provider") /\ UNCHANGED activeRequests
       ELSE Respond(c, "refused")
    /\ UNCHANGED <<quota, cost, lifecycle, raced>>

ProviderFails(c) ==
    /\ pc[c] = "provider"
    /\ Respond(c, "refused")
    /\ UNCHANGED <<samplingMode, quota, cost, lifecycle, raced>>

\* Under 'rate-limit-update': look at the tokens again, then count.
MayCountUnchecked(c) == cost[c] \in Nat
MayCount(c) == Fits(cost[c])

RoundsAfterUpdateForgotten == roundsUsed
RoundsAfterUpdate == roundsUsed + 1

Update(c) ==
    /\ pc[c] = "updating"
    /\ MayCount(c)
    /\ roundsUsed' = RoundsAfterUpdate
    /\ tokensUsed' = tokensUsed + cost[c]
    /\ samplingCalls' = samplingCalls \cup {c}
    /\ Respond(c, "succeeded")
    /\ UNCHANGED <<samplingMode, cost, lifecycle, raced>>

\* 429 after the LLM was called: nothing is counted.
RefuseUpdate(c) ==
    /\ pc[c] = "updating"
    /\ ~MayCount(c)
    /\ Respond(c, "refused")
    /\ UNCHANGED <<samplingMode, quota, cost, lifecycle, raced>>

-------------------------------------------------------------------------------
(* Streams *)

\* The round is counted before the stream is opened: without a provider the second
\* status line throws, and the handler rolls the round back.
AfterOpeningReturned == IF hasProvider THEN "streaming" ELSE "abandoned"
AfterOpening == IF hasProvider THEN "streaming" ELSE "rollback"

OpenStream(c) ==
    /\ pc[c] = "opening"
    /\ roundsUsed' = roundsUsed + 1
    /\ Goto(c, AfterOpening)
    /\ UNCHANGED <<samplingMode, tokensUsed, samplingCalls, cost, activeRequests, lifecycle,
                   raced>>

StreamEnds(c, tokens) ==
    /\ pc[c] = "streaming"
    /\ cost' = [cost EXCEPT ![c] = tokens]
    /\ Goto(c, "settling")
    /\ UNCHANGED <<samplingMode, quota, activeRequests, lifecycle, raced>>

StreamFails(c) ==
    /\ pc[c] = "streaming"
    /\ Goto(c, "rollback")
    /\ UNCHANGED <<samplingMode, quota, cost, activeRequests, lifecycle, raced>>

\* Writing a chunk throws: return at once, the response is not ended.
StreamAbandoned(c) ==
    /\ pc[c] = "streaming"
    /\ c \in gone
    /\ Goto(c, "abandoned")
    /\ UNCHANGED <<samplingMode, quota, cost, activeRequests, lifecycle, raced>>

SettleStream(c) ==
    /\ pc[c] = "settling"
    /\ MayCount(c)
    /\ tokensUsed' = tokensUsed + cost[c]
    /\ samplingCalls' = samplingCalls \cup {c}
    /\ Respond(c, "succeeded")
    /\ UNCHANGED <<samplingMode, roundsUsed, cost, lifecycle, raced>>

RefuseStream(c) ==
    /\ pc[c] = "settling"
    /\ ~MayCount(c)
    /\ Goto(c, "rollback")
    /\ UNCHANGED <<samplingMode, quota, cost, activeRequests, lifecycle, raced>>

\* decrementRounds(), in a section of its own.
RoundsAfterRollback == IF roundsUsed = 0 THEN 0 ELSE roundsUsed - 1

Rollback(c) ==
    /\ pc[c] = "rollback"
    /\ roundsUsed' = RoundsAfterRollback
    /\ Respond(c, "refused")
    /\ UNCHANGED <<samplingMode, tokensUsed, samplingCalls, cost, lifecycle, raced>>

-------------------------------------------------------------------------------
(* Connections and stop() *)

\* The sandbox was killed, or closed the connection.
LoseConnection(c) ==
    /\ c \in In(InFlight) \ gone
    /\ gone' = gone \cup {c}
    /\ UNCHANGED <<samplingMode, hasProvider, quota, cost, pc, activeRequests, server,
                   waitedOut, raced>>

Stop ==
    /\ server = "serving"
    /\ server' = "stopping"
    /\ UNCHANGED <<samplingMode, hasProvider, quota, cost, pc, activeRequests, gone,
                   waitedOut, raced>>

\* The loop of stop() ends: no active response, or five seconds have passed.
NothingActiveUnchecked == TRUE
NothingActive == activeRequests = {}

WaitIsOverNever(timedOut) == NothingActive
WaitIsOver(timedOut) == timedOut \/ NothingActive

Close(timedOut) ==
    /\ server = "stopping"
    /\ WaitIsOver(timedOut)
    /\ server' = "closing"
    /\ waitedOut' = (timedOut /\ ~NothingActive)
    /\ UNCHANGED <<samplingMode, hasProvider, quota, cost, pc, activeRequests, gone, raced>>

\* server.close() calls back when no connection is left.
Closed ==
    /\ server = "closing"
    /\ In(InFlight) \subseteq gone
    /\ server' = "stopped"
    /\ activeRequests' = {}
    /\ UNCHANGED <<samplingMode, hasProvider, quota, cost, pc, gone, waitedOut, raced>>

-------------------------------------------------------------------------------
\* What the handler does on its own, and what the LLM does.
Handle(c) ==
    \/ RefuseRequest(c) \/ RefuseQuota(c)
    \/ \E stream \in BOOLEAN : Admit(c, stream)
    \/ Update(c) \/ RefuseUpdate(c)
    \/ OpenStream(c) \/ SettleStream(c) \/ RefuseStream(c) \/ Rollback(c)

LLM(c) ==
    \/ \E tokens \in Usage : Answer(c, tokens) \/ StreamEnds(c, tokens)
    \/ McpFails(c) \/ ProviderFails(c) \/ StreamFails(c) \/ StreamAbandoned(c)

Next ==
    \/ \E c \in Calls : Arrive(c) \/ Handle(c) \/ LLM(c) \/ LoseConnection(c)
    \/ Stop
    \/ \E timedOut \in BOOLEAN : Close(timedOut)
    \/ Closed

\* The handler goes on, an LLM answers or fails (its client has a timeout), and the polls
\* of stop() and the events of the server happen.
Fairness ==
    /\ \A c \in Calls : WF_vars(Handle(c)) /\ WF_vars(LLM(c))
    /\ WF_vars(\E timedOut \in BOOLEAN : Close(timedOut))
    /\ WF_vars(Closed)

Spec == Init /\ [][Next]_vars /\ Fairness

-------------------------------------------------------------------------------
(* Properties *)

\* The cost of a call is known only after the call, and other calls are counted in the
\* meantime; still the tokens counted never exceed the budget, so the check of the
\* tokens before a call (with 0 tokens to add) never refuses one.
TokenLimit == tokensUsed <= MaxTokens

\* The tokens that some calls cost, one by one: their number is the sum of the costs.
TokensOf(S) == UNION {{c} \X (1..cost[c]) : c \in S}

\* The counters say what happened: a round for every call that succeeded and for every
\* stream under way or given up by its client, none for a refused or failed call; and
\* the tokens of the calls that succeeded.
RoundAccounting == roundsUsed = Cardinality(samplingCalls) + Cardinality(CountedStreams)
TokenAccounting == tokensUsed = Cardinality(TokensOf(samplingCalls))

BridgeInv == TypeOK /\ RoundAccounting /\ TokenAccounting

\* The limit on rounds holds as long as no two calls are between its check and the count
\* at the same time; calls that overlap there pass the check together and do exceed it.
RoundLimitWithoutRace == ~raced => roundsUsed <= MaxRounds

\* stop() closes the server on unanswered calls only after it has waited as long as it may.
StopCutsNobodyOff ==
    server \in {"closing", "stopped"} /\ ~waitedOut => In(InFlight) = {}

\* Every call is answered, unless its client left, whatever MCP sampling and the provider
\* do.
EveryCallIsAnswered ==
    \A c \in Calls : (pc[c] = "reading") ~> (pc[c] \in {"succeeded", "refused"} \/ c \in gone)

\* stop() returns, although the responses of lost connections never finish.
StopReturns == (server = "stopping") ~> (server = "stopped")

-------------------------------------------------------------------------------
(* The inductive invariant behind the safety properties *)

\* A call is recorded when it succeeds, once.
RecordInv == samplingCalls = In({"succeeded"})

\* While nothing raced, at most one call has its round still to be counted, and there is
\* a round left for it.
RaceInv ==
    ~raced => Cardinality(Uncounted) <= 1 /\ roundsUsed + Cardinality(Uncounted) <= MaxRounds

\* stop() sees every call under way; none comes in after the server is closed.
ActivityInv ==
    /\ server # "stopped" => In(InFlight) \subseteq activeRequests
    /\ StopCutsNobodyOff

\* There are as many tokens as were counted.
TokenInv == IsFiniteSet(TokensOf(samplingCalls)) /\ TokenAccounting

IInv == /\ TypeOK /\ RecordInv /\ RoundAccounting /\ TokenInv /\ TokenLimit /\ RaceInv
        /\ ActivityInv
===============================================================================
