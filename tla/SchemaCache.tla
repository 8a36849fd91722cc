------------------------------ MODULE SchemaCache ------------------------------
(***************************************************************************)
(* The caches of tool schemas (src/validation/schema-cache.ts on top of    *)
(* src/caching/lru-cache-provider.ts).  Every execution's proxy has one of *)
(* its own, and so has the daily sync; all of them load and overwrite the  *)
(* same file.                                                              *)
(*                                                                         *)
(* A caller is one getToolSchema().  A schema is its version: MCP servers  *)
(* replace versions by newer ones.  The age of an entry is kept twice: in  *)
(* the entry (expiresAt is fetchedAt + Ttl), and in the LRU cache (start), *)
(* where get() renews it, or removes an entry that is too old.  A field    *)
(* `born` is history: when a fetch really brought this schema.             *)
(*                                                                         *)
(* An operator written right above another one, with a name that says what *)
(* is wrong with it, is a faulty variant of it: the properties are known   *)
(* to notice it in its place.  No specification uses it.                   *)
(***************************************************************************)
EXTENDS Subsequences, SequencesExt, FiniteSetsExt

CONSTANTS Caches,       \* instances of SchemaCache
          Tools,        \* tools there may be
          Callers,      \* of getToolSchema()
          Ttl,          \* ttlMs
          MaxCacheSize,
          MaxTime,      \* bound on the clock
          MaxVersion,   \* bound on the versions of a schema
          MaxSaves      \* bound on the saves that wait for the lock

\* The constructor throws on a ttlMs or maxCacheSize that is not positive.
ASSUME SchemaCacheAssumption ==
    /\ Ttl \in Nat \ {0}
    /\ MaxCacheSize \in Nat \ {0}
    /\ IsFiniteSet(Tools)
    /\ "nobody" \notin Caches /\ "prePopulate" \notin Callers
    /\ MaxVersion \in Nat \ {0}

VARIABLES
    now,       \* Date.now()
    listed,    \* what listAllTools() names; never changes
    current,   \* the version of each tool's schema at its MCP server
    life,      \* "new"; prePopulate() is "populating" then "saving"; "serving"; "gone"
    cache,     \* the entry of each tool, or NoEntry
    recency,   \* the tools with an entry, the least recently used first
    fetches,   \* fetches under way, which is what inFlight has
    waits,     \* the fetch a caller waits for
    saves,     \* saveToDisk() calls that wait for the lock of the cache
    writers,   \* the writes under way, at most one of a cache
    disk,      \* the file: "absent", "whole" with what it says, or "torn"; while several
               \* write it, with what the last one that ended wrote
    served,    \* history: the version last answered
    trust,     \* history: what FirstFailureIsBridged needs to know of an entry
    lastWriter,
    mishaps    \* history: what went wrong since the file was last written by one alone

vars == <<now, listed, current, life, cache, recency, fetches, waits, saves, writers, disk,
          served, trust, lastWriter, mishaps>>
memory == <<cache, recency>>
file == <<saves, writers, disk, lastWriter, mishaps>>
history == <<served, trust>>

Versions == 1..MaxVersion
NoVersion == 0

NoEntry == [version |-> NoVersion, fetchedAt |-> 0, start |-> 0, born |-> 0]
Entries == [version : Versions, fetchedAt : Nat, start : Nat, born : Nat]

\* What the file says of a tool.
Saved == [tool : Tools, version : Versions, fetchedAt : Nat, born : Nat]

\* Who began a fetch.
Owners == Callers \cup {"prePopulate"}

Fetches == [cache : Caches, tool : Tools, by : Owners,
            version : Versions \cup {NoVersion},  \* read by the server, not yet received
            stale : Versions \cup {NoVersion}]    \* staleCached

NoWait == [by |-> "nobody"]
WaitFor(f) == [cache |-> f.cache, tool |-> f.tool, by |-> f.by]

TypeOK ==
    /\ now \in Nat
    /\ listed \subseteq Tools
    /\ current \in [Tools -> Versions]
    /\ life \in [Caches -> {"new", "populating", "saving", "serving", "gone"}]
    /\ cache \in [Caches -> [Tools -> Entries \cup {NoEntry}]]
    /\ recency \in [Caches -> Seq(Tools)]
    /\ fetches \subseteq Fetches
    /\ waits \in [Callers -> {WaitFor(f) : f \in fetches} \cup {NoWait}]
    /\ saves \in [Caches -> Nat]
    /\ writers \subseteq [cache : Caches, content : SUBSET Saved]
    /\ disk \in [status : {"absent", "whole", "torn"}, content : SUBSET Saved]
    /\ served \in [Caches -> [Tools -> Versions \cup {NoVersion}]]
    /\ trust \in [Caches -> [Tools -> {"unknown", "good", "missed"}]]
    /\ lastWriter \in Caches \cup {"nobody"}
    /\ mishaps \subseteq {"overlap", "mixed", "failure"}

Init ==
    /\ now = 0
    /\ listed \in SUBSET Tools \ {{}}
    /\ current = [t \in Tools |-> 1]
    /\ life = [c \in Caches |-> "new"]
    /\ cache = [c \in Caches |-> [t \in Tools |-> NoEntry]]
    /\ recency = [c \in Caches |-> <<>>]
    /\ fetches = {}
    /\ waits = [k \in Callers |-> NoWait]
    /\ saves = [c \in Caches |-> 0]
    /\ writers = {}
    /\ disk = [status |-> "absent", content |-> {}]
    /\ served = [c \in Caches |-> [t \in Tools |-> NoVersion]]
    /\ trust = [c \in Caches |-> [t \in Tools |-> "unknown"]]
    /\ lastWriter = "nobody"
    /\ mishaps = {}

-------------------------------------------------------------------------------
(* The LRU cache *)

TooOld(e) == now - e.start > Ttl

\* get() returns the entry e, and leaves this one behind: an entry that is too old is
\* returned once more, but not kept.
Got(e) == IF e = NoEntry \/ TooOld(e) THEN NoEntry ELSE [e EXCEPT !.start = now]

Without(tools, gone) == Only(tools, Tools \ gone)

\* The tool moves to the recent end, or goes.
Move(c, t, kept) ==
    recency' = [recency EXCEPT ![c] = IF kept THEN Append(Without(@, {t}), t) ELSE Without(@, {t})]

\* set() on a full cache evicts the least recently used entry.
EvictNobody(c, t) == {}
Evicted(c, t) ==
    IF cache[c][t] = NoEntry /\ Len(recency[c]) = MaxCacheSize THEN {Head(recency[c])} ELSE {}

Put(c, t, e) ==
    /\ cache' = [cache EXCEPT ![c] = [u \in Tools |-> IF u = t THEN e
                                        ELSE IF u \in Evicted(c, t) THEN NoEntry ELSE @[u]]]
    /\ recency' = [recency EXCEPT ![c] = Append(Without(@, Evicted(c, t) \cup {t}), t)]

\* entries(), as the file has them.
Content(c) == {[tool |-> t, version |-> cache[c][t].version,
                fetchedAt |-> cache[c][t].fetchedAt, born |-> cache[c][t].born] :
                 t \in {u \in Tools : cache[c][u] # NoEntry}}

-------------------------------------------------------------------------------
(* getToolSchema() *)

PendingNever(c, t) == {}
Pending(c, t) == {f \in fetches : f.cache = c /\ f.tool = t}

\* Date.now() < cached.expiresAt
IsFreshByLRU(e) == e # NoEntry /\ now < e.start + Ttl
IsFresh(e) == e # NoEntry /\ now < e.fetchedAt + Ttl

\* History: a caller was answered, with null or an error if there is no version.
Answer(c, t, v) == served' = IF v = NoVersion THEN served ELSE [served EXCEPT ![c][t] = v]

Calls(k, c) == life[c] = "serving" /\ waits[k] = NoWait

Join(k, c, t) ==
    /\ Calls(k, c)
    /\ \E f \in Pending(c, t) : waits' = [waits EXCEPT ![k] = WaitFor(f)]
    /\ UNCHANGED <<now, listed, current, life, memory, fetches, file, history>>

Hit(k, c, t) ==
    /\ Calls(k, c)
    /\ Pending(c, t) = {}
    /\ IsFresh(cache[c][t])
    /\ cache' = [cache EXCEPT ![c][t] = Got(@)]
    /\ Move(c, t, cache'[c][t] # NoEntry)
    /\ Answer(c, t, cache[c][t].version)
    /\ UNCHANGED <<now, listed, current, life, fetches, waits, file, trust>>

NewFetch(c, t, by, stale) ==
    [cache |-> c, tool |-> t, by |-> by, version |-> NoVersion, stale |-> stale]

StartFetch(k, c, t) ==
    /\ Calls(k, c)
    /\ Pending(c, t) = {}
    /\ ~IsFresh(cache[c][t])
    /\ saves[c] < MaxSaves
    /\ cache' = [cache EXCEPT ![c][t] = Got(@)]
    /\ Move(c, t, cache'[c][t] # NoEntry)
    /\ LET f == NewFetch(c, t, k, cache[c][t].version) IN
         /\ fetches' = fetches \cup {f}
         /\ waits' = [waits EXCEPT ![k] = WaitFor(f)]
    /\ UNCHANGED <<now, listed, current, life, file, history>>

-------------------------------------------------------------------------------
(* fetchAndCacheSchema(), after its request *)

ServerReads(f) ==
    /\ f.version = NoVersion
    /\ fetches' = (fetches \ {f}) \cup {[f EXCEPT !.version = current[f.tool]]}
    /\ UNCHANGED <<now, listed, current, life, memory, waits, file, history>>

\* The fetch is over: whoever waits for it is answered, unless only prePopulate() does,
\* which ignores the result.
Settle(f, v) ==
    /\ fetches' = fetches \ {f}
    /\ waits' = [k \in Callers |-> IF waits[k] = WaitFor(f) THEN NoWait ELSE waits[k]]
    /\ IF \E k \in Callers : waits[k] = WaitFor(f)
       THEN Answer(f.cache, f.tool, v)
       ELSE UNCHANGED served

Writing(c) == \E w \in writers : w.cache = c

\* saveToDisk() is called and not awaited.
SavesWantedIfIdle(c) == IF Writing(c) THEN saves ELSE [saves EXCEPT ![c] = @ + 1]
SavesWanted(c) == [saves EXCEPT ![c] = @ + 1]

FetchSucceeds(f) ==
    /\ f.version # NoVersion
    /\ Put(f.cache, f.tool, 
           [version |-> f.version, fetchedAt |-> now, start |-> now, born |-> now])
    /\ saves' = SavesWanted(f.cache)
    /\ Settle(f, f.version)
    /\ trust' = [trust EXCEPT ![f.cache] =
                   [t \in Tools |-> IF t = f.tool THEN "good"
                                    ELSE IF t \in Evicted(f.cache, f.tool) THEN "unknown"
                                    ELSE @[t]]]
    /\ UNCHANGED <<now, listed, current, life, writers, disk, lastWriter, mishaps>>

\* History: a caller was told that a fetch brought nothing.
Missed(f) ==
    trust' = IF f.by # "prePopulate" /\ trust[f.cache][f.tool] = "good"
             THEN [trust EXCEPT ![f.cache][f.tool] = "missed"] ELSE trust

\* The server does not have the tool any more: null, even if there is a stale entry.
FetchFindsNothing(f) ==
    /\ Settle(f, NoVersion)
    /\ Missed(f)
    /\ UNCHANGED <<now, listed, current, life, memory, file>>

\* The fallback to staleCached, or the error if there is none.
FetchFails(f) ==
    /\ Settle(f, f.stale)
    /\ Missed(f)
    /\ UNCHANGED <<now, listed, current, life, memory, file>>

-------------------------------------------------------------------------------
(* saveToDisk() and loadFromDisk() *)

\* Contents that say the same of the same tools, at other times, are equally long.
Shape(content) == {<<s.tool, s.version>> : s \in content}

Nothing == [status |-> "torn", content |-> {}]

\* Under the lock of this cache, which other caches do not know: the entries are taken,
\* the file is emptied, and written.
BeginWrite(c) ==
    /\ saves[c] > 0
    /\ ~Writing(c)
    /\ saves' = [saves EXCEPT ![c] = @ - 1]
    /\ writers' = writers \cup {[cache |-> c, content |-> Content(c)]}
    /\ IF writers = {}
       THEN disk' = Nothing /\ mishaps' = {}
       ELSE /\ disk' = [disk EXCEPT !.status = "torn"]
            /\ mishaps' = mishaps \cup {"overlap"} \cup
                 IF \E w \in writers : Shape(w.content) # Shape(Content(c)) THEN {"mixed"} ELSE {}
    /\ UNCHANGED <<now, listed, current, life, memory, fetches, waits, history, lastWriter>>

\* The last write is over.  Of writes that overlapped the file may have the contents of
\* either, or a long one's end behind a short one.
Written(contents) ==
    disk' \in {[status |-> "whole", content |-> content] : content \in
                  contents \cup IF "overlap" \in mishaps' THEN {disk.content} ELSE {}}
             \cup IF mishaps' \cap {"mixed", "failure"} # {} THEN {Nothing} ELSE {}

EndWrite(w) ==
    /\ writers' = writers \ {w}
    /\ lastWriter' = w.cache
    /\ UNCHANGED mishaps
    /\ IF writers' = {} THEN Written({w.content}) ELSE disk' = [disk EXCEPT !.content = w.content]
    /\ UNCHANGED <<now, listed, current, life, memory, fetches, waits, saves, history>>

\* Writes that do not end, or not well.
Abort(ws) ==
    /\ writers' = writers \ ws
    /\ mishaps' = mishaps \cup IF ws = {} THEN {} ELSE {"failure"}
    /\ IF ws # {} /\ writers' = {} THEN Written({}) ELSE UNCHANGED disk

WriteFails(w) ==
    /\ Abort({w})
    /\ UNCHANGED <<now, listed, current, life, memory, fetches, waits, saves, history,
                   lastWriter>>

\* set() gives a loaded entry a new age in the LRU cache, but expiresAt stays.
LoadedKeepsAge(s) ==
    [version |-> s.version, fetchedAt |-> s.fetchedAt, start |-> s.fetchedAt, born |-> s.born]
Loaded(s) == [version |-> s.version, fetchedAt |-> s.fetchedAt, start |-> now, born |-> s.born]

Readable == IF disk.status = "whole" THEN disk.content ELSE {}

\* prePopulate() up to its await for fetches: of what the file says the newest entries
\* are loaded; a file that is absent or not JSON is no entries.  Each tool is looked up
\* once, and a second time by getToolSchema() if it is to be fetched.
PrePopulate(c) ==
    \E loaded \in kSubset(Min({MaxCacheSize, Cardinality(Readable)}), Readable) :
    \E order \in SetToSeqs({s.tool : s \in loaded}) :
      LET found == [t \in Tools |-> IF \E s \in loaded : s.tool = t
                                    THEN Loaded(CHOOSE s \in loaded : s.tool = t) ELSE NoEntry]
          missing == {t \in listed : found[t] = NoEntry \/ found[t].fetchedAt + Ttl < now}
          asked == {NewFetch(c, t, "prePopulate", Got(found[t]).version) : t \in missing}
      IN
      /\ life[c] = "new"
      /\ \A s \in loaded, r \in Readable \ loaded : s.fetchedAt >= r.fetchedAt
      /\ cache' = [cache EXCEPT ![c] = [t \in Tools |-> Got(found[t])]]
      /\ recency' = [recency EXCEPT ![c] = Only(order, {t \in Tools : cache'[c][t] # NoEntry})]
      /\ fetches' = fetches \cup asked
      /\ life' = [life EXCEPT ![c] = IF asked = {} THEN "serving" ELSE "populating"]
      /\ trust' = [trust EXCEPT ![c] = [t \in Tools |-> IF found[t] = NoEntry THEN "unknown"
                                                        ELSE "good"]]
        /\ UNCHANGED <<now, listed, current, waits, file, served>>

\* Its fetches are over: save, and go on when that is done.
SavePopulated(c) ==
    /\ life[c] = "populating"
    /\ \A f \in fetches : f.cache # c
    /\ saves' = SavesWanted(c)
    /\ life' = [life EXCEPT ![c] = "saving"]
    /\ UNCHANGED <<now, listed, current, memory, fetches, waits, writers, disk, history, lastWriter,
                   mishaps>>

Populated(c) ==
    /\ life[c] = "saving"
    /\ saves[c] = 0
    /\ ~Writing(c)
    /\ life' = [life EXCEPT ![c] = "serving"]
    /\ UNCHANGED <<now, listed, current, memory, fetches, waits, file, history>>

-------------------------------------------------------------------------------
(* invalidate() and cleanup(), which nothing in src/ calls *)

Drop(c, dropped) ==
    /\ cache' = [cache EXCEPT ![c] = [t \in Tools |-> IF t \in dropped THEN NoEntry ELSE @[t]]]
    /\ recency' = [recency EXCEPT ![c] = Without(@, dropped)]
    /\ trust' = [trust EXCEPT ![c] = [t \in Tools |-> IF t \in dropped THEN "unknown" ELSE @[t]]]

Invalidate(c, dropped) ==
    /\ life[c] = "serving"
    /\ saves[c] < MaxSaves
    /\ Drop(c, dropped)
    /\ saves' = SavesWanted(c)
    /\ UNCHANGED <<now, listed, current, life, fetches, waits, writers, disk, served,
                   lastWriter, mishaps>>

Cleanup(c) ==
    /\ life[c] = "serving"
    /\ Drop(c, {t \in Tools : cache[c][t] # NoEntry /\ now >= cache[c][t].fetchedAt + Ttl})
    /\ UNCHANGED <<now, listed, current, life, fetches, waits, file, served>>

-------------------------------------------------------------------------------
(* The environment *)

UpdateTool(t) ==
    /\ current[t] < MaxVersion
    /\ current' = [current EXCEPT ![t] = @ + 1]
    /\ UNCHANGED <<now, listed, life, memory, fetches, waits, file, history>>

\* A process ends, and with it these caches: what they were writing stays half written.
Crash(dead) ==
    /\ \E c \in dead : life[c] \notin {"new", "gone"}
    /\ \A c \in dead : life[c] # "new"
    /\ life' = [c \in Caches |-> IF c \in dead THEN "gone" ELSE life[c]]
    /\ cache' = [c \in Caches |-> IF c \in dead THEN [t \in Tools |-> NoEntry] ELSE cache[c]]
    /\ recency' = [c \in Caches |-> IF c \in dead THEN <<>> ELSE recency[c]]
    /\ fetches' = {f \in fetches : f.cache \notin dead}
    /\ waits' = [k \in Callers |-> IF \E f \in fetches' : waits[k] = WaitFor(f)
                                   THEN waits[k] ELSE NoWait]
    /\ saves' = [c \in Caches |-> IF c \in dead THEN 0 ELSE saves[c]]
    /\ Abort({w \in writers : w.cache \in dead})
    /\ served' = [c \in Caches |-> IF c \in dead THEN [t \in Tools |-> NoVersion] ELSE served[c]]
    /\ trust' = [c \in Caches |-> IF c \in dead THEN [t \in Tools |-> "unknown"] ELSE trust[c]]
    /\ lastWriter' = IF lastWriter \in dead THEN "nobody" ELSE lastWriter
    /\ UNCHANGED <<now, listed, current>>

Tick ==
    /\ now < MaxTime
    /\ now' = now + 1
    /\ UNCHANGED <<listed, current, life, memory, fetches, waits, file, history>>

Next ==
    \/ \E k \in Callers, c \in Caches, t \in listed :
         Join(k, c, t) \/ Hit(k, c, t) \/ StartFetch(k, c, t)
    \/ \E f \in fetches :
         ServerReads(f) \/ FetchSucceeds(f) \/ FetchFindsNothing(f) \/ FetchFails(f)
    \/ \E c \in Caches :
         \/ BeginWrite(c) \/ PrePopulate(c) \/ SavePopulated(c) \/ Populated(c)
         \/ \E dropped \in {Tools} \cup {{t} : t \in listed} : Invalidate(c, dropped)
         \/ Cleanup(c)
    \/ \E w \in writers : EndWrite(w) \/ WriteFails(w)
    \/ \E t \in listed : UpdateTool(t)
    \/ \E dead \in SUBSET Caches : Crash(dead)
    \/ Tick

Spec == Init /\ [][Next]_vars

-------------------------------------------------------------------------------
(* Properties *)

\* The LRU cache is within its bound and knows the recency of exactly its entries; no
\* tool is fetched twice at a time by a cache; an entry never looks older to the LRU
\* cache than it is; and a torn file that nobody is writing has a reason.
SchemaCacheInv ==
    /\ TypeOK
    /\ \A c \in Caches :
         /\ Len(recency[c]) <= MaxCacheSize
         /\ ToSet(recency[c]) = {t \in Tools : cache[c][t] # NoEntry}
         /\ IsInjective(recency[c])
         /\ \A t \in Tools : cache[c][t].fetchedAt <= cache[c][t].start
    /\ \A f, g \in fetches : f.cache = g.cache /\ f.tool = g.tool => f = g
    /\ disk.status = "torn" => writers # {} \/ mishaps # {}

\* A cache never goes back to a schema older than one it answered before, whatever
\* overlaps: fetches that are answered late, fallbacks to stale entries, evictions, and
\* entries of other caches found in the file.
NeverGoesBack ==
    [][\A c \in Caches, t \in Tools : life'[c] # "gone" => served'[c][t] >= served[c][t]]_vars

\* What a cache answers without asking the server was fetched less than Ttl ago, by this
\* cache or by the one that wrote it to the file: neither looking an entry up nor loading
\* it from the file makes it younger.
FreshIsFresh ==
    \A c \in Caches, t \in Tools : IsFresh(cache[c][t]) => now < cache[c][t].born + Ttl

\* The first time after a success that the server of a tool fails, nobody notices, no
\* matter how long the entry, or the file it comes from, has been expired: a fetch that
\* has nothing to fall back on is for a tool that is new to the cache, or that a caller
\* has missed before.  (A second failure may be noticed: the LRU cache forgets an entry
\* that is too old when it returns it.)
FirstFailureIsBridged ==
    \A f \in fetches :
        f.by # "prePopulate" /\ f.stale = NoVersion => trust[f.cache][f.tool] # "good"

\* Nothing is lost between saves that wait for each other: when the cache that wrote last
\* has nothing left to save, the file has all its entries.
SavedIsOnDisk ==
    \A c \in Caches :
        /\ lastWriter = c
        /\ life[c] = "serving"
        /\ saves[c] = 0
        /\ writers = {}
        /\ mishaps = {}
        => disk.status = "whole" /\ Content(c) \subseteq disk.content

\* What the documentation promises of the lock: concurrent writes do not corrupt the
\* file.  Only a crash or a failed write leaves half a file.
FileIsWhole == disk.status = "torn" /\ writers = {} => "failure" \in mishaps
================================================================================
