--------------------------- MODULE SchemaCacheProofs ---------------------------
(***************************************************************************)
(* Proofs about the caches of tool schemas and the file they share, for    *)
(* any number of caches, tools and callers, any Ttl and size.              *)
(*                                                                         *)
(* What may yet be answered is bounded from both sides: it is not older    *)
(* than what was answered before, nor newer than what the MCP server has.  *)
(* Of the entries that the file does not have yet it is known that a save  *)
(* is wanted, or that the write under way has them.                        *)
(***************************************************************************)
EXTENDS SchemaCache, FiniteSetTheorems, TLAPS

-------------------------------------------------------------------------------
(* The invariant *)

Alive(c) == life[c] \notin {"new", "gone"}

\* Only a cache that was populated and has not ended has, does or wrote anything.
LivesInv ==
    /\ \A f \in fetches : Alive(f.cache)
    /\ \A w \in writers : Alive(w.cache)
    /\ lastWriter # "nobody" => Alive(lastWriter)
    /\ \A c \in Caches : ~Alive(c) =>
          /\ saves[c] = 0
          /\ \A t \in Tools : served[c][t] = NoVersion /\ cache[c][t] = NoEntry

\* A schema that was fetched and is not newer than its server's.
Sound(t, e) ==
    /\ e.fetchedAt = e.born /\ e.fetchedAt <= now
    /\ e.version <= current[t]

SoundContent(content) == IsFiniteSet(content) /\ \A s \in content : Sound(s.tool, s)

ContentsInv == SoundContent(disk.content) /\ \A w \in writers : SoundContent(w.content)

EntriesInv ==
    \A c \in Caches, t \in Tools :
       /\ served[c][t] <= current[t]
       /\ cache[c][t] # NoEntry => /\ Sound(t, cache[c][t])
                                   /\ cache[c][t].fetchedAt <= cache[c][t].start
                                   /\ served[c][t] <= cache[c][t].version

Present(c) == {t \in Tools : cache[c][t] # NoEntry}

RecencyInv ==
    \A c \in Caches :
       /\ Len(recency[c]) <= MaxCacheSize
       /\ ToSet(recency[c]) = Present(c)
       /\ IsInjective(recency[c])

\* What a fetch may answer, and that no older one than its fallback is in the cache.
FetchesInv ==
    /\ \A f, g \in fetches : f.cache = g.cache /\ f.tool = g.tool => f = g
    /\ \A f \in fetches :
          /\ f.version # NoVersion => /\ served[f.cache][f.tool] <= f.version
                                      /\ f.version <= current[f.tool]
          /\ f.stale # NoVersion => /\ served[f.cache][f.tool] <= f.stale
                                    /\ f.stale <= current[f.tool]
                                    /\ cache[f.cache][f.tool] # NoEntry =>
                                          f.stale <= cache[f.cache][f.tool].version

\* What was fetched well is in the cache still, or what a fetch of it falls back on.
TrustInv ==
    /\ \A c \in Caches, t \in Tools :
          trust[c][t] = "good" =>
             \/ cache[c][t] # NoEntry
             \/ \E f \in fetches : f.cache = c /\ f.tool = t /\ f.by # "prePopulate"
    /\ \A f \in fetches :
          f.by # "prePopulate" /\ f.stale = NoVersion => trust[f.cache][f.tool] # "good"

\* What the file has, or will have.
FileInv ==
    /\ disk.status = "torn" => writers # {} \/ mishaps # {}
    /\ \A w \in writers : saves[w.cache] = 0 => Content(w.cache) \subseteq w.content
    /\ \A c \in Caches :
          lastWriter = c /\ saves[c] = 0 /\ writers = {} /\ mishaps = {} =>
             disk.status = "whole" /\ Content(c) \subseteq disk.content

IInv ==
    /\ TypeOK
    /\ LivesInv
    /\ ContentsInv
    /\ EntriesInv
    /\ RecencyInv
    /\ FetchesInv
    /\ TrustInv
    /\ FileInv

-------------------------------------------------------------------------------
(* What a filter leaves of a sequence *)

\* Each number up to their count is the rank of exactly one of some positions.
LEMMA Ranks ==
    ASSUME NEW m \in Nat, NEW P \in SUBSET (1..m)
    PROVE  /\ IsFiniteSet(P) /\ Cardinality(P) \in Nat
           /\ \A n \in 1..Cardinality(P) : Nth(P, n) \in P
           /\ \A i \in P : \E n \in 1..Cardinality(P) : Nth(P, n) = i
           /\ \A n, l \in 1..Cardinality(P) : Nth(P, n) = Nth(P, l) => n = l
<1> DEFINE upTo(i) == {j \in P : j <= i}
           rank == [i \in P |-> Cardinality(upTo(i))]
           size == Cardinality(P)
<1>1. IsFiniteSet(P) /\ size \in Nat
  <2>1. IsFiniteSet(1..m)
    BY FS_Interval
  <2> QED  BY <2>1, FS_Subset, FS_CardinalityType
<1>2. \A i \in P : IsFiniteSet(upTo(i)) /\ Cardinality(upTo(i)) \in Nat
  BY <1>1, FS_Subset, FS_CardinalityType
<1>3. rank \in [P -> 1..size]
  <2> SUFFICES ASSUME NEW i \in P PROVE Cardinality(upTo(i)) \in 1..size
    OBVIOUS
  <2>1. upTo(i) \subseteq P /\ i \in upTo(i)
    OBVIOUS
  <2>2. Cardinality(upTo(i)) <= size
    BY <1>1, <2>1, FS_Subset
  <2>3. Cardinality(upTo(i)) # 0
    BY <1>2, <2>1, FS_EmptySet
  <2> HIDE DEF upTo
  <2> QED  BY <1>1, <1>2, <2>2, <2>3
<1>4. ASSUME NEW i \in P, NEW j \in P, i < j PROVE rank[i] # rank[j]
  <2>1. upTo(i) \subseteq upTo(j) /\ j \in upTo(j) /\ j \notin upTo(i)
    <3>1. i \in Nat /\ j \in Nat /\ \A l \in P : l \in Nat
      OBVIOUS
    <3>2. \A l \in P : l <= i => l <= j
      BY <1>4, <3>1
    <3>3. j <= j /\ ~(j <= i)
      BY <1>4, <3>1
    <3> QED  BY <3>2, <3>3
  <2>2. IsFiniteSet(upTo(j)) /\ upTo(i) # upTo(j)
    BY <1>2, <2>1
  <2> HIDE DEF upTo
  <2>3. Cardinality(upTo(i)) # Cardinality(upTo(j))
    BY <2>1, <2>2, FS_Subset
  <2> QED  BY <2>3
<1> HIDE DEF rank
<1>5. rank \in Injection(P, 1..size)
  <2>1. \A i, j \in P : rank[i] = rank[j] => i = j
    BY <1>4
  <2>2. DOMAIN rank = P
    BY <1>3
  <2>3. IsInjective(rank)
    BY <2>1, <2>2 DEF IsInjective
  <2> QED  BY <1>3, <2>3 DEF Injection
<1>6. rank \in Surjection(P, 1..size)
  <2>1. IsFiniteSet(1..size) /\ Cardinality(1..size) = size
    BY <1>1, FS_Interval
  <2> QED  BY <1>5, <2>1, FS_Injection
<1>7. \A n \in 1..size : \E i \in P : rank[i] = n
  BY <1>6 DEF Surjection
<1>8. ASSUME NEW n \in 1..size PROVE Nth(P, n) \in P /\ rank[Nth(P, n)] = n
  <2>1. PICK i \in P : Cardinality(upTo(i)) = n
    BY <1>7 DEF rank
  <2> QED  BY <2>1 DEF Nth, rank
<1>9. ASSUME NEW i \in P PROVE Nth(P, rank[i]) = i
  <2>1. rank[i] \in 1..size
    BY <1>3
  <2>2. Nth(P, rank[i]) \in P /\ rank[Nth(P, rank[i])] = rank[i]
    BY <1>8, <2>1
  <2> QED  BY <1>5, <2>2, <1>3 DEF Injection, IsInjective
<1>10. \A n, l \in 1..size : Nth(P, n) = Nth(P, l) => n = l
  <2> HIDE DEF size
  <2> QED  BY <1>8
<1> QED  BY <1>1, <1>3, <1>8, <1>9, <1>10

\* A filter keeps of the elements those in the set, each as often as it is there.
LEMMA OnlyKeeps ==
    ASSUME NEW S, NEW s \in Seq(S), NEW kept
    PROVE  /\ Only(s, kept) \in Seq(S)
           /\ ToSet(Only(s, kept)) = ToSet(s) \cap kept
           /\ Len(Only(s, kept)) <= Len(s)
           /\ (\E i \in 1..Len(s) : s[i] \notin kept) => Len(Only(s, kept)) < Len(s)
           /\ IsInjective(s) => IsInjective(Only(s, kept))
<1> DEFINE P == Positions(s, kept)
           size == Cardinality(P)
           o == Only(s, kept)
<1>1. Len(s) \in Nat /\ DOMAIN s = 1..Len(s) /\ \A i \in 1..Len(s) : s[i] \in S
  OBVIOUS
<1>2. P \in SUBSET (1..Len(s)) /\ \A i \in 1..Len(s) : i \in P <=> s[i] \in kept
  BY DEF Positions
<1>3. o = [n \in 1..size |-> s[Nth(P, n)]]
  BY DEF Only
<1> HIDE DEF P, o
<1>4. /\ IsFiniteSet(P) /\ size \in Nat
      /\ \A n \in 1..size : Nth(P, n) \in P
      /\ \A i \in P : \E n \in 1..size : Nth(P, n) = i
      /\ \A n, l \in 1..size : Nth(P, n) = Nth(P, l) => n = l
  BY <1>1, <1>2, Ranks
<1> HIDE DEF size
<1>5. o \in Seq(S) /\ Len(o) = size /\ DOMAIN o = 1..size
  <2>1. o \in [1..size -> S]
    BY <1>1, <1>2, <1>3, <1>4
  <2> QED  BY <1>4, <2>1
<1>6. ToSet(o) = ToSet(s) \cap kept
  <2>1. ASSUME NEW x \in ToSet(o) PROVE x \in ToSet(s) \cap kept
    <3>1. PICK n \in 1..size : x = s[Nth(P, n)]
      BY <1>3, <1>5 DEF ToSet
    <3> QED  BY <1>1, <1>2, <1>4, <3>1 DEF ToSet
  <2>2. ASSUME NEW x \in ToSet(s), x \in kept PROVE x \in ToSet(o)
    <3>1. PICK i \in 1..Len(s) : x = s[i]
      BY <1>1 DEF ToSet
    <3>2. PICK n \in 1..size : Nth(P, n) = i
      BY <1>2, <1>4, <2>2, <3>1
    <3>3. o[n] = x
      BY <1>3, <3>1, <3>2
    <3> QED  BY <1>5, <3>3 DEF ToSet
  <2> QED  BY <2>1, <2>2
<1>7. IsFiniteSet(1..Len(s)) /\ Cardinality(1..Len(s)) = Len(s)
  <2> DEFINE l == Len(s)
  <2>1. l \in Nat
    BY <1>1
  <2> HIDE DEF l
  <2>2. IsFiniteSet(1..l) /\ Cardinality(1..l) = l
    BY <2>1, FS_Interval
  <2> QED  BY <2>2 DEF l
<1>8. size <= Len(s)
  BY <1>2, <1>7, FS_Subset DEF size
<1>9. ASSUME NEW i \in 1..Len(s), s[i] \notin kept PROVE size < Len(s)
  <2>1. P # 1..Len(s)
    BY <1>2, <1>9
  <2>2. Cardinality(P) <= Cardinality(1..Len(s)) /\ Cardinality(P) # Cardinality(1..Len(s))
    BY <1>2, <1>7, <2>1, FS_Subset
  <2> QED  BY <1>1, <1>4, <1>7, <2>2 DEF size
<1>10. ASSUME IsInjective(s) PROVE IsInjective(o)
  <2> SUFFICES ASSUME NEW n \in 1..size, NEW l \in 1..size, o[n] = o[l] PROVE n = l
    BY <1>5 DEF IsInjective
  <2>1. s[Nth(P, n)] = s[Nth(P, l)] /\ Nth(P, n) \in 1..Len(s) /\ Nth(P, l) \in 1..Len(s)
    BY <1>2, <1>3, <1>4
  <2>2. Nth(P, n) = Nth(P, l)
    BY <1>1, <1>10, <2>1 DEF IsInjective
  <2> QED  BY <1>4, <2>2
<1>11. (\E i \in 1..Len(s) : s[i] \notin kept) => size < Len(s)
  BY <1>9
<1> QED  BY <1>5, <1>6, <1>8, <1>10, <1>11 DEF o

-------------------------------------------------------------------------------
(* What is kept while the entries are *)

\* What the types say of the parts.
LEMMA Typed ==
    ASSUME TypeOK
    PROVE  /\ now \in Nat /\ Ttl \in Nat \ {0}
           /\ \A t \in Tools : current[t] \in Versions
           /\ \A c \in Caches : saves[c] \in Nat
           /\ \A c \in Caches, t \in Tools :
                 /\ served[c][t] \in Nat
                 /\ cache[c][t] \in Entries \cup {NoEntry}
           /\ \A f \in fetches :
                 /\ f.cache \in Caches /\ f.tool \in Tools /\ f.by \in Owners
                 /\ f.version \in Nat /\ f.stale \in Nat
           /\ \A w \in writers : w.cache \in Caches /\ w.content \subseteq Saved
           /\ disk.content \subseteq Saved
<1>1. now \in Nat /\ Ttl \in Nat \ {0}
  BY SchemaCacheAssumption DEF TypeOK
<1>2. \A t \in Tools : current[t] \in Versions
  BY DEF TypeOK
<1>3. \A c \in Caches : saves[c] \in Nat
  BY DEF TypeOK
<1>4. \A c \in Caches, t \in Tools : cache[c][t] \in Entries \cup {NoEntry}
  BY DEF TypeOK
<1>5. \A c \in Caches, t \in Tools : served[c][t] \in Versions \cup {NoVersion}
  BY DEF TypeOK
<1>6. Versions \cup {NoVersion} \subseteq Nat
  BY SchemaCacheAssumption DEF Versions, NoVersion
<1>7. \A f \in fetches : f \in Fetches
  BY DEF TypeOK
<1>8. \A f \in fetches : /\ f.cache \in Caches /\ f.tool \in Tools /\ f.by \in Owners
                         /\ f.version \in Nat /\ f.stale \in Nat
  BY <1>6, <1>7 DEF Fetches
<1>9. \A w \in writers : w.cache \in Caches /\ w.content \subseteq Saved
  BY DEF TypeOK
<1>10. disk.content \subseteq Saved
  BY DEF TypeOK
<1> QED  BY <1>1, <1>2, <1>3, <1>4, <1>5, <1>6, <1>8, <1>9, <1>10

\* An entry that is there, and an entry as a file has it.
LEMMA EntryTyped ==
    ASSUME NEW e \in Entries
    PROVE  /\ e.version \in Versions /\ e.version \in Nat \ {0} /\ e.fetchedAt \in Nat
           /\ e.start \in Nat /\ e.born \in Nat /\ e # NoEntry
BY SchemaCacheAssumption DEF Entries, NoEntry, Versions, NoVersion

LEMMA SavedTyped ==
    ASSUME NEW s \in Saved
    PROVE  /\ s.tool \in Tools /\ s.version \in Versions /\ s.version \in Nat \ {0}
           /\ s.fetchedAt \in Nat /\ s.born \in Nat
BY SchemaCacheAssumption DEF Saved, Versions

\* Time passes and versions go up.
LEMMA StillSound ==
    ASSUME TypeOK, now' \in Nat, now' >= now, \A t \in Tools : current'[t] \in Nat /\ current'[t] >= current[t]
    PROVE  /\ \A t \in Tools, e \in Entries : Sound(t, e) => Sound(t, e)'
           /\ \A content \in SUBSET Saved : SoundContent(content) => SoundContent(content)'
<1>0. now \in Nat /\ \A t \in Tools : current[t] \in Nat
  BY Typed, SchemaCacheAssumption DEF Versions
<1>1. ASSUME NEW t \in Tools, NEW e \in Entries, Sound(t, e) PROVE Sound(t, e)'
  <2>1. e.version \in Nat /\ e.fetchedAt \in Nat
    BY EntryTyped
  <2> QED  BY <1>0, <1>1, <2>1 DEF Sound
<1>2. ASSUME NEW s \in Saved, Sound(s.tool, s) PROVE Sound(s.tool, s)'
  <2>1. s.tool \in Tools /\ s.version \in Nat /\ s.fetchedAt \in Nat
    BY SavedTyped
  <2> QED  BY <1>0, <1>2, <2>1 DEF Sound
<1>3. ASSUME NEW content \in SUBSET Saved, SoundContent(content) PROVE SoundContent(content)'
  BY <1>2, <1>3 DEF SoundContent
<1> QED  BY <1>1, <1>3

\* No entry, answer or fetch is touched, and no cache is started or ends.
LEMMA MemoryStays ==
    ASSUME TypeOK, EntriesInv, RecencyInv, FetchesInv, TrustInv, UNCHANGED <<memory, history, fetches>>,
           now' \in Nat, now' >= now, \A t \in Tools : current'[t] \in Nat /\ current'[t] >= current[t]
    PROVE  EntriesInv' /\ RecencyInv' /\ FetchesInv' /\ TrustInv'
<1>0. UNCHANGED <<cache, recency, served, trust, fetches>>
  BY DEF memory, history
<1>1. EntriesInv'
  <2> SUFFICES ASSUME NEW c \in Caches, NEW t \in Tools
               PROVE  /\ served[c][t] <= current'[t]
                      /\ cache[c][t] # NoEntry => /\ Sound(t, cache[c][t])'
                                                  /\ cache[c][t].fetchedAt <= cache[c][t].start
                                                  /\ served[c][t] <= cache[c][t].version
    BY <1>0 DEF EntriesInv
  <2>1. served[c][t] \in Nat /\ current[t] \in Nat
    BY Typed, SchemaCacheAssumption DEF Versions
  <2>2. served[c][t] <= current'[t]
    BY <2>1 DEF EntriesInv
  <2>3. ASSUME cache[c][t] # NoEntry PROVE Sound(t, cache[c][t])'
    <3>1. cache[c][t] \in Entries /\ Sound(t, cache[c][t])
      BY <2>3, Typed DEF EntriesInv
    <3>2. now \in Nat /\ cache[c][t].version \in Nat /\ cache[c][t].fetchedAt \in Nat
      BY <3>1, EntryTyped, Typed
    <3> QED  BY <1>0, <2>1, <3>1, <3>2 DEF Sound
  <2> QED  BY <2>2, <2>3 DEF EntriesInv
<1>2. RecencyInv'
  BY <1>0 DEF RecencyInv, Present
<1>3. FetchesInv'
  <2>1. ASSUME NEW f \in fetches
        PROVE  /\ f.version # NoVersion => f.version <= current'[f.tool]
               /\ f.stale # NoVersion => f.stale <= current'[f.tool]
    <3>1. f.version \in Nat /\ f.stale \in Nat /\ f.tool \in Tools /\ current[f.tool] \in Nat
      BY Typed, SchemaCacheAssumption DEF Versions
    <3> QED  BY <3>1 DEF FetchesInv
  <2> QED  BY <1>0, <2>1 DEF FetchesInv
<1>4. TrustInv'
  BY <1>0 DEF TrustInv
<1> QED  BY <1>1, <1>2, <1>3, <1>4

\* A cache that keeps no entry but those it had, of the same age, has no new content.
Fewer(c) ==
    \A t \in Tools :
       cache'[c][t] # NoEntry =>
          /\ cache[c][t] # NoEntry
          /\ cache'[c][t].version = cache[c][t].version
          /\ cache'[c][t].fetchedAt = cache[c][t].fetchedAt
          /\ cache'[c][t].born = cache[c][t].born

LEMMA FewerContent ==
    ASSUME NEW c, Fewer(c)
    PROVE  Content(c)' \subseteq Content(c)
BY DEF Fewer, Content

\* The file is not touched, nor is a save taken; whose entries change has more left or wants a save.
LEMMA FileStays ==
    ASSUME TypeOK, FileInv, UNCHANGED <<writers, disk, lastWriter, mishaps>>,
           \A c \in Caches : saves'[c] >= saves[c] /\ saves'[c] \in Nat
                             /\ (saves'[c] = 0 => Content(c)' \subseteq Content(c))
    PROVE  FileInv'
<1>1. \A c \in Caches : saves'[c] = 0 => saves[c] = 0
  BY Typed
<1>2. \A w \in writers : saves'[w.cache] = 0 => Content(w.cache)' \subseteq w.content
  <2> SUFFICES ASSUME NEW w \in writers, saves'[w.cache] = 0 PROVE Content(w.cache)' \subseteq w.content
    OBVIOUS
  <2>1. w.cache \in Caches
    BY Typed
  <2>2. Content(w.cache)' \subseteq Content(w.cache) /\ saves[w.cache] = 0
    BY <1>1, <2>1
  <2> QED  BY <2>2 DEF FileInv
<1>3. ASSUME NEW c \in Caches, lastWriter = c, saves'[c] = 0, writers = {}, mishaps = {}
      PROVE  disk.status = "whole" /\ Content(c)' \subseteq disk.content
  <2>1. Content(c)' \subseteq Content(c) /\ saves[c] = 0
    BY <1>1, <1>3
  <2> QED  BY <1>3, <2>1 DEF FileInv
<1> QED  BY <1>2, <1>3 DEF FileInv

-------------------------------------------------------------------------------
(* The file *)

Contents == SUBSET Saved

\* The entries of a cache, as the file would have them, are finitely many and sound.
LEMMA ContentIsSound ==
    ASSUME TypeOK, EntriesInv, NEW c \in Caches
    PROVE  Content(c) \in Contents /\ SoundContent(Content(c))
<1> DEFINE saved(t) == [tool |-> t, version |-> cache[c][t].version,
                        fetchedAt |-> cache[c][t].fetchedAt, born |-> cache[c][t].born]
           T == Present(c)
<1>1. Content(c) = {saved(t) : t \in T}
  BY DEF Content, Present
<1>2. ASSUME NEW t \in T PROVE saved(t) \in Saved /\ Sound(saved(t).tool, saved(t))
  <2>1. t \in Tools /\ cache[c][t] \in Entries /\ Sound(t, cache[c][t])
    BY Typed DEF EntriesInv, Present
  <2> QED  BY <2>1, EntryTyped DEF Saved, Sound
<1>3. IsFiniteSet(T)
  BY FS_Subset, SchemaCacheAssumption DEF Present
<1> HIDE DEF T, saved
<1>4. IsFiniteSet({saved(t) : t \in T})
  <2> DEFINE f == [t \in T |-> saved(t)]
             U == {saved(t) : t \in T}
  <2>1. f \in [T -> U] /\ \A u \in U : \E t \in T : f[t] = u
    OBVIOUS
  <2> HIDE DEF f, U
  <2>2. f \in Surjection(T, U)
    BY <2>1 DEF Surjection
  <2>3. IsFiniteSet(U)
    BY <1>3, <2>2, FS_Surjection
  <2> QED  BY <2>3 DEF U
<1> QED  BY <1>1, <1>2, <1>4 DEF Contents, SoundContent

\* What a last write leaves.
LEMMA WrittenLeaves ==
    ASSUME TypeOK, NEW contents \in SUBSET Contents, Written(contents)
    PROVE  /\ disk' \in [status : {"absent", "whole", "torn"}, content : Contents]
           /\ disk'.content \in contents \cup {disk.content, {}}
           /\ disk'.status = "torn" => mishaps' # {}
           /\ mishaps' = {} => disk'.status = "whole" /\ disk'.content \in contents
<1>1. disk.content \in Contents
  BY Typed DEF Contents
<1>2. CASE disk' = Nothing
  BY <1>2 DEF Nothing, Written, Contents
<1>3. ASSUME NEW content \in contents \cup IF "overlap" \in mishaps' THEN {disk.content} ELSE {},
             disk' = [status |-> "whole", content |-> content]
      PROVE  /\ disk' \in [status : {"absent", "whole", "torn"}, content : Contents]
             /\ disk'.content \in contents \cup {disk.content, {}}
             /\ disk'.status = "whole" /\ (mishaps' = {} => disk'.content \in contents)
  <2>1. content \in Contents /\ content \in contents \cup {disk.content}
    BY <1>1, <1>3
  <2>2. mishaps' = {} => content \in contents
    BY <1>3
  <2> QED  BY <1>3, <2>1, <2>2
<1> QED  BY <1>2, <1>3 DEF Written, Nothing

\* Under the lock: a save is taken, and its write begins.
LEMMA BeginWriteKeeps ==
    ASSUME IInv, NEW c \in Caches, BeginWrite(c)
    PROVE  IInv'
<1> DEFINE w1 == [cache |-> c, content |-> Content(c)]
<1>0. /\ TypeOK /\ LivesInv /\ ContentsInv /\ EntriesInv /\ RecencyInv /\ FetchesInv /\ TrustInv /\ FileInv
  BY DEF IInv
<1>1. /\ saves[c] > 0 /\ ~Writing(c) /\ saves' = [saves EXCEPT ![c] = @ - 1]
      /\ writers' = writers \cup {w1}
      /\ UNCHANGED <<now, listed, current, life, cache, recency, fetches, waits, served, trust, lastWriter>>
  BY DEF BeginWrite, memory, history
<1>2. Content(c) \in Contents /\ SoundContent(Content(c))
  BY <1>0, ContentIsSound
<1>3. w1.cache = c /\ w1.content = Content(c) /\ w1 \in [cache : Caches, content : Contents]
  BY <1>2
<1>4. /\ disk' \in [status : {"absent", "whole", "torn"}, content : Contents]
      /\ disk'.content \in {{}, disk.content}
      /\ mishaps' \subseteq {"overlap", "mixed", "failure"}
  BY <1>0 DEF BeginWrite, Nothing, TypeOK, Contents
<1> HIDE DEF w1
<1>5. TypeOK'
  <2>1. saves' \in [Caches -> Nat]
    BY <1>0, <1>1 DEF TypeOK
  <2>2. writers' \subseteq [cache : Caches, content : Contents]
    BY <1>0, <1>1, <1>3 DEF TypeOK, Contents
  <2> QED  BY <1>0, <1>1, <1>4, <2>1, <2>2 DEF TypeOK, Contents
<1>6. LivesInv'
  <2>1. saves[c] # 0
    BY <1>0, <1>1, Typed
  <2>2. Alive(c)
    BY <1>0, <2>1 DEF LivesInv
  <2>3. \A d \in Caches : d # c => saves'[d] = saves[d]
    BY <1>0, <1>1 DEF TypeOK
  <2> QED  BY <1>0, <1>1, <1>3, <2>2, <2>3 DEF LivesInv, Alive
<1>7. ContentsInv'
  <2>1. UNCHANGED <<now, current>>
    BY <1>1
  <2>2. \A content : SoundContent(content)' <=> SoundContent(content)
    BY <2>1 DEF SoundContent, Sound
  <2>3. SoundContent({})
    BY FS_EmptySet DEF SoundContent
  <2> QED  BY <1>0, <1>1, <1>2, <1>3, <1>4, <2>2, <2>3 DEF ContentsInv
<1>8. EntriesInv' /\ RecencyInv' /\ FetchesInv' /\ TrustInv'
  <2>1. \A t \in Tools : current'[t] \in Nat /\ current'[t] >= current[t]
    BY <1>0, <1>1, Typed, SchemaCacheAssumption DEF Versions
  <2>2. now' \in Nat /\ now' >= now
    BY <1>0, <1>1, Typed
  <2> QED  BY <1>0, <1>1, <2>1, <2>2, MemoryStays DEF memory, history
<1>9. FileInv'
  <2>1. writers' # {}
    BY <1>1
  <2>2. \A d : Content(d)' = Content(d)
    BY <1>1 DEF Content
  <2>3. \A w \in writers' : saves'[w.cache] = 0 => Content(w.cache) \subseteq w.content
    <3> SUFFICES ASSUME NEW w \in writers, saves'[w.cache] = 0 PROVE Content(w.cache) \subseteq w.content
      BY <1>1, <1>3
    <3>1. w.cache # c /\ w.cache \in Caches
      BY <1>0, <1>1, Typed DEF Writing
    <3>2. saves[w.cache] = 0
      BY <1>0, <1>1, <3>1 DEF TypeOK
    <3> QED  BY <1>0, <3>2 DEF FileInv
  <2> QED  BY <2>1, <2>2, <2>3 DEF FileInv
<1> QED  BY <1>5, <1>6, <1>7, <1>8, <1>9 DEF IInv

\* Writes end, all of them well or not: what is kept of the file.
LEMMA WritersStop ==
    ASSUME IInv, NEW ws \in SUBSET writers, writers' = writers \ ws, UNCHANGED <<now, current>>,
           disk' \in [status : {"absent", "whole", "torn"}, content : Contents],
           disk'.content \in {w.content : w \in ws} \cup {disk.content, {}},
           disk'.status = "torn" => writers' # {} \/ mishaps' # {},
           \A c \in Caches : saves'[c] = 0 => saves[c] = 0 \/ Content(c)' = {},
           \A c \in Caches : Content(c)' \subseteq Content(c),
           \A c \in Caches : lastWriter' = c /\ saves'[c] = 0 /\ writers' = {} /\ mishaps' = {} =>
              disk'.status = "whole" /\ Content(c)' \subseteq disk'.content
    PROVE  ContentsInv' /\ FileInv'
<1>0. TypeOK /\ ContentsInv /\ FileInv
  BY DEF IInv
<1>1. \A content : SoundContent(content)' <=> SoundContent(content)
  BY DEF SoundContent, Sound
<1>2. SoundContent({})
  BY FS_EmptySet DEF SoundContent
<1>3. ContentsInv'
  BY <1>0, <1>1, <1>2 DEF ContentsInv
<1>4. \A w \in writers' : saves'[w.cache] = 0 => Content(w.cache)' \subseteq w.content
  <2> SUFFICES ASSUME NEW w \in writers, saves'[w.cache] = 0 PROVE Content(w.cache)' \subseteq w.content
    OBVIOUS
  <2>1. w.cache \in Caches
    BY <1>0, Typed
  <2>2. CASE Content(w.cache)' = {}
    BY <2>2
  <2>3. CASE saves[w.cache] = 0
    BY <1>0, <2>1, <2>3 DEF FileInv
  <2> QED  BY <2>1, <2>2, <2>3
<1> QED  BY <1>3, <1>4 DEF FileInv

\* A write is over: what it leaves if it is the last one, or among others.
LEMMA WriteLeaves ==
    ASSUME IInv, NEW w \in writers, EndWrite(w) \/ WriteFails(w)
    PROVE  /\ writers' = writers \ {w}
           /\ UNCHANGED <<now, listed, current, life, cache, recency, fetches, waits, served, trust, saves>>
           /\ lastWriter' = w.cache \/ UNCHANGED lastWriter
           /\ mishaps' \subseteq {"overlap", "mixed", "failure"}
           /\ disk' \in [status : {"absent", "whole", "torn"}, content : Contents]
           /\ disk'.content \in {w.content, disk.content, {}}
           /\ disk'.status = "torn" => writers' # {} \/ mishaps' # {}
           /\ writers' = {} /\ mishaps' = {} =>
                 lastWriter' = w.cache /\ disk'.status = "whole" /\ disk'.content = w.content
<1>0. TypeOK /\ w.content \in Contents /\ disk \in [status : {"absent", "whole", "torn"}, content : Contents]
      /\ mishaps \subseteq {"overlap", "mixed", "failure"} /\ FileInv
  BY Typed DEF IInv, Contents, TypeOK
<1>1. CASE EndWrite(w)
  <2>1. CASE writers' = {}
    <3>1. Written({w.content}) /\ {w.content} \in SUBSET Contents
      BY <1>0, <1>1, <2>1 DEF EndWrite
    <3>2. /\ disk' \in [status : {"absent", "whole", "torn"}, content : Contents]
          /\ disk'.content \in {w.content} \cup {disk.content, {}}
          /\ disk'.status = "torn" => mishaps' # {}
          /\ mishaps' = {} => disk'.status = "whole" /\ disk'.content \in {w.content}
      BY <1>0, <3>1, WrittenLeaves
    <3> QED  BY <1>0, <1>1, <3>2 DEF EndWrite, memory, history
  <2>2. CASE writers' # {}
    <3>1. disk' = [disk EXCEPT !.content = w.content]
      BY <1>1, <2>2 DEF EndWrite
    <3>2. disk' \in [status : {"absent", "whole", "torn"}, content : Contents] /\ disk'.content = w.content
      BY <1>0, <3>1
    <3> QED  BY <1>0, <1>1, <2>2, <3>2 DEF EndWrite, memory, history
  <2> QED  BY <2>1, <2>2
<1>2. CASE WriteFails(w)
  <2>1. /\ writers' = writers \ {w} /\ mishaps' = mishaps \cup {"failure"}
        /\ IF writers' = {} THEN Written({}) ELSE UNCHANGED disk
        /\ UNCHANGED <<now, listed, current, life, cache, recency, fetches, waits, served, trust, saves,
                       lastWriter>>
    BY <1>2 DEF WriteFails, Abort, memory, history
  <2>2. /\ disk' \in [status : {"absent", "whole", "torn"}, content : Contents]
        /\ disk'.content \in {disk.content, {}}
    <3>1. ASSUME Written({})
          PROVE  /\ disk' \in [status : {"absent", "whole", "torn"}, content : Contents]
                 /\ disk'.content \in {} \cup {disk.content, {}}
      BY <1>0, <3>1, WrittenLeaves
    <3> QED  BY <1>0, <2>1, <3>1
  <2> QED  BY <1>0, <2>1, <2>2
<1> QED  BY <1>1, <1>2

\* A write ends, well or not.
LEMMA WriteEndKeeps ==
    ASSUME IInv, NEW w \in writers, EndWrite(w) \/ WriteFails(w)
    PROVE  IInv'
<1>0. /\ TypeOK /\ LivesInv /\ ContentsInv /\ EntriesInv /\ RecencyInv /\ FetchesInv /\ TrustInv /\ FileInv
      /\ w.cache \in Caches /\ Alive(w.cache)
  BY Typed DEF IInv, LivesInv
<1>1. /\ writers' = writers \ {w}
      /\ UNCHANGED <<now, listed, current, life, cache, recency, fetches, waits, served, trust, saves>>
      /\ lastWriter' = w.cache \/ UNCHANGED lastWriter
      /\ mishaps' \subseteq {"overlap", "mixed", "failure"}
      /\ disk' \in [status : {"absent", "whole", "torn"}, content : Contents]
      /\ disk'.content \in {w.content, disk.content, {}}
      /\ disk'.status = "torn" => writers' # {} \/ mishaps' # {}
      /\ writers' = {} /\ mishaps' = {} =>
            lastWriter' = w.cache /\ disk'.status = "whole" /\ disk'.content = w.content
  BY WriteLeaves
<1>2. TypeOK'
  BY <1>0, <1>1 DEF TypeOK, Contents
<1>3. LivesInv'
  BY <1>0, <1>1 DEF LivesInv, Alive
<1>4. EntriesInv' /\ RecencyInv' /\ FetchesInv' /\ TrustInv'
  <2>1. \A t \in Tools : current'[t] \in Nat /\ current'[t] >= current[t]
    BY <1>0, <1>1, Typed, SchemaCacheAssumption DEF Versions
  <2>2. now' \in Nat /\ now' >= now
    BY <1>0, <1>1, Typed
  <2> QED  BY <1>0, <1>1, <2>1, <2>2, MemoryStays DEF memory, history
<1>5. \A c : Content(c)' = Content(c)
  BY <1>1 DEF Content
<1>6. ASSUME NEW c \in Caches, lastWriter' = c, saves'[c] = 0, writers' = {}, mishaps' = {}
      PROVE  disk'.status = "whole" /\ Content(c)' \subseteq disk'.content
  <2>1. w.cache = c /\ saves[c] = 0 /\ disk'.status = "whole" /\ disk'.content = w.content
    BY <1>1, <1>6
  <2>2. Content(c) \subseteq w.content
    BY <1>0, <2>1 DEF FileInv
  <2> QED  BY <1>5, <2>1, <2>2
<1>7. ContentsInv' /\ FileInv'
  <2>1. {w} \in SUBSET writers /\ disk'.content \in {v.content : v \in {w}} \cup {disk.content, {}}
    BY <1>1
  <2>2. UNCHANGED <<now, current, saves>>
    BY <1>1
  <2> QED  BY <1>1, <1>5, <1>6, <2>1, <2>2, WritersStop
<1> QED  BY <1>2, <1>3, <1>4, <1>7 DEF IInv

\* What touches neither entries, fetches nor the file: callers join a fetch, a populated cache asks
\* for its save and begins to serve, servers replace schemas and time passes.
LEMMA OthersKeep ==
    ASSUME IInv, \/ \E k \in Callers, c \in Caches, t \in listed : Join(k, c, t)
                 \/ \E c \in Caches : SavePopulated(c) \/ Populated(c)
                 \/ \E t \in listed : UpdateTool(t)
                 \/ Tick \/ UNCHANGED vars
    PROVE  IInv'
<1>0. /\ TypeOK /\ LivesInv /\ ContentsInv /\ EntriesInv /\ RecencyInv /\ FetchesInv /\ TrustInv /\ FileInv
  BY DEF IInv
<1>1. UNCHANGED <<cache, recency, served, trust, fetches, writers, disk, lastWriter, mishaps, listed>>
  BY DEF Join, SavePopulated, Populated, UpdateTool, Tick, vars, memory, history, file
<1>2. /\ now' \in Nat /\ now' >= now
      /\ current' \in [Tools -> Versions]
      /\ \A t \in Tools : current'[t] \in Nat /\ current'[t] >= current[t]
  <2>1. now \in Nat /\ current \in [Tools -> Versions] /\ listed \subseteq Tools
    BY <1>0 DEF TypeOK
  <2>2. \A t \in Tools : current[t] \in Nat
    BY <2>1, SchemaCacheAssumption DEF Versions
  <2>3. CASE UNCHANGED <<now, current>>
    BY <2>1, <2>2, <2>3
  <2>4. CASE Tick
    BY <2>1, <2>2, <2>4 DEF Tick
  <2>5. ASSUME NEW t \in listed, UpdateTool(t)
        PROVE  /\ current' \in [Tools -> Versions] /\ UNCHANGED now
               /\ \A u \in Tools : current'[u] \in Nat /\ current'[u] >= current[u]
    <3>1. current[t] + 1 \in Versions /\ current[t] + 1 \in Nat /\ current[t] + 1 >= current[t]
      BY <2>1, <2>2, <2>5, SchemaCacheAssumption DEF UpdateTool, Versions
    <3>2. current' = [current EXCEPT ![t] = current[t] + 1] /\ UNCHANGED now
      BY <2>5 DEF UpdateTool
    <3> DEFINE v == current[t] + 1
    <3> HIDE DEF v
    <3>3. current' = [current EXCEPT ![t] = v] /\ v \in Versions /\ v \in Nat /\ v >= current[t]
      BY <3>1, <3>2 DEF v
    <3>4. \A u \in Tools : current'[u] = IF u = t THEN v ELSE current[u]
      BY <2>1, <3>3
    <3> QED  BY <2>1, <2>2, <3>2, <3>3, <3>4
  <2> QED  BY <2>1, <2>3, <2>4, <2>5 DEF Join, SavePopulated, Populated, vars
<1>3. /\ saves' \in [Caches -> Nat]
      /\ \A c \in Caches : saves'[c] >= saves[c] /\ (~Alive(c)' => saves'[c] = saves[c])
      /\ \A c \in Caches : Alive(c)' <=> Alive(c)
      /\ life' \in [Caches -> {"new", "populating", "saving", "serving", "gone"}]
  <2>0. saves \in [Caches -> Nat] /\ life \in [Caches -> {"new", "populating", "saving", "serving", "gone"}]
    BY <1>0 DEF TypeOK
  <2>1. CASE UNCHANGED <<saves, life>>
    BY <2>0, <2>1 DEF Alive
  <2>2. ASSUME NEW c \in Caches, SavePopulated(c)
        PROVE  /\ saves' = [saves EXCEPT ![c] = saves[c] + 1]
               /\ life' = [life EXCEPT ![c] = "saving"] /\ life[c] = "populating"
    BY <2>2 DEF SavePopulated, SavesWanted
  <2>3. ASSUME NEW c \in Caches, Populated(c)
        PROVE  UNCHANGED saves /\ life' = [life EXCEPT ![c] = "serving"] /\ life[c] = "saving"
    BY <2>3 DEF Populated, file
  <2>4. ASSUME NEW c \in Caches, SavePopulated(c)
        PROVE  /\ saves' \in [Caches -> Nat]
               /\ \A d \in Caches : saves'[d] >= saves[d] /\ (d # c => saves'[d] = saves[d])
    <3> DEFINE n == saves[c] + 1
    <3>1. n \in Nat /\ n >= saves[c]
      BY <2>0
    <3>2. saves' = [saves EXCEPT ![c] = n]
      BY <2>2, <2>4
    <3> HIDE DEF n
    <3> QED  BY <2>0, <3>1, <3>2
  <2>5. ASSUME NEW c \in Caches, SavePopulated(c) \/ Populated(c)
        PROVE  /\ \A d \in Caches : Alive(d)' <=> Alive(d)
               /\ life' \in [Caches -> {"new", "populating", "saving", "serving", "gone"}]
               /\ Alive(c)'
    BY <2>0, <2>2, <2>3, <2>5 DEF Alive
  <2>6. ASSUME NEW c \in Caches, Populated(c) PROVE UNCHANGED saves
    BY <2>3, <2>6
  <2>7. \A c \in Caches : SavePopulated(c) =>
           /\ saves' \in [Caches -> Nat]
           /\ \A d \in Caches : saves'[d] >= saves[d] /\ (~Alive(d)' => saves'[d] = saves[d])
    BY <2>4, <2>5
  <2>8. \A c \in Caches : Populated(c) =>
           /\ saves' \in [Caches -> Nat]
           /\ \A d \in Caches : saves'[d] >= saves[d] /\ (~Alive(d)' => saves'[d] = saves[d])
    BY <2>0, <2>6
  <2> QED  BY <2>1, <2>5, <2>7, <2>8 DEF Join, UpdateTool, Tick, vars, file
<1>4. waits' \in [Callers -> {WaitFor(f) : f \in fetches} \cup {NoWait}]
  <2>1. waits \in [Callers -> {WaitFor(f) : f \in fetches} \cup {NoWait}]
    BY <1>0 DEF TypeOK
  <2>2. ASSUME NEW k \in Callers, NEW c \in Caches, NEW t \in listed, Join(k, c, t)
        PROVE  waits' \in [Callers -> {WaitFor(f) : f \in fetches} \cup {NoWait}]
    <3>1. PICK f \in fetches : waits' = [waits EXCEPT ![k] = WaitFor(f)]
      BY <2>2 DEF Join, Pending
    <3> QED  BY <2>1, <3>1
  <2> QED  BY <2>1, <2>2 DEF SavePopulated, Populated, UpdateTool, Tick, vars
<1>5. TypeOK'
  BY <1>0, <1>1, <1>2, <1>3, <1>4 DEF TypeOK
<1>6. LivesInv'
  <2>1. \A c \in Caches : ~Alive(c)' => saves'[c] = 0
    BY <1>0, <1>3 DEF LivesInv
  <2>2. \A f \in fetches : f.cache \in Caches
    BY <1>0, Typed
  <2>3. \A w \in writers : w.cache \in Caches
    BY <1>0, Typed
  <2>4. lastWriter # "nobody" => lastWriter \in Caches
    BY <1>0 DEF TypeOK
  <2> QED  BY <1>0, <1>1, <1>3, <2>1, <2>2, <2>3, <2>4 DEF LivesInv
<1>7. EntriesInv' /\ RecencyInv' /\ FetchesInv' /\ TrustInv'
  BY <1>0, <1>1, <1>2, MemoryStays DEF memory, history
<1>8. ContentsInv'
  <2>1. /\ disk.content \in SUBSET Saved /\ \A w \in writers : w.content \in SUBSET Saved
    BY <1>0, Typed
  <2>2. \A content \in SUBSET Saved : SoundContent(content) => SoundContent(content)'
    BY <1>0, <1>2, StillSound
  <2> QED  BY <1>0, <1>1, <2>1, <2>2 DEF ContentsInv
<1>9. FileInv'
  <2>1. \A c : Content(c)' = Content(c)
    BY <1>1 DEF Content
  <2>2. \A c \in Caches : saves'[c] \in Nat
    BY <1>3
  <2> QED  BY <1>0, <1>1, <1>3, <2>1, <2>2, FileStays
<1> QED  BY <1>5, <1>6, <1>7, <1>8, <1>9 DEF IInv

-------------------------------------------------------------------------------
(* The recency of the entries *)

\* Some tools go, and one of them comes back as the most recent.
LEMMA Reordered ==
    ASSUME NEW r \in Seq(Tools), IsInjective(r), NEW gone
    PROVE  /\ Without(r, gone) \in Seq(Tools) /\ ToSet(Without(r, gone)) = ToSet(r) \ gone
           /\ IsInjective(Without(r, gone)) /\ Len(Without(r, gone)) <= Len(r)
           /\ Len(Without(r, gone)) \in Nat /\ Len(r) \in Nat
           /\ gone \cap ToSet(r) # {} => Len(Without(r, gone)) < Len(r)
           /\ \A t \in Tools \cap gone :
                 LET o == Append(Without(r, gone), t) IN
                 /\ o \in Seq(Tools) /\ ToSet(o) = (ToSet(r) \ gone) \cup {t}
                 /\ IsInjective(o) /\ Len(o) = Len(Without(r, gone)) + 1
<1> DEFINE w == Without(r, gone)
<1>1. ToSet(r) \subseteq Tools /\ \A i \in 1..Len(r) : r[i] \in Tools
  BY DEF ToSet
<1>2. /\ w \in Seq(Tools) /\ ToSet(w) = ToSet(r) \cap (Tools \ gone)
      /\ Len(w) <= Len(r)
      /\ (\E i \in 1..Len(r) : r[i] \notin Tools \ gone) => Len(w) < Len(r)
      /\ IsInjective(w)
  BY OnlyKeeps DEF Without
<1>3. ToSet(w) = ToSet(r) \ gone
  BY <1>1, <1>2
<1>4. gone \cap ToSet(r) # {} => \E i \in 1..Len(r) : r[i] \notin Tools \ gone
  BY DEF ToSet
<1>5. Len(w) \in Nat /\ Len(r) \in Nat
  BY <1>2
<1> HIDE DEF w
<1>6. ASSUME NEW t \in Tools, t \in gone
      PROVE  /\ Append(w, t) \in Seq(Tools) /\ ToSet(Append(w, t)) = ToSet(w) \cup {t}
             /\ IsInjective(Append(w, t)) /\ Len(Append(w, t)) = Len(w) + 1
  <2> DEFINE o == Append(w, t)
             l == Len(w)
  <2>1. /\ o \in Seq(Tools) /\ Len(o) = l + 1 /\ o[l + 1] = t /\ l \in Nat
        /\ \A i \in 1..l : o[i] = w[i]
        /\ DOMAIN o = 1..(l + 1) /\ DOMAIN w = 1..l
    BY <1>2
  <2>2. t \notin ToSet(w)
    BY <1>3, <1>6
  <2> HIDE DEF o, l
  <2>3. \A i \in 1..(l + 1) : i \in 1..l \/ i = l + 1
    BY <2>1
  <2>4. \A i \in 1..l : w[i] # t /\ w[i] \in ToSet(w)
    BY <2>1, <2>2 DEF ToSet
  <2>5. ToSet(o) = ToSet(w) \cup {t}
    <3>1. ASSUME NEW x \in ToSet(w) PROVE x \in ToSet(o)
      <4>1. PICK i \in 1..l : w[i] = x
        BY <2>1 DEF ToSet
      <4>2. i \in 1..(l + 1) /\ o[i] = x
        BY <2>1, <4>1
      <4> QED  BY <2>1, <4>2 DEF ToSet
    <3>2. t \in ToSet(o)
      <4>1. l + 1 \in 1..(l + 1)
        BY <2>1
      <4> QED  BY <2>1, <4>1 DEF ToSet
    <3>3. ASSUME NEW x \in ToSet(o) PROVE x \in ToSet(w) \cup {t}
      <4>1. PICK i \in 1..(l + 1) : o[i] = x
        BY <2>1 DEF ToSet
      <4> QED  BY <2>1, <2>3, <2>4, <4>1
    <3> QED  BY <3>1, <3>2, <3>3
  <2>6. IsInjective(o)
    <3> SUFFICES ASSUME NEW i \in 1..(l + 1), NEW j \in 1..(l + 1), o[i] = o[j] PROVE i = j
      BY <2>1 DEF IsInjective
    <3> QED  BY <1>2, <2>1, <2>3, <2>4 DEF IsInjective
  <2> QED  BY <2>1, <2>5, <2>6 DEF o, l
<1>7. \A t \in Tools \cap gone :
                 LET o == Append(w, t) IN
                 /\ o \in Seq(Tools) /\ ToSet(o) = (ToSet(r) \ gone) \cup {t}
                 /\ IsInjective(o) /\ Len(o) = Len(w) + 1
  BY <1>3, <1>6
<1> QED  BY <1>2, <1>3, <1>4, <1>5, <1>7 DEF w

\* The LRU cache looks an entry up: it is as recent as any, or gone.
LEMMA LookedUp ==
    ASSUME TypeOK, RecencyInv, NEW c \in Caches, NEW t \in Tools,
           cache' = [cache EXCEPT ![c][t] = Got(@)], Move(c, t, cache'[c][t] # NoEntry)
    PROVE  /\ RecencyInv'
           /\ cache' \in [Caches -> [Tools -> Entries \cup {NoEntry}]]
           /\ recency' \in [Caches -> Seq(Tools)]
           /\ \A d \in Caches, u \in Tools :
                 cache'[d][u] = IF d = c /\ u = t THEN Got(cache[c][t]) ELSE cache[d][u]
<1>0. /\ cache \in [Caches -> [Tools -> Entries \cup {NoEntry}]] /\ recency \in [Caches -> Seq(Tools)]
      /\ now \in Nat
  BY DEF TypeOK
<1> DEFINE g == Got(cache[c][t])
           r == recency[c]
           r1 == IF g # NoEntry THEN Append(Without(r, {t}), t) ELSE Without(r, {t})
<1>1. g \in Entries \cup {NoEntry} /\ (g # NoEntry => cache[c][t] # NoEntry)
  BY <1>0, EntryTyped DEF Got, Entries
<1> HIDE DEF g
<1>2. cache' = [cache EXCEPT ![c][t] = g]
  BY DEF g
<1>3. /\ cache' \in [Caches -> [Tools -> Entries \cup {NoEntry}]]
      /\ \A d \in Caches, u \in Tools : cache'[d][u] = IF d = c /\ u = t THEN g ELSE cache[d][u]
  BY <1>0, <1>1, <1>2
<1>4. recency' = [recency EXCEPT ![c] = r1]
  BY <1>0, <1>3 DEF Move
<1>5. r \in Seq(Tools) /\ IsInjective(r) /\ ToSet(r) = Present(c) /\ Len(r) <= MaxCacheSize
  BY <1>0 DEF RecencyInv
<1> HIDE DEF r
<1>6. Present(c)' = IF g # NoEntry THEN (Present(c) \ {t}) \cup {t} ELSE Present(c) \ {t}
  BY <1>3 DEF Present
<1>7. r1 \in Seq(Tools) /\ IsInjective(r1) /\ ToSet(r1) = Present(c)' /\ Len(r1) <= MaxCacheSize
  <2>1. /\ Without(r, {t}) \in Seq(Tools) /\ ToSet(Without(r, {t})) = ToSet(r) \ {t}
        /\ IsInjective(Without(r, {t})) /\ Len(Without(r, {t})) <= Len(r)
        /\ Len(Without(r, {t})) \in Nat /\ Len(r) \in Nat
        /\ {t} \cap ToSet(r) # {} => Len(Without(r, {t})) < Len(r)
    BY <1>5, Reordered
  <2>2. LET o == Append(Without(r, {t}), t) IN
           /\ o \in Seq(Tools) /\ ToSet(o) = (ToSet(r) \ {t}) \cup {t}
           /\ IsInjective(o) /\ Len(o) = Len(Without(r, {t})) + 1
    <3>1. t \in Tools \cap {t}
      OBVIOUS
    <3> QED  BY <1>5, <3>1, Reordered
  <2>3. MaxCacheSize \in Nat
    BY SchemaCacheAssumption
  <2>4. CASE g # NoEntry
    <3>1. t \in ToSet(r)
      BY <1>1, <1>5, <2>4 DEF Present
    <3>2. Len(Without(r, {t})) + 1 <= MaxCacheSize
      BY <1>5, <2>1, <2>3, <3>1
    <3> QED  BY <1>5, <1>6, <2>2, <2>4, <3>2
  <2>5. CASE g = NoEntry
    <3>1. Len(Without(r, {t})) <= MaxCacheSize
      BY <1>5, <2>1, <2>3
    <3> QED  BY <1>5, <1>6, <2>1, <2>5, <3>1
  <2> QED  BY <2>4, <2>5
<1> HIDE DEF r1
<1>8. /\ recency' \in [Caches -> Seq(Tools)] /\ recency'[c] = r1
      /\ \A d \in Caches \ {c} : recency'[d] = recency[d]
  BY <1>0, <1>4, <1>7
<1>9. \A d \in Caches \ {c} : Present(d)' = Present(d)
  BY <1>3 DEF Present
<1>10. RecencyInv'
  BY <1>7, <1>8, <1>9 DEF RecencyInv
<1> QED  BY <1>3, <1>8, <1>10 DEF g

\* An entry is put: the least recently used one makes room if it is new and there is none.
LEMMA PutIn ==
    ASSUME TypeOK, RecencyInv, NEW c \in Caches, NEW t \in Tools, NEW e \in Entries, Put(c, t, e)
    PROVE  /\ RecencyInv'
           /\ cache' \in [Caches -> [Tools -> Entries \cup {NoEntry}]]
           /\ recency' \in [Caches -> Seq(Tools)]
           /\ \A d \in Caches, u \in Tools :
                 cache'[d][u] = IF d # c THEN cache[d][u]
                                ELSE IF u = t THEN e
                                ELSE IF u \in Evicted(c, t) THEN NoEntry ELSE cache[d][u]
<1>0. /\ cache \in [Caches -> [Tools -> Entries \cup {NoEntry}]] /\ recency \in [Caches -> Seq(Tools)]
  BY DEF TypeOK
<1> DEFINE r == recency[c]
           gone == Evicted(c, t) \cup {t}
           r1 == Append(Without(r, gone), t)
<1>1. /\ cache' \in [Caches -> [Tools -> Entries \cup {NoEntry}]]
      /\ \A d \in Caches, u \in Tools :
                 cache'[d][u] = IF d # c THEN cache[d][u]
                                ELSE IF u = t THEN e
                                ELSE IF u \in Evicted(c, t) THEN NoEntry ELSE cache[d][u]
  <2> DEFINE put == [u \in Tools |-> IF u = t THEN e
                                     ELSE IF u \in Evicted(c, t) THEN NoEntry ELSE cache[c][u]]
  <2>1. cache' = [cache EXCEPT ![c] = put]
    BY <1>0 DEF Put
  <2>2. put \in [Tools -> Entries \cup {NoEntry}]
    BY <1>0
  <2>3. \A u \in Tools : put[u] = IF u = t THEN e
                                  ELSE IF u \in Evicted(c, t) THEN NoEntry ELSE cache[c][u]
    OBVIOUS
  <2> HIDE DEF put
  <2> QED  BY <1>0, <2>1, <2>2, <2>3
<1>2. recency' = [recency EXCEPT ![c] = r1]
  BY <1>0 DEF Put
<1>3. r \in Seq(Tools) /\ IsInjective(r) /\ ToSet(r) = Present(c) /\ Len(r) <= MaxCacheSize
  BY <1>0 DEF RecencyInv
<1>4. MaxCacheSize \in Nat \ {0} /\ Len(r) \in Nat
  BY <1>3, SchemaCacheAssumption
\* Whatever the size, there is room for one more behind those that stay.
<1>6. gone \cap ToSet(r) # {} \/ Len(r) < MaxCacheSize
  <2>1. CASE cache[c][t] # NoEntry
    BY <1>3, <2>1 DEF Present
  <2>2. CASE Len(r) # MaxCacheSize
    BY <1>3, <1>4, <2>2
  <2>3. CASE cache[c][t] = NoEntry /\ Len(r) = MaxCacheSize
    <3>1. Head(r) = r[1] /\ 1 \in 1..Len(r)
      BY <1>3, <1>4, <2>3
    <3>2. Head(r) \in ToSet(r) /\ Head(r) \in gone
      BY <1>3, <2>3, <3>1 DEF ToSet, Evicted
    <3> QED  BY <3>2
  <2> QED  BY <2>1, <2>2, <2>3
<1>7. NoEntry \notin Entries
  BY EntryTyped
<1>8. Present(c)' = (Present(c) \ gone) \cup {t}
  BY <1>1, <1>7 DEF Present
<1> HIDE DEF r, gone
<1>9. r1 \in Seq(Tools) /\ IsInjective(r1) /\ ToSet(r1) = Present(c)' /\ Len(r1) <= MaxCacheSize
  <2>1. /\ Len(Without(r, gone)) <= Len(r) /\ Len(Without(r, gone)) \in Nat
        /\ gone \cap ToSet(r) # {} => Len(Without(r, gone)) < Len(r)
    BY <1>3, Reordered
  <2>2. LET o == Append(Without(r, gone), t) IN
           /\ o \in Seq(Tools) /\ ToSet(o) = (ToSet(r) \ gone) \cup {t}
           /\ IsInjective(o) /\ Len(o) = Len(Without(r, gone)) + 1
    <3>1. t \in Tools \cap gone
      BY DEF gone
    <3> QED  BY <1>3, <3>1, Reordered
  <2>3. Len(Without(r, gone)) + 1 <= MaxCacheSize
    BY <1>3, <1>4, <1>6, <2>1
  <2> QED  BY <1>3, <1>8, <2>2, <2>3
<1> HIDE DEF r1
<1>10. /\ recency' \in [Caches -> Seq(Tools)] /\ recency'[c] = r1
       /\ \A d \in Caches \ {c} : recency'[d] = recency[d]
  BY <1>0, <1>2, <1>9
<1>11. \A d \in Caches \ {c} : Present(d)' = Present(d)
  BY <1>1 DEF Present
<1>12. RecencyInv'
  BY <1>9, <1>10, <1>11 DEF RecencyInv
<1> QED  BY <1>1, <1>10, <1>12

-------------------------------------------------------------------------------
(* Fetches *)

\* The server of the tool reads its schema.
LEMMA ReadKeeps ==
    ASSUME IInv, NEW f \in fetches, ServerReads(f)
    PROVE  IInv'
<1> DEFINE g == [f EXCEPT !.version = current[f.tool]]
<1>0. /\ TypeOK /\ LivesInv /\ ContentsInv /\ EntriesInv /\ RecencyInv /\ FetchesInv /\ TrustInv /\ FileInv
      /\ f.cache \in Caches /\ f.tool \in Tools /\ f \in Fetches
  BY Typed DEF IInv, TypeOK
<1>1. /\ fetches' = (fetches \ {f}) \cup {g}
      /\ UNCHANGED <<now, listed, current, life, cache, recency, waits, saves, writers, disk, lastWriter,
                     mishaps, served, trust>>
  BY DEF ServerReads, memory, file, history
<1>2. /\ g \in Fetches /\ g.cache = f.cache /\ g.tool = f.tool /\ g.by = f.by /\ g.stale = f.stale
      /\ g.version = current[f.tool]
  BY <1>0 DEF Fetches, TypeOK
<1> HIDE DEF g
<1>3. WaitFor(g) = WaitFor(f)
  BY <1>2 DEF WaitFor
<1>4. TypeOK'
  <2>1. {WaitFor(h) : h \in fetches'} = {WaitFor(h) : h \in fetches}
    BY <1>1, <1>3
  <2>2. fetches' \subseteq Fetches
    BY <1>0, <1>1, <1>2 DEF TypeOK
  <2> QED  BY <1>0, <1>1, <2>1, <2>2 DEF TypeOK
<1>5. LivesInv'
  BY <1>0, <1>1, <1>2 DEF LivesInv, Alive
<1>6. ContentsInv' /\ FileInv'
  BY <1>0, <1>1 DEF ContentsInv, SoundContent, Sound, FileInv, Content
<1>7. EntriesInv' /\ RecencyInv'
  BY <1>0, <1>1 DEF EntriesInv, Sound, RecencyInv, Present
<1>8. FetchesInv'
  <2>1. ASSUME NEW h \in fetches', NEW i \in fetches', h.cache = i.cache, h.tool = i.tool PROVE h = i
    BY <1>0, <1>1, <1>2, <2>1 DEF FetchesInv
  <2>2. served[f.cache][f.tool] <= current[f.tool]
    BY <1>0 DEF EntriesInv
  <2>3. current[f.tool] <= current[f.tool]
    BY <1>0, Typed, SchemaCacheAssumption DEF Versions
  <2>4. ASSUME NEW h \in fetches'
        PROVE  /\ h.version # NoVersion => /\ served[h.cache][h.tool] <= h.version
                                           /\ h.version <= current[h.tool]
               /\ h.stale # NoVersion => /\ served[h.cache][h.tool] <= h.stale
                                         /\ h.stale <= current[h.tool]
                                         /\ cache[h.cache][h.tool] # NoEntry =>
                                               h.stale <= cache[h.cache][h.tool].version
    <3>1. CASE h \in fetches
      BY <1>0, <3>1 DEF FetchesInv
    <3>2. CASE h = g
      BY <1>0, <1>2, <2>2, <2>3, <3>2 DEF FetchesInv
    <3> QED  BY <1>1, <3>1, <3>2
  <2> QED  BY <1>1, <2>1, <2>4 DEF FetchesInv
<1>9. TrustInv'
  <2>1. ASSUME NEW c \in Caches, NEW t \in Tools, trust[c][t] = "good", cache[c][t] = NoEntry
        PROVE  \E h \in fetches' : h.cache = c /\ h.tool = t /\ h.by # "prePopulate"
    <3>1. PICK h \in fetches : h.cache = c /\ h.tool = t /\ h.by # "prePopulate"
      BY <1>0, <2>1 DEF TrustInv
    <3>2. CASE h = f
      BY <1>1, <1>2, <3>1, <3>2
    <3>3. CASE h # f
      BY <1>1, <3>1, <3>3
    <3> QED  BY <3>2, <3>3
  <2>2. \A h \in fetches' : h.by # "prePopulate" /\ h.stale = NoVersion => trust[h.cache][h.tool] # "good"
    BY <1>0, <1>1, <1>2 DEF TrustInv
  <2> QED  BY <1>1, <2>1, <2>2 DEF TrustInv
<1> QED  BY <1>4, <1>5, <1>6, <1>7, <1>8, <1>9 DEF IInv

\* A fetch is over, and who waits for it is answered.
LEMMA Settled ==
    ASSUME TypeOK, LivesInv, FetchesInv, NEW f \in fetches, NEW v \in Versions \cup {NoVersion}, Settle(f, v)
    PROVE  /\ fetches' = fetches \ {f}
           /\ waits' \in [Callers -> {WaitFor(g) : g \in fetches'} \cup {NoWait}]
           /\ served' \in [Caches -> [Tools -> Versions \cup {NoVersion}]]
           /\ \A c \in Caches, t \in Tools : \/ served'[c][t] = served[c][t]
                                             \/ /\ c = f.cache /\ t = f.tool
                                                /\ served'[c][t] = v /\ v # NoVersion
           /\ f.cache \in Caches /\ f.tool \in Tools /\ Alive(f.cache)
           /\ \A g \in fetches' : g \in fetches /\ ~(g.cache = f.cache /\ g.tool = f.tool)
<1>1. fetches' = fetches \ {f}
  BY DEF Settle
<1>2. f.cache \in Caches /\ f.tool \in Tools /\ Alive(f.cache)
  BY Typed DEF LivesInv
<1>3. waits' \in [Callers -> {WaitFor(g) : g \in fetches'} \cup {NoWait}]
  <2> SUFFICES ASSUME NEW k \in Callers, waits[k] # WaitFor(f)
               PROVE  waits[k] \in {WaitFor(g) : g \in fetches'} \cup {NoWait}
    BY DEF Settle
  <2>1. waits[k] \in {WaitFor(g) : g \in fetches} \cup {NoWait}
    BY DEF TypeOK
  <2> QED  BY <1>1, <2>1
<1>4. served \in [Caches -> [Tools -> Versions \cup {NoVersion}]]
  BY DEF TypeOK
<1>5. served' = served \/ (served' = [served EXCEPT ![f.cache][f.tool] = v] /\ v # NoVersion)
  BY DEF Settle, Answer
<1>6. /\ served' \in [Caches -> [Tools -> Versions \cup {NoVersion}]]
      /\ \A c \in Caches, t \in Tools : \/ served'[c][t] = served[c][t]
                                        \/ /\ c = f.cache /\ t = f.tool
                                           /\ served'[c][t] = v /\ v # NoVersion
  BY <1>2, <1>4, <1>5
<1>7. \A g \in fetches' : g \in fetches /\ ~(g.cache = f.cache /\ g.tool = f.tool)
  BY <1>1 DEF FetchesInv
<1> QED  BY <1>1, <1>2, <1>3, <1>6, <1>7

\* A fetch that brings nothing, whether the fallback is answered or there is none.
LEMMA MissKeeps ==
    ASSUME IInv, NEW f \in fetches, FetchFindsNothing(f) \/ FetchFails(f)
    PROVE  IInv'
<1>0. /\ TypeOK /\ LivesInv /\ ContentsInv /\ EntriesInv /\ RecencyInv /\ FetchesInv /\ TrustInv /\ FileInv
      /\ f \in Fetches
  BY DEF IInv, TypeOK
<1>1. /\ Missed(f)
      /\ UNCHANGED <<now, listed, current, life, cache, recency, saves, writers, disk, lastWriter, mishaps>>
  BY DEF FetchFindsNothing, FetchFails, memory, file
<1>2. PICK v \in Versions \cup {NoVersion} : Settle(f, v) /\ (v = NoVersion \/ v = f.stale)
  BY <1>0 DEF FetchFindsNothing, FetchFails, Fetches
<1>3. /\ fetches' = fetches \ {f}
      /\ waits' \in [Callers -> {WaitFor(g) : g \in fetches'} \cup {NoWait}]
      /\ served' \in [Caches -> [Tools -> Versions \cup {NoVersion}]]
      /\ \A c \in Caches, t \in Tools : \/ served'[c][t] = served[c][t]
                                        \/ /\ c = f.cache /\ t = f.tool
                                           /\ served'[c][t] = v /\ v # NoVersion
      /\ f.cache \in Caches /\ f.tool \in Tools /\ Alive(f.cache)
      /\ \A g \in fetches' : g \in fetches /\ ~(g.cache = f.cache /\ g.tool = f.tool)
  BY <1>0, <1>2, Settled
<1>4. /\ trust' \in [Caches -> [Tools -> {"unknown", "good", "missed"}]]
      /\ \A c \in Caches, t \in Tools :
            trust'[c][t] = "good" =>
               /\ trust[c][t] = "good"
               /\ ~(c = f.cache /\ t = f.tool /\ f.by # "prePopulate")
  BY <1>0, <1>1, <1>3 DEF TypeOK, Missed
<1>5. TypeOK'
  BY <1>0, <1>1, <1>3, <1>4 DEF TypeOK
<1>6. LivesInv'
  <2>1. \A c \in Caches, t \in Tools : ~Alive(c) => served'[c][t] = NoVersion
    BY <1>0, <1>3 DEF LivesInv
  <2> QED  BY <1>0, <1>1, <1>3, <2>1 DEF LivesInv, Alive
<1>7. ContentsInv' /\ FileInv' /\ RecencyInv'
  BY <1>0, <1>1 DEF ContentsInv, SoundContent, Sound, FileInv, Content, RecencyInv, Present
<1>8. EntriesInv'
  <2>1. ASSUME NEW c \in Caches, NEW t \in Tools
        PROVE  /\ served'[c][t] <= current[t]
               /\ cache[c][t] # NoEntry => served'[c][t] <= cache[c][t].version
    <3>1. CASE served'[c][t] = served[c][t]
      BY <1>0, <3>1 DEF EntriesInv
    <3>2. CASE c = f.cache /\ t = f.tool /\ served'[c][t] = f.stale /\ f.stale # NoVersion
      BY <1>0, <3>2 DEF FetchesInv
    <3> QED  BY <1>2, <1>3, <3>1, <3>2
  <2> QED  BY <1>0, <1>1, <2>1 DEF EntriesInv, Sound
<1>9. FetchesInv'
  <2>1. \A g \in fetches' : served'[g.cache][g.tool] = served[g.cache][g.tool]
    BY <1>0, <1>3, Typed
  <2> QED  BY <1>0, <1>1, <1>3, <2>1 DEF FetchesInv
<1>10. TrustInv'
  <2>1. ASSUME NEW c \in Caches, NEW t \in Tools, trust'[c][t] = "good", cache[c][t] = NoEntry
        PROVE  \E h \in fetches' : h.cache = c /\ h.tool = t /\ h.by # "prePopulate"
    <3>1. PICK h \in fetches : h.cache = c /\ h.tool = t /\ h.by # "prePopulate"
      BY <1>0, <1>4, <2>1 DEF TrustInv
    <3>2. h # f
      BY <1>4, <2>1, <3>1
    <3> QED  BY <1>3, <3>1, <3>2
  <2>2. \A h \in fetches' : h.by # "prePopulate" /\ h.stale = NoVersion => trust'[h.cache][h.tool] # "good"
    <3>1. \A h \in fetches' : h \in fetches /\ h.cache \in Caches /\ h.tool \in Tools
      BY <1>0, <1>3, Typed
    <3> QED  BY <1>0, <1>4, <3>1 DEF TrustInv
  <2> QED  BY <1>1, <2>1, <2>2 DEF TrustInv
<1> QED  BY <1>5, <1>6, <1>7, <1>8, <1>9, <1>10 DEF IInv

\* A fetch that brings a schema, which is put into the cache, and to be saved.
LEMMA FetchKeeps ==
    ASSUME IInv, NEW f \in fetches, FetchSucceeds(f)
    PROVE  IInv'
<1> DEFINE c1 == f.cache
           t1 == f.tool
           e == [version |-> f.version, fetchedAt |-> now, start |-> now, born |-> now]
           gone == Evicted(c1, t1)
<1>0. /\ TypeOK /\ LivesInv /\ ContentsInv /\ EntriesInv /\ RecencyInv /\ FetchesInv /\ TrustInv /\ FileInv
      /\ f \in Fetches /\ now \in Nat
  BY DEF IInv, TypeOK
<1>1. /\ Put(c1, t1, e) /\ Settle(f, f.version) /\ f.version # NoVersion
      /\ saves' = [saves EXCEPT ![c1] = @ + 1]
      /\ trust' = [trust EXCEPT ![c1] = [t \in Tools |-> IF t = t1 THEN "good"
                                                         ELSE IF t \in gone THEN "unknown"
                                                         ELSE @[t]]]
      /\ UNCHANGED <<now, listed, current, life, writers, disk, lastWriter, mishaps>>
  BY DEF FetchSucceeds, SavesWanted
<1>2. f.version \in Versions \cup {NoVersion} /\ f.version \in Versions /\ e \in Entries
  BY <1>0, <1>1 DEF Fetches, Entries
<1>3. /\ fetches' = fetches \ {f}
      /\ waits' \in [Callers -> {WaitFor(g) : g \in fetches'} \cup {NoWait}]
      /\ served' \in [Caches -> [Tools -> Versions \cup {NoVersion}]]
      /\ \A c \in Caches, t \in Tools : \/ served'[c][t] = served[c][t]
                                        \/ /\ c = c1 /\ t = t1
                                           /\ served'[c][t] = f.version /\ f.version # NoVersion
      /\ c1 \in Caches /\ t1 \in Tools /\ Alive(c1)
      /\ \A g \in fetches' : g \in fetches /\ ~(g.cache = c1 /\ g.tool = t1)
  BY <1>0, <1>1, <1>2, Settled
<1>e. e.version = f.version /\ e.fetchedAt = now /\ e.start = now /\ e.born = now /\ e # NoEntry
  BY <1>1 DEF NoEntry
<1> HIDE DEF e, c1, t1, gone
<1>4. /\ RecencyInv'
      /\ cache' \in [Caches -> [Tools -> Entries \cup {NoEntry}]]
      /\ recency' \in [Caches -> Seq(Tools)]
      /\ \A d \in Caches, u \in Tools :
            cache'[d][u] = IF d # c1 THEN cache[d][u]
                           ELSE IF u = t1 THEN e
                           ELSE IF u \in gone THEN NoEntry ELSE cache[d][u]
  BY <1>0, <1>1, <1>2, <1>3, PutIn DEF gone
<1>5. /\ trust' \in [Caches -> [Tools -> {"unknown", "good", "missed"}]]
      /\ \A d \in Caches, u \in Tools :
            trust'[d][u] = IF d # c1 THEN trust[d][u]
                           ELSE IF u = t1 THEN "good"
                           ELSE IF u \in gone THEN "unknown" ELSE trust[d][u]
  <2>1. trust \in [Caches -> [Tools -> {"unknown", "good", "missed"}]]
    BY <1>0 DEF TypeOK
  <2> DEFINE put == [t \in Tools |-> IF t = t1 THEN "good"
                                     ELSE IF t \in gone THEN "unknown" ELSE trust[c1][t]]
  <2>2. trust' = [trust EXCEPT ![c1] = put]
    BY <1>1, <1>3, <2>1
  <2>3. put \in [Tools -> {"unknown", "good", "missed"}]
    BY <1>3, <2>1
  <2>4. \A t \in Tools : put[t] = IF t = t1 THEN "good"
                                  ELSE IF t \in gone THEN "unknown" ELSE trust[c1][t]
    OBVIOUS
  <2> HIDE DEF put
  <2> QED  BY <1>3, <2>1, <2>2, <2>3, <2>4
<1>6. /\ saves' \in [Caches -> Nat] /\ saves'[c1] # 0
      /\ \A d \in Caches : saves'[d] >= saves[d] /\ (d # c1 => saves'[d] = saves[d])
  <2> DEFINE n == saves[c1] + 1
  <2>1. saves \in [Caches -> Nat]
    BY <1>0 DEF TypeOK
  <2>2. n \in Nat /\ n # 0 /\ n >= saves[c1] /\ saves' = [saves EXCEPT ![c1] = n]
    BY <1>1, <1>3, <2>1
  <2> HIDE DEF n
  <2> QED  BY <1>3, <2>1, <2>2
<1>7. TypeOK'
  BY <1>0, <1>1, <1>3, <1>4, <1>5, <1>6 DEF TypeOK
<1>8. LivesInv'
  <2>1. \A c \in Caches, t \in Tools : ~Alive(c) => served'[c][t] = NoVersion
    BY <1>0, <1>3 DEF LivesInv
  <2>2. \A c \in Caches : ~Alive(c) => c # c1
    BY <1>3
  <2>3. \A c \in Caches : ~Alive(c) => saves'[c] = 0
    BY <1>0, <1>6, <2>2 DEF LivesInv
  <2>4. \A c \in Caches, t \in Tools : ~Alive(c) => cache'[c][t] = NoEntry
    BY <1>0, <1>4, <2>2 DEF LivesInv
  <2> QED  BY <1>0, <1>1, <1>3, <2>1, <2>3, <2>4 DEF LivesInv, Alive
<1>9. ContentsInv'
  BY <1>0, <1>1 DEF ContentsInv, SoundContent, Sound
<1>10. served[c1][t1] <= f.version /\ f.version <= current[t1]
  BY <1>0, <1>1 DEF FetchesInv, c1, t1
<1>11. EntriesInv'
  <2>1. ASSUME NEW c \in Caches, NEW t \in Tools, ~(c = c1 /\ t = t1)
        PROVE  /\ served'[c][t] <= current[t]
               /\ cache'[c][t] # NoEntry => /\ Sound(t, cache'[c][t])
                                            /\ cache'[c][t].fetchedAt <= cache'[c][t].start
                                            /\ served'[c][t] <= cache'[c][t].version
    <3>1. served'[c][t] = served[c][t] /\ (cache'[c][t] = NoEntry \/ cache'[c][t] = cache[c][t])
      BY <1>3, <1>4, <2>1
    <3> QED  BY <1>0, <3>1 DEF EntriesInv
  <2>2. /\ served'[c1][t1] <= current[t1]
        /\ cache'[c1][t1] = e /\ Sound(t1, e) /\ e.fetchedAt <= e.start /\ served'[c1][t1] <= e.version
    <3>1. f.version \in Nat
      BY <1>0, Typed
    <3>2. served'[c1][t1] <= f.version /\ served'[c1][t1] <= current[t1]
      BY <1>0, <1>3, <1>10, <3>1 DEF EntriesInv
    <3>3. cache'[c1][t1] = e
      BY <1>3, <1>4
    <3>4. Sound(t1, e) /\ e.fetchedAt <= e.start
      BY <1>0, <1>10, <1>e DEF Sound
    <3> QED  BY <1>e, <3>2, <3>3, <3>4
  <2>3. UNCHANGED <<now, current>>
    BY <1>1
  <2> QED  BY <2>1, <2>2, <2>3 DEF EntriesInv, Sound
<1>12. FetchesInv'
  <2>1. ASSUME NEW g \in fetches'
        PROVE  /\ g \in fetches /\ served'[g.cache][g.tool] = served[g.cache][g.tool]
               /\ cache'[g.cache][g.tool] \in {NoEntry, cache[g.cache][g.tool]}
    <3>1. g \in fetches /\ g.cache \in Caches /\ g.tool \in Tools /\ ~(g.cache = c1 /\ g.tool = t1)
      BY <1>0, <1>3, Typed
    <3>2. served'[g.cache][g.tool] = served[g.cache][g.tool]
      BY <1>3, <3>1
    <3>3. cache'[g.cache][g.tool] \in {NoEntry, cache[g.cache][g.tool]}
      BY <1>4, <3>1
    <3> QED  BY <3>1, <3>2, <3>3
  <2> QED  BY <1>0, <1>1, <2>1 DEF FetchesInv
<1>13. TrustInv'
  <2>1. ASSUME NEW c \in Caches, NEW t \in Tools, trust'[c][t] = "good", cache'[c][t] = NoEntry
        PROVE  \E h \in fetches' : h.cache = c /\ h.tool = t /\ h.by # "prePopulate"
    <3>1. ~(c = c1 /\ t = t1)
      BY <1>4, <1>e, <2>1
    <3>2. trust[c][t] = "good" /\ cache[c][t] = NoEntry
      BY <1>4, <1>5, <2>1, <3>1
    <3>3. PICK h \in fetches : h.cache = c /\ h.tool = t /\ h.by # "prePopulate"
      BY <1>0, <3>2 DEF TrustInv
    <3>4. h # f
      BY <3>1, <3>3 DEF c1, t1
    <3> QED  BY <1>3, <3>3, <3>4
  <2>2. ASSUME NEW h \in fetches', h.by # "prePopulate", h.stale = NoVersion
        PROVE  trust'[h.cache][h.tool] # "good"
    <3>1. h \in fetches /\ h.cache \in Caches /\ h.tool \in Tools /\ ~(h.cache = c1 /\ h.tool = t1)
      BY <1>0, <1>3, Typed
    <3>2. trust[h.cache][h.tool] # "good"
      BY <1>0, <2>2, <3>1 DEF TrustInv
    <3> QED  BY <1>5, <3>1, <3>2
  <2> QED  BY <2>1, <2>2 DEF TrustInv
<1>14. FileInv'
  <2>1. \A c \in Caches : saves'[c] = 0 => Content(c)' \subseteq Content(c)
    <3> SUFFICES ASSUME NEW c \in Caches, c # c1 PROVE Content(c)' \subseteq Content(c)
      BY <1>6
    <3>1. \A t \in Tools : cache'[c][t] = cache[c][t]
      BY <1>4
    <3> QED  BY <3>1 DEF Content
  <2> QED  BY <1>0, <1>1, <1>6, <2>1, FileStays
<1> QED  BY <1>4, <1>7, <1>8, <1>9, <1>11, <1>12, <1>13, <1>14 DEF IInv

-------------------------------------------------------------------------------
(* Callers look up *)

\* What get() leaves of an entry is the same schema, looked up now.
LEMMA GotEntry ==
    ASSUME NEW e \in Entries \cup {NoEntry}, now \in Nat
    PROVE  /\ Got(e) \in Entries \cup {NoEntry}
           /\ Got(e) # NoEntry => /\ e \in Entries /\ e # NoEntry /\ Got(e).start = now
                                  /\ Got(e).version = e.version
                                  /\ Got(e).fetchedAt = e.fetchedAt /\ Got(e).born = e.born
           /\ e # NoEntry /\ ~TooOld(e) => Got(e) # NoEntry
<1>1. CASE e = NoEntry \/ TooOld(e)
  BY <1>1 DEF Got
<1>2. CASE e # NoEntry /\ ~TooOld(e)
  <2>1. e \in Entries /\ Got(e) = [e EXCEPT !.start = now]
    BY <1>2 DEF Got
  <2>2. Got(e) \in Entries
    BY <2>1 DEF Entries
  <2>3. /\ Got(e).start = now /\ Got(e).version = e.version
        /\ Got(e).fetchedAt = e.fetchedAt /\ Got(e).born = e.born
    BY <2>1 DEF Entries
  <2> QED  BY <1>2, <2>1, <2>2, <2>3, EntryTyped
<1> QED  BY <1>1, <1>2

\* An entry that is looked up stays what it was, if it stays.
LEMMA LookKeeps ==
    ASSUME IInv, NEW c \in Caches, NEW t \in Tools, UNCHANGED <<now, current, served>>,
           \A d \in Caches, u \in Tools :
              cache'[d][u] = IF d = c /\ u = t THEN Got(cache[c][t]) ELSE cache[d][u]
    PROVE  /\ EntriesInv'
           /\ \A d \in Caches : Content(d)' \subseteq Content(d)
           /\ \A d \in Caches, u \in Tools : cache'[d][u] # NoEntry =>
                 cache[d][u] # NoEntry /\ cache'[d][u].version = cache[d][u].version
<1>0. /\ TypeOK /\ EntriesInv /\ now \in Nat /\ cache[c][t] \in Entries \cup {NoEntry}
  BY Typed DEF IInv
<1> DEFINE e == cache[c][t]
           g == Got(e)
<1>1. g # NoEntry => /\ e \in Entries /\ e # NoEntry /\ g.start = now /\ g.version = e.version
                     /\ g.fetchedAt = e.fetchedAt /\ g.born = e.born
  BY <1>0, GotEntry
<1>2. /\ cache'[c][t] = g
      /\ \A d \in Caches, u \in Tools : ~(d = c /\ u = t) => cache'[d][u] = cache[d][u]
  OBVIOUS
<1> HIDE DEF g
<1>3. \A d \in Caches, u \in Tools : cache'[d][u] # NoEntry =>
         /\ cache[d][u] # NoEntry
         /\ cache'[d][u].version = cache[d][u].version
         /\ cache'[d][u].fetchedAt = cache[d][u].fetchedAt
         /\ cache'[d][u].born = cache[d][u].born
         /\ cache'[d][u].start = cache[d][u].start \/ cache'[d][u].start = now
  BY <1>1, <1>2
<1>4. \A d \in Caches : Content(d)' \subseteq Content(d)
  BY <1>3, FewerContent DEF Fewer
<1>5. EntriesInv'
  <2> SUFFICES ASSUME NEW d \in Caches, NEW u \in Tools, cache'[d][u] # NoEntry
               PROVE  /\ Sound(u, cache'[d][u])
                      /\ cache'[d][u].fetchedAt <= cache'[d][u].start
                      /\ served[d][u] <= cache'[d][u].version
    BY <1>0 DEF EntriesInv, Sound
  <2>1. /\ Sound(u, cache[d][u]) /\ cache[d][u].fetchedAt <= cache[d][u].start
        /\ served[d][u] <= cache[d][u].version
    BY <1>0, <1>3 DEF EntriesInv
  <2> QED  BY <1>3, <2>1 DEF Sound
<1> QED  BY <1>3, <1>4, <1>5

\* A fresh entry is answered.
LEMMA HitKeeps ==
    ASSUME IInv, NEW k \in Callers, NEW c \in Caches, NEW t \in Tools, Hit(k, c, t)
    PROVE  IInv'
<1> DEFINE e == cache[c][t]
<1>0. /\ TypeOK /\ LivesInv /\ ContentsInv /\ EntriesInv /\ RecencyInv /\ FetchesInv /\ TrustInv /\ FileInv
      /\ now \in Nat /\ Ttl \in Nat /\ e \in Entries \cup {NoEntry}
  BY Typed DEF IInv
<1>1. /\ life[c] = "serving" /\ Pending(c, t) = {} /\ IsFresh(e)
      /\ cache' = [cache EXCEPT ![c][t] = Got(@)] /\ Move(c, t, cache'[c][t] # NoEntry)
      /\ Answer(c, t, e.version)
      /\ UNCHANGED <<now, listed, current, life, fetches, waits, saves, writers, disk, lastWriter, mishaps,
                     trust>>
  BY DEF Hit, Calls, file
<1>2. /\ RecencyInv'
      /\ cache' \in [Caches -> [Tools -> Entries \cup {NoEntry}]]
      /\ recency' \in [Caches -> Seq(Tools)]
      /\ \A d \in Caches, u \in Tools :
            cache'[d][u] = IF d = c /\ u = t THEN Got(e) ELSE cache[d][u]
  BY <1>0, <1>1, LookedUp
<1>3. e # NoEntry /\ e \in Entries /\ e.version \in Nat \ {0} /\ e.version \in Versions
  BY <1>0, <1>1, EntryTyped DEF IsFresh
<1>4. Got(e) # NoEntry /\ Got(e).version = e.version
  <2>1. e.fetchedAt \in Nat /\ e.start \in Nat /\ e.fetchedAt <= e.start /\ now < e.fetchedAt + Ttl
    BY <1>0, <1>1, <1>3, EntryTyped DEF EntriesInv, IsFresh
  <2>2. ~TooOld(e)
    BY <1>0, <2>1 DEF TooOld
  <2> QED  BY <1>0, <1>3, <2>2, GotEntry
<1>5. /\ served' \in [Caches -> [Tools -> Versions \cup {NoVersion}]]
      /\ \A d \in Caches, u \in Tools :
            served'[d][u] = IF d = c /\ u = t THEN e.version ELSE served[d][u]
  <2>1. served \in [Caches -> [Tools -> Versions \cup {NoVersion}]]
    BY <1>0 DEF TypeOK
  <2> DEFINE v == e.version
  <2>2. served' = [served EXCEPT ![c][t] = v] /\ v \in Versions
    BY <1>1, <1>3 DEF Answer, NoVersion
  <2> HIDE DEF v
  <2>3. /\ served' \in [Caches -> [Tools -> Versions \cup {NoVersion}]]
        /\ \A d \in Caches, u \in Tools :
              served'[d][u] = IF d = c /\ u = t THEN v ELSE served[d][u]
    BY <2>1, <2>2
  <2> QED  BY <2>3 DEF v
<1> DEFINE g == Got(e)
<1> HIDE DEF g
<1>6. \A d \in Caches, u \in Tools : cache'[d][u] = IF d = c /\ u = t THEN g ELSE cache[d][u]
  BY <1>2 DEF g
<1>7. /\ g # NoEntry /\ g.version = e.version /\ g.start = now
      /\ g.fetchedAt = e.fetchedAt /\ g.born = e.born
  BY <1>0, <1>4, GotEntry DEF g
<1>8. TypeOK'
  BY <1>0, <1>1, <1>2, <1>5 DEF TypeOK
<1>9. Alive(c)
  BY <1>1 DEF Alive
<1>10. LivesInv'
  BY <1>0, <1>1, <1>5, <1>6, <1>9 DEF LivesInv, Alive
<1>11. ContentsInv'
  BY <1>0, <1>1 DEF ContentsInv, SoundContent, Sound
<1>12. EntriesInv'
  <2> SUFFICES ASSUME NEW d \in Caches, NEW u \in Tools
               PROVE  /\ served'[d][u] <= current[u]
                      /\ cache'[d][u] # NoEntry => /\ Sound(u, cache'[d][u])
                                                   /\ cache'[d][u].fetchedAt <= cache'[d][u].start
                                                   /\ served'[d][u] <= cache'[d][u].version
    BY <1>1 DEF EntriesInv, Sound
  <2>1. CASE d = c /\ u = t
    <3>1. Sound(t, e) /\ e.fetchedAt <= now /\ e.version <= current[t]
      BY <1>0, <1>3 DEF EntriesInv, Sound
    <3>2. Sound(t, g) /\ g.fetchedAt <= g.start /\ e.version <= g.version
      BY <1>3, <1>7, <3>1 DEF Sound
    <3> QED  BY <1>5, <1>6, <2>1, <3>1, <3>2
  <2>2. CASE ~(d = c /\ u = t)
    <3>1. served'[d][u] = served[d][u] /\ cache'[d][u] = cache[d][u]
      BY <1>5, <1>6, <2>2
    <3> QED  BY <1>0, <3>1 DEF EntriesInv
  <2> QED  BY <2>1, <2>2
<1>13. \A f \in fetches : f.cache \in Caches /\ f.tool \in Tools /\ ~(f.cache = c /\ f.tool = t)
  BY <1>0, <1>1, Typed DEF Pending
<1>14. FetchesInv'
  <2>1. \A f \in fetches : /\ served'[f.cache][f.tool] = served[f.cache][f.tool]
                           /\ cache'[f.cache][f.tool] = cache[f.cache][f.tool]
    BY <1>5, <1>6, <1>13
  <2> QED  BY <1>0, <1>1, <2>1 DEF FetchesInv
<1>15. TrustInv'
  <2>1. \A d \in Caches, u \in Tools : cache'[d][u] = NoEntry => cache[d][u] = NoEntry
    BY <1>6, <1>7
  <2> QED  BY <1>0, <1>1, <2>1 DEF TrustInv
<1>16. FileInv'
  <2>1. \A d \in Caches : Content(d)' \subseteq Content(d)
    <3> SUFFICES ASSUME NEW d \in Caches PROVE Fewer(d)
      BY FewerContent
    <3> QED  BY <1>3, <1>6, <1>7 DEF Fewer
  <2>2. \A d \in Caches : saves'[d] >= saves[d] /\ saves'[d] \in Nat
    BY <1>0, <1>1, Typed
  <2> QED  BY <1>0, <1>1, <2>1, <2>2, FileStays
<1> QED  BY <1>2, <1>8, <1>10, <1>11, <1>12, <1>14, <1>15, <1>16 DEF IInv

\* A caller begins a fetch, which falls back on what it found.
LEMMA StartKeeps ==
    ASSUME IInv, NEW k \in Callers, NEW c \in Caches, NEW t \in Tools, StartFetch(k, c, t)
    PROVE  IInv'
<1> DEFINE e == cache[c][t]
           f == NewFetch(c, t, k, e.version)
<1>0. /\ TypeOK /\ LivesInv /\ ContentsInv /\ EntriesInv /\ RecencyInv /\ FetchesInv /\ TrustInv /\ FileInv
      /\ now \in Nat /\ e \in Entries \cup {NoEntry}
  BY Typed DEF IInv
<1>1. /\ life[c] = "serving" /\ Pending(c, t) = {}
      /\ cache' = [cache EXCEPT ![c][t] = Got(@)] /\ Move(c, t, cache'[c][t] # NoEntry)
      /\ fetches' = fetches \cup {f} /\ waits' = [waits EXCEPT ![k] = WaitFor(f)]
      /\ UNCHANGED <<now, listed, current, life, saves, writers, disk, lastWriter, mishaps, served, trust>>
  BY DEF StartFetch, Calls, file, history
<1>2. /\ RecencyInv'
      /\ cache' \in [Caches -> [Tools -> Entries \cup {NoEntry}]]
      /\ recency' \in [Caches -> Seq(Tools)]
      /\ \A d \in Caches, u \in Tools :
            cache'[d][u] = IF d = c /\ u = t THEN Got(e) ELSE cache[d][u]
  BY <1>0, <1>1, LookedUp
<1>3. /\ EntriesInv'
      /\ \A d \in Caches : Content(d)' \subseteq Content(d)
      /\ \A d \in Caches, u \in Tools : cache'[d][u] # NoEntry =>
            cache[d][u] # NoEntry /\ cache'[d][u].version = cache[d][u].version
  <2>1. UNCHANGED <<now, current, served>>
    BY <1>1
  <2>2. \A d \in Caches, u \in Tools :
           cache'[d][u] = IF d = c /\ u = t THEN Got(cache[c][t]) ELSE cache[d][u]
    BY <1>2
  <2> HIDE DEF e
  <2> QED  BY <2>1, <2>2, LookKeeps
<1>4. e.version \in Versions \cup {NoVersion} /\ (e.version = NoVersion => e = NoEntry)
  BY <1>0, EntryTyped DEF NoEntry, NoVersion
<1>5. /\ f \in Fetches /\ f.cache = c /\ f.tool = t /\ f.by = k /\ f.by # "prePopulate"
      /\ f.version = NoVersion /\ f.stale = e.version
  BY <1>4, SchemaCacheAssumption DEF NewFetch, Fetches, Owners
<1>6. Alive(c) /\ \A g \in fetches : ~(g.cache = c /\ g.tool = t) /\ g.cache \in Caches /\ g.tool \in Tools
  BY <1>0, <1>1, Typed DEF Alive, Pending
<1> HIDE DEF f
<1>7. TypeOK'
  <2>1. fetches' \subseteq Fetches
    BY <1>0, <1>1, <1>5 DEF TypeOK
  <2>2. waits' \in [Callers -> {WaitFor(g) : g \in fetches'} \cup {NoWait}]
    <3>1. waits \in [Callers -> {WaitFor(g) : g \in fetches} \cup {NoWait}]
      BY <1>0 DEF TypeOK
    <3>2. waits \in [Callers -> {WaitFor(g) : g \in fetches'} \cup {NoWait}]
      BY <1>1, <3>1
    <3> QED  BY <1>1, <3>2
  <2> QED  BY <1>0, <1>1, <1>2, <2>1, <2>2 DEF TypeOK
<1>8. LivesInv'
  <2>1. \A d \in Caches, u \in Tools : ~Alive(d) => cache'[d][u] = NoEntry
    BY <1>0, <1>3 DEF LivesInv
  <2> QED  BY <1>0, <1>1, <1>5, <1>6, <2>1 DEF LivesInv, Alive
<1>9. ContentsInv'
  BY <1>0, <1>1 DEF ContentsInv, SoundContent, Sound
<1>10. FetchesInv'
  <2>1. \A g \in fetches', h \in fetches' : g.cache = h.cache /\ g.tool = h.tool => g = h
    BY <1>0, <1>1, <1>5, <1>6 DEF FetchesInv
  <2>2. ASSUME NEW g \in fetches
        PROVE  /\ g.version # NoVersion => /\ served[g.cache][g.tool] <= g.version
                                           /\ g.version <= current[g.tool]
               /\ g.stale # NoVersion => /\ served[g.cache][g.tool] <= g.stale
                                         /\ g.stale <= current[g.tool]
                                         /\ cache'[g.cache][g.tool] # NoEntry =>
                                               g.stale <= cache'[g.cache][g.tool].version
    <3>1. cache'[g.cache][g.tool] = cache[g.cache][g.tool]
      BY <1>2, <1>6
    <3> QED  BY <1>0, <3>1 DEF FetchesInv
  <2>3. f.stale # NoVersion => /\ served[c][t] <= f.stale /\ f.stale <= current[t]
                               /\ cache'[c][t] # NoEntry => f.stale <= cache'[c][t].version
    <3> SUFFICES ASSUME e.version # NoVersion
                 PROVE  /\ served[c][t] <= e.version /\ e.version <= current[t]
                        /\ cache'[c][t] # NoEntry => e.version <= cache'[c][t].version
      BY <1>5
    <3>1. e # NoEntry /\ e.version \in Nat
      BY <1>0, EntryTyped DEF NoEntry
    <3>2. served[c][t] <= e.version /\ e.version <= current[t]
      BY <1>0, <3>1 DEF EntriesInv, Sound
    <3>3. cache'[c][t] # NoEntry => cache'[c][t].version = e.version
      BY <1>3
    <3> QED  BY <3>1, <3>2, <3>3
  <2> QED  BY <1>1, <1>5, <2>1, <2>2, <2>3 DEF FetchesInv
<1>11. TrustInv'
  <2>1. ASSUME NEW d \in Caches, NEW u \in Tools, trust[d][u] = "good", cache'[d][u] = NoEntry
        PROVE  \E g \in fetches' : g.cache = d /\ g.tool = u /\ g.by # "prePopulate"
    <3>1. CASE d = c /\ u = t
      BY <1>1, <1>5, <3>1
    <3>2. CASE ~(d = c /\ u = t)
      BY <1>0, <1>1, <1>2, <2>1, <3>2 DEF TrustInv
    <3> QED  BY <3>1, <3>2
  <2>2. ASSUME f.stale = NoVersion PROVE trust[c][t] # "good"
    <3>1. e = NoEntry
      BY <1>4, <1>5, <2>2
    <3> QED  BY <1>0, <1>6, <3>1 DEF TrustInv
  <2>3. \A g \in fetches' : g.by # "prePopulate" /\ g.stale = NoVersion => trust[g.cache][g.tool] # "good"
    BY <1>0, <1>1, <1>5, <2>2 DEF TrustInv
  <2> QED  BY <1>1, <2>1, <2>3 DEF TrustInv
<1>12. FileInv'
  <2>1. \A d \in Caches : saves'[d] >= saves[d] /\ saves'[d] \in Nat
    BY <1>0, <1>1, Typed
  <2> QED  BY <1>0, <1>1, <1>3, <2>1, FileStays
<1> QED  BY <1>2, <1>3, <1>7, <1>8, <1>9, <1>10, <1>11, <1>12 DEF IInv

-------------------------------------------------------------------------------
(* Entries go *)

\* Entries are dropped, by their names or by their age.
LEMMA DropKeeps ==
    ASSUME IInv, NEW c \in Caches, Alive(c), NEW dropped, Drop(c, dropped),
           saves' = saves \/ saves' = SavesWanted(c),
           UNCHANGED <<now, listed, current, life, fetches, waits, writers, disk, served, lastWriter, mishaps>>
    PROVE  IInv'
<1>0. /\ TypeOK /\ LivesInv /\ ContentsInv /\ EntriesInv /\ RecencyInv /\ FetchesInv /\ TrustInv /\ FileInv
      /\ cache \in [Caches -> [Tools -> Entries \cup {NoEntry}]]
      /\ recency \in [Caches -> Seq(Tools)] /\ saves \in [Caches -> Nat]
      /\ trust \in [Caches -> [Tools -> {"unknown", "good", "missed"}]]
  BY DEF IInv, TypeOK
<1>1. /\ cache' \in [Caches -> [Tools -> Entries \cup {NoEntry}]]
      /\ \A d \in Caches, u \in Tools :
            cache'[d][u] = IF d = c /\ u \in dropped THEN NoEntry ELSE cache[d][u]
  <2> DEFINE left == [t \in Tools |-> IF t \in dropped THEN NoEntry ELSE cache[c][t]]
  <2>1. cache' = [cache EXCEPT ![c] = left]
    BY <1>0 DEF Drop
  <2>2. left \in [Tools -> Entries \cup {NoEntry}]
    BY <1>0
  <2>3. \A t \in Tools : left[t] = IF t \in dropped THEN NoEntry ELSE cache[c][t]
    OBVIOUS
  <2> HIDE DEF left
  <2> QED  BY <1>0, <2>1, <2>2, <2>3
<1>2. /\ trust' \in [Caches -> [Tools -> {"unknown", "good", "missed"}]]
      /\ \A d \in Caches, u \in Tools :
            trust'[d][u] = IF d = c /\ u \in dropped THEN "unknown" ELSE trust[d][u]
  <2> DEFINE left == [t \in Tools |-> IF t \in dropped THEN "unknown" ELSE trust[c][t]]
  <2>1. trust' = [trust EXCEPT ![c] = left]
    BY <1>0 DEF Drop
  <2>2. left \in [Tools -> {"unknown", "good", "missed"}]
    BY <1>0
  <2>3. \A t \in Tools : left[t] = IF t \in dropped THEN "unknown" ELSE trust[c][t]
    OBVIOUS
  <2> HIDE DEF left
  <2> QED  BY <1>0, <2>1, <2>2, <2>3
<1>3. /\ recency' \in [Caches -> Seq(Tools)] /\ RecencyInv'
  <2> DEFINE r == Without(recency[c], dropped)
  <2>1. /\ recency[c] \in Seq(Tools) /\ IsInjective(recency[c]) /\ ToSet(recency[c]) = Present(c)
        /\ Len(recency[c]) <= MaxCacheSize
    BY <1>0 DEF RecencyInv
  <2>2. /\ r \in Seq(Tools) /\ ToSet(r) = ToSet(recency[c]) \ dropped
        /\ IsInjective(r) /\ Len(r) <= Len(recency[c])
        /\ Len(r) \in Nat /\ Len(recency[c]) \in Nat
    BY <2>1, Reordered
  <2>3. recency' = [recency EXCEPT ![c] = r]
    BY <1>0 DEF Drop
  <2> HIDE DEF r
  <2>4. /\ recency' \in [Caches -> Seq(Tools)] /\ recency'[c] = r
        /\ \A d \in Caches \ {c} : recency'[d] = recency[d]
    BY <1>0, <2>2, <2>3
  <2>5. Present(c)' = Present(c) \ dropped
    BY <1>1 DEF Present
  <2>6. \A d \in Caches \ {c} : Present(d)' = Present(d)
    BY <1>1 DEF Present
  <2>7. Len(r) <= MaxCacheSize
    BY <2>1, <2>2, SchemaCacheAssumption
  <2> QED  BY <1>0, <2>1, <2>2, <2>4, <2>5, <2>6, <2>7 DEF RecencyInv
<1>4. saves' \in [Caches -> Nat] /\ \A d \in Caches : saves'[d] >= saves[d] /\ (d # c => saves'[d] = saves[d])
  <2>1. CASE saves' = saves
    BY <1>0, <2>1
  <2>2. CASE saves' = SavesWanted(c)
    <3> DEFINE n == saves[c] + 1
    <3>1. n \in Nat /\ n >= saves[c] /\ saves' = [saves EXCEPT ![c] = n]
      BY <1>0, <2>2 DEF SavesWanted
    <3> HIDE DEF n
    <3> QED  BY <1>0, <3>1
  <2> QED  BY <2>1, <2>2
<1>5. TypeOK'
  BY <1>0, <1>1, <1>2, <1>3, <1>4 DEF TypeOK
<1>6. LivesInv'
  <2>1. \A d \in Caches : ~Alive(d) => d # c
    OBVIOUS
  <2>2. \A d \in Caches : ~Alive(d) => saves'[d] = 0
    BY <1>0, <1>4, <2>1 DEF LivesInv
  <2>3. \A d \in Caches, u \in Tools : ~Alive(d) => cache'[d][u] = NoEntry
    BY <1>0, <1>1, <2>1 DEF LivesInv
  <2> QED  BY <1>0, <2>2, <2>3 DEF LivesInv, Alive
<1>7. ContentsInv'
  BY <1>0 DEF ContentsInv, SoundContent, Sound
<1>8. \A d \in Caches, u \in Tools : cache'[d][u] # NoEntry => cache'[d][u] = cache[d][u]
  BY <1>1
<1>9. EntriesInv'
  BY <1>0, <1>8 DEF EntriesInv, Sound
<1>10. FetchesInv'
  <2>1. \A f \in fetches : cache'[f.cache][f.tool] # NoEntry =>
                              cache'[f.cache][f.tool] = cache[f.cache][f.tool]
    BY <1>0, <1>8, Typed
  <2> QED  BY <1>0, <2>1 DEF FetchesInv
<1>11. TrustInv'
  <2>1. ASSUME NEW d \in Caches, NEW u \in Tools, trust'[d][u] = "good", cache'[d][u] = NoEntry
        PROVE  \E f \in fetches : f.cache = d /\ f.tool = u /\ f.by # "prePopulate"
    <3>1. trust[d][u] = "good" /\ cache[d][u] = NoEntry
      BY <1>1, <1>2, <2>1
    <3> QED  BY <1>0, <3>1 DEF TrustInv
  <2>2. ASSUME NEW f \in fetches, f.by # "prePopulate", f.stale = NoVersion
        PROVE  trust'[f.cache][f.tool] # "good"
    <3>1. f.cache \in Caches /\ f.tool \in Tools
      BY <1>0, Typed
    <3>2. trust[f.cache][f.tool] # "good"
      BY <1>0, <2>2 DEF TrustInv
    <3> QED  BY <1>2, <3>1, <3>2
  <2> QED  BY <2>1, <2>2 DEF TrustInv
<1>12. FileInv'
  <2>1. \A d \in Caches : Content(d)' \subseteq Content(d)
    <3> SUFFICES ASSUME NEW d \in Caches PROVE Fewer(d)
      BY FewerContent
    <3> QED  BY <1>8 DEF Fewer
  <2>2. \A d \in Caches : saves'[d] >= saves[d] /\ saves'[d] \in Nat
    BY <1>4
  <2> QED  BY <1>0, <2>1, <2>2, FileStays
<1> QED  BY <1>3, <1>5, <1>6, <1>7, <1>9, <1>10, <1>11, <1>12 DEF IInv

\* invalidate() and cleanup() drop entries.
LEMMA DropsKeep ==
    ASSUME IInv, NEW c \in Caches, (\E dropped : Invalidate(c, dropped)) \/ Cleanup(c)
    PROVE  IInv'
<1>1. Alive(c)
  BY DEF Invalidate, Cleanup, Alive
<1>2. ASSUME NEW dropped, Invalidate(c, dropped) PROVE IInv'
  <2>1. /\ Drop(c, dropped) /\ saves' = SavesWanted(c)
        /\ UNCHANGED <<now, listed, current, life, fetches, waits, writers, disk, served, lastWriter, mishaps>>
    BY <1>2 DEF Invalidate
  <2> QED  BY <1>1, <2>1, DropKeeps
<1>3. CASE Cleanup(c)
  <2> DEFINE dropped == {t \in Tools : cache[c][t] # NoEntry /\ now >= cache[c][t].fetchedAt + Ttl}
  <2>1. /\ Drop(c, dropped) /\ saves' = saves
        /\ UNCHANGED <<now, listed, current, life, fetches, waits, writers, disk, served, lastWriter, mishaps>>
    BY <1>3 DEF Cleanup, file
  <2> HIDE DEF dropped
  <2> QED  BY <1>1, <2>1, DropKeeps
<1> QED  BY <1>2, <1>3

\* What becomes of the file when writes do not end.
LEMMA AbortLeaves ==
    ASSUME IInv, NEW ws \in SUBSET writers, Abort(ws)
    PROVE  /\ writers' = writers \ ws
           /\ mishaps' \subseteq {"overlap", "mixed", "failure"}
           /\ disk' \in [status : {"absent", "whole", "torn"}, content : Contents]
           /\ disk'.content \in {w.content : w \in ws} \cup {disk.content, {}}
           /\ disk'.status = "torn" => writers' # {} \/ mishaps' # {}
           /\ mishaps' = {} => ws = {} /\ mishaps = {} /\ disk' = disk
<1>0. /\ TypeOK /\ FileInv /\ mishaps \subseteq {"overlap", "mixed", "failure"}
      /\ disk \in [status : {"absent", "whole", "torn"}, content : Contents]
  BY DEF IInv, TypeOK, Contents
<1>1. writers' = writers \ ws
  BY DEF Abort
<1>2. mishaps' \subseteq {"overlap", "mixed", "failure"}
  BY <1>0 DEF Abort
<1>3. CASE ws = {}
  <2>1. disk' = disk /\ mishaps' = mishaps /\ writers' = writers
    BY <1>3 DEF Abort
  <2>2. disk.status = "torn" => writers # {} \/ mishaps # {}
    BY <1>0 DEF FileInv
  <2> QED  BY <1>0, <1>2, <1>3, <2>1, <2>2
<1>4. CASE ws # {} /\ writers' # {}
  <2>1. disk' = disk /\ "failure" \in mishaps'
    BY <1>4 DEF Abort
  <2> QED  BY <1>0, <1>1, <1>2, <1>4, <2>1
<1>5. CASE ws # {} /\ writers' = {}
  <2>1. Written({}) /\ "failure" \in mishaps'
    BY <1>5 DEF Abort
  <2>2. /\ disk' \in [status : {"absent", "whole", "torn"}, content : Contents]
        /\ disk'.content \in {} \cup {disk.content, {}}
    BY <1>0, <2>1, WrittenLeaves
  <2> QED  BY <1>1, <1>2, <2>1, <2>2
<1> QED  BY <1>3, <1>4, <1>5

\* A process ends: its caches are gone, and those of others stay what they are.
LEMMA CrashKeeps ==
    ASSUME IInv, NEW dead \in SUBSET Caches, Crash(dead)
    PROVE  IInv'
<1> DEFINE ws == {w \in writers : w.cache \in dead}
<1>0. /\ TypeOK /\ LivesInv /\ ContentsInv /\ EntriesInv /\ RecencyInv /\ FetchesInv /\ TrustInv /\ FileInv
      /\ cache \in [Caches -> [Tools -> Entries \cup {NoEntry}]]
      /\ recency \in [Caches -> Seq(Tools)] /\ saves \in [Caches -> Nat]
      /\ trust \in [Caches -> [Tools -> {"unknown", "good", "missed"}]]
      /\ served \in [Caches -> [Tools -> Versions \cup {NoVersion}]]
      /\ life \in [Caches -> {"new", "populating", "saving", "serving", "gone"}]
      /\ fetches \subseteq Fetches /\ lastWriter \in Caches \cup {"nobody"}
  BY DEF IInv, TypeOK
<1>1. /\ life' = [c \in Caches |-> IF c \in dead THEN "gone" ELSE life[c]]
      /\ cache' = [c \in Caches |-> IF c \in dead THEN [t \in Tools |-> NoEntry] ELSE cache[c]]
      /\ recency' = [c \in Caches |-> IF c \in dead THEN <<>> ELSE recency[c]]
      /\ fetches' = {f \in fetches : f.cache \notin dead}
      /\ waits' = [k \in Callers |-> IF \E f \in fetches' : waits[k] = WaitFor(f)
                                     THEN waits[k] ELSE NoWait]
      /\ saves' = [c \in Caches |-> IF c \in dead THEN 0 ELSE saves[c]]
      /\ Abort(ws)
      /\ served' = [c \in Caches |-> IF c \in dead THEN [t \in Tools |-> NoVersion] ELSE served[c]]
      /\ trust' = [c \in Caches |-> IF c \in dead THEN [t \in Tools |-> "unknown"] ELSE trust[c]]
      /\ lastWriter' = IF lastWriter \in dead THEN "nobody" ELSE lastWriter
      /\ UNCHANGED <<now, listed, current>>
  BY DEF Crash
<1>2. ws \in SUBSET writers
  OBVIOUS
<1>3. \A w \in writers : w \in ws <=> w.cache \in dead
  OBVIOUS
<1> HIDE DEF ws
<1>4. /\ writers' = writers \ ws
      /\ mishaps' \subseteq {"overlap", "mixed", "failure"}
      /\ disk' \in [status : {"absent", "whole", "torn"}, content : Contents]
      /\ disk'.content \in {w.content : w \in ws} \cup {disk.content, {}}
      /\ disk'.status = "torn" => writers' # {} \/ mishaps' # {}
      /\ mishaps' = {} => ws = {} /\ mishaps = {} /\ disk' = disk
  BY <1>1, <1>2, AbortLeaves
<1>5. ASSUME NEW c \in Caches, NEW t \in Tools, c \in dead
      PROVE  /\ cache'[c][t] = NoEntry /\ served'[c][t] = NoVersion /\ trust'[c][t] = "unknown"
  BY <1>1, <1>5
<1>6. ASSUME NEW c \in Caches, c \notin dead
      PROVE  /\ cache'[c] = cache[c] /\ served'[c] = served[c] /\ trust'[c] = trust[c]
             /\ recency'[c] = recency[c] /\ saves'[c] = saves[c] /\ life'[c] = life[c]
  BY <1>1, <1>6
<1>7. TypeOK'
  <2>1. /\ cache' \in [Caches -> [Tools -> Entries \cup {NoEntry}]]
        /\ trust' \in [Caches -> [Tools -> {"unknown", "good", "missed"}]]
        /\ served' \in [Caches -> [Tools -> Versions \cup {NoVersion}]]
    BY <1>0, <1>1
  <2>2. /\ recency' \in [Caches -> Seq(Tools)] /\ saves' \in [Caches -> Nat]
        /\ life' \in [Caches -> {"new", "populating", "saving", "serving", "gone"}]
    BY <1>0, <1>1
  <2>3. waits' \in [Callers -> {WaitFor(f) : f \in fetches'} \cup {NoWait}]
    BY <1>1
  <2>4. lastWriter' \in Caches \cup {"nobody"}
    BY <1>0, <1>1
  <2>5. writers' \subseteq [cache : Caches, content : SUBSET Saved]
    BY <1>0, <1>4 DEF TypeOK
  <2>6. fetches' \subseteq Fetches
    BY <1>0, <1>1
  <2>7. now' \in Nat /\ listed' \subseteq Tools /\ current' \in [Tools -> Versions]
    BY <1>0, <1>1 DEF TypeOK
  <2> QED  BY <1>4, <2>1, <2>2, <2>3, <2>4, <2>5, <2>6, <2>7 DEF TypeOK, Contents
<1>8. \A c \in Caches \ dead : Alive(c)' <=> Alive(c)
  BY <1>6 DEF Alive
<1>9. LivesInv'
  <2>1. \A f \in fetches' : Alive(f.cache)'
    <3> SUFFICES ASSUME NEW f \in fetches' PROVE Alive(f.cache)'
      OBVIOUS
    <3>1. f \in fetches /\ f.cache \in Caches \ dead /\ Alive(f.cache)
      BY <1>0, <1>1, Typed DEF LivesInv
    <3> QED  BY <1>6, <3>1 DEF Alive
  <2>2. \A w \in writers' : Alive(w.cache)'
    <3> SUFFICES ASSUME NEW w \in writers' PROVE Alive(w.cache)'
      OBVIOUS
    <3>1. w \in writers /\ w.cache \in Caches \ dead /\ Alive(w.cache)
      BY <1>0, <1>3, <1>4, Typed DEF LivesInv
    <3> QED  BY <1>6, <3>1 DEF Alive
  <2>3. lastWriter' # "nobody" => Alive(lastWriter)'
    <3> SUFFICES ASSUME lastWriter' # "nobody" PROVE Alive(lastWriter)'
      OBVIOUS
    <3>1. lastWriter' = lastWriter /\ lastWriter \in Caches \ dead /\ Alive(lastWriter)
      BY <1>0, <1>1 DEF LivesInv
    <3> QED  BY <1>6, <3>1 DEF Alive
  <2>4. ASSUME NEW c \in Caches, ~Alive(c)'
        PROVE  /\ saves'[c] = 0
               /\ \A t \in Tools : served'[c][t] = NoVersion /\ cache'[c][t] = NoEntry
    <3>1. CASE c \in dead
      BY <1>1, <1>5, <3>1
    <3>2. CASE c \notin dead
      BY <1>0, <1>6, <1>8, <2>4, <3>2 DEF LivesInv
    <3> QED  BY <3>1, <3>2
  <2>5. \A c \in Caches : ~Alive(c)' =>
           /\ saves'[c] = 0
           /\ \A t \in Tools : served'[c][t] = NoVersion /\ cache'[c][t] = NoEntry
    BY <2>4
  <2> QED  BY <2>1, <2>2, <2>3, <2>5 DEF LivesInv
<1>10. EntriesInv'
  <2> SUFFICES ASSUME NEW c \in Caches, NEW t \in Tools
               PROVE  /\ served'[c][t] <= current[t]
                      /\ cache'[c][t] # NoEntry => /\ Sound(t, cache'[c][t])
                                                   /\ cache'[c][t].fetchedAt <= cache'[c][t].start
                                                   /\ served'[c][t] <= cache'[c][t].version
    BY <1>1 DEF EntriesInv, Sound
  <2>1. CASE c \in dead
    <3>1. 0 <= current[t]
      BY <1>0, Typed, SchemaCacheAssumption DEF Versions
    <3> QED  BY <1>5, <2>1, <3>1 DEF NoVersion
  <2>2. CASE c \notin dead
    BY <1>0, <1>6, <2>2 DEF EntriesInv
  <2> QED  BY <2>1, <2>2
<1>11. RecencyInv'
  <2> SUFFICES ASSUME NEW c \in Caches
               PROVE  /\ Len(recency'[c]) <= MaxCacheSize
                      /\ ToSet(recency'[c]) = Present(c)'
                      /\ IsInjective(recency'[c])
    BY DEF RecencyInv
  <2>1. CASE c \in dead
    <3>1. recency'[c] = <<>> /\ Present(c)' = {}
      BY <1>1, <1>5, <2>1 DEF Present
    <3>2. Len(<<>>) = 0 /\ ToSet(<<>>) = {} /\ IsInjective(<<>>) /\ 0 <= MaxCacheSize
      BY SchemaCacheAssumption DEF ToSet, IsInjective
    <3> QED  BY <3>1, <3>2
  <2>2. CASE c \notin dead
    <3>1. Present(c)' = Present(c)
      BY <1>6, <2>2 DEF Present
    <3> QED  BY <1>0, <1>6, <2>2, <3>1 DEF RecencyInv
  <2> QED  BY <2>1, <2>2
<1>12. \A f \in fetches' : /\ f \in fetches /\ f.cache \in Caches /\ f.cache \notin dead
                           /\ cache'[f.cache] = cache[f.cache] /\ served'[f.cache] = served[f.cache]
                           /\ trust'[f.cache] = trust[f.cache]
  <2> SUFFICES ASSUME NEW f \in fetches'
               PROVE  /\ f \in fetches /\ f.cache \in Caches /\ f.cache \notin dead
                      /\ cache'[f.cache] = cache[f.cache] /\ served'[f.cache] = served[f.cache]
                      /\ trust'[f.cache] = trust[f.cache]
    OBVIOUS
  <2>1. f \in fetches /\ f.cache \in Caches /\ f.cache \notin dead
    BY <1>0, <1>1, Typed
  <2> QED  BY <1>6, <2>1
<1>13. FetchesInv'
  BY <1>0, <1>1, <1>12 DEF FetchesInv
<1>14. TrustInv'
  <2>1. ASSUME NEW c \in Caches, NEW t \in Tools, trust'[c][t] = "good", cache'[c][t] = NoEntry
        PROVE  \E f \in fetches' : f.cache = c /\ f.tool = t /\ f.by # "prePopulate"
    <3>1. c \notin dead
      BY <1>5, <2>1
    <3>2. PICK f \in fetches : f.cache = c /\ f.tool = t /\ f.by # "prePopulate"
      BY <1>0, <1>6, <2>1, <3>1 DEF TrustInv
    <3> QED  BY <1>1, <3>1, <3>2
  <2>2. \A f \in fetches' : f.by # "prePopulate" /\ f.stale = NoVersion => trust'[f.cache][f.tool] # "good"
    BY <1>0, <1>12 DEF TrustInv
  <2> QED  BY <2>1, <2>2 DEF TrustInv
<1>15. ContentsInv' /\ FileInv'
  <2>1. ASSUME NEW c \in Caches
        PROVE  /\ Content(c)' \subseteq Content(c)
               /\ c \in dead => Content(c)' = {}
               /\ c \notin dead => saves'[c] = saves[c] /\ Content(c)' = Content(c)
    <3>1. CASE c \in dead
      <4>1. Content(c)' = {}
        BY <1>5, <3>1 DEF Content
      <4> QED  BY <3>1, <4>1
    <3>2. CASE c \notin dead
      <4>1. Content(c)' = Content(c)
        BY <1>6, <3>2 DEF Content
      <4> QED  BY <1>6, <3>2, <4>1
    <3> QED  BY <3>1, <3>2
  <2>2. \A c \in Caches : saves'[c] = 0 => saves[c] = 0 \/ Content(c)' = {}
    BY <2>1
  <2>3. ASSUME NEW c \in Caches, lastWriter' = c, saves'[c] = 0, writers' = {}, mishaps' = {}
        PROVE  disk'.status = "whole" /\ Content(c)' \subseteq disk'.content
    <3>1. disk' = disk /\ mishaps = {} /\ writers = {}
      BY <1>4, <2>3
    <3>2. c \notin dead /\ lastWriter = c
      BY <1>1, <2>3, SchemaCacheAssumption
    <3> QED  BY <1>0, <2>1, <2>3, <3>1, <3>2 DEF FileInv
  <2>4. UNCHANGED <<now, current>>
    BY <1>1
  <2>5. \A c \in Caches : Content(c)' \subseteq Content(c)
    BY <2>1
  <2>6. \A c \in Caches : lastWriter' = c /\ saves'[c] = 0 /\ writers' = {} /\ mishaps' = {} =>
              disk'.status = "whole" /\ Content(c)' \subseteq disk'.content
    BY <2>3
  <2> QED  BY <1>2, <1>4, <2>2, <2>4, <2>5, <2>6, WritersStop
<1> QED  BY <1>7, <1>9, <1>10, <1>11, <1>13, <1>14, <1>15 DEF IInv

-------------------------------------------------------------------------------
(* prePopulate() *)

\* Of what the file says no more entries are loaded than there is room for.
LEMMA LoadedFit ==
    ASSUME TypeOK, ContentsInv,
           NEW loaded \in kSubset(Min({MaxCacheSize, Cardinality(Readable)}), Readable)
    PROVE  /\ IsFiniteSet(loaded) /\ Cardinality(loaded) \in Nat /\ Cardinality(loaded) <= MaxCacheSize
           /\ loaded \subseteq Saved /\ \A s \in loaded : Sound(s.tool, s)
<1> DEFINE n == Cardinality(Readable)
           m == Min({MaxCacheSize, n})
<1>1. /\ Readable \subseteq Saved /\ IsFiniteSet(Readable) /\ \A s \in Readable : Sound(s.tool, s)
  BY Typed, FS_EmptySet DEF Readable, ContentsInv, SoundContent
<1>2. n \in Nat
  BY <1>1, FS_CardinalityType
<1>3. loaded \subseteq Readable /\ Cardinality(loaded) = m
  BY DEF kSubset
<1> HIDE DEF n
<1>4. m <= MaxCacheSize
  <2>1. MaxCacheSize \in Nat
    BY SchemaCacheAssumption
  <2>2. \E x \in {MaxCacheSize, n} : \A y \in {MaxCacheSize, n} : x =< y
    <3>1. CASE MaxCacheSize =< n
      BY <2>1, <3>1
    <3>2. CASE n =< MaxCacheSize
      BY <1>2, <3>2
    <3> QED  BY <1>2, <2>1, <3>1, <3>2
  <2>3. m \in {MaxCacheSize, n} /\ \A y \in {MaxCacheSize, n} : m =< y
    BY <2>2 DEF Min
  <2> QED  BY <2>3
<1>5. IsFiniteSet(loaded) /\ Cardinality(loaded) \in Nat
  BY <1>1, <1>3, FS_Subset, FS_CardinalityType
<1> QED  BY <1>1, <1>3, <1>4, <1>5

\* They are put in some order, each tool once.
LEMMA LoadedInOrder ==
    ASSUME NEW loaded \in SUBSET Saved, IsFiniteSet(loaded), NEW order \in SetToSeqs({s.tool : s \in loaded})
    PROVE  /\ order \in Seq(Tools) /\ IsInjective(order) /\ ToSet(order) = {s.tool : s \in loaded}
           /\ Len(order) \in Nat /\ Len(order) <= Cardinality(loaded)
<1> DEFINE T == {s.tool : s \in loaded}
           tool == [s \in loaded |-> s.tool]
           n == Cardinality(T)
<1>1. T \subseteq Tools
  BY SavedTyped
<1>2. IsFiniteSet(T) /\ Cardinality(T) <= Cardinality(loaded)
  <2>1. tool \in [loaded -> T] /\ \A t \in T : \E s \in loaded : tool[s] = t
    OBVIOUS
  <2> HIDE DEF tool, T
  <2>2. tool \in Surjection(loaded, T)
    BY <2>1 DEF Surjection
  <2> QED  BY <2>2, FS_Surjection
<1>3. n \in Nat
  BY <1>2, FS_CardinalityType
<1>4. order \in [1..n -> T] /\ \A i, j \in 1..n : i # j => order[i] # order[j]
  BY DEF SetToSeqs
<1> HIDE DEF T, n
<1>5. order \in Seq(Tools) /\ Len(order) = n /\ DOMAIN order = 1..n
  <2>1. order \in [1..n -> Tools]
    BY <1>1, <1>4
  <2> QED  BY <1>3, <2>1
<1>6. IsInjective(order)
  BY <1>4, <1>5 DEF IsInjective
<1>7. order \in Surjection(1..n, T)
  <2>1. IsFiniteSet(1..n) /\ Cardinality(1..n) = n
    BY <1>3, FS_Interval
  <2>2. order \in Injection(1..n, T)
    BY <1>4, <1>6 DEF Injection
  <2> QED  BY <1>2, <2>1, <2>2, FS_Injection DEF n
<1>8. ToSet(order) = T
  BY <1>4, <1>5, <1>7 DEF ToSet, Surjection
<1> QED  BY <1>2, <1>3, <1>5, <1>6, <1>8 DEF T, n

\* What prePopulate() finds of a tool is what the file says of it, put now, which its own
\* get() leaves as it is.
Find(loaded) ==
    [t \in Tools |-> IF \E s \in loaded : s.tool = t
                     THEN Loaded(CHOOSE s \in loaded : s.tool = t) ELSE NoEntry]

LEMMA FoundIsSound ==
    ASSUME TypeOK, NEW loaded \in SUBSET Saved, \A s \in loaded : Sound(s.tool, s), NEW t \in Tools
    PROVE  LET e == Find(loaded)[t] IN
           /\ e \in Entries \cup {NoEntry}
           /\ e # NoEntry <=> t \in {s.tool : s \in loaded}
           /\ Got(e) = e
           /\ e # NoEntry => Sound(t, e) /\ e.fetchedAt <= e.start
<1> DEFINE e == Find(loaded)[t]
<1>0. now \in Nat /\ Ttl \in Nat
  BY Typed
<1>1. CASE t \notin {s.tool : s \in loaded}
  <2>1. e = NoEntry
    BY <1>1 DEF Find
  <2> QED  BY <1>1, <2>1 DEF Got
<1>2. CASE t \in {s.tool : s \in loaded}
  <2> DEFINE s == CHOOSE r \in loaded : r.tool = t
  <2>1. s \in loaded /\ s.tool = t /\ s \in Saved
    BY <1>2
  <2>2. e = Loaded(s)
    BY <1>2 DEF Find
  <2> HIDE DEF s, e
  <2>3. s.version \in Versions /\ s.fetchedAt \in Nat /\ s.born \in Nat /\ Sound(t, s)
    BY <2>1, SavedTyped
  <2>4. /\ e \in Entries /\ e.start = now /\ e.version = s.version
        /\ e.fetchedAt = s.fetchedAt /\ e.born = s.born
    BY <1>0, <2>2, <2>3 DEF Loaded, Entries
  <2>5. e # NoEntry
    BY <2>4, EntryTyped
  <2>6. ~TooOld(e)
    BY <1>0, <2>4 DEF TooOld
  <2>7. Got(e) = e
    <3>1. Got(e) = [e EXCEPT !.start = now]
      BY <2>5, <2>6 DEF Got
    <3> QED  BY <2>4, <3>1 DEF Entries
  <2>8. Sound(t, e) /\ e.fetchedAt <= e.start
    BY <2>3, <2>4 DEF Sound
  <2> QED  BY <1>2, <2>4, <2>5, <2>7, <2>8 DEF e
<1> QED  BY <1>1, <1>2

\* What prePopulate() begins with.
Asked(c, found, missing) ==
    {NewFetch(c, t, "prePopulate", Got(found[t]).version) : t \in missing}

LEMMA PopulateKeeps ==
    ASSUME IInv, NEW c \in Caches, PrePopulate(c)
    PROVE  IInv'
<1>0. /\ TypeOK /\ LivesInv /\ ContentsInv /\ EntriesInv /\ RecencyInv /\ FetchesInv /\ TrustInv /\ FileInv
      /\ cache \in [Caches -> [Tools -> Entries \cup {NoEntry}]]
      /\ recency \in [Caches -> Seq(Tools)]
      /\ trust \in [Caches -> [Tools -> {"unknown", "good", "missed"}]]
      /\ life \in [Caches -> {"new", "populating", "saving", "serving", "gone"}]
      /\ fetches \subseteq Fetches /\ listed \subseteq Tools
  BY DEF IInv, TypeOK
<1> DEFINE toFetch(found) == {t \in listed : found[t] = NoEntry \/ found[t].fetchedAt + Ttl < now}
<1>1. PICK loaded \in kSubset(Min({MaxCacheSize, Cardinality(Readable)}), Readable) :
        \E order \in SetToSeqs({s.tool : s \in loaded}) :
          /\ life[c] = "new"
          /\ cache' = [cache EXCEPT ![c] = [t \in Tools |-> Got(Find(loaded)[t])]]
          /\ recency' = [recency EXCEPT ![c] = Only(order, {t \in Tools : cache'[c][t] # NoEntry})]
          /\ fetches' = fetches \cup Asked(c, Find(loaded), toFetch(Find(loaded)))
          /\ life' = [life EXCEPT ![c] = IF Asked(c, Find(loaded), toFetch(Find(loaded))) = {} THEN "serving" ELSE "populating"]
          /\ trust' = [trust EXCEPT ![c] = [t \in Tools |-> IF Find(loaded)[t] = NoEntry THEN "unknown"
                                                            ELSE "good"]]
          /\ UNCHANGED <<now, listed, current, waits, file, served>>
  BY DEF PrePopulate, Find, Asked
<1>a. PICK order \in SetToSeqs({s.tool : s \in loaded}) :
          /\ life[c] = "new"
          /\ cache' = [cache EXCEPT ![c] = [t \in Tools |-> Got(Find(loaded)[t])]]
          /\ recency' = [recency EXCEPT ![c] = Only(order, {t \in Tools : cache'[c][t] # NoEntry})]
          /\ fetches' = fetches \cup Asked(c, Find(loaded), toFetch(Find(loaded)))
          /\ life' = [life EXCEPT ![c] = IF Asked(c, Find(loaded), toFetch(Find(loaded))) = {} THEN "serving" ELSE "populating"]
          /\ trust' = [trust EXCEPT ![c] = [t \in Tools |-> IF Find(loaded)[t] = NoEntry THEN "unknown"
                                                            ELSE "good"]]
          /\ UNCHANGED <<now, listed, current, waits, file, served>>
  BY <1>1
<1> DEFINE found == Find(loaded)
           missing == toFetch(found)
<1>b. missing \in SUBSET listed
  OBVIOUS
<1> HIDE DEF missing
<1>2. /\ life[c] = "new"
      /\ cache' = [cache EXCEPT ![c] = [t \in Tools |-> Got(found[t])]]
      /\ recency' = [recency EXCEPT ![c] = Only(order, {t \in Tools : cache'[c][t] # NoEntry})]
      /\ fetches' = fetches \cup Asked(c, found, missing)
      /\ life' = [life EXCEPT ![c] = IF Asked(c, found, missing) = {} THEN "serving" ELSE "populating"]
      /\ trust' = [trust EXCEPT ![c] = [t \in Tools |-> IF found[t] = NoEntry THEN "unknown"
                                                        ELSE "good"]]
      /\ UNCHANGED <<now, listed, current, waits, file, served>>
  BY <1>a DEF missing
<1>3. UNCHANGED <<now, listed, current, waits, saves, writers, disk, lastWriter, mishaps, served>>
  BY <1>2 DEF file
<1>4. /\ IsFiniteSet(loaded) /\ Cardinality(loaded) \in Nat /\ Cardinality(loaded) <= MaxCacheSize
      /\ loaded \in SUBSET Saved /\ \A s \in loaded : Sound(s.tool, s)
  BY <1>0, LoadedFit
<1>5. /\ order \in Seq(Tools) /\ IsInjective(order) /\ ToSet(order) = {s.tool : s \in loaded}
      /\ Len(order) \in Nat /\ Len(order) <= Cardinality(loaded)
  BY <1>4, LoadedInOrder
<1>6. ASSUME NEW t \in Tools
      PROVE  /\ found[t] \in Entries \cup {NoEntry}
             /\ found[t] # NoEntry <=> t \in {s.tool : s \in loaded}
             /\ Got(found[t]) = found[t]
             /\ found[t] # NoEntry => Sound(t, found[t]) /\ found[t].fetchedAt <= found[t].start
  BY <1>0, <1>4, FoundIsSound
<1> HIDE DEF found
<1>7. /\ cache' \in [Caches -> [Tools -> Entries \cup {NoEntry}]]
      /\ \A t \in Tools : cache'[c][t] = found[t]
      /\ \A d \in Caches \ {c} : cache'[d] = cache[d]
  <2> DEFINE put == [t \in Tools |-> Got(found[t])]
  <2>1. put \in [Tools -> Entries \cup {NoEntry}] /\ \A t \in Tools : put[t] = found[t]
    BY <1>6
  <2>2. cache' = [cache EXCEPT ![c] = put]
    BY <1>2
  <2> HIDE DEF put
  <2> QED  BY <1>0, <2>1, <2>2
<1>8. /\ trust' \in [Caches -> [Tools -> {"unknown", "good", "missed"}]]
      /\ \A t \in Tools : trust'[c][t] = "good" => found[t] # NoEntry
      /\ \A d \in Caches \ {c} : trust'[d] = trust[d]
  <2> DEFINE put == [t \in Tools |-> IF found[t] = NoEntry THEN "unknown" ELSE "good"]
  <2>1. /\ put \in [Tools -> {"unknown", "good", "missed"}]
        /\ \A t \in Tools : put[t] = "good" => found[t] # NoEntry
    OBVIOUS
  <2>2. trust' = [trust EXCEPT ![c] = put]
    BY <1>2
  <2> HIDE DEF put
  <2> QED  BY <1>0, <2>1, <2>2
<1>9. /\ life' \in [Caches -> {"new", "populating", "saving", "serving", "gone"}]
      /\ life'[c] \in {"serving", "populating"} /\ \A d \in Caches \ {c} : life'[d] = life[d]
  BY <1>0, <1>2
<1>10. /\ ~Alive(c) /\ Alive(c)'
       /\ saves[c] = 0 /\ \A t \in Tools : served[c][t] = NoVersion
  BY <1>0, <1>2, <1>9 DEF LivesInv, Alive
<1>11. /\ \A d \in Caches : Alive(d) => d # c
       /\ \A d \in Caches : d # c => (Alive(d)' <=> Alive(d))
  BY <1>9, <1>10 DEF Alive
<1>12. /\ \A f \in fetches : f.cache # c /\ f.cache \in Caches /\ f.tool \in Tools
       /\ \A w \in writers : w.cache # c /\ w.cache \in Caches
       /\ lastWriter # c
  <2>1. /\ \A f \in fetches : Alive(f.cache) /\ f.cache \in Caches /\ f.tool \in Tools
        /\ \A w \in writers : Alive(w.cache) /\ w.cache \in Caches
    BY <1>0, Typed DEF LivesInv
  <2>2. lastWriter # c
    BY <1>0, <1>10, SchemaCacheAssumption DEF LivesInv
  <2> QED  BY <1>11, <2>1, <2>2
<1> DEFINE asked == Asked(c, found, missing)
<1>13. ASSUME NEW f \in asked
       PROVE  \E t \in missing : /\ f = NewFetch(c, t, "prePopulate", found[t].version)
                                 /\ f \in Fetches /\ f.cache = c /\ f.tool = t /\ f.by = "prePopulate"
                                 /\ f.version = NoVersion /\ f.stale = found[t].version
  <2>1. PICK t \in missing : f = NewFetch(c, t, "prePopulate", Got(found[t]).version)
    BY DEF Asked
  <2>2. t \in Tools /\ f = NewFetch(c, t, "prePopulate", found[t].version)
    BY <1>0, <1>6, <1>b, <2>1
  <2>3. found[t].version \in Versions \cup {NoVersion}
    BY <1>6, <2>2, EntryTyped DEF NoEntry
  <2> QED  BY <2>2, <2>3 DEF NewFetch, Fetches, Owners
<1> HIDE DEF asked
<1>14. fetches' = fetches \cup asked
  BY <1>2 DEF asked
<1>15. TypeOK'
  <2>1. fetches' \subseteq Fetches
    BY <1>0, <1>13, <1>14
  <2>2. waits' \in [Callers -> {WaitFor(f) : f \in fetches'} \cup {NoWait}]
    <3>1. waits \in [Callers -> {WaitFor(f) : f \in fetches} \cup {NoWait}]
      BY <1>0 DEF TypeOK
    <3> QED  BY <1>3, <1>14, <3>1
  <2>3. recency' \in [Caches -> Seq(Tools)]
    <3> DEFINE o == Only(order, {t \in Tools : cache'[c][t] # NoEntry})
    <3>1. o \in Seq(Tools) /\ recency' = [recency EXCEPT ![c] = o]
      BY <1>2, <1>5, OnlyKeeps
    <3> HIDE DEF o
    <3> QED  BY <1>0, <3>1
  <2> QED  BY <1>0, <1>3, <1>7, <1>8, <1>9, <2>1, <2>2, <2>3 DEF TypeOK
<1>16. LivesInv'
  <2>1. \A f \in fetches' : Alive(f.cache)'
    <3> SUFFICES ASSUME NEW f \in fetches' PROVE Alive(f.cache)'
      OBVIOUS
    <3>1. CASE f \in fetches
      <4>1. Alive(f.cache)
        BY <1>0, <3>1 DEF LivesInv
      <4> QED  BY <1>9, <1>12, <3>1, <4>1 DEF Alive
    <3>2. CASE f \in asked
      <4>1. f.cache = c
        BY <1>13, <3>2
      <4> QED  BY <1>9, <4>1 DEF Alive
    <3> QED  BY <1>14, <3>1, <3>2
  <2>2. \A w \in writers : Alive(w.cache)'
    BY <1>0, <1>9, <1>12 DEF LivesInv, Alive
  <2>4. \A d \in Caches : ~Alive(d)' => d # c /\ ~Alive(d)
    BY <1>10, <1>11
  <2>5. \A d \in Caches : ~Alive(d)' =>
           /\ saves[d] = 0
           /\ \A t \in Tools : served[d][t] = NoVersion /\ cache'[d][t] = NoEntry
    BY <1>0, <1>7, <2>4 DEF LivesInv
  <2>6. lastWriter' # "nobody" => Alive(lastWriter)'
    <3>1. lastWriter' = lastWriter /\ lastWriter \in Caches \cup {"nobody"}
      BY <1>0, <1>3 DEF TypeOK
    <3> SUFFICES ASSUME lastWriter # "nobody" PROVE life'[lastWriter] \notin {"new", "gone"}
      BY <3>1 DEF Alive
    <3>2. lastWriter \in Caches \ {c} /\ Alive(lastWriter)
      BY <1>0, <1>12, <3>1 DEF LivesInv
    <3> QED  BY <1>9, <3>2 DEF Alive
  <2> QED  BY <1>3, <2>1, <2>2, <2>6, <2>5 DEF LivesInv
<1>17. ContentsInv'
  BY <1>0, <1>3 DEF ContentsInv, SoundContent, Sound
<1>18. EntriesInv'
  <2> SUFFICES ASSUME NEW d \in Caches, NEW t \in Tools
               PROVE  /\ served[d][t] <= current[t]
                      /\ cache'[d][t] # NoEntry => /\ Sound(t, cache'[d][t])
                                                   /\ cache'[d][t].fetchedAt <= cache'[d][t].start
                                                   /\ served[d][t] <= cache'[d][t].version
    BY <1>3 DEF EntriesInv, Sound
  <2>1. CASE d = c
    <3>1. served[c][t] = NoVersion /\ served[c][t] <= current[t] /\ cache'[c][t] = found[t]
      BY <1>0, <1>7, <1>10 DEF EntriesInv
    <3>2. ASSUME found[t] # NoEntry
          PROVE  Sound(t, found[t]) /\ found[t].fetchedAt <= found[t].start /\ 0 <= found[t].version
      BY <1>6, <3>2, EntryTyped
    <3> QED  BY <2>1, <3>1, <3>2 DEF NoVersion
  <2>2. CASE d # c
    BY <1>0, <1>7, <2>2 DEF EntriesInv
  <2> QED  BY <2>1, <2>2
<1>19. RecencyInv'
  <2> DEFINE o == Only(order, Present(c)')
  <2>1. recency'[c] = o /\ \A d \in Caches \ {c} : recency'[d] = recency[d]
    BY <1>0, <1>2 DEF Present
  <2>2. ToSet(o) = ToSet(order) \cap Present(c)' /\ Len(o) <= Len(order) /\ IsInjective(o) /\ o \in Seq(Tools)
    BY <1>5, OnlyKeeps
  <2> HIDE DEF o
  <2>3. ToSet(order) = Present(c)'
    <3>1. ToSet(order) \subseteq Tools
      BY <1>5 DEF ToSet
    <3> QED  BY <1>5, <1>6, <1>7, <3>1 DEF Present
  <2>4. Len(o) <= MaxCacheSize
    <3>1. Len(o) \in Nat /\ MaxCacheSize \in Nat
      BY <2>2, SchemaCacheAssumption
    <3> QED  BY <1>4, <1>5, <2>2, <3>1
  <2>5. \A d \in Caches \ {c} : Present(d)' = Present(d)
    BY <1>7 DEF Present
  <2> QED  BY <1>0, <2>1, <2>2, <2>3, <2>4, <2>5 DEF RecencyInv
<1>20. FetchesInv'
  <2>1. ASSUME NEW f \in fetches', NEW g \in fetches', f.cache = g.cache, f.tool = g.tool
        PROVE  f = g
    <3>1. CASE f \in fetches /\ g \in fetches
      BY <1>0, <2>1, <3>1 DEF FetchesInv
    <3>2. CASE f \in asked /\ g \in asked
      BY <1>13, <2>1, <3>2
    <3>3. ~(f \in fetches /\ g \in asked) /\ ~(f \in asked /\ g \in fetches)
      BY <1>12, <1>13, <2>1
    <3> QED  BY <1>14, <3>1, <3>2, <3>3
  <2>2. ASSUME NEW f \in fetches'
        PROVE  /\ f.version # NoVersion => /\ served[f.cache][f.tool] <= f.version
                                           /\ f.version <= current[f.tool]
               /\ f.stale # NoVersion => /\ served[f.cache][f.tool] <= f.stale
                                         /\ f.stale <= current[f.tool]
                                         /\ cache'[f.cache][f.tool] # NoEntry =>
                                               f.stale <= cache'[f.cache][f.tool].version
    <3>1. CASE f \in fetches
      <4>1. cache'[f.cache][f.tool] = cache[f.cache][f.tool]
        BY <1>7, <1>12, <3>1
      <4> QED  BY <1>0, <3>1, <4>1 DEF FetchesInv
    <3>2. CASE f \in asked
      <4>1. PICK t \in missing : /\ f.cache = c /\ f.tool = t /\ f.version = NoVersion
                                 /\ f.stale = found[t].version
        BY <1>13, <3>2
      <4>2. t \in Tools /\ served[c][t] = 0 /\ cache'[c][t] = found[t]
        BY <1>0, <1>7, <1>10, <1>b, <4>1 DEF NoVersion
      <4>3. ASSUME f.stale # NoVersion
            PROVE  found[t] \in Entries /\ f.stale \in Nat /\ f.stale <= current[t]
        <5>1. found[t] # NoEntry
          BY <4>1, <4>3 DEF NoEntry
        <5> QED  BY <1>6, <4>1, <4>2, <5>1, EntryTyped DEF Sound
      <4> QED  BY <4>1, <4>2, <4>3
    <3> QED  BY <1>14, <3>1, <3>2
  <2> QED  BY <1>3, <2>1, <2>2 DEF FetchesInv
<1>21. TrustInv'
  <2>1. ASSUME NEW d \in Caches, NEW t \in Tools, trust'[d][t] = "good", cache'[d][t] = NoEntry
        PROVE  \E f \in fetches' : f.cache = d /\ f.tool = t /\ f.by # "prePopulate"
    <3>1. d # c
      BY <1>7, <1>8, <2>1
    <3> QED  BY <1>0, <1>7, <1>8, <1>14, <2>1, <3>1 DEF TrustInv
  <2>2. ASSUME NEW f \in fetches', f.by # "prePopulate", f.stale = NoVersion
        PROVE  trust'[f.cache][f.tool] # "good"
    <3>1. f \in fetches
      BY <1>13, <1>14, <2>2
    <3>2. trust'[f.cache] = trust[f.cache]
      BY <1>8, <1>12, <3>1
    <3> QED  BY <1>0, <2>2, <3>1, <3>2 DEF TrustInv
  <2> QED  BY <2>1, <2>2 DEF TrustInv
<1>22. FileInv'
  <2>1. ASSUME NEW d \in Caches, d # c PROVE Content(d)' = Content(d)
    <3>1. cache'[d] = cache[d]
      BY <1>7, <2>1
    <3> QED  BY <3>1 DEF Content
  <2>2. \A w \in writers : Content(w.cache)' = Content(w.cache)
    BY <1>12, <2>1
  <2> QED  BY <1>0, <1>3, <1>12, <2>1, <2>2 DEF FileInv
<1> QED  BY <1>15, <1>16, <1>17, <1>18, <1>19, <1>20, <1>21, <1>22 DEF IInv

-------------------------------------------------------------------------------
(* The theorems *)

\* Nothing is cached, fetched or written at first.
LEMMA InitHolds == Init => IInv
<1> SUFFICES ASSUME Init PROVE IInv
  OBVIOUS
<1>0. 1 \in Versions /\ 0 \in Nat /\ 1 >= 0 /\ MaxCacheSize >= 0
  BY SchemaCacheAssumption DEF Versions
<1>1. TypeOK
  <2>1. <<>> \in Seq(Tools)
    OBVIOUS
  <2>2. disk \in [status : {"absent", "whole", "torn"}, content : SUBSET Saved]
    BY DEF Init
  <2>3. /\ cache \in [Caches -> [Tools -> Entries \cup {NoEntry}]]
        /\ served \in [Caches -> [Tools -> Versions \cup {NoVersion}]]
        /\ trust \in [Caches -> [Tools -> {"unknown", "good", "missed"}]]
    BY DEF Init
  <2>4. waits \in [Callers -> {WaitFor(f) : f \in fetches} \cup {NoWait}]
    BY DEF Init
  <2> QED  BY <1>0, <2>1, <2>2, <2>3, <2>4 DEF Init, TypeOK
<1>2. LivesInv
  BY DEF Init, LivesInv, Alive
<1>3. ContentsInv
  BY FS_EmptySet DEF Init, ContentsInv, SoundContent
<1>4. EntriesInv
  <2>1. \A c \in Caches, t \in Tools : served[c][t] = 0 /\ current[t] = 1 /\ cache[c][t] = NoEntry
    BY DEF Init, NoVersion
  <2> QED  BY <2>1 DEF EntriesInv
<1>5. RecencyInv
  <2> SUFFICES ASSUME NEW c \in Caches
               PROVE  Len(recency[c]) <= MaxCacheSize /\ ToSet(recency[c]) = Present(c) /\ IsInjective(recency[c])
    BY DEF RecencyInv
  <2>1. recency[c] = <<>> /\ Present(c) = {}
    BY DEF Init, Present
  <2>2. Len(<<>>) = 0 /\ ToSet(<<>>) = {} /\ IsInjective(<<>>)
    BY DEF ToSet, IsInjective
  <2> QED  BY <1>0, <2>1, <2>2
<1>6. FetchesInv
  BY DEF Init, FetchesInv
<1>7. TrustInv
  BY DEF Init, TrustInv
<1>8. FileInv
  BY SchemaCacheAssumption DEF Init, FileInv
<1> QED  BY <1>1, <1>2, <1>3, <1>4, <1>5, <1>6, <1>7, <1>8 DEF IInv

\* Each step keeps the invariant.
LEMMA StepKeeps ==
    ASSUME IInv, [Next]_vars
    PROVE  IInv'
<1>0. listed \subseteq Tools
  BY DEF IInv, TypeOK
<1>1. ASSUME NEW k \in Callers, NEW c \in Caches, NEW t \in listed,
             Join(k, c, t) \/ Hit(k, c, t) \/ StartFetch(k, c, t)
      PROVE  IInv'
  <2>1. t \in Tools
    BY <1>0
  <2>2. CASE Join(k, c, t)
    BY <2>2, OthersKeep
  <2>3. CASE Hit(k, c, t)
    BY <2>1, <2>3, HitKeeps
  <2>4. CASE StartFetch(k, c, t)
    BY <2>1, <2>4, StartKeeps
  <2> QED  BY <1>1, <2>2, <2>3, <2>4
<1>2. ASSUME NEW f \in fetches,
             ServerReads(f) \/ FetchSucceeds(f) \/ FetchFindsNothing(f) \/ FetchFails(f)
      PROVE  IInv'
  BY <1>2, ReadKeeps, FetchKeeps, MissKeeps
<1>3. ASSUME NEW c \in Caches, BeginWrite(c) \/ PrePopulate(c)
      PROVE  IInv'
  BY <1>3, BeginWriteKeeps, PopulateKeeps
<1>4. ASSUME NEW c \in Caches, SavePopulated(c) \/ Populated(c)
      PROVE  IInv'
  BY <1>4, OthersKeep
<1>5. ASSUME NEW c \in Caches, (\E dropped : Invalidate(c, dropped)) \/ Cleanup(c)
      PROVE  IInv'
  BY <1>5, DropsKeep
<1>6. ASSUME NEW w \in writers, EndWrite(w) \/ WriteFails(w)
      PROVE  IInv'
  BY <1>6, WriteEndKeeps
<1>7. ASSUME NEW t \in listed, UpdateTool(t)
      PROVE  IInv'
  BY <1>7, OthersKeep
<1>8. ASSUME NEW dead \in SUBSET Caches, Crash(dead)
      PROVE  IInv'
  BY <1>8, CrashKeeps
<1>9. CASE Tick \/ UNCHANGED vars
  BY <1>9, OthersKeep
<1> QED  BY <1>1, <1>2, <1>3, <1>4, <1>5, <1>6, <1>7, <1>8, <1>9 DEF Next

\* What is answered is never older than what was answered before.
LEMMA NoneGoesBack ==
    ASSUME IInv, [Next]_vars, NEW c \in Caches, NEW t \in Tools, life'[c] # "gone"
    PROVE  served'[c][t] >= served[c][t]
<1>0. /\ TypeOK /\ LivesInv /\ EntriesInv /\ FetchesInv /\ served[c][t] \in Nat /\ listed \subseteq Tools
      /\ served \in [Caches -> [Tools -> Versions \cup {NoVersion}]]
  BY Typed DEF IInv, TypeOK
<1>1. CASE served' = served
  BY <1>0, <1>1
<1>2. ASSUME NEW k \in Callers, NEW d \in Caches, NEW u \in listed, Hit(k, d, u)
      PROVE  served'[c][t] >= served[c][t]
  <2> DEFINE v == cache[d][u].version
  <2>1. u \in Tools /\ cache[d][u] # NoEntry /\ served[d][u] <= v
    BY <1>0, <1>2 DEF Hit, IsFresh, EntriesInv
  <2>2. v \in Nat
    <3>1. cache[d][u] \in Entries
      BY <1>0, <2>1, Typed
    <3> QED  BY <3>1, EntryTyped
  <2>3. served' = served \/ served' = [served EXCEPT ![d][u] = v]
    BY <1>2 DEF Hit, Answer
  <2> HIDE DEF v
  <2>4. served'[c][t] = served[c][t] \/ (c = d /\ t = u /\ served'[c][t] = v)
    BY <1>0, <2>1, <2>3
  <2> QED  BY <1>0, <2>1, <2>2, <2>4
<1>3. ASSUME NEW f \in fetches, FetchSucceeds(f) \/ FetchFindsNothing(f) \/ FetchFails(f)
      PROVE  served'[c][t] >= served[c][t]
  <2>1. f \in Fetches /\ f.version \in Nat /\ f.stale \in Nat
    BY <1>0, Typed DEF TypeOK
  <2>2. PICK v \in Versions \cup {NoVersion} :
           Settle(f, v) /\ (v = NoVersion \/ v = f.stale \/ v = f.version)
    BY <1>3, <2>1 DEF FetchSucceeds, FetchFindsNothing, FetchFails, Fetches
  <2>3. \/ served'[c][t] = served[c][t]
        \/ c = f.cache /\ t = f.tool /\ served'[c][t] = v /\ v # NoVersion
    BY <1>0, <2>2, Settled
  <2>4. v # NoVersion => served[f.cache][f.tool] <= v
    BY <1>0, <2>2 DEF FetchesInv
  <2>5. v \in Nat
    BY <2>1, <2>2 DEF NoVersion
  <2> QED  BY <1>0, <2>3, <2>4, <2>5
<1>4. ASSUME NEW dead \in SUBSET Caches, Crash(dead)
      PROVE  served'[c][t] >= served[c][t]
  <2>1. c \notin dead
    BY <1>4 DEF Crash
  <2>2. served'[c] = served[c]
    BY <1>4, <2>1 DEF Crash
  <2> QED  BY <1>0, <2>2
<1>5. \/ served' = served
      \/ \E k \in Callers, d \in Caches, u \in listed : Hit(k, d, u)
      \/ \E f \in fetches : FetchSucceeds(f) \/ FetchFindsNothing(f) \/ FetchFails(f)
      \/ \E dead \in SUBSET Caches : Crash(dead)
  <2>1. CASE UNCHANGED vars
    BY <2>1 DEF vars
  <2>2. ASSUME NEW k \in Callers, NEW d \in Caches, NEW u \in listed, Join(k, d, u) \/ StartFetch(k, d, u)
        PROVE  served' = served
    BY <2>2 DEF Join, StartFetch, history
  <2>3. ASSUME NEW f \in fetches, ServerReads(f)
        PROVE  served' = served
    BY <2>3 DEF ServerReads, history
  <2>4. ASSUME NEW d \in Caches, BeginWrite(d) \/ SavePopulated(d) \/ Populated(d)
        PROVE  served' = served
    BY <2>4 DEF BeginWrite, SavePopulated, Populated, history
  <2>5. ASSUME NEW d \in Caches, PrePopulate(d)
        PROVE  served' = served
    BY <2>5 DEF PrePopulate
  <2>6. ASSUME NEW d \in Caches, (\E dropped : Invalidate(d, dropped)) \/ Cleanup(d)
        PROVE  served' = served
    BY <2>6 DEF Invalidate, Cleanup
  <2>7. ASSUME NEW w \in writers, EndWrite(w) \/ WriteFails(w)
        PROVE  served' = served
    BY <2>7 DEF EndWrite, WriteFails, history
  <2>8. ASSUME NEW u \in listed, UpdateTool(u)
        PROVE  served' = served
    BY <2>8 DEF UpdateTool, history
  <2>9. CASE Tick
    BY <2>9 DEF Tick, history
  <2> QED  BY <2>1, <2>2, <2>3, <2>4, <2>5, <2>6, <2>7, <2>8, <2>9 DEF Next
<1> QED  BY <1>1, <1>2, <1>3, <1>4, <1>5

\* The invariant of the caches, in every state they reach.
THEOREM CacheInvariance == Spec => []IInv
<1>1. Init => IInv
  BY InitHolds
<1>2. IInv /\ [Next]_vars => IInv'
  BY StepKeeps
<1> QED  BY <1>1, <1>2, PTL DEF Spec

\* The LRU cache is within its bound and knows the recency of exactly its entries, no tool
\* is fetched twice at a time, and a torn file has a writer or a reason.
THEOREM CachesAreSound == Spec => []SchemaCacheInv
<1>1. IInv => SchemaCacheInv
  <2> SUFFICES ASSUME IInv PROVE SchemaCacheInv
    OBVIOUS
  <2>1. TypeOK /\ EntriesInv /\ RecencyInv /\ FetchesInv /\ FileInv
    BY DEF IInv
  <2>2. \A c \in Caches, t \in Tools : cache[c][t].fetchedAt <= cache[c][t].start
    <3> SUFFICES ASSUME NEW c \in Caches, NEW t \in Tools, cache[c][t] = NoEntry
                 PROVE  cache[c][t].fetchedAt <= cache[c][t].start
      BY <2>1 DEF EntriesInv
    <3> QED  BY DEF NoEntry
  <2> QED  BY <2>1, <2>2 DEF SchemaCacheInv, RecencyInv, Present, FetchesInv, FileInv
<1> QED  BY <1>1, CacheInvariance, PTL

\* What is answered without asking the server was fetched less than Ttl ago, by whichever
\* cache fetched it.
THEOREM FreshEntriesAreYoung == Spec => []FreshIsFresh
<1>1. IInv => FreshIsFresh
  BY DEF IInv, EntriesInv, FreshIsFresh, IsFresh, Sound
<1> QED  BY <1>1, CacheInvariance, PTL

\* A fetch with nothing to fall back on is for a tool that is new, or was missed before.
THEOREM FailuresAreBridged == Spec => []FirstFailureIsBridged
<1>1. IInv => FirstFailureIsBridged
  BY DEF IInv, TrustInv, FirstFailureIsBridged
<1> QED  BY <1>1, CacheInvariance, PTL

\* When the cache that wrote last has nothing left to save, the file has all its entries.
THEOREM SavesReachTheFile == Spec => []SavedIsOnDisk
<1>1. IInv => SavedIsOnDisk
  BY DEF IInv, FileInv, SavedIsOnDisk
<1> QED  BY <1>1, CacheInvariance, PTL

\* No cache that lives goes back to a schema older than one it answered before.
THEOREM AnswersNeverGoBack == Spec => NeverGoesBack
<1>1. IInv /\ [Next]_vars => \A c \in Caches, t \in Tools : life'[c] # "gone" => served'[c][t] >= served[c][t]
  BY NoneGoesBack
<1> QED  BY <1>1, CacheInvariance, PTL DEF Spec, NeverGoesBack

================================================================================
