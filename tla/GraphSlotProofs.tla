-------------------------- MODULE GraphSlotProofs ---------------------------
(***************************************************************************)
(* Theorems about GraphSlot, for any number of checkouts, keys, queries,   *)
(* subslot objects, disk changes and sessions.                             *)
(***************************************************************************)
EXTENDS GraphSlot, FiniteSetTheorems, TLAPS

\* The invariant the induction carries.
CacheInv == TypeOK /\ OneBuildPerSlot /\ CacheSound

\* The state of a proxy that has just started satisfies the invariant.
LEMMA InvInit == Init => CacheInv /\ AnswerIsForQuery
  <1> SUFFICES ASSUME Init PROVE CacheInv /\ AnswerIsForQuery
    OBVIOUS
  <1> USE DEF Init, FreshSession
  <1>1. TypeOK
    <2>1. EmptySlot \in SlotStates
      BY DEF EmptySlot, SlotStates
    <2>2. IdleQuery \in QueryStates
      BY DEF IdleQuery, QueryStates
    <2> QED  BY <2>1, <2>2 DEF TypeOK, Misses
  <1>2. OneBuildPerSlot
    BY DEF OneBuildPerSlot
  <1>3. CacheSound /\ AnswerIsForQuery
    BY DEF CacheSound, SlotsSound, BuildsSound, SavesSound, QueriesSound,
           AnswerIsForQuery, EmptySlot, IdleQuery
  <1> QED  BY <1>1, <1>2, <1>3 DEF CacheInv

\* A starting build keeps the invariant's parts about builds: it is the only
\* one of its slot and works on its slot's module.
LEMMA StartKeeps ==
    ASSUME TypeOK, OneBuildPerSlot, BuildsSound,
           NEW s \in Slots, s \notin building,
           NEW k \in Keys, NEW d \in PlacesOf(s), NEW w \in SUBSET Queries,
           StartBuild(s, k, d, w), revalidate' \subseteq revalidate
    PROVE  /\ building' \in SUBSET Slots /\ missed' \in [Slots -> Misses]
           /\ builds' \in SUBSET Builds
           /\ OneBuildPerSlot' /\ BuildsSound'
  <1> DEFINE n == NewBuild(s, k, d, w)
  <1>1. /\ building' = building \cup {s} /\ builds' = builds \cup {n}
        /\ missed' = [missed EXCEPT ![s] = "no"]
    BY DEF StartBuild
  <1>2. {b \in builds : b.slot = s} = {}
    BY DEF OneBuildPerSlot
  <1>3. Cardinality({b \in builds : b.slot = s}) \in Nat
    BY <1>2, FS_EmptySet
  <1>4. n \in Builds /\ n.slot = s /\ n.dir = d
    BY <1>3 DEF NewBuild, Builds, PlacesOf, Places
  <1> HIDE DEF n
  <1>5. OneBuildPerSlot'
    BY <1>1, <1>2, <1>4 DEF OneBuildPerSlot
  <1>6. BuildsSound'
    BY <1>1, <1>4 DEF BuildsSound, PlacesOf
  <1> QED  BY <1>1, <1>4, <1>5, <1>6 DEF TypeOK, Misses

\* So does the rebuild of the graph a slot holds.
LEMMA RebuildKeeps ==
    ASSUME TypeOK, OneBuildPerSlot, SlotsSound, BuildsSound,
           NEW s \in Slots, s \notin building,
           Rebuild(s), revalidate' \subseteq revalidate
    PROVE  /\ building' \in SUBSET Slots /\ missed' \in [Slots -> Misses]
           /\ builds' \in SUBSET Builds
           /\ OneBuildPerSlot' /\ BuildsSound'
  <1>1. PICK k \in slot[s].patternsKey, d \in slot[s].dir : StartBuild(s, k, d, {})
    BY DEF Rebuild
  <1>2. k \in Keys /\ d \in PlacesOf(s)
    BY DEF TypeOK, SlotStates, SlotsSound
  <1> QED  BY <1>1, <1>2, StartKeeps

\* A step that starts no build keeps them.
LEMMA NoBuildKeeps ==
    ASSUME TypeOK, OneBuildPerSlot, BuildsSound, NoBuild,
           revalidate' \subseteq revalidate
    PROVE  /\ building' \in SUBSET Slots /\ missed' \in [Slots -> Misses]
           /\ builds' \in SUBSET Builds
           /\ OneBuildPerSlot' /\ BuildsSound'
  BY DEF NoBuild, TypeOK, OneBuildPerSlot, BuildsSound

\* What an answered query looks like.
LEMMA AnsweredIs ==
    ASSUME NEW k \in Keys, NEW d \in Places, NEW a \in SUBSET Graphs
    PROVE  /\ Answered(k, d, a) \in QueryStates
           /\ Answered(k, d, a).slot = {} /\ Answered(k, d, a).got = {}
           /\ Answered(k, d, a).key = {k} /\ Answered(k, d, a).dir = {d}
           /\ Answered(k, d, a).ans = a
  BY DEF Answered, IdleQuery, QueryStates

\* A step of one query keeps the invariants about queries, if its new state
\* does.
LEMMA QueryKeeps ==
    ASSUME TypeOK, QueriesSound, NEW q \in Queries, NEW n \in QueryStates,
           n.slot \subseteq SubSlots,
           \A g \in n.got : g.dir = NestedRoot,
           AnswerIsForQuery =>
               \A g \in n.ans : /\ n.dir = {g.dir}
                                /\ g.dir # NestedRoot => n.key = {g.key},
           query' = [query EXCEPT ![q] = n]
    PROVE  /\ query' \in [Queries -> QueryStates] /\ QueriesSound'
           /\ AnswerIsForQuery => AnswerIsForQuery'
  <1>1. query' \in [Queries -> QueryStates] /\ QueriesSound'
    BY DEF TypeOK, QueriesSound
  <1>2. AnswerIsForQuery => AnswerIsForQuery'
    BY DEF TypeOK, AnswerIsForQuery
  <1> QED  BY <1>1, <1>2

\* In particular the step that answers it, when the answer is for it.
LEMMA AnswerKeeps ==
    ASSUME TypeOK, QueriesSound, NEW q \in Queries,
           NEW k \in Keys, NEW d \in Places, NEW a \in SUBSET Graphs,
           \A g \in a : d = g.dir /\ (g.dir # NestedRoot => k = g.key),
           query' = [query EXCEPT ![q] = Answered(k, d, a)]
    PROVE  /\ query' \in [Queries -> QueryStates] /\ QueriesSound'
           /\ AnswerIsForQuery => AnswerIsForQuery'
  <1> DEFINE n == Answered(k, d, a)
  <1>1. /\ n \in QueryStates /\ n.slot = {} /\ n.got = {}
        /\ n.key = {k} /\ n.dir = {d} /\ n.ans = a
    BY AnsweredIs
  <1>2. query' = [query EXCEPT ![q] = n]
    OBVIOUS
  <1> HIDE DEF n
  <1> QED  BY <1>1, <1>2, QueryKeeps

\* The main slot answers with its graph only if that is the asking query's.
LEMMA AnswerSlotKeeps ==
    ASSUME CacheInv, NEW q \in Queries, NEW k \in MainKeys, NEW d \in Dirs,
           NEW dirty \in BOOLEAN, AnswerSlot(q, k, d, dirty)
    PROVE  CacheInv' /\ (AnswerIsForQuery => AnswerIsForQuery')
  <1> USE DEF CacheInv, CacheSound
  <1>0. k \in Keys /\ d \in Places /\ MainSlot \in Slots /\ d \in PlacesOf(MainSlot)
    BY DEF Keys, Places, Slots, PlacesOf
  <1>1. /\ building' \in SUBSET Slots /\ missed' \in [Slots -> Misses]
        /\ builds' \in SUBSET Builds
        /\ OneBuildPerSlot' /\ BuildsSound'
    <2>0. revalidate' \subseteq revalidate
      BY DEF AnswerSlot
    <2>1. CASE NoBuild
      BY <2>0, <2>1, NoBuildKeeps
    <2>2. CASE MainSlot \notin building /\ Rebuild(MainSlot)
      BY <1>0, <2>0, <2>2, RebuildKeeps
    <2>3. CASE MainSlot \notin building /\ StartBuild(MainSlot, k, d, {})
      BY <1>0, <2>0, <2>3, StartKeeps
    <2> QED  BY <2>1, <2>2, <2>3 DEF AnswerSlot, ServeMain, FallBackMain
  <1>2. /\ query' \in [Queries -> QueryStates] /\ QueriesSound'
        /\ AnswerIsForQuery => AnswerIsForQuery'
    <2>1. CASE ServeMain(q, k, d, dirty)
      <3> DEFINE a == IF dirty THEN {} ELSE slot[MainSlot].resp
      <3>1. a \in SUBSET Graphs
        BY <1>0 DEF TypeOK, SlotStates
      <3>2. \A g \in a : d = g.dir /\ k = g.key
        BY <1>0, <2>1 DEF ServeMain, HasCache, DirCompatible, SlotsSound
      <3>3. query' = [query EXCEPT ![q] = Answered(k, d, a)]
        BY <2>1 DEF ServeMain
      <3> HIDE DEF a
      <3> QED  BY <1>0, <3>1, <3>2, <3>3, AnswerKeeps
    <2>2. CASE FallBackMain(q, k, d)
      <3>1. query' = [query EXCEPT ![q] = Answered(k, d, {})]
        BY <2>2 DEF FallBackMain
      <3>2. {} \in SUBSET Graphs /\ \A g \in {} : FALSE
        OBVIOUS
      <3> QED  BY <1>0, <3>1, <3>2, AnswerKeeps
    <2> QED  BY <2>1, <2>2 DEF AnswerSlot
  <1>3. TypeOK'
    BY <1>1, <1>2 DEF TypeOK, AnswerSlot
  <1>4. SlotsSound' /\ SavesSound'
    BY DEF AnswerSlot, SlotsSound, SavesSound
  <1> QED  BY <1>1, <1>2, <1>3, <1>4

\* A query that holds a slot holds one of the nested module, and the graph in
\* it is the nested module's.
LEMMA NestedSlotIs ==
    ASSUME TypeOK, SlotsSound, QueriesSound,
           NEW q \in Queries, NEW s \in query[q].slot
    PROVE  /\ s \in Slots /\ NestedRoot \in PlacesOf(s)
           /\ slot[s].resp \in SUBSET Graphs
           /\ \A g \in slot[s].resp : g.dir = NestedRoot
  <1>1. s \in SubSlots /\ s \in Slots
    BY DEF QueriesSound, Slots
  <1>2. PlacesOf(s) = {NestedRoot}
    BY <1>1, SlotsAssumption DEF PlacesOf
  <1>3. slot[s].resp \in SUBSET Graphs
    BY <1>1 DEF TypeOK, SlotStates
  <1>4. \A g \in slot[s].resp : g.dir = NestedRoot
    BY <1>1, <1>2 DEF SlotsSound
  <1> QED  BY <1>1, <1>2, <1>3, <1>4

\* A nested query's first read, and its read after a synchronous build.
LEMMA NestedReadKeeps ==
    ASSUME CacheInv, NEW q \in Queries,
           (\E dirty \in BOOLEAN : NestedRead(q, dirty)) \/ NestedReread(q)
    PROVE  CacheInv' /\ (AnswerIsForQuery => AnswerIsForQuery')
  <1> USE DEF CacheInv, CacheSound
  <1>0. UNCHANGED <<root, disk, events, slot, stale, building, timer, missed,
                    subslot, builds, revalidate, saves, saved, sessions>>
    BY DEF NestedRead, NestedReread, flags
  <1>1. PICK s \in query[q].slot, k \in query[q].key :
            \/ query' = [query EXCEPT ![q] = [@ EXCEPT !.pc = "miss"]]
            \/ query' = [query EXCEPT ![q] = Answered(k, NestedRoot, {})]
            \/ query' = [query EXCEPT ![q] =
                   [@ EXCEPT !.pc = "refresh", !.got = slot[s].resp]]
            \/ query' = [query EXCEPT ![q] = Answered(k, NestedRoot, slot[s].resp)]
    <2>1. CASE NestedReread(q)
      BY <2>1 DEF NestedReread
    <2>2. CASE \E dirty \in BOOLEAN : NestedRead(q, dirty)
      <3>1. PICK dirty \in BOOLEAN : NestedRead(q, dirty)
        BY <2>2
      <3>2. PICK s \in query[q].slot, k \in query[q].key :
              query' = [query EXCEPT ![q] =
                IF ~HasCache(s, k) THEN [@ EXCEPT !.pc = "miss"]
                ELSE IF dirty THEN Answered(k, NestedRoot, {})
                ELSE IF s \in stale
                     THEN [@ EXCEPT !.pc = "refresh", !.got = slot[s].resp]
                ELSE Answered(k, NestedRoot, slot[s].resp)]
        BY <3>1 DEF NestedRead
      <3>3. CASE ~HasCache(s, k)
        BY <3>2, <3>3
      <3>4. CASE HasCache(s, k) /\ dirty
        BY <3>2, <3>4
      <3>5. CASE HasCache(s, k) /\ ~dirty /\ s \in stale
        BY <3>2, <3>5
      <3>6. CASE HasCache(s, k) /\ ~dirty /\ s \notin stale
        BY <3>2, <3>6
      <3> QED  BY <3>3, <3>4, <3>5, <3>6
    <2> QED  BY <2>1, <2>2
  <1>2. /\ s \in Slots /\ slot[s].resp \in SUBSET Graphs
        /\ \A g \in slot[s].resp : g.dir = NestedRoot
    BY NestedSlotIs
  <1>3. k \in Keys /\ NestedRoot \in Places /\ {} \in SUBSET Graphs
    BY DEF TypeOK, QueryStates, Places
  <1>4. query[q] \in QueryStates
    BY DEF TypeOK
  <1>5. /\ query' \in [Queries -> QueryStates] /\ QueriesSound'
        /\ AnswerIsForQuery => AnswerIsForQuery'
    <2>1. CASE query' = [query EXCEPT ![q] = [@ EXCEPT !.pc = "miss"]]
      <3> DEFINE n == [query[q] EXCEPT !.pc = "miss"]
      <3>1. /\ n \in QueryStates /\ n.slot = query[q].slot /\ n.got = query[q].got
            /\ n.ans = query[q].ans /\ n.dir = query[q].dir /\ n.key = query[q].key
        BY <1>4 DEF QueryStates
      <3>2. query' = [query EXCEPT ![q] = n]
        BY <2>1
      <3>3. /\ n.slot \subseteq SubSlots /\ \A g \in n.got : g.dir = NestedRoot
            /\ AnswerIsForQuery =>
                   \A g \in n.ans : /\ n.dir = {g.dir}
                                    /\ g.dir # NestedRoot => n.key = {g.key}
        BY <3>1 DEF QueriesSound, AnswerIsForQuery
      <3> HIDE DEF n
      <3> QED  BY <3>1, <3>2, <3>3, QueryKeeps
    <2>2. CASE query' = [query EXCEPT ![q] = Answered(k, NestedRoot, {})]
      BY <1>3, <2>2, AnswerKeeps
    <2>3. CASE query' = [query EXCEPT ![q] =
                  [@ EXCEPT !.pc = "refresh", !.got = slot[s].resp]]
      <3> DEFINE n == [query[q] EXCEPT !.pc = "refresh", !.got = slot[s].resp]
      <3>1. /\ n \in QueryStates /\ n.slot = query[q].slot /\ n.got = slot[s].resp
            /\ n.ans = query[q].ans /\ n.dir = query[q].dir /\ n.key = query[q].key
        BY <1>2, <1>4 DEF QueryStates
      <3>2. query' = [query EXCEPT ![q] = n]
        BY <2>3
      <3> HIDE DEF n
      <3> QED  BY <1>2, <3>1, <3>2, QueryKeeps DEF QueriesSound, AnswerIsForQuery
    <2>4. CASE query' = [query EXCEPT ![q] = Answered(k, NestedRoot, slot[s].resp)]
      <3> DEFINE a == slot[s].resp
      <3>1. /\ a \in SUBSET Graphs
            /\ \A g \in a : NestedRoot = g.dir /\ (g.dir # NestedRoot => k = g.key)
        BY <1>2
      <3>2. query' = [query EXCEPT ![q] = Answered(k, NestedRoot, a)]
        BY <2>4
      <3> HIDE DEF a
      <3> QED  BY <1>3, <3>1, <3>2, AnswerKeeps
    <2> QED  BY <1>1, <2>1, <2>2, <2>3, <2>4
  <1>6. TypeOK' /\ OneBuildPerSlot'
    BY <1>0, <1>5 DEF TypeOK, OneBuildPerSlot
  <1>7. SlotsSound' /\ BuildsSound' /\ SavesSound'
    BY <1>0 DEF SlotsSound, BuildsSound, SavesSound
  <1> QED  BY <1>5, <1>6, <1>7

\* A nested query that starts a build, or finds one in flight.
LEMMA NestedBuildKeeps ==
    ASSUME CacheInv, NEW q \in Queries, NestedRefresh(q) \/ NestedClaim(q)
    PROVE  CacheInv' /\ (AnswerIsForQuery => AnswerIsForQuery')
  <1> USE DEF CacheInv, CacheSound
  <1>0. UNCHANGED <<root, disk, events, slot, stale, timer, subslot, revalidate,
                    saves, saved, sessions>>
    BY DEF NestedRefresh, NestedClaim
  <1>1. PICK s \in query[q].slot, k \in query[q].key :
            /\ \/ NoBuild
               \/ s \notin building /\ \E w \in SUBSET Queries :
                                          StartBuild(s, k, NestedRoot, w)
            /\ \/ query' = [query EXCEPT ![q] = Answered(k, NestedRoot, query[q].got)]
               \/ query' = [query EXCEPT ![q] = Answered(k, NestedRoot, {})]
               \/ query' = [query EXCEPT ![q].pc = "building"]
    <2>0. {} \in SUBSET Queries /\ {q} \in SUBSET Queries
      OBVIOUS
    <2>1. CASE NestedRefresh(q)
      BY <2>0, <2>1 DEF NestedRefresh, TypeOK
    <2>2. CASE NestedClaim(q)
      BY <2>0, <2>2 DEF NestedClaim
    <2> QED  BY <2>1, <2>2
  <1>2. s \in Slots /\ NestedRoot \in PlacesOf(s)
    BY NestedSlotIs
  <1>3. k \in Keys /\ NestedRoot \in Places /\ {} \in SUBSET Graphs
    BY DEF TypeOK, QueryStates, Places
  <1>4. query[q] \in QueryStates
    BY DEF TypeOK
  <1>5. /\ building' \in SUBSET Slots /\ missed' \in [Slots -> Misses]
        /\ builds' \in SUBSET Builds
        /\ OneBuildPerSlot' /\ BuildsSound'
    <2>0. revalidate' \subseteq revalidate
      BY <1>0
    <2>1. CASE NoBuild
      BY <2>0, <2>1, NoBuildKeeps
    <2>2. CASE s \notin building /\ \E w \in SUBSET Queries :
                                        StartBuild(s, k, NestedRoot, w)
      BY <1>2, <1>3, <2>0, <2>2, StartKeeps
    <2> QED  BY <1>1, <2>1, <2>2
  <1>6. /\ query' \in [Queries -> QueryStates] /\ QueriesSound'
        /\ AnswerIsForQuery => AnswerIsForQuery'
    <2>1. CASE query' = [query EXCEPT ![q] = Answered(k, NestedRoot, query[q].got)]
      <3>1. query[q].got \in SUBSET Graphs
        BY <1>4 DEF QueryStates
      <3> DEFINE a == query[q].got
      <3>2. \A g \in a : NestedRoot = g.dir /\ (g.dir # NestedRoot => k = g.key)
        BY DEF QueriesSound
      <3>3. query' = [query EXCEPT ![q] = Answered(k, NestedRoot, a)]
        BY <2>1
      <3> HIDE DEF a
      <3>4. a \in SUBSET Graphs
        BY <3>1 DEF a
      <3> QED  BY <1>3, <3>2, <3>3, <3>4, AnswerKeeps
    <2>2. CASE query' = [query EXCEPT ![q] = Answered(k, NestedRoot, {})]
      BY <1>3, <2>2, AnswerKeeps
    <2>3. CASE query' = [query EXCEPT ![q].pc = "building"]
      <3> DEFINE n == [query[q] EXCEPT !.pc = "building"]
      <3>1. /\ n \in QueryStates /\ n.slot = query[q].slot /\ n.got = query[q].got
            /\ n.ans = query[q].ans /\ n.dir = query[q].dir /\ n.key = query[q].key
        BY <1>4 DEF QueryStates
      <3>2. query' = [query EXCEPT ![q] = n]
        BY <2>3
      <3>3. /\ n.slot \subseteq SubSlots /\ \A g \in n.got : g.dir = NestedRoot
            /\ AnswerIsForQuery =>
                   \A g \in n.ans : /\ n.dir = {g.dir}
                                    /\ g.dir # NestedRoot => n.key = {g.key}
        BY <3>1 DEF QueriesSound, AnswerIsForQuery
      <3> HIDE DEF n
      <3> QED  BY <3>1, <3>2, <3>3, QueryKeeps
    <2> QED  BY <1>1, <2>1, <2>2, <2>3
  <1>7. TypeOK' /\ SlotsSound' /\ SavesSound'
    BY <1>0, <1>5, <1>6 DEF TypeOK, SlotsSound, SavesSound
  <1> QED  BY <1>5, <1>6, <1>7

\* Builds that run, end and fail.  Only a graph of the main slot is saved.
LEMMA BuildStepKeeps ==
    ASSUME CacheInv, NEW s \in Slots, BuildStep(s)
    PROVE  CacheInv' /\ (AnswerIsForQuery => AnswerIsForQuery')
  <1> USE DEF CacheInv, CacheSound
  <1>1. PICK b \in builds : LoadPackages(b) \/ BuildDone(b) \/ BuildFails(b)
    BY DEF BuildStep
  <1>2. /\ b \in Builds /\ b.slot \in Slots /\ b.key \in Keys /\ b.dir \in Places
        /\ b.read \in SUBSET Int /\ b.dir \in PlacesOf(b.slot)
    BY DEF TypeOK, Builds, BuildsSound
  <1>3. CASE LoadPackages(b)
    <2> DEFINE n == [b EXCEPT !.read = {disk[b.dir]}]
    <2>1. disk[b.dir] \in Int
      BY <1>2 DEF TypeOK
    <2>2. n \in Builds /\ n.slot = b.slot /\ n.dir = b.dir
      BY <1>2, <2>1 DEF Builds
    <2>3. /\ builds' = (builds \ {b}) \cup {n}
          /\ UNCHANGED <<root, disk, events, slot, flags, subslot, revalidate,
                         saves, saved, query, sessions>>
      BY <1>3 DEF LoadPackages
    <2> HIDE DEF n
    <2>4. TypeOK'
      BY <2>2, <2>3 DEF TypeOK, flags
    <2>5. OneBuildPerSlot'
      BY <2>2, <2>3 DEF OneBuildPerSlot, flags
    <2>6. SlotsSound' /\ BuildsSound' /\ SavesSound' /\ QueriesSound'
      BY <1>2, <2>2, <2>3 DEF SlotsSound, BuildsSound, SavesSound, QueriesSound, flags
    <2>7. AnswerIsForQuery => AnswerIsForQuery'
      BY <2>3 DEF AnswerIsForQuery
    <2> QED  BY <2>4, <2>5, <2>6, <2>7
  <1>4. CASE BuildDone(b) \/ BuildFails(b)
    <2>1. Resume(b) /\ builds' = builds \ {b} /\ building' = building \ {b.slot}
      BY <1>4 DEF BuildDone, BuildFails
    <2>2. /\ query' \in [Queries -> QueryStates] /\ QueriesSound'
          /\ AnswerIsForQuery => AnswerIsForQuery'
      <3>1. query' \in [Queries -> QueryStates]
        BY <2>1 DEF Resume, TypeOK, QueryStates
      <3>2. \A q \in Queries : /\ query'[q].slot = query[q].slot
                               /\ query'[q].got = query[q].got
                               /\ query'[q].ans = query[q].ans
                               /\ query'[q].dir = query[q].dir
                               /\ query'[q].key = query[q].key
        BY <2>1 DEF Resume, TypeOK, QueryStates
      <3> QED  BY <3>1, <3>2 DEF QueriesSound, AnswerIsForQuery
    <2>3. OneBuildPerSlot'
      BY <2>1 DEF OneBuildPerSlot
    <2>4. CASE BuildFails(b)
      <3>1. TypeOK'
        BY <1>2, <2>1, <2>2, <2>4 DEF BuildFails, TypeOK, Misses
      <3>2. SlotsSound' /\ BuildsSound' /\ SavesSound'
        BY <2>1, <2>4 DEF BuildFails, SlotsSound, BuildsSound, SavesSound
      <3> QED  BY <2>2, <2>3, <3>1, <3>2
    <2>5. CASE BuildDone(b)
      <3>1. PICK v \in b.read, r \in root :
              LET g == [key |-> b.key, dir |-> b.dir, ver |-> v] IN
              /\ slot' = [slot EXCEPT ![b.slot] = [resp |-> {g},
                             patternsKey |-> {b.key}, dir |-> {b.dir}]]
              /\ saves' = IF b.slot = MainSlot
                          THEN saves \cup {[resp |-> g, key |-> b.key,
                                            dir |-> b.dir, root |-> r]}
                          ELSE saves
        BY <2>5 DEF BuildDone
      <3> DEFINE g == [key |-> b.key, dir |-> b.dir, ver |-> v]
                 n == [resp |-> {g}, patternsKey |-> {b.key}, dir |-> {b.dir}]
                 c == [resp |-> g, key |-> b.key, dir |-> b.dir, root |-> r]
      <3>2. g \in Graphs /\ g.key = b.key /\ g.dir = b.dir
        BY <1>2 DEF Graphs
      <3>3. /\ n \in SlotStates /\ n.dir \subseteq PlacesOf(b.slot)
            /\ n.resp = {g} /\ n.patternsKey = {b.key} /\ n.dir = {b.dir}
        BY <1>2, <3>2 DEF SlotStates
      <3>4. c \in SavedGraphs /\ c.resp = g /\ c.key = b.key /\ c.dir = b.dir
        BY <1>2, <3>2 DEF SavedGraphs, TypeOK
      <3>5. b.slot = MainSlot => b.dir \in Dirs
        BY <1>2 DEF PlacesOf
      <3>6. /\ slot' = [slot EXCEPT ![b.slot] = n]
            /\ saves' = IF b.slot = MainSlot THEN saves \cup {c} ELSE saves
            /\ UNCHANGED <<root, disk, events, timer, missed, subslot,
                           revalidate, saved, sessions>>
            /\ stale' = stale \ {b.slot}
        BY <2>5, <3>1 DEF BuildDone
      <3> HIDE DEF g, n, c
      <3>7. TypeOK'
        BY <1>2, <2>1, <2>2, <3>3, <3>4, <3>6 DEF TypeOK
      <3>8. SlotsSound'
        BY <1>2, <3>2, <3>3, <3>6 DEF SlotsSound, TypeOK
      <3>9. BuildsSound' /\ SavesSound'
        BY <2>1, <3>2, <3>4, <3>5, <3>6 DEF BuildsSound, SavesSound
      <3> QED  BY <2>2, <2>3, <3>7, <3>8, <3>9
    <2> QED  BY <1>4, <2>4, <2>5
  <1> QED  BY <1>1, <1>3, <1>4

\* The timers: the deferred revalidation and the debounce of a stale slot.
LEMMA TimersKeep ==
    ASSUME CacheInv, RevalidationFires \/ \E s \in Slots : RebuildTimerFires(s)
    PROVE  CacheInv' /\ (AnswerIsForQuery => AnswerIsForQuery')
  <1> USE DEF CacheInv, CacheSound
  <1>0. UNCHANGED <<root, disk, events, slot, stale, subslot, saves, saved,
                    query, sessions>> /\ revalidate' \subseteq revalidate
    BY DEF RevalidationFires, RebuildTimerFires
  <1>1. timer' \in SUBSET Slots
    BY DEF RevalidationFires, RebuildTimerFires, TypeOK
  <1>2. /\ building' \in SUBSET Slots /\ missed' \in [Slots -> Misses]
        /\ builds' \in SUBSET Builds
        /\ OneBuildPerSlot' /\ BuildsSound'
    <2>1. CASE NoBuild
      BY <1>0, <2>1, NoBuildKeeps
    <2>2. CASE RevalidationFires /\ ~NoBuild
      <3>1. PICK a \in revalidate : /\ MainSlot \notin building
                                    /\ StartBuild(MainSlot, a.key, a.dir, {})
        BY <2>2 DEF RevalidationFires
      <3>2. MainSlot \in Slots /\ a.key \in Keys /\ a.dir \in PlacesOf(MainSlot)
        BY DEF TypeOK, BuildsSound, PlacesOf, Slots
      <3> QED  BY <1>0, <3>1, <3>2, StartKeeps
    <2>3. CASE (\E s \in Slots : RebuildTimerFires(s)) /\ ~NoBuild
      <3>1. PICK s \in Slots : s \notin building /\ Rebuild(s)
        BY <2>3 DEF RebuildTimerFires
      <3> QED  BY <1>0, <3>1, RebuildKeeps
    <2> QED  BY <2>1, <2>2, <2>3
  <1>3. TypeOK'
    BY <1>0, <1>1, <1>2 DEF TypeOK
  <1>4. SlotsSound' /\ SavesSound' /\ QueriesSound'
    BY <1>0 DEF SlotsSound, SavesSound, QueriesSound
  <1>5. AnswerIsForQuery => AnswerIsForQuery'
    BY <1>0 DEF AnswerIsForQuery
  <1> QED  BY <1>2, <1>3, <1>4, <1>5

\* Starting the proxy: a graph loaded from the cache file is the one the slot's
\* key and dir describe, also after retargetGraph rewrote its paths.
LEMMA SetRootKeeps ==
    ASSUME CacheInv, NEW d \in Dirs, SetRoot(d)
    PROVE  CacheInv' /\ (AnswerIsForQuery => AnswerIsForQuery')
  <1> USE DEF CacheInv, CacheSound
  <1>0. /\ UNCHANGED <<disk, events, building, timer, missed, subslot, builds,
                       saves, saved, query, sessions>>
        /\ root' = {d}
    BY DEF SetRoot
  <1>1. OneBuildPerSlot' /\ SavesSound' /\ QueriesSound'
        /\ (AnswerIsForQuery => AnswerIsForQuery')
    BY <1>0 DEF OneBuildPerSlot, SavesSound, QueriesSound, AnswerIsForQuery
  <1>2. CASE UNCHANGED <<slot, stale, revalidate>>
    BY <1>0, <1>1, <1>2 DEF TypeOK, SlotsSound, BuildsSound
  <1>3. CASE ~UNCHANGED <<slot, stale, revalidate>>
    <2>1. PICK c \in saved : \E l \in RetargetGraph(c, d) :
            /\ slot' = [slot EXCEPT ![MainSlot] = [resp |-> {l.resp},
                           patternsKey |-> {l.key}, dir |-> {l.dir}]]
            /\ stale' = stale \ {MainSlot}
            /\ revalidate' = {[key |-> l.key, dir |-> l.dir]}
      BY <1>3 DEF SetRoot
    <2>2. PICK l \in RetargetGraph(c, d) :
            /\ slot' = [slot EXCEPT ![MainSlot] = [resp |-> {l.resp},
                           patternsKey |-> {l.key}, dir |-> {l.dir}]]
            /\ stale' = stale \ {MainSlot}
            /\ revalidate' = {[key |-> l.key, dir |-> l.dir]}
      BY <2>1
    <2>3. /\ c \in SavedGraphs /\ c.dir \in Dirs
          /\ c.resp.dir = c.dir /\ c.resp.key = c.key
      BY DEF TypeOK, SavesSound
    <2>4. d \in Places
      BY DEF Places
    <2>5. /\ l.resp \in Graphs /\ l.key \in Keys /\ l.dir \in Dirs
          /\ l.resp.key = l.key /\ l.resp.dir = l.dir
      <3>1. CASE l = c
        BY <2>3, <3>1 DEF SavedGraphs
      <3> DEFINE n == [c EXCEPT !.dir = d, !.resp = [@ EXCEPT !.dir = d, !.ver = -1]]
      <3>2. CASE l = n
        <4>1. /\ l.key = c.key /\ l.dir = d
              /\ l.resp = [c.resp EXCEPT !.dir = d, !.ver = -1]
          BY <2>3, <3>2 DEF SavedGraphs
        <4>2. c.resp \in Graphs /\ c.key \in Keys
          BY <2>3 DEF SavedGraphs
        <4> DEFINE v == -1
        <4>3. v \in Int /\ l.resp = [c.resp EXCEPT !.dir = d, !.ver = v]
          BY <4>1
        <4> HIDE DEF v
        <4>4. l.resp \in Graphs /\ l.resp.dir = d /\ l.resp.key = c.resp.key
          BY <2>4, <4>2, <4>3 DEF Graphs
        <4> QED  BY <2>3, <4>1, <4>2, <4>4
      <3>3. RetargetGraph(c, d) = IF c.root = d THEN {c}
                                  ELSE IF c.dir = c.root THEN {n} ELSE {}
        BY DEF RetargetGraph
      <3> HIDE DEF n
      <3> QED  BY <3>1, <3>2, <3>3
    <2> DEFINE n == [resp |-> {l.resp}, patternsKey |-> {l.key}, dir |-> {l.dir}]
               a == [key |-> l.key, dir |-> l.dir]
    <2>6. /\ n \in SlotStates /\ n.resp = {l.resp}
          /\ n.patternsKey = {l.key} /\ n.dir = {l.dir}
      BY <2>5 DEF SlotStates, Places
    <2>7. a \in [key : Keys, dir : Places] /\ a.dir = l.dir
      BY <2>5 DEF Places
    <2>8. slot' = [slot EXCEPT ![MainSlot] = n] /\ revalidate' = {a}
      BY <2>2
    <2> HIDE DEF n, a
    <2>9. TypeOK'
      BY <1>0, <2>2, <2>6, <2>7, <2>8 DEF TypeOK
    <2>10. SlotsSound' /\ BuildsSound'
      <3>1. SlotsSound'
        BY <2>5, <2>6, <2>8 DEF SlotsSound, PlacesOf, TypeOK
      <3>2. BuildsSound'
        BY <1>0, <2>5, <2>7, <2>8 DEF BuildsSound
      <3> QED  BY <3>1, <3>2
    <2> QED  BY <1>1, <2>9, <2>10
  <1> QED  BY <1>2, <1>3

\* Dispatching a nested query, with a new slot object if there is none.
LEMMA SubslotForKeeps ==
    ASSUME CacheInv, NEW q \in Queries, NEW k \in NestedKeys, SubslotFor(q, k)
    PROVE  CacheInv' /\ (AnswerIsForQuery => AnswerIsForQuery')
  <1> USE DEF CacheInv, CacheSound
  <1>0. UNCHANGED <<root, disk, events, builds, revalidate, saves, saved,
                    sessions, building, timer>>
    BY DEF SubslotFor, flags
  <1>1. PICK s \in SubSlots :
          /\ \/ UNCHANGED <<slot, flags>>
             \/ /\ slot' = [slot EXCEPT ![s] = EmptySlot]
                /\ stale' = stale \ {s}
                /\ missed' = [missed EXCEPT ![s] = "no"]
          /\ subslot' = {s}
          /\ query' = [query EXCEPT ![q] = [IdleQuery EXCEPT
                 !.pc = "lookup", !.slot = {s}, !.key = {k}, !.dir = {NestedRoot}]]
    BY DEF SubslotFor
  <1>2. s \in Slots /\ k \in Keys /\ NestedRoot \in Places
    BY DEF Slots, Keys, Places
  <1>3. /\ query' \in [Queries -> QueryStates] /\ QueriesSound'
        /\ AnswerIsForQuery => AnswerIsForQuery'
    <2> DEFINE n == [IdleQuery EXCEPT !.pc = "lookup", !.slot = {s},
                                      !.key = {k}, !.dir = {NestedRoot}]
    <2>1. n \in QueryStates /\ n.slot = {s} /\ n.got = {} /\ n.ans = {}
      BY <1>2 DEF IdleQuery, QueryStates
    <2>2. query' = [query EXCEPT ![q] = n]
      BY <1>1
    <2> HIDE DEF n
    <2> QED  BY <2>1, <2>2, QueryKeeps
  <1>4. /\ slot' \in [Slots -> SlotStates] /\ SlotsSound'
        /\ stale' \in SUBSET Slots /\ missed' \in [Slots -> Misses]
    <2>1. CASE UNCHANGED <<slot, flags>>
      BY <2>1 DEF TypeOK, SlotsSound, flags
    <2>2. CASE /\ slot' = [slot EXCEPT ![s] = EmptySlot]
               /\ stale' = stale \ {s}
               /\ missed' = [missed EXCEPT ![s] = "no"]
      <3>1. EmptySlot \in SlotStates /\ EmptySlot.resp = {} /\ EmptySlot.dir = {}
        BY DEF EmptySlot, SlotStates
      <3> QED  BY <1>2, <2>2, <3>1 DEF TypeOK, SlotsSound, Misses
    <2> QED  BY <1>1, <2>1, <2>2
  <1>5. TypeOK' /\ OneBuildPerSlot'
    BY <1>0, <1>1, <1>3, <1>4 DEF TypeOK, OneBuildPerSlot
  <1>6. BuildsSound' /\ SavesSound'
    BY <1>0 DEF BuildsSound, SavesSound
  <1> QED  BY <1>3, <1>4, <1>5, <1>6

\* Steps that touch no graph: disk changes, file events, a dropped subslot,
\* and the cache file being written or not.
LEMMA EnvironmentKeeps ==
    ASSUME CacheInv,
           \/ \E p \in Places : Change(p) \/ MarkStaleFor(p) \/ UpdateUnchanged(p)
           \/ \E c \in saves : SaveDiskCache(c) \/ SaveTorn(c) \/ SaveFails(c)
           \/ RemoveSlot
    PROVE  CacheInv' /\ (AnswerIsForQuery => AnswerIsForQuery')
  <1> USE DEF CacheInv, CacheSound
  <1>0. UNCHANGED <<root, slot, building, builds, revalidate, query, sessions>>
    BY DEF Change, MarkStaleFor, UpdateUnchanged, SaveDiskCache, SaveTorn, SaveFails,
           RemoveSlot, flags
  <1>1. /\ OneBuildPerSlot' /\ SlotsSound' /\ BuildsSound' /\ QueriesSound'
        /\ AnswerIsForQuery => AnswerIsForQuery'
    BY <1>0 DEF OneBuildPerSlot, SlotsSound, BuildsSound, QueriesSound,
                AnswerIsForQuery
  <1>2. SavesSound'
    BY DEF Change, MarkStaleFor, UpdateUnchanged, SaveDiskCache, SaveTorn, SaveFails,
           RemoveSlot, SavesSound
  <1>3. TypeOK'
    <2>1. ASSUME NEW p \in Places, Change(p) PROVE TypeOK'
      BY <1>0, <2>1 DEF Change, TypeOK, flags
    <2>2. ASSUME NEW p \in Places, MarkStaleFor(p) PROVE TypeOK'
      <3>1. OwnerSlot(p) \subseteq Slots
        BY DEF OwnerSlot, TypeOK, Slots
      <3>2. /\ stale' \in SUBSET Slots /\ timer' \in SUBSET Slots
            /\ missed' \in [Slots -> Misses]
        BY <2>2, <3>1 DEF MarkStaleFor, MarkSlotStale, TypeOK, Misses
      <3>3. events' \in [Places -> Nat]
        BY <2>2 DEF MarkStaleFor, TypeOK
      <3> QED  BY <1>0, <2>2, <3>2, <3>3 DEF MarkStaleFor, TypeOK
    <2>3. ASSUME NEW c \in saves, SaveDiskCache(c) \/ SaveTorn(c) \/ SaveFails(c) PROVE TypeOK'
      BY <1>0, <2>3 DEF SaveDiskCache, SaveTorn, SaveFails, TypeOK, flags
    <2>4. ASSUME RemoveSlot PROVE TypeOK'
      BY <1>0, <2>4 DEF RemoveSlot, TypeOK, flags
    <2>5. ASSUME NEW p \in Places, UpdateUnchanged(p) PROVE TypeOK'
      <3>1. missed' \in [Slots -> Misses]
        BY <2>5 DEF UpdateUnchanged, TypeOK, Misses
      <3>2. events' \in [Places -> Nat]
        BY <2>5 DEF UpdateUnchanged, TypeOK
      <3> QED  BY <1>0, <2>5, <3>1, <3>2 DEF UpdateUnchanged, TypeOK
    <2> QED  BY <2>1, <2>2, <2>3, <2>4, <2>5
  <1> QED  BY <1>1, <1>2, <1>3

\* A restart leaves only the cache file.
LEMMA RestartKeeps ==
    ASSUME CacheInv, Restart
    PROVE  CacheInv' /\ AnswerIsForQuery'
  <1> USE DEF CacheInv, CacheSound, Restart
  <1>1. EmptySlot \in SlotStates /\ IdleQuery \in QueryStates
    BY DEF EmptySlot, SlotStates, IdleQuery, QueryStates
  <1>2. TypeOK'
    BY <1>1 DEF TypeOK, Misses
  <1>3. OneBuildPerSlot'
    BY DEF OneBuildPerSlot
  <1>4. CacheSound' /\ AnswerIsForQuery'
    BY DEF SlotsSound, BuildsSound, SavesSound, QueriesSound,
           AnswerIsForQuery, EmptySlot, IdleQuery
  <1> QED  BY <1>2, <1>3, <1>4

\* Every step keeps the invariant, and that answers are for their queries.
LEMMA InvStep ==
    CacheInv /\ [Next]_vars => CacheInv' /\ (AnswerIsForQuery => AnswerIsForQuery')
  <1> SUFFICES ASSUME CacheInv, [Next]_vars
               PROVE  CacheInv' /\ (AnswerIsForQuery => AnswerIsForQuery')
    OBVIOUS
  <1>1. ASSUME NEW s \in Slots, BuildStep(s)
        PROVE  CacheInv' /\ (AnswerIsForQuery => AnswerIsForQuery')
    BY <1>1, BuildStepKeeps
  <1>2. ASSUME QueryStep
        PROVE  CacheInv' /\ (AnswerIsForQuery => AnswerIsForQuery')
    BY <1>2, AnswerSlotKeeps, SubslotForKeeps, NestedReadKeeps, NestedBuildKeeps
       DEF QueryStep
  <1>3. ASSUME RevalidationFires \/ \E s \in Slots : RebuildTimerFires(s)
        PROVE  CacheInv' /\ (AnswerIsForQuery => AnswerIsForQuery')
    BY <1>3, TimersKeep
  <1>4. ASSUME \/ \E p \in Places : Change(p) \/ MarkStaleFor(p) \/ UpdateUnchanged(p)
               \/ \E c \in saves : SaveDiskCache(c) \/ SaveTorn(c) \/ SaveFails(c)
               \/ RemoveSlot
        PROVE  CacheInv' /\ (AnswerIsForQuery => AnswerIsForQuery')
    BY <1>4, EnvironmentKeeps
  <1>5. ASSUME NEW d \in Dirs, SetRoot(d)
        PROVE  CacheInv' /\ (AnswerIsForQuery => AnswerIsForQuery')
    BY <1>5, SetRootKeeps
  <1>6. CASE Restart
    BY <1>6, RestartKeeps
  <1>7. CASE UNCHANGED vars
    BY <1>7 DEF vars, flags, CacheInv, CacheSound, TypeOK, OneBuildPerSlot,
                SlotsSound, BuildsSound, SavesSound, QueriesSound,
                AnswerIsForQuery
  <1> QED  BY <1>1, <1>2, <1>3, <1>4, <1>5, <1>6, <1>7 DEF Next

\* Types, the building flag and the soundness of every stored graph are
\* invariant, whatever the interleaving and over any number of sessions.
THEOREM CacheInvariant == Spec => []CacheInv
  BY InvInit, InvStep, PTL DEF Spec

\* Every variable of the graph cache keeps its type: no event is counted twice.
THEOREM CacheTypes == Spec => []TypeOK
  <1>1. CacheInv => TypeOK
    BY DEF CacheInv
  <1> QED  BY <1>1, CacheInvariant, PTL

\* building is set exactly while one buildSlot runs on the slot: no two
\* go list runs ever write one slot.
THEOREM SingleBuild == Spec => []OneBuildPerSlot
  <1>1. CacheInv => OneBuildPerSlot
    BY DEF CacheInv
  <1> QED  BY <1>1, CacheInvariant, PTL

\* A served graph is for the asking checkout and module, and in the main module
\* for the asking patterns and flags, across worktrees and restarts.
THEOREM AnswersFit == Spec => []AnswerIsForQuery
  <1>1. CacheInv /\ AnswerIsForQuery /\ [Next]_vars
          => (CacheInv /\ AnswerIsForQuery)'
    BY InvStep
  <1> QED  BY <1>1, InvInit, PTL DEF Spec

-----------------------------------------------------------------------------
(* The cache follows the disk. *)

\* Between sessions nothing is cached or under way; in one there is one checkout.
Asleep ==
    /\ builds = {} /\ revalidate = {} /\ timer = {} /\ subslot = {}
    /\ \A s \in Slots : slot[s].resp = {}
    /\ \A q \in Queries : query[q].pc = "idle"
SessionsApart == (\A d, e \in root : d = e) /\ (root = {} => Asleep)

\* What a build has read is what is on disk, or the event of the change that came
\* after is still to be handled.
ReadFresh(b) ==
    \/ b.read \subseteq {disk[b.dir]}
    \/ b.dir \in root \cup {NestedRoot} /\ events[b.dir] > 0
BuildsFresh ==
    \A b \in builds : b.slot \in Live /\ missed[b.slot] = "no" => ReadFresh(b)

FollowInv == SessionsApart /\ BuildsFresh /\ OutdatedHasTrigger

\* The part of RefreshPending that no timer fulfils.
InFlight(s) ==
    \/ \E g \in slot[s].resp : events[g.dir] > 0
    \/ \E b \in builds : b.slot = s /\ b.read \subseteq {disk[b.dir]}

LEMMA SlotFacts ==
    ASSUME TypeOK, SlotsSound
    PROVE  /\ MainSlot \in Slots /\ Live \subseteq Slots
           /\ \A s \in Slots : \A g \in slot[s].resp :
                /\ g \in Graphs /\ g.dir \in PlacesOf(s) /\ g.dir \in Places
                /\ slot[s].patternsKey # {}
           /\ NestedRoot \notin Dirs
  <1>1. MainSlot \in Slots /\ Live \subseteq Slots
    BY DEF Live, Slots, TypeOK
  <1>2. ASSUME NEW s \in Slots, NEW g \in slot[s].resp
        PROVE  g \in Graphs /\ g.dir \in PlacesOf(s) /\ slot[s].patternsKey # {}
    <2>1. g \in Graphs
      BY DEF TypeOK, SlotStates
    <2> QED  BY <2>1 DEF SlotsSound
  <1>3. \A s \in Slots : PlacesOf(s) \subseteq Places
    BY DEF PlacesOf, Places
  <1> QED  BY <1>1, <1>2, <1>3, SlotsAssumption

\* An outdated slot and a build on it are about one place.
LEMMA OnePlace ==
    ASSUME CacheInv, SessionsApart, NEW s \in Slots, NEW d \in PlacesOf(s), NEW e \in PlacesOf(s),
           d \in root \cup {NestedRoot}, e \in root \cup {NestedRoot}
    PROVE  d = e
  BY SlotsAssumption DEF PlacesOf, SessionsApart, CacheInv, TypeOK

\* A timer that finds a build in flight loses nothing.
LEMMA BuildServes ==
    ASSUME CacheInv, FollowInv, NEW s \in Live \cap building, missed[s] = "no", Outdated(s)
    PROVE  InFlight(s)
  <1> USE DEF CacheInv, CacheSound
  <1>1. s \in Slots
    BY SlotFacts
  <1>2. PICK b \in builds : b.slot = s
    BY DEF OneBuildPerSlot
  <1>3. ReadFresh(b)
    BY <1>2 DEF FollowInv, BuildsFresh
  <1>4. PICK g \in slot[s].resp : g.dir \in root \cup {NestedRoot}
    BY DEF Outdated
  <1>5. g.dir \in PlacesOf(s) /\ b.dir \in PlacesOf(s)
    BY <1>1, <1>2, <1>4, SlotFacts DEF BuildsSound
  <1>6. CASE b.read \subseteq {disk[b.dir]}
    BY <1>2, <1>6 DEF InFlight
  <1>7. CASE b.dir \in root \cup {NestedRoot} /\ events[b.dir] > 0
    <2>1. b.dir = g.dir
      BY <1>1, <1>4, <1>5, <1>7, OnePlace DEF FollowInv
    <2> QED  BY <1>7, <2>1 DEF InFlight
  <1> QED  BY <1>3, <1>6, <1>7 DEF ReadFresh

\* A step that starts no build: a timer may end, but only when a build is in flight.
LEMMA NoBuildFollows ==
    ASSUME CacheInv, FollowInv, UNCHANGED <<root, disk, events, slot, stale, missed, builds>>,
           subslot' \subseteq subslot, timer \ building \subseteq timer',
           MainSlot \notin building => revalidate' = revalidate
    PROVE  BuildsFresh' /\ OutdatedHasTrigger'
  <1> USE DEF CacheInv, CacheSound
  <1>1. Live' \subseteq Live
    BY DEF Live
  <1>2. BuildsFresh'
    BY <1>1 DEF FollowInv, BuildsFresh, ReadFresh
  <1>3. ASSUME NEW s \in Live', Outdated(s)', missed'[s] = "no" PROVE RefreshPending(s)'
    <2>1. s \in Live /\ Outdated(s) /\ missed[s] = "no" /\ RefreshPending(s)
      BY <1>1, <1>3 DEF Outdated, FollowInv, OutdatedHasTrigger
    <2>2. CASE s \in building
      <3>1. InFlight(s)
        BY <2>1, <2>2, BuildServes
      <3> QED  BY <3>1 DEF InFlight, RefreshPending
    <2>3. CASE s \notin building
      BY <2>1, <2>3 DEF RefreshPending
    <2> QED  BY <2>2, <2>3
  <1> QED  BY <1>2, <1>3 DEF OutdatedHasTrigger

\* A build that starts will see what is on disk.
LEMMA StartFollows ==
    ASSUME CacheInv, FollowInv, NEW s \in Slots, s \notin building, NEW k, NEW d, NEW w,
           StartBuild(s, k, d, w), UNCHANGED <<root, disk, events, slot, stale, subslot>>,
           timer \ {s} \subseteq timer', s # MainSlot => revalidate' = revalidate
    PROVE  BuildsFresh' /\ OutdatedHasTrigger'
  <1> USE DEF CacheInv, CacheSound
  <1>0. PICK n : n = NewBuild(s, k, d, w)
    OBVIOUS
  <1>1. n.slot = s /\ n.read = {}
    BY <1>0 DEF NewBuild
  <1>2. builds' = builds \cup {n} /\ missed' = [missed EXCEPT ![s] = "no"]
    BY <1>0 DEF StartBuild
  <1>3. Live' = Live /\ \A u \in Slots \ {s} : missed'[u] = missed[u]
    BY <1>2 DEF Live, TypeOK
  <1>4. \A b \in builds : b.slot # s /\ b.slot \in Slots
    BY DEF OneBuildPerSlot, TypeOK
  <1>5. BuildsFresh'
    <2>1. ASSUME NEW b \in builds, b.slot \in Live, missed'[b.slot] = "no" PROVE ReadFresh(b)'
      BY <1>3, <1>4, <2>1 DEF FollowInv, BuildsFresh, ReadFresh
    <2>2. ReadFresh(n)'
      BY <1>1 DEF ReadFresh
    <2> QED  BY <1>2, <1>3, <2>1, <2>2 DEF BuildsFresh
  <1>6. ASSUME NEW u \in Live', Outdated(u)', missed'[u] = "no" PROVE RefreshPending(u)'
    <2>1. CASE u = s
      BY <1>1, <1>2, <2>1 DEF RefreshPending
    <2>2. CASE u # s
      <3>1. u \in Slots /\ u \in Live /\ Outdated(u)
        BY <1>3, <1>6, SlotFacts DEF Outdated
      <3>2. RefreshPending(u)
        BY <1>3, <1>6, <2>2, <3>1 DEF FollowInv, OutdatedHasTrigger
      <3> QED  BY <1>2, <2>2, <3>2 DEF RefreshPending
    <2> QED  BY <2>1, <2>2
  <1> QED  BY <1>5, <1>6 DEF OutdatedHasTrigger

\* Driver queries, and the timers.
LEMMA QueriesFollow ==
    ASSUME CacheInv, FollowInv, NEW q \in Queries,
           \/ \E k \in MainKeys, d \in Dirs, dirty \in BOOLEAN : AnswerSlot(q, k, d, dirty)
           \/ \E dirty \in BOOLEAN : NestedRead(q, dirty)
           \/ NestedRefresh(q) \/ NestedClaim(q) \/ NestedReread(q)
    PROVE  FollowInv'
  <1> USE DEF CacheInv, CacheSound
  <1>1. UNCHANGED <<root, disk, events, slot, stale, timer, subslot, revalidate>>
    BY DEF AnswerSlot, NestedRead, NestedRefresh, NestedClaim, NestedReread, flags
  <1>2. root # {}
    BY DEF AnswerSlot, MayAsk, NestedRead, NestedRefresh, NestedClaim, NestedReread, FollowInv,
           SessionsApart, Asleep
  <1>3. SessionsApart'
    BY <1>1, <1>2 DEF FollowInv, SessionsApart
  <1>4. CASE NoBuild
    BY <1>1, <1>3, <1>4, NoBuildFollows DEF NoBuild, FollowInv
  <1>5. ASSUME NEW s \in Slots, s \notin building, NEW k, NEW d, NEW w, StartBuild(s, k, d, w)
        PROVE  FollowInv'
    BY <1>1, <1>3, <1>5, StartFollows DEF FollowInv
  <1>6. ASSUME NEW k \in MainKeys, NEW d \in Dirs, NEW dirty \in BOOLEAN, AnswerSlot(q, k, d, dirty)
        PROVE  FollowInv'
    BY <1>4, <1>5, <1>6, SlotFacts DEF AnswerSlot, ServeMain, FallBackMain, Rebuild
  <1>7. CASE NestedRefresh(q)
    BY <1>4, <1>5, <1>7, NestedSlotIs DEF NestedRefresh
  <1>8. CASE NestedClaim(q)
    BY <1>4, <1>5, <1>8, NestedSlotIs DEF NestedClaim
  <1>9. CASE NestedReread(q) \/ \E dirty \in BOOLEAN : NestedRead(q, dirty)
    BY <1>4, <1>9 DEF NestedReread, NestedRead, NoBuild, flags
  <1> QED  BY <1>6, <1>7, <1>8, <1>9

LEMMA TimersFollow ==
    ASSUME CacheInv, FollowInv, RevalidationFires \/ \E s \in Slots : RebuildTimerFires(s)
    PROVE  FollowInv'
  <1> USE DEF CacheInv, CacheSound
  <1>1. UNCHANGED <<root, disk, events, slot, stale, subslot>> /\ root # {}
    BY DEF RevalidationFires, RebuildTimerFires, FollowInv, SessionsApart, Asleep
  <1>2. SessionsApart'
    BY <1>1 DEF FollowInv, SessionsApart
  <1>3. CASE RevalidationFires
    <2>1. timer' = timer
      BY <1>3 DEF RevalidationFires
    <2>2. CASE MainSlot \in building
      BY <1>1, <1>2, <1>3, <2>1, <2>2, NoBuildFollows DEF RevalidationFires, NoBuild, FollowInv
    <2>3. CASE MainSlot \notin building
      BY <1>1, <1>2, <1>3, <2>1, <2>3, StartFollows, SlotFacts DEF RevalidationFires, FollowInv
    <2> QED  BY <2>2, <2>3
  <1>4. ASSUME NEW s \in Slots, RebuildTimerFires(s) PROVE FollowInv'
    <2>1. timer' = timer \ {s} /\ revalidate' = revalidate
      BY <1>4 DEF RebuildTimerFires
    <2>2. CASE s \in building
      BY <1>1, <1>2, <1>4, <2>1, <2>2, NoBuildFollows DEF RebuildTimerFires, NoBuild, FollowInv
    <2>3. CASE s \notin building
      BY <1>1, <1>2, <1>4, <2>1, <2>3, StartFollows DEF RebuildTimerFires, Rebuild, FollowInv
    <2> QED  BY <2>2, <2>3
  <1> QED  BY <1>3, <1>4

\* A build reads the disk, publishes its graph, or fails.
LEMMA BuildStepFollows ==
    ASSUME CacheInv, FollowInv, NEW s \in Slots, BuildStep(s)
    PROVE  FollowInv'
  <1> USE DEF CacheInv, CacheSound
  <1>1. PICK b \in builds : b.slot = s /\ (LoadPackages(b) \/ BuildDone(b) \/ BuildFails(b))
    BY DEF BuildStep
  <1>2. UNCHANGED <<root, disk, events, timer, subslot, revalidate>> /\ Live' = Live
    BY <1>1 DEF LoadPackages, BuildDone, BuildFails, flags, Live
  <1>3. SessionsApart'
    BY <1>2 DEF FollowInv, SessionsApart, Asleep
  <1>4. /\ b \in Builds /\ b.dir \in Places /\ b.dir \in PlacesOf(s) /\ b.read \in SUBSET Int
        /\ \A c \in builds : c.slot = s => c = b
    BY <1>1 DEF TypeOK, Builds, BuildsSound, OneBuildPerSlot
  <1>5. CASE LoadPackages(b)
    <2>0. PICK n : n = [b EXCEPT !.read = {disk[b.dir]}]
      OBVIOUS
    <2>1. n.slot = s /\ n.dir = b.dir /\ n.read = {disk[b.dir]}
      BY <1>1, <1>4, <2>0 DEF Builds
    <2>2. builds' = (builds \ {b}) \cup {n} /\ UNCHANGED <<slot, stale, missed>>
      BY <1>5, <2>0 DEF LoadPackages, flags
    <2>3. ReadFresh(n)'
      BY <1>2, <2>1 DEF ReadFresh
    <2>4. BuildsFresh'
      BY <1>2, <2>2, <2>3 DEF FollowInv, BuildsFresh, ReadFresh
    <2>5. ASSUME NEW u \in Live', Outdated(u)', missed'[u] = "no" PROVE RefreshPending(u)'
      <3>1. RefreshPending(u)
        BY <1>2, <2>2, <2>5 DEF FollowInv, OutdatedHasTrigger, Outdated
      <3> QED  BY <1>1, <1>2, <2>1, <2>2, <3>1 DEF RefreshPending
    <2> QED  BY <1>3, <2>4, <2>5 DEF FollowInv, OutdatedHasTrigger
  <1>6. CASE BuildFails(b)
    <2>1. builds' = builds \ {b} /\ missed' = [missed EXCEPT ![s] = "failed"] /\ UNCHANGED <<slot, stale>>
      BY <1>1, <1>6 DEF BuildFails
    <2>2. missed'[s] # "no" /\ \A u \in Slots \ {s} : missed'[u] = missed[u]
      BY <2>1 DEF TypeOK
    <2>3. \A c \in builds' : c \in builds /\ c.slot # s /\ c.slot \in Slots
      BY <1>4, <2>1 DEF OneBuildPerSlot, TypeOK
    <2>4. BuildsFresh'
      BY <1>2, <2>2, <2>3 DEF FollowInv, BuildsFresh, ReadFresh
    <2>5. ASSUME NEW u \in Live', Outdated(u)', missed'[u] = "no" PROVE RefreshPending(u)'
      <3>1. u # s /\ u \in Slots /\ missed[u] = "no"
        BY <1>2, <2>2, <2>5, SlotFacts
      <3>2. RefreshPending(u)
        BY <1>2, <2>1, <2>5, <3>1 DEF FollowInv, OutdatedHasTrigger, Outdated
      <3> QED  BY <1>1, <1>2, <2>1, <3>1, <3>2 DEF RefreshPending
    <2> QED  BY <1>3, <2>4, <2>5 DEF FollowInv, OutdatedHasTrigger
  <1>7. CASE BuildDone(b)
    <2>1. PICK v \in b.read :
            slot' = [slot EXCEPT ![s] = [resp |-> {[key |-> b.key, dir |-> b.dir, ver |-> v]},
                                         patternsKey |-> {b.key}, dir |-> {b.dir}]]
      BY <1>1, <1>7 DEF BuildDone
    <2>2. /\ slot'[s].resp = {[key |-> b.key, dir |-> b.dir, ver |-> v]}
          /\ \A u \in Slots \ {s} : slot'[u] = slot[u]
      BY <2>1 DEF TypeOK
    <2>3. builds' = builds \ {b} /\ stale' = stale \ {s} /\ missed' = missed
      BY <1>1, <1>7 DEF BuildDone
    <2>4. BuildsFresh'
      BY <1>2, <2>3 DEF FollowInv, BuildsFresh, ReadFresh
    <2>5. ASSUME NEW u \in Live', Outdated(u)', missed'[u] = "no" PROVE RefreshPending(u)'
      <3>1. u \in Slots /\ u \in Live /\ missed[u] = "no"
        BY <1>2, <2>3, <2>5, SlotFacts
      <3>2. CASE u = s
        <4>1. ReadFresh(b)
          BY <1>1, <3>1, <3>2 DEF FollowInv, BuildsFresh
        <4>2. v < disk[b.dir]
          BY <1>2, <2>2, <2>5, <3>2 DEF Outdated
        <4>3. v # disk[b.dir]
          BY <1>4, <4>2 DEF TypeOK
        <4>4. events[b.dir] > 0
          BY <4>1, <4>3 DEF ReadFresh
        <4>5. PICK g : g = [key |-> b.key, dir |-> b.dir, ver |-> v]
          OBVIOUS
        <4>6. g.dir = b.dir /\ g \in slot'[u].resp
          BY <2>2, <3>2, <4>5
        <4> QED  BY <1>2, <4>4, <4>6 DEF RefreshPending
      <3>3. CASE u # s
        <4>1. RefreshPending(u)
          BY <1>2, <2>2, <2>5, <3>1, <3>3 DEF FollowInv, OutdatedHasTrigger, Outdated
        <4>2. \A c \in builds : c.slot = u => c \in builds'
          BY <1>1, <2>3, <3>3
        <4>3. slot'[u] = slot[u] /\ (u \in stale => u \in stale')
          BY <2>2, <2>3, <3>1, <3>3
        <4> QED  BY <1>2, <4>1, <4>2, <4>3 DEF RefreshPending
      <3> QED  BY <3>2, <3>3
    <2> QED  BY <1>3, <2>4, <2>5 DEF FollowInv, OutdatedHasTrigger
  <1> QED  BY <1>1, <1>5, <1>6, <1>7

\* The disk changes: an event is on its way to every slot it concerns.
LEMMA ChangeFollows ==
    ASSUME CacheInv, FollowInv, NEW p \in Places, Change(p)
    PROVE  FollowInv'
  <1> USE DEF CacheInv, CacheSound
  <1>1. UNCHANGED <<root, slot, stale, building, timer, missed, subslot, builds, revalidate, query>>
        /\ Live' = Live
    BY DEF Change, flags, Live
  <1>2. SessionsApart'
    BY <1>1 DEF FollowInv, SessionsApart, Asleep
  <1>3. CASE root = {}
    <2>1. builds = {} /\ \A s \in Live : slot[s].resp = {}
      BY <1>3, SlotFacts DEF FollowInv, SessionsApart, Asleep
    <2> QED  BY <1>1, <1>2, <2>1 DEF FollowInv, BuildsFresh, OutdatedHasTrigger, Outdated
  <1>4. CASE root # {}
    <2>1. p \in root \cup {NestedRoot} /\ events' = [events EXCEPT ![p] = events[p] + 1]
          /\ disk' = [disk EXCEPT ![p] = disk[p] + 1]
      BY <1>4 DEF Change
    <2>2. /\ events'[p] > 0 /\ \A e \in Places \ {p} : events'[e] = events[e] /\ disk'[e] = disk[e]
          /\ \A e \in Places : events[e] > 0 => events'[e] > 0
      BY <2>1 DEF TypeOK
    <2>3. \A b \in builds : b.dir \in Places /\ b.slot \in Slots /\ b.dir \in PlacesOf(b.slot)
      BY DEF TypeOK, Builds, BuildsSound
    <2>4. BuildsFresh'
      <3>1. ASSUME NEW b \in builds, ReadFresh(b) PROVE ReadFresh(b)'
        BY <1>1, <2>1, <2>2, <2>3, <3>1 DEF ReadFresh
      <3> QED  BY <1>1, <3>1 DEF FollowInv, BuildsFresh
    <2>5. ASSUME NEW u \in Live', Outdated(u)', missed'[u] = "no" PROVE RefreshPending(u)'
      <3>1. u \in Slots /\ u \in Live
        BY <1>1, SlotFacts
      <3>2. PICK g \in slot[u].resp : g.dir \in root \cup {NestedRoot} /\ g.ver < disk'[g.dir]
        BY <1>1, <2>5 DEF Outdated
      <3>3. g.dir \in Places /\ g.dir \in PlacesOf(u)
        BY <3>1, <3>2, SlotFacts
      <3>4. CASE g.dir = p
        BY <1>1, <2>2, <3>2, <3>4 DEF RefreshPending
      <3>5. CASE g.dir # p
        <4>1. Outdated(u)
          BY <2>2, <3>2, <3>3, <3>5 DEF Outdated
        <4>2. RefreshPending(u)
          BY <1>1, <2>5, <3>1, <4>1 DEF FollowInv, OutdatedHasTrigger
        <4>3. \A b \in builds : b.slot = u => b.dir # p
          BY <2>1, <2>3, <3>1, <3>2, <3>3, <3>5, OnePlace DEF FollowInv
        <4>4. \A h \in slot[u].resp : h.dir \in Places
          BY <3>1, SlotFacts
        <4> QED  BY <1>1, <2>2, <2>3, <4>2, <4>3, <4>4 DEF RefreshPending
      <3> QED  BY <3>4, <3>5
    <2> QED  BY <1>2, <2>4, <2>5 DEF FollowInv, OutdatedHasTrigger
  <1> QED  BY <1>3, <1>4

\* An event is handled: the slot it concerns is marked, or has missed it.
LEMMA MarkFollows ==
    ASSUME CacheInv, FollowInv, NEW p \in Places, MarkStaleFor(p)
    PROVE  FollowInv'
  <1> USE DEF CacheInv, CacheSound
  <1> DEFINE built == {s \in OwnerSlot(p) : slot[s].patternsKey # {}}
  <1>1. UNCHANGED <<root, disk, slot, building, subslot, builds, revalidate, query>> /\ Live' = Live
    BY DEF MarkStaleFor, Live
  <1>2. /\ events' = [events EXCEPT ![p] = events[p] - 1]
        /\ stale' = stale \cup built /\ timer' = timer \cup built
        /\ missed' = [s \in Slots |-> IF s \in OwnerSlot(p) \cap building THEN "raced" ELSE missed[s]]
    BY DEF MarkStaleFor, MarkSlotStale
  <1>3. \A e \in Places \ {p} : events'[e] = events[e]
    BY <1>2 DEF TypeOK
  <1>4. SessionsApart'
    <2>1. root = {} => OwnerSlot(p) = {}
      BY DEF OwnerSlot, FollowInv, SessionsApart, Asleep
    <2> QED  BY <1>1, <1>2, <2>1 DEF FollowInv, SessionsApart, Asleep
  <1>5. ASSUME NEW s \in Live, p \in PlacesOf(s), p \in root \cup {NestedRoot} PROVE s \in OwnerSlot(p)
    BY <1>5, SlotsAssumption DEF Live, PlacesOf, OwnerSlot, TypeOK
  <1>6. BuildsFresh'
    <2>1. ASSUME NEW b \in builds, b.slot \in Live, missed'[b.slot] = "no" PROVE ReadFresh(b)'
      <3>1. b.dir \in Places /\ b.slot \in Slots /\ b.dir \in PlacesOf(b.slot) /\ b.slot \in building
        BY DEF TypeOK, Builds, BuildsSound, OneBuildPerSlot
      <3>2. missed[b.slot] = "no" /\ b.slot \notin OwnerSlot(p)
        BY <1>2, <2>1, <3>1
      <3>3. ReadFresh(b)
        BY <2>1, <3>2 DEF FollowInv, BuildsFresh
      <3>4. ~(b.dir = p /\ p \in root \cup {NestedRoot})
        BY <1>5, <2>1, <3>1, <3>2
      <3> QED  BY <1>1, <1>3, <3>1, <3>3, <3>4 DEF ReadFresh
    <2> QED  BY <1>1, <2>1 DEF BuildsFresh
  <1>7. ASSUME NEW u \in Live', Outdated(u)', missed'[u] = "no" PROVE RefreshPending(u)'
    <2>1. u \in Slots /\ u \in Live /\ Outdated(u)
      BY <1>1, <1>7, SlotFacts DEF Outdated
    <2>2. missed[u] = "no"
      BY <1>2, <1>7, <2>1
    <2>3. RefreshPending(u)
      BY <2>1, <2>2 DEF FollowInv, OutdatedHasTrigger
    <2>4. PICK g \in slot[u].resp : g.dir \in root \cup {NestedRoot}
      BY <2>1 DEF Outdated
    <2>5. slot[u].patternsKey # {} /\ \A h \in slot[u].resp : h.dir \in Places /\ h.dir \in PlacesOf(u) /\ h.dir = g.dir
      BY <2>1, <2>4, SlotFacts DEF SlotsSound
    <2>6. CASE g.dir = p
      <3>1. u \in built
        BY <1>5, <2>1, <2>4, <2>5, <2>6
      <3> QED  BY <1>2, <3>1 DEF RefreshPending
    <2>7. CASE g.dir # p
      BY <1>1, <1>2, <1>3, <2>3, <2>5, <2>7 DEF RefreshPending
    <2> QED  BY <2>6, <2>7
  <1> QED  BY <1>4, <1>6, <1>7 DEF FollowInv, OutdatedHasTrigger

\* An event goes by without a mark: the slot it concerns has missed it, unless a
\* rebuild that has not started is due already.
LEMMA UnchangedFollows ==
    ASSUME CacheInv, FollowInv, NEW p \in Places, UpdateUnchanged(p)
    PROVE  FollowInv'
  <1> USE DEF CacheInv, CacheSound
  <1>1. UNCHANGED <<root, disk, slot, stale, building, timer, subslot, builds, revalidate, query>>
        /\ Live' = Live
    BY DEF UpdateUnchanged, Live
  <1>2. /\ events' = [events EXCEPT ![p] = events[p] - 1]
        /\ missed' = [s \in Slots |-> IF s \in OwnerSlot(p) \ (stale \ building) THEN "unseen"
                                       ELSE missed[s]]
    BY DEF UpdateUnchanged
  <1>3. \A e \in Places \ {p} : events'[e] = events[e]
    BY <1>2 DEF TypeOK
  <1>4. SessionsApart'
    BY <1>1 DEF FollowInv, SessionsApart, Asleep
  <1>5. ASSUME NEW s \in Live, p \in PlacesOf(s), p \in root \cup {NestedRoot} PROVE s \in OwnerSlot(p)
    BY <1>5, SlotsAssumption DEF Live, PlacesOf, OwnerSlot, TypeOK
  <1>6. BuildsFresh'
    <2>1. ASSUME NEW b \in builds, b.slot \in Live, missed'[b.slot] = "no" PROVE ReadFresh(b)'
      <3>1. b.dir \in Places /\ b.slot \in Slots /\ b.dir \in PlacesOf(b.slot) /\ b.slot \in building
        BY DEF TypeOK, Builds, BuildsSound, OneBuildPerSlot
      <3>2. missed[b.slot] = "no" /\ b.slot \notin OwnerSlot(p)
        BY <1>2, <2>1, <3>1
      <3>3. ReadFresh(b)
        BY <2>1, <3>2 DEF FollowInv, BuildsFresh
      <3>4. ~(b.dir = p /\ p \in root \cup {NestedRoot})
        BY <1>5, <2>1, <3>1, <3>2
      <3> QED  BY <1>1, <1>3, <3>1, <3>3, <3>4 DEF ReadFresh
    <2> QED  BY <1>1, <2>1 DEF BuildsFresh
  <1>7. ASSUME NEW u \in Live', Outdated(u)', missed'[u] = "no" PROVE RefreshPending(u)'
    <2>1. u \in Slots /\ u \in Live /\ Outdated(u)
      BY <1>1, <1>7, SlotFacts DEF Outdated
    <2>2. missed[u] = "no" /\ (u \in OwnerSlot(p) => u \in stale)
      BY <1>2, <1>7, <2>1
    <2>3. RefreshPending(u)
      BY <2>1, <2>2 DEF FollowInv, OutdatedHasTrigger
    <2>4. PICK g \in slot[u].resp : g.dir \in root \cup {NestedRoot}
      BY <2>1 DEF Outdated
    <2>5. \A h \in slot[u].resp : h.dir \in Places /\ h.dir \in PlacesOf(u) /\ h.dir = g.dir
      BY <2>1, <2>4, SlotFacts DEF SlotsSound
    <2>6. CASE g.dir = p
      <3>1. u \in stale
        BY <1>5, <2>1, <2>2, <2>4, <2>5, <2>6
      <3> QED  BY <1>1, <3>1 DEF RefreshPending
    <2>7. CASE g.dir # p
      BY <1>1, <1>3, <2>3, <2>5, <2>7 DEF RefreshPending
    <2> QED  BY <2>6, <2>7
  <1> QED  BY <1>4, <1>6, <1>7 DEF FollowInv, OutdatedHasTrigger

\* The proxy starts, stops, or turns to the nested module.
LEMMA SessionsFollow ==
    ASSUME CacheInv, FollowInv,
           \/ \E d \in Dirs : SetRoot(d)
           \/ Restart \/ RemoveSlot
           \/ \E q \in Queries, k \in NestedKeys : SubslotFor(q, k)
           \/ \E c \in saves : SaveDiskCache(c) \/ SaveTorn(c) \/ SaveFails(c)
    PROVE  FollowInv'
  <1> USE DEF CacheInv, CacheSound
  <1>1. ASSUME NEW d \in Dirs, SetRoot(d) PROVE FollowInv'
    <2>1. root = {} /\ root' = {d} /\ UNCHANGED <<disk, events, timer, missed, subslot, builds>> /\ Live' = Live
      BY <1>1 DEF SetRoot, Live
    <2>2. builds' = {} /\ subslot' = {} /\ Live' = {MainSlot} /\ slot[MainSlot].resp = {}
      BY <2>1, SlotFacts DEF FollowInv, SessionsApart, Asleep, Live
    <2>3. slot' = slot \/ revalidate' # {}
      BY <1>1 DEF SetRoot
    <2>4. OutdatedHasTrigger'
      BY <2>2, <2>3 DEF OutdatedHasTrigger, Outdated, RefreshPending
    <2> QED  BY <2>1, <2>2, <2>4 DEF FollowInv, SessionsApart, BuildsFresh
  <1>2. CASE Restart
    <2>1. EmptySlot.resp = {} /\ IdleQuery.pc = "idle"
      BY DEF EmptySlot, IdleQuery
    <2>2. /\ \A s \in Slots : slot'[s].resp = {}
          /\ \A q \in Queries : query'[q].pc = "idle"
          /\ root' = {} /\ builds' = {} /\ revalidate' = {} /\ timer' = {} /\ subslot' = {}
      BY <1>2, <2>1 DEF Restart
    <2>3. Live' = {MainSlot}
      BY <2>2 DEF Live
    <2> QED  BY <2>2, <2>3, SlotFacts
             DEF FollowInv, SessionsApart, Asleep, BuildsFresh, OutdatedHasTrigger, Outdated
  <1>3. CASE RemoveSlot \/ \E c \in saves : SaveDiskCache(c) \/ SaveTorn(c) \/ SaveFails(c)
    <2>1. UNCHANGED <<root, disk, events, slot, stale, building, missed, builds, timer, revalidate, query>>
          /\ subslot' \subseteq subslot
      BY <1>3 DEF RemoveSlot, SaveDiskCache, SaveTorn, SaveFails, flags
    <2>2. SessionsApart'
      BY <2>1 DEF FollowInv, SessionsApart, Asleep
    <2> QED  BY <2>1, <2>2, NoBuildFollows DEF FollowInv
  <1>4. ASSUME NEW q \in Queries, NEW k \in NestedKeys, SubslotFor(q, k) PROVE FollowInv'
    <2>1. UNCHANGED <<root, disk, events, builds, revalidate, timer, building>> /\ root # {}
      BY <1>4 DEF SubslotFor, flags, MayAsk
    <2>2. SessionsApart'
      BY <2>1 DEF FollowInv, SessionsApart
    <2>3. PICK s \in SubSlots :
            /\ subslot' = {s}
            /\ \/ s \in subslot /\ UNCHANGED <<slot, stale, missed>>
               \/ /\ subslot = {} /\ Unreachable(s)
                  /\ slot' = [slot EXCEPT ![s] = EmptySlot] /\ stale' = stale \ {s}
                  /\ missed' = [missed EXCEPT ![s] = "no"]
      BY <1>4 DEF SubslotFor, flags
    <2>4. CASE s \in subslot /\ UNCHANGED <<slot, stale, missed>>
      BY <2>1, <2>2, <2>3, <2>4, NoBuildFollows DEF FollowInv
    <2>5. CASE /\ subslot = {} /\ Unreachable(s)
               /\ slot' = [slot EXCEPT ![s] = EmptySlot] /\ stale' = stale \ {s}
               /\ missed' = [missed EXCEPT ![s] = "no"]
      <3>1. s \in Slots /\ s # MainSlot /\ MainSlot \in Slots
        BY SlotsAssumption DEF Slots
      <3>2. Live' = {MainSlot, s} /\ Live = {MainSlot}
        BY <2>3, <2>5 DEF Live
      <3>3. /\ slot'[s].resp = {} /\ slot'[MainSlot] = slot[MainSlot]
            /\ missed'[MainSlot] = missed[MainSlot] /\ (MainSlot \in stale => MainSlot \in stale')
        BY <2>5, <3>1 DEF TypeOK, EmptySlot
      <3>4. \A b \in builds : b.slot # s
        BY <2>5 DEF Unreachable
      <3>5. BuildsFresh'
        BY <2>1, <3>2, <3>3, <3>4 DEF FollowInv, BuildsFresh, ReadFresh
      <3>6. ASSUME NEW u \in Live', Outdated(u)', missed'[u] = "no" PROVE RefreshPending(u)'
        <4>1. u = MainSlot /\ Outdated(u) /\ missed[u] = "no"
          BY <2>1, <3>2, <3>3, <3>6 DEF Outdated
        <4>2. RefreshPending(u)
          BY <3>2, <4>1 DEF FollowInv, OutdatedHasTrigger
        <4> QED  BY <2>1, <3>3, <4>1, <4>2 DEF RefreshPending
      <3> QED  BY <2>2, <3>5, <3>6 DEF FollowInv, OutdatedHasTrigger
    <2> QED  BY <2>3, <2>4, <2>5
  <1> QED  BY <1>1, <1>2, <1>3, <1>4

LEMMA FollowStep == CacheInv /\ FollowInv /\ [Next]_vars => FollowInv'
  <1> SUFFICES ASSUME CacheInv, FollowInv, [Next]_vars PROVE FollowInv'
    OBVIOUS
  <1>1. CASE UNCHANGED vars
    <2>1. UNCHANGED <<root, disk, events, slot, stale, missed, builds, timer, subslot, revalidate, query>>
      BY <1>1 DEF vars, flags
    <2>2. SessionsApart'
      BY <2>1 DEF FollowInv, SessionsApart, Asleep
    <2> QED  BY <2>1, <2>2, NoBuildFollows DEF FollowInv
  <1>2. CASE QueryStep
    BY <1>2, QueriesFollow, SessionsFollow DEF QueryStep
  <1>3. CASE Next
    BY <1>2, <1>3, BuildStepFollows, TimersFollow, ChangeFollows, MarkFollows, UnchangedFollows,
       SessionsFollow DEF Next
  <1> QED  BY <1>1, <1>3

LEMMA FollowInit == Init => FollowInv
  <1>1. EmptySlot.resp = {} /\ IdleQuery.pc = "idle"
    BY DEF EmptySlot, IdleQuery
  <1>2. Init => Live = {MainSlot} /\ MainSlot \in Slots
    BY DEF Init, FreshSession, Live, Slots
  <1> QED  BY <1>1, <1>2 DEF Init, FreshSession, FollowInv, SessionsApart, Asleep, BuildsFresh,
                             OutdatedHasTrigger, Outdated

\* A graph the driver serves is older than the package metadata on disk only while
\* something is going to refresh it: an event, a stale mark, a timer, the deferred
\* revalidation, or a build that sees the change (markSlotStale, buildSlot,
\* loadDiskCache).  The exceptions are those the code has: an event that met a build in
\* flight, a changed .go file that UpdateFile did not report to updateFileInIndex, and a
\* failed build.
THEOREM CacheFollows == Spec => []OutdatedHasTrigger
  <1>1. FollowInv => OutdatedHasTrigger
    BY DEF FollowInv
  <1>2. Spec => [](CacheInv /\ FollowInv)
    BY InvInit, InvStep, FollowInit, FollowStep, PTL DEF Spec
  <1> QED  BY <1>1, <1>2, PTL
=============================================================================
