----------------------------- MODULE GraphSlot -----------------------------
(***************************************************************************)
(* The package-graph cache behind GOPACKAGESDRIVER (graph.go): the main    *)
(* workspace's slot, which is persisted and shared by the worktrees of one *)
(* repository, and the in-memory slot of one nested module.  Driver        *)
(* queries, the builds they start, the debounce timer of a stale slot, the *)
(* deferred revalidation of a loaded disk cache, file events, the eviction *)
(* of an idle nested module and the restart of the proxy interleave; each  *)
(* action is one critical section of graphServer.mu.                       *)
(*                                                                         *)
(* A graph is abstracted to the cache key it was built for, the checkout   *)
(* its absolute paths name, and the version of that checkout's metadata    *)
(* that packages.Load saw.  A value that may be absent ("" or nil in Go)   *)
(* is a set with at most one element.                                      *)
(***************************************************************************)
EXTENDS Integers, FiniteSets, FiniteSetsExt

CONSTANTS
    Dirs,           \* checkouts (worktrees) of the main module
    NestedRoot,     \* the root of the nested module
    MainSlot,       \* graphServer.main
    SubSlots,       \* graphSlot objects available to the nested module
    MainKeys,       \* canonical keys of main-module queries: patterns and BuildFlags
    WorkspaceKeys,  \* the main keys whose patterns satisfy isWorkspaceQuery
    NestedKeys,     \* keys of nested-module queries: their BuildFlags
    Queries,        \* driver connections, one query at a time each
    MaxChange,      \* bound: metadata changes on disk
    MaxSession      \* bound: times the proxy starts

Places == Dirs \cup {NestedRoot}
Slots == {MainSlot} \cup SubSlots
Keys == MainKeys \cup NestedKeys

\* The main slot is no subslot, the nested module is no checkout of the main
\* one, and the bounds are numbers.
ASSUME SlotsAssumption ==
    /\ MainSlot \notin SubSlots
    /\ NestedRoot \notin Dirs
    /\ WorkspaceKeys \subseteq MainKeys
    /\ MaxChange \in Nat
    /\ MaxSession \in Nat

VARIABLES
    root,        \* g.root
    disk,        \* version of the package metadata on disk, per place
    events,      \* file events not yet handled, per place
    slot,        \* the graphSlot objects: resp, patternsKey (with patterns and
                 \* buildFlags) and dir
    stale,       \* the slots with stale set
    building,    \* the slots with building set
    timer,       \* the slots whose rebuildTimer is armed
    missed,      \* history: why a slot may have missed a change
    subslot,     \* g.subslots[NestedRoot]
    builds,      \* buildSlot calls in flight
    revalidate,  \* the deferred rebuild armed by loadDiskCache
    saves,       \* saveDiskCache goroutines not yet run
    saved,       \* the on-disk cache file
    query,       \* the driver queries
    sessions     \* times the proxy has started

flags == <<stale, building, timer, missed>>
vars == <<root, disk, events, slot, flags, subslot, builds, revalidate, saves,
          saved, query, sessions>>

\* Version -1 is a graph retargeted from another checkout: it describes no
\* version of this one.
Graphs == [key : Keys, dir : Places, ver : Int]
SavedGraphs == [resp : Graphs, key : Keys, dir : Places, root : Dirs]

SlotStates == [resp : SUBSET Graphs, patternsKey : SUBSET Keys,
               dir : SUBSET Places]

EmptySlot == [resp |-> {}, patternsKey |-> {}, dir |-> {}]

\* missed is "raced" once a file event found a build of the slot in flight,
\* "unseen" once the index answered an event of the slot with no change,
\* "failed" once a build failed, and "no" again when a build starts.
Misses == {"no", "raced", "unseen", "failed"}

\* persist is true exactly for the main slot's builds, so it is not a field.
Builds == [slot : Slots, key : Keys, dir : Places, waiter : SUBSET Queries,
           read : SUBSET Int, nth : Nat]

\* A query that waits for nothing holds no slot; got is the response captured
\* before the lock was released, ans the answer ({} is NotHandled).
QueryStates ==
    [pc : {"idle", "lookup", "miss", "refresh", "building", "built", "answered"},
     slot : SUBSET Slots, key : SUBSET Keys, dir : SUBSET Places,
     got : SUBSET Graphs, ans : SUBSET Graphs]

IdleQuery == [pc |-> "idle", slot |-> {}, key |-> {}, dir |-> {},
              got |-> {}, ans |-> {}]

\* The state of a query answered with ans.
Answered(k, d, ans) ==
    [IdleQuery EXCEPT !.pc = "answered", !.key = {k}, !.dir = {d}, !.ans = ans]

\* The session state of a proxy that has not seen initialize yet.
FreshSession ==
    /\ root = {}
    /\ events = [p \in Places |-> 0]
    /\ slot = [s \in Slots |-> EmptySlot]
    /\ stale = {} /\ building = {} /\ timer = {}
    /\ missed = [s \in Slots |-> "no"]
    /\ subslot = {}
    /\ builds = {}
    /\ revalidate = {}
    /\ saves = {}
    /\ query = [q \in Queries |-> IdleQuery]

Init ==
    /\ FreshSession
    /\ disk = [p \in Places |-> 0]
    /\ saved = {}
    /\ sessions = 1

-----------------------------------------------------------------------------
(* Builds. *)

\* The goroutine (or call) of buildSlot; nth tells apart builds of one slot.
NewBuild(s, k, d, waiter) ==
    [slot |-> s, key |-> k, dir |-> d, waiter |-> waiter, read |-> {},
     nth |-> Cardinality({b \in builds : b.slot = s})]

\* slot.building = true under the lock, then buildSlot runs on its own.
StartBuild(s, k, d, waiter) ==
    /\ building' = building \cup {s}
    /\ missed' = [missed EXCEPT ![s] = "no"]
    /\ builds' = builds \cup {NewBuild(s, k, d, waiter)}

NoBuild == UNCHANGED <<building, missed, builds>>

\* Rebuild the graph a slot holds, with the patterns, flags and dir it was
\* built with.
Rebuild(s) ==
    \E k \in slot[s].patternsKey, d \in slot[s].dir : StartBuild(s, k, d, {})

\* packages.Load reads the metadata of the build's directory.
LoadPackages(b) ==
    /\ b \in builds
    /\ b.read = {}
    /\ builds' = (builds \ {b}) \cup {[b EXCEPT !.read = {disk[b.dir]}]}
    /\ UNCHANGED <<root, disk, events, slot, flags, subslot, revalidate, saves,
                   saved, query, sessions>>

\* A synchronous caller of buildSlot resumes when it returns.
Resume(b) ==
    query' = [q \in Queries |-> IF q \in b.waiter
                                THEN [query[q] EXCEPT !.pc = "built"]
                                ELSE query[q]]

\* buildSlot, second half: publish the graph, clear stale and building, and
\* hand a persistent graph to a saveDiskCache goroutine.
BuildDone(b) ==
    /\ b \in builds
    /\ \E v \in b.read, r \in root :
        LET g == [key |-> b.key, dir |-> b.dir, ver |-> v] IN
        /\ slot' = [slot EXCEPT ![b.slot] = [resp |-> {g},
                               patternsKey |-> {b.key}, dir |-> {b.dir}]]
        /\ saves' = IF b.slot = MainSlot
                    THEN saves \cup {[resp |-> g, key |-> b.key,
                                      dir |-> b.dir, root |-> r]}
                    ELSE saves
    /\ stale' = stale \ {b.slot}
    /\ building' = building \ {b.slot}
    /\ builds' = builds \ {b}
    /\ Resume(b)
    /\ UNCHANGED <<root, disk, events, timer, missed, subslot, revalidate,
                   saved, sessions>>

\* packages.Load or json.Marshal failed: only building is reset.
BuildFails(b) ==
    /\ b \in builds
    /\ building' = building \ {b.slot}
    /\ missed' = [missed EXCEPT ![b.slot] = "failed"]
    /\ builds' = builds \ {b}
    /\ Resume(b)
    /\ UNCHANGED <<root, disk, events, slot, stale, timer, subslot, revalidate,
                   saves, saved, sessions>>

-----------------------------------------------------------------------------
(* The on-disk cache. *)

\* saveDiskCache writes a temporary file and renames it.  The goroutines of two
\* builds run in either order.
SaveDiskCache(c) ==
    /\ c \in saves
    /\ saves' = saves \ {c}
    /\ saved' = {c}
    /\ UNCHANGED <<root, disk, events, slot, flags, subslot, builds, revalidate,
                   query, sessions>>

\* Every save, of this proxy or of another worktree's, writes the same temporary
\* name: one that overlaps another can rename a half-written file into place,
\* which loadDiskCache cannot decode and takes for none.
SaveTorn(c) ==
    /\ c \in saves
    /\ saves' = saves \ {c}
    /\ saved' = {}
    /\ UNCHANGED <<root, disk, events, slot, flags, subslot, builds, revalidate,
                   query, sessions>>

\* MkdirAll, WriteFile or Rename failed: the old file stays.
SaveFails(c) ==
    /\ c \in saves
    /\ saves' = saves \ {c}
    /\ UNCHANGED <<root, disk, events, slot, flags, subslot, builds, revalidate,
                   saved, query, sessions>>

\* Mutant: the dir is retargeted, the paths inside the response are not.
RetargetDirOnly(c, d) == IF c.root = d THEN {c}
                         ELSE IF c.dir = c.root THEN {[c EXCEPT !.dir = d]}
                         ELSE {}

\* The cache file is named after the repository, not after the checkout, so a
\* graph saved by another worktree has its paths and its dir rewritten.  It is
\* unusable when its dir was not inside the root it was saved for.
RetargetGraph(c, d) ==
    IF c.root = d THEN {c}
    ELSE IF c.dir = c.root
         THEN {[c EXCEPT !.dir = d, !.resp = [@ EXCEPT !.dir = d, !.ver = -1]]}
         ELSE {}

\* setRoot on initialize, with loadDiskCache: publish the saved graph as fresh
\* and arm the deferred revalidation with the arguments it was saved with.
SetRoot(d) ==
    /\ root = {}
    /\ root' = {d}
    /\ \/ /\ \A c \in saved : RetargetGraph(c, d) = {}
          /\ UNCHANGED <<slot, stale, revalidate>>
       \/ \E c \in saved : \E l \in RetargetGraph(c, d) :
            /\ slot' = [slot EXCEPT ![MainSlot] = [resp |-> {l.resp},
                               patternsKey |-> {l.key}, dir |-> {l.dir}]]
            /\ stale' = stale \ {MainSlot}
            /\ revalidate' = {[key |-> l.key, dir |-> l.dir]}
    /\ UNCHANGED <<disk, events, building, timer, missed, subslot, builds, saves,
                   saved, query, sessions>>

\* Mutant: the revalidation does not look at slot.building.
RevalidationFiresAnyway ==
    /\ revalidate' = {}
    /\ \E a \in revalidate : StartBuild(MainSlot, a.key, a.dir, {})
    /\ UNCHANGED <<root, disk, events, slot, stale, timer, subslot, saves, saved,
                   query, sessions>>

\* The deferred revalidation: skipped when some build is in flight.
RevalidationFires ==
    /\ revalidate' = {}
    /\ \E a \in revalidate :
        IF MainSlot \in building
        THEN NoBuild
        ELSE StartBuild(MainSlot, a.key, a.dir, {})
    /\ UNCHANGED <<root, disk, events, slot, stale, timer, subslot, saves, saved,
                   query, sessions>>

-----------------------------------------------------------------------------
(* Driver queries. *)

MayAsk(q) ==
    /\ root # {}
    /\ query[q].pc \in {"idle", "answered"}

\* A graph is served only for its own key, to a query from its own checkout.
\* A subdirectory stands for the checkout that contains it.
HasCache(s, k) == slot[s].resp # {} /\ slot[s].patternsKey = {k}
DirCompatible(d, s) == slot[s].dir = {d}

\* answerSlot, on a cached graph: a stale one is served too, and rebuilt;
\* unsaved import changes (dirty) fall back to go list after that.
ServeMain(q, k, d, dirty) ==
    /\ HasCache(MainSlot, k) /\ DirCompatible(d, MainSlot)
    /\ IF MainSlot \in stale \ building
       THEN Rebuild(MainSlot)
       ELSE NoBuild
    /\ query' = [query EXCEPT ![q] =
           Answered(k, d, IF dirty THEN {} ELSE slot[MainSlot].resp)]

\* answerSlot, with no graph for the key or one of another checkout: the real
\* go list answers, and a workspace query starts the build.
FallBackMain(q, k, d) ==
    /\ ~(HasCache(MainSlot, k) /\ DirCompatible(d, MainSlot))
    /\ IF k \in WorkspaceKeys /\ MainSlot \notin building
       THEN StartBuild(MainSlot, k, d, {})
       ELSE NoBuild
    /\ query' = [query EXCEPT ![q] = Answered(k, d, {})]

AnswerSlot(q, k, d, dirty) ==
    /\ MayAsk(q)
    /\ ServeMain(q, k, d, dirty) \/ FallBackMain(q, k, d)
    /\ UNCHANGED <<root, disk, events, slot, stale, timer, subslot, revalidate,
                   saves, saved, sessions>>

\* A subslot object nothing refers to any more.
Unreachable(s) ==
    /\ s \notin subslot
    /\ s \notin timer
    /\ \A b \in builds : b.slot # s
    /\ \A q \in Queries : s \notin query[q].slot

\* answer dispatches a query of the nested module: subslotFor returns its
\* slot, a new one if there is none.
SubslotFor(q, k) ==
    /\ MayAsk(q)
    /\ \E s \in SubSlots :
        /\ \/ s \in subslot /\ UNCHANGED <<slot, flags>>
           \/ /\ subslot = {} /\ Unreachable(s)
              /\ slot' = [slot EXCEPT ![s] = EmptySlot]
              /\ stale' = stale \ {s}
              /\ missed' = [missed EXCEPT ![s] = "no"]
              /\ UNCHANGED <<building, timer>>
        /\ subslot' = {s}
        /\ query' = [query EXCEPT ![q] = [IdleQuery EXCEPT
               !.pc = "lookup", !.slot = {s}, !.key = {k}, !.dir = {NestedRoot}]]
    /\ UNCHANGED <<root, disk, events, builds, revalidate, saves, saved, sessions>>

\* answerNestedSlot reads the slot; with a graph of its flags it goes on in
\* answerNestedSlotFromCache, where a stale graph needs a second critical
\* section.
NestedRead(q, dirty) ==
    /\ query[q].pc = "lookup"
    /\ \E s \in query[q].slot, k \in query[q].key :
        query' = [query EXCEPT ![q] =
            IF ~HasCache(s, k) THEN [@ EXCEPT !.pc = "miss"]
            ELSE IF dirty THEN Answered(k, NestedRoot, {})
            ELSE IF s \in stale
                 THEN [@ EXCEPT !.pc = "refresh", !.got = slot[s].resp]
            ELSE Answered(k, NestedRoot, slot[s].resp)]
    /\ UNCHANGED <<root, disk, events, slot, flags, subslot, builds, revalidate,
                   saves, saved, sessions>>

\* answerNestedSlotFromCache, stale: at most one background rebuild, and the
\* response captured before is served.
NestedRefresh(q) ==
    /\ query[q].pc = "refresh"
    /\ \E s \in query[q].slot, k \in query[q].key :
        /\ IF s \in building THEN NoBuild
           ELSE StartBuild(s, k, NestedRoot, {})
        /\ query' = [query EXCEPT ![q] = Answered(k, NestedRoot, @.got)]
    /\ UNCHANGED <<root, disk, events, slot, stale, timer, subslot, revalidate,
                   saves, saved, sessions>>

\* answerNestedSlot, no graph of these flags: build synchronously, unless a
\* build is in flight already.
NestedClaim(q) ==
    /\ query[q].pc = "miss"
    /\ \E s \in query[q].slot, k \in query[q].key :
        IF s \in building
        THEN /\ NoBuild
             /\ query' = [query EXCEPT ![q] = Answered(k, NestedRoot, {})]
        ELSE /\ StartBuild(s, k, NestedRoot, {q})
             /\ query' = [query EXCEPT ![q].pc = "building"]
    /\ UNCHANGED <<root, disk, events, slot, stale, timer, subslot, revalidate,
                   saves, saved, sessions>>

\* answerNestedSlot after its build: whatever graph the slot holds by now.
NestedReread(q) ==
    /\ query[q].pc = "built"
    /\ \E s \in query[q].slot, k \in query[q].key :
        query' = [query EXCEPT ![q] = Answered(k, NestedRoot, slot[s].resp)]
    /\ UNCHANGED <<root, disk, events, slot, flags, subslot, builds, revalidate,
                   saves, saved, sessions>>

\* evictIdleModules drops the slot of an idle nested module; a build or a
\* query may still hold the object.
RemoveSlot ==
    /\ subslot # {}
    /\ subslot' = {}
    /\ UNCHANGED <<root, disk, events, slot, flags, builds, revalidate, saves,
                   saved, query, sessions>>

-----------------------------------------------------------------------------
(* File events. *)

\* The package metadata of a place changes: imports, embeds, go.mod.  A
\* running proxy sees an event for it; changes made between sessions are seen
\* by nobody.
Change(p) ==
    /\ p \in root \cup {NestedRoot} \/ root = {}
    /\ MapThenSumSet(LAMBDA x : disk[x], Places) < MaxChange
    /\ disk' = [disk EXCEPT ![p] = @ + 1]
    /\ events' = IF root = {} THEN events ELSE [events EXCEPT ![p] = @ + 1]
    /\ UNCHANGED <<root, slot, flags, subslot, builds, revalidate, saves, saved,
                   query, sessions>>

\* markSlotStale on the given slots: one that was never built is left alone;
\* otherwise stale is set and the debounce timer rearmed.
MarkSlotStale(owners) ==
    LET built == {s \in owners : slot[s].patternsKey # {}} IN
    /\ stale' = stale \cup built
    /\ timer' = timer \cup built
    /\ missed' = [s \in Slots |-> IF s \in owners \cap building THEN "raced"
                                  ELSE missed[s]]

\* Mutant: an event of the nested module marks the main slot.
OwnerSlotMain(p) == IF root = {} THEN {} ELSE {MainSlot}

\* The slot that owns a path, if there is one: a nested module nothing has been
\* built for has none.
OwnerSlot(p) == IF p = NestedRoot THEN subslot
                ELSE IF p \in root THEN {MainSlot} ELSE {}

\* Mutant: MarkStaleFor runs although there was no event.
MarkStaleForAlways(p) ==
    /\ events' = [events EXCEPT ![p] = @ - 1]
    /\ MarkSlotStale(OwnerSlot(p))
    /\ UNCHANGED <<root, disk, slot, building, subslot, builds, revalidate,
                   saves, saved, query, sessions>>

\* observeFileEvent calls MarkStaleFor at once for a module file or an embedded
\* asset, and in a goroutine for a .go file in which UpdateFile found a change.
MarkStaleFor(p) ==
    /\ events[p] > 0
    /\ events' = [events EXCEPT ![p] = @ - 1]
    /\ MarkSlotStale(OwnerSlot(p))
    /\ UNCHANGED <<root, disk, slot, building, subslot, builds, revalidate,
                   saves, saved, query, sessions>>

\* updateFileInIndex when UpdateFile reports no change although there was one: the
\* index has no module path yet, or has read the new text already (in its Build,
\* or for an earlier event).  Nobody marks the slot; it misses the change unless
\* a rebuild that is still to start will see it.
UpdateUnchanged(p) ==
    /\ events[p] > 0
    /\ events' = [events EXCEPT ![p] = @ - 1]
    /\ missed' = [s \in Slots |->
                    IF s \in OwnerSlot(p) \ (stale \ building) THEN "unseen"
                    ELSE missed[s]]
    /\ UNCHANGED <<root, disk, slot, stale, building, timer, subslot, builds,
                   revalidate, saves, saved, query, sessions>>

\* Mutant: the timer fires and starts no build.
RebuildTimerIgnored(s) ==
    /\ s \in timer
    /\ timer' = timer \ {s}
    /\ UNCHANGED <<root, disk, events, slot, stale, building, missed, subslot,
                   builds, revalidate, saves, saved, query, sessions>>

\* The debounce timer: rebuild, unless a build is in flight (no retry then).
RebuildTimerFires(s) ==
    /\ s \in timer
    /\ timer' = timer \ {s}
    /\ IF s \in building THEN NoBuild ELSE Rebuild(s)
    /\ UNCHANGED <<root, disk, events, slot, stale, subslot, revalidate, saves,
                   saved, query, sessions>>

\* The editor closes the proxy or it crashes; only the cache file survives.
Restart ==
    /\ root # {}
    /\ sessions < MaxSession
    /\ sessions' = sessions + 1
    /\ root' = {} /\ subslot' = {} /\ builds' = {} /\ revalidate' = {}
    /\ saves' = {}
    /\ events' = [p \in Places |-> 0]
    /\ slot' = [s \in Slots |-> EmptySlot]
    /\ stale' = {} /\ building' = {} /\ timer' = {}
    /\ missed' = [s \in Slots |-> "no"]
    /\ query' = [q \in Queries |-> IdleQuery]
    /\ UNCHANGED <<disk, saved>>

-----------------------------------------------------------------------------
BuildStep(s) ==
    \E b \in builds :
        /\ b.slot = s
        /\ LoadPackages(b) \/ BuildDone(b) \/ BuildFails(b)

QueryStep ==
    \E q \in Queries :
        \/ \E k \in MainKeys, d \in Dirs, dirty \in BOOLEAN : AnswerSlot(q, k, d, dirty)
        \/ \E k \in NestedKeys : SubslotFor(q, k)
        \/ \E dirty \in BOOLEAN : NestedRead(q, dirty)
        \/ NestedRefresh(q)
        \/ NestedClaim(q)
        \/ NestedReread(q)

Next ==
    \/ \E s \in Slots : BuildStep(s) \/ RebuildTimerFires(s)
    \/ QueryStep
    \/ \E c \in saves : SaveDiskCache(c) \/ SaveTorn(c) \/ SaveFails(c)
    \/ \E d \in Dirs : SetRoot(d)
    \/ RevalidationFires
    \/ \E p \in Places : Change(p) \/ MarkStaleFor(p) \/ UpdateUnchanged(p)
    \/ RemoveSlot
    \/ Restart

Spec == Init /\ [][Next]_vars

\* Builds end (go list terminates) and an armed timer fires.
Fairness ==
    \A s \in Slots : WF_vars(BuildStep(s)) /\ WF_vars(RebuildTimerFires(s))

FairSpec == Spec /\ Fairness

-----------------------------------------------------------------------------
\* Every variable has its type; an optional value is at most one value.
TypeOK ==
    /\ root \in SUBSET Dirs
    /\ disk \in [Places -> Nat]
    /\ events \in [Places -> Nat]
    /\ slot \in [Slots -> SlotStates]
    /\ stale \in SUBSET Slots
    /\ building \in SUBSET Slots
    /\ timer \in SUBSET Slots
    /\ missed \in [Slots -> Misses]
    /\ subslot \in SUBSET SubSlots
    /\ builds \in SUBSET Builds
    /\ revalidate \in SUBSET [key : Keys, dir : Places]
    /\ saves \in SUBSET SavedGraphs
    /\ saved \in SUBSET SavedGraphs
    /\ query \in [Queries -> QueryStates]
    /\ sessions \in Nat

\* building is true exactly while one buildSlot runs on the slot, whichever of
\* a query, a debounce timer, the deferred revalidation or a nested module's
\* synchronous build started it (answerSlot, markSlotStale, loadDiskCache,
\* answerNestedSlot all test and set it under the lock).
OneBuildPerSlot ==
    /\ building = {b.slot : b \in builds}
    /\ \A b, c \in builds : b.slot = c.slot => b = c

\* A graph the driver serves names files of the asking checkout and was built
\* for the asking patterns and flags, also when it was loaded from a cache file
\* that another worktree saved; a nested module's query is never served a graph
\* of the main module (answer, answerSlot, retargetGraph).
AnswerIsForQuery ==
    \A q \in Queries : \A g \in query[q].ans :
        /\ query[q].dir = {g.dir}
        /\ g.dir # NestedRoot => query[q].key = {g.key}

\* The places whose graphs a slot may hold.
PlacesOf(s) == IF s = MainSlot THEN Dirs ELSE {NestedRoot}

\* A slot's key and dir describe the graph it holds.
SlotsSound ==
    \A s \in Slots :
        /\ slot[s].dir \subseteq PlacesOf(s)
        /\ \A g \in slot[s].resp :
            slot[s].patternsKey = {g.key} /\ slot[s].dir = {g.dir}

\* A build, and the deferred revalidation, work on the module of their slot.
BuildsSound ==
    /\ \A b \in builds : b.dir \in PlacesOf(b.slot)
    /\ \A a \in revalidate : a.dir \in Dirs

\* A saved graph is a main-module graph with its own key and dir.
SavesSound ==
    \A c \in saves \cup saved :
        c.dir \in Dirs /\ c.resp.dir = c.dir /\ c.resp.key = c.key

\* Only nested-module queries hold a slot, and what they captured is nested.
QueriesSound ==
    \A q \in Queries :
        /\ query[q].slot \subseteq SubSlots
        /\ \A g \in query[q].got : g.dir = NestedRoot

\* Inductive strengthening of AnswerIsForQuery.
CacheSound == SlotsSound /\ BuildsSound /\ SavesSound /\ QueriesSound

\* What the comments of nestedModuleCacheKey and canonicalKey promise: no
\* query is served a graph built under other BuildFlags.  The code does not keep
\* it; no run checks it (README, known deviations).
AnswerMatchesBuildFlags ==
    \A q \in Queries : \A g \in query[q].ans : query[q].key = {g.key}

\* The slots queries can still reach.
Live == {MainSlot} \cup subslot

\* The graph a slot serves is older than the metadata of its place.
Outdated(s) ==
    \E g \in slot[s].resp :
        g.dir \in root \cup {NestedRoot} /\ g.ver < disk[g.dir]

\* Something is still going to refresh the slot: a file event, the stale mark
\* (the next query rebuilds), a timer, or a build that has seen, or will see,
\* the current metadata.
RefreshPending(s) ==
    \/ \E g \in slot[s].resp : events[g.dir] > 0
    \/ s \in stale \cup timer
    \/ s = MainSlot /\ revalidate # {}
    \/ \E b \in builds : b.slot = s /\ b.read \subseteq {disk[b.dir]}

\* The cache follows the disk: a served graph is outdated only while something
\* is going to refresh it.  The exceptions are the three the code has, each since
\* the slot's last build started: a file event that met a build in flight, a
\* change of a .go file that the index did not report (updateFileInIndex marks
\* nothing then), and a build that failed.
OutdatedHasTrigger ==
    \A s \in Live :
        Outdated(s) /\ missed[s] = "no" => RefreshPending(s)

\* What the comment of observeFileEvent says, without the exceptions for file
\* events that met a build or that the index did not report.  The code does not
\* keep it; no run checks it (README, known deviations).
CacheFollowsDisk ==
    \A s \in Live :
        Outdated(s) /\ missed[s] # "failed" => RefreshPending(s)

\* A stale mark does not last: the graph is rebuilt, or a build failed.
StaleRefreshed ==
    \A s \in Slots :
        s \in stale ~> (s \notin stale \/ missed[s] = "failed")
=============================================================================
