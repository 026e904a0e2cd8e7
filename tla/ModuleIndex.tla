---------------------------- MODULE ModuleIndex -----------------------------
(***************************************************************************)
(* The reverse-import index of revindex.go, one for the main module and    *)
(* one per nested module, and the module-root cache of modroot.go that     *)
(* says which of them a file belongs to.  Both follow the disk through     *)
(* file events (proxy.go), each handled in a goroutine of its own.         *)
(*                                                                         *)
(* Processes: pumpClient, which takes the events; one goroutine per file   *)
(* event or cross-reference query; one Build goroutine per index.  A step  *)
(* is one critical section of a mutex or one access to the disk.           *)
(*                                                                         *)
(* There is one nested directory, which is a module of its own while it    *)
(* has a go.mod.  All files may import one package P; the index records    *)
(* which files it has found to, so an edge of P is its importing file.     *)
(***************************************************************************)
EXTENDS Integers, FiniteSets, Sequences, SequencesExt

CONSTANTS
    MainFiles,    \* files outside the nested directory
    NestedFiles,  \* files in it
    Updates,      \* goroutines of file events
    Queries,      \* goroutines of cross-reference queries
    MaxIdx,       \* bound on the indexes created: 1 is the main one
    MaxChange,    \* bound on the changes on disk
    Dirs,         \* directories, as sequences of segments, for ClosureUnits
    Granularity   \* segments of a scope unit

ASSUME IndexAssumption ==
    /\ MainFiles \cap NestedFiles = {} /\ "go.mod" \notin MainFiles \cup NestedFiles
    /\ Updates \cap Queries = {}
    /\ MaxIdx \in Nat \ {0} /\ MaxChange \in Nat /\ Granularity \in Nat
    /\ IsFiniteSet(Dirs)

Files == MainFiles \cup NestedFiles
Tasks == Updates \cup Queries
Main == 1
Indexes == 1..MaxIdx
Absent == "absent"
Contents == {Absent, "plain", "importing"}  \* "importing": imports P

VARIABLES
    disk,    \* per file: what it holds
    goMod,   \* the nested directory has a go.mod
    changes, \* changes on disk so far
    events,  \* file events the editor has yet to send
    pump,    \* pumpClient: "idle", or between the two steps of a go.mod event
    cache,   \* moduleRootCache, for the nested directory: "none" if not cached
    subIdx,  \* the nested module's entry of proxy.subIdx; 0 = none
    index,   \* per index: the revIndex
    build,   \* per index: its Build goroutine
    task,    \* per goroutine: where it is
    crossed, \* the last Invalidate fell between computing and caching a root (history)
    unread,  \* nested files no event has reported since the go.mod was removed (history)
    raced    \* files two goroutines were reading at the same time (history)

diskVars == <<disk, goMod, changes, events>>
history == <<crossed, unread, raced>>
vars == <<diskVars, pump, cache, subIdx, index, build, task, history>>

NestedRoot(f) == IF f \in NestedFiles /\ goMod THEN "nested" ELSE "main"

NewIndex == [modPath |-> FALSE, ready |-> FALSE, edges |-> {}, symbols |-> [f \in Files |-> Absent]]
NoBuild == [pc |-> "none", left |-> {}, file |-> {}, content |-> Absent]
Started == [NoBuild EXCEPT !.pc = "start"]
NoTask == [pc |-> "none", file |-> {}, root |-> "main", idx |-> Main,
           content |-> Absent, settled |-> {}]

Init ==
    /\ disk \in [Files -> Contents]
    /\ goMod \in BOOLEAN /\ changes = 0
    /\ events = {} /\ pump = "idle" /\ cache = "none" /\ subIdx = 0
    /\ index = [i \in Indexes |-> NewIndex]
    /\ build = [i \in Indexes |-> IF i = Main THEN Started ELSE NoBuild]
    /\ task = [t \in Tasks |-> NoTask]
    /\ crossed = FALSE /\ unread = {} /\ raced = {}

Reading(f) == \/ \E t \in Tasks : task[t].pc = "apply" /\ f \in task[t].file
              \/ \E i \in Indexes : build[i].pc = "apply" /\ f \in build[i].file

-----------------------------------------------------------------------------
(* The disk changes, and the editor's file watcher reports it. *)

\* What a query found settled (see Query) is so no longer once it changes.
Unsettle(files) == task' = [t \in Tasks |-> [task[t] EXCEPT !.settled = @ \ files]]

Change == changes < MaxChange /\ changes' = changes + 1

ChangeFile(f) ==
    /\ Change
    /\ \E c \in Contents \ {disk[f]} : disk' = [disk EXCEPT ![f] = c]
    /\ events' = events \cup {f}
    /\ unread' = IF "go.mod" \in events THEN unread ELSE unread \ {f}
    /\ Unsettle({f})
    /\ UNCHANGED <<goMod, pump, cache, subIdx, index, build, crossed, raced>>

\* A go.mod appears or disappears.  When it disappears the nested files become the
\* main module's, but nothing makes the main index walk them: each stays unread
\* until it changes, after the go.mod event has been handled.
ChangeGoMod ==
    /\ Change
    /\ goMod' = ~goMod
    /\ unread' = IF goMod THEN NestedFiles ELSE unread
    /\ events' = events \cup {"go.mod"}
    /\ Unsettle(Files)
    /\ UNCHANGED <<disk, pump, cache, subIdx, index, build, crossed, raced>>

\* observeFileEvent for a Go file starts updateFileInIndex.
ObserveFileEvent(f, t) ==
    /\ pump = "idle" /\ f \in events /\ task[t].pc = "none"
    /\ events' = events \ {f}
    /\ task' = [task EXCEPT ![t] = [NoTask EXCEPT !.pc = "root", !.file = {f}]]
    /\ UNCHANGED <<disk, goMod, changes, pump, cache, subIdx, index, build, history>>

\* Mutant: only the index is dropped.
InvalidateIndexOnly ==
    /\ pump = "idle" /\ "go.mod" \in events
    /\ events' = events \ {"go.mod"}
    /\ pump' = "drop"
    /\ UNCHANGED <<disk, goMod, changes, cache, subIdx, index, build, task, history>>

\* invalidateModuleBoundary: the cache is cleared, then the index dropped.
Invalidate ==
    /\ pump = "idle" /\ "go.mod" \in events
    /\ events' = events \ {"go.mod"}
    /\ cache' = "none"
    /\ pump' = "drop"
    /\ crossed' = (\E t \in Tasks : task[t].pc = "store")
    /\ UNCHANGED <<disk, goMod, changes, subIdx, index, build, task, unread, raced>>

DropSubIndex ==
    /\ pump = "drop"
    /\ subIdx' = 0
    /\ pump' = "idle"
    /\ UNCHANGED <<diskVars, cache, index, build, task, history>>

\* evictIdleModules: what it checks may have changed by the time it deletes.
EvictIdleModules ==
    /\ subIdx # 0
    /\ subIdx' = 0
    /\ UNCHANGED <<diskVars, pump, cache, index, build, task, history>>

-----------------------------------------------------------------------------
(* modRoots.RootFor, then indexFor: for an update and for a query alike. *)

\* The main index has never had file g: it is a nested file whose go.mod was removed,
\* and it has not changed since.
NeverWalked(g) == g \in unread /\ NestedRoot(g) = "main"

\* resolveAndExpand for a definition in file f.  What the query must see is what
\* is settled now: the edges of files of f's module that no event, no goroutine
\* and no go.mod event is about.  The files the main index never walks, after
\* their go.mod is gone, are not among them: the code does not find those.
Settled(f) ==
    IF "go.mod" \in events \/ pump # "idle" THEN {}
    ELSE {g \in Files :
            /\ disk[g] = "importing" /\ g \notin events /\ NestedRoot(g) = NestedRoot(f)
            /\ \A t \in Updates : g \notin task[t].file
            /\ ~NeverWalked(g)}

Query(f, t) ==
    /\ task[t].pc = "none"
    /\ task' = [task EXCEPT ![t] = [NoTask EXCEPT !.pc = "root", !.file = {f},
                                                  !.settled = Settled(f)]]
    /\ UNCHANGED <<diskVars, pump, cache, subIdx, index, build, history>>

FileOf(t) == CHOOSE f \in Files : f \in task[t].file

\* The directory of a main file never has another answer than "".
RootForCached(t) ==
    /\ task[t].pc = "root"
    /\ FileOf(t) \in NestedFiles => cache # "none"
    /\ task' = [task EXCEPT ![t].pc = "index",
                            ![t].root = IF FileOf(t) \in NestedFiles THEN cache ELSE "main"]
    /\ UNCHANGED <<diskVars, pump, cache, subIdx, index, build, history>>

RootForStat(t) ==
    /\ task[t].pc = "root" /\ FileOf(t) \in NestedFiles /\ cache = "none"
    /\ task' = [task EXCEPT ![t].pc = "store", ![t].root = NestedRoot(FileOf(t))]
    /\ UNCHANGED <<diskVars, pump, cache, subIdx, index, build, history>>

RootForStore(t) ==
    /\ task[t].pc = "store"
    /\ cache' = task[t].root
    /\ task' = [task EXCEPT ![t].pc = "index"]
    /\ UNCHANGED <<diskVars, pump, subIdx, index, build, history>>

\* indexFor: the nested module's index is created on first access.
Unused == {i \in Indexes : build[i].pc = "none"}

UseIndex(t, i) ==
    task' = [task EXCEPT ![t].pc = IF t \in Queries THEN "await" ELSE "check", ![t].idx = i]

IndexFor(t) ==
    /\ task[t].pc = "index"
    /\ IF task[t].root = "main" THEN UseIndex(t, Main) /\ UNCHANGED <<subIdx, build>>
       ELSE IF subIdx # 0 THEN UseIndex(t, subIdx) /\ UNCHANGED <<subIdx, build>>
       ELSE \E i \in Unused :
              /\ \A j \in Unused : i <= j
              /\ UseIndex(t, i)
              /\ subIdx' = i
              /\ build' = [build EXCEPT ![i] = Started]
    /\ UNCHANGED <<diskVars, pump, cache, index, history>>

-----------------------------------------------------------------------------
(* UpdateFile, from an event. *)

Leave(t) == task' = [task EXCEPT ![t] = NoTask]

\* Until Build has read the module path there is nothing to update.
UpdateUnset(t) ==
    /\ task[t].pc = "check" /\ ~index[task[t].idx].modPath
    /\ Leave(t)
    /\ UNCHANGED <<diskVars, pump, cache, subIdx, index, build, history>>

UpdateRead(t) ==
    /\ task[t].pc = "check" /\ index[task[t].idx].modPath
    /\ task' = [task EXCEPT ![t].pc = "apply", ![t].content = disk[FileOf(t)]]
    /\ raced' = IF Reading(FileOf(t)) THEN raced \cup {FileOf(t)} ELSE raced
    /\ UNCHANGED <<diskVars, pump, cache, subIdx, index, build, crossed, unread>>

\* Mutant: a file's old edges are removed with its symbols.
MergeExactly(i, f, c) ==
    [index EXCEPT ![i].symbols[f] = c,
                  ![i].edges = IF c = "importing" THEN @ \cup {f} ELSE @ \ {f}]

\* Mutant: a deleted file keeps its symbols.
MergeKeepingDeleted(i, f, c) ==
    [index EXCEPT ![i].symbols[f] = IF c = Absent THEN @ ELSE c,
                  ![i].edges = IF c = "importing" THEN @ \cup {f} ELSE @]

\* Edges are only added; a deleted file loses its symbols.
Merge(i, f, c) ==
    [index EXCEPT ![i].symbols[f] = c,
                  ![i].edges = IF c = "importing" THEN @ \cup {f} ELSE @]

UpdateApply(t) ==
    /\ task[t].pc = "apply"
    /\ index' = Merge(task[t].idx, FileOf(t), task[t].content)
    /\ Leave(t)
    /\ UNCHANGED <<diskVars, pump, cache, subIdx, build, history>>

-----------------------------------------------------------------------------
(* Build: read the module path, walk the module, then UpdateFile each file.  *)
(* The parallel workers of a build handle different files; they take turns   *)
(* here. *)

BuildStart(i) ==
    /\ build[i].pc = "start"
    /\ index' = [index EXCEPT ![i].modPath = (i = Main \/ goMod)]
    /\ build' = [build EXCEPT ![i].pc = "walk"]
    /\ UNCHANGED <<diskVars, pump, cache, subIdx, task, history>>

Walked(i) ==
    {f \in Files : disk[f] # Absent /\ IF i = Main THEN NestedRoot(f) = "main" ELSE f \in NestedFiles}

BuildWalk(i) ==
    /\ build[i].pc = "walk"
    /\ build' = [build EXCEPT ![i].pc = "files",
                              ![i].left = IF index[i].modPath THEN Walked(i) ELSE {}]
    /\ UNCHANGED <<diskVars, pump, cache, subIdx, index, task, history>>

BuildRead(i, f) ==
    /\ build[i].pc = "files" /\ f \in build[i].left
    /\ build' = [build EXCEPT ![i] = [pc |-> "apply", left |-> @.left \ {f}, file |-> {f},
                                      content |-> disk[f]]]
    /\ raced' = IF Reading(f) THEN raced \cup {f} ELSE raced
    /\ UNCHANGED <<diskVars, pump, cache, subIdx, index, task, crossed, unread>>

BuildApply(i) ==
    /\ build[i].pc = "apply"
    /\ \E f \in build[i].file : index' = Merge(i, f, build[i].content)
    /\ build' = [build EXCEPT ![i] = [NoBuild EXCEPT !.pc = "files", !.left = build[i].left]]
    /\ UNCHANGED <<diskVars, pump, cache, subIdx, task, history>>

BuildReady(i) ==
    /\ build[i].pc = "files" /\ build[i].left = {}
    /\ index' = [index EXCEPT ![i].ready = TRUE]
    /\ build' = [build EXCEPT ![i].pc = "done"]
    /\ UNCHANGED <<diskVars, pump, cache, subIdx, task, history>>

-----------------------------------------------------------------------------
(* WaitReady, then ClosureUnits. *)

WaitReady(t) ==
    /\ task[t].pc = "await"
    /\ task' = [task EXCEPT ![t].pc = IF index[task[t].idx].ready THEN "closure" ELSE "timeout"]
    /\ UNCHANGED <<diskVars, pump, cache, subIdx, index, build, history>>

Answer(t) ==
    /\ task[t].pc \in {"closure", "timeout"}
    /\ task' = [task EXCEPT ![t] = [NoTask EXCEPT !.pc = "done"]]
    /\ UNCHANGED <<diskVars, pump, cache, subIdx, index, build, history>>

scopeUnit(rel, n) == SubSeq(rel, 1, IF Len(rel) > n THEN n ELSE Len(rel))

\* Mutant: only the direct importers.
DirectUnits(importers, relDir) ==
    {scopeUnit(d, Granularity) : d \in importers[relDir] \cup {relDir}}

\* One turn of the loop: the first of the queue leaves it, and its importers that have
\* not been seen are appended.
SearchStep(importers, s) ==
    LET new == importers[Head(s.queue)] \ s.seen
    IN IF s.queue = <<>> THEN s
       ELSE [seen |-> s.seen \cup new, queue |-> Tail(s.queue) \o SetToSeq(new)]

\* The breadth-first search over the importers of a directory; at most one turn of
\* its loop per directory.
ClosureUnits(importers, relDir) ==
    LET search[n \in 0..Cardinality(Dirs)] ==
            IF n = 0 THEN [seen |-> {relDir}, queue |-> <<relDir>>]
            ELSE SearchStep(importers, search[n - 1])
    IN {scopeUnit(d, Granularity) : d \in search[Cardinality(Dirs)].seen}

-----------------------------------------------------------------------------
TaskStep(t) ==
    \/ RootForCached(t) \/ RootForStat(t) \/ RootForStore(t) \/ IndexFor(t)
    \/ UpdateUnset(t) \/ UpdateRead(t) \/ UpdateApply(t)
    \/ WaitReady(t) \/ Answer(t)

BuildStep(i) ==
    \/ BuildStart(i) \/ BuildWalk(i) \/ BuildApply(i) \/ BuildReady(i)
    \/ \E f \in Files : BuildRead(i, f)

Next ==
    \/ \E f \in Files : 
        \/ ChangeFile(f)
        \/ \E t \in Updates : ObserveFileEvent(f, t)
        \/ \E t \in Queries : Query(f, t)
    \/ ChangeGoMod \/ Invalidate \/ DropSubIndex \/ EvictIdleModules
    \/ \E t \in Tasks : TaskStep(t)
    \/ \E i \in Indexes : BuildStep(i)

Spec == Init /\ [][Next]_vars

-----------------------------------------------------------------------------
(* Properties. *)

\* A query that finds its index ready finds in it every import that was on disk
\* and reported when the query began: whatever order the goroutines of the events
\* apply their reads in, and although updates skip an index that is being set up,
\* the index may be dropped and built again, and the file may be older than it.
\* Two cases are left out, in which the code does miss imports (README, known
\* deviations): a file of a nested directory whose go.mod was removed and that no
\* event has reported since, which the main index never walks (Settled); and
\* everything while the root cached is one that crossed the last Invalidate.
QuerySeesImports ==
    ~crossed => \A t \in Tasks : task[t].pc = "closure" => task[t].settled \subseteq index[task[t].idx].edges

\* Once a go.mod event has been handled, a cached module root is the right one,
\* unless that event fell between a goroutine's look at the disk and its store.
RootCacheCurrent ==
    "go.mod" \notin events /\ ~crossed /\ cache # "none" =>
        cache = IF goMod THEN "nested" ELSE "main"

\* No file event is unsent, half handled or being applied.
Quiet == events = {} /\ pump = "idle" /\ \A t \in Updates : task[t].pc = "none"

\* When nothing is under way, the symbols of a file are those of its text, and a
\* deleted file has none.  The code misses three cases (README, known deviations):
\* two goroutines were reading the file at once; its go.mod was removed and no
\* event has reported it since; the root cached crossed the last Invalidate.
SymbolsCurrent ==
    Quiet /\ ~crossed =>
        \A f \in {g \in Files \ raced : ~NeverWalked(g)} :
            LET i == IF NestedRoot(f) = "main" THEN Main ELSE subIdx
            IN i # 0 /\ (i # 0 => index[i].ready) => index[i].symbols[f] = disk[f]

\* The directories that reach relDir through imports: they are in every set that has
\* relDir and, with a directory, its importers.
Closed(importers, S) == \A d \in S : importers[d] \subseteq S
Reaching(importers, relDir) ==
    {d \in Dirs : \A S \in SUBSET Dirs : relDir \in S /\ Closed(importers, S) => d \in S}

\* ClosureUnits computes the units of the directories that reach relDir through
\* imports, for every import relation, cyclic ones included.  (It is about all inputs
\* and no state: the initial states are enough.)
ClosureReaches ==
    Init => \A importers \in [Dirs -> SUBSET Dirs] : \A relDir \in Dirs :
        ClosureUnits(importers, relDir) =
            {scopeUnit(d, Granularity) : d \in Reaching(importers, relDir)}
=============================================================================
