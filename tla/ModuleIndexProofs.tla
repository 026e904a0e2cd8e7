------------------------- MODULE ModuleIndexProofs --------------------------
(***************************************************************************)
(* Proofs about ModuleIndex, for any files, goroutines and bounds.         *)
(*                                                                         *)
(* The argument is about pairs of an index and a file it serves: Main      *)
(* serves the files outside the nested directory, and those in it without  *)
(* a go.mod, unless one was removed and the file was not reported since;   *)
(* the index under subIdx serves the nested files while the go.mod is      *)
(* there and its event has been handled.  What such an index lacks of a    *)
(* file is still to come: from an event, from a goroutine that will look   *)
(* the file's module up right, or from the build.                          *)
(***************************************************************************)
EXTENDS ModuleIndex, FiniteSetTheorems, SequenceTheorems, TLAPS

IndexType == [modPath : BOOLEAN, ready : BOOLEAN, edges : SUBSET Files, symbols : [Files -> Contents]]
BuildType ==
    [pc : {"none", "start", "walk", "files", "apply", "done"}, left : SUBSET Files,
     file : SUBSET Files, content : Contents]
TaskType ==
    [pc : {"none", "root", "store", "index", "check", "apply", "await", "closure", "timeout", "done"},
     file : SUBSET Files, root : {"main", "nested"}, idx : Indexes, content : Contents,
     settled : SUBSET Files]

Typed ==
    /\ disk \in [Files -> Contents] /\ goMod \in BOOLEAN
    /\ events \subseteq Files \cup {"go.mod"} /\ pump \in {"idle", "drop"}
    /\ cache \in {"none", "main", "nested"} /\ subIdx \in Indexes \cup {0}
    /\ index \in [Indexes -> IndexType] /\ build \in [Indexes -> BuildType]
    /\ task \in [Tasks -> TaskType]
    /\ crossed \in BOOLEAN /\ unread \subseteq NestedFiles

\* What a goroutine may be doing, and to which file.
TaskShape(t) ==
    /\ task[t].pc \in {"none", "done"} => task[t].file = {} /\ task[t].settled = {}
    /\ task[t].pc \notin {"none", "done"} => \E f \in Files : task[t].file = {f}
    /\ task[t].pc = "store" => task[t].file \subseteq NestedFiles
    /\ task[t].pc \in {"check", "apply", "await"} => build[task[t].idx].pc # "none"
    /\ task[t].pc = "apply" => index[task[t].idx].modPath
    /\ t \in Updates =>
        /\ task[t].pc \in {"none", "root", "store", "index", "check", "apply"}
        /\ task[t].settled = {}
    /\ t \in Queries => task[t].pc \notin {"check", "apply"}
TasksShaped == \A t \in Tasks : TaskShape(t)

\* The life of an index: new until its build has started, and ready when that is done.
IndexShape(i) ==
    /\ build[i].pc = "apply" => \E f \in Files : build[i].file = {f}
    /\ build[i].pc \in {"none", "start"} => ~index[i].modPath
    /\ ~index[i].modPath => index[i].symbols = [f \in Files |-> Absent]
    /\ build[i].pc = "apply" \/ (build[i].pc = "files" /\ build[i].left # {}) => index[i].modPath
    /\ index[i].ready => build[i].pc = "done"
IndexesShaped ==
    /\ build[Main].pc # "none" /\ subIdx # Main
    /\ subIdx # 0 => build[subIdx].pc # "none"
    /\ index[Main].modPath \/ build[Main].pc = "start"
    /\ \A i \in Indexes : IndexShape(i)

\* The root of the nested directory.
Current == IF goMod THEN "nested" ELSE "main"

\* What is cached, or about to be, is right once the go.mod event has been handled; and
\* until it has, no file counts as reported since the go.mod was removed.
RootsRight ==
    /\ "go.mod" \notin events /\ ~crossed =>
        /\ cache # "none" => cache = Current
        /\ \A t \in Tasks : task[t].pc = "store" => task[t].root = Current
    /\ ~goMod /\ "go.mod" \in events => NestedFiles \subseteq unread

\* Index i is the one that answers for file f.
Serves(i, f) ==
    \/ /\ i = Main
       /\ f \in NestedFiles => ~goMod /\ f \notin unread /\ "go.mod" \notin events /\ ~crossed
    \/ /\ i = subIdx /\ i # 0 /\ f \in NestedFiles /\ goMod
       /\ "go.mod" \notin events /\ pump = "idle" /\ ~crossed

RootOf(i) == IF i = Main THEN "main" ELSE "nested"

\* File f will be read for index i, because of an event.
Waits(t, i, f) ==
    /\ f \in task[t].file
    /\ \/ task[t].pc \in {"root", "store"}
       \/ task[t].pc = "index" /\ task[t].root = RootOf(i)
       \/ task[t].pc = "check" /\ task[t].idx = i
Pending(i, f) == f \in events \/ \E t \in Updates : Waits(t, i, f)

\* The build of index i will read file f.
ToBuild(i, f) ==
    \/ build[i].pc = "start" /\ (i = Main \/ goMod) /\ f \in Walked(i)
    \/ build[i].pc = "walk" /\ index[i].modPath /\ f \in Walked(i)
    \/ build[i].pc \in {"files", "apply"} /\ f \in build[i].left

\* File f has been read for index i: by a goroutine, or by the build.
UpdateHas(t, i, f) == task[t].pc = "apply" /\ f \in task[t].file /\ task[t].idx = i
BuildHas(i, f) == build[i].pc = "apply" /\ f \in build[i].file

\* The edge of an importing file is in the index, or has been read, or will be.
Covered(i, f) ==
    \/ f \in index[i].edges
    \/ ToBuild(i, f)
    \/ BuildHas(i, f) /\ build[i].content = "importing"
EdgeOK(i, f) ==
    disk[f] = "importing" =>
        \/ Pending(i, f) \/ Covered(i, f)
        \/ \E t \in Updates : UpdateHas(t, i, f) /\ task[t].content = "importing"

\* The symbols of a file are those of its text, or the text has been read, or will be.
SymbolsOK(i, f) ==
    \/ Pending(i, f)
    \/ /\ \A t \in Updates : UpdateHas(t, i, f) => task[t].content = disk[f]
       /\ BuildHas(i, f) => build[i].content = disk[f]
       /\ \/ index[i].symbols[f] = disk[f] \/ ToBuild(i, f) \/ BuildHas(i, f)
          \/ \E t \in Updates : UpdateHas(t, i, f)

\* A file that has not raced has been read by one goroutine at most.
OneReader ==
    \A f \in Files \ raced :
        /\ \A t, u \in Updates : \A i, j \in Indexes :
            UpdateHas(t, i, f) /\ UpdateHas(u, j, f) => t = u
        /\ \A i, j \in Indexes : BuildHas(i, f) /\ BuildHas(j, f) => i = j
        /\ \A t \in Updates : \A i, j \in Indexes : ~(UpdateHas(t, i, f) /\ BuildHas(j, f))

ServedOK ==
    \A i \in Indexes, f \in Files :
        Serves(i, f) => EdgeOK(i, f) /\ (f \notin raced => SymbolsOK(i, f))

\* The index of the nested module has its module path, or its build is to start.
SubIndexBuilds ==
    subIdx # 0 /\ goMod /\ "go.mod" \notin events /\ pump = "idle" =>
        index[subIdx].modPath \/ build[subIdx].pc = "start"

\* What a query found settled still is, the query looks for it in the right module, and
\* the index it has taken will have it.
QueryFit(t, g) ==
    /\ disk[g] = "importing" /\ g \notin events /\ \A u \in Updates : g \notin task[u].file
    /\ "go.mod" \notin events /\ pump = "idle"
    /\ g \in unread => goMod
    /\ NestedRoot(g) = NestedRoot(FileOf(t))
    /\ ~crossed /\ task[t].pc = "index" => task[t].root = NestedRoot(g)
    /\ ~crossed /\ task[t].pc \in {"await", "closure"} => Covered(task[t].idx, g)
    /\ task[t].pc = "closure" => build[task[t].idx].pc = "done"
QueriesFit == \A t \in Queries : \A g \in task[t].settled : QueryFit(t, g)

ModuleIndexInv ==
    /\ Typed /\ TasksShaped /\ IndexesShaped /\ RootsRight /\ OneReader /\ SubIndexBuilds
    /\ ServedOK /\ QueriesFit

-----------------------------------------------------------------------------
(* What the steps do to the records. *)

\* Goroutine t goes on with its file, or with another one, and the others do not move.
TaskIs(t, pc, root, idx, content) ==
    /\ task' \in [Tasks -> TaskType]
    /\ task'[t].pc = pc /\ task'[t].file = task[t].file /\ task'[t].root = root
    /\ task'[t].idx = idx /\ task'[t].content = content /\ task'[t].settled = task[t].settled
    /\ \A u \in Tasks \ {t} : task'[u] = task[u]
TaskBegins(t, pc, file, settled) ==
    /\ task' \in [Tasks -> TaskType]
    /\ task'[t].pc = pc /\ task'[t].file = file /\ task'[t].root = "main"
    /\ task'[t].idx = Main /\ task'[t].content = Absent /\ task'[t].settled = settled
    /\ \A u \in Tasks \ {t} : task'[u] = task[u]
BuildIs(i, pc, left, file, content) ==
    /\ build' \in [Indexes -> BuildType]
    /\ build'[i].pc = pc /\ build'[i].left = left
    /\ build'[i].file = file /\ build'[i].content = content
    /\ \A j \in Indexes \ {i} : build'[j] = build[j]
IndexIs(i, modPath, ready, edges, symbols) ==
    /\ index' \in [Indexes -> IndexType]
    /\ index'[i].modPath = modPath /\ index'[i].ready = ready
    /\ index'[i].edges = edges /\ index'[i].symbols = symbols
    /\ \A j \in Indexes \ {i} : index'[j] = index[j]

LEMMA Constants ==
    /\ Main \in Indexes /\ 0 \notin Indexes /\ Indexes \subseteq Int
    /\ "go.mod" \notin Files /\ NestedFiles \subseteq Files
    /\ \A f \in Files : f \notin NestedFiles => f \in MainFiles
    /\ Updates \subseteq Tasks /\ Queries \subseteq Tasks
    /\ \A t \in Updates : t \notin Queries
    /\ Absent \in Contents
BY IndexAssumption DEF Indexes, Main, Files, Tasks, Contents

\* One record of a table changes.
LEMMA TaskChanged ==
    ASSUME Typed, NEW t \in Tasks, NEW new \in TaskType, task' = [task EXCEPT ![t] = new]
    PROVE  /\ task' \in [Tasks -> TaskType] /\ task'[t] = new
           /\ \A u \in Tasks \ {t} : task'[u] = task[u]
BY DEF Typed

LEMMA BuildChanged ==
    ASSUME Typed, NEW i \in Indexes, NEW new \in BuildType, build' = [build EXCEPT ![i] = new]
    PROVE  /\ build' \in [Indexes -> BuildType] /\ build'[i] = new
           /\ \A j \in Indexes \ {i} : build'[j] = build[j]
BY DEF Typed

LEMMA IndexChanged ==
    ASSUME Typed, NEW i \in Indexes, NEW new \in IndexType, index' = [index EXCEPT ![i] = new]
    PROVE  /\ index' \in [Indexes -> IndexType] /\ index'[i] = new
           /\ \A j \in Indexes \ {i} : index'[j] = index[j]
BY DEF Typed

\* A goroutine leaves, or has answered.
LEMMA TaskLeavesEffect ==
    ASSUME Typed, NEW t \in Tasks, NEW pc \in {"none", "done"},
           task' = [task EXCEPT ![t] = [NoTask EXCEPT !.pc = pc]]
    PROVE  TaskBegins(t, pc, {}, {})
<1> DEFINE new == [NoTask EXCEPT !.pc = pc]
<1>1. /\ new \in TaskType /\ new.pc = pc /\ new.file = {} /\ new.settled = {}
      /\ new.root = "main" /\ new.idx = Main /\ new.content = Absent
  BY Constants DEF NoTask, TaskType
<1> HIDE DEF new
<1>2. task' = [task EXCEPT ![t] = new]
  BY DEF new
<1> QED BY <1>1, <1>2, TaskChanged DEF TaskBegins

LEMMA TaskFields ==
    ASSUME Typed, NEW t \in Tasks
    PROVE  /\ task[t] \in TaskType /\ task[t].file \in SUBSET Files
           /\ task[t].root \in {"main", "nested"} /\ task[t].idx \in Indexes
           /\ task[t].content \in Contents /\ task[t].settled \in SUBSET Files
<1>1. task[t] \in TaskType
  BY DEF Typed
<1> QED BY <1>1 DEF TaskType

\* The file a goroutine is about.
LEMMA FileOfTask ==
    ASSUME TasksShaped, NEW t \in Tasks, task[t].pc \notin {"none", "done"}
    PROVE  FileOf(t) \in Files /\ task[t].file = {FileOf(t)}
<1>1. PICK f \in Files : task[t].file = {f}
  BY DEF TasksShaped, TaskShape
<1> QED BY <1>1 DEF FileOf

LEMMA RootForCachedEffect ==
    ASSUME Typed, NEW t \in Tasks, RootForCached(t)
    PROVE  TaskIs(t, "index", IF FileOf(t) \in NestedFiles THEN cache ELSE "main", task[t].idx, task[t].content)
<1> DEFINE root == IF FileOf(t) \in NestedFiles THEN cache ELSE "main"
           new == [task[t] EXCEPT !.pc = "index", !.root = root]
<1>1. root \in {"main", "nested"}
  BY DEF RootForCached, Typed
<1>2. task' = [task EXCEPT ![t] = new]
  BY DEF RootForCached, Typed
<1> HIDE DEF root
<1>3. /\ new \in TaskType /\ new.pc = "index" /\ new.root = root /\ new.idx = task[t].idx
      /\ new.content = task[t].content /\ new.file = task[t].file /\ new.settled = task[t].settled
  BY <1>1, TaskFields DEF TaskType
<1> HIDE DEF new
<1>4. TaskIs(t, "index", root, task[t].idx, task[t].content)
  BY <1>2, <1>3, TaskChanged DEF TaskIs
<1> QED BY <1>4 DEF root

LEMMA RootForStatEffect ==
    ASSUME Typed, NEW t \in Tasks, RootForStat(t)
    PROVE  TaskIs(t, "store", Current, task[t].idx, task[t].content)
<1> DEFINE root == NestedRoot(FileOf(t))
           new == [task[t] EXCEPT !.pc = "store", !.root = root]
<1>1. root = Current /\ root \in {"main", "nested"}
  BY DEF RootForStat, NestedRoot, Current
<1>2. task' = [task EXCEPT ![t] = new]
  BY DEF RootForStat, Typed
<1> HIDE DEF root
<1>3. /\ new \in TaskType /\ new.pc = "store" /\ new.root = root /\ new.idx = task[t].idx
      /\ new.content = task[t].content /\ new.file = task[t].file /\ new.settled = task[t].settled
  BY <1>1, TaskFields DEF TaskType
<1> HIDE DEF new
<1>4. TaskIs(t, "store", root, task[t].idx, task[t].content)
  BY <1>2, <1>3, TaskChanged DEF TaskIs
<1> QED BY <1>1, <1>4

LEMMA RootForStoreEffect ==
    ASSUME Typed, NEW t \in Tasks, RootForStore(t)
    PROVE  TaskIs(t, "index", task[t].root, task[t].idx, task[t].content)
<1> DEFINE new == [task[t] EXCEPT !.pc = "index"]
<1>2. task' = [task EXCEPT ![t] = new]
  BY DEF RootForStore, Typed
<1>3. /\ new \in TaskType /\ new.pc = "index" /\ new.root = task[t].root /\ new.idx = task[t].idx
      /\ new.content = task[t].content /\ new.file = task[t].file /\ new.settled = task[t].settled
  BY TaskFields DEF TaskType
<1> HIDE DEF new
<1>4. TaskIs(t, "index", task[t].root, task[t].idx, task[t].content)
  BY <1>2, <1>3, TaskChanged DEF TaskIs
<1> QED BY <1>4

LEMMA UseIndexEffect ==
    ASSUME Typed, NEW t \in Tasks, NEW i \in Indexes, UseIndex(t, i)
    PROVE  TaskIs(t, IF t \in Queries THEN "await" ELSE "check", task[t].root, i, task[t].content)
<1> DEFINE pc == IF t \in Queries THEN "await" ELSE "check"
           new == [task[t] EXCEPT !.pc = pc, !.idx = i]
<1>1. pc \in {"await", "check"}
  OBVIOUS
<1>2. task' = [task EXCEPT ![t] = new]
  BY DEF UseIndex, Typed
<1> HIDE DEF pc
<1>3. /\ new \in TaskType /\ new.pc = pc /\ new.root = task[t].root /\ new.idx = i
      /\ new.content = task[t].content /\ new.file = task[t].file /\ new.settled = task[t].settled
  BY <1>1, TaskFields DEF TaskType
<1> HIDE DEF new
<1>4. TaskIs(t, pc, task[t].root, i, task[t].content)
  BY <1>2, <1>3, TaskChanged DEF TaskIs
<1> QED BY <1>4 DEF pc

LEMMA UpdateReadEffect ==
    ASSUME Typed, TasksShaped, NEW t \in Tasks, UpdateRead(t)
    PROVE  TaskIs(t, "apply", task[t].root, task[t].idx, disk[FileOf(t)])
<1> DEFINE new == [task[t] EXCEPT !.pc = "apply", !.content = disk[FileOf(t)]]
<1>1. FileOf(t) \in Files /\ disk[FileOf(t)] \in Contents
  BY FileOfTask DEF UpdateRead, Typed
<1>2. task' = [task EXCEPT ![t] = new]
  BY DEF UpdateRead, Typed
<1>3. /\ new \in TaskType /\ new.pc = "apply" /\ new.root = task[t].root /\ new.idx = task[t].idx
      /\ new.content = disk[FileOf(t)] /\ new.file = task[t].file /\ new.settled = task[t].settled
  BY <1>1, TaskFields DEF TaskType
<1> HIDE DEF new
<1>4. TaskIs(t, "apply", task[t].root, task[t].idx, disk[FileOf(t)])
  BY <1>2, <1>3, TaskChanged DEF TaskIs
<1> QED BY <1>4

LEMMA WaitReadyEffect ==
    ASSUME Typed, NEW t \in Tasks, WaitReady(t)
    PROVE  TaskIs(t, IF index[task[t].idx].ready THEN "closure" ELSE "timeout", task[t].root, task[t].idx, task[t].content)
<1> DEFINE pc == IF index[task[t].idx].ready THEN "closure" ELSE "timeout"
           new == [task[t] EXCEPT !.pc = pc]
<1>1. pc \in {"closure", "timeout"}
  OBVIOUS
<1>2. task' = [task EXCEPT ![t] = new]
  BY DEF WaitReady, Typed
<1> HIDE DEF pc
<1>3. /\ new \in TaskType /\ new.pc = pc /\ new.root = task[t].root /\ new.idx = task[t].idx
      /\ new.content = task[t].content /\ new.file = task[t].file /\ new.settled = task[t].settled
  BY <1>1, TaskFields DEF TaskType
<1> HIDE DEF new
<1>4. TaskIs(t, pc, task[t].root, task[t].idx, task[t].content)
  BY <1>2, <1>3, TaskChanged DEF TaskIs
<1> QED BY <1>4 DEF pc

LEMMA ObserveEffect ==
    ASSUME Typed, NEW t \in Tasks, NEW f \in Files, ObserveFileEvent(f, t)
    PROVE  TaskBegins(t, "root", {f}, {})
<1> DEFINE new == [NoTask EXCEPT !.pc = "root", !.file = {f}]
<1>1. /\ new \in TaskType /\ new.pc = "root" /\ new.file = {f} /\ new.settled = {}
      /\ new.root = "main" /\ new.idx = Main /\ new.content = Absent
  BY Constants DEF NoTask, TaskType
<1>2. task' = [task EXCEPT ![t] = new]
  BY DEF ObserveFileEvent
<1> HIDE DEF new
<1> QED BY <1>1, <1>2, TaskChanged DEF TaskBegins

LEMMA QueryEffect ==
    ASSUME Typed, NEW t \in Tasks, NEW f \in Files, Query(f, t)
    PROVE  TaskBegins(t, "root", {f}, Settled(f))
<1> DEFINE new == [NoTask EXCEPT !.pc = "root", !.file = {f}, !.settled = Settled(f)]
<1>1. Settled(f) \in SUBSET Files
  BY DEF Settled
<1>2. /\ new \in TaskType /\ new.pc = "root" /\ new.file = {f} /\ new.settled = Settled(f)
      /\ new.root = "main" /\ new.idx = Main /\ new.content = Absent
  BY <1>1, Constants DEF NoTask, TaskType
<1>3. task' = [task EXCEPT ![t] = new]
  BY DEF Query
<1> HIDE DEF new
<1> QED BY <1>2, <1>3, TaskChanged DEF TaskBegins

LEMMA LeaveEffect ==
    ASSUME Typed, NEW t \in Tasks, Leave(t)
    PROVE  TaskBegins(t, "none", {}, {})
<1>1. NoTask = [NoTask EXCEPT !.pc = "none"]
  BY DEF NoTask
<1>2. task' = [task EXCEPT ![t] = [NoTask EXCEPT !.pc = "none"]]
  BY <1>1 DEF Leave
<1> QED BY <1>2, TaskLeavesEffect

\* A change on disk touches of the goroutines what their queries found settled.
LEMMA UnsettleEffect ==
    ASSUME Typed, NEW files, Unsettle(files)
    PROVE  /\ task' \in [Tasks -> TaskType]
           /\ \A t \in Tasks :
                /\ task'[t].pc = task[t].pc /\ task'[t].file = task[t].file
                /\ task'[t].root = task[t].root /\ task'[t].idx = task[t].idx
                /\ task'[t].content = task[t].content
                /\ task'[t].settled = task[t].settled \ files
<1>1. ASSUME NEW t \in Tasks
      PROVE  /\ task'[t] \in TaskType
             /\ task'[t].pc = task[t].pc /\ task'[t].file = task[t].file
             /\ task'[t].root = task[t].root /\ task'[t].idx = task[t].idx
             /\ task'[t].content = task[t].content
             /\ task'[t].settled = task[t].settled \ files
  <2>1. task'[t] = [task[t] EXCEPT !.settled = task[t].settled \ files]
    BY DEF Unsettle
  <2> QED BY <2>1, TaskFields DEF TaskType
<1>2. task' = [t \in Tasks |-> task'[t]]
  BY DEF Unsettle
<1> QED BY <1>1, <1>2

LEMMA BuildFields ==
    ASSUME Typed, NEW i \in Indexes
    PROVE  /\ build[i] \in BuildType /\ build[i].left \in SUBSET Files /\ build[i].file \in SUBSET Files
           /\ build[i].content \in Contents
<1>1. build[i] \in BuildType
  BY DEF Typed
<1> QED BY <1>1 DEF BuildType

LEMMA IndexFields ==
    ASSUME Typed, NEW i \in Indexes
    PROVE  /\ index[i] \in IndexType /\ index[i].modPath \in BOOLEAN /\ index[i].ready \in BOOLEAN
           /\ index[i].edges \in SUBSET Files /\ index[i].symbols \in [Files -> Contents]
<1>1. index[i] \in IndexType
  BY DEF Typed
<1> QED BY <1>1 DEF IndexType

\* A file's text goes into an index.
LEMMA MergeEffect ==
    ASSUME Typed, NEW i \in Indexes, NEW f \in Files, NEW c \in Contents, index' = Merge(i, f, c)
    PROVE  IndexIs(i, index[i].modPath, index[i].ready,
                   IF c = "importing" THEN index[i].edges \cup {f} ELSE index[i].edges,
                   [index[i].symbols EXCEPT ![f] = c])
<1> DEFINE edges == IF c = "importing" THEN index[i].edges \cup {f} ELSE index[i].edges
           symbols == [index[i].symbols EXCEPT ![f] = c]
           new == [index[i] EXCEPT !.symbols = symbols, !.edges = edges]
<1>1. edges \in SUBSET Files /\ symbols \in [Files -> Contents]
  BY IndexFields
<1>2. index' = [index EXCEPT ![i] = new]
  BY DEF Merge, Typed
<1> HIDE DEF edges, symbols
<1>3. /\ new \in IndexType /\ new.modPath = index[i].modPath /\ new.ready = index[i].ready
      /\ new.edges = edges /\ new.symbols = symbols
  BY <1>1, IndexFields DEF IndexType
<1> HIDE DEF new
<1>4. IndexIs(i, index[i].modPath, index[i].ready, edges, symbols)
  BY <1>2, <1>3, IndexChanged DEF IndexIs
<1> QED BY <1>4 DEF edges, symbols

LEMMA BuildStartEffect ==
    ASSUME Typed, NEW i \in Indexes, BuildStart(i)
    PROVE  /\ index' \in [Indexes -> IndexType]
           /\ index'[i].modPath <=> i = Main \/ goMod
           /\ index'[i].ready = index[i].ready /\ index'[i].edges = index[i].edges
           /\ index'[i].symbols = index[i].symbols
           /\ \A j \in Indexes \ {i} : index'[j] = index[j]
           /\ BuildIs(i, "walk", build[i].left, build[i].file, build[i].content)
<1> DEFINE new == [index[i] EXCEPT !.modPath = (i = Main \/ goMod)]
           bld == [build[i] EXCEPT !.pc = "walk"]
<1>1. /\ new \in IndexType /\ new.ready = index[i].ready /\ new.edges = index[i].edges
      /\ new.symbols = index[i].symbols
  BY IndexFields DEF IndexType
<1>2. new.modPath <=> i = Main \/ goMod
  BY IndexFields DEF IndexType
<1>3. /\ bld \in BuildType /\ bld.pc = "walk" /\ bld.left = build[i].left
      /\ bld.file = build[i].file /\ bld.content = build[i].content
  BY BuildFields DEF BuildType
<1>4. index' = [index EXCEPT ![i] = new] /\ build' = [build EXCEPT ![i] = bld]
  BY DEF BuildStart, Typed
<1> HIDE DEF new, bld
<1>5. BuildIs(i, "walk", build[i].left, build[i].file, build[i].content)
  BY <1>3, <1>4, BuildChanged DEF BuildIs
<1> QED BY <1>1, <1>2, <1>4, <1>5, IndexChanged

LEMMA BuildWalkEffect ==
    ASSUME Typed, NEW i \in Indexes, BuildWalk(i)
    PROVE  BuildIs(i, "files", IF index[i].modPath THEN Walked(i) ELSE {}, build[i].file, build[i].content)
<1> DEFINE left == IF index[i].modPath THEN Walked(i) ELSE {}
           new == [build[i] EXCEPT !.pc = "files", !.left = left]
<1>1. left \in SUBSET Files
  BY DEF Walked
<1> HIDE DEF left
<1>2. /\ new \in BuildType /\ new.pc = "files" /\ new.left = left
      /\ new.file = build[i].file /\ new.content = build[i].content
  BY <1>1, BuildFields DEF BuildType
<1>3. build' = [build EXCEPT ![i] = new]
  BY DEF BuildWalk, Typed, left
<1> HIDE DEF new
<1>4. BuildIs(i, "files", left, build[i].file, build[i].content)
  BY <1>2, <1>3, BuildChanged DEF BuildIs
<1> QED BY <1>4 DEF left

LEMMA BuildReadEffect ==
    ASSUME Typed, NEW i \in Indexes, NEW f \in Files, BuildRead(i, f)
    PROVE  BuildIs(i, "apply", build[i].left \ {f}, {f}, disk[f])
<1> DEFINE new == [pc |-> "apply", left |-> build[i].left \ {f}, file |-> {f}, content |-> disk[f]]
<1>1. disk[f] \in Contents
  BY DEF Typed
<1>2. new \in BuildType
  BY <1>1, BuildFields DEF BuildType
<1>3. build' = [build EXCEPT ![i] = new]
  BY DEF BuildRead, Typed
<1>4. new.pc = "apply" /\ new.left = build[i].left \ {f} /\ new.file = {f} /\ new.content = disk[f]
  OBVIOUS
<1> HIDE DEF new
<1> QED BY <1>2, <1>3, <1>4, BuildChanged DEF BuildIs

LEMMA BuildApplyEffect ==
    ASSUME Typed, NEW i \in Indexes, BuildApply(i)
    PROVE  BuildIs(i, "files", build[i].left, {}, Absent)
<1> DEFINE new == [NoBuild EXCEPT !.pc = "files", !.left = build[i].left]
<1>1. /\ new \in BuildType /\ new.pc = "files" /\ new.left = build[i].left
      /\ new.file = {} /\ new.content = Absent
  BY BuildFields, Constants DEF BuildType, NoBuild
<1>2. build' = [build EXCEPT ![i] = new]
  BY DEF BuildApply, Typed
<1> HIDE DEF new
<1> QED BY <1>1, <1>2, BuildChanged DEF BuildIs

LEMMA BuildReadyEffect ==
    ASSUME Typed, NEW i \in Indexes, BuildReady(i)
    PROVE  /\ IndexIs(i, index[i].modPath, TRUE, index[i].edges, index[i].symbols)
           /\ BuildIs(i, "done", build[i].left, build[i].file, build[i].content)
<1> DEFINE new == [index[i] EXCEPT !.ready = TRUE]
           bld == [build[i] EXCEPT !.pc = "done"]
<1>1. /\ new \in IndexType /\ new.modPath = index[i].modPath /\ new.ready = TRUE
      /\ new.edges = index[i].edges /\ new.symbols = index[i].symbols
  BY IndexFields DEF IndexType
<1>2. /\ bld \in BuildType /\ bld.pc = "done" /\ bld.left = build[i].left
      /\ bld.file = build[i].file /\ bld.content = build[i].content
  BY BuildFields DEF BuildType
<1>3. index' = [index EXCEPT ![i] = new] /\ build' = [build EXCEPT ![i] = bld]
  BY DEF BuildReady, Typed
<1> HIDE DEF new, bld
<1> QED BY <1>1, <1>2, <1>3, IndexChanged, BuildChanged DEF IndexIs, BuildIs

LEMMA StartedEffect ==
    ASSUME Typed, NEW i \in Indexes, build' = [build EXCEPT ![i] = Started]
    PROVE  BuildIs(i, "start", {}, {}, Absent)
<1>1. /\ Started \in BuildType /\ Started.pc = "start" /\ Started.left = {}
      /\ Started.file = {} /\ Started.content = Absent
  BY Constants DEF Started, NoBuild, BuildType
<1> QED BY <1>1, BuildChanged DEF BuildIs

-----------------------------------------------------------------------------
(* The shape of the state. *)

Shaped == Typed /\ TasksShaped /\ IndexesShaped

LEMMA InitShaped == Init => Shaped
<1> SUFFICES ASSUME Init PROVE Shaped
  OBVIOUS
<1>1. NewIndex \in IndexType /\ ~NewIndex.modPath /\ ~NewIndex.ready
      /\ NewIndex.symbols = [f \in Files |-> Absent]
  BY Constants DEF NewIndex, IndexType
<1>2. NoBuild \in BuildType /\ NoBuild.pc = "none" /\ Started \in BuildType /\ Started.pc = "start"
  BY Constants DEF NoBuild, Started, BuildType
<1>3. NoTask \in TaskType /\ NoTask.pc = "none" /\ NoTask.file = {} /\ NoTask.settled = {}
  BY Constants DEF NoTask, TaskType
<1>4. Typed
  BY <1>1, <1>2, <1>3 DEF Init, Typed
<1>5. TasksShaped
  BY <1>3, Constants DEF Init, TasksShaped, TaskShape
<1>6. IndexesShaped
  BY <1>1, <1>2, Constants DEF Init, IndexesShaped, IndexShape, Main
<1> QED BY <1>4, <1>5, <1>6 DEF Shaped

\* A change on disk, and what pumpClient does with an event.
LEMMA DiskShaped ==
    ASSUME Shaped,
           \/ ChangeGoMod \/ Invalidate \/ DropSubIndex \/ EvictIdleModules
           \/ \E f \in Files : ChangeFile(f)
    PROVE  Shaped'
<1> USE DEF Shaped
<1>1. ASSUME NEW f \in Files, ChangeFile(f) PROVE Shaped'
  <2>1. Unsettle({f}) /\ UNCHANGED <<goMod, pump, cache, subIdx, index, build, crossed>>
    BY <1>1 DEF ChangeFile
  <2>2. /\ disk' \in [Files -> Contents] /\ events' \subseteq Files \cup {"go.mod"}
        /\ unread' \subseteq NestedFiles
    BY <1>1 DEF ChangeFile, Typed
  <2>3. Typed'
    BY <2>1, <2>2, UnsettleEffect DEF Typed
  <2> QED BY <2>1, <2>3, UnsettleEffect, Constants DEF TasksShaped, TaskShape, IndexesShaped, IndexShape
<1>2. CASE ChangeGoMod
  <2>1. Unsettle(Files) /\ UNCHANGED <<disk, pump, cache, subIdx, index, build, crossed>>
    BY <1>2 DEF ChangeGoMod
  <2>2. goMod' \in BOOLEAN /\ unread' \subseteq NestedFiles
    BY <1>2 DEF ChangeGoMod, Typed
  <2>3. events' \subseteq Files \cup {"go.mod"}
    BY <1>2 DEF ChangeGoMod, Typed
  <2>4. Typed'
    BY <2>1, <2>2, <2>3, UnsettleEffect DEF Typed
  <2> QED BY <2>1, <2>4, UnsettleEffect, Constants DEF TasksShaped, TaskShape, IndexesShaped, IndexShape
<1>3. CASE Invalidate
  <2>1. crossed' \in BOOLEAN
    BY <1>3 DEF Invalidate, Typed
  <2>2. Typed'
    BY <1>3, <2>1 DEF Invalidate, Typed
  <2> QED BY <1>3, <2>2 DEF Invalidate, TasksShaped, TaskShape, IndexesShaped, IndexShape
<1>4. CASE DropSubIndex \/ EvictIdleModules
  BY <1>4, Constants DEF DropSubIndex, EvictIdleModules, diskVars, history, Typed, TasksShaped, TaskShape,
      IndexesShaped, IndexShape, Main
<1> QED BY <1>1, <1>2, <1>3, <1>4

\* A goroutine begins, leaves, or looks its module's root up.
LEMMA TaskShaped ==
    ASSUME Shaped, NEW t \in Tasks,
           \/ \E f \in Files : ObserveFileEvent(f, t) /\ t \in Updates
           \/ \E f \in Files : Query(f, t) /\ t \in Queries
           \/ UpdateUnset(t) \/ UpdateRead(t) \/ WaitReady(t) \/ Answer(t)
           \/ RootForCached(t) \/ RootForStat(t) \/ RootForStore(t)
    PROVE  Shaped'
<1> USE DEF Shaped
<1>1. ASSUME NEW f \in Files, ObserveFileEvent(f, t), t \in Updates PROVE Shaped'
  <2>1. TaskBegins(t, "root", {f}, {})
    BY <1>1, ObserveEffect
  <2>2. Typed'
    BY <1>1, <2>1 DEF ObserveFileEvent, history, TaskBegins, Typed
  <2>3. UNCHANGED <<subIdx, index, build>>
    BY <1>1 DEF ObserveFileEvent
  <2>4. TasksShaped'
    BY <2>1, <2>3, Constants DEF TaskBegins, TasksShaped, TaskShape
  <2>5. IndexesShaped'
    BY <2>3 DEF IndexesShaped, IndexShape
  <2> QED BY <2>2, <2>4, <2>5
<1>2. ASSUME NEW f \in Files, Query(f, t), t \in Queries PROVE Shaped'
  <2>1. TaskBegins(t, "root", {f}, Settled(f))
    BY <1>2, QueryEffect
  <2>2. Typed'
    BY <1>2, <2>1 DEF Query, diskVars, history, TaskBegins, Typed
  <2>3. UNCHANGED <<index, build, subIdx>>
    BY <1>2 DEF Query
  <2>4. TasksShaped'
    BY <1>2, <2>1, <2>3, Constants DEF TaskBegins, TasksShaped, TaskShape
  <2> QED BY <2>2, <2>3, <2>4 DEF IndexesShaped, IndexShape
<1>3. CASE UpdateUnset(t)
  <2>1. TaskBegins(t, "none", {}, {})
    BY <1>3, LeaveEffect DEF UpdateUnset
  <2>2. Typed'
    BY <1>3, <2>1 DEF UpdateUnset, diskVars, history, TaskBegins, Typed
  <2>3. UNCHANGED <<index, build, subIdx>>
    BY <1>3 DEF UpdateUnset
  <2>4. TasksShaped'
    BY <2>1, <2>3, Constants DEF TaskBegins, TasksShaped, TaskShape
  <2> QED BY <2>2, <2>3, <2>4 DEF IndexesShaped, IndexShape
<1>4. CASE UpdateRead(t)
  <2>1. TaskIs(t, "apply", task[t].root, task[t].idx, disk[FileOf(t)])
    BY <1>4, UpdateReadEffect
  <2>2. Typed'
    BY <1>4, <2>1 DEF UpdateRead, diskVars, TaskIs, Typed
  <2>3. UNCHANGED <<index, build, subIdx>> /\ task[t].pc = "check" /\ index[task[t].idx].modPath
    BY <1>4 DEF UpdateRead
  <2>4. TasksShaped'
    BY <2>1, <2>3, Constants DEF TaskIs, TasksShaped, TaskShape
  <2> QED BY <2>2, <2>3, <2>4 DEF IndexesShaped, IndexShape
<1>5. CASE WaitReady(t)
  <2>1. \E pc \in {"closure", "timeout"} : TaskIs(t, pc, task[t].root, task[t].idx, task[t].content)
    BY <1>5, WaitReadyEffect
  <2>2. Typed'
    BY <1>5, <2>1 DEF WaitReady, diskVars, history, TaskIs, Typed
  <2>3. UNCHANGED <<index, build, subIdx>> /\ task[t].pc = "await"
    BY <1>5 DEF WaitReady
  <2>4. TasksShaped'
    BY <2>1, <2>3, Constants DEF TaskIs, TasksShaped, TaskShape
  <2> QED BY <2>2, <2>3, <2>4 DEF IndexesShaped, IndexShape
<1>6. CASE Answer(t)
  <2>1. TaskBegins(t, "done", {}, {})
    BY <1>6, TaskLeavesEffect DEF Answer
  <2>2. Typed'
    BY <1>6, <2>1 DEF Answer, diskVars, history, TaskBegins, Typed
  <2>3. UNCHANGED <<index, build, subIdx>> /\ task[t].pc \in {"closure", "timeout"}
    BY <1>6 DEF Answer
  <2>4. TasksShaped'
    BY <2>1, <2>3, Constants DEF TaskBegins, TasksShaped, TaskShape
  <2> QED BY <2>2, <2>3, <2>4 DEF IndexesShaped, IndexShape
<1>7. CASE RootForCached(t) \/ RootForStore(t)
  <2>1. \E root \in {"main", "nested"} : TaskIs(t, "index", root, task[t].idx, task[t].content)
    <3>1. CASE RootForCached(t)
      <4>1. (IF FileOf(t) \in NestedFiles THEN cache ELSE "main") \in {"main", "nested"}
        BY <3>1 DEF RootForCached, Typed
      <4> QED BY <3>1, <4>1, RootForCachedEffect
    <3>2. CASE RootForStore(t)
      BY <3>2, RootForStoreEffect, TaskFields
    <3> QED BY <1>7, <3>1, <3>2
  <2>2. Typed'
    BY <1>7, <2>1, TaskFields DEF RootForCached, RootForStore, diskVars, history, TaskIs, Typed
  <2>3. UNCHANGED <<index, build, subIdx>> /\ task[t].pc \in {"root", "store"}
    BY <1>7 DEF RootForCached, RootForStore
  <2>4. TasksShaped'
    BY <2>1, <2>3, Constants DEF TaskIs, TasksShaped, TaskShape
  <2> QED BY <2>2, <2>3, <2>4 DEF IndexesShaped, IndexShape
<1>8. CASE RootForStat(t)
  <2>1. TaskIs(t, "store", Current, task[t].idx, task[t].content)
    BY <1>8, RootForStatEffect
  <2>2. Typed'
    BY <1>8, <2>1 DEF RootForStat, diskVars, history, TaskIs, Typed
  <2>3. UNCHANGED <<index, build, subIdx>> /\ task[t].pc = "root" /\ task[t].file \subseteq NestedFiles
    BY <1>8, FileOfTask DEF RootForStat
  <2>4. TasksShaped'
    BY <2>1, <2>3, Constants DEF TaskIs, TasksShaped, TaskShape
  <2> QED BY <2>2, <2>3, <2>4 DEF IndexesShaped, IndexShape
<1> QED BY <1>1, <1>2, <1>3, <1>4, <1>5, <1>6, <1>7, <1>8

\* indexFor: the main index, the nested module's, or a new one for it.
LEMMA IndexForEffect ==
    ASSUME Typed, NEW t \in Tasks, IndexFor(t)
    PROVE  \E i \in Indexes :
            /\ TaskIs(t, IF t \in Queries THEN "await" ELSE "check", task[t].root, i, task[t].content)
            /\ \/ task[t].root = "main" /\ i = Main /\ UNCHANGED <<subIdx, build>>
               \/ task[t].root = "nested" /\ i = subIdx /\ UNCHANGED <<subIdx, build>>
               \/ /\ task[t].root = "nested" /\ subIdx = 0 /\ build[i].pc = "none"
                  /\ subIdx' = i /\ BuildIs(i, "start", {}, {}, Absent)
<1>1. CASE task[t].root = "main"
  <2>1. UseIndex(t, Main) /\ UNCHANGED <<subIdx, build>>
    BY <1>1 DEF IndexFor
  <2> QED BY <1>1, <2>1, UseIndexEffect, Constants
<1>2. CASE task[t].root = "nested" /\ subIdx # 0
  <2>1. UseIndex(t, subIdx) /\ UNCHANGED <<subIdx, build>>
    BY <1>2 DEF IndexFor
  <2>2. subIdx \in Indexes
    BY <1>2 DEF Typed
  <2> QED BY <1>2, <2>1, <2>2, UseIndexEffect
<1>3. CASE task[t].root = "nested" /\ subIdx = 0
  <2>1. PICK i \in Unused : UseIndex(t, i) /\ subIdx' = i /\ build' = [build EXCEPT ![i] = Started]
    BY <1>3 DEF IndexFor
  <2>2. i \in Indexes /\ build[i].pc = "none"
    BY DEF Unused
  <2> QED BY <1>3, <2>1, <2>2, UseIndexEffect, StartedEffect
<1> QED BY <1>1, <1>2, <1>3, TaskFields

LEMMA IndexForShaped ==
    ASSUME Shaped, NEW t \in Tasks, IndexFor(t)
    PROVE  Shaped'
<1> USE DEF Shaped
<1>1. PICK i \in Indexes :
        /\ TaskIs(t, IF t \in Queries THEN "await" ELSE "check", task[t].root, i, task[t].content)
        /\ \/ task[t].root = "main" /\ i = Main /\ UNCHANGED <<subIdx, build>>
           \/ task[t].root = "nested" /\ i = subIdx /\ UNCHANGED <<subIdx, build>>
           \/ /\ task[t].root = "nested" /\ subIdx = 0 /\ build[i].pc = "none"
              /\ subIdx' = i /\ BuildIs(i, "start", {}, {}, Absent)
  BY IndexForEffect
<1>2. build' \in [Indexes -> BuildType] /\ subIdx' \in Indexes \cup {0}
  BY <1>1 DEF Typed, BuildIs
<1>3. UNCHANGED <<disk, goMod, events, pump, cache, index, crossed, unread>> /\ task[t].pc = "index"
  BY DEF IndexFor, diskVars, history
<1>4. Typed'
  BY <1>1, <1>2, <1>3 DEF Typed, TaskIs
<1>5. /\ \A j \in Indexes : build[j].pc # "none" => build'[j] = build[j]
      /\ \A j \in Indexes : build'[j] = build[j] \/ (build'[j].pc = "start" /\ build[j].pc = "none")
      /\ build'[i].pc # "none"
  BY <1>1, Constants DEF BuildIs, IndexesShaped, IndexShape
<1>6. TasksShaped'
  <2> SUFFICES ASSUME NEW u \in Tasks PROVE TaskShape(u)'
    BY DEF TasksShaped
  <2>1. CASE u = t
    BY <1>1, <1>3, <1>5, <2>1, Constants DEF TaskIs, TasksShaped, TaskShape
  <2>2. CASE u # t
    BY <1>1, <1>3, <1>5, <2>2, TaskFields DEF TaskIs, TasksShaped, TaskShape
  <2> QED BY <2>1, <2>2
<1>7. IndexesShaped'
  <2>1. subIdx' # Main /\ (subIdx' # 0 => build'[subIdx'].pc # "none")
    BY <1>1, <1>5 DEF IndexesShaped, IndexShape, BuildIs
  <2>2. build'[Main] = build[Main]
    BY <1>5, Constants DEF IndexesShaped, IndexShape
  <2>3. ASSUME NEW j \in Indexes PROVE IndexShape(j)'
    BY <1>3, <1>5 DEF IndexesShaped, IndexShape
  <2> QED BY <1>3, <2>1, <2>2, <2>3 DEF IndexesShaped, IndexShape
<1> QED BY <1>4, <1>6, <1>7

\* An index gets a file's text.
LEMMA ApplyShaped ==
    ASSUME Shaped, NEW t \in Tasks, UpdateApply(t)
    PROVE  Shaped'
<1> USE DEF Shaped
<1> DEFINE i == task[t].idx
<1>1. TaskBegins(t, "none", {}, {})
  BY LeaveEffect DEF UpdateApply
<1>2. i \in Indexes /\ task[t].content \in Contents /\ FileOf(t) \in Files
  BY TaskFields, FileOfTask DEF UpdateApply
<1>3. index' = Merge(i, FileOf(t), task[t].content)
  BY DEF UpdateApply
<1>4. index[i].modPath
  BY DEF UpdateApply, TasksShaped, TaskShape
<1> HIDE DEF i
<1>5. /\ index' \in [Indexes -> IndexType] /\ index'[i].modPath /\ index'[i].ready = index[i].ready
      /\ \A j \in Indexes \ {i} : index'[j] = index[j]
  BY <1>2, <1>3, <1>4, MergeEffect DEF IndexIs
<1>6. UNCHANGED <<disk, goMod, events, pump, cache, subIdx, build, crossed, unread>>
  BY DEF UpdateApply, diskVars, history
<1>7. Typed'
  BY <1>1, <1>5, <1>6 DEF Typed, TaskBegins
<1>8. \A j \in Indexes : /\ index'[j].modPath <=> index[j].modPath
                         /\ index'[j].ready = index[j].ready
                         /\ j # i => index'[j] = index[j]
  BY <1>4, <1>5
<1>9. build[i].pc \notin {"none", "start"}
  BY <1>2, <1>4 DEF IndexesShaped, IndexShape
<1>10. IndexesShaped'
  BY <1>4, <1>6, <1>8, <1>9, Constants DEF IndexesShaped, IndexShape
<1>11. TasksShaped'
  <2> SUFFICES ASSUME NEW u \in Tasks PROVE TaskShape(u)'
    BY DEF TasksShaped
  <2>1. CASE u = t
    BY <1>1, <2>1, Constants DEF TaskShape, TaskBegins
  <2>2. CASE u # t
    <3>1. task'[u] = task[u] /\ task[u].idx \in Indexes /\ TaskShape(u)
      BY <1>1, <2>2, TaskFields DEF TaskBegins, TasksShaped
    <3> QED BY <1>6, <1>8, <3>1 DEF TaskShape
  <2> QED BY <2>1, <2>2
<1> QED BY <1>7, <1>10, <1>11

\* What a step of a build leaves behind.
BuildMoved(i) ==
    /\ build[i].pc # "none" /\ build'[i].pc \notin {"none", "start"}
    /\ build'[i].pc = "apply" => \E f \in Files : build'[i].file = {f}
    /\ build'[i].pc = "apply" \/ (build'[i].pc = "files" /\ build'[i].left # {}) => index'[i].modPath
    /\ index'[i].ready => build'[i].pc = "done"
    /\ index[i].modPath => index'[i].modPath
    /\ i = Main => index'[i].modPath
    /\ ~index'[i].modPath => index'[i].symbols = [f \in Files |-> Absent]

\* The build of an index goes on.
LEMMA BuildShaped ==
    ASSUME Shaped, NEW i \in Indexes, BuildStep(i)
    PROVE  Shaped'
<1> USE DEF Shaped
<1>1. UNCHANGED <<disk, goMod, events, pump, cache, subIdx, task, crossed, unread>>
  BY DEF BuildStep, BuildStart, BuildWalk, BuildRead, BuildApply, BuildReady, diskVars, history
<1>2. build' \in [Indexes -> BuildType] /\ \A j \in Indexes \ {i} : build'[j] = build[j]
  <2>1. ASSUME NEW f \in Files, BuildRead(i, f) PROVE \E left, file, content : BuildIs(i, "apply", left, file, content)
    BY <2>1, BuildReadEffect
  <2>2. \E pc, left, file, content : BuildIs(i, pc, left, file, content)
    BY <2>1, BuildStartEffect, BuildWalkEffect, BuildApplyEffect, BuildReadyEffect DEF BuildStep
  <2> QED BY <2>2 DEF BuildIs
<1>3. index' \in [Indexes -> IndexType] /\ \A j \in Indexes \ {i} : index'[j] = index[j]
  <2>1. CASE BuildStart(i)
    BY <2>1, BuildStartEffect
  <2>2. CASE BuildApply(i)
    <3>1. PICK f \in build[i].file : index' = Merge(i, f, build[i].content)
      BY <2>2 DEF BuildApply
    <3> QED BY <3>1, BuildFields, MergeEffect DEF IndexIs
  <2>3. CASE BuildReady(i)
    BY <2>3, BuildReadyEffect DEF IndexIs
  <2>4. CASE UNCHANGED index
    BY <2>4 DEF Typed
  <2> QED BY <2>1, <2>2, <2>3, <2>4 DEF BuildStep, BuildWalk, BuildRead
<1>4. Typed'
  BY <1>1, <1>2, <1>3 DEF Typed
<1>5. BuildMoved(i)
  <2>1. CASE BuildStart(i)
    <3>1. build[i].pc = "start" /\ ~index[i].modPath /\ ~index[i].ready
      BY <2>1 DEF BuildStart, IndexesShaped, IndexShape
    <3>2. build'[i].pc = "walk"
      BY <2>1, BuildStartEffect DEF BuildIs
    <3>3. /\ index'[i].modPath <=> i = Main \/ goMod
          /\ index'[i].ready = index[i].ready /\ index'[i].symbols = index[i].symbols
      BY <2>1, BuildStartEffect
    <3>4. index[i].symbols = [f \in Files |-> Absent]
      BY <3>1 DEF IndexesShaped, IndexShape
    <3> QED BY <3>1, <3>2, <3>3, <3>4 DEF BuildMoved
  <2>2. CASE BuildWalk(i)
    BY <2>2, BuildWalkEffect, Constants DEF BuildWalk, BuildIs, IndexesShaped, IndexShape, BuildMoved
  <2>3. ASSUME NEW f \in Files, BuildRead(i, f) PROVE BuildMoved(i)
    BY <2>3, BuildReadEffect, Constants DEF BuildRead, BuildIs, IndexesShaped, IndexShape, BuildMoved
  <2>4. CASE BuildApply(i)
    <3>1. PICK f \in build[i].file : index' = Merge(i, f, build[i].content)
      BY <2>4 DEF BuildApply
    <3>2. index'[i].modPath = index[i].modPath /\ index'[i].ready = index[i].ready
      BY <3>1, BuildFields, MergeEffect DEF IndexIs
    <3>3. build[i].pc = "apply" /\ index[i].modPath
      BY <2>4 DEF BuildApply, IndexesShaped, IndexShape
    <3> QED BY <2>4, <3>2, <3>3, BuildApplyEffect DEF BuildIs, IndexesShaped, IndexShape, BuildMoved
  <2>5. CASE BuildReady(i)
    <3>1. build[i].pc = "files" /\ build'[i].pc = "done"
      BY <2>5, BuildReadyEffect DEF BuildReady, BuildIs
    <3>2. index'[i].modPath = index[i].modPath /\ index'[i].symbols = index[i].symbols
      BY <2>5, BuildReadyEffect DEF IndexIs
    <3>3. i = Main => index[i].modPath
      BY <3>1 DEF IndexesShaped
    <3>4. ~index[i].modPath => index[i].symbols = [f \in Files |-> Absent]
      BY DEF IndexesShaped, IndexShape
    <3> QED BY <3>1, <3>2, <3>3, <3>4 DEF BuildMoved
  <2> QED BY <2>1, <2>2, <2>3, <2>4, <2>5 DEF BuildStep
<1>6. TasksShaped'
  <2> SUFFICES ASSUME NEW u \in Tasks PROVE TaskShape(u)'
    BY DEF TasksShaped
  <2>1. task[u].idx \in Indexes /\ TaskShape(u)
    BY TaskFields DEF TasksShaped
  <2> QED BY <1>1, <1>2, <1>3, <1>5, <2>1 DEF TaskShape, BuildMoved
<1>7. IndexesShaped'
  <2>1. ASSUME NEW j \in Indexes PROVE IndexShape(j)'
    <3>1. CASE j = i
      BY <1>5, <3>1 DEF IndexShape, BuildMoved
    <3>2. CASE j # i
      BY <1>2, <1>3, <3>2 DEF IndexesShaped, IndexShape
    <3> QED BY <3>1, <3>2
  <2>2. build'[Main].pc # "none" /\ (index'[Main].modPath \/ build'[Main].pc = "start")
    BY <1>2, <1>3, <1>5, Constants DEF IndexesShaped, BuildMoved
  <2>3. subIdx' # 0 => build'[subIdx'].pc # "none"
    BY <1>1, <1>2, <1>5 DEF IndexesShaped, BuildMoved, Typed
  <2> QED BY <1>1, <2>1, <2>2, <2>3 DEF IndexesShaped
<1> QED BY <1>4, <1>6, <1>7

\* A step is one of these.
LEMMA StepCases ==
    ASSUME Next
    PROVE  \/ ChangeGoMod \/ Invalidate \/ DropSubIndex \/ EvictIdleModules
           \/ \E f \in Files : ChangeFile(f)
           \/ \E t \in Updates, f \in Files : ObserveFileEvent(f, t)
           \/ \E t \in Queries, f \in Files : Query(f, t)
           \/ \E t \in Tasks : TaskStep(t)
           \/ \E i \in Indexes : BuildStep(i)
BY DEF Next

LEMMA StepShaped == Shaped /\ [Next]_vars => Shaped'
<1> SUFFICES ASSUME Shaped, [Next]_vars PROVE Shaped'
  OBVIOUS
<1>1. CASE UNCHANGED vars
  BY <1>1 DEF vars, diskVars, history, Shaped, Typed, TasksShaped, TaskShape, IndexesShaped, IndexShape
<1>2. ASSUME NEW t \in Updates, NEW f \in Files, ObserveFileEvent(f, t) PROVE Shaped'
  BY <1>2, TaskShaped, Constants
<1>3. ASSUME NEW t \in Queries, NEW f \in Files, Query(f, t) PROVE Shaped'
  BY <1>3, TaskShaped, Constants
<1>4. ASSUME NEW t \in Tasks, TaskStep(t) PROVE Shaped'
  BY <1>4, TaskShaped, IndexForShaped, ApplyShaped DEF TaskStep
<1>5. CASE Next
  BY <1>2, <1>3, <1>4, <1>5, StepCases, DiskShaped, BuildShaped
<1> QED BY <1>1, <1>5

-----------------------------------------------------------------------------
(* The module-root cache. *)

\* A step that computes no root and touches neither the go.mod nor the cache.
LEMMA RootsKept ==
    ASSUME RootsRight, UNCHANGED <<goMod, unread, crossed, cache>>,
           "go.mod" \in events' <=> "go.mod" \in events,
           \A t \in Tasks :
            /\ task'[t].pc = "store" => task[t].pc = "store" /\ task'[t].root = task[t].root
            /\ task'[t].root \in {task[t].root, "main"}
    PROVE  RootsRight'
BY DEF RootsRight, Current

LEMMA RootsPreserved == Shaped /\ RootsRight /\ [Next]_vars => RootsRight'
<1> SUFFICES ASSUME Shaped, RootsRight, [Next]_vars PROVE RootsRight'
  OBVIOUS
<1> USE DEF Shaped
<1>1. CASE UNCHANGED vars
  BY <1>1, RootsKept DEF vars, diskVars, history
<1>2. CASE ChangeGoMod
  BY <1>2 DEF ChangeGoMod, RootsRight, Typed
<1>3. CASE Invalidate
  BY <1>3 DEF Invalidate, RootsRight, Typed
<1>4. CASE DropSubIndex \/ EvictIdleModules
  BY <1>4, RootsKept DEF DropSubIndex, EvictIdleModules, diskVars, history
<1>5. ASSUME NEW f \in Files, ChangeFile(f) PROVE RootsRight'
  <2>1. /\ Unsettle({f}) /\ UNCHANGED <<goMod, crossed, cache>>
        /\ "go.mod" \in events' <=> "go.mod" \in events
        /\ "go.mod" \in events => unread' = unread
    BY <1>5, Constants DEF ChangeFile
  <2>2. \A t \in Tasks : task'[t].pc = task[t].pc /\ task'[t].root = task[t].root
    BY <2>1, UnsettleEffect
  <2> QED BY <2>1, <2>2 DEF RootsRight, Current
<1>6. ASSUME NEW t \in Updates, NEW f \in Files, ObserveFileEvent(f, t) PROVE RootsRight'
  BY <1>6, ObserveEffect, RootsKept, Constants DEF ObserveFileEvent, history, TaskBegins
<1>7. ASSUME NEW t \in Queries, NEW f \in Files, Query(f, t) PROVE RootsRight'
  BY <1>7, QueryEffect, RootsKept, Constants DEF Query, diskVars, history, TaskBegins
<1>8. ASSUME NEW t \in Tasks, TaskStep(t) PROVE RootsRight'
  <2>1. CASE RootForCached(t)
    <3>1. TaskIs(t, "index", IF FileOf(t) \in NestedFiles THEN cache ELSE "main",
                 task[t].idx, task[t].content)
      BY <2>1, RootForCachedEffect
    <3>2. /\ UNCHANGED <<goMod, unread, crossed, cache, events>>
          /\ task'[t].pc = "index" /\ task'[t].root \in {cache, "main"}
          /\ cache = "none" => task'[t].root = "main"
          /\ \A u \in Tasks \ {t} : task'[u] = task[u]
      BY <2>1, <3>1 DEF RootForCached, diskVars, history, TaskIs
    <3> QED BY <3>2 DEF RootsRight, Current, Typed
  <2>2. CASE RootForStat(t)
    <3>1. TaskIs(t, "store", Current, task[t].idx, task[t].content)
      BY <2>2, RootForStatEffect
    <3>2. /\ UNCHANGED <<goMod, unread, crossed, cache, events>>
          /\ task'[t].pc = "store" /\ task'[t].root = Current
          /\ \A u \in Tasks \ {t} : task'[u] = task[u]
      BY <2>2, <3>1 DEF RootForStat, diskVars, history, TaskIs
    <3> QED BY <3>2 DEF RootsRight, Current
  <2>3. CASE RootForStore(t)
    <3>1. TaskIs(t, "index", task[t].root, task[t].idx, task[t].content)
      BY <2>3, RootForStoreEffect
    <3> QED BY <2>3, <3>1 DEF RootForStore, diskVars, history, TaskIs, RootsRight, Current
  <2>4. CASE IndexFor(t)
    BY <2>4, IndexForEffect, RootsKept DEF IndexFor, diskVars, history, TaskIs
  <2>5. CASE UpdateUnset(t) \/ UpdateApply(t)
    BY <2>5, LeaveEffect, RootsKept DEF UpdateUnset, UpdateApply, diskVars, history, TaskBegins
  <2>6. CASE UpdateRead(t)
    BY <2>6, UpdateReadEffect, RootsKept DEF UpdateRead, diskVars, TaskIs
  <2>7. CASE WaitReady(t)
    BY <2>7, WaitReadyEffect, RootsKept DEF WaitReady, diskVars, history, TaskIs
  <2>8. CASE Answer(t)
    BY <2>8, TaskLeavesEffect, RootsKept DEF Answer, diskVars, history, TaskBegins
  <2> QED BY <1>8, <2>1, <2>2, <2>3, <2>4, <2>5, <2>6, <2>7, <2>8 DEF TaskStep
<1>9. ASSUME NEW i \in Indexes, BuildStep(i) PROVE RootsRight'
  <2>1. UNCHANGED <<goMod, unread, crossed, cache, events, task>>
    BY <1>9 DEF BuildStep, BuildStart, BuildWalk, BuildRead, BuildApply, BuildReady, diskVars, history
  <2> QED BY <2>1, RootsKept
<1>10. CASE Next
  BY <1>2, <1>3, <1>4, <1>5, <1>6, <1>7, <1>8, <1>9, <1>10, StepCases
<1> QED BY <1>1, <1>10

LEMMA InitRoots == Init => RootsRight
<1>1. NoTask.pc = "none" /\ NoTask.root = "main"
  BY DEF NoTask
<1> QED BY <1>1 DEF Init, RootsRight

-----------------------------------------------------------------------------
(* Readers. *)

\* Only the two steps that read a file make a reader of it.
LEMMA ReadersKept ==
    ASSUME OneReader, raced \subseteq raced',
           \A t \in Updates, i \in Indexes, f \in Files : UpdateHas(t, i, f)' => UpdateHas(t, i, f),
           \A i \in Indexes, f \in Files : BuildHas(i, f)' => BuildHas(i, f)
    PROVE  OneReader'
BY DEF OneReader

\* A step of goroutine t other than reading its file.
LEMMA TaskReadersKept ==
    ASSUME OneReader, NEW t \in Tasks, \A u \in Tasks \ {t} : task'[u] = task[u],
           task'[t].pc # "apply", UNCHANGED raced,
           \A i \in Indexes : build'[i] = build[i] \/ build'[i].pc = "start"
    PROVE  OneReader'
<1>1. \A u \in Updates, i \in Indexes, f \in Files : UpdateHas(u, i, f)' => UpdateHas(u, i, f)
  BY Constants DEF UpdateHas
<1>2. \A i \in Indexes, f \in Files : BuildHas(i, f)' => BuildHas(i, f)
  BY DEF BuildHas
<1> QED BY <1>1, <1>2, ReadersKept

LEMMA UpdateReadReaders ==
    ASSUME Shaped, OneReader, NEW t \in Tasks, UpdateRead(t)
    PROVE  /\ OneReader'
           /\ \A f \in Files \ raced' : f = FileOf(t) =>
                /\ \A i \in Indexes : ~BuildHas(i, f)'
                /\ \A u \in Updates \ {t}, i \in Indexes : ~UpdateHas(u, i, f)'
<1> USE DEF Shaped
<1>1. TaskIs(t, "apply", task[t].root, task[t].idx, disk[FileOf(t)])
  BY UpdateReadEffect
<1>2. task[t].file = {FileOf(t)} /\ task[t].pc = "check" /\ build' = build
  BY FileOfTask DEF UpdateRead
<1>3. raced \subseteq raced' /\ (FileOf(t) \notin raced' => ~Reading(FileOf(t)))
  BY DEF UpdateRead
<1>4. FileOf(t) \notin raced' =>
        /\ \A i \in Indexes : ~BuildHas(i, FileOf(t))
        /\ \A u \in Updates, i \in Indexes : ~UpdateHas(u, i, FileOf(t))
  BY <1>3, Constants DEF Reading, BuildHas, UpdateHas
<1>5. /\ \A i \in Indexes, f \in Files : BuildHas(i, f)' <=> BuildHas(i, f)
      /\ \A u \in Updates \ {t}, i \in Indexes, f \in Files : UpdateHas(u, i, f)' <=> UpdateHas(u, i, f)
      /\ \A i \in Indexes, f \in Files : UpdateHas(t, i, f)' => f = FileOf(t)
  BY <1>1, <1>2, Constants DEF TaskIs, BuildHas, UpdateHas
<1>6. OneReader'
  BY <1>3, <1>4, <1>5 DEF OneReader
<1> QED BY <1>4, <1>5, <1>6

LEMMA BuildReadReaders ==
    ASSUME Shaped, OneReader, NEW i \in Indexes, NEW f \in Files, BuildRead(i, f)
    PROVE  /\ OneReader'
           /\ f \notin raced' => \A u \in Updates, j \in Indexes : ~UpdateHas(u, j, f)'
<1> USE DEF Shaped
<1>1. BuildIs(i, "apply", build[i].left \ {f}, {f}, disk[f])
  BY BuildReadEffect
<1>2. task' = task /\ raced \subseteq raced' /\ (f \notin raced' => ~Reading(f))
  BY DEF BuildRead
<1>3. f \notin raced' =>
        /\ \A j \in Indexes : ~BuildHas(j, f)
        /\ \A u \in Updates, j \in Indexes : ~UpdateHas(u, j, f)
  BY <1>2, Constants DEF Reading, BuildHas, UpdateHas
<1>4. /\ \A j \in Indexes \ {i}, g \in Files : BuildHas(j, g)' <=> BuildHas(j, g)
      /\ \A u \in Updates, j \in Indexes, g \in Files : UpdateHas(u, j, g)' <=> UpdateHas(u, j, g)
      /\ \A g \in Files : BuildHas(i, g)' => f = g
  BY <1>1, <1>2 DEF BuildIs, BuildHas, UpdateHas
<1>5. OneReader'
  BY <1>2, <1>3, <1>4 DEF OneReader
<1> QED BY <1>3, <1>4, <1>5

LEMMA ReadersPreserved == Shaped /\ OneReader /\ [Next]_vars => OneReader'
<1> SUFFICES ASSUME Shaped, OneReader, [Next]_vars PROVE OneReader'
  OBVIOUS
<1> USE DEF Shaped
<1>1. CASE UNCHANGED vars
  BY <1>1, ReadersKept DEF vars, history, UpdateHas, BuildHas
<1>2. CASE Invalidate \/ DropSubIndex \/ EvictIdleModules
  BY <1>2, ReadersKept DEF Invalidate, DropSubIndex, EvictIdleModules, history, UpdateHas, BuildHas
<1>3. ASSUME NEW files, Unsettle(files), UNCHANGED <<build, raced>> PROVE OneReader'
  BY <1>3, UnsettleEffect, ReadersKept, Constants DEF UpdateHas, BuildHas
<1>4. CASE ChangeGoMod
  BY <1>3, <1>4 DEF ChangeGoMod
<1>5. ASSUME NEW f \in Files, ChangeFile(f) PROVE OneReader'
  BY <1>3, <1>5 DEF ChangeFile, history
<1>6. ASSUME NEW t \in Updates, NEW f \in Files, ObserveFileEvent(f, t) PROVE OneReader'
  BY <1>6, ObserveEffect, TaskReadersKept, Constants DEF ObserveFileEvent, history, TaskBegins
<1>7. ASSUME NEW t \in Queries, NEW f \in Files, Query(f, t) PROVE OneReader'
  BY <1>7, QueryEffect, TaskReadersKept, Constants DEF Query, history, TaskBegins
<1>8. ASSUME NEW t \in Tasks, TaskStep(t) PROVE OneReader'
  <2>1. CASE RootForCached(t)
    BY <2>1, RootForCachedEffect, TaskReadersKept DEF RootForCached, history, TaskIs
  <2>2. CASE RootForStat(t)
    BY <2>2, RootForStatEffect, TaskReadersKept DEF RootForStat, history, TaskIs
  <2>3. CASE RootForStore(t)
    BY <2>3, RootForStoreEffect, TaskReadersKept DEF RootForStore, history, TaskIs
  <2>4. CASE IndexFor(t)
    <3>1. \A u \in Tasks \ {t} : task'[u] = task[u]
      BY <2>4, IndexForEffect DEF TaskIs
    <3>2. task'[t].pc # "apply"
      BY <2>4, IndexForEffect DEF TaskIs
    <3>3. \A i \in Indexes : build'[i] = build[i] \/ build'[i].pc = "start"
      BY <2>4, IndexForEffect DEF BuildIs
    <3> QED BY <2>4, <3>1, <3>2, <3>3, TaskReadersKept DEF IndexFor, history
  <2>5. CASE UpdateUnset(t) \/ UpdateApply(t)
    BY <2>5, LeaveEffect, TaskReadersKept DEF UpdateUnset, UpdateApply, history, TaskBegins
  <2>6. CASE UpdateRead(t)
    BY <2>6, UpdateReadReaders
  <2>7. CASE WaitReady(t)
    BY <2>7, WaitReadyEffect, TaskReadersKept DEF WaitReady, history, TaskIs
  <2>8. CASE Answer(t)
    BY <2>8, TaskLeavesEffect, TaskReadersKept DEF Answer, history, TaskBegins
  <2> QED BY <1>8, <2>1, <2>2, <2>3, <2>4, <2>5, <2>6, <2>7, <2>8 DEF TaskStep
<1>9. ASSUME NEW i \in Indexes, BuildStep(i) PROVE OneReader'
  <2>1. ASSUME NEW f \in Files, BuildRead(i, f) PROVE OneReader'
    BY <2>1, BuildReadReaders
  <2>2. CASE BuildStart(i) \/ BuildWalk(i) \/ BuildApply(i) \/ BuildReady(i)
    <3>1. task' = task /\ raced' = raced
      BY <2>2 DEF BuildStart, BuildWalk, BuildApply, BuildReady, history
    <3>2. build'[i].pc # "apply" /\ \A j \in Indexes \ {i} : build'[j] = build[j]
      BY <2>2, BuildStartEffect, BuildWalkEffect, BuildApplyEffect, BuildReadyEffect DEF BuildIs
    <3> QED BY <3>1, <3>2, ReadersKept DEF UpdateHas, BuildHas
  <2> QED BY <1>9, <2>1, <2>2 DEF BuildStep
<1>10. CASE Next
  BY <1>2, <1>4, <1>5, <1>6, <1>7, <1>8, <1>9, <1>10, StepCases
<1> QED BY <1>1, <1>10

\* The nested module's index is going to be built, or is.
LEMMA SubIndexPreserved == Shaped /\ SubIndexBuilds /\ [Next]_vars => SubIndexBuilds'
<1> SUFFICES ASSUME Shaped, SubIndexBuilds, [Next]_vars PROVE SubIndexBuilds'
  OBVIOUS
<1> USE DEF Shaped
<1>1. CASE UNCHANGED vars
  BY <1>1 DEF vars, diskVars, SubIndexBuilds
<1>2. CASE ChangeGoMod \/ Invalidate \/ DropSubIndex \/ EvictIdleModules
  BY <1>2 DEF ChangeGoMod, Invalidate, DropSubIndex, EvictIdleModules, SubIndexBuilds
<1>3. ASSUME UNCHANGED <<goMod, pump, subIdx, index, build>>, "go.mod" \in events => "go.mod" \in events'
      PROVE  SubIndexBuilds'
  BY <1>3 DEF SubIndexBuilds
<1>4. ASSUME NEW f \in Files, ChangeFile(f) PROVE SubIndexBuilds'
  BY <1>3, <1>4 DEF ChangeFile
<1>5. ASSUME NEW t \in Updates, NEW f \in Files, ObserveFileEvent(f, t) PROVE SubIndexBuilds'
  BY <1>3, <1>5, Constants DEF ObserveFileEvent
<1>6. ASSUME NEW t \in Queries, NEW f \in Files, Query(f, t) PROVE SubIndexBuilds'
  BY <1>3, <1>6 DEF Query, diskVars
<1>7. ASSUME NEW t \in Tasks, TaskStep(t) PROVE SubIndexBuilds'
  <2>1. CASE IndexFor(t)
    <3>1. UNCHANGED <<goMod, pump, events, index>>
      BY <2>1 DEF IndexFor, diskVars
    <3>2. UNCHANGED <<subIdx, build>> \/ (subIdx' \in Indexes /\ build'[subIdx'].pc = "start")
      BY <2>1, IndexForEffect DEF BuildIs
    <3> QED BY <3>1, <3>2 DEF SubIndexBuilds
  <2>2. CASE UpdateApply(t)
    <3>1. task[t].idx \in Indexes /\ task[t].content \in Contents /\ FileOf(t) \in Files
      BY <2>2, TaskFields, FileOfTask DEF UpdateApply
    <3>2. \A j \in Indexes : index'[j].modPath = index[j].modPath
      BY <2>2, <3>1, MergeEffect DEF UpdateApply, IndexIs
    <3> QED BY <2>2, <3>2 DEF UpdateApply, diskVars, SubIndexBuilds, Typed
  <2>3. CASE UNCHANGED <<diskVars, pump, subIdx, index, build>>
    BY <1>3, <2>3 DEF diskVars
  <2> QED BY <1>7, <2>1, <2>2, <2>3
          DEF TaskStep, RootForCached, RootForStat, RootForStore, UpdateUnset, UpdateRead, WaitReady, Answer
<1>8. ASSUME NEW i \in Indexes, BuildStep(i) PROVE SubIndexBuilds'
  <2>1. UNCHANGED <<goMod, pump, events, subIdx>>
    BY <1>8 DEF BuildStep, BuildStart, BuildWalk, BuildRead, BuildApply, BuildReady, diskVars
  <2>2. CASE BuildStart(i)
    BY <2>1, <2>2, BuildStartEffect DEF BuildIs, SubIndexBuilds, Typed
  <2>3. ASSUME NEW f \in Files, BuildRead(i, f) PROVE SubIndexBuilds'
    BY <2>1, <2>3, BuildReadEffect DEF BuildRead, BuildIs, SubIndexBuilds, Typed
  <2>4. CASE BuildWalk(i)
    <3>1. UNCHANGED index /\ build[i].pc = "walk"
      BY <2>4 DEF BuildWalk
    <3>2. /\ build'[i].pc = "files"
          /\ \A j \in Indexes \ {i} : build'[j] = build[j]
      BY <2>4, BuildWalkEffect DEF BuildIs
    <3> QED BY <2>1, <3>1, <3>2 DEF SubIndexBuilds, Typed
  <2>5. CASE BuildApply(i)
    <3>1. PICK f \in build[i].file : index' = Merge(i, f, build[i].content)
      BY <2>5 DEF BuildApply
    <3>2. \A j \in Indexes : index'[j].modPath = index[j].modPath
      BY <3>1, BuildFields, MergeEffect DEF IndexIs
    <3>3. build[i].pc = "apply" /\ \A j \in Indexes : j # i => build'[j] = build[j]
      BY <2>5, BuildApplyEffect DEF BuildApply, BuildIs
    <3>4. subIdx # 0 => subIdx \in Indexes
      BY DEF Typed
    <3> QED BY <2>1, <3>2, <3>3, <3>4 DEF SubIndexBuilds
  <2>6. CASE BuildReady(i)
    BY <2>1, <2>6, BuildReadyEffect DEF BuildReady, BuildIs, IndexIs, SubIndexBuilds, Typed
  <2> QED BY <1>8, <2>2, <2>3, <2>4, <2>5, <2>6 DEF BuildStep
<1>9. CASE Next
  BY <1>2, <1>4, <1>5, <1>6, <1>7, <1>8, <1>9, StepCases
<1> QED BY <1>1, <1>9

-----------------------------------------------------------------------------
(* What a step leaves alone of an index and a file. *)

Served(i, f) == Serves(i, f) => EdgeOK(i, f) /\ (f \notin raced => SymbolsOK(i, f))

TasksKeep(i, f) ==
    /\ Pending(i, f) => Pending(i, f)'
    /\ \A t \in Updates :
        /\ UpdateHas(t, i, f)' <=> UpdateHas(t, i, f)
        /\ UpdateHas(t, i, f) => task'[t].content = task[t].content

IndexKeeps(i, f) ==
    /\ f \in index[i].edges => f \in index'[i].edges
    /\ index'[i].symbols[f] = index[i].symbols[f]
    /\ ToBuild(i, f) => ToBuild(i, f)'
    /\ BuildHas(i, f)' <=> BuildHas(i, f)
    /\ BuildHas(i, f) => build'[i].content = build[i].content

LEMMA ServedKept ==
    ASSUME NEW i \in Indexes, NEW f \in Files, Served(i, f), Serves(i, f)' => Serves(i, f),
           disk'[f] = disk[f], raced \subseteq raced', TasksKeep(i, f), IndexKeeps(i, f)
    PROVE  Served(i, f)'
<1>1. EdgeOK(i, f) => EdgeOK(i, f)'
  BY DEF EdgeOK, Covered, TasksKeep, IndexKeeps
<1>2. SymbolsOK(i, f) => SymbolsOK(i, f)'
  BY DEF SymbolsOK, TasksKeep, IndexKeeps
<1> QED BY <1>1, <1>2 DEF Served

LEMMA IndexKept ==
    ASSUME NEW i \in Indexes, NEW f \in Files, index'[i] = index[i], build'[i] = build[i],
           disk'[f] = disk[f], goMod' = goMod \/ (i = Main /\ f \notin NestedFiles)
    PROVE  IndexKeeps(i, f)
<1>1. ToBuild(i, f) => ToBuild(i, f)'
  BY DEF ToBuild, Walked, NestedRoot
<1> QED BY <1>1 DEF IndexKeeps, BuildHas

\* No goroutine of an event moves.
LEMMA TasksKept ==
    ASSUME NEW i \in Indexes, NEW f \in Files, f \in events => f \in events',
           \A t \in Updates :
            /\ task'[t].pc = task[t].pc /\ task'[t].file = task[t].file /\ task'[t].root = task[t].root
            /\ task'[t].idx = task[t].idx /\ task'[t].content = task[t].content
    PROVE  TasksKeep(i, f)
<1>1. \A t \in Updates : Waits(t, i, f) => Waits(t, i, f)'
  BY DEF Waits
<1> QED BY <1>1 DEF TasksKeep, Pending, UpdateHas

\* One goroutine t moves.
LEMMA TaskMoves ==
    ASSUME NEW i \in Indexes, NEW f \in Files, NEW t \in Tasks, f \in events => f \in events',
           \A u \in Tasks \ {t} : task'[u] = task[u],
           t \in Updates =>
            /\ Waits(t, i, f) => Pending(i, f)'
            /\ ~UpdateHas(t, i, f) /\ ~UpdateHas(t, i, f)'
    PROVE  TasksKeep(i, f)
<1>1. \A u \in Updates \ {t} : Waits(u, i, f) => Waits(u, i, f)'
  BY Constants DEF Waits
<1>2. \A u \in Updates \ {t} :
        /\ UpdateHas(u, i, f)' <=> UpdateHas(u, i, f)
        /\ UpdateHas(u, i, f) => task'[u].content = task[u].content
  BY Constants DEF UpdateHas
<1>3. Pending(i, f) => Pending(i, f)'
  BY <1>1 DEF Pending
<1> QED BY <1>2, <1>3 DEF TasksKeep

\* A build that has not started yet will read what its index serves.
StartOK == \A i \in Indexes, f \in Files : Serves(i, f) /\ build[i].pc = "start" => EdgeOK(i, f) /\ SymbolsOK(i, f)

LEMMA StartFits == Shaped => StartOK
<1> SUFFICES ASSUME Shaped, NEW i \in Indexes, NEW f \in Files, Serves(i, f), build[i].pc = "start"
             PROVE  EdgeOK(i, f) /\ SymbolsOK(i, f)
  BY DEF StartOK
<1>1. ~index[i].modPath /\ index[i].symbols[f] = Absent
  BY DEF Shaped, IndexesShaped, IndexShape
<1>2. ~BuildHas(i, f) /\ \A t \in Updates : ~UpdateHas(t, i, f)
  BY <1>1, Constants DEF Shaped, TasksShaped, TaskShape, BuildHas, UpdateHas
<1>3. i # Main => f \in NestedFiles /\ goMod
  BY DEF Serves
<1>4. i = Main => NestedRoot(f) = "main"
  BY DEF Serves, NestedRoot, Shaped, IndexesShaped
<1>5. disk[f] # Absent => ToBuild(i, f)
  BY <1>3, <1>4 DEF ToBuild, Walked
<1>6. EdgeOK(i, f)
  BY <1>5 DEF EdgeOK, Covered, Absent
<1>7. SymbolsOK(i, f)
  BY <1>1, <1>2, <1>5 DEF SymbolsOK
<1> QED BY <1>6, <1>7

-----------------------------------------------------------------------------
(* What an index lacks of a file it serves is still to come. *)

ServedInv == Shaped /\ RootsRight /\ OneReader /\ SubIndexBuilds

LEMMA ServedByPending ==
    ASSUME NEW i \in Indexes, NEW f \in Files, Pending(i, f)'
    PROVE  Served(i, f)'
BY DEF Served, EdgeOK, SymbolsOK

LEMMA DiskServed ==
    ASSUME ServedInv, NEW i \in Indexes, NEW f \in Files, Served(i, f),
           \/ ChangeGoMod \/ Invalidate \/ DropSubIndex \/ EvictIdleModules
           \/ \E g \in Files : ChangeFile(g)
    PROVE  Served(i, f)'
<1> USE DEF ServedInv, Shaped
<1>1. CASE ChangeGoMod
  <2>1. Unsettle(Files) /\ UNCHANGED <<disk, subIdx, index, build, raced>> /\ events' = events \cup {"go.mod"}
    BY <1>1 DEF ChangeGoMod
  <2>2. TasksKeep(i, f)
    BY <2>1, UnsettleEffect, TasksKept, Constants
  <2>3. Serves(i, f)' => i = Main /\ f \notin NestedFiles
    BY <1>1 DEF ChangeGoMod, Serves, Typed
  <2>4. CASE i = Main /\ f \notin NestedFiles
    <3>1. IndexKeeps(i, f) /\ (Serves(i, f)' => Serves(i, f))
      BY <2>1, <2>4, IndexKept DEF Serves
    <3> QED BY <2>1, <2>2, <3>1, ServedKept
  <2> QED BY <2>3, <2>4 DEF Served
<1>2. CASE Invalidate
  <2>1. UNCHANGED <<disk, goMod, subIdx, index, build, task, unread, raced>> /\ (f \in events => f \in events')
    BY <1>2, Constants DEF Invalidate
  <2>2. Serves(i, f)' => i = Main /\ f \notin NestedFiles
    BY <1>2, <2>1 DEF Invalidate, Serves, RootsRight
  <2>3. Serves(i, f)' => Serves(i, f)
    BY <2>2 DEF Serves
  <2> QED BY <2>1, <2>3, TasksKept, IndexKept, ServedKept
<1>3. CASE DropSubIndex \/ EvictIdleModules
  <2>1. UNCHANGED <<disk, goMod, events, index, build, task, crossed, unread, raced>> /\ subIdx' = 0
    BY <1>3 DEF DropSubIndex, EvictIdleModules, diskVars, history
  <2>2. Serves(i, f)' => Serves(i, f)
    BY <2>1 DEF Serves
  <2> QED BY <2>1, <2>2, TasksKept, IndexKept, ServedKept
<1>4. ASSUME NEW g \in Files, ChangeFile(g) PROVE Served(i, f)'
  <2>1. Unsettle({g}) /\ UNCHANGED <<goMod, pump, subIdx, index, build, crossed, raced>>
        /\ events' = events \cup {g} /\ (f # g => disk'[f] = disk[f])
        /\ unread \subseteq unread' \cup {g}
    BY <1>4 DEF ChangeFile, Typed
  <2>2. CASE f = g
    BY <2>1, <2>2, ServedByPending DEF Pending
  <2>3. CASE f # g
    <3>1. Serves(i, f)' => Serves(i, f)
      BY <2>1, <2>3, Constants DEF Serves
    <3>2. TasksKeep(i, f)
      BY <2>1, UnsettleEffect, TasksKept, Constants
    <3> QED BY <2>1, <2>3, <3>1, <3>2, IndexKept, ServedKept
  <2> QED BY <2>2, <2>3
<1> QED BY <1>1, <1>2, <1>3, <1>4

\* A goroutine begins: one of an event has its file read, and a query changes nothing.
LEMMA BeginServed ==
    ASSUME ServedInv, NEW i \in Indexes, NEW f \in Files, Served(i, f), NEW g \in Files, NEW t \in Tasks,
           (t \in Updates /\ ObserveFileEvent(g, t)) \/ (t \in Queries /\ Query(g, t))
    PROVE  Served(i, f)'
<1> USE DEF ServedInv, Shaped
<1>1. UNCHANGED <<disk, goMod, pump, subIdx, index, build, crossed, unread, raced>>
  BY DEF ObserveFileEvent, Query, diskVars, history
<1>2. "go.mod" \in events => "go.mod" \in events'
  BY Constants DEF ObserveFileEvent, Query, diskVars
<1>3. Serves(i, f)' => Serves(i, f)
  BY <1>1, <1>2 DEF Serves
<1>4. CASE t \in Queries
  <2>1. Query(g, t)
    BY <1>4, Constants
  <2>2. events' = events /\ \A u \in Tasks \ {t} : task'[u] = task[u]
    BY <2>1, QueryEffect DEF Query, diskVars, TaskBegins
  <2>3. TasksKeep(i, f)
    BY <1>4, <2>2, TaskMoves, Constants
  <2> QED BY <1>1, <1>3, <2>3, IndexKept, ServedKept
<1>5. CASE t \in Updates
  <2>1. ObserveFileEvent(g, t)
    BY <1>5, Constants
  <2>2. TaskBegins(t, "root", {g}, {})
    BY <2>1, ObserveEffect
  <2>3. CASE f = g
    <3>1. Waits(t, i, f)'
      BY <2>2, <2>3 DEF TaskBegins, Waits
    <3> QED BY <1>5, <3>1, ServedByPending DEF Pending
  <2>4. CASE f # g
    <3>1. ~Waits(t, i, f) /\ ~UpdateHas(t, i, f) /\ ~UpdateHas(t, i, f)'
      BY <2>1, <2>2 DEF ObserveFileEvent, TaskBegins, Waits, UpdateHas
    <3>2. TasksKeep(i, f)
      BY <2>1, <2>2, <2>4, <3>1, TaskMoves DEF ObserveFileEvent, TaskBegins
    <3> QED BY <1>1, <1>3, <3>2, IndexKept, ServedKept
  <2> QED BY <2>3, <2>4
<1> QED BY <1>4, <1>5 DEF Tasks

\* A goroutine looks the root up, and gets the one of the index that serves its file.
LEMMA RootServed ==
    ASSUME ServedInv, NEW i \in Indexes, NEW f \in Files, Served(i, f), NEW t \in Tasks,
           RootForCached(t) \/ RootForStat(t) \/ RootForStore(t)
    PROVE  Served(i, f)'
<1> USE DEF ServedInv, Shaped
<1>1. UNCHANGED <<disk, goMod, events, pump, subIdx, index, build, crossed, unread, raced>>
  BY DEF RootForCached, RootForStat, RootForStore, diskVars, history
<1>2. Serves(i, f)' <=> Serves(i, f)
  BY <1>1 DEF Serves
<1>3. /\ \A u \in Tasks \ {t} : task'[u] = task[u]
      /\ task'[t].pc \in {"store", "index"} /\ task'[t].file = task[t].file
  BY RootForCachedEffect, RootForStatEffect, RootForStoreEffect DEF TaskIs
<1>4. task[t].pc \in {"root", "store"}
  BY DEF RootForCached, RootForStat, RootForStore
<1>5. ASSUME f \in task[t].file, Serves(i, f) PROVE Waits(t, i, f)'
  <2>1. f = FileOf(t)
    BY <1>4, <1>5, FileOfTask
  <2>2. (i = Main /\ (f \in NestedFiles => ~goMod /\ "go.mod" \notin events /\ ~crossed))
        \/ (i # Main /\ f \in NestedFiles /\ goMod /\ "go.mod" \notin events /\ ~crossed)
    BY <1>5 DEF Serves, IndexesShaped
  <2>3. CASE RootForCached(t)
    <3>1. task'[t].pc = "index" /\ task'[t].root = IF f \in NestedFiles THEN cache ELSE "main"
      BY <2>1, <2>3, RootForCachedEffect DEF TaskIs
    <3>2. f \in NestedFiles => cache \in {"main", "nested"}
      BY <2>1, <2>3 DEF RootForCached, Typed
    <3>3. task'[t].root = RootOf(i)
      BY <2>2, <3>1, <3>2 DEF RootsRight, Current, RootOf
    <3> QED BY <1>3, <1>5, <3>1, <3>3 DEF Waits, RootOf
  <2>4. CASE RootForStat(t)
    BY <1>3, <1>5, <2>4, RootForStatEffect DEF TaskIs, Waits
  <2>5. CASE RootForStore(t)
    <3>1. task'[t].pc = "index" /\ task'[t].root = task[t].root /\ task[t].pc = "store"
      BY <2>5, RootForStoreEffect DEF TaskIs, RootForStore
    <3>2. f \in NestedFiles
      BY <1>5, <3>1 DEF TasksShaped, TaskShape
    <3>3. task'[t].root = RootOf(i)
      BY <2>2, <3>1, <3>2 DEF RootsRight, Current, RootOf
    <3> QED BY <1>3, <1>5, <3>1, <3>3 DEF Waits, RootOf
  <2> QED BY <2>3, <2>4, <2>5
<1>6. CASE t \in Updates /\ f \in task[t].file /\ Serves(i, f)
  BY <1>5, <1>6, ServedByPending DEF Pending
<1>7. CASE t \in Queries \/ f \notin task[t].file
  <2>1. t \in Updates => ~Waits(t, i, f) /\ ~UpdateHas(t, i, f) /\ ~UpdateHas(t, i, f)'
    BY <1>3, <1>7, Constants DEF Waits, UpdateHas
  <2>2. TasksKeep(i, f)
    BY <1>1, <1>3, <2>1, TaskMoves
  <2> QED BY <1>1, <1>2, <2>2, IndexKept, ServedKept
<1>8. CASE ~Serves(i, f)
  BY <1>2, <1>8 DEF Served
<1> QED BY <1>6, <1>7, <1>8 DEF Tasks

\* A goroutine takes the index of its file's module.
LEMMA IndexForServed ==
    ASSUME ServedInv, NEW i \in Indexes, NEW f \in Files, Served(i, f), NEW t \in Tasks, IndexFor(t)
    PROVE  Served(i, f)'
<1> USE DEF ServedInv, Shaped
<1>1. PICK j \in Indexes :
        /\ TaskIs(t, IF t \in Queries THEN "await" ELSE "check", task[t].root, j, task[t].content)
        /\ \/ task[t].root = "main" /\ j = Main /\ UNCHANGED <<subIdx, build>>
           \/ task[t].root = "nested" /\ j = subIdx /\ UNCHANGED <<subIdx, build>>
           \/ /\ task[t].root = "nested" /\ subIdx = 0 /\ build[j].pc = "none"
              /\ subIdx' = j /\ BuildIs(j, "start", {}, {}, Absent)
  BY IndexForEffect
<1>2. UNCHANGED <<disk, goMod, events, pump, index, crossed, unread, raced>> /\ task[t].pc = "index"
  BY DEF IndexFor, diskVars, history
<1>3. CASE build'[i].pc = "start" /\ build[i].pc = "none"
  <2>1. Shaped'
    BY IndexForShaped
  <2>2. StartOK'
    BY <2>1, StartFits, PTL
  <2> QED BY <1>3, <2>2 DEF StartOK, Served
<1>4. CASE build'[i] = build[i]
  <2>1. Serves(i, f)' => Serves(i, f)
    BY <1>1, <1>2, <1>4 DEF Serves, BuildIs
  <2>2. CASE ~Serves(i, f)
    BY <2>1, <2>2 DEF Served
  <2>3. CASE Serves(i, f)
    <3>1. task'[t].idx = j /\ task'[t].file = task[t].file /\ (t \in Updates => task'[t].pc = "check")
      BY <1>1, Constants DEF TaskIs
    <3>2. Waits(t, i, f) => f \in task[t].file /\ task[t].root = RootOf(i)
      BY <1>2 DEF Waits
    <3>3. task[t].root = RootOf(i) => i = j
      BY <1>1, <2>3, Constants DEF RootOf, Serves, IndexesShaped
    <3>4. t \in Updates /\ Waits(t, i, f) => Waits(t, i, f)'
      BY <3>1, <3>2, <3>3 DEF Waits
    <3>5. t \in Updates => ~UpdateHas(t, i, f) /\ ~UpdateHas(t, i, f)'
      BY <1>2, <3>1 DEF UpdateHas
    <3>6. TasksKeep(i, f)
      BY <1>1, <1>2, <3>4, <3>5, TaskMoves DEF TaskIs, Pending
    <3> QED BY <1>2, <1>4, <2>1, <3>6, IndexKept, ServedKept
  <2> QED BY <2>2, <2>3
<1> QED BY <1>1, <1>3, <1>4 DEF BuildIs

\* A goroutine finds its index without a module path: the build is still to start.
LEMMA UnsetServed ==
    ASSUME ServedInv, NEW i \in Indexes, NEW f \in Files, Served(i, f), NEW t \in Tasks, UpdateUnset(t)
    PROVE  Served(i, f)'
<1> USE DEF ServedInv, Shaped
<1>1. UNCHANGED <<disk, goMod, events, pump, subIdx, index, build, crossed, unread, raced>>
      /\ task[t].pc = "check" /\ ~index[task[t].idx].modPath
  BY DEF UpdateUnset, diskVars, history
<1>2. TaskBegins(t, "none", {}, {})
  BY LeaveEffect DEF UpdateUnset
<1>3. Serves(i, f)' <=> Serves(i, f)
  BY <1>1 DEF Serves
<1>4. CASE Serves(i, f) /\ i = task[t].idx
  <2>1. build[i].pc = "start"
    BY <1>1, <1>4 DEF Serves, SubIndexBuilds, IndexesShaped
  <2>2. Shaped'
    BY TaskShaped
  <2>3. StartOK'
    BY <2>2, StartFits, PTL
  <2> QED BY <1>1, <2>1, <2>3 DEF StartOK, Served
<1>5. CASE i # task[t].idx
  <2>1. ~Waits(t, i, f) /\ ~UpdateHas(t, i, f) /\ ~UpdateHas(t, i, f)'
    BY <1>1, <1>2, <1>5 DEF Waits, UpdateHas, TaskBegins
  <2>2. TasksKeep(i, f)
    BY <1>1, <1>2, <2>1, TaskMoves DEF TaskBegins
  <2> QED BY <1>1, <1>3, <2>2, IndexKept, ServedKept
<1> QED BY <1>3, <1>4, <1>5 DEF Served

\* A goroutine reads its file.
LEMMA ReadServed ==
    ASSUME ServedInv, NEW i \in Indexes, NEW f \in Files, Served(i, f), NEW t \in Updates, UpdateRead(t)
    PROVE  Served(i, f)'
<1> USE DEF ServedInv, Shaped
<1>1. UNCHANGED <<disk, goMod, events, pump, subIdx, index, build, crossed, unread>>
      /\ task[t].pc = "check" /\ raced \subseteq raced'
  BY DEF UpdateRead, diskVars
<1>2. t \in Tasks /\ TaskIs(t, "apply", task[t].root, task[t].idx, disk[FileOf(t)])
  BY UpdateReadEffect, Constants
<1>3. task[t].file = {FileOf(t)}
  BY <1>1, <1>2, FileOfTask
<1>4. CASE f = FileOf(t) /\ i = task[t].idx
  <2>1. UpdateHas(t, i, f)' /\ task'[t].content = disk'[f]
    BY <1>1, <1>2, <1>3, <1>4 DEF TaskIs, UpdateHas
  <2>2. EdgeOK(i, f)'
    BY <2>1 DEF EdgeOK
  <2>3. f \notin raced' => ~BuildHas(i, f)' /\ \A u \in Updates \ {t} : ~UpdateHas(u, i, f)'
    BY <1>2, <1>4, UpdateReadReaders
  <2>4. f \notin raced' => SymbolsOK(i, f)'
    BY <2>1, <2>3 DEF SymbolsOK
  <2> QED BY <2>2, <2>4 DEF Served
<1>5. CASE f # FileOf(t) \/ i # task[t].idx
  <2>1. ~Waits(t, i, f) /\ ~UpdateHas(t, i, f) /\ ~UpdateHas(t, i, f)'
    BY <1>1, <1>2, <1>3, <1>5 DEF Waits, UpdateHas, TaskIs
  <2>2. TasksKeep(i, f)
    BY <1>1, <1>2, <2>1, TaskMoves DEF TaskIs
  <2>3. Serves(i, f)' => Serves(i, f)
    BY <1>1 DEF Serves
  <2> QED BY <1>1, <2>2, <2>3, IndexKept, ServedKept
<1> QED BY <1>4, <1>5

\* A file's text goes into an index: the others and the other files stay as they are.
LEMMA MergeKeeps ==
    ASSUME Typed, NEW i \in Indexes, NEW g \in Files, NEW c \in Contents, index' = Merge(i, g, c)
    PROVE  /\ \A j \in Indexes :
                /\ index[j].edges \subseteq index'[j].edges /\ index'[j].modPath = index[j].modPath
                /\ \A f \in Files : j # i \/ f # g => index'[j].symbols[f] = index[j].symbols[f]
           /\ index'[i].symbols[g] = c
           /\ c = "importing" => g \in index'[i].edges
<1>1. IndexIs(i, index[i].modPath, index[i].ready,
              IF c = "importing" THEN index[i].edges \cup {g} ELSE index[i].edges,
              [index[i].symbols EXCEPT ![g] = c])
  BY MergeEffect
<1>2. index[i].symbols \in [Files -> Contents]
  BY IndexFields
<1>3. index[i].edges \subseteq index'[i].edges /\ index'[i].modPath = index[i].modPath
      /\ (c = "importing" => g \in index'[i].edges)
  BY <1>1 DEF IndexIs
<1>4. index'[i].symbols[g] = c /\ \A f \in Files : f # g => index'[i].symbols[f] = index[i].symbols[f]
  BY <1>1, <1>2 DEF IndexIs
<1>5. \A j \in Indexes : j # i => index'[j] = index[j]
  BY <1>1 DEF IndexIs
<1> QED BY <1>3, <1>4, <1>5

\* A goroutine puts what it has read into its index.
LEMMA ApplyServed ==
    ASSUME ServedInv, NEW i \in Indexes, NEW f \in Files, Served(i, f), NEW t \in Updates, UpdateApply(t)
    PROVE  Served(i, f)'
<1> USE DEF ServedInv, Shaped
<1>1. UNCHANGED <<disk, goMod, events, pump, subIdx, build, crossed, unread, raced>>
      /\ task[t].pc = "apply" /\ index' = Merge(task[t].idx, FileOf(t), task[t].content)
  BY DEF UpdateApply, diskVars, history
<1>2. t \in Tasks /\ TaskBegins(t, "none", {}, {})
  BY LeaveEffect, Constants DEF UpdateApply
<1>3. /\ task[t].file = {FileOf(t)} /\ FileOf(t) \in Files
      /\ task[t].idx \in Indexes /\ task[t].content \in Contents
  BY <1>1, <1>2, FileOfTask, TaskFields
<1>4. Serves(i, f)' => Serves(i, f)
  BY <1>1 DEF Serves
<1>5. /\ index[i].edges \subseteq index'[i].edges /\ index'[i].modPath = index[i].modPath
      /\ f # FileOf(t) \/ i # task[t].idx => index'[i].symbols[f] = index[i].symbols[f]
      /\ index'[task[t].idx].symbols[FileOf(t)] = task[t].content
      /\ task[t].content = "importing" => FileOf(t) \in index'[task[t].idx].edges
  <2>1. Typed
    OBVIOUS
  <2> HIDE DEF ServedInv, Shaped
  <2> QED BY <1>1, <1>3, <2>1, MergeKeeps
<1>6. /\ ToBuild(i, f) => ToBuild(i, f)'
      /\ BuildHas(i, f)' <=> BuildHas(i, f)
      /\ build'[i].content = build[i].content
  BY <1>1, <1>5 DEF ToBuild, Walked, NestedRoot, BuildHas
<1>7. ~Waits(t, i, f)
  BY <1>1 DEF Waits
<1>8. CASE f = FileOf(t) /\ i = task[t].idx
  <2>1. UpdateHas(t, i, f)
    BY <1>1, <1>3, <1>8 DEF UpdateHas
  <2>2. /\ \A u \in Updates \ {t} : Waits(u, i, f) => Waits(u, i, f)'
        /\ \A u \in Updates \ {t} : UpdateHas(u, i, f)' <=> UpdateHas(u, i, f)
        /\ \A u \in Updates \ {t} : task'[u].content = task[u].content
        /\ ~UpdateHas(t, i, f)'
    BY <1>2, Constants DEF TaskBegins, Waits, UpdateHas
  <2>3. Pending(i, f) => Pending(i, f)'
    BY <1>1, <1>7, <2>2 DEF Pending
  <2>4. EdgeOK(i, f) => EdgeOK(i, f)'
    BY <1>1, <1>5, <1>6, <1>8, <2>2, <2>3 DEF EdgeOK, Covered
  <2>5. SymbolsOK(i, f) => SymbolsOK(i, f)'
    BY <1>1, <1>5, <1>6, <1>8, <2>1, <2>2, <2>3 DEF SymbolsOK
  <2> QED BY <1>1, <1>4, <2>4, <2>5 DEF Served
<1>9. CASE f # FileOf(t) \/ i # task[t].idx
  <2>1. ~UpdateHas(t, i, f) /\ ~UpdateHas(t, i, f)'
    BY <1>1, <1>2, <1>3, <1>9 DEF UpdateHas, TaskBegins
  <2>2. TasksKeep(i, f)
    BY <1>1, <1>2, <1>7, <2>1, TaskMoves DEF TaskBegins
  <2>3. IndexKeeps(i, f)
    BY <1>5, <1>6, <1>9 DEF IndexKeeps
  <2> QED BY <1>1, <1>4, <2>2, <2>3, ServedKept
<1> QED BY <1>8, <1>9

\* The build goes on: what it was to read of a file it still is, unless it reads or
\* applies just this one.
LEMMA BuildKeeps ==
    ASSUME Shaped, NEW j \in Indexes, BuildStep(j), NEW i \in Indexes, NEW f \in Files,
           ~(i = j /\ (BuildRead(j, f) \/ (BuildApply(j) /\ f \in build[j].file)))
    PROVE  IndexKeeps(i, f)
<1> USE DEF Shaped
<1>1. UNCHANGED <<disk, goMod>>
  BY DEF BuildStep, BuildStart, BuildWalk, BuildRead, BuildApply, BuildReady, diskVars
<1>2. CASE BuildStart(j)
  <2>1. build[j].pc = "start" /\ build'[j].pc = "walk" /\ (index'[j].modPath <=> j = Main \/ goMod)
        /\ index'[j].edges = index[j].edges /\ index'[j].symbols = index[j].symbols
    BY <1>2, BuildStartEffect DEF BuildStart, BuildIs
  <2>2. \A k \in Indexes \ {j} : index'[k] = index[k] /\ build'[k] = build[k]
    BY <1>2, BuildStartEffect DEF BuildIs
  <2>3. CASE i # j
    BY <1>1, <2>2, <2>3, IndexKept
  <2>4. CASE i = j
    <3>1. ToBuild(i, f) => ToBuild(i, f)'
      BY <1>1, <2>1, <2>4 DEF ToBuild, Walked, NestedRoot
    <3> QED BY <2>1, <2>4, <3>1 DEF IndexKeeps, BuildHas
  <2> QED BY <2>3, <2>4
<1>3. CASE BuildWalk(j)
  <2>1. index' = index /\ build[j].pc = "walk"
    BY <1>3 DEF BuildWalk
  <2>2. BuildIs(j, "files", IF index[j].modPath THEN Walked(j) ELSE {}, build[j].file, build[j].content)
    BY <1>3, BuildWalkEffect
  <2>3. CASE i # j
    BY <1>1, <2>1, <2>2, <2>3, IndexKept DEF BuildIs
  <2>4. CASE i = j
    <3>1. ToBuild(i, f) => ToBuild(i, f)'
      BY <2>1, <2>2, <2>4 DEF ToBuild, BuildIs
    <3> QED BY <2>1, <2>2, <2>4, <3>1 DEF IndexKeeps, BuildHas, BuildIs
  <2> QED BY <2>3, <2>4
<1>4. ASSUME NEW g \in Files, BuildRead(j, g) PROVE IndexKeeps(i, f)
  <2>1. index' = index /\ build[j].pc = "files"
    BY <1>4 DEF BuildRead
  <2>2. BuildIs(j, "apply", build[j].left \ {g}, {g}, disk[g])
    BY <1>4, BuildReadEffect
  <2>3. CASE i # j
    BY <1>1, <2>1, <2>2, <2>3, IndexKept DEF BuildIs
  <2>4. CASE i = j
    <3>1. f # g
      BY <1>4, <2>4
    <3>2. ToBuild(i, f) => ToBuild(i, f)'
      BY <2>1, <2>2, <2>4, <3>1 DEF ToBuild, BuildIs
    <3> QED BY <2>1, <2>2, <2>4, <3>1, <3>2 DEF IndexKeeps, BuildHas, BuildIs
  <2> QED BY <2>3, <2>4
<1>5. CASE BuildApply(j)
  <2>1. PICK g \in build[j].file : index' = Merge(j, g, build[j].content)
    BY <1>5 DEF BuildApply
  <2>2. g \in Files /\ build[j].content \in Contents /\ build[j].pc = "apply" /\ build[j].file = {g}
    BY <1>5, <2>1, BuildFields DEF BuildApply, IndexesShaped, IndexShape
  <2>3. BuildIs(j, "files", build[j].left, {}, Absent)
    BY <1>5, BuildApplyEffect
  <2>4. /\ index[i].edges \subseteq index'[i].edges /\ index'[i].modPath = index[i].modPath
        /\ i # j \/ f # g => index'[i].symbols[f] = index[i].symbols[f]
    BY <2>1, <2>2, MergeKeeps
  <2>5. i # j \/ f # g
    BY <1>5, <2>1
  <2>6. ToBuild(i, f) => ToBuild(i, f)'
    BY <1>1, <2>2, <2>3, <2>4 DEF ToBuild, Walked, NestedRoot, BuildIs
  <2>7. (BuildHas(i, f)' <=> BuildHas(i, f)) /\ (BuildHas(i, f) => build'[i].content = build[i].content)
    BY <2>2, <2>3, <2>5 DEF BuildHas, BuildIs
  <2> QED BY <2>4, <2>5, <2>6, <2>7 DEF IndexKeeps
<1>6. CASE BuildReady(j)
  <2>1. IndexIs(j, index[j].modPath, TRUE, index[j].edges, index[j].symbols)
        /\ BuildIs(j, "done", build[j].left, build[j].file, build[j].content)
        /\ build[j].pc = "files" /\ build[j].left = {}
    BY <1>6, BuildReadyEffect DEF BuildReady
  <2>2. CASE i # j
    BY <1>1, <2>1, <2>2, IndexKept DEF IndexIs, BuildIs
  <2>3. CASE i = j
    BY <2>1, <2>3 DEF IndexKeeps, ToBuild, BuildHas, IndexIs, BuildIs
  <2> QED BY <2>2, <2>3
<1> QED BY <1>2, <1>3, <1>4, <1>5, <1>6 DEF BuildStep

LEMMA BuildServed ==
    ASSUME ServedInv, NEW i \in Indexes, NEW f \in Files, Served(i, f), NEW j \in Indexes, BuildStep(j)
    PROVE  Served(i, f)'
<1> USE DEF ServedInv, Shaped
<1>1. UNCHANGED <<disk, goMod, events, pump, subIdx, task, crossed, unread>> /\ raced \subseteq raced'
  BY DEF BuildStep, BuildStart, BuildWalk, BuildRead, BuildApply, BuildReady, diskVars, history
<1>2. Serves(i, f)' => Serves(i, f)
  BY <1>1 DEF Serves
<1>3. TasksKeep(i, f)
  BY <1>1, TasksKept
<1>4. CASE i = j /\ BuildRead(j, f)
  <2>1. BuildHas(i, f)' /\ build'[i].content = disk'[f]
    BY <1>1, <1>4, BuildReadEffect DEF BuildIs, BuildHas
  <2>2. EdgeOK(i, f)'
    BY <2>1 DEF EdgeOK, Covered
  <2>3. f \notin raced' => \A u \in Updates : ~UpdateHas(u, i, f)'
    BY <1>4, BuildReadReaders
  <2>4. f \notin raced' => SymbolsOK(i, f)'
    BY <2>1, <2>3 DEF SymbolsOK
  <2> QED BY <2>2, <2>4 DEF Served
<1>5. CASE i = j /\ BuildApply(j) /\ f \in build[j].file
  <2>1. index' = Merge(i, f, build[i].content) /\ build[i].pc = "apply"
    BY <1>5 DEF BuildApply, IndexesShaped, IndexShape
  <2>2. build[i].content \in Contents
    BY BuildFields
  <2>3. BuildIs(i, "files", build[i].left, {}, Absent)
    BY <1>5, BuildApplyEffect
  <2>4. /\ index[i].edges \subseteq index'[i].edges /\ index'[i].symbols[f] = build[i].content
        /\ build[i].content = "importing" => f \in index'[i].edges
    BY <2>1, <2>2, MergeKeeps
  <2>5. BuildHas(i, f) /\ ~BuildHas(i, f)' /\ (ToBuild(i, f) => ToBuild(i, f)')
    BY <1>5, <2>1, <2>3 DEF BuildHas, ToBuild, BuildIs
  <2>6. EdgeOK(i, f) => EdgeOK(i, f)'
    BY <1>1, <1>3, <2>4, <2>5 DEF EdgeOK, Covered, TasksKeep
  <2>7. SymbolsOK(i, f) => SymbolsOK(i, f)'
    BY <1>1, <1>3, <2>4, <2>5 DEF SymbolsOK, TasksKeep
  <2> QED BY <1>1, <1>2, <2>6, <2>7 DEF Served
<1>6. CASE ~(i = j /\ (BuildRead(j, f) \/ (BuildApply(j) /\ f \in build[j].file)))
  BY <1>1, <1>2, <1>3, <1>6, BuildKeeps, ServedKept
<1> QED BY <1>4, <1>5, <1>6

LEMMA ServedPreserved ==
    Shaped /\ RootsRight /\ OneReader /\ SubIndexBuilds /\ ServedOK /\ [Next]_vars => ServedOK'
<1> SUFFICES ASSUME ServedInv, ServedOK, [Next]_vars, NEW i \in Indexes, NEW f \in Files
             PROVE  Served(i, f)'
  BY DEF ServedInv, ServedOK, Served
<1>1. Served(i, f)
  BY DEF ServedOK, Served
<1>2. CASE UNCHANGED vars
  <2>1. UNCHANGED <<disk, goMod, events, pump, subIdx, index, build, task, crossed, unread, raced>>
    BY <1>2 DEF vars, diskVars, history
  <2> QED BY <1>1, <2>1, TasksKept, IndexKept, ServedKept DEF Serves
<1>3. ASSUME NEW t \in Tasks, TaskStep(t) PROVE Served(i, f)'
  <2>1. CASE RootForCached(t) \/ RootForStat(t) \/ RootForStore(t) \/ IndexFor(t) \/ UpdateUnset(t)
    BY <1>1, <2>1, RootServed, IndexForServed, UnsetServed
  <2>2. CASE UpdateRead(t) \/ UpdateApply(t)
    <3>1. t \in Updates
      BY <2>2 DEF UpdateRead, UpdateApply, ServedInv, Shaped, TasksShaped, TaskShape, Tasks
    <3> QED BY <1>1, <2>2, <3>1, ReadServed, ApplyServed
  <2>3. CASE WaitReady(t) \/ Answer(t)
    <3>1. UNCHANGED <<disk, goMod, events, pump, subIdx, index, build, crossed, unread, raced>>
      BY <2>3 DEF WaitReady, Answer, diskVars, history
    <3>2. t \notin Updates
      BY <2>3 DEF WaitReady, Answer, ServedInv, Shaped, TasksShaped, TaskShape
    <3>3. \A u \in Tasks \ {t} : task'[u] = task[u]
      BY <2>3, WaitReadyEffect, TaskLeavesEffect DEF Answer, ServedInv, Shaped, TaskIs, TaskBegins
    <3>4. TasksKeep(i, f)
      BY <3>1, <3>2, <3>3, TaskMoves
    <3>5. Serves(i, f)' => Serves(i, f)
      BY <3>1 DEF Serves
    <3> QED BY <1>1, <3>1, <3>4, <3>5, IndexKept, ServedKept
  <2> QED BY <1>3, <2>1, <2>2, <2>3 DEF TaskStep
<1>4. CASE Next
  BY <1>1, <1>3, <1>4, StepCases, DiskServed, BeginServed, BuildServed, Constants
<1> QED BY <1>2, <1>4

-----------------------------------------------------------------------------
(* Queries. *)

LEMMA CoveredKept ==
    ASSUME NEW i \in Indexes, NEW g \in Files, IndexKeeps(i, g), Covered(i, g)
    PROVE  Covered(i, g)'
BY DEF IndexKeeps, Covered

\* A build loses nothing of a file that imports.
LEMMA BuildCovers ==
    ASSUME Shaped, NEW j \in Indexes, BuildStep(j), NEW i \in Indexes, NEW g \in Files,
           Covered(i, g), disk[g] = "importing"
    PROVE  Covered(i, g)'
<1> USE DEF Shaped
<1>1. CASE i = j /\ BuildRead(j, g)
  BY <1>1, BuildReadEffect DEF BuildIs, Covered, BuildHas
<1>2. CASE i = j /\ BuildApply(j) /\ g \in build[j].file
  <2>1. index' = Merge(i, g, build[i].content) /\ build[i].pc = "apply"
    BY <1>2 DEF BuildApply, IndexesShaped, IndexShape
  <2>2. build[i].content \in Contents
    BY BuildFields
  <2>3. BuildIs(i, "files", build[i].left, {}, Absent)
    BY <1>2, BuildApplyEffect
  <2>4. /\ index[i].edges \subseteq index'[i].edges
        /\ build[i].content = "importing" => g \in index'[i].edges
    BY <2>1, <2>2, MergeKeeps
  <2>5. ToBuild(i, g) => ToBuild(i, g)'
    BY <2>1, <2>3 DEF ToBuild, BuildIs
  <2> QED BY <2>4, <2>5 DEF Covered
<1>3. CASE ~(i = j /\ (BuildRead(j, g) \/ (BuildApply(j) /\ g \in build[j].file)))
  BY <1>3, BuildKeeps, CoveredKept
<1> QED BY <1>1, <1>2, <1>3

\* A step that leaves the query and what it found settled alone.
LEMMA QueryKept ==
    ASSUME NEW t \in Queries, NEW g \in Files, QueryFit(t, g),
           UNCHANGED <<goMod, pump, crossed>>, unread' \subseteq unread, disk'[g] = disk[g],
           g \notin events', "go.mod" \notin events', \A u \in Updates : g \notin task'[u].file,
           task'[t].pc = task[t].pc, task'[t].file = task[t].file, task'[t].root = task[t].root,
           task'[t].idx = task[t].idx,
           task[t].idx \in Indexes,
           \A i \in Indexes : i = task[t].idx /\ task[t].pc \in {"await", "closure"} /\ Covered(i, g) =>
                Covered(i, g)',
           build[task[t].idx].pc = "done" => build'[task[t].idx].pc = "done"
    PROVE  QueryFit(t, g)'
<1>1. FileOf(t)' = FileOf(t)
  BY DEF FileOf
<1>2. NestedRoot(g)' = NestedRoot(g) /\ NestedRoot(FileOf(t))' = NestedRoot(FileOf(t))
  BY <1>1 DEF NestedRoot
<1>3. task[t].pc \in {"await", "closure"} /\ Covered(task[t].idx, g) => Covered(task[t].idx, g)'
  BY DEF Covered, ToBuild, BuildHas
<1> QED BY <1>2, <1>3 DEF QueryFit

\* A query's own steps.
LEMMA QueryStepFits ==
    ASSUME Shaped, RootsRight, ServedOK', QueriesFit, NEW t \in Queries,
           TaskStep(t), NEW g \in task'[t].settled
    PROVE  QueryFit(t, g)'
<1> USE DEF Shaped
<1>1. t \in Tasks /\ t \notin Updates /\ task[t].pc \notin {"check", "apply"}
  BY Constants DEF TasksShaped, TaskShape
<1>2. CASE RootForCached(t) \/ RootForStat(t) \/ RootForStore(t)
  <2>1. UNCHANGED <<disk, goMod, events, pump, crossed, unread>> /\ task[t].pc \in {"root", "store"}
    BY <1>2 DEF RootForCached, RootForStat, RootForStore, diskVars, history
  <2>2. /\ task'[t].pc \in {"store", "index"} /\ task'[t].file = task[t].file
        /\ task'[t].settled = task[t].settled /\ \A u \in Updates : task'[u] = task[u]
    BY <1>1, <1>2, RootForCachedEffect, RootForStatEffect, RootForStoreEffect, Constants DEF TaskIs
  <2>3. QueryFit(t, g) /\ FileOf(t) \in Files
    BY <1>1, <2>1, <2>2, FileOfTask DEF QueriesFit
  <2>4. FileOf(t)' = FileOf(t) /\ NestedRoot(g)' = NestedRoot(g)
        /\ NestedRoot(FileOf(t))' = NestedRoot(FileOf(t))
    BY <2>1, <2>2 DEF FileOf, NestedRoot
  <2>5. ~crossed /\ task'[t].pc = "index" => task'[t].root = NestedRoot(g)
    <3>1. CASE RootForCached(t)
      <4>1. task'[t].root = IF FileOf(t) \in NestedFiles THEN cache ELSE "main"
        BY <1>1, <3>1, RootForCachedEffect DEF TaskIs
      <4>2. FileOf(t) \in NestedFiles => cache # "none"
        BY <3>1 DEF RootForCached
      <4> QED BY <2>3, <4>1, <4>2 DEF QueryFit, RootsRight, Current, NestedRoot
    <3>2. CASE RootForStat(t)
      BY <1>1, <3>2, RootForStatEffect DEF TaskIs
    <3>3. CASE RootForStore(t)
      <4>1. task'[t].root = task[t].root /\ task[t].pc = "store"
        BY <1>1, <3>3, RootForStoreEffect DEF TaskIs, RootForStore
      <4>2. FileOf(t) \in NestedFiles
        BY <1>1, <4>1, FileOfTask DEF TasksShaped, TaskShape
      <4> QED BY <1>1, <2>3, <4>1, <4>2 DEF QueryFit, RootsRight, Current, NestedRoot
    <3> QED BY <1>2, <3>1, <3>2, <3>3
  <2> QED BY <2>1, <2>2, <2>3, <2>4, <2>5 DEF QueryFit
<1>3. CASE IndexFor(t)
  <2>1. PICK i \in Indexes :
          /\ TaskIs(t, IF t \in Queries THEN "await" ELSE "check", task[t].root, i, task[t].content)
          /\ \/ task[t].root = "main" /\ i = Main /\ UNCHANGED <<subIdx, build>>
             \/ task[t].root = "nested" /\ i = subIdx /\ UNCHANGED <<subIdx, build>>
             \/ /\ task[t].root = "nested" /\ subIdx = 0 /\ build[i].pc = "none"
                /\ subIdx' = i /\ BuildIs(i, "start", {}, {}, Absent)
    BY <1>1, <1>3, IndexForEffect
  <2>2. UNCHANGED <<disk, goMod, events, pump, crossed, unread>> /\ task[t].pc = "index"
    BY <1>3 DEF IndexFor, diskVars, history
  <2>3. /\ task'[t].pc = "await" /\ task'[t].file = task[t].file /\ task'[t].idx = i
        /\ task'[t].settled = task[t].settled /\ \A u \in Updates : task'[u] = task[u]
    BY <1>1, <2>1, Constants DEF TaskIs
  <2>4. QueryFit(t, g) /\ g \in Files
    BY <1>1, <2>3, TaskFields DEF QueriesFit
  <2>5. FileOf(t)' = FileOf(t) /\ NestedRoot(g)' = NestedRoot(g)
        /\ NestedRoot(FileOf(t))' = NestedRoot(FileOf(t))
    BY <2>2, <2>3 DEF FileOf, NestedRoot
  <2>6. ASSUME ~crossed PROVE Serves(i, g)'
    BY <2>1, <2>2, <2>4, <2>6, Constants DEF QueryFit, NestedRoot, Serves
  <2>7. ASSUME ~crossed PROVE Covered(task[t].idx, g)'
    <3>1. EdgeOK(i, g)' /\ disk'[g] = "importing" /\ g \notin events' /\ \A u \in Updates : g \notin task'[u].file
      BY <2>2, <2>3, <2>4, <2>6, <2>7 DEF ServedOK, QueryFit
    <3>2. Covered(i, g)'
      BY <3>1 DEF EdgeOK, Pending, Waits, UpdateHas
    <3> QED BY <2>3, <3>2 DEF Covered, ToBuild, BuildHas, Walked
  <2> QED BY <2>2, <2>3, <2>4, <2>5, <2>7 DEF QueryFit
<1>4. CASE WaitReady(t)
  <2>1. UNCHANGED <<disk, goMod, events, pump, index, build, crossed, unread>> /\ task[t].pc = "await"
    BY <1>4 DEF WaitReady, diskVars, history
  <2>2. /\ task'[t].pc \in {"closure", "timeout"} /\ (task'[t].pc = "closure" => index[task[t].idx].ready)
        /\ task'[t].file = task[t].file /\ task'[t].idx = task[t].idx
        /\ task'[t].settled = task[t].settled /\ \A u \in Updates : task'[u] = task[u]
    BY <1>1, <1>4, WaitReadyEffect, Constants DEF TaskIs
  <2>3. QueryFit(t, g) /\ g \in Files /\ task[t].idx \in Indexes
    BY <1>1, <2>2, TaskFields DEF QueriesFit
  <2>4. FileOf(t)' = FileOf(t) /\ NestedRoot(g)' = NestedRoot(g)
        /\ NestedRoot(FileOf(t))' = NestedRoot(FileOf(t))
    BY <2>1, <2>2 DEF FileOf, NestedRoot
  <2>5. Covered(task[t].idx, g) => Covered(task[t].idx, g)'
    BY <2>1, <2>2 DEF Covered, ToBuild, BuildHas, Walked, NestedRoot
  <2>6. task'[t].pc = "closure" => build[task[t].idx].pc = "done"
    BY <2>2, <2>3 DEF IndexesShaped, IndexShape
  <2> QED BY <2>1, <2>2, <2>3, <2>4, <2>5, <2>6 DEF QueryFit
<1>5. CASE Answer(t)
  BY <1>1, <1>5, TaskLeavesEffect DEF Answer, TaskBegins
<1> QED BY <1>1, <1>2, <1>3, <1>4, <1>5 DEF TaskStep, UpdateUnset, UpdateRead, UpdateApply

\* The steps of another goroutine.
LEMMA OtherStepFits ==
    ASSUME Shaped, QueriesFit, NEW t \in Queries, NEW u \in Tasks \ {t},
           TaskStep(u), NEW g \in task'[t].settled
    PROVE  QueryFit(t, g)'
<1> USE DEF Shaped
<1>1. UNCHANGED <<disk, goMod, events, pump, crossed, unread>>
  BY DEF TaskStep, RootForCached, RootForStat, RootForStore, IndexFor, UpdateUnset, UpdateRead,
         UpdateApply, WaitReady, Answer, diskVars, history
<1>2. (\A v \in Tasks \ {u} : task'[v] = task[v]) /\ task'[u].file \subseteq task[u].file
  <2>1. CASE RootForCached(u) \/ RootForStat(u) \/ RootForStore(u)
    BY <2>1, RootForCachedEffect, RootForStatEffect, RootForStoreEffect DEF TaskIs
  <2>2. CASE IndexFor(u)
    BY <2>2, IndexForEffect DEF TaskIs
  <2>3. CASE UpdateRead(u) \/ WaitReady(u)
    BY <2>3, UpdateReadEffect, WaitReadyEffect DEF TaskIs
  <2>4. CASE UpdateUnset(u) \/ UpdateApply(u) \/ Answer(u)
    BY <2>4, LeaveEffect, TaskLeavesEffect DEF UpdateUnset, UpdateApply, Answer, TaskBegins
  <2> QED BY <2>1, <2>2, <2>3, <2>4 DEF TaskStep
<1>3. task'[t] = task[t] /\ t \in Tasks /\ g \in Files /\ QueryFit(t, g) /\ task[t].idx \in Indexes
  <2>1. t \in Tasks /\ task'[t] = task[t]
    BY <1>2, Constants
  <2> QED BY <2>1, TaskFields DEF QueriesFit
<1>4. \A v \in Updates : g \notin task'[v].file
  BY <1>2, <1>3, Constants DEF QueryFit
<1>5. ASSUME NEW i \in Indexes, build[i].pc # "none"
      PROVE  build'[i] = build[i] /\ (Covered(i, g) => Covered(i, g)')
  <2>1. CASE UpdateApply(u)
    <3>1. /\ task[u].idx \in Indexes /\ task[u].content \in Contents /\ FileOf(u) \in Files
          /\ index' = Merge(task[u].idx, FileOf(u), task[u].content) /\ build' = build
      BY <2>1, TaskFields, FileOfTask DEF UpdateApply
    <3>2. index[i].edges \subseteq index'[i].edges /\ index'[i].modPath = index[i].modPath
      BY <3>1, MergeKeeps
    <3> QED BY <1>1, <3>1, <3>2 DEF Covered, ToBuild, BuildHas, Walked, NestedRoot
  <2>2. CASE ~UpdateApply(u)
    <3>1. index' = index
      BY <2>2 DEF TaskStep, RootForCached, RootForStat, RootForStore, IndexFor, UpdateUnset, UpdateRead,
                  WaitReady, Answer
    <3>2. build'[i] = build[i]
      <4>1. CASE IndexFor(u)
        BY <1>5, <4>1, IndexForEffect DEF BuildIs
      <4>2. CASE ~IndexFor(u)
        BY <2>2, <4>2 DEF TaskStep, RootForCached, RootForStat, RootForStore, UpdateUnset, UpdateRead,
                          WaitReady, Answer
      <4> QED BY <4>1, <4>2
    <3> QED BY <1>1, <1>3, <3>1, <3>2, IndexKept, CoveredKept
  <2> QED BY <2>1, <2>2
<1>6. task[t].pc \in {"await", "closure"} => build[task[t].idx].pc # "none"
  BY <1>3 DEF TasksShaped, TaskShape, QueryFit
<1>7. build[task[t].idx].pc = "done" => build'[task[t].idx].pc = "done"
  BY <1>3, <1>5
<1> QED BY <1>1, <1>3, <1>4, <1>5, <1>6, <1>7, QueryKept DEF QueryFit

LEMMA QueriesPreserved ==
    Shaped /\ RootsRight /\ ServedOK' /\ QueriesFit /\ [Next]_vars => QueriesFit'
<1> SUFFICES ASSUME Shaped, RootsRight, ServedOK', QueriesFit, [Next]_vars,
                    NEW t \in Queries, NEW g \in task'[t].settled
             PROVE  QueryFit(t, g)'
  BY DEF QueriesFit
<1> USE DEF Shaped
<1>1. t \in Tasks /\ t \notin Updates /\ task[t].idx \in Indexes /\ task[t].settled \subseteq Files
  BY TaskFields, Constants
<1>2. ASSUME g \in task[t].settled PROVE g \in Files /\ QueryFit(t, g)
  BY <1>1, <1>2 DEF QueriesFit
<1>3. ASSUME g \in task[t].settled, UNCHANGED <<disk, goMod, events, pump, index, build, task, crossed, unread>>
      PROVE  QueryFit(t, g)'
  BY <1>1, <1>2, <1>3, IndexKept, CoveredKept, QueryKept DEF QueryFit
<1>4. CASE UNCHANGED vars
  BY <1>3, <1>4 DEF vars, diskVars, history
<1>5. CASE ChangeGoMod
  BY <1>1, <1>5, UnsettleEffect DEF ChangeGoMod
<1>6. CASE Invalidate \/ DropSubIndex
  <2>1. g \in task[t].settled
    BY <1>6 DEF Invalidate, DropSubIndex
  <2> QED BY <1>2, <1>6, <2>1 DEF Invalidate, DropSubIndex, QueryFit
<1>7. CASE EvictIdleModules
  BY <1>3, <1>7 DEF EvictIdleModules, diskVars, history
<1>8. ASSUME NEW f \in Files, ChangeFile(f) PROVE QueryFit(t, g)'
  <2>1. Unsettle({f}) /\ UNCHANGED <<goMod, pump, index, build, crossed>>
        /\ events' = events \cup {f} /\ (f # g /\ g \in Files => disk'[g] = disk[g])
        /\ unread' \subseteq unread
    BY <1>8 DEF ChangeFile, Typed
  <2>2. /\ \A u \in Tasks : task'[u].file = task[u].file
        /\ task'[t].pc = task[t].pc /\ task'[t].root = task[t].root /\ task'[t].idx = task[t].idx
        /\ g # f /\ g \in task[t].settled
    BY <1>1, <2>1, UnsettleEffect
  <2>3. g \in Files /\ QueryFit(t, g) /\ disk'[g] = disk[g]
    BY <1>2, <2>1, <2>2
  <2>4. g \notin events' /\ "go.mod" \notin events' /\ \A u \in Updates : g \notin task'[u].file
    BY <2>1, <2>2, <2>3, Constants DEF QueryFit
  <2> QED BY <1>1, <2>1, <2>2, <2>3, <2>4, IndexKept, CoveredKept, QueryKept
<1>9. ASSUME NEW u \in Updates, NEW f \in Files, ObserveFileEvent(f, u) PROVE QueryFit(t, g)'
  <2>1. TaskBegins(u, "root", {f}, {}) /\ u \in Tasks /\ u # t
    BY <1>1, <1>9, ObserveEffect, Constants
  <2>2. UNCHANGED <<disk, goMod, pump, index, build, crossed, unread>> /\ f \in events /\ events' = events \ {f}
    BY <1>9 DEF ObserveFileEvent, history
  <2>3. task'[t] = task[t] /\ g \in Files /\ QueryFit(t, g)
    BY <1>1, <1>2, <2>1 DEF TaskBegins
  <2>4. g \notin events' /\ "go.mod" \notin events' /\ \A v \in Updates : g \notin task'[v].file
    BY <2>1, <2>2, <2>3, Constants DEF QueryFit, TaskBegins
  <2> QED BY <1>1, <2>2, <2>3, <2>4, IndexKept, CoveredKept, QueryKept
<1>10. ASSUME NEW u \in Queries, NEW f \in Files, Query(f, u) PROVE QueryFit(t, g)'
  <2>1. TaskBegins(u, "root", {f}, Settled(f)) /\ u \in Tasks
    BY <1>10, QueryEffect, Constants
  <2>2. UNCHANGED <<disk, goMod, events, pump, index, build, crossed, unread>>
    BY <1>10 DEF Query, diskVars, history
  <2>3. \A v \in Updates : task'[v] = task[v]
    BY <2>1, Constants DEF TaskBegins
  <2>4. CASE u = t
    <3>1. task'[t].pc = "root" /\ task'[t].file = {f} /\ g \in Settled(f)
      BY <2>1, <2>4 DEF TaskBegins
    <3>2. FileOf(t)' = f
      BY <3>1 DEF FileOf
    <3>3. /\ disk[g] = "importing" /\ g \notin events /\ NestedRoot(g) = NestedRoot(f)
          /\ "go.mod" \notin events /\ pump = "idle" /\ \A v \in Updates : g \notin task[v].file
          /\ g \in unread => goMod
      BY <3>1 DEF Settled, NeverWalked, NestedRoot
    <3>4. NestedRoot(g)' = NestedRoot(FileOf(t))'
      BY <2>2, <3>2, <3>3 DEF NestedRoot
    <3> QED BY <2>2, <2>3, <3>1, <3>3, <3>4 DEF QueryFit
  <2>5. CASE u # t
    <3>1. task'[t] = task[t] /\ g \in Files /\ QueryFit(t, g)
      BY <1>1, <1>2, <2>1, <2>5 DEF TaskBegins
    <3>2. g \notin events' /\ "go.mod" \notin events' /\ \A v \in Updates : g \notin task'[v].file
      BY <2>2, <2>3, <3>1 DEF QueryFit
    <3> QED BY <1>1, <2>2, <3>1, <3>2, IndexKept, CoveredKept, QueryKept
  <2> QED BY <2>4, <2>5
<1>11. ASSUME NEW u \in Tasks, TaskStep(u) PROVE QueryFit(t, g)'
  BY <1>11, QueryStepFits, OtherStepFits
<1>12. ASSUME NEW j \in Indexes, BuildStep(j) PROVE QueryFit(t, g)'
  <2>1. UNCHANGED <<disk, goMod, events, pump, task, crossed, unread>>
    BY <1>12 DEF BuildStep, BuildStart, BuildWalk, BuildRead, BuildApply, BuildReady, diskVars, history
  <2>2. g \in Files /\ QueryFit(t, g)
    BY <1>2, <2>1
  <2>3. \A i \in Indexes : Covered(i, g) => Covered(i, g)'
    BY <1>12, <2>2, BuildCovers DEF QueryFit
  <2>4. \A i \in Indexes : build[i].pc = "done" => build'[i].pc = "done"
    <3>1. build[j].pc # "done"
      BY <1>12 DEF BuildStep, BuildStart, BuildWalk, BuildRead, BuildApply, BuildReady
    <3>2. \A i \in Indexes \ {j} : build'[i] = build[i]
      BY <1>12, BuildStartEffect, BuildWalkEffect, BuildReadEffect, BuildApplyEffect, BuildReadyEffect
         DEF BuildStep, BuildIs
    <3> QED BY <3>1, <3>2
  <2> QED BY <1>1, <2>1, <2>2, <2>3, <2>4, QueryKept DEF QueryFit
<1>13. CASE Next
  BY <1>5, <1>6, <1>7, <1>8, <1>9, <1>10, <1>11, <1>12, <1>13, StepCases
<1> QED BY <1>4, <1>13

-----------------------------------------------------------------------------
(* The theorems. *)

LEMMA InitServed == Init => OneReader /\ SubIndexBuilds /\ ServedOK /\ QueriesFit
<1> SUFFICES ASSUME Init PROVE OneReader /\ SubIndexBuilds /\ ServedOK /\ QueriesFit
  OBVIOUS
<1>1. Shaped
  BY InitShaped
<1>2. NoBuild.pc = "none" /\ Started.pc = "start" /\ NoTask.pc = "none" /\ NoTask.settled = {}
  BY DEF NoBuild, Started, NoTask
<1>3. /\ \A t \in Tasks : task[t].pc = "none" /\ task[t].settled = {}
      /\ \A i \in Indexes : build[i].pc # "apply"
      /\ build[Main].pc = "start"
  BY <1>2, Constants DEF Init
<1>4. OneReader
  BY <1>3, Constants DEF OneReader, UpdateHas, BuildHas
<1>5. SubIndexBuilds /\ QueriesFit
  BY <1>3, Constants DEF Init, SubIndexBuilds, QueriesFit
<1>6. \A i \in Indexes, f \in Files : Serves(i, f) => build[i].pc = "start"
  BY <1>3 DEF Init, Serves
<1>7. ServedOK
  BY <1>1, <1>6, StartFits DEF StartOK, ServedOK
<1> QED BY <1>4, <1>5, <1>7

\* The inductive invariant: what an index lacks of a file that it answers for is still
\* to come, whatever the order in which the goroutines of the events, of the queries and
\* of the builds take their steps.
THEOREM ModuleIndexInvariant == Spec => []ModuleIndexInv
<1>1. Init => ModuleIndexInv
  BY InitShaped, InitRoots, InitServed DEF Shaped, ModuleIndexInv
<1>2. ModuleIndexInv /\ [Next]_vars => ModuleIndexInv'
  <2> SUFFICES ASSUME ModuleIndexInv, [Next]_vars PROVE ModuleIndexInv'
    OBVIOUS
  <2>1. Shaped /\ RootsRight /\ OneReader /\ SubIndexBuilds /\ ServedOK /\ QueriesFit
    BY DEF ModuleIndexInv, Shaped
  <2>2. Shaped' /\ RootsRight' /\ OneReader' /\ SubIndexBuilds' /\ ServedOK'
    BY <2>1, StepShaped, RootsPreserved, ReadersPreserved, SubIndexPreserved, ServedPreserved
  <2>3. QueriesFit'
    BY <2>1, <2>2, QueriesPreserved
  <2> QED BY <2>2, <2>3 DEF ModuleIndexInv, Shaped
<1> QED BY <1>1, <1>2, PTL DEF Spec

\* RootCacheCurrent of ModuleIndex: a cached module root is the right one once the go.mod
\* event has been handled (modroot.go's RootFor against invalidateModuleBoundary), unless
\* that event crossed a goroutine between its look at the disk and its store.
THEOREM RootCacheRight == Spec => []RootCacheCurrent
<1>1. ModuleIndexInv => RootCacheCurrent
  BY DEF ModuleIndexInv, RootsRight, Current, RootCacheCurrent
<1> QED BY <1>1, ModuleIndexInvariant, PTL

\* QuerySeesImports of ModuleIndex: a query whose index is ready (WaitReady) finds every
\* import that was on disk and reported when it began, save for two cases: files of a
\* directory that lost its go.mod and that were not reported since, which the main index
\* does not walk, and a root that crossed the last Invalidate.
THEOREM QueriesSeeImports == Spec => []QuerySeesImports
<1>1. ModuleIndexInv => QuerySeesImports
  <2> SUFFICES ASSUME ModuleIndexInv, ~crossed, NEW t \in Tasks, task[t].pc = "closure",
                      NEW g \in task[t].settled
               PROVE  g \in index[task[t].idx].edges
    BY DEF QuerySeesImports
  <2>1. t \in Queries
    BY DEF ModuleIndexInv, TasksShaped, TaskShape, Tasks
  <2>2. QueryFit(t, g)
    BY <2>1 DEF ModuleIndexInv, QueriesFit
  <2>3. Covered(task[t].idx, g) /\ build[task[t].idx].pc = "done"
    BY <2>2 DEF QueryFit
  <2> QED BY <2>3 DEF Covered, ToBuild, BuildHas
<1> QED BY <1>1, ModuleIndexInvariant, PTL

\* SymbolsCurrent of ModuleIndex: when nothing is under way, an index that is ready has
\* the symbols of every file's text (UpdateFile and Build of revindex.go), save for files
\* two goroutines were reading at once and the two cases of QueriesSeeImports.
THEOREM SymbolsFollowDisk == Spec => []SymbolsCurrent
<1>1. ModuleIndexInv => SymbolsCurrent
  <2> SUFFICES ASSUME ModuleIndexInv, Quiet, ~crossed, NEW f \in Files \ raced, ~NeverWalked(f),
                      NEW i, i = IF NestedRoot(f) = "main" THEN Main ELSE subIdx,
                      i # 0, index[i].ready
               PROVE  index[i].symbols[f] = disk[f]
    BY DEF SymbolsCurrent
  <2>1. i \in Indexes
    BY Constants DEF ModuleIndexInv, Typed
  <2>2. Serves(i, f)
    BY DEF Serves, NestedRoot, NeverWalked, Quiet
  <2>3. SymbolsOK(i, f)
    BY <2>1, <2>2 DEF ModuleIndexInv, ServedOK
  <2>4. ~Pending(i, f) /\ \A t \in Updates : ~UpdateHas(t, i, f)
    BY DEF Quiet, Pending, Waits, UpdateHas
  <2>5. ~ToBuild(i, f) /\ ~BuildHas(i, f)
    BY <2>1 DEF ModuleIndexInv, IndexesShaped, IndexShape, ToBuild, BuildHas
  <2> QED BY <2>3, <2>4, <2>5 DEF SymbolsOK
<1> QED BY <1>1, ModuleIndexInvariant, PTL

-----------------------------------------------------------------------------
(* Induction, and what a loop computes. *)

\* Induction over the naturals, with a set in the place of a predicate.
LEMMA Induct ==
    ASSUME NEW S, 0 \in S, \A n \in Nat : n \in S => n + 1 \in S
    PROVE  Nat \subseteq S
<1> SUFFICES ASSUME Nat \ S # {} PROVE FALSE
  OBVIOUS
<1>1. \E x \in Nat \ S : \A y \in Nat \ S : ~(<<y, x>> \in OpToRel(<, Nat))
  BY NatLessThanWellFounded, WFMin, Zenon
<1>2. PICK x \in Nat \ S : \A y \in Nat \ S : ~(y < x)
  BY <1>1 DEF OpToRel
<1>3. x # 0 /\ x - 1 \in Nat /\ x - 1 < x
  OBVIOUS
<1>4. x - 1 \in S
  BY <1>2, <1>3
<1> QED BY <1>2, <1>3, <1>4

\* f holds the values of a loop: first, and then what step makes of the one before.
LoopOf(f, first, step, N) == f = [n \in 0..N |-> IF n = 0 THEN first ELSE step[f[n - 1]]]

\* A loop has a trace: the values that N turns of step give, from first on.
LEMMA LoopTrace ==
    ASSUME NEW X, NEW first \in X, NEW step \in [X -> X], NEW N \in Nat
    PROVE  \E f \in [0..N -> X] : LoopOf(f, first, step, N)
<1> DEFINE Trace(m) == \E f \in [0..m -> X] : f[0] = first /\ \A n \in 1..m : f[n] = step[f[n - 1]]
           S == {m \in Nat : Trace(m)}
<1>1. 0 \in S
  <2> DEFINE g == [n \in 0..0 |-> first]
  <2>1. g \in [0..0 -> X] /\ g[0] = first /\ \A n \in 1..0 : g[n] = step[g[n - 1]]
    OBVIOUS
  <2> HIDE DEF g
  <2>2. Trace(0)
    BY <2>1
  <2> QED BY <2>2
<1>2. ASSUME NEW m \in Nat, m \in S
      PROVE  m + 1 \in S
  <2>1. PICK f \in [0..m -> X] : f[0] = first /\ \A n \in 1..m : f[n] = step[f[n - 1]]
    BY <1>2
  <2> DEFINE g == [n \in 0..m + 1 |-> IF n = m + 1 THEN step[f[m]] ELSE f[n]]
  <2>2. g \in [0..m + 1 -> X]
    BY <2>1
  <2>3. g[0] = first
    BY <2>1
  <2>4. ASSUME NEW n \in 1..m + 1
        PROVE  g[n] = step[g[n - 1]]
    BY <2>1
  <2> HIDE DEF g
  <2>5. Trace(m + 1)
    BY <2>2, <2>3, <2>4
  <2> QED BY <2>5
<1>3. N \in S
  <2> HIDE DEF S
  <2> QED BY <1>1, <1>2, Induct
<1>4. PICK f \in [0..N -> X] : f[0] = first /\ \A n \in 1..N : f[n] = step[f[n - 1]]
  BY <1>3
<1>5. \A n \in 0..N : f[n] = IF n = 0 THEN first ELSE step[f[n - 1]]
  BY <1>4
<1>6. f = [n \in 0..N |-> IF n = 0 THEN first ELSE step[f[n - 1]]]
  BY <1>4, <1>5
<1> QED BY <1>4, <1>6 DEF LoopOf

\* SetToSeq lists every element once.
LEMMA SetToSeqLists ==
    ASSUME NEW S, IsFiniteSet(S)
    PROVE  /\ SetToSeq(S) \in Seq(S) /\ Len(SetToSeq(S)) = Cardinality(S)
           /\ \A x \in S : \E i \in 1..Cardinality(S) : SetToSeq(S)[i] = x
<1> DEFINE c == Cardinality(S)
           q == SetToSeq(S)
<1>1. c \in Nat /\ \E f \in [1..c -> S] : IsInjective(f)
  BY FS_CardinalityType DEF ExistsBijection, Bijection, Injection
<1>2. q \in [1..c -> S] /\ IsInjective(q)
  BY <1>1 DEF SetToSeq
<1>3. q \in Injection(1..c, S)
  BY <1>2 DEF Injection
<1>4. IsFiniteSet(1..c) /\ Cardinality(1..c) = c
  BY <1>1, FS_Interval
<1>5. q \in Surjection(1..c, S)
  BY <1>3, <1>4, FS_Injection
<1> QED BY <1>1, <1>2, <1>5 DEF Surjection

-----------------------------------------------------------------------------
(* The search of ClosureUnits. *)

Searches == [seen : SUBSET Dirs, queue : Seq(Dirs)]

\* What the search has found after n turns: only what reaches relDir; whatever is left
\* to look at is in the queue; and every turn takes one directory out of the queue.
SearchOK(importers, relDir, s, n) ==
    /\ s \in Searches /\ relDir \in s.seen
    /\ \A S \in SUBSET Dirs : relDir \in S /\ Closed(importers, S) => s.seen \subseteq S
    /\ \A i \in 1..Len(s.queue) : s.queue[i] \in s.seen
    /\ \A d \in s.seen : \/ importers[d] \subseteq s.seen
                         \/ \E i \in 1..Len(s.queue) : s.queue[i] = d
    /\ s.queue # <<>> => Cardinality(s.seen) = n + Len(s.queue)

\* The search starts with relDir seen and queued.
LEMMA SearchStart ==
    ASSUME NEW importers \in [Dirs -> SUBSET Dirs], NEW relDir \in Dirs
    PROVE  SearchOK(importers, relDir, [seen |-> {relDir}, queue |-> <<relDir>>], 0)
<1> DEFINE s == [seen |-> {relDir}, queue |-> <<relDir>>]
<1>1. s \in Searches /\ s.seen = {relDir} /\ s.queue = <<relDir>> /\ Len(s.queue) = 1
      /\ s.queue[1] = relDir
  BY DEF Searches
<1>2. Cardinality(s.seen) = 1
  BY <1>1, FS_Singleton
<1> HIDE DEF s
<1>3. SearchOK(importers, relDir, s, 0)
  BY <1>1, <1>2 DEF SearchOK
<1> QED BY <1>3 DEF s

\* A turn keeps the search right, whether the queue is empty or not.
LEMMA SearchTurn ==
    ASSUME NEW importers \in [Dirs -> SUBSET Dirs], NEW relDir \in Dirs, NEW n \in Nat,
           NEW s, SearchOK(importers, relDir, s, n)
    PROVE  SearchOK(importers, relDir, SearchStep(importers, s), n + 1)
<1>1. CASE s.queue = <<>>
  <2>1. SearchStep(importers, s) = s
    BY <1>1 DEF SearchStep
  <2> QED BY <1>1, <2>1 DEF SearchOK
<1>2. CASE s.queue # <<>>
  <2> DEFINE h == Head(s.queue)
             new == importers[h] \ s.seen
             more == SetToSeq(new)
             t == SearchStep(importers, s)
  <2>1. s \in Searches /\ s.seen \subseteq Dirs /\ s.queue \in Seq(Dirs) /\ Len(s.queue) \in Nat \ {0}
    BY <1>2 DEF SearchOK, Searches
  <2>2. h = s.queue[1] /\ h \in s.seen /\ new \subseteq Dirs
    BY <1>2, <2>1 DEF SearchOK
  <2>3. IsFiniteSet(new) /\ IsFiniteSet(s.seen) /\ Cardinality(new) \in Nat /\ Cardinality(s.seen) \in Nat
    BY <2>1, <2>2, IndexAssumption, FS_Subset, FS_CardinalityType
  <2>4. /\ more \in Seq(new) /\ Len(more) = Cardinality(new)
        /\ \A x \in new : \E i \in 1..Len(more) : more[i] = x
        /\ \A i \in 1..Len(more) : more[i] \in new
    <3>1. more \in Seq(new) /\ Len(more) = Cardinality(new)
          /\ \A x \in new : \E i \in 1..Cardinality(new) : more[i] = x
      BY <2>3, SetToSeqLists
    <3> HIDE DEF more, new
    <3> QED BY <3>1, ElementOfSeq
  <2>5. t.seen = s.seen \cup new /\ t.queue = Tail(s.queue) \o more /\ t = [seen |-> t.seen, queue |-> t.queue]
    BY <1>2 DEF SearchStep
  <2> HIDE DEF h, new, more, t
  <2>6. /\ Tail(s.queue) \in Seq(Dirs) /\ Len(Tail(s.queue)) = Len(s.queue) - 1
        /\ \A i \in 1..Len(s.queue) - 1 : Tail(s.queue)[i] = s.queue[i + 1]
    BY <1>2, <2>1, HeadTailProperties
  <2>7. more \in Seq(Dirs)
    BY <2>2, <2>4, SeqMonotonic
  <2>8. /\ Len(s.queue) \in Nat /\ Len(more) \in Nat /\ Len(s.queue) >= 1
        /\ t.queue \in Seq(Dirs) /\ Len(t.queue) = Len(s.queue) - 1 + Len(more)
        /\ \A i \in 1..Len(s.queue) - 1 : t.queue[i] = s.queue[i + 1]
        /\ \A i \in 1..Len(more) : t.queue[Len(s.queue) - 1 + i] = more[i]
    <3> DEFINE u == Tail(s.queue)
    <3>1. Len(s.queue) \in Nat /\ Len(more) \in Nat /\ Len(s.queue) >= 1
      BY <2>1, <2>7
    <3>2. u \in Seq(Dirs) /\ Len(u) = Len(s.queue) - 1
      BY <2>6
    <3>3. \A i \in 1..Len(u) : u[i] = s.queue[i + 1]
      BY <2>6
    <3>4. t.queue = u \o more
      BY <2>5
    <3> HIDE DEF u
    <3>5. t.queue \in Seq(Dirs) /\ Len(t.queue) = Len(u) + Len(more)
      BY <2>7, <3>2, <3>4
    <3>6. \A i \in 1..Len(u) : t.queue[i] = u[i]
      BY <2>7, <3>2, <3>4
    <3>7. \A i \in 1..Len(more) : t.queue[Len(u) + i] = more[i]
      BY <2>7, <3>1, <3>2, <3>4
    <3> QED BY <3>1, <3>2, <3>3, <3>5, <3>6, <3>7
  <2> DEFINE L == Len(s.queue)
             M == Len(more)
             K == Len(t.queue)
  <2>15. L \in Nat /\ M \in Nat /\ K \in Nat /\ L >= 1 /\ K = L - 1 + M
    BY <2>8
  <2>16. /\ \A i \in 1..L - 1 : t.queue[i] = s.queue[i + 1]
         /\ \A i \in 1..M : t.queue[L - 1 + i] = more[i]
    BY <2>8
  <2> HIDE DEF L, M, K
  <2>9. t \in Searches /\ relDir \in t.seen
    BY <2>1, <2>2, <2>5, <2>8 DEF SearchOK, Searches
  <2>10. ASSUME NEW S \in SUBSET Dirs, relDir \in S, Closed(importers, S)
         PROVE  t.seen \subseteq S
    <3>1. s.seen \subseteq S
      BY <2>10 DEF SearchOK
    <3>2. importers[h] \subseteq S
      BY <2>2, <2>10, <3>1 DEF Closed
    <3> QED BY <2>5, <3>1, <3>2 DEF new
  <2>11. ASSUME NEW i \in 1..K
         PROVE  t.queue[i] \in t.seen
    <3>1. CASE i \in 1..L - 1
      <4>1. t.queue[i] = s.queue[i + 1] /\ i + 1 \in 1..L
        BY <2>15, <2>16, <3>1
      <4>2. s.queue[i + 1] \in s.seen
        BY <4>1 DEF SearchOK, L
      <4> QED BY <2>5, <4>1, <4>2
    <3>2. CASE i - (L - 1) \in 1..M
      <4>1. t.queue[L - 1 + (i - (L - 1))] = more[i - (L - 1)]
        BY <2>16, <3>2
      <4>2. L - 1 + (i - (L - 1)) = i
        BY <2>15
      <4>3. more[i - (L - 1)] \in new
        BY <2>4, <3>2 DEF M
      <4> QED BY <2>5, <4>1, <4>2, <4>3
    <3>3. i \in 1..L - 1 \/ i - (L - 1) \in 1..M
      BY <2>15
    <3> QED BY <3>1, <3>2, <3>3
  <2>12. ASSUME NEW d \in t.seen
         PROVE  importers[d] \subseteq t.seen \/ \E i \in 1..K : t.queue[i] = d
    <3>1. CASE d = h
      BY <2>5, <3>1 DEF new
    <3>2. CASE d \in s.seen /\ d # h
      <4>1. CASE importers[d] \subseteq s.seen
        BY <2>5, <4>1
      <4>2. CASE \E i \in 1..L : s.queue[i] = d
        <5>1. PICK i \in 1..L : s.queue[i] = d
          BY <4>2
        <5>2. i # 1 /\ i - 1 \in 1..L - 1 /\ i - 1 \in 1..K
          BY <2>2, <2>15, <3>2, <5>1
        <5>3. t.queue[i - 1] = s.queue[(i - 1) + 1]
          BY <2>16, <5>2
        <5> QED BY <2>15, <5>1, <5>2, <5>3
      <4> QED BY <3>2, <4>1, <4>2 DEF SearchOK, L
    <3>3. CASE d \in new
      <4>1. PICK i \in 1..M : more[i] = d
        BY <2>4, <3>3 DEF M
      <4>2. L - 1 + i \in 1..K
        BY <2>15
      <4> QED BY <2>16, <4>1, <4>2
    <3> QED BY <2>5, <3>1, <3>2, <3>3
  <2>13. Cardinality(t.seen) = (n + 1) + K
    <3>1. s.seen \cap new = {}
      BY DEF new
    <3>2. Cardinality(t.seen) = Cardinality(s.seen) + Cardinality(new) - Cardinality({})
      BY <2>3, <2>5, <3>1, FS_Union
    <3>3. Cardinality({}) = 0
      BY FS_EmptySet
    <3>4. Cardinality(s.seen) = n + L
      BY <1>2 DEF SearchOK, L
    <3>5. Cardinality(new) = M
      BY <2>4 DEF M
    <3> QED BY <2>15, <3>2, <3>3, <3>4, <3>5
  <2>14. SearchOK(importers, relDir, t, n + 1)
    BY <2>9, <2>10, <2>11, <2>12, <2>13 DEF SearchOK, K
  <2> QED BY <2>14 DEF t
<1> QED BY <1>1, <1>2

\* What a search is: the definition of search in ClosureUnits.
SearchOf(f, importers, first, N) ==
    f = [n \in 0..N |-> IF n = 0 THEN first ELSE SearchStep(importers, f[n - 1])]

\* The values of a search, one by one.
LEMMA SearchValues ==
    ASSUME NEW importers, NEW first, NEW N \in Nat, NEW f, SearchOf(f, importers, first, N)
    PROVE  f[0] = first /\ \A n \in 1..N : f[n] = SearchStep(importers, f[n - 1])
BY DEF SearchOf

\* ClosureUnits has looked at everything after as many turns as there are directories, for
\* each takes one that was never queued before; and then what it has seen is closed.
LEMMA SearchFinds ==
    ASSUME NEW importers \in [Dirs -> SUBSET Dirs], NEW relDir \in Dirs
    PROVE  ClosureUnits(importers, relDir) =
               {scopeUnit(d, Granularity) : d \in Reaching(importers, relDir)}
<1> DEFINE N == Cardinality(Dirs)
           first == [seen |-> {relDir}, queue |-> <<relDir>>]
           search == CHOOSE f : SearchOf(f, importers, first, N)
<1>1. N \in Nat
  BY IndexAssumption, FS_CardinalityType
<1>2. \E f : SearchOf(f, importers, first, N)
  <2> DEFINE States == {s \in Searches : \E n \in Nat : SearchOK(importers, relDir, s, n)}
             step == [s \in States |-> SearchStep(importers, s)]
  <2>1. first \in States
    BY SearchStart DEF SearchOK
  <2>2. \A s \in States : SearchStep(importers, s) \in States
    <3> SUFFICES ASSUME NEW s \in States PROVE SearchStep(importers, s) \in States
      OBVIOUS
    <3>1. PICK n \in Nat : SearchOK(importers, relDir, s, n)
      OBVIOUS
    <3>2. SearchOK(importers, relDir, SearchStep(importers, s), n + 1)
      BY <3>1, SearchTurn
    <3>3. SearchStep(importers, s) \in Searches /\ n + 1 \in Nat
      BY <3>2 DEF SearchOK
    <3> QED BY <3>2, <3>3
  <2>3. step \in [States -> States]
    BY <2>2
  <2>4. \A s \in States : step[s] = SearchStep(importers, s)
    OBVIOUS
  <2> HIDE DEF States, step, first, N
  <2>5. PICK f \in [0..N -> States] : LoopOf(f, first, step, N)
    BY <1>1, <2>1, <2>3, LoopTrace
  <2>6. ASSUME NEW n \in 0..N, n # 0
        PROVE  step[f[n - 1]] = SearchStep(importers, f[n - 1])
    <3>1. n - 1 \in 0..N
      BY <1>1, <2>6
    <3>2. f[n - 1] \in States
      BY <2>5, <3>1
    <3> QED BY <2>4, <3>2
  <2>7. f = [n \in 0..N |-> IF n = 0 THEN first ELSE SearchStep(importers, f[n - 1])]
    BY <2>5, <2>6 DEF LoopOf
  <2> QED BY <2>7 DEF SearchOf
<1>3. SearchOf(search, importers, first, N)
  BY <1>2
<1>4. ClosureUnits(importers, relDir) = {scopeUnit(d, Granularity) : d \in search[N].seen}
  BY DEF ClosureUnits, SearchOf
<1> HIDE DEF search
<1> HIDE DEF first, N
<1>5. search[0] = first /\ \A n \in 1..N : search[n] = SearchStep(importers, search[n - 1])
  BY <1>1, <1>3, SearchValues
<1>6. SearchOK(importers, relDir, search[N], N)
  <2> DEFINE S == {n \in Nat : n \in 0..N => SearchOK(importers, relDir, search[n], n)}
  <2>1. 0 \in S
    BY <1>5, SearchStart DEF first
  <2>2. ASSUME NEW n \in Nat, n \in S
        PROVE  n + 1 \in S
    <3> SUFFICES ASSUME n + 1 \in 0..N PROVE SearchOK(importers, relDir, search[n + 1], n + 1)
      OBVIOUS
    <3>1. SearchOK(importers, relDir, search[n], n)
      BY <1>1, <2>2
    <3>2. search[n + 1] = SearchStep(importers, search[n])
      BY <1>1, <1>5
    <3> QED BY <3>1, <3>2, SearchTurn
  <2> HIDE DEF S
  <2>3. N \in S
    BY <1>1, <2>1, <2>2, Induct
  <2> QED BY <1>1, <2>3 DEF S
<1> DEFINE seen == search[N].seen
<1>7. seen \subseteq Dirs /\ relDir \in seen
  BY <1>6 DEF SearchOK, Searches
<1>8. search[N].queue = <<>>
  <2> SUFFICES ASSUME search[N].queue # <<>> PROVE FALSE
    OBVIOUS
  <2>1. search[N].queue \in Seq(Dirs) /\ Len(search[N].queue) \in Nat \ {0}
    BY <1>6 DEF SearchOK, Searches
  <2>2. Cardinality(seen) = N + Len(search[N].queue)
    BY <1>6 DEF SearchOK
  <2>3. Cardinality(seen) <= N
    BY <1>7, IndexAssumption, FS_Subset DEF N
  <2> QED BY <1>1, <2>1, <2>2, <2>3
<1>9. Closed(importers, seen)
  BY <1>6, <1>8 DEF SearchOK, Closed
<1>10. seen = Reaching(importers, relDir)
  <2>1. \A d \in Reaching(importers, relDir) : d \in seen
    BY <1>7, <1>9 DEF Reaching
  <2>2. \A d \in seen : d \in Reaching(importers, relDir)
    BY <1>6, <1>7 DEF Reaching, SearchOK
  <2> QED BY <1>7, <2>1, <2>2 DEF Reaching
<1> QED BY <1>4, <1>10

\* ClosureUnits returns the units of exactly the directories that reach relDir through
\* imports, whatever imports what, cycles included, for any finite number of directories.
THEOREM ClosureReached == Spec => []ClosureReaches
<1>1. ClosureReaches
  BY SearchFinds DEF ClosureReaches
<1> QED BY <1>1, PTL
=============================================================================
