# gopls-lazy: a TLA+ model of the proxy

gopls-lazy sits between an editor and `gopls` in a large Go repository. It keeps
the interactive gopls's view narrow (a *scope* of directories that grows as files
are opened and shrinks when they are idle), serves gopls's package queries from a
cached package graph, and answers whole-workspace queries from an isolated second
gopls. Everything below refers to the Go files under `src/`.

## 1. The system

| Part | State it keeps | Operations |
|---|---|---|
| Scope and configuration-generation barrier (`scope.go`, parts of `proxy.go`, `resolve.go`) | `proxy.scope` (unit -> open files, `lastActive`, `gen`), `scopeGen`, `appliedGen`, `pendingDiag`, the debounce timer, pending configuration pulls and the generation each was made under | `patchInitialize`, `observeOpen`/`observeClose`, `onDiagnostics`/`diagArrived`, `pushScope`, `handleClientResponse` with `patchConfigResponse` and `advanceApplied`, `armAppliedFallback`, `awaitApplied`, `evictIdleUnits`, `publishUnitsAndForward` |
| Held definition, prepareRename, hover and inlayHint requests (`proxy.go`, `scope.go`) | `heldDefs`: held requests per document, a `sync.Once` each | `holdForRequestUnit`, `registerHeldDef`, `unregisterHeldDef`, `releaseHeldDefs`, `awaitUnitApplied` |
| Isolated worker (`worker.go`) | `workerHandle`: client, restart generation, ready channel, reservations, idle timer; `workerClient`: process, pending table | `ensureStarted`, `acquire`/`release`, `request`, `initWorker`, `onExit`, `failPending`, `evictIfIdle`, `shutdown` |
| Worker mirror (`worker.go`, `proxy.go`) | `pendingObs`, `workerConfig`, what the worker was told | `observeWorker`, `observe`, `mirror`, `replayLiveLocked`, `respondToServerRequest` |
| Package-graph cache and driver server (`graph.go`) | one slot for the main module, one per nested module (response, key, directory, `stale`, `building`, timer); the cache file | `answerSlot`, `answerNestedSlot`, `buildSlot`, `markSlotStale`, `loadDiskCache`, `saveDiskCache`, `setRoot`, `removeSlot` |
| Cross-reference resolution (`resolve.go`) | `pendingOwn`: the proxy's own outstanding definition requests, the single-flight table | `interceptCrossRef`, `resolveAndExpand`, `askDefinition`, `isMethodDecl`, `serveViaWorker` |
| Reverse-import index (`revindex.go`) and workspace symbols (`symbols.go`) | one index for the main module and one per nested module: imports and importers per package, symbols per file, `ready` | `Build`, `UpdateFile`, `WaitReady`, `ClosureUnits`, `indexFor`, symbol search and merge |
| Open documents (`documents.go`) | text and version per uri | `trackOpenDoc`, `trackDidChange`, `applyContentChanges` |
| Module-root cache (`modroot.go`) | directory -> module root | `RootFor`, `Invalidate` |
| Scope persistence (`scope.go`) | the scope file | `saveScope`, `restoreScope` |
| Message pumps, framing, command line, driver client (`proxy.go`, `lsp.go`, `main.go`, `driver.go`) | none of their own | input and output |

**How they interact.** Two loops, `pumpClient` (editor to gopls) and `pumpServer`
(gopls to editor), handle one message at a time each. They share `proxy.mu` with
timer callbacks, the eviction loop and one goroutine per cross-reference request.
The graph server answers driver connections from gopls concurrently under its own
mutex and receives file events from `pumpClient`; the worker handle is called from
request goroutines and from the goroutines of its own process.

**What is hard.** The barrier relates four asynchronous parties: who publishes a
scope, gopls which pulls its configuration later, the editor which answers in any
order or never, and the request that waits. The worker's process may die between
any two steps, and a late callback of one generation may meet the state of the
next. The graph cache may be asked, invalidated, rebuilt, evicted, saved by
another worktree and reloaded in any order. What makes each part correct:

* barrier: a request is let through only when gopls's view contains the units the
  request needs; nothing is held for ever; an open file's unit stays in scope;
* worker: reservations balance, no waiter is forgotten, every process has somebody who
  stops it, an idle worker goes away, a used one does not;
* graph cache: a served graph is for the asking checkout and module; one build at a
  time per slot; an outdated graph is refreshed;
* held requests: each reaches gopls once, before any later edit of its document;
* worker mirror and documents: the worker has the editor's documents and settings,
  and a tracked text is the editor's text;
* cross-references: one outcome per request, and no rename of a method that covers
  only part of the workspace;
* index and module roots: a query sees the imports reported before it;
* scope file: a session starts with one scope of the past or none.

`PROJECT.json` lists the hazards with their source lines, and the properties that
would catch each one.

## 2. Modules

| Module | Models | Extends |
|---|---|---|
| `ScopeUnits` | abstract: what the barrier shows of single units | |
| `ScopeBarrier` | scope and barrier; implements `ScopeUnits` | |
| `MCScopeBarrier` | the small sets the runs use (unit maps, closures) | `ScopeBarrier` |
| `ScopeBarrierProofs` | theorems | `ScopeBarrier`, `TLAPS` |
| `WorkerLifecycle` | one `workerHandle` and its processes | |
| `WorkerLifecycleProofs` | theorems | `WorkerLifecycle`, `TLAPS` |
| `GraphSlot` | main slot, one nested module's slots, cache file | |
| `GraphSlotProofs` | theorems | `GraphSlot`, `TLAPS` |
| `InOrderDelivery` | abstract: what holding a request promises | |
| `HeldRequests` | held requests over `ScopeUnits`; implements `InOrderDelivery` | |
| `MCHeldRequests` | two requests for one document | `HeldRequests` |
| `HeldRequestsProofs` | theorems | `HeldRequests`, `TLAPS` |
| `Documents` | incremental edits as operators | |
| `WorkerMirror` | tracked documents and what a worker is told | `Documents` |
| `MCWorkerMirror` | the texts edits insert | `WorkerMirror` |
| `WorkerMirrorProofs` | theorems | `WorkerMirror`, `TLAPS` |
| `CrossRef` | resolution of cross-reference requests | |
| `MCCrossRef` | four symbols and the queries about them | `CrossRef` |
| `CrossRefProofs` | theorems | `CrossRef`, `TLAPS` |
| `ModuleIndex` | reverse-import indexes, module-root cache | |
| `MCModuleIndex` | three directories, symmetry of goroutines | `ModuleIndex` |
| `ModuleIndexProofs` | theorems | `ModuleIndex`, `TLAPS` |
| `ScopePersistence` | the scope file | |
| `MCScopePersistence` | symmetry of savers | `ScopePersistence` |
| `ScopePersistenceProofs` | theorems | `ScopePersistence`, `TLAPS` |

The map from each definition to its source lines is in `PROJECT.json`.
Definitions with names such as `RetargetDirOnly` or `ConfigurationPullAnyMethod`,
marked "Mutant" in their comment, are wrong variants of the definition that
follows them; no specification uses them. Each shows that a property is sensitive
to that mistake.

### ScopeBarrier

One action is one critical section of `proxy.mu` or one write to gopls.
`gen[u]` is `scopeEntry.gen` (0: not yet published), `idle[u]` abstracts
`lastActive` older than the TTL; `pusher[c]` is where caller `c` is inside
`pushScope`, which stamps under the lock and writes after releasing it; `pulls` is
`configIDs`/`configGens`; `client` is `pumpClient` between the three steps of
`handleClientResponse` (patch under the lock, write, advance); `view` is what the
last filters written to gopls let it load. A response written by the proxy reaches
gopls in order, so `view` changes at the write. `deliveredGen` and `forcedGen` are
history variables: they say whether `appliedGen` rests on a delivered response or
on a fallback timer. The workspace root as a unit (`"."`) is modelled because
`filtersLocked` then writes no filter at all. Fallback timers whose generation is
already applied do nothing in the code and are dropped from the state. gopls (pulls
once per `didChangeConfiguration` it reads) and the editor (answers in any order,
with an error, or never) are external.

`ScopeUnits` is what the rest of the proxy may know of all this: a unit has no entry, a
pending or an applied one (`UnitState`). `UnitsAsShown` says that from the step that
handles initialize on, the barrier changes the units only in its ways.

### WorkerLifecycle

One action is one critical section of `workerHandle.mu` or `workerClient.mu`, or
one wake-up of a `select`. Per-generation state is a function of the restart
generation, so late callbacks of an old process act on their own generation and
on whatever the handle holds by then. `evictIfIdle` is two actions, its check and
its `shutdown`, because it unlocks in between. `readLoop` ends at the first frame it
cannot read: because the process is dead, or because of a bad header while it still
runs; `FailPending` and `OnExit` follow in both cases. Channel closes are the `ready`
function. `workerTTL` is positive (with 0 no timer is ever armed).

### GraphSlot

One action is one critical section of `graphServer.mu`; `packages.Load` reads the
disk in an action of its own, so an edit may fall before or after it. A graph is
its key, the checkout its paths name and the version of the metadata that was
read (-1: retargeted from another checkout). `answerNestedSlot` is split at each
unlock (`NestedRead`, `NestedRefresh`, `NestedClaim`, `NestedReread`). `Restart`
ends the session and keeps the disk and the cache file. A save replaces the file, fails,
or (`SaveTorn`) overlaps one of another proxy on the shared temporary name and leaves a
file that cannot be decoded. A file event marks its slot (`MarkStaleFor`) or does not,
because `UpdateFile` saw no change (`UpdateUnchanged`); the index's state is not in this
module, so either may happen to any event. `missed` is a history variable: a file event
met a build in flight, an event was not taken for a change, or a build failed.

### HeldRequests and InOrderDelivery

`InOrderDelivery` is what an editor may expect of a proxy that delays requests: each
issued request is delivered exactly once, and an edit of a document is delivered only
when no request for it is outstanding. It says nothing of goroutines. `HeldRequests`
has the same five variables (what gopls received) and the machinery behind them:
`heldDefs`, pumpClient between two steps of one message, the waiter goroutine and the
`sync.Once` of each request. The second caller of a `Once` returns only after the
first one's write, which is why a `didChange` cannot overtake a waiter that has begun
to forward; `ReleaseAwaits` is that wait. The barrier is its interface, `ScopeUnits`: the session
may start with applied units (the restored scope), opening a Go document enters its unit,
cross-references enter others, and units are applied and evicted in sets, as one advance
of `appliedGen` or one sweep does. A document that is not a Go file has requests held
like any other but neither enters its unit nor keeps it. The
refinement maps each variable to the one of the same name. Opening and closing are
not ordered with held requests in the code, and so are not in `InOrderDelivery`.

### WorkerMirror and Documents

pumpClient tracks a message under `proxy.mu` and then calls `observe`, two steps; the
replay holds `workerHandle.mu` from its snapshot of the open documents until the
worker is ready, so that `observe` waits meanwhile. A buffered note may therefore be
of a document that the snapshot already has in a later state; `Mirror` is what the
worker makes of such a note (a second didOpen, a change of a closed document). A
tracked text is a number here. What an edit does to a text is `Documents`:
`applyContentChanges` and the arithmetic from UTF-16 positions to offsets, over texts
of narrow runes, wide runes (surrogate pairs) and line breaks.

### CrossRef

The goroutine of `resolveAndExpand` from the interception to one of its ends, with
the definition it asks for (twice, under two ids, each with a timeout), the answers
that pumpServer hands over or, if nobody waits any more, passes on, the decision
between closure and worker, the shared worker calls, and a panic in the decision.
The order of the early returns is the code's. The barrier and the worker only
answer, fail or time out here: `ScopeBarrier` and `WorkerLifecycle` say how. What is
at a position (`Symbol`) is a constant: its module, whether it is a method, and whether
its file on disk is clean, differs from the editor's text or is broken (unreadable, or
with a syntax error). `isMethodDecl` is right about a clean file, says no of a broken one
and anything of an unsaved one.

### ModuleIndex

The disk, the file events not yet sent, pumpClient's two steps for a go.mod event
(`Invalidate`, `DropSubIndex`), one goroutine per file event or query, and one build
per index. Each of them looks at the disk in one step and stores in another. There
is one nested directory, a module of its own while it has a go.mod. An edge is the
file it comes from, as all files may import one package. Three history variables name
what the code misses: `unread`, the nested files that have not changed since their go.mod
was removed and that event was handled; `crossed`, set if the last `Invalidate` fell
between a goroutine's look at the disk and its store; `raced`, the files two goroutines
have read at once. `ClosureUnits` is an
operator, compared with `Reaching`, the least set that has the defining directory and,
with a directory, its importers; each turn of its queue loop is a `SearchStep`.

### ScopePersistence

`saveScope` is a goroutine per publication: snapshot, open with truncation, write,
rename, all on one temporary name. The file system is a set of inodes, so that a
writer whose file was renamed away writes into the final file. Any system call may
fail and `Restart` may fall between any two. `saveScope` ignores its errors, so a
failed one only ends the goroutine.

## 3. Runs

| Run | Expect | What it shows |
|---|---|---|
| `scope_evict` | pass | with eviction and the root unit: a confirmed unit is in gopls's view (`DeliveredUnitsInView`), an open Go file's unit is not evicted (`OpenFilesInScope`), and `appliedGen` is delivered or forced (`AppliedIsDelivered`; the editor does not answer with errors) |
| `scope_crossref` | pass | no eviction, the editor may hang or answer with errors: what is seen of a unit changes only as `ScopeUnits` says, so no late answer makes an applied unit pending again (`UnitsAsShown`), a released request sees its closure (`CrossRefSeesClosure`), an unpublished entry has a trigger (`UnpublishedHasTrigger`), no short timer forces the barrier while a pull is unanswered (`NoForceWhilePullPending`); `EventuallyPublished` and `BarrierCatchesUp` although nobody external is assumed to answer |
| `scope_evicted_closure` | violation | with eviction on, `CrossRefSeesClosure` fails: a sweep drops an idle unit of a waiting request's closure |
| `worker_all` | pass | `HoldsCountHolders`, `WaiterHasWaker`, `NoOrphanProcess` (but for a process whose output `readLoop` gave up reading), `IdleWorkerHasTimer`; liveness `LoadingEnds`, `IdleWorkerStops` |
| `worker_held_eviction` | violation | a request reserves the worker between `evictIfIdle`'s check and `shutdown` |
| `graph_main` | pass | two worktrees, two sessions, one cache file: `OneBuildPerSlot`, `AnswerIsForQuery`, `OutdatedHasTrigger` (but for the three misses it names) |
| `graph_nested` | pass | `StaleRefreshed`, with a nested slot that is dropped and re-created |
| `held` | pass | `HeldRequests` implements `InOrderDelivery`, its liveness included (`InOrder`); a `didChange` can still find what gopls has not received (`UnsentReachable`); goroutines end and leave nothing (`HeldRequestsEnd`); the pump is not blocked for good (`PumpFree`) |
| `mirror` | pass | a live worker has the documents (`WorkerSeesDocuments`), watched-file events and settings (`WorkerSeesWorkspace`) of the editor, whatever came while it loaded, replayed or restarted; two-change batches on all short texts give the editor's text (`EditsAgree`) |
| `crossref` | pass | one outcome per request (`OneOutcome`, `EventuallyServed`), whole renames of methods in clean files (`MethodRenameWhole`), the proxy's own answers reach who waits (`OwnAnswersStay`), a shared worker call answers the same question and was still running (`SharedAnswerFits`) |
| `module_index` | pass | a query finds the imports of every file that was walked or reported before it (`QuerySeesImports`), roots and symbols follow the disk (`RootCacheCurrent`, `SymbolsCurrent`), each but for the cases `unread`, `crossed` and `raced` name, `ClosureUnits` is reachability (`ClosureReaches`) |
| `scope_saves` | pass | without overlap the file is the last finished save at every moment (`ScopeFileWhole`); with it a session still starts with one scope or none (`RestoresOneScope`) |

The two violations are the findings of `PROJECT.json`: each quotes the comment in
the source that the code's behaviour contradicts, and the corresponding passing run
checks the weaker statement that the code does keep.

**Bounds.** `GenBound` stops new opens, new requests and new idle periods after 3
or 4 generations; three are enough for an entry to be published, evicted, created
again and published once more while an answer to the first pull is still under
way. Two files, two units and one request give every relation between a file's
unit, a request's unit and the rest; one request suffices because requests meet
only through the scope, which the files also change. Two pull ids let answers
arrive out of order. `MaxGen = 2` lets every callback of a dead worker meet its
successor; two requests let one hold the worker while the other comes or goes.
`MaxChange` 1 or 2 and `MaxSession` 2 let a change fall before, within and after
a build, and a cache file of one worktree be loaded in the other.

`held`: two requests for one Go document, which is edited twice and opened twice, so
that a release meets one waiter before and one after its write, and a request
outlives its session. `mirror`: three documents, two of them the worker's; two
worker processes, three buffered notes (open, change, close of one document during a
load), one settings change, one watched-file event; edits on texts of up to three
runes, enough for a surrogate pair with a line break on either side. `crossref`: two
requests, which may be identical and share a call or not, and six queries over a
method, a function in an unsaved file, a library symbol and a method in a file with a
syntax error. `module_index`: one file, in the nested directory,
two event goroutines, one query, two changes, and three indexes, so that a nested
index is dropped and another built while goroutines still use the first; a second
file would add no interaction, as goroutines meet only on the same file or through
the root cache. `scope_saves`: two units and two savers, the least that can overlap,
with a restart at any point; the savers are interchangeable, so their permutations are a
symmetry.

The theorems of section 5 have none of these bounds on sets; `GenBound`, `MaxGen`,
`MaxChange`, `MaxSession` and `MaxVersion` are arbitrary naturals there (`MaxIdx` a
positive one: the main module has an index). Of the other constants, the proofs about
the closure assume that the directories are finitely many, and those about edits that
inserted texts are sequences of runes. The savers of `ScopePersistence` and the
requests of `WorkerLifecycle` are any finite set.

All runs switch deadlock checking off: the proxy is reactive, and once the editor
stops acting within a bound nothing needs to happen. What must still happen is
stated as liveness.

## 4. Fairness

* `ScopeBarrier`: timers fire (the three-second diagnostics timer, the debounce
  timer, the fallback timers) and running goroutines go on. Neither gopls nor the
  editor has fairness: pulls and answers may never come.
* `WorkerLifecycle`: goroutines go on, the idle timer fires, the `initialize` call
  ends within its own timeout, a process told to stop ends (`kill` after the
  grace period), and the stream of a dead process ends, so that `readLoop` returns. A
  frame that cannot be read while the process lives is possible, never assumed. The request and loading budgets have none, so `LoadingEnds` does
  not rest on them, and the worker is never assumed to answer.
* `GraphSlot`: builds end (`go list` terminates, well or badly) and armed debounce
  timers fire. Queries, saves, file events and the revalidation have none.
* `HeldRequests`: pumpClient and the waiter goroutines go on, and a waiter's timeout
  ends its wait. Neither the editor nor the barrier has fairness: a unit may stay
  pending for ever.
* `CrossRef`: goroutines go on, their timers fire, and a worker call ends within its
  budget, well or badly. gopls is not assumed to answer.
* `WorkerMirror`, `ModuleIndex` and `ScopePersistence` are safety only.

## 5. Proofs

Every theorem is for arbitrary sets and bounds satisfying the modules' `ASSUME`s.

* **Barrier.** `DeliveredUnitsInView` is not inductive: a response on its way must
  already carry the units it will confirm. `BarrierInv` adds that no stamp, pull or
  response is ahead of `scopeGen` and that an entry outside the scope has generation
  0 (`GenerationsStamped`), that nothing moves before initialize
  (`QuietBeforeInitialize`), and that filters under way contain every unit that
  they or an earlier response confirm (`FiltersCover`). The key step is that an
  entry created after the filters were computed has generation 0 or a later one than
  the response's. Theorems: `TypeCorrect`, `BarrierHolds`, `TriggerHolds`,
  `OpenFilesHold`; `ClosureHolds` under `~EvictEnabled` (with `NeedsPublished`: what
  a request needs stays in scope, stamped no later than what it awaits), and
  `AppliedHolds` under `~EditorErrors` (with `ResponsePatched`). The two hypotheses
  are exactly what the violated runs drop.
* **Worker.** `LifecycleInv`: only the current generation can be live or loading,
  earlier ones are finalized, later ones do not exist (`GenerationsInOrder`), only
  waiting requests are registered (`PendingSent`), reservations are counted by
  `Cardinality`. From it: `ReservationsCounted`, `WaitersWoken`, `ProcessesOwned`,
  `IdleWorkersTimed`, for any finite set of requests and any number of restarts.
  `ProcessesOwned` makes one exception: a process whose `readLoop` has ended. For it the
  invariant says nothing, since after `onExit` nothing refers to it.
* **Graph cache.** `CacheSound`: a slot's key and directory describe its graph, builds
  work on the module of their slot, saved graphs carry their own key and directory,
  and nested queries capture only nested graphs. With `TypeOK` and `OneBuildPerSlot`
  it is inductive; from it `CacheTypes`, `SingleBuild`, `AnswersFit`.

* **Held requests.** `HeldInv`: besides types, what pumpClient is doing fits the
  state of what it does it with (`PumpSound`), every registered request has its
  goroutine (`HeldSound`), the `sync.Once` says who is writing and whether gopls has
  received the request (`OnceSound`), and `UnsentReachable`. The last is what makes
  the refinement go through: when `releaseHeldDefs` has emptied its list and every
  `Once` has returned, nothing of the document is outstanding, so the edit is a step
  the abstract specification allows. Theorems: `HeldInvariant`, `HeldTypes`,
  `UnsentFound`, `HeldImplementsInOrder` (initial states and steps; the fairness of
  the abstract specification is left to TLC) and from it `PositionsFit`: a request
  delivered in its session is resolved in the text it was issued for.

* **The fallback timer** (barrier). That the short timer never overtakes a pending pull
  rests on `PullsSeen`: the flag that disarms it is set with the first pull and never
  reset. `NoForce` is the action property that follows.
* **The barrier and those who rely on it.** `BarrierImplementsUnits` proves
  `UnitsAsShown`, step by step: opening a Go file is `Open`, `ensureUnitsLocked` is
  `Enter`, every move of `appliedGen` is `Apply`, the sweep is `Evict`, and all else
  leaves the units as they look. The delicate step is `pushScope`: it stamps entries that
  look pending, and they must look pending afterwards, so the new generation must not be
  applied yet. That needs `AppliedBehind`: `appliedGen`, and whatever may still become
  `appliedGen` (timers, pushers; pulls and responses are in `BarrierInv`), is not ahead
  of `scopeGen`. The sweep is `Evict` by `OpenFilesInScope`. `BarrierAsAssumed` is the
  other half: the units of `HeldRequests` follow `ScopeUnits`. So the theorems about held
  requests assume of the barrier only what the barrier is proved to do.
* **Worker, graph cache: the rest.** `LifecycleTypes` is `TypeOK` of `WorkerLifecycle`.
  `CacheFollows` (`OutdatedHasTrigger`) needs, beyond `CacheInv`, that a proxy
  works for one checkout at a time and a session that has none does nothing (`SessionsApart`) and that a build which has read an old
  version has the change's file event still to come, or is recorded as missed
  (`BuildsFresh`); an event that `UpdateFile` does not take for a change leaves the slot as
  it is, so it must be recorded unless a rebuild is still to start (`UnchangedFollows`):
  otherwise a build could end and leave an old graph without a trigger.
* **Cross-references.** `CrossRefInv`: a request whose worker call has begun is past the
  decision, so that its method, params and module no longer change (`CallsLate`); who
  waits in a flight waits for a call that has begun and was not over when it was issued
  (`FlightsBegun`); a rename that must be whole is on no path that ends in the narrow
  view (`RenameRouted`). The last is what `MethodRenameWhole` lacks: it only speaks of
  the forwarding itself, while the route is chosen several steps earlier and a failing
  worker may change it. Theorems: `RequestsHaveOneOutcome`,
  `MethodRenamesWhole` (for methods in clean files), `OwnAnswersReachAsker`,
  `SharedAnswersFit`, for any sets of requests, positions and modules.
* **Worker mirror.** The two properties speak of moments when nothing is owed; the
  invariant says what a debt makes up for. A didOpen and a didChange take the text that
  is tracked when they are mirrored, so a note need not carry one: the last didOpen or
  didClose owed for a document is right about it (`LastRight`, `PumpRight`), a document
  for which nothing is owed is up to date (`DocsFollow`), and so are disk and settings
  (`WorkspaceFollows`). Theorems: `WorkerHasDocuments`, `WorkerHasWorkspace`.
* **Index and module roots.** `ModuleIndexInv`: what is in the root cache, or on its way
  there, is right once the go.mod event has been handled, and until then no nested file
  counts as reported after a removal (`RootsRight`); a file that has
  not raced is in the hands of one reader (`OneReader`); what an index lacks of a file it
  serves will still come, from an unsent event, from a goroutine that will find the right
  index, or from a build that has not read the file yet (`ServedOK`); a query that has
  passed the look-up holds an index that covers the files it relies on (`QueriesFit`).
  Which index serves a file changes with every go.mod event, and a build started before
  one may end after it, which is why `ServedOK` is about every index ever built and not
  only the current one. The main index serves a nested file only once it has left `unread`:
  its walk may have skipped the file, and only an event handled after the go.mod's brings
  it in. Theorems: `RootCacheRight`, `QueriesSeeImports`,
  `SymbolsFollowDisk`.
* **The closure search.** `ClosureReached` proves `ClosureReaches` for every finite set
  of directories and every import relation. The loop invariant (`SearchOK`): what is
  queued is seen; everything seen is in every closed set with the start; what is seen has
  its importers seen or is still queued; and while the queue is not empty, the number of
  seen directories is the number of turns plus the length of the queue. By the last, the
  queue is empty after as many turns as there are directories; what is seen is then
  closed, hence all that reaches the start.
* **Edits.** `BatchesAgree`: a batch of any number of changes, on texts of any length, has
  the effect of the editor's edits, and is refused exactly if a position lies past the end
  of its line. The line loop finds the line with as many breaks before it as the position
  says; the column loop adds up code units, one or two per rune, until it meets the
  position, so the offset undoes the position the editor computed; one change then agrees
  with one edit; and a batch agrees up to its first refused change. `EditsRight`
  (`EditsAgree`) is the case of two changes.
* **Scope file.** `PersistInv`: the two names never share an inode (`NamesApart`), an
  inode holds a scope some save began with, nothing, or an unreadable text
  (`ContentBegun`), and without overlap the one save under way owns the temporary file
  (`SaveAlone`). `NewInodeFree` counts that a file can always be created: there are two
  more inodes than savers. Theorems: `FileWhole` and the action property `RestoresOne`,
  whose argument uses neither `SaveAlone` nor the absence of overlap.

The inductive invariants that are not conjunctions of checked properties were checked
with TLC, as invariants of the runs' instances, before they were proved.

The last two are inductions over data. The library's induction theorems take the
predicate as an operator, which the provers cannot instantiate; the lemmas `Induct` take a
*set* of naturals instead and rest on the least element of a set of naturals. `LoopTrace`
shows that a loop written as a recursive function takes the value its equation says at
every turn, so that a loop invariant is a set of turns to which `Induct` applies.

Only model-checked: liveness (`EventuallyPublished`, `BarrierCatchesUp`, `LoadingEnds`,
`IdleWorkerStops`, `StaleRefreshed`, `HeldRequestsEnd`, `PumpFree`, `EventuallyServed`,
and the fairness of the abstract specification in `InOrder`), since the prover does not
do liveness under fairness. Every invariant and every action property of the passing runs
is a theorem.

## 6. Known deviations

Beyond the two findings, the models contain behaviour that a stronger property would
reject. Each is named in the property that makes room for it.

* An error answer to a configuration pull is passed on unpatched and still advances
  `appliedGen` (`proxy.go:682`). `AppliedIsDelivered` holds for `EditorErrors = FALSE`
  and fails with TRUE. `DeliveredUnitsInView` and `CrossRefSeesClosure`, which do not
  count such an answer as a delivery, hold with TRUE (`scope_crossref`).
* A request that registers after `failPending` has run on the dead connection waits
  for its whole timeout (`worker.go:652`): `InFlightFailsFast` of `WorkerLifecycle`
  fails when it is added to `WorkerLifecycle_all.cfg`.
* `readLoop` takes any frame it cannot read for the end of the process
  (`worker.go:706`), and `onExit` (`worker.go:281`, "whose process has exited") then
  forgets the process without stopping it. If it still runs, nobody stops it: the
  exception in `NoOrphanProcess`.
* A file event that meets a build which has read the disk is lost (`graph.go:1012`):
  `CacheFollowsDisk` fails when added to `GraphSlot_main.cfg`. The history variable
  `missed` is the exception in `OutdatedHasTrigger`.
* A changed file marks the graph only if `UpdateFile` reports a change
  (`proxy.go:1063-1065`). It reports none while the index has no module path
  (`revindex.go:148`) or if the index has read the new text already, in its build or for
  an earlier event (`revindex.go:172`); a graph built before the change then stays as it
  is: `missed = "unseen"`, also in `OutdatedHasTrigger`.
* All saves of the package graph write one temporary name (`graph.go:519-527`), those of
  other worktrees' proxies too, and may leave a file that cannot be decoded; the next
  session starts without a graph. No property is weakened for it.
* A nested query whose own build failed is answered with the graph of other build
  flags (`graph.go:805`): `AnswerMatchesBuildFlags` fails when added to
  `GraphSlot_nested.cfg`.
* A module root computed before an `Invalidate` and cached after it stays until the
  next go.mod event (`modroot.go:42`): the history variable `crossed`, which the next
  go.mod event decides anew. Until then queries and updates may use the wrong index, so
  `QuerySeesImports`, `RootCacheCurrent` and `SymbolsCurrent` say nothing.
* When a nested go.mod is removed, its files become the main module's, but the main
  index skipped that directory in its walk (`revindex.go:105-111`), is never built again
  (`revindex.go:52-54`), and `invalidateModuleBoundary` only drops the nested index
  (`proxy.go:999-1007`). Until each such file has an event of its own, its imports and
  symbols are missing from the main index, and a closure may miss importers, while
  `revindex.go:18-21` calls it "exactly the set a rename/references request must have in
  scope": the history variable `unread`, the exception in `QuerySeesImports` and `SymbolsCurrent`.
* Two goroutines that read one file may store in the other order and leave the older
  symbols (`proxy.go:1063`): `raced`. Import edges are only ever added, so the closure
  is at worst too large.
* Overlapping saves may leave the older scope, or an unreadable file, which a session
  takes for none (`scope.go:373`): `overlap`.
* A rename of a method goes to the narrow view if `askDefinition` got no answer, or if
  the defining file has unsaved lines, cannot be read or does not parse, for
  `isMethodDecl` reads the file on disk and says no on any error
  (`resolve.go:413-421`): excluded in `MethodRenameWhole`.
* `didClose` and `didOpen` do not release held requests; a request may then be
  resolved in another session of its document.
* An edit whose position is past the end of its line is refused, where LSP says that
  it means the end of the line; the document is then no longer tracked as the editor
  has it. `EditsAgree` says exactly when.

## 7. Plan

1. The embed footprint of the graph cache: which changed assets are metadata, and of
   which slot.
2. `UnitOf` as state, so that a go.mod may move an open file to another unit.

## 8. Not modelled

Option parsing, the one-shot driver client, framing and JSON, Go parsing, logging,
and the version string have no state a property could be about. Scoring, merging and
capping workspace symbols and collecting them from a syntax tree are string work on
one input. Mapping a path to its unit (`unitFor`, `scopeUnit`) is the constant
`UnitOf`; that a `go.mod` may change it while a file is open is a listed hazard. The
embed footprint, which decides whether a changed asset is metadata, and the freshness
probe, which only picks a delay, are left out of `GraphSlot`.
