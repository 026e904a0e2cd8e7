---------------------------- MODULE ScopeBarrier ----------------------------
(***************************************************************************)
(* The scope of the interactive gopls and the configuration-generation     *)
(* barrier that keeps cross-reference requests from being answered with a  *)
(* view that is too narrow (scope.go, and the parts of proxy.go and        *)
(* resolve.go that grow, shrink, publish and await the scope).             *)
(*                                                                         *)
(* Processes: the pumpClient loop (one message at a time), the pumpServer  *)
(* loop, the timer callbacks, the eviction loop, and one goroutine per     *)
(* cross-reference request.  A step is one critical section of proxy.mu,   *)
(* or one write to gopls.  gopls and the editor are external: gopls asks   *)
(* for its configuration once per didChangeConfiguration it reads, the     *)
(* editor answers in any order, late, with an error, or never.             *)
(***************************************************************************)
EXTENDS Naturals, FiniteSets

CONSTANTS
    Units,          \* scope units (directories below the workspace root)
    RootUnit,       \* the unit ".", which no directoryFilter can express
    Files,          \* document uris inside the workspace
    GoFiles,        \* those whose path ends in ".go"
    UnitOf,         \* unitFor: the unit of each file
    Requests,       \* cross-reference requests
    Needs,          \* the unit sets a request may need (closure, or own unit)
    Callbacks,      \* rescopeTimer callbacks that may be running at a time
    PullIds,        \* ids of configuration requests gopls may have pending
    Evictor,        \* the eviction loop, as a caller of pushScope
    PullSupported,  \* the editor supports workspace/configuration
    EditorErrors,   \* the editor may answer a pull with a non-array result
    EditorHangs,    \* the editor may leave a pull unanswered for a minute
    EvictEnabled,   \* evictTTL > 0
    GenBound        \* no file is opened, no request starts and no TTL elapses
                    \* once this many generations were stamped

ASSUME UnitsAssumption ==
    /\ GoFiles \subseteq Files
    /\ UnitOf \in [Files -> Units]
    /\ Needs \subseteq SUBSET Units
ASSUME CallersAssumption ==
    /\ Evictor \notin Callbacks \cup Requests
    /\ Callbacks \cap Requests = {}
ASSUME SwitchesAssumption ==
    /\ {PullSupported, EditorErrors, EditorHangs, EvictEnabled} \subseteq BOOLEAN
    /\ GenBound \in Nat

VARIABLES
    started,        \* initialize has been patched and written
    docs,           \* documents the editor has open
    scope,          \* keys of proxy.scope
    gen,            \* scopeEntry.gen; 0 = not yet published (or no entry)
    open,           \* scopeEntry.open
    idle,           \* the entry's lastActive is more than evictTTL ago
    scopeGen, appliedGen,
    pendingDiag,    \* opened uris whose first diagnostics are awaited
    rescopeTimer,   \* the debounce timer is armed
    pusher,         \* per pushScope caller: where in pushScope it is
    owed,           \* notifications gopls has yet to pull its configuration for
    pulls,          \* configIDs, configGens: per id the generation; 0 = none
    sawConfigPull,
    fallback,       \* generations whose fallback timer can still matter
    client,         \* pumpClient inside handleClientResponse
    view,           \* units the filters last written to gopls let it load
    req,            \* cross-reference goroutines in publishUnitsAndForward
    deliveredGen,   \* history: highest generation a patched response confirmed
    forcedGen       \* history: highest generation a fallback timer forced

scopeVars   == <<docs, scope, gen, open, idle>>
triggerVars == <<pendingDiag, rescopeTimer>>
pullVars    == <<owed, pulls, sawConfigPull>>
applyVars   == <<appliedGen, view, deliveredGen, forcedGen>>
vars == <<started, scopeVars, scopeGen, triggerVars, pusher, pullVars,
          fallback, client, applyVars, req>>

Callers == Callbacks \cup {Evictor} \cup Requests

Larger(m, n) == IF m < n THEN n ELSE m

\* filtersLocked: "-**" and one "+unit" per entry, or, as soon as the
\* workspace root itself is in scope, no filter at all.
FiltersLocked(s) == IF RootUnit \in s THEN Units ELSE s

\* Fallback timers of generations already applied do nothing when they fire;
\* they are left out of the state.
StillPending(timers, applied) == {g \in timers : g > applied}

IdleClient == [pc |-> "idle", gen |-> 0, ok |-> FALSE, filters |-> {}]

Init ==
    /\ started = FALSE
    /\ docs = {}
    /\ scope = {}
    /\ gen = [u \in Units |-> 0]
    /\ open = [u \in Units |-> {}]
    /\ idle = [u \in Units |-> FALSE]
    /\ scopeGen = 0 /\ appliedGen = 0
    /\ pendingDiag = {}
    /\ rescopeTimer = FALSE
    /\ pusher = [c \in Callers |-> [pc |-> "off", gen |-> 0]]
    /\ owed = 0
    /\ pulls = [i \in PullIds |-> 0]
    /\ sawConfigPull = FALSE
    /\ fallback = {}
    /\ client = IdleClient
    /\ view = {}
    /\ req = [r \in Requests |-> [pc |-> "new", need |-> {}, gen |-> 0]]
    /\ deliveredGen = 0 /\ forcedGen = 0

\* pumpClient handles the next editor message.
ClientReady == started /\ client.pc = "idle"

-----------------------------------------------------------------------------
(* Growing the scope. *)

\* stampScopeGenLocked on the entries s whose generations are g.
StampScopeGenLocked(s, g, n) ==
    [u \in Units |-> IF u \in s /\ g[u] = 0 THEN n ELSE g[u]]

\* patchInitialize: the restored scope is stamped and rides the initialize
\* request, which reaches gopls before anything else; gopls answers the
\* following "initialized" with a first configuration pull.
PatchInitialize(restored) ==
    /\ ~started
    /\ started' = TRUE
    /\ scope' = restored
    /\ scopeGen' = 1 /\ appliedGen' = 1 /\ deliveredGen' = 1
    /\ gen' = StampScopeGenLocked(restored, gen, 1)
    /\ view' = FiltersLocked(restored)
    /\ owed' = IF PullSupported THEN 1 ELSE 0
    /\ UNCHANGED <<docs, open, idle, triggerVars, pusher, pulls,
                   sawConfigPull, fallback, client, forcedGen, req>>

\* observeOpen: a unit already in scope only records the file; a new one is
\* published after one debounce tick when it is the first, and otherwise
\* after the file's first diagnostics (or three seconds).
ObserveOpen(f) ==
    LET u == UnitOf[f] IN
    /\ ClientReady /\ f \notin docs
    /\ scopeGen < GenBound
    /\ docs' = docs \cup {f}
    /\ IF f \in GoFiles
       THEN /\ scope' = scope \cup {u}
            /\ open' = [open EXCEPT ![u] = @ \cup {f}]
            /\ idle' = [idle EXCEPT ![u] = FALSE]
            /\ rescopeTimer' = (rescopeTimer \/ scope = {})
            /\ pendingDiag' = IF u \in scope \/ scope = {}
                              THEN pendingDiag ELSE pendingDiag \cup {f}
       ELSE UNCHANGED <<scope, open, idle, triggerVars>>
    /\ UNCHANGED <<started, gen, scopeGen, pusher, pullVars, fallback, client,
                   applyVars, req>>

\* observeClose: no check for ".go" here, so closing any file of the unit
\* restarts its idle period.
ObserveClose(f) ==
    LET u == UnitOf[f] IN
    /\ ClientReady /\ f \in docs
    /\ docs' = docs \ {f}
    /\ IF u \in scope
       THEN /\ open' = [open EXCEPT ![u] = @ \ {f}]
            /\ idle' = [idle EXCEPT ![u] = FALSE]
       ELSE UNCHANGED <<open, idle>>
    /\ UNCHANGED <<started, scope, gen, scopeGen, triggerVars, pusher,
                   pullVars, fallback, client, applyVars, req>>

\* Mutant: diagnostics of a document closed meanwhile are dropped.
DiagArrivedIfOpen(f) ==
    /\ f \in pendingDiag
    /\ pendingDiag' = pendingDiag \ {f}
    /\ rescopeTimer' = (rescopeTimer \/ f \in docs)
    /\ UNCHANGED <<started, scopeVars, scopeGen, pusher, pullVars, fallback,
                   client, applyVars, req>>

\* onDiagnostics and the three-second timer both end in diagArrived, which
\* (re)starts the debounce timer for the first arrival only.
DiagArrived(f) ==
    /\ f \in pendingDiag
    /\ pendingDiag' = pendingDiag \ {f}
    /\ rescopeTimer' = TRUE
    /\ UNCHANGED <<started, scopeVars, scopeGen, pusher, pullVars, fallback,
                   client, applyVars, req>>

\* The entry's evictTTL elapses since a file of the unit was last opened or
\* closed (files still open do not restart the period).
IdleElapses(u) ==
    /\ u \in scope /\ ~idle[u]
    /\ EvictEnabled /\ scopeGen < GenBound
    /\ idle' = [idle EXCEPT ![u] = TRUE]
    /\ UNCHANGED <<started, docs, scope, gen, open, scopeGen, triggerVars,
                   pusher, pullVars, fallback, client, applyVars, req>>

\* Mutant: the sweep forgets to look at the open files.
IdleUnitsByAge == {u \in scope : idle[u]}

\* The entries one eviction sweep drops.
IdleUnits == {u \in scope : open[u] = {} /\ idle[u]}

\* Mutant: an entry created again keeps the generation of the one dropped.
EvictIdleUnitsKeepGen ==
    LET gone == IdleUnits IN
    /\ EvictEnabled
    /\ pusher[Evictor].pc = "off"
    /\ gone # {}
    /\ scope' = scope \ gone
    /\ open' = [u \in Units |-> IF u \in gone THEN {} ELSE open[u]]
    /\ idle' = [u \in Units |-> IF u \in gone THEN FALSE ELSE idle[u]]
    /\ pusher' = [pusher EXCEPT ![Evictor] = [pc |-> "stamp", gen |-> 0]]
    /\ UNCHANGED <<started, docs, gen, scopeGen, triggerVars, pullVars,
                   fallback, client, applyVars, req>>

\* evictIdleUnits, up to the unlock: the sweep drops every idle entry, and
\* pushScope follows when something was dropped.
EvictIdleUnits ==
    LET gone == IdleUnits IN
    /\ EvictEnabled
    /\ pusher[Evictor].pc = "off"
    /\ gone # {}
    /\ scope' = scope \ gone
    /\ gen' = [u \in Units |-> IF u \in gone THEN 0 ELSE gen[u]]
    /\ open' = [u \in Units |-> IF u \in gone THEN {} ELSE open[u]]
    /\ idle' = [u \in Units |-> IF u \in gone THEN FALSE ELSE idle[u]]
    /\ pusher' = [pusher EXCEPT ![Evictor] = [pc |-> "stamp", gen |-> 0]]
    /\ UNCHANGED <<started, docs, scopeGen, triggerVars, pullVars,
                   fallback, client, applyVars, req>>

-----------------------------------------------------------------------------
(* Publishing the scope. *)

\* The debounce timer fires; its callback runs pushScope on its own.
RescopeTimerFires(c) ==
    /\ rescopeTimer
    /\ pusher[c].pc = "off"
    /\ rescopeTimer' = FALSE
    /\ pusher' = [pusher EXCEPT ![c] = [pc |-> "stamp", gen |-> 0]]
    /\ UNCHANGED <<started, scopeVars, scopeGen, pendingDiag, pullVars,
                   fallback, client, applyVars, req>>

\* pushScope, under the lock: a new generation covers every entry that was
\* not yet published.
PushScopeStamp(c) ==
    /\ pusher[c].pc = "stamp"
    /\ scopeGen' = scopeGen + 1
    /\ gen' = StampScopeGenLocked(scope, gen, scopeGen + 1)
    /\ pusher' = [pusher EXCEPT ![c] = [pc |-> "write", gen |-> scopeGen + 1]]
    /\ UNCHANGED <<started, docs, scope, open, idle, triggerVars, pullVars,
                   fallback, client, applyVars, req>>

\* Mutant: no fallback timer is armed.
PushScopeWriteOnly(c) ==
    /\ pusher[c].pc = "write"
    /\ pusher' = [pusher EXCEPT ![c] = [pc |-> "off", gen |-> 0]]
    /\ owed' = IF PullSupported THEN owed + 1 ELSE owed
    /\ req' = IF c \in Requests
              THEN [req EXCEPT ![c].pc = "await", ![c].gen = pusher[c].gen]
              ELSE req
    /\ UNCHANGED <<started, scopeVars, scopeGen, triggerVars, pulls,
                   sawConfigPull, fallback, client, applyVars>>

\* pushScope, after the lock: didChangeConfiguration is written, then the
\* fallback timer is armed; a cross-reference caller goes on to await the
\* generation it got back.
PushScopeWrite(c) ==
    /\ pusher[c].pc = "write"
    /\ pusher' = [pusher EXCEPT ![c] = [pc |-> "off", gen |-> 0]]
    /\ owed' = IF PullSupported THEN owed + 1 ELSE owed
    /\ fallback' = StillPending(fallback \cup {pusher[c].gen}, appliedGen)
    /\ req' = IF c \in Requests
              THEN [req EXCEPT ![c].pc = "await", ![c].gen = pusher[c].gen]
              ELSE req
    /\ UNCHANGED <<started, scopeVars, scopeGen, triggerVars, pulls,
                   sawConfigPull, client, applyVars>>

\* Mutant: any request of gopls is filed as a configuration pull.
ConfigurationPullAnyMethod(i) ==
    /\ pulls[i] = 0
    /\ owed' = owed - 1
    /\ pulls' = [pulls EXCEPT ![i] = scopeGen]
    /\ sawConfigPull' = TRUE
    /\ UNCHANGED <<started, scopeVars, scopeGen, triggerVars, pusher,
                   fallback, client, applyVars, req>>

\* handleServerNotification: gopls pulls the configuration; the pull is
\* filed under the generation current when it passes the proxy.
ConfigurationPull(i) ==
    /\ owed > 0 /\ pulls[i] = 0
    /\ owed' = owed - 1
    /\ pulls' = [pulls EXCEPT ![i] = scopeGen]
    /\ sawConfigPull' = TRUE
    /\ UNCHANGED <<started, scopeVars, scopeGen, triggerVars, pusher,
                   fallback, client, applyVars, req>>

\* Mutant: the barrier advances before the response is written.
HandleClientResponseEarly(i, ok) ==
    /\ ClientReady
    /\ pulls[i] > 0
    /\ ok \/ EditorErrors
    /\ pulls' = [pulls EXCEPT ![i] = 0]
    /\ client' = [pc |-> "patch", gen |-> pulls[i], ok |-> ok, filters |-> {}]
    /\ appliedGen' = Larger(appliedGen, pulls[i])
    /\ UNCHANGED <<started, scopeVars, scopeGen, triggerVars, pusher, owed,
                   sawConfigPull, fallback, view, deliveredGen, forcedGen, req>>

\* handleClientResponse, first critical section: the editor's answer is
\* matched with its pull.
HandleClientResponse(i, ok) ==
    /\ ClientReady
    /\ pulls[i] > 0
    /\ ok \/ EditorErrors
    /\ pulls' = [pulls EXCEPT ![i] = 0]
    /\ client' = [pc |-> "patch", gen |-> pulls[i], ok |-> ok, filters |-> {}]
    /\ UNCHANGED <<started, scopeVars, scopeGen, triggerVars, pusher, owed,
                   sawConfigPull, fallback, applyVars, req>>

\* patchConfigResponse: the filters of the scope as it is now, not as it
\* was when the pull arrived; an answer that is no array passes unpatched.
PatchConfigResponse ==
    /\ client.pc = "patch"
    /\ client' = [client EXCEPT !.pc = "write",
                                !.filters = IF client.ok
                                            THEN FiltersLocked(scope) ELSE {}]
    /\ UNCHANGED <<started, scopeVars, scopeGen, triggerVars, pusher,
                   pullVars, fallback, applyVars, req>>

\* The generation a configuration response confirms: the one current when
\* its pull passed the proxy.
ConfirmedGen == client.gen

\* The response is written to gopls, which rebuilds its view from it; on an
\* unpatched error gopls keeps the view it has.
WriteConfigResponse ==
    /\ client.pc = "write"
    /\ client' = [client EXCEPT !.pc = "advance"]
    /\ view' = IF client.ok THEN client.filters ELSE view
    /\ deliveredGen' = IF client.ok THEN Larger(deliveredGen, ConfirmedGen)
                                    ELSE deliveredGen
    /\ UNCHANGED <<started, scopeVars, scopeGen, triggerVars, pusher,
                   pullVars, fallback, appliedGen, forcedGen, req>>

\* Mutant: the last response handled counts, not the newest.
AdvanceToLast ==
    /\ client.pc = "advance"
    /\ client' = IdleClient
    /\ appliedGen' = ConfirmedGen
    /\ fallback' = StillPending(fallback, appliedGen')
    /\ UNCHANGED <<started, scopeVars, scopeGen, triggerVars, pusher,
                   pullVars, view, deliveredGen, forcedGen, req>>

\* advanceApplied: the barrier moves, never back.
AdvanceApplied ==
    /\ client.pc = "advance"
    /\ client' = IdleClient
    /\ appliedGen' = Larger(appliedGen, ConfirmedGen)
    /\ fallback' = StillPending(fallback, appliedGen')
    /\ UNCHANGED <<started, scopeVars, scopeGen, triggerVars, pusher,
                   pullVars, view, deliveredGen, forcedGen, req>>

\* Mutant: the timer advances whether or not the editor answers pulls.
AppliedFallbackAlways(g) ==
    /\ g \in fallback
    /\ appliedGen' = g /\ forcedGen' = Larger(forcedGen, g)
    /\ fallback' = StillPending(fallback, g)
    /\ UNCHANGED <<started, scopeVars, scopeGen, triggerVars, pusher,
                   pullVars, client, view, deliveredGen, req>>

\* The timer of scheduleAppliedFallback fires before its cap.  An editor that
\* has never pulled is not waited for; for one that has, the timer re-arms,
\* which changes nothing here.
AppliedFallback(g) ==
    /\ g \in fallback
    /\ ~sawConfigPull
    /\ appliedGen' = g /\ forcedGen' = Larger(forcedGen, g)
    /\ fallback' = StillPending(fallback, g)
    /\ UNCHANGED <<started, scopeVars, scopeGen, triggerVars, pusher,
                   pullVars, client, view, deliveredGen, req>>

\* The same timer at its absolute cap, the pull still unanswered.
AppliedFallbackCap(g) ==
    /\ g \in fallback
    /\ sawConfigPull /\ EditorHangs
    /\ appliedGen' = g /\ forcedGen' = Larger(forcedGen, g)
    /\ fallback' = StillPending(fallback, g)
    /\ UNCHANGED <<started, scopeVars, scopeGen, triggerVars, pusher,
                   pullVars, client, view, deliveredGen, req>>

-----------------------------------------------------------------------------
(* Cross-reference requests: publishUnitsAndForward. *)

\* Mutant: an entry waiting for its first publication counts as published.
NeedPushIfMissing(need) == ~ need \subseteq scope

\* ensureUnitsLocked: missing units get an entry, an existing entry keeps
\* the idle period it has.  The request must publish when a unit is not
\* published yet, and awaits the newest generation among them otherwise.
NeedPush(need) == \E u \in need : u \notin scope \/ gen[u] = 0
IsHighestGen(g, need) == \A u \in need : gen[u] <= g

PublishUnits(r, need) ==
    /\ started /\ req[r].pc = "new"
    /\ scopeGen < GenBound
    /\ scope' = scope \cup need
    /\ IF NeedPush(need)
       THEN /\ req' = [req EXCEPT ![r] = [pc |-> "push", need |-> need, gen |-> 0]]
            /\ pusher' = [pusher EXCEPT ![r] = [pc |-> "stamp", gen |-> 0]]
       ELSE /\ \E g \in {0} \cup {gen[u] : u \in need} :
                 /\ IsHighestGen(g, need)
                 /\ req' = [req EXCEPT ![r] = [pc |-> "await", need |-> need,
                                               gen |-> g]]
            /\ UNCHANGED pusher
    /\ UNCHANGED <<started, docs, gen, open, idle, scopeGen, triggerVars,
                   pullVars, fallback, client, applyVars>>

\* awaitApplied returns true: the barrier is reached.
AwaitApplied(r) ==
    /\ req[r].pc = "await"
    /\ req[r].gen <= appliedGen
    /\ req' = [req EXCEPT ![r].pc = "released"]
    /\ UNCHANGED <<started, scopeVars, scopeGen, triggerVars, pusher,
                   pullVars, fallback, client, applyVars>>

\* awaitApplied gives up after a minute, even if the barrier was reached just
\* then: "forwarding anyway".
AwaitTimeout(r) ==
    /\ req[r].pc = "await"
    /\ req' = [req EXCEPT ![r].pc = "timedOut"]
    /\ UNCHANGED <<started, scopeVars, scopeGen, triggerVars, pusher,
                   pullVars, fallback, client, applyVars>>

\* The held request is written to gopls.
Forward(r) ==
    /\ req[r].pc \in {"released", "timedOut"}
    /\ req' = [req EXCEPT ![r].pc = "forwarded"]
    /\ UNCHANGED <<started, scopeVars, scopeGen, triggerVars, pusher,
                   pullVars, fallback, client, applyVars>>

-----------------------------------------------------------------------------
Next ==
    \/ \E restored \in SUBSET Units : PatchInitialize(restored)
    \/ \E f \in Files : ObserveOpen(f) \/ ObserveClose(f) \/ DiagArrived(f)
    \/ \E u \in Units : IdleElapses(u)
    \/ EvictIdleUnits
    \/ \E c \in Callbacks : RescopeTimerFires(c)
    \/ \E c \in Callers : PushScopeStamp(c) \/ PushScopeWrite(c)
    \/ \E i \in PullIds : ConfigurationPull(i)
    \/ \E i \in PullIds, ok \in BOOLEAN : HandleClientResponse(i, ok)
    \/ PatchConfigResponse
    \/ WriteConfigResponse
    \/ AdvanceApplied
    \/ \E g \in fallback : AppliedFallback(g) \/ AppliedFallbackCap(g)
    \/ \E r \in Requests, need \in Needs : PublishUnits(r, need)
    \/ \E r \in Requests : AwaitApplied(r) \/ AwaitTimeout(r) \/ Forward(r)

Spec == Init /\ [][Next]_vars

\* Timers fire and goroutines go on; neither the editor nor gopls is assumed
\* to answer anything.  The fallback timer for generation g is armed at most
\* once, so its fairness is per generation.
Fairness ==
    /\ \A f \in Files : WF_vars(DiagArrived(f))
    /\ WF_vars(\E c \in Callbacks : RescopeTimerFires(c))
    /\ \A c \in Callers : WF_vars(PushScopeStamp(c)) /\ WF_vars(PushScopeWrite(c))
    /\ WF_vars(PatchConfigResponse)
    /\ WF_vars(WriteConfigResponse)
    /\ WF_vars(AdvanceApplied)
    /\ WF_vars(\E g \in fallback : AppliedFallback(g) \/ AppliedFallbackCap(g))

FairSpec == Spec /\ Fairness

-----------------------------------------------------------------------------
(* Properties. *)

\* Every variable has the type its Go declaration gives it.
TypeOK ==
    /\ started \in BOOLEAN
    /\ docs \subseteq Files
    /\ scope \subseteq Units
    /\ gen \in [Units -> Nat]
    /\ open \in [Units -> SUBSET Files]
    /\ idle \in [Units -> BOOLEAN]
    /\ scopeGen \in Nat /\ appliedGen \in Nat
    /\ pendingDiag \subseteq Files
    /\ rescopeTimer \in BOOLEAN
    /\ pusher \in [Callers -> [pc : {"off", "stamp", "write"}, gen : Nat]]
    /\ owed \in Nat
    /\ pulls \in [PullIds -> Nat]
    /\ sawConfigPull \in BOOLEAN
    /\ fallback \subseteq Nat
    /\ client \in [pc : {"idle", "patch", "write", "advance"}, gen : Nat,
                   ok : BOOLEAN, filters : SUBSET Units]
    /\ view \subseteq Units
    /\ req \in [Requests -> [pc : {"new", "push", "await", "released",
                                   "timedOut", "forwarded"},
                             need : SUBSET Units, gen : Nat]]
    /\ deliveredGen \in Nat /\ forcedGen \in Nat

\* The barrier (scope.go, "configuration-generation barrier"): a unit that is
\* in scope and whose generation a patched configuration response has
\* confirmed is in the view gopls holds, whatever was pushed, pulled,
\* answered late or evicted meanwhile.
DeliveredUnitsInView ==
    \A u \in scope : gen[u] > 0 /\ gen[u] <= deliveredGen => u \in view

\* appliedGen (proxy.go: "highest generation whose filters have been
\* delivered to gopls") never runs ahead of what was delivered, unless a
\* fallback timer forced it.
AppliedIsDelivered == appliedGen <= Larger(deliveredGen, forcedGen)

\* publishUnitsAndForward: once awaitApplied has let a cross-reference
\* request through on a generation that gopls really received, every unit of
\* its closure is in the view that will answer it.
CrossRefSeesClosure ==
    \A r \in Requests :
        req[r].pc = "released" /\ req[r].gen <= deliveredGen
            => req[r].need \subseteq view

\* Eviction never takes the unit of an open Go file out of the scope, so a
\* file the user is editing is not pushed back to orphan mode.
OpenFilesInScope ==
    \A f \in docs \cap GoFiles :
        UnitOf[f] \in scope /\ f \in open[UnitOf[f]]

\* An entry that is not published yet has something under way that will
\* publish it: the debounce timer, a file whose diagnostics (or three-second
\* timer) will start it, or a pushScope about to take the lock.
UnpublishedHasTrigger ==
    (\E u \in scope : gen[u] = 0) =>
        \/ rescopeTimer
        \/ pendingDiag # {}
        \/ \E c \in Callers : pusher[c].pc = "stamp"

\* What holdForRequestUnit and awaitUnitApplied see of a unit.
UnitState(u) ==
    IF u \notin scope THEN "none"
    ELSE IF gen[u] > 0 /\ gen[u] <= appliedGen THEN "applied" ELSE "pending"

\* From initialize on, the units change only as ScopeUnits says, which is all that
\* HeldRequests assumes of the barrier: an entry begins pending; a late answer, a timer or
\* a new generation never makes an applied one pending again; only eviction takes it away,
\* and not while a Go file of the unit is open.
Shown == INSTANCE ScopeUnits WITH
             GoDocs <- GoFiles, unit <- [u \in Units |-> UnitState(u)], opened <- docs \cap GoFiles
UnitsAsShown ==
    [][IF started THEN [Shown!Next]_(Shown!vars) ELSE started' => Shown!Init']_vars

\* armAppliedFallback's invariant: short of the absolute cap, no timer
\* advances appliedGen while gopls has an unanswered configuration pull.
NoForceWhilePullPending ==
    [][\A g \in fallback :
         AppliedFallback(g) /\ appliedGen' # appliedGen => \A i \in PullIds : pulls[i] = 0]_vars

\* Every entry of the scope is published in the end, or dropped again.
EventuallyPublished ==
    \A u \in Units :
        u \in scope /\ gen[u] = 0 ~> u \notin scope \/ gen[u] > 0

\* Once the user stops, the barrier catches up with the last generation
\* stamped, even if the editor never answers: no hold waits for ever.
BarrierCatchesUp == started ~> appliedGen = scopeGen

-----------------------------------------------------------------------------
(* Inductive invariants behind the safety properties. *)

\* No generation anybody holds is ahead of scopeGen, and only entries of the
\* scope have one: an entry that was dropped and re-created starts at 0.
GenerationsStamped ==
    /\ \A u \in Units : gen[u] <= scopeGen /\ (u \notin scope => gen[u] = 0)
    /\ \A i \in PullIds : pulls[i] <= scopeGen
    /\ client.gen <= scopeGen
    /\ deliveredGen <= scopeGen

\* Nothing is under way before initialize.
QuietBeforeInitialize ==
    ~started =>
        /\ scopeGen = 0 /\ scope = {} /\ docs = {}
        /\ owed = 0 /\ client.pc = "idle"
        /\ \A c \in Callers : pusher[c].pc = "off"
        /\ ~rescopeTimer /\ pendingDiag = {}

\* Filters on their way to gopls cover every unit that the response will
\* confirm, or that an earlier response has confirmed.
FiltersCover ==
    client.pc = "write" /\ client.ok =>
        \A u \in scope :
            gen[u] > 0 /\ (gen[u] <= client.gen \/ gen[u] <= deliveredGen)
                => u \in client.filters

\* What the barrier rests on.
BarrierInv ==
    /\ GenerationsStamped
    /\ QuietBeforeInitialize
    /\ FiltersCover
    /\ DeliveredUnitsInView

\* No generation that may still be applied is ahead of what was stamped, and no timer that
\* still counts is behind what was applied: a generation stamped next is not applied yet.
AppliedBehind ==
    /\ appliedGen <= scopeGen
    /\ \A g \in fallback : appliedGen < g /\ g <= scopeGen
    /\ \A c \in Callers : pusher[c].gen <= scopeGen

\* Units a request needs stay in scope, published no later than the
\* generation it awaits.  Only true while nothing is evicted.
NeedsPublished ==
    \A r \in Requests :
        /\ req[r].pc # "push" => pusher[r].pc = "off"
        /\ req[r].pc = "push" =>
             /\ req[r].need \subseteq scope
             /\ pusher[r].pc \in {"stamp", "write"}
             /\ pusher[r].pc = "write" =>
                  \A u \in req[r].need : gen[u] > 0 /\ gen[u] <= pusher[r].gen
        /\ req[r].pc \in {"await", "released"} =>
             /\ req[r].need \subseteq scope
             /\ \A u \in req[r].need : gen[u] > 0 /\ gen[u] <= req[r].gen

\* Between the write and the advance, the response's generation is already
\* counted as delivered.  Only true while the editor answers with arrays.
ResponsePatched ==
    /\ client.pc # "idle" => client.ok
    /\ client.pc = "advance" => client.gen <= deliveredGen
=============================================================================
