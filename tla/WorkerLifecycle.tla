-------------------------- MODULE WorkerLifecycle ---------------------------
(***************************************************************************)
(* One workerHandle of worker.go: the isolated gopls process that answers  *)
(* whole-workspace queries.  It is spawned lazily, initialized in the      *)
(* background, shared by concurrent requests through reservations, evicted *)
(* when idle, and may die at any moment.                                   *)
(*                                                                         *)
(* Processes: one goroutine per request, and per worker generation the     *)
(* initWorker goroutine, the readLoop, the cmd.Wait goroutine and the      *)
(* eviction timer's callbacks.  A step is one critical section of          *)
(* workerHandle.mu or workerClient.mu, or one wake-up of a select.         *)
(***************************************************************************)
EXTENDS Integers, FiniteSets

CONSTANTS
    Requests,   \* whole-workspace queries
    WorkerWarm, \* option workerWarm: patchInitialize starts the worker
    MaxGen      \* bound on the number of worker processes spawned

ASSUME WorkerAssumption ==
    WorkerWarm \in BOOLEAN /\ MaxGen \in Nat /\ IsFiniteSet(Requests)

Gens == 1..MaxGen

VARIABLES
    client,     \* generation of workerHandle.client; 0 = nil
    gen,        \* restart generation
    ready,      \* per generation: its ready channel is closed
    initErr,    \* the current generation is unusable
    holds,      \* outstanding reservations
    evictTimer, \* generation the armed idle timer belongs to; 0 = none
    checking,   \* generations whose timer has fired, before evictIfIdle's check
    evicting,   \* generations found idle, before evictIfIdle calls shutdown
    warm,       \* the warm-up goroutine of patchInitialize is yet to run
    proc,       \* per generation: the gopls process
    stopped,    \* per generation: why the proxy stops the process, if it does
    reader,     \* per generation: the readLoop is running
    init,       \* per generation: the initialize call of initWorker
    pending,    \* per generation: workerClient.pending (requests only)
    req         \* per request: where workerHandle.request is

handleVars == <<client, gen, ready, initErr, holds>>
evictVars  == <<evictTimer, checking, evicting>>
procVars   == <<proc, stopped, reader, init, pending>>
vars == <<handleVars, evictVars, warm, procVars, req>>

Init ==
    /\ client = 0 /\ gen = 0
    /\ ready = [g \in Gens |-> FALSE]
    /\ initErr = FALSE
    /\ holds = 0
    /\ evictTimer = 0
    /\ checking = {} /\ evicting = {}
    /\ warm = WorkerWarm
    /\ proc = [g \in Gens |-> "none"]
    /\ stopped = [g \in Gens |-> "no"]
    /\ reader = [g \in Gens |-> FALSE]
    /\ init = [g \in Gens |-> "none"]
    /\ pending = [g \in Gens |-> {}]
    /\ req = [r \in Requests |-> [pc |-> "new", gen |-> 0]]

\* A request that has acquired the worker and not yet released it.
Holding(r) == req[r].pc \in {"loading", "checking", "calling", "sent", "returning"}
Holders == {r \in Requests : Holding(r)}

-----------------------------------------------------------------------------
(* Spawning. *)

\* ensureStartedLocked when no client is live: everything that belongs to the
\* generation is reset, and its goroutines start.
Spawn ==
    /\ gen < MaxGen
    /\ gen' = gen + 1 /\ client' = gen + 1
    /\ initErr' = FALSE
    /\ proc' = [proc EXCEPT ![gen + 1] = "running"]
    /\ reader' = [reader EXCEPT ![gen + 1] = TRUE]
    /\ init' = [init EXCEPT ![gen + 1] = "calling"]
    /\ UNCHANGED <<ready, stopped, pending>>

EnsureStarted ==
    \/ client # 0 /\ UNCHANGED <<client, gen, ready, initErr, procVars>>
    \/ client = 0 /\ Spawn

\* The warm-up goroutine: ensureStarted, no reservation; a worker it spawns is
\* evictable at once.
WarmUp ==
    /\ warm /\ warm' = FALSE
    /\ EnsureStarted
    /\ evictTimer' = IF client = 0 THEN client' ELSE evictTimer
    /\ UNCHANGED <<holds, checking, evicting, req>>

\* acquire: start if needed, reserve, and stop the idle timer, in one
\* critical section.
Acquire(r) ==
    /\ req[r].pc = "new"
    /\ EnsureStarted
    /\ holds' = holds + 1
    /\ evictTimer' = 0
    /\ req' = [req EXCEPT ![r] = [pc |-> "loading", gen |-> gen']]
    /\ UNCHANGED <<checking, evicting, warm>>

\* Mutant: the deferred release is registered before the error check.
AcquireFailsReleasing(r) ==
    /\ req[r].pc = "new" /\ client = 0
    /\ req' = [req EXCEPT ![r].pc = "returning"]
    /\ UNCHANGED <<handleVars, evictVars, warm, procVars>>

\* The process cannot be started: request returns without a reservation.
AcquireFails(r) ==
    /\ req[r].pc = "new" /\ client = 0
    /\ req' = [req EXCEPT ![r].pc = "done"]
    /\ UNCHANGED <<handleVars, evictVars, warm, procVars>>

-----------------------------------------------------------------------------
(* A request, once it holds the worker. *)

\* The generation's ready channel is closed.
ReadyClosed(r) ==
    /\ req[r].pc = "loading" /\ ready[req[r].gen]
    /\ req' = [req EXCEPT ![r].pc = "checking"]
    /\ UNCHANGED <<handleVars, evictVars, warm, procVars>>

\* The budget runs out while the worker loads; the worker goes on warming.
LoadingTimeout(r) ==
    /\ req[r].pc = "loading"
    /\ req' = [req EXCEPT ![r].pc = "returning"]
    /\ UNCHANGED <<handleVars, evictVars, warm, procVars>>

\* The recheck after ready: a restarted or unusable worker is reported.
CheckLoaded(r) ==
    /\ req[r].pc = "checking"
    /\ req' = [req EXCEPT ![r].pc =
                 IF gen # req[r].gen \/ initErr THEN "returning" ELSE "calling"]
    /\ UNCHANGED <<handleVars, evictVars, warm, procVars>>

\* workerClient.request: registered, then written (a dead process's pipe
\* swallows it).
SendRequest(r) ==
    /\ req[r].pc = "calling"
    /\ pending' = [pending EXCEPT ![req[r].gen] = @ \cup {r}]
    /\ req' = [req EXCEPT ![r].pc = "sent"]
    /\ UNCHANGED <<handleVars, evictVars, warm, proc, stopped, reader, init>>

\* readLoop routes the worker's answer to its waiter.
Answer(r) ==
    LET g == req[r].gen IN
    /\ req[r].pc = "sent" /\ r \in pending[g]
    /\ proc[g] = "running" /\ reader[g]
    /\ pending' = [pending EXCEPT ![g] = @ \ {r}]
    /\ req' = [req EXCEPT ![r].pc = "returning"]
    /\ UNCHANGED <<handleVars, evictVars, warm, proc, stopped, reader, init>>

\* The remaining budget runs out.
RequestTimeout(r) ==
    /\ req[r].pc = "sent"
    /\ pending' = [pending EXCEPT ![req[r].gen] = @ \ {r}]
    /\ req' = [req EXCEPT ![r].pc = "returning"]
    /\ UNCHANGED <<handleVars, evictVars, warm, proc, stopped, reader, init>>

\* Mutant: the idle timer is not armed again.
ReleaseOnly(r) ==
    /\ req[r].pc = "returning"
    /\ holds' = holds - 1
    /\ req' = [req EXCEPT ![r].pc = "done"]
    /\ UNCHANGED <<client, gen, ready, initErr, evictVars, warm, procVars>>

\* release: the last reservation arms the idle timer (armEvictLocked does
\* nothing without a client).
Release(r) ==
    /\ req[r].pc = "returning"
    /\ holds' = holds - 1
    /\ evictTimer' = IF holds = 1 THEN client ELSE evictTimer
    /\ req' = [req EXCEPT ![r].pc = "done"]
    /\ UNCHANGED <<client, gen, ready, initErr, checking, evicting, warm, procVars>>

-----------------------------------------------------------------------------
(* Initialization, in the background. *)

\* gopls answers the initialize request.
InitializeAnswered(g) ==
    /\ init[g] = "calling"
    /\ proc[g] = "running" /\ reader[g]
    /\ init' = [init EXCEPT ![g] = "ok"]
    /\ UNCHANGED <<handleVars, evictVars, warm, proc, stopped, reader, pending, req>>

\* initialize is refused, times out, or the connection closes.
InitializeFails(g) ==
    /\ init[g] = "calling"
    /\ init' = [init EXCEPT ![g] = "failed"]
    /\ UNCHANGED <<handleVars, evictVars, warm, proc, stopped, reader, pending, req>>

\* Mutant: the process is left running after a failed initialize.
InitWorkerNoKill(g) ==
    /\ init[g] \in {"ok", "failed"}
    /\ init' = [init EXCEPT ![g] = "done"]
    /\ IF gen = g /\ ~ready[g]
       THEN /\ initErr' = (init[g] = "failed")
            /\ ready' = [ready EXCEPT ![g] = TRUE]
            /\ IF init[g] = "failed"
               THEN client' = 0 /\ evictTimer' = 0
               ELSE UNCHANGED <<client, evictTimer>>
       ELSE UNCHANGED <<client, ready, initErr, evictTimer>>
    /\ UNCHANGED <<gen, holds, checking, evicting, warm, proc, stopped, reader,
                   pending, req>>

\* initWorker takes the lock: it goes live, or gives the generation up and
\* kills the process, unless onExit or shutdown has finalized it already.
InitWorker(g) ==
    /\ init[g] \in {"ok", "failed"}
    /\ init' = [init EXCEPT ![g] = "done"]
    /\ IF gen = g /\ ~ready[g]
       THEN /\ initErr' = (init[g] = "failed")
            /\ ready' = [ready EXCEPT ![g] = TRUE]
            /\ IF init[g] = "failed"
               THEN /\ client' = 0 /\ evictTimer' = 0
                    /\ stopped' = [stopped EXCEPT ![g] = "unusable"]
               ELSE UNCHANGED <<client, evictTimer, stopped>>
       ELSE UNCHANGED <<client, ready, initErr, evictTimer, stopped>>
    /\ UNCHANGED <<gen, holds, checking, evicting, warm, proc, reader, pending, req>>

-----------------------------------------------------------------------------
(* The process ends: by itself, or because the proxy stopped it. *)

ProcessExits(g) ==
    /\ proc[g] = "running"
    /\ proc' = [proc EXCEPT ![g] = "dead"]
    /\ UNCHANGED <<handleVars, evictVars, warm, stopped, reader, init, pending, req>>

\* readLoop gives the stream up and fails whoever is registered: at the end of
\* the stream, or at a frame readFrame cannot read, whose process lives on.
FailPending(g) ==
    /\ reader[g]
    /\ reader' = [reader EXCEPT ![g] = FALSE]
    /\ pending' = [pending EXCEPT ![g] = {}]
    /\ req' = [r \in Requests |->
                 IF r \in pending[g] THEN [req[r] EXCEPT !.pc = "returning"]
                                     ELSE req[r]]
    /\ UNCHANGED <<handleVars, evictVars, warm, proc, stopped, init>>

\* Mutant: waiters for the load are forgotten.
FinalizeSilently(g) ==
    /\ client' = 0
    /\ evictTimer' = 0
    /\ UNCHANGED <<ready, initErr>>

\* The generation is finalized: no client, no idle timer, and nobody left
\* waiting for it to load.
Finalize(g) ==
    /\ client' = 0
    /\ evictTimer' = 0
    /\ ready' = [ready EXCEPT ![g] = TRUE]
    /\ initErr' = (initErr \/ ~ready[g])

\* onExit, called by the cmd.Wait goroutine and by readLoop's onDown, the latter
\* for a process that may still run; nothing kills it.  (A call for a generation
\* that is superseded or finalized changes nothing.)
OnExit(g) ==
    /\ proc[g] = "dead" \/ ~reader[g]
    /\ gen = g /\ (client = g \/ ~ready[g])
    /\ Finalize(g)
    /\ UNCHANGED <<gen, holds, checking, evicting, warm, procVars, req>>

-----------------------------------------------------------------------------
(* Idle eviction. *)

EvictTimerFires ==
    /\ evictTimer # 0
    /\ evictTimer' = 0
    /\ checking' = checking \cup {evictTimer}
    /\ UNCHANGED <<handleVars, evicting, warm, procVars, req>>

\* evictIfIdle, its critical section.
EvictIfIdle(g) ==
    /\ g \in checking
    /\ checking' = checking \ {g}
    /\ evicting' = IF gen = g /\ client # 0 /\ holds = 0
                   THEN evicting \cup {g} ELSE evicting
    /\ UNCHANGED <<handleVars, evictTimer, warm, procVars, req>>

\* shutdown, called by evictIfIdle after it has let go of the lock: it takes
\* down whatever client is current by then.
Shutdown(g) ==
    /\ g \in evicting
    /\ evicting' = evicting \ {g}
    /\ IF client = 0
       THEN UNCHANGED <<client, ready, initErr, evictTimer, stopped>>
       ELSE /\ Finalize(gen)
            /\ stopped' = [stopped EXCEPT ![client] = "idle"]
    /\ UNCHANGED <<gen, holds, checking, warm, proc, reader, init, pending, req>>

-----------------------------------------------------------------------------
Next ==
    \/ WarmUp
    \/ \E r \in Requests :
         \/ Acquire(r) \/ AcquireFails(r)
         \/ ReadyClosed(r) \/ LoadingTimeout(r) \/ CheckLoaded(r)
         \/ SendRequest(r) \/ Answer(r) \/ RequestTimeout(r) \/ Release(r)
    \/ \E g \in Gens :
         \/ InitializeAnswered(g) \/ InitializeFails(g) \/ InitWorker(g)
         \/ ProcessExits(g) \/ FailPending(g) \/ OnExit(g)
         \/ EvictIfIdle(g) \/ Shutdown(g)
    \/ EvictTimerFires

Spec == Init /\ [][Next]_vars

\* Goroutines go on and the idle timer fires.  The budgets of request are left
\* out on purpose: whether a waiter is served must not depend on them.  The
\* initialize call ends within its own timeout, a process that was told to stop
\* is killed in the end, and a dead one's stream ends; no frame need be bad.
Fairness ==
    /\ \A r \in Requests : WF_vars(ReadyClosed(r)) /\ WF_vars(CheckLoaded(r))
                           /\ WF_vars(SendRequest(r)) /\ WF_vars(Release(r))
    /\ \A g \in Gens :
         /\ WF_vars(InitializeFails(g)) /\ WF_vars(InitWorker(g))
         /\ WF_vars(ProcessExits(g) /\ stopped[g] # "no")
         /\ WF_vars(FailPending(g) /\ proc[g] = "dead") /\ WF_vars(OnExit(g))
         /\ WF_vars(EvictIfIdle(g)) /\ WF_vars(Shutdown(g))
    /\ WF_vars(EvictTimerFires)

FairSpec == Spec /\ Fairness

-----------------------------------------------------------------------------
(* Properties. *)

\* Every variable has the type its Go declaration gives it.
TypeOK ==
    /\ client \in Gens \cup {0} /\ gen \in Gens \cup {0}
    /\ ready \in [Gens -> BOOLEAN] /\ initErr \in BOOLEAN
    /\ holds \in Nat
    /\ evictTimer \in Gens \cup {0}
    /\ checking \subseteq Gens /\ evicting \subseteq Gens
    /\ warm \in BOOLEAN
    /\ proc \in [Gens -> {"none", "running", "dead"}]
    /\ stopped \in [Gens -> {"no", "idle", "unusable"}]
    /\ reader \in [Gens -> BOOLEAN]
    /\ init \in [Gens -> {"none", "calling", "ok", "failed", "done"}]
    /\ pending \in [Gens -> SUBSET Requests]
    /\ req \in [Requests -> [pc : {"new", "loading", "checking", "calling",
                                   "sent", "returning", "done"},
                             gen : Gens \cup {0}]]

\* "Every successful acquire must be paired with exactly one release": the
\* reservation count is the number of requests that hold the worker.
HoldsCountHolders == holds = Cardinality(Holders)

\* A request that waits for its generation to load is never forgotten: the
\* channel is closed already, or the generation is current and its
\* initialization is still to end.
WaiterHasWaker ==
    \A r \in Requests :
        req[r].pc = "loading" =>
            \/ ready[req[r].gen]
            \/ /\ client = req[r].gen
               /\ init[req[r].gen] \in {"calling", "ok", "failed"}

\* A gopls process outlives its use in one way only: one that runs is the
\* current client's, or the proxy is stopping it, or readLoop gave up its stream
\* at a frame it could not read.  In that last case onExit forgets the process
\* without killing it (README, known deviations).
NoOrphanProcess ==
    \A g \in Gens :
        proc[g] = "running" => client = g \/ stopped[g] # "no" \/ ~reader[g]

\* A worker nobody holds will be looked at by evictIfIdle: its timer is armed,
\* or has fired and its callback is on the way.
IdleWorkerHasTimer ==
    client # 0 /\ holds = 0 => evictTimer = client \/ client \in checking \cup evicting

\* workerHandle.holds: "the worker is not evicted while > 0"; request: "it
\* cannot be idle-evicted while this request waits on the load or runs".
HeldWorkerNotEvicted ==
    \A r \in Requests : Holding(r) => stopped[req[r].gen] # "idle"

\* failPending: "in-flight requests fail fast when the worker process dies,
\* instead of blocking until their individual timeouts".  The code does not keep
\* it; no run checks it (README, known deviations).
InFlightFailsFast ==
    \A r \in Requests : req[r].pc = "sent" => reader[req[r].gen]

\* A request stops waiting for the load without its own budget running out.
LoadingEnds == \A r \in Requests : req[r].pc = "loading" ~> req[r].pc # "loading"

\* Once nobody asks for it any more, the worker is shut down.
IdleWorkerStops == client # 0 /\ holds = 0 ~> client = 0 \/ holds > 0

-----------------------------------------------------------------------------
(* The inductive invariant behind the safety properties. *)

\* Only the current generation can be live or loading, everything before it
\* is finalized, and nothing exists beyond it.
GenerationsInOrder ==
    /\ client \in {0, gen}
    /\ \A g \in Gens :
         /\ g <= gen /\ g # client => ready[g]
         /\ g > gen => ~ready[g] /\ proc[g] = "none" /\ init[g] = "none"
         /\ g = client /\ ~ready[g] => init[g] \in {"calling", "ok", "failed"}
    /\ \A r \in Requests : Holding(r) => req[r].gen \in 1..gen

\* Only requests that wait for an answer are registered with a client.
PendingSent ==
    \A g \in Gens : \A r \in pending[g] : req[r].pc = "sent" /\ req[r].gen = g

LifecycleInv ==
    /\ GenerationsInOrder
    /\ PendingSent
    /\ HoldsCountHolders
    /\ NoOrphanProcess
    /\ IdleWorkerHasTimer
=============================================================================
