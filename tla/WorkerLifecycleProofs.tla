----------------------- MODULE WorkerLifecycleProofs ------------------------
(***************************************************************************)
(* Theorems about WorkerLifecycle, for any finite set of requests and any  *)
(* number of worker generations.                                           *)
(***************************************************************************)
EXTENDS WorkerLifecycle, FiniteSetTheorems, TLAPS

\* There are finitely many reservations.
LEMMA HoldersFinite ==
    /\ IsFiniteSet(Holders) /\ Cardinality(Holders) \in Nat
    /\ \A r \in Holders : Cardinality(Holders) > 0
  <1>1. IsFiniteSet(Holders)
    BY WorkerAssumption, FS_Subset DEF Holders
  <1>2. Cardinality(Holders) \in Nat
    BY <1>1, FS_CardinalityType
  <1>3. Holders # {} => Cardinality(Holders) # 0
    BY <1>1, FS_EmptySet
  <1> QED  BY <1>1, <1>2, <1>3

\* A request that starts to hold adds one reservation, one that stops removes
\* one.
LEMMA HoldersChange ==
    ASSUME NEW S, IsFiniteSet(S), NEW r
    PROVE  /\ r \notin S => Cardinality(S \cup {r}) = Cardinality(S) + 1
           /\ r \in S => Cardinality(S \ {r}) = Cardinality(S) - 1
  BY FS_AddElement, FS_RemoveElement

\* Before the first acquire there is no process and no reservation.
LEMMA InvInit == Init => TypeOK /\ LifecycleInv
  <1> SUFFICES ASSUME Init PROVE TypeOK /\ LifecycleInv
    OBVIOUS
  <1> USE DEF Init
  <1>1. TypeOK
    <2>1. /\ ready \in [Gens -> BOOLEAN] /\ reader \in [Gens -> BOOLEAN]
          /\ initErr \in BOOLEAN /\ warm \in BOOLEAN
      BY WorkerAssumption
    <2>2. /\ proc \in [Gens -> {"none", "running", "dead"}]
          /\ stopped \in [Gens -> {"no", "idle", "unusable"}]
          /\ init \in [Gens -> {"none", "calling", "ok", "failed", "done"}]
          /\ pending \in [Gens -> SUBSET Requests]
      OBVIOUS
    <2>3. req \in [Requests -> [pc : {"new", "loading", "checking", "calling",
                                      "sent", "returning", "done"},
                                gen : Gens \cup {0}]]
      OBVIOUS
    <2> QED  BY <2>1, <2>2, <2>3 DEF TypeOK
  <1>2. \A r \in Requests : ~Holding(r)
    BY DEF Holding
  <1>3. HoldsCountHolders
    <2>1. Holders = {}
      BY <1>2 DEF Holders
    <2> QED  BY <2>1, FS_EmptySet DEF HoldsCountHolders
  <1>4. GenerationsInOrder
    BY <1>2 DEF GenerationsInOrder, Gens
  <1>5. NoOrphanProcess /\ IdleWorkerHasTimer /\ PendingSent
    BY DEF NoOrphanProcess, IdleWorkerHasTimer, PendingSent
  <1> QED  BY <1>1, <1>3, <1>4, <1>5 DEF LifecycleInv

\* Each step keeps every variable in its type; a release never takes the
\* count below zero because the releasing request is one of its holders.
LEMMA TypeStep == TypeOK /\ LifecycleInv /\ [Next]_vars => TypeOK'
  <1> SUFFICES ASSUME TypeOK, LifecycleInv, [Next]_vars PROVE TypeOK'
    OBVIOUS
  <1> USE DEF TypeOK, handleVars, evictVars, procVars
  <1>1. CASE WarmUp
    <2>1. CASE client # 0
      BY <1>1, <2>1 DEF WarmUp, EnsureStarted
    <2>2. CASE client = 0
      <3>1. gen + 1 \in Gens
        BY <1>1, <2>2, WorkerAssumption DEF WarmUp, EnsureStarted, Spawn, Gens
      <3> QED  BY <1>1, <2>2, <3>1 DEF WarmUp, EnsureStarted, Spawn
    <2> QED  BY <2>1, <2>2
  <1>2. ASSUME NEW r \in Requests, Acquire(r)
        PROVE  TypeOK'
    <2>1. /\ client' \in Gens \cup {0} /\ gen' \in Gens \cup {0}
          /\ ready' \in [Gens -> BOOLEAN] /\ initErr' \in BOOLEAN
          /\ proc' \in [Gens -> {"none", "running", "dead"}]
          /\ stopped' \in [Gens -> {"no", "idle", "unusable"}]
          /\ reader' \in [Gens -> BOOLEAN]
          /\ init' \in [Gens -> {"none", "calling", "ok", "failed", "done"}]
          /\ pending' \in [Gens -> SUBSET Requests]
      <3>1. CASE client # 0
        BY <1>2, <3>1 DEF Acquire, EnsureStarted
      <3>2. CASE client = 0
        <4>1. gen + 1 \in Gens
          BY <1>2, <3>2, WorkerAssumption DEF Acquire, EnsureStarted, Spawn, Gens
        <4> QED  BY <1>2, <3>2, <4>1 DEF Acquire, EnsureStarted, Spawn
      <3> QED  BY <3>1, <3>2
    <2>2. req' \in [Requests -> [pc : {"new", "loading", "checking", "calling",
                                       "sent", "returning", "done"},
                                 gen : Gens \cup {0}]]
      BY <1>2, <2>1 DEF Acquire
    <2> QED  BY <1>2, <2>1, <2>2 DEF Acquire
  <1>3. ASSUME NEW r \in Requests, AcquireFails(r)
        PROVE  TypeOK'
    BY <1>3 DEF AcquireFails
  <1>4. ASSUME NEW r \in Requests, ReadyClosed(r)
        PROVE  TypeOK'
    BY <1>4 DEF ReadyClosed
  <1>5. ASSUME NEW r \in Requests, LoadingTimeout(r)
        PROVE  TypeOK'
    BY <1>5 DEF LoadingTimeout
  <1>6. ASSUME NEW r \in Requests, CheckLoaded(r)
        PROVE  TypeOK'
    BY <1>6 DEF CheckLoaded
  <1>7. ASSUME NEW r \in Requests, SendRequest(r)
        PROVE  TypeOK'
    <2>1. pending' \in [Gens -> SUBSET Requests]
      BY <1>7 DEF SendRequest
    <2>2. req' \in [Requests -> [pc : {"new", "loading", "checking", "calling",
                                       "sent", "returning", "done"},
                                 gen : Gens \cup {0}]]
      <3>1. req' = [req EXCEPT ![r].pc = "sent"]
        BY <1>7 DEF SendRequest
      <3> QED  BY <3>1
    <2>3. UNCHANGED <<handleVars, evictVars, warm, proc, stopped, reader, init>>
      BY <1>7 DEF SendRequest
    <2> QED  BY <2>1, <2>2, <2>3
  <1>8. ASSUME NEW r \in Requests, Answer(r)
        PROVE  TypeOK'
    <2>1. pending' \in [Gens -> SUBSET Requests]
      BY <1>8 DEF Answer
    <2>2. req' \in [Requests -> [pc : {"new", "loading", "checking", "calling",
                                       "sent", "returning", "done"},
                                 gen : Gens \cup {0}]]
      <3>1. req' = [req EXCEPT ![r].pc = "returning"]
        BY <1>8 DEF Answer
      <3> QED  BY <3>1
    <2>3. UNCHANGED <<handleVars, evictVars, warm, proc, stopped, reader, init>>
      BY <1>8 DEF Answer
    <2> QED  BY <2>1, <2>2, <2>3
  <1>9. ASSUME NEW r \in Requests, RequestTimeout(r)
        PROVE  TypeOK'
    <2>1. pending' \in [Gens -> SUBSET Requests]
      BY <1>9 DEF RequestTimeout
    <2>2. req' \in [Requests -> [pc : {"new", "loading", "checking", "calling",
                                       "sent", "returning", "done"},
                                 gen : Gens \cup {0}]]
      <3>1. req' = [req EXCEPT ![r].pc = "returning"]
        BY <1>9 DEF RequestTimeout
      <3> QED  BY <3>1
    <2>3. UNCHANGED <<handleVars, evictVars, warm, proc, stopped, reader, init>>
      BY <1>9 DEF RequestTimeout
    <2> QED  BY <2>1, <2>2, <2>3
  <1>10. ASSUME NEW r \in Requests, Release(r)
        PROVE  TypeOK'
    <2>1. holds \in Nat /\ holds > 0
      BY <1>10, HoldersFinite DEF Release, LifecycleInv, HoldsCountHolders, Holders, Holding
    <2> QED  BY <1>10, <2>1 DEF Release
  <1>11. ASSUME NEW g \in Gens, InitializeAnswered(g)
        PROVE  TypeOK'
    BY <1>11 DEF InitializeAnswered
  <1>12. ASSUME NEW g \in Gens, InitializeFails(g)
        PROVE  TypeOK'
    BY <1>12 DEF InitializeFails
  <1>13. ASSUME NEW g \in Gens, InitWorker(g)
        PROVE  TypeOK'
    BY <1>13 DEF InitWorker
  <1>14. ASSUME NEW g \in Gens, ProcessExits(g)
        PROVE  TypeOK'
    BY <1>14 DEF ProcessExits
  <1>15. ASSUME NEW g \in Gens, FailPending(g)
        PROVE  TypeOK'
    BY <1>15 DEF FailPending
  <1>16. ASSUME NEW g \in Gens, OnExit(g)
        PROVE  TypeOK'
    BY <1>16 DEF OnExit, Finalize
  <1>17. ASSUME NEW g \in Gens, EvictIfIdle(g)
        PROVE  TypeOK'
    BY <1>17 DEF EvictIfIdle
  <1>18. ASSUME NEW g \in Gens, Shutdown(g)
        PROVE  TypeOK'
    BY <1>18 DEF Shutdown, Finalize
  <1>19. CASE EvictTimerFires
    BY <1>19 DEF EvictTimerFires
  <1>20. CASE UNCHANGED vars
    BY <1>20 DEF vars
  <1> QED
    BY <1>1, <1>2, <1>3, <1>4, <1>5, <1>6, <1>7, <1>8, <1>9, <1>10, <1>11,
       <1>12, <1>13, <1>14, <1>15, <1>16, <1>17, <1>18, <1>19, <1>20 DEF Next

\* holds follows the set of holders.
LEMMA CountStep ==
    TypeOK /\ LifecycleInv /\ [Next]_vars => HoldsCountHolders'
  <1> SUFFICES ASSUME TypeOK, LifecycleInv, [Next]_vars PROVE HoldsCountHolders'
    OBVIOUS
  <1>0. HoldsCountHolders /\ PendingSent
    BY DEF LifecycleInv
  <1> USE <1>0 DEF TypeOK, handleVars, evictVars, procVars
  <1>1. CASE WarmUp
    <2>1. Holders' = Holders
      BY <1>1 DEF WarmUp, Holders, Holding
    <2> QED  BY <1>1, <2>1 DEF WarmUp, HoldsCountHolders
  <1>2. ASSUME NEW r \in Requests, Acquire(r)
        PROVE  HoldsCountHolders'
    <2>1. Holders' = Holders \cup {r} /\ r \notin Holders
      BY <1>2 DEF Acquire, Holders, Holding
    <2>2. Cardinality(Holders') = Cardinality(Holders) + 1
      BY <2>1, HoldersFinite, HoldersChange
    <2> QED  BY <1>2, <2>2 DEF Acquire, HoldsCountHolders
  <1>3. ASSUME NEW r \in Requests, AcquireFails(r)
        PROVE  HoldsCountHolders'
    <2>1. Holders' = Holders
      BY <1>3 DEF AcquireFails, Holders, Holding
    <2> QED  BY <1>3, <2>1 DEF AcquireFails, HoldsCountHolders
  <1>4. ASSUME NEW r \in Requests, ReadyClosed(r)
        PROVE  HoldsCountHolders'
    <2>1. Holders' = Holders
      BY <1>4 DEF ReadyClosed, Holders, Holding
    <2> QED  BY <1>4, <2>1 DEF ReadyClosed, HoldsCountHolders
  <1>5. ASSUME NEW r \in Requests, LoadingTimeout(r)
        PROVE  HoldsCountHolders'
    <2>1. Holders' = Holders
      BY <1>5 DEF LoadingTimeout, Holders, Holding
    <2> QED  BY <1>5, <2>1 DEF LoadingTimeout, HoldsCountHolders
  <1>6. ASSUME NEW r \in Requests, CheckLoaded(r)
        PROVE  HoldsCountHolders'
    <2>1. Holders' = Holders
      BY <1>6 DEF CheckLoaded, Holders, Holding
    <2> QED  BY <1>6, <2>1 DEF CheckLoaded, HoldsCountHolders
  <1>7. ASSUME NEW r \in Requests, SendRequest(r)
        PROVE  HoldsCountHolders'
    <2>1. Holders' = Holders
      BY <1>7 DEF SendRequest, Holders, Holding
    <2> QED  BY <1>7, <2>1 DEF SendRequest, HoldsCountHolders
  <1>8. ASSUME NEW r \in Requests, Answer(r)
        PROVE  HoldsCountHolders'
    <2>1. Holders' = Holders
      BY <1>8 DEF Answer, Holders, Holding
    <2> QED  BY <1>8, <2>1 DEF Answer, HoldsCountHolders
  <1>9. ASSUME NEW r \in Requests, RequestTimeout(r)
        PROVE  HoldsCountHolders'
    <2>1. Holders' = Holders
      BY <1>9 DEF RequestTimeout, Holders, Holding
    <2> QED  BY <1>9, <2>1 DEF RequestTimeout, HoldsCountHolders
  <1>10. ASSUME NEW r \in Requests, Release(r)
        PROVE  HoldsCountHolders'
    <2>1. Holders' = Holders \ {r} /\ r \in Holders
      BY <1>10 DEF Release, Holders, Holding
    <2>2. Cardinality(Holders') = Cardinality(Holders) - 1
      BY <2>1, HoldersFinite, HoldersChange
    <2> QED  BY <1>10, <2>2 DEF Release, HoldsCountHolders
  <1>11. ASSUME NEW g \in Gens, InitializeAnswered(g)
        PROVE  HoldsCountHolders'
    <2>1. Holders' = Holders
      BY <1>11 DEF InitializeAnswered, Holders, Holding
    <2> QED  BY <1>11, <2>1 DEF InitializeAnswered, HoldsCountHolders
  <1>12. ASSUME NEW g \in Gens, InitializeFails(g)
        PROVE  HoldsCountHolders'
    <2>1. Holders' = Holders
      BY <1>12 DEF InitializeFails, Holders, Holding
    <2> QED  BY <1>12, <2>1 DEF InitializeFails, HoldsCountHolders
  <1>13. ASSUME NEW g \in Gens, InitWorker(g)
        PROVE  HoldsCountHolders'
    <2>1. Holders' = Holders
      BY <1>13 DEF InitWorker, Holders, Holding
    <2> QED  BY <1>13, <2>1 DEF InitWorker, HoldsCountHolders
  <1>14. ASSUME NEW g \in Gens, ProcessExits(g)
        PROVE  HoldsCountHolders'
    <2>1. Holders' = Holders
      BY <1>14 DEF ProcessExits, Holders, Holding
    <2> QED  BY <1>14, <2>1 DEF ProcessExits, HoldsCountHolders
  <1>15. ASSUME NEW g \in Gens, FailPending(g)
        PROVE  HoldsCountHolders'
    <2>1. \A r \in pending[g] : req[r].pc = "sent"
      BY DEF PendingSent
    <2>2. Holders' = Holders
      BY <1>15, <2>1 DEF FailPending, Holders, Holding
    <2> QED  BY <1>15, <2>2 DEF FailPending, HoldsCountHolders
  <1>16. ASSUME NEW g \in Gens, OnExit(g)
        PROVE  HoldsCountHolders'
    <2>1. Holders' = Holders
      BY <1>16 DEF OnExit, Holders, Holding
    <2> QED  BY <1>16, <2>1 DEF OnExit, HoldsCountHolders
  <1>17. ASSUME NEW g \in Gens, EvictIfIdle(g)
        PROVE  HoldsCountHolders'
    <2>1. Holders' = Holders
      BY <1>17 DEF EvictIfIdle, Holders, Holding
    <2> QED  BY <1>17, <2>1 DEF EvictIfIdle, HoldsCountHolders
  <1>18. ASSUME NEW g \in Gens, Shutdown(g)
        PROVE  HoldsCountHolders'
    <2>1. Holders' = Holders
      BY <1>18 DEF Shutdown, Holders, Holding
    <2> QED  BY <1>18, <2>1 DEF Shutdown, HoldsCountHolders
  <1>19. CASE EvictTimerFires
    <2>1. Holders' = Holders
      BY <1>19 DEF EvictTimerFires, Holders, Holding
    <2> QED  BY <1>19, <2>1 DEF EvictTimerFires, HoldsCountHolders
  <1>20. CASE UNCHANGED vars
    <2>1. Holders' = Holders
      BY <1>20 DEF vars, Holders, Holding
    <2> QED  BY <1>20, <2>1 DEF vars, HoldsCountHolders
  <1> QED
    BY <1>1, <1>2, <1>3, <1>4, <1>5, <1>6, <1>7, <1>8, <1>9, <1>10, <1>11,
       <1>12, <1>13, <1>14, <1>15, <1>16, <1>17, <1>18, <1>19, <1>20 DEF Next

\* Generations stay in order, and processes and idle workers accounted for.
LEMMA OrderStep ==
    TypeOK /\ LifecycleInv /\ [Next]_vars
        => (GenerationsInOrder /\ PendingSent /\ NoOrphanProcess)'
  <1> SUFFICES ASSUME TypeOK, LifecycleInv, [Next]_vars
               PROVE  (GenerationsInOrder /\ PendingSent /\ NoOrphanProcess)'
    OBVIOUS
  <1> USE DEF TypeOK, LifecycleInv, GenerationsInOrder, PendingSent,
              NoOrphanProcess, Holding, Gens, handleVars, evictVars, procVars
  <1>1. CASE WarmUp
    <2>1. CASE client # 0
      <3>1. /\ UNCHANGED <<client, gen, ready, proc, stopped, reader, init, pending>>
            /\ client = gen /\ gen \in 1..gen
        BY <1>1, <2>1, WorkerAssumption DEF WarmUp, EnsureStarted
      <3> QED  BY <1>1, <3>1 DEF WarmUp
    <2>2. CASE client = 0
      <3>1. gen + 1 \in Gens
        BY <1>1, <2>2, WorkerAssumption DEF WarmUp, EnsureStarted, Spawn, Gens
      <3>2. /\ gen' = gen + 1 /\ client' = gen + 1 /\ ready' = ready
            /\ proc' = [proc EXCEPT ![gen + 1] = "running"]
            /\ reader' = [reader EXCEPT ![gen + 1] = TRUE]
            /\ init' = [init EXCEPT ![gen + 1] = "calling"]
            /\ UNCHANGED <<stopped, pending>>
        BY <1>1, <2>2 DEF WarmUp, EnsureStarted, Spawn
      <3> QED  BY <1>1, <2>2, <3>1, <3>2 DEF WarmUp
    <2> QED  BY <2>1, <2>2
  <1>2. ASSUME NEW r \in Requests, Acquire(r)
        PROVE  (GenerationsInOrder /\ PendingSent /\ NoOrphanProcess)'
    <2>1. CASE client # 0
      <3>1. /\ UNCHANGED <<client, gen, ready, proc, stopped, reader, init, pending>>
            /\ client = gen /\ gen \in 1..gen
        BY <1>2, <2>1, WorkerAssumption DEF Acquire, EnsureStarted
      <3> QED  BY <1>2, <3>1 DEF Acquire
    <2>2. CASE client = 0
      <3>1. gen + 1 \in Gens
        BY <1>2, <2>2, WorkerAssumption DEF Acquire, EnsureStarted, Spawn, Gens
      <3>2. /\ gen' = gen + 1 /\ client' = gen + 1 /\ ready' = ready
            /\ proc' = [proc EXCEPT ![gen + 1] = "running"]
            /\ reader' = [reader EXCEPT ![gen + 1] = TRUE]
            /\ init' = [init EXCEPT ![gen + 1] = "calling"]
            /\ UNCHANGED <<stopped, pending>>
        BY <1>2, <2>2 DEF Acquire, EnsureStarted, Spawn
      <3> QED  BY <1>2, <2>2, <3>1, <3>2 DEF Acquire
    <2> QED  BY <2>1, <2>2
  <1>3. ASSUME NEW r \in Requests, AcquireFails(r)
        PROVE  (GenerationsInOrder /\ PendingSent /\ NoOrphanProcess)'
    BY <1>3, WorkerAssumption DEF AcquireFails
  <1>4. ASSUME NEW r \in Requests, ReadyClosed(r)
        PROVE  (GenerationsInOrder /\ PendingSent /\ NoOrphanProcess)'
    BY <1>4, WorkerAssumption DEF ReadyClosed
  <1>5. ASSUME NEW r \in Requests, LoadingTimeout(r)
        PROVE  (GenerationsInOrder /\ PendingSent /\ NoOrphanProcess)'
    BY <1>5, WorkerAssumption DEF LoadingTimeout
  <1>6. ASSUME NEW r \in Requests, CheckLoaded(r)
        PROVE  (GenerationsInOrder /\ PendingSent /\ NoOrphanProcess)'
    BY <1>6, WorkerAssumption DEF CheckLoaded
  <1>7. ASSUME NEW r \in Requests, SendRequest(r)
        PROVE  (GenerationsInOrder /\ PendingSent /\ NoOrphanProcess)'
    BY <1>7, WorkerAssumption DEF SendRequest
  <1>8. ASSUME NEW r \in Requests, Answer(r)
        PROVE  (GenerationsInOrder /\ PendingSent /\ NoOrphanProcess)'
    BY <1>8, WorkerAssumption DEF Answer
  <1>9. ASSUME NEW r \in Requests, RequestTimeout(r)
        PROVE  (GenerationsInOrder /\ PendingSent /\ NoOrphanProcess)'
    BY <1>9, WorkerAssumption DEF RequestTimeout
  <1>10. ASSUME NEW r \in Requests, Release(r)
        PROVE  (GenerationsInOrder /\ PendingSent /\ NoOrphanProcess)'
    BY <1>10, WorkerAssumption DEF Release
  <1>11. ASSUME NEW g \in Gens, InitializeAnswered(g)
        PROVE  (GenerationsInOrder /\ PendingSent /\ NoOrphanProcess)'
    BY <1>11, WorkerAssumption DEF InitializeAnswered
  <1>12. ASSUME NEW g \in Gens, InitializeFails(g)
        PROVE  (GenerationsInOrder /\ PendingSent /\ NoOrphanProcess)'
    BY <1>12, WorkerAssumption DEF InitializeFails
  <1>13. ASSUME NEW g \in Gens, InitWorker(g)
        PROVE  (GenerationsInOrder /\ PendingSent /\ NoOrphanProcess)'
    <2>1. GenerationsInOrder'
      BY <1>13, WorkerAssumption DEF InitWorker
    <2>2. PendingSent'
      BY <1>13 DEF InitWorker
    <2>3. NoOrphanProcess'
      BY <1>13, WorkerAssumption DEF InitWorker
    <2> QED  BY <2>1, <2>2, <2>3
  <1>14. ASSUME NEW g \in Gens, ProcessExits(g)
        PROVE  (GenerationsInOrder /\ PendingSent /\ NoOrphanProcess)'
    BY <1>14, WorkerAssumption DEF ProcessExits
  <1>15. ASSUME NEW g \in Gens, FailPending(g)
        PROVE  (GenerationsInOrder /\ PendingSent /\ NoOrphanProcess)'
    BY <1>15, WorkerAssumption DEF FailPending
  <1>16. ASSUME NEW g \in Gens, OnExit(g)
        PROVE  (GenerationsInOrder /\ PendingSent /\ NoOrphanProcess)'
    BY <1>16 DEF OnExit, Finalize
  <1>17. ASSUME NEW g \in Gens, EvictIfIdle(g)
        PROVE  (GenerationsInOrder /\ PendingSent /\ NoOrphanProcess)'
    BY <1>17, WorkerAssumption DEF EvictIfIdle
  <1>18. ASSUME NEW g \in Gens, Shutdown(g)
        PROVE  (GenerationsInOrder /\ PendingSent /\ NoOrphanProcess)'
    <2>1. CASE client = 0
      BY <1>18, <2>1 DEF Shutdown
    <2>2. CASE client # 0
      <3>1. /\ client' = 0 /\ ready' = [ready EXCEPT ![gen] = TRUE]
            /\ stopped' = [stopped EXCEPT ![gen] = "idle"]
            /\ UNCHANGED <<gen, proc, reader, init, pending, req>>
            /\ gen \in Gens /\ client = gen
        BY <1>18, <2>2 DEF Shutdown, Finalize
      <3> QED  BY <3>1, WorkerAssumption
    <2> QED  BY <2>1, <2>2
  <1>19. CASE EvictTimerFires
    BY <1>19, WorkerAssumption DEF EvictTimerFires
  <1>20. CASE UNCHANGED vars
    BY <1>20, WorkerAssumption DEF vars
  <1> QED
    BY <1>1, <1>2, <1>3, <1>4, <1>5, <1>6, <1>7, <1>8, <1>9, <1>10, <1>11,
       <1>12, <1>13, <1>14, <1>15, <1>16, <1>17, <1>18, <1>19, <1>20 DEF Next

\* A step that makes the worker idle arms the eviction timer.
LEMMA TimerStep ==
    TypeOK /\ LifecycleInv /\ [Next]_vars => IdleWorkerHasTimer'
  <1> SUFFICES ASSUME TypeOK, LifecycleInv, [Next]_vars PROVE IdleWorkerHasTimer'
    OBVIOUS
  <1> USE DEF TypeOK, LifecycleInv, IdleWorkerHasTimer, handleVars, evictVars, procVars
  <1>1. CASE WarmUp
    BY <1>1 DEF WarmUp, EnsureStarted, Spawn
  <1>2. ASSUME NEW r \in Requests, Acquire(r)
        PROVE  IdleWorkerHasTimer'
    BY <1>2 DEF Acquire
  <1>3. ASSUME NEW r \in Requests, AcquireFails(r)
        PROVE  IdleWorkerHasTimer'
    BY <1>3 DEF AcquireFails
  <1>4. ASSUME NEW r \in Requests, ReadyClosed(r)
        PROVE  IdleWorkerHasTimer'
    BY <1>4 DEF ReadyClosed
  <1>5. ASSUME NEW r \in Requests, LoadingTimeout(r)
        PROVE  IdleWorkerHasTimer'
    BY <1>5 DEF LoadingTimeout
  <1>6. ASSUME NEW r \in Requests, CheckLoaded(r)
        PROVE  IdleWorkerHasTimer'
    BY <1>6 DEF CheckLoaded
  <1>7. ASSUME NEW r \in Requests, SendRequest(r)
        PROVE  IdleWorkerHasTimer'
    BY <1>7 DEF SendRequest
  <1>8. ASSUME NEW r \in Requests, Answer(r)
        PROVE  IdleWorkerHasTimer'
    BY <1>8 DEF Answer
  <1>9. ASSUME NEW r \in Requests, RequestTimeout(r)
        PROVE  IdleWorkerHasTimer'
    BY <1>9 DEF RequestTimeout
  <1>10. ASSUME NEW r \in Requests, Release(r)
        PROVE  IdleWorkerHasTimer'
    BY <1>10 DEF Release
  <1>11. ASSUME NEW g \in Gens, InitializeAnswered(g)
        PROVE  IdleWorkerHasTimer'
    BY <1>11 DEF InitializeAnswered
  <1>12. ASSUME NEW g \in Gens, InitializeFails(g)
        PROVE  IdleWorkerHasTimer'
    BY <1>12 DEF InitializeFails
  <1>13. ASSUME NEW g \in Gens, InitWorker(g)
        PROVE  IdleWorkerHasTimer'
    BY <1>13 DEF InitWorker
  <1>14. ASSUME NEW g \in Gens, ProcessExits(g)
        PROVE  IdleWorkerHasTimer'
    BY <1>14 DEF ProcessExits
  <1>15. ASSUME NEW g \in Gens, FailPending(g)
        PROVE  IdleWorkerHasTimer'
    BY <1>15 DEF FailPending
  <1>16. ASSUME NEW g \in Gens, OnExit(g)
        PROVE  IdleWorkerHasTimer'
    BY <1>16 DEF OnExit, Finalize
  <1>17. ASSUME NEW g \in Gens, EvictIfIdle(g)
        PROVE  IdleWorkerHasTimer'
    BY <1>17 DEF EvictIfIdle, GenerationsInOrder
  <1>18. ASSUME NEW g \in Gens, Shutdown(g)
        PROVE  IdleWorkerHasTimer'
    BY <1>18 DEF Shutdown, Finalize
  <1>19. CASE EvictTimerFires
    BY <1>19 DEF EvictTimerFires
  <1>20. CASE UNCHANGED vars
    BY <1>20 DEF vars
  <1> QED
    BY <1>1, <1>2, <1>3, <1>4, <1>5, <1>6, <1>7, <1>8, <1>9, <1>10, <1>11,
       <1>12, <1>13, <1>14, <1>15, <1>16, <1>17, <1>18, <1>19, <1>20 DEF Next

\* The inductive invariant holds in every reachable state.
THEOREM LifecycleInvariant == Spec => [](TypeOK /\ LifecycleInv)
  <1>1. TypeOK /\ LifecycleInv /\ [Next]_vars => (TypeOK /\ LifecycleInv)'
    <2> SUFFICES ASSUME TypeOK, LifecycleInv, [Next]_vars
                 PROVE  TypeOK' /\ LifecycleInv'
      OBVIOUS
    <2>1. TypeOK'
      BY TypeStep
    <2>2. LifecycleInv'
      BY CountStep, OrderStep, TimerStep DEF LifecycleInv
    <2> QED  BY <2>1, <2>2
  <1> QED  BY InvInit, <1>1, PTL DEF Spec

\* Every variable of the worker handle keeps its type: in particular no release takes
\* the reservation count below zero.
THEOREM LifecycleTypes == Spec => []TypeOK
  <1>1. TypeOK /\ LifecycleInv => TypeOK
    OBVIOUS
  <1> QED  BY LifecycleInvariant, <1>1, PTL

\* Every acquire is paired with exactly one release, on every return path.
THEOREM ReservationsCounted == Spec => []HoldsCountHolders
  <1>1. LifecycleInv => HoldsCountHolders
    BY DEF LifecycleInv
  <1> QED  BY LifecycleInvariant, <1>1, PTL

\* Whatever ends a worker's load, its waiters are woken.
THEOREM WaitersWoken == Spec => []WaiterHasWaker
  <1>1. TypeOK /\ LifecycleInv => WaiterHasWaker
    BY WorkerAssumption
       DEF TypeOK, LifecycleInv, GenerationsInOrder, WaiterHasWaker, Holding, Gens
  <1> QED  BY LifecycleInvariant, <1>1, PTL

\* A process that is neither the current worker's nor told to stop is one whose
\* stream readLoop gave up: no restart, eviction or failed load leaves another.
THEOREM ProcessesOwned == Spec => []NoOrphanProcess
  <1>1. LifecycleInv => NoOrphanProcess
    BY DEF LifecycleInv
  <1> QED  BY LifecycleInvariant, <1>1, PTL

\* An idle worker always has an eviction under way.
THEOREM IdleWorkersTimed == Spec => []IdleWorkerHasTimer
  <1>1. LifecycleInv => IdleWorkerHasTimer
    BY DEF LifecycleInv
  <1> QED  BY LifecycleInvariant, <1>1, PTL
=============================================================================
