------------------------- MODULE ScopeBarrierProofs -------------------------
(***************************************************************************)
(* Theorems about ScopeBarrier, for any sets of units, files and requests  *)
(* and any bound on the generations.                                       *)
(***************************************************************************)
EXTENDS ScopeBarrier, TLAPS

\* filtersLocked never leaves out a unit of the scope.
LEMMA FiltersCoverScope ==
    ASSUME NEW s \in SUBSET Units
    PROVE  FiltersLocked(s) \in SUBSET Units /\ s \subseteq FiltersLocked(s)
  BY DEF FiltersLocked

\* Larger is the maximum of two naturals.
LEMMA LargerIsMax ==
    ASSUME NEW m \in Nat, NEW n \in Nat
    PROVE  /\ Larger(m, n) \in Nat
           /\ Larger(m, n) >= m /\ Larger(m, n) >= n
           /\ Larger(m, n) = m \/ Larger(m, n) = n
  BY DEF Larger

\* stampScopeGenLocked yields generations.
LEMMA StampType ==
    ASSUME NEW s, NEW g \in [Units -> Nat], NEW n \in Nat
    PROVE  StampScopeGenLocked(s, g, n) \in [Units -> Nat]
  BY DEF StampScopeGenLocked

-----------------------------------------------------------------------------
(* Type correctness. *)

\* The state before initialize is well typed.
LEMMA TypeInit == Init => TypeOK
  <1> SUFFICES ASSUME Init PROVE TypeOK
    OBVIOUS
  <1> USE DEF Init
  <1>1. /\ gen \in [Units -> Nat]
        /\ open \in [Units -> SUBSET Files]
        /\ pulls \in [PullIds -> Nat]
    OBVIOUS
  <1>2. idle \in [Units -> BOOLEAN]
    OBVIOUS
  <1>3. pusher \in [Callers -> [pc : {"off", "stamp", "write"}, gen : Nat]]
    OBVIOUS
  <1>4. client \in [pc : {"idle", "patch", "write", "advance"}, gen : Nat,
                    ok : BOOLEAN, filters : SUBSET Units]
    BY DEF IdleClient
  <1>5. req \in [Requests -> [pc : {"new", "push", "await", "released",
                                    "timedOut", "forwarded"},
                              need : SUBSET Units, gen : Nat]]
    OBVIOUS
  <1> QED  BY <1>1, <1>2, <1>3, <1>4, <1>5 DEF TypeOK

\* The record of a request after a move.
LEMMA RequestMoved ==
    ASSUME TypeOK, NEW r \in Requests, NEW g \in Nat,
           NEW pc \in {"new", "push", "await", "released", "timedOut", "forwarded"}
    PROVE  /\ [req EXCEPT ![r].pc = pc] \in
                 [Requests -> [pc : {"new", "push", "await", "released", "timedOut", "forwarded"},
                               need : SUBSET Units, gen : Nat]]
           /\ [req EXCEPT ![r].pc = pc, ![r].gen = g] \in
                 [Requests -> [pc : {"new", "push", "await", "released", "timedOut", "forwarded"},
                               need : SUBSET Units, gen : Nat]]
  <1> DEFINE R == [pc : {"new", "push", "await", "released", "timedOut", "forwarded"},
                   need : SUBSET Units, gen : Nat]
  <1>1. req \in [Requests -> R] /\ req[r] \in R
    BY DEF TypeOK
  <1>2. [req[r] EXCEPT !.pc = pc] \in R /\ [req[r] EXCEPT !.pc = pc, !.gen = g] \in R
    BY <1>1
  <1> HIDE DEF R
  <1>3. [req EXCEPT ![r] = [req[r] EXCEPT !.pc = pc]] \in [Requests -> R]
    BY <1>1, <1>2
  <1>4. [req EXCEPT ![r] = [req[r] EXCEPT !.pc = pc, !.gen = g]] \in [Requests -> R]
    BY <1>1, <1>2
  <1>5. /\ [req EXCEPT ![r].pc = pc] = [req EXCEPT ![r] = [req[r] EXCEPT !.pc = pc]]
        /\ [req EXCEPT ![r].pc = pc, ![r].gen = g] = [req EXCEPT ![r] = [req[r] EXCEPT !.pc = pc, !.gen = g]]
    BY <1>1
  <1> QED BY <1>3, <1>4, <1>5 DEF R

\* Each step of Next keeps every variable in its type.
LEMMA TypeStep == TypeOK /\ [Next]_vars => TypeOK'
  <1> SUFFICES ASSUME TypeOK, [Next]_vars
               PROVE  TypeOK'
    OBVIOUS
  <1> USE DEF TypeOK, scopeVars, triggerVars, pullVars, applyVars
  <1>1. ASSUME NEW restored \in SUBSET Units, PatchInitialize(restored)
        PROVE  TypeOK'
    BY <1>1, FiltersCoverScope, StampType DEF PatchInitialize
  <1>2. ASSUME NEW f \in Files, ObserveOpen(f)
        PROVE  TypeOK'
    <2>1. UnitOf[f] \in Units
      BY UnitsAssumption
    <2>2. /\ docs' \subseteq Files /\ scope' \subseteq Units
          /\ open' \in [Units -> SUBSET Files]
          /\ pendingDiag' \subseteq Files
      BY <1>2, <2>1 DEF ObserveOpen
    <2>3. idle' \in [Units -> BOOLEAN] /\ rescopeTimer' \in BOOLEAN
      BY <1>2, <2>1 DEF ObserveOpen
    <2> QED  BY <1>2, <2>2, <2>3 DEF ObserveOpen
  <1>3. ASSUME NEW f \in Files, ObserveClose(f)
        PROVE  TypeOK'
    <2>1. UnitOf[f] \in Units
      BY UnitsAssumption
    <2>2. open' \in [Units -> SUBSET Files]
      BY <1>3, <2>1 DEF ObserveClose
    <2>3. idle' \in [Units -> BOOLEAN]
      BY <1>3, <2>1 DEF ObserveClose
    <2> QED  BY <1>3, <2>2, <2>3 DEF ObserveClose
  <1>4. ASSUME NEW f \in Files, DiagArrived(f)
        PROVE  TypeOK'
    BY <1>4 DEF DiagArrived
  <1>5. ASSUME NEW u \in Units, IdleElapses(u)
        PROVE  TypeOK'
    BY <1>5 DEF IdleElapses
  <1>6. CASE EvictIdleUnits
    BY <1>6 DEF EvictIdleUnits, IdleUnits, Callers
  <1>7. ASSUME NEW c \in Callbacks, RescopeTimerFires(c)
        PROVE  TypeOK'
    BY <1>7 DEF RescopeTimerFires, Callers
  <1>8. ASSUME NEW c \in Callers, PushScopeStamp(c)
        PROVE  TypeOK'
    <2> DEFINE n == scopeGen + 1
    <2>0. n \in Nat
      OBVIOUS
    <2>. HIDE DEF n
    <2>1. gen' \in [Units -> Nat] /\ scopeGen' \in Nat
      <3>1. gen' = StampScopeGenLocked(scope, gen, n) /\ scopeGen' = n
        BY <1>8 DEF PushScopeStamp, n
      <3> QED  BY <3>1, <2>0, StampType
    <2>2. pusher' \in [Callers -> [pc : {"off", "stamp", "write"}, gen : Nat]]
      BY <1>8 DEF PushScopeStamp
    <2> QED  BY <1>8, <2>1, <2>2 DEF PushScopeStamp
  <1>9. ASSUME NEW c \in Callers, PushScopeWrite(c)
        PROVE  TypeOK'
    <2>1. pusher[c].gen \in Nat
      OBVIOUS
    <2>2. pusher' \in [Callers -> [pc : {"off", "stamp", "write"}, gen : Nat]]
      BY <1>9 DEF PushScopeWrite
    <2>3. owed' \in Nat /\ fallback' \subseteq Nat
      BY <1>9, <2>1 DEF PushScopeWrite, StillPending
    <2>4. req' \in [Requests -> [pc : {"new", "push", "await", "released",
                                       "timedOut", "forwarded"},
                                 need : SUBSET Units, gen : Nat]]
      <3>1. CASE c \in Requests
        <4>1. req' = [req EXCEPT ![c].pc = "await", ![c].gen = pusher[c].gen]
          BY <1>9, <3>1 DEF PushScopeWrite
        <4> HIDE DEF TypeOK
        <4> QED  BY <2>1, <3>1, <4>1, RequestMoved
      <3>2. CASE c \notin Requests
        BY <1>9, <3>2 DEF PushScopeWrite
      <3> QED  BY <3>1, <3>2
    <2> QED  BY <1>9, <2>2, <2>3, <2>4 DEF PushScopeWrite
  <1>10. ASSUME NEW i \in PullIds, ConfigurationPull(i)
         PROVE  TypeOK'
    BY <1>10 DEF ConfigurationPull
  <1>11. ASSUME NEW i \in PullIds, NEW ok \in BOOLEAN, HandleClientResponse(i, ok)
         PROVE  TypeOK'
    BY <1>11 DEF HandleClientResponse
  <1>12. CASE PatchConfigResponse
    BY <1>12, FiltersCoverScope DEF PatchConfigResponse
  <1>13. CASE WriteConfigResponse
    BY <1>13, LargerIsMax DEF WriteConfigResponse, ConfirmedGen
  <1>14. CASE AdvanceApplied
    BY <1>14, LargerIsMax DEF AdvanceApplied, ConfirmedGen, StillPending, IdleClient
  <1>15. ASSUME NEW g \in fallback, AppliedFallback(g)
         PROVE  TypeOK'
    BY <1>15, LargerIsMax DEF AppliedFallback, StillPending
  <1>16. ASSUME NEW g \in fallback, AppliedFallbackCap(g)
         PROVE  TypeOK'
    BY <1>16, LargerIsMax DEF AppliedFallbackCap, StillPending
  <1>17. ASSUME NEW r \in Requests, NEW need \in Needs, PublishUnits(r, need)
         PROVE  TypeOK'
    <2>1. need \in SUBSET Units
      BY UnitsAssumption
    <2>2. r \in Callers
      BY DEF Callers
    <2>3. scope' \subseteq Units
      BY <1>17, <2>1 DEF PublishUnits
    <2>4. pusher' \in [Callers -> [pc : {"off", "stamp", "write"}, gen : Nat]]
      BY <1>17, <2>2 DEF PublishUnits
    <2>5. req' \in [Requests -> [pc : {"new", "push", "await", "released",
                                       "timedOut", "forwarded"},
                                 need : SUBSET Units, gen : Nat]]
      BY <1>17, <2>1 DEF PublishUnits
    <2> QED  BY <1>17, <2>3, <2>4, <2>5 DEF PublishUnits
  <1>18. ASSUME NEW r \in Requests, AwaitApplied(r)
         PROVE  TypeOK'
    <2>1. req' \in [Requests -> [pc : {"new", "push", "await", "released",
                                       "timedOut", "forwarded"},
                                 need : SUBSET Units, gen : Nat]]
      <3>1. req' = [req EXCEPT ![r].pc = "released"]
        BY <1>18 DEF AwaitApplied
      <3> HIDE DEF TypeOK
      <3> QED  BY <3>1, RequestMoved
    <2> QED  BY <1>18, <2>1 DEF AwaitApplied
  <1>19. ASSUME NEW r \in Requests, AwaitTimeout(r)
         PROVE  TypeOK'
    <2>1. req' \in [Requests -> [pc : {"new", "push", "await", "released",
                                       "timedOut", "forwarded"},
                                 need : SUBSET Units, gen : Nat]]
      <3>1. req' = [req EXCEPT ![r].pc = "timedOut"]
        BY <1>19 DEF AwaitTimeout
      <3> HIDE DEF TypeOK
      <3> QED  BY <3>1, RequestMoved
    <2> QED  BY <1>19, <2>1 DEF AwaitTimeout
  <1>20. ASSUME NEW r \in Requests, Forward(r)
         PROVE  TypeOK'
    <2>1. req' \in [Requests -> [pc : {"new", "push", "await", "released",
                                       "timedOut", "forwarded"},
                                 need : SUBSET Units, gen : Nat]]
      <3>1. req' = [req EXCEPT ![r].pc = "forwarded"]
        BY <1>20 DEF Forward
      <3> HIDE DEF TypeOK
      <3> QED  BY <3>1, RequestMoved
    <2> QED  BY <1>20, <2>1 DEF Forward
  <1>21. CASE UNCHANGED vars
    BY <1>21 DEF vars
  <1> QED
    BY <1>1, <1>2, <1>3, <1>4, <1>5, <1>6, <1>7, <1>8, <1>9, <1>10, <1>11,
       <1>12, <1>13, <1>14, <1>15, <1>16, <1>17, <1>18, <1>19, <1>20, <1>21
       DEF Next

\* Every variable keeps its type in every reachable state.
THEOREM TypeCorrect == Spec => []TypeOK
  BY TypeInit, TypeStep, PTL DEF Spec
-----------------------------------------------------------------------------
(* The barrier. *)

\* A stamp gives the entries of s that had none the generation n, and leaves
\* every other generation alone.
LEMMA StampValue ==
    ASSUME NEW s, NEW g \in [Units -> Nat], NEW n, NEW u \in Units
    PROVE  /\ u \in s /\ g[u] = 0 => StampScopeGenLocked(s, g, n)[u] = n
           /\ ~(u \in s /\ g[u] = 0) => StampScopeGenLocked(s, g, n)[u] = g[u]
  BY DEF StampScopeGenLocked

\* Before initialize nothing is stamped, pulled or delivered.
LEMMA BarrierInit == Init => BarrierInv
  BY DEF Init, BarrierInv, GenerationsStamped, QuietBeforeInitialize,
         FiltersCover, DeliveredUnitsInView, IdleClient

\* The barrier survives every step.  The steps that matter: a stamp only
\* touches entries no response has confirmed; an eviction removes the entry
\* together with its generation; the filters are read after the pull's
\* generation was, so they cover it; and they are written before the
\* generation counts as delivered.
LEMMA BarrierStep == TypeOK /\ BarrierInv /\ [Next]_vars => BarrierInv'
  <1> SUFFICES ASSUME TypeOK, BarrierInv, [Next]_vars
               PROVE  BarrierInv'
    OBVIOUS
  <1> USE DEF TypeOK, BarrierInv, GenerationsStamped, QuietBeforeInitialize,
              FiltersCover, DeliveredUnitsInView,
              scopeVars, triggerVars, pullVars, applyVars
  <1>1. ASSUME NEW restored \in SUBSET Units, PatchInitialize(restored)
        PROVE  BarrierInv'
    BY <1>1, FiltersCoverScope, StampValue DEF PatchInitialize
  <1>2. ASSUME NEW f \in Files, ObserveOpen(f)
        PROVE  BarrierInv'
    BY <1>2, UnitsAssumption DEF ObserveOpen, ClientReady
  <1>3. ASSUME NEW f \in Files, ObserveClose(f)
        PROVE  BarrierInv'
    BY <1>3, UnitsAssumption DEF ObserveClose, ClientReady
  <1>4. ASSUME NEW f \in Files, DiagArrived(f)
        PROVE  BarrierInv'
    BY <1>4 DEF DiagArrived
  <1>5. ASSUME NEW u \in Units, IdleElapses(u)
        PROVE  BarrierInv'
    BY <1>5 DEF IdleElapses
  <1>6. CASE EvictIdleUnits
    BY <1>6 DEF EvictIdleUnits, IdleUnits, Callers
  <1>7. ASSUME NEW c \in Callbacks, RescopeTimerFires(c)
        PROVE  BarrierInv'
    BY <1>7 DEF RescopeTimerFires, Callers
  <1>8. ASSUME NEW c \in Callers, PushScopeStamp(c)
        PROVE  BarrierInv'
    <2> DEFINE n == scopeGen + 1
    <2>1. n \in Nat /\ n > scopeGen /\ n > 0
      OBVIOUS
    <2>2. /\ gen' = StampScopeGenLocked(scope, gen, n) /\ scopeGen' = n
          /\ UNCHANGED <<scope, docs, owed, client, pulls, deliveredGen, view,
                         rescopeTimer, pendingDiag, started>>
          /\ started
      BY <1>8 DEF PushScopeStamp
    <2> HIDE DEF n
    <2>3. \A u \in Units : \/ u \in scope /\ gen[u] = 0 /\ gen'[u] = n
                           \/ gen'[u] = gen[u] /\ ~(u \in scope /\ gen[u] = 0)
      BY <2>1, <2>2, StampValue
    <2>4. GenerationsStamped'
      <3>1. \A u \in Units : gen'[u] <= scopeGen' /\ (u \notin scope' => gen'[u] = 0)
        BY <2>1, <2>2, <2>3
      <3>2. /\ \A k \in PullIds : pulls'[k] <= scopeGen'
            /\ client'.gen <= scopeGen' /\ deliveredGen' <= scopeGen'
        BY <2>1, <2>2
      <3> QED  BY <3>1, <3>2
    <2>5. DeliveredUnitsInView'
      BY <2>1, <2>2, <2>3
    <2>6. FiltersCover'
      <3> SUFFICES ASSUME client.pc = "write", client.ok, NEW u \in scope, gen'[u] > 0,
                          gen'[u] <= client.gen \/ gen'[u] <= deliveredGen
                   PROVE  u \in client.filters
        BY <2>2
      <3>1. gen'[u] = gen[u]
        BY <2>1, <2>3
      <3> QED  BY <3>1
    <2> QED  BY <2>2, <2>4, <2>5, <2>6
  <1>9. ASSUME NEW c \in Callers, PushScopeWrite(c)
        PROVE  BarrierInv'
    BY <1>9 DEF PushScopeWrite
  <1>10. ASSUME NEW i \in PullIds, ConfigurationPull(i)
        PROVE  BarrierInv'
    BY <1>10 DEF ConfigurationPull
  <1>11. ASSUME NEW i \in PullIds, NEW ok \in BOOLEAN, HandleClientResponse(i, ok)
        PROVE  BarrierInv'
    BY <1>11 DEF HandleClientResponse, ClientReady
  <1>12. CASE PatchConfigResponse
    BY <1>12, FiltersCoverScope DEF PatchConfigResponse
  <1>13. CASE WriteConfigResponse
    BY <1>13, LargerIsMax DEF WriteConfigResponse, ConfirmedGen
  <1>14. CASE AdvanceApplied
    BY <1>14 DEF AdvanceApplied, IdleClient
  <1>15. ASSUME NEW g \in fallback, AppliedFallback(g)
        PROVE  BarrierInv'
    BY <1>15 DEF AppliedFallback
  <1>16. ASSUME NEW g \in fallback, AppliedFallbackCap(g)
        PROVE  BarrierInv'
    BY <1>16 DEF AppliedFallbackCap
  <1>17. ASSUME NEW r \in Requests, NEW need \in Needs, PublishUnits(r, need)
        PROVE  BarrierInv'
    BY <1>17, UnitsAssumption DEF PublishUnits, Callers
  <1>18. ASSUME NEW r \in Requests, AwaitApplied(r)
        PROVE  BarrierInv'
    BY <1>18 DEF AwaitApplied
  <1>19. ASSUME NEW r \in Requests, AwaitTimeout(r)
        PROVE  BarrierInv'
    BY <1>19 DEF AwaitTimeout
  <1>20. ASSUME NEW r \in Requests, Forward(r)
        PROVE  BarrierInv'
    BY <1>20 DEF Forward
  <1>21. CASE UNCHANGED vars
    BY <1>21 DEF vars
  <1> QED
    BY <1>1, <1>2, <1>3, <1>4, <1>5, <1>6, <1>7, <1>8, <1>9, <1>10, <1>11,
       <1>12, <1>13, <1>14, <1>15, <1>16, <1>17, <1>18, <1>19, <1>20, <1>21
       DEF Next

\* The barrier holds with eviction, late and reordered answers, errors and
\* forced generations alike.
THEOREM BarrierHolds == Spec => []DeliveredUnitsInView
  <1>1. TypeOK /\ BarrierInv /\ [Next]_vars => (TypeOK /\ BarrierInv)'
    BY TypeStep, BarrierStep
  <1>2. BarrierInv => DeliveredUnitsInView
    BY DEF BarrierInv
  <1> QED  BY TypeInit, BarrierInit, <1>1, <1>2, PTL DEF Spec

-----------------------------------------------------------------------------
(* Nothing in scope is forgotten, nothing open is evicted. *)

\* A step that leaves an entry unpublished leaves, or creates, what will
\* publish it.
LEMMA TriggerStep ==
    TypeOK /\ BarrierInv /\ UnpublishedHasTrigger /\ [Next]_vars
        => UnpublishedHasTrigger'
  <1> SUFFICES ASSUME TypeOK, BarrierInv, UnpublishedHasTrigger, [Next]_vars
               PROVE  UnpublishedHasTrigger'
    OBVIOUS
  <1> USE DEF TypeOK, UnpublishedHasTrigger,
              scopeVars, triggerVars, pullVars, applyVars
  <1>1. ASSUME NEW restored \in SUBSET Units, PatchInitialize(restored)
        PROVE  UnpublishedHasTrigger'
    <2>1. \A u \in Units : gen[u] = 0
      BY <1>1 DEF PatchInitialize, BarrierInv, QuietBeforeInitialize, GenerationsStamped
    <2>2. \A u \in restored : gen'[u] = 1
      BY <1>1, <2>1, StampValue DEF PatchInitialize
    <2> QED  BY <1>1, <2>2 DEF PatchInitialize
  <1>2. ASSUME NEW f \in Files, ObserveOpen(f)
        PROVE  UnpublishedHasTrigger'
    <2>1. UnitOf[f] \in Units
      BY UnitsAssumption
    <2>2. CASE UnitOf[f] \in scope \/ f \notin GoFiles
      BY <1>2, <2>1, <2>2 DEF ObserveOpen
    <2>3. CASE UnitOf[f] \notin scope /\ f \in GoFiles /\ scope = {}
      <3>1. rescopeTimer'
        BY <1>2, <2>3 DEF ObserveOpen
      <3> QED  BY <3>1
    <2>4. CASE UnitOf[f] \notin scope /\ f \in GoFiles /\ scope # {}
      <3>1. f \in pendingDiag'
        BY <1>2, <2>4 DEF ObserveOpen
      <3> QED  BY <3>1
    <2> QED  BY <2>2, <2>3, <2>4
  <1>3. ASSUME NEW f \in Files, ObserveClose(f)
        PROVE  UnpublishedHasTrigger'
    BY <1>3 DEF ObserveClose
  <1>4. ASSUME NEW f \in Files, DiagArrived(f)
        PROVE  UnpublishedHasTrigger'
    BY <1>4 DEF DiagArrived
  <1>5. ASSUME NEW u \in Units, IdleElapses(u)
        PROVE  UnpublishedHasTrigger'
    BY <1>5 DEF IdleElapses
  <1>6. CASE EvictIdleUnits
    BY <1>6 DEF EvictIdleUnits, IdleUnits, Callers
  <1>7. ASSUME NEW c \in Callbacks, RescopeTimerFires(c)
        PROVE  UnpublishedHasTrigger'
    BY <1>7 DEF RescopeTimerFires, Callers
  <1>8. ASSUME NEW c \in Callers, PushScopeStamp(c)
        PROVE  UnpublishedHasTrigger'
    <2> DEFINE n == scopeGen + 1
    <2>1. n \in Nat /\ n > 0
      OBVIOUS
    <2>2. gen' = StampScopeGenLocked(scope, gen, n) /\ UNCHANGED scope
      BY <1>8 DEF PushScopeStamp
    <2> HIDE DEF n
    <2>3. \A u \in scope : gen'[u] # 0
      BY <2>1, <2>2, StampValue
    <2> QED  BY <2>2, <2>3
  <1>9. ASSUME NEW c \in Callers, PushScopeWrite(c)
        PROVE  UnpublishedHasTrigger'
    BY <1>9 DEF PushScopeWrite
  <1>10. ASSUME NEW i \in PullIds, ConfigurationPull(i)
        PROVE  UnpublishedHasTrigger'
    BY <1>10 DEF ConfigurationPull
  <1>11. ASSUME NEW i \in PullIds, NEW ok \in BOOLEAN, HandleClientResponse(i, ok)
        PROVE  UnpublishedHasTrigger'
    BY <1>11 DEF HandleClientResponse
  <1>12. CASE PatchConfigResponse
    BY <1>12 DEF PatchConfigResponse
  <1>13. CASE WriteConfigResponse
    BY <1>13 DEF WriteConfigResponse
  <1>14. CASE AdvanceApplied
    BY <1>14 DEF AdvanceApplied
  <1>15. ASSUME NEW g \in fallback, AppliedFallback(g)
        PROVE  UnpublishedHasTrigger'
    BY <1>15 DEF AppliedFallback
  <1>16. ASSUME NEW g \in fallback, AppliedFallbackCap(g)
        PROVE  UnpublishedHasTrigger'
    BY <1>16 DEF AppliedFallbackCap
  <1>17. ASSUME NEW r \in Requests, NEW need \in Needs, PublishUnits(r, need)
        PROVE  UnpublishedHasTrigger'
    <2>1. need \in SUBSET Units /\ r \in Callers
      BY UnitsAssumption DEF Callers
    <2>2. CASE NeedPush(need)
      <3>1. pusher'[r].pc = "stamp"
        BY <1>17, <2>1, <2>2 DEF PublishUnits
      <3> QED  BY <2>1, <3>1
    <2>3. CASE ~NeedPush(need)
      BY <1>17, <2>1, <2>3 DEF PublishUnits, NeedPush
    <2> QED  BY <2>2, <2>3
  <1>18. ASSUME NEW r \in Requests, AwaitApplied(r)
        PROVE  UnpublishedHasTrigger'
    BY <1>18 DEF AwaitApplied
  <1>19. ASSUME NEW r \in Requests, AwaitTimeout(r)
        PROVE  UnpublishedHasTrigger'
    BY <1>19 DEF AwaitTimeout
  <1>20. ASSUME NEW r \in Requests, Forward(r)
        PROVE  UnpublishedHasTrigger'
    BY <1>20 DEF Forward
  <1>21. CASE UNCHANGED vars
    BY <1>21 DEF vars
  <1> QED
    BY <1>1, <1>2, <1>3, <1>4, <1>5, <1>6, <1>7, <1>8, <1>9, <1>10, <1>11,
       <1>12, <1>13, <1>14, <1>15, <1>16, <1>17, <1>18, <1>19, <1>20, <1>21
       DEF Next

\* Whatever happens between an entry's creation and its publication, a timer,
\* an awaited diagnostic or a pushScope is left to publish it.
THEOREM TriggerHolds == Spec => []UnpublishedHasTrigger
  <1>1. Init => UnpublishedHasTrigger
    BY DEF Init, UnpublishedHasTrigger
  <1>2. TypeOK /\ BarrierInv /\ UnpublishedHasTrigger /\ [Next]_vars
          => (TypeOK /\ BarrierInv /\ UnpublishedHasTrigger)'
    BY TypeStep, BarrierStep, TriggerStep
  <1> QED  BY TypeInit, BarrierInit, <1>1, <1>2, PTL DEF Spec

\* Only a close takes a Go file out of its entry, and eviction skips entries
\* with open files.
LEMMA OpenFilesStep ==
    TypeOK /\ BarrierInv /\ OpenFilesInScope /\ [Next]_vars => OpenFilesInScope'
  <1> SUFFICES ASSUME TypeOK, BarrierInv, OpenFilesInScope, [Next]_vars
               PROVE  OpenFilesInScope'
    OBVIOUS
  <1> USE UnitsAssumption
      DEF TypeOK, OpenFilesInScope, scopeVars, triggerVars, pullVars, applyVars
  <1>1. ASSUME NEW restored \in SUBSET Units, PatchInitialize(restored)
        PROVE  OpenFilesInScope'
    BY <1>1 DEF PatchInitialize, BarrierInv, QuietBeforeInitialize
  <1>2. ASSUME NEW f \in Files, ObserveOpen(f)
        PROVE  OpenFilesInScope'
    BY <1>2 DEF ObserveOpen
  <1>3. ASSUME NEW f \in Files, ObserveClose(f)
        PROVE  OpenFilesInScope'
    BY <1>3 DEF ObserveClose
  <1>4. ASSUME NEW f \in Files, DiagArrived(f)
        PROVE  OpenFilesInScope'
    BY <1>4 DEF DiagArrived
  <1>5. ASSUME NEW u \in Units, IdleElapses(u)
        PROVE  OpenFilesInScope'
    BY <1>5 DEF IdleElapses
  <1>6. CASE EvictIdleUnits
    BY <1>6 DEF EvictIdleUnits, IdleUnits
  <1>7. ASSUME NEW c \in Callbacks, RescopeTimerFires(c)
        PROVE  OpenFilesInScope'
    BY <1>7 DEF RescopeTimerFires
  <1>8. ASSUME NEW c \in Callers, PushScopeStamp(c)
        PROVE  OpenFilesInScope'
    BY <1>8 DEF PushScopeStamp
  <1>9. ASSUME NEW c \in Callers, PushScopeWrite(c)
        PROVE  OpenFilesInScope'
    BY <1>9 DEF PushScopeWrite
  <1>10. ASSUME NEW i \in PullIds, ConfigurationPull(i)
        PROVE  OpenFilesInScope'
    BY <1>10 DEF ConfigurationPull
  <1>11. ASSUME NEW i \in PullIds, NEW ok \in BOOLEAN, HandleClientResponse(i, ok)
        PROVE  OpenFilesInScope'
    BY <1>11 DEF HandleClientResponse
  <1>12. CASE PatchConfigResponse
    BY <1>12 DEF PatchConfigResponse
  <1>13. CASE WriteConfigResponse
    BY <1>13 DEF WriteConfigResponse
  <1>14. CASE AdvanceApplied
    BY <1>14 DEF AdvanceApplied
  <1>15. ASSUME NEW g \in fallback, AppliedFallback(g)
        PROVE  OpenFilesInScope'
    BY <1>15 DEF AppliedFallback
  <1>16. ASSUME NEW g \in fallback, AppliedFallbackCap(g)
        PROVE  OpenFilesInScope'
    BY <1>16 DEF AppliedFallbackCap
  <1>17. ASSUME NEW r \in Requests, NEW need \in Needs, PublishUnits(r, need)
        PROVE  OpenFilesInScope'
    BY <1>17 DEF PublishUnits
  <1>18. ASSUME NEW r \in Requests, AwaitApplied(r)
        PROVE  OpenFilesInScope'
    BY <1>18 DEF AwaitApplied
  <1>19. ASSUME NEW r \in Requests, AwaitTimeout(r)
        PROVE  OpenFilesInScope'
    BY <1>19 DEF AwaitTimeout
  <1>20. ASSUME NEW r \in Requests, Forward(r)
        PROVE  OpenFilesInScope'
    BY <1>20 DEF Forward
  <1>21. CASE UNCHANGED vars
    BY <1>21 DEF vars
  <1> HIDE DEF TypeOK, OpenFilesInScope
  <1> QED
    BY <1>1, <1>2, <1>3, <1>4, <1>5, <1>6, <1>7, <1>8, <1>9, <1>10, <1>11,
       <1>12, <1>13, <1>14, <1>15, <1>16, <1>17, <1>18, <1>19, <1>20, <1>21
       DEF Next

\* The unit of an open Go file is never evicted.
THEOREM OpenFilesHold == Spec => []OpenFilesInScope
  <1>1. Init => OpenFilesInScope
    BY DEF Init, OpenFilesInScope
  <1>2. TypeOK /\ BarrierInv /\ OpenFilesInScope /\ [Next]_vars
          => (TypeOK /\ BarrierInv /\ OpenFilesInScope)'
    BY TypeStep, BarrierStep, OpenFilesStep
  <1> QED  BY TypeInit, BarrierInit, <1>1, <1>2, PTL DEF Spec

-----------------------------------------------------------------------------
(* Cross-references see their closure as long as nothing is evicted. *)

\* Without eviction a request keeps the units it needs in scope, published no
\* later than the generation it awaits.
LEMMA NeedsStep ==
    ASSUME ~EvictEnabled
    PROVE  TypeOK /\ BarrierInv /\ NeedsPublished /\ [Next]_vars => NeedsPublished'
  <1> SUFFICES ASSUME TypeOK, BarrierInv, NeedsPublished, [Next]_vars
               PROVE  NeedsPublished'
    OBVIOUS
  <1> USE DEF TypeOK, NeedsPublished, scopeVars, triggerVars, pullVars, applyVars
  <1>1. ASSUME NEW restored \in SUBSET Units, PatchInitialize(restored)
        PROVE  NeedsPublished'
    <2>1. scope = {} /\ \A c \in Callers : pusher[c].pc = "off"
      BY <1>1 DEF PatchInitialize, BarrierInv, QuietBeforeInitialize
    <2>2. Requests \subseteq Callers
      BY DEF Callers
    <2> QED  BY <1>1, <2>1, <2>2 DEF PatchInitialize
  <1>2. ASSUME NEW f \in Files, ObserveOpen(f)
        PROVE  NeedsPublished'
    BY <1>2, UnitsAssumption DEF ObserveOpen
  <1>3. ASSUME NEW f \in Files, ObserveClose(f)
        PROVE  NeedsPublished'
    BY <1>3 DEF ObserveClose
  <1>4. ASSUME NEW f \in Files, DiagArrived(f)
        PROVE  NeedsPublished'
    BY <1>4 DEF DiagArrived
  <1>5. ASSUME NEW u \in Units, IdleElapses(u)
        PROVE  NeedsPublished'
    BY <1>5 DEF IdleElapses
  <1>6. CASE EvictIdleUnits
    BY <1>6 DEF EvictIdleUnits
  <1>7. ASSUME NEW c \in Callbacks, RescopeTimerFires(c)
        PROVE  NeedsPublished'
    BY <1>7, CallersAssumption DEF RescopeTimerFires, Callers
  <1>8. ASSUME NEW c \in Callers, PushScopeStamp(c)
        PROVE  NeedsPublished'
    <2> DEFINE n == scopeGen + 1
    <2>1. n \in Nat /\ n > 0 /\ \A u \in Units : gen[u] <= n
      BY DEF BarrierInv, GenerationsStamped
    <2>2. /\ gen' = StampScopeGenLocked(scope, gen, n)
          /\ UNCHANGED <<scope, req>>
          /\ pusher[c].pc = "stamp"
          /\ pusher' = [pusher EXCEPT ![c] = [pc |-> "write", gen |-> n]]
      BY <1>8 DEF PushScopeStamp
    <2> HIDE DEF n
    <2>3. \A u \in scope : gen'[u] > 0 /\ gen'[u] <= n
      BY <2>1, <2>2, StampValue
    <2>4. \A u \in Units : gen[u] > 0 => gen'[u] = gen[u]
      BY <2>1, <2>2, StampValue
    <2> SUFFICES ASSUME NEW r \in Requests
                 PROVE  NeedsPublished!(r)'
      OBVIOUS
    <2>5. CASE r = c
      BY <2>1, <2>2, <2>3, <2>5
    <2>6. CASE r # c
      BY <2>2, <2>4, <2>6 DEF Callers
    <2> QED  BY <2>5, <2>6
  <1>9. ASSUME NEW c \in Callers, PushScopeWrite(c)
        PROVE  NeedsPublished'
    <2> SUFFICES ASSUME NEW r \in Requests
                 PROVE  NeedsPublished!(r)'
      OBVIOUS
    <2>1. CASE r = c
      BY <1>9, <2>1 DEF PushScopeWrite, Callers
    <2>2. CASE r # c
      BY <1>9, <2>2 DEF PushScopeWrite, Callers
    <2> QED  BY <2>1, <2>2
  <1>10. ASSUME NEW i \in PullIds, ConfigurationPull(i)
        PROVE  NeedsPublished'
    BY <1>10 DEF ConfigurationPull
  <1>11. ASSUME NEW i \in PullIds, NEW ok \in BOOLEAN, HandleClientResponse(i, ok)
        PROVE  NeedsPublished'
    BY <1>11 DEF HandleClientResponse
  <1>12. CASE PatchConfigResponse
    BY <1>12 DEF PatchConfigResponse
  <1>13. CASE WriteConfigResponse
    BY <1>13 DEF WriteConfigResponse
  <1>14. CASE AdvanceApplied
    BY <1>14 DEF AdvanceApplied
  <1>15. ASSUME NEW g \in fallback, AppliedFallback(g)
        PROVE  NeedsPublished'
    BY <1>15 DEF AppliedFallback
  <1>16. ASSUME NEW g \in fallback, AppliedFallbackCap(g)
        PROVE  NeedsPublished'
    BY <1>16 DEF AppliedFallbackCap
  <1>17. ASSUME NEW r \in Requests, NEW need \in Needs, PublishUnits(r, need)
        PROVE  NeedsPublished'
    <2>1. need \in SUBSET Units /\ Requests \subseteq Callers
      BY UnitsAssumption DEF Callers
    <2> SUFFICES ASSUME NEW q \in Requests
                 PROVE  NeedsPublished!(q)'
      OBVIOUS
    <2>2. CASE q # r
      BY <1>17, <2>1, <2>2 DEF PublishUnits
    <2>3. CASE q = r /\ NeedPush(need)
      BY <1>17, <2>1, <2>3 DEF PublishUnits
    <2>4. CASE q = r /\ ~NeedPush(need)
      BY <1>17, <2>1, <2>4 DEF PublishUnits, NeedPush, IsHighestGen
    <2> QED  BY <2>2, <2>3, <2>4
  <1>18. ASSUME NEW r \in Requests, AwaitApplied(r)
        PROVE  NeedsPublished'
    BY <1>18 DEF AwaitApplied
  <1>19. ASSUME NEW r \in Requests, AwaitTimeout(r)
        PROVE  NeedsPublished'
    BY <1>19 DEF AwaitTimeout
  <1>20. ASSUME NEW r \in Requests, Forward(r)
        PROVE  NeedsPublished'
    BY <1>20 DEF Forward
  <1>21. CASE UNCHANGED vars
    BY <1>21 DEF vars
  <1> HIDE DEF TypeOK, NeedsPublished
  <1> QED
    BY <1>1, <1>2, <1>3, <1>4, <1>5, <1>6, <1>7, <1>8, <1>9, <1>10, <1>11,
       <1>12, <1>13, <1>14, <1>15, <1>16, <1>17, <1>18, <1>19, <1>20, <1>21
       DEF Next

\* With evictTTL = 0, a request that awaitApplied let through on a delivered
\* generation sees its whole closure.
THEOREM ClosureHolds ==
    ASSUME ~EvictEnabled
    PROVE  Spec => []CrossRefSeesClosure
  <1>1. Init => NeedsPublished
    BY DEF Init, NeedsPublished, Callers
  <1>2. TypeOK /\ BarrierInv /\ NeedsPublished /\ [Next]_vars
          => (TypeOK /\ BarrierInv /\ NeedsPublished)'
    BY TypeStep, BarrierStep, NeedsStep
  <1>3. TypeOK /\ BarrierInv /\ NeedsPublished => CrossRefSeesClosure
    BY DEF TypeOK, BarrierInv, DeliveredUnitsInView, NeedsPublished,
           CrossRefSeesClosure
  <1> QED  BY TypeInit, BarrierInit, <1>1, <1>2, <1>3, PTL DEF Spec

-----------------------------------------------------------------------------
(* appliedGen is backed by a delivery. *)

\* Without error answers the barrier only moves to a delivered or a forced
\* generation.
LEMMA AppliedStep ==
    ASSUME ~EditorErrors
    PROVE  TypeOK /\ BarrierInv /\ ResponsePatched /\ AppliedIsDelivered /\ [Next]_vars
             => (ResponsePatched /\ AppliedIsDelivered)'
  <1> SUFFICES ASSUME TypeOK, BarrierInv, ResponsePatched, AppliedIsDelivered,
                      [Next]_vars
               PROVE  (ResponsePatched /\ AppliedIsDelivered)'
    OBVIOUS
  <1> USE DEF TypeOK, ResponsePatched, AppliedIsDelivered, Larger,
              scopeVars, triggerVars, pullVars, applyVars
  <1>1. ASSUME NEW restored \in SUBSET Units, PatchInitialize(restored)
        PROVE  (ResponsePatched /\ AppliedIsDelivered)'
    BY <1>1 DEF PatchInitialize, BarrierInv, QuietBeforeInitialize
  <1>2. ASSUME NEW f \in Files, ObserveOpen(f)
        PROVE  (ResponsePatched /\ AppliedIsDelivered)'
    BY <1>2 DEF ObserveOpen
  <1>3. ASSUME NEW f \in Files, ObserveClose(f)
        PROVE  (ResponsePatched /\ AppliedIsDelivered)'
    BY <1>3 DEF ObserveClose
  <1>4. ASSUME NEW f \in Files, DiagArrived(f)
        PROVE  (ResponsePatched /\ AppliedIsDelivered)'
    BY <1>4 DEF DiagArrived
  <1>5. ASSUME NEW u \in Units, IdleElapses(u)
        PROVE  (ResponsePatched /\ AppliedIsDelivered)'
    BY <1>5 DEF IdleElapses
  <1>6. CASE EvictIdleUnits
    BY <1>6 DEF EvictIdleUnits
  <1>7. ASSUME NEW c \in Callbacks, RescopeTimerFires(c)
        PROVE  (ResponsePatched /\ AppliedIsDelivered)'
    BY <1>7 DEF RescopeTimerFires
  <1>8. ASSUME NEW c \in Callers, PushScopeStamp(c)
        PROVE  (ResponsePatched /\ AppliedIsDelivered)'
    BY <1>8 DEF PushScopeStamp
  <1>9. ASSUME NEW c \in Callers, PushScopeWrite(c)
        PROVE  (ResponsePatched /\ AppliedIsDelivered)'
    BY <1>9 DEF PushScopeWrite
  <1>10. ASSUME NEW i \in PullIds, ConfigurationPull(i)
        PROVE  (ResponsePatched /\ AppliedIsDelivered)'
    BY <1>10 DEF ConfigurationPull
  <1>11. ASSUME NEW i \in PullIds, NEW ok \in BOOLEAN, HandleClientResponse(i, ok)
        PROVE  (ResponsePatched /\ AppliedIsDelivered)'
    BY <1>11 DEF HandleClientResponse
  <1>12. CASE PatchConfigResponse
    BY <1>12 DEF PatchConfigResponse
  <1>13. CASE WriteConfigResponse
    BY <1>13 DEF WriteConfigResponse, ConfirmedGen
  <1>14. CASE AdvanceApplied
    BY <1>14 DEF AdvanceApplied, ConfirmedGen, IdleClient
  <1>15. ASSUME NEW g \in fallback, AppliedFallback(g)
        PROVE  (ResponsePatched /\ AppliedIsDelivered)'
    BY <1>15 DEF AppliedFallback
  <1>16. ASSUME NEW g \in fallback, AppliedFallbackCap(g)
        PROVE  (ResponsePatched /\ AppliedIsDelivered)'
    BY <1>16 DEF AppliedFallbackCap
  <1>17. ASSUME NEW r \in Requests, NEW need \in Needs, PublishUnits(r, need)
        PROVE  (ResponsePatched /\ AppliedIsDelivered)'
    BY <1>17 DEF PublishUnits
  <1>18. ASSUME NEW r \in Requests, AwaitApplied(r)
        PROVE  (ResponsePatched /\ AppliedIsDelivered)'
    BY <1>18 DEF AwaitApplied
  <1>19. ASSUME NEW r \in Requests, AwaitTimeout(r)
        PROVE  (ResponsePatched /\ AppliedIsDelivered)'
    BY <1>19 DEF AwaitTimeout
  <1>20. ASSUME NEW r \in Requests, Forward(r)
        PROVE  (ResponsePatched /\ AppliedIsDelivered)'
    BY <1>20 DEF Forward
  <1>21. CASE UNCHANGED vars
    BY <1>21 DEF vars
  <1> QED
    BY <1>1, <1>2, <1>3, <1>4, <1>5, <1>6, <1>7, <1>8, <1>9, <1>10, <1>11,
       <1>12, <1>13, <1>14, <1>15, <1>16, <1>17, <1>18, <1>19, <1>20, <1>21
       DEF Next

\* When the editor answers pulls with arrays, appliedGen only claims what was
\* delivered or what a fallback timer forced.
THEOREM AppliedHolds ==
    ASSUME ~EditorErrors
    PROVE  Spec => []AppliedIsDelivered
  <1>1. Init => ResponsePatched /\ AppliedIsDelivered
    BY DEF Init, ResponsePatched, AppliedIsDelivered, IdleClient, Larger
  <1>2. TypeOK /\ BarrierInv /\ ResponsePatched /\ AppliedIsDelivered /\ [Next]_vars
          => (TypeOK /\ BarrierInv /\ ResponsePatched /\ AppliedIsDelivered)'
    BY TypeStep, BarrierStep, AppliedStep
  <1> QED  BY TypeInit, BarrierInit, <1>1, <1>2, PTL DEF Spec

-----------------------------------------------------------------------------
(* The fallback timer and unanswered pulls. *)

\* A pending pull was seen: the flag that disarms the short fallback timer is
\* set together with the pull's entry and never reset.
PullsSeen == ~sawConfigPull => \A i \in PullIds : pulls[i] = 0

LEMMA PullsInit == Init => PullsSeen
  BY DEF Init, PullsSeen

LEMMA PullsStep == TypeOK /\ PullsSeen /\ [Next]_vars => PullsSeen'
  <1> SUFFICES ASSUME TypeOK, PullsSeen, [Next]_vars
               PROVE  PullsSeen'
    OBVIOUS
  <1> USE DEF PullsSeen, pullVars
  <1>1. ASSUME NEW restored \in SUBSET Units, PatchInitialize(restored)
        PROVE  PullsSeen'
    BY <1>1 DEF PatchInitialize
  <1>2. ASSUME NEW f \in Files, ObserveOpen(f)
        PROVE  PullsSeen'
    BY <1>2 DEF ObserveOpen
  <1>3. ASSUME NEW f \in Files, ObserveClose(f)
        PROVE  PullsSeen'
    BY <1>3 DEF ObserveClose
  <1>4. ASSUME NEW f \in Files, DiagArrived(f)
        PROVE  PullsSeen'
    BY <1>4 DEF DiagArrived
  <1>5. ASSUME NEW u \in Units, IdleElapses(u)
        PROVE  PullsSeen'
    BY <1>5 DEF IdleElapses
  <1>6. CASE EvictIdleUnits
    BY <1>6 DEF EvictIdleUnits
  <1>7. ASSUME NEW c \in Callbacks, RescopeTimerFires(c)
        PROVE  PullsSeen'
    BY <1>7 DEF RescopeTimerFires
  <1>8. ASSUME NEW c \in Callers, PushScopeStamp(c)
        PROVE  PullsSeen'
    BY <1>8 DEF PushScopeStamp
  <1>9. ASSUME NEW c \in Callers, PushScopeWrite(c)
        PROVE  PullsSeen'
    BY <1>9 DEF PushScopeWrite
  <1>10. ASSUME NEW i \in PullIds, ConfigurationPull(i)
        PROVE  PullsSeen'
    BY <1>10 DEF ConfigurationPull, TypeOK
  <1>11. ASSUME NEW i \in PullIds, NEW ok \in BOOLEAN, HandleClientResponse(i, ok)
        PROVE  PullsSeen'
    BY <1>11 DEF HandleClientResponse, TypeOK
  <1>12. CASE PatchConfigResponse
    BY <1>12 DEF PatchConfigResponse
  <1>13. CASE WriteConfigResponse
    BY <1>13 DEF WriteConfigResponse
  <1>14. CASE AdvanceApplied
    BY <1>14 DEF AdvanceApplied
  <1>15. ASSUME NEW g \in fallback, AppliedFallback(g)
        PROVE  PullsSeen'
    BY <1>15 DEF AppliedFallback
  <1>16. ASSUME NEW g \in fallback, AppliedFallbackCap(g)
        PROVE  PullsSeen'
    BY <1>16 DEF AppliedFallbackCap
  <1>17. ASSUME NEW r \in Requests, NEW need \in Needs, PublishUnits(r, need)
        PROVE  PullsSeen'
    BY <1>17 DEF PublishUnits
  <1>18. ASSUME NEW r \in Requests, AwaitApplied(r)
        PROVE  PullsSeen'
    BY <1>18 DEF AwaitApplied
  <1>19. ASSUME NEW r \in Requests, AwaitTimeout(r)
        PROVE  PullsSeen'
    BY <1>19 DEF AwaitTimeout
  <1>20. ASSUME NEW r \in Requests, Forward(r)
        PROVE  PullsSeen'
    BY <1>20 DEF Forward
  <1>21. CASE UNCHANGED vars
    BY <1>21 DEF vars
  <1> QED
    BY <1>1, <1>2, <1>3, <1>4, <1>5, <1>6, <1>7, <1>8, <1>9, <1>10, <1>11,
       <1>12, <1>13, <1>14, <1>15, <1>16, <1>17, <1>18, <1>19, <1>20, <1>21
       DEF Next

\* The short timer of scheduleAppliedFallback moves appliedGen only while no
\* configuration pull of gopls is waiting for the editor's answer.
THEOREM NoForce == Spec => NoForceWhilePullPending
  <1>1. PullsSeen => \A g \in fallback :
                        AppliedFallback(g) /\ appliedGen' # appliedGen
                          => \A i \in PullIds : pulls[i] = 0
    BY DEF PullsSeen, AppliedFallback
  <1>2. PullsSeen /\ [Next]_vars
          => [\A g \in fallback : AppliedFallback(g) /\ appliedGen' # appliedGen
                => \A i \in PullIds : pulls[i] = 0]_vars
    BY <1>1
  <1> QED
    BY TypeInit, TypeStep, PullsInit, PullsStep, <1>2, PTL
       DEF Spec, NoForceWhilePullPending

-----------------------------------------------------------------------------
(* What the barrier shows of a unit. *)

\* Timers that still count after the barrier has moved to a are ahead of it.
LEMMA PendingAhead ==
    ASSUME NEW timers \in SUBSET Nat, NEW a \in Nat
    PROVE  StillPending(timers, a) = {g \in timers : a < g} /\ StillPending(timers, a) \subseteq timers
  BY DEF StillPending

\* The barrier never gets ahead of the stamps: a pusher and its timer carry a generation
\* that was stamped, a response one that was current when its pull passed.
LEMMA BehindStep == TypeOK /\ BarrierInv /\ AppliedBehind /\ [Next]_vars => AppliedBehind'
  <1> SUFFICES ASSUME TypeOK, BarrierInv, AppliedBehind, [Next]_vars
               PROVE  AppliedBehind'
    OBVIOUS
  <1> USE DEF AppliedBehind, applyVars
  <1>1. ASSUME NEW restored \in SUBSET Units, PatchInitialize(restored)
        PROVE  AppliedBehind'
    <2>1. scopeGen = 0 /\ scopeGen' = 1 /\ appliedGen' = 1 /\ UNCHANGED <<pusher, fallback>>
      BY <1>1 DEF PatchInitialize, BarrierInv, QuietBeforeInitialize
    <2>2. fallback = {} /\ \A c \in Callers : pusher[c].gen <= 0
      BY <2>1 DEF TypeOK
    <2> QED BY <2>1, <2>2 DEF TypeOK
  <1>2. ASSUME NEW c \in Callers, PushScopeStamp(c)
        PROVE  AppliedBehind'
    BY <1>2 DEF PushScopeStamp, TypeOK
  <1>3. ASSUME NEW c \in Callers, PushScopeWrite(c)
        PROVE  AppliedBehind'
    <2>0. pusher \in [Callers -> [pc : {"off", "stamp", "write"}, gen : Nat]] /\ fallback \subseteq Nat
          /\ appliedGen \in Nat /\ scopeGen \in Nat
      BY DEF TypeOK
    <2>1. pusher[c].gen \in Nat /\ fallback \cup {pusher[c].gen} \in SUBSET Nat
      BY <2>0
    <2>2. fallback' = {g \in fallback \cup {pusher[c].gen} : appliedGen < g}
      BY <1>3, <2>1, PendingAhead DEF PushScopeWrite, TypeOK
    <2>3. UNCHANGED <<scopeGen, appliedGen>> /\ \A d \in Callers : pusher'[d].gen <= scopeGen
      BY <1>3, <2>0 DEF PushScopeWrite
    <2>4. \A g \in fallback' : appliedGen < g /\ g <= scopeGen
      BY <2>0, <2>1, <2>2
    <2> QED BY <2>3, <2>4
  <1>4. CASE AdvanceApplied
    <2>1. client.gen \in Nat /\ client.gen <= scopeGen
      BY DEF TypeOK, BarrierInv, GenerationsStamped
    <2>2. appliedGen' \in Nat /\ appliedGen' <= scopeGen
      BY <1>4, <2>1 DEF AdvanceApplied, ConfirmedGen, Larger, TypeOK
    <2>3. fallback' = {g \in fallback : appliedGen' < g}
      BY <1>4, <2>2, PendingAhead DEF AdvanceApplied, TypeOK
    <2> QED BY <1>4, <2>2, <2>3 DEF AdvanceApplied, TypeOK
  <1>5. ASSUME NEW g \in fallback, AppliedFallback(g) \/ AppliedFallbackCap(g)
        PROVE  AppliedBehind'
    <2>1. g \in Nat /\ appliedGen' = g /\ UNCHANGED <<scopeGen, pusher>>
      BY <1>5 DEF AppliedFallback, AppliedFallbackCap, TypeOK
    <2>2. fallback' = {h \in fallback : g < h}
      BY <1>5, <2>1, PendingAhead DEF AppliedFallback, AppliedFallbackCap, TypeOK
    <2> QED BY <2>1, <2>2 DEF TypeOK
  <1>6. ASSUME NEW c \in Callbacks, RescopeTimerFires(c)
        PROVE  AppliedBehind'
    BY <1>6 DEF RescopeTimerFires, TypeOK, Callers
  <1>7. CASE EvictIdleUnits
    BY <1>7 DEF EvictIdleUnits, TypeOK, Callers
  <1>8. ASSUME NEW r \in Requests, NEW need \in Needs, PublishUnits(r, need)
        PROVE  AppliedBehind'
    BY <1>8 DEF PublishUnits, TypeOK, Callers
  <1>9. ASSUME UNCHANGED <<scopeGen, appliedGen, fallback, pusher>>
        PROVE  AppliedBehind'
    BY <1>9
  <1>10. ASSUME NEW f \in Files, ObserveOpen(f) \/ ObserveClose(f) \/ DiagArrived(f)
         PROVE  UNCHANGED <<scopeGen, appliedGen, fallback, pusher>>
    BY <1>10 DEF ObserveOpen, ObserveClose, DiagArrived
  <1>11. ASSUME NEW u \in Units, IdleElapses(u)
         PROVE  UNCHANGED <<scopeGen, appliedGen, fallback, pusher>>
    BY <1>11 DEF IdleElapses
  <1>12. ASSUME NEW i \in PullIds, ConfigurationPull(i) \/ \E ok \in BOOLEAN : HandleClientResponse(i, ok)
         PROVE  UNCHANGED <<scopeGen, appliedGen, fallback, pusher>>
    BY <1>12 DEF ConfigurationPull, HandleClientResponse
  <1>13. ASSUME PatchConfigResponse \/ WriteConfigResponse \/ UNCHANGED vars
         PROVE  UNCHANGED <<scopeGen, appliedGen, fallback, pusher>>
    BY <1>13 DEF PatchConfigResponse, WriteConfigResponse, vars
  <1>14. ASSUME NEW r \in Requests, AwaitApplied(r) \/ AwaitTimeout(r) \/ Forward(r)
         PROVE  UNCHANGED <<scopeGen, appliedGen, fallback, pusher>>
    BY <1>14 DEF AwaitApplied, AwaitTimeout, Forward
  <1> QED
    BY <1>1, <1>2, <1>3, <1>4, <1>5, <1>6, <1>7, <1>8, <1>9, <1>10, <1>11, <1>12, <1>13, <1>14
       DEF Next

\* What one step shows of the units.
ShownStep == IF started THEN [Shown!Next]_(Shown!vars) ELSE started' => Shown!Init'

\* A step that leaves the scope, the generations and the documents alone shows nothing.
LEMMA ShowsNothing ==
    ASSUME UNCHANGED <<started, docs, scope, gen, appliedGen>>
    PROVE  ShownStep
  <1>1. \A u \in Units : UnitState(u)' = UnitState(u)
    BY DEF UnitState
  <1>2. UNCHANGED Shown!vars
    BY <1>1 DEF Shown!vars
  <1> QED BY <1>2 DEF ShownStep

\* When only the barrier moves, and not back, some pending units become applied.
LEMMA ShowsApplied ==
    ASSUME TypeOK, appliedGen' \in Nat, appliedGen <= appliedGen',
           UNCHANGED <<started, docs, scope, gen>>
    PROVE  ShownStep
  <1> DEFINE S == {u \in Units : UnitState(u) = "pending" /\ UnitState(u)' = "applied"}
  <1>1. \A u \in Units : UnitState(u)' = IF u \in S THEN "applied" ELSE UnitState(u)
    BY DEF UnitState, TypeOK
  <1>2. \A u \in S : [v \in Units |-> UnitState(v)][u] = "pending"
    OBVIOUS
  <1>3. S \in SUBSET Units
    OBVIOUS
  <1> HIDE DEF S
  <1>4. Shown!Apply(S)
    BY <1>1, <1>2, <1>3 DEF Shown!Apply, Shown!Moved
  <1> QED BY <1>3, <1>4 DEF ShownStep, Shown!Next

\* Every step of the barrier is one that ScopeUnits allows.
LEMMA ShownFollows ==
    TypeOK /\ BarrierInv /\ AppliedBehind /\ OpenFilesInScope /\ [Next]_vars => ShownStep
  <1> SUFFICES ASSUME TypeOK, BarrierInv, AppliedBehind, OpenFilesInScope, [Next]_vars
               PROVE  ShownStep
    OBVIOUS
  <1> USE DEF scopeVars, applyVars
  <1>1. ASSUME NEW restored \in SUBSET Units, PatchInitialize(restored)
        PROVE  ShownStep
    <2>1. ~started /\ scope' = restored /\ appliedGen' = 1 /\ docs = {} /\ docs' = docs
          /\ gen' = StampScopeGenLocked(restored, gen, 1) /\ \A u \in Units : gen[u] = 0
      BY <1>1 DEF PatchInitialize, BarrierInv, QuietBeforeInitialize, GenerationsStamped
    <2>2. \A u \in restored : gen'[u] = 1
      BY <2>1, StampValue DEF TypeOK
    <2>3. \A u \in Units : UnitState(u)' \in {"none", "applied"}
      BY <2>1, <2>2 DEF UnitState
    <2>4. Shown!Init'
      BY <2>1, <2>3 DEF Shown!Init
    <2> QED BY <2>1, <2>4 DEF ShownStep
  <1>2. ASSUME NEW f \in Files, ObserveOpen(f)
        PROVE  ShownStep
    <2>1. CASE f \in GoFiles
      <3> DEFINE w == UnitOf[f]
      <3>1. w \in Units /\ scope' = scope \cup {w} /\ UNCHANGED <<gen, appliedGen, started>>
            /\ docs' = docs \cup {f} /\ started
        BY <1>2, <2>1, UnitsAssumption DEF ObserveOpen, ClientReady
      <3>2. w \notin scope => gen[w] = 0
        BY <3>1 DEF BarrierInv, GenerationsStamped
      <3> DEFINE S == {w} \cap {u \in Units : [v \in Units |-> UnitState(v)][u] = "none"}
      <3>3. \A u \in Units : UnitState(u)' = IF u \in S THEN "pending" ELSE UnitState(u)
        BY <3>1, <3>2 DEF UnitState
      <3>4. (docs \cap GoFiles)' = (docs \cap GoFiles) \cup {f}
        BY <2>1, <3>1
      <3>5. Shown!Open(f)
        BY <3>3, <3>4 DEF Shown!Open, Shown!Moved
      <3> QED BY <2>1, <3>1, <3>5 DEF ShownStep, Shown!Next
    <2>2. CASE f \notin GoFiles
      <3>1. UNCHANGED <<started, scope, gen, appliedGen>> /\ docs' \cap GoFiles = docs \cap GoFiles /\ started
        BY <1>2, <2>2 DEF ObserveOpen, ClientReady
      <3>2. \A u \in Units : UnitState(u)' = UnitState(u)
        BY <3>1 DEF UnitState
      <3>3. UNCHANGED Shown!vars
        BY <3>1, <3>2 DEF Shown!vars
      <3> QED BY <3>3, <3>1 DEF ShownStep
    <2> QED BY <2>1, <2>2
  <1>3. ASSUME NEW f \in Files, ObserveClose(f)
        PROVE  ShownStep
    <2>1. UNCHANGED <<started, scope, gen, appliedGen>> /\ docs' = docs \ {f} /\ started
      BY <1>3 DEF ObserveClose, ClientReady
    <2>2. \A u \in Units : UnitState(u)' = UnitState(u)
      BY <2>1 DEF UnitState
    <2>3. CASE f \in GoFiles
      <3>1. Shown!Close(f)
        BY <2>1, <2>2 DEF Shown!Close
      <3> QED BY <2>1, <2>3, <3>1 DEF ShownStep, Shown!Next
    <2>4. CASE f \notin GoFiles
      <3>1. UNCHANGED Shown!vars
        BY <2>1, <2>2, <2>4 DEF Shown!vars
      <3> QED BY <2>1, <3>1 DEF ShownStep
    <2> QED BY <2>3, <2>4
  <1>4. CASE EvictIdleUnits
    <2> DEFINE S == IdleUnits
    <2>1. S \in SUBSET Units /\ scope' = scope \ S /\ UNCHANGED <<started, docs, appliedGen>>
          /\ gen' = [u \in Units |-> IF u \in S THEN 0 ELSE gen[u]]
          /\ \A u \in S : open[u] = {}
      BY <1>4 DEF EvictIdleUnits, IdleUnits, TypeOK
    <2> HIDE DEF S
    <2>2. \A u \in Units : UnitState(u)' = IF u \in S THEN "none" ELSE UnitState(u)
      BY <2>1 DEF UnitState
    <2>3. \A d \in docs \cap GoFiles : UnitOf[d] \notin S
      BY <2>1 DEF OpenFilesInScope
    <2>4. Shown!Evict(S)
      BY <2>1, <2>2, <2>3 DEF Shown!Evict, Shown!Moved
    <2>5. started
      BY <1>4 DEF EvictIdleUnits, IdleUnits, BarrierInv, QuietBeforeInitialize
    <2> QED BY <2>1, <2>4, <2>5 DEF ShownStep, Shown!Next
  <1>5. ASSUME NEW c \in Callers, PushScopeStamp(c)
        PROVE  ShownStep
    <2>1. /\ gen' = StampScopeGenLocked(scope, gen, scopeGen + 1)
          /\ UNCHANGED <<started, docs, scope, appliedGen>>
      BY <1>5 DEF PushScopeStamp
    <2>2. \A u \in Units : \/ gen[u] = 0 /\ gen'[u] = scopeGen + 1
                           \/ gen'[u] = gen[u]
      BY <2>1, StampValue DEF TypeOK
    <2>3. appliedGen < scopeGen + 1
      BY DEF AppliedBehind, TypeOK
    <2>4. \A u \in Units : UnitState(u)' = UnitState(u)
      BY <2>1, <2>2, <2>3 DEF UnitState, TypeOK
    <2>5. UNCHANGED Shown!vars
      BY <2>1, <2>4 DEF Shown!vars
    <2> QED BY <2>1, <2>5 DEF ShownStep
  <1>6. CASE AdvanceApplied
    <2>1. appliedGen' \in Nat /\ appliedGen <= appliedGen'
      BY <1>6, LargerIsMax DEF AdvanceApplied, ConfirmedGen, TypeOK
    <2>2. UNCHANGED <<started, docs, scope, gen>>
      BY <1>6 DEF AdvanceApplied
    <2> QED BY <2>1, <2>2, ShowsApplied
  <1>7. ASSUME NEW g \in fallback, AppliedFallback(g) \/ AppliedFallbackCap(g)
        PROVE  ShownStep
    <2>1. appliedGen' = g /\ UNCHANGED <<started, docs, scope, gen>>
      BY <1>7 DEF AppliedFallback, AppliedFallbackCap
    <2>2. appliedGen' \in Nat /\ appliedGen <= appliedGen'
      BY <2>1 DEF AppliedBehind, TypeOK
    <2> QED BY <2>1, <2>2, ShowsApplied
  <1>8. ASSUME NEW r \in Requests, NEW need \in Needs, PublishUnits(r, need)
        PROVE  ShownStep
    <2> DEFINE S == need \ scope
    <2>1. S \in SUBSET Units /\ scope' = scope \cup S /\ UNCHANGED <<docs, gen, appliedGen>> /\ started
      BY <1>8, UnitsAssumption DEF PublishUnits
    <2>2. \A u \in S : gen[u] = 0 /\ u \notin scope
      BY <2>1 DEF BarrierInv, GenerationsStamped
    <2> HIDE DEF S
    <2>3. \A u \in Units : UnitState(u)' = IF u \in S THEN "pending" ELSE UnitState(u)
      BY <2>1, <2>2 DEF UnitState
    <2>4. \A u \in S : [v \in Units |-> UnitState(v)][u] = "none"
      BY <2>1, <2>2 DEF UnitState
    <2>5. Shown!Enter(S)
      BY <2>1, <2>3, <2>4 DEF Shown!Enter, Shown!Moved
    <2> QED BY <2>1, <2>5 DEF ShownStep, Shown!Next
  <1>9. ASSUME NEW f \in Files, DiagArrived(f)
        PROVE  ShownStep
    BY <1>9, ShowsNothing DEF DiagArrived
  <1>10. ASSUME NEW u \in Units, IdleElapses(u)
         PROVE  ShownStep
    BY <1>10, ShowsNothing DEF IdleElapses
  <1>11. ASSUME NEW c \in Callers, RescopeTimerFires(c) \/ PushScopeWrite(c)
         PROVE  ShownStep
    BY <1>11, ShowsNothing DEF RescopeTimerFires, PushScopeWrite
  <1>12. ASSUME NEW i \in PullIds, ConfigurationPull(i) \/ \E ok \in BOOLEAN : HandleClientResponse(i, ok)
         PROVE  ShownStep
    BY <1>12, ShowsNothing DEF ConfigurationPull, HandleClientResponse
  <1>13. CASE PatchConfigResponse \/ WriteConfigResponse \/ UNCHANGED vars
    BY <1>13, ShowsNothing DEF PatchConfigResponse, WriteConfigResponse, vars
  <1>14. ASSUME NEW r \in Requests, AwaitApplied(r) \/ AwaitTimeout(r) \/ Forward(r)
         PROVE  ShownStep
    BY <1>14, ShowsNothing DEF AwaitApplied, AwaitTimeout, Forward
  <1> QED
    BY <1>1, <1>2, <1>3, <1>4, <1>5, <1>6, <1>7, <1>8, <1>9, <1>10, <1>11, <1>12, <1>13, <1>14
       DEF Next, Callers

\* From initialize on the barrier implements ScopeUnits, with or without eviction, errors
\* and forced generations: HeldRequests may rely on it.
THEOREM BarrierImplementsUnits == Spec => UnitsAsShown
  <1>1. Init => AppliedBehind /\ OpenFilesInScope
    BY DEF Init, AppliedBehind, OpenFilesInScope
  <1>2. TypeOK /\ BarrierInv /\ AppliedBehind /\ OpenFilesInScope /\ [Next]_vars
          => (TypeOK /\ BarrierInv /\ AppliedBehind /\ OpenFilesInScope)'
    BY TypeStep, BarrierStep, BehindStep, OpenFilesStep
  <1>3. TypeOK /\ BarrierInv /\ AppliedBehind /\ OpenFilesInScope /\ [Next]_vars => [ShownStep]_vars
    BY ShownFollows
  <1> QED  BY TypeInit, BarrierInit, <1>1, <1>2, <1>3, PTL DEF Spec, UnitsAsShown, ShownStep
=============================================================================
