------------------------- MODULE HeldRequestsProofs -------------------------
(***************************************************************************)
(* Proofs about HeldRequests, for any numbers of documents, units and      *)
(* requests: types, UnsentReachable, that every step implements a step of  *)
(* InOrderDelivery or none, and what that specification is for,            *)
(* SeenAsAsked.                                                            *)
(***************************************************************************)
EXTENDS HeldRequests, TLAPS

\* What pumpClient is doing fits the state of what it does it with.
PumpSound ==
    /\ pump.pc = "inline" =>
        \A r \in pump.left :
            pump.left = {r} /\ r \in issued /\ sent[r] = 0 /\ waiter[r] = "none"
    /\ pump.pc = "release" =>
        /\ \A r \in pump.left : waiter[r] # "none"
        /\ \A d \in pump.on :
            heldDefs[d] = {} /\ doc[d].open /\ doc[d].version < MaxVersion
    /\ pump.pc = "open" => \A d \in pump.on : ~doc[d].open /\ doc[d].session < MaxSession
    /\ pump.pc = "close" => \A d \in pump.on : doc[d].open

\* Every registered request has its goroutine.
HeldSound == \A d \in Docs : \A r \in heldDefs[d] : waiter[r] # "none"

\* The sync.Once of a held request says whether gopls has received it.
OnceSound ==
    \A r \in Requests :
        /\ once[r] = "pump" => pump.pc = "release" /\ r \in pump.left
        /\ once[r] = "waiter" => waiter[r] = "forward"
        /\ waiter[r] \in {"unregister", "done"} => once[r] = "done"
        /\ waiter[r] = "none" => once[r] = "idle"
        /\ waiter[r] # "none" => r \in issued /\ (sent[r] = 1 <=> once[r] = "done")
        /\ r \notin issued => sent[r] = 0

HeldInv == TypeOK /\ PumpSound /\ HeldSound /\ OnceSound /\ UnsentReachable

\* What a goroutine's and the pump's forwarding steps have in common: the write is
\* the first of its request.
LEMMA FirstWrite ==
    ASSUME TypeOK, NEW r \in Requests, Write(r), sent[r] = 0
    PROVE  /\ sent' = [sent EXCEPT ![r] = 1]
           /\ sent' \in [Requests -> 0..1]
           /\ UNCHANGED <<doc, issued, asked>>
BY DEF TypeOK, Write

\* HeldAssumption, for one request.
LEMMA DocOfTypes == \A r \in Requests : DocOf[r] \in Docs
BY HeldAssumption

\* A request whose unit is not pending is left to pumpClient, which forwards it.
LEMMA NotHeldInline ==
    ASSUME NEW r \in Requests, HoldForRequestUnit(r), unit[UnitOf[DocOf[r]]] # "pending"
    PROVE  pump' = [pc |-> "inline", on |-> {}, left |-> {r}]
BY DEF HoldForRequestUnit, Idle

\* The invariant holds before the first message.
LEMMA InitHolds == Init => HeldInv
BY HeldAssumption
   DEF Init, Barrier!Init, HeldInv, TypeOK, PumpSound, HeldSound, OnceSound, UnsentReachable, Idle, NeverOpened

\* Every step keeps the types; a write does because it is the first of its request.
LEMMA TypePreserved == HeldInv /\ [Next]_vars => TypeOK'
<1> SUFFICES ASSUME HeldInv, [Next]_vars PROVE TypeOK'
  OBVIOUS
<1> USE HeldAssumption, DocOfTypes DEF HeldInv
<1>1. ASSUME NEW r \in Requests, HoldForRequestUnit(r) PROVE TypeOK'
  <2>1. CASE unit[UnitOf[DocOf[r]]] = "pending"
    <3>1. heldDefs' = [heldDefs EXCEPT ![DocOf[r]] = @ \cup {r}]
      BY <1>1, <2>1 DEF HoldForRequestUnit
    <3>2. heldDefs' \in [Docs -> SUBSET Requests]
      BY <3>1 DEF TypeOK
    <3> QED BY <1>1, <2>1, <3>2 DEF TypeOK, HoldForRequestUnit
  <2>2. CASE unit[UnitOf[DocOf[r]]] # "pending"
    <3>1. pump' = [pc |-> "inline", on |-> {}, left |-> {r}]
      BY <1>1, <2>2, NotHeldInline
    <3> QED BY <1>1, <2>2, <3>1 DEF TypeOK, HoldForRequestUnit
  <2> QED BY <2>1, <2>2
<1>2. ASSUME NEW d \in Docs, DidOpen(d) \/ DidChange(d) \/ DidClose(d) PROVE TypeOK'
  <2>1. CASE DidOpen(d)
    <3>1. pump' = [pc |-> "open", on |-> {d}, left |-> {}]
      BY <2>1 DEF DidOpen, Idle
    <3>2. unit' \in [Units -> {"none", "pending", "applied"}] /\ opened' \subseteq GoDocs
      BY <2>1, HeldAssumption DEF TypeOK, DidOpen, Barrier!Open, Barrier!Moved
    <3> QED BY <2>1, <3>1, <3>2 DEF TypeOK, DidOpen, wire
  <2>2. CASE DidChange(d)
    BY <2>2 DEF TypeOK, DidChange, wire
  <2>3. CASE DidClose(d)
    <3>1. pump' = [pc |-> "close", on |-> {d}, left |-> {}]
      BY <2>3 DEF DidClose, Idle
    <3> QED BY <2>3, <3>1 DEF TypeOK, DidClose, Barrier!Close, wire
  <2> QED BY <1>2, <2>1, <2>2, <2>3
<1>3. ASSUME NEW r \in Requests, ForwardInline(r) PROVE TypeOK'
  <2>1. sent[r] = 0
    BY <1>3 DEF PumpSound, ForwardInline
  <2>2. sent' \in [Requests -> 0..1] /\ UNCHANGED <<doc, issued>>
    BY <1>3, <2>1, FirstWrite DEF ForwardInline
  <2> QED BY <1>3, <2>2 DEF TypeOK, ForwardInline, Idle
<1>4. ASSUME NEW r \in Requests, ReleaseRun(r) \/ ForwardRun(r) PROVE TypeOK'
  <2>1. sent[r] = 0
    BY <1>4 DEF TypeOK, PumpSound, OnceSound, ReleaseRun, ForwardRun, OnceRun
  <2>2. Write(r)
    BY <1>4 DEF ReleaseRun, ForwardRun, OnceRun
  <2>3. sent' \in [Requests -> 0..1] /\ UNCHANGED <<doc, issued>>
    BY <2>1, <2>2, FirstWrite
  <2>4. UNCHANGED <<unit, opened, heldDefs, pump, waiter>>
    BY <1>4 DEF ReleaseRun, ForwardRun
  <2>5. once' = [once EXCEPT ![r] = "done"]
    BY <1>4 DEF ReleaseRun, ForwardRun, OnceRun
  <2>6. once' \in [Requests -> {"idle", "pump", "waiter", "done"}]
    BY <2>5 DEF TypeOK
  <2> QED BY <2>3, <2>4, <2>6 DEF TypeOK
<1>5. ASSUME NEW r \in Requests, ReleaseEnter(r) \/ ReleaseReturn(r) PROVE TypeOK'
  <2>1. CASE ReleaseEnter(r)
    <3>1. once' \in [Requests -> {"idle", "pump", "waiter", "done"}]
      BY <2>1 DEF TypeOK, ReleaseEnter, OnceEnter
    <3> QED BY <2>1, <3>1 DEF TypeOK, ReleaseEnter, wire
  <2>2. CASE ReleaseReturn(r)
    BY <2>2 DEF TypeOK, ReleaseReturn, wire
  <2> QED BY <1>5, <2>1, <2>2
<1>6. ASSUME NEW d \in Docs, WriteOpen(d) PROVE TypeOK'
  BY <1>6 DEF TypeOK, PumpSound, WriteOpen, Idle
<1>7. ASSUME NEW d \in Docs, WriteClose(d) PROVE TypeOK'
  <2>1. doc[d] \in [open : BOOLEAN, session : 0..MaxSession, version : 0..MaxVersion]
    BY DEF TypeOK
  <2>2. [doc[d] EXCEPT !.open = FALSE]
            \in [open : BOOLEAN, session : 0..MaxSession, version : 0..MaxVersion]
    BY <2>1
  <2> QED BY <1>7, <2>2 DEF TypeOK, WriteClose, Idle
<1>8. ASSUME NEW d \in Docs, WriteChange(d) PROVE TypeOK'
  <2>1. doc[d] \in [open : BOOLEAN, session : 0..MaxSession, version : 0..MaxVersion]
        /\ doc[d].version < MaxVersion
    BY <1>8 DEF TypeOK, PumpSound, WriteChange
  <2>2. [doc[d] EXCEPT !.version = @ + 1]
            \in [open : BOOLEAN, session : 0..MaxSession, version : 0..MaxVersion]
    BY <2>1
  <2> QED BY <1>8, <2>2 DEF TypeOK, WriteChange, Idle
<1>9. ASSUME NEW r \in Requests, AwaitUnitApplied(r) \/ AwaitTimeout(r) \/ ForwardEnter(r)
                                 \/ ForwardReturn(r)
      PROVE TypeOK'
  BY <1>9 DEF TypeOK, AwaitUnitApplied, AwaitTimeout, ForwardEnter, ForwardReturn, OnceEnter, wire
<1>12. ASSUME NEW r \in Requests, UnregisterHeldDef(r) PROVE TypeOK'
  <2>1. heldDefs' \in [Docs -> SUBSET Requests]
    BY <1>12 DEF TypeOK, UnregisterHeldDef
  <2> QED BY <1>12, <2>1 DEF TypeOK, UnregisterHeldDef, wire
<1>10. ASSUME NEW S \in SUBSET Units, UnitsEntered(S) \/ UnitsApplied(S) \/ UnitsEvicted(S) PROVE TypeOK'
  <2>1. unit' \in [Units -> {"none", "pending", "applied"}] /\ UNCHANGED opened
    BY <1>10 DEF TypeOK, UnitsEntered, UnitsApplied, UnitsEvicted, Barrier!Enter, Barrier!Apply,
                 Barrier!Evict, Barrier!Moved
  <2> QED BY <1>10, <2>1 DEF TypeOK, UnitsEntered, UnitsApplied, UnitsEvicted, wire
<1>11. CASE UNCHANGED vars
  BY <1>11 DEF TypeOK, vars, wire
<1> QED
  BY <1>1, <1>2, <1>3, <1>4, <1>5, <1>6, <1>7, <1>8, <1>9, <1>10, <1>11, <1>12
     DEF Next, EditorMessage, PumpStep, WaiterStep

\* Every step that writes a request writes it for the first time.
LEMMA WritesAreFirst ==
    ASSUME HeldInv, NEW r \in Requests,
           ForwardInline(r) \/ ReleaseRun(r) \/ ForwardRun(r)
    PROVE  r \in issued /\ sent[r] = 0 /\ sent' = [sent EXCEPT ![r] = 1]
<1>1. CASE ForwardInline(r)
  <2>1. r \in issued /\ sent[r] = 0
    BY <1>1 DEF HeldInv, PumpSound, ForwardInline
  <2> QED BY <1>1, <2>1, FirstWrite DEF HeldInv, ForwardInline
<1>2. CASE ReleaseRun(r) \/ ForwardRun(r)
  <2>1. r \in issued /\ sent[r] = 0
    BY <1>2 DEF HeldInv, TypeOK, PumpSound, OnceSound, ReleaseRun, ForwardRun, OnceRun
  <2> QED BY <1>2, <2>1, FirstWrite DEF HeldInv, ReleaseRun, ForwardRun, OnceRun
<1> QED BY <1>1, <1>2

\* Every step keeps the rest of the invariant, action by action.
LEMMA SoundPreserved ==
    HeldInv /\ [Next]_vars => (PumpSound /\ HeldSound /\ OnceSound /\ UnsentReachable)'
<1> SUFFICES ASSUME HeldInv, [Next]_vars
             PROVE  (PumpSound /\ HeldSound /\ OnceSound /\ UnsentReachable)'
  OBVIOUS
<1> DEFINE Sound == PumpSound /\ HeldSound /\ OnceSound /\ UnsentReachable
<1> USE HeldAssumption, DocOfTypes DEF HeldInv, TypeOK
<1>1. ASSUME NEW r \in Requests, HoldForRequestUnit(r) PROVE Sound'
  <2>1. waiter[r] = "none" /\ once[r] = "idle" /\ sent[r] = 0 /\ r \notin issued
    BY <1>1 DEF OnceSound, HoldForRequestUnit
  <2>2. CASE unit[UnitOf[DocOf[r]]] = "pending"
    <3>1. PumpSound'
      BY <1>1, <2>1, <2>2 DEF PumpSound, HoldForRequestUnit
    <3>2. HeldSound'
      <4>1. waiter' = [waiter EXCEPT ![r] = "waiting"]
        BY <1>1, <2>2 DEF HoldForRequestUnit
      <4>2. \A d \in Docs : heldDefs'[d] \subseteq heldDefs[d] \cup {r}
        BY <1>1, <2>2 DEF HoldForRequestUnit
      <4> QED BY <4>1, <4>2 DEF HeldSound
    <3>3. OnceSound'
      BY <1>1, <2>1, <2>2 DEF OnceSound, HoldForRequestUnit
    <3>4. UnsentReachable'
      BY <1>1, <2>1, <2>2 DEF UnsentReachable, HoldForRequestUnit
    <3> QED BY <3>1, <3>2, <3>3, <3>4
  <2>3. CASE unit[UnitOf[DocOf[r]]] # "pending"
    <3>0. pump' = [pc |-> "inline", on |-> {}, left |-> {r}]
      BY <1>1, <2>3, NotHeldInline
    <3>1. PumpSound'
      BY <1>1, <2>1, <2>3, <3>0 DEF PumpSound, HoldForRequestUnit
    <3>2. HeldSound'
      BY <1>1, <2>1, <2>3 DEF HeldSound, HoldForRequestUnit
    <3>3. OnceSound'
      BY <1>1, <2>1, <2>3, <3>0 DEF OnceSound, HoldForRequestUnit
    <3>4. UnsentReachable'
      BY <1>1, <2>1, <2>3, <3>0 DEF UnsentReachable, HoldForRequestUnit
    <3> QED BY <3>1, <3>2, <3>3, <3>4
  <2> QED BY <2>2, <2>3
<1>2. ASSUME NEW d \in Docs, DidOpen(d) PROVE Sound'
  <2>1. pump' = [pc |-> "open", on |-> {d}, left |-> {}] /\ pump.pc = "idle"
    BY <1>2 DEF DidOpen, Idle
  <2> QED BY <1>2, <2>1 DEF PumpSound, HeldSound, OnceSound, UnsentReachable, DidOpen, wire
<1>3. ASSUME NEW d \in Docs, DidClose(d) PROVE Sound'
  <2>1. pump' = [pc |-> "close", on |-> {d}, left |-> {}] /\ pump.pc = "idle"
    BY <1>3 DEF DidClose, Idle
  <2> QED BY <1>3, <2>1 DEF PumpSound, HeldSound, OnceSound, UnsentReachable, DidClose, wire
<1>4. ASSUME NEW d \in Docs, DidChange(d) PROVE Sound'
  <2>1. PumpSound'
    BY <1>4 DEF PumpSound, HeldSound, DidChange, wire
  <2>2. HeldSound'
    BY <1>4 DEF HeldSound, DidChange, wire
  <2>3. OnceSound'
    BY <1>4 DEF OnceSound, DidChange, wire
  <2>4. UnsentReachable'
    BY <1>4 DEF UnsentReachable, DidChange, wire
  <2> QED BY <2>1, <2>2, <2>3, <2>4
<1>5. ASSUME NEW r \in Requests, ForwardInline(r) PROVE Sound'
  <2>1. /\ sent' = [sent EXCEPT ![r] = 1]
        /\ pump.left = {r} /\ waiter[r] = "none" /\ r \in issued
        /\ pump' = Idle /\ pump.pc = "inline" /\ Idle.pc = "idle"
        /\ UNCHANGED <<doc, issued, heldDefs, waiter, once>>
    BY <1>5, WritesAreFirst DEF PumpSound, ForwardInline, Write, Idle
  <2>2. PumpSound' /\ HeldSound'
    BY <2>1 DEF PumpSound, HeldSound
  <2>3. OnceSound'
    BY <2>1 DEF OnceSound
  <2>4. UnsentReachable'
    BY <2>1 DEF UnsentReachable
  <2> QED BY <2>2, <2>3, <2>4
<1>6. ASSUME NEW r \in Requests, ReleaseRun(r) \/ ForwardRun(r) PROVE Sound'
  <2>1. /\ sent' = [sent EXCEPT ![r] = 1] /\ r \in issued
        /\ once[r] \in {"pump", "waiter"} /\ once' = [once EXCEPT ![r] = "done"]
        /\ UNCHANGED <<doc, issued, heldDefs, waiter, pump>>
    BY <1>6, WritesAreFirst DEF ReleaseRun, ForwardRun, OnceRun, Write
  <2>2. waiter[r] # "none"
    BY <2>1 DEF OnceSound
  <2>3. PumpSound' /\ HeldSound'
    BY <2>1, <2>2 DEF PumpSound, HeldSound
  <2>4. OnceSound'
    BY <2>1, <2>2 DEF OnceSound
  <2>5. UnsentReachable'
    BY <2>1 DEF UnsentReachable
  <2> QED BY <2>3, <2>4, <2>5
<1>7. ASSUME NEW r \in Requests, ReleaseEnter(r) PROVE Sound'
  <2>1. waiter[r] # "none"
    BY <1>7 DEF PumpSound, ReleaseEnter
  <2> QED BY <1>7, <2>1
          DEF PumpSound, HeldSound, OnceSound, UnsentReachable, ReleaseEnter, OnceEnter, wire
<1>8. ASSUME NEW r \in Requests, ReleaseReturn(r) PROVE Sound'
  <2>1. /\ pump.pc = "release" /\ pump'.pc = "release" /\ pump'.on = pump.on
        /\ pump'.left = pump.left \ {r} /\ once[r] = "done"
        /\ UNCHANGED <<doc, issued, sent, heldDefs, waiter, once>>
    BY <1>8 DEF ReleaseReturn, OncePassed, wire
  <2>2. sent[r] = 1
    BY <1>8, <2>1 DEF PumpSound, OnceSound, ReleaseReturn
  <2> QED BY <2>1, <2>2 DEF PumpSound, HeldSound, OnceSound, UnsentReachable
<1>9. ASSUME NEW d \in Docs, WriteOpen(d) \/ WriteClose(d) \/ WriteChange(d) PROVE Sound'
  <2>1. /\ pump.pc \in {"open", "close", "release"}
        /\ pump.pc = "release" => pump.left = {}
        /\ pump' = Idle /\ Idle.pc = "idle"
        /\ UNCHANGED <<issued, sent, heldDefs, waiter, once>>
    BY <1>9 DEF WriteOpen, WriteClose, WriteChange, Idle
  <2> QED BY <2>1 DEF PumpSound, HeldSound, OnceSound, UnsentReachable
<1>10. ASSUME NEW r \in Requests, AwaitUnitApplied(r) \/ AwaitTimeout(r) PROVE Sound'
  BY <1>10 DEF PumpSound, HeldSound, OnceSound, UnsentReachable,
               AwaitUnitApplied, AwaitTimeout, wire
<1>11. ASSUME NEW r \in Requests, ForwardEnter(r) PROVE Sound'
  BY <1>11 DEF PumpSound, HeldSound, OnceSound, UnsentReachable, ForwardEnter, OnceEnter, wire
<1>12. ASSUME NEW r \in Requests, ForwardReturn(r) PROVE Sound'
  BY <1>12 DEF PumpSound, HeldSound, OnceSound, UnsentReachable, ForwardReturn, OncePassed, wire
<1>13. ASSUME NEW r \in Requests, UnregisterHeldDef(r) PROVE Sound'
  <2>1. sent[r] = 1
    BY <1>13 DEF OnceSound, UnregisterHeldDef
  <2>2. heldDefs' = [heldDefs EXCEPT ![DocOf[r]] = @ \ {r}]
    BY <1>13 DEF UnregisterHeldDef
  <2>3. \A e \in Docs : heldDefs'[e] \subseteq heldDefs[e]
    BY <2>2
  <2>4. \A q \in Requests : q \in heldDefs[DocOf[q]] => q = r \/ q \in heldDefs'[DocOf[q]]
    BY <2>2
  <2>5. PumpSound' /\ HeldSound'
    BY <1>13, <2>3 DEF PumpSound, HeldSound, UnregisterHeldDef, wire
  <2>6. OnceSound'
    BY <1>13 DEF OnceSound, UnregisterHeldDef, wire
  <2>7. UnsentReachable'
    BY <1>13, <2>1, <2>4 DEF UnsentReachable, UnregisterHeldDef, wire
  <2> QED BY <2>5, <2>6, <2>7
<1>14. ASSUME NEW S \in SUBSET Units, UnitsEntered(S) \/ UnitsApplied(S) \/ UnitsEvicted(S) PROVE Sound'
  BY <1>14 DEF PumpSound, HeldSound, OnceSound, UnsentReachable, UnitsEntered, UnitsApplied,
               UnitsEvicted, wire
<1>15. CASE UNCHANGED vars
  BY <1>15 DEF PumpSound, HeldSound, OnceSound, UnsentReachable, vars, wire
<1> QED
  BY <1>1, <1>2, <1>3, <1>4, <1>5, <1>6, <1>7, <1>8, <1>9, <1>10, <1>11, <1>12, <1>13, <1>14, <1>15
     DEF Next, EditorMessage, PumpStep, WaiterStep

-----------------------------------------------------------------------------
(* Theorems. *)

\* The inductive invariant of holding requests.
THEOREM HeldInvariant == Spec => []HeldInv
<1>1. HeldInv /\ [Next]_vars => HeldInv'
  BY TypePreserved, SoundPreserved DEF HeldInv
<1> QED BY <1>1, InitHolds, PTL DEF Spec

\* The variables of HeldRequests keep their types; no request is written to gopls
\* twice, whichever of its forwarders runs first (sent is at most 1).
THEOREM HeldTypes == Spec => []TypeOK
<1>1. HeldInv => TypeOK
  BY DEF HeldInv
<1> QED BY <1>1, HeldInvariant, PTL

\* A request gopls has not received is always where a didChange of its document
\* finds it: registerHeldDef, releaseHeldDefs and unregisterHeldDef lose none.
THEOREM UnsentFound == Spec => []UnsentReachable
<1>1. HeldInv => UnsentReachable
  BY DEF HeldInv
<1> QED BY <1>1, HeldInvariant, PTL

\* Each step of the proxy is a step of InOrderDelivery or leaves its variables.
LEMMA StepSimulates == HeldInv /\ [Next]_vars => [Abs!Next]_(Abs!vars)
<1> SUFFICES ASSUME HeldInv, [Next]_vars PROVE Abs!Next \/ UNCHANGED Abs!vars
  OBVIOUS
<1>1. ASSUME NEW r \in Requests, HoldForRequestUnit(r) PROVE Abs!Next
  <2>1. Abs!Issue(r)
    BY <1>1 DEF HoldForRequestUnit, Abs!Issue
  <2> QED BY <2>1 DEF Abs!Next
<1>2. ASSUME NEW r \in Requests, ForwardInline(r) \/ ReleaseRun(r) \/ ForwardRun(r) PROVE Abs!Next
  <2>1. r \in issued /\ sent[r] = 0 /\ sent' = [sent EXCEPT ![r] = 1]
    BY <1>2, WritesAreFirst
  <2>2. Abs!Deliver(r)
    BY <1>2, <2>1 DEF ForwardInline, ReleaseRun, ForwardRun, OnceRun, Write, Abs!Deliver
  <2> QED BY <2>2 DEF Abs!Next
<1>3. ASSUME NEW d \in Docs, WriteOpen(d) PROVE Abs!Next
  <2>1. Abs!Open(d)
    BY <1>3 DEF HeldInv, PumpSound, WriteOpen, Abs!Open
  <2> QED BY <2>1 DEF Abs!Next
<1>4. ASSUME NEW d \in Docs, WriteClose(d) PROVE Abs!Next
  <2>1. Abs!Close(d)
    BY <1>4 DEF HeldInv, PumpSound, WriteClose, Abs!Close
  <2> QED BY <2>1 DEF Abs!Next
<1>5. ASSUME NEW d \in Docs, WriteChange(d) PROVE Abs!Next
  <2>1. doc[d].open /\ heldDefs[d] = {} /\ pump.left = {}
    BY <1>5 DEF HeldInv, PumpSound, WriteChange
  <2>2. \A r \in issued : DocOf[r] = d => sent[r] # 0
    BY <2>1 DEF HeldInv, UnsentReachable
  <2>3. Abs!Edit(d)
    BY <1>5, <2>1, <2>2 DEF WriteChange, Abs!Edit, Abs!Outstanding
  <2> QED BY <2>3 DEF Abs!Next
<1>6. ASSUME UNCHANGED wire PROVE UNCHANGED Abs!vars
  BY <1>6 DEF wire, Abs!vars
<1> QED
  BY <1>1, <1>2, <1>3, <1>4, <1>5, <1>6
     DEF Next, EditorMessage, PumpStep, WaiterStep, DidOpen, DidChange, DidClose, ReleaseEnter,
         ReleaseReturn, AwaitUnitApplied, AwaitTimeout, ForwardEnter, ForwardReturn,
         UnregisterHeldDef, UnitsEntered, UnitsApplied, UnitsEvicted, vars

\* Holding requests implements InOrderDelivery, as far as safety goes: a request is
\* delivered at most once, and no edit of its document is delivered before it.
THEOREM HeldImplementsInOrder == Spec => Abs!Init /\ [][Abs!Next]_(Abs!vars)
<1>1. Init => Abs!Init
  BY DEF Init, NeverOpened, Abs!Init, Abs!NeverOpened
<1> QED BY <1>1, StepSimulates, HeldInvariant, PTL DEF Spec

-----------------------------------------------------------------------------
(* What InOrderDelivery is for. *)

\* An outstanding request's document has moved on from the text it was asked for
\* only by being closed or opened again.
AskedSound ==
    /\ doc \in [Docs -> Abs!DocState] /\ asked \in [Requests -> Abs!DocState]
    /\ issued \subseteq Requests /\ sent \in [Requests -> Nat]
    /\ seen \in [Requests -> Abs!DocState]
    /\ \A r \in Requests \ issued : sent[r] = 0
    /\ \A r \in issued :
        /\ asked[r].session <= doc[DocOf[r]].session
        /\ asked[r].session = doc[DocOf[r]].session /\ ~asked[r].open => ~doc[DocOf[r]].open
        /\ /\ sent[r] = 0
           /\ asked[r].session = doc[DocOf[r]].session
           /\ asked[r].open = doc[DocOf[r]].open
           => doc[DocOf[r]] = asked[r]

\* The steps of InOrderDelivery keep AskedSound and SeenAsAsked.
LEMMA AskedPreserved ==
    AskedSound /\ Abs!SeenAsAsked /\ [Abs!Next]_(Abs!vars) => (AskedSound /\ Abs!SeenAsAsked)'
<1> SUFFICES ASSUME AskedSound, Abs!SeenAsAsked, [Abs!Next]_(Abs!vars)
             PROVE  (AskedSound /\ Abs!SeenAsAsked)'
  OBVIOUS
<1> USE DocOfTypes DEF AskedSound, Abs!SeenAsAsked, Abs!DocState
<1>1. ASSUME NEW r \in Requests, Abs!Issue(r) PROVE (AskedSound /\ Abs!SeenAsAsked)'
  BY <1>1 DEF Abs!Issue
<1>2. ASSUME NEW r \in Requests, Abs!Deliver(r) PROVE (AskedSound /\ Abs!SeenAsAsked)'
  <2>1. /\ UNCHANGED <<doc, asked, issued>>
        /\ sent' = [sent EXCEPT ![r] = 1] /\ seen' = [seen EXCEPT ![r] = doc[DocOf[r]]]
        /\ r \in issued /\ sent[r] = 0
    BY <1>2 DEF Abs!Deliver
  <2>2. AskedSound'
    BY <2>1
  <2>3. ASSUME NEW q \in Requests, sent'[q] > 0, seen'[q].session = asked[q].session,
               seen'[q].open = asked[q].open
        PROVE  seen'[q] = asked[q]
    <3>1. CASE q = r
      <4>1. seen'[q] = doc[DocOf[r]]
        BY <2>1, <3>1
      <4> QED BY <2>1, <2>3, <3>1, <4>1
    <3>2. CASE q # r
      BY <2>1, <2>3, <3>2
    <3> QED BY <3>1, <3>2
  <2> QED BY <2>1, <2>2, <2>3
<1>3. ASSUME NEW d \in Docs, Abs!Open(d) PROVE (AskedSound /\ Abs!SeenAsAsked)'
  <2>1. /\ UNCHANGED <<asked, issued, sent, seen>>
        /\ doc' = [doc EXCEPT ![d] = [open |-> TRUE, session |-> doc[d].session + 1, version |-> 0]]
        /\ ~doc[d].open
    BY <1>3 DEF Abs!Open
  <2>2. doc' \in [Docs -> Abs!DocState]
    BY <2>1
  <2>3. ASSUME NEW r \in issued
        PROVE  /\ asked[r].session <= doc'[DocOf[r]].session
               /\ asked[r].session = doc'[DocOf[r]].session /\ ~asked[r].open
                    => ~doc'[DocOf[r]].open
               /\ /\ sent[r] = 0
                  /\ asked[r].session = doc'[DocOf[r]].session
                  /\ asked[r].open = doc'[DocOf[r]].open
                  => doc'[DocOf[r]] = asked[r]
    <3>1. CASE DocOf[r] = d
      <4>1. /\ doc'[d].session = doc[d].session + 1
            /\ doc[d].session \in Nat /\ asked[r].session \in Nat
        BY <2>1
      <4>2. asked[r].session <= doc[d].session
        BY <3>1
      <4> QED BY <3>1, <4>1, <4>2
    <3>2. CASE DocOf[r] # d
      BY <2>1, <3>2
    <3> QED BY <3>1, <3>2
  <2> QED BY <2>1, <2>2, <2>3
<1>4. ASSUME NEW d \in Docs, Abs!Edit(d) PROVE (AskedSound /\ Abs!SeenAsAsked)'
  <2>1. \A r \in issued : DocOf[r] = d => sent[r] # 0
    BY <1>4 DEF Abs!Edit, Abs!Outstanding
  <2> QED BY <1>4, <2>1 DEF Abs!Edit
<1>5. ASSUME NEW d \in Docs, Abs!Close(d) PROVE (AskedSound /\ Abs!SeenAsAsked)'
  <2>1. /\ UNCHANGED <<asked, issued, sent, seen>>
        /\ doc' = [doc EXCEPT ![d] = [doc[d] EXCEPT !.open = FALSE]]
        /\ doc[d].open
    BY <1>5 DEF Abs!Close
  <2>0. /\ [doc[d] EXCEPT !.open = FALSE] \in Abs!DocState
        /\ [doc[d] EXCEPT !.open = FALSE].session = doc[d].session
        /\ ~[doc[d] EXCEPT !.open = FALSE].open
    <3>1. doc[d] \in Abs!DocState
      OBVIOUS
    <3> HIDE DEF AskedSound, Abs!SeenAsAsked
    <3> QED BY <3>1
  <2>2. doc' \in [Docs -> Abs!DocState]
    BY <2>0, <2>1
  <2>3. ASSUME NEW r \in issued
        PROVE  /\ asked[r].session <= doc'[DocOf[r]].session
               /\ asked[r].session = doc'[DocOf[r]].session /\ ~asked[r].open
                    => ~doc'[DocOf[r]].open
               /\ /\ sent[r] = 0
                  /\ asked[r].session = doc'[DocOf[r]].session
                  /\ asked[r].open = doc'[DocOf[r]].open
                  => doc'[DocOf[r]] = asked[r]
    <3>1. CASE DocOf[r] = d
      <4>1. doc'[d].session = doc[d].session /\ ~doc'[d].open
        BY <2>0, <2>1
      <4>2. asked[r].session <= doc[d].session /\ asked[r].open \in BOOLEAN
        BY <3>1
      <4>3. asked[r].session = doc[d].session => asked[r].open
        BY <2>1, <3>1
      <4> QED BY <3>1, <4>1, <4>2, <4>3
    <3>2. CASE DocOf[r] # d
      BY <2>1, <3>2
    <3> QED BY <3>1, <3>2
  <2> QED BY <2>1, <2>2, <2>3
<1>6. CASE UNCHANGED Abs!vars
  BY <1>6 DEF Abs!vars
<1> QED BY <1>1, <1>2, <1>3, <1>4, <1>5, <1>6 DEF Abs!Next

\* gopls resolves a held request in the text it was issued for, unless its document
\* was closed or opened again meanwhile: what releaseHeldDefs is for.
THEOREM PositionsFit == Spec => []Abs!SeenAsAsked
<1>1. Abs!Init => AskedSound /\ Abs!SeenAsAsked
  BY DEF Abs!Init, AskedSound, Abs!SeenAsAsked, Abs!DocState, Abs!NeverOpened
<1> QED BY <1>1, AskedPreserved, HeldImplementsInOrder, PTL

\* Of the scope barrier the held requests use only what ScopeUnits promises: whatever the
\* pump, the waiters and the barrier do, the units move as ScopeUnits says.  ScopeBarrier
\* implements that (ScopeBarrierProofs), so the theorems above hold with the real barrier.
THEOREM BarrierAsAssumed == Spec => Barrier!Spec
<1>1. Init => Barrier!Init
  BY DEF Init
<1>2. HeldInv /\ [Next]_vars => [Barrier!Next]_(Barrier!vars)
  <2> SUFFICES ASSUME HeldInv, [Next]_vars PROVE Barrier!Next \/ UNCHANGED <<unit, opened>>
    BY DEF Barrier!vars
  <2>1. ASSUME NEW S \in SUBSET Units, UnitsEntered(S) \/ UnitsApplied(S) \/ UnitsEvicted(S)
        PROVE  Barrier!Next
    BY <2>1 DEF UnitsEntered, UnitsApplied, UnitsEvicted, Barrier!Next
  <2>2. ASSUME NEW d \in Docs, DidOpen(d) PROVE Barrier!Next \/ UNCHANGED <<unit, opened>>
    BY <2>2 DEF DidOpen, Barrier!Next
  <2>3. ASSUME NEW d \in Docs, DidClose(d) PROVE Barrier!Next \/ UNCHANGED <<unit, opened>>
    <3>1. d \in GoDocs \/ opened \ {d} = opened
      BY DEF HeldInv, TypeOK
    <3> QED BY <2>3, <3>1 DEF DidClose, Barrier!Close, Barrier!Next
  <2>4. ASSUME NEW d \in Docs, DidChange(d) \/ WriteOpen(d) \/ WriteClose(d) \/ WriteChange(d)
        PROVE  UNCHANGED <<unit, opened>>
    BY <2>4 DEF DidChange, WriteOpen, WriteClose, WriteChange
  <2>5. ASSUME NEW r \in Requests,
               \/ HoldForRequestUnit(r) \/ ForwardInline(r) \/ ReleaseEnter(r) \/ ReleaseRun(r)
               \/ ReleaseReturn(r) \/ WaiterStep(r)
        PROVE  UNCHANGED <<unit, opened>>
    BY <2>5 DEF HoldForRequestUnit, ForwardInline, ReleaseEnter, ReleaseRun, ReleaseReturn, WaiterStep,
        AwaitUnitApplied, AwaitTimeout, ForwardEnter, ForwardRun, ForwardReturn, UnregisterHeldDef
  <2> QED BY <2>1, <2>2, <2>3, <2>4, <2>5 DEF Next, EditorMessage, PumpStep, vars
<1> QED BY <1>1, <1>2, HeldInvariant, PTL DEF Spec, Barrier!Spec
=============================================================================
