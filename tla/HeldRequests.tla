---------------------------- MODULE HeldRequests ----------------------------
(***************************************************************************)
(* holdForRequestUnit of proxy.go: a definition, prepareRename, hover or   *)
(* inlayHint request that arrives before gopls has loaded its document's   *)
(* unit is held, and forwarded from a goroutine once the unit is applied   *)
(* or a timeout expires.  A didChange of the document forwards it earlier, *)
(* before the edit reaches gopls.  The two forwarders share a sync.Once.   *)
(*                                                                         *)
(* Processes: pumpClient, which handles one editor message at a time, and  *)
(* one waiter goroutine per held request.  A step is one critical section  *)
(* of proxy.mu, one transition of a sync.Once or one write to gopls.  The  *)
(* scope barrier appears as module ScopeUnits, which ScopeBarrier          *)
(* implements: the state of each unit is no entry, an entry gopls has not  *)
(* applied, or an applied entry.                                           *)
(***************************************************************************)
EXTENDS Integers, FiniteSets

CONSTANTS
    Docs,        \* documents of the workspace
    GoDocs,      \* those whose path ends in ".go"
    Requests,    \* held kinds of requests
    DocOf,       \* the document a request names
    Units,       \* scope units
    UnitOf,      \* the unit of a document
    MaxSession,  \* bound on the didOpens of a document
    MaxVersion   \* bound on the didChanges of a session

ASSUME HeldAssumption ==
    /\ DocOf \in [Requests -> Docs] /\ UnitOf \in [Docs -> Units] /\ GoDocs \subseteq Docs
    /\ MaxSession \in Nat /\ MaxVersion \in Nat

VARIABLES
    unit,      \* per unit: its scope entry, "none", "pending" or "applied"
    opened,    \* the documents among the open files of the scope entries
    heldDefs,  \* per document: proxy.heldDefs, as the set of its held requests
    pump,      \* what pumpClient is doing
    waiter,    \* per request: where its goroutine is
    once,      \* per request: its sync.Once; "pump" and "waiter" run the write
    doc, issued, asked, sent, seen  \* as in InOrderDelivery: what gopls received

wire == <<doc, issued, asked, sent, seen>>
vars == <<unit, opened, heldDefs, pump, waiter, once, wire>>

NeverOpened == [open |-> FALSE, session |-> 0, version |-> 0]
Idle == [pc |-> "idle", on |-> {}, left |-> {}]

Barrier == INSTANCE ScopeUnits

Init ==
    /\ Barrier!Init
    /\ heldDefs = [d \in Docs |-> {}]
    /\ pump = Idle
    /\ waiter = [r \in Requests |-> "none"]
    /\ once = [r \in Requests |-> "idle"]
    /\ doc = [d \in Docs |-> NeverOpened]
    /\ issued = {}
    /\ asked = [r \in Requests |-> NeverOpened]
    /\ sent = [r \in Requests |-> 0]
    /\ seen = [r \in Requests |-> NeverOpened]

\* toServer.write of a request: gopls resolves it in the text it has then.
Write(r) ==
    /\ sent' = [sent EXCEPT ![r] = @ + 1]
    /\ seen' = [seen EXCEPT ![r] = doc[DocOf[r]]]
    /\ UNCHANGED <<doc, issued, asked>>

-----------------------------------------------------------------------------
(* The scope barrier, as its interface. *)

\* ensureUnitsLocked enters units for a cross-reference request.
UnitsEntered(S) == Barrier!Enter(S) /\ UNCHANGED <<heldDefs, pump, waiter, once, wire>>

\* advanceApplied has reached the generation of these entries.
UnitsApplied(S) == Barrier!Apply(S) /\ UNCHANGED <<heldDefs, pump, waiter, once, wire>>

\* evictIdleUnits drops units no file of which is open.
UnitsEvicted(S) == Barrier!Evict(S) /\ UNCHANGED <<heldDefs, pump, waiter, once, wire>>

-----------------------------------------------------------------------------
(* sync.Once: the first caller runs the write, later callers block until it *)
(* has returned. *)

OnceEnter(r, who) == once[r] = "idle" /\ once' = [once EXCEPT ![r] = who]

OnceRun(r, who) ==
    /\ once[r] = who
    /\ once' = [once EXCEPT ![r] = "done"]
    /\ Write(r)

\* Mutant: a flag instead of the sync.Once; a later caller does not wait.
FlagPassed(r) == once[r] # "idle"

OncePassed(r) == once[r] = "done"

-----------------------------------------------------------------------------
(* pumpClient. *)

\* Mutant: the held request is not registered for its document.
HoldUnregistered(r) ==
    /\ pump.pc = "idle" /\ r \notin issued
    /\ issued' = issued \cup {r}
    /\ asked' = [asked EXCEPT ![r] = doc[DocOf[r]]]
    /\ waiter' = [waiter EXCEPT ![r] = "waiting"]
    /\ UNCHANGED <<unit, opened, heldDefs, pump, once, doc, sent, seen>>

\* interceptClientRequest of a held kind: held if the unit has an entry that is
\* not applied yet, else forwarded inline.  The check and registerHeldDef are two
\* critical sections; only pumpClient itself could act on what lies between.
HoldForRequestUnit(r) ==
    /\ pump.pc = "idle" /\ r \notin issued
    /\ issued' = issued \cup {r}
    /\ asked' = [asked EXCEPT ![r] = doc[DocOf[r]]]
    /\ IF unit[UnitOf[DocOf[r]]] = "pending"
       THEN /\ heldDefs' = [heldDefs EXCEPT ![DocOf[r]] = @ \cup {r}]
            /\ waiter' = [waiter EXCEPT ![r] = "waiting"]
            /\ UNCHANGED pump
       ELSE /\ pump' = [Idle EXCEPT !.pc = "inline", !.left = {r}]
            /\ UNCHANGED <<heldDefs, waiter>>
    /\ UNCHANGED <<unit, opened, once, doc, sent, seen>>

ForwardInline(r) ==
    /\ pump.pc = "inline" /\ r \in pump.left
    /\ pump' = Idle
    /\ Write(r)
    /\ UNCHANGED <<unit, opened, heldDefs, waiter, once>>

\* didOpen: observeOpen enters the unit of a Go document in the scope, then the message
\* is written.
DidOpen(d) ==
    /\ pump.pc = "idle" /\ ~doc[d].open /\ doc[d].session < MaxSession
    /\ IF d \in GoDocs THEN Barrier!Open(d) ELSE UNCHANGED <<unit, opened>>
    /\ pump' = [Idle EXCEPT !.pc = "open", !.on = {d}]
    /\ UNCHANGED <<heldDefs, waiter, once, wire>>

WriteOpen(d) ==
    /\ pump.pc = "open" /\ d \in pump.on
    /\ pump' = Idle
    /\ doc' = [doc EXCEPT ![d] = [open |-> TRUE, session |-> @.session + 1, version |-> 0]]
    /\ UNCHANGED <<unit, opened, heldDefs, waiter, once, issued, asked, sent, seen>>

\* didClose: observeClose; the requests held for the document stay held.
DidClose(d) ==
    /\ pump.pc = "idle" /\ doc[d].open
    /\ Barrier!Close(d)
    /\ pump' = [Idle EXCEPT !.pc = "close", !.on = {d}]
    /\ UNCHANGED <<heldDefs, waiter, once, wire>>

WriteClose(d) ==
    /\ pump.pc = "close" /\ d \in pump.on
    /\ pump' = Idle
    /\ doc' = [doc EXCEPT ![d].open = FALSE]
    /\ UNCHANGED <<unit, opened, heldDefs, waiter, once, issued, asked, sent, seen>>

\* didChange: releaseHeldDefs takes the document's list and forwards each of it,
\* then the edit is written.
DidChange(d) ==
    /\ pump.pc = "idle" /\ doc[d].open /\ doc[d].version < MaxVersion
    /\ pump' = [pc |-> "release", on |-> {d}, left |-> heldDefs[d]]
    /\ heldDefs' = [heldDefs EXCEPT ![d] = {}]
    /\ UNCHANGED <<unit, opened, waiter, once, wire>>

ReleaseEnter(r) ==
    /\ pump.pc = "release" /\ r \in pump.left
    /\ \A q \in pump.left : once[q] # "pump"
    /\ OnceEnter(r, "pump")
    /\ UNCHANGED <<unit, opened, heldDefs, pump, waiter, wire>>

\* Mutant: the released request still waits for its unit, inside the Once.
ReleaseAwaits(r) ==
    /\ pump.pc = "release" /\ r \in pump.left
    /\ unit[UnitOf[DocOf[r]]] = "applied"
    /\ OnceRun(r, "pump")
    /\ UNCHANGED <<unit, opened, heldDefs, pump, waiter>>

ReleaseRun(r) ==
    /\ pump.pc = "release" /\ r \in pump.left
    /\ OnceRun(r, "pump")
    /\ UNCHANGED <<unit, opened, heldDefs, pump, waiter>>

ReleaseReturn(r) ==
    /\ pump.pc = "release" /\ r \in pump.left
    /\ OncePassed(r)
    /\ pump' = [pump EXCEPT !.left = @ \ {r}]
    /\ UNCHANGED <<unit, opened, heldDefs, waiter, once, wire>>

WriteChange(d) ==
    /\ pump.pc = "release" /\ d \in pump.on /\ pump.left = {}
    /\ pump' = Idle
    /\ doc' = [doc EXCEPT ![d].version = @ + 1]
    /\ UNCHANGED <<unit, opened, heldDefs, waiter, once, issued, asked, sent, seen>>

-----------------------------------------------------------------------------
(* The goroutine of a held request. *)

\* awaitUnitApplied sees the entry published and applied, or its timeout fires.
AwaitUnitApplied(r) ==
    /\ waiter[r] = "waiting" /\ unit[UnitOf[DocOf[r]]] = "applied"
    /\ waiter' = [waiter EXCEPT ![r] = "forward"]
    /\ UNCHANGED <<unit, opened, heldDefs, pump, once, wire>>

AwaitTimeout(r) ==
    /\ waiter[r] = "waiting"
    /\ waiter' = [waiter EXCEPT ![r] = "forward"]
    /\ UNCHANGED <<unit, opened, heldDefs, pump, once, wire>>

ForwardEnter(r) ==
    /\ waiter[r] = "forward"
    /\ OnceEnter(r, "waiter")
    /\ UNCHANGED <<unit, opened, heldDefs, pump, waiter, wire>>

ForwardRun(r) ==
    /\ waiter[r] = "forward"
    /\ OnceRun(r, "waiter")
    /\ UNCHANGED <<unit, opened, heldDefs, pump, waiter>>

ForwardReturn(r) ==
    /\ waiter[r] = "forward"
    /\ OncePassed(r)
    /\ waiter' = [waiter EXCEPT ![r] = "unregister"]
    /\ UNCHANGED <<unit, opened, heldDefs, pump, once, wire>>

\* Mutant: the goroutine ends without unregistering its request.
EndRegistered(r) ==
    /\ waiter[r] = "unregister"
    /\ waiter' = [waiter EXCEPT ![r] = "done"]
    /\ UNCHANGED <<unit, opened, heldDefs, pump, once, wire>>

UnregisterHeldDef(r) ==
    /\ waiter[r] = "unregister"
    /\ waiter' = [waiter EXCEPT ![r] = "done"]
    /\ heldDefs' = [heldDefs EXCEPT ![DocOf[r]] = @ \ {r}]
    /\ UNCHANGED <<unit, opened, pump, once, wire>>

-----------------------------------------------------------------------------
PumpStep ==
    \/ \E r \in Requests : ForwardInline(r) \/ ReleaseEnter(r) \/ ReleaseRun(r) \/ ReleaseReturn(r)
    \/ \E d \in Docs : WriteOpen(d) \/ WriteClose(d) \/ WriteChange(d)

EditorMessage ==
    \/ \E r \in Requests : HoldForRequestUnit(r)
    \/ \E d \in Docs : DidOpen(d) \/ DidChange(d) \/ DidClose(d)

WaiterStep(r) ==
    \/ AwaitUnitApplied(r) \/ AwaitTimeout(r)
    \/ ForwardEnter(r) \/ ForwardRun(r) \/ ForwardReturn(r)
    \/ UnregisterHeldDef(r)

Next ==
    \/ EditorMessage \/ PumpStep
    \/ \E r \in Requests : WaiterStep(r)
    \/ \E S \in SUBSET Units : UnitsEntered(S) \/ UnitsApplied(S) \/ UnitsEvicted(S)

\* Goroutines go on and awaitUnitApplied's timer fires.  Neither the editor nor
\* the barrier is assumed to do anything.
Fairness == WF_vars(PumpStep) /\ \A r \in Requests : WF_vars(WaiterStep(r))

Spec == Init /\ [][Next]_vars /\ Fairness

-----------------------------------------------------------------------------
(* Properties. *)

TypeOK ==
    /\ unit \in [Units -> {"none", "pending", "applied"}]
    /\ opened \subseteq GoDocs
    /\ heldDefs \in [Docs -> SUBSET Requests]
    /\ pump \in [pc : {"idle", "inline", "open", "close", "release"},
                 on : SUBSET Docs, left : SUBSET Requests]
    /\ waiter \in [Requests -> {"none", "waiting", "forward", "unregister", "done"}]
    /\ once \in [Requests -> {"idle", "pump", "waiter", "done"}]
    /\ doc \in [Docs -> [open : BOOLEAN, session : 0..MaxSession, version : 0..MaxVersion]]
    /\ issued \subseteq Requests
    /\ sent \in [Requests -> 0..1]

\* A request that gopls has not received can still be overtaken by an edit, so a
\* didChange of its document must find it: it is in heldDefs, or pumpClient is
\* releasing or forwarding it.  registerHeldDef, unregisterHeldDef and
\* releaseHeldDefs all change the list.
UnsentReachable ==
    \A r \in issued : sent[r] = 0 =>
        \/ r \in heldDefs[DocOf[r]]
        \/ pump.pc \in {"inline", "release"} /\ r \in pump.left

\* The detailed design keeps the promise of InOrderDelivery: a held request is
\* forwarded once although two goroutines race to forward it, no didChange of its
\* document overtakes it, and it is forwarded whatever the barrier does.
Abs == INSTANCE InOrderDelivery WITH
           doc <- doc, issued <- issued, asked <- asked, sent <- sent, seen <- seen
InOrder == Abs!Spec

\* The goroutine of a held request ends, and leaves nothing of it in heldDefs.
HeldRequestsEnd ==
    \A r \in Requests :
        waiter[r] = "waiting" ~> waiter[r] = "done" /\ r \notin heldDefs[DocOf[r]]

\* Forwarding held requests never blocks pumpClient for good: a didChange that
\* waits in a sync.Once for another goroutine's write goes on.
PumpFree == pump.pc # "idle" ~> pump.pc = "idle"
=============================================================================
