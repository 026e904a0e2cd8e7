----------------------------- MODULE ScopeUnits -----------------------------
(***************************************************************************)
(* What the scope barrier promises to those who ask it about single units. *)
(* holdForRequestUnit and awaitUnitApplied look at a unit's entry and at   *)
(* appliedGen, and see one of three things: no entry, a pending one, an    *)
(* applied one.  An entry begins pending, unless the session starts with   *)
(* it.  Once applied it stays so until it is evicted, and it is not        *)
(* evicted while a Go document of its unit is open.                        *)
(***************************************************************************)
CONSTANTS
    GoDocs,  \* Go documents of the workspace
    Units,   \* scope units
    UnitOf   \* the unit of a document

VARIABLES
    unit,    \* per unit: its scope entry, "none", "pending" or "applied"
    opened   \* the open Go documents

vars == <<unit, opened>>

\* initialize has delivered the restored scope.
Init == unit \in [Units -> {"none", "applied"}] /\ opened = {}

Moved(S, to) == [u \in Units |-> IF u \in S THEN to ELSE unit[u]]

Open(d) ==
    /\ opened' = opened \cup {d}
    /\ unit' = Moved({UnitOf[d]} \cap {u \in Units : unit[u] = "none"}, "pending")

Close(d) == opened' = opened \ {d} /\ UNCHANGED unit

\* A cross-reference request enters the units of its closure.
Enter(S) ==
    /\ \A u \in S : unit[u] = "none"
    /\ unit' = Moved(S, "pending")
    /\ UNCHANGED opened

Apply(S) ==
    /\ \A u \in S : unit[u] = "pending"
    /\ unit' = Moved(S, "applied")
    /\ UNCHANGED opened

Evict(S) ==
    /\ \A d \in opened : UnitOf[d] \notin S
    /\ unit' = Moved(S, "none")
    /\ UNCHANGED opened

Next ==
    \/ \E d \in GoDocs : Open(d) \/ Close(d)
    \/ \E S \in SUBSET Units : Enter(S) \/ Apply(S) \/ Evict(S)

Spec == Init /\ [][Next]_vars
=============================================================================
