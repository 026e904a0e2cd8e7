--------------------------- MODULE MCHeldRequests ---------------------------
(* Two requests for one document, which is edited, closed and opened again *)
(* while they are held. *)
EXTENDS HeldRequests, TLC

CONSTANTS d1, r1, r2, u1

RequestDocs == (r1 :> d1) @@ (r2 :> d1)
DocUnits == d1 :> u1
=============================================================================
