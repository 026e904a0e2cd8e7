----------------------------- MODULE MCCrossRef -----------------------------
(* A method of a nested module and a function of the main one whose file has *)
(* unsaved edits, each asked about in two ways, a library's method, and a *)
(* method in a file with a syntax error. *)
EXTENDS CrossRef, TLC

CONSTANTS aMethod, aFunc, aLibrary, aBroken

Symbols ==
    (aMethod :> [module |-> "nested", method |-> TRUE, file |-> "clean"]) @@
    (aFunc :> [module |-> "main", method |-> FALSE, file |-> "unsaved"]) @@
    (aLibrary :> [module |-> "outside", method |-> TRUE, file |-> "clean"]) @@
    (aBroken :> [module |-> "main", method |-> TRUE, file |-> "broken"])

Asked == {<<"rename", aMethod>>, <<"references", aMethod>>,
          <<"rename", aFunc>>, <<"implementation", aFunc>>, <<"rename", aLibrary>>,
          <<"rename", aBroken>>}
=============================================================================
