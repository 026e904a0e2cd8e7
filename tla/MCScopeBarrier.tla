--------------------------- MODULE MCScopeBarrier ---------------------------
(***************************************************************************)
(* Small instances of ScopeBarrier: two units, two files and requests that *)
(* need one unit or both.  In the eviction instance one unit is the        *)
(* workspace root and one file is not a Go file.                           *)
(***************************************************************************)
EXTENDS ScopeBarrier, TLC

CONSTANTS auth, mail, dot, f1, f2

TwoUnits    == {auth, mail}
WithRoot    == {auth, dot}
TwoFiles    == {f1, f2}
UnitOfOne   == f1 :> auth
UnitOfTwo   == (f1 :> auth) @@ (f2 :> mail)
UnitOfAuth  == (f1 :> auth) @@ (f2 :> auth)
MailOrBoth  == {{mail}, {auth, mail}}
RootClosure == {{auth, dot}}
=============================================================================
