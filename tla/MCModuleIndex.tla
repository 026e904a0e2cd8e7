--------------------------- MODULE MCModuleIndex ----------------------------
EXTENDS ModuleIndex

SomeDirs == {<<"api">>, <<"svc", "auth">>, <<"svc", "auth", "db">>}
TaskSymmetry == Permutations(Updates)
=============================================================================
