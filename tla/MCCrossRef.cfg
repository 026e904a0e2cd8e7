SPECIFICATION Spec
CONSTANTS
    aMethod = aMethod
    aFunc = aFunc
    aLibrary = aLibrary
    aBroken = aBroken
    Requests = {r1, r2}
    Params = {aMethod, aFunc, aLibrary, aBroken}
    Symbol <- Symbols
    Queries <- Asked
INVARIANTS
    OneOutcome
    MethodRenameWhole
    OwnAnswersStay
    SharedAnswerFits
PROPERTIES
    EventuallyServed
CHECK_DEADLOCK FALSE
