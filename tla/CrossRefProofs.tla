--------------------------- MODULE CrossRefProofs ---------------------------
(***************************************************************************)
(* Proofs about CrossRef, for any number of concurrent requests and any    *)
(* symbols: one outcome per request, whole renames of methods, answers     *)
(* that reach who waits for them, and worker calls shared only by requests *)
(* that ask the same.                                                      *)
(***************************************************************************)
EXTENDS CrossRef, TLAPS

\* Before its interception a request has no params of the editor's.
SomeParams == Params \cup {CHOOSE p \in Params : TRUE}

Resolving == {"unit", "ask", "asking", "giveup", "decide"}
PCs == Resolving \cup {"new", "forward", "worker", "publish", "index", "flying", "done"}

ReqType ==
    [pc : PCs, method : Methods, params : SomeParams, over : SUBSET Requests,
     waited : BOOLEAN, try : Tries, def : {NoAnswer, Resolved, Unresolved},
     module : Modules \cup {"outside"}, leader : Requests]

ReqTyped ==
    /\ req \in [Requests -> ReqType]
    /\ \A r \in Requests : req[r].pc # "new" => req[r].params \in Params

OutcomeType == [forwarded : Nat, answered : Nat, refused : Nat]

Typed ==
    /\ ReqTyped
    /\ pendingOwn \subseteq Ids /\ atGopls \subseteq Ids
    /\ channel \in [Ids -> {NoAnswer, Resolved, Unresolved}]
    /\ call \in [Requests -> {"none", "running", "answered", "failed"}]
    /\ outcome \in [Requests -> OutcomeType]

\* A request whose call has begun has left the decision behind, and with it
\* everything that changes its method, params or module.
CallsLate ==
    \A r \in Requests : call[r] # "none" => req[r].pc \in {"flying", "forward", "done"}

\* Whoever waits in a flight waits for a call that has begun, nobody else has
\* another's call, and what a request remembers as ended has ended.
FlightsBegun ==
    \A r \in Requests :
        /\ req[r].pc = "flying" => call[req[r].leader] # "none"
        /\ req[r].pc # "flying" => req[r].leader = r
        /\ \A l \in req[r].over : call[l] \in {"answered", "failed"}

\* A rename that must see the whole workspace: gopls resolved a method of this
\* workspace, in a file that is saved, can be read and has no syntax error.
MustBeWhole(r) ==
    LET sym == Symbol[req[r].params]
    IN /\ req[r].method = "rename" /\ req[r].def = Resolved
       /\ sym.method /\ sym.file = "clean" /\ sym.module # "outside"

\* It is on no path that ends in the interactive gopls.
RenameRouted ==
    \A r \in Requests : MustBeWhole(r) =>
        outcome[r].forwarded = 0 /\ req[r].pc \notin {"publish", "forward", "index"}

CrossRefInv ==
    Typed /\ CallsLate /\ FlightsBegun /\ RenameRouted
    /\ OneOutcome /\ OwnAnswersStay /\ SharedAnswerFits

\* What the assumption says of one symbol.
LEMMA SymbolTypes ==
    \A p \in Params : /\ Symbol[p].module \in Modules \cup {"outside"}
                      /\ Symbol[p].method \in BOOLEAN /\ Symbol[p].file \in FileStates
BY CrossRefAssumption

\* The invariant holds before the first request.
LEMMA InitHolds == Init => CrossRefInv
<1> SUFFICES ASSUME Init PROVE CrossRefInv
  OBVIOUS
<1>1. Typed
  BY DEF Init, Typed, ReqTyped, ReqType, OutcomeType, SomeParams, PCs, Methods, Modules, RequestModule, Tries, NoAnswer
<1>2. CallsLate /\ FlightsBegun /\ RenameRouted /\ OwnAnswersStay /\ SharedAnswerFits
  BY DEF Init, CallsLate, FlightsBegun, RenameRouted, MustBeWhole, OwnAnswersStay,
         SharedAnswerFits, NoAnswer, Resolved
<1>3. OneOutcome
  BY DEF Init, OneOutcome
<1> QED BY <1>1, <1>2, <1>3 DEF CrossRefInv

\* A step of one request's goroutine changes that request's record.
LEMMA ReqChanged ==
    ASSUME ReqTyped, NEW r \in Requests, NEW new \in ReqType,
           new.pc # "new" => new.params \in Params,
           req' = [req EXCEPT ![r] = new]
    PROVE  ReqTyped'
BY DEF ReqTyped

\* The updates of a record that the goroutine makes keep its type.
LEMMA ReqUpdates ==
    ASSUME NEW q \in ReqType, NEW pc \in PCs
    PROVE  /\ [q EXCEPT !.pc = pc] \in ReqType
           /\ \A w \in BOOLEAN : [q EXCEPT !.pc = pc, !.waited = w] \in ReqType
           /\ \A d \in {NoAnswer, Resolved, Unresolved} :
                /\ [q EXCEPT !.pc = pc, !.def = d] \in ReqType
                /\ \A t \in Tries : [q EXCEPT !.def = d, !.pc = pc, !.try = t] \in ReqType
           /\ \A l \in Requests :
                /\ [q EXCEPT !.pc = pc, !.leader = l] \in ReqType
                /\ [q EXCEPT !.pc = pc, !.leader = l, !.over = {}] \in ReqType
BY DEF ReqType

\* Goto, AskReturns and LeaveFlight as changes of one record.
LEMMA ReqMoves ==
    ASSUME ReqTyped, NEW r \in Requests, req[r].pc # "new"
    PROVE  /\ \A pc \in PCs : Goto(r, pc) => ReqTyped'
           /\ \A a \in {NoAnswer, Resolved, Unresolved} : AskReturns(r, a) => ReqTyped'
           /\ \A pc \in PCs : LeaveFlight(r, pc) => ReqTyped'
<1>1. req[r] \in ReqType /\ req[r].params \in Params
  BY DEF ReqTyped
<1>2. ASSUME NEW pc \in PCs, Goto(r, pc) PROVE ReqTyped'
  <2>1. [req[r] EXCEPT !.pc = pc] \in ReqType
    BY <1>1, ReqUpdates
  <2>2. req' = [req EXCEPT ![r] = [req[r] EXCEPT !.pc = pc]]
    BY <1>2 DEF Goto
  <2> QED BY <1>1, <2>1, <2>2, ReqChanged DEF ReqType
<1>3. ASSUME NEW a \in {NoAnswer, Resolved, Unresolved}, AskReturns(r, a) PROVE ReqTyped'
  <2> DEFINE pc == IF a = Unresolved /\ req[r].waited /\ req[r].try = 1 THEN "ask" ELSE "decide"
             t == IF a = Unresolved /\ req[r].waited THEN 2 ELSE 1
             new == [req[r] EXCEPT !.def = a, !.pc = pc, !.try = t]
  <2>1. pc \in PCs /\ t \in Tries
    BY DEF PCs, Resolving, Tries
  <2>2. new \in ReqType
    BY <1>1, <2>1, ReqUpdates
  <2>3. req' = [req EXCEPT ![r] = new]
    BY <1>3 DEF AskReturns, ReqTyped
  <2>4. new.params = req[r].params
    BY <1>1 DEF ReqType
  <2> HIDE DEF new
  <2> QED BY <1>1, <2>2, <2>3, <2>4, ReqChanged
<1>4. ASSUME NEW pc \in PCs, LeaveFlight(r, pc) PROVE ReqTyped'
  <2> DEFINE new == [req[r] EXCEPT !.pc = pc, !.leader = r, !.over = {}]
  <2>1. new \in ReqType
    BY <1>1, ReqUpdates
  <2>2. req' = [req EXCEPT ![r] = new]
    BY <1>4 DEF LeaveFlight, ReqTyped
  <2>3. new.params = req[r].params
    BY <1>1 DEF ReqType
  <2> HIDE DEF new
  <2> QED BY <1>1, <2>1, <2>2, <2>3, ReqChanged
<1> QED BY <1>2, <1>3, <1>4

\* Every step keeps the types.
LEMMA TypePreserved == Typed /\ [Next]_vars => Typed'
<1> SUFFICES ASSUME Typed, [Next]_vars PROVE Typed'
  OBVIOUS
<1> USE DEF Typed
<1>1. ASSUME NEW r \in Requests, InterceptCrossRef(r) PROVE Typed'
  <2>1. PICK q \in Queries :
            req' = [req EXCEPT ![r].pc = "unit", ![r].method = q[1], ![r].params = q[2],
                        ![r].over = {l \in Requests : call[l] \in {"answered", "failed"}}]
    BY <1>1 DEF InterceptCrossRef
  <2> DEFINE new == [req[r] EXCEPT !.pc = "unit", !.method = q[1], !.params = q[2],
                        !.over = {l \in Requests : call[l] \in {"answered", "failed"}}]
  <2>2. q[1] \in Methods /\ q[2] \in Params /\ q[2] \in SomeParams
    BY CrossRefAssumption DEF SomeParams
  <2>6. req[r] \in ReqType /\ "unit" \in PCs
    BY DEF ReqTyped, PCs, Resolving
  <2>3. new \in ReqType /\ new.params \in Params
    BY <2>2, <2>6 DEF ReqType
  <2>4. req' = [req EXCEPT ![r] = new]
    BY <2>1 DEF ReqTyped
  <2> HIDE DEF new
  <2>5. ReqTyped'
    BY <2>3, <2>4, ReqChanged
  <2> QED BY <1>1, <2>5 DEF InterceptCrossRef
<1>2. ASSUME NEW r \in Requests, AwaitRequestUnit(r) PROVE Typed'
  <2>1. PICK w \in BOOLEAN : req' = [req EXCEPT ![r].pc = "ask", ![r].waited = w]
    BY <1>2 DEF AwaitRequestUnit
  <2> DEFINE new == [req[r] EXCEPT !.pc = "ask", !.waited = w]
  <2>2. new \in ReqType
    BY ReqUpdates DEF ReqTyped, PCs, Resolving
  <2>4. req[r] \in ReqType /\ req[r].params \in Params
    BY <1>2 DEF ReqTyped, AwaitRequestUnit
  <2>5. new.params = req[r].params
    BY <2>4 DEF ReqType
  <2>3. req' = [req EXCEPT ![r] = new]
    BY <2>1 DEF ReqTyped
  <2> HIDE DEF new
  <2> QED BY <1>2, <2>2, <2>3, <2>4, <2>5, ReqChanged DEF AwaitRequestUnit
<1>3. ASSUME NEW r \in Requests, AskDefinition(r) PROVE Typed'
  <2>1. ReqTyped'
    BY <1>3, ReqMoves DEF AskDefinition, PCs, Resolving
  <2>2. Id(r) \in Ids
    BY DEF Id, Ids, ReqTyped, ReqType
  <2> QED BY <1>3, <2>1, <2>2 DEF AskDefinition
<1>4. ASSUME NEW r \in Requests, AskAnswered(r) PROVE Typed'
  <2>1. Id(r) \in Ids
    BY DEF Id, Ids, ReqTyped, ReqType
  <2>2. ReqTyped'
    BY <1>4, <2>1, ReqMoves DEF AskAnswered
  <2> QED BY <1>4, <2>1, <2>2 DEF AskAnswered
<1>5. ASSUME NEW r \in Requests, AskTimeout(r) \/ WaitReady(r) PROVE Typed'
  <2>1. ReqTyped'
    BY <1>5, ReqMoves DEF AskTimeout, WaitReady, PCs, Resolving
  <2> QED BY <1>5, <2>1 DEF AskTimeout, WaitReady
<1>6. ASSUME NEW r \in Requests, AskGivesUp(r) PROVE Typed'
  <2>1. ReqTyped'
    BY <1>6, ReqMoves DEF AskGivesUp
  <2> QED BY <1>6, <2>1 DEF AskGivesUp
<1>7. ASSUME NEW r \in Requests, Decide(r) PROVE Typed'
  <2>1. PICK m \in IsMethodDecl(r) :
            req' = [req EXCEPT ![r].pc = Route(r, m), ![r].module = DefModule(r),
                               ![r].waited = FALSE, ![r].try = 1]
    BY <1>7 DEF Decide
  <2> DEFINE new == [req[r] EXCEPT !.pc = Route(r, m), !.module = DefModule(r),
                               !.waited = FALSE, !.try = 1]
  <2>2. req[r].params \in Params
    BY <1>7 DEF Decide, ReqTyped
  <2>3. DefModule(r) \in Modules \cup {"outside"}
    BY <2>2, SymbolTypes DEF DefModule, Modules, RequestModule
  <2>4. Route(r, m) \in PCs
    BY DEF Route, PCs
  <2>8. req[r] \in ReqType /\ 1 \in Tries
    BY DEF ReqTyped, Tries
  <2>5. new \in ReqType /\ new.params = req[r].params
    BY <2>3, <2>4, <2>8 DEF ReqType
  <2>6. req' = [req EXCEPT ![r] = new]
    BY <2>1 DEF ReqTyped
  <2> HIDE DEF new
  <2>7. ReqTyped'
    BY <2>2, <2>5, <2>6, ReqChanged
  <2> QED BY <1>7, <2>7 DEF Decide
<1>8. ASSUME NEW r \in Requests, Panic(r) PROVE Typed'
  <2> DEFINE new == [req[r] EXCEPT !.pc = "forward", !.def = NoAnswer]
  <2>1. new \in ReqType
    BY ReqUpdates DEF ReqTyped, PCs
  <2>3. req[r] \in ReqType /\ req[r].params \in Params
    BY <1>8 DEF ReqTyped, Panic
  <2>4. new.params = req[r].params
    BY <2>3 DEF ReqType
  <2>2. req' = [req EXCEPT ![r] = new]
    BY <1>8 DEF ReqTyped, Panic
  <2> HIDE DEF new
  <2> QED BY <1>8, <2>1, <2>2, <2>3, <2>4, ReqChanged DEF Panic
<1>9. ASSUME NEW r \in Requests, PublishUnitsAndForward(r) \/ ForwardHeld(r) PROVE Typed'
  <2>1. ReqTyped'
    BY <1>9, ReqMoves DEF PublishUnitsAndForward, ForwardHeld, PCs
  <2>2. [outcome[r] EXCEPT !.forwarded = @ + 1] \in OutcomeType
    BY DEF OutcomeType
  <2>3. outcome' \in [Requests -> OutcomeType]
    BY <1>9, <2>2 DEF PublishUnitsAndForward, ForwardHeld, Forward
  <2> QED BY <1>9, <2>1, <2>3 DEF PublishUnitsAndForward, ForwardHeld
<1>10. ASSUME NEW r \in Requests, EnterFlight(r) PROVE Typed'
  <2>1. CASE Running(Key(r)) = {}
    <3>1. ReqTyped'
      BY <1>10, <2>1, ReqMoves DEF EnterFlight, PCs
    <3> QED BY <1>10, <2>1, <3>1 DEF EnterFlight
  <2>2. CASE Running(Key(r)) # {}
    <3>1. PICK l \in Requests : req' = [req EXCEPT ![r].pc = "flying", ![r].leader = l]
      BY <1>10, <2>2 DEF EnterFlight, Running
    <3> DEFINE new == [req[r] EXCEPT !.pc = "flying", !.leader = l]
    <3>2. new \in ReqType
      BY ReqUpdates DEF ReqTyped, PCs
    <3>4. req[r] \in ReqType /\ req[r].params \in Params
      BY <1>10 DEF ReqTyped, EnterFlight
    <3>5. new.params = req[r].params
      BY <3>4 DEF ReqType
    <3>3. req' = [req EXCEPT ![r] = new]
      BY <3>1 DEF ReqTyped
    <3> HIDE DEF new
    <3> QED BY <1>10, <2>2, <3>2, <3>3, <3>4, <3>5, ReqChanged DEF EnterFlight
  <2> QED BY <2>1, <2>2
<1>11. ASSUME NEW r \in Requests, WorkerReturns(r) PROVE Typed'
  BY <1>11 DEF WorkerReturns, ReqTyped
<1>12. ASSUME NEW r \in Requests, ServeAnswer(r) \/ HandleWorkerError(r) PROVE Typed'
  <2>1. ReqTyped'
    BY <1>12, ReqMoves DEF ServeAnswer, HandleWorkerError, PCs
  <2>2. /\ [outcome[r] EXCEPT !.answered = @ + 1] \in OutcomeType
        /\ [outcome[r] EXCEPT !.refused = @ + 1] \in OutcomeType
    BY DEF OutcomeType
  <2>3. outcome' \in [Requests -> OutcomeType]
    BY <1>12, <2>2 DEF ServeAnswer, HandleWorkerError, Respond, RespondError
  <2> QED BY <1>12, <2>1, <2>3 DEF ServeAnswer, HandleWorkerError
<1>13. ASSUME NEW i \in Ids, HandleServerResponse(i) PROVE Typed'
  BY <1>13 DEF HandleServerResponse, ReqTyped
<1>14. CASE UNCHANGED vars
  BY <1>14 DEF vars, ReqTyped
<1> QED
  BY <1>1, <1>2, <1>3, <1>4, <1>5, <1>6, <1>7, <1>8, <1>9, <1>10, <1>11, <1>12, <1>13, <1>14
     DEF Next, Goroutine

\* What a step of r's goroutine leaves alone: the other requests, what r asks, and
\* where its worker call is.
Others(r) == \A q \in Requests : q # r => req'[q] = req[q]
SameQuestion(r) == req'[r].method = req[r].method /\ req'[r].params = req[r].params
SameFlight(r) == req'[r].leader = req[r].leader /\ req'[r].over = req[r].over
SameAsk(r) == req'[r].try = req[r].try

\* The fields of the record after each kind of step.
LEMMA GotoFields ==
    ASSUME ReqTyped, NEW r \in Requests, NEW pc, Goto(r, pc)
    PROVE  /\ Others(r) /\ SameQuestion(r) /\ SameFlight(r) /\ SameAsk(r)
           /\ req'[r].pc = pc /\ req'[r].module = req[r].module /\ req'[r].def = req[r].def
<1>1. req[r] \in ReqType /\ req' = [req EXCEPT ![r].pc = pc]
  BY DEF ReqTyped, Goto
<1>2. Others(r) /\ req'[r] = [req[r] EXCEPT !.pc = pc]
  BY <1>1 DEF ReqTyped, Others
<1> QED BY <1>1, <1>2 DEF ReqType, SameQuestion, SameFlight, SameAsk

LEMMA AskReturnsFields ==
    ASSUME ReqTyped, NEW r \in Requests, NEW a, AskReturns(r, a)
    PROVE  /\ Others(r) /\ SameQuestion(r) /\ SameFlight(r)
           /\ req'[r].pc \in {"ask", "decide"} /\ req'[r].module = req[r].module
           /\ req'[r].def = a
<1> DEFINE pc == IF a = Unresolved /\ req[r].waited /\ req[r].try = 1 THEN "ask" ELSE "decide"
           t == IF a = Unresolved /\ req[r].waited THEN 2 ELSE 1
<1>1. req[r] \in ReqType /\ pc \in {"ask", "decide"}
  BY DEF ReqTyped
<1>2. Others(r) /\ req'[r] = [req[r] EXCEPT !.def = a, !.pc = pc, !.try = t]
  BY DEF ReqTyped, AskReturns, Others
<1> HIDE DEF pc, t
<1> QED BY <1>1, <1>2 DEF ReqType, SameQuestion, SameFlight

LEMMA LeaveFlightFields ==
    ASSUME ReqTyped, NEW r \in Requests, NEW pc, LeaveFlight(r, pc)
    PROVE  /\ Others(r) /\ SameQuestion(r) /\ SameAsk(r)
           /\ req'[r].pc = pc /\ req'[r].module = req[r].module /\ req'[r].def = req[r].def
           /\ req'[r].leader = r /\ req'[r].over = {}
<1>1. req[r] \in ReqType
  BY DEF ReqTyped
<1>2. Others(r) /\ req'[r] = [req[r] EXCEPT !.pc = pc, !.leader = r, !.over = {}]
  BY DEF ReqTyped, LeaveFlight, Others
<1> QED BY <1>1, <1>2 DEF ReqType, SameQuestion, SameAsk

LEMMA InterceptFields ==
    ASSUME ReqTyped, NEW r \in Requests, InterceptCrossRef(r)
    PROVE  /\ Others(r) /\ req'[r].pc = "unit" /\ req'[r].leader = req[r].leader
           /\ req'[r].over = {l \in Requests : call[l] \in {"answered", "failed"}}
<1>1. PICK q \in Queries :
          req' = [req EXCEPT ![r].pc = "unit", ![r].method = q[1], ![r].params = q[2],
                      ![r].over = {l \in Requests : call[l] \in {"answered", "failed"}}]
  BY DEF InterceptCrossRef
<1>2. Others(r) /\ req[r] \in ReqType
      /\ req'[r] = [req[r] EXCEPT !.pc = "unit", !.method = q[1], !.params = q[2],
                      !.over = {l \in Requests : call[l] \in {"answered", "failed"}}]
  BY <1>1 DEF ReqTyped, Others
<1> QED BY <1>2 DEF ReqType

LEMMA AwaitFields ==
    ASSUME ReqTyped, NEW r \in Requests, AwaitRequestUnit(r)
    PROVE  /\ Others(r) /\ SameQuestion(r) /\ SameFlight(r)
           /\ req'[r].pc = "ask" /\ req'[r].module = req[r].module
<1>1. PICK w \in BOOLEAN : req' = [req EXCEPT ![r].pc = "ask", ![r].waited = w]
  BY DEF AwaitRequestUnit
<1>2. Others(r) /\ req[r] \in ReqType /\ req'[r] = [req[r] EXCEPT !.pc = "ask", !.waited = w]
  BY <1>1 DEF ReqTyped, Others
<1> QED BY <1>2 DEF ReqType, SameQuestion, SameFlight

LEMMA DecideFields ==
    ASSUME ReqTyped, NEW r \in Requests, Decide(r)
    PROVE  /\ Others(r) /\ SameQuestion(r) /\ SameFlight(r) /\ req'[r].def = req[r].def
           /\ \E m \in IsMethodDecl(r) : req'[r].pc = Route(r, m)
<1>1. PICK m \in IsMethodDecl(r) :
          req' = [req EXCEPT ![r].pc = Route(r, m), ![r].module = DefModule(r),
                             ![r].waited = FALSE, ![r].try = 1]
  BY DEF Decide
<1>2. Others(r) /\ req[r] \in ReqType
      /\ req'[r] = [req[r] EXCEPT !.pc = Route(r, m), !.module = DefModule(r),
                             !.waited = FALSE, !.try = 1]
  BY <1>1 DEF ReqTyped, Others
<1>3. req'[r].pc = Route(r, m) /\ req'[r].def = req[r].def /\ SameQuestion(r) /\ SameFlight(r)
  BY <1>2 DEF ReqType, SameQuestion, SameFlight
<1> QED BY <1>2, <1>3

LEMMA PanicFields ==
    ASSUME ReqTyped, NEW r \in Requests, Panic(r)
    PROVE  /\ Others(r) /\ SameQuestion(r) /\ SameFlight(r)
           /\ req'[r].pc = "forward" /\ req'[r].def = NoAnswer
<1>1. Others(r) /\ req[r] \in ReqType
      /\ req'[r] = [req[r] EXCEPT !.pc = "forward", !.def = NoAnswer]
  BY DEF ReqTyped, Panic, Others
<1> QED BY <1>1 DEF ReqType, SameQuestion, SameFlight

LEMMA JoinFields ==
    ASSUME ReqTyped, NEW r \in Requests, EnterFlight(r), Running(Key(r)) # {}
    PROVE  /\ Others(r) /\ SameQuestion(r) /\ UNCHANGED call
           /\ req'[r].pc = "flying" /\ req'[r].module = req[r].module /\ req'[r].def = req[r].def
           /\ req'[r].leader \in Running(Key(r)) /\ req'[r].over = req[r].over
<1>1. PICK l \in Running(Key(r)) : req' = [req EXCEPT ![r].pc = "flying", ![r].leader = l]
  BY DEF EnterFlight
<1>2. Others(r) /\ req[r] \in ReqType /\ req'[r] = [req[r] EXCEPT !.pc = "flying", !.leader = l]
  BY <1>1 DEF ReqTyped, Others
<1>3. req'[r].leader = l /\ SameQuestion(r) /\ req'[r].pc = "flying"
      /\ req'[r].module = req[r].module /\ req'[r].def = req[r].def /\ req'[r].over = req[r].over
  BY <1>2 DEF ReqType, SameQuestion
<1> QED BY <1>2, <1>3 DEF EnterFlight

\* Forward, Respond and RespondError count one outcome of one request.
LEMMA OutcomeFields ==
    ASSUME outcome \in [Requests -> OutcomeType], NEW r \in Requests,
           Forward(r) \/ Respond(r) \/ RespondError(r)
    PROVE  /\ \A q \in Requests : q # r => outcome'[q] = outcome[q]
           /\ outcome'[r].forwarded + outcome'[r].answered + outcome'[r].refused
                = outcome[r].forwarded + outcome[r].answered + outcome[r].refused + 1
           /\ ~Forward(r) => outcome'[r].forwarded = outcome[r].forwarded
<1>1. outcome[r] \in OutcomeType
  OBVIOUS
<1>2. CASE Forward(r)
  <2>1. outcome'[r] = [outcome[r] EXCEPT !.forwarded = @ + 1]
    BY <1>2 DEF Forward
  <2>2. outcome'[r].forwarded = outcome[r].forwarded + 1 /\ outcome'[r].answered = outcome[r].answered
        /\ outcome'[r].refused = outcome[r].refused
    BY <1>1, <2>1 DEF OutcomeType
  <2> QED BY <1>1, <1>2, <2>2 DEF Forward, OutcomeType
<1>3. CASE Respond(r)
  <2>1. outcome'[r] = [outcome[r] EXCEPT !.answered = @ + 1]
    BY <1>3 DEF Respond
  <2>2. outcome'[r].forwarded = outcome[r].forwarded /\ outcome'[r].answered = outcome[r].answered + 1
        /\ outcome'[r].refused = outcome[r].refused
    BY <1>1, <2>1 DEF OutcomeType
  <2> QED BY <1>1, <1>3, <2>2 DEF Respond, OutcomeType
<1>4. CASE RespondError(r)
  <2>1. outcome'[r] = [outcome[r] EXCEPT !.refused = @ + 1]
    BY <1>4 DEF RespondError
  <2>2. outcome'[r].forwarded = outcome[r].forwarded /\ outcome'[r].answered = outcome[r].answered
        /\ outcome'[r].refused = outcome[r].refused + 1
    BY <1>1, <2>1 DEF OutcomeType
  <2> QED BY <1>1, <1>4, <2>2 DEF RespondError, OutcomeType
<1> QED BY <1>2, <1>3, <1>4

\* The steps of the goroutine before it has an outcome or a worker call.
Early(r) ==
    \/ InterceptCrossRef(r) \/ AwaitRequestUnit(r) \/ AskDefinition(r) \/ AskAnswered(r)
    \/ AskTimeout(r) \/ AskGivesUp(r) \/ Decide(r) \/ Panic(r) \/ WaitReady(r)

\* They change no other request, no outcome and no call, and end nothing.
LEMMA EarlyFields ==
    ASSUME Typed, NEW r \in Requests, Early(r)
    PROVE  /\ Others(r) /\ UNCHANGED <<call, outcome>>
           /\ req[r].pc \in Resolving \cup {"new", "index"}
           /\ req'[r].pc \notin {"flying", "done", "new"} /\ req'[r].leader = req[r].leader
           /\ req'[r].over = req[r].over \/ req'[r].over = {l \in Requests : call[l] \in {"answered", "failed"}}
<1> USE DEF Typed
<1>1. CASE InterceptCrossRef(r)
  BY <1>1, InterceptFields DEF InterceptCrossRef
<1>2. CASE AwaitRequestUnit(r)
  BY <1>2, AwaitFields DEF AwaitRequestUnit, SameFlight, Resolving
<1>3. CASE AskDefinition(r) \/ AskTimeout(r)
  BY <1>3, GotoFields DEF AskDefinition, AskTimeout, SameFlight, Resolving
<1>4. CASE AskAnswered(r) \/ AskGivesUp(r)
  BY <1>4, AskReturnsFields DEF AskAnswered, AskGivesUp, SameFlight, Resolving
<1>5. CASE Decide(r)
  <2>1. \A m : Route(r, m) \notin {"flying", "done", "new"}
    BY DEF Route
  <2> QED BY <1>5, <2>1, DecideFields DEF Decide, SameFlight, Resolving
<1>6. CASE Panic(r)
  BY <1>6, PanicFields DEF Panic, SameFlight, Resolving
<1>7. CASE WaitReady(r)
  BY <1>7, GotoFields DEF WaitReady, SameFlight
<1> QED BY <1>1, <1>2, <1>3, <1>4, <1>5, <1>6, <1>7 DEF Early

\* Every step is one of these, or ends a wait in one of the other ways.
LEMMA NextCases ==
    ASSUME [Next]_vars
    PROVE  \/ \E r \in Requests :
                Early(r) \/ PublishUnitsAndForward(r) \/ ForwardHeld(r) \/ EnterFlight(r)
                \/ ServeAnswer(r) \/ HandleWorkerError(r) \/ WorkerReturns(r)
           \/ \E i \in Ids : HandleServerResponse(i)
           \/ UNCHANGED vars
BY DEF Next, Goroutine, Early

\* One outcome per request.
LEMMA OutcomePreserved == Typed /\ OneOutcome /\ [Next]_vars => OneOutcome'
<1> SUFFICES ASSUME Typed, OneOutcome, [Next]_vars PROVE OneOutcome'
  OBVIOUS
<1> USE DEF OneOutcome, Others
<1>1. ASSUME NEW r \in Requests, Early(r) PROVE OneOutcome'
  <2>1. req[r].pc # "done"
    BY <1>1, EarlyFields DEF Resolving
  <2> QED BY <1>1, <2>1, EarlyFields
<1>2. ASSUME NEW r \in Requests, PublishUnitsAndForward(r) \/ ForwardHeld(r) PROVE OneOutcome'
  BY <1>2, GotoFields, OutcomeFields DEF PublishUnitsAndForward, ForwardHeld, Typed
<1>3. ASSUME NEW r \in Requests, EnterFlight(r) PROVE OneOutcome'
  <2>1. Others(r) /\ req'[r].pc = "flying" /\ UNCHANGED outcome /\ req[r].pc = "worker"
    BY <1>3, GotoFields, JoinFields DEF EnterFlight, Typed
  <2> QED BY <2>1
<1>4. ASSUME NEW r \in Requests, ServeAnswer(r) PROVE OneOutcome'
  BY <1>4, LeaveFlightFields, OutcomeFields DEF ServeAnswer, Typed
<1>5. ASSUME NEW r \in Requests, HandleWorkerError(r) PROVE OneOutcome'
  <2>1. CASE req[r].method = "rename"
    BY <1>5, <2>1, LeaveFlightFields, OutcomeFields DEF HandleWorkerError, Typed
  <2>2. CASE req[r].method # "rename"
    BY <1>5, <2>2, LeaveFlightFields DEF HandleWorkerError, Typed
  <2> QED BY <2>1, <2>2
<1>6. ASSUME NEW r \in Requests, WorkerReturns(r) PROVE OneOutcome'
  BY <1>6 DEF WorkerReturns
<1>7. ASSUME NEW i \in Ids, HandleServerResponse(i) PROVE OneOutcome'
  BY <1>7 DEF HandleServerResponse
<1>8. CASE UNCHANGED vars
  BY <1>8 DEF vars
<1> QED BY <1>1, <1>2, <1>3, <1>4, <1>5, <1>6, <1>7, <1>8, NextCases

\* Worker calls: begun late, joined only while they run, by the same question.
FlightSound == CallsLate /\ FlightsBegun /\ SharedAnswerFits

\* A step of one request disturbs no flight if the request leads none, or has left
\* the flight and keeps its question.
LEMMA FlightsUndisturbed ==
    ASSUME Typed, FlightSound, NEW r \in Requests, Others(r), UNCHANGED call,
           req'[r].pc # "flying", req'[r].leader = r,
           \A l \in req'[r].over : call[l] \in {"answered", "failed"},
           \/ call[r] = "none"
           \/ /\ SameQuestion(r) /\ req'[r].module = req[r].module
              /\ req'[r].pc \in {"forward", "done"}
    PROVE  FlightSound'
<1> USE DEF FlightSound, Others, SameQuestion
<1>1. CallsLate'
  BY DEF CallsLate
<1>2. FlightsBegun'
  BY DEF FlightsBegun, Typed, ReqTyped, ReqType
<1>3. SharedAnswerFits'
  <2> SUFFICES ASSUME NEW q \in Requests, (req[q].pc = "flying")'
               PROVE  LET l == req'[q].leader
                      IN /\ req'[l].method = req'[q].method /\ req'[l].params = req'[q].params
                         /\ req'[l].module = req'[q].module
                         /\ l \notin req'[q].over
    BY DEF SharedAnswerFits
  <2>1. q # r /\ req'[q] = req[q]
    OBVIOUS
  <2>2. req[q].leader \in Requests
    BY DEF Typed, ReqTyped, ReqType
  <2>3. call[req[q].leader] # "none"
    BY <2>1 DEF FlightsBegun
  <2> QED BY <2>1, <2>2, <2>3 DEF SharedAnswerFits
<1> QED BY <1>1, <1>2, <1>3

LEMMA FlightPreserved == Typed /\ FlightSound /\ [Next]_vars => FlightSound'
<1> SUFFICES ASSUME Typed, FlightSound, [Next]_vars PROVE FlightSound'
  OBVIOUS
<1>1. ASSUME NEW r \in Requests, Early(r) PROVE FlightSound'
  <2>1. call[r] = "none"
    BY <1>1, EarlyFields DEF FlightSound, CallsLate, Typed, Resolving
  <2>2. \A l \in req'[r].over : call[l] \in {"answered", "failed"}
    BY <1>1, EarlyFields DEF FlightSound, FlightsBegun
  <2>3. req'[r].leader = r
    BY <1>1, EarlyFields DEF FlightSound, FlightsBegun, Resolving
  <2> QED BY <1>1, <2>1, <2>2, <2>3, EarlyFields, FlightsUndisturbed
<1>2. ASSUME NEW r \in Requests, PublishUnitsAndForward(r) \/ ForwardHeld(r) PROVE FlightSound'
  <2>1. /\ Others(r) /\ SameQuestion(r) /\ SameFlight(r) /\ UNCHANGED call
        /\ req'[r].module = req[r].module /\ req'[r].pc = "done"
    BY <1>2, GotoFields DEF PublishUnitsAndForward, ForwardHeld, Typed
  <2>2. req'[r].leader = r /\ \A l \in req'[r].over : call[l] \in {"answered", "failed"}
    BY <1>2, <2>1 DEF FlightSound, FlightsBegun, SameFlight, PublishUnitsAndForward, ForwardHeld
  <2> QED BY <2>1, <2>2, FlightsUndisturbed
<1>3. ASSUME NEW r \in Requests, EnterFlight(r) PROVE FlightSound'
  <2>1. call[r] = "none" /\ req[r].pc = "worker" /\ req[r].leader = r
    BY <1>3 DEF FlightSound, CallsLate, FlightsBegun, EnterFlight
  <2>2. PICK l \in Requests :
            /\ Others(r) /\ SameQuestion(r) /\ req'[r].module = req[r].module
            /\ req'[r].pc = "flying" /\ req'[r].over = req[r].over /\ req'[r].leader = l
            /\ \/ l = r /\ call' = [call EXCEPT ![r] = "running"]
               \/ l # r /\ UNCHANGED call /\ call[l] = "running" /\ Key(l) = Key(r)
    <3>1. CASE Running(Key(r)) = {}
      BY <1>3, <2>1, <3>1, GotoFields DEF EnterFlight, Typed, SameFlight
    <3>2. CASE Running(Key(r)) # {}
      <4>1. PICK l \in Running(Key(r)) : req'[r].leader = l
        BY <1>3, <3>2, JoinFields DEF Typed
      <4>2. l \in Requests /\ call[l] = "running" /\ Key(l) = Key(r) /\ l # r
        BY <2>1, <4>1 DEF Running
      <4> QED BY <1>3, <3>2, <4>1, <4>2, JoinFields DEF Typed
    <3> QED BY <3>1, <3>2
  <2>3. CallsLate'
    BY <2>1, <2>2 DEF FlightSound, CallsLate, Others, Typed
  <2>4. FlightsBegun'
    BY <2>1, <2>2 DEF FlightSound, FlightsBegun, Others, Typed, ReqTyped, ReqType
  <2>5. l \notin req[r].over
    BY <2>1, <2>2 DEF FlightSound, FlightsBegun
  <2>6. SharedAnswerFits'
    <3> SUFFICES ASSUME NEW q \in Requests, (req[q].pc = "flying")'
                 PROVE  LET k == req'[q].leader
                        IN /\ req'[k].method = req'[q].method /\ req'[k].params = req'[q].params
                           /\ req'[k].module = req'[q].module
                           /\ k \notin req'[q].over
      BY DEF SharedAnswerFits
    <3>1. CASE q = r
      <4>1. /\ req[l].method = req[r].method /\ req[l].params = req[r].params
            /\ req[l].module = req[r].module
        BY <2>2 DEF Key
      <4> QED BY <2>2, <2>5, <3>1, <4>1 DEF Others, SameQuestion
    <3>2. CASE q # r
      <4>1. req'[q] = req[q] /\ req[q].leader \in Requests /\ call[req[q].leader] # "none"
        BY <2>2, <3>2 DEF Others, FlightSound, FlightsBegun, Typed, ReqTyped, ReqType
      <4>2. req[q].leader # r
        BY <2>1, <4>1
      <4> QED BY <2>2, <4>1, <4>2 DEF Others, FlightSound, SharedAnswerFits
    <3> QED BY <3>1, <3>2
  <2> QED BY <2>3, <2>4, <2>6 DEF FlightSound
<1>4. ASSUME NEW r \in Requests, ServeAnswer(r) \/ HandleWorkerError(r) PROVE FlightSound'
  <2>1. /\ Others(r) /\ SameQuestion(r) /\ UNCHANGED call /\ req'[r].module = req[r].module
        /\ req'[r].pc \in {"forward", "done"} /\ req'[r].leader = r /\ req'[r].over = {}
    BY <1>4, LeaveFlightFields DEF ServeAnswer, HandleWorkerError, Typed
  <2> QED BY <2>1, FlightsUndisturbed
<1>5. ASSUME NEW r \in Requests, WorkerReturns(r) PROVE FlightSound'
  BY <1>5 DEF WorkerReturns, FlightSound, CallsLate, FlightsBegun, SharedAnswerFits, Typed
<1>6. ASSUME NEW i \in Ids, HandleServerResponse(i) PROVE FlightSound'
  BY <1>6 DEF HandleServerResponse, FlightSound, CallsLate, FlightsBegun, SharedAnswerFits
<1>7. CASE UNCHANGED vars
  BY <1>7 DEF vars, FlightSound, CallsLate, FlightsBegun, SharedAnswerFits
<1> QED BY <1>1, <1>2, <1>3, <1>4, <1>5, <1>6, <1>7, NextCases

\* A request that is not done has no outcome, so none was forwarded.
LEMMA NotForwarded ==
    ASSUME Typed, OneOutcome, NEW r \in Requests, req[r].pc # "done"
    PROVE  outcome[r].forwarded = 0
<1>1. outcome[r] \in OutcomeType
  BY DEF Typed
<1>2. outcome[r].forwarded + outcome[r].answered + outcome[r].refused = 0
  BY DEF OneOutcome
<1> QED BY <1>1, <1>2 DEF OutcomeType

\* The decision sends a rename that must be whole to the worker.
LEMMA WholeToWorker ==
    ASSUME NEW r \in Requests, MustBeWhole(r), NEW m \in IsMethodDecl(r)
    PROVE  Route(r, m) = "worker"
BY DEF MustBeWhole, IsMethodDecl, Route, DefModule, WholeWorkspace

\* A step that changes only r's record keeps RenameRouted for the others.
LEMMA RoutedOthers ==
    ASSUME RenameRouted, NEW r \in Requests, Others(r),
           \A q \in Requests : q # r => outcome'[q] = outcome[q],
           MustBeWhole(r)' =>
               outcome'[r].forwarded = 0 /\ req'[r].pc \notin {"publish", "forward", "index"}
    PROVE  RenameRouted'
BY DEF RenameRouted, Others, MustBeWhole

LEMMA RenamePreserved == Typed /\ OneOutcome /\ RenameRouted /\ [Next]_vars => RenameRouted'
<1> SUFFICES ASSUME Typed, OneOutcome, RenameRouted, [Next]_vars PROVE RenameRouted'
  OBVIOUS
<1>1. ASSUME NEW r \in Requests, Early(r) PROVE RenameRouted'
  <2>1. Others(r) /\ UNCHANGED outcome /\ outcome[r].forwarded = 0
    BY <1>1, EarlyFields, NotForwarded DEF Resolving
  <2>2. SUFFICES ASSUME MustBeWhole(r)'
                 PROVE  req'[r].pc \notin {"publish", "forward", "index"}
    BY <2>1, RoutedOthers
  <2>3. CASE InterceptCrossRef(r)
    BY <2>3, InterceptFields DEF Typed
  <2>4. CASE AwaitRequestUnit(r)
    BY <2>4, AwaitFields DEF Typed
  <2>5. CASE AskDefinition(r) \/ AskTimeout(r)
    BY <2>5, GotoFields DEF AskDefinition, AskTimeout, Typed
  <2>6. CASE AskAnswered(r) \/ AskGivesUp(r)
    BY <2>6, AskReturnsFields DEF AskAnswered, AskGivesUp, Typed
  <2>7. CASE Decide(r)
    <3>1. MustBeWhole(r)
      BY <2>2, <2>7, DecideFields DEF MustBeWhole, SameQuestion, Typed
    <3> QED BY <2>7, <3>1, DecideFields, WholeToWorker DEF Typed
  <2>8. CASE Panic(r)
    BY <2>2, <2>8, PanicFields DEF MustBeWhole, NoAnswer, Resolved, Typed
  <2>9. CASE WaitReady(r)
    <3>1. MustBeWhole(r)
      BY <2>2, <2>9, GotoFields DEF WaitReady, MustBeWhole, SameQuestion, Typed
    <3> QED BY <2>9, <3>1 DEF WaitReady, RenameRouted
  <2> QED BY <1>1, <2>3, <2>4, <2>5, <2>6, <2>7, <2>8, <2>9 DEF Early
<1>2. ASSUME NEW r \in Requests, PublishUnitsAndForward(r) \/ ForwardHeld(r) PROVE RenameRouted'
  <2>1. Others(r) /\ SameQuestion(r) /\ req'[r].def = req[r].def
    BY <1>2, GotoFields DEF PublishUnitsAndForward, ForwardHeld, Typed
  <2>2. MustBeWhole(r)' => MustBeWhole(r)
    BY <2>1 DEF MustBeWhole, SameQuestion
  <2>3. ~MustBeWhole(r)
    BY <1>2 DEF PublishUnitsAndForward, ForwardHeld, RenameRouted
  <2>4. \A q \in Requests : q # r => outcome'[q] = outcome[q]
    BY <1>2, OutcomeFields DEF PublishUnitsAndForward, ForwardHeld, Typed
  <2> QED BY <2>1, <2>2, <2>3, <2>4, RoutedOthers
<1>3. ASSUME NEW r \in Requests, EnterFlight(r) PROVE RenameRouted'
  <2>1. Others(r) /\ req'[r].pc = "flying" /\ UNCHANGED outcome /\ req[r].pc = "worker"
    BY <1>3, GotoFields, JoinFields DEF EnterFlight, Typed
  <2>2. outcome[r].forwarded = 0
    BY <2>1, NotForwarded
  <2> QED BY <2>1, <2>2, RoutedOthers
<1>4. ASSUME NEW r \in Requests, ServeAnswer(r) PROVE RenameRouted'
  <2>1. Others(r) /\ req'[r].pc = "done" /\ outcome[r].forwarded = 0
    BY <1>4, LeaveFlightFields, NotForwarded DEF ServeAnswer, Typed
  <2>2. outcome' = [outcome EXCEPT ![r].answered = @ + 1]
    BY <1>4 DEF ServeAnswer, Respond
  <2>3. /\ outcome'[r].forwarded = outcome[r].forwarded
        /\ \A q \in Requests : q # r => outcome'[q] = outcome[q]
    BY <2>2 DEF Typed, OutcomeType
  <2> QED BY <2>1, <2>3, RoutedOthers
<1>5. ASSUME NEW r \in Requests, HandleWorkerError(r) PROVE RenameRouted'
  <2>1. Others(r) /\ SameQuestion(r) /\ outcome[r].forwarded = 0
    BY <1>5, LeaveFlightFields, NotForwarded DEF HandleWorkerError, Typed
  <2>2. CASE req[r].method = "rename"
    <3>1. req'[r].pc = "done" /\ outcome' = [outcome EXCEPT ![r].refused = @ + 1]
      BY <1>5, <2>2, LeaveFlightFields DEF HandleWorkerError, RespondError, Typed
    <3>2. /\ outcome'[r].forwarded = outcome[r].forwarded
          /\ \A q \in Requests : q # r => outcome'[q] = outcome[q]
      BY <3>1 DEF Typed, OutcomeType
    <3> QED BY <2>1, <3>1, <3>2, RoutedOthers
  <2>3. CASE req[r].method # "rename"
    <3>1. ~MustBeWhole(r)' /\ UNCHANGED outcome
      BY <1>5, <2>1, <2>3 DEF HandleWorkerError, MustBeWhole, SameQuestion
    <3> QED BY <2>1, <3>1, RoutedOthers
  <2> QED BY <2>2, <2>3
<1>6. ASSUME NEW r \in Requests, WorkerReturns(r) PROVE RenameRouted'
  BY <1>6 DEF WorkerReturns, RenameRouted, MustBeWhole
<1>7. ASSUME NEW i \in Ids, HandleServerResponse(i) PROVE RenameRouted'
  BY <1>7 DEF HandleServerResponse, RenameRouted, MustBeWhole
<1>8. CASE UNCHANGED vars
  BY <1>8 DEF vars, RenameRouted, MustBeWhole
<1> QED BY <1>1, <1>2, <1>3, <1>4, <1>5, <1>6, <1>7, <1>8, NextCases

\* The proxy's own answers: only r's goroutine forgets r's id, and it then waits no
\* more; pumpServer takes an id off the list only by handing its answer over.
LEMMA AnswersPreserved == Typed /\ OwnAnswersStay /\ [Next]_vars => OwnAnswersStay'
<1> SUFFICES ASSUME Typed, OwnAnswersStay, [Next]_vars,
                    NEW q \in Requests, (req[q].pc = "asking")'
             PROVE  (Id(q) \in pendingOwn \/ channel[Id(q)] # NoAnswer)'
  BY DEF OwnAnswersStay
<1>1. ASSUME NEW r \in Requests, r # q, Others(r),
             \A i \in Ids : i[1] # r =>
                 (i \in pendingOwn => i \in pendingOwn') /\ channel'[i] = channel[i]
      PROVE  (Id(q) \in pendingOwn \/ channel[Id(q)] # NoAnswer)'
  <2>1. Id(q) \in Ids /\ Id(q)[1] = q /\ Id(q)' = Id(q) /\ req[q].pc = "asking"
    BY <1>1 DEF Id, Ids, Others, Typed, ReqTyped, ReqType
  <2> QED BY <1>1, <2>1 DEF OwnAnswersStay
<1>2. ASSUME NEW r \in Requests, Early(r)
      PROVE  (Id(q) \in pendingOwn \/ channel[Id(q)] # NoAnswer)'
  <2>1. CASE q = r
    <3>1. AskDefinition(r)
      <4>1. CASE InterceptCrossRef(r)
        BY <2>1, <4>1, InterceptFields DEF Typed
      <4>2. CASE AwaitRequestUnit(r)
        BY <2>1, <4>2, AwaitFields DEF Typed
      <4>3. CASE AskAnswered(r) \/ AskGivesUp(r)
        BY <2>1, <4>3, AskReturnsFields DEF AskAnswered, AskGivesUp, Typed
      <4>4. CASE AskTimeout(r) \/ WaitReady(r)
        BY <2>1, <4>4, GotoFields DEF AskTimeout, WaitReady, Typed
      <4>5. CASE Decide(r)
        <5>1. \A m : Route(r, m) # "asking"
          BY DEF Route
        <5> QED BY <2>1, <4>5, <5>1, DecideFields DEF Typed
      <4>6. CASE Panic(r)
        BY <2>1, <4>6, PanicFields DEF Typed
      <4> QED BY <1>2, <4>1, <4>2, <4>3, <4>4, <4>5, <4>6 DEF Early
    <3>2. Id(r)' = Id(r)
      BY <3>1, GotoFields DEF AskDefinition, Id, SameAsk, Typed
    <3> QED BY <2>1, <3>1, <3>2 DEF AskDefinition
  <2>2. CASE q # r
    <3>1. Others(r) /\ Id(r) \in Ids /\ Id(r)[1] = r
      BY <1>2, EarlyFields DEF Id, Ids, Typed, ReqTyped, ReqType
    <3>2. \A i \in Ids : i[1] # r =>
              (i \in pendingOwn => i \in pendingOwn') /\ channel'[i] = channel[i]
      BY <1>2, <3>1 DEF Early, Typed, InterceptCrossRef, AwaitRequestUnit, AskDefinition, AskAnswered,
                        AskTimeout, AskGivesUp, Decide, Panic, WaitReady
    <3> QED BY <1>1, <2>2, <3>1, <3>2
  <2> QED BY <2>1, <2>2
<1>3. ASSUME NEW r \in Requests,
             PublishUnitsAndForward(r) \/ ForwardHeld(r) \/ EnterFlight(r) \/ ServeAnswer(r)
             \/ HandleWorkerError(r)
      PROVE  (Id(q) \in pendingOwn \/ channel[Id(q)] # NoAnswer)'
  <2>1. Others(r) /\ req'[r].pc # "asking"
    BY <1>3, GotoFields, JoinFields, LeaveFlightFields
       DEF PublishUnitsAndForward, ForwardHeld, EnterFlight, ServeAnswer, HandleWorkerError, Typed
  <2>2. UNCHANGED <<pendingOwn, channel>>
    BY <1>3 DEF PublishUnitsAndForward, ForwardHeld, EnterFlight, ServeAnswer, HandleWorkerError
  <2> QED BY <1>1, <2>1, <2>2
<1>4. ASSUME NEW r \in Requests, WorkerReturns(r)
      PROVE  (Id(q) \in pendingOwn \/ channel[Id(q)] # NoAnswer)'
  BY <1>4 DEF WorkerReturns, OwnAnswersStay, Id
<1>5. ASSUME NEW i \in Ids, HandleServerResponse(i)
      PROVE  (Id(q) \in pendingOwn \/ channel[Id(q)] # NoAnswer)'
  <2>1. Id(q)' = Id(q) /\ Id(q) \in Ids /\ (Id(q) \in pendingOwn \/ channel[Id(q)] # NoAnswer)
    BY <1>5 DEF HandleServerResponse, OwnAnswersStay, Id, Ids, Typed, ReqTyped, ReqType
  <2>2. CASE i \in pendingOwn
    <3>1. PICK a \in {Resolved, Unresolved} :
              channel' = [channel EXCEPT ![i] = a] /\ pendingOwn' = pendingOwn \ {i}
      BY <1>5, <2>2 DEF HandleServerResponse
    <3>2. a # NoAnswer
      BY DEF Resolved, Unresolved, NoAnswer
    <3> QED BY <2>1, <3>1, <3>2 DEF Typed
  <2>3. CASE i \notin pendingOwn
    BY <1>5, <2>1, <2>3 DEF HandleServerResponse
  <2> QED BY <2>2, <2>3
<1>6. CASE UNCHANGED vars
  BY <1>6 DEF vars, OwnAnswersStay, Id
<1> QED BY <1>2, <1>3, <1>4, <1>5, <1>6, NextCases

-----------------------------------------------------------------------------
(* The theorems. *)

\* CrossRefInv, which the four properties follow from, is inductive.
THEOREM CrossRefInvariant == Spec => []CrossRefInv
<1>1. CrossRefInv /\ [Next]_vars => CrossRefInv'
  BY TypePreserved, OutcomePreserved, FlightPreserved, RenamePreserved, AnswersPreserved
     DEF CrossRefInv, FlightSound
<1> QED BY InitHolds, <1>1, PTL DEF Spec

\* Every request that resolveAndExpand takes over is forwarded, answered or refused
\* once, when its goroutine is done and not before, however asks, timeouts, shared
\* calls and failures interleave.
THEOREM RequestsHaveOneOutcome == Spec => []OneOutcome
BY CrossRefInvariant, PTL DEF CrossRefInv

\* No worker failure and no module boundary lets the rename of a resolved method of
\* the workspace reach the interactive gopls, which sees only part of it, as long as
\* isMethodDecl can judge the method: its file is saved, can be read and parses.
THEOREM MethodRenamesWhole == Spec => []MethodRenameWhole
<1>1. CrossRefInv => MethodRenameWhole
  <2> SUFFICES ASSUME CrossRefInv, NEW r \in Requests,
                      req[r].method = "rename", outcome[r].forwarded > 0,
                      req[r].def = Resolved, Symbol[req[r].params].method,
                      Symbol[req[r].params].file = "clean",
                      Symbol[req[r].params].module # "outside"
               PROVE  FALSE
    BY DEF MethodRenameWhole
  <2>1. MustBeWhole(r)
    BY DEF MustBeWhole
  <2>2. outcome[r].forwarded = 0
    BY <2>1 DEF CrossRefInv, RenameRouted
  <2> QED BY <2>2
<1> QED BY CrossRefInvariant, <1>1, PTL

\* An answer of gopls to a definition request of the proxy's own reaches the
\* goroutine that waits for it, whatever the other requests and pumpServer do.
THEOREM OwnAnswersReachAsker == Spec => []OwnAnswersStay
BY CrossRefInvariant, PTL DEF CrossRefInv

\* singleflight never hands a request the result of another question, nor that of a
\* call that had ended when the request came.
THEOREM SharedAnswersFit == Spec => []SharedAnswerFits
BY CrossRefInvariant, PTL DEF CrossRefInv

=============================================================================
