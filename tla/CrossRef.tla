------------------------------ MODULE CrossRef ------------------------------
(***************************************************************************)
(* resolve.go: a rename, references or implementation request is taken     *)
(* over by a goroutine that asks gopls where the symbol is defined and     *)
(* decides from the answer which packages must be seen: those of the       *)
(* reverse-import closure, in the interactive gopls, or all of them, in an *)
(* isolated worker.                                                        *)
(*                                                                         *)
(* Processes: one goroutine per request, pumpServer, gopls, and the worker *)
(* calls that concurrent identical requests share.  The barrier a closure  *)
(* waits for is module ScopeBarrier, the worker is WorkerLifecycle; here   *)
(* they answer, fail or time out.                                          *)
(***************************************************************************)
EXTENDS Integers, FiniteSets

CONSTANTS
    Requests,  \* cross-reference requests
    Params,    \* params of a request: a document and a position in it
    Queries,   \* the pairs of a method and params that the editor may ask
    Symbol     \* per params, what is there: the module that defines it, whether
               \* that is a method, and in which state the defining file is

Methods == {"rename", "references", "implementation"}
Modules == {"main", "nested"}
RequestModule == "main"   \* the module of the requesting documents

\* The defining file on disk is what gopls saw, or the editor has unsaved edits of
\* it, or it cannot be read or has a syntax error.
FileStates == {"clean", "unsaved", "broken"}

ASSUME CrossRefAssumption ==
    /\ Queries \subseteq Methods \X Params
    /\ Symbol \in [Params -> [module : Modules \cup {"outside"},
                              method : BOOLEAN, file : FileStates]]

VARIABLES
    req,        \* per request: where resolveAndExpand is
    pendingOwn, \* proxy.pendingOwn: <<request, ask>> pairs as ids
    atGopls,    \* definition requests gopls has not answered
    channel,    \* per id: the answer pumpServer has handed over
    call,       \* per request: the worker call it leads
    outcome     \* per request: how often it was forwarded, answered, refused

vars == <<req, pendingOwn, atGopls, channel, call, outcome>>

Tries == 1..2
Ids == Requests \X Tries
NoAnswer == "none"
Resolved == "location"
Unresolved == "nothing"

Init ==
    /\ req = [r \in Requests |-> [pc |-> "new", method |-> "rename",
                params |-> CHOOSE p \in Params : TRUE, over |-> {}, waited |-> FALSE,
                try |-> 1, def |-> NoAnswer, module |-> RequestModule, leader |-> r]]
    /\ pendingOwn = {} /\ atGopls = {}
    /\ channel = [i \in Ids |-> NoAnswer]
    /\ call = [r \in Requests |-> "none"]
    /\ outcome = [r \in Requests |-> [forwarded |-> 0, answered |-> 0, refused |-> 0]]

Goto(r, pc) == req' = [req EXCEPT ![r].pc = pc]
Id(r) == <<r, req[r].try>>

Forward(r) == outcome' = [outcome EXCEPT ![r].forwarded = @ + 1]
Respond(r) == outcome' = [outcome EXCEPT ![r].answered = @ + 1]
RespondError(r) == outcome' = [outcome EXCEPT ![r].refused = @ + 1]

-----------------------------------------------------------------------------
(* Resolving the definition. *)

\* interceptCrossRef starts the goroutine; `over` remembers which worker calls had
\* ended by then (history).
InterceptCrossRef(r) ==
    /\ req[r].pc = "new"
    /\ \E q \in Queries :
        req' = [req EXCEPT ![r].pc = "unit", ![r].method = q[1], ![r].params = q[2],
                           ![r].over = {l \in Requests : call[l] \in {"answered", "failed"}}]
    /\ UNCHANGED <<pendingOwn, atGopls, channel, call, outcome>>

\* awaitRequestUnit: the unit was applied, or it was waited for, perhaps in vain.
AwaitRequestUnit(r) ==
    /\ req[r].pc = "unit"
    /\ \E waited \in BOOLEAN : req' = [req EXCEPT ![r].pc = "ask", ![r].waited = waited]
    /\ UNCHANGED <<pendingOwn, atGopls, channel, call, outcome>>

AskDefinition(r) ==
    /\ req[r].pc = "ask"
    /\ pendingOwn' = pendingOwn \cup {Id(r)}
    /\ atGopls' = atGopls \cup {Id(r)}
    /\ Goto(r, "asking")
    /\ UNCHANGED <<channel, call, outcome>>

\* Mutant: an answer, a late one too, takes every id of its request off the list.
HandleServerResponseByRequest(i) ==
    /\ i \in atGopls
    /\ atGopls' = atGopls \ {i}
    /\ pendingOwn' = {j \in pendingOwn : j[1] # i[1]}
    /\ IF i \in pendingOwn
       THEN \E a \in {Resolved, Unresolved} : channel' = [channel EXCEPT ![i] = a]
       ELSE UNCHANGED channel
    /\ UNCHANGED <<req, call, outcome>>

\* gopls answers, in any order; handleServerResponse hands the answer to the
\* goroutine whose id is known, and lets any other go to the editor.
HandleServerResponse(i) ==
    /\ i \in atGopls
    /\ atGopls' = atGopls \ {i}
    /\ IF i \in pendingOwn
       THEN /\ pendingOwn' = pendingOwn \ {i}
            /\ \E a \in {Resolved, Unresolved} : channel' = [channel EXCEPT ![i] = a]
       ELSE UNCHANGED <<pendingOwn, channel>>
    /\ UNCHANGED <<req, call, outcome>>

\* askDefinition has returned: a location, or nothing, and then one more try if
\* the request had waited for its unit.
AskReturns(r, answer) ==
    req' = [req EXCEPT ![r].def = answer,
                ![r].pc = IF answer = Unresolved /\ req[r].waited /\ req[r].try = 1
                          THEN "ask" ELSE "decide",
                ![r].try = IF answer = Unresolved /\ req[r].waited THEN 2 ELSE 1]

AskAnswered(r) ==
    /\ req[r].pc = "asking" /\ channel[Id(r)] # NoAnswer
    /\ AskReturns(r, channel[Id(r)])
    /\ channel' = [channel EXCEPT ![Id(r)] = NoAnswer]
    /\ UNCHANGED <<pendingOwn, atGopls, call, outcome>>

\* Mutant: no timeout, only an answer ends the wait.
AskTimeoutNever(r) ==
    /\ req[r].pc = "asking" /\ channel[Id(r)] # NoAnswer
    /\ Goto(r, "giveup")
    /\ UNCHANGED <<pendingOwn, atGopls, channel, call, outcome>>

\* The ten seconds are over; the id is forgotten under the lock, a moment later.
AskTimeout(r) ==
    /\ req[r].pc = "asking"
    /\ Goto(r, "giveup")
    /\ UNCHANGED <<pendingOwn, atGopls, channel, call, outcome>>

AskGivesUp(r) ==
    /\ req[r].pc = "giveup"
    /\ pendingOwn' = pendingOwn \ {Id(r)}
    /\ AskReturns(r, Unresolved)
    /\ channel' = [channel EXCEPT ![Id(r)] = NoAnswer]   \* no one will read it
    /\ UNCHANGED <<atGopls, call, outcome>>

-----------------------------------------------------------------------------
(* Deciding. *)

\* Without a location the requesting file and line stand in for the definition.
DefModule(r) == IF req[r].def = Resolved THEN Symbol[req[r].params].module ELSE RequestModule

\* isMethodDecl parses the file as it is on disk: FALSE on any error.  The line is
\* the right one only if gopls resolved the symbol and nothing is unsaved.
IsMethodDecl(r) ==
    LET sym == Symbol[req[r].params] IN
    CASE req[r].def = Resolved /\ sym.file = "clean"  -> {sym.method}
      [] req[r].def = Resolved /\ sym.file = "broken" -> {FALSE}
      [] OTHER                                        -> BOOLEAN

WholeWorkspace(r, isMethod) ==
    \/ req[r].method = "implementation"
    \/ req[r].method \in {"references", "rename"} /\ isMethod

\* Mutant: another module's definition is handled before the method check.
RouteModuleFirst(r, isMethod) ==
    IF DefModule(r) = "outside" THEN "forward"
    ELSE IF DefModule(r) # RequestModule THEN "publish"
    ELSE IF WholeWorkspace(r, isMethod) THEN "worker"
    ELSE "index"

\* Where resolveAndExpand goes on.
Route(r, isMethod) ==
    IF DefModule(r) = "outside" THEN "forward"
    ELSE IF WholeWorkspace(r, isMethod) THEN "worker"
    ELSE IF DefModule(r) # RequestModule THEN "publish"
    ELSE "index"

Decide(r) ==
    /\ req[r].pc = "decide"
    /\ \E isMethod \in IsMethodDecl(r) :
        req' = [req EXCEPT ![r].pc = Route(r, isMethod), ![r].module = DefModule(r),
                           ![r].waited = FALSE, ![r].try = 1]
    /\ UNCHANGED <<pendingOwn, atGopls, channel, call, outcome>>

\* The deferred recover: whatever panics while deciding, the request is forwarded;
\* what was resolved is lost with the stack.
Panic(r) ==
    /\ req[r].pc = "decide"
    /\ req' = [req EXCEPT ![r].pc = "forward", ![r].def = NoAnswer]
    /\ UNCHANGED <<pendingOwn, atGopls, channel, call, outcome>>

\* WaitReady: the index is ready, or after two minutes the request goes as it is.
WaitReady(r) ==
    /\ req[r].pc = "index"
    /\ \E ready \in BOOLEAN : Goto(r, IF ready THEN "publish" ELSE "forward")
    /\ UNCHANGED <<pendingOwn, atGopls, channel, call, outcome>>

\* publishUnitsAndForward: awaitApplied returns, in time or not.
PublishUnitsAndForward(r) ==
    /\ req[r].pc = "publish"
    /\ Forward(r)
    /\ Goto(r, "done")
    /\ UNCHANGED <<pendingOwn, atGopls, channel, call>>

ForwardHeld(r) ==
    /\ req[r].pc = "forward"
    /\ Forward(r)
    /\ Goto(r, "done")
    /\ UNCHANGED <<pendingOwn, atGopls, channel, call>>

-----------------------------------------------------------------------------
(* serveViaWorker. *)

\* Mutant: the flight key lacks the method.
KeyOfPlace(r) == <<req[r].module, req[r].params>>

Key(r) == <<req[r].method, req[r].module, req[r].params>>

\* singleflight: the first request of a key calls the worker, the ones that come
\* while it runs wait for its result.
Running(key) == {l \in Requests : call[l] = "running" /\ Key(l) = key}

EnterFlight(r) ==
    /\ req[r].pc = "worker"
    /\ IF Running(Key(r)) = {}
       THEN /\ call' = [call EXCEPT ![r] = "running"]
            /\ Goto(r, "flying")
       ELSE /\ \E l \in Running(Key(r)) :
                req' = [req EXCEPT ![r].pc = "flying", ![r].leader = l]
            /\ UNCHANGED call
    /\ UNCHANGED <<pendingOwn, atGopls, channel, outcome>>

\* workerHandle.request returns: an answer, or an error (a timeout, a dead worker).
WorkerReturns(l) ==
    /\ call[l] = "running"
    /\ \E s \in {"answered", "failed"} : call' = [call EXCEPT ![l] = s]
    /\ UNCHANGED <<req, pendingOwn, atGopls, channel, outcome>>

\* The leader and those that waited take the result.
LeaveFlight(r, pc) == req' = [req EXCEPT ![r].pc = pc, ![r].leader = r, ![r].over = {}]

ServeAnswer(r) ==
    /\ req[r].pc = "flying" /\ call[req[r].leader] = "answered"
    /\ Respond(r)
    /\ LeaveFlight(r, "done")
    /\ UNCHANGED <<pendingOwn, atGopls, channel, call>>

\* Mutant: a rename is refused and forwarded too.
HandleWorkerErrorTwice(r) ==
    /\ req[r].pc = "flying" /\ call[req[r].leader] = "failed"
    /\ IF req[r].method = "rename" THEN RespondError(r) ELSE UNCHANGED outcome
    /\ LeaveFlight(r, "forward")
    /\ UNCHANGED <<pendingOwn, atGopls, channel, call>>

\* handleWorkerError: a rename fails, the others fall back to the narrow scope.
HandleWorkerError(r) ==
    /\ req[r].pc = "flying" /\ call[req[r].leader] = "failed"
    /\ IF req[r].method = "rename"
       THEN RespondError(r) /\ LeaveFlight(r, "done")
       ELSE LeaveFlight(r, "forward") /\ UNCHANGED outcome
    /\ UNCHANGED <<pendingOwn, atGopls, channel, call>>

-----------------------------------------------------------------------------
Goroutine(r) ==
    \/ AwaitRequestUnit(r) \/ AskDefinition(r) \/ AskAnswered(r) \/ AskTimeout(r) \/ AskGivesUp(r)
    \/ Decide(r) \/ Panic(r) \/ WaitReady(r) \/ PublishUnitsAndForward(r) \/ ForwardHeld(r)
    \/ EnterFlight(r) \/ ServeAnswer(r) \/ HandleWorkerError(r)

Next ==
    \/ \E r \in Requests : InterceptCrossRef(r) \/ Goroutine(r) \/ WorkerReturns(r)
    \/ \E i \in Ids : HandleServerResponse(i)

\* Goroutines go on, their timers included, and a worker call ends within its
\* budget.  gopls is not assumed to answer.
Fairness == \A r \in Requests : WF_vars(Goroutine(r)) /\ WF_vars(WorkerReturns(r))

Spec == Init /\ [][Next]_vars /\ Fairness

-----------------------------------------------------------------------------
(* Properties. *)

\* A request taken over by the proxy has one outcome, and has it when its
\* goroutine is done: gopls answers it, the worker's answer is passed on, or it
\* is refused; never two of these (the editor would drop the second, or worse).
OneOutcome ==
    \A r \in Requests :
        outcome[r].forwarded + outcome[r].answered + outcome[r].refused
            = IF req[r].pc = "done" THEN 1 ELSE 0

\* A rename of a method is done in the whole workspace or not at all, also when
\* the worker fails and when the method is another module's: the interactive
\* gopls would rename only what it sees.  It holds when gopls has resolved the
\* symbol and isMethodDecl can judge it, that is when the defining file is saved,
\* can be read and has no syntax error, and unless the decision itself panics; in
\* the other cases the code forwards the rename (README, known deviations).
MethodRenameWhole ==
    \A r \in Requests :
        LET sym == Symbol[req[r].params]
        IN /\ req[r].method = "rename" /\ outcome[r].forwarded > 0
           /\ req[r].def = Resolved /\ sym.method /\ sym.file = "clean"
           => sym.module = "outside"

\* The answer to a definition request of the proxy's own comes to the goroutine
\* that waits for it, whatever other requests ask, are answered or give up; only
\* an answer that comes after the timeout goes to the editor, which never asked.
OwnAnswersStay ==
    \A r \in Requests :
        req[r].pc = "asking" => Id(r) \in pendingOwn \/ channel[Id(r)] # NoAnswer

\* A request that shares another's worker call gets an answer to its own question,
\* from a call that was still running when the request was issued.
SharedAnswerFits ==
    \A r \in Requests :
        req[r].pc = "flying" =>
            LET l == req[r].leader
            IN /\ req[l].method = req[r].method /\ req[l].params = req[r].params
               /\ req[l].module = req[r].module
               /\ l \notin req[r].over

\* Every request is forwarded, answered or refused in the end.
EventuallyServed == \A r \in Requests : req[r].pc = "unit" ~> req[r].pc = "done"
=============================================================================
