-------------------------- MODULE InOrderDelivery ---------------------------
(***************************************************************************)
(* What holding a request promises its editor, without saying how.  gopls  *)
(* receives one stream of messages.  A request that carries a cursor       *)
(* position may be delivered late, but exactly once, and an edit of its    *)
(* document never overtakes it: gopls resolves the position in the text it *)
(* was issued for.  Opening and closing a document are not ordered with    *)
(* the requests under way; a request then meets another session.           *)
(***************************************************************************)
EXTENDS Integers

CONSTANTS
    Docs,      \* documents
    Requests,  \* positional requests
    DocOf      \* the document a request names

VARIABLES
    doc,     \* per document: the state of it that gopls knows
    issued,  \* the requests the editor has issued
    asked,   \* per request: the state of its document when it was issued
    sent,    \* per request: how often gopls has received it
    seen     \* per request: the state of its document when gopls received it

vars == <<doc, issued, asked, sent, seen>>

\* didOpen numbers the sessions of a document, didChange the edits of a session.
DocState == [open : BOOLEAN, session : Nat, version : Nat]
NeverOpened == [open |-> FALSE, session |-> 0, version |-> 0]

Outstanding(d) == {r \in issued : DocOf[r] = d /\ sent[r] = 0}

Init ==
    /\ doc = [d \in Docs |-> NeverOpened]
    /\ issued = {}
    /\ asked = [r \in Requests |-> NeverOpened]
    /\ sent = [r \in Requests |-> 0]
    /\ seen = [r \in Requests |-> NeverOpened]

Issue(r) ==
    /\ r \notin issued
    /\ issued' = issued \cup {r}
    /\ asked' = [asked EXCEPT ![r] = doc[DocOf[r]]]
    /\ UNCHANGED <<doc, sent, seen>>

Deliver(r) ==
    /\ r \in issued /\ sent[r] = 0
    /\ sent' = [sent EXCEPT ![r] = 1]
    /\ seen' = [seen EXCEPT ![r] = doc[DocOf[r]]]
    /\ UNCHANGED <<doc, issued, asked>>

Open(d) ==
    /\ ~doc[d].open
    /\ doc' = [doc EXCEPT ![d] = [open |-> TRUE, session |-> @.session + 1, version |-> 0]]
    /\ UNCHANGED <<issued, asked, sent, seen>>

Edit(d) ==
    /\ doc[d].open /\ Outstanding(d) = {}
    /\ doc' = [doc EXCEPT ![d].version = @ + 1]
    /\ UNCHANGED <<issued, asked, sent, seen>>

Close(d) ==
    /\ doc[d].open
    /\ doc' = [doc EXCEPT ![d].open = FALSE]
    /\ UNCHANGED <<issued, asked, sent, seen>>

Next ==
    \/ \E r \in Requests : Issue(r) \/ Deliver(r)
    \/ \E d \in Docs : Open(d) \/ Edit(d) \/ Close(d)

Spec == Init /\ [][Next]_vars /\ \A r \in Requests : WF_vars(Deliver(r))

-----------------------------------------------------------------------------
\* A request delivered within the session it was issued in is resolved in the
\* text it was issued for: what releaseHeldDefs is there to guarantee.
SeenAsAsked ==
    \A r \in Requests :
        sent[r] > 0 /\ seen[r].session = asked[r].session /\ seen[r].open = asked[r].open
            => seen[r] = asked[r]
=============================================================================
