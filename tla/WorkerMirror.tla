---------------------------- MODULE WorkerMirror ----------------------------
(***************************************************************************)
(* What an isolated worker knows of the editor (worker.go, documents.go):  *)
(* the proxy tracks the open documents, and mirrors every notification to  *)
(* the worker, buffering while the worker loads and replaying when it goes *)
(* live.                                                                   *)
(*                                                                         *)
(* Processes: pumpClient, which takes one editor message at a time, tracks *)
(* it under proxy.mu and then calls observe; the initWorker goroutine,     *)
(* which holds workerHandle.mu from its snapshot of the documents until    *)
(* the worker is ready; the worker's readLoop, which answers the           *)
(* configuration pulls; and the worker process, which may end at any time. *)
(* Loading and restarting are modelled in WorkerLifecycle; here they are   *)
(* the phases of the current generation.  A tracked text is a number; what *)
(* an edit does to a text is module Documents.                             *)
(***************************************************************************)
EXTENDS Documents

CONSTANTS
    Docs,       \* documents
    Mine,       \* those whose module is the worker's
    MainWorker, \* the worker is the main module's
    MaxText,    \* bound on the texts of a session
    MaxGen,     \* bound on the number of worker processes
    MaxObs,     \* bound on the notes buffered during one load
    MaxEvents,  \* bound on configuration changes, and on watched-file events
    EditLen,    \* bound on the texts the edits are compared on
    Inserts     \* texts those edits insert

ASSUME MirrorAssumption ==
    /\ Mine \subseteq Docs /\ MainWorker \in BOOLEAN
    /\ {MaxText, MaxGen, MaxObs, MaxEvents, EditLen} \subseteq Nat
    /\ Inserts \subseteq Seq(Runes)

VARIABLES
    openDocs,  \* per document: the text in proxy.openDocs, Closed if it is not open
    config,    \* version of proxy.workerConfig
    disk,      \* number of watched-file events so far
    pump,      \* where pumpClient is with the current message
    gen,       \* workerHandle.gen
    phase,     \* the current generation: "none", "loading", "replay", "live"
    pendingObs,\* workerHandle.pendingObs
    worker     \* what the worker process knows, and its configuration pull

editorVars == <<openDocs, config, disk>>
vars == <<editorVars, pump, gen, phase, pendingObs, worker>>

Closed == -1
NoAnswer == -1
Idle == [pc |-> "idle", note |-> {}, client |-> 0]

\* A process that has just started: it has read the disk as it is now, and will
\* pull its configuration once initialized.
Fresh == [docs |-> [d \in Docs |-> Closed], config |-> NoAnswer, disk |-> disk,
          pulls |-> TRUE, answer |-> NoAnswer]

Init ==
    /\ openDocs = [d \in Docs |-> Closed]
    /\ config = 0 /\ disk = 0
    /\ pump = Idle
    /\ gen = 0 /\ phase = "none" /\ pendingObs = <<>>
    /\ worker = Fresh

-----------------------------------------------------------------------------
(* pumpClient: track the message, then hand its notification to observe. *)

Note(kind, docs) == [kind |-> kind, docs |-> docs]

\* observeWorker routes a document's note to the worker of its module, and
\* broadcasts a note that names no document.
ObserveWorker(n) ==
    pump' = IF n.docs \subseteq Mine THEN [Idle EXCEPT !.pc = "observe", !.note = {n}] ELSE Idle

TrackDidOpen(d) ==
    /\ pump.pc = "idle" /\ openDocs[d] = Closed
    /\ \E t \in 0..MaxText : openDocs' = [openDocs EXCEPT ![d] = t]
    /\ ObserveWorker(Note("didOpen", {d}))
    /\ UNCHANGED <<config, disk, gen, phase, pendingObs, worker>>

\* trackDidChange: another text, or the same when applyContentChanges refuses the
\* change; observe is called either way.
TrackDidChange(d) ==
    /\ pump.pc = "idle" /\ openDocs[d] # Closed
    /\ \E t \in 0..MaxText : openDocs' = [openDocs EXCEPT ![d] = t]
    /\ ObserveWorker(Note("didChange", {d}))
    /\ UNCHANGED <<config, disk, gen, phase, pendingObs, worker>>

TrackDidClose(d) ==
    /\ pump.pc = "idle" /\ openDocs[d] # Closed
    /\ openDocs' = [openDocs EXCEPT ![d] = Closed]
    /\ ObserveWorker(Note("didClose", {d}))
    /\ UNCHANGED <<config, disk, gen, phase, pendingObs, worker>>

\* handleClientResponse: patchConfigResponse stores the editor's settings, and
\* every worker is told to pull them again.
ConfigResponse ==
    /\ pump.pc = "idle" /\ config < MaxEvents
    /\ config' = config + 1
    /\ ObserveWorker(Note("didChangeConfiguration", {}))
    /\ UNCHANGED <<openDocs, disk, gen, phase, pendingObs, worker>>

WatchedFiles ==
    /\ pump.pc = "idle" /\ disk < MaxEvents
    /\ disk' = disk + 1
    /\ ObserveWorker(Note("didChangeWatchedFiles", {}))
    /\ UNCHANGED <<openDocs, config, gen, phase, pendingObs, worker>>

-----------------------------------------------------------------------------
(* Mirroring. *)

\* mirror: a document is sent as the proxy tracks it now, whatever the note said.
\* gopls refuses a didChange of a document that is not open.
Mirror(n) ==
    LET Set(text(_)) == [worker EXCEPT !.docs =
                            [d \in Docs |-> IF d \in n.docs THEN text(d) ELSE @[d]]]
    IN CASE n.kind = "didOpen" ->
              Set(LAMBDA d : IF openDocs[d] = Closed THEN worker.docs[d] ELSE openDocs[d])
         [] n.kind = "didChange" ->
              Set(LAMBDA d : IF Closed \in {openDocs[d], worker.docs[d]}
                             THEN worker.docs[d] ELSE openDocs[d])
         [] n.kind = "didClose" -> Set(LAMBDA d : Closed)
         [] n.kind = "didChangeWatchedFiles" -> [worker EXCEPT !.disk = disk]
         [] n.kind = "didChangeConfiguration" -> [worker EXCEPT !.pulls = TRUE]

\* Mutant: the replay does not hold workerHandle.mu, and what comes meanwhile finds
\* no worker.
ObserveNoneInReplay ==
    /\ pump.pc = "observe" /\ phase \in {"none", "replay"}
    /\ pump' = Idle
    /\ UNCHANGED <<editorVars, gen, phase, pendingObs, worker>>

\* observe, under workerHandle.mu: no worker, a loading one, or a live one whose
\* client is captured and written to after the unlock.
ObserveNone ==
    /\ pump.pc = "observe" /\ phase = "none"
    /\ pump' = Idle
    /\ UNCHANGED <<editorVars, gen, phase, pendingObs, worker>>

ObserveBuffer ==
    /\ pump.pc = "observe" /\ phase = "loading"
    /\ \E n \in pump.note : pendingObs' = Append(pendingObs, n)
    /\ pump' = Idle
    /\ UNCHANGED <<editorVars, gen, phase, worker>>

ObserveLive ==
    /\ pump.pc = "observe" /\ phase = "live"
    /\ pump' = [pump EXCEPT !.pc = "mirror", !.client = gen]
    /\ UNCHANGED <<editorVars, gen, phase, pendingObs, worker>>

\* The write to the captured client; one whose process is gone reads it no more.
MirrorWrite ==
    /\ pump.pc = "mirror"
    /\ worker' = IF pump.client = gen /\ phase = "live"
                 THEN Mirror(CHOOSE n \in pump.note : TRUE) ELSE worker
    /\ pump' = Idle
    /\ UNCHANGED <<editorVars, gen, phase, pendingObs>>

-----------------------------------------------------------------------------
(* The worker. *)

\* ensureStartedLocked without a live client.
Spawn ==
    /\ phase = "none" /\ gen < MaxGen
    /\ gen' = gen + 1 /\ phase' = "loading"
    /\ pendingObs' = <<>>
    /\ worker' = Fresh
    /\ UNCHANGED <<editorVars, pump>>

\* Mutant: going live drops the notes that were buffered.
ReplaySnapshotOnly ==
    /\ phase = "loading"
    /\ phase' = "replay"
    /\ worker' = [worker EXCEPT !.docs =
                    [d \in Docs |-> IF MainWorker \/ d \in Mine THEN openDocs[d] ELSE Closed]]
    /\ pendingObs' = <<>>
    /\ UNCHANGED <<editorVars, pump, gen>>

\* initialize has answered: under workerHandle.mu, the documents workerStateFor
\* returns are opened, with their texts of now.  The main worker's are all of them.
ReplaySnapshot ==
    /\ phase = "loading"
    /\ phase' = "replay"
    /\ worker' = [worker EXCEPT !.docs =
                    [d \in Docs |-> IF MainWorker \/ d \in Mine THEN openDocs[d] ELSE Closed]]
    /\ UNCHANGED <<editorVars, pump, gen, pendingObs>>

ReplayNote ==
    /\ phase = "replay" /\ pendingObs # <<>>
    /\ worker' = Mirror(Head(pendingObs))
    /\ pendingObs' = Tail(pendingObs)
    /\ UNCHANGED <<editorVars, pump, gen, phase>>

ReplayDone ==
    /\ phase = "replay" /\ pendingObs = <<>>
    /\ phase' = "live"
    /\ UNCHANGED <<editorVars, pump, gen, pendingObs, worker>>

\* onExit, shutdown, or a failed initialize.  What is left in pendingObs is never
\* read: only the next spawn touches it, and empties it.
WorkerGone ==
    /\ phase \in {"loading", "live"}
    /\ phase' = "none"
    /\ pendingObs' = <<>>
    /\ UNCHANGED <<editorVars, pump, gen, worker>>

\* respondToServerRequest: the readLoop reads the settings, then answers.
ConfigurationResult ==
    /\ phase # "none" /\ worker.pulls /\ worker.answer = NoAnswer
    /\ worker' = [worker EXCEPT !.pulls = FALSE, !.answer = config]
    /\ UNCHANGED <<editorVars, pump, gen, phase, pendingObs>>

RespondToServerRequest ==
    /\ phase # "none" /\ worker.answer # NoAnswer
    /\ worker' = [worker EXCEPT !.config = worker.answer, !.answer = NoAnswer]
    /\ UNCHANGED <<editorVars, pump, gen, phase, pendingObs>>

-----------------------------------------------------------------------------
\* No message comes while a loading worker's buffer is full.
EditorMessage ==
    /\ Len(pendingObs) < MaxObs
    /\ \/ \E d \in Docs : TrackDidOpen(d) \/ TrackDidChange(d) \/ TrackDidClose(d)
       \/ ConfigResponse \/ WatchedFiles

Next ==
    \/ EditorMessage
    \/ ObserveNone \/ ObserveBuffer \/ ObserveLive \/ MirrorWrite
    \/ Spawn \/ ReplaySnapshot \/ ReplayNote \/ ReplayDone \/ WorkerGone
    \/ ConfigurationResult \/ RespondToServerRequest

Spec == Init /\ [][Next]_vars

-----------------------------------------------------------------------------
(* Properties. *)

\* Once pumpClient has finished a message, a live worker has open exactly the
\* documents of its module that the proxy tracks, with their texts, whatever was
\* opened, edited, closed or reopened while it loaded, replayed or restarted.
WorkerSeesDocuments ==
    phase = "live" /\ pump.pc = "idle" => \A d \in Mine : worker.docs[d] = openDocs[d]

\* The same for what belongs to no document: a watched-file event or a change of
\* settings that came during the load is not lost.
WorkerSeesWorkspace ==
    phase = "live" /\ pump.pc = "idle" =>
        /\ worker.disk = disk
        /\ ~worker.pulls /\ worker.answer = NoAnswer => worker.config = config

\* applyContentChanges computes the text the editor has, for batches of two
\* changes of every short text, with surrogate pairs and line breaks; a batch is
\* refused exactly when a position of it lies past the end of its line.  (It is about
\* all inputs and no state: once, in the initial state, is enough.)
EditsAgree ==
    Init => \A text \in Texts(EditLen) : \A e \in EditsOf(text, Inserts) :
        \A f \in EditsOf(Splice(text, e), Inserts) :
            LET once == Splice(text, e)
                got == applyContentChanges(text, <<ChangeOf(text, e), ChangeOf(once, f)>>)
            IN /\ got.ok <=> ~(Overshoots(e) \/ Overshoots(f))
               /\ got.ok => got.text = Splice(once, f)
=============================================================================
