------------------------- MODULE WorkerMirrorProofs -------------------------
(***************************************************************************)
(* Proofs about WorkerMirror, for any set of documents and any bounds: a   *)
(* live worker knows what the editor told the proxy, whatever came while   *)
(* the worker loaded, replayed or restarted.                               *)
(*                                                                         *)
(* The argument is about the notes a worker is still owed: those of        *)
(* pendingObs, and the one in pumpClient's hands.  As mirror sends what    *)
(* the proxy tracks now, a note need not carry a text; the last didOpen or *)
(* didClose owed for a document says whether it is open, and a document    *)
(* for which nothing is owed is up to date.                                *)
(***************************************************************************)
EXTENDS WorkerMirror, FiniteSetTheorems, SequenceTheorems, TLAPS

DocKinds == {"didOpen", "didChange", "didClose"}
Kinds == DocKinds \cup {"didChangeConfiguration", "didChangeWatchedFiles"}
NoteType == [kind : Kinds, docs : SUBSET Docs]
WorkerType == [docs : [Docs -> Int], config : Int, disk : Int, pulls : BOOLEAN, answer : Int]
PumpType == [pc : {"idle", "observe", "mirror"}, note : SUBSET NoteType, client : Nat]

Typed ==
    /\ openDocs \in [Docs -> Int] /\ config \in Nat /\ disk \in Nat
    /\ pump \in PumpType
    /\ pump.pc # "idle" => \E n \in NoteType : pump.note = {n}
    /\ gen \in Nat /\ phase \in {"none", "loading", "replay", "live"}
    /\ pendingObs \in Seq(NoteType)
    /\ phase \in {"none", "live"} => pendingObs = <<>>
    /\ worker \in WorkerType

\* Notes about a document, and those that open or close it.
About(n, d) == n.kind \in DocKinds /\ d \in n.docs
OpensOrCloses(n, d) == n.kind \in {"didOpen", "didClose"} /\ d \in n.docs

\* A note of pumpClient that the current worker will get: the one it is about to
\* observe, or to write to that worker's client.
PumpOwes(n) ==
    /\ n \in pump.note
    /\ \/ pump.pc = "observe"
       \/ pump.pc = "mirror" /\ pump.client = gen /\ phase = "live"
BufferOwes(n) == \E i \in 1..Len(pendingObs) : pendingObs[i] = n
Owes(n) == PumpOwes(n) \/ BufferOwes(n)

\* A didOpen is right about an open document, a didClose about a closed one.
Right(n, d) ==
    /\ n.kind \in {"didOpen", "didChange"} => openDocs[d] # Closed
    /\ n.kind = "didClose" => openDocs[d] = Closed

\* pumpClient tracks a message before it hands on its note.
PumpRight == pump.pc # "idle" => \A n \in pump.note : \A d \in n.docs : Right(n, d)

\* The last didOpen or didClose that is owed for a document is right about it.
LastRight ==
    \A d \in Mine : \A i \in 1..Len(pendingObs) :
        /\ OpensOrCloses(pendingObs[i], d)
        /\ \A j \in i + 1..Len(pendingObs) : ~OpensOrCloses(pendingObs[j], d)
        /\ \A n \in pump.note : PumpOwes(n) => ~OpensOrCloses(n, d)
        => Right(pendingObs[i], d)

\* A document that nothing owed opens or closes is open in the worker as it is in the
\* editor, and one that nothing owed is about has its text.
DocsFollow ==
    phase \in {"replay", "live"} =>
        \A d \in Mine :
            /\ (\A n \in NoteType : Owes(n) => ~OpensOrCloses(n, d))
                 => (worker.docs[d] = Closed <=> openDocs[d] = Closed)
            /\ (\A n \in NoteType : Owes(n) => ~About(n, d)) => worker.docs[d] = openDocs[d]

\* What the worker knows of the disk and the settings is current, or a note is owed
\* that makes it so, or it is about to pull.
WorkspaceFollows ==
    phase # "none" =>
        /\ (\A n \in NoteType : Owes(n) => n.kind # "didChangeWatchedFiles") => worker.disk = disk
        /\ (\A n \in NoteType : Owes(n) => n.kind # "didChangeConfiguration") /\ ~worker.pulls
             => config = IF worker.answer = NoAnswer THEN worker.config ELSE worker.answer

MirrorInv == Typed /\ PumpRight /\ LastRight /\ DocsFollow /\ WorkspaceFollows

-----------------------------------------------------------------------------
\* What mirror changes of the worker's documents.
LEMMA MirrorDocs ==
    ASSUME Typed, NEW n \in NoteType
    PROVE  /\ Mirror(n) \in WorkerType
           /\ \A d \in Docs : ~About(n, d) => Mirror(n).docs[d] = worker.docs[d]
           /\ \A d \in Docs : About(n, d) =>
                Mirror(n).docs[d] =
                    IF n.kind = "didClose" THEN Closed
                    ELSE IF openDocs[d] = Closed \/ (n.kind = "didChange" /\ worker.docs[d] = Closed)
                    THEN worker.docs[d] ELSE openDocs[d]
<1>1. worker \in WorkerType /\ openDocs \in [Docs -> Int] /\ disk \in Int /\ n.kind \in Kinds
  BY DEF Typed, NoteType
<1>2. CASE n.kind = "didOpen"
  <2> DEFINE docs == [d \in Docs |-> IF d \in n.docs THEN (IF openDocs[d] = Closed THEN worker.docs[d] ELSE openDocs[d]) ELSE worker.docs[d]]
  <2>1. Mirror(n) = [worker EXCEPT !.docs = docs]
    BY <1>2 DEF Mirror
  <2>2. docs \in [Docs -> Int]
    BY <1>1 DEF WorkerType, Closed
  <2>3. [worker EXCEPT !.docs = docs] \in WorkerType /\ [worker EXCEPT !.docs = docs].docs = docs
    <3> HIDE DEF docs
    <3> QED BY <1>1, <2>2 DEF WorkerType
  <2> QED BY <1>2, <2>1, <2>3 DEF About, DocKinds
<1>3. CASE n.kind = "didChange"
  <2> DEFINE docs == [d \in Docs |-> IF d \in n.docs THEN (IF Closed \in {openDocs[d], worker.docs[d]} THEN worker.docs[d] ELSE openDocs[d]) ELSE worker.docs[d]]
  <2>1. Mirror(n) = [worker EXCEPT !.docs = docs]
    BY <1>3 DEF Mirror
  <2>2. docs \in [Docs -> Int]
    BY <1>1 DEF WorkerType, Closed
  <2>3. [worker EXCEPT !.docs = docs] \in WorkerType /\ [worker EXCEPT !.docs = docs].docs = docs
    <3> HIDE DEF docs
    <3> QED BY <1>1, <2>2 DEF WorkerType
  <2> QED BY <1>3, <2>1, <2>3 DEF About, DocKinds
<1>4. CASE n.kind = "didClose"
  <2> DEFINE docs == [d \in Docs |-> IF d \in n.docs THEN Closed ELSE worker.docs[d]]
  <2>1. Mirror(n) = [worker EXCEPT !.docs = docs]
    BY <1>4 DEF Mirror
  <2>2. docs \in [Docs -> Int]
    BY <1>1 DEF WorkerType, Closed
  <2>3. [worker EXCEPT !.docs = docs] \in WorkerType /\ [worker EXCEPT !.docs = docs].docs = docs
    <3> HIDE DEF docs
    <3> QED BY <1>1, <2>2 DEF WorkerType
  <2> QED BY <1>4, <2>1, <2>3 DEF About, DocKinds
<1>5. CASE n.kind \in {"didChangeConfiguration", "didChangeWatchedFiles"}
  BY <1>1, <1>5 DEF Mirror, WorkerType, About, DocKinds
<1> QED BY <1>1, <1>2, <1>3, <1>4, <1>5 DEF Kinds, DocKinds

\* What mirror changes of the rest.
LEMMA MirrorWorkspace ==
    ASSUME Typed, NEW n \in NoteType
    PROVE  /\ Mirror(n).disk = IF n.kind = "didChangeWatchedFiles" THEN disk ELSE worker.disk
           /\ Mirror(n).pulls = (worker.pulls \/ n.kind = "didChangeConfiguration")
           /\ Mirror(n).config = worker.config /\ Mirror(n).answer = worker.answer
<1>1. worker \in WorkerType /\ n.kind \in Kinds
  BY DEF Typed, NoteType
<1> QED BY <1>1 DEF Mirror, WorkerType, Kinds, DocKinds

\* A note that is appended to pendingObs is owed with the others.
LEMMA BufferAppend ==
    ASSUME Typed, NEW n \in NoteType, pendingObs' = Append(pendingObs, n)
    PROVE  /\ pendingObs' \in Seq(NoteType)
           /\ Len(pendingObs) \in Nat /\ Len(pendingObs') = Len(pendingObs) + 1
           /\ pendingObs'[Len(pendingObs) + 1] = n
           /\ \A i \in 1..Len(pendingObs) : pendingObs'[i] = pendingObs[i]
           /\ \A m : BufferOwes(m)' <=> BufferOwes(m) \/ m = n
<1>1. pendingObs \in Seq(NoteType)
  BY DEF Typed
<1>2. /\ pendingObs' \in Seq(NoteType)
      /\ Len(pendingObs) \in Nat /\ Len(pendingObs') = Len(pendingObs) + 1
      /\ pendingObs'[Len(pendingObs) + 1] = n
      /\ \A i \in 1..Len(pendingObs) : pendingObs'[i] = pendingObs[i]
  BY <1>1, AppendProperties, LenProperties
<1>3. \A m : BufferOwes(m)' <=> BufferOwes(m) \/ m = n
  BY <1>2 DEF BufferOwes
<1> QED BY <1>2, <1>3

\* The head of pendingObs is owed, and the others still are when it is gone.
LEMMA BufferTail ==
    ASSUME Typed, pendingObs # <<>>, pendingObs' = Tail(pendingObs)
    PROVE  /\ pendingObs' \in Seq(NoteType) /\ Head(pendingObs) \in NoteType
           /\ Len(pendingObs') \in Nat /\ Len(pendingObs) = Len(pendingObs') + 1
           /\ pendingObs[1] = Head(pendingObs)
           /\ \A i \in 1..Len(pendingObs') : pendingObs'[i] = pendingObs[i + 1]
           /\ \A m : BufferOwes(m) <=> BufferOwes(m)' \/ m = Head(pendingObs)
<1>1. pendingObs \in Seq(NoteType)
  BY DEF Typed
<1>2. /\ pendingObs' \in Seq(NoteType) /\ Head(pendingObs) \in NoteType
      /\ Len(pendingObs') \in Nat /\ Len(pendingObs) = Len(pendingObs') + 1
      /\ pendingObs[1] = Head(pendingObs)
      /\ \A i \in 1..Len(pendingObs') : pendingObs'[i] = pendingObs[i + 1]
  BY <1>1, HeadTailProperties, LenProperties
<1>3. ASSUME NEW m PROVE BufferOwes(m) <=> BufferOwes(m)' \/ m = Head(pendingObs)
  <2>1. ASSUME NEW i \in 1..Len(pendingObs), pendingObs[i] = m, i # 1
        PROVE  BufferOwes(m)'
    <3>1. i - 1 \in 1..Len(pendingObs') /\ pendingObs'[i - 1] = m
      BY <1>2, <2>1
    <3> QED BY <3>1 DEF BufferOwes
  <2>2. ASSUME NEW i \in 1..Len(pendingObs'), pendingObs'[i] = m
        PROVE  BufferOwes(m)
    <3>1. i + 1 \in 1..Len(pendingObs) /\ pendingObs[i + 1] = m
      BY <1>2, <2>2
    <3> QED BY <3>1 DEF BufferOwes
  <2> QED BY <1>2, <2>1, <2>2 DEF BufferOwes
<1> QED BY <1>2, <1>3

\* Nothing is owed out of an empty buffer.
LEMMA EmptyBuffer ==
    /\ pendingObs = <<>> => Len(pendingObs) = 0 /\ \A m : ~BufferOwes(m)
    /\ pendingObs' = <<>> => Len(pendingObs') = 0 /\ \A m : ~BufferOwes(m)'
BY DEF BufferOwes

\* The notes the editor's messages make.
LEMMA NoteTypes ==
    /\ \A d \in Docs, k \in DocKinds :
        /\ Note(k, {d}) \in NoteType /\ Note(k, {d}).kind = k /\ Note(k, {d}).docs = {d}
    /\ \A k \in {"didChangeConfiguration", "didChangeWatchedFiles"} :
        /\ Note(k, {}) \in NoteType /\ Note(k, {}).kind = k /\ Note(k, {}).docs = {}
BY DEF Note, NoteType, Kinds, DocKinds

\* observeWorker gives pumpClient the note, unless it is another module's.
LEMMA ObserveWorkerEffect ==
    ASSUME NEW n \in NoteType, ObserveWorker(n)
    PROVE  /\ pump' \in PumpType /\ pump'.pc # "mirror"
           /\ IF n.docs \subseteq Mine THEN pump'.pc = "observe" /\ pump'.note = {n}
              ELSE pump'.pc = "idle"
BY DEF ObserveWorker, Idle, PumpType

\* pumpClient's record when a message is done, and when it has a worker to write to.
LEMMA PumpEffect ==
    ASSUME Typed
    PROVE  /\ Idle \in PumpType /\ Idle.pc = "idle"
           /\ pump' = [pump EXCEPT !.pc = "mirror", !.client = gen] =>
                /\ pump' \in PumpType /\ pump'.pc = "mirror"
                /\ pump'.client = gen /\ pump'.note = pump.note
<1>1. pump \in PumpType /\ gen \in Nat
  BY DEF Typed
<1> QED BY <1>1 DEF PumpType, Idle

\* The worker's record when it is new, has its snapshot, or answers its pull.
LEMMA WorkerEffect ==
    ASSUME Typed
    PROVE  /\ Fresh \in WorkerType /\ Fresh.disk = disk /\ Fresh.pulls
           /\ \A docs \in [Docs -> Int] :
                LET w == [worker EXCEPT !.docs = docs]
                IN /\ w \in WorkerType /\ w.docs = docs /\ w.disk = worker.disk
                   /\ w.pulls = worker.pulls /\ w.config = worker.config
                   /\ w.answer = worker.answer
           /\ LET w == [worker EXCEPT !.pulls = FALSE, !.answer = config]
              IN /\ w \in WorkerType /\ w.docs = worker.docs /\ w.disk = worker.disk
                 /\ ~w.pulls /\ w.config = worker.config /\ w.answer = config
           /\ LET w == [worker EXCEPT !.config = worker.answer, !.answer = NoAnswer]
              IN /\ w \in WorkerType /\ w.docs = worker.docs /\ w.disk = worker.disk
                 /\ w.pulls = worker.pulls /\ w.config = worker.answer /\ w.answer = NoAnswer
<1>1. worker \in WorkerType /\ disk \in Int /\ config \in Int /\ NoAnswer \in Int /\ Closed \in Int
  BY DEF Typed, NoAnswer, Closed
<1>2. Fresh \in WorkerType
  BY <1>1 DEF Fresh, WorkerType
<1>3. Fresh.disk = disk /\ Fresh.pulls
  BY DEF Fresh
<1> QED BY <1>1, <1>2, <1>3 DEF WorkerType

\* The invariant holds before there is a worker.
LEMMA InitHolds == Init => MirrorInv
<1> SUFFICES ASSUME Init PROVE MirrorInv
  OBVIOUS
<1>1. Fresh \in WorkerType
  BY DEF Init, Fresh, WorkerType, Closed, NoAnswer
<1>2. Idle \in PumpType /\ Idle.pc = "idle"
  BY DEF Idle, PumpType
<1>3. Typed
  BY <1>1, <1>2 DEF Init, Typed, Closed
<1>4. PumpRight
  BY <1>2 DEF Init, PumpRight
<1>5. LastRight /\ DocsFollow /\ WorkspaceFollows
  BY EmptyBuffer DEF Init, LastRight, DocsFollow, WorkspaceFollows
<1> QED BY <1>3, <1>4, <1>5 DEF MirrorInv

-----------------------------------------------------------------------------
(* pumpClient. *)

\* A message adds its note to what is owed.
LEMMA MessageOwes ==
    ASSUME Typed, NEW n \in NoteType, pump.pc = "idle", ObserveWorker(n), UNCHANGED pendingObs
    PROVE  \A m :
            /\ ~PumpOwes(m)
            /\ Owes(m) <=> BufferOwes(m)
            /\ PumpOwes(m)' <=> n.docs \subseteq Mine /\ m = n
            /\ Owes(m)' <=> BufferOwes(m) \/ (n.docs \subseteq Mine /\ m = n)
<1>1. /\ pump' \in PumpType /\ pump'.pc # "mirror"
      /\ IF n.docs \subseteq Mine THEN pump'.pc = "observe" /\ pump'.note = {n}
         ELSE pump'.pc = "idle"
  BY ObserveWorkerEffect
<1>2. \A m : BufferOwes(m)' <=> BufferOwes(m)
  BY DEF BufferOwes
<1> QED BY <1>1, <1>2 DEF PumpOwes, Owes

\* A document's message keeps the invariant.
LEMMA DocMessage ==
    ASSUME MirrorInv, NEW d \in Docs, NEW k \in DocKinds, NEW t \in Int,
           pump.pc = "idle", ObserveWorker(Note(k, {d})),
           openDocs' = [openDocs EXCEPT ![d] = t],
           k = "didClose" <=> t = Closed, k = "didChange" => openDocs[d] # Closed,
           UNCHANGED <<config, disk, gen, phase, pendingObs, worker>>
    PROVE  MirrorInv'
<1> DEFINE n == Note(k, {d})
<1>1. n \in NoteType /\ n.kind = k /\ n.docs = {d}
  BY NoteTypes
<1>2. ObserveWorker(n)
  OBVIOUS
<1> HIDE DEF n
<1>3. /\ pump' \in PumpType /\ pump'.pc # "mirror"
      /\ IF n.docs \subseteq Mine THEN pump'.pc = "observe" /\ pump'.note = {n}
         ELSE pump'.pc = "idle"
  BY <1>1, <1>2, ObserveWorkerEffect
<1>4. Typed
  BY DEF MirrorInv
<1>5. openDocs' \in [Docs -> Int] /\ openDocs'[d] = t /\ \A e \in Docs \ {d} : openDocs'[e] = openDocs[e]
  BY <1>4 DEF Typed
<1>6. Typed'
  BY <1>1, <1>3, <1>4, <1>5 DEF Typed
<1>7. PumpRight'
  BY <1>1, <1>3, <1>5 DEF PumpRight, Right, DocKinds
<1>8. \A m : /\ ~PumpOwes(m) /\ (Owes(m) <=> BufferOwes(m))
             /\ PumpOwes(m)' <=> n.docs \subseteq Mine /\ m = n
             /\ Owes(m)' <=> BufferOwes(m) \/ (n.docs \subseteq Mine /\ m = n)
  BY <1>1, <1>2, <1>4, MessageOwes
<1>9. Mine \subseteq Docs
  BY MirrorAssumption
<1>10. d \in Mine /\ k # "didChange" => OpensOrCloses(n, d) /\ PumpOwes(n)' /\ Owes(n)'
  BY <1>1, <1>8 DEF OpensOrCloses, DocKinds
<1>11. k = "didChange" => \A e \in Docs : openDocs'[e] = Closed <=> openDocs[e] = Closed
  BY <1>5
<1>12. LastRight'
  <2> SUFFICES ASSUME NEW e \in Mine, NEW i \in 1..Len(pendingObs), OpensOrCloses(pendingObs[i], e),
                      \A j \in i + 1..Len(pendingObs) : ~OpensOrCloses(pendingObs[j], e),
                      \A m \in pump'.note : PumpOwes(m)' => ~OpensOrCloses(m, e)
               PROVE  Right(pendingObs[i], e)'
    BY DEF LastRight, OpensOrCloses
  <2>1. Right(pendingObs[i], e)
    BY <1>8 DEF MirrorInv, LastRight
  <2>2. openDocs'[e] = Closed <=> openDocs[e] = Closed
    <3>1. CASE e # d
      BY <1>5, <1>9, <3>1
    <3>2. CASE e = d
      <4>1. k = "didChange"
        BY <1>10, <3>2 DEF PumpOwes
      <4> QED BY <1>9, <1>11, <4>1
    <3> QED BY <3>1, <3>2
  <2> QED BY <2>1, <2>2 DEF Right
<1>13. DocsFollow'
  <2> SUFFICES ASSUME phase \in {"replay", "live"}, NEW e \in Mine
               PROVE  /\ (\A m \in NoteType : Owes(m)' => ~OpensOrCloses(m, e))
                            => (worker.docs[e] = Closed <=> openDocs'[e] = Closed)
                      /\ (\A m \in NoteType : Owes(m)' => ~About(m, e))
                            => worker.docs[e] = openDocs'[e]
    BY DEF DocsFollow, OpensOrCloses, About
  <2>1. /\ (\A m \in NoteType : Owes(m) => ~OpensOrCloses(m, e))
             => (worker.docs[e] = Closed <=> openDocs[e] = Closed)
        /\ (\A m \in NoteType : Owes(m) => ~About(m, e)) => worker.docs[e] = openDocs[e]
    BY DEF MirrorInv, DocsFollow
  <2>2. CASE e # d
    BY <1>5, <1>8, <1>9, <2>1, <2>2
  <2>3. CASE e = d
    <3>1. Owes(n)' /\ About(n, e)
      BY <1>1, <1>8, <2>3 DEF About
    <3>2. k # "didChange" => OpensOrCloses(n, e)
      BY <1>10, <2>3
    <3> QED BY <1>1, <1>8, <1>9, <1>11, <2>1, <2>3, <3>1, <3>2
  <2> QED BY <2>2, <2>3
<1>14. WorkspaceFollows'
  BY <1>8 DEF MirrorInv, WorkspaceFollows
<1> QED BY <1>6, <1>7, <1>12, <1>13, <1>14 DEF MirrorInv

\* A change of the settings, or a watched-file event, keeps it.
LEMMA WorkspaceMessage ==
    ASSUME MirrorInv, NEW k \in {"didChangeConfiguration", "didChangeWatchedFiles"},
           pump.pc = "idle", ObserveWorker(Note(k, {})),
           config' \in Nat, disk' \in Nat,
           k = "didChangeConfiguration" => disk' = disk,
           k = "didChangeWatchedFiles" => config' = config,
           UNCHANGED <<openDocs, gen, phase, pendingObs, worker>>
    PROVE  MirrorInv'
<1> DEFINE n == Note(k, {})
<1>1. n \in NoteType /\ n.kind = k /\ n.docs = {}
  BY NoteTypes
<1>2. ObserveWorker(n)
  OBVIOUS
<1> HIDE DEF n
<1>3. pump' \in PumpType /\ pump'.pc = "observe" /\ pump'.note = {n}
  BY <1>1, <1>2, ObserveWorkerEffect
<1>4. Typed
  BY DEF MirrorInv
<1>5. Typed'
  BY <1>1, <1>3, <1>4 DEF Typed
<1>6. PumpRight'
  BY <1>1, <1>3 DEF PumpRight
<1>7. \A m : /\ ~PumpOwes(m) /\ (Owes(m) <=> BufferOwes(m))
             /\ PumpOwes(m)' <=> m = n
             /\ Owes(m)' <=> BufferOwes(m) \/ m = n
  BY <1>1, <1>2, <1>4, MessageOwes
<1>8. \A d : ~OpensOrCloses(n, d) /\ ~About(n, d)
  BY <1>1 DEF OpensOrCloses, About
<1>9. LastRight'
  <2> SUFFICES ASSUME NEW e \in Mine, NEW i \in 1..Len(pendingObs), OpensOrCloses(pendingObs[i], e),
                      \A j \in i + 1..Len(pendingObs) : ~OpensOrCloses(pendingObs[j], e)
               PROVE  Right(pendingObs[i], e)'
    BY DEF LastRight, OpensOrCloses
  <2>1. Right(pendingObs[i], e)
    BY <1>7 DEF MirrorInv, LastRight
  <2> QED BY <2>1 DEF Right
<1>10. DocsFollow'
  BY <1>7, <1>8 DEF MirrorInv, DocsFollow, OpensOrCloses, About
<1>11. WorkspaceFollows'
  BY <1>1, <1>7 DEF MirrorInv, WorkspaceFollows
<1> QED BY <1>5, <1>6, <1>9, <1>10, <1>11 DEF MirrorInv

\* What is owed to the current worker when pumpClient's part changes and the buffer does not.
LEMMA BufferKept ==
    UNCHANGED pendingObs => \A m : BufferOwes(m)' <=> BufferOwes(m)
BY DEF BufferOwes

\* Every message of the editor keeps the invariant.
LEMMA EditorMessagePreserves == MirrorInv /\ EditorMessage => MirrorInv'
<1> SUFFICES ASSUME MirrorInv, EditorMessage PROVE MirrorInv'
  OBVIOUS
<1> USE DEF DocKinds
<1>1. Closed \in Int /\ Closed \notin 0..MaxText /\ 0..MaxText \subseteq Int
  BY DEF Closed
<1>2. ASSUME NEW d \in Docs, TrackDidOpen(d) PROVE MirrorInv'
  <2>1. PICK t \in 0..MaxText : openDocs' = [openDocs EXCEPT ![d] = t]
    BY <1>2 DEF TrackDidOpen
  <2> QED BY <1>1, <1>2, <2>1, DocMessage DEF TrackDidOpen
<1>3. ASSUME NEW d \in Docs, TrackDidChange(d) PROVE MirrorInv'
  <2>1. PICK t \in 0..MaxText : openDocs' = [openDocs EXCEPT ![d] = t]
    BY <1>3 DEF TrackDidChange
  <2> QED BY <1>1, <1>3, <2>1, DocMessage DEF TrackDidChange
<1>4. ASSUME NEW d \in Docs, TrackDidClose(d) PROVE MirrorInv'
  BY <1>1, <1>4, DocMessage DEF TrackDidClose
<1>5. CASE ConfigResponse
  BY <1>5, WorkspaceMessage DEF ConfigResponse, MirrorInv, Typed
<1>6. CASE WatchedFiles
  BY <1>6, WorkspaceMessage DEF WatchedFiles, MirrorInv, Typed
<1> QED BY <1>2, <1>3, <1>4, <1>5, <1>6 DEF EditorMessage

\* Buffering a note, or taking a live worker's client, leaves it owed.
LEMMA ObservePreserves == MirrorInv /\ (ObserveNone \/ ObserveBuffer \/ ObserveLive) => MirrorInv'
<1> SUFFICES ASSUME MirrorInv, ObserveNone \/ ObserveBuffer \/ ObserveLive PROVE MirrorInv'
  OBVIOUS
<1>1. Typed /\ UNCHANGED <<openDocs, config, disk, gen, phase, worker>>
  BY DEF MirrorInv, ObserveNone, ObserveBuffer, ObserveLive, editorVars
<1>2. CASE ObserveNone
  <2>1. pump' \in PumpType /\ pump'.pc = "idle" /\ UNCHANGED pendingObs /\ phase = "none"
    BY <1>1, <1>2, PumpEffect DEF ObserveNone
  <2>2. Len(pendingObs) = 0
    BY <1>1, <2>1, EmptyBuffer DEF Typed
  <2>3. Typed' /\ PumpRight'
    BY <1>1, <2>1 DEF Typed, PumpRight
  <2> QED BY <1>1, <2>1, <2>2, <2>3 DEF MirrorInv, LastRight, DocsFollow, WorkspaceFollows
<1>3. CASE ObserveBuffer
  <2>1. PICK n \in NoteType : pump.note = {n}
    BY <1>1, <1>3 DEF ObserveBuffer, Typed
  <2>2. /\ pump' \in PumpType /\ pump'.pc = "idle" /\ phase = "loading"
        /\ pendingObs' = Append(pendingObs, n) /\ pump.pc = "observe"
    BY <1>1, <1>3, <2>1, PumpEffect DEF ObserveBuffer
  <2>3. /\ pendingObs' \in Seq(NoteType)
        /\ Len(pendingObs) \in Nat /\ Len(pendingObs') = Len(pendingObs) + 1
        /\ pendingObs'[Len(pendingObs) + 1] = n
        /\ \A i \in 1..Len(pendingObs) : pendingObs'[i] = pendingObs[i]
        /\ \A m : BufferOwes(m)' <=> BufferOwes(m) \/ m = n
    BY <1>1, <2>2, BufferAppend
  <2>4. \A m : /\ PumpOwes(m) <=> m = n
               /\ ~PumpOwes(m)'
               /\ Owes(m)' <=> Owes(m)
    BY <2>1, <2>2, <2>3 DEF PumpOwes, Owes
  <2>5. Typed' /\ PumpRight'
    BY <1>1, <2>2, <2>3 DEF Typed, PumpRight
  <2>6. LastRight'
    <3> SUFFICES ASSUME NEW d \in Mine, NEW i \in 1..Len(pendingObs'), OpensOrCloses(pendingObs'[i], d),
                        \A j \in i + 1..Len(pendingObs') : ~OpensOrCloses(pendingObs'[j], d)
                 PROVE  Right(pendingObs[i], d)'
      BY DEF LastRight, OpensOrCloses
    <3>1. CASE i = Len(pendingObs) + 1
      <4>1. pendingObs'[i] = n /\ d \in n.docs
        BY <2>3, <3>1 DEF OpensOrCloses
      <4>2. Right(n, d)
        BY <2>1, <2>2, <4>1 DEF MirrorInv, PumpRight
      <4> QED BY <1>1, <4>1, <4>2 DEF Right
    <3>2. CASE i # Len(pendingObs) + 1
      <4>1. i \in 1..Len(pendingObs) /\ pendingObs'[i] = pendingObs[i]
        BY <2>3, <3>2
      <4>2. Len(pendingObs) + 1 \in i + 1..Len(pendingObs')
        BY <2>3, <4>1
      <4>3. ~OpensOrCloses(n, d)
        BY <2>3, <4>2
      <4>4. \A j \in i + 1..Len(pendingObs) : ~OpensOrCloses(pendingObs[j], d)
        BY <2>3, <4>1
      <4>5. Right(pendingObs[i], d)
        BY <2>1, <4>1, <4>3, <4>4 DEF MirrorInv, LastRight
      <4> QED BY <1>1, <4>1, <4>5 DEF Right
    <3> QED BY <3>1, <3>2
  <2>7. DocsFollow' /\ WorkspaceFollows'
    BY <1>1, <2>2, <2>4 DEF MirrorInv, DocsFollow, WorkspaceFollows
  <2> QED BY <2>5, <2>6, <2>7 DEF MirrorInv
<1>4. CASE ObserveLive
  <2>1. /\ pump' \in PumpType /\ pump'.pc = "mirror" /\ pump'.client = gen /\ pump'.note = pump.note
        /\ UNCHANGED pendingObs /\ phase = "live" /\ pump.pc = "observe"
    BY <1>1, <1>4, PumpEffect DEF ObserveLive
  <2>2. Len(pendingObs) = 0
    BY <1>1, <2>1, EmptyBuffer DEF Typed
  <2>3. \A m : Owes(m)' <=> Owes(m)
    BY <1>1, <2>1, BufferKept DEF PumpOwes, Owes
  <2>4. Typed' /\ PumpRight'
    BY <1>1, <2>1 DEF MirrorInv, Typed, PumpRight, Right
  <2>5. LastRight'
    BY <2>1, <2>2 DEF LastRight
  <2>6. DocsFollow' /\ WorkspaceFollows'
    BY <1>1, <2>3 DEF MirrorInv, DocsFollow, WorkspaceFollows, OpensOrCloses, About
  <2> QED BY <2>4, <2>5, <2>6 DEF MirrorInv
<1> QED BY <1>2, <1>3, <1>4

\* Mirroring a note that is right about a document, or is the last to be about it, brings
\* the worker up to date with that document.
LEMMA MirrorUpdates ==
    ASSUME Typed, NEW n \in NoteType, NEW d \in Mine, About(n, d),
           OpensOrCloses(n, d) => Right(n, d),
           ~OpensOrCloses(n, d) => (worker.docs[d] = Closed <=> openDocs[d] = Closed)
    PROVE  Mirror(n).docs[d] = openDocs[d]
<1>1. d \in Docs
  BY MirrorAssumption
<1> QED BY <1>1, MirrorDocs DEF About, OpensOrCloses, Right, DocKinds

\* Writing the note to the client that was captured keeps the invariant.
LEMMA MirrorWritePreserves == MirrorInv /\ MirrorWrite => MirrorInv'
<1> SUFFICES ASSUME MirrorInv, MirrorWrite PROVE MirrorInv'
  OBVIOUS
<1>1. /\ Typed /\ UNCHANGED <<openDocs, config, disk, gen, phase, pendingObs>>
      /\ pump' \in PumpType /\ pump'.pc = "idle" /\ pump.pc = "mirror"
  BY PumpEffect DEF MirrorInv, MirrorWrite, editorVars
<1>2. PICK n \in NoteType : pump.note = {n}
  BY <1>1 DEF Typed
<1>3. \A m : ~PumpOwes(m)' /\ (Owes(m)' <=> BufferOwes(m))
  BY <1>1, BufferKept DEF PumpOwes, Owes
<1>4. CASE pump.client = gen /\ phase = "live"
  <2>1. worker' = Mirror(n)
    <3>1. (CHOOSE m \in pump.note : TRUE) = n
      BY <1>2
    <3> QED BY <1>4, <3>1 DEF MirrorWrite
  <2>2. \A m : ~BufferOwes(m) /\ (Owes(m) <=> m = n) /\ ~Owes(m)'
    BY <1>1, <1>2, <1>3, <1>4, EmptyBuffer DEF Typed, PumpOwes, Owes
  <2>3. Typed' /\ PumpRight'
    BY <1>1, <2>1, MirrorDocs DEF Typed, PumpRight
  <2>4. LastRight'
    BY <1>1, <1>4, EmptyBuffer DEF Typed, LastRight
  <2>5. ASSUME NEW d \in Mine PROVE worker'.docs[d] = openDocs[d]
    <3>1. CASE About(n, d)
      <4>1. Right(n, d)
        BY <1>1, <1>2, <3>1 DEF MirrorInv, PumpRight, About
      <4>2. ~OpensOrCloses(n, d) => (worker.docs[d] = Closed <=> openDocs[d] = Closed)
        BY <1>4, <2>2 DEF MirrorInv, DocsFollow
      <4> QED BY <1>1, <2>1, <3>1, <4>1, <4>2, MirrorUpdates
    <3>2. CASE ~About(n, d)
      <4>1. worker.docs[d] = openDocs[d]
        BY <1>4, <2>2, <3>2 DEF MirrorInv, DocsFollow
      <4> QED BY <1>1, <2>1, <3>2, <4>1, MirrorDocs, MirrorAssumption
    <3> QED BY <3>1, <3>2
  <2>6. DocsFollow'
    BY <1>1, <2>5 DEF DocsFollow
  <2>7. WorkspaceFollows'
    BY <1>1, <2>1, <2>2, <1>4, MirrorWorkspace DEF MirrorInv, WorkspaceFollows
  <2> QED BY <2>3, <2>4, <2>6, <2>7 DEF MirrorInv
<1>5. CASE ~(pump.client = gen /\ phase = "live")
  <2>1. worker' = worker
    BY <1>5 DEF MirrorWrite
  <2>2. \A m : ~PumpOwes(m) /\ (Owes(m)' <=> Owes(m))
    BY <1>1, <1>3, <1>5 DEF PumpOwes, Owes
  <2>3. Typed' /\ PumpRight'
    BY <1>1, <2>1 DEF Typed, PumpRight
  <2>4. LastRight'
    BY <1>1, <2>2 DEF MirrorInv, LastRight, Right, OpensOrCloses
  <2>5. DocsFollow' /\ WorkspaceFollows'
    BY <1>1, <2>1, <2>2 DEF MirrorInv, DocsFollow, WorkspaceFollows, OpensOrCloses, About
  <2> QED BY <2>3, <2>4, <2>5 DEF MirrorInv
<1> QED BY <1>4, <1>5

-----------------------------------------------------------------------------
(* The worker. *)

\* Starting a worker, giving it its snapshot, and its end keep the invariant.
LEMMA WorkerPreserves ==
    MirrorInv /\ (Spawn \/ ReplaySnapshot \/ ReplayDone \/ WorkerGone) => MirrorInv'
<1> SUFFICES ASSUME MirrorInv, Spawn \/ ReplaySnapshot \/ ReplayDone \/ WorkerGone PROVE MirrorInv'
  OBVIOUS
<1>1. Typed /\ UNCHANGED <<openDocs, config, disk, pump>>
  BY DEF MirrorInv, Spawn, ReplaySnapshot, ReplayDone, WorkerGone, editorVars
<1>2. PumpRight'
  BY <1>1 DEF MirrorInv, PumpRight, Right
<1>3. CASE Spawn
  <2>1. /\ gen' \in Nat /\ phase' = "loading" /\ pendingObs' = <<>>
        /\ worker' = Fresh /\ Fresh \in WorkerType /\ Fresh.disk = disk /\ Fresh.pulls
    BY <1>1, <1>3, WorkerEffect DEF Spawn, Typed
  <2>2. Typed'
    BY <1>1, <2>1 DEF Typed
  <2> QED BY <1>1, <1>2, <2>1, <2>2, EmptyBuffer
          DEF MirrorInv, LastRight, DocsFollow, WorkspaceFollows
<1>4. CASE WorkerGone
  <2>1. Typed'
    BY <1>1, <1>4 DEF WorkerGone, Typed
  <2> QED BY <1>2, <1>4, <2>1, EmptyBuffer
          DEF WorkerGone, MirrorInv, LastRight, DocsFollow, WorkspaceFollows
<1>5. CASE ReplaySnapshot
  <2> DEFINE docs == [d \in Docs |-> IF MainWorker \/ d \in Mine THEN openDocs[d] ELSE Closed]
  <2>1. docs \in [Docs -> Int] /\ \A d \in Mine : docs[d] = openDocs[d]
    BY <1>1, MirrorAssumption DEF Typed, Closed
  <2>2. /\ worker' = [worker EXCEPT !.docs = docs]
        /\ phase = "loading" /\ phase' = "replay" /\ UNCHANGED <<gen, pendingObs>>
    BY <1>5 DEF ReplaySnapshot
  <2> HIDE DEF docs
  <2>3. /\ worker' \in WorkerType /\ worker'.docs = docs /\ worker'.disk = worker.disk
        /\ worker'.pulls = worker.pulls /\ worker'.config = worker.config
        /\ worker'.answer = worker.answer
    BY <1>1, <2>1, <2>2, WorkerEffect
  <2>4. \A m : (PumpOwes(m)' <=> PumpOwes(m)) /\ (Owes(m)' <=> Owes(m))
    BY <1>1, <2>2, BufferKept DEF PumpOwes, Owes
  <2>5. Typed'
    BY <1>1, <2>2, <2>3 DEF Typed
  <2>6. LastRight'
    BY <1>1, <2>2, <2>4 DEF MirrorInv, LastRight, Right, OpensOrCloses
  <2>7. DocsFollow'
    BY <1>1, <2>1, <2>2, <2>3 DEF DocsFollow
  <2>8. WorkspaceFollows'
    BY <1>1, <2>2, <2>3, <2>4 DEF MirrorInv, WorkspaceFollows
  <2> QED BY <1>2, <2>5, <2>6, <2>7, <2>8 DEF MirrorInv
<1>6. CASE ReplayDone
  <2>1. /\ phase = "replay" /\ phase' = "live" /\ pendingObs = <<>> /\ pendingObs' = <<>>
        /\ UNCHANGED <<gen, worker>>
    BY <1>6 DEF ReplayDone
  <2>2. \A m : Owes(m) => Owes(m)'
    BY <1>1, <2>1, EmptyBuffer DEF PumpOwes, Owes
  <2>3. Typed'
    BY <1>1, <2>1 DEF Typed
  <2>4. LastRight'
    BY <2>1, EmptyBuffer DEF LastRight
  <2>5. DocsFollow' /\ WorkspaceFollows'
    BY <1>1, <2>1, <2>2 DEF MirrorInv, DocsFollow, WorkspaceFollows, OpensOrCloses, About
  <2> QED BY <1>2, <2>3, <2>4, <2>5 DEF MirrorInv
<1> QED BY <1>3, <1>4, <1>5, <1>6

\* Replaying the head of pendingObs keeps it.
LEMMA ReplayNotePreserves == MirrorInv /\ ReplayNote => MirrorInv'
<1> SUFFICES ASSUME MirrorInv, ReplayNote PROVE MirrorInv'
  OBVIOUS
<1> DEFINE n == Head(pendingObs)
<1>1. /\ Typed /\ UNCHANGED <<openDocs, config, disk, pump, gen, phase>> /\ phase = "replay"
      /\ pendingObs # <<>> /\ pendingObs' = Tail(pendingObs) /\ worker' = Mirror(n)
  BY DEF MirrorInv, ReplayNote, editorVars
<1>2. /\ pendingObs' \in Seq(NoteType) /\ n \in NoteType
      /\ Len(pendingObs') \in Nat /\ Len(pendingObs) = Len(pendingObs') + 1
      /\ pendingObs[1] = n
      /\ \A i \in 1..Len(pendingObs') : pendingObs'[i] = pendingObs[i + 1]
      /\ \A m : BufferOwes(m) <=> BufferOwes(m)' \/ m = n
  BY <1>1, BufferTail
<1> HIDE DEF n
<1>3. \A m : (PumpOwes(m)' <=> PumpOwes(m)) /\ (Owes(m) <=> Owes(m)' \/ m = n)
  BY <1>1, <1>2 DEF PumpOwes, Owes
<1>4. Typed' /\ PumpRight'
  BY <1>1, <1>2, MirrorDocs DEF MirrorInv, Typed, PumpRight, Right
<1>5. LastRight'
  <2> SUFFICES ASSUME NEW d \in Mine, NEW i \in 1..Len(pendingObs'), OpensOrCloses(pendingObs'[i], d),
                      \A j \in i + 1..Len(pendingObs') : ~OpensOrCloses(pendingObs'[j], d),
                      \A m \in pump'.note : PumpOwes(m)' => ~OpensOrCloses(m, d)
               PROVE  Right(pendingObs[i], d)'
    BY DEF LastRight, OpensOrCloses
  <2>1. i + 1 \in 1..Len(pendingObs) /\ pendingObs[i + 1] = pendingObs'[i]
    BY <1>2
  <2>2. ASSUME NEW j \in (i + 1) + 1..Len(pendingObs) PROVE ~OpensOrCloses(pendingObs[j], d)
    <3>1. j - 1 \in i + 1..Len(pendingObs') /\ pendingObs'[j - 1] = pendingObs[j]
      BY <1>2
    <3> QED BY <3>1
  <2>3. Right(pendingObs[i + 1], d)
    BY <1>1, <1>3, <2>1, <2>2 DEF MirrorInv, LastRight
  <2> QED BY <1>1, <2>1, <2>3 DEF Right
<1>6. DocsFollow'
  <2>1. ASSUME NEW d \in Mine, \A m \in NoteType : Owes(m)' => ~OpensOrCloses(m, d)
        PROVE  \/ worker'.docs[d] = openDocs[d]
               \/ /\ worker'.docs[d] = worker.docs[d] /\ ~About(n, d)
                  /\ worker.docs[d] = Closed <=> openDocs[d] = Closed
    <3>1. CASE About(n, d)
      <4>1. OpensOrCloses(n, d) => Right(n, d)
        <5> SUFFICES ASSUME OpensOrCloses(pendingObs[1], d) PROVE Right(pendingObs[1], d)
          BY <1>2
        <5>1. ASSUME NEW j \in 1 + 1..Len(pendingObs) PROVE ~OpensOrCloses(pendingObs[j], d)
          <6>1. j - 1 \in 1..Len(pendingObs') /\ pendingObs'[j - 1] = pendingObs[j]
            BY <1>2
          <6>2. \E m \in NoteType : m = pendingObs[j] /\ Owes(m)'
            BY <1>2, <6>1, ElementOfSeq DEF Owes, BufferOwes
          <6> QED BY <2>1, <6>2
        <5>2. \A m \in pump.note : PumpOwes(m) => ~OpensOrCloses(m, d)
          BY <1>1, <1>3, <2>1 DEF Owes, Typed, PumpType, PumpOwes
        <5>3. 1 \in 1..Len(pendingObs)
          BY <1>2
        <5> QED BY <5>1, <5>2, <5>3 DEF MirrorInv, LastRight
      <4>2. ~OpensOrCloses(n, d) => (worker.docs[d] = Closed <=> openDocs[d] = Closed)
        BY <1>1, <1>3, <2>1 DEF MirrorInv, DocsFollow
      <4> QED BY <1>1, <1>2, <3>1, <4>1, <4>2, MirrorUpdates
    <3>2. CASE ~About(n, d)
      <4>1. worker'.docs[d] = worker.docs[d]
        BY <1>1, <1>2, <3>2, MirrorDocs, MirrorAssumption
      <4>2. ~OpensOrCloses(n, d)
        BY <3>2 DEF About, OpensOrCloses, DocKinds
      <4>3. worker.docs[d] = Closed <=> openDocs[d] = Closed
        BY <1>1, <1>3, <2>1, <4>2 DEF MirrorInv, DocsFollow
      <4> QED BY <3>2, <4>1, <4>3
    <3> QED BY <3>1, <3>2
  <2>2. ASSUME NEW d \in Mine, \A m \in NoteType : Owes(m)' => ~About(m, d)
        PROVE  worker'.docs[d] = openDocs[d]
    <3>1. \A m \in NoteType : Owes(m)' => ~OpensOrCloses(m, d)
      BY <2>2 DEF About, OpensOrCloses, DocKinds
    <3>2. ~About(n, d) => worker.docs[d] = openDocs[d]
      BY <1>1, <1>3, <2>2 DEF MirrorInv, DocsFollow
    <3> QED BY <2>1, <3>1, <3>2
  <2> QED BY <1>1, <2>1, <2>2 DEF DocsFollow, OpensOrCloses, About
<1>7. WorkspaceFollows'
  BY <1>1, <1>2, <1>3, MirrorWorkspace DEF MirrorInv, WorkspaceFollows
<1> QED BY <1>4, <1>5, <1>6, <1>7 DEF MirrorInv

\* Answering the worker's pull keeps it, however late the answer is.
LEMMA PullPreserves ==
    MirrorInv /\ (ConfigurationResult \/ RespondToServerRequest) => MirrorInv'
<1> SUFFICES ASSUME MirrorInv, ConfigurationResult \/ RespondToServerRequest PROVE MirrorInv'
  OBVIOUS
<1>1. Typed /\ UNCHANGED <<openDocs, config, disk, pump, gen, phase, pendingObs>>
  BY DEF MirrorInv, ConfigurationResult, RespondToServerRequest, editorVars
<1>2. /\ worker' \in WorkerType /\ worker'.docs = worker.docs /\ worker'.disk = worker.disk
      /\ \/ ~worker'.pulls /\ worker'.answer = config
         \/ /\ worker'.pulls = worker.pulls /\ worker'.config = worker.answer
            /\ worker'.answer = NoAnswer /\ worker.answer # NoAnswer
  BY <1>1, WorkerEffect DEF ConfigurationResult, RespondToServerRequest
<1>3. \A m : (PumpOwes(m)' <=> PumpOwes(m)) /\ (Owes(m)' <=> Owes(m))
  BY <1>1, BufferKept DEF PumpOwes, Owes
<1>4. Typed' /\ PumpRight'
  BY <1>1, <1>2 DEF MirrorInv, Typed, PumpRight, Right
<1>5. LastRight'
  BY <1>1, <1>3 DEF MirrorInv, LastRight, Right, OpensOrCloses
<1>6. DocsFollow'
  BY <1>1, <1>2, <1>3 DEF MirrorInv, DocsFollow, OpensOrCloses, About
<1>7. WorkspaceFollows'
  <2>1. config # NoAnswer
    BY <1>1 DEF Typed, NoAnswer
  <2> QED BY <1>1, <1>2, <1>3, <2>1 DEF MirrorInv, WorkspaceFollows
<1> QED BY <1>4, <1>5, <1>6, <1>7 DEF MirrorInv

-----------------------------------------------------------------------------
\* What a worker knows, and what it is still owed, add up to what the proxy tracks.
THEOREM MirrorInvariant == Spec => []MirrorInv
<1>1. MirrorInv /\ [Next]_vars => MirrorInv'
  <2> SUFFICES ASSUME MirrorInv, [Next]_vars PROVE MirrorInv'
    OBVIOUS
  <2>1. CASE UNCHANGED vars
    BY <2>1 DEF vars, editorVars, MirrorInv, Typed, PumpRight, LastRight, DocsFollow,
        WorkspaceFollows, Right, Owes, PumpOwes, BufferOwes
  <2>2. CASE Next
    BY <2>2, EditorMessagePreserves, ObservePreserves, MirrorWritePreserves, WorkerPreserves,
        ReplayNotePreserves, PullPreserves DEF Next
  <2> QED BY <2>1, <2>2
<1> QED BY <1>1, InitHolds, PTL DEF Spec

\* A live worker has exactly the documents of its module that the proxy tracks, with their
\* texts, whenever pumpClient is between two messages.
THEOREM WorkerHasDocuments == Spec => []WorkerSeesDocuments
<1>1. MirrorInv => WorkerSeesDocuments
  <2> SUFFICES ASSUME MirrorInv, phase = "live", pump.pc = "idle", NEW d \in Mine
               PROVE  worker.docs[d] = openDocs[d]
    BY DEF WorkerSeesDocuments
  <2>1. \A n : ~Owes(n)
    BY EmptyBuffer DEF MirrorInv, Typed, Owes, PumpOwes
  <2> QED BY <2>1 DEF MirrorInv, DocsFollow
<1> QED BY <1>1, MirrorInvariant, PTL

\* Nor does it miss a watched-file event or a change of the settings.
THEOREM WorkerHasWorkspace == Spec => []WorkerSeesWorkspace
<1>1. MirrorInv => WorkerSeesWorkspace
  <2> SUFFICES ASSUME MirrorInv, phase = "live", pump.pc = "idle"
               PROVE  /\ worker.disk = disk
                      /\ ~worker.pulls /\ worker.answer = NoAnswer => worker.config = config
    BY DEF WorkerSeesWorkspace
  <2>1. \A n : ~Owes(n)
    BY EmptyBuffer DEF MirrorInv, Typed, Owes, PumpOwes
  <2> QED BY <2>1 DEF MirrorInv, WorkspaceFollows
<1> QED BY <1>1, MirrorInvariant, PTL

-----------------------------------------------------------------------------
(* The incremental edits.  First induction, and what a loop computes. *)

\* Induction over the naturals, with a set in the place of a predicate.
LEMMA Induct ==
    ASSUME NEW S, 0 \in S, \A n \in Nat : n \in S => n + 1 \in S
    PROVE  Nat \subseteq S
<1> SUFFICES ASSUME Nat \ S # {} PROVE FALSE
  OBVIOUS
<1>1. \E x \in Nat \ S : \A y \in Nat \ S : ~(<<y, x>> \in OpToRel(<, Nat))
  BY NatLessThanWellFounded, WFMin, Zenon
<1>2. PICK x \in Nat \ S : \A y \in Nat \ S : ~(y < x)
  BY <1>1 DEF OpToRel
<1>3. x # 0 /\ x - 1 \in Nat /\ x - 1 < x
  OBVIOUS
<1>4. x - 1 \in S
  BY <1>2, <1>3
<1> QED BY <1>2, <1>3, <1>4

\* The same for the numbers from a to b.
LEMMA InductFrom ==
    ASSUME NEW S, NEW a \in Nat, NEW b \in Nat, a <= b, a \in S,
           \A n \in a..b : n \in S /\ n < b => n + 1 \in S
    PROVE  \A n \in a..b : n \in S
<1> DEFINE T == {n \in Nat : a + n <= b => a + n \in S}
<1>1. 0 \in T
  OBVIOUS
<1>2. ASSUME NEW n \in Nat, n \in T
      PROVE  n + 1 \in T
  <2> SUFFICES ASSUME a + (n + 1) <= b PROVE a + (n + 1) \in S
    OBVIOUS
  <2>1. a + n \in S /\ a + n \in a..b /\ a + n < b
    BY <1>2
  <2>2. (a + n) + 1 \in S
    BY <2>1
  <2> QED BY <2>2
<1>3. Nat \subseteq T
  <2> HIDE DEF T
  <2> QED BY <1>1, <1>2, Induct
<1> SUFFICES ASSUME NEW n \in a..b PROVE n \in S
  OBVIOUS
<1>4. n - a \in Nat /\ a + (n - a) = n /\ n <= b
  OBVIOUS
<1>5. n - a \in T
  BY <1>3, <1>4
<1> QED BY <1>4, <1>5

\* f holds the values of a loop: first, and then what each turn makes of the one before.
LoopOf(f, first, step, a, b) ==
    f = [n \in a..b |-> IF n = a THEN first ELSE step[n][f[n - 1]]]

\* A loop from a to b has a trace: the values its turns give, from first on.
LEMMA LoopTrace ==
    ASSUME NEW X, NEW a \in Nat, NEW b \in Nat, a <= b,
           NEW first \in X, NEW step \in [a..b -> [X -> X]]
    PROVE  \E f \in [a..b -> X] : LoopOf(f, first, step, a, b)
<1> DEFINE Trace(m) == \E f \in [a..m -> X] : f[a] = first /\ \A n \in a + 1..m : f[n] = step[n][f[n - 1]]
           S == {m \in a..b : Trace(m)}
<1>1. a \in S
  <2> DEFINE g == [n \in a..a |-> first]
  <2>1. g \in [a..a -> X] /\ g[a] = first /\ \A n \in a + 1..a : g[n] = step[n][g[n - 1]]
    OBVIOUS
  <2> HIDE DEF g
  <2>2. Trace(a)
    BY <2>1
  <2> QED BY <2>2
<1>2. ASSUME NEW m \in a..b, m \in S, m < b
      PROVE  m + 1 \in S
  <2>1. PICK f \in [a..m -> X] : f[a] = first /\ \A n \in a + 1..m : f[n] = step[n][f[n - 1]]
    BY <1>2
  <2> DEFINE g == [n \in a..m + 1 |-> IF n = m + 1 THEN step[m + 1][f[m]] ELSE f[n]]
  <2>2. g \in [a..m + 1 -> X]
    <3>1. m + 1 \in a..b /\ f[m] \in X
      BY <1>2
    <3>2. step[m + 1][f[m]] \in X
      BY <3>1
    <3> QED BY <3>2
  <2>3. g[a] = first
    BY <2>1
  <2>4. ASSUME NEW n \in a + 1..m + 1
        PROVE  g[n] = step[n][g[n - 1]]
    <3>1. CASE n = m + 1
      BY <3>1
    <3>2. CASE n # m + 1
      BY <2>1, <3>2
    <3> QED BY <3>1, <3>2
  <2> HIDE DEF g
  <2>5. Trace(m + 1)
    BY <2>2, <2>3, <2>4
  <2> QED BY <1>2, <2>5
<1>3. b \in S
  <2> HIDE DEF S
  <2>1. \A n \in a..b : n \in S
    BY <1>1, <1>2, InductFrom
  <2> QED BY <2>1
<1>4. PICK f \in [a..b -> X] : f[a] = first /\ \A n \in a + 1..b : f[n] = step[n][f[n - 1]]
  BY <1>3
<1>5. \A n \in a..b : f[n] = IF n = a THEN first ELSE step[n][f[n - 1]]
  BY <1>4
<1>6. f = [n \in a..b |-> IF n = a THEN first ELSE step[n][f[n - 1]]]
  BY <1>4, <1>5
<1> QED BY <1>4, <1>6 DEF LoopOf

-----------------------------------------------------------------------------
(* Line breaks and lines. *)

\* The line breaks among the first k runes, and where the line of offset i starts.
Breaks(text, k) == {j \in 1..k : text[j] = Newline}
LineStart(text, i) ==
    IF Breaks(text, i) = {} THEN 0
    ELSE CHOOSE k \in Breaks(text, i) : \A j \in Breaks(text, i) : j <= k

\* s is where the line of offset i starts.
StartsLine(text, s, i) ==
    /\ s \in 0..i /\ (s = 0 \/ text[s] = Newline)
    /\ \A j \in s + 1..i : text[j] # Newline

\* LineStart is where the line of i starts: a line break, or the start of the text, with
\* no line break between it and i.
LEMMA LineStarts ==
    ASSUME NEW text \in Seq(Runes), NEW i \in 0..Len(text)
    PROVE  StartsLine(text, LineStart(text, i), i)
<1> DEFINE n == Len(text)
           S == {k \in 0..n : \E s \in 0..k : StartsLine(text, s, k)}
<1>1. n \in Nat
  OBVIOUS
<1> HIDE DEF n
<1>2. 0 \in S
  BY <1>1 DEF StartsLine
<1>3. ASSUME NEW k \in 0..n, k \in S, k < n
      PROVE  k + 1 \in S
  <2>1. PICK s \in 0..k : StartsLine(text, s, k)
    BY <1>3
  <2>2. CASE text[k + 1] = Newline
    <3>1. StartsLine(text, k + 1, k + 1)
      BY <1>1, <2>2 DEF StartsLine
    <3> QED BY <1>1, <1>3, <3>1
  <2>3. CASE text[k + 1] # Newline
    <3>1. StartsLine(text, s, k + 1)
      BY <1>1, <2>1, <2>3 DEF StartsLine
    <3> QED BY <1>1, <1>3, <2>1, <3>1
  <2> QED BY <2>2, <2>3
<1>4. i \in S
  <2> HIDE DEF S
  <2>1. \A k \in 0..n : k \in S
    BY <1>1, <1>2, <1>3, InductFrom
  <2> QED BY <2>1 DEF n
<1>5. PICK s \in 0..i : StartsLine(text, s, i)
  BY <1>4
<1>6. CASE Breaks(text, i) = {}
  <2>1. s = 0
    BY <1>5, <1>6 DEF StartsLine, Breaks
  <2> QED BY <1>5, <1>6, <2>1 DEF LineStart
<1>7. CASE Breaks(text, i) # {}
  <2>1. s \in Breaks(text, i)
    BY <1>5, <1>7 DEF StartsLine, Breaks
  <2>2. \A j \in Breaks(text, i) : j <= s
    BY <1>5 DEF StartsLine, Breaks
  <2>3. LineStart(text, i) \in Breaks(text, i) /\ \A j \in Breaks(text, i) : j <= LineStart(text, i)
    BY <1>7, <2>1, <2>2 DEF LineStart
  <2>4. LineStart(text, i) = s
    BY <2>1, <2>2, <2>3 DEF Breaks
  <2> QED BY <1>5, <2>4
<1> QED BY <1>6, <1>7

\* How the number of line breaks grows.
LEMMA BreaksCount ==
    ASSUME NEW text \in Seq(Runes), NEW k \in 0..Len(text)
    PROVE  /\ IsFiniteSet(Breaks(text, k)) /\ Cardinality(Breaks(text, k)) \in Nat
           /\ k < Len(text) =>
                Cardinality(Breaks(text, k + 1)) =
                    Cardinality(Breaks(text, k)) + IF text[k + 1] = Newline THEN 1 ELSE 0
<1>1. Len(text) \in Nat
  OBVIOUS
<1>2. IsFiniteSet(1..k) /\ Breaks(text, k) \in SUBSET (1..k)
  BY <1>1, FS_Interval DEF Breaks
<1>3. IsFiniteSet(Breaks(text, k)) /\ Cardinality(Breaks(text, k)) \in Nat
  BY <1>2, FS_Subset, FS_CardinalityType
<1>4. ASSUME k < Len(text), text[k + 1] = Newline
      PROVE  Cardinality(Breaks(text, k + 1)) = Cardinality(Breaks(text, k)) + 1
  <2>1. Breaks(text, k + 1) = Breaks(text, k) \cup {k + 1} /\ k + 1 \notin Breaks(text, k)
    BY <1>1, <1>4 DEF Breaks
  <2> QED BY <1>3, <2>1, FS_AddElement
<1>5. ASSUME k < Len(text), text[k + 1] # Newline
      PROVE  Cardinality(Breaks(text, k + 1)) = Cardinality(Breaks(text, k))
  <2>1. Breaks(text, k + 1) = Breaks(text, k)
    BY <1>1, <1>5 DEF Breaks
  <2> QED BY <2>1
<1> QED BY <1>3, <1>4, <1>5

\* Before the start of its line there are fewer line breaks than before an offset, and
\* at it as many.
LEMMA BreaksBefore ==
    ASSUME NEW text \in Seq(Runes), NEW i \in 0..Len(text), NEW s, StartsLine(text, s, i)
    PROVE  /\ Cardinality(Breaks(text, s)) = Cardinality(Breaks(text, i))
           /\ \A k \in 0..Len(text) : k < s => Cardinality(Breaks(text, k)) < Cardinality(Breaks(text, i))
<1>1. Len(text) \in Nat /\ s \in 0..i
  BY DEF StartsLine
<1>2. Breaks(text, s) = Breaks(text, i)
  BY <1>1 DEF StartsLine, Breaks
<1>3. ASSUME NEW k \in 0..Len(text), k < s
      PROVE  Cardinality(Breaks(text, k)) < Cardinality(Breaks(text, i))
  <2>1. Breaks(text, k) \in SUBSET Breaks(text, i)
    BY <1>1, <1>3 DEF Breaks
  <2>2. s \in Breaks(text, i) /\ s \notin Breaks(text, k)
    BY <1>1, <1>3 DEF StartsLine, Breaks
  <2>3. IsFiniteSet(Breaks(text, i)) /\ Cardinality(Breaks(text, i)) \in Nat /\ Cardinality(Breaks(text, k)) \in Nat
    BY BreaksCount
  <2>4. Cardinality(Breaks(text, k)) <= Cardinality(Breaks(text, i))
    BY <2>1, <2>3, FS_Subset
  <2>5. Cardinality(Breaks(text, k)) # Cardinality(Breaks(text, i))
    BY <2>1, <2>2, <2>3, FS_Subset
  <2> QED BY <2>3, <2>4, <2>5
<1> QED BY <1>2, <1>3

-----------------------------------------------------------------------------
(* The first loop finds the line. *)

LineStates == [current : Nat, start : Nat]
LineLoop(f, text, line) ==
    f = [i \in 0..Len(text) |->
            IF i = 0 THEN [current |-> 0, start |-> 0]
            ELSE IF f[i - 1].current = line \/ text[i] # Newline THEN f[i - 1]
            ELSE [current |-> f[i - 1].current + 1, start |-> i]]

\* The recursion of FindLine has a solution.
LEMMA LineLoopExists ==
    ASSUME NEW text \in Seq(Runes), NEW line
    PROVE  \E f : LineLoop(f, text, line)
<1> DEFINE n == Len(text)
           first == [current |-> 0, start |-> 0]
           turn(i, s) == IF s.current = line \/ text[i] # Newline THEN s
                         ELSE [current |-> s.current + 1, start |-> i]
           step == [i \in 0..n |-> [s \in LineStates |-> turn(i, s)]]
<1>1. n \in Nat /\ 0 \in Nat /\ 0 <= n /\ first \in LineStates
  BY DEF LineStates
<1>2. \A i \in 0..n, s \in LineStates : turn(i, s) \in LineStates
  BY <1>1 DEF LineStates
<1>3. step \in [0..n -> [LineStates -> LineStates]]
  BY <1>2
<1>4. \A i \in 0..n, s \in LineStates : step[i][s] = turn(i, s)
  OBVIOUS
<1> HIDE DEF n, first, turn, step
<1>5. PICK f \in [0..n -> LineStates] : LoopOf(f, first, step, 0, n)
  BY <1>1, <1>3, LoopTrace
<1>6. \A i \in 0..n : i # 0 => step[i][f[i - 1]] = turn(i, f[i - 1])
  <2> SUFFICES ASSUME NEW i \in 0..n, i # 0 PROVE step[i][f[i - 1]] = turn(i, f[i - 1])
    OBVIOUS
  <2>1. f[i - 1] \in LineStates
    BY <1>1
  <2> QED BY <1>4, <2>1
<1>7. f = [i \in 0..n |-> IF i = 0 THEN first ELSE turn(i, f[i - 1])]
  BY <1>5, <1>6 DEF LoopOf
<1> QED BY <1>7 DEF LineLoop, n, first, turn

\* What one turn of it does.
LEMMA LineLoopValues ==
    ASSUME NEW text \in Seq(Runes), NEW line, NEW f, LineLoop(f, text, line)
    PROVE  /\ f[0] = [current |-> 0, start |-> 0]
           /\ \A i \in 1..Len(text) :
                f[i] = IF f[i - 1].current = line \/ text[i] # Newline THEN f[i - 1]
                       ELSE [current |-> f[i - 1].current + 1, start |-> i]
BY DEF LineLoop

\* FindLine counts the line breaks up to the line asked for, and stays there: asked for the
\* line of i it finds where that line starts.
LEMMA LineFound ==
    ASSUME NEW text \in Seq(Runes), NEW i \in 0..Len(text), NEW s, StartsLine(text, s, i)
    PROVE  /\ FindLine(text, Cardinality(Breaks(text, i))).current = Cardinality(Breaks(text, i))
           /\ FindLine(text, Cardinality(Breaks(text, i))).start = s
<1> DEFINE n == Len(text)
           line == Cardinality(Breaks(text, i))
           b(k) == Cardinality(Breaks(text, k))
           f == CHOOSE g : LineLoop(g, text, line)
<1>1. LineLoop(f, text, line)
  <2> HIDE DEF line
  <2> QED BY LineLoopExists
<1>2. FindLine(text, line) = f[n]
  BY DEF FindLine, LineLoop
<1>3. n \in Nat /\ line \in Nat /\ s \in 0..i /\ i \in 0..n /\ \A k \in 0..n : b(k) \in Nat
  BY BreaksCount DEF StartsLine
<1>4. b(s) = line /\ \A k \in 0..n : k < s => b(k) < line
  BY BreaksBefore
<1>5. \A k \in 0..n : k < n => b(k + 1) = b(k) + IF text[k + 1] = Newline THEN 1 ELSE 0
  BY BreaksCount
<1>6. b(0) = 0
  <2>1. Breaks(text, 0) = {}
    BY DEF Breaks
  <2> QED BY <2>1, FS_EmptySet
<1> HIDE DEF f, line
<1>7. f[0] = [current |-> 0, start |-> 0]
      /\ \A k \in 1..n : f[k] = IF f[k - 1].current = line \/ text[k] # Newline THEN f[k - 1]
                                ELSE [current |-> f[k - 1].current + 1, start |-> k]
  BY <1>1, LineLoopValues
<1> DEFINE S == {k \in 0..n : IF k < s THEN f[k].current = b(k) ELSE f[k].current = line /\ f[k].start = s}
<1> HIDE DEF n, b
<1>8. 0 \in S
  BY <1>3, <1>4, <1>6, <1>7
<1>9. ASSUME NEW k \in 0..n, k \in S, k < n
      PROVE  k + 1 \in S
  <2>1. k + 1 \in 1..n /\ (k + 1) - 1 = k
    BY <1>3, <1>9
  <2>2. f[k + 1] = IF f[k].current = line \/ text[k + 1] # Newline THEN f[k]
                   ELSE [current |-> f[k].current + 1, start |-> k + 1]
    BY <1>7, <2>1
  <2>3. CASE k >= s
    <3>1. f[k].current = line /\ f[k].start = s
      BY <1>3, <1>9, <2>3
    <3>2. f[k + 1] = f[k]
      BY <2>2, <3>1
    <3> QED BY <1>3, <1>9, <2>1, <2>3, <3>1, <3>2
  <2>4. CASE k < s
    <3>1. f[k].current = b(k) /\ b(k) < line /\ b(k) \in Nat
      BY <1>3, <1>4, <1>9, <2>4
    <3>2. b(k + 1) = b(k) + IF text[k + 1] = Newline THEN 1 ELSE 0
      BY <1>5, <1>9
    <3>3. f[k + 1] = IF text[k + 1] # Newline THEN f[k] ELSE [current |-> f[k].current + 1, start |-> k + 1]
      BY <1>3, <2>2, <3>1
    <3>4. f[k + 1].current = b(k + 1)
      BY <3>1, <3>2, <3>3
    <3>5. CASE k + 1 = s
      <4>1. text[k + 1] = Newline
        BY <1>3, <2>4, <3>5 DEF StartsLine
      <4> QED BY <1>3, <1>4, <2>1, <3>3, <3>4, <3>5, <4>1
    <3>6. CASE k + 1 < s
      BY <2>1, <3>4, <3>6
    <3> QED BY <1>3, <2>4, <3>5, <3>6
  <2> QED BY <1>3, <2>3, <2>4
<1>10. n \in S
  <2> HIDE DEF S
  <2>1. 0 \in Nat /\ n \in Nat /\ 0 <= n
    BY <1>3
  <2>2. \A k \in 0..n : k \in S
    BY <1>8, <1>9, <2>1, InductFrom
  <2> QED BY <2>1, <2>2
<1>11. f[n].current = line /\ f[n].start = s
  BY <1>3, <1>10
<1> QED BY <1>2, <1>11 DEF line, n

-----------------------------------------------------------------------------
(* The second loop finds the column. *)

\* The code units between two offsets: one for every rune, and one more for every wide one.
Wides(text, s, k) == {j \in s + 1..k : text[j] = Wide}
Units(text, s, k) == k - s + Cardinality(Wides(text, s, k))

\* How the code units of a line add up.
LEMMA UnitsCount ==
    ASSUME NEW text \in Seq(Runes), NEW s \in 0..Len(text), NEW k \in s..Len(text)
    PROVE  /\ Units(text, s, k) \in Nat /\ Units(text, s, s) = 0
           /\ k < Len(text) => Units(text, s, k + 1) = Units(text, s, k) + utf16CodeUnits(text[k + 1])
<1>1. Len(text) \in Nat
  OBVIOUS
<1>2. IsFiniteSet(s + 1..k) /\ Wides(text, s, k) \in SUBSET (s + 1..k)
  BY <1>1, FS_Interval DEF Wides
<1>3. IsFiniteSet(Wides(text, s, k)) /\ Cardinality(Wides(text, s, k)) \in Nat
  BY <1>2, FS_Subset, FS_CardinalityType
<1>4. Wides(text, s, s) = {}
  BY <1>1 DEF Wides
<1>5. Units(text, s, k) \in Nat /\ Units(text, s, s) = 0
  BY <1>1, <1>3, <1>4, FS_EmptySet DEF Units
<1>6. ASSUME k < Len(text), text[k + 1] = Wide
      PROVE  Cardinality(Wides(text, s, k + 1)) = Cardinality(Wides(text, s, k)) + 1
  <2>1. Wides(text, s, k + 1) = Wides(text, s, k) \cup {k + 1} /\ k + 1 \notin Wides(text, s, k)
    BY <1>1, <1>6 DEF Wides
  <2> QED BY <1>3, <2>1, FS_AddElement
<1>7. ASSUME k < Len(text), text[k + 1] # Wide
      PROVE  Cardinality(Wides(text, s, k + 1)) = Cardinality(Wides(text, s, k))
  <2>1. Wides(text, s, k + 1) = Wides(text, s, k)
    BY <1>1, <1>7 DEF Wides
  <2> QED BY <2>1
<1>8. k < Len(text) => Units(text, s, k + 1) = Units(text, s, k) + utf16CodeUnits(text[k + 1])
  BY <1>1, <1>3, <1>6, <1>7 DEF Units, utf16CodeUnits
<1> QED BY <1>5, <1>8

\* An offset that is further on the line has more code units before it.
LEMMA UnitsGrow ==
    ASSUME NEW text \in Seq(Runes), NEW s \in 0..Len(text), NEW i \in s..Len(text),
           NEW k \in s..Len(text), k < i
    PROVE  Units(text, s, k) < Units(text, s, i)
<1>1. Len(text) \in Nat
  OBVIOUS
<1>2. IsFiniteSet(s + 1..i) /\ Wides(text, s, i) \in SUBSET (s + 1..i)
  BY <1>1, FS_Interval DEF Wides
<1>6. Wides(text, s, k) \in SUBSET Wides(text, s, i)
  BY <1>1 DEF Wides
<1>3. IsFiniteSet(Wides(text, s, i))
  BY <1>2, FS_Subset
<1>4. Cardinality(Wides(text, s, k)) <= Cardinality(Wides(text, s, i)) /\ IsFiniteSet(Wides(text, s, k))
  BY <1>3, <1>6, FS_Subset
<1>5. Cardinality(Wides(text, s, k)) \in Nat /\ Cardinality(Wides(text, s, i)) \in Nat
  BY <1>3, <1>4, FS_CardinalityType
<1> QED BY <1>1, <1>4, <1>5 DEF Units

\* The walk goes on from column c, or has stopped at it with an answer.
Going(c) == [col |-> c, at |-> Fail, stop |-> FALSE]
Stopped(c, at) == [col |-> c, at |-> at, stop |-> TRUE]
ColumnStates == {Going(c) : c \in Nat} \cup {Stopped(c, at) : c \in Nat, at \in Int}
ColumnTurn(text, character, i, s) ==
    LET col == s.col + utf16CodeUnits(text[i])
    IN IF s.stop THEN s
       ELSE IF text[i] = Newline THEN [s EXCEPT !.stop = TRUE]
       ELSE IF s.col = character THEN [s EXCEPT !.at = i - 1, !.stop = TRUE]
       ELSE [col |-> col, at |-> Fail, stop |-> col > character]
ColumnLoop(f, text, start, character) ==
    f = [i \in start..Len(text) |->
            IF i = start THEN [col |-> 0, at |-> Fail, stop |-> FALSE]
            ELSE ColumnTurn(text, character, i, f[i - 1])]

\* What one turn of the walk does.
LEMMA ColumnTurns ==
    ASSUME NEW text, NEW character \in Nat, NEW i, NEW c \in Nat
    PROVE  /\ text[i] = Newline =>
                ColumnTurn(text, character, i, Going(c)) = Stopped(c, Fail)
           /\ text[i] # Newline /\ c = character =>
                ColumnTurn(text, character, i, Going(c)) = Stopped(c, i - 1)
           /\ text[i] # Newline /\ c # character /\ c + utf16CodeUnits(text[i]) > character =>
                ColumnTurn(text, character, i, Going(c)) = Stopped(c + utf16CodeUnits(text[i]), Fail)
           /\ text[i] # Newline /\ c # character /\ c + utf16CodeUnits(text[i]) <= character =>
                ColumnTurn(text, character, i, Going(c)) = Going(c + utf16CodeUnits(text[i]))
<1>2. ASSUME text[i] = Newline
      PROVE  ColumnTurn(text, character, i, Going(c)) = Stopped(c, Fail)
  BY <1>2, Zenon DEF ColumnTurn, Going, Stopped
<1>3. ASSUME text[i] # Newline, c = character
      PROVE  ColumnTurn(text, character, i, Going(c)) = Stopped(c, i - 1)
  BY <1>3, Zenon DEF ColumnTurn, Going, Stopped
<1>4. ASSUME text[i] # Newline, c # character
      PROVE  ColumnTurn(text, character, i, Going(c))
                    = [col |-> c + utf16CodeUnits(text[i]), at |-> Fail,
                       stop |-> c + utf16CodeUnits(text[i]) > character]
  BY <1>4, Zenon DEF ColumnTurn, Going
<1>5. ASSUME text[i] # Newline, c # character, c + utf16CodeUnits(text[i]) > character
      PROVE  ColumnTurn(text, character, i, Going(c)) = Stopped(c + utf16CodeUnits(text[i]), Fail)
  <2>1. (c + utf16CodeUnits(text[i]) > character) = TRUE
    BY <1>5
  <2> QED BY <1>4, <1>5, <2>1, Zenon DEF Stopped
<1>6. ASSUME text[i] # Newline, c # character, c + utf16CodeUnits(text[i]) <= character
      PROVE  ColumnTurn(text, character, i, Going(c)) = Going(c + utf16CodeUnits(text[i]))
  <2>1. (c + utf16CodeUnits(text[i]) > character) = FALSE
    BY <1>6 DEF utf16CodeUnits
  <2> QED BY <1>4, <1>6, <2>1, Zenon DEF Going
<1> QED BY <1>2, <1>3, <1>5, <1>6

\* The recursion of FindColumn has a solution.
LEMMA ColumnLoopExists ==
    ASSUME NEW text \in Seq(Runes), NEW start \in 0..Len(text), NEW character \in Nat
    PROVE  \E f : ColumnLoop(f, text, start, character)
<1> DEFINE n == Len(text)
           first == Going(0)
           step == [i \in start..n |-> [s \in ColumnStates |-> ColumnTurn(text, character, i, s)]]
<1>1. n \in Nat /\ start \in Nat /\ start <= n /\ first \in ColumnStates
  BY DEF ColumnStates
<1>2. ASSUME NEW i \in start..n, NEW s \in ColumnStates
      PROVE  ColumnTurn(text, character, i, s) \in ColumnStates
  <2>1. utf16CodeUnits(text[i]) \in Nat /\ i \in Int
    BY <1>1 DEF utf16CodeUnits
  <2>2. ASSUME NEW c \in Nat, NEW a \in Int, s = Stopped(c, a)
        PROVE  ColumnTurn(text, character, i, s) \in ColumnStates
    <3>1. ColumnTurn(text, character, i, Stopped(c, a)) = Stopped(c, a)
      BY Zenon DEF ColumnTurn, Stopped
    <3> QED BY <2>2, <3>1
  <2>3. ASSUME NEW c \in Nat, s = Going(c)
        PROVE  ColumnTurn(text, character, i, s) \in ColumnStates
    <3>1. c + utf16CodeUnits(text[i]) \in Nat /\ i - 1 \in Int /\ Fail \in Int
      BY <1>1, <2>1 DEF Fail
    <3>2. CASE text[i] = Newline
      BY <2>3, <3>1, <3>2, ColumnTurns DEF ColumnStates
    <3>3. CASE text[i] # Newline /\ c = character
      BY <2>3, <3>1, <3>3, ColumnTurns DEF ColumnStates
    <3>4. CASE text[i] # Newline /\ c # character /\ c + utf16CodeUnits(text[i]) > character
      BY <2>3, <3>1, <3>4, ColumnTurns DEF ColumnStates
    <3>5. CASE text[i] # Newline /\ c # character /\ c + utf16CodeUnits(text[i]) <= character
      BY <2>3, <3>1, <3>5, ColumnTurns DEF ColumnStates
    <3> QED BY <3>1, <3>2, <3>3, <3>4, <3>5
  <2> QED BY <2>2, <2>3 DEF ColumnStates
<1>3. step \in [start..n -> [ColumnStates -> ColumnStates]]
  BY <1>2
<1>4. \A i \in start..n, s \in ColumnStates : step[i][s] = ColumnTurn(text, character, i, s)
  OBVIOUS
<1> HIDE DEF n, first, step
<1>5. PICK f \in [start..n -> ColumnStates] : LoopOf(f, first, step, start, n)
  BY <1>1, <1>3, LoopTrace
<1>6. \A i \in start..n : i # start => step[i][f[i - 1]] = ColumnTurn(text, character, i, f[i - 1])
  <2> SUFFICES ASSUME NEW i \in start..n, i # start
               PROVE  step[i][f[i - 1]] = ColumnTurn(text, character, i, f[i - 1])
    OBVIOUS
  <2>1. f[i - 1] \in ColumnStates
    BY <1>1
  <2> QED BY <1>4, <2>1
<1>7. f = [i \in start..n |-> IF i = start THEN first ELSE ColumnTurn(text, character, i, f[i - 1])]
  BY <1>5, <1>6 DEF LoopOf
<1> QED BY <1>7, Zenon DEF ColumnLoop, n, first, Going

\* The values of the walk, one by one.
LEMMA ColumnLoopValues ==
    ASSUME NEW text \in Seq(Runes), NEW start \in 0..Len(text), NEW character, NEW f,
           ColumnLoop(f, text, start, character)
    PROVE  /\ f[start] = Going(0)
           /\ \A i \in start + 1..Len(text) : f[i] = ColumnTurn(text, character, i, f[i - 1])
<1>1. f = [i \in start..Len(text) |->
            IF i = start THEN Going(0) ELSE ColumnTurn(text, character, i, f[i - 1])]
  BY Zenon DEF ColumnLoop, Going
<1>2. Len(text) \in Nat /\ start \in start..Len(text)
  OBVIOUS
<1>3. f[start] = Going(0)
  BY <1>1, <1>2, Zenon
<1>4. ASSUME NEW i \in start + 1..Len(text)
      PROVE  f[i] = ColumnTurn(text, character, i, f[i - 1])
  <2>1. i \in start..Len(text) /\ i # start
    BY <1>2
  <2> QED BY <1>1, <2>1, Zenon
<1> QED BY <1>3, <1>4

\* The walk to offset i of a line that starts at s, when the character asked for is i's,
\* or lies beyond the end of the line.
LEMMA ColumnFound ==
    ASSUME NEW text \in Seq(Runes), NEW i \in 0..Len(text), NEW s, StartsLine(text, s, i),
           NEW character \in Nat, Units(text, s, i) <= character,
           character = Units(text, s, i) \/ AtLineEnd(text, i)
    PROVE  /\ FindColumn(text, s, character).col = Units(text, s, i)
           /\ FindColumn(text, s, character).at = IF AtLineEnd(text, i) THEN Fail ELSE i
<1> DEFINE n == Len(text)
           u(k) == Units(text, s, k)
           f == CHOOSE g : ColumnLoop(g, text, s, character)
<1>1. n \in Nat /\ i \in 0..n /\ s \in 0..i /\ s \in 0..n /\ s \in Nat /\ s <= n
  BY DEF StartsLine
<1>2. ColumnLoop(f, text, s, character)
  BY <1>1, ColumnLoopExists
<1>3. FindColumn(text, s, character) = f[n]
  BY DEF FindColumn, ColumnLoop, ColumnTurn
<1>4. u(s) = 0 /\ \A k \in s..n : u(k) \in Nat
  BY <1>1, UnitsCount
<1>5. \A k \in s..n : k < n => u(k + 1) = u(k) + utf16CodeUnits(text[k + 1])
  BY <1>1, UnitsCount
<1>6. \A k \in s..n : k < i => u(k) < u(i)
  BY <1>1, UnitsGrow
<1> HIDE DEF f
<1>7. /\ f[s] = Going(0)
      /\ \A k \in s + 1..n : f[k] = ColumnTurn(text, character, k, f[k - 1])
  BY <1>1, <1>2, ColumnLoopValues
<1>8. u(i) <= character /\ (character = u(i) \/ AtLineEnd(text, i)) /\ u(i) \in Nat
  BY <1>1, <1>4
<1>9. AtLineEnd(text, i) <=> i = n \/ text[i + 1] = Newline
  BY DEF AtLineEnd
<1> DEFINE last == Stopped(u(i), IF AtLineEnd(text, i) THEN Fail ELSE i)
           S == {k \in s..n : f[k] = IF k <= i THEN Going(u(k)) ELSE last}
<1> HIDE DEF n, u
<1>10. s \in S
  BY <1>1, <1>4, <1>7
<1>11. ASSUME NEW k \in s..n, k \in S, k < n
       PROVE  k + 1 \in S
  <2>1. k + 1 \in s + 1..n /\ (k + 1) - 1 = k /\ k + 1 \in s..n
    BY <1>1, <1>11
  <2>2. f[k + 1] = ColumnTurn(text, character, k + 1, f[k])
    BY <1>7, <2>1
  <2>3. CASE k < i
    <3>1. f[k] = Going(u(k))
      BY <1>1, <1>11, <2>3
    <3>2. text[k + 1] # Newline
      BY <1>1, <2>3 DEF StartsLine
    <3>3. u(k) \in Nat /\ u(k + 1) \in Nat /\ u(k) < character /\ u(k + 1) <= character
      BY <1>1, <1>4, <1>6, <1>8, <2>1, <2>3
    <3>5. u(k + 1) = u(k) + utf16CodeUnits(text[k + 1])
      BY <1>5, <1>11
    <3>6. f[k + 1] = Going(u(k + 1))
      BY <2>2, <3>1, <3>2, <3>3, <3>5, ColumnTurns
    <3> QED BY <1>1, <2>1, <2>3, <3>6
  <2>4. CASE k = i
    <3>1. f[k] = Going(u(i))
      BY <1>1, <1>11, <2>4
    <3>2. CASE text[k + 1] = Newline
      <4>1. f[k + 1] = last
        BY <1>8, <1>9, <2>2, <2>4, <3>1, <3>2, ColumnTurns
      <4> QED BY <1>1, <2>1, <2>4, <4>1
    <3>3. CASE text[k + 1] # Newline
      <4>1. ~AtLineEnd(text, i) /\ u(i) = character
        BY <1>1, <1>8, <1>9, <1>11, <2>4, <3>3
      <4>2. f[k + 1] = Stopped(u(i), (k + 1) - 1)
        BY <1>8, <2>2, <3>1, <3>3, <4>1, ColumnTurns
      <4>3. f[k + 1] = last
        BY <1>1, <2>1, <2>4, <4>1, <4>2
      <4> QED BY <1>1, <2>1, <2>4, <4>3
    <3> QED BY <3>2, <3>3
  <2>5. CASE k > i
    <3>1. f[k] = last
      BY <1>1, <1>11, <2>5
    <3>2. f[k + 1] = last
      <4>1. \A a : ColumnTurn(text, character, k + 1, Stopped(u(i), a)) = Stopped(u(i), a)
        BY Zenon DEF ColumnTurn, Stopped
      <4> QED BY <2>2, <3>1, <4>1
    <3> HIDE DEF last
    <3> QED BY <1>1, <2>1, <2>5, <3>2
  <2> QED BY <1>1, <2>3, <2>4, <2>5
<1>12. n \in S
  <2> HIDE DEF S
  <2>1. \A k \in s..n : k \in S
    BY <1>1, <1>10, <1>11, InductFrom
  <2> QED BY <1>1, <2>1
<1>13. f[n].col = u(i) /\ f[n].at = IF AtLineEnd(text, i) THEN Fail ELSE i
  <2>1. CASE n = i
    <3>1. f[n] = Going(u(i)) /\ AtLineEnd(text, i)
      BY <1>1, <1>9, <1>12, <2>1
    <3> QED BY <3>1 DEF Going
  <2>2. CASE n # i
    <3>1. f[n] = last
      BY <1>1, <1>12, <2>2
    <3> QED BY <3>1 DEF Stopped
  <2> QED BY <2>1, <2>2
<1> QED BY <1>3, <1>13 DEF n, u

\* The line that offset i is on ends at i when the rune after it is a line break, or
\* there is none.
LEMMA LineEnds ==
    ASSUME NEW text \in Seq(Runes), NEW i \in 0..Len(text), NEW s, StartsLine(text, s, i),
           AtLineEnd(text, i)
    PROVE  LineEnd(text, s) = i
<1> DEFINE n == Len(text)
           Ends(e) == (\A j \in s + 1..e : text[j] # Newline) /\ (e = n \/ text[e + 1] = Newline)
<1>1. n \in Nat /\ s \in 0..i /\ i \in s..n
  BY DEF StartsLine
<1>2. Ends(i)
  BY DEF StartsLine, AtLineEnd
<1>3. ASSUME NEW e \in s..n, Ends(e)
      PROVE  e = i
  <2> HIDE DEF n
  <2>1. CASE e < i
    <3>1. e + 1 \in s + 1..i /\ e # n
      BY <1>1, <2>1
    <3> QED BY <1>2, <1>3, <3>1
  <2>2. CASE e > i
    <3>1. i + 1 \in s + 1..e /\ i # n
      BY <1>1, <2>2
    <3> QED BY <1>2, <1>3, <3>1
  <2> QED BY <1>1, <2>1, <2>2
<1>4. LineEnd(text, s) = CHOOSE e \in s..n : Ends(e)
  BY DEF LineEnd
<1> HIDE DEF n, Ends
<1> QED BY <1>1, <1>2, <1>3, <1>4

\* The two parts of a position.
LEMMA PositionParts ==
    ASSUME NEW text, NEW i
    PROVE  /\ PositionOf(text, i).line = Cardinality(Breaks(text, i))
           /\ PositionOf(text, i).character = Units(text, LineStart(text, i), i)
BY DEF PositionOf, Breaks, LineStart, Units, Wides

\* byteOffsetForUTF16Position undoes PositionOf, and refuses a character past the end of
\* its line.
LEMMA OffsetFound ==
    ASSUME NEW text \in Seq(Runes), NEW i \in 0..Len(text)
    PROVE  LET p == PositionOf(text, i)
           IN /\ byteOffsetForUTF16Position(text, p.line, p.character) = i
              /\ AtLineEnd(text, i) =>
                    byteOffsetForUTF16Position(text, p.line, p.character + 1) = Fail
<1> DEFINE s == LineStart(text, i)
           line == Cardinality(Breaks(text, i))
           u == Units(text, s, i)
<1>1. StartsLine(text, s, i)
  BY LineStarts
<1>2. s \in 0..Len(text) /\ i \in s..Len(text) /\ Len(text) \in Nat
  BY <1>1 DEF StartsLine
<1>3. PositionOf(text, i).line = line /\ PositionOf(text, i).character = u
  BY PositionParts
<1> HIDE DEF s
<1>4. FindLine(text, line).current = line /\ FindLine(text, line).start = s
  BY <1>1, LineFound
<1>5. u \in Nat
  BY <1>2, UnitsCount
<1>6. /\ FindColumn(text, s, u).col = u
      /\ FindColumn(text, s, u).at = IF AtLineEnd(text, i) THEN Fail ELSE i
  BY <1>1, <1>5, ColumnFound
<1>7. AtLineEnd(text, i) =>
        FindColumn(text, s, u + 1).col = u /\ FindColumn(text, s, u + 1).at = Fail
  BY <1>1, <1>5, ColumnFound
<1> HIDE DEF line, u
<1>8. byteOffsetForUTF16Position(text, line, u) = i
  <2>1. CASE AtLineEnd(text, i)
    <3>1. LineEnd(text, s) = i
      BY <1>1, <2>1, LineEnds
    <3> QED BY <1>4, <1>6, <2>1, <3>1 DEF byteOffsetForUTF16Position
  <2>2. CASE ~AtLineEnd(text, i)
    BY <1>2, <1>4, <1>6, <2>2 DEF byteOffsetForUTF16Position, Fail
  <2> QED BY <2>1, <2>2
<1>9. AtLineEnd(text, i) => byteOffsetForUTF16Position(text, line, u + 1) = Fail
  BY <1>4, <1>5, <1>7 DEF byteOffsetForUTF16Position
<1> QED BY <1>3, <1>8, <1>9

-----------------------------------------------------------------------------
(* One change. *)

Applied(text) == [text |-> text, ok |-> TRUE]
Refused(text) == [text |-> text, ok |-> FALSE]

\* A full text replaces the document.
LEMMA FullChange ==
    ASSUME NEW text, NEW t, NEW e, e = [full |-> TRUE, text |-> t]
    PROVE  /\ ApplyChange(text, ChangeOf(text, e)) = Applied(Splice(text, e))
           /\ Splice(text, e) = t /\ ~Overshoots(e)
BY Zenon DEF ApplyChange, ChangeOf, Splice, Overshoots, Applied

\* A range is spliced, or refused when its end lies past the end of its line.
LEMMA RangeChange ==
    ASSUME NEW text \in Seq(Runes), NEW from \in 0..Len(text), NEW to \in 0..Len(text),
           from <= to, NEW t \in Seq(Runes), NEW over \in BOOLEAN, over => AtLineEnd(text, to),
           NEW e, e = [full |-> FALSE, from |-> from, to |-> to, text |-> t, overshoot |-> over]
    PROVE  /\ ApplyChange(text, ChangeOf(text, e)) =
                IF Overshoots(e) THEN Refused(text) ELSE Applied(Splice(text, e))
           /\ Splice(text, e) \in Seq(Runes)
<1> DEFINE ch == ChangeOf(text, e)
           p == PositionOf(text, from)
           q == PositionOf(text, to)
           spliced == SubSeq(text, 1, from) \o t \o SubSeq(text, to + 1, Len(text))
<1>1. /\ ~e.full /\ e.from = from /\ e.to = to /\ e.text = t
      /\ e.overshoot <=> over
  BY Zenon
<1>2. Splice(text, e) = spliced
  BY <1>1 DEF Splice
<1>3. spliced \in Seq(Runes)
  <2>1. Len(text) \in Nat
    OBVIOUS
  <2>2. SubSeq(text, 1, from) \in Seq(Runes)
    BY <2>1, SubSeqProperties
  <2>3. SubSeq(text, to + 1, Len(text)) \in Seq(Runes)
    BY <2>1, SubSeqProperties
  <2> QED BY <2>2, <2>3, ConcatProperties
<1>4. Overshoots(e) <=> over
  BY <1>1 DEF Overshoots
<1>5. ~ch.full /\ ch.text = t /\ ch.start = p
  BY <1>1, Zenon DEF ChangeOf
<1>6. ch.end = IF over THEN [q EXCEPT !.character = @ + 1] ELSE q
  BY <1>1, Zenon DEF ChangeOf
<1>7. q.line = Cardinality(Breaks(text, to)) /\ q = [line |-> q.line, character |-> q.character]
  BY DEF PositionOf, Breaks
<1>8. byteOffsetForUTF16Position(text, p.line, p.character) = from
  BY OffsetFound
<1>9. byteOffsetForUTF16Position(text, q.line, q.character) = to
  BY OffsetFound
<1>10. over => byteOffsetForUTF16Position(text, q.line, q.character + 1) = Fail
  BY OffsetFound
<1> HIDE DEF ch, p, q, spliced
<1>11. CASE over
  <2>1. ch.end.line = q.line /\ ch.end.character = q.character + 1
    BY <1>6, <1>7, <1>11
  <2>2. byteOffsetForUTF16Position(text, ch.end.line, ch.end.character) = Fail
    BY <1>10, <1>11, <2>1
  <2>3. ApplyChange(text, ch) = Refused(text)
    BY <1>5, <2>2, Zenon DEF ApplyChange, Refused
  <2> QED BY <1>2, <1>3, <1>4, <1>11, <2>3 DEF ch
<1>12. CASE ~over
  <2>1. ch.end = q
    BY <1>6, <1>12
  <2>2. from # Fail /\ to # Fail /\ ~(to < from)
    BY DEF Fail
  <2>3. ApplyChange(text, ch) = Applied(SubSeq(text, 1, from) \o t \o SubSeq(text, to + 1, Len(text)))
    BY <1>5, <1>8, <1>9, <2>1, <2>2, Zenon DEF ApplyChange, Applied
  <2> QED BY <1>2, <1>3, <1>4, <1>12, <2>3 DEF ch, spliced
<1> QED BY <1>11, <1>12

\* What an edit of a text does to it, and what its change does to the proxy's copy.
LEMMA ChangeAgrees ==
    ASSUME NEW text \in Seq(Runes), NEW ins \in SUBSET Seq(Runes), NEW e \in EditsOf(text, ins)
    PROVE  /\ ApplyChange(text, ChangeOf(text, e)) =
                IF Overshoots(e) THEN Refused(text) ELSE Applied(Splice(text, e))
           /\ Splice(text, e) \in Seq(Runes)
<1>1. CASE \E t \in ins : e = [full |-> TRUE, text |-> t]
  <2>1. PICK t \in ins : e = [full |-> TRUE, text |-> t]
    BY <1>1
  <2>2. /\ ApplyChange(text, ChangeOf(text, e)) = Applied(Splice(text, e))
        /\ Splice(text, e) = t /\ ~Overshoots(e)
    BY <2>1, FullChange
  <2> QED BY <2>2
<1>2. ASSUME e \in [full : {FALSE}, from : 0..Len(text), to : 0..Len(text), text : ins,
                    overshoot : BOOLEAN],
             e.from <= e.to, e.overshoot => AtLineEnd(text, e.to)
      PROVE  /\ ApplyChange(text, ChangeOf(text, e)) =
                    IF Overshoots(e) THEN Refused(text) ELSE Applied(Splice(text, e))
             /\ Splice(text, e) \in Seq(Runes)
  <2>1. /\ e = [full |-> e.full, from |-> e.from, to |-> e.to, text |-> e.text,
                overshoot |-> e.overshoot]
        /\ e.full = FALSE /\ e.from \in 0..Len(text) /\ e.to \in 0..Len(text)
        /\ e.text \in ins /\ e.overshoot \in BOOLEAN
    BY <1>2, Zenon
  <2>2. e = [full |-> FALSE, from |-> e.from, to |-> e.to, text |-> e.text,
             overshoot |-> e.overshoot]
    BY <2>1, Zenon
  <2>3. e.text \in Seq(Runes)
    BY <2>1
  <2> QED BY <1>2, <2>1, <2>2, <2>3, RangeChange
<1> QED BY <1>1, <1>2 DEF EditsOf

-----------------------------------------------------------------------------
(* A batch of changes. *)

ChangeLoop(f, text, changes) ==
    f = [i \in 0..Len(changes) |->
            IF i = 0 THEN [text |-> text, ok |-> TRUE]
            ELSE IF f[i - 1].ok THEN ApplyChange(f[i - 1].text, changes[i])
            ELSE f[i - 1]]

\* A turn of the loop over the changes.
LEMMA ChangeTurn ==
    ASSUME NEW t, NEW ch
    PROVE  /\ (IF Applied(t).ok THEN ApplyChange(Applied(t).text, ch) ELSE Applied(t)) = ApplyChange(t, ch)
           /\ (IF Refused(t).ok THEN ApplyChange(Refused(t).text, ch) ELSE Refused(t)) = Refused(t)
<1>1. Applied(t).ok /\ Applied(t).text = t /\ ~Refused(t).ok
  BY Zenon DEF Applied, Refused
<1> QED BY <1>1, Zenon

\* The first of a number of conditions that fails, if one does.
LEMMA FirstFailure ==
    ASSUME NEW n \in Nat, NEW Bad \in SUBSET (1..n)
    PROVE  \E b \in 1..n + 1 : (b <= n => b \in Bad) /\ \A k \in 1..n : k < b => k \notin Bad
<1> DEFINE S == {m \in 0..n : \/ \A k \in 1..m : k \notin Bad
                              \/ \E b \in 1..n : b \in Bad /\ \A k \in 1..n : k < b => k \notin Bad}
<1>1. 0 \in S
  OBVIOUS
<1>2. ASSUME NEW m \in 0..n, m \in S, m < n
      PROVE  m + 1 \in S
  <2>1. CASE \E b \in 1..n : b \in Bad /\ \A k \in 1..n : k < b => k \notin Bad
    BY <1>2, <2>1
  <2>2. CASE (\A k \in 1..m : k \notin Bad) /\ m + 1 \in Bad
    <3>1. m + 1 \in 1..n /\ \A k \in 1..n : k < m + 1 => k \notin Bad
      BY <1>2, <2>2
    <3> QED BY <1>2, <2>2, <3>1
  <2>3. CASE (\A k \in 1..m : k \notin Bad) /\ m + 1 \notin Bad
    BY <1>2, <2>3
  <2> QED BY <1>2, <2>1, <2>2, <2>3
<1>3. n \in S
  <2> HIDE DEF S
  <2>1. \A m \in 0..n : m \in S
    BY <1>1, <1>2, InductFrom
  <2> QED BY <2>1
<1>4. CASE \A k \in 1..n : k \notin Bad
  <2>1. n + 1 \in 1..n + 1 /\ ~(n + 1 <= n)
    OBVIOUS
  <2> QED BY <1>4, <2>1
<1>5. CASE \E b \in 1..n : b \in Bad /\ \A k \in 1..n : k < b => k \notin Bad
  BY <1>5
<1> QED BY <1>3, <1>4, <1>5

\* The change b is the first that is refused, or there is none and b is n + 1.
FirstRefused(ts, changes, n, b) ==
    /\ \A k \in 1..n : k < b => ApplyChange(ts[k - 1], changes[k]) = Applied(ts[k])
    /\ b <= n => ApplyChange(ts[b - 1], changes[b]) = Refused(ts[b - 1])
Outcome(ts, n, b) == IF n < b THEN Applied(ts[n]) ELSE Refused(ts[b - 1])

\* The loop over the changes: the editor's texts up to the first position past the end of
\* its line, and from then on the text before it.
LEMMA ChangeLoopValues ==
    ASSUME NEW n \in Nat, NEW ts \in [0..n -> Seq(Runes)], NEW changes, Len(changes) = n,
           NEW b \in 1..n + 1, FirstRefused(ts, changes, n, b)
    PROVE  applyContentChanges(ts[0], changes) = Outcome(ts, n, b)
<1> USE DEF FirstRefused
<1> DEFINE g == [i \in 0..n |-> IF i < b THEN Applied(ts[i]) ELSE Refused(ts[b - 1])]
           Turn(s, i) == IF s.ok THEN ApplyChange(s.text, changes[i]) ELSE s
           f == CHOOSE h : ChangeLoop(h, ts[0], changes)
<1>1. \A t, i : Turn(Applied(t), i) = ApplyChange(t, changes[i]) /\ Turn(Refused(t), i) = Refused(t)
  BY ChangeTurn, Zenon
<1>2. \A h : ChangeLoop(h, ts[0], changes) <=>
                h = [i \in 0..n |-> IF i = 0 THEN Applied(ts[0]) ELSE Turn(h[i - 1], i)]
  BY Zenon DEF ChangeLoop, Applied
<1> HIDE DEF Turn
<1>3. ASSUME NEW i \in 0..n, i # 0
      PROVE  g[i] = Turn(g[i - 1], i)
  <2>1. i - 1 \in 0..n /\ i \in 1..n
    BY <1>3
  <2>2. CASE i < b
    <3>1. g[i] = Applied(ts[i]) /\ g[i - 1] = Applied(ts[i - 1])
      BY <2>1, <2>2
    <3> QED BY <1>1, <2>1, <2>2, <3>1
  <2>3. CASE i = b
    <3>1. g[i] = Refused(ts[b - 1]) /\ g[i - 1] = Applied(ts[b - 1])
      BY <2>1, <2>3
    <3>2. b <= n
      BY <2>1, <2>3
    <3>3. ApplyChange(ts[b - 1], changes[b]) = Refused(ts[b - 1])
      BY <3>2
    <3>4. Turn(Applied(ts[b - 1]), b) = ApplyChange(ts[b - 1], changes[b])
      BY <1>1, Zenon
    <3> QED BY <2>3, <3>1, <3>3, <3>4
  <2>4. CASE i > b
    <3>1. g[i] = Refused(ts[b - 1]) /\ g[i - 1] = Refused(ts[b - 1])
      BY <2>1, <2>4
    <3> QED BY <1>1, <3>1
  <2> QED BY <2>2, <2>3, <2>4
<1>4. g[0] = Applied(ts[0])
  OBVIOUS
<1>5. g[n] = Outcome(ts, n, b)
  BY DEF Outcome
<1>6. g = [i \in 0..n |-> g[i]]
  OBVIOUS
<1> HIDE DEF g
<1>7. ChangeLoop(g, ts[0], changes)
  <2> DEFINE h == [i \in 0..n |-> IF i = 0 THEN Applied(ts[0]) ELSE Turn(g[i - 1], i)]
  <2>1. \A i \in 0..n : g[i] = h[i]
    BY <1>3, <1>4
  <2>2. g = h
    <3> HIDE DEF h
    <3>1. h = [i \in 0..n |-> h[i]]
      BY DEF h
    <3> QED BY <1>6, <2>1, <3>1
  <2> QED BY <1>2, <2>2, Zenon
<1>8. ChangeLoop(f, ts[0], changes)
  BY <1>7
<1>9. applyContentChanges(ts[0], changes) = f[n]
  BY DEF applyContentChanges, ChangeLoop
<1> HIDE DEF f
<1>10. f[0] = Applied(ts[0]) /\ \A i \in 0..n : i # 0 => f[i] = Turn(f[i - 1], i)
  BY <1>2, <1>8
<1> DEFINE S == {i \in 0..n : f[i] = g[i]}
<1>11. 0 \in S
  BY <1>4, <1>10
<1>12. ASSUME NEW i \in 0..n, i \in S, i < n
       PROVE  i + 1 \in S
  <2>1. i + 1 \in 0..n /\ i + 1 # 0 /\ (i + 1) - 1 = i
    BY <1>12
  <2>2. f[i + 1] = Turn(f[i], i + 1) /\ g[i + 1] = Turn(g[i], i + 1)
    BY <1>3, <1>10, <2>1
  <2> QED BY <1>12, <2>1, <2>2
<1>13. f[n] = g[n]
  <2>1. 0 \in Nat /\ 0 <= n /\ n \in 0..n
    OBVIOUS
  <2>2. \A i \in 0..n : i \in S
    <3> HIDE DEF S
    <3> QED BY <1>11, <1>12, <2>1, InductFrom
  <2>3. n \in S
    BY <2>1, <2>2
  <2> QED BY <2>3
<1> QED BY <1>5, <1>9, <1>13

\* The edits es take the editor through the texts ts, and changes announces them.
Edited(ts, es, ins, n) ==
    /\ ts \in [0..n -> Seq(Runes)]
    /\ \A k \in 1..n : es[k] \in EditsOf(ts[k - 1], ins) /\ ts[k] = Splice(ts[k - 1], es[k])
Announced(changes, ts, es, n) ==
    Len(changes) = n /\ \A k \in 1..n : changes[k] = ChangeOf(ts[k - 1], es[k])

\* applyContentChanges refuses the batch exactly when one of its positions lies past the end
\* of its line, and otherwise computes the editor's text after the last edit.
BatchRight(changes, ts, es, n) ==
    LET got == applyContentChanges(ts[0], changes)
    IN /\ got.ok <=> \A k \in 1..n : ~Overshoots(es[k])
       /\ got.ok => got.text = ts[n]

\* A batch of any number of changes, of texts of any length: applyContentChanges refuses it
\* exactly when one of its positions lies past the end of its line, and otherwise computes
\* the text the editor has after the last of its edits (ts[k] is its text after k of them).
THEOREM BatchesAgree ==
    ASSUME NEW ins \in SUBSET Seq(Runes), NEW n \in Nat, NEW ts, NEW es, Edited(ts, es, ins, n),
           NEW changes, Announced(changes, ts, es, n)
    PROVE  BatchRight(changes, ts, es, n)
<1> DEFINE Bad == {k \in 1..n : Overshoots(es[k])}
<1>1. PICK b \in 1..n + 1 : (b <= n => b \in Bad) /\ \A k \in 1..n : k < b => k \notin Bad
  <2> HIDE DEF Bad
  <2>1. Bad \in SUBSET (1..n)
    BY DEF Bad
  <2> QED BY <2>1, FirstFailure
<1>2. ASSUME NEW k \in 1..n
      PROVE  ApplyChange(ts[k - 1], changes[k]) =
                IF Overshoots(es[k]) THEN Refused(ts[k - 1]) ELSE Applied(ts[k])
  <2>1. /\ ts[k - 1] \in Seq(Runes) /\ es[k] \in EditsOf(ts[k - 1], ins)
        /\ ts[k] = Splice(ts[k - 1], es[k]) /\ changes[k] = ChangeOf(ts[k - 1], es[k])
    BY DEF Edited, Announced
  <2> QED BY <2>1, ChangeAgrees
<1>3. \A k \in 1..n : k < b => ApplyChange(ts[k - 1], changes[k]) = Applied(ts[k])
  BY <1>1, <1>2
<1>4. b <= n => ApplyChange(ts[b - 1], changes[b]) = Refused(ts[b - 1])
  BY <1>1, <1>2
<1>5. applyContentChanges(ts[0], changes) = Outcome(ts, n, b)
  <2>1. ts \in [0..n -> Seq(Runes)] /\ Len(changes) = n
    BY DEF Edited, Announced
  <2>2. FirstRefused(ts, changes, n, b)
    BY <1>3, <1>4, Zenon DEF FirstRefused
  <2> QED BY <2>1, <2>2, ChangeLoopValues, Zenon
<1>6. \A t : Applied(t).ok /\ Applied(t).text = t /\ ~Refused(t).ok
  BY Zenon DEF Applied, Refused
<1>7. CASE n < b
  <2>1. \A k \in 1..n : ~Overshoots(es[k])
    BY <1>1, <1>7
  <2>2. applyContentChanges(ts[0], changes) = Applied(ts[n])
    BY <1>5, <1>7 DEF Outcome
  <2> QED BY <1>6, <2>1, <2>2, Zenon DEF BatchRight
<1>8. CASE ~(n < b)
  <2>1. b \in 1..n /\ Overshoots(es[b])
    BY <1>1, <1>8
  <2>2. applyContentChanges(ts[0], changes) = Refused(ts[b - 1])
    BY <1>5, <1>8 DEF Outcome
  <2> QED BY <1>6, <2>1, <2>2, Zenon DEF BatchRight
<1> QED BY <1>7, <1>8

\* The instance that the runs check: batches of two edits.
THEOREM EditsRight == Spec => []EditsAgree
<1>1. EditsAgree
  <2> SUFFICES ASSUME NEW text \in Texts(EditLen), NEW e \in EditsOf(text, Inserts),
                      NEW f \in EditsOf(Splice(text, e), Inserts)
               PROVE  LET once == Splice(text, e)
                          got == applyContentChanges(text, <<ChangeOf(text, e), ChangeOf(once, f)>>)
                      IN /\ got.ok <=> ~(Overshoots(e) \/ Overshoots(f))
                         /\ got.ok => got.text = Splice(once, f)
    BY DEF EditsAgree
  <2> DEFINE once == Splice(text, e)
             ts == [k \in 0..2 |-> IF k = 0 THEN text ELSE IF k = 1 THEN once ELSE Splice(once, f)]
             es == <<e, f>>
             changes == <<ChangeOf(text, e), ChangeOf(once, f)>>
  <2>1. text \in Seq(Runes) /\ Inserts \in SUBSET Seq(Runes)
    <3>1. PICK m \in 0..EditLen : text \in [1..m -> Runes]
      BY DEF Texts, BoundedSeq, SeqOf
    <3>2. m \in Nat
      BY MirrorAssumption DEF MirrorAssumption
    <3> QED BY MirrorAssumption, <3>1, <3>2 DEF MirrorAssumption
  <2>2. once \in Seq(Runes)
    BY <2>1, ChangeAgrees
  <2>3. Splice(once, f) \in Seq(Runes)
    BY <2>1, <2>2, ChangeAgrees
  <2>4. ts \in [0..2 -> Seq(Runes)] /\ ts[0] = text /\ ts[1] = once /\ ts[2] = Splice(once, f)
    BY <2>1, <2>2, <2>3
  <2>5. es[1] = e /\ es[2] = f /\ Len(changes) = 2
        /\ changes[1] = ChangeOf(text, e) /\ changes[2] = ChangeOf(once, f)
    OBVIOUS
  <2> HIDE DEF ts, es, changes, once
  <2>6. \A k \in 1..2 : /\ es[k] \in EditsOf(ts[k - 1], Inserts) /\ ts[k] = Splice(ts[k - 1], es[k])
                        /\ changes[k] = ChangeOf(ts[k - 1], es[k])
    <3> SUFFICES ASSUME NEW k \in 1..2
                 PROVE  /\ es[k] \in EditsOf(ts[k - 1], Inserts) /\ ts[k] = Splice(ts[k - 1], es[k])
                        /\ changes[k] = ChangeOf(ts[k - 1], es[k])
      OBVIOUS
    <3>1. CASE k = 1
      BY <2>4, <2>5, <3>1 DEF once
    <3>2. CASE k = 2
      BY <2>4, <2>5, <3>2 DEF once
    <3> QED BY <3>1, <3>2
  <2> DEFINE got == applyContentChanges(ts[0], changes)
  <2>7. /\ got.ok <=> \A k \in 1..2 : ~Overshoots(es[k])
        /\ got.ok => got.text = ts[2]
    <3> DEFINE n == 2
    <3>1. Edited(ts, es, Inserts, n) /\ Announced(changes, ts, es, n) /\ n \in Nat
      BY <2>4, <2>5, <2>6 DEF Edited, Announced
    <3> HIDE DEF n
    <3>2. BatchRight(changes, ts, es, n)
      BY <2>1, <3>1, BatchesAgree, Zenon
    <3> QED BY <3>2, Zenon DEF n, BatchRight
  <2>8. (\A k \in 1..2 : ~Overshoots(es[k])) <=> ~(Overshoots(e) \/ Overshoots(f))
    BY <2>5
  <2> QED BY <2>4, <2>7, <2>8 DEF once, changes
<1> QED BY <1>1, PTL
=============================================================================
