--------------------------- MODULE MCWorkerMirror ---------------------------
(* The texts the edits of EditsAgree insert. *)
EXTENDS WorkerMirror

InsertedTexts == {<<>>, <<Wide>>, <<Narrow, Newline>>}
=============================================================================
