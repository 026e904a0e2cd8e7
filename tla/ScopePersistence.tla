-------------------------- MODULE ScopePersistence --------------------------
(***************************************************************************)
(* The scope file (scope.go): every pushScope starts a saveScope goroutine *)
(* that writes the units to a temporary file and renames it into place,    *)
(* and the next session restores them.  All goroutines use the same        *)
(* temporary name.                                                         *)
(*                                                                         *)
(* A step is one critical section of proxy.mu or one system call, and the  *)
(* proxy may die between any two.  The file system is inodes: opening an   *)
(* existing file truncates the inode its name has, and a rename moves the  *)
(* name while writers keep the inode they opened.                          *)
(***************************************************************************)
EXTENDS Integers, FiniteSets

CONSTANTS
    Units,      \* directory units
    Savers,     \* saveScope goroutines that may be running
    MaxChange   \* bound on the changes of the scope in a session

ASSUME PersistenceAssumption ==
    /\ IsFiniteSet(Units) /\ IsFiniteSet(Savers)
    /\ MaxChange \in Nat

\* One inode per writer, one under the final name, one to create.
Inodes == 1..Cardinality(Savers) + 2
NoInode == 0
Empty == [units |-> {}, length |-> 0]
Garbled == {"garbled"}   \* what is left of two JSON texts one over the other

VARIABLES
    scope,     \* proxy.scope of the running session
    changes,   \* changes of it in this session
    saver,     \* per goroutine: where saveScope is
    tmp,       \* the inode of the temporary name
    path,      \* the inode of the scope file
    content,   \* per inode: the units written and the length of the file
    dirs,      \* units whose directory exists
    begun,     \* the scopes that saveScope has begun to save (history)
    finished,  \* the scope whose save finished last (history)
    overlap    \* two saves have run at the same time (history)

files == <<tmp, path, content>>
history == <<begun, finished, overlap>>
vars == <<scope, changes, saver, files, dirs, history>>

Resting == [pc |-> "none", units |-> {}, inode |-> NoInode]

Init ==
    /\ scope = {} /\ changes = 0
    /\ saver = [s \in Savers |-> Resting]
    /\ tmp = NoInode /\ path = NoInode
    /\ content = [i \in Inodes |-> Empty]
    /\ dirs = Units
    /\ begun = {} /\ finished = {} /\ overlap = FALSE

-----------------------------------------------------------------------------
(* The session. *)

\* Files are opened and units evicted.
ChangeScope ==
    /\ changes < MaxChange
    /\ changes' = changes + 1
    /\ \E s \in (SUBSET Units) \ {scope} : scope' = s
    /\ UNCHANGED <<saver, files, dirs, history>>

\* pushScope ends by starting a saveScope goroutine.
PushScope(s) ==
    /\ saver[s].pc = "none"
    /\ saver' = [saver EXCEPT ![s].pc = "start"]
    /\ UNCHANGED <<scope, changes, files, dirs, history>>

RemoveDir(u) ==
    /\ u \in dirs
    /\ dirs' = dirs \ {u}
    /\ UNCHANGED <<scope, changes, saver, files, history>>

-----------------------------------------------------------------------------
(* saveScope. *)

Saving(s) == saver[s].pc \in {"open", "write", "rename"}

\* The snapshot under proxy.mu; an empty scope is not saved.
SaveSnapshot(s) ==
    /\ saver[s].pc = "start"
    /\ IF scope = {}
       THEN saver' = [saver EXCEPT ![s] = Resting] /\ UNCHANGED history
       ELSE /\ saver' = [saver EXCEPT ![s].pc = "open", ![s].units = scope]
            /\ begun' = begun \cup {scope}
            /\ overlap' = (overlap \/ \E q \in Savers : Saving(q))
            /\ UNCHANGED finished
    /\ UNCHANGED <<scope, changes, files, dirs>>

InUse == {tmp, path} \cup {saver[q].inode : q \in Savers}
NewInode == CHOOSE i \in Inodes : i \notin InUse

\* Mutant: the scope file is written in place.
SaveOpenInPlace(s) ==
    LET i == IF path = NoInode THEN NewInode ELSE path
    IN /\ saver[s].pc = "open"
       /\ path' = i
       /\ content' = [content EXCEPT ![i] = Empty]
       /\ saver' = [saver EXCEPT ![s].pc = "write", ![s].inode = i]
       /\ UNCHANGED <<scope, changes, tmp, dirs, history>>

\* os.WriteFile: open, creating or truncating, then write from the start.
SaveOpen(s) ==
    LET i == IF tmp = NoInode THEN NewInode ELSE tmp
    IN /\ saver[s].pc = "open"
       /\ tmp' = i
       /\ content' = [content EXCEPT ![i] = Empty]
       /\ saver' = [saver EXCEPT ![s].pc = "write", ![s].inode = i]
       /\ UNCHANGED <<scope, changes, path, dirs, history>>

\* A shorter text over a longer one leaves the longer one's tail, which the JSON
\* decoder refuses.  The length of a text is taken as its number of units.
WriteOver(old, units) ==
    IF Cardinality(units) >= old.length
    THEN [units |-> units, length |-> Cardinality(units)]
    ELSE [old EXCEPT !.units = Garbled]

SaveWrite(s) ==
    /\ saver[s].pc = "write"
    /\ content' = [content EXCEPT ![saver[s].inode] = WriteOver(@, saver[s].units)]
    /\ saver' = [saver EXCEPT ![s].pc = "rename", ![s].inode = NoInode]
    /\ UNCHANGED <<scope, changes, tmp, path, dirs, history>>

\* MkdirAll or WriteFile fails: nothing, or a part of the text, is in the file.
SaveFails(s) ==
    /\ saver[s].pc \in {"open", "write"}
    /\ IF saver[s].pc = "open" THEN UNCHANGED content
       ELSE \E c \in {Empty, [units |-> Garbled, length |-> 1]} :
                content' = [content EXCEPT ![saver[s].inode] = c]
    /\ saver' = [saver EXCEPT ![s] = Resting]
    /\ UNCHANGED <<scope, changes, tmp, path, dirs, history>>

\* os.Rename: another save may have taken the temporary file away; then there is
\* nothing to remove either.
SaveRename(s) ==
    /\ saver[s].pc = "rename"
    /\ IF tmp = NoInode THEN UNCHANGED <<tmp, path>> ELSE path' = tmp /\ tmp' = NoInode
    /\ finished' = saver[s].units
    /\ saver' = [saver EXCEPT ![s] = Resting]
    /\ UNCHANGED <<scope, changes, content, dirs, begun, overlap>>

\* The rename itself fails, and the temporary file is removed.
RenameFails(s) ==
    /\ saver[s].pc = "rename"
    /\ tmp' = NoInode
    /\ saver' = [saver EXCEPT ![s] = Resting]
    /\ UNCHANGED <<scope, changes, path, content, dirs, history>>

-----------------------------------------------------------------------------
\* Mutant: the units of the file are restored as they are.
RestoredUnchecked == IF path = NoInode THEN {} ELSE content[path].units

\* restoreScope: the units of a file that decodes, as far as their directories
\* still exist.
Restored ==
    IF path = NoInode \/ content[path].units = Garbled THEN {} ELSE content[path].units \cap dirs

\* The proxy ends, at any moment, and starts again.
Restart ==
    /\ saver' = [s \in Savers |-> Resting]
    /\ scope' = Restored
    /\ changes' = 0
    /\ UNCHANGED <<files, dirs, history>>

Next ==
    \/ ChangeScope \/ Restart
    \/ \E u \in Units : RemoveDir(u)
    \/ \E s \in Savers :
        PushScope(s) \/ SaveSnapshot(s) \/ SaveOpen(s) \/ SaveWrite(s) \/ SaveRename(s)
        \/ SaveFails(s) \/ RenameFails(s)

Spec == Init /\ [][Next]_vars

-----------------------------------------------------------------------------
(* Properties. *)

\* As long as saves have not overlapped, the scope file holds, at every moment and
\* so after every crash, all of the scope whose save finished last.
ScopeFileWhole ==
    ~overlap /\ finished # {} => path # NoInode /\ content[path].units = finished

\* Even when saves overlap and the proxy dies among them, a session starts with
\* nothing or with one scope of the past, never with a mixture, and without the
\* directories that are gone, which gopls would refuse.
RestoresOneScope ==
    [][Restart => \E s \in begun \cup {{}} : scope' \in {{}, s \cap dirs}]_vars
=============================================================================
