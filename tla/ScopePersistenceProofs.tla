----------------------- MODULE ScopePersistenceProofs -----------------------
(***************************************************************************)
(* Proofs about ScopePersistence, for any finite sets of units and         *)
(* goroutines: saves that do not overlap leave the file whole at every     *)
(* moment, and whatever overlaps, fails or crashes, a session restores one *)
(* scope of the past or nothing.                                           *)
(***************************************************************************)
EXTENDS ScopePersistence, FiniteSetTheorems, TLAPS

SaverType ==
    [pc : {"none", "start", "open", "write", "rename"}, units : SUBSET Units,
     inode : Inodes \cup {NoInode}]
ContentType == [units : (SUBSET Units) \cup {Garbled}, length : Nat]

Typed ==
    /\ scope \in SUBSET Units
    /\ saver \in [Savers -> SaverType]
    /\ tmp \in Inodes \cup {NoInode} /\ path \in Inodes \cup {NoInode}
    /\ content \in [Inodes -> ContentType]
    /\ overlap \in BOOLEAN

\* A writer has an inode, and the two names never share one.
NamesApart ==
    /\ \A s \in Savers : saver[s].pc = "write" => saver[s].inode \in Inodes
    /\ tmp # NoInode => tmp # path

\* Nothing is ever written but a scope that a save began with, or a part of a text.
ContentBegun ==
    /\ \A s \in Savers : Saving(s) => saver[s].units \in begun
    /\ \A i \in Inodes : content[i].units \in begun \cup {{}, Garbled}

\* Without overlap there is one save at a time, and the temporary file is its own:
\* empty when it writes, and whole when it renames.
SaveAlone ==
    ~overlap =>
        /\ \A s, q \in Savers : Saving(s) /\ Saving(q) => s = q
        /\ \A s \in Savers :
            /\ saver[s].pc = "write" => saver[s].inode = tmp /\ content[tmp] = Empty
            /\ saver[s].pc = "rename" => tmp # NoInode /\ content[tmp].units = saver[s].units

PersistInv == Typed /\ NamesApart /\ ContentBegun /\ SaveAlone /\ ScopeFileWhole

-----------------------------------------------------------------------------
\* There is an inode to create a file with.
LEMMA NewInodeFree ==
    ASSUME Typed, tmp = NoInode
    PROVE  NewInode \in Inodes /\ NewInode \notin InUse
<1> DEFINE inodeOf == [q \in Savers |-> saver[q].inode]
           used == {saver[q].inode : q \in Savers}
<1>1. IsFiniteSet(Savers) /\ Cardinality(Savers) \in Nat
  BY PersistenceAssumption, FS_CardinalityType
<1>2. inodeOf \in Surjection(Savers, used)
  <2>1. inodeOf \in [Savers -> used]
    OBVIOUS
  <2>2. \A i \in used : \E q \in Savers : inodeOf[q] = i
    OBVIOUS
  <2> HIDE DEF inodeOf, used
  <2> QED BY <2>1, <2>2 DEF Surjection
<1>3. IsFiniteSet(used) /\ Cardinality(used) <= Cardinality(Savers)
  BY <1>1, <1>2, FS_Surjection
<1> HIDE DEF inodeOf, used
<1>4. IsFiniteSet(used \cup {path}) /\ Cardinality(used \cup {path}) <= Cardinality(Savers) + 1
  <2>1. Cardinality(used) \in Nat
    BY <1>3, FS_CardinalityType
  <2>2. /\ IsFiniteSet(used \cup {path})
        /\ Cardinality(used \cup {path})
             = IF path \in used THEN Cardinality(used) ELSE Cardinality(used) + 1
    BY <1>3, FS_AddElement
  <2> QED BY <1>1, <1>3, <2>1, <2>2
<1>5. Cardinality(Inodes) = Cardinality(Savers) + 2
  BY <1>1, FS_Interval DEF Inodes
<1>6. ~(Inodes \subseteq used \cup {path})
  BY <1>1, <1>4, <1>5, FS_Subset, FS_CardinalityType
<1>7. \E i \in Inodes : i \notin InUse
  BY <1>6 DEF InUse, Inodes, NoInode, used
<1> QED BY <1>7 DEF NewInode

\* A text written into an empty file is whole.
LEMMA WriteOverEmpty ==
    ASSUME NEW units \in SUBSET Units
    PROVE  WriteOver(Empty, units) = [units |-> units, length |-> Cardinality(units)]
           /\ Cardinality(units) \in Nat
<1>1. Cardinality(units) \in Nat
  BY PersistenceAssumption, FS_Subset, FS_CardinalityType
<1> QED BY <1>1 DEF WriteOver, Empty

\* A text written over another one is whole or unreadable.
LEMMA WriteOverTypes ==
    ASSUME NEW units \in SUBSET Units, NEW old \in ContentType
    PROVE  /\ WriteOver(old, units) \in ContentType
           /\ WriteOver(old, units).units \in {units, Garbled}
<1>1. Cardinality(units) \in Nat
  BY PersistenceAssumption, FS_Subset, FS_CardinalityType
<1>2. /\ [old EXCEPT !.units = Garbled] \in ContentType
      /\ [old EXCEPT !.units = Garbled].units = Garbled
  <2> DEFINE g == Garbled
  <2>1. g \in (SUBSET Units) \cup {g}
    OBVIOUS
  <2> HIDE DEF g
  <2>2. [old EXCEPT !.units = g] \in [units : (SUBSET Units) \cup {g}, length : Nat]
        /\ [old EXCEPT !.units = g].units = g
    BY <2>1 DEF ContentType, g
  <2> QED BY <2>2 DEF g, ContentType
<1> QED BY <1>1, <1>2 DEF WriteOver, ContentType

\* The invariant holds when there is no scope file yet.
LEMMA InitHolds == Init => PersistInv
<1> SUFFICES ASSUME Init PROVE PersistInv
  OBVIOUS
<1>1. Resting \in SaverType /\ Empty \in ContentType
  BY DEF Resting, SaverType, Empty, ContentType
<1>2. Typed
  BY <1>1 DEF Init, Typed
<1>3. NamesApart /\ ContentBegun /\ SaveAlone /\ ScopeFileWhole
  BY DEF Init, NamesApart, ContentBegun, SaveAlone, ScopeFileWhole, Resting, Empty, Saving
<1> QED BY <1>2, <1>3 DEF PersistInv

\* A step of one goroutine changes its own record.
LEMMA SaverChanged ==
    ASSUME Typed, NEW s \in Savers, NEW new \in SaverType, saver' = [saver EXCEPT ![s] = new]
    PROVE  /\ saver' \in [Savers -> SaverType]
           /\ saver'[s] = new
           /\ \A q \in Savers \ {s} : saver'[q] = saver[q]
BY DEF Typed

\* One inode of the file system changes.
LEMMA ContentChanged ==
    ASSUME Typed, NEW i \in Inodes, NEW new \in ContentType, content' = [content EXCEPT ![i] = new]
    PROVE  /\ content' \in [Inodes -> ContentType]
           /\ content'[i] = new
           /\ \A j \in Inodes \ {i} : content'[j] = content[j]
BY DEF Typed

\* The records that begin, end and fail.
LEMMA RecordTypes ==
    /\ Resting \in SaverType /\ ~Resting.pc \in {"open", "write", "rename"}
    /\ Empty \in ContentType /\ Empty.units = {}
    /\ [units |-> Garbled, length |-> 1] \in ContentType
    /\ Resting.inode = NoInode
BY DEF Resting, SaverType, Empty, ContentType

\* What goroutine s is when its step is over, and that the others are as they were.
SaverIs(s, pc, units, inode) ==
    /\ saver' \in [Savers -> SaverType]
    /\ saver'[s].pc = pc /\ saver'[s].units = units /\ saver'[s].inode = inode
    /\ \A q \in Savers \ {s} : saver'[q] = saver[q]

\* pushScope starts a goroutine.
LEMMA PushEffect ==
    ASSUME Typed, NEW s \in Savers, PushScope(s)
    PROVE  SaverIs(s, "start", saver[s].units, saver[s].inode)
<1> DEFINE new == [saver[s] EXCEPT !.pc = "start"]
<1>1. saver[s] \in SaverType
  BY DEF Typed
<1>2. /\ new \in SaverType /\ new.pc = "start"
      /\ new.units = saver[s].units /\ new.inode = saver[s].inode
  BY <1>1 DEF SaverType
<1>3. saver' = [saver EXCEPT ![s] = new]
  BY DEF PushScope, Typed
<1> HIDE DEF new
<1> QED BY <1>2, <1>3, SaverChanged DEF SaverIs

\* A save that begins holds the scope of that moment.
LEMMA SnapshotEffect ==
    ASSUME Typed, NEW s \in Savers, SaveSnapshot(s), scope # {}
    PROVE  SaverIs(s, "open", scope, saver[s].inode)
<1> DEFINE new == [saver[s] EXCEPT !.pc = "open", !.units = scope]
<1>1. saver[s] \in SaverType /\ scope \in SUBSET Units
  BY DEF Typed
<1>2. new \in SaverType /\ new.pc = "open" /\ new.units = scope /\ new.inode = saver[s].inode
  BY <1>1 DEF SaverType
<1>3. saver' = [saver EXCEPT ![s] = new]
  BY DEF SaveSnapshot, Typed
<1> HIDE DEF new
<1> QED BY <1>2, <1>3, SaverChanged DEF SaverIs

\* A save that opens the temporary file has an empty inode that is not the scope file's.
LEMMA OpenEffect ==
    ASSUME Typed, NamesApart, NEW s \in Savers, SaveOpen(s)
    PROVE  /\ tmp' \in Inodes /\ tmp' # path
           /\ content' \in [Inodes -> ContentType] /\ content'[tmp'] = Empty
           /\ \A j \in Inodes \ {tmp'} : content'[j] = content[j]
           /\ SaverIs(s, "write", saver[s].units, tmp')
<1> DEFINE i == IF tmp = NoInode THEN NewInode ELSE tmp
<1> DEFINE new == [saver[s] EXCEPT !.pc = "write", !.inode = i]
<1>1. i \in Inodes /\ i # path
  BY NewInodeFree DEF Typed, NamesApart, InUse
<1>2. /\ tmp' = i /\ content' = [content EXCEPT ![i] = Empty]
      /\ saver' = [saver EXCEPT ![s].pc = "write", ![s].inode = i]
  BY DEF SaveOpen
<1> HIDE DEF i
<1>3. saver[s] \in SaverType
  BY DEF Typed
<1>4. new \in SaverType /\ new.pc = "write" /\ new.units = saver[s].units /\ new.inode = i
  BY <1>1, <1>3 DEF SaverType
<1>5. saver' = [saver EXCEPT ![s] = new]
  BY <1>2 DEF Typed
<1> HIDE DEF new
<1>6. SaverIs(s, "write", saver[s].units, i)
  BY <1>4, <1>5, SaverChanged DEF SaverIs
<1> QED BY <1>1, <1>2, <1>6, ContentChanged, RecordTypes

\* A write reaches the inode the save opened, wherever the names have gone.
LEMMA WriteEffect ==
    ASSUME Typed, NamesApart, NEW s \in Savers, SaveWrite(s)
    PROVE  /\ saver[s].inode \in Inodes /\ saver[s].units \in SUBSET Units
           /\ content' \in [Inodes -> ContentType]
           /\ content'[saver[s].inode] = WriteOver(content[saver[s].inode], saver[s].units)
           /\ \A j \in Inodes \ {saver[s].inode} : content'[j] = content[j]
           /\ SaverIs(s, "rename", saver[s].units, NoInode)
<1> DEFINE new == [saver[s] EXCEPT !.pc = "rename", !.inode = NoInode]
           i == saver[s].inode
<1>1. saver[s] \in SaverType
  BY DEF Typed
<1>2. saver[s].inode \in Inodes /\ saver[s].units \in SUBSET Units
  BY <1>1 DEF SaveWrite, NamesApart, SaverType
<1>3. new \in SaverType /\ new.pc = "rename" /\ new.units = saver[s].units /\ new.inode = NoInode
  BY <1>1 DEF SaverType
<1>4. saver' = [saver EXCEPT ![s] = new]
  BY DEF SaveWrite, Typed
<1> HIDE DEF new
<1>5. SaverIs(s, "rename", saver[s].units, NoInode)
  BY <1>3, <1>4, SaverChanged DEF SaverIs
<1>6. content[i] \in ContentType
  BY <1>2 DEF Typed
<1>7. WriteOver(content[i], saver[s].units) \in ContentType
  BY <1>2, <1>6, WriteOverTypes
<1>8. content' = [content EXCEPT ![i] = WriteOver(content[i], saver[s].units)]
  BY DEF SaveWrite
<1> HIDE DEF i
<1>9. /\ content' \in [Inodes -> ContentType]
      /\ content'[i] = WriteOver(content[i], saver[s].units)
      /\ \A j \in Inodes \ {i} : content'[j] = content[j]
  BY <1>2, <1>7, <1>8, ContentChanged DEF i
<1> QED BY <1>2, <1>5, <1>9 DEF i

\* A write that fails leaves nothing, or a part of the text, in the inode it opened.
LEMMA FailEffect ==
    ASSUME Typed, NamesApart, NEW s \in Savers, SaveFails(s)
    PROVE  /\ content' \in [Inodes -> ContentType]
           /\ \A j \in Inodes :
                \/ content'[j] = content[j]
                \/ /\ saver[s].pc = "write" /\ j = saver[s].inode
                   /\ content'[j].units \in {{}, Garbled}
<1>1. CASE saver[s].pc = "open"
  BY <1>1 DEF SaveFails, Typed
<1>2. CASE saver[s].pc = "write"
  <2>1. saver[s].inode \in Inodes
    BY <1>2 DEF NamesApart
  <2>2. PICK c \in {Empty, [units |-> Garbled, length |-> 1]} :
            content' = [content EXCEPT ![saver[s].inode] = c]
    BY <1>2 DEF SaveFails
  <2>3. c \in ContentType /\ c.units \in {{}, Garbled}
    BY <2>2, RecordTypes
  <2>4. /\ content' \in [Inodes -> ContentType]
        /\ content'[saver[s].inode] = c
        /\ \A j \in Inodes \ {saver[s].inode} : content'[j] = content[j]
    BY <2>1, <2>2, <2>3, ContentChanged
  <2> QED BY <1>2, <2>3, <2>4
<1> QED BY <1>1, <1>2 DEF SaveFails

\* A save that is over rests.
LEMMA RestEffect ==
    ASSUME Typed, NEW s \in Savers, saver' = [saver EXCEPT ![s] = Resting]
    PROVE  /\ saver' \in [Savers -> SaverType]
           /\ saver'[s].pc \notin {"open", "write", "rename"}
           /\ \A q \in Savers \ {s} : saver'[q] = saver[q]
BY SaverChanged, RecordTypes

\* Every step keeps the types and the names apart.
LEMMA TypePreserved == Typed /\ NamesApart /\ [Next]_vars => Typed' /\ NamesApart'
<1> SUFFICES ASSUME Typed, NamesApart, [Next]_vars PROVE Typed' /\ NamesApart'
  OBVIOUS
<1>1. CASE ChangeScope
  BY <1>1 DEF ChangeScope, Typed, NamesApart, files, history
<1>2. CASE Restart
  <2>1. Restored \in SUBSET Units
    BY DEF Restored, Typed, ContentType
  <2> QED BY <1>2, <2>1, RecordTypes DEF Restart, Typed, NamesApart, files, history
<1>3. ASSUME NEW u \in Units, RemoveDir(u) PROVE Typed' /\ NamesApart'
  BY <1>3 DEF RemoveDir, Typed, NamesApart, files, history
<1>4. ASSUME NEW s \in Savers, PushScope(s) PROVE Typed' /\ NamesApart'
  <2>1. SaverIs(s, "start", saver[s].units, saver[s].inode)
    BY <1>4, PushEffect
  <2> QED BY <1>4, <2>1 DEF PushScope, SaverIs, Typed, NamesApart, files, history
<1>5. ASSUME NEW s \in Savers, SaveSnapshot(s) PROVE Typed' /\ NamesApart'
  <2>1. saver' \in [Savers -> SaverType] /\ saver'[s].pc # "write"
        /\ \A q \in Savers \ {s} : saver'[q] = saver[q]
    <3>1. CASE scope = {}
      BY <1>5, <3>1, RestEffect DEF SaveSnapshot
    <3>2. CASE scope # {}
      BY <1>5, <3>2, SnapshotEffect DEF SaverIs
    <3> QED BY <3>1, <3>2
  <2>2. overlap' \in BOOLEAN
    <3>1. overlap' = overlap \/ overlap' = (overlap \/ \E q \in Savers : Saving(q))
      BY <1>5 DEF SaveSnapshot, history
    <3> QED BY <3>1 DEF Typed
  <2>3. UNCHANGED <<scope, tmp, path, content>>
    BY <1>5 DEF SaveSnapshot, files
  <2> QED BY <2>1, <2>2, <2>3 DEF Typed, NamesApart
<1>6. ASSUME NEW s \in Savers, SaveOpen(s) PROVE Typed' /\ NamesApart'
  <2>1. UNCHANGED <<scope, path, overlap>>
    BY <1>6 DEF SaveOpen, history
  <2> QED BY <1>6, <2>1, OpenEffect DEF SaverIs, Typed, NamesApart
<1>7. ASSUME NEW s \in Savers, SaveWrite(s) PROVE Typed' /\ NamesApart'
  <2>1. UNCHANGED <<scope, tmp, path, overlap>>
    BY <1>7 DEF SaveWrite, history
  <2> QED BY <1>7, <2>1, WriteEffect DEF SaverIs, Typed, NamesApart
<1>8. ASSUME NEW s \in Savers, SaveFails(s) PROVE Typed' /\ NamesApart'
  <2>1. UNCHANGED <<scope, tmp, path, overlap>> /\ saver' = [saver EXCEPT ![s] = Resting]
    BY <1>8 DEF SaveFails, history
  <2>2. content' \in [Inodes -> ContentType]
    BY <1>8, FailEffect
  <2> QED BY <2>1, <2>2, RestEffect DEF Typed, NamesApart
<1>9. ASSUME NEW s \in Savers, SaveRename(s) \/ RenameFails(s) PROVE Typed' /\ NamesApart'
  <2>1. saver' = [saver EXCEPT ![s] = Resting]
    BY <1>9 DEF SaveRename, RenameFails
  <2> QED BY <1>9, <2>1, RestEffect DEF SaveRename, RenameFails, Typed, NamesApart, history
<1>10. CASE UNCHANGED vars
  BY <1>10 DEF vars, Typed, NamesApart, files, history
<1> QED BY <1>1, <1>2, <1>3, <1>4, <1>5, <1>6, <1>7, <1>8, <1>9, <1>10 DEF Next

\* Every step writes only what a save began with.
LEMMA BegunPreserved ==
    Typed /\ NamesApart /\ ContentBegun /\ [Next]_vars => ContentBegun'
<1> SUFFICES ASSUME Typed, NamesApart, ContentBegun, [Next]_vars PROVE ContentBegun'
  OBVIOUS
<1>1. CASE ChangeScope
  BY <1>1 DEF ChangeScope, ContentBegun, Saving, files, history
<1>2. CASE Restart
  BY <1>2, RecordTypes DEF Restart, ContentBegun, Saving, files, history
<1>3. ASSUME NEW u \in Units, RemoveDir(u) PROVE ContentBegun'
  BY <1>3 DEF RemoveDir, ContentBegun, Saving, files, history
<1>4. ASSUME NEW s \in Savers, PushScope(s) PROVE ContentBegun'
  BY <1>4, PushEffect DEF PushScope, SaverIs, ContentBegun, Saving, files, history
<1>5. ASSUME NEW s \in Savers, SaveSnapshot(s) PROVE ContentBegun'
  <2>1. CASE scope = {}
    BY <1>5, <2>1, RestEffect DEF SaveSnapshot, ContentBegun, Saving, files, history
  <2>2. CASE scope # {}
    <3>1. begun' = begun \cup {scope} /\ content' = content
      BY <1>5, <2>2 DEF SaveSnapshot, files
    <3> QED BY <1>5, <2>2, <3>1, SnapshotEffect DEF SaverIs, ContentBegun, Saving
  <2> QED BY <2>1, <2>2
<1>6. ASSUME NEW s \in Savers, SaveOpen(s) PROVE ContentBegun'
  <2>1. begun' = begun /\ Saving(s)
    BY <1>6 DEF SaveOpen, history, Saving
  <2> QED BY <1>6, <2>1, OpenEffect, RecordTypes DEF SaverIs, ContentBegun, Saving
<1>7. ASSUME NEW s \in Savers, SaveWrite(s) PROVE ContentBegun'
  <2>1. begun' = begun /\ Saving(s) /\ saver[s].units \in begun
    BY <1>7 DEF SaveWrite, history, Saving, ContentBegun
  <2>2. saver[s].inode \in Inodes /\ saver[s].units \in SUBSET Units
    BY <1>7, WriteEffect
  <2>3. content'[saver[s].inode].units \in {saver[s].units, Garbled}
    BY <1>7, <2>2, WriteEffect, WriteOverTypes DEF Typed
  <2> QED BY <1>7, <2>1, <2>3, WriteEffect DEF SaverIs, ContentBegun, Saving
<1>8. ASSUME NEW s \in Savers, SaveFails(s) PROVE ContentBegun'
  <2>1. begun' = begun /\ saver' = [saver EXCEPT ![s] = Resting]
    BY <1>8 DEF SaveFails, history
  <2> QED BY <1>8, <2>1, FailEffect, RestEffect DEF ContentBegun, Saving
<1>9. ASSUME NEW s \in Savers, SaveRename(s) \/ RenameFails(s) PROVE ContentBegun'
  <2>1. UNCHANGED <<begun, content>> /\ saver' = [saver EXCEPT ![s] = Resting]
    BY <1>9 DEF SaveRename, RenameFails, history
  <2> QED BY <2>1, RestEffect DEF ContentBegun, Saving
<1>10. CASE UNCHANGED vars
  BY <1>10 DEF vars, ContentBegun, Saving, files, history
<1> QED BY <1>1, <1>2, <1>3, <1>4, <1>5, <1>6, <1>7, <1>8, <1>9, <1>10 DEF Next

\* Without overlap, every step leaves the temporary file to its one save, and the scope
\* file whole.
LEMMA AlonePreserved ==
    PersistInv /\ [Next]_vars => SaveAlone' /\ ScopeFileWhole'
<1> SUFFICES ASSUME PersistInv, [Next]_vars, ~overlap' PROVE SaveAlone' /\ ScopeFileWhole'
  BY DEF SaveAlone, ScopeFileWhole
<1> USE DEF PersistInv
<1>1. CASE ChangeScope
  BY <1>1 DEF ChangeScope, SaveAlone, ScopeFileWhole, Saving, files, history
<1>2. CASE Restart
  <2>1. \A s \in Savers : saver'[s].pc \notin {"open", "write", "rename"}
    BY <1>2, RecordTypes DEF Restart
  <2> QED BY <1>2, <2>1 DEF Restart, SaveAlone, ScopeFileWhole, Saving, files, history
<1>3. ASSUME NEW u \in Units, RemoveDir(u) PROVE SaveAlone' /\ ScopeFileWhole'
  BY <1>3 DEF RemoveDir, SaveAlone, ScopeFileWhole, Saving, files, history
<1>4. ASSUME NEW s \in Savers, PushScope(s) PROVE SaveAlone' /\ ScopeFileWhole'
  BY <1>4, PushEffect DEF PushScope, SaverIs, SaveAlone, ScopeFileWhole, Saving, files, history
<1>5. ASSUME NEW s \in Savers, SaveSnapshot(s) PROVE SaveAlone' /\ ScopeFileWhole'
  <2>1. CASE scope = {}
    BY <1>5, <2>1, RestEffect DEF SaveSnapshot, SaveAlone, ScopeFileWhole, Saving, files, history
  <2>2. CASE scope # {}
    <3>1. ~overlap /\ \A q \in Savers : ~Saving(q)
      BY <1>5, <2>2 DEF SaveSnapshot, Typed
    <3>2. UNCHANGED <<path, content, tmp, finished>>
      BY <1>5, <2>2 DEF SaveSnapshot, files
    <3> QED BY <1>5, <2>2, <3>1, <3>2, SnapshotEffect DEF SaverIs, SaveAlone, ScopeFileWhole, Saving
  <2> QED BY <2>1, <2>2
<1>6. ASSUME NEW s \in Savers, SaveOpen(s) PROVE SaveAlone' /\ ScopeFileWhole'
  <2>1. UNCHANGED <<path, finished, overlap>> /\ Saving(s)
    BY <1>6 DEF SaveOpen, history, Saving
  <2>2. ScopeFileWhole'
    BY <1>6, <2>1, OpenEffect DEF ScopeFileWhole, Typed
  <2>3. \A q \in Savers \ {s} : ~Saving(q) /\ saver'[q] = saver[q]
    BY <1>6, <2>1, OpenEffect DEF SaveAlone, SaverIs
  <2> QED BY <1>6, <2>1, <2>2, <2>3, OpenEffect DEF SaverIs, SaveAlone, Saving
<1>7. ASSUME NEW s \in Savers, SaveWrite(s) PROVE SaveAlone' /\ ScopeFileWhole'
  <2>1. UNCHANGED <<path, tmp, finished, overlap>> /\ Saving(s) /\ saver[s].pc = "write"
    BY <1>7 DEF SaveWrite, history, Saving
  <2>2. saver[s].inode = tmp /\ content[tmp] = Empty /\ tmp \in Inodes /\ tmp # path
    BY <1>7, <2>1, WriteEffect DEF SaveAlone, NamesApart, Inodes, NoInode
  <2>3. content'[tmp].units = saver[s].units
    BY <1>7, <2>2, WriteEffect, WriteOverEmpty
  <2>4. ScopeFileWhole'
    BY <1>7, <2>1, <2>2, WriteEffect DEF ScopeFileWhole, Typed
  <2>5. \A q \in Savers \ {s} : ~Saving(q) /\ saver'[q] = saver[q]
    BY <1>7, <2>1, WriteEffect DEF SaveAlone, SaverIs
  <2> QED BY <1>7, <2>1, <2>2, <2>3, <2>4, <2>5, WriteEffect
          DEF SaverIs, SaveAlone, Saving, Inodes, NoInode
<1>8. ASSUME NEW s \in Savers, SaveFails(s) PROVE SaveAlone' /\ ScopeFileWhole'
  <2>1. /\ UNCHANGED <<path, tmp, finished, overlap>> /\ Saving(s)
        /\ saver' = [saver EXCEPT ![s] = Resting]
    BY <1>8 DEF SaveFails, history, Saving
  <2>2. \A q \in Savers : saver'[q].pc \notin {"open", "write", "rename"}
    BY <2>1, RestEffect DEF SaveAlone, Saving
  <2>3. saver[s].pc = "write" => saver[s].inode # path
    BY <2>1 DEF SaveAlone, NamesApart, Inodes, NoInode
  <2>4. ScopeFileWhole'
    BY <1>8, <2>1, <2>3, FailEffect DEF ScopeFileWhole, Typed
  <2> QED BY <2>2, <2>4 DEF SaveAlone, Saving
<1>9. ASSUME NEW s \in Savers, SaveRename(s) \/ RenameFails(s) PROVE SaveAlone' /\ ScopeFileWhole'
  <2>1. /\ UNCHANGED <<content, overlap>> /\ Saving(s) /\ saver[s].pc = "rename"
        /\ saver' = [saver EXCEPT ![s] = Resting]
    BY <1>9 DEF SaveRename, RenameFails, history, Saving
  <2>2. \A q \in Savers : saver'[q].pc \notin {"open", "write", "rename"}
    BY <2>1, RestEffect DEF SaveAlone, Saving
  <2>3. ScopeFileWhole'
    BY <1>9, <2>1 DEF SaveRename, RenameFails, SaveAlone, ScopeFileWhole, history
  <2> QED BY <2>2, <2>3 DEF SaveAlone, Saving
<1>10. CASE UNCHANGED vars
  BY <1>10 DEF vars, SaveAlone, ScopeFileWhole, Saving, files, history
<1> QED BY <1>1, <1>2, <1>3, <1>4, <1>5, <1>6, <1>7, <1>8, <1>9, <1>10 DEF Next

-----------------------------------------------------------------------------
\* The invariant holds throughout, whatever saves run, fail or are cut off.
THEOREM PersistInvariant == Spec => []PersistInv
<1>1. PersistInv /\ [Next]_vars => PersistInv'
  BY TypePreserved, BegunPreserved, AlonePreserved DEF PersistInv
<1> QED BY <1>1, InitHolds, PTL DEF Spec

\* The rename makes a save atomic: as long as saves do not overlap, the scope file is
\* whole at every moment, for any number of goroutines and units.
THEOREM FileWhole == Spec => []ScopeFileWhole
<1>1. PersistInv => ScopeFileWhole
  BY DEF PersistInv
<1> QED BY <1>1, PersistInvariant, PTL

\* Whatever overlaps, restoreScope finds one scope of the past or nothing.
THEOREM RestoresOne == Spec => RestoresOneScope
<1>1. ASSUME PersistInv, Restart
      PROVE  \E s \in begun \cup {{}} : scope' \in {{}, s \cap dirs}
  <2>1. CASE Restored = {}
    BY <1>1, <2>1 DEF Restart
  <2>2. CASE Restored # {}
    <3>1. path \in Inodes /\ content[path].units # Garbled /\ Restored = content[path].units \cap dirs
      BY <1>1, <2>2 DEF Restored, PersistInv, Typed
    <3>2. content[path].units \in begun \cup {{}}
      BY <1>1, <3>1 DEF PersistInv, ContentBegun
    <3> QED BY <1>1, <3>1, <3>2 DEF Restart
  <2> QED BY <2>1, <2>2
<1>2. PersistInv /\ [Next]_vars
        => [Restart => \E s \in begun \cup {{}} : scope' \in {{}, s \cap dirs}]_vars
  BY <1>1
<1> QED BY <1>2, PersistInvariant, PTL DEF Spec, RestoresOneScope
=============================================================================
