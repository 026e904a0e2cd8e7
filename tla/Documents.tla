----------------------------- MODULE Documents ------------------------------
(***************************************************************************)
(* The incremental edits of documents.go.  A text is a sequence of runes;  *)
(* what matters of a rune is whether it ends a line and how many UTF-16    *)
(* code units it takes, for LSP positions count those.  The code's byte    *)
(* offsets always fall between two runes: an offset here is the number of  *)
(* runes before it.                                                        *)
(***************************************************************************)
EXTENDS Integers, Sequences, FiniteSets, SequencesExt

Narrow == "a"   \* a rune of the basic plane: one code unit
Wide == "w"     \* a rune above U+FFFF: a surrogate pair
Newline == "n"
Runes == {Narrow, Wide, Newline}

Texts(n) == BoundedSeq(Runes, n)

\* Mutant: positions count runes.
runesOnly(r) == 1

utf16CodeUnits(r) == IF r = Wide THEN 2 ELSE 1

Fail == -1

\* The first loop of byteOffsetForUTF16Position: the line reached and where it
\* starts.
FindLine(text, line) ==
    LET loop[i \in 0..Len(text)] ==
            IF i = 0 THEN [current |-> 0, start |-> 0]
            ELSE IF loop[i - 1].current = line \/ text[i] # Newline THEN loop[i - 1]
            ELSE [current |-> loop[i - 1].current + 1, start |-> i]
    IN loop[Len(text)]

\* The second loop: walk the line until its column is the character asked for.
\* The walk stops with an offset, at the end of the line, or past the character.
FindColumn(text, start, character) ==
    LET loop[i \in start..Len(text)] ==   \* after the runes up to i
            IF i = start THEN [col |-> 0, at |-> Fail, stop |-> FALSE]
            ELSE LET s == loop[i - 1]
                     col == s.col + utf16CodeUnits(text[i])
                 IN IF s.stop THEN s
                    ELSE IF text[i] = Newline THEN [s EXCEPT !.stop = TRUE]
                    ELSE IF s.col = character THEN [s EXCEPT !.at = i - 1, !.stop = TRUE]
                    ELSE [col |-> col, at |-> Fail, stop |-> col > character]
    IN loop[Len(text)]

LineEnd(text, start) ==
    CHOOSE e \in start..Len(text) :
        /\ \A i \in start + 1..e : text[i] # Newline
        /\ e = Len(text) \/ text[e + 1] = Newline

byteOffsetForUTF16Position(text, line, character) ==
    LET found == FindLine(text, line)
        column == FindColumn(text, found.start, character)
    IN IF found.current # line THEN Fail
       ELSE IF column.at # Fail THEN column.at
       ELSE IF column.col = character THEN LineEnd(text, found.start)
       ELSE Fail

\* One contentChange: a full text, or a text for the range between two positions.
ApplyChange(text, ch) ==
    IF ch.full THEN [text |-> ch.text, ok |-> TRUE]
    ELSE LET start == byteOffsetForUTF16Position(text, ch.start.line, ch.start.character)
             end == byteOffsetForUTF16Position(text, ch.end.line, ch.end.character)
         IN IF start = Fail \/ end = Fail \/ end < start
            THEN [text |-> text, ok |-> FALSE]
            ELSE [text |-> SubSeq(text, 1, start) \o ch.text \o SubSeq(text, end + 1, Len(text)),
                  ok |-> TRUE]

\* The changes of a didChange apply in order; the first that fails ends it.
applyContentChanges(text, changes) ==
    LET loop[i \in 0..Len(changes)] ==
            IF i = 0 THEN [text |-> text, ok |-> TRUE]
            ELSE IF loop[i - 1].ok THEN ApplyChange(loop[i - 1].text, changes[i])
            ELSE loop[i - 1]
    IN loop[Len(changes)]

-----------------------------------------------------------------------------
(* The editor, as the LSP specification describes it. *)

\* The position of the offset i: the line breaks before it, and the code units
\* since the last of them.
PositionOf(text, i) ==
    LET before == {k \in 1..i : text[k] = Newline}
        lineStart == IF before = {} THEN 0 ELSE CHOOSE k \in before : \A j \in before : j <= k
        wide == {k \in lineStart + 1..i : text[k] = Wide}
    IN [line |-> Cardinality(before), character |-> i - lineStart + Cardinality(wide)]

\* Replacing the runes between two offsets, and the change the editor announces
\* it with.  A position past the end of its line stands for that end; some
\* editors send one (overshoot).
Splice(text, e) ==
    IF e.full THEN e.text
    ELSE SubSeq(text, 1, e.from) \o e.text \o SubSeq(text, e.to + 1, Len(text))

ChangeOf(text, e) ==
    IF e.full THEN [full |-> TRUE, text |-> e.text]
    ELSE [full |-> FALSE, text |-> e.text, start |-> PositionOf(text, e.from),
          end |-> IF e.overshoot
                  THEN [PositionOf(text, e.to) EXCEPT !.character = @ + 1]
                  ELSE PositionOf(text, e.to)]

Overshoots(e) == ~e.full /\ e.overshoot
AtLineEnd(text, i) == i = Len(text) \/ text[i + 1] = Newline

\* The edits of a text that insert one of the texts in ins.
EditsOf(text, ins) ==
    {[full |-> TRUE, text |-> t] : t \in ins} \cup
    {e \in [full : {FALSE}, from : 0..Len(text), to : 0..Len(text), text : ins,
            overshoot : BOOLEAN] :
        e.from <= e.to /\ (e.overshoot => AtLineEnd(text, e.to))}
=============================================================================
