------------------------------ MODULE SheetText ------------------------------
(***************************************************************************)
(* The text of a table, as the browser and the server write and read it     *)
(* (the sheet helpers of the profile script and of src/src/web.rs): rows on  *)
(* lines, cells between tabs, and a backslash before what would be taken for *)
(* either.  Uploaded text may have semicolons or commas between the cells.   *)
(* A character is one of those that some function treats apart, or "a".      *)
(***************************************************************************)
EXTENDS Naturals, Sequences, SequencesExt

CONSTANTS
    MaxChars,       \* bound: characters typed into a table
    MaxSheetRows, MaxColumns

TAB == "tab"
NL == "newline"
CR == "return"
BS == "backslash"
SPACE == " "
COMMA == ","
SEMICOLON == ";"
Chars == {"a", "n", SPACE, COMMA, SEMICOLON, TAB, NL, CR, BS}

VARIABLES
    sheet,          \* rows of cells, each a sequence of characters
    typed           \* characters typed

textVars == <<sheet, typed>>

MapCells(rows, Op(_)) == [i \in DOMAIN rows |-> [j \in DOMAIN rows[i] |-> Op(rows[i][j])]]
Holds(text, c) == \E i \in DOMAIN text : text[i] = c

\* replace("\r\n", "\n") and replace('\r', "\n").
Newlines(text) ==
    FlattenSeq([i \in DOMAIN text |->
        IF text[i] = CR THEN <<NL>>
        ELSE IF text[i] = NL /\ i > 1 /\ text[i - 1] = CR THEN <<>>
        ELSE <<text[i]>>])

\* split: the pieces so far, and those with one more character.
Cut(pieces, c, separator) ==
    IF c = separator THEN Append(pieces, <<>>)
    ELSE Append(Front(pieces), Append(Last(pieces), c))

Split(text, separator) ==
    LET pieces[i \in 0 .. Len(text)] ==
            IF i = 0 THEN << <<>> >> ELSE Cut(pieces[i - 1], text[i], separator)
    IN  pieces[Len(text)]

\* lines(): as split, without the empty line after the last newline.
Lines(text) ==
    LET all == Split(text, NL) IN IF Last(all) = <<>> THEN Front(all) ELSE all

Trim(cell) ==
    LET kept == {i \in DOMAIN cell : cell[i] # SPACE}
    IN  IF kept = {} THEN <<>>
        ELSE SubSeq(cell, CHOOSE i \in kept : \A k \in kept : i <= k,
                          CHOOSE i \in kept : \A k \in kept : i >= k)

Join(parts, separator) ==
    FlattenSeq([i \in DOMAIN parts |-> IF i = 1 THEN parts[1] ELSE <<separator>> \o parts[i]])

-----------------------------------------------------------------------------
Decoded(marker) == CASE marker = "n" -> NL [] marker = "t" -> TAB [] marker = "r" -> CR
                     [] marker = BS -> BS
Markers == {"n", "t", "r", BS}

\* What was read of a cell, with one more character; open tells that a backslash came before
\* it.  The backslash stays before a character that is no marker.
Read(state, c) ==
    IF state.open
    THEN [out |-> state.out \o (IF c \in Markers THEN <<Decoded(c)>> ELSE <<BS, c>>), open |-> FALSE]
    ELSE IF c = BS THEN [state EXCEPT !.open = TRUE]
    ELSE [state EXCEPT !.out = Append(@, c)]

ReadAll(cell) ==
    LET state[i \in 0 .. Len(cell)] ==
            IF i = 0 THEN [out |-> <<>>, open |-> FALSE] ELSE Read(state[i - 1], cell[i])
    IN  state[Len(cell)]

UnescapePreviewCell(cell) ==
    LET end == ReadAll(cell) IN IF end.open THEN Append(end.out, BS) ELSE end.out

\* What is written for a character: for the breaks, for the backslash.
Broken(c) == IF c = NL THEN <<BS, "n">> ELSE IF c = TAB THEN <<BS, "t">> ELSE <<c>>
Doubled(c) == IF c = BS THEN <<BS, BS>> ELSE <<c>>

\* Faulty variant: the backslash itself is not escaped.
EscapeBreaksOnly(cell) ==
    LET text == Newlines(cell) IN FlattenSeq([i \in DOMAIN text |-> Broken(text[i])])

EscapePreviewCell(cell) ==
    LET text == Newlines(cell)
    IN  FlattenSeq([i \in DOMAIN text |->
            IF text[i] = BS THEN Doubled(text[i]) ELSE Broken(text[i])])

SerializePreviewRows(rows) ==
    Join([i \in DOMAIN rows |-> Join(MapCells(rows, EscapePreviewCell)[i], TAB)], NL)

IsBlank(row) == \A j \in DOMAIN row : row[j] = <<>>
NotBlank(rows) ==
    FlattenSeq([i \in DOMAIN rows |-> IF IsBlank(rows[i]) THEN <<>> ELSE << rows[i] >>])

PreviewCells(parts) == [j \in DOMAIN parts |-> UnescapePreviewCell(Trim(parts[j]))]

PreviewDelimiter(text) ==
    IF Holds(text, TAB) THEN TAB ELSE IF Holds(text, SEMICOLON) THEN SEMICOLON ELSE COMMA

\* The server: cells trimmed, blank rows left out.
ParsePreviewRows(preview) ==
    LET text == Newlines(preview)
        lines == Lines(text)
    IN  NotBlank([i \in DOMAIN lines |-> PreviewCells(Split(lines[i], PreviewDelimiter(text)))])

-----------------------------------------------------------------------------
\* The browser's regular expression takes a backslash with a marker and goes on behind them.
\* What follows a backslash that stays is no backslash, so that it reads the same.
UnescapeSheetCell(cell) == UnescapePreviewCell(cell)

\* The backslashes first, then the newlines and tabs.
EscapeSheetCell(cell) ==
    LET text == Newlines(FlattenSeq([i \in DOMAIN cell |-> Doubled(cell[i])]))
    IN  FlattenSeq([i \in DOMAIN text |-> Broken(text[i])])

SerializeRows(rows) ==
    Join([i \in DOMAIN rows |-> Join(MapCells(rows, EscapeSheetCell)[i], TAB)], NL)

SheetDelimiter(text) ==
    IF Holds(text, TAB) THEN TAB ELSE IF Holds(text, COMMA) THEN COMMA
    ELSE IF Holds(text, SEMICOLON) THEN SEMICOLON ELSE TAB

Width(rows) == CHOOSE w \in {Len(rows[i]) : i \in DOMAIN rows} : \A i \in DOMAIN rows : Len(rows[i]) <= w

\* The browser: rows filled up to the widest.
ParseSheet(preview) ==
    LET text == Newlines(preview)
        lines == Split(text, NL)
        rows == [i \in DOMAIN lines |-> Split(lines[i], SheetDelimiter(text))]
        filled == [i \in DOMAIN rows |-> [j \in 1 .. Width(rows) |->
                      IF j \in DOMAIN rows[i] THEN rows[i][j] ELSE <<>>]]
    IN  MapCells(filled, UnescapeSheetCell)

-----------------------------------------------------------------------------
(* A table of the page: its cells typed, its rows and columns added.          *)
Columns == Len(sheet[1])

TextInit == sheet = << << <<>> >> >> /\ typed = 0

TypeChar(i, j, c) ==
    /\ typed < MaxChars /\ typed' = typed + 1
    /\ i \in DOMAIN sheet /\ j \in 1 .. Columns
    /\ sheet' = [sheet EXCEPT ![i][j] = Append(@, c)]

AddSheetRow ==
    /\ Len(sheet) < MaxSheetRows
    /\ sheet' = Append(sheet, [j \in 1 .. Columns |-> <<>>])
    /\ UNCHANGED typed

AddColumn ==
    /\ Columns < MaxColumns
    /\ sheet' = [i \in DOMAIN sheet |-> Append(sheet[i], <<>>)]
    /\ UNCHANGED typed

TextStep ==
    \/ \E i \in 1 .. MaxSheetRows, j \in 1 .. MaxColumns, c \in Chars : TypeChar(i, j, c)
    \/ AddSheetRow \/ AddColumn

\* The text by itself.
TextSpec == TextInit /\ [][TextStep]_textVars

(* A table keeps its cells, whoever writes its text and whoever reads it: the  *)
(* browser reads back every cell (a lone return as a newline), and so does   *)
(* the server, with the cells trimmed and the blank rows left out.  Not      *)
(* covered are tables of one column whose cells hold a comma or semicolon,   *)
(* which both sides then take for the separator.                             *)
TextSurvives ==
    LET separated == Columns > 1 \/ \A i \in DOMAIN sheet : \A c \in {COMMA, SEMICOLON} :
                                        ~Holds(sheet[i][1], c)
        cells == MapCells(sheet, Newlines)
        kept == NotBlank(MapCells(cells, Trim))
    IN  separated => \A text \in {SerializeRows(sheet), SerializePreviewRows(sheet)} :
            ParseSheet(text) = cells /\ ParsePreviewRows(text) = kept
=============================================================================
