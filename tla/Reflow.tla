------------------------------- MODULE Reflow -------------------------------
(***************************************************************************)
(* The rows of a terminal screen, and what a resize does to them           *)
(* (koshi-terminal: grid/state.rs, state/reflow.rs, scrollback.rs).        *)
(*                                                                         *)
(* A row is its cells, how it ends and whether a shell marked a prompt on  *)
(* it.  A row that ends "soft" or "softwide" continues in the row below; a *)
(* "softwide" row's last cell is a spacer, left because a wide glyph did   *)
(* not fit.  A resize of the primary screen reads history and screen as    *)
(* one list of physical rows, joins them into logical lines, wraps each    *)
(* line at the new width and splits the rows into history and screen       *)
(* again.                                                                  *)
(*                                                                         *)
(* Rows and columns count from 1.  A cell is its character, its width (1,  *)
(* 2, or 0 for the right half of a wide glyph) and its style.  Images,     *)
(* combining marks and the scrollback's byte cap are left out.             *)
(***************************************************************************)
EXTENDS Integers, Sequences, FiniteSets

Cell(ch, w, st) == [ch |-> ch, w |-> w, st |-> st]

BuildBlank(st) == Cell(" ", 1, st)

DefaultBlank == BuildBlank("plain")

RowEnds == {"hard", "soft", "softwide"}

Row(cells, rowEnd, prompt) == [cells |-> cells, end |-> rowEnd, prompt |-> prompt]

Blanks(n, st) == [i \in 1..n |-> BuildBlank(st)]

BlankRow(n, st) == Row(Blanks(n, st), "hard", FALSE)

MaxOf(S) == CHOOSE x \in S : \A y \in S : y <= x

AtMost(a, b) == IF a <= b THEN a ELSE b

AtLeast(a, b) == IF a >= b THEN a ELSE b

(* The cells of a hard-ended row without its default padding. *)
CountRowContentCells(cells) == MaxOf({0} \cup {i \in DOMAIN cells : cells[i] # DefaultBlank})

(* The cells a row gives to its logical line. *)
ContentCount(row) ==
    CASE row.end = "soft" -> Len(row.cells)
      [] row.end = "softwide" -> Len(row.cells) - 1
      [] row.end = "hard" -> CountRowContentCells(row.cells)

-----------------------------------------------------------------------------
(* One logical line wrapped at a width *)

(* Wide glyphs stored narrow, their right halves dropped. *)
NarrowWideGlyphs(line) ==
    LET kept == SelectSeq([i \in DOMAIN line |-> i],
                          LAMBDA i : ~(line[i].w = 0 /\ i > 1 /\ line[i - 1].w = 2))
    IN [k \in DOMAIN kept |->
          LET c == line[kept[k]] IN IF c.w = 2 THEN [c EXCEPT !.w = 1] ELSE c]

(* The line's cells first..last of each row it wraps into.  A row is cut
   when it is full, and before a wide glyph whose right half would not fit. *)
ComputeRewrappedRowSpans(line, cols) ==
    LET Cut(acc, i, rowEnd) ==
            [spans |-> Append(acc.spans, [first |-> acc.first, last |-> i - 1, end |-> rowEnd]),
             first |-> i]
        CutFull(acc, i) == IF i - acc.first = cols THEN Cut(acc, i, "soft") ELSE acc
        CutWide(acc, i) ==
            IF line[i].w = 2 /\ i - acc.first + 1 = cols THEN Cut(acc, i, "softwide") ELSE acc
        scan[i \in 0..Len(line)] ==
            IF i = 0 THEN [spans |-> <<>>, first |-> 1] ELSE CutWide(CutFull(scan[i - 1], i), i)
        Closed(done) == Append(done.spans, [first |-> done.first, last |-> Len(line), end |-> "hard"])
    IN Closed(scan[IF Len(line) < cols THEN 0 ELSE Len(line)])

(* Mutant: the offset is not carried over to the rows the line wraps into. *)
LocateContentCellOffsetUnwrapped(counts, offset) == [row |-> 1, col |-> offset + 1]

(* The row within a wrapped line, and the column in it, of the cell `offset`
   cells after the line's first: an offset past the content lands in the last
   row, past its cells. *)
LocateContentCellOffset(counts, offset) ==
    LET start[k \in 1..Len(counts)] == IF k = 1 THEN 0 ELSE start[k - 1] + counts[k - 1]
        row == CHOOSE k \in DOMAIN counts :
                 /\ offset < start[k] + counts[k] \/ k = Len(counts)
                 /\ \A j \in 1..(k - 1) : offset >= start[j] + counts[j]
    IN [row |-> row, col |-> offset - start[row] + 1]

-----------------------------------------------------------------------------
(* All rows: the output of a reflow is its rows, each with only the cells it *)
(* held before padding, and the physical row and column of the cursor.       *)

EmptyLine == [cells |-> <<>>, prompts |-> <<>>, cursor |-> -1]

(* Wrap the finished line, append its rows, put its prompt marks and the
   cursor on the rows that hold their cells, and start the next line. *)
PushLogicalLine(out, cols, bg) ==
    LET WrappedRow(line, span, isMarked) ==
            Row(SubSeq(line, span.first, span.last)
                  \o (IF span.end = "softwide" THEN <<BuildBlank(bg)>> ELSE <<>>),
                span.end, isMarked)
        Located(counts, offset) == LocateContentCellOffset(counts, offset)
        Marked(counts) == {Located(counts, out.line.prompts[p]).row : p \in DOMAIN out.line.prompts}
        Rows(line, spans, marked) ==
            [k \in DOMAIN spans |-> WrappedRow(line, spans[k], k \in marked)]
        Pushed(wrapped, hasCursor, place) ==
            [rows |-> out.rows \o wrapped,
             line |-> EmptyLine,
             row |-> IF hasCursor THEN Len(out.rows) + place.row ELSE out.row,
             col |-> IF hasCursor THEN place.col ELSE out.col]
        Counted(line, spans, counts) ==
            Pushed(Rows(line, spans, Marked(counts)),
                   out.line.cursor >= 0, Located(counts, out.line.cursor))
        Spanned(line, spans) ==
            Counted(line, spans, [k \in DOMAIN spans |-> spans[k].last - spans[k].first + 1])
        Wrapped(line) == Spanned(line, ComputeRewrappedRowSpans(line, cols))
    IN Wrapped(IF cols <= 1 THEN NarrowWideGlyphs(out.line.cells) ELSE out.line.cells)

(* Every physical row joined to its logical line, every line wrapped.  A soft
   row caps the cursor's offset at its content; a hard row counts its padding. *)
RewrapPrimaryRows(rows, cursorRow, cursorCol, cols, bg) ==
    LET Column(row, count) ==
            IF row.end = "hard" THEN cursorCol - 1 ELSE AtMost(cursorCol - 1, count)
        Join(out, row, isCursors, start, count) ==
            [out EXCEPT
                !.line.cells = @ \o SubSeq(row.cells, 1, count),
                !.line.prompts = IF row.prompt THEN Append(@, start) ELSE @,
                !.line.cursor = IF isCursors THEN start + Column(row, count) ELSE @]
        PushIf(ends, out) == IF ends THEN PushLogicalLine(out, cols, bg) ELSE out
        Read(out, i) ==
            PushIf(rows[i].end = "hard",
                   Join(out, rows[i], i = cursorRow, Len(out.line.cells), ContentCount(rows[i])))
        read[i \in 0..Len(rows)] ==
            IF i = 0 THEN [rows |-> <<>>, line |-> EmptyLine, row |-> 1, col |-> 1]
            ELSE Read(read[i - 1], i)
        Finish(out) == PushIf(out.line.cells # <<>> \/ out.line.prompts # <<>>, out)
        Output(last) == [rows |-> last.rows, row |-> last.row, col |-> last.col]
    IN Output(Finish(read[Len(rows)]))

(* Mutant: the width alone decides. *)
RowsAreKeptByWidth(rows, cursorRow, cursorCol, cols, bg) ==
    /\ cols >= 2
    /\ cols = Len(rows[Len(rows)].cells)
    /\ rows[Len(rows)].end = "hard"

(* Whether a resize that keeps the width may keep every row as it is. *)
RowsAreKept(rows, cursorRow, cursorCol, cols, bg) ==
    /\ cols >= 2
    /\ cols = Len(rows[Len(rows)].cells)
    /\ \A i \in DOMAIN rows :
         /\ rows[i].end = "softwide" =>
              /\ rows[i].cells[cols] = BuildBlank(bg)
              /\ ~(i = cursorRow /\ cursorCol >= cols)
         /\ i > 1 /\ rows[i - 1].end = "soft" => ContentCount(rows[i]) > 0
         /\ i > 1 /\ rows[i - 1].end = "softwide" => rows[i].cells[1].w = 2
    /\ rows[Len(rows)].end = "hard"

(* The output that keeps them: a hard-ended row sheds only its padding. *)
KeepPrimaryRows(rows, cursorRow, cursorCol) ==
    [rows |-> [i \in DOMAIN rows |->
        IF rows[i].end = "hard"
        THEN [rows[i] EXCEPT !.cells = SubSeq(@, 1, CountRowContentCells(@))] ELSE rows[i]],
     row |-> cursorRow,
     col |-> cursorCol]

-----------------------------------------------------------------------------
(* The output made the screen *)

(* `cells` filled up to `cols` cells. *)
Pad(cells, cols, st) == cells \o Blanks(AtLeast(cols - Len(cells), 0), st)

(* The newest `limit` of the lines. *)
EvictOldestLines(lines, limit) == SubSeq(lines, AtLeast(Len(lines) - limit, 0) + 1, Len(lines))

(* Blank rows below the cursor that do not fit are dropped, the rows above the
   screen become history padded with default blanks, the rest the screen,
   padded in the pen's background. *)
ApplyReflowOutput(out, size, bg, limit) ==
    LET Spare(row) == row.end = "hard" /\ ~row.prompt /\ CountRowContentCells(row.cells) = 0
        CountOf(wrapped, least) ==
            IF Len(wrapped) <= least THEN Len(wrapped)
            ELSE MaxOf({least} \cup {k \in least..Len(wrapped) : ~Spare(wrapped[k])})
        Split(wrapped, count, overflow) ==
            [history |-> EvictOldestLines(
               [k \in 1..overflow |-> [wrapped[k] EXCEPT !.cells = Pad(@, size.cols, "plain")]], limit),
             screen |-> [k \in 1..size.rows |->
               IF overflow + k <= count
               THEN [wrapped[overflow + k] EXCEPT !.cells = Pad(@, size.cols, bg)]
               ELSE BlankRow(size.cols, bg)],
             row |-> AtMost(AtLeast(out.row - overflow, 1), size.rows),
             col |-> AtMost(out.col, size.cols)]
        SplitAt(wrapped, count) == Split(wrapped, count, AtLeast(count - size.rows, 0))
        Screen(wrapped) == SplitAt(wrapped, CountOf(wrapped, AtLeast(size.rows, out.row)))
    IN Screen(IF out.rows = <<>> THEN <<Row(<<>>, "hard", FALSE)>> ELSE out.rows)

(* A resize of the primary screen: rows kept where that is what wrapping them
   again would give, wrapped again otherwise. *)
ReflowPrimary(history, screen, cursorRow, cursorCol, size, bg, limit) ==
    LET Wrap(rows, row) ==
            IF RowsAreKept(rows, row, cursorCol, size.cols, bg)
            THEN KeepPrimaryRows(rows, row, cursorCol)
            ELSE RewrapPrimaryRows(rows, row, cursorCol, size.cols, bg)
    IN ApplyReflowOutput(Wrap(history \o screen, Len(history) + cursorRow), size, bg, limit)

=============================================================================
