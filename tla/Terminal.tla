------------------------------ MODULE Terminal ------------------------------
(***************************************************************************)
(* The screen of a pane's terminal (koshi-terminal: state.rs,              *)
(* state/perform.rs and its submodules, grid/state.rs).                    *)
(*                                                                         *)
(* The state of one terminal is the record `term`; every operation is an   *)
(* operator from a state to the state it leaves, put together from the     *)
(* helpers the code calls, and one action applies it.  `s` in a field is a *)
(* screen, "primary" or "alternate".  Left out: images, tab stops,         *)
(* charsets, combining marks' own text, keyboard flags, device replies,    *)
(* titles and the modes that only the input layer or the renderer reads.   *)
(***************************************************************************)
EXTENDS Reflow, SequencesExt

CONSTANTS
  Texts,         \* runs of characters a pane prints
  Ascii,         \* the characters of one byte, one column wide
  Wide,          \* the characters two columns wide; any other takes one
  Pens,          \* background styles SGR selects
  Counts,        \* counts given to CSI sequences
  ModeLists,     \* lists of DEC private modes: records [set, modes]
  Sizes,         \* sizes a resize gives: records [rows, cols]
  FirstSize,     \* the size the pane starts with
  HistoryLimit,  \* ScrollbackLimit::maximum_line_count
  MaxMarks,      \* bound: continuations folded onto one cluster
  Ops,           \* the groups of operations a run gives the terminal
  MaxOps         \* bound: operations in all

ASSUME TerminalAssumption ==
  /\ Ascii \cap Wide = {}
  /\ "plain" \in Pens
  /\ Counts \subseteq Nat \ {0}
  /\ \A z \in Sizes \cup {FirstSize} : z.rows \in Nat \ {0} /\ z.cols \in Nat \ {0}
  /\ HistoryLimit \in Nat /\ MaxMarks \in Nat /\ MaxOps \in Nat

VARIABLES
  term,      \* the terminal
  ops,       \* operations applied so far
  margined,  \* history: left/right margins were in force since the last reset
  entry      \* history: the primary screen as `?1049 h` left it, until it may change

vars == <<term, ops, margined, entry>>

Screens == {"primary", "alternate"}

OnBoth(x) == [primary |-> x, alternate |-> x]

NoCluster == [row |-> 0, col |-> 0, width |-> 0, bytes |-> 0, marks |-> 0]

HomeCursor == [row |-> 1, col |-> 1, latch |-> FALSE, origin |-> FALSE, saved |-> <<>>]

(* A terminal no byte has reached: a blank primary screen, an alternate screen
   with no grid. *)
FromPtySize(size) ==
  [cols |-> size.cols,
   grid |-> [primary |-> [r \in 1..size.rows |-> BlankRow(size.cols, "plain")], alternate |-> <<>>],
   altFill |-> "plain",
   history |-> <<>>,
   active |-> "primary",
   cursor |-> OnBoth(HomeCursor),
   pen |-> OnBoth("plain"),
   region |-> OnBoth(<<>>),
   margins |-> OnBoth(<<>>),
   autowrap |-> TRUE, insert |-> FALSE, marginMode |-> FALSE,
   cluster |-> NoCluster]

-----------------------------------------------------------------------------
(* Reading and writing the active screen *)

Grid(t) == t.grid[t.active]

Cursor(t) == t.cursor[t.active]

Fill(t) == t.pen[t.active]

RowCount(t) == Len(Grid(t))

WithCursor(t, row, col, latch) ==
  [t EXCEPT !.cursor[t.active].row = row, !.cursor[t.active].col = col,
            !.cursor[t.active].latch = latch]

(* To a column of the cursor's row, the latch cleared. *)
ToColumn(t, col) == WithCursor(t, Cursor(t).row, col, FALSE)

ClearWrapLatch(t) == [t EXCEPT !.cursor[t.active].latch = FALSE]

WithRow(t, row, value) ==
  [t EXCEPT !.grid[t.active] = SubSeq(@, 1, row - 1) \o <<value>> \o SubSeq(@, row + 1, Len(@))]

WithCells(t, row, cells) == WithRow(t, row, [Grid(t)[row] EXCEPT !.cells = cells])

SetRowEnd(t, row, rowEnd) == WithRow(t, row, [Grid(t)[row] EXCEPT !.end = rowEnd])

(* A write that reaches the last column ends the row's line. *)
ClearedEnd(t, row, reaches) == IF reaches THEN SetRowEnd(t, row, "hard") ELSE t

MarkPrompt(t) ==
  WithRow(t, Cursor(t).row, [Grid(t)[Cursor(t).row] EXCEPT !.prompt = TRUE])

ResetCluster(t) == [t EXCEPT !.cluster = NoCluster]

ScrollRegionBounds(t) ==
  IF t.region[t.active] = <<>> THEN <<1, RowCount(t)>> ELSE t.region[t.active]

HorizontalMarginBounds(t) ==
  IF t.margins[t.active] = <<>> THEN <<1, t.cols>> ELSE t.margins[t.active]

IsFullGridWidth(t) == HorizontalMarginBounds(t) = <<1, t.cols>>

(* Inside the margins text wraps within them, outside them at the edges. *)
HorizontalWrapBounds(t, col) ==
  LET m == HorizontalMarginBounds(t) IN IF col \in m[1]..m[2] THEN m ELSE <<1, t.cols>>

CursorRowBounds(t) == IF Cursor(t).origin THEN ScrollRegionBounds(t) ELSE <<1, RowCount(t)>>

CursorColumnBounds(t) == IF Cursor(t).origin THEN HorizontalMarginBounds(t) ELSE <<1, t.cols>>

Clamp(x, bounds) == AtMost(AtLeast(x, bounds[1]), bounds[2])

MoveCursorTo(t, row, col) ==
  WithCursor(t, Clamp(row, CursorRowBounds(t)), Clamp(col, CursorColumnBounds(t)), FALSE)

(* Park on the right bound; the next glyph wraps first, under autowrap. *)
ArmWrapLatch(t) ==
  WithCursor(t, Cursor(t).row, HorizontalWrapBounds(t, Cursor(t).col)[2], t.autowrap)

-----------------------------------------------------------------------------
(* Lines *)

DeleteLines(rows, first, last, count, cols, st) ==
  LET removed == AtMost(count, last - first + 1)
      moved == [r \in DOMAIN rows |->
        CASE r \notin first..last -> rows[r]
          [] r \in first..(last - removed) -> rows[r + removed]
          [] OTHER -> BlankRow(cols, st)]
  IN [r \in DOMAIN rows |->
        IF r \in {first - 1, last - removed} THEN [moved[r] EXCEPT !.end = "hard"] ELSE moved[r]]

InsertLines(rows, first, last, count, cols, st) ==
  LET inserted == AtMost(count, last - first + 1)
      moved == [r \in DOMAIN rows |->
        CASE r \notin first..last -> rows[r]
          [] r \in (first + inserted)..last -> rows[r - inserted]
          [] OTHER -> BlankRow(cols, st)]
  IN [r \in DOMAIN rows |->
        IF r \in {first - 1, last} THEN [moved[r] EXCEPT !.end = "hard"] ELSE moved[r]]

(* Between left/right margins only the columns of the band move, by `shift`
   rows (up when positive); each row keeps its end and its prompt mark. *)
MoveLinesInColumns(rows, first, last, shift, band, st) ==
  [r \in DOMAIN rows |->
     IF r \notin first..last THEN rows[r]
     ELSE [rows[r] EXCEPT !.cells = [c \in DOMAIN @ |->
            IF c \notin band[1]..band[2] THEN @[c]
            ELSE IF r + shift \in first..last THEN rows[r + shift].cells[c]
            ELSE BuildBlank(st)]]]

(* Rows that leave the top of the primary screen at full width become history. *)
DeleteLinesIntoScrollback(t, first, bottom, count) ==
  LET removed == AtMost(count, bottom - first + 1)
      feeds == t.active = "primary" /\ first = 1 /\ IsFullGridWidth(t)
  IN [t EXCEPT
       !.history = IF feeds
                   THEN EvictOldestLines(@ \o SubSeq(Grid(t), 1, removed), HistoryLimit) ELSE @,
       !.grid[t.active] =
          IF IsFullGridWidth(t)
          THEN DeleteLines(@, first, bottom, count, t.cols, Fill(t))
          ELSE MoveLinesInColumns(@, first, bottom, removed, HorizontalMarginBounds(t), Fill(t))]

InsertLinesAt(t, first, bottom, count) ==
  LET inserted == AtMost(count, bottom - first + 1)
  IN [t EXCEPT !.grid[t.active] =
       IF IsFullGridWidth(t)
       THEN InsertLines(@, first, bottom, count, t.cols, Fill(t))
       ELSE MoveLinesInColumns(@, first, bottom, 0 - inserted, HorizontalMarginBounds(t), Fill(t))]

(* Down one line; at the region's bottom the region scrolls instead. *)
ApplyLinefeed(t) ==
  LET region == ScrollRegionBounds(t)
      row == Cursor(t).row
  IN IF row = region[2] THEN DeleteLinesIntoScrollback(t, region[1], region[2], 1)
     ELSE [t EXCEPT !.cursor[t.active].row = AtMost(row + 1, RowCount(t))]

(* A line feed that leaves a continued row behind: the cursor's row, marked
   before a scroll can carry it into history and, one row up, after it. *)
WrapLinefeed(t, rowEnd) ==
  LET row == Cursor(t).row
      atBottom == row = ScrollRegionBounds(t)[2]
      Mark(fed, continued) == IF continued >= 1 THEN SetRowEnd(fed, continued, rowEnd) ELSE fed
      MarkLeft(fed) ==
        Mark(fed, IF Cursor(fed).row > row THEN row ELSE IF atBottom THEN row - 1 ELSE 0)
  IN MarkLeft(ApplyLinefeed(IF atBottom THEN SetRowEnd(t, row, rowEnd) ELSE t))

ApplyReverseIndex(t) ==
  LET region == ScrollRegionBounds(t)
      row == Cursor(t).row
  IN ClearWrapLatch(
       IF row = region[1] THEN InsertLinesAt(t, region[1], region[2], 1)
       ELSE [t EXCEPT !.cursor[t.active].row = AtLeast(row - 1, 1)])

-----------------------------------------------------------------------------
(* Glyphs *)

Blanked(cells, columns, st) ==
  [c \in DOMAIN cells |-> IF c \in columns THEN BuildBlank(st) ELSE cells[c]]

(* Blank the other half of the wide glyph a write at `col` splits. *)
ClearWideGlyphAt(cells, col, st) ==
  LET other == CASE cells[col].w = 2 -> col + 1 [] cells[col].w = 0 -> col - 1 [] OTHER -> 0
  IN Blanked(cells, {other}, st)

(* A wide glyph takes two cells, or is stored narrow where there is one. *)
PlaceGlyph(t, row, col, cell) ==
  LET Freed(cells, isWide) ==
        LET left == ClearWideGlyphAt(cells, col, Fill(t))
        IN IF isWide THEN ClearWideGlyphAt(left, col + 1, Fill(t)) ELSE left
      Written(cells, isWide) ==
        [c \in DOMAIN cells |->
          CASE c = col -> [cell EXCEPT !.w = IF isWide THEN 2 ELSE 1]
            [] isWide /\ c = col + 1 -> Cell(" ", 0, cell.st)
            [] OTHER -> cells[c]]
      Place(isWide) ==
        ClearedEnd(WithCells(t, row, Written(Freed(Grid(t)[row].cells, isWide), isWide)), row,
                   col + (IF isWide THEN 2 ELSE 1) > t.cols)
  IN Place(cell.w = 2 /\ col + 1 <= t.cols)

(* Mutant: the row an edit cut is left as it is. *)
NormalizeWidePairsNot(t, row) == t

(* Blank every half of a wide glyph that lost the other, left to right. *)
NormalizeWidePairs(t, row) ==
  LET Orphaned(cells, c) ==
        \/ cells[c].w = 2 /\ (c = t.cols \/ cells[c + 1].w # 0)
        \/ cells[c].w = 0 /\ (c = 1 \/ cells[c - 1].w # 2)
      scan[c \in 0..t.cols] ==
        IF c = 0 THEN Grid(t)[row].cells
        ELSE IF Orphaned(scan[c - 1], c) THEN Blanked(scan[c - 1], {c}, Fill(t))
        ELSE scan[c - 1]
  IN WithCells(t, row, scan[t.cols])

(* ICH and DCH, and a glyph in insert mode: cells between the cursor and the
   right margin move right or left by `count`. *)
EditCellsAtCursor(t, count, edit) ==
  LET row == Cursor(t).row
      col == Cursor(t).col
      m == HorizontalMarginBounds(t)
      cells == Grid(t)[row].cells
      From(c) == IF edit = "insert" THEN c - count ELSE c + count
      edited == [c \in DOMAIN cells |->
        IF c \notin col..m[2] THEN cells[c]
        ELSE IF From(c) \in col..m[2] THEN cells[From(c)] ELSE BuildBlank(Fill(t))]
  IN IF col \notin m[1]..m[2] THEN t
     ELSE ClearWrapLatch(NormalizeWidePairs(SetRowEnd(WithCells(t, row, edited), row, "hard"), row))

(* Advance past a glyph whose last cell is `col`. *)
AdvancePast(t, col, bounds) ==
  IF col >= bounds[2] THEN ArmWrapLatch(t)
  ELSE [t EXCEPT !.cursor[t.active].col = col + 1]

WidthOf(ch) == IF ch \in Wide THEN 2 ELSE 1

(* The wrap a parked cursor owes before the next glyph. *)
TakeDeferredWrap(t) ==
  IF ~Cursor(t).latch THEN t
  ELSE IF t.autowrap
  THEN ToColumn(WrapLinefeed(t, "soft"), HorizontalWrapBounds(t, Cursor(t).col)[1])
  ELSE ClearWrapLatch(t)

(* A wide glyph at the right bound begins the next line and leaves a spacer. *)
WrapBeforeWide(t, bounds) ==
  LET row == Cursor(t).row
      freed == ClearWideGlyphAt(Grid(t)[row].cells, bounds[2], Fill(t))
      spaced == WithCells(t, row, Blanked(freed, {bounds[2]}, Fill(t)))
  IN ToColumn(WrapLinefeed(spaced, "softwide"), bounds[1])

(* One character that starts a new cluster. *)
PrintCharacter(t, ch) ==
  LET w == WidthOf(ch)
      Shifted(at) == IF at.insert THEN EditCellsAtCursor(at, w, "insert") ELSE at
      Place(at, row, col, bounds) ==
        AdvancePast(
          [PlaceGlyph(Shifted(at), row, col, Cell(ch, w, Fill(t))) EXCEPT
             !.cluster = [row |-> row, col |-> col, width |-> w,
                          bytes |-> IF ch \in Ascii THEN 1 ELSE 2, marks |-> 0]],
          col + w - 1, bounds)
      PlaceAt(at, bounds) == Place(at, Cursor(at).row, Cursor(at).col, bounds)
      Within(ready, bounds) ==
        IF ~(w = 2 /\ Cursor(ready).col = bounds[2] /\ bounds[1] < bounds[2])
        THEN PlaceAt(ready, bounds)
        ELSE IF t.autowrap THEN PlaceAt(WrapBeforeWide(ready, bounds), bounds)
        ELSE ResetCluster(ready)
      Print1(ready) == Within(ready, HorizontalWrapBounds(ready, Cursor(ready).col))
  IN Print1(TakeDeferredWrap(t))

(* Mutant: insert mode does not end the run. *)
AsciiRunLengthOverInsert(t, text) ==
  LET room == AtLeast(HorizontalWrapBounds(t, Cursor(t).col)[2] - Cursor(t).col, 0) + 1
  IN IF Cursor(t).latch THEN 0
     ELSE MaxOf({n \in 0..AtMost(Len(text), room) : \A i \in 1..n : text[i] \in Ascii})

(* How many leading characters of `text` are written at once. *)
AsciiRunLength(t, text) ==
  LET col == Cursor(t).col
      m == t.margins[t.active]
      last == IF m # <<>> /\ col < m[1] THEN m[1] - 1 ELSE HorizontalWrapBounds(t, col)[2]
      room == AtLeast(last - col, 0) + 1
  IN IF Cursor(t).latch \/ t.insert \/ t.cluster.bytes > 1 THEN 0
     ELSE MaxOf({n \in 0..AtMost(Len(text), room) : \A i \in 1..n : text[i] \in Ascii})

(* A run of ASCII characters that fits before the right bound. *)
PrintAsciiRun(t, text, count) ==
  LET row == Cursor(t).row
      col == Cursor(t).col
      last == col + count - 1
      cells == Grid(t)[row].cells
      cutsLeft == col > 1 /\ cells[col].w = 0
      cutsRight == cells[last].w = 2
      written == [c \in DOMAIN cells |->
        CASE c \in col..last -> Cell(text[c - col + 1], 1, Fill(t))
          [] cutsLeft /\ c = col - 1 -> BuildBlank(Fill(t))
          [] cutsRight /\ c = last + 1 -> BuildBlank(Fill(t))
          [] OTHER -> cells[c]]
      full == IF last >= t.cols THEN SetRowEnd(t, row, "hard") ELSE t
      placed == [WithCells(full, row, written) EXCEPT
        !.cluster = [row |-> row, col |-> last, width |-> 1, bytes |-> 1, marks |-> 0]]
  IN AdvancePast(placed, last, HorizontalWrapBounds(t, col))

(* `text` printed run by run. *)
PrintText(t, text) ==
  LET Print1(p) ==
        LET rest == SubSeq(text, p.done + 1, Len(text))
            count == AsciiRunLength(p.t, rest)
        IN IF rest = <<>> THEN p
           ELSE IF count = 0 THEN [t |-> PrintCharacter(p.t, rest[1]), done |-> p.done + 1]
           ELSE [t |-> PrintAsciiRun(p.t, rest, count), done |-> p.done + count]
      step[k \in 0..Len(text)] == IF k = 0 THEN [t |-> t, done |-> 0] ELSE Print1(step[k - 1])
  IN step[Len(text)].t

-----------------------------------------------------------------------------
(* Continuations: a mark folded onto the cluster's base may change its width *)

DemoteClusterToNarrow(t, row, col) ==
  LET cells == [c \in DOMAIN Grid(t)[row].cells |->
        CASE c = col -> [Grid(t)[row].cells[c] EXCEPT !.w = 1]
          [] c = col + 1 -> BuildBlank(Fill(t))
          [] OTHER -> Grid(t)[row].cells[c]]
      narrowed == WithCells(t, row, cells)
  IN IF col >= HorizontalWrapBounds(t, col)[2] THEN ArmWrapLatch(narrowed)
     ELSE WithCursor(narrowed, Cursor(t).row, col + 1, FALSE)

PromoteClusterToWide(t, row, col) ==
  LET wide == [Grid(t)[row].cells[col] EXCEPT !.w = 2]
      vacated == WithCells(t, row, Blanked(Grid(t)[row].cells, {col}, Fill(t)))
      PlaceNext(next, nextRow, left) ==
        [PlaceGlyph(next, nextRow, left, wide) EXCEPT !.cluster.row = nextRow, !.cluster.col = left]
      Moved(next, left) == PlaceNext(next, Cursor(next).row, left)
      Promote(bounds) ==
        CASE col < bounds[2] -> AdvancePast(PlaceGlyph(t, row, col, wide), col + 1, bounds)
          [] col >= bounds[2] /\ bounds[1] < bounds[2] /\ t.autowrap ->
               AdvancePast(Moved(ToColumn(WrapLinefeed(vacated, "softwide"), bounds[1]), bounds[1]),
                           bounds[1] + 1, bounds)
          [] OTHER -> t
  IN Promote(HorizontalWrapBounds(t, col))

(* `width` is what the Unicode tables give the cluster with its new mark. *)
ExtendCluster(t, width) ==
  LET cl == t.cluster
      grown == [t EXCEPT !.cluster.width = width, !.cluster.bytes = 2, !.cluster.marks = @ + 1]
  IN CASE cl.width = 1 /\ width = 2 -> PromoteClusterToWide(grown, cl.row, cl.col)
       [] cl.width = 2 /\ width = 1 -> DemoteClusterToNarrow(grown, cl.row, cl.col)
       [] OTHER -> grown

-----------------------------------------------------------------------------
(* Erasing *)

ClearLine(t, row, first, last) ==
  ClearedEnd(WithCells(t, row, Blanked(Grid(t)[row].cells, first..last, Fill(t))), row,
             last >= t.cols /\ first <= t.cols)

(* A row erased end to end loses its prompt mark too. *)
ClearRows(t, rows) ==
  [t EXCEPT !.grid[t.active] = [r \in DOMAIN @ |->
     IF r \in rows THEN BlankRow(t.cols, Fill(t)) ELSE @[r]]]

(* ED: to the end of the screen (0), from its start (1), all of it (2), or the
   history of the primary screen (3). *)
EraseInDisplay(t, mode) ==
  LET row == Cursor(t).row
      col == Cursor(t).col
      erased == CASE mode = 0 -> ClearLine(ClearRows(t, (row + 1)..RowCount(t)), row, col, t.cols)
                  [] mode = 1 -> ClearLine(ClearRows(t, 1..(row - 1)), row, 1, col)
                  [] mode = 2 -> ClearRows(t, 1..RowCount(t))
                  [] mode = 3 /\ t.active = "primary" -> [t EXCEPT !.history = <<>>]
                  [] OTHER -> t
  IN NormalizeWidePairs(IF mode \in 0..2 THEN ClearWrapLatch(erased) ELSE erased, row)

EraseInLine(t, mode) ==
  LET row == Cursor(t).row
      col == Cursor(t).col
      erased == CASE mode = 0 -> ClearLine(t, row, col, t.cols)
                  [] mode = 1 -> ClearLine(t, row, 1, col)
                  [] mode = 2 -> ClearRows(t, {row})
  IN NormalizeWidePairs(ClearWrapLatch(erased), row)

EraseCharacters(t, count) ==
  LET row == Cursor(t).row
      col == Cursor(t).col
  IN NormalizeWidePairs(
       ClearWrapLatch(ClearLine(t, row, col, AtMost(col + count - 1, t.cols))), row)

-----------------------------------------------------------------------------
(* The cursor, the margins and the modes *)

CarriageReturn(t) == ToColumn(t, HorizontalMarginBounds(t)[1])

Backspace(t) == ToColumn(t, AtLeast(AtLeast(Cursor(t).col - 1, 1), HorizontalMarginBounds(t)[1]))

(* CUP, its coordinates relative to the margins in origin mode. *)
CursorPosition(t, row, col) ==
  LET o == Cursor(t).origin
  IN MoveCursorTo(t, row + (IF o THEN ScrollRegionBounds(t)[1] - 1 ELSE 0),
                     col + (IF o THEN HorizontalMarginBounds(t)[1] - 1 ELSE 0))

(* CHA takes no offset from the margins, VPA takes the row's. *)
CursorColumn(t, col) == MoveCursorTo(t, Cursor(t).row, col)

CursorRow(t, row) ==
  MoveCursorTo(t, row + (IF Cursor(t).origin THEN ScrollRegionBounds(t)[1] - 1 ELSE 0), Cursor(t).col)

(* CNL and CPL, which never scroll. *)
CursorNextLine(t, n) == MoveCursorTo(t, Cursor(t).row + n, 1)

CursorPreviousLine(t, n) == MoveCursorTo(t, AtLeast(Cursor(t).row - n, 1), 1)

CursorUp(t, n) ==
  WithCursor(t, Clamp(AtLeast(Cursor(t).row - n, 1), CursorRowBounds(t)), Cursor(t).col, FALSE)

CursorDown(t, n) ==
  WithCursor(t, Clamp(Cursor(t).row + n, CursorRowBounds(t)), Cursor(t).col, FALSE)

CursorForward(t, n) == ToColumn(t, Clamp(Cursor(t).col + n, CursorColumnBounds(t)))

CursorBack(t, n) == ToColumn(t, Clamp(AtLeast(Cursor(t).col - n, 1), CursorColumnBounds(t)))

SavedCursor(t, s) ==
  [row |-> t.cursor[s].row, col |-> t.cursor[s].col, latch |-> t.cursor[s].latch,
   origin |-> t.cursor[s].origin, pen |-> t.pen[s]]

SaveCursor(t) == [t EXCEPT !.cursor[t.active].saved = <<SavedCursor(t, t.active)>>]

RestoreCursor(t) ==
  LET stash == Cursor(t).saved
      saved == IF stash = <<>> THEN [row |-> 1, col |-> 1, latch |-> FALSE, origin |-> FALSE, pen |-> "plain"]
               ELSE stash[1]
      rows == IF saved.origin THEN ScrollRegionBounds(t) ELSE <<1, RowCount(t)>>
      cols == IF saved.origin THEN HorizontalMarginBounds(t) ELSE <<1, t.cols>>
  IN [t EXCEPT
       !.cursor[t.active] = [row |-> Clamp(saved.row, rows), col |-> Clamp(saved.col, cols),
                             latch |-> saved.latch, origin |-> saved.origin, saved |-> stash],
       !.pen[t.active] = saved.pen]

(* DECSTBM and DECSLRM: a range that is not one is ignored, the whole screen
   is no margin, and the cursor goes home. *)
SetScrollRegion(t, top, bottom) ==
  IF top >= bottom THEN t
  ELSE MoveCursorTo([t EXCEPT !.region[t.active] =
         IF top = 1 /\ bottom = RowCount(t) THEN <<>> ELSE <<top, bottom>>], 1, 1)

SetHorizontalMargins(t, left, right) ==
  IF left >= right THEN t
  ELSE MoveCursorTo([t EXCEPT !.margins[t.active] =
         IF left = 1 /\ right = t.cols THEN <<>> ELSE <<left, right>>], 1, 1)

ClearLeftRightMarginMode(t) ==
  [t EXCEPT
    !.cursor["primary"].latch = @ /\ t.margins["primary"] = <<>>,
    !.cursor["alternate"].latch = @ /\ t.margins["alternate"] = <<>>,
    !.margins = OnBoth(<<>>),
    !.marginMode = FALSE]

SetOriginMode(t, on) == MoveCursorTo([t EXCEPT !.cursor[t.active].origin = on], 1, 1)

ResetAlternateBuffer(t) ==
  [t EXCEPT !.grid["alternate"] = <<>>, !.altFill = Fill(t),
            !.region["alternate"] = <<>>, !.margins["alternate"] = <<>>,
            !.cursor["alternate"] = HomeCursor]

AllocateAlternateGrid(t) ==
  IF t.grid["alternate"] # <<>> THEN t
  ELSE [t EXCEPT !.grid["alternate"] =
          [r \in DOMAIN t.grid["primary"] |-> BlankRow(t.cols, t.altFill)]]

(* Mutant: `?1049 h` saves no cursor. *)
EnterAlternateScreenUnsaved(t) ==
  [AllocateAlternateGrid(ResetAlternateBuffer(t)) EXCEPT
     !.pen["alternate"] = t.pen["primary"], !.active = "alternate"]

(* `?1049 h`: the primary cursor saved, a fresh alternate screen entered. *)
EnterAlternateScreen(t) ==
  LET saved == [t EXCEPT !.cursor["primary"].saved = <<SavedCursor(t, "primary")>>,
                         !.pen["alternate"] = t.pen["primary"]]
      fresh == AllocateAlternateGrid(ResetAlternateBuffer(saved))
  IN [fresh EXCEPT !.cursor["alternate"].row = t.cursor["primary"].row,
                   !.cursor["alternate"].col = t.cursor["primary"].col,
                   !.active = "alternate"]

(* `?47 h` and `?1047 h`: the alternate screen as it was left. *)
SwitchToAlternate(t) ==
  [(IF t.active = "primary"
    THEN [AllocateAlternateGrid(t) EXCEPT !.pen["alternate"] = t.pen["primary"]] ELSE t)
     EXCEPT !.active = "alternate"]

LeaveAlternateScreen(t) ==
  IF t.active = "alternate" THEN [ResetAlternateBuffer(t) EXCEPT !.active = "primary"] ELSE t

(* One mode of a list; `start` is the screen the list found. *)
ApplyDecPrivateMode(t, set, mode, start) ==
  CASE set /\ mode \in {47, 1047} -> SwitchToAlternate(t)
    [] set /\ mode = 1049 -> IF start # "alternate" THEN EnterAlternateScreen(t) ELSE t
    [] set /\ mode = 1048 -> SaveCursor(t)
    [] ~set /\ mode = 47 -> [t EXCEPT !.active = "primary"]
    [] ~set /\ mode = 1047 -> LeaveAlternateScreen(t)
    [] ~set /\ mode = 1049 -> RestoreCursor(LeaveAlternateScreen(t))
    [] ~set /\ mode = 1048 -> RestoreCursor(t)
    [] set /\ mode = 69 -> [t EXCEPT !.marginMode = TRUE]
    [] ~set /\ mode = 69 -> ClearLeftRightMarginMode(t)
    [] mode = 6 -> SetOriginMode(t, set)
    [] mode = 7 -> [t EXCEPT !.autowrap = set]

ApplyModeList(t, list) ==
  LET apply[k \in 0..Len(list.modes)] ==
        IF k = 0 THEN ResetCluster(t)
        ELSE ApplyDecPrivateMode(apply[k - 1], list.set, list.modes[k], t.active)
  IN apply[Len(list.modes)]

SoftReset(t) ==
  LET cleared == ClearLeftRightMarginMode(
        [t EXCEPT !.cursor[t.active].latch = FALSE, !.cursor[t.active].origin = FALSE,
                  !.cursor[t.active].saved = <<>>, !.pen[t.active] = "plain",
                  !.region[t.active] = <<>>])
  IN [cleared EXCEPT !.insert = FALSE, !.autowrap = TRUE]

HardReset(t) == FromPtySize([rows |-> Len(t.grid["primary"]), cols |-> t.cols])

-----------------------------------------------------------------------------
(* Resizing *)

CropColumns(cells, cols, st) ==
  LET cropped == SubSeq(Pad(cells, cols, st), 1, cols)
  IN IF cropped[cols].w > 1 THEN Blanked(cropped, {cols}, st) ELSE cropped

(* The alternate screen has no history: rows drop off the top. *)
CropAlternate(rows, size, st) ==
  LET dropped == AtLeast(Len(rows) - size.rows, 0)
  IN IF rows = <<>> THEN <<>>
     ELSE [r \in 1..size.rows |->
             IF r + dropped <= Len(rows)
             THEN [rows[r + dropped] EXCEPT !.cells = CropColumns(@, size.cols, st)]
             ELSE BlankRow(size.cols, st)]

ReflowOf(t, size) ==
  ReflowPrimary(t.history, t.grid["primary"], t.cursor["primary"].row, t.cursor["primary"].col,
                size, t.pen["primary"], HistoryLimit)

ResizeTerminalState(t, size) ==
  LET dropped == AtLeast(Len(t.grid["primary"]) - size.rows, 0)
      alt == t.cursor["alternate"]
      With(r) ==
        [t EXCEPT
          !.cols = size.cols,
          !.history = r.history,
          !.grid = [primary |-> r.screen,
                    alternate |-> CropAlternate(@["alternate"], size, t.pen["alternate"])],
          !.cursor["primary"].row = r.row,
          !.cursor["primary"].col = r.col,
          !.cursor["primary"].latch = FALSE,
          !.cursor["alternate"].row = Clamp(alt.row - dropped, <<1, size.rows>>),
          !.cursor["alternate"].col = AtMost(alt.col, size.cols),
          !.cursor["alternate"].latch = FALSE,
          !.region = OnBoth(<<>>),
          !.margins = OnBoth(<<>>),
          !.cluster = NoCluster]
  IN With(ReflowOf(t, size))

-----------------------------------------------------------------------------
(* Actions: one operation each *)

Init ==
  /\ term = FromPtySize(FirstSize)
  /\ ops = 0 /\ margined = FALSE /\ entry = <<>>

(* The primary screen, its history, and its cursor and pen. *)
PrimaryOf(t) ==
  [rows |-> t.grid["primary"], history |-> t.history, cursor |-> SavedCursor(t, "primary")]

(* `t` is the terminal the operation leaves. *)
ApplyOver(group, t, kept) ==
  /\ group \in Ops
  /\ ops < MaxOps
  /\ ops' = ops + 1
  /\ term' = t
  /\ margined' = (margined \/ \E s \in Screens : t.margins[s] # <<>>)
  /\ entry' = IF t.active = "alternate" THEN kept ELSE <<>>

Apply(group, t) == ApplyOver(group, t, entry)

(* A control sequence ends the text run: its cluster takes no more marks. *)
Control(group, t) == Apply(group, ResetCluster(t))

Print_Text == \E text \in Texts : Apply("text", PrintText(term, text))

Print_Mark ==
  /\ term.cluster.width > 0 /\ term.cluster.marks < MaxMarks
  /\ \E width \in 1..2 : Apply("marks", ExtendCluster(term, width))

Linefeed == Control("text", ClearWrapLatch(ApplyLinefeed(term)))

Carriage_Return == Control("text", CarriageReturn(term))

Next_Line == Control("text", CarriageReturn(ApplyLinefeed(term)))

Back_Space == Control("move", Backspace(term))

Reverse_Index == Control("lines", ApplyReverseIndex(term))

Move_Cursor ==
  \E n \in Counts :
    \E t \in {CursorUp(term, n), CursorDown(term, n), CursorForward(term, n), CursorBack(term, n),
               CursorNextLine(term, n), CursorPreviousLine(term, n)} : Control("move", t)

Cursor_Position ==
  \E row \in 1..RowCount(term), col \in 1..term.cols :
    \E t \in {CursorPosition(term, row, col), CursorColumn(term, col), CursorRow(term, row)} :
      Control("position", t)

Erase_In_Display == \E mode \in 0..3 : Control("erase", EraseInDisplay(term, mode))

Erase_In_Line == \E mode \in 0..2 : Control("erase", EraseInLine(term, mode))

Erase_Characters == \E n \in Counts : Control("erase", EraseCharacters(term, n))

Edit_Cells ==
  \E n \in Counts, edit \in {"insert", "delete"} : Control("edit", EditCellsAtCursor(term, n, edit))

Edit_Lines ==
  LET region == ScrollRegionBounds(term)
      row == Cursor(term).row
  IN \E n \in Counts :
       \/ Control("lines", DeleteLinesIntoScrollback(term, region[1], region[2], n))
       \/ Control("lines", InsertLinesAt(term, region[1], region[2], n))
       \/ row \in region[1]..region[2] /\ Control("lines", DeleteLinesIntoScrollback(term, row, region[2], n))
       \/ row \in region[1]..region[2] /\ Control("lines", InsertLinesAt(term, row, region[2], n))

Set_Region ==
  \E top, bottom \in 1..RowCount(term) : Control("lines", SetScrollRegion(term, top, bottom))

Set_Margins ==
  /\ term.marginMode
  /\ \E left, right \in 1..term.cols : Control("margins", SetHorizontalMargins(term, left, right))

Set_Modes ==
  \E list \in ModeLists :
    LET enters == term.active = "primary" /\ list.set /\ 1049 \in Range(list.modes)
    IN ApplyOver("modes", ApplyModeList(term, list), IF enters THEN <<PrimaryOf(term)>> ELSE entry)

Insert_Mode == \E on \in BOOLEAN : Control("edit", [term EXCEPT !.insert = on])

Select_Pen == \E st \in Pens : Apply("pen", [term EXCEPT !.pen[term.active] = st])

Save_Cursor == Control("save", SaveCursor(term))

Restore_Cursor == Control("save", RestoreCursor(term))

Mark_Prompt == Control("prompt", MarkPrompt(term))

Soft_Reset == Control("reset", SoftReset(term))

Hard_Reset == Control("reset", HardReset(term))

Resize == \E size \in Sizes : ApplyOver("resize", ResizeTerminalState(term, size), <<>>)

Next ==
  \/ Print_Text \/ Print_Mark \/ Linefeed \/ Carriage_Return \/ Next_Line \/ Back_Space
  \/ Reverse_Index \/ Move_Cursor \/ Cursor_Position \/ Erase_In_Display \/ Erase_In_Line \/ Erase_Characters
  \/ Edit_Cells \/ Edit_Lines \/ Set_Region \/ Set_Margins \/ Set_Modes \/ Insert_Mode
  \/ Select_Pen \/ Save_Cursor \/ Restore_Cursor \/ Mark_Prompt \/ Soft_Reset \/ Hard_Reset
  \/ Resize

Spec == Init /\ [][Next]_vars

-----------------------------------------------------------------------------
(* Properties *)

IsRow(row, cols) ==
  /\ Len(row.cells) = cols /\ row.end \in RowEnds /\ row.prompt \in BOOLEAN
  /\ \A c \in 1..cols : row.cells[c].w \in 0..2 /\ row.cells[c].st \in Pens

(* The rows have the terminal's width, both screens its height, the history
   its limit, and cursors, margins and the cluster's base lie on the screen. *)
TypeOK ==
  LET rows == Len(term.grid["primary"])
  IN /\ term.cols \in Nat \ {0} /\ rows \in Nat \ {0}
     /\ \A s \in Screens :
          /\ Len(term.grid[s]) \in {rows} \cup (IF s = term.active THEN {} ELSE {0})
          /\ \A r \in DOMAIN term.grid[s] : IsRow(term.grid[s][r], term.cols)
          /\ term.cursor[s].row \in 1..rows /\ term.cursor[s].col \in 1..term.cols
          /\ term.region[s] # <<>> => 1 <= term.region[s][1] /\ term.region[s][1] < term.region[s][2]
                                      /\ term.region[s][2] <= rows
          /\ term.margins[s] # <<>> => 1 <= term.margins[s][1] /\ term.margins[s][1] < term.margins[s][2]
                                       /\ term.margins[s][2] <= term.cols
     /\ Len(term.history) <= HistoryLimit
     /\ \A i \in DOMAIN term.history : IsRow(term.history[i], term.cols)
     /\ term.cluster.row \in 0..rows /\ term.cluster.col \in 0..term.cols

PairsIntact(cells) ==
  \A c \in DOMAIN cells :
    /\ cells[c].w = 2 => c + 1 \in DOMAIN cells /\ cells[c + 1].w = 0
    /\ cells[c].w = 0 => c - 1 \in DOMAIN cells /\ cells[c - 1].w = 2

(* "A wide base is always immediately followed by a width-0 continuation, and
   a continuation always immediately follows a wide base" (glyph.rs,
   `normalize_wide_pairs`): through every print, edit, scroll and resize, on
   both screens and in history, until left/right margins are in force. *)
WidePairsIntact ==
  ~margined =>
    /\ \A s \in Screens : \A r \in DOMAIN term.grid[s] : PairsIntact(term.grid[s][r].cells)
    /\ \A i \in DOMAIN term.history : PairsIntact(term.history[i].cells)

(* `print_text` writes runs of ASCII at once, and leaves the screen, the cursor
   and the cluster as one `print` per character leaves them. *)
RunsPrintAsCharacters ==
  \A text \in Texts : PrintText(term, text) = FoldLeft(PrintCharacter, term, text)

(* What a reader sees in the rows from a cell on, "nl" where a line ends. *)
TextFrom(rows, row, col) ==
  LET Shown(r) == SubSeq(rows[r].cells, IF r = row THEN col ELSE 1, Len(rows[r].cells))
      Seen(r) == LET cells == SelectSeq(Shown(r), LAMBDA c : c.w > 0 /\ c.ch # " ")
                 IN [i \in DOMAIN cells |-> cells[i].ch]
                      \o (IF rows[r].end = "hard" THEN <<"nl">> ELSE <<>>)
      all == FlattenSeq([k \in 1..(Len(rows) - row + 1) |-> Seen(row + k - 1)])
  IN SubSeq(all, 1, MaxOf({0} \cup {i \in DOMAIN all : all[i] # "nl"}))

PhysicalRows == term.history \o term.grid["primary"]

(* A resize preserves the primary screen's contents (`resize_terminal_state`):
   the same text in the same lines, but for the oldest rows when the history
   is full.  Before left/right margins are in force. *)
ResizeKeepsText ==
  LET Kept(r, before, after) ==
        IF Len(r.history) < HistoryLimit THEN after = before ELSE IsSuffix(after, before)
      KeptBy(r) == Kept(r, TextFrom(PhysicalRows, 1, 1), TextFrom(r.history \o r.screen, 1, 1))
  IN ~margined => \A size \in Sizes : KeptBy(ReflowOf(term, size))

(* A resize that keeps the width, and keeps every row, gives the rows and the
   cursor that wrapping the lines again gives (`keep_primary_rows`). *)
KeptRowsAreRewrapped ==
  LET row == Len(term.history) + term.cursor["primary"].row
      col == term.cursor["primary"].col
  IN \A bg \in Pens :
       RowsAreKept(PhysicalRows, row, col, term.cols, bg) =>
         KeepPrimaryRows(PhysicalRows, row, col) = RewrapPrimaryRows(PhysicalRows, row, col, term.cols, bg)

(* "The cursor stays on its logical line at its content offset": the text from
   the cursor on is the same before and after lines are wrapped again, at two
   columns or more. *)
CursorKeepsItsCell ==
  LET row == Len(term.history) + term.cursor["primary"].row
      col == term.cursor["primary"].col
      OnItsCell(out) == TextFrom(out.rows, out.row, out.col) = TextFrom(PhysicalRows, row, col)
  IN \A size \in Sizes :
       size.cols >= 2 /\ ~margined =>
         OnItsCell(RewrapPrimaryRows(PhysicalRows, row, col, size.cols, term.pen["primary"]))

(* Leaving the alternate screen with `?1049 l` gives back the primary screen,
   its history, cursor and pen as `?1049 h` found them, whatever ran on the
   alternate screen. *)
PrimaryComesBack ==
  entry # <<>> => PrimaryOf(ApplyModeList(term, [set |-> FALSE, modes |-> <<1049>>])) = entry[1]

(* Rows, cursors and margins fit the screen, and no wide glyph is cut in half. *)
ScreenIsWellFormed == TypeOK /\ WidePairsIntact

(* A resize loses no text and leaves the cursor on its character. *)
ResizeKeepsContents == ResizeKeepsText /\ CursorKeepsItsCell
=============================================================================
