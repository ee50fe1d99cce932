------------------------------ MODULE Placement ------------------------------
(***************************************************************************)
(* The last part of a frame (src/ui.rs, src/kitty_pages.rs): where pages   *)
(* go in the image area, what clear_page_area and place_page write into    *)
(* ratatui's buffer, and what the terminal's grid shows after ratatui has  *)
(* written the cells that differ from the frame before.                    *)
(*                                                                         *)
(* Cells are numbered along the rows.  A row of a page is one symbol in    *)
(* its first cell; the cells right of it are marked skip and are painted   *)
(* by that symbol.  The transmit that may ride in a symbol is left out: it *)
(* only makes symbols differ.                                              *)
(***************************************************************************)
EXTENDS Layout, FiniteSetsExt, Sequences

CONSTANTS
    Zooms,           \* [layout, width]: a document laid out, its width in cells
    ScrollsTried,    \* bound: scroll positions
    AreaRows, AreaCols, CellPixels,
    DiacriticCap,    \* MAX_COLS (297): rows and columns the protocol can address
    EscapeWidth,     \* printable characters of an escape, as ratatui counts them
    LabelLength      \* characters of the loading label

ASSUME PlacementAssumption ==
    /\ AreaRows \in Nat \ {0} /\ AreaCols \in Nat \ {0} /\ CellPixels \in Nat \ {0}
    /\ DiacriticCap \in Nat \ {0} /\ LabelLength \in Nat
    /\ EscapeWidth \in Nat /\ EscapeWidth >= AreaCols

(* The diff leaves out the cell after a wide symbol.  Left out are thus    *)
(* documents that put something else there: pages that begin in the second *)
(* cell, labels as long as their page, and pages panned to their last      *)
(* column with a number, of which one cell is left.                        *)
ASSUME ZoomsAssumption ==
    \A z \in Zooms :
      /\ z.layout.n \in Nat /\ z.width \in Nat
      /\ \A p \in PagesOf(z.layout) : z.layout.y[p] \in Int /\ z.layout.h[p] \in Nat
      /\ AreaCols > 1 /\ AreaCols - z.width \notin {2, 3}
      /\ Lesser(z.width, AreaCols) - LabelLength \notin {2, 3}
      /\ z.width > 1 => DiacriticCap > Greater(z.width - AreaCols, 0) + 1

VARIABLES
    doc,             \* the document and its zoom
    shot,            \* what the last frame showed
    last_placed,     \* PlaceScratch::last_placed: page -> its last rectangle
    previous,        \* ratatui's buffer of the last frame
    grid             \* external: what the terminal shows

placeVars == <<doc, shot, last_placed, previous, grid>>

CellIds == 0 .. AreaRows * AreaCols - 1
RowOf(i) == i \div AreaCols
ColOf(i) == i % AreaCols
FirstCell(y) == y * AreaCols

CellsOf(r) ==
    {i \in CellIds : /\ r.left <= ColOf(i) /\ ColOf(i) < r.left + r.width
                     /\ r.top <= RowOf(i) /\ RowOf(i) < r.top + r.height}

----------------------------------------------------------------------------
(* Geometry of a frame.  shot: [scroll, pan, active, kind], with pan the   *)
(* source column and active the pages with a placement.                    *)

InLayoutView(s) == VisiblePages(doc.layout, s.scroll, AreaRows * CellPixels)

RowsInView(s, p) == VisibleCellHeight(doc.layout, s.scroll, AreaRows, p, CellPixels)

Visible(s) == {p \in InLayoutView(s) : RowsInView(s, p) > 0}

Overflow == Greater(doc.width - AreaCols, 0)
LeftCell == (Greater(AreaCols - doc.width, 0)) \div 2

(* The source cell is capped where the table of diacritics ends, and so is *)
(* the number of rows and columns from there.                              *)
SourceRow(s, p) ==
    Lesser(Greater(s.scroll - doc.layout.y[p], 0) \div CellPixels, DiacriticCap - 1)
SourceCol(s) == Lesser(s.pan, DiacriticCap - 1)

PlaceRect(s, p) ==
    [left |-> LeftCell,
     top |-> Greater(doc.layout.y[p] - s.scroll, 0) \div CellPixels,
     width |-> Min({doc.width - SourceCol(s), AreaCols - LeftCell,
                    DiacriticCap - SourceCol(s)}),
     height |-> Lesser(RowsInView(s, p), DiacriticCap - SourceRow(s, p))]

----------------------------------------------------------------------------
(* The buffer                                                              *)

Symbol(kind) == [sym |-> [kind |-> kind], skip |-> FALSE]
EmptyCell == Symbol("empty")
ClearCell == Symbol("clear")
FilledCell == Symbol("filled")
LabelCell(p) == [sym |-> [kind |-> "label", page |-> p], skip |-> FALSE]
RowCell(p, row, col, width) ==
    [sym |-> [kind |-> "row", page |-> p, row |-> row, col |-> col, width |-> width],
     skip |-> FALSE]

(* Terminal::draw hands every frame a buffer that was reset.               *)
FreshBuffer == [i \in CellIds |-> EmptyCell]

(* The cells of pages in view, where they were last placed, are left alone.*)
ClearPageArea(buf, preserve) ==
    LET kept == UNION {CellsOf(last_placed[p]) : p \in preserve \cap DOMAIN last_placed}
    IN  [i \in CellIds |-> IF i \in kept THEN buf[i]
                           ELSE IF ColOf(i) = 0 THEN ClearCell ELSE EmptyCell]

(* Mutant: the rectangles of other pages are not asked.                    *)
WipedBlindly(placed, p, new) ==
    IF p \notin DOMAIN placed THEN {} ELSE CellsOf(placed[p]) \ CellsOf(new)

(* The cells a page has moved away from, but for those another page has.   *)
Wiped(placed, p, new) ==
    IF p \notin DOMAIN placed THEN {}
    ELSE CellsOf(placed[p]) \ (CellsOf(new) \cup
                                 UNION {CellsOf(placed[q]) : q \in DOMAIN placed \ {p}})

PlacePage(s, m, p) ==
    LET new == PlaceRect(s, p)
        own == CellsOf(new)
        wiped == Wiped(m.placed, p, new)
        row(i) == IF ColOf(i) = new.left
                    THEN RowCell(p, SourceRow(s, p) + RowOf(i) - new.top, SourceCol(s), new.width)
                    ELSE [sym |-> m.buf[i].sym, skip |-> TRUE]
    IN  IF new.width = 0 \/ new.height = 0 THEN m
        ELSE [placed |-> [q \in DOMAIN m.placed \cup {p} |->
                            IF q = p THEN new ELSE m.placed[q]],
              buf |-> [i \in CellIds |-> IF i \in own THEN row(i)
                                        ELSE IF i \in wiped THEN EmptyCell ELSE m.buf[i]]]

(* paint_loading_indicator: a label in the middle of the page's strip. The *)
(* spaces around it are left out.                                          *)
LabelCells(s, p) ==
    LET bottom == doc.layout.y[p] + doc.layout.h[p] - s.scroll
        top == Lesser(Greater(doc.layout.y[p] - s.scroll, 0) \div CellPixels, AreaRows)
        below == Lesser((Greater(bottom, 0) + CellPixels - 1) \div CellPixels, AreaRows)
        width == Lesser(doc.width, AreaCols - LeftCell)
        start == LeftCell + (width - LabelLength - 2) \div 2 + 1
        middle == top + (below - top) \div 2
    IN  IF below <= top \/ middle >= AreaRows \/ LabelLength + 2 > width THEN {}
        ELSE FirstCell(middle) + start .. FirstCell(middle) + start + LabelLength - 1

Waiting(s) == Visible(s) \ s.active

(* Labels are painted in the order of their pages, the last one on top.    *)
PaintLabels(s, buf) ==
    [i \in CellIds |->
       LET labelled == {p \in Waiting(s) : i \in LabelCells(s, p)}
       IN  IF labelled = {} THEN buf[i] ELSE LabelCell(Max(labelled))]

(* The loop over the pages in view, those with a placement.                *)
PlacePages(s) ==
    LET after[k \in 0 .. doc.layout.n] ==
          IF k = 0 THEN [buf |-> ClearPageArea(FreshBuffer, InLayoutView(s)),
                         placed |-> last_placed]
          ELSE IF k - 1 \in s.active THEN PlacePage(s, after[k - 1], k - 1)
          ELSE after[k - 1]
    IN  after[doc.layout.n]

(* The placement section of draw_pages_kitty_inner; a frame that shows no  *)
(* page by a whole cell returns before it, one under a popup only fills    *)
(* the area.                                                               *)
Drawn(s) ==
    IF s.kind = "popup"
      THEN [buf |-> [i \in CellIds |-> FilledCell], placed |-> last_placed]
    ELSE IF Visible(s) = {} THEN [buf |-> FreshBuffer, placed |-> last_placed]
    ELSE LET m == PlacePages(s)
         IN  [buf |-> PaintLabels(s, m.buf), placed |-> m.placed]

----------------------------------------------------------------------------
(* ratatui and the terminal.  Buffer::diff walks the cells in order: it    *)
(* leaves out cells marked skip, the one cell after a symbol wider than a  *)
(* cell, and cells equal to the last frame's, except that a wide symbol,   *)
(* old or new, makes as many cells after it count as changed.              *)

SymbolWidth(c) ==
    CASE c.sym.kind = "clear" -> AreaCols + EscapeWidth
      [] c.sym.kind = "row" -> c.sym.width + EscapeWidth
      [] OTHER -> 1

Written(old, new) ==
    LET Reach(j) == Greater(SymbolWidth(old[j]), SymbolWidth(new[j]))
    IN  {i \in CellIds :
           /\ ~new[i].skip
           /\ new[i] # old[i] \/ \E j \in 0 .. i - 1 : Reach(j) > i - j
           /\ i > 0 => SymbolWidth(new[i - 1]) = 1}

(* A row's escape paints its placeholders, the clearing one a row of       *)
(* spaces; both then park the cursor.                                      *)
Painted(buf, i) ==
    CASE buf[i].sym.kind = "clear" -> i .. i + AreaCols - 1
      [] buf[i].sym.kind = "row" -> i .. i + buf[i].sym.width - 1
      [] OTHER -> {i}

Bare == <<>>
Placeholder(p, row, col) == <<p, row, col>>
Loading(p) == <<p>>

Look(sym, offset) ==
    CASE sym.kind = "row" -> Placeholder(sym.page, sym.row, sym.col + offset)
      [] sym.kind = "label" -> Loading(sym.page)
      [] OTHER -> Bare

Flushed(old, new) ==
    LET written == Written(old, new)
        ShownAt(i) ==
            LET by == {j \in written : i \in Painted(new, j)}
            IN  IF by = {} THEN grid[i] ELSE Look(new[Max(by)].sym, i - Max(by))
    IN  [i \in CellIds |-> ShownAt(i)]

----------------------------------------------------------------------------
NoShot == [kind |-> "popup", scroll |-> 0, pan |-> 0, active |-> {}]

Shots ==
    {[kind |-> "pages", scroll |-> y, pan |-> x, active |-> a] :
       y \in ScrollsTried \cap 0 .. Greater(doc.layout.total - AreaRows * CellPixels, 0),
       x \in 0 .. Overflow, a \in SUBSET PagesOf(doc.layout)}
      \cup {NoShot}

PlaceInit ==
    /\ doc \in Zooms
    /\ shot = NoShot
    /\ last_placed = [p \in {} |-> 0]
    /\ previous = FreshBuffer
    /\ grid = [i \in CellIds |-> Bare]

(* evict_to_budget forgets the rectangles of the pages it evicts, which    *)
(* are never those in the layout's view.                                   *)
Forget(placed, evicted) == [p \in DOMAIN placed \ evicted |-> placed[p]]

ShowFrame ==
    \E s \in Shots :
      /\ s.active \subseteq Visible(s)
      /\ LET drawn == Drawn(s)
         IN  /\ \E evicted \in SUBSET (IF Visible(s) = {} THEN {}
                                       ELSE DOMAIN drawn.placed \ InLayoutView(s)) :
                  last_placed' = Forget(drawn.placed, evicted)
             /\ previous' = drawn.buf
             /\ grid' = Flushed(previous, drawn.buf)
      /\ shot' = s
      /\ UNCHANGED doc

PlaceNext == ShowFrame

PlaceSpec == PlaceInit /\ [][PlaceNext]_placeVars

----------------------------------------------------------------------------
(* What the frame is meant to show: every page at its place, the lower one *)
(* where rounding makes two meet in a row, labels on top, and nothing of   *)
(* any frame before.                                                       *)
Meant(s, i) ==
    LET labelled == {p \in Waiting(s) : i \in LabelCells(s, p)}
        pages == {p \in s.active : i \in CellsOf(PlaceRect(s, p))}
    IN  IF s.kind = "popup" THEN Bare
        ELSE IF labelled # {} THEN Loading(Max(labelled))
        ELSE IF pages = {} THEN Bare
        ELSE LET p == Max(pages)
                 r == PlaceRect(s, p)
             IN  Placeholder(p, SourceRow(s, p) + RowOf(i) - r.top,
                             SourceCol(s) + ColOf(i) - r.left)

(* A label that was painted over a page's row and is gone: the cell is     *)
(* marked skip again, so it is only written with the row.                  *)
LabelLeft(i) == Len(grid[i]) = 1 /\ Len(Meant(shot, i)) = 3

(* Whatever was on the terminal before, and although only cells that       *)
(* differ are written: the grid shows this frame and no placeholder of an  *)
(* earlier one ("Cells the placement loop doesn't reach end up cleared",   *)
(* kitty_pages.rs:1546; "Without an explicit clear, they'd render the page *)
(* at TWO positions", kitty_pages.rs:1348).  Labels left on a page's row   *)
(* are excepted.                                                           *)
GridShowsFrame == \A i \in CellIds : grid[i] = Meant(shot, i) \/ LabelLeft(i)

OnGrid(g, p) == \E i \in CellIds : Len(g[i]) = 3 /\ g[i][1] = p

(* "placeholders stay in the buffer, ratatui's diff sees no change, no     *)
(* clearing escapes hit the wire" (kitty_pages.rs:3367): a page that stays *)
(* in the layout's view, but by less than a cell, keeps its placeholders,  *)
(* so that the terminal does not drop its image.                           *)
ClippedKeepPlaceholders ==
    [][\A p \in InLayoutView(shot') \ Visible(shot') :
         shot'.kind = "pages" /\ Visible(shot') # {} /\ p \in DOMAIN last_placed /\ OnGrid(grid, p)
           => \/ OnGrid(grid', p)
              \/ CellsOf(last_placed[p]) \subseteq
                   UNION {CellsOf(PlaceRect(shot', q)) : q \in shot'.active}]_placeVars

=============================================================================
