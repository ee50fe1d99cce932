------------------------------- MODULE Layout -------------------------------
(***************************************************************************)
(* PageLayout (src/layout.rs): where each page lies on the document's one  *)
(* vertical axis, and which pages a viewport meets.  A layout is a record  *)
(* [n, h, y, gap, total] over the pages 0 .. n - 1.  The searches are      *)
(* stated here by what they find; LayoutSearch checks the code's binary    *)
(* searches against these definitions.                                     *)
(***************************************************************************)
EXTENDS Integers, FiniteSets

Greater(a, b) == IF a > b THEN a ELSE b
Lesser(a, b) == IF a < b THEN a ELSE b

(* clamp of a value between two bounds, as i64::clamp.                     *)
Clamp(v, lo, hi) == IF v < lo THEN lo ELSE IF v > hi THEN hi ELSE v

(* build: heights already rounded and capped, offsets accumulate h + gap.  *)
Build(h, gap) ==
    LET n == Cardinality(DOMAIN h)
        y[i \in 0 .. n] == IF i = 0 THEN 0 ELSE y[i - 1] + h[i - 1] + gap
    IN  [n |-> n, h |-> h, gap |-> gap,
         y |-> [i \in 0 .. n - 1 |-> y[i]],
         total |-> IF n = 0 THEN 0 ELSE Greater(y[n] - gap, 0)]

PagesOf(l) == 0 .. l.n - 1
Bottom(l, p) == l.y[p] + l.h[p]

(* visible_pages: the pages whose rectangle meets [top, top + viewport).   *)
VisiblePages(l, top, viewport) ==
    {p \in PagesOf(l) : Bottom(l, p) > top /\ l.y[p] < top + viewport}

(* page_at: a gap belongs to the page above it, the end to the last page.  *)
PageAt(l, at) ==
    IF l.n = 0 \/ at < 0 THEN 0
    ELSE LET owners == {p \in PagesOf(l) : Bottom(l, p) + l.gap > at}
         IN  IF owners = {} THEN l.n - 1
             ELSE CHOOSE p \in owners : \A q \in owners : p <= q

ClampScroll(l, at, viewport) == Clamp(at, 0, Greater(l.total - viewport, 0))

(***************************************************************************)
(* visible_cell_height: rows of terminal cells a page gets on screen.  The *)
(* image is cut to whole cells, so a page that meets the viewport by less  *)
(* than a cell can get none.                                               *)
(***************************************************************************)
VisibleCellHeight(l, top, rows, p, cell) ==
    IF l.h[p] = 0 THEN 0
    ELSE LET srcTop == Greater(top - l.y[p], 0) \div cell
             dstTop == Greater(l.y[p] - top, 0) \div cell
         IN  Lesser(Greater(rows - dstTop, 0),
                    Greater((l.h[p] \div cell) - srcTop, 0))

(* Across a layout change the reading position is kept as a fraction of    *)
(* the current page, capped at its end when it was in the gap below.       *)
RestoredScroll(old, new, at, viewport) ==
    LET p == PageAt(old, at)
        local == Clamp(at - old.y[p], 0, old.h[p])
    IN  ClampScroll(new, new.y[p] + (local * new.h[p]) \div Greater(old.h[p], 1), viewport)

=============================================================================
