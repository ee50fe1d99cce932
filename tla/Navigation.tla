----------------------------- MODULE Navigation -----------------------------
(***************************************************************************)
(* Where the reader is in the document and how it gets elsewhere (app.rs): *)
(* scrolling, pages, zoom, sections, marks, links, search hits, the list   *)
(* of jumps, and the place that the session file keeps.                    *)
(*                                                                         *)
(* The methods are operators on a record                                   *)
(*   key       the zoom level and colour that are asked for                *)
(*   laid      those of the layout in use: the next frame catches up       *)
(*   rows      height of the viewport in rows of cells, as last drawn      *)
(*   scroll    scroll_y_px                                                 *)
(*   jumps     jumplist, of points [page, frac]                            *)
(*   jumpIdx   from 0                                                      *)
(*   marks     the pages of the marks that are set                         *)
(* A fraction of a page's height is a number of 0 .. FracScale, finer than *)
(* a pixel: an f32 has 24 bits for a page of some thousand pixels.         *)
(***************************************************************************)
EXTENDS Layout, Sequences, SequencesExt

CONSTANTS
    KeyLayouts,      \* the layout of each layout key 0, 1, ...
    CellPx,          \* height of a cell
    FracScale,
    MaxJumps,        \* MAX_JUMPS
    MarkNames,
    Sections,        \* outline_pages_sorted, as a set
    References       \* {the page of the references section}, or {}

ASSUME NavigationAssumption ==
    /\ 0 \in DOMAIN KeyLayouts
    /\ KeyLayouts[0].n \in Nat \ {0}
    /\ \A k \in DOMAIN KeyLayouts :
          LET l == KeyLayouts[k]
          IN  /\ l.h \in [0 .. KeyLayouts[0].n - 1 -> 0 .. FracScale] /\ l.gap \in Nat
              /\ l = Build(l.h, l.gap)
    /\ {CellPx, FracScale, MaxJumps} \subseteq Nat \ {0}
    /\ Sections \cup References \subseteq PagesOf(KeyLayouts[0])

LongPages == 2       \* moves over this many pages are jumps

NavPages == PagesOf(KeyLayouts[0])
LastPage == KeyLayouts[0].n - 1
LayoutKeys == DOMAIN KeyLayouts

Laid(n) == KeyLayouts[n.laid]
ViewportOf(n) == n.rows * CellPx
NavClamp(n, at) == ClampScroll(Laid(n), at, ViewportOf(n))

(* current_page, leading_page: at the middle and at the top of the viewport *)
CurrentPage(n) == PageAt(Laid(n), n.scroll + ViewportOf(n) \div 2)
LeadingPage(n) == PageAt(Laid(n), n.scroll)

JumpPoints == [page : NavPages, frac : 0 .. FracScale]

(* current_jump_point: above the current page counts as its top.           *)
JumpPointOf(n) ==
    LET p == CurrentPage(n)
        h == Laid(n).h[p]
    IN  [page |-> p,
         frac |-> IF h = 0 THEN 0
                  ELSE (Clamp(n.scroll - Laid(n).y[p], 0, h) * FracScale) \div h]

(* The scroll position of a point in the layout in use                     *)
ScrollOf(n, point) ==
    LET p == Lesser(point.page, LastPage)
    IN  NavClamp(n, Laid(n).y[p] + (point.frac * Laid(n).h[p]) \div FracScale)

GotoJumpPoint(n, point) == [n EXCEPT !.scroll = ScrollOf(n, point)]

(* Mutant: the forward history stays.                                      *)
PushJumpAtEnd(n, point) ==
    LET list == IF n.jumps # <<>> /\ Last(n.jumps) = point THEN n.jumps
                ELSE Append(n.jumps, point)
    IN  [n EXCEPT !.jumps = list, !.jumpIdx = Len(list)]

(* push_jump: forward history goes, the oldest go beyond MaxJumps.         *)
PushJump(n, point) ==
    LET kept == SubSeq(n.jumps, 1, Lesser(n.jumpIdx, Len(n.jumps)))
        list == IF kept # <<>> /\ Last(kept) = point THEN kept ELSE Append(kept, point)
        recent == SubSeq(list, Greater(Len(list) - MaxJumps, 0) + 1, Len(list))
    IN  [n EXCEPT !.jumps = recent, !.jumpIdx = Len(recent)]

GotoPageNoRecord(n, page) ==
    [n EXCEPT !.scroll = NavClamp(n, Laid(n).y[Lesser(page, LastPage)])]

IsBigMove(n, page) ==
    LET from == CurrentPage(n) IN Greater(from - page, page - from) >= LongPages

(* goto_page; last_page and first_page (to the top of page 0) are of the   *)
(* same form.                                                              *)
GotoPage(n, page) ==
    LET p == Lesser(page, LastPage)
    IN  GotoPageNoRecord(IF IsBigMove(n, p) THEN PushJump(n, JumpPointOf(n)) ELSE n, p)

NextPage(n, count) == GotoPage(n, LeadingPage(n) + Greater(count, 1))
PrevPage(n, count) == GotoPage(n, Greater(LeadingPage(n) - Greater(count, 1), 0))

(* first_page goes to the start, which the clamp would allow anyway.       *)
FirstPage(n) ==
    [(IF CurrentPage(n) >= LongPages THEN PushJump(n, JumpPointOf(n)) ELSE n)
       EXCEPT !.scroll = 0]

(* jump_section: {} without a section on that side                         *)
SectionTarget(n, forward) ==
    LET here == CurrentPage(n)
        side == {p \in Sections : IF forward THEN p > here ELSE p < here}
    IN  {p \in side : \A q \in side : IF forward THEN p <= q ELSE p >= q}

JumpTo(n, targets) == IF targets = {} THEN n ELSE GotoPage(n, CHOOSE p \in targets : TRUE)

JumpSection(n, forward) == JumpTo(n, SectionTarget(n, forward))
JumpToReferences(n) == JumpTo(n, References)

SetMark(n, m) == [n EXCEPT !.marks = (m :> CurrentPage(n)) @@ @]
JumpToMark(n, m) ==
    JumpTo(n, IF m \in DOMAIN n.marks THEN {n.marks[m]} \cap NavPages ELSE {})

(* activate_link for a link within the document: it notes the place unless *)
(* the link leads to the current page.  Hints use goto_page instead.       *)
ActivateLink(n, target) ==
    LET from == JumpPointOf(n)
        p == Lesser(target, LastPage)
    IN  GotoPageNoRecord(IF from.page # p THEN PushJump(n, from) ELSE n, p)

(* jump_back: the first step back notes the place it leaves, without       *)
(* moving the index.                                                       *)
JumpBack(n) ==
    LET here == JumpPointOf(n)
        list == IF n.jumpIdx = Len(n.jumps) /\ Last(n.jumps) # here
                THEN Append(n.jumps, here) ELSE n.jumps
    IN  IF n.jumps = <<>> THEN n
        ELSE IF n.jumpIdx = 0 THEN [n EXCEPT !.jumps = list]
        ELSE GotoJumpPoint([n EXCEPT !.jumps = list, !.jumpIdx = @ - 1], list[n.jumpIdx])

JumpForward(n) ==
    IF n.jumpIdx + 1 >= Len(n.jumps) THEN n
    ELSE GotoJumpPoint([n EXCEPT !.jumpIdx = @ + 1], n.jumps[n.jumpIdx + 2])

ScrollByPx(n, dy) == [n EXCEPT !.scroll = NavClamp(n, n.scroll + dy)]

(* scroll_to_current_hit: a third of the viewport below the top.  A hit is *)
(* a point too.                                                            *)
ScrollToHit(n, hit) ==
    LET at == Laid(n).y[hit.page] + (hit.frac * Greater(Laid(n).h[hit.page], 1)) \div FracScale
    IN  [n EXCEPT !.scroll = NavClamp(n, Greater(at - ViewportOf(n) \div 3, 0))]

(* zoom_by, zoom_reset, toggle_dark; and what the next frame makes of it   *)
(* in ensure_layout, with the size that the terminal then has              *)
ChangeKey(n, k) == [n EXCEPT !.key = k]

Relaid(n, rows) ==
    LET sized == [n EXCEPT !.rows = rows]
    IN  IF n.laid = n.key THEN [sized EXCEPT !.scroll = NavClamp(sized, @)]
        ELSE [sized EXCEPT !.laid = n.key,
                !.scroll = RestoredScroll(Laid(n), KeyLayouts[n.key], n.scroll, ViewportOf(sized))]

----------------------------------------------------------------------------
(* The session file: persist_session; and the first frame after a start    *)
(* that reads it                                                           *)

Persisted(n) == [point |-> JumpPointOf(n), key |-> n.key, marks |-> n.marks]

StartFrom(saved, rows) ==
    GotoJumpPoint([key |-> saved.key, laid |-> saved.key, rows |-> rows, scroll |-> 0,
                   jumps |-> <<>>, jumpIdx |-> 0, marks |-> saved.marks], saved.point)

NoSession == [point |-> [page |-> 0, frac |-> 0], key |-> 0, marks |-> <<>>]

----------------------------------------------------------------------------
(* Properties of a position, for whatever was done before                  *)

(***************************************************************************)
(* The point that is noted returns the reader "to the EXACT scroll         *)
(* position" (app.rs:136) if the view's top is on the current page, up to  *)
(* the pixel that rounding the fraction may take.  The current page is the *)
(* one at the middle of the view, though: if the top is above it the       *)
(* fraction is clamped, and the reader gets to that page's top; if the top *)
(* is already in the gap below it, to its end.                             *)
(***************************************************************************)
Regains(n, at) ==
    LET p == CurrentPage(n)
        top == Laid(n).y[p]
        end == Bottom(Laid(n), p)
    IN  /\ n.scroll \in top .. end => at \in {n.scroll - 1, n.scroll}
        /\ n.scroll < top => at = NavClamp(n, top)
        /\ n.scroll > end => at = end

(* "Record the source on the jumplist for `<C-o>` round-trip"              *)
(* (app.rs:1270) from wherever the reader is, whatever it did before:      *)
(* after a recorded move Ctrl-O regains the place it left, and, if the     *)
(* move led to another point at all, Ctrl-I regains the place it had led   *)
(* to and Ctrl-O again that of the first, in the layout of the moment.     *)
(* The list holds at most one entry more than MaxJumps and never the same  *)
(* point twice in a row.                                                   *)
JumpsRoundTrip(n) ==
    /\ n.jumpIdx <= Len(n.jumps) /\ Len(n.jumps) <= MaxJumps + 1
    /\ \A i \in 1 .. Len(n.jumps) - 1 : n.jumps[i] # n.jumps[i + 1]
    /\ \A p \in NavPages : IsBigMove(n, p) =>
         LET moved == GotoPage(n, p)
             back == JumpBack(moved)
             forth == JumpForward(back)
         IN  /\ Regains(n, back.scroll)
             /\ JumpPointOf(moved) # JumpPointOf(n) =>
                  /\ Regains(moved, forth.scroll)
                  /\ JumpBack(forth).scroll = back.scroll

=============================================================================
