-------------------------------- MODULE Toc --------------------------------
(***************************************************************************)
(* The outline panel (app.rs, outline.rs): a filtered list with a cursor,  *)
(* in a popup that shows some rows of it.  The methods are operators on a  *)
(* record [open, filter, editing, cursor, scroll]; rows is the height of   *)
(* the image area, and rows of the list count from 0.                      *)
(***************************************************************************)
EXTENDS Integers, Sequences, SequencesExt, FiniteSets, FiniteSetsExt

CONSTANTS
    Outline,       \* entries [title, pages], the title a sequence of letters,
                   \* pages its page as a set: {} without one
    WheelRows      \* TOC_WHEEL_ROWS

ASSUME TocAssumption ==
    /\ WheelRows \in Nat
    /\ Outline \in Seq([title : Seq(STRING), pages : SUBSET Nat])

NoToc == [open |-> FALSE, filter |-> <<>>, editing |-> FALSE, cursor |-> 0, scroll |-> 0]

(* is_subsequence, fuzzy_filter (both sides in lower case)                 *)
IsSubsequence(needle, hay) ==
    LET found[i \in 0 .. Len(hay)] ==
            IF i = 0 THEN 0
            ELSE LET n == found[i - 1]
                 IN  IF n < Len(needle) /\ needle[n + 1] = hay[i] THEN n + 1 ELSE n
    IN  found[Len(hay)] = Len(needle)

(* The entries the filter keeps, by their place in the outline             *)
Filtered(t) ==
    LET upTo[i \in 0 .. Len(Outline)] ==
            IF i = 0 THEN <<>>
            ELSE IF IsSubsequence(t.filter, Outline[i].title)
              THEN Append(upTo[i - 1], i) ELSE upTo[i - 1]
    IN  upTo[Len(Outline)]

(* The rows within the border                                              *)
TocBody(rows) == Max({rows - 2, 0})
MaxTocScroll(t, rows) == Max({Len(Filtered(t)) - TocBody(rows), 0})

Between(v, lo, hi) == Max({lo, Min({v, hi})})

(* toggle_toc: opens only with an outline                                  *)
ToggleToc(t) ==
    IF t.open THEN [t EXCEPT !.open = FALSE, !.editing = FALSE]
    ELSE IF Outline = <<>> THEN t ELSE [NoToc EXCEPT !.open = TRUE]

(* toc_ensure_cursor_visible                                               *)
CursorVisible(t, rows) ==
    IF TocBody(rows) = 0 THEN t
    ELSE IF t.cursor < t.scroll THEN [t EXCEPT !.scroll = t.cursor]
    ELSE IF t.cursor >= t.scroll + TocBody(rows)
      THEN [t EXCEPT !.scroll = t.cursor + 1 - TocBody(rows)]
    ELSE t

(* toc_move, toc_jump_to_top, toc_jump_to_bottom                           *)
TocMove(t, delta, rows) ==
    IF Filtered(t) = <<>> THEN t
    ELSE CursorVisible([t EXCEPT !.cursor = Between(@ + delta, 0, Len(Filtered(t)) - 1)], rows)

TocTop(t) == [t EXCEPT !.cursor = 0, !.scroll = 0]

TocBottom(t, rows) ==
    CursorVisible([t EXCEPT !.cursor = IF Filtered(t) = <<>> THEN @ ELSE Len(Filtered(t)) - 1],
                  rows)

(* toc_scroll_by: the wheel leaves the cursor behind.                      *)
TocWheel(t, delta, rows) ==
    IF Filtered(t) = <<>> \/ TocBody(rows) = 0 THEN t
    ELSE [t EXCEPT !.scroll = Between(@ + delta, 0, MaxTocScroll(t, rows))]

(* toc_filter_start, _push, _pop, _finish; Ctrl-U and Esc clear the filter *)
(* and leave cursor and scroll alone.                                      *)
FilterStart(t) == TocTop([t EXCEPT !.filter = <<>>, !.editing = TRUE])
FilterPush(t, c) == TocTop([t EXCEPT !.filter = Append(@, c)])
FilterPop(t) == TocTop([t EXCEPT !.filter = IF @ = <<>> THEN @ ELSE Front(@)])
FilterClear(t) == [t EXCEPT !.filter = <<>>]
FilterFinish(t) == [t EXCEPT !.editing = FALSE]

(* draw_toc clamps the scroll and shows these entries.                     *)
DrawnToc(t, rows) ==
    IF t.open THEN [t EXCEPT !.scroll = Min({@, MaxTocScroll(t, rows)})] ELSE t

TocWindow(t, rows) ==
    SubSeq(Filtered(t), t.scroll + 1, Min({t.scroll + TocBody(rows), Len(Filtered(t))}))

(* toc_row_to_display_idx: {} on the border and below the last entry       *)
RowToIndex(t, row, rows) ==
    {t.scroll + row - 1} \cap
      (IF row >= 1 /\ row - 1 < TocBody(rows) THEN 0 .. Len(Filtered(t)) - 1 ELSE {})

(* The page that toc_activate goes to, if any; then the panel closes.      *)
TocTarget(t) ==
    IF t.cursor >= Len(Filtered(t)) THEN {} ELSE Outline[Filtered(t)[t.cursor + 1]].pages

(* toc_activate; toc_click_row                                             *)
Activated(t) ==
    IF TocTarget(t) = {} THEN t ELSE [t EXCEPT !.open = FALSE, !.editing = FALSE]

ClickRow(t, row, rows) ==
    IF RowToIndex(t, row, rows) = {} THEN t
    ELSE [t EXCEPT !.cursor = CHOOSE i \in RowToIndex(t, row, rows) : TRUE]

----------------------------------------------------------------------------
(* "cursor moves should always keep the cursor on screen" (app.rs:2338):   *)
(* whatever the wheel, the filter and a resize did before, the entry that  *)
(* a key makes current is one of the list and is drawn; and a click takes  *)
(* the entry that is drawn in its row.                                     *)
PanelSound(t, rows) ==
    t.open =>
      LET list == Filtered(t)
          Shown(u) == u.cursor \in u.scroll .. u.scroll + TocBody(rows) - 1
          drawn == DrawnToc(t, rows)
      IN  /\ list # <<>> => t.cursor < Len(list)
          /\ list # <<>> /\ TocBody(rows) > 0 =>
               \A u \in {TocMove(t, 1, rows), TocMove(t, -1, rows), TocTop(t), TocBottom(t, rows)} :
                  Shown(u) /\ Shown(DrawnToc(u, rows))
          /\ \A row \in 0 .. rows - 1 : \A i \in RowToIndex(drawn, row, rows) :
               Filtered(drawn)[i + 1] = TocWindow(drawn, rows)[row]

=============================================================================
