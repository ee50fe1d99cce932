------------------------------ MODULE MCInput ------------------------------
(***************************************************************************)
(* Input for TLC: a document of four pages in two layouts, the second at   *)
(* half the size.  Pages 0 to 2 have text, page 3 is an image.             *)
(* Its parts, each with what the others leave out:                         *)
(*   "travel"  where the reader is, with the jump list, on the keyboard     *)
(*   "panels"  the modes, on one layout and without ranges selected        *)
(*   "select"  selections with keys and mouse, between frames              *)
(***************************************************************************)
EXTENDS Input

CONSTANT MaxModeJumps        \* bound: jumps noted outside "travel"

VARIABLE part

FourPages(h) == Build([p \in 0 .. 3 |-> h], 2)
TwoSizes == [k \in 0 .. 1 |-> FourPages(4 \div (k + 1))]

(* Text pages of four by four units: characters of one unit                *)
At(ch, column, row) ==
    [ch |-> ch, left |-> column, right |-> column + 1, top |-> PageHeight - row,
     bottom |-> PageHeight - row - 1, finite |-> TRUE, generated |-> FALSE]
SmallTexts ==
    [p \in 0 .. 2 |->
       PageText(CASE p = 0 -> <<At("a", 0, 0), At("b", 2, 0)>>
                  [] p = 1 -> <<At("a", 0, 1)>>
                  [] p = 2 -> <<At("b", 2, 2)>>)]

LinkBox(column, row, action) == [x |-> column, y |-> row, w |-> 1, h |-> 1, action |-> action]
SmallLinks ==
    [p \in 0 .. 3 |->
       CASE p = 0 -> <<LinkBox(2, 0, GoToPage(2))>>
         [] p = 1 -> <<LinkBox(0, 1, [kind |-> "url"])>>
         [] OTHER -> <<>>]

SmallOutline ==
    <<[title |-> <<"a">>, pages |-> {2}], [title |-> <<"b">>, pages |-> {}],
      [title |-> <<"a", "b">>, pages |-> {0}]>>

SmallQueries ==
    [q \in {"a", "b"} |->
       IF q = "b" THEN <<>>
       ELSE <<[page |-> 0, frac |-> 0], [page |-> 2, frac |-> 2]>>]

SmallDigits == [k \in {"0", "3"} |-> IF k = "0" THEN 0 ELSE 3]

MCInit == InputInit /\ part \in {"travel", "panels", "select"}

Travels ==
    /\ PageKey \/ ScreenKey \/ ScrollKey \/ HistoryKey \/ ViewKey \/ LastOrCountedPageKey
         \/ QuitKey \/ Frame
    /\ app'.pending = <<>>

OneLayout == app'.nav.key = 0 /\ Len(app'.nav.jumps) <= MaxModeJumps

(* Marks, searches and texts do not meet the panel, nor each other.        *)
Panels ==
    /\ PageKey \/ ChordKey \/ DigitKey \/ LastOrCountedPageKey \/ SearchStepKey \/ DeleteKey
         \/ MarkKey \/ AnswerKey \/ ModeKey \/ EscapeKey \/ HintKey \/ PanelKey \/ CommandKey
         \/ SearchKey \/ MouseDown \/ MouseUp \/ Wheel \/ Resize \/ Frame
    /\ OneLayout
    /\ \A s \in app'.sel : s.anchor = s.head /\ s.kind = "char"
    /\ app'.nav.scroll \in {0, 6} /\ app'.click = {} /\ app'.texts \subseteq {0}
    /\ Cardinality({i \in 1 .. 4 : <<app'.toc.open, app'.query # {} \/ app'.mode = "search",
                                     app'.nav.marks # <<>> \/ app'.awaiting # NoAnswer,
                                     app'.texts # {}>>[i]}) <= 1

(* Chords and the placing of the anchor with no button held                *)
Selects ==
    /\ ModeKey \/ VisualChordKey \/ VisualKey \/ EscapeKey
         \/ MouseDown \/ MouseDrag \/ MouseUp \/ Wheel \/ Frame
    /\ OneLayout
    /\ app'.mode \in {"normal", "visual"} /\ ~app'.help /\ ~app'.toc.open
    /\ app'.hints = <<>> /\ app'.area = 3
    /\ app'.dragging \/ app'.click # {} => app'.pending = <<>> /\ ~app'.placing
    /\ \A s \in app'.sel :
         s.kind = "char" \/ (s.kind = "line" /\ ~app'.dragging /\ app'.pending = <<>>)

MCNext ==
    /\ UNCHANGED part
    /\ \/ part = "travel" /\ Travels
       \/ part = "panels" /\ Panels
       \/ part = "select" /\ Selects

MCSpec == MCInit /\ [][MCNext]_<<part, inputVars>>

=============================================================================
