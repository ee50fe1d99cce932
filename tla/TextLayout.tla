----------------------------- MODULE TextLayout -----------------------------
(***************************************************************************)
(* textlayout.rs: the characters of a page, clustered into visual lines,   *)
(* and what the caret motions, the text objects and the selection compute  *)
(* from them.                                                              *)
(*                                                                         *)
(* pdfium lists the characters in stream order, which on a page of several *)
(* columns is not the order of the lines: a line's characters need not be  *)
(* neighbours in the stream.  Positions in the stream count from 1.        *)
(* Coordinates are whole units of the page instead of fractions of it.     *)
(***************************************************************************)
EXTENDS Integers, Sequences, SequencesExt, FiniteSets, FiniteSetsExt, Functions

CONSTANTS PageWidth, PageHeight,   \* of the text pages
          Blanks, Stops,           \* white space; characters that end a sentence
          NoChar                   \* unicode_char() gave nothing (CharCell.ch is None)

ASSUME TextLayoutAssumption ==
    /\ PageWidth \in Nat \ {0} /\ PageHeight \in Nat \ {0}
    /\ Blanks \cap Stops = {} /\ NoChar \notin Stops

Clamped(v, hi) == Max({0, Min({v, hi})})
AbsDiff(a, b) == IF a < b THEN b - a ELSE a - b

(* The members of a set in their order: as SetToSortSeq, in a form that the *)
(* proofs can use.                                                         *)
InOrder(S, Before(_, _)) ==
    [k \in 1 .. Cardinality(S) |->
       CHOOSE i \in S : Cardinality({j \in S : Before(j, i)}) = k - 1]

----------------------------------------------------------------------------
(* PageText::load.  A raw character is [ch, left, right, top, bottom,      *)
(* finite, generated], measured from the bottom left; one whose box pdfium *)
(* cannot give in finite numbers is left out.                              *)
IsRawText(raws) ==
    /\ Len(raws) \in Nat /\ DOMAIN raws = 1 .. Len(raws)
    /\ \A i \in DOMAIN raws :
          {raws[i].left, raws[i].right, raws[i].top, raws[i].bottom} \subseteq Int

CellOf(raw) ==
    LET x == Clamped(raw.left, PageWidth)
        y == Clamped(PageHeight - raw.top, PageHeight)
    IN  [ch |-> raw.ch, generated |-> raw.generated, x |-> x, y |-> y,
         w |-> Max({0, Clamped(raw.right, PageWidth) - x}),
         h |-> Max({0, Clamped(PageHeight - raw.bottom, PageHeight) - y})]

(* Twice the middle, to stay among the integers                            *)
CentreX(c) == 2 * c.x + c.w
CentreY(c) == 2 * c.y + c.h

(* The height that half of the characters do not exceed                    *)
MedianHeight(cells) ==
    LET heights == SortSeq([i \in DOMAIN cells |-> cells[i].h], <)
    IN  heights[(Len(cells) \div 2) + 1]

(* cluster_lines: from the top down, a character joins the line while its  *)
(* middle is within 0.55 of the median height of the line's mean.          *)
ClusterLines(cells) ==
    LET order == InOrder(DOMAIN cells, LAMBDA i, j :
            \/ CentreY(cells[i]) < CentreY(cells[j])
            \/ CentreY(cells[i]) = CentreY(cells[j]) /\ i < j)
        Join(m, i) ==
            IF /\ m.count > 0
               /\ 10 * AbsDiff(CentreY(cells[i]) * m.count, m.sum)
                    > 11 * MedianHeight(cells) * m.count
              THEN [line |-> m.line + 1, sum |-> CentreY(cells[i]), count |-> 1,
                    of |-> [m.of EXCEPT ![i] = m.line + 1]]
              ELSE [line |-> m.line, sum |-> m.sum + CentreY(cells[i]), count |-> m.count + 1,
                    of |-> [m.of EXCEPT ![i] = m.line]]
    IN  FoldLeft(Join, [line |-> 0, sum |-> 0, count |-> 0, of |-> [i \in DOMAIN cells |-> 0]],
                 order).of

PageText(raws) ==
    LET finite == InOrder({i \in DOMAIN raws : raws[i].finite}, <)
        cells == [i \in DOMAIN finite |-> CellOf(raws[finite[i]])]
    IN  [chars |-> cells, line |-> ClusterLines(cells)]

Carets(pt) == DOMAIN pt.chars
LastCaret(pt) == Len(pt.chars)
Lines(pt) == Range(pt.line)

(* What load makes: boxes within the page, lines numbered from 0 without a *)
(* gap.                                                                    *)
IsPageText(pt) ==
    /\ Len(pt.chars) \in Nat /\ Carets(pt) = 1 .. Len(pt.chars)
    /\ \A i \in Carets(pt) :
          LET c == pt.chars[i] IN {c.x, c.y, c.w, c.h} \subseteq Nat
    /\ DOMAIN pt.line = Carets(pt)
    /\ \A l \in Lines(pt) : l \in Nat /\ 0 .. l \subseteq Lines(pt)

OnLine(pt, l) == {i \in Carets(pt) : pt.line[i] = l}

(* LineSpan.start_idx, end_idx, y_top, y_bot                               *)
LineStart(pt, l) == Min(OnLine(pt, l))
LineEnd(pt, l) == Max(OnLine(pt, l))
LineTop(pt, l) == Min({pt.chars[i].y : i \in OnLine(pt, l)})
LineBottom(pt, l) == Max({pt.chars[i].y + pt.chars[i].h : i \in OnLine(pt, l)})

(* A character without a unicode value counts as blank.                    *)
Blank(pt, i) == pt.chars[i].ch = NoChar \/ pt.chars[i].ch \in Blanks
Stop(pt, i) == pt.chars[i].ch \in Stops

(* word_starts of a line: a character that follows a blank of its line, or *)
(* nothing.                                                                *)
WordStarts(pt, l) ==
    {i \in OnLine(pt, l) :
       /\ ~Blank(pt, i)
       /\ LET before == {j \in OnLine(pt, l) : j < i}
          IN  before = {} \/ Blank(pt, Max(before))}

----------------------------------------------------------------------------
(* Caret motions on a page with text                                       *)

(* char_at_point: a character under the point, else the one whose middle   *)
(* is nearest, lines counting four times as much as columns; the first of  *)
(* the stream among equals.                                                *)
CharAtPoint(pt, px, py) ==
    LET Under(i) == LET c == pt.chars[i]
                    IN  px \in c.x .. (c.x + c.w) /\ py \in c.y .. (c.y + c.h)
        hit == {i \in Carets(pt) : Under(i)}
        Far(i) == 4 * AbsDiff(CentreY(pt.chars[i]), 2 * py) + AbsDiff(CentreX(pt.chars[i]), 2 * px)
        near == {i \in Carets(pt) : \A j \in Carets(pt) : Far(i) <= Far(j)}
    IN  IF hit # {} THEN Min(hit) ELSE Min(near)

(* first_visible_char_idx: where Visual mode begins                        *)
FirstVisible(pt, top) ==
    LET seen == {i \in Carets(pt) : ~pt.chars[i].generated /\ pt.chars[i].y >= top}
    IN  IF seen = {} THEN 1 ELSE Min(seen)

(* line_first_non_blank                                                    *)
FirstNonBlank(pt, l) ==
    LET ink == {i \in OnLine(pt, l) : ~Blank(pt, i)}
    IN  IF ink = {} THEN LineStart(pt, l) ELSE Min(ink)

(* Mutant: only the next line is looked at.                                *)
NextWordStartOneLine(pt, i) ==
    LET rest == {s \in WordStarts(pt, pt.line[i]) : s > i}
        below == {l \in Lines(pt) : l = pt.line[i] + 1 /\ WordStarts(pt, l) # {}}
    IN  IF rest # {} THEN Min(rest)
        ELSE IF below # {} THEN Min(WordStarts(pt, Min(below))) ELSE LastCaret(pt)

(* next_word_start, prev_word_start: over lines without a word             *)
NextWordStart(pt, i) ==
    LET rest == {s \in WordStarts(pt, pt.line[i]) : s > i}
        below == {l \in Lines(pt) : l > pt.line[i] /\ WordStarts(pt, l) # {}}
    IN  IF rest # {} THEN Min(rest)
        ELSE IF below # {} THEN Min(WordStarts(pt, Min(below))) ELSE LastCaret(pt)

PrevWordStart(pt, i) ==
    LET rest == {s \in WordStarts(pt, pt.line[i]) : s < i}
        above == {l \in Lines(pt) : l < pt.line[i] /\ WordStarts(pt, l) # {}}
    IN  IF rest # {} THEN Max(rest)
        ELSE IF above # {} THEN Max(WordStarts(pt, Max(above))) ELSE 1

(* The run of non-blanks, in stream order, that a character belongs to     *)
RunStart(pt, i) == Min({s \in 1 .. i : \A j \in s .. i : ~Blank(pt, j)})
RunEnd(pt, i) == Max({i} \cup {e \in i .. LastCaret(pt) : \A j \in i + 1 .. e : ~Blank(pt, j)})

SkipBlanks(pt, i) == Min({j \in i .. LastCaret(pt) : ~Blank(pt, j)} \cup {LastCaret(pt)})

(* end_of_word                                                             *)
EndOfWord(pt, i) == RunEnd(pt, SkipBlanks(pt, i))

(* find_char_in_line, rfind_char_in_line; the caret stays without a match  *)
FindChar(pt, i, ch, forward) ==
    LET same == {j \in OnLine(pt, pt.line[i]) : pt.chars[j].ch = ch}
        ahead == {j \in same : j > i}
        behind == {j \in same : j < i}
    IN  IF forward THEN IF ahead = {} THEN i ELSE Min(ahead)
        ELSE IF behind = {} THEN i ELSE Max(behind)

(* move_head_chars, move_head_lines: the latter keeps the column           *)
MoveChars(pt, i, delta) == Max({1, Min({i + delta, LastCaret(pt)})})

MoveLines(pt, i, delta) ==
    LET l == Clamped(pt.line[i] + delta, Max(Lines(pt)))
        Off(j) == AbsDiff(pt.chars[j].x, pt.chars[i].x)
    IN  Min({j \in OnLine(pt, l) : \A k \in OnLine(pt, l) : Off(j) <= Off(k)})

----------------------------------------------------------------------------
(* Text objects: {} or {<<first, last>>}                                   *)

WordAround(pt, i) ==
    LET a == SkipBlanks(pt, i)
    IN  IF Blank(pt, a) THEN {} ELSE {<<RunStart(pt, a), RunEnd(pt, a)>>}

(* sentence_around: from the ink after the stop before to the next stop    *)
SentenceAround(pt, i) ==
    LET from == Max({1} \cup {k + 1 : k \in {j \in 1 .. i - 1 : Stop(pt, j)}})
        ink == {k \in from .. LastCaret(pt) : ~Blank(pt, k)}
    IN  IF ink = {} THEN {}
        ELSE {<<Min(ink), Min({k \in i .. LastCaret(pt) : Stop(pt, k)} \cup {LastCaret(pt)})>>}

(* paragraph_around: up and down to a gap of more than 1.6 median line     *)
(* heights.                                                                *)
ParagraphAround(pt, i) ==
    LET heights == SortSeq([l \in 1 .. Cardinality(Lines(pt)) |->
                              LineBottom(pt, l - 1) - LineTop(pt, l - 1)], <)
        median == heights[(Len(heights) \div 2) + 1]
        Gap(l) == 10 * (LineTop(pt, l + 1) - LineBottom(pt, l)) > 16 * median
        l0 == pt.line[i]
        from == Max({0} \cup {l \in 1 .. l0 : Gap(l - 1)})
        to == Min({l \in l0 .. Max(Lines(pt)) - 1 : Gap(l)} \cup {Max(Lines(pt))})
    IN  {<<LineStart(pt, from), LineEnd(pt, to)>>}

----------------------------------------------------------------------------
(* The selection of a page, from character i to character j                *)

Hull(cells) ==
    [x0 |-> Min({c.x : c \in cells}), x1 |-> Max({c.x + c.w : c \in cells}),
     y0 |-> Min({c.y : c \in cells}), y1 |-> Max({c.y + c.h : c \in cells})]

(* Mutant: the last line is taken whole.                                   *)
RangeToRectsWhole(pt, i, j) ==
    LET touched == {pt.line[k] : k \in i .. j}
        Band(l) == {pt.chars[k] : k \in {k \in OnLine(pt, l) :
                      /\ k >= (IF l = Min(touched) THEN i ELSE LineStart(pt, l))
                      /\ pt.chars[k].w > 0 /\ pt.chars[k].h > 0}}
    IN  {Hull(Band(l)) : l \in {m \in Min(touched) .. Max(touched) : Band(m) # {}}}

(* range_to_rects: "tail of the start line, full bands of inner lines,     *)
(* head of the end line", the start and the end line being the uppermost   *)
(* and the lowest that the range touches.                                  *)
RangeToRects(pt, i, j) ==
    LET touched == {pt.line[k] : k \in i .. j}
        Band(l) == {pt.chars[k] : k \in {k \in OnLine(pt, l) :
                      /\ k >= (IF l = Min(touched) THEN i ELSE LineStart(pt, l))
                      /\ k <= (IF l = Max(touched) THEN j ELSE LineEnd(pt, l))
                      /\ pt.chars[k].w > 0 /\ pt.chars[k].h > 0}}
    IN  {Hull(Band(l)) : l \in {m \in Min(touched) .. Max(touched) : Band(m) # {}}}

(* extract: as positions, a break where the line changes being 0; what has *)
(* no unicode value is left out, though it may bring the break.            *)
Extract(pt, i, j) ==
    LET Add(m, k) ==
            IF pt.chars[k].generated THEN m
            ELSE [line |-> pt.line[k],
                  out |-> (IF pt.line[k] # m.line THEN Append(m.out, 0) ELSE m.out)
                             \o (IF pt.chars[k].ch = NoChar THEN <<>> ELSE <<k>>)]
    IN  FoldLeft(Add, [line |-> pt.line[i], out |-> <<>>], [k \in 1 .. j - i + 1 |-> i + k - 1]).out

(* Linewise: whole lines, of the first and of the last character           *)
Linewise(pt, i, j) == <<LineStart(pt, pt.line[i]), LineEnd(pt, pt.line[j])>>

InRect(c, r) ==
    /\ 2 * r.x0 <= CentreX(c) /\ CentreX(c) <= 2 * r.x1
    /\ 2 * r.y0 <= CentreY(c) /\ CentreY(c) <= 2 * r.y1

(* text_for_highlight: what `:export` quotes for a saved rectangle         *)
TextForHighlight(pt, r) ==
    LET hit == {i \in Carets(pt) : ~pt.chars[i].generated /\ InRect(pt.chars[i], r)}
    IN  IF hit = {} THEN <<>> ELSE Extract(pt, Min(hit), Max(hit))

----------------------------------------------------------------------------
(* Properties of a page                                                    *)

NoText == [chars |-> <<>>, line |-> <<>>]

(* "Stream order is usually close to reading order for body text": a page  *)
(* whose stream goes line by line and from left to right, with the middle  *)
(* of a character outside the ink of the other lines, and of the other     *)
(* characters of its line.                                                 *)
InReadingOrder(pt) ==
    LET Ink(i) == pt.chars[i].w > 0 /\ pt.chars[i].h > 0
        Above(k, a) == CentreY(pt.chars[k]) < 2 * pt.chars[a].y
        Below(k, a) == CentreY(pt.chars[k]) > 2 * (pt.chars[a].y + pt.chars[a].h)
        LeftOf(k, a) == CentreX(pt.chars[k]) < 2 * pt.chars[a].x
        RightOf(k, a) == CentreX(pt.chars[k]) > 2 * (pt.chars[a].x + pt.chars[a].w)
    IN  \A k \in Carets(pt) :
          /\ \A a \in Carets(pt) : a < k => pt.line[a] <= pt.line[k]
          /\ ~pt.chars[k].generated => \A a, b \in Carets(pt) :
               Ink(a) /\ Ink(b) /\ pt.line[a] = pt.line[b] =>
                 /\ pt.line[k] # pt.line[a] => Above(k, a) \/ Below(k, b)
                 /\ pt.line[k] = pt.line[a] /\ k < a => LeftOf(k, a)
                 /\ pt.line[k] = pt.line[a] /\ k > a => RightOf(k, a)

(* "Per-visual-line rectangles covering the inclusive char range": what a  *)
(* selection shows and saves as a highlight is the range, on lines that a  *)
(* rectangle covers as a whole or in part; what it yanks, and what         *)
(* `:export` later quotes for the highlight, is what it shows, but for the *)
(* characters that pdfium draws without a unicode value for them: these    *)
(* are shown and cannot be yanked.                                         *)
SelectionSound(pt) ==
    LET Visible(i) == ~pt.chars[i].generated /\ pt.chars[i].w > 0 /\ pt.chars[i].h > 0
    IN  \A i, j \in Carets(pt) : i <= j =>
          LET rects == RangeToRects(pt, i, j)
              shown == {k \in Carets(pt) : Visible(k) /\ \E r \in rects : InRect(pt.chars[k], r)}
              taken == {k \in ToSet(Extract(pt, i, j)) \ {0} : Visible(k)}
              quoted == (UNION {ToSet(TextForHighlight(pt, r)) : r \in rects}) \ {0}
          IN  /\ shown = {k \in i .. j : Visible(k)}
              /\ taken = {k \in shown : pt.chars[k].ch # NoChar}
              /\ taken = {k \in quoted : Visible(k)}

(* The motions agree with each other, on pages of several columns as well: *)
(* `w` steps through the words in the order of the lines without leaving   *)
(* one out, `b` undoes it, `e` and `iw` end a word at the same place, and  *)
(* a text object is a range that begins with ink and holds the caret,      *)
(* unless the caret was on the blanks before it.  All of them rely on      *)
(* lines that are numbered without a gap.                                  *)
MotionsSound(pt) ==
    LET words == UNION {WordStarts(pt, l) : l \in Lines(pt)}
        LineOrder(i, j) == pt.line[i] < pt.line[j] \/ (pt.line[i] = pt.line[j] /\ i < j)
    IN  /\ IsPageText(pt)
        /\ \A s \in words :
             LET after == {t \in words : LineOrder(s, t)}
             IN  after # {} =>
                   /\ NextWordStart(pt, s) \in after
                   /\ \A t \in after : ~LineOrder(t, NextWordStart(pt, s))
                   /\ PrevWordStart(pt, NextWordStart(pt, s)) = s
        /\ \A i \in Carets(pt) :
             /\ \A r \in WordAround(pt, i) : EndOfWord(pt, i) = r[2]
             /\ \A r \in WordAround(pt, i) \cup SentenceAround(pt, i) :
                  /\ r[1] <= r[2] /\ ~Blank(pt, r[1])
                  /\ (i \in r[1] .. r[2]) \/ \A k \in i .. r[1] - 1 : Blank(pt, k)

=============================================================================
