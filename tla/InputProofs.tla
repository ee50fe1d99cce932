---------------------------- MODULE InputProofs ----------------------------
(***************************************************************************)
(* Theorems about Input.                                                   *)
(*                                                                         *)
(* What holds between any two events is InputInv, of these parts:          *)
(*   NavInv    the view is one of the document, and the jump list, its     *)
(*             index and its bound fit each other (Navigation);            *)
(*   TocInv    the outline cursor is on an entry of the outline and, of    *)
(*             the list that is shown, on one of its rows (Toc);           *)
(*   ModesInv  ModesAgree, and that no key of a chord is pending where     *)
(*             text is typed: an Esc there would otherwise uncover it;     *)
(*   AppInv    carets, links, hints and results are ones of the document;  *)
(*   Covers    of what the last event yanked.                              *)
(* A part for each module says what each of its operators keeps; then each *)
(* handler keeps InputInv, and the properties that the runs check follow.  *)
(***************************************************************************)
EXTENDS Input, LayoutProofs

-----------------------------------------------------------------------------
(* Where the reader is.                                                    *)

NavFields == {"key", "laid", "rows", "scroll", "jumps", "jumpIdx", "marks"}

(* The jump list: its index, its length (one more than MaxJumps only while *)
(* the index is inside), and no point twice in a row.                      *)
JumpsInv(n) ==
    /\ n.jumps \in Seq(JumpPoints) /\ n.jumpIdx \in 0 .. Len(n.jumps)
    /\ Len(n.jumps) <= MaxJumps + 1
    /\ n.jumpIdx = Len(n.jumps) => Len(n.jumps) <= MaxJumps
    /\ \A i \in 1 .. Len(n.jumps) - 1 : n.jumps[i] # n.jumps[i + 1]

NavTyped(n) ==
    /\ DOMAIN n = NavFields
    /\ n.key \in LayoutKeys /\ n.laid \in LayoutKeys
    /\ n.rows \in Nat /\ n.scroll \in Nat
    /\ JumpsInv(n)

(* As far as the layout in use may be scrolled                             *)
ScrollEnd(n) == Greater(Laid(n).total - ViewportOf(n), 0)

NavInv(n) == NavTyped(n) /\ n.scroll <= ScrollEnd(n)

LEMMA LaidFacts ==
    ASSUME NEW k \in LayoutKeys
    PROVE  LET lay == KeyLayouts[k]
           IN  /\ lay.n = KeyLayouts[0].n /\ lay.n \in Nat \ {0}
               /\ \A p \in NavPages : lay.h[p] <= FracScale
               /\ PagesOf(lay) = NavPages /\ NavPages = 0 .. LastPage /\ LastPage \in Nat
               /\ lay.h \in [NavPages -> Nat] /\ lay.y \in [NavPages -> Nat]
               /\ lay.gap \in Nat /\ lay.total \in Nat
<1> DEFINE m == KeyLayouts[0].n
           lay == KeyLayouts[k]
<1>1. /\ m \in Nat \ {0} /\ lay.h \in [0 .. m - 1 -> Nat] /\ lay.gap \in Nat
      /\ lay = Build(lay.h, lay.gap)
  BY NavigationAssumption DEF LayoutKeys
<1> HIDE DEF m, lay
<1>2. m \in Nat
  BY <1>1
<1>3. lay.n = m /\ lay.total \in Nat /\ lay.y \in [0 .. m - 1 -> Nat]
  <2> DEFINE bb == Build(lay.h, lay.gap)
             hh == lay.h
             gg == lay.gap
  <2>4. hh \in [0 .. m - 1 -> Nat] /\ gg \in Nat
    BY <1>1
  <2> HIDE DEF hh, gg
  <2>5. Build(hh, gg) = bb
    BY DEF hh, gg
  <2>1. \E y, t : /\ Build(hh, gg) = [n |-> m, h |-> hh, gap |-> gg, y |-> y, total |-> t]
                  /\ t \in Nat /\ y \in [0 .. m - 1 -> Nat]
                  /\ \A i \in 1 .. m - 1 : y[i] = y[i - 1] + hh[i - 1] + gg
    BY <1>2, <2>4, BuildOffsets
  <2> HIDE DEF bb
  <2>2. lay = bb
    BY <1>1 DEF bb
  <2>3. bb.n = m /\ bb.total \in Nat /\ bb.y \in [0 .. m - 1 -> Nat]
    BY <2>1, <2>5
  <2> QED
    BY <2>2, <2>3
<1>4. \A p \in 0 .. m - 1 : lay.h[p] \in 0 .. FracScale
  BY NavigationAssumption DEF LayoutKeys, m, lay
<1>5. \A p \in 0 .. m - 1 : lay.h[p] <= FracScale
  BY <1>4, NavigationAssumption
<1> QED
  BY <1>1, <1>3, <1>5 DEF PagesOf, NavPages, LastPage, m, lay

LEMMA ClampNat ==
    ASSUME NEW v \in Int, NEW hi \in Nat
    PROVE  Clamp(v, 0, hi) \in 0 .. hi
BY DEF Clamp

LEMMA GreaterLesser ==
    ASSUME NEW i \in Int, NEW j \in Int
    PROVE  /\ Greater(i, j) \in Int /\ Greater(i, j) >= i /\ Greater(i, j) >= j
           /\ Greater(i, j) \in {i, j}
           /\ Lesser(i, j) \in Int /\ Lesser(i, j) <= i /\ Lesser(i, j) <= j
           /\ Lesser(i, j) \in {i, j}
BY DEF Greater, Lesser

LEMMA PageAtIsPage ==
    ASSUME NEW lay, lay.n \in Nat \ {0}, NEW at \in Int
    PROVE  PageAt(lay, at) \in PagesOf(lay)
<1> DEFINE owners == {p \in PagesOf(lay) : Bottom(lay, p) + lay.gap > at}
<1>1. CASE at < 0
  BY <1>1 DEF PageAt, PagesOf
<1>2. CASE ~ (at < 0) /\ owners = {}
  <2>1. PageAt(lay, at) = lay.n - 1
    BY <1>2 DEF PageAt
  <2> QED
    BY <2>1 DEF PagesOf
<1>3. CASE ~ (at < 0) /\ owners # {}
  <2>1. PageAt(lay, at) = CHOOSE p \in owners : \A q \in owners : p <= q
    BY <1>3 DEF PageAt
  <2>2. owners \subseteq Nat /\ owners \subseteq PagesOf(lay)
    BY DEF PagesOf
  <2> HIDE DEF owners
  <2>3. \E p \in owners : \A q \in owners : p <= q
    BY <1>3, <2>2, NatLeast
  <2> QED
    BY <2>1, <2>2, <2>3
<1> QED
  BY <1>1, <1>2, <1>3

LEMMA ScrollFacts ==
    ASSUME NEW n, n.laid \in LayoutKeys, n.rows \in Nat
    PROVE  /\ ViewportOf(n) \in Nat /\ ScrollEnd(n) \in Nat
           /\ \A at \in Int : NavClamp(n, at) \in 0 .. ScrollEnd(n)
           /\ \A at \in 0 .. ScrollEnd(n) : NavClamp(n, at) = at
<1>1. ViewportOf(n) \in Nat
  BY NavigationAssumption, Product DEF ViewportOf
<1>2. Laid(n).total \in Nat
  BY LaidFacts DEF Laid
<1> DEFINE end == ScrollEnd(n)
<1>3. end \in Nat
  BY <1>1, <1>2 DEF Greater, ScrollEnd
<1>4. ASSUME NEW at \in Int
      PROVE  /\ NavClamp(n, at) \in 0 .. end
             /\ at \in 0 .. end => NavClamp(n, at) = at
  <2>1. NavClamp(n, at) = Clamp(at, 0, end)
    BY DEF NavClamp, ClampScroll, ScrollEnd
  <2> HIDE DEF end
  <2>2. at \in 0 .. end => Clamp(at, 0, end) = at
    BY <1>3 DEF Clamp
  <2> QED
    BY <1>3, <2>1, <2>2, ClampNat
<1>5. \A at \in 0 .. end : at \in Int
  BY <1>3
<1> HIDE DEF end
<1> QED
  BY <1>1, <1>3, <1>4, <1>5 DEF end

(* The range is that of the layout and the viewport alone.                 *)
LEMMA ScrollEndSame ==
    ASSUME NEW n, NEW m, m.laid = n.laid, m.rows = n.rows
    PROVE  ScrollEnd(m) = ScrollEnd(n)
BY DEF ScrollEnd, Laid, ViewportOf

LEMMA PagesInView ==
    ASSUME NEW n, n.laid \in LayoutKeys, n.rows \in Nat, n.scroll \in Nat
    PROVE  CurrentPage(n) \in NavPages /\ LeadingPage(n) \in NavPages
<1>1. Laid(n).n \in Nat \ {0} /\ PagesOf(Laid(n)) = NavPages
  BY LaidFacts DEF Laid
<1>2. ViewportOf(n) \in Nat
  BY ScrollFacts
<1>3. n.scroll + ViewportOf(n) \div 2 \in Int
  BY <1>2, Quotient
<1> QED
  BY <1>1, <1>3, PageAtIsPage DEF CurrentPage, LeadingPage

LEMMA JumpPointIs ==
    ASSUME NEW n, n.laid \in LayoutKeys, n.rows \in Nat, n.scroll \in Nat
    PROVE  JumpPointOf(n) \in JumpPoints
<1> DEFINE p == CurrentPage(n)
           h == Laid(n).h[p]
           c == Clamp(n.scroll - Laid(n).y[p], 0, h)
<1>1. p \in NavPages
  BY PagesInView
<1> HIDE DEF p
<1>2. h \in Nat /\ Laid(n).y[p] \in Nat
  BY <1>1, LaidFacts DEF Laid
<1> HIDE DEF h
<1>3. c \in 0 .. h
  <2>1. n.scroll - Laid(n).y[p] \in Int
    BY <1>2
  <2> QED
    BY <1>2, <2>1, ClampNat
<1> HIDE DEF c
<1>4. FracScale \in Nat \ {0}
  BY NavigationAssumption
<1>5. h # 0 => (c * FracScale) \div h \in 0 .. FracScale
  <2> SUFFICES ASSUME h # 0 PROVE (c * FracScale) \div h \in 0 .. FracScale
    OBVIOUS
  <2>1. c * FracScale \in Nat /\ c * FracScale <= h * FracScale
    BY <1>2, <1>3, <1>4
  <2>2. (c * FracScale) \div h \in Nat
    BY <1>2, <2>1, Quotient
  <2>3. h * ((c * FracScale) \div h) <= c * FracScale
    BY <1>2, <2>1
  <2>4. (c * FracScale) \div h <= FracScale
    BY <1>2, <1>4, <2>1, <2>2, <2>3
  <2> QED
    BY <1>4, <2>2, <2>4
<1>6. JumpPointOf(n) = [page |-> p, frac |-> IF h = 0 THEN 0 ELSE (c * FracScale) \div h]
  BY DEF JumpPointOf, p, h, c
<1> QED
  BY <1>1, <1>4, <1>5, <1>6 DEF JumpPoints

LEMMA ScrollOfIs ==
    ASSUME NEW n, n.laid \in LayoutKeys, n.rows \in Nat, NEW point \in JumpPoints
    PROVE  ScrollOf(n, point) \in 0 .. ScrollEnd(n)
<1> DEFINE p == Lesser(point.page, LastPage)
<1>1. p \in NavPages
  BY LaidFacts DEF JumpPoints, Lesser, Laid
<1>2. Laid(n).y[p] \in Nat /\ Laid(n).h[p] \in Nat
  BY <1>1, LaidFacts DEF Laid
<1>3. FracScale \in Nat \ {0} /\ point.frac \in Nat
  BY NavigationAssumption DEF JumpPoints
<1> HIDE DEF p
<1>4. (point.frac * Laid(n).h[p]) \div FracScale \in Nat
  BY <1>2, <1>3, Product, Quotient
<1>5. Laid(n).y[p] + (point.frac * Laid(n).h[p]) \div FracScale \in Int
  BY <1>2, <1>4
<1> QED
  BY <1>5, ScrollFacts DEF ScrollOf, p

LEMMA PageScrollIs ==
    ASSUME NEW n, n.laid \in LayoutKeys, n.rows \in Nat, NEW page \in Nat
    PROVE  NavClamp(n, Laid(n).y[Lesser(page, LastPage)]) \in 0 .. ScrollEnd(n)
<1> DEFINE p == Lesser(page, LastPage)
<1>1. p \in NavPages
  BY LaidFacts DEF Lesser, Laid
<1> HIDE DEF p
<1>2. Laid(n).y[p] \in Int
  BY <1>1, LaidFacts DEF Laid
<1>3. NavClamp(n, Laid(n).y[p]) \in 0 .. ScrollEnd(n)
  BY <1>2, ScrollFacts
<1> QED
  BY <1>3 DEF p

LEMMA ScrolledTo ==
    ASSUME NEW n, NavInv(n), NEW s \in 0 .. ScrollEnd(n)
    PROVE  NavInv([n EXCEPT !.scroll = s])
<1> DEFINE m == [n EXCEPT !.scroll = s]
<1>1. n.laid \in LayoutKeys /\ n.rows \in Nat /\ DOMAIN n = NavFields
  BY DEF NavInv, NavTyped
<1>2. s \in Nat /\ s <= ScrollEnd(n)
  BY <1>1, ScrollFacts
<1>3. NavTyped(m) /\ m.scroll = s /\ m.laid = n.laid /\ m.rows = n.rows
  BY <1>2 DEF NavInv, NavTyped, JumpsInv, NavFields
<1> HIDE DEF m
<1>4. NavInv(m)
  BY <1>2, <1>3, ScrollEndSame DEF NavInv
<1> QED
  BY <1>4 DEF m

(* What changes neither the layout nor the viewport nor the scroll stays   *)
(* in range.                                                               *)
LEMMA SameView ==
    ASSUME NEW n, NavInv(n), NEW m, NavTyped(m),
           m.laid = n.laid, m.rows = n.rows, m.scroll = n.scroll
    PROVE  NavInv(m)
BY ScrollEndSame DEF NavInv

LEMMA PushJumpKeeps ==
    ASSUME NEW n, NavInv(n), NEW point \in JumpPoints
    PROVE  LET m == PushJump(n, point)
           IN  /\ NavInv(m)
               /\ m.jumps # <<>> /\ m.jumps[Len(m.jumps)] = point /\ m.jumpIdx = Len(m.jumps)
               /\ m.key = n.key /\ m.laid = n.laid /\ m.rows = n.rows /\ m.scroll = n.scroll
<1> DEFINE k == Lesser(n.jumpIdx, Len(n.jumps))
           kept == SubSeq(n.jumps, 1, k)
           list == IF kept # <<>> /\ Last(kept) = point THEN kept ELSE Append(kept, point)
           a == Greater(Len(list) - MaxJumps, 0)
           recent == SubSeq(list, a + 1, Len(list))
<1>0. MaxJumps \in Nat \ {0}
  BY NavigationAssumption
<1>1. /\ n.jumps \in Seq(JumpPoints) /\ Len(n.jumps) \in Nat /\ Len(n.jumps) <= MaxJumps + 1
      /\ \A i \in 1 .. Len(n.jumps) - 1 : n.jumps[i] # n.jumps[i + 1]
      /\ n.jumpIdx \in 0 .. Len(n.jumps)
  BY DEF NavInv, NavTyped, JumpsInv
<1>2. k \in 0 .. Len(n.jumps)
  BY <1>1 DEF Lesser
<1> HIDE DEF k
<1>3. /\ kept \in Seq(JumpPoints) /\ Len(kept) = k
      /\ \A i \in 1 .. k : kept[i] = n.jumps[i]
  BY <1>1, <1>2
<1>4. \A i \in 1 .. k - 1 : kept[i] # kept[i + 1]
  BY <1>1, <1>2, <1>3
<1> HIDE DEF kept
<1>5. /\ list \in Seq(JumpPoints) /\ Len(list) \in Nat \ {0} /\ Len(list) <= k + 1
      /\ list[Len(list)] = point
      /\ \A i \in 1 .. Len(list) - 1 : list[i] # list[i + 1]
  <2>1. CASE kept # <<>> /\ Last(kept) = point
    <3>1. list = kept /\ Len(kept) # 0 /\ kept[Len(kept)] = point
      BY <1>3, <2>1 DEF Last
    <3> QED
      BY <1>2, <1>3, <1>4, <3>1
  <2>2. CASE ~ (kept # <<>> /\ Last(kept) = point)
    <3>1. /\ list = Append(kept, point) /\ list \in Seq(JumpPoints) /\ Len(list) = k + 1
          /\ \A i \in 1 .. k : list[i] = kept[i]
          /\ list[k + 1] = point
      BY <1>2, <1>3, <2>2
    <3> HIDE DEF list
    <3>2. ASSUME NEW i \in 1 .. k PROVE list[i] # list[i + 1]
      <4>1. CASE i = k
        <5>1. kept # <<>> /\ Last(kept) = kept[k]
          BY <1>2, <1>3, <4>1 DEF Last
        <5> QED
          BY <2>2, <3>1, <4>1, <5>1
      <4>2. CASE i # k
        <5>1. i \in 1 .. k - 1 /\ i + 1 \in 1 .. k
          BY <1>2, <4>2
        <5> QED
          BY <1>4, <3>1, <5>1
      <4> QED
        BY <4>1, <4>2
    <3> QED
      BY <1>2, <3>1, <3>2
  <2> QED
    BY <2>1, <2>2
<1> HIDE DEF list
<1>6. a \in Nat /\ a < Len(list) /\ Len(list) - a <= MaxJumps
  BY <1>0, <1>5 DEF Greater
<1> HIDE DEF a
<1>7. /\ recent \in Seq(JumpPoints) /\ Len(recent) = Len(list) - a
      /\ \A i \in 1 .. Len(recent) : recent[i] = list[i + a]
  BY <1>5, <1>6
<1> HIDE DEF recent
<1>8. \A i \in 1 .. Len(recent) - 1 : recent[i] # recent[i + 1]
  <2> TAKE i \in 1 .. Len(recent) - 1
  <2>1. i + a \in 1 .. Len(list) - 1 /\ (i + 1) + a = (i + a) + 1
    BY <1>5, <1>6, <1>7
  <2>2. list[i + a] # list[(i + a) + 1]
    BY <1>5, <2>1
  <2> QED
    BY <1>5, <1>6, <1>7, <2>1, <2>2
<1>9. recent # <<>> /\ recent[Len(recent)] = point
  BY <1>5, <1>6, <1>7
<1>10. PushJump(n, point) = [n EXCEPT !.jumps = recent, !.jumpIdx = Len(recent)]
  BY DEF PushJump, k, kept, list, a, recent
<1>11. DOMAIN n = NavFields
  BY DEF NavInv, NavTyped
<1>12. JumpsInv(PushJump(n, point))
  <2>1. PushJump(n, point).jumps = recent /\ PushJump(n, point).jumpIdx = Len(recent)
    BY <1>10, <1>11 DEF NavFields
  <2>2. Len(recent) \in Nat /\ Len(recent) <= MaxJumps
    BY <1>5, <1>6, <1>7
  <2>3. recent \in Seq(JumpPoints)
    BY <1>7
  <2> DEFINE q == PushJump(n, point)
  <2>4. q.jumps \in Seq(JumpPoints) /\ Len(q.jumps) = Len(recent)
    BY <2>1, <2>3
  <2>5. /\ q.jumpIdx = Len(q.jumps) /\ q.jumpIdx \in 0 .. Len(q.jumps)
        /\ Len(q.jumps) <= MaxJumps /\ Len(q.jumps) <= MaxJumps + 1
    BY <1>0, <2>1, <2>2
  <2>6. \A i \in 1 .. Len(q.jumps) - 1 : q.jumps[i] # q.jumps[i + 1]
    BY <1>8, <2>1
  <2> HIDE DEF q
  <2>7. JumpsInv(q)
    BY <2>4, <2>5, <2>6 DEF JumpsInv
  <2> QED
    BY <2>7 DEF q
<1> QED
  <2> DEFINE q == PushJump(n, point)
  <2>1. /\ NavTyped(q) /\ q.key = n.key /\ q.laid = n.laid /\ q.rows = n.rows
        /\ q.scroll = n.scroll /\ q.jumps = recent /\ q.jumpIdx = Len(recent)
    BY <1>10, <1>11, <1>12 DEF NavInv, NavTyped, NavFields
  <2> HIDE DEF q
  <2>2. NavInv(q)
    BY <2>1, SameView
  <2> QED
    BY <1>9, <2>1, <2>2 DEF q

LEMMA NavStatic ==
    ASSUME NEW n, NavInv(n)
    PROVE  n.laid \in LayoutKeys /\ n.rows \in Nat /\ n.scroll \in Nat /\ DOMAIN n = NavFields
BY DEF NavInv, NavTyped

LEMMA GotoNoRecordKeeps ==
    ASSUME NEW n, NavInv(n), NEW page \in Nat
    PROVE  NavInv(GotoPageNoRecord(n, page))
<1> DEFINE s == NavClamp(n, Laid(n).y[Lesser(page, LastPage)])
<1>1. s \in 0 .. ScrollEnd(n)
  BY NavStatic, PageScrollIs
<1> HIDE DEF s
<1>2. GotoPageNoRecord(n, page) = [n EXCEPT !.scroll = s]
  BY DEF GotoPageNoRecord, s
<1> QED
  BY <1>1, <1>2, ScrolledTo

LEMMA GotoPageKeeps ==
    ASSUME NEW n, NavInv(n), NEW page \in Nat
    PROVE  NavInv(GotoPage(n, page))
<1> DEFINE p == Lesser(page, LastPage)
           m == IF IsBigMove(n, p) THEN PushJump(n, JumpPointOf(n)) ELSE n
<1>1. p \in Nat
  BY LaidFacts, NavigationAssumption DEF Lesser, LayoutKeys
<1>2. JumpPointOf(n) \in JumpPoints
  BY NavStatic, JumpPointIs
<1>3. NavInv(m)
  BY <1>2, PushJumpKeeps
<1>4. GotoPage(n, page) = GotoPageNoRecord(m, p)
  BY DEF GotoPage
<1> HIDE DEF p, m
<1> QED
  BY <1>1, <1>3, <1>4, GotoNoRecordKeeps

LEMMA PagesStepKeeps ==
    ASSUME NEW n, NavInv(n), NEW count \in Nat
    PROVE  NavInv(NextPage(n, count)) /\ NavInv(PrevPage(n, count))
<1>1. LeadingPage(n) \in Nat
  BY NavStatic, PagesInView DEF NavPages, PagesOf
<1>2. /\ LeadingPage(n) + Greater(count, 1) \in Nat
      /\ Greater(LeadingPage(n) - Greater(count, 1), 0) \in Nat
  BY <1>1 DEF Greater
<1> QED
  BY <1>2, GotoPageKeeps DEF NextPage, PrevPage

LEMMA FirstPageKeeps ==
    ASSUME NEW n, NavInv(n)
    PROVE  NavInv(FirstPage(n))
<1>1. JumpPointOf(n) \in JumpPoints
  BY NavStatic, JumpPointIs
<1> DEFINE m == IF CurrentPage(n) >= LongPages THEN PushJump(n, JumpPointOf(n)) ELSE n
<1>2. NavInv(m)
  BY <1>1, PushJumpKeeps
<1>3. FirstPage(n) = [m EXCEPT !.scroll = 0]
  BY DEF FirstPage
<1> HIDE DEF m
<1>4. 0 \in 0 .. ScrollEnd(m)
  BY <1>2, NavStatic, ScrollFacts
<1> QED
  BY <1>2, <1>3, <1>4, ScrolledTo

LEMMA JumpToKeeps ==
    ASSUME NEW n, NavInv(n), NEW targets, targets \subseteq Nat
    PROVE  NavInv(JumpTo(n, targets))
<1>1. CASE targets = {}
  BY <1>1 DEF JumpTo
<1>2. CASE targets # {}
  <2>1. (CHOOSE p \in targets : TRUE) \in Nat
    BY <1>2
  <2>2. JumpTo(n, targets) = GotoPage(n, CHOOSE p \in targets : TRUE)
    BY <1>2 DEF JumpTo
  <2> QED
    BY <2>1, <2>2, GotoPageKeeps
<1> QED
  BY <1>1, <1>2

LEMMA JumpSectionKeeps ==
    ASSUME NEW n, NavInv(n), NEW forward
    PROVE  NavInv(JumpSection(n, forward)) /\ NavInv(JumpToReferences(n))
<1>1. Sections \subseteq Nat /\ References \subseteq Nat
  BY NavigationAssumption DEF PagesOf
<1>2. SectionTarget(n, forward) \subseteq Nat
  BY <1>1 DEF SectionTarget
<1> QED
  BY <1>1, <1>2, JumpToKeeps DEF JumpSection, JumpToReferences

LEMMA MarksKeep ==
    ASSUME NEW n, NavInv(n), NEW m
    PROVE  NavInv(SetMark(n, m)) /\ NavInv(JumpToMark(n, m))
<1>1. NavInv(SetMark(n, m))
  <2> DEFINE q == SetMark(n, m)
  <2>1. NavTyped(q) /\ q.laid = n.laid /\ q.rows = n.rows /\ q.scroll = n.scroll
    BY DEF SetMark, NavInv, NavTyped, JumpsInv, NavFields
  <2> QED
    BY <2>1, SameView
<1>2. (IF m \in DOMAIN n.marks THEN {n.marks[m]} \cap NavPages ELSE {}) \subseteq Nat
  BY DEF NavPages, PagesOf
<1>3. NavInv(JumpToMark(n, m))
  BY <1>2, JumpToKeeps DEF JumpToMark
<1> QED
  BY <1>1, <1>3

LEMMA ActivateLinkKeeps ==
    ASSUME NEW n, NavInv(n), NEW target \in Nat
    PROVE  NavInv(ActivateLink(n, target))
<1> DEFINE p == Lesser(target, LastPage)
           m == IF JumpPointOf(n).page # p THEN PushJump(n, JumpPointOf(n)) ELSE n
<1>1. p \in Nat
  BY LaidFacts, NavigationAssumption DEF Lesser, LayoutKeys
<1>2. JumpPointOf(n) \in JumpPoints
  BY NavStatic, JumpPointIs
<1>3. NavInv(m)
  BY <1>2, PushJumpKeeps
<1>4. ActivateLink(n, target) = GotoPageNoRecord(m, p)
  BY DEF ActivateLink
<1> HIDE DEF p, m
<1> QED
  BY <1>1, <1>3, <1>4, GotoNoRecordKeeps

LEMMA GotoPointKeeps ==
    ASSUME NEW n, NavInv(n), NEW point \in JumpPoints
    PROVE  NavInv(GotoJumpPoint(n, point))
BY NavStatic, ScrollOfIs, ScrolledTo DEF GotoJumpPoint

LEMMA JumpForwardKeeps ==
    ASSUME NEW n, NavInv(n)
    PROVE  NavInv(JumpForward(n))
<1>1. CASE n.jumpIdx + 1 >= Len(n.jumps)
  BY <1>1 DEF JumpForward
<1>2. CASE ~ (n.jumpIdx + 1 >= Len(n.jumps))
  <2> DEFINE m == [n EXCEPT !.jumpIdx = @ + 1]
             point == n.jumps[n.jumpIdx + 2]
  <2>1. n.jumps \in Seq(JumpPoints) /\ n.jumpIdx \in 0 .. Len(n.jumps) /\ Len(n.jumps) \in Nat
    BY DEF NavInv, NavTyped, JumpsInv
  <2>2. point \in JumpPoints
    BY <1>2, <2>1
  <2>3. n.jumpIdx + 1 \in 0 .. Len(n.jumps) /\ n.jumpIdx + 1 # Len(n.jumps)
    BY <1>2, <2>1
  <2>4. NavInv(m)
    <3>1. NavTyped(m) /\ m.laid = n.laid /\ m.rows = n.rows /\ m.scroll = n.scroll
      BY <2>3 DEF NavInv, NavTyped, JumpsInv, NavFields
    <3> HIDE DEF m
    <3> QED
      BY <3>1, SameView
  <2>5. JumpForward(n) = GotoJumpPoint(m, point)
    BY <1>2 DEF JumpForward
  <2> HIDE DEF m, point
  <2> QED
    BY <2>2, <2>4, <2>5, GotoPointKeeps
<1> QED
  BY <1>1, <1>2

LEMMA JumpBackKeeps ==
    ASSUME NEW n, NavInv(n)
    PROVE  NavInv(JumpBack(n))
<1> DEFINE here == JumpPointOf(n)
           list == IF n.jumpIdx = Len(n.jumps) /\ Last(n.jumps) # here
                   THEN Append(n.jumps, here) ELSE n.jumps
           m == [n EXCEPT !.jumps = list, !.jumpIdx = @ - 1]
<1>1. here \in JumpPoints
  BY NavStatic, JumpPointIs
<1> HIDE DEF here
<1>2. /\ n.jumps \in Seq(JumpPoints) /\ n.jumpIdx \in 0 .. Len(n.jumps) /\ Len(n.jumps) \in Nat
      /\ Len(n.jumps) <= MaxJumps + 1
      /\ n.jumpIdx = Len(n.jumps) => Len(n.jumps) <= MaxJumps
      /\ \A i \in 1 .. Len(n.jumps) - 1 : n.jumps[i] # n.jumps[i + 1]
  BY DEF NavInv, NavTyped, JumpsInv
<1>3. DOMAIN n = NavFields
  BY DEF NavInv, NavTyped
<1>4. CASE n.jumps = <<>>
  BY <1>4 DEF JumpBack
<1>5. CASE n.jumps # <<>> /\ n.jumpIdx = 0
  <2>1. n.jumpIdx # Len(n.jumps)
    BY <1>2, <1>5
  <2>2. JumpBack(n) = [n EXCEPT !.jumps = n.jumps]
    BY <1>5, <2>1 DEF JumpBack
  <2>3. NavInv([n EXCEPT !.jumps = n.jumps])
    <3> DEFINE m0 == [n EXCEPT !.jumps = n.jumps]
    <3>1. NavTyped(m0) /\ m0.laid = n.laid /\ m0.rows = n.rows /\ m0.scroll = n.scroll
      BY <1>3 DEF NavInv, NavTyped, JumpsInv, NavFields
    <3> HIDE DEF m0
    <3>2. NavInv(m0)
      BY <3>1, SameView
    <3> QED
      BY <3>2 DEF m0
  <2> QED
    BY <2>2, <2>3
<1>6. CASE n.jumps # <<>> /\ n.jumpIdx # 0
  <2>1. /\ list \in Seq(JumpPoints) /\ Len(list) \in Nat /\ Len(list) <= MaxJumps + 1
        /\ n.jumpIdx - 1 \in 0 .. Len(list) /\ n.jumpIdx - 1 # Len(list)
        /\ n.jumpIdx \in 1 .. Len(list)
        /\ \A i \in 1 .. Len(list) - 1 : list[i] # list[i + 1]
    <3>1. CASE n.jumpIdx = Len(n.jumps) /\ Last(n.jumps) # here
      <4>1. /\ list = Append(n.jumps, here) /\ list \in Seq(JumpPoints)
            /\ Len(list) = Len(n.jumps) + 1
            /\ \A i \in 1 .. Len(n.jumps) : list[i] = n.jumps[i]
            /\ list[Len(n.jumps) + 1] = here /\ n.jumps[Len(n.jumps)] # here
        BY <1>1, <1>2, <3>1 DEF Last
      <4> HIDE DEF list
      <4>2. ASSUME NEW i \in 1 .. Len(list) - 1 PROVE list[i] # list[i + 1]
        <5>1. CASE i = Len(n.jumps)
          BY <1>2, <4>1, <5>1
        <5>2. CASE i # Len(n.jumps)
          <6>1. i \in 1 .. Len(n.jumps) - 1 /\ i + 1 \in 1 .. Len(n.jumps)
            BY <1>2, <4>1, <5>2
          <6> QED
            BY <1>2, <4>1, <6>1
        <5> QED
          BY <5>1, <5>2
      <4> QED
        BY <1>2, <1>6, <3>1, <4>1, <4>2, NavigationAssumption, SMTT(30)
    <3>2. CASE ~ (n.jumpIdx = Len(n.jumps) /\ Last(n.jumps) # here)
      <4>1. list = n.jumps
        BY <3>2
      <4> HIDE DEF list
      <4> QED
        BY <1>2, <1>6, <4>1, SMTT(30)
    <3> QED
      BY <3>1, <3>2
  <2> HIDE DEF list
  <2>2. JumpsInv(m)
    BY <1>3, <2>1 DEF JumpsInv, NavFields
  <2>3. NavInv(m)
    <3>1. NavTyped(m) /\ m.laid = n.laid /\ m.rows = n.rows /\ m.scroll = n.scroll
      BY <1>3, <2>2 DEF NavInv, NavTyped, NavFields
    <3> HIDE DEF m
    <3> QED
      BY <3>1, SameView
  <2>4. list[n.jumpIdx] \in JumpPoints
    BY <2>1
  <2>5. JumpBack(n) = GotoJumpPoint(m, list[n.jumpIdx])
    BY <1>6 DEF JumpBack, list, here
  <2> HIDE DEF m
  <2> QED
    BY <2>3, <2>4, <2>5, GotoPointKeeps
<1> QED
  BY <1>4, <1>5, <1>6

LEMMA ScrollByKeeps ==
    ASSUME NEW n, NavInv(n), NEW dy \in Int
    PROVE  NavInv(ScrollByPx(n, dy))
<1>1. n.scroll + dy \in Int
  BY NavStatic
<1> QED
  BY <1>1, NavStatic, ScrollFacts, ScrolledTo DEF ScrollByPx

LEMMA ScrollToHitKeeps ==
    ASSUME NEW n, NavInv(n), NEW hit \in JumpPoints
    PROVE  NavInv(ScrollToHit(n, hit))
<1> DEFINE h == Greater(Laid(n).h[hit.page], 1)
           at == Laid(n).y[hit.page] + (hit.frac * h) \div FracScale
           s == Greater(at - ViewportOf(n) \div 3, 0)
<1>1. hit.page \in NavPages /\ hit.frac \in Nat /\ FracScale \in Nat \ {0}
  BY NavigationAssumption DEF JumpPoints
<1>2. Laid(n).y[hit.page] \in Nat /\ Laid(n).h[hit.page] \in Nat
  BY <1>1, NavStatic, LaidFacts DEF Laid
<1>3. h \in Nat
  BY <1>2 DEF Greater
<1> HIDE DEF h
<1>4. (hit.frac * h) \div FracScale \in Nat
  BY <1>1, <1>3, Product, Quotient
<1>5. at \in Nat /\ ViewportOf(n) \div 3 \in Nat
  BY <1>2, <1>4, NavStatic, ScrollFacts, Quotient
<1> HIDE DEF at
<1>6. s \in Int
  BY <1>5 DEF Greater
<1>7. ScrollToHit(n, hit) = [n EXCEPT !.scroll = NavClamp(n, s)]
  BY DEF ScrollToHit, s, at, h
<1> QED
  BY <1>6, <1>7, NavStatic, ScrollFacts, ScrolledTo

LEMMA ChangeKeyKeeps ==
    ASSUME NEW n, NavInv(n), NEW k \in LayoutKeys
    PROVE  NavInv(ChangeKey(n, k))
<1> DEFINE m == ChangeKey(n, k)
<1>1. NavTyped(m) /\ m.laid = n.laid /\ m.rows = n.rows /\ m.scroll = n.scroll
  BY DEF ChangeKey, NavInv, NavTyped, JumpsInv, NavFields
<1> HIDE DEF m
<1>2. NavInv(m)
  BY <1>1, SameView
<1> QED
  BY <1>2 DEF m

LEMMA RelaidKeeps ==
    ASSUME NEW n, NavInv(n), NEW rows \in Nat
    PROVE  NavInv(Relaid(n, rows))
<1> DEFINE sized == [n EXCEPT !.rows = rows]
           old == Laid(n)
           new == KeyLayouts[n.key]
           moved == RestoredScroll(old, new, n.scroll, ViewportOf(sized))
           wide == [n EXCEPT !.rows = rows, !.laid = n.key]
<1>1. NavTyped(sized) /\ sized.rows = rows /\ sized.laid = n.laid
  BY DEF NavInv, NavTyped, JumpsInv, NavFields
<1>7. NavTyped(wide) /\ wide.rows = rows /\ wide.laid = n.key
  BY DEF NavInv, NavTyped, JumpsInv, NavFields
<1>2. n.key \in LayoutKeys /\ n.laid \in LayoutKeys /\ n.scroll \in Nat
  BY DEF NavInv, NavTyped
<1>3. ViewportOf(sized) \in Nat
  BY <1>1, ScrollFacts DEF NavTyped
<1>4. moved \in 0 .. ScrollEnd(wide)
  <2> DEFINE p == PageAt(old, n.scroll)
             local == Clamp(n.scroll - old.y[p], 0, old.h[p])
             at == new.y[p] + (local * new.h[p]) \div Greater(old.h[p], 1)
             end == Greater(new.total - ViewportOf(sized), 0)
  <2>1. p \in NavPages
    BY <1>2, PageAtIsPage, LaidFacts DEF Laid
  <2> HIDE DEF p
  <2>2. old.y[p] \in Nat /\ old.h[p] \in Nat /\ new.y[p] \in Nat /\ new.h[p] \in Nat /\ new.total \in Nat
    BY <1>2, <2>1, LaidFacts DEF Laid
  <2> HIDE DEF old, new
  <2>3. local \in Nat
    <3>1. n.scroll - old.y[p] \in Int
      BY <1>2, <2>2
    <3>2. local \in 0 .. old.h[p]
      BY <2>2, <3>1, ClampNat
    <3> QED
      BY <2>2, <3>2
  <2> HIDE DEF local
  <2>4. Greater(old.h[p], 1) \in Nat \ {0}
    BY <2>2 DEF Greater
  <2>5. at \in Int
    <3>1. local * new.h[p] \in Nat
      BY <2>2, <2>3, Product
    <3>2. (local * new.h[p]) \div Greater(old.h[p], 1) \in Nat
      BY <2>4, <3>1, Quotient
    <3> QED
      BY <2>2, <3>2
  <2> HIDE DEF at
  <2>6. end \in Nat /\ end = ScrollEnd(wide)
    <3>1. end \in Nat
      BY <1>3, <2>2 DEF Greater
    <3>2. ViewportOf(wide) = ViewportOf(sized) /\ Laid(wide) = new
      BY <1>1, <1>7 DEF ViewportOf, Laid, new
    <3> QED
      BY <3>1, <3>2 DEF ScrollEnd
  <2> HIDE DEF end
  <2>7. moved = Clamp(at, 0, end)
    BY DEF RestoredScroll, ClampScroll, at, local, p, end
  <2> QED
    BY <2>5, <2>6, <2>7, ClampNat
<1> HIDE DEF moved
<1>5. CASE n.laid = n.key
  <2> DEFINE at == NavClamp(sized, sized.scroll)
             m == [sized EXCEPT !.scroll = at]
  <2>1. Relaid(n, rows) = m
    BY <1>5 DEF Relaid
  <2> HIDE DEF sized
  <2>2. sized.scroll \in Int /\ DOMAIN sized = NavFields
    BY <1>1 DEF NavTyped
  <2>3. at \in 0 .. ScrollEnd(sized) /\ ScrollEnd(sized) \in Nat
    BY <1>1, <2>2, ScrollFacts DEF NavTyped
  <2> HIDE DEF at
  <2>4. NavTyped(m) /\ m.scroll = at /\ m.laid = sized.laid /\ m.rows = sized.rows
    BY <1>1, <2>2, <2>3 DEF NavTyped, JumpsInv, NavFields
  <2> HIDE DEF m
  <2>5. NavInv(m)
    BY <2>3, <2>4, ScrollEndSame DEF NavInv
  <2> QED
    BY <2>1, <2>5
<1>6. CASE n.laid # n.key
  <2> DEFINE m == [sized EXCEPT !.laid = n.key, !.scroll = moved]
  <2>1. Relaid(n, rows) = m
    BY <1>6 DEF Relaid, moved
  <2>3. ScrollEnd(wide) \in Nat
    BY <1>7, ScrollFacts DEF NavTyped
  <2> HIDE DEF sized, wide
  <2>4. NavTyped(m) /\ m.scroll = moved /\ m.laid = n.key /\ m.rows = sized.rows
    BY <1>1, <1>2, <1>4, <2>3 DEF NavTyped, JumpsInv, NavFields
  <2> HIDE DEF m
  <2>5. ScrollEnd(m) = ScrollEnd(wide)
    BY <1>1, <1>7, <2>4, ScrollEndSame
  <2>6. NavInv(m)
    BY <1>4, <2>3, <2>4, <2>5 DEF NavInv
  <2> QED
    BY <2>1, <2>6
<1> QED
  BY <1>5, <1>6

LEMMA StartFromIs ==
    ASSUME NEW saved, saved.key \in LayoutKeys, saved.point \in JumpPoints, NEW rows \in Nat
    PROVE  NavInv(StartFrom(saved, rows)) /\ StartFrom(saved, rows).rows = rows
<1> DEFINE n == [key |-> saved.key, laid |-> saved.key, rows |-> rows, scroll |-> 0,
                 jumps |-> <<>>, jumpIdx |-> 0, marks |-> saved.marks]
<1>1. MaxJumps \in Nat
  BY NavigationAssumption
<1>2. NavInv(n) /\ n.rows = rows
  <2>1. NavTyped(n) /\ n.rows = rows /\ n.scroll = 0
    BY <1>1 DEF NavTyped, JumpsInv, NavFields
  <2> HIDE DEF n
  <2>2. ScrollEnd(n) \in Nat
    BY <2>1, ScrollFacts DEF NavTyped
  <2> QED
    BY <2>1, <2>2 DEF NavInv
<1>3. StartFrom(saved, rows) = GotoJumpPoint(n, saved.point)
  BY DEF StartFrom
<1> HIDE DEF n
<1>4. GotoJumpPoint(n, saved.point).rows = n.rows
  BY <1>2, NavStatic DEF GotoJumpPoint, NavFields
<1> QED
  BY <1>2, <1>3, <1>4, GotoPointKeeps

-----------------------------------------------------------------------------
(* The round trip.                                                         *)

(* Where a point is depends on the layout and the viewport alone.          *)
LEMMA ScrollOfSame ==
    ASSUME NEW n, NEW m, m.laid = n.laid, m.rows = n.rows, NEW point
    PROVE  ScrollOf(m, point) = ScrollOf(n, point)
BY DEF ScrollOf, NavClamp, Laid, ViewportOf

LEMMA GotoPointIs ==
    ASSUME NEW n, DOMAIN n = NavFields, NEW point
    PROVE  LET m == GotoJumpPoint(n, point)
           IN  /\ DOMAIN m = NavFields /\ m.scroll = ScrollOf(n, point)
               /\ m.laid = n.laid /\ m.rows = n.rows
               /\ m.jumps = n.jumps /\ m.jumpIdx = n.jumpIdx
BY DEF GotoJumpPoint, NavFields

(* A quotient is rounded down.                                             *)
LEMMA QuotientBounds ==
    ASSUME NEW i \in Nat, NEW j \in Nat \ {0}
    PROVE  /\ i \div j \in Nat /\ (i \div j) * j <= i
           /\ i < ((i \div j) + 1) * j
OBVIOUS

(* Of two products by the same factor the larger is of the larger.         *)
LEMMA LessProduct ==
    ASSUME NEW i \in Int, NEW j \in Int, NEW k \in Nat, i * k < j * k
    PROVE  i < j
<1>1. CASE i >= j
  <2>1. i * k >= j * k
    BY <1>1
  <2> QED
    BY <2>1
<1> QED
  BY <1>1

(* To a fraction and back loses a pixel at most.                           *)
LEMMA FractionLoss ==
    ASSUME NEW h \in Nat \ {0}, NEW scale \in Nat, h <= scale, NEW c \in 0 .. h
    PROVE  /\ (((c * scale) \div h) * h) \div scale \in {c - 1, c} \cap Nat
           /\ c = h => (((c * scale) \div h) * h) \div scale = h
<1> DEFINE q == (c * scale) \div h
           r == (q * h) \div scale
<1>1. scale \in Nat \ {0} /\ c \in Nat /\ c * scale \in Nat
  BY Product
<1>2. q \in Nat /\ q * h <= c * scale /\ c * scale < (q + 1) * h
  BY <1>1, QuotientBounds
<1>3. c = h => q = scale
  <2>1. ASSUME c = h PROVE q = scale
    <3>1. scale * h < (q + 1) * h /\ q * h <= scale * h
      BY <1>1, <1>2, <2>1
    <3>2. q * h < (scale + 1) * h
      BY <1>1, <1>2, <3>1
    <3>3. scale < q + 1 /\ q < scale + 1
      BY <1>1, <1>2, <3>1, <3>2, LessProduct
    <3> QED
      BY <1>1, <1>2, <3>3
  <2> QED
    BY <2>1
<1> HIDE DEF q
<1>4. q * h \in Nat
  BY <1>2, Product
<1>5. r \in Nat /\ r * scale <= q * h /\ q * h < (r + 1) * scale
  BY <1>1, <1>4, QuotientBounds
<1>6. c = h => r = h
  <2>1. ASSUME c = h PROVE r = h
    <3>1. q * h = h * scale
      BY <1>1, <1>3, <2>1
    <3>2. h * scale < (r + 1) * scale /\ r * scale < (h + 1) * scale
      BY <1>1, <1>5, <3>1
    <3>3. h < r + 1 /\ r < h + 1
      BY <1>1, <1>5, <3>2, LessProduct
    <3> QED
      BY <1>5, <3>3
  <2> QED
    BY <2>1
<1> HIDE DEF r
<1>7. r * scale < (c + 1) * scale
  <2>1. r * scale <= c * scale
    BY <1>1, <1>2, <1>4, <1>5
  <2>2. (c + 1) * scale = c * scale + scale
    BY <1>1
  <2> QED
    BY <1>1, <1>5, <2>1, <2>2
<1>8. (c - 1) * scale < (r + 1) * scale
  <2>1. (q + 1) * h = q * h + h
    BY <1>2
  <2>2. (c - 1) * scale = c * scale - scale
    BY <1>1
  <2>3. (r + 1) * scale \in Nat
    BY <1>1, <1>5, Product
  <2> QED
    BY <1>1, <1>2, <1>4, <1>5, <2>1, <2>2, <2>3
<1>9. r < c + 1 /\ c - 1 < r + 1
  BY <1>1, <1>5, <1>7, <1>8, LessProduct
<1>10. r \in {c - 1, c}
  BY <1>1, <1>5, <1>9
<1> QED
  BY <1>5, <1>6, <1>10 DEF r, q

(* The point of a place regains it, as far as its page allows.             *)
LEMMA PointRegains ==
    ASSUME NEW n, NavInv(n)
    PROVE  Regains(n, ScrollOf(n, JumpPointOf(n)))
<1> DEFINE p == CurrentPage(n)
           top == Laid(n).y[p]
           h == Laid(n).h[p]
           c == Clamp(n.scroll - top, 0, h)
           f == IF h = 0 THEN 0 ELSE (c * FracScale) \div h
           off == (f * h) \div FracScale
<1>1. /\ n.laid \in LayoutKeys /\ n.rows \in Nat /\ n.scroll \in Nat
      /\ n.scroll <= ScrollEnd(n) /\ ScrollEnd(n) \in Nat
      /\ \A at \in 0 .. ScrollEnd(n) : NavClamp(n, at) = at
  BY NavStatic, ScrollFacts DEF NavInv
<1>2. p \in NavPages
  BY <1>1, PagesInView
<1>3. top \in Nat /\ h \in Nat /\ h <= FracScale
  BY <1>1, <1>2, LaidFacts DEF Laid
<1>4. FracScale \in Nat \ {0}
  BY NavigationAssumption
<1>5. Lesser(p, LastPage) = p
  <2>1. p \in 0 .. LastPage /\ LastPage \in Nat
    BY <1>1, <1>2, LaidFacts
  <2> HIDE DEF p
  <2> QED
    BY <2>1 DEF Lesser
<1>6. JumpPointOf(n) = [page |-> p, frac |-> f]
  BY DEF JumpPointOf
<1>7. ScrollOf(n, JumpPointOf(n)) = NavClamp(n, top + off)
  BY <1>5, <1>6 DEF ScrollOf
<1>8. Bottom(Laid(n), p) = top + h
  BY DEF Bottom
<1>9. Regains(n, NavClamp(n, top + off)) <=>
        /\ n.scroll \in top .. top + h => NavClamp(n, top + off) \in {n.scroll - 1, n.scroll}
        /\ n.scroll < top => NavClamp(n, top + off) = NavClamp(n, top)
        /\ n.scroll > top + h => NavClamp(n, top + off) = top + h
  BY <1>8 DEF Regains
<1>10. h # 0 => c \in 0 .. h /\ off \in {c - 1, c} \cap Nat /\ (c = h => off = h)
  <2>1. ASSUME h # 0 PROVE c \in 0 .. h
    <3>1. n.scroll - top \in Int
      BY <1>1, <1>3
    <3> HIDE DEF top, h
    <3> QED
      BY <1>3, <3>1, ClampNat
  <2> HIDE DEF c, h
  <2> QED
    BY <1>3, <1>4, <2>1, FractionLoss
<1>11. h = 0 => off = 0
  <2> HIDE DEF h, c
  <2> QED
    BY <1>4
<1>12. /\ n.scroll < top => c = 0
       /\ n.scroll > top + h => c = h
       /\ n.scroll \in top .. top + h => c = n.scroll - top
  <2> HIDE DEF top, h
  <2> QED
    BY <1>1, <1>3 DEF Clamp
<1> HIDE DEF off, c, h, top
<1>13. CASE n.scroll \in top .. top + h
  <2>1. top + off \in {n.scroll - 1, n.scroll} /\ top + off \in Nat
    BY <1>1, <1>3, <1>10, <1>11, <1>12, <1>13
  <2>2. top + off \in 0 .. ScrollEnd(n)
    BY <1>1, <2>1
  <2> QED
    BY <1>1, <1>3, <1>7, <1>9, <1>13, <2>1, <2>2
<1>14. CASE n.scroll < top
  <2>1. off = 0
    BY <1>10, <1>11, <1>12, <1>14
  <2> QED
    BY <1>1, <1>3, <1>7, <1>9, <1>14, <2>1
<1>15. CASE n.scroll > top + h
  <2>1. off = h
    BY <1>3, <1>10, <1>11, <1>12, <1>15
  <2>2. top + h \in 0 .. ScrollEnd(n)
    BY <1>1, <1>3, <1>15
  <2> QED
    BY <1>1, <1>3, <1>7, <1>9, <1>15, <2>1, <2>2
<1> QED
  BY <1>1, <1>3, <1>13, <1>14, <1>15

LEMMA GoesRoundTrip ==
    ASSUME NEW n, NavInv(n)
    PROVE  JumpsRoundTrip(n)
<1>1. /\ n.jumpIdx <= Len(n.jumps) /\ Len(n.jumps) <= MaxJumps + 1
      /\ \A i \in 1 .. Len(n.jumps) - 1 : n.jumps[i] # n.jumps[i + 1]
  BY DEF NavInv, NavTyped, JumpsInv
<1>2. ASSUME NEW p \in NavPages, IsBigMove(n, p)
      PROVE  LET moved == GotoPage(n, p)
                 back == JumpBack(moved)
                 forth == JumpForward(back)
             IN  /\ Regains(n, back.scroll)
                 /\ JumpPointOf(moved) # JumpPointOf(n) =>
                      /\ Regains(moved, forth.scroll)
                      /\ JumpBack(forth).scroll = back.scroll
  <2> DEFINE from == JumpPointOf(n)
             noted == PushJump(n, from)
             moved == GotoPage(n, p)
             to == JumpPointOf(moved)
             k == Len(noted.jumps)
             list == IF Last(moved.jumps) # to THEN Append(moved.jumps, to) ELSE moved.jumps
             stepped == [moved EXCEPT !.jumps = list, !.jumpIdx = @ - 1]
             back == JumpBack(moved)
  <2>1. from \in JumpPoints
    BY NavStatic, JumpPointIs
  <2> HIDE DEF from
  <2>2. /\ NavInv(noted) /\ noted.jumps # <<>> /\ noted.jumps[k] = from
        /\ noted.jumpIdx = k /\ noted.laid = n.laid /\ noted.rows = n.rows
    BY <2>1, PushJumpKeeps
  <2> HIDE DEF noted
  <2>3. Lesser(p, LastPage) = p
    <3>1. p \in 0 .. LastPage /\ LastPage \in Nat
      BY LaidFacts, NavigationAssumption DEF LayoutKeys
    <3> QED
      BY <3>1 DEF Lesser
  <2>4. moved = GotoPageNoRecord(noted, p)
    BY <1>2, <2>3 DEF GotoPage, noted, from
  <2>5. DOMAIN noted = NavFields /\ noted.jumps \in Seq(JumpPoints) /\ k \in Nat \ {0}
    BY <2>2 DEF NavInv, NavTyped, JumpsInv
  <2>6. /\ DOMAIN moved = NavFields /\ moved.jumps = noted.jumps /\ moved.jumpIdx = k
        /\ moved.laid = n.laid /\ moved.rows = n.rows
    BY <2>2, <2>4, <2>5 DEF GotoPageNoRecord, NavFields
  <2>7. NavInv(moved)
    BY LaidFacts, NavigationAssumption, GotoPageKeeps DEF NavPages, PagesOf
  <2>8. to \in JumpPoints
    BY <2>7, NavStatic, JumpPointIs
  <2> HIDE DEF moved, to, k
  <2>9. /\ list \in Seq(JumpPoints) /\ list[k] = from
        /\ to # from => Len(list) = k + 1 /\ list[k + 1] = to
    BY <2>2, <2>5, <2>6, <2>8 DEF Last, k
  <2>10. back = GotoJumpPoint(stepped, list[k])
    BY <2>2, <2>5, <2>6 DEF JumpBack, to, k
  <2> HIDE DEF list
  <2>11. /\ DOMAIN stepped = NavFields /\ stepped.jumps = list /\ stepped.jumpIdx = k - 1
         /\ stepped.laid = n.laid /\ stepped.rows = n.rows
    BY <2>6 DEF NavFields
  <2> HIDE DEF stepped
  <2>12. /\ DOMAIN back = NavFields /\ back.scroll = ScrollOf(n, from)
         /\ back.jumps = list /\ back.jumpIdx = k - 1
         /\ back.laid = n.laid /\ back.rows = n.rows
    BY <2>9, <2>10, <2>11, GotoPointIs, ScrollOfSame
  <2> HIDE DEF back
  <2>13. ASSUME to # from
         PROVE  /\ JumpForward(back).scroll = ScrollOf(moved, to)
                /\ JumpBack(JumpForward(back)).scroll = back.scroll
    <3> DEFINE ahead == [back EXCEPT !.jumpIdx = @ + 1]
               forth == JumpForward(back)
               again == [forth EXCEPT !.jumps = list, !.jumpIdx = @ - 1]
    <3>1. forth = GotoJumpPoint(ahead, to)
      <4>1. ~ (back.jumpIdx + 1 >= Len(back.jumps)) /\ back.jumps[back.jumpIdx + 2] = to
        <5>1. back.jumpIdx + 2 = k + 1 /\ back.jumpIdx + 1 = k
          BY <2>5, <2>12
        <5> QED
          BY <2>5, <2>9, <2>12, <2>13, <5>1
      <4> QED
        BY <4>1 DEF JumpForward
    <3>2. /\ DOMAIN ahead = NavFields /\ ahead.jumps = list /\ ahead.jumpIdx = k
          /\ ahead.laid = n.laid /\ ahead.rows = n.rows
      BY <2>5, <2>12 DEF NavFields
    <3> HIDE DEF ahead
    <3>3. /\ DOMAIN forth = NavFields /\ forth.scroll = ScrollOf(moved, to)
          /\ forth.jumps = list /\ forth.jumpIdx = k
          /\ forth.laid = n.laid /\ forth.rows = n.rows
      BY <2>6, <3>1, <3>2, GotoPointIs, ScrollOfSame
    <3> HIDE DEF forth
    <3>4. JumpBack(forth) = GotoJumpPoint(again, list[k])
      <4>1. forth.jumpIdx # Len(forth.jumps) /\ forth.jumps # <<>> /\ forth.jumpIdx # 0
        BY <2>5, <2>9, <2>13, <3>3
      <4> QED
        BY <3>3, <4>1 DEF JumpBack
    <3>5. DOMAIN again = NavFields /\ again.laid = n.laid /\ again.rows = n.rows
      BY <3>3 DEF NavFields
    <3> HIDE DEF again
    <3>6. JumpBack(forth).scroll = ScrollOf(n, from)
      BY <2>9, <3>4, <3>5, GotoPointIs, ScrollOfSame
    <3> QED
      BY <2>12, <3>3, <3>6 DEF forth
  <2>14. Regains(n, ScrollOf(n, from)) /\ Regains(moved, ScrollOf(moved, to))
    BY <2>7, PointRegains DEF to, from
  <2> QED
    BY <2>12, <2>13, <2>14 DEF back, moved, to, from
<1> QED
  BY <1>1, <1>2 DEF JumpsRoundTrip

-----------------------------------------------------------------------------
(* The outline panel.                                                      *)

(* The recursion of Filtered.                                              *)
Filters(f, t) ==
    /\ f[0] = <<>>
    /\ \A i \in 1 .. Len(Outline) :
          f[i] = IF IsSubsequence(t.filter, Outline[i].title) THEN Append(f[i - 1], i)
                 ELSE f[i - 1]

LEMMA FilteredRec ==
    ASSUME NEW t
    PROVE  \E f : Filters(f, t) /\ Filtered(t) = f[Len(Outline)]
<1> DEFINE n == Len(Outline)
           Kept(i) == IsSubsequence(t.filter, Outline[i].title)
           Rec(f) == f = [i \in 0 .. n |->
                            IF i = 0 THEN <<>>
                            ELSE IF Kept(i) THEN Append(f[i - 1], i) ELSE f[i - 1]]
           upTo[i \in 0 .. n] == IF i = 0 THEN <<>>
                                 ELSE IF Kept(i) THEN Append(upTo[i - 1], i) ELSE upTo[i - 1]
           D == Seq(Nat)
           none == <<>>
           Step == [i \in 1 .. n |-> [x \in D |-> IF Kept(i) THEN Append(x, i) ELSE x]]
<1>0. n \in Nat
  BY TocAssumption
<1>1. PICK f : Iteration(f, n, D, none, Step)
  <2>1. Step \in [1 .. n -> [D -> D]] /\ none \in D
    <3> HIDE DEF Kept
    <3>1. \A i \in 1 .. n : [x \in D |-> IF Kept(i) THEN Append(x, i) ELSE x] \in [D -> D]
      BY <1>0
    <3> QED
      BY <3>1
  <2>2. n \in Nat
    BY <1>0
  <2> HIDE DEF Step, n, none, D
  <2> QED
    BY <2>1, <2>2, Iterates, Zenon
<1>2. f \in [0 .. n -> D] /\ f[0] = <<>> /\ \A i \in 1 .. n : f[i] = Step[i][f[i - 1]]
  <2> HIDE DEF Step, D
  <2> QED
    BY <1>1 DEF Iteration
<1>3. \A i \in 1 .. n : f[i] = IF Kept(i) THEN Append(f[i - 1], i) ELSE f[i - 1]
  <2> HIDE DEF Kept
  <2> TAKE i \in 1 .. n
  <2>1. Step[i] = [x \in D |-> IF Kept(i) THEN Append(x, i) ELSE x] /\ f[i - 1] \in D
    <3>1. i - 1 \in 0 .. n
      BY <1>0
    <3> HIDE DEF D
    <3>2. f[i - 1] \in D
      BY <1>2, <3>1
    <3> QED
      BY <3>2
  <2>2. f[i] = Step[i][f[i - 1]]
    BY <1>2
  <2> HIDE DEF Step, D
  <2> QED
    BY <2>1, <2>2
<1> HIDE DEF Kept
<1>4. Rec(f)
  <2>1. f = [i \in 0 .. n |-> f[i]]
    <3> HIDE DEF Step, D
    <3> QED
      BY <1>2
  <2>2. ASSUME NEW i \in 0 .. n
        PROVE  f[i] = IF i = 0 THEN <<>>
                      ELSE IF Kept(i) THEN Append(f[i - 1], i) ELSE f[i - 1]
    <3>1. i = 0 \/ i \in 1 .. n
      BY <1>0
    <3> HIDE DEF Step, D
    <3> QED
      BY <1>2, <1>3, <3>1
  <2> QED
    BY <2>1, <2>2
<1>5. Rec(upTo)
  <2>1. \E g : Rec(g)
    BY <1>4
  <2> QED
    BY <2>1 DEF Kept
<1>6. Filtered(t) = upTo[n]
  BY DEF Filtered, Kept
<1> HIDE DEF upTo
<1>7. Filters(upTo, t)
  <2>1. upTo[0] = <<>>
    BY <1>0, <1>5
  <2>2. ASSUME NEW i \in 1 .. n
        PROVE  upTo[i] = IF Kept(i) THEN Append(upTo[i - 1], i) ELSE upTo[i - 1]
    <3>1. i \in 0 .. n /\ i # 0
      BY <1>0
    <3> QED
      BY <1>5, <3>1
  <2> QED
    BY <2>1, <2>2 DEF Filters, Kept
<1> QED
  BY <1>6, <1>7

LEMMA FilteredIs ==
    ASSUME NEW t
    PROVE  /\ Filtered(t) \in Seq(1 .. Len(Outline))
           /\ Len(Filtered(t)) \in Nat /\ Len(Filtered(t)) <= Len(Outline)
<1> DEFINE n == Len(Outline)
<1>0. n \in Nat
  BY TocAssumption
<1>1. PICK f : Filters(f, t) /\ Filtered(t) = f[n]
  BY FilteredRec
<1> DEFINE T == {i \in 0 .. n : f[i] \in Seq(1 .. n) /\ Len(f[i]) <= i}
<1>2. 0 \in T
  <2>1. f[0] = <<>>
    BY <1>1 DEF Filters
  <2>2. Len(<<>>) = 0 /\ <<>> \in Seq(1 .. n) /\ 0 \in 0 .. n /\ 0 <= 0
    BY <1>0
  <2> HIDE DEF n
  <2>3. Len(f[0]) <= 0 /\ f[0] \in Seq(1 .. n)
    BY <2>1, <2>2
  <2> QED
    BY <2>2, <2>3
<1>3. ASSUME NEW i \in 1 .. n, i - 1 \in T PROVE i \in T
  <2>1. f[i - 1] \in Seq(1 .. n) /\ Len(f[i - 1]) \in Nat /\ Len(f[i - 1]) <= i - 1
    BY <1>0, <1>3
  <2>2. f[i] = Append(f[i - 1], i) \/ f[i] = f[i - 1]
    BY <1>1 DEF Filters
  <2> DEFINE x == f[i - 1]
  <2>4. i \in 1 .. n /\ x \in Seq(1 .. n) /\ Len(x) \in Nat /\ Len(x) <= i - 1
    BY <2>1
  <2> HIDE DEF x
  <2>5. Append(x, i) \in Seq(1 .. n) /\ Len(Append(x, i)) <= i /\ Len(x) <= i
    BY <1>0, <2>4
  <2>3. f[i] \in Seq(1 .. n) /\ Len(f[i]) <= i
    BY <2>2, <2>4, <2>5 DEF x
  <2> QED
    BY <2>3
<1>4. n \in T
  <2>1. \A i \in 0 .. n : i \in T
    <3> HIDE DEF T, n
    <3> QED
      BY <1>0, <1>2, <1>3, Climb
  <2> QED
    BY <1>0, <2>1
<1> QED
  BY <1>0, <1>1, <1>4

(* The empty filter keeps every entry.                                     *)
LEMMA EmptyIsSubsequence ==
    ASSUME NEW hay, Len(hay) \in Nat
    PROVE  IsSubsequence(<<>>, hay)
<1> DEFINE n == Len(hay)
           needle == <<>>
           Rec(f) == f = [i \in 0 .. n |->
                            IF i = 0 THEN 0
                            ELSE LET k == f[i - 1]
                                 IN  IF k < Len(needle) /\ needle[k + 1] = hay[i] THEN k + 1 ELSE k]
           found[i \in 0 .. n] ==
             IF i = 0 THEN 0
             ELSE LET k == found[i - 1]
                  IN  IF k < Len(needle) /\ needle[k + 1] = hay[i] THEN k + 1 ELSE k
<1>1. \E f : Rec(f)
  <2> DEFINE f == [i \in 0 .. n |-> 0]
  <2>1. \A i \in 0 .. n : f[i] = 0
    OBVIOUS
  <2>2. f = [i \in 0 .. n |-> f[i]]
    OBVIOUS
  <2>3. ASSUME NEW i \in 0 .. n
        PROVE  f[i] = IF i = 0 THEN 0
                      ELSE LET k == f[i - 1]
                           IN  IF k < Len(needle) /\ needle[k + 1] = hay[i] THEN k + 1 ELSE k
    <3>1. CASE i = 0
      BY <2>1, <3>1
    <3>2. CASE i # 0
      <4>1. i - 1 \in 0 .. n
        BY <3>2
      <4>2. f[i] = 0 /\ f[i - 1] = 0 /\ ~ (0 < Len(needle))
        BY <2>1, <4>1
      <4> HIDE DEF f, needle
      <4> QED
        BY <3>2, <4>2
    <3> QED
      BY <3>1, <3>2
  <2> HIDE DEF f, needle
  <2>4. Rec(f)
    BY <2>2, <2>3
  <2> QED
    BY <2>4
<1>2. Rec(found)
  BY <1>1
<1>3. IsSubsequence(needle, hay) <=> found[n] = Len(needle)
  BY DEF IsSubsequence
<1> HIDE DEF found
<1> DEFINE T == {i \in 0 .. n : found[i] = 0}
<1>4. 0 \in T
  BY <1>2
<1>5. ASSUME NEW i \in 1 .. n, i - 1 \in T PROVE i \in T
  <2>1. i # 0 /\ i \in 0 .. n /\ found[i - 1] = 0 /\ ~ (0 < Len(needle))
    BY <1>5
  <2>2. found[i] = LET k == found[i - 1]
                   IN  IF k < Len(needle) /\ needle[k + 1] = hay[i] THEN k + 1 ELSE k
    BY <1>2, <2>1
  <2> HIDE DEF needle
  <2>3. found[i] = 0
    BY <2>1, <2>2
  <2> QED
    BY <2>1, <2>3
<1>6. found[n] = 0
  <2>1. \A i \in 0 .. n : i \in T
    <3> HIDE DEF T, n
    <3>1. n \in Nat
      BY DEF n
    <3> QED
      BY <1>4, <1>5, <3>1, Climb
  <2> QED
    BY <2>1
<1> QED
  BY <1>3, <1>6

LEMMA AllFiltered ==
    ASSUME NEW t, t.filter = <<>>
    PROVE  Len(Filtered(t)) = Len(Outline)
<1> DEFINE n == Len(Outline)
<1>0. n \in Nat /\ \A i \in 1 .. n : Len(Outline[i].title) \in Nat
  BY TocAssumption
<1>1. PICK f : Filters(f, t) /\ Filtered(t) = f[n]
  BY FilteredRec
<1>2. \A i \in 1 .. n : IsSubsequence(t.filter, Outline[i].title)
  BY <1>0, EmptyIsSubsequence
<1>3. f[0] = <<>> /\ \A i \in 1 .. n : f[i] = Append(f[i - 1], i)
  BY <1>1, <1>2 DEF Filters
<1> DEFINE T == {i \in 0 .. n : f[i] \in Seq(Nat) /\ Len(f[i]) = i}
<1>4. 0 \in T
  <2>1. f[0] = <<>> /\ Len(<<>>) = 0 /\ <<>> \in Seq(Nat) /\ 0 \in 0 .. n
    BY <1>0, <1>3
  <2> QED
    BY <2>1
<1>5. ASSUME NEW i \in 1 .. n, i - 1 \in T PROVE i \in T
  <2>1. f[i - 1] \in Seq(Nat) /\ Len(f[i - 1]) = i - 1
    BY <1>5
  <2> DEFINE x == f[i - 1]
  <2>3. f[i] = Append(x, i)
    BY <1>3
  <2>4. i \in Nat /\ x \in Seq(Nat) /\ Len(x) = i - 1
    BY <1>0, <2>1
  <2> HIDE DEF x
  <2>5. Append(x, i) \in Seq(Nat) /\ Len(Append(x, i)) = i
    BY <2>4
  <2>2. f[i] \in Seq(Nat) /\ Len(f[i]) = i
    BY <2>3, <2>5
  <2> QED
    BY <2>2
<1>6. n \in T
  <2>1. \A i \in 0 .. n : i \in T
    <3> HIDE DEF T, n
    <3> QED
      BY <1>0, <1>4, <1>5, Climb
  <2> QED
    BY <1>0, <2>1
<1> QED
  BY <1>1, <1>6

TocFields == {"open", "filter", "editing", "cursor", "scroll"}

TocInv(t) ==
    /\ DOMAIN t = TocFields
    /\ t.cursor \in Nat /\ t.scroll \in Nat
    /\ t.editing => t.open
    /\ t.open => t.cursor < Len(Outline)
    /\ t.open /\ Filtered(t) # <<>> => t.cursor < Len(Filtered(t))

LEMMA FilteredSame ==
    ASSUME NEW t, NEW u, u.filter = t.filter
    PROVE  Filtered(u) = Filtered(t)
BY DEF Filtered

LEMMA BetweenIs ==
    ASSUME NEW v \in Int, NEW hi \in Nat
    PROVE  Between(v, 0, hi) \in 0 .. hi
<1>1. Min({v, hi}) = Lesser(v, hi) /\ Lesser(v, hi) \in Int /\ Lesser(v, hi) <= hi
  BY MinOfTwo, GreaterLesser
<1>2. Max({0, Lesser(v, hi)}) = Greater(0, Lesser(v, hi))
  BY <1>1, MaxOfTwo
<1> QED
  BY <1>1, <1>2 DEF Between, Greater

LEMMA TocSizes ==
    ASSUME NEW t, NEW rows \in Nat
    PROVE  /\ TocBody(rows) \in Nat /\ TocBody(rows) = Greater(rows - 2, 0)
           /\ MaxTocScroll(t, rows) \in Nat
           /\ MaxTocScroll(t, rows) = Greater(Len(Filtered(t)) - TocBody(rows), 0)
<1>1. TocBody(rows) = Greater(rows - 2, 0)
  <2>1. rows - 2 \in Int
    OBVIOUS
  <2> QED
    BY <2>1, MaxOfTwo DEF TocBody
<1>2. TocBody(rows) \in Nat
  BY <1>1 DEF Greater
<1>3. Len(Filtered(t)) - TocBody(rows) \in Int
  BY <1>2, FilteredIs
<1>4. MaxTocScroll(t, rows) = Greater(Len(Filtered(t)) - TocBody(rows), 0)
  BY <1>3, MaxOfTwo DEF MaxTocScroll
<1> QED
  BY <1>1, <1>2, <1>3, <1>4 DEF Greater

(* What makes a cursor visible leaves the rest of the panel alone.         *)
LEMMA CursorShown ==
    ASSUME NEW t, DOMAIN t = TocFields, t.cursor \in Nat, t.scroll \in Nat, NEW rows \in Nat
    PROVE  LET u == CursorVisible(t, rows)
           IN  /\ DOMAIN u = TocFields /\ u.cursor = t.cursor /\ u.scroll \in Nat
               /\ u.filter = t.filter /\ u.open = t.open /\ u.editing = t.editing
               /\ TocBody(rows) > 0 => u.cursor \in u.scroll .. u.scroll + TocBody(rows) - 1
<1>1. TocBody(rows) \in Nat
  BY TocSizes
<1>2. CASE TocBody(rows) = 0
  BY <1>2 DEF CursorVisible
<1>3. CASE TocBody(rows) # 0 /\ t.cursor < t.scroll
  <2>1. CursorVisible(t, rows) = [t EXCEPT !.scroll = t.cursor]
    BY <1>3 DEF CursorVisible
  <2> QED
    BY <1>1, <1>3, <2>1 DEF TocFields
<1>4. CASE TocBody(rows) # 0 /\ ~ (t.cursor < t.scroll) /\ t.cursor >= t.scroll + TocBody(rows)
  <2>1. CursorVisible(t, rows) = [t EXCEPT !.scroll = t.cursor + 1 - TocBody(rows)]
    BY <1>4 DEF CursorVisible
  <2>2. t.cursor + 1 - TocBody(rows) \in Nat
    BY <1>1, <1>4
  <2> QED
    BY <1>1, <1>4, <2>1, <2>2 DEF TocFields
<1>5. CASE TocBody(rows) # 0 /\ ~ (t.cursor < t.scroll) /\ ~ (t.cursor >= t.scroll + TocBody(rows))
  <2>1. CursorVisible(t, rows) = t
    BY <1>5 DEF CursorVisible
  <2> QED
    BY <1>1, <1>5, <2>1
<1> QED
  BY <1>2, <1>3, <1>4, <1>5

(* A cursor that is moved within a list that is not empty: TocMove, and    *)
(* TocBottom.                                                              *)
LEMMA CursorMoved ==
    ASSUME NEW t, TocInv(t), Filtered(t) # <<>>, NEW rows \in Nat,
           NEW c \in 0 .. Len(Filtered(t)) - 1
    PROVE  LET u == CursorVisible([t EXCEPT !.cursor = c], rows)
           IN  /\ TocInv(u) /\ u.filter = t.filter /\ u.open = t.open
               /\ u.cursor = c
               /\ TocBody(rows) > 0 => u.cursor \in u.scroll .. u.scroll + TocBody(rows) - 1
<1> DEFINE m == [t EXCEPT !.cursor = c]
           u == CursorVisible(m, rows)
<1>1. /\ DOMAIN m = TocFields /\ m.cursor = c /\ c \in Nat /\ m.scroll \in Nat
      /\ m.filter = t.filter /\ m.open = t.open /\ m.editing = t.editing
  BY FilteredIs DEF TocInv, TocFields
<1> HIDE DEF m
<1>2. /\ DOMAIN u = TocFields /\ u.cursor = c /\ u.scroll \in Nat
      /\ u.filter = t.filter /\ u.open = t.open /\ u.editing = t.editing
      /\ TocBody(rows) > 0 => u.cursor \in u.scroll .. u.scroll + TocBody(rows) - 1
  BY <1>1, CursorShown
<1> HIDE DEF u
<1>3. Filtered(u) = Filtered(t) /\ Len(Filtered(t)) \in Nat /\ Len(Filtered(t)) <= Len(Outline)
  BY <1>2, FilteredSame, FilteredIs
<1>4. TocInv(u)
  BY <1>1, <1>2, <1>3, TocAssumption DEF TocInv
<1> QED
  BY <1>2, <1>4 DEF u, m

LEMMA TocMoveKeeps ==
    ASSUME NEW t, TocInv(t), NEW delta \in Int, NEW rows \in Nat
    PROVE  LET u == TocMove(t, delta, rows)
           IN  /\ TocInv(u) /\ u.filter = t.filter /\ u.open = t.open
               /\ Filtered(t) # <<>> => u.cursor < Len(Filtered(t))
               /\ Filtered(t) # <<>> /\ TocBody(rows) > 0 =>
                     u.cursor \in u.scroll .. u.scroll + TocBody(rows) - 1
<1>1. CASE Filtered(t) = <<>>
  BY <1>1 DEF TocMove
<1>2. CASE Filtered(t) # <<>>
  <2> DEFINE c == Between(t.cursor + delta, 0, Len(Filtered(t)) - 1)
  <2>1. Len(Filtered(t)) - 1 \in Nat /\ t.cursor + delta \in Int
    BY <1>2, FilteredIs DEF TocInv
  <2>2. c \in 0 .. Len(Filtered(t)) - 1
    BY <2>1, BetweenIs
  <2>3. TocMove(t, delta, rows) = CursorVisible([t EXCEPT !.cursor = c], rows)
    BY <1>2 DEF TocMove
  <2> HIDE DEF c
  <2>4. c < Len(Filtered(t))
    BY <2>1, <2>2
  <2> QED
    BY <1>2, <2>2, <2>3, <2>4, CursorMoved
<1> QED
  BY <1>1, <1>2

LEMMA TocBottomKeeps ==
    ASSUME NEW t, TocInv(t), NEW rows \in Nat
    PROVE  LET u == TocBottom(t, rows)
           IN  /\ TocInv(u) /\ u.filter = t.filter /\ u.open = t.open
               /\ Filtered(t) # <<>> => u.cursor < Len(Filtered(t))
               /\ Filtered(t) # <<>> /\ TocBody(rows) > 0 =>
                     u.cursor \in u.scroll .. u.scroll + TocBody(rows) - 1
<1>1. CASE Filtered(t) = <<>>
  <2> DEFINE m == [t EXCEPT !.cursor = IF Filtered(t) = <<>> THEN @ ELSE Len(Filtered(t)) - 1]
             u == CursorVisible(m, rows)
  <2>1. TocBottom(t, rows) = u
    BY DEF TocBottom
  <2>5. /\ DOMAIN m = TocFields /\ m.cursor = t.cursor /\ m.cursor \in Nat /\ m.scroll \in Nat
        /\ m.filter = t.filter /\ m.open = t.open /\ m.editing = t.editing
    BY <1>1 DEF TocInv, TocFields
  <2> HIDE DEF m
  <2>2. /\ DOMAIN u = TocFields /\ u.cursor = t.cursor /\ u.scroll \in Nat
        /\ u.filter = t.filter /\ u.open = t.open /\ u.editing = t.editing
    BY <2>5, CursorShown
  <2> HIDE DEF u
  <2>3. Filtered(u) = Filtered(t)
    BY <2>2, FilteredSame
  <2>4. TocInv(u)
    BY <1>1, <2>2, <2>3 DEF TocInv
  <2> QED
    BY <1>1, <2>1, <2>2, <2>4
<1>2. CASE Filtered(t) # <<>>
  <2> DEFINE c == Len(Filtered(t)) - 1
  <2>1. c \in 0 .. Len(Filtered(t)) - 1 /\ c < Len(Filtered(t))
    BY <1>2, FilteredIs
  <2>2. TocBottom(t, rows) = CursorVisible([t EXCEPT !.cursor = c], rows)
    BY <1>2 DEF TocBottom
  <2> HIDE DEF c
  <2> QED
    BY <1>2, <2>1, <2>2, CursorMoved
<1> QED
  BY <1>1, <1>2

LEMMA TocTopKeeps ==
    ASSUME NEW t, DOMAIN t = TocFields, t.editing => t.open, t.open => Outline # <<>>
    PROVE  LET u == TocTop(t)
           IN  /\ TocInv(u) /\ u.filter = t.filter /\ u.open = t.open
               /\ u.cursor = 0 /\ u.scroll = 0
<1> DEFINE u == TocTop(t)
<1>1. /\ DOMAIN u = TocFields /\ u.cursor = 0 /\ u.scroll = 0
      /\ u.filter = t.filter /\ u.open = t.open /\ u.editing = t.editing
  BY DEF TocTop, TocFields
<1> HIDE DEF u
<1>2. Filtered(u) # <<>> => 0 < Len(Filtered(u))
  BY FilteredIs
<1>3. Outline # <<>> => 0 < Len(Outline)
  BY TocAssumption
<1> QED
  BY <1>1, <1>2, <1>3 DEF TocInv, u

LEMMA OpenHasOutline ==
    ASSUME NEW t, TocInv(t), t.open
    PROVE  Outline # <<>>
<1>1. 0 < Len(Outline)
  BY TocAssumption DEF TocInv
<1> QED
  BY <1>1

LEMMA FilterKeysKeep ==
    ASSUME NEW t, TocInv(t), t.open
    PROVE  /\ TocInv(FilterStart(t)) /\ TocInv(FilterPop(t))
           /\ \A c : TocInv(FilterPush(t, c))
           /\ TocInv(FilterClear(t)) /\ TocInv(FilterFinish(t))
           /\ FilterFinish(t).open = t.open
<1>0. DOMAIN t = TocFields /\ Outline # <<>>
  BY OpenHasOutline DEF TocInv
<1>1. TocInv(FilterStart(t))
  <2> DEFINE m == [t EXCEPT !.filter = <<>>, !.editing = TRUE]
  <2>1. DOMAIN m = TocFields /\ m.open
    BY <1>0 DEF TocFields
  <2> HIDE DEF m
  <2> QED
    BY <1>0, <2>1, TocTopKeeps DEF FilterStart, m
<1>2. TocInv(FilterPop(t))
  <2> DEFINE m == [t EXCEPT !.filter = IF @ = <<>> THEN @ ELSE Front(@)]
  <2>1. DOMAIN m = TocFields /\ m.open
    BY <1>0 DEF TocFields
  <2> HIDE DEF m
  <2> QED
    BY <1>0, <2>1, TocTopKeeps DEF FilterPop, m
<1>3. ASSUME NEW c PROVE TocInv(FilterPush(t, c))
  <2> DEFINE m == [t EXCEPT !.filter = Append(@, c)]
  <2>1. DOMAIN m = TocFields /\ m.open
    BY <1>0 DEF TocFields
  <2> HIDE DEF m
  <2> QED
    BY <1>0, <2>1, TocTopKeeps DEF FilterPush, m
<1>4. TocInv(FilterClear(t))
  <2> DEFINE u == [t EXCEPT !.filter = <<>>]
  <2>1. /\ DOMAIN u = TocFields /\ u.filter = <<>> /\ u.cursor = t.cursor
        /\ u.scroll = t.scroll /\ u.editing = t.editing /\ u.open = t.open
    BY <1>0 DEF TocFields
  <2> HIDE DEF u
  <2>2. Len(Filtered(u)) = Len(Outline)
    BY <2>1, AllFiltered
  <2>3. TocInv(u)
    BY <2>1, <2>2 DEF TocInv
  <2> QED
    BY <2>3 DEF FilterClear, u
<1>5. TocInv(FilterFinish(t)) /\ FilterFinish(t).open = t.open
  <2> DEFINE u == [t EXCEPT !.editing = FALSE]
  <2>1. /\ DOMAIN u = TocFields /\ u.filter = t.filter /\ u.cursor = t.cursor
        /\ u.scroll = t.scroll /\ u.editing = FALSE /\ u.open = t.open
    BY <1>0 DEF TocFields
  <2> HIDE DEF u
  <2>2. Filtered(u) = Filtered(t)
    BY <2>1, FilteredSame
  <2>3. TocInv(u)
    BY <2>1, <2>2 DEF TocInv
  <2> QED
    BY <2>1, <2>3 DEF FilterFinish, u
<1> QED
  BY <1>1, <1>2, <1>3, <1>4, <1>5

LEMMA TocClosed ==
    ASSUME NEW t, TocInv(t)
    PROVE  TocInv([t EXCEPT !.open = FALSE, !.editing = FALSE])
BY DEF TocInv, TocFields

LEMMA ToggleTocKeeps ==
    ASSUME NEW t, TocInv(t)
    PROVE  TocInv(ToggleToc(t)) /\ TocInv(NoToc)
<1>1. TocInv(NoToc)
  BY DEF TocInv, NoToc, TocFields
<1>2. TocInv(ToggleToc(t))
  <2>1. CASE t.open
    BY <2>1, TocClosed DEF ToggleToc
  <2>2. CASE ~ t.open /\ Outline = <<>>
    BY <2>2 DEF ToggleToc
  <2>3. CASE ~ t.open /\ Outline # <<>>
    <3> DEFINE u == [NoToc EXCEPT !.open = TRUE]
    <3>1. /\ DOMAIN u = TocFields /\ u.filter = <<>> /\ u.cursor = 0
          /\ u.scroll = 0 /\ u.editing = FALSE /\ u.open = TRUE
      BY DEF NoToc, TocFields
    <3> HIDE DEF u
    <3>2. Len(Filtered(u)) = Len(Outline) /\ 0 < Len(Outline)
      BY <2>3, <3>1, AllFiltered, TocAssumption
    <3>3. TocInv(u)
      BY <3>1, <3>2 DEF TocInv
    <3> QED
      BY <2>3, <3>3 DEF ToggleToc, u
  <2> QED
    BY <2>1, <2>2, <2>3
<1> QED
  BY <1>1, <1>2

LEMMA TocScrolled ==
    ASSUME NEW t, TocInv(t), NEW s \in Nat
    PROVE  TocInv([t EXCEPT !.scroll = s])
<1> DEFINE u == [t EXCEPT !.scroll = s]
<1>1. /\ DOMAIN u = TocFields /\ u.filter = t.filter /\ u.cursor = t.cursor
      /\ u.scroll = s /\ u.editing = t.editing /\ u.open = t.open
  BY DEF TocInv, TocFields
<1> HIDE DEF u
<1>2. Filtered(u) = Filtered(t)
  BY <1>1, FilteredSame
<1>3. TocInv(u)
  BY <1>1, <1>2 DEF TocInv
<1> QED
  BY <1>3 DEF u

LEMMA TocWheelKeeps ==
    ASSUME NEW t, TocInv(t), NEW delta \in Int, NEW rows \in Nat
    PROVE  TocInv(TocWheel(t, delta, rows))
<1> DEFINE s == Between(t.scroll + delta, 0, MaxTocScroll(t, rows))
<1>1. t.scroll + delta \in Int /\ MaxTocScroll(t, rows) \in Nat
  BY TocSizes DEF TocInv
<1>2. s \in 0 .. MaxTocScroll(t, rows)
  BY <1>1, BetweenIs
<1>3. s \in Nat
  BY <1>1, <1>2
<1>4. TocWheel(t, delta, rows) = t \/ TocWheel(t, delta, rows) = [t EXCEPT !.scroll = s]
  BY DEF TocWheel
<1> HIDE DEF s
<1> QED
  BY <1>3, <1>4, TocScrolled

LEMMA DrawnTocIs ==
    ASSUME NEW t, TocInv(t), NEW rows \in Nat
    PROVE  LET u == DrawnToc(t, rows)
           IN  /\ TocInv(u) /\ u.filter = t.filter /\ u.cursor = t.cursor
               /\ u.open = t.open /\ u.editing = t.editing
               /\ t.open => u.scroll = Lesser(t.scroll, MaxTocScroll(t, rows))
<1> DEFINE s == Min({t.scroll, MaxTocScroll(t, rows)})
<1>1. t.scroll \in Nat /\ MaxTocScroll(t, rows) \in Nat /\ DOMAIN t = TocFields
  BY TocSizes DEF TocInv
<1>2. s = Lesser(t.scroll, MaxTocScroll(t, rows))
  BY <1>1, MinOfTwo
<1>3. s \in Nat
  BY <1>1, <1>2 DEF Lesser
<1>4. CASE ~ t.open
  BY <1>4 DEF DrawnToc
<1>5. CASE t.open
  <2>1. DrawnToc(t, rows) = [t EXCEPT !.scroll = s]
    BY <1>5 DEF DrawnToc
  <2> HIDE DEF s
  <2>2. TocInv([t EXCEPT !.scroll = s])
    BY <1>3, TocScrolled
  <2> QED
    BY <1>1, <1>2, <2>1, <2>2 DEF TocFields
<1> QED
  BY <1>4, <1>5

LEMMA RowsInList ==
    ASSUME NEW t, NEW row, NEW rows
    PROVE  RowToIndex(t, row, rows) \subseteq 0 .. Len(Filtered(t)) - 1
BY DEF RowToIndex

LEMMA ClickRowKeeps ==
    ASSUME NEW t, TocInv(t), NEW row, NEW rows
    PROVE  TocInv(ClickRow(t, row, rows))
<1>1. CASE RowToIndex(t, row, rows) = {}
  BY <1>1 DEF ClickRow
<1>2. CASE RowToIndex(t, row, rows) # {}
  <2> DEFINE c == CHOOSE i \in RowToIndex(t, row, rows) : TRUE
             u == [t EXCEPT !.cursor = c]
  <2>1. c \in 0 .. Len(Filtered(t)) - 1
    BY <1>2, RowsInList
  <2>2. Len(Filtered(t)) \in Nat /\ Len(Filtered(t)) <= Len(Outline) /\ Len(Outline) \in Nat
    BY FilteredIs, TocAssumption
  <2>3. ClickRow(t, row, rows) = u
    BY <1>2 DEF ClickRow
  <2> HIDE DEF c
  <2>4. /\ DOMAIN u = TocFields /\ u.filter = t.filter /\ u.cursor = c
        /\ u.scroll = t.scroll /\ u.editing = t.editing /\ u.open = t.open
    BY DEF TocInv, TocFields
  <2> HIDE DEF u
  <2>5. Filtered(u) = Filtered(t)
    BY <2>4, FilteredSame
  <2>6. TocInv(u)
    BY <2>1, <2>2, <2>4, <2>5 DEF TocInv
  <2> QED
    BY <2>3, <2>6
<1> QED
  BY <1>1, <1>2

LEMMA TocTargetIs ==
    ASSUME NEW t, TocInv(t)
    PROVE  TocTarget(t) \subseteq Nat /\ TocInv(Activated(t))
<1>1. TocTarget(t) \subseteq Nat
  <2>1. CASE t.cursor >= Len(Filtered(t))
    BY <2>1 DEF TocTarget
  <2>2. CASE ~ (t.cursor >= Len(Filtered(t)))
    <3>1. t.cursor + 1 \in 1 .. Len(Filtered(t)) /\ Filtered(t) \in Seq(1 .. Len(Outline))
      BY <2>2, FilteredIs DEF TocInv
    <3>2. Filtered(t)[t.cursor + 1] \in 1 .. Len(Outline)
      BY <3>1
    <3> DEFINE k == Filtered(t)[t.cursor + 1]
    <3> HIDE DEF k
    <3>5. k \in 1 .. Len(Outline)
      BY <3>2 DEF k
    <3>6. \A S : Outline \in Seq(S) => \A j \in 1 .. Len(Outline) : Outline[j] \in S
      OBVIOUS
    <3>4. Outline[k] \in [title : Seq(STRING), pages : SUBSET Nat]
      BY <3>5, <3>6, TocAssumption, Zenon
    <3>3. Outline[k].pages \subseteq Nat
      BY <3>4
    <3> QED
      BY <2>2, <3>3 DEF TocTarget, k
  <2> QED
    BY <2>1, <2>2
<1> QED
  BY <1>1, TocClosed DEF Activated

(* The entry that a key makes current is drawn, and drawing does not move  *)
(* it out of sight.                                                        *)
ShownIn(u, rows) == u.cursor \in u.scroll .. u.scroll + TocBody(rows) - 1

LEMMA DrawnShows ==
    ASSUME NEW t, TocInv(t), t.open, NEW rows \in Nat, TocBody(rows) > 0,
           t.cursor < Len(Filtered(t)), ShownIn(t, rows)
    PROVE  ShownIn(DrawnToc(t, rows), rows)
<1> DEFINE u == DrawnToc(t, rows)
           len == Len(Filtered(t))
           body == TocBody(rows)
<1>1. u.cursor = t.cursor /\ u.scroll = Lesser(t.scroll, MaxTocScroll(t, rows))
  BY DrawnTocIs
<1>2. /\ len \in Nat /\ body \in Nat /\ body > 0 /\ t.cursor \in Nat /\ t.scroll \in Nat
      /\ MaxTocScroll(t, rows) = Greater(len - body, 0) /\ t.cursor < len
      /\ t.cursor \in t.scroll .. t.scroll + body - 1
  BY FilteredIs, TocSizes DEF TocInv, ShownIn
<1> HIDE DEF u, len, body
<1>3. u.cursor \in u.scroll .. u.scroll + body - 1
  BY <1>1, <1>2 DEF Lesser, Greater
<1> QED
  BY <1>3 DEF ShownIn, u, body

LEMMA PanelIsSound ==
    ASSUME NEW t, TocInv(t), NEW rows \in Nat
    PROVE  PanelSound(t, rows)
<1> SUFFICES ASSUME t.open PROVE PanelSound(t, rows)
  BY DEF PanelSound
<1> DEFINE list == Filtered(t)
           drawn == DrawnToc(t, rows)
           body == TocBody(rows)
<1>1. list # <<>> => t.cursor < Len(list)
  BY DEF TocInv
<1>2. ASSUME list # <<>>, body > 0,
             NEW u \in {TocMove(t, 1, rows), TocMove(t, -1, rows), TocTop(t), TocBottom(t, rows)}
      PROVE  ShownIn(u, rows) /\ ShownIn(DrawnToc(u, rows), rows)
  <2>1. TocInv(u) /\ u.filter = t.filter /\ u.open /\ u.cursor < Len(list) /\ ShownIn(u, rows)
    <3>1. CASE u = TocTop(t)
      <4>1. DOMAIN t = TocFields /\ (t.editing => t.open) /\ Outline # <<>>
        BY OpenHasOutline DEF TocInv
      <4>2. TocInv(u) /\ u.filter = t.filter /\ u.open /\ u.cursor = 0 /\ u.scroll = 0
        BY <3>1, <4>1, TocTopKeeps
      <4>3. 0 < Len(list) /\ body \in Nat
        BY <1>2, FilteredIs, TocSizes
      <4> QED
        BY <1>2, <4>2, <4>3 DEF ShownIn
    <3>2. CASE u = TocBottom(t, rows)
      BY <1>2, <3>2, TocBottomKeeps DEF ShownIn
    <3>3. ASSUME NEW d \in {1, -1}, u = TocMove(t, d, rows)
          PROVE  TocInv(u) /\ u.filter = t.filter /\ u.open /\ u.cursor < Len(list) /\ ShownIn(u, rows)
      <4>1. d \in Int
        OBVIOUS
      <4> QED
        BY <1>2, <3>3, <4>1, TocMoveKeeps DEF ShownIn
    <3> QED
      BY <1>2, <3>1, <3>2, <3>3
  <2>2. Filtered(u) = list
    BY <2>1, FilteredSame
  <2> QED
    BY <1>2, <2>1, <2>2, DrawnShows
<1>3. ASSUME NEW row \in 0 .. rows - 1, NEW i \in RowToIndex(drawn, row, rows)
      PROVE  Filtered(drawn)[i + 1] = TocWindow(drawn, rows)[row]
  <2> DEFINE len == Len(Filtered(drawn))
             s == drawn.scroll
             last == Min({s + body, len})
  <2>1. s \in Nat /\ body \in Nat /\ len \in Nat /\ Filtered(drawn) \in Seq(1 .. Len(Outline))
    BY DrawnTocIs, TocSizes, FilteredIs DEF TocInv
  <2>2. i = s + row - 1 /\ row >= 1 /\ row - 1 < body /\ i \in 0 .. len - 1
    BY <1>3 DEF RowToIndex
  <2>3. TocWindow(drawn, rows) = SubSeq(Filtered(drawn), s + 1, last)
    BY DEF TocWindow
  <2>4. last = Lesser(s + body, len)
    BY <2>1, MinOfTwo, SMTT(30)
  <2> HIDE DEF s, body, len, last
  <2>5. last \in Nat /\ last <= len /\ s + row <= last
    BY <2>1, <2>2, <2>4 DEF Lesser
  <2>6. SubSeq(Filtered(drawn), s + 1, last)[row] = Filtered(drawn)[s + row]
    <3> DEFINE q == Filtered(drawn)
    <3>1. q \in Seq(1 .. Len(Outline)) /\ Len(q) = len
      BY <2>1 DEF len
    <3> HIDE DEF q
    <3>2. SubSeq(q, s + 1, last)[row] = q[s + row]
      BY <2>1, <2>2, <2>5, <3>1
    <3> QED
      BY <3>2 DEF q
  <2>7. i + 1 = s + row
    BY <2>1, <2>2
  <2> QED
    BY <2>3, <2>6, <2>7
<1> QED
  BY <1>1, <1>2, <1>3 DEF PanelSound, ShownIn

-----------------------------------------------------------------------------
(* The text of a page: what the motions and the text objects return are    *)
(* characters of the page.                                                 *)

LEMMA TextFacts ==
    ASSUME NEW pt, IsPageText(pt)
    PROVE  /\ LastCaret(pt) \in Nat /\ Carets(pt) = 1 .. LastCaret(pt)
           /\ Lines(pt) \subseteq Nat
           /\ \A i \in Carets(pt) : pt.line[i] \in Lines(pt)
           /\ \A m \in Lines(pt) : 0 .. m \subseteq Lines(pt)
           /\ \A m \in Lines(pt) : \E i \in Carets(pt) : pt.line[i] = m
           /\ \A i \in Carets(pt) :
                 /\ pt.chars[i].x \in Nat /\ pt.chars[i].y \in Nat
                 /\ pt.chars[i].w \in Nat /\ pt.chars[i].h \in Nat
<1>1. /\ LastCaret(pt) \in Nat /\ Carets(pt) = 1 .. LastCaret(pt)
      /\ DOMAIN pt.line = Carets(pt)
      /\ \A m \in Lines(pt) : m \in Nat /\ 0 .. m \subseteq Lines(pt)
  BY DEF IsPageText, LastCaret
<1>2. Lines(pt) = {pt.line[i] : i \in Carets(pt)}
  BY <1>1 DEF Lines, Range
<1>3. ASSUME NEW i \in Carets(pt)
      PROVE  /\ pt.chars[i].x \in Nat /\ pt.chars[i].y \in Nat
             /\ pt.chars[i].w \in Nat /\ pt.chars[i].h \in Nat
  BY DEF IsPageText
<1> QED
  BY <1>1, <1>2, <1>3

LEMMA LeastCaret ==
    ASSUME NEW pt, IsPageText(pt), NEW S, S \subseteq Carets(pt), S # {}
    PROVE  /\ Min(S) \in S /\ \A i \in S : Min(S) <= i
           /\ Max(S) \in S /\ \A i \in S : Max(S) >= i
<1>1. S \subseteq Nat /\ S \subseteq 0 .. LastCaret(pt) /\ LastCaret(pt) \in Nat
  BY TextFacts
<1> QED
  BY <1>1, MinIs, MaxIs

LEMMA LastLine ==
    ASSUME NEW pt, IsPageText(pt), Carets(pt) # {}
    PROVE  /\ Max(Lines(pt)) \in Lines(pt) /\ \A m \in Lines(pt) : Max(Lines(pt)) >= m
           /\ Max(Lines(pt)) \in Nat
<1> DEFINE f == [i \in Carets(pt) |-> pt.line[i]]
           n == LastCaret(pt)
<1>1. n \in Nat \ {0} /\ f \in [1 .. n -> Nat] /\ \A i \in Carets(pt) : f[i] = pt.line[i]
  BY TextFacts
<1> HIDE DEF f, n
<1>2. PICK i \in 1 .. n : \A j \in 1 .. n : f[j] <= f[i]
  <2>1. 1 .. n # {}
    BY <1>1
  <2> QED
    BY <1>1, <2>1, GreatestValue
<1> DEFINE top == f[i]
<1>3. i \in Carets(pt) /\ Carets(pt) = 1 .. n
  BY TextFacts DEF n
<1>4. top \in Lines(pt) /\ top \in Nat
  BY <1>1, <1>3, TextFacts
<1>5. \A m \in Lines(pt) : m <= top
  BY <1>1, <1>2, <1>3, TextFacts, ZenonT(30)
<1> HIDE DEF top
<1>6. \E m \in Lines(pt) : \A k \in Lines(pt) : m >= k
  BY <1>4, <1>5, TextFacts
<1> QED
  BY <1>4, <1>5, <1>6, TextFacts DEF Max

LEMMA LineHasCarets ==
    ASSUME NEW pt, IsPageText(pt), NEW m \in Lines(pt)
    PROVE  OnLine(pt, m) \subseteq Carets(pt) /\ OnLine(pt, m) # {}
BY TextFacts DEF OnLine

LEMMA LineEnds ==
    ASSUME NEW pt, IsPageText(pt), NEW m \in Lines(pt)
    PROVE  /\ LineStart(pt, m) \in Carets(pt) /\ LineEnd(pt, m) \in Carets(pt)
           /\ FirstNonBlank(pt, m) \in Carets(pt)
           /\ \A i \in OnLine(pt, m) : LineStart(pt, m) <= i /\ LineEnd(pt, m) >= i
<1> DEFINE ink == {i \in OnLine(pt, m) : ~ Blank(pt, i)}
<1>1. OnLine(pt, m) \subseteq Carets(pt) /\ OnLine(pt, m) # {} /\ ink \subseteq Carets(pt)
  BY LineHasCarets
<1>2. /\ LineStart(pt, m) \in Carets(pt) /\ LineEnd(pt, m) \in Carets(pt)
      /\ \A i \in OnLine(pt, m) : LineStart(pt, m) <= i /\ LineEnd(pt, m) >= i
  BY <1>1, LeastCaret DEF LineStart, LineEnd
<1>3. FirstNonBlank(pt, m) = IF ink = {} THEN LineStart(pt, m) ELSE Min(ink)
  BY DEF FirstNonBlank
<1> HIDE DEF ink
<1>4. ink # {} => Min(ink) \in Carets(pt)
  BY <1>1, LeastCaret
<1> QED
  BY <1>2, <1>3, <1>4

LEMMA WordsOnLine ==
    ASSUME NEW pt, IsPageText(pt), NEW m
    PROVE  WordStarts(pt, m) \subseteq Carets(pt)
BY DEF WordStarts, OnLine

LEMMA WordStepsIn ==
    ASSUME NEW pt, IsPageText(pt), NEW i \in Carets(pt)
    PROVE  NextWordStart(pt, i) \in Carets(pt) /\ PrevWordStart(pt, i) \in Carets(pt)
<1> DEFINE here == WordStarts(pt, pt.line[i])
           rest == {s \in here : s > i}
           below == {m \in Lines(pt) : m > pt.line[i] /\ WordStarts(pt, m) # {}}
           past == {s \in here : s < i}
           above == {m \in Lines(pt) : m < pt.line[i] /\ WordStarts(pt, m) # {}}
<1>1. LastCaret(pt) \in Carets(pt) /\ 1 \in Carets(pt)
  BY TextFacts
<1>2. rest \subseteq Carets(pt) /\ past \subseteq Carets(pt)
  BY WordsOnLine
<1>3. below # {} => WordStarts(pt, Min(below)) # {}
  <2>1. below \subseteq Nat
    BY TextFacts
  <2>2. \A m \in below : WordStarts(pt, m) # {}
    OBVIOUS
  <2> HIDE DEF below
  <2> QED
    BY <2>1, <2>2, MinIs
<1>4. above # {} => WordStarts(pt, Max(above)) # {}
  <2>1. above \subseteq 0 .. Max(Lines(pt)) /\ Max(Lines(pt)) \in Nat
    BY <1>1, LastLine, TextFacts
  <2>2. \A m \in above : WordStarts(pt, m) # {}
    OBVIOUS
  <2> HIDE DEF above
  <2> QED
    BY <2>1, <2>2, MaxIs
<1>5. /\ NextWordStart(pt, i) = IF rest # {} THEN Min(rest)
                                ELSE IF below # {} THEN Min(WordStarts(pt, Min(below)))
                                ELSE LastCaret(pt)
      /\ PrevWordStart(pt, i) = IF past # {} THEN Max(past)
                                ELSE IF above # {} THEN Max(WordStarts(pt, Max(above))) ELSE 1
  BY DEF NextWordStart, PrevWordStart
<1> HIDE DEF rest, past, below, above
<1>6. /\ rest # {} => Min(rest) \in Carets(pt)
      /\ past # {} => Max(past) \in Carets(pt)
  BY <1>2, LeastCaret
<1>7. below # {} => Min(WordStarts(pt, Min(below))) \in Carets(pt)
  BY <1>3, WordsOnLine, LeastCaret
<1>8. above # {} => Max(WordStarts(pt, Max(above))) \in Carets(pt)
  BY <1>4, WordsOnLine, LeastCaret
<1> QED
  BY <1>1, <1>5, <1>6, <1>7, <1>8

LEMMA SkipBlanksIn ==
    ASSUME NEW pt, IsPageText(pt), NEW i \in Carets(pt)
    PROVE  SkipBlanks(pt, i) \in Carets(pt) /\ SkipBlanks(pt, i) >= i
<1> DEFINE S == {j \in i .. LastCaret(pt) : ~ Blank(pt, j)} \cup {LastCaret(pt)}
<1>1. S \subseteq Carets(pt) /\ S # {} /\ \A j \in S : j >= i
  BY TextFacts
<1>2. SkipBlanks(pt, i) = Min(S)
  BY DEF SkipBlanks
<1> HIDE DEF S
<1> QED
  BY <1>1, <1>2, LeastCaret

LEMMA RunsIn ==
    ASSUME NEW pt, IsPageText(pt), NEW i \in Carets(pt)
    PROVE  RunEnd(pt, i) \in Carets(pt) /\ (~ Blank(pt, i) => RunStart(pt, i) \in Carets(pt))
<1> DEFINE S == {i} \cup {e \in i .. LastCaret(pt) : \A j \in i + 1 .. e : ~ Blank(pt, j)}
           R == {s \in 1 .. i : \A j \in s .. i : ~ Blank(pt, j)}
<1>1. S \subseteq Carets(pt) /\ S # {} /\ RunEnd(pt, i) = Max(S)
  BY TextFacts DEF RunEnd
<1>2. R \subseteq Carets(pt) /\ RunStart(pt, i) = Min(R)
  BY TextFacts DEF RunStart
<1>3. ASSUME ~ Blank(pt, i) PROVE i \in R
  <2>1. i \in 1 .. i /\ \A j \in i .. i : j = i
    BY TextFacts
  <2> QED
    BY <1>3, <2>1
<1> HIDE DEF S, R
<1> QED
  BY <1>1, <1>2, <1>3, LeastCaret

LEMMA ClampedIs ==
    ASSUME NEW v \in Int, NEW hi \in Nat
    PROVE  Clamped(v, hi) \in 0 .. hi
<1>1. Clamped(v, hi) = Between(v, 0, hi)
  BY DEF Clamped, Between
<1> QED
  BY <1>1, BetweenIs

LEMMA StepsIn ==
    ASSUME NEW pt, IsPageText(pt), NEW i \in Carets(pt), NEW delta \in Int
    PROVE  MoveChars(pt, i, delta) \in Carets(pt) /\ MoveLines(pt, i, delta) \in Carets(pt)
<1>1. MoveChars(pt, i, delta) \in Carets(pt)
  <2>1. i + delta \in Int /\ LastCaret(pt) \in Nat \ {0} /\ Carets(pt) = 1 .. LastCaret(pt)
    BY TextFacts
  <2>2. Min({i + delta, LastCaret(pt)}) = Lesser(i + delta, LastCaret(pt))
    BY <2>1, MinOfTwo
  <2>3. Lesser(i + delta, LastCaret(pt)) \in Int
    BY <2>1 DEF Lesser
  <2>4. MoveChars(pt, i, delta) = Greater(1, Lesser(i + delta, LastCaret(pt)))
    BY <2>2, <2>3, MaxOfTwo DEF MoveChars
  <2> QED
    BY <2>1, <2>4 DEF Greater, Lesser
<1>2. MoveLines(pt, i, delta) \in Carets(pt)
  <2> DEFINE m == Clamped(pt.line[i] + delta, Max(Lines(pt)))
             Off(j) == AbsDiff(pt.chars[j].x, pt.chars[i].x)
             S == {j \in OnLine(pt, m) : \A k \in OnLine(pt, m) : Off(j) <= Off(k)}
             f == [j \in OnLine(pt, m) |-> Off(j)]
  <2>1. m \in Lines(pt)
    <3>1. Max(Lines(pt)) \in Lines(pt) /\ Max(Lines(pt)) \in Nat /\ pt.line[i] \in Nat
      BY LastLine, TextFacts
    <3>2. pt.line[i] + delta \in Int
      BY <3>1
    <3>3. m \in 0 .. Max(Lines(pt))
      BY <3>1, <3>2, ClampedIs
    <3> HIDE DEF m
    <3> QED
      BY <3>1, <3>3, TextFacts
  <2> HIDE DEF m
  <2>2. OnLine(pt, m) \subseteq Carets(pt) /\ OnLine(pt, m) # {}
    BY <2>1, LineHasCarets
  <2>3. f \in [OnLine(pt, m) -> Nat]
    <3>1. ASSUME NEW j \in OnLine(pt, m) PROVE Off(j) \in Nat
      <4>1. pt.chars[j].x \in Nat /\ pt.chars[i].x \in Nat
        BY <2>2, TextFacts
      <4> QED
        BY <4>1 DEF AbsDiff
    <3> QED
      BY <3>1
  <2>4. \A j \in OnLine(pt, m) : f[j] = Off(j)
    OBVIOUS
  <2> HIDE DEF f
  <2>5. \E j \in OnLine(pt, m) : \A k \in OnLine(pt, m) : f[j] <= f[k]
    BY <2>2, <2>3, LeastValue
  <2>6. S # {} /\ S \subseteq Carets(pt)
    BY <2>2, <2>4, <2>5
  <2>7. MoveLines(pt, i, delta) = Min(S)
    BY DEF MoveLines, m
  <2> HIDE DEF S
  <2> QED
    BY <2>6, <2>7, LeastCaret
<1> QED
  BY <1>1, <1>2

LEMMA MotionsIn ==
    ASSUME NEW pt, IsPageText(pt), NEW i \in Carets(pt)
    PROVE  Motions(pt, i) \subseteq Carets(pt)
<1>1. \A d \in {1, -1} : MoveChars(pt, i, d) \in Carets(pt) /\ MoveLines(pt, i, d) \in Carets(pt)
  BY StepsIn
<1>2. EndOfWord(pt, i) \in Carets(pt)
  BY SkipBlanksIn, RunsIn DEF EndOfWord
<1>3. /\ LineStart(pt, pt.line[i]) \in Carets(pt) /\ LineEnd(pt, pt.line[i]) \in Carets(pt)
      /\ FirstNonBlank(pt, pt.line[i]) \in Carets(pt) /\ LastCaret(pt) \in Carets(pt)
  BY TextFacts, LineEnds
<1> QED
  BY <1>1, <1>2, <1>3, WordStepsIn DEF Motions

LEMMA FindCharIn ==
    ASSUME NEW pt, IsPageText(pt), NEW i \in Carets(pt), NEW ch, NEW forward
    PROVE  FindChar(pt, i, ch, forward) \in Carets(pt)
<1> DEFINE same == {j \in OnLine(pt, pt.line[i]) : pt.chars[j].ch = ch}
           ahead == {j \in same : j > i}
           behind == {j \in same : j < i}
<1>1. ahead \subseteq Carets(pt) /\ behind \subseteq Carets(pt)
  BY DEF OnLine
<1>2. FindChar(pt, i, ch, forward) \in {i} \cup (IF ahead = {} THEN {} ELSE {Min(ahead)})
                                          \cup (IF behind = {} THEN {} ELSE {Max(behind)})
  BY DEF FindChar
<1> HIDE DEF ahead, behind
<1> QED
  BY <1>1, <1>2, LeastCaret

(* A text object, in {} or {<<first, last>>}.                              *)
LEMMA TextObjectsIn ==
    ASSUME NEW pt, IsPageText(pt), NEW i \in Carets(pt),
           NEW r \in WordAround(pt, i) \cup SentenceAround(pt, i) \cup ParagraphAround(pt, i)
    PROVE  r[1] \in Carets(pt) /\ r[2] \in Carets(pt)
<1>0. LastCaret(pt) \in Carets(pt) /\ Carets(pt) = 1 .. LastCaret(pt) /\ 1 \in Carets(pt)
  BY TextFacts
<1>1. CASE r \in WordAround(pt, i)
  <2> DEFINE a == SkipBlanks(pt, i)
  <2>1. ~ Blank(pt, a) /\ r = <<RunStart(pt, a), RunEnd(pt, a)>>
    BY <1>1 DEF WordAround
  <2>2. a \in Carets(pt)
    BY SkipBlanksIn
  <2> QED
    BY <2>1, <2>2, RunsIn
<1>2. CASE r \in SentenceAround(pt, i)
  <2> DEFINE from == Max({1} \cup {k + 1 : k \in {j \in 1 .. i - 1 : Stop(pt, j)}})
             ink == {k \in from .. LastCaret(pt) : ~ Blank(pt, k)}
             ends == {k \in i .. LastCaret(pt) : Stop(pt, k)} \cup {LastCaret(pt)}
             starts == {1} \cup {k + 1 : k \in {j \in 1 .. i - 1 : Stop(pt, j)}}
  <2>1. ink # {} /\ r = <<Min(ink), Min(ends)>>
    BY <1>2 DEF SentenceAround
  <2>2. ends \subseteq Carets(pt) /\ ends # {}
    BY <1>0
  <2>3. starts \subseteq Carets(pt) /\ starts # {} /\ from = Max(starts)
    BY <1>0
  <2> HIDE DEF starts, ends, from
  <2>4. from \in Carets(pt)
    BY <2>3, LeastCaret
  <2>5. ink \subseteq Carets(pt)
    BY <1>0, <2>4
  <2> HIDE DEF ink
  <2>6. Min(ink) \in Carets(pt) /\ Min(ends) \in Carets(pt)
    BY <2>1, <2>2, <2>5, LeastCaret
  <2> QED
    BY <2>1, <2>6
<1>3. CASE r \in ParagraphAround(pt, i)
  <2>1. PICK froms, tos :
          /\ froms \subseteq {0} \cup 1 .. pt.line[i] /\ froms # {}
          /\ tos \subseteq (pt.line[i] .. Max(Lines(pt)) - 1) \cup {Max(Lines(pt))} /\ tos # {}
          /\ r = <<LineStart(pt, Max(froms)), LineEnd(pt, Min(tos))>>
    <3> DEFINE heights == SortSeq([m \in 1 .. Cardinality(Lines(pt)) |->
                              LineBottom(pt, m - 1) - LineTop(pt, m - 1)], <)
               median == heights[(Len(heights) \div 2) + 1]
               Gap(m) == 10 * (LineTop(pt, m + 1) - LineBottom(pt, m)) > 16 * median
               froms == {0} \cup {m \in 1 .. pt.line[i] : Gap(m - 1)}
               tos == {m \in pt.line[i] .. Max(Lines(pt)) - 1 : Gap(m)} \cup {Max(Lines(pt))}
    <3>1. r = <<LineStart(pt, Max(froms)), LineEnd(pt, Min(tos))>>
      BY <1>3 DEF ParagraphAround
    <3> HIDE DEF Gap
    <3>2. froms \subseteq {0} \cup 1 .. pt.line[i] /\ froms # {}
      OBVIOUS
    <3>3. tos \subseteq (pt.line[i] .. Max(Lines(pt)) - 1) \cup {Max(Lines(pt))} /\ tos # {}
      OBVIOUS
    <3> HIDE DEF froms, tos
    <3> QED
      BY <3>1, <3>2, <3>3
  <2>2. /\ pt.line[i] \in Nat /\ Max(Lines(pt)) \in Nat /\ pt.line[i] <= Max(Lines(pt))
        /\ 0 .. Max(Lines(pt)) \subseteq Lines(pt)
    BY LastLine, TextFacts
  <2>3. froms \subseteq 0 .. Max(Lines(pt)) /\ tos \subseteq 0 .. Max(Lines(pt))
    BY <2>1, <2>2
  <2>4. Max(froms) \in froms /\ Min(tos) \in tos
    <3>1. tos \subseteq Nat
      BY <2>2, <2>3
    <3> QED
      BY <2>1, <2>2, <2>3, <3>1, MinIs, MaxIs
  <2>5. Max(froms) \in Lines(pt) /\ Min(tos) \in Lines(pt)
    BY <2>2, <2>3, <2>4
  <2> QED
    BY <2>1, <2>5, LineEnds
<1> QED
  BY <1>1, <1>2, <1>3

LEMMA CharAtPointIn ==
    ASSUME NEW pt, IsPageText(pt), Carets(pt) # {}, NEW px \in Int, NEW py \in Int
    PROVE  CharAtPoint(pt, px, py) \in Carets(pt)
<1> DEFINE Under(i) == LET c == pt.chars[i]
                       IN  px \in c.x .. (c.x + c.w) /\ py \in c.y .. (c.y + c.h)
           hit == {i \in Carets(pt) : Under(i)}
           Far(i) == 4 * AbsDiff(CentreY(pt.chars[i]), 2 * py) + AbsDiff(CentreX(pt.chars[i]), 2 * px)
           near == {i \in Carets(pt) : \A j \in Carets(pt) : Far(i) <= Far(j)}
           f == [i \in Carets(pt) |-> Far(i)]
<1>1. CharAtPoint(pt, px, py) = IF hit # {} THEN Min(hit) ELSE Min(near)
  BY DEF CharAtPoint
<1>2. hit \subseteq Carets(pt) /\ near \subseteq Carets(pt)
  OBVIOUS
<1>3. f \in [Carets(pt) -> Nat] /\ \A i \in Carets(pt) : f[i] = Far(i)
  <2>1. ASSUME NEW i \in Carets(pt) PROVE Far(i) \in Nat
    <3>1. /\ pt.chars[i].x \in Nat /\ pt.chars[i].y \in Nat
          /\ pt.chars[i].w \in Nat /\ pt.chars[i].h \in Nat
      BY TextFacts
    <3>2. CentreX(pt.chars[i]) \in Nat /\ CentreY(pt.chars[i]) \in Nat
      BY <3>1 DEF CentreX, CentreY
    <3> QED
      BY <3>2 DEF AbsDiff
  <2> QED
    BY <2>1
<1> HIDE DEF hit, f, Far
<1>4. \E i \in Carets(pt) : \A j \in Carets(pt) : f[i] <= f[j]
  BY <1>3, LeastValue
<1>5. near # {}
  BY <1>3, <1>4
<1> HIDE DEF near
<1> QED
  BY <1>1, <1>2, <1>5, LeastCaret

LEMMA FirstVisibleIn ==
    ASSUME NEW pt, IsPageText(pt), Carets(pt) # {}, NEW top
    PROVE  FirstVisible(pt, top) \in Carets(pt)
<1> DEFINE seen == {i \in Carets(pt) : ~pt.chars[i].generated /\ pt.chars[i].y >= top}
<1>1. FirstVisible(pt, top) = IF seen = {} THEN 1 ELSE Min(seen)
  BY DEF FirstVisible
<1>2. seen \subseteq Carets(pt) /\ 1 \in Carets(pt)
  BY TextFacts
<1> HIDE DEF seen
<1> QED
  BY <1>1, <1>2, LeastCaret

(* Whole lines contain the ends of the range.                              *)
LEMMA LinewiseCovers ==
    ASSUME NEW pt, IsPageText(pt), NEW i, NEW j
    PROVE  /\ i \in Carets(pt) => Linewise(pt, i, j)[1] <= i
           /\ j \in Carets(pt) => Linewise(pt, i, j)[2] >= j
<1>1. ASSUME NEW k \in Carets(pt)
      PROVE  LineStart(pt, pt.line[k]) <= k /\ LineEnd(pt, pt.line[k]) >= k
  <2>1. pt.line[k] \in Lines(pt) /\ k \in OnLine(pt, pt.line[k])
    BY TextFacts DEF OnLine
  <2> QED
    BY <2>1, LineEnds
<1> QED
  BY <1>1 DEF Linewise

-----------------------------------------------------------------------------
(* Links and link hints.                                                   *)

LEMMA LinksOfPage ==
    ASSUME NEW p \in NavPages
    PROVE  /\ Len(PageLinks[p]) \in Nat /\ DOMAIN PageLinks[p] = 1 .. Len(PageLinks[p])
           /\ \A i \in DOMAIN PageLinks[p] :
                 /\ PageLinks[p][i] \in LinkBoxes
                 /\ PageLinks[p][i].x \in Int /\ PageLinks[p][i].y \in Int
                 /\ PageLinks[p][i].action \in LinkActions
<1> DEFINE links == PageLinks[p]
<1>1. links \in Seq(LinkBoxes)
  BY InputAssumption
<1> HIDE DEF links
<1>2. /\ Len(links) \in Nat /\ DOMAIN links = 1 .. Len(links)
      /\ \A i \in DOMAIN links : links[i] \in LinkBoxes
  BY <1>1
<1>3. \A b \in LinkBoxes : b.x \in Int /\ b.y \in Int /\ b.action \in LinkActions
  BY DEF LinkBoxes
<1> QED
  BY <1>2, <1>3 DEF links

(* Links are told apart by the links above them: the ranks are the numbers *)
(* from 0 on.                                                              *)
LEMMA RankedLinks ==
    ASSUME NEW p \in NavPages, NEW k \in DOMAIN PageLinks[p]
    PROVE  \E j \in DOMAIN PageLinks[p] : Cardinality(LinksAbove(p, j)) = k - 1
<1> DEFINE n == Len(PageLinks[p])
           S == 1 .. n
           R == {pair \in S \X S : Above(p, pair[1], pair[2])}
           rank == [j \in S |-> RankIn(S, R, j)]
<1>1. n \in Nat /\ DOMAIN PageLinks[p] = S
  BY LinksOfPage
<1>2. \A i \in S : PageLinks[p][i].x \in Int /\ PageLinks[p][i].y \in Int
  BY <1>1, LinksOfPage
<1>3. IsFiniteSet(S) /\ Cardinality(S) = n
  <2> HIDE DEF n
  <2> QED
    BY <1>1, FS_Interval
<1>4. \A i, j \in S : <<i, j>> \in R <=> Above(p, i, j)
  OBVIOUS
<1>5. LinearOn(S, R)
  <2>1. \A i \in S : ~ Above(p, i, i)
    BY <1>2 DEF Above
  <2>2. \A i, j \in S : i # j => Above(p, i, j) \/ Above(p, j, i)
    <3> TAKE i, j \in S
    <3> HAVE i # j
    <3>1. i \in Int /\ j \in Int
      OBVIOUS
    <3> QED
      BY <1>2, <3>1 DEF Above
  <2>3. \A i, j, m \in S : Above(p, i, j) /\ Above(p, j, m) => Above(p, i, m)
    <3> TAKE i, j, m \in S
    <3>1. i \in Int /\ j \in Int /\ m \in Int
      OBVIOUS
    <3> QED
      BY <1>2, <3>1, SMTT(30) DEF Above
  <2> HIDE DEF S, R
  <2> QED
    BY <1>4, <2>1, <2>2, <2>3 DEF LinearOn
<1>6. \A j \in S : RankIn(S, R, j) = Cardinality(LinksAbove(p, j))
  <2> TAKE j \in S
  <2>1. LinksAbove(p, j) = {i \in S : <<i, j>> \in R}
    <3> HIDE DEF S, R
    <3> QED
      BY <1>1, <1>4 DEF LinksAbove
  <2> HIDE DEF S, R
  <2> QED
    BY <2>1 DEF RankIn
<1> HIDE DEF R
<1>7. rank \in Bijection(S, 0 .. n - 1)
  <2> HIDE DEF n, S
  <2> QED
    BY <1>3, <1>5, Ranked
<1>8. k - 1 \in 0 .. n - 1
  BY <1>1
<1>9. \E j \in S : rank[j] = k - 1
  <2> HIDE DEF n, S, rank
  <2> QED
    BY <1>7, <1>8 DEF Bijection, Surjection
<1> QED
  BY <1>1, <1>6, <1>9

LEMMA ActionsAre ==
    ASSUME NEW p \in NavPages
    PROVE  ActionsOf(p) \in Seq(LinkActions)
<1> DEFINE At(k) == CHOOSE j \in DOMAIN PageLinks[p] : Cardinality(LinksAbove(p, j)) = k - 1
           n == Len(PageLinks[p])
<1>1. n \in Nat /\ DOMAIN PageLinks[p] = 1 .. n
  BY LinksOfPage
<1>2. ASSUME NEW k \in 1 .. n PROVE PageLinks[p][At(k)].action \in LinkActions
  <2>1. At(k) \in DOMAIN PageLinks[p]
    BY <1>1, RankedLinks
  <2> QED
    BY <2>1, LinksOfPage
<1>3. ActionsOf(p) = [k \in 1 .. n |-> PageLinks[p][At(k)].action]
  BY <1>1 DEF ActionsOf
<1> HIDE DEF At, n
<1>4. [k \in 1 .. n |-> PageLinks[p][At(k)].action] \in [1 .. n -> LinkActions]
  BY <1>2
<1> QED
  BY <1>1, <1>3, <1>4

(* The recursion of EnterHintMode.                                         *)
LEMMA HintsAre ==
    ASSUME NEW a
    PROVE  \E hints \in Seq(LinkActions) : EnterHintMode(a) = [ClearChordState(a) EXCEPT !.hints = hints]
<1> DEFINE seen == VisiblePages(Laid(a.nav), a.nav.scroll, ViewportOf(a.nav))
           n == LastPage + 1
           Rec(f) == f = [i \in 0 .. n |->
                            IF i = 0 THEN <<>>
                            ELSE IF i - 1 \in seen THEN f[i - 1] \o ActionsOf(i - 1) ELSE f[i - 1]]
           upTo[i \in 0 .. n] ==
             IF i = 0 THEN <<>>
             ELSE IF i - 1 \in seen THEN upTo[i - 1] \o ActionsOf(i - 1) ELSE upTo[i - 1]
           D == Seq(LinkActions)
           none == <<>>
           Step == [i \in 1 .. n |-> [x \in D |-> IF i - 1 \in seen THEN x \o ActionsOf(i - 1) ELSE x]]
<1>0. n \in Nat /\ \A i \in 1 .. n : i - 1 \in NavPages
  BY LaidFacts, NavigationAssumption DEF LayoutKeys
<1>1. EnterHintMode(a) = [ClearChordState(a) EXCEPT !.hints = upTo[n]]
  BY DEF EnterHintMode
<1> HIDE DEF seen
<1>2. PICK f : Iteration(f, n, D, none, Step)
  <2>1. Step \in [1 .. n -> [D -> D]] /\ none \in D
    <3>1. ASSUME NEW i \in 1 .. n
          PROVE  [x \in D |-> IF i - 1 \in seen THEN x \o ActionsOf(i - 1) ELSE x] \in [D -> D]
      <4>1. ActionsOf(i - 1) \in D
        BY <1>0, ActionsAre
      <4> QED
        BY <4>1
    <3> HIDE DEF n
    <3> QED
      BY <3>1
  <2>2. n \in Nat
    BY <1>0
  <2> HIDE DEF Step, n, none, D
  <2> QED
    BY <2>1, <2>2, Iterates, Zenon
<1>3. f \in [0 .. n -> D] /\ f[0] = <<>> /\ \A i \in 1 .. n : f[i] = Step[i][f[i - 1]]
  <2> HIDE DEF Step, D, n
  <2> QED
    BY <1>2 DEF Iteration
<1> HIDE DEF n
<1>4. \A i \in 1 .. n : f[i] = IF i - 1 \in seen THEN f[i - 1] \o ActionsOf(i - 1) ELSE f[i - 1]
  <2> TAKE i \in 1 .. n
  <2>1. Step[i] = [x \in D |-> IF i - 1 \in seen THEN x \o ActionsOf(i - 1) ELSE x] /\ f[i - 1] \in D
    <3>1. i - 1 \in 0 .. n
      BY <1>0
    <3> HIDE DEF D
    <3>2. f[i - 1] \in D
      BY <1>3, <3>1
    <3> QED
      BY <3>2
  <2>2. f[i] = Step[i][f[i - 1]]
    BY <1>3
  <2> HIDE DEF Step, D
  <2> QED
    BY <2>1, <2>2
<1>5. Rec(f)
  <2> HIDE DEF Step, D
  <2>1. f = [i \in 0 .. n |-> f[i]]
    BY <1>3
  <2>2. ASSUME NEW i \in 0 .. n
        PROVE  f[i] = IF i = 0 THEN <<>>
                      ELSE IF i - 1 \in seen THEN f[i - 1] \o ActionsOf(i - 1) ELSE f[i - 1]
    <3>1. i = 0 \/ i \in 1 .. n
      BY <1>0
    <3> QED
      BY <1>3, <1>4, <3>1
  <2> QED
    BY <2>1, <2>2
<1>6. Rec(upTo)
  <2>1. \E g : Rec(g)
    BY <1>5
  <2> QED
    BY <2>1 DEF n
<1> HIDE DEF upTo
<1> DEFINE T == {i \in 0 .. n : upTo[i] \in D}
<1>7. 0 \in T
  <2>1. 0 \in 0 .. n /\ <<>> \in D
    BY <1>0
  <2>2. upTo[0] = <<>>
    BY <1>6, <2>1
  <2> HIDE DEF D, n
  <2> QED
    BY <2>1, <2>2
<1>8. ASSUME NEW i \in 1 .. n, i - 1 \in T PROVE i \in T
  <2>1. i \in 0 .. n /\ i # 0
    BY <1>0
  <2>2. upTo[i] = IF i - 1 \in seen THEN upTo[i - 1] \o ActionsOf(i - 1) ELSE upTo[i - 1]
    BY <1>6, <2>1
  <2>3. ActionsOf(i - 1) \in D /\ upTo[i - 1] \in D
    BY <1>0, <1>8, ActionsAre
  <2>4. upTo[i] \in D
    BY <2>2, <2>3
  <2> QED
    BY <2>1, <2>4
<1>9. upTo[n] \in D
  <2>1. \A i \in 0 .. n : i \in T
    <3> HIDE DEF T
    <3> QED
      BY <1>0, <1>7, <1>8, Climb
  <2> QED
    BY <1>0, <2>1
<1> QED
  BY <1>1, <1>9 DEF n

LEMMA HintMatchesIn ==
    ASSUME NEW n \in Nat, NEW typed
    PROVE  HintMatches(HintLabels(n), typed) \subseteq 1 .. n
BY DEF HintMatches, HintLabels

LEMMA LinkAtIn ==
    ASSUME NEW p \in NavPages, NEW x, NEW y, NEW slopX, NEW slopY
    PROVE  LinkAt(PageLinks[p], x, y, slopX, slopY) \subseteq DOMAIN PageLinks[p]
<1> DEFINE boxes == PageLinks[p]
           Holds(b) == /\ b.x - slopX <= x /\ x <= b.x + b.w + slopX
                       /\ b.y - slopY <= y /\ y <= b.y + b.h + slopY
           hit == {i \in DOMAIN boxes : Holds(boxes[i])}
           size == [i \in hit |-> boxes[i].w * boxes[i].h]
           small == {i \in hit : \A j \in hit : boxes[i].w * boxes[i].h <= boxes[j].w * boxes[j].h}
<1>1. LinkAt(boxes, x, y, slopX, slopY) = IF hit = {} THEN {} ELSE {Min(small)}
  BY DEF LinkAt
<1>2. hit \subseteq DOMAIN boxes /\ DOMAIN boxes \subseteq Nat /\ small \subseteq hit
  BY LinksOfPage
<1> HIDE DEF Holds, hit
<1>3. size \in [hit -> Nat]
  <2>1. ASSUME NEW i \in hit PROVE boxes[i].w * boxes[i].h \in Nat
    <3>1. boxes[i] \in LinkBoxes
      BY <1>2, LinksOfPage
    <3>2. boxes[i].w \in Nat /\ boxes[i].h \in Nat
      BY <3>1 DEF LinkBoxes
    <3> QED
      BY <3>2, Product
  <2> QED
    BY <2>1
<1>4. \A i \in hit : size[i] = boxes[i].w * boxes[i].h
  OBVIOUS
<1> HIDE DEF size
<1>5. hit # {} => \E i \in hit : \A j \in hit : size[i] <= size[j]
  BY <1>3, LeastValue
<1>6. hit # {} => small # {}
  BY <1>4, <1>5
<1>7. small \subseteq Nat
  BY <1>2
<1> HIDE DEF small
<1>8. hit # {} => Min(small) \in DOMAIN boxes
  BY <1>2, <1>6, <1>7, MinIs
<1> QED
  BY <1>1, <1>8

-----------------------------------------------------------------------------
(* Counts.                                                                 *)

LEMMA CountIs ==
    ASSUME Len(app.pending) \in Nat
    PROVE  CountOrOne \in Nat
<1> DEFINE n == Len(app.pending)
           IsDigit(i) == app.pending[i] \in DOMAIN DigitValue
           Rec(f) == f = [i \in 0 .. n |->
                            IF i = 0 THEN 0
                            ELSE IF app.pending[i] \in DOMAIN DigitValue
                              THEN 10 * f[i - 1] + DigitValue[app.pending[i]] ELSE f[i - 1]]
           number[i \in 0 .. n] ==
             IF i = 0 THEN 0
             ELSE IF app.pending[i] \in DOMAIN DigitValue
               THEN 10 * number[i - 1] + DigitValue[app.pending[i]] ELSE number[i - 1]
           D == Nat
           none == 0
           value == [i \in 1 .. n |-> IF app.pending[i] \in DOMAIN DigitValue
                                        THEN DigitValue[app.pending[i]] ELSE 0]
           Step == [i \in 1 .. n |-> [x \in Nat |-> IF app.pending[i] \in DOMAIN DigitValue
                                                      THEN 10 * x + DigitValue[app.pending[i]] ELSE x]]
<1>0. n \in Nat
  OBVIOUS
<1>1. \A k \in DOMAIN DigitValue : DigitValue[k] \in Nat
  <2>1. \A k \in DOMAIN DigitValue : DigitValue[k] \in 0 .. 9
    BY InputAssumption
  <2> QED
    BY <2>1
<1>2. PICK f : Iteration(f, n, D, none, Step)
  <2>1. Step \in [1 .. n -> [D -> D]] /\ none \in D
    <3>1. ASSUME NEW i \in 1 .. n
          PROVE  [x \in Nat |-> IF app.pending[i] \in DOMAIN DigitValue
                                  THEN 10 * x + DigitValue[app.pending[i]] ELSE x] \in [D -> D]
      BY <1>1
    <3> QED
      BY <3>1
  <2> HIDE DEF Step, n, none, D
  <2> QED
    BY <1>0, <2>1, Iterates, Zenon
<1>3. f \in [0 .. n -> D] /\ f[0] = 0 /\ \A i \in 1 .. n : f[i] = Step[i][f[i - 1]]
  <2> HIDE DEF Step
  <2> QED
    BY <1>2 DEF Iteration
<1>4. \A i \in 1 .. n : f[i] = IF app.pending[i] \in DOMAIN DigitValue
                               THEN 10 * f[i - 1] + DigitValue[app.pending[i]] ELSE f[i - 1]
  <2> TAKE i \in 1 .. n
  <2>1. /\ Step[i] = [x \in Nat |-> IF app.pending[i] \in DOMAIN DigitValue
                                      THEN 10 * x + DigitValue[app.pending[i]] ELSE x]
        /\ f[i - 1] \in Nat
    <3>1. i - 1 \in 0 .. n
      BY <1>0
    <3>2. f[i - 1] \in Nat
      BY <1>3, <3>1
    <3> QED
      BY <3>2
  <2>2. f[i] = Step[i][f[i - 1]]
    BY <1>3
  <2> HIDE DEF Step
  <2> QED
    BY <2>1, <2>2
<1>5. Rec(f)
  <2> HIDE DEF Step
  <2>1. f = [i \in 0 .. n |-> f[i]]
    BY <1>3
  <2>2. ASSUME NEW i \in 0 .. n
        PROVE  f[i] = IF i = 0 THEN 0
                      ELSE IF app.pending[i] \in DOMAIN DigitValue
                        THEN 10 * f[i - 1] + DigitValue[app.pending[i]] ELSE f[i - 1]
    <3>1. i = 0 \/ i \in 1 .. n
      BY <1>0
    <3> QED
      BY <1>3, <1>4, <3>1
  <2> QED
    BY <2>1, <2>2
<1>6. Rec(number)
  <2>1. \E g : Rec(g)
    BY <1>5
  <2> QED
    BY <2>1
<1>7. \/ Count = {}
      \/ Count = {number[n]}
  BY DEF Count
<1> HIDE DEF number
<1> DEFINE T == {i \in 0 .. n : number[i] \in Nat}
<1>8. 0 \in T
  <2>1. 0 \in 0 .. n
    BY <1>0
  <2> HIDE DEF n
  <2>2. number[0] = 0
    BY <1>6, <2>1
  <2>3. number[0] \in Nat
    BY <2>2
  <2> QED
    BY <2>1, <2>3
<1>9. ASSUME NEW i \in 1 .. n, i - 1 \in T PROVE i \in T
  <2>1. i \in 0 .. n /\ i # 0 /\ number[i - 1] \in Nat
    BY <1>0, <1>9
  <2>2. number[i] = IF app.pending[i] \in DOMAIN DigitValue
                    THEN 10 * number[i - 1] + DigitValue[app.pending[i]] ELSE number[i - 1]
    BY <1>6, <2>1
  <2>3. number[i] \in Nat
    BY <1>1, <2>1, <2>2
  <2> QED
    BY <2>1, <2>3
<1>10. number[n] \in Nat
  <2>1. \A i \in 0 .. n : i \in T
    <3> HIDE DEF T, n
    <3> QED
      BY <1>0, <1>8, <1>9, Climb
  <2> QED
    BY <1>0, <2>1
<1> QED
  BY <1>7, <1>10 DEF CountOrOne

-----------------------------------------------------------------------------
(* The state of the interface.                                             *)

AppFields ==
    {"nav", "area", "mode", "help", "toc", "pending", "awaiting", "hints", "typed", "sel",
     "dragging", "placing", "texts", "click", "search", "query"}

CaretPlaces == {c \in [page : DOMAIN PageTexts, idx : Nat] : c.idx \in Carets(PageTexts[c.page])}
Selections == [anchor : CaretPlaces, head : CaretPlaces, kind : {"char", "line", "block"}]
Results == {r \in [hits : Seq(JumpPoints), current : Nat] : r.current \in 1 .. Len(r.hits)}
LinkPlaces == {k \in [page : NavPages, link : Nat] : k.link \in DOMAIN PageLinks[k.page]}
PendingKeys == Chords \cup {"f", "F", "i"} \cup DOMAIN DigitValue

(* What ModesAgree leaves out: where text is typed, no key is pending.     *)
ModesInv(a) ==
    /\ a.mode \in {"normal", "visual", "command", "search"}
    /\ (a.sel # {}) <=> (a.mode = "visual")
    /\ a.dragging => a.mode = "visual"
    /\ a.hints # <<>> \/ a.awaiting # NoAnswer => a.mode = "normal"
    /\ a.awaiting # NoAnswer => a.hints = <<>> /\ a.pending = <<>> /\ ~a.toc.open
    /\ a.mode \in {"command", "search"} => a.pending = <<>>

AppInv(a) ==
    /\ DOMAIN a = AppFields
    /\ NavInv(a.nav) /\ TocInv(a.toc) /\ a.area \in Nat
    /\ a.pending \in Seq(PendingKeys) /\ a.hints \in Seq(LinkActions)
    /\ a.sel \subseteq Selections /\ a.texts \subseteq DOMAIN PageTexts
    /\ \A c \in a.click : c.at \in LinkPlaces
    /\ a.search \subseteq Results /\ a.query \subseteq DOMAIN QueryHits
    /\ ModesInv(a)

(* What a yank promises.                                                   *)
Covers(y) ==
    /\ DOMAIN y.parts = (y.lo.page .. y.hi.page) \cap DOMAIN PageTexts
    /\ y.parts[y.lo.page][1] <= y.lo.idx /\ y.parts[y.hi.page][2] >= y.hi.idx

InputInv == AppInv(app) /\ \A y \in effect.yank : Covers(y)

LEMMA TextsOf ==
    ASSUME NEW p \in DOMAIN PageTexts
    PROVE  IsPageText(PageTexts[p]) /\ p \in NavPages
BY InputAssumption

LEMMA CaretPlace ==
    ASSUME NEW p, HasText(p), NEW i \in Carets(PageTexts[p])
    PROVE  [page |-> p, idx |-> i] \in CaretPlaces
<1>1. p \in DOMAIN PageTexts
  BY DEF HasText
<1>2. i \in Nat
  BY <1>1, TextsOf, TextFacts
<1> QED
  BY <1>1, <1>2 DEF CaretPlaces

LEMMA PlacedCaret ==
    ASSUME NEW c \in CaretPlaces
    PROVE  /\ c.page \in DOMAIN PageTexts /\ c.page \in NavPages
           /\ IsPageText(PageTexts[c.page]) /\ HasText(c.page)
           /\ c.idx \in Carets(PageTexts[c.page]) /\ c.idx \in Nat
           /\ c = [page |-> c.page, idx |-> c.idx]
<1>1. c.page \in DOMAIN PageTexts /\ c.idx \in Carets(PageTexts[c.page]) /\ c.idx \in Nat
      /\ c = [page |-> c.page, idx |-> c.idx]
  BY DEF CaretPlaces
<1> QED
  BY <1>1, TextsOf DEF HasText

-----------------------------------------------------------------------------
(* What handlers call.                                                     *)

LEMMA Moved ==
    ASSUME NEW a, AppInv(a), NEW n, NavInv(n)
    PROVE  AppInv(Move(a, n))
BY DEF AppInv, ModesInv, AppFields, Move

LEMMA Unpended ==
    ASSUME NEW a, AppInv(a)
    PROVE  /\ AppInv(Unpend(a)) /\ Unpend(a).pending = <<>>
           /\ Unpend(a).nav = a.nav /\ Unpend(a).toc = a.toc /\ Unpend(a).sel = a.sel
           /\ Unpend(a).mode = a.mode /\ Unpend(a).hints = a.hints /\ Unpend(a).awaiting = a.awaiting
           /\ Unpend(a).texts = a.texts
BY DEF AppInv, ModesInv, AppFields, Unpend

LEMMA Unedited ==
    ASSUME NEW t, TocInv(t)
    PROVE  LET u == [t EXCEPT !.editing = FALSE]
           IN  TocInv(u) /\ u.open = t.open /\ ~ u.editing
<1> DEFINE u == [t EXCEPT !.editing = FALSE]
<1>1. /\ DOMAIN u = TocFields /\ u.filter = t.filter /\ u.cursor = t.cursor
      /\ u.scroll = t.scroll /\ u.editing = FALSE /\ u.open = t.open
  BY DEF TocInv, TocFields
<1> HIDE DEF u
<1>2. Filtered(u) = Filtered(t)
  BY <1>1, FilteredSame
<1>3. TocInv(u)
  BY <1>1, <1>2 DEF TocInv
<1> QED
  BY <1>1, <1>3 DEF u

LEMMA Cleared ==
    ASSUME NEW a, DOMAIN a = AppFields, TocInv(a.toc)
    PROVE  LET b == ClearChordState(a)
           IN  /\ DOMAIN b = AppFields
               /\ b.pending = <<>> /\ b.awaiting = NoAnswer /\ b.hints = <<>> /\ b.typed = <<>>
               /\ TocInv(b.toc) /\ b.toc.open = a.toc.open /\ ~ b.toc.editing
               /\ b.nav = a.nav /\ b.area = a.area /\ b.mode = a.mode /\ b.help = a.help
               /\ b.sel = a.sel /\ b.dragging = a.dragging /\ b.placing = a.placing
               /\ b.texts = a.texts /\ b.click = a.click /\ b.search = a.search
               /\ b.query = a.query
<1> DEFINE t == a.toc
           u == [t EXCEPT !.editing = FALSE]
           b == ClearChordState(a)
<1>1. TocInv(u) /\ u.open = t.open /\ ~ u.editing
  BY Unedited
<1> HIDE DEF u
<1>2. b = [a EXCEPT !.pending = <<>>, !.awaiting = NoAnswer, !.hints = <<>>, !.typed = <<>>,
                    !.toc = u]
  BY DEF ClearChordState, u
<1> HIDE DEF b
<1>3. /\ DOMAIN b = AppFields
      /\ b.pending = <<>> /\ b.awaiting = NoAnswer /\ b.hints = <<>> /\ b.typed = <<>>
      /\ b.toc = u
      /\ b.nav = a.nav /\ b.area = a.area /\ b.mode = a.mode /\ b.help = a.help
      /\ b.sel = a.sel /\ b.dragging = a.dragging /\ b.placing = a.placing
      /\ b.texts = a.texts /\ b.click = a.click /\ b.search = a.search
      /\ b.query = a.query
  BY <1>2 DEF AppFields
<1> QED
  BY <1>1, <1>3 DEF b

(* The state with its chords cleared and another mode.                     *)
LEMMA ClearedKeeps ==
    ASSUME NEW a, DOMAIN a = AppFields,
           NavInv(a.nav), TocInv(a.toc), a.area \in Nat,
           a.sel \subseteq Selections, a.texts \subseteq DOMAIN PageTexts,
           \A c \in a.click : c.at \in LinkPlaces,
           a.search \subseteq Results, a.query \subseteq DOMAIN QueryHits,
           a.mode \in {"normal", "visual", "command", "search"},
           (a.sel # {}) <=> (a.mode = "visual"),
           a.dragging => a.mode = "visual"
    PROVE  AppInv(ClearChordState(a))
<1> DEFINE b == ClearChordState(a)
<1>1. /\ DOMAIN b = AppFields
      /\ b.pending = <<>> /\ b.awaiting = NoAnswer /\ b.hints = <<>> /\ TocInv(b.toc)
      /\ b.nav = a.nav /\ b.area = a.area /\ b.mode = a.mode
      /\ b.sel = a.sel /\ b.dragging = a.dragging
      /\ b.texts = a.texts /\ b.click = a.click /\ b.search = a.search
      /\ b.query = a.query
  BY Cleared
<1> HIDE DEF b
<1>2. ModesInv(b)
  BY <1>1 DEF ModesInv
<1>3. <<>> \in Seq(PendingKeys) /\ <<>> \in Seq(LinkActions)
  OBVIOUS
<1>4. AppInv(b)
  BY <1>1, <1>2, <1>3 DEF AppInv
<1> QED
  BY <1>4 DEF b

LEMMA Loaded ==
    ASSUME NEW a, AppInv(a), NEW pages
    PROVE  LET b == Load(a, pages)
           IN  /\ AppInv(b) /\ b.sel = a.sel /\ b.dragging = a.dragging /\ b.mode = a.mode
               /\ b.texts = a.texts \cup (pages \cap DOMAIN PageTexts)
BY DEF AppInv, ModesInv, AppFields, Load

LEMMA Begun ==
    ASSUME NEW a, AppInv(a), NEW c \in CaretPlaces
    PROVE  AppInv(Begin(a, c)) /\ Begin(a, c).mode = "visual"
<1> DEFINE s == [anchor |-> c, head |-> c, kind |-> "char"]
           m == [a EXCEPT !.sel = {s}, !.mode = "visual", !.placing = FALSE]
<1>1. s \in Selections
  BY DEF Selections
<1> HIDE DEF s
<1>2. /\ DOMAIN m = AppFields
      /\ NavInv(m.nav) /\ TocInv(m.toc) /\ m.area \in Nat
      /\ m.sel = {s} /\ m.texts \subseteq DOMAIN PageTexts
      /\ \A k \in m.click : k.at \in LinkPlaces
      /\ m.search \subseteq Results /\ m.query \subseteq DOMAIN QueryHits
      /\ m.mode = "visual"
  BY DEF AppInv, AppFields
<1>3. Begin(a, c) = ClearChordState(m)
  BY DEF Begin, s
<1> HIDE DEF m
<1>4. AppInv(ClearChordState(m))
  BY <1>1, <1>2, ClearedKeeps
<1>5. ClearChordState(m).mode = "visual"
  BY <1>2, Cleared
<1> QED
  BY <1>3, <1>4, <1>5

LEMMA VisualEntered ==
    ASSUME NEW a, AppInv(a)
    PROVE  AppInv(EnterVisual(a))
<1> DEFINE p == CurrentPage(a.nav)
           h == Greater(Laid(a.nav).h[p], 1)
           top == -(((Laid(a.nav).y[p] - a.nav.scroll) * PageHeight) \div h)
           i == FirstVisible(PageTexts[p], top)
<1>1. /\ HasText(p) => EnterVisual(a) = Begin(Load(a, {p}), [page |-> p, idx |-> i])
      /\ ~ HasText(p) => EnterVisual(a) = Load(a, {p})
  BY DEF EnterVisual
<1> HIDE DEF p, top
<1>2. HasText(p) => i \in Carets(PageTexts[p])
  BY TextsOf, FirstVisibleIn DEF HasText
<1> HIDE DEF i
<1>3. HasText(p) => [page |-> p, idx |-> i] \in CaretPlaces
  BY <1>2, CaretPlace
<1>4. AppInv(Load(a, {p}))
  BY Loaded
<1> QED
  BY <1>1, <1>3, <1>4, Begun

LEMMA VisualLeft ==
    ASSUME NEW a, AppInv(a)
    PROVE  /\ AppInv(ExitVisual(a))
           /\ ExitVisual(a).mode = "normal" /\ ExitVisual(a).help = a.help
           /\ ExitVisual(a).hints = <<>> /\ ExitVisual(a).awaiting = NoAnswer
           /\ ExitVisual(a).pending = <<>> /\ ExitVisual(a).toc.open = a.toc.open
           /\ ~ ExitVisual(a).toc.editing
<1> DEFINE m == [a EXCEPT !.sel = {}, !.dragging = FALSE, !.placing = FALSE, !.mode = "normal"]
<1>1. /\ DOMAIN m = AppFields
      /\ NavInv(m.nav) /\ TocInv(m.toc) /\ m.area \in Nat
      /\ m.sel = {} /\ m.texts \subseteq DOMAIN PageTexts
      /\ \A k \in m.click : k.at \in LinkPlaces
      /\ m.search \subseteq Results /\ m.query \subseteq DOMAIN QueryHits
      /\ m.mode = "normal" /\ m.dragging = FALSE /\ m.help = a.help /\ m.toc = a.toc
  BY DEF AppInv, AppFields
<1>2. ExitVisual(a) = ClearChordState(m)
  BY DEF ExitVisual
<1> HIDE DEF m
<1>3. AppInv(ClearChordState(m))
  BY <1>1, ClearedKeeps
<1> QED
  BY <1>1, <1>2, <1>3, Cleared

LEMMA ScrolledToHead ==
    ASSUME NEW a, AppInv(a), NEW c \in CaretPlaces
    PROVE  LET b == ScrollToHead(a, c) IN AppInv(b) /\ b.sel = a.sel
<1> DEFINE k == PageTexts[c.page].chars[c.idx]
           At(y) == Laid(a.nav).y[c.page] + (y * Greater(Laid(a.nav).h[c.page], 1)) \div PageHeight
           target == IF At(k.y) < a.nav.scroll + CellPx THEN At(k.y) - CellPx
                     ELSE IF At(k.y + k.h) > a.nav.scroll + ViewportOf(a.nav) - CellPx
                       THEN At(k.y + k.h) - ViewportOf(a.nav) + CellPx
                     ELSE a.nav.scroll
           n == a.nav
           s == NavClamp(n, target)
<1>0. NavInv(n) /\ n.scroll \in Nat /\ n.laid \in LayoutKeys /\ n.rows \in Nat /\ DOMAIN a = AppFields
  BY NavStatic DEF AppInv
<1>1. k.y \in Nat /\ k.h \in Nat
  BY PlacedCaret, TextFacts
<1>2. ASSUME NEW y \in Nat PROVE At(y) \in Int
  <2>1. Laid(n).y[c.page] \in Nat /\ Laid(n).h[c.page] \in Nat
    BY <1>0, PlacedCaret, LaidFacts DEF Laid
  <2>2. Greater(Laid(n).h[c.page], 1) \in Nat /\ PageHeight \in Nat \ {0}
    BY <2>1, TextLayoutAssumption DEF Greater
  <2> DEFINE g == Greater(Laid(n).h[c.page], 1)
  <2> HIDE DEF g
  <2>3. (y * g) \div PageHeight \in Nat
    BY <2>2, Product, Quotient DEF g
  <2> QED
    BY <2>1, <2>3 DEF g
<1>3. ViewportOf(n) \in Nat /\ CellPx \in Nat
  BY <1>0, ScrollFacts, NavigationAssumption
<1>4. At(k.y) \in Int /\ At(k.y + k.h) \in Int
  BY <1>1, <1>2
<1> HIDE DEF At, k
<1>5. target \in Int
  BY <1>0, <1>3, <1>4
<1> HIDE DEF target
<1>6. s \in 0 .. ScrollEnd(n)
  BY <1>0, <1>5, ScrollFacts
<1> HIDE DEF s
<1>7. NavInv([n EXCEPT !.scroll = s])
  BY <1>0, <1>6, ScrolledTo
<1>8. ScrollToHead(a, c) = a \/ ScrollToHead(a, c) = [a EXCEPT !.nav.scroll = s]
  BY DEF ScrollToHead, At, k, target, s
<1>9. [a EXCEPT !.nav.scroll = s] = [a EXCEPT !.nav = [n EXCEPT !.scroll = s]]
  OBVIOUS
<1> DEFINE v == [n EXCEPT !.scroll = s]
<1>10. [a EXCEPT !.nav = v] = Move(a, v)
  BY DEF Move
<1> HIDE DEF v
<1>11. AppInv(Move(a, v)) /\ Move(a, v).sel = a.sel
  <2>1. NavInv(v)
    BY <1>7 DEF v
  <2> QED
    BY <1>0, <2>1, Moved DEF Move, AppFields
<1> QED
  BY <1>8, <1>9, <1>10, <1>11 DEF v

LEMMA SelectionSet ==
    ASSUME NEW a, AppInv(a), a.sel # {}, NEW t \in Selections
    PROVE  AppInv([a EXCEPT !.sel = {t}]) /\ [a EXCEPT !.sel = {t}].sel = {t}
BY DEF AppInv, ModesInv, AppFields

LEMMA SelectedKeeps ==
    ASSUME NEW a, AppInv(a), a.sel # {}, NEW s \in Selections
    PROVE  AppInv(Selected(a, s))
<1> DEFINE t == IF a.placing THEN [s EXCEPT !.anchor = s.head] ELSE s
           b == [a EXCEPT !.sel = {t}]
<1>1. t \in Selections /\ t.head \in CaretPlaces
  BY DEF Selections
<1> HIDE DEF t
<1>2. AppInv(b)
  BY <1>1, SelectionSet
<1>3. Selected(a, s) = ScrollToHead(b, t.head)
  BY DEF Selected, t
<1> HIDE DEF b
<1> QED
  BY <1>1, <1>2, <1>3, ScrolledToHead

LEMMA TheSelection ==
    ASSUME NEW a, AppInv(a), a.sel # {}
    PROVE  LET s == CHOOSE s \in a.sel : TRUE
           IN  s \in Selections /\ s.head \in CaretPlaces /\ s.anchor \in CaretPlaces
BY DEF AppInv, Selections

LEMMA HeadMoved ==
    ASSUME NEW a, AppInv(a), a.sel # {},
           NEW idx \in Carets(PageTexts[(CHOOSE s \in a.sel : TRUE).head.page])
    PROVE  AppInv(MoveHead(a, idx))
<1> DEFINE s == CHOOSE s \in a.sel : TRUE
           c == s.head
           d == [c EXCEPT !.idx = idx]
           t == IF c.page \in a.texts THEN [s EXCEPT !.head = d] ELSE s
<1>1. s \in Selections /\ c \in CaretPlaces /\ idx \in Carets(PageTexts[c.page])
  BY TheSelection
<1>2. MoveHead(a, idx) = Selected(a, t)
  BY DEF MoveHead
<1> HIDE DEF s
<1>3. d = [page |-> c.page, idx |-> idx]
  BY <1>1, PlacedCaret
<1>4. d \in CaretPlaces
  BY <1>1, <1>3, PlacedCaret, CaretPlace
<1> HIDE DEF d
<1>5. t \in Selections
  BY <1>1, <1>4 DEF Selections
<1> HIDE DEF t
<1> QED
  BY <1>2, <1>5, SelectedKeeps

LEMMA InnerSelected ==
    ASSUME NEW a, AppInv(a), a.sel # {}, NEW range,
           \A r \in range : LET pt == PageTexts[(CHOOSE s \in a.sel : TRUE).head.page]
                            IN  r[1] \in Carets(pt) /\ r[2] \in Carets(pt)
    PROVE  AppInv(SelectInner(a, range))
<1> DEFINE s == CHOOSE s \in a.sel : TRUE
           c == s.head
           r == CHOOSE r \in range : TRUE
           from == [page |-> c.page, idx |-> r[1]]
           to == [c EXCEPT !.idx = r[2]]
           taken == IF range = {} \/ c.page \notin a.texts THEN s
                    ELSE [s EXCEPT !.anchor = from, !.head = to]
           b == [a EXCEPT !.placing = FALSE]
<1>1. s \in Selections /\ c \in CaretPlaces
  BY TheSelection
<1>2. range # {} => r[1] \in Carets(PageTexts[c.page]) /\ r[2] \in Carets(PageTexts[c.page])
  OBVIOUS
<1>3. SelectInner(a, range) = Selected(b, taken)
  BY DEF SelectInner
<1>4. AppInv(b) /\ b.sel # {}
  BY DEF AppInv, ModesInv, AppFields
<1> HIDE DEF s, r, b
<1>5. to = [page |-> c.page, idx |-> r[2]]
  BY <1>1, PlacedCaret
<1>6. range # {} => from \in CaretPlaces /\ to \in CaretPlaces
  BY <1>1, <1>2, <1>5, PlacedCaret, CaretPlace
<1> HIDE DEF from, to
<1>7. taken \in Selections
  BY <1>1, <1>6 DEF Selections
<1> HIDE DEF taken
<1> QED
  BY <1>3, <1>4, <1>7, SelectedKeeps

LEMMA Yanked ==
    ASSUME NEW a, AppInv(a)
    PROVE  AppInv(AfterYank(a)) /\ AfterYank(a).click = a.click
<1> DEFINE s == CHOOSE s \in a.sel : TRUE
           b == WithText(a, s)
<1>1. AppInv(b) /\ b.click = a.click
  BY Loaded DEF WithText, Load, AppInv, AppFields
<1>2. AfterYank(a) = [b EXCEPT !.sel = {}, !.dragging = FALSE, !.mode = "normal"]
  BY DEF AfterYank
<1> HIDE DEF b
<1> QED
  BY <1>1, <1>2 DEF AppInv, ModesInv, AppFields

LEMMA EndsAre ==
    ASSUME NEW s \in Selections
    PROVE  Lo(s) \in CaretPlaces /\ Hi(s) \in CaretPlaces /\ Lo(s).page <= Hi(s).page
<1>1. s.anchor \in CaretPlaces /\ s.head \in CaretPlaces
  BY DEF Selections
<1>2. s.anchor.page \in Int /\ s.head.page \in Int
  BY <1>1, PlacedCaret DEF NavPages, PagesOf
<1> QED
  BY <1>1, <1>2 DEF Lo, Hi, Before

(* The page range that is yanked contains the ends of the selection.       *)
LEMMA RangeCovers ==
    ASSUME NEW s \in Selections
    PROVE  PageRange(s, Lo(s).page)[1] <= Lo(s).idx /\ PageRange(s, Hi(s).page)[2] >= Hi(s).idx
<1> DEFINE lo == Lo(s)
           hi == Hi(s)
<1>1. lo \in CaretPlaces /\ hi \in CaretPlaces
  BY EndsAre
<1>2. PageRange(s, lo.page)[1] <= lo.idx
  <2> DEFINE pt == PageTexts[lo.page]
             to == IF lo.page = hi.page THEN hi.idx ELSE LastCaret(pt)
  <2>1. IsPageText(pt) /\ lo.idx \in Carets(pt) /\ lo.idx \in Nat
    BY <1>1, PlacedCaret
  <2>2. \/ PageRange(s, lo.page) = Linewise(pt, lo.idx, to)
        \/ PageRange(s, lo.page) = <<lo.idx, to>>
    BY DEF PageRange
  <2> HIDE DEF to, pt, lo, hi
  <2> QED
    BY <2>1, <2>2, LinewiseCovers
<1>3. PageRange(s, hi.page)[2] >= hi.idx
  <2> DEFINE pt == PageTexts[hi.page]
             from == IF hi.page = lo.page THEN lo.idx ELSE 1
  <2>1. IsPageText(pt) /\ hi.idx \in Carets(pt) /\ hi.idx \in Nat
    BY <1>1, PlacedCaret
  <2>2. \/ PageRange(s, hi.page) = Linewise(pt, from, hi.idx)
        \/ PageRange(s, hi.page) = <<from, hi.idx>>
    BY DEF PageRange
  <2> HIDE DEF from, pt, lo, hi
  <2> QED
    BY <2>1, <2>2, LinewiseCovers
<1> QED
  BY <1>2, <1>3

LEMMA TakenCovers ==
    ASSUME NEW a, AppInv(a), NEW y \in Taken(a)
    PROVE  Covers(y)
<1>1. PICK s \in a.sel :
        y = [lo |-> Lo(s), hi |-> Hi(s),
             parts |-> [p \in Span(s) \cap WithText(a, s).texts |-> PageRange(s, p)]]
  BY DEF Taken
<1>2. s \in Selections /\ a.texts \subseteq DOMAIN PageTexts
  BY DEF AppInv
<1>3. Span(s) \cap WithText(a, s).texts = Span(s) \cap DOMAIN PageTexts
  BY <1>2, Loaded DEF WithText
<1>4. /\ Lo(s).page \in Span(s) \cap DOMAIN PageTexts
      /\ Hi(s).page \in Span(s) \cap DOMAIN PageTexts
  <2>1. /\ Lo(s).page \in DOMAIN PageTexts /\ Hi(s).page \in DOMAIN PageTexts
        /\ Lo(s).page \in Int /\ Hi(s).page \in Int /\ Lo(s).page <= Hi(s).page
    BY <1>2, EndsAre, PlacedCaret DEF NavPages, PagesOf
  <2> QED
    BY <2>1 DEF Span
<1> DEFINE parts == [p \in Span(s) \cap DOMAIN PageTexts |-> PageRange(s, p)]
<1>5. y.parts = parts /\ y.lo = Lo(s) /\ y.hi = Hi(s)
  BY <1>1, <1>3
<1>6. /\ DOMAIN parts = Span(s) \cap DOMAIN PageTexts
      /\ parts[Lo(s).page] = PageRange(s, Lo(s).page)
      /\ parts[Hi(s).page] = PageRange(s, Hi(s).page)
  BY <1>4
<1> HIDE DEF parts
<1> QED
  BY <1>2, <1>5, <1>6, RangeCovers DEF Covers, Span

LEMMA Searched ==
    ASSUME NEW a, AppInv(a), NEW q, q \subseteq DOMAIN QueryHits
    PROVE  AppInv(RunSearch(a, q))
<1> DEFINE used == IF q = {} THEN a.query ELSE q
           u == CHOOSE u \in used : TRUE
           hits == IF used = {} THEN <<>> ELSE QueryHits[u]
           r == [hits |-> hits, current |-> 1]
           n == ScrollToHit(a.nav, hits[1])
<1>1. used \subseteq DOMAIN QueryHits /\ (used # {} => u \in DOMAIN QueryHits)
  BY DEF AppInv
<1>2. RunSearch(a, q) = IF hits = <<>> THEN [a EXCEPT !.search = {}]
                        ELSE [a EXCEPT !.search = {r}, !.query = used, !.nav = n]
  BY DEF RunSearch
<1> HIDE DEF u, used
<1>3. hits \in Seq(JumpPoints)
  BY <1>1, InputAssumption
<1> HIDE DEF hits
<1>4. CASE hits = <<>>
  BY <1>2, <1>4 DEF AppInv, ModesInv, AppFields
<1>5. CASE hits # <<>>
  <2>1. 1 \in 1 .. Len(hits) /\ hits[1] \in JumpPoints
    BY <1>3, <1>5
  <2>2. r \in Results
    BY <1>3, <2>1 DEF Results
  <2>3. NavInv(n)
    BY <2>1, ScrollToHitKeeps DEF AppInv
  <2> HIDE DEF r, n
  <2> QED
    BY <1>1, <1>2, <1>5, <2>2, <2>3 DEF AppInv, ModesInv, AppFields
<1> QED
  BY <1>4, <1>5

LEMMA Advanced ==
    ASSUME NEW a, AppInv(a), NEW dir \in {1, -1}
    PROVE  AppInv(Advance(a, dir))
<1>1. CASE a.search = {}
  BY <1>1 DEF Advance
<1>2. CASE a.search # {}
  <2> DEFINE s == CHOOSE s \in a.search : TRUE
             next == ((s.current - 1 + dir) % Len(s.hits)) + 1
             r == [s EXCEPT !.current = next]
             n == ScrollToHit(a.nav, s.hits[next])
  <2>1. s \in Results
    BY <1>2 DEF AppInv
  <2>2. Advance(a, dir) = [a EXCEPT !.search = {r}, !.nav = n]
    BY <1>2 DEF Advance
  <2> HIDE DEF s
  <2>3. /\ s.hits \in Seq(JumpPoints) /\ s.current \in Nat /\ s.current \in 1 .. Len(s.hits)
        /\ s = [hits |-> s.hits, current |-> s.current]
    BY <2>1 DEF Results
  <2>4. next \in 1 .. Len(s.hits)
    <3>1. s.current - 1 + dir \in Int /\ Len(s.hits) \in Nat \ {0}
      BY <2>3
    <3> DEFINE k == s.current - 1 + dir
               len == Len(s.hits)
    <3> HIDE DEF k, len
    <3>2. k % len \in 0 .. len - 1
      BY <3>1 DEF k, len
    <3>3. (k % len) + 1 \in 1 .. len
      BY <3>1, <3>2 DEF k, len
    <3> QED
      BY <3>3 DEF k, len
  <2> HIDE DEF next
  <2>5. r = [hits |-> s.hits, current |-> next]
    BY <2>3
  <2>6. r \in Results
    BY <2>3, <2>4, <2>5 DEF Results
  <2>7. NavInv(n)
    BY <2>3, <2>4, ScrollToHitKeeps DEF AppInv
  <2> HIDE DEF r, n
  <2> QED
    BY <2>2, <2>6, <2>7 DEF AppInv, ModesInv, AppFields
<1> QED
  BY <1>1, <1>2

LEMMA ClearedState ==
    ASSUME NEW a, AppInv(a)
    PROVE  AppInv(ClearChordState(a))
BY ClearedKeeps DEF AppInv, ModesInv

LEMMA HintsEntered ==
    ASSUME NEW a, AppInv(a), a.mode = "normal"
    PROVE  AppInv(EnterHintMode(a))
<1> DEFINE b == ClearChordState(a)
<1>1. PICK hints \in Seq(LinkActions) : EnterHintMode(a) = [b EXCEPT !.hints = hints]
  BY HintsAre
<1>2. AppInv(b) /\ b.mode = "normal" /\ b.awaiting = NoAnswer
  BY ClearedState, Cleared DEF AppInv
<1> HIDE DEF b
<1> QED
  BY <1>1, <1>2 DEF AppInv, ModesInv, AppFields

LEMMA HintsLeft ==
    ASSUME NEW a, AppInv(a)
    PROVE  LET b == ExitHintMode(a)
           IN  /\ AppInv(b) /\ b.hints = <<>> /\ b.nav = a.nav /\ b.help = a.help
               /\ b.toc = a.toc /\ b.mode = a.mode /\ b.awaiting = a.awaiting
               /\ b.pending = a.pending
<1> DEFINE b == ExitHintMode(a)
<1>1. /\ b.hints = <<>> /\ b.nav = a.nav /\ b.help = a.help
      /\ b.toc = a.toc /\ b.mode = a.mode /\ b.awaiting = a.awaiting
      /\ b.pending = a.pending /\ DOMAIN b = AppFields
      /\ b.area = a.area /\ b.sel = a.sel /\ b.dragging = a.dragging /\ b.texts = a.texts
      /\ b.click = a.click /\ b.search = a.search /\ b.query = a.query
  BY DEF AppInv, ExitHintMode, AppFields
<1> HIDE DEF b
<1>2. AppInv(b)
  BY <1>1 DEF AppInv, ModesInv
<1> QED
  BY <1>1, <1>2 DEF b

LEMMA ActionKinds ==
    ASSUME NEW x \in LinkActions, x.kind = "goto"
    PROVE  x.page \in Nat
<1>1. x \in [kind : {"goto"}, page : Nat] \/ x \in [kind : {"url"}]
  BY DEF LinkActions
<1>2. CASE x \in [kind : {"url"}]
  <2>1. x.kind = "url"
    BY <1>2
  <2> QED
    BY <2>1
<1> QED
  BY <1>1, <1>2

LEMMA HintTyped ==
    ASSUME NEW a, AppInv(a), NEW letter
    PROVE  AppInv(HintKeystroke(a, letter))
<1> DEFINE typed == Append(a.typed, letter)
           n == Len(a.hints)
           left == HintMatches(HintLabels(n), typed)
           action == a.hints[Min(left)]
           out == ExitHintMode(a)
<1>1. HintKeystroke(a, letter) =
        IF Cardinality(left) > 1 THEN [a EXCEPT !.typed = typed]
        ELSE IF left # {} /\ action.kind = "goto" THEN Move(out, GotoPage(a.nav, action.page))
        ELSE out
  BY DEF HintKeystroke
<1>2. n \in Nat /\ a.hints \in Seq(LinkActions) /\ NavInv(a.nav)
  BY DEF AppInv
<1> HIDE DEF typed
<1>3. AppInv([a EXCEPT !.typed = typed])
  BY DEF AppInv, ModesInv, AppFields
<1>4. AppInv(out)
  BY HintsLeft
<1> HIDE DEF out, n
<1>5. left \subseteq 1 .. n
  BY <1>2, HintMatchesIn
<1> HIDE DEF left
<1>6. ASSUME left # {}, action.kind = "goto"
      PROVE  AppInv(Move(out, GotoPage(a.nav, action.page)))
  <2>1. Min(left) \in left
    <3>1. left \subseteq Nat
      BY <1>2, <1>5
    <3> QED
      BY <1>6, <3>1, MinIs
  <2> DEFINE m == Min(left)
  <2>4. m \in 1 .. Len(a.hints)
    BY <1>5, <2>1 DEF n
  <2> HIDE DEF m
  <2>5. a.hints[m] \in LinkActions
    BY <1>2, <2>4
  <2>2. action \in LinkActions
    BY <2>5 DEF m
  <2> HIDE DEF action
  <2>3. action.page \in Nat
    BY <1>6, <2>2, ActionKinds
  <2> QED
    BY <1>2, <1>4, <2>3, GotoPageKeeps, Moved
<1> HIDE DEF action
<1> QED
  BY <1>1, <1>3, <1>4, <1>6

(* The Esc key leaves a layer and enters none.                             *)
LEMMA LayersOf ==
    ASSUME NEW a
    PROVE  /\ Layers(a) \subseteq {"help", "hints", "filter", "panel", "mode", "key"}
           /\ "help" \in Layers(a) <=> a.help
           /\ "hints" \in Layers(a) <=> a.hints # <<>>
           /\ "filter" \in Layers(a) <=> a.toc.editing
           /\ "panel" \in Layers(a) <=> a.toc.open
           /\ "mode" \in Layers(a) <=> a.mode # "normal"
           /\ "key" \in Layers(a) <=>
                a.mode = "normal" /\ (a.awaiting # NoAnswer \/ a.pending # <<>>)
BY DEF Layers

LEMMA FewerLayers ==
    ASSUME NEW a, NEW b, Layers(b) \subseteq Layers(a), Layers(b) # Layers(a)
    PROVE  Cardinality(Layers(b)) < Cardinality(Layers(a))
<1> DEFINE all == {"help", "hints", "filter", "panel", "mode", "key"}
<1>1. IsFiniteSet(all)
  <2>1. all = {"help"} \cup {"hints"} \cup {"filter"} \cup {"panel"} \cup {"mode"} \cup {"key"}
    OBVIOUS
  <2> HIDE DEF all
  <2> QED
    BY <2>1, FS_Singleton, FS_Union
<1>2. Layers(a) \in SUBSET all
  BY LayersOf
<1>3. IsFiniteSet(Layers(a))
  BY <1>1, <1>2, FS_Subset
<1>4. /\ IsFiniteSet(Layers(b)) /\ Cardinality(Layers(b)) <= Cardinality(Layers(a))
      /\ Cardinality(Layers(b)) # Cardinality(Layers(a))
  BY <1>3, FS_Subset
<1>5. Cardinality(Layers(a)) \in Nat /\ Cardinality(Layers(b)) \in Nat
  BY <1>3, <1>4, FS_CardinalityType
<1> QED
  BY <1>4, <1>5

LEMMA Escaped ==
    ASSUME NEW a, AppInv(a)
    PROVE  /\ AppInv(Escape(a))
           /\ Layers(a) # {} => /\ Layers(Escape(a)) \subseteq Layers(a)
                                /\ Layers(Escape(a)) # Layers(a)
<1> DEFINE b == Escape(a)
<1>0. /\ DOMAIN a = AppFields /\ TocInv(a.toc) /\ ModesInv(a)
  BY DEF AppInv
<1>1. CASE a.help
  <2>1. b = [a EXCEPT !.help = FALSE]
    BY <1>1 DEF Escape
  <2>2. AppInv(b)
    BY <2>1 DEF AppInv, ModesInv, AppFields
  <2>3. /\ ~ b.help /\ b.hints = a.hints /\ b.toc = a.toc /\ b.mode = a.mode
        /\ b.awaiting = a.awaiting /\ b.pending = a.pending
    BY <1>0, <2>1 DEF AppFields
  <2> HIDE DEF b
  <2> QED
    BY <1>1, <2>2, <2>3, LayersOf DEF b
<1>2. CASE ~ a.help /\ a.hints # <<>>
  <2>1. b = ExitHintMode(a)
    BY <1>2 DEF Escape
  <2>2. /\ AppInv(b) /\ b.hints = <<>> /\ b.help = a.help /\ b.toc = a.toc /\ b.mode = a.mode
        /\ b.awaiting = a.awaiting /\ b.pending = a.pending
    BY <2>1, HintsLeft
  <2> HIDE DEF b
  <2> QED
    BY <1>2, <2>2, LayersOf DEF b
<1>3. CASE ~ a.help /\ a.hints = <<>> /\ a.toc.editing
  <2> DEFINE t == FilterClear(a.toc)
             u == FilterFinish(t)
  <2>1. b = [a EXCEPT !.toc = u]
    BY <1>3 DEF Escape
  <2>2. TocInv(t) /\ t.open = a.toc.open
    BY <1>0, <1>3, FilterKeysKeep DEF FilterClear, TocInv, TocFields
  <2>3. TocInv(u) /\ u.open = a.toc.open /\ ~ u.editing
    BY <2>2, Unedited DEF FilterFinish
  <2> HIDE DEF u
  <2>4. /\ b.toc = u /\ b.help = a.help /\ b.hints = a.hints /\ b.mode = a.mode
        /\ b.awaiting = a.awaiting /\ b.pending = a.pending
    BY <1>0, <2>1 DEF AppFields
  <2>5. AppInv(b)
    BY <2>1, <2>3 DEF AppInv, ModesInv, AppFields
  <2> HIDE DEF b
  <2> QED
    BY <1>3, <2>3, <2>4, <2>5, LayersOf DEF b
<1>4. CASE ~ a.help /\ a.hints = <<>> /\ ~ a.toc.editing /\ a.toc.open
  <2> DEFINE u == ToggleToc(a.toc)
  <2>1. b = [a EXCEPT !.toc = u]
    BY <1>4 DEF Escape
  <2>2. TocInv(u)
    BY <1>0, ToggleTocKeeps
  <2>3. u.open = FALSE /\ u.editing = FALSE
    BY <1>0, <1>4 DEF ToggleToc, TocInv, TocFields
  <2> HIDE DEF u
  <2>4. /\ b.toc = u /\ b.help = a.help /\ b.hints = a.hints /\ b.mode = a.mode
        /\ b.awaiting = a.awaiting /\ b.pending = a.pending
    BY <1>0, <2>1 DEF AppFields
  <2>5. AppInv(b)
    BY <2>1, <2>2, <2>3 DEF AppInv, ModesInv, AppFields
  <2> HIDE DEF b
  <2> QED
    BY <1>4, <2>3, <2>4, <2>5, LayersOf DEF b
<1>5. CASE /\ ~ a.help /\ a.hints = <<>> /\ ~ a.toc.editing /\ ~ a.toc.open /\ a.mode = "visual"
  <2>1. b = ExitVisual(a)
    BY <1>5 DEF Escape
  <2> HIDE DEF b
  <2>2. /\ AppInv(b) /\ b.mode = "normal" /\ ~ b.help /\ b.hints = <<>> /\ b.awaiting = NoAnswer
        /\ b.pending = <<>> /\ ~ b.toc.open /\ ~ b.toc.editing
    BY <1>5, <2>1, VisualLeft
  <2> QED
    BY <1>5, <2>2, LayersOf DEF b
<1>6. CASE /\ ~ a.help /\ a.hints = <<>> /\ ~ a.toc.editing /\ ~ a.toc.open
           /\ a.mode \notin {"visual", "normal"}
  <2>1. b = [a EXCEPT !.mode = "normal"]
    BY <1>6 DEF Escape
  <2>2. /\ b.toc = a.toc /\ b.help = a.help /\ b.hints = a.hints /\ b.mode = "normal"
        /\ b.awaiting = a.awaiting /\ b.pending = a.pending
    BY <1>0, <2>1 DEF AppFields
  <2>3. a.awaiting = NoAnswer /\ a.pending = <<>>
    BY <1>0, <1>6 DEF ModesInv
  <2>4. AppInv(b)
    BY <1>6, <2>1 DEF AppInv, ModesInv, AppFields
  <2> HIDE DEF b
  <2> QED
    BY <1>6, <2>2, <2>3, <2>4, LayersOf DEF b
<1>7. CASE /\ ~ a.help /\ a.hints = <<>> /\ ~ a.toc.editing /\ ~ a.toc.open
           /\ a.mode = "normal" /\ a.awaiting # NoAnswer
  <2>1. b = [a EXCEPT !.awaiting = NoAnswer]
    BY <1>7 DEF Escape
  <2>2. /\ b.toc = a.toc /\ b.help = a.help /\ b.hints = a.hints /\ b.mode = a.mode
        /\ b.awaiting = NoAnswer /\ b.pending = a.pending
    BY <1>0, <2>1 DEF AppFields
  <2>3. a.pending = <<>>
    BY <1>0, <1>7 DEF ModesInv
  <2>4. AppInv(b)
    BY <2>1 DEF AppInv, ModesInv, AppFields
  <2> HIDE DEF b
  <2> QED
    BY <1>7, <2>2, <2>3, <2>4, LayersOf DEF b
<1>8. CASE /\ ~ a.help /\ a.hints = <<>> /\ ~ a.toc.editing /\ ~ a.toc.open
           /\ a.mode = "normal" /\ a.awaiting = NoAnswer
  <2>1. b = ClearChordState(a)
    BY <1>8 DEF Escape
  <2> HIDE DEF b
  <2>2. /\ AppInv(b) /\ b.help = a.help /\ b.hints = <<>> /\ b.mode = a.mode
        /\ ~ b.toc.open /\ ~ b.toc.editing /\ b.awaiting = NoAnswer /\ b.pending = <<>>
    BY <1>0, <1>8, <2>1, ClearedState, Cleared
  <2> QED
    BY <1>8, <2>2, LayersOf DEF b
<1> QED
  BY <1>0, <1>1, <1>2, <1>3, <1>4, <1>5, <1>6, <1>7, <1>8 DEF ModesInv

-----------------------------------------------------------------------------
(* The mouse's hit tests.                                                  *)

Points == [page : NavPages, x : Int, y : Int]

LEMMA PointsAre ==
    ASSUME NEW a, NavInv(a.nav), app.area \in Nat, NEW cell \in Cells
    PROVE  PointAt(a, cell) \subseteq Points
<1> DEFINE lay == Laid(a.nav)
           at == a.nav.scroll + cell.row * CellPx
           p == PageAt(lay, at)
           pt == [page |-> p, x |-> (cell.col * PageWidth) \div Columns,
                  y |-> ((at - lay.y[p]) * PageHeight) \div lay.h[p]]
<1>1. cell.col \in 0 .. Columns - 1 /\ cell.row \in 0 .. app.area - 1
  BY DEF Cells
<1>2. Columns \in Nat /\ CellPx \in Nat /\ PageWidth \in Nat /\ PageHeight \in Nat
  BY InputAssumption, NavigationAssumption, TextLayoutAssumption
<1>3. a.nav.scroll \in Nat /\ a.nav.laid \in LayoutKeys
  BY NavStatic
<1>4. at \in Int
  <2>1. cell.row \in Nat
    BY <1>1
  <2>2. cell.row * CellPx \in Nat
    BY <1>2, <2>1, Product
  <2> QED
    BY <1>3, <2>2
<1> HIDE DEF at
<1>5. p \in NavPages
  BY <1>3, <1>4, PageAtIsPage, LaidFacts DEF Laid
<1> HIDE DEF p
<1>6. lay.y[p] \in Nat /\ lay.h[p] \in Nat
  BY <1>3, <1>5, LaidFacts DEF Laid
<1>7. PointAt(a, cell) = IF at - lay.y[p] \in 0 .. lay.h[p] - 1 THEN {pt} ELSE {}
  BY DEF PointAt, at, p
<1>8. ASSUME at - lay.y[p] \in 0 .. lay.h[p] - 1 PROVE pt \in Points
  <2>1. at - lay.y[p] \in Nat /\ lay.h[p] \in Nat \ {0} /\ Columns \in Nat \ {0} /\ cell.col \in Nat
    BY <1>1, <1>2, <1>6, <1>8
  <2>2. (cell.col * PageWidth) \div Columns \in Nat
    BY <1>2, <2>1, Product, Quotient
  <2> DEFINE d == at - lay.y[p]
             h == lay.h[p]
  <2> HIDE DEF d, h
  <2>3. (d * PageHeight) \div h \in Nat
    BY <1>2, <2>1, Product, Quotient DEF d, h
  <2>4. ((at - lay.y[p]) * PageHeight) \div lay.h[p] \in Nat
    BY <2>3 DEF d, h
  <2> QED
    BY <1>5, <2>2, <2>4 DEF Points
<1> QED
  BY <1>7, <1>8

LEMMA CaretsUnder ==
    ASSUME NEW points, points \subseteq Points
    PROVE  CaretUnder(points) \subseteq CaretPlaces
<1> SUFFICES ASSUME NEW pt \in points, HasText(pt.page)
             PROVE  [page |-> pt.page, idx |-> CharAtPoint(PageTexts[pt.page], pt.x, pt.y)] \in CaretPlaces
  BY DEF CaretUnder
<1>1. pt.x \in Int /\ pt.y \in Int
  BY DEF Points
<1>2. IsPageText(PageTexts[pt.page]) /\ Carets(PageTexts[pt.page]) # {}
  BY TextsOf DEF HasText
<1>3. CharAtPoint(PageTexts[pt.page], pt.x, pt.y) \in Carets(PageTexts[pt.page])
  BY <1>1, <1>2, CharAtPointIn
<1> QED
  BY <1>3, CaretPlace

LEMMA LinksUnder ==
    ASSUME NEW a, NEW points, points \subseteq Points
    PROVE  LinkUnder(a, points) \subseteq LinkPlaces
<1> DEFINE At(pt) == LinkAt(PageLinks[pt.page], pt.x, pt.y, PageWidth \div (2 * Columns),
                            (CellPx * PageHeight) \div (2 * Laid(a.nav).h[pt.page]))
<1>1. ASSUME NEW k \in LinkUnder(a, points)
      PROVE  \E pt \in points : \E i \in At(pt) : k = [page |-> pt.page, link |-> i]
  BY DEF LinkUnder
<1>2. ASSUME NEW pt \in points, NEW i \in At(pt)
      PROVE  [page |-> pt.page, link |-> i] \in LinkPlaces
  <2>1. pt.page \in NavPages
    BY DEF Points
  <2>2. i \in DOMAIN PageLinks[pt.page]
    BY <2>1, LinkAtIn
  <2> HIDE DEF At
  <2>3. i \in Nat
    BY <2>1, <2>2, LinksOfPage
  <2> QED
    BY <2>1, <2>2, <2>3 DEF LinkPlaces
<1> HIDE DEF At
<1> QED
  BY <1>1, <1>2

LEMMA TouchedKeeps ==
    ASSUME NEW a, AppInv(a), NEW points
    PROVE  LET b == Touched(a, points)
           IN  AppInv(b) /\ b.sel = a.sel /\ b.dragging = a.dragging /\ b.mode = a.mode
BY Loaded DEF Touched

LEMMA Noted ==
    ASSUME NEW a, AppInv(a), NEW clicks, \A c \in clicks : c.at \in LinkPlaces
    PROVE  LET b == [a EXCEPT !.click = clicks]
           IN  AppInv(b) /\ b.sel = a.sel /\ b.nav = a.nav /\ b.mode = a.mode
BY DEF AppInv, ModesInv, AppFields

LEMMA LinkFollowed ==
    ASSUME NEW a, AppInv(a), NEW clicks, \A c \in clicks : c.at \in LinkPlaces
    PROVE  AppInv(Followed(a, clicks))
<1> DEFINE c == CHOOSE c \in clicks : TRUE
           action == PageLinks[c.at.page][c.at.link].action
<1>1. Followed(a, clicks) = IF clicks = {} \/ action.kind # "goto" THEN a
                            ELSE Move(a, ActivateLink(a.nav, action.page))
  BY DEF Followed
<1>2. ASSUME clicks # {}, action.kind = "goto"
      PROVE  AppInv(Move(a, ActivateLink(a.nav, action.page)))
  <2>1. c.at \in LinkPlaces
    BY <1>2
  <2> HIDE DEF c
  <2>2. c.at.page \in NavPages /\ c.at.link \in DOMAIN PageLinks[c.at.page]
    BY <2>1 DEF LinkPlaces
  <2>3. action \in LinkActions
    BY <2>2, LinksOfPage
  <2> HIDE DEF action
  <2>4. action.page \in Nat
    BY <1>2, <2>3, ActionKinds
  <2>5. NavInv(a.nav)
    BY DEF AppInv
  <2> QED
    BY <2>4, <2>5, ActivateLinkKeeps, Moved
<1> HIDE DEF action, c
<1> QED
  BY <1>1, <1>2

-----------------------------------------------------------------------------
(* The invariant is kept by every action.                                  *)

LEMMA Done ==
    ASSUME NEW b, AppInv(b), Do(b)
    PROVE  InputInv'
BY DEF Do, InputInv, NoEffect

LEMMA AppHas ==
    ASSUME InputInv
    PROVE  /\ AppInv(app) /\ NavInv(app.nav) /\ TocInv(app.toc) /\ app.area \in Nat
           /\ Len(app.pending) \in Nat /\ app.pending \in Seq(PendingKeys)
           /\ CountOrOne \in Nat
<1>1. /\ AppInv(app) /\ NavInv(app.nav) /\ TocInv(app.toc) /\ app.area \in Nat
      /\ app.pending \in Seq(PendingKeys)
  BY DEF InputInv, AppInv
<1>2. Len(app.pending) \in Nat
  BY <1>1
<1> QED
  BY <1>1, <1>2, CountIs

LEMMA AreasAre == Areas \subseteq Nat /\ Steps \subseteq Nat
BY InputAssumption

LEMMA InitKeeps ==
    ASSUME InputInit
    PROVE  InputInv
<1>1. PICK rows \in Areas : app = FreshApp(StartFrom(NoSession, rows)) /\ effect = NoEffect
  BY DEF InputInit
<1> DEFINE n == StartFrom(NoSession, rows)
<1>2. NoSession.key \in LayoutKeys /\ NoSession.point \in JumpPoints /\ rows \in Nat
  BY NavigationAssumption, LaidFacts, AreasAre DEF NoSession, LayoutKeys, JumpPoints
<1>3. NavInv(n) /\ n.rows = rows
  BY <1>2, StartFromIs
<1> HIDE DEF n
<1>4. TocInv(NoToc)
  BY DEF TocInv, NoToc, TocFields
<1>5. AppInv(FreshApp(n))
  BY <1>2, <1>3, <1>4 DEF AppInv, ModesInv, AppFields, FreshApp, NoToc
<1> QED
  BY <1>1, <1>5 DEF InputInv, NoEffect, n

LEMMA ReopenedKeeps ==
    ASSUME NEW a, AppInv(a)
    PROVE  AppInv(Reopened(a))
<1> DEFINE saved == Persisted(a.nav)
           n == StartFrom(saved, a.nav.rows)
<1>1. NavInv(a.nav)
  BY DEF AppInv
<1>2. saved.key \in LayoutKeys /\ saved.point \in JumpPoints /\ a.nav.rows \in Nat
  BY <1>1, NavStatic, JumpPointIs DEF Persisted, NavInv, NavTyped
<1> HIDE DEF saved
<1>3. NavInv(n) /\ n.rows = a.nav.rows
  BY <1>2, StartFromIs
<1>4. Reopened(a) = FreshApp(n)
  BY DEF Reopened, saved
<1> HIDE DEF n
<1>5. TocInv(NoToc)
  BY DEF TocInv, NoToc, TocFields
<1>6. AppInv(FreshApp(n))
  BY <1>2, <1>3, <1>5 DEF AppInv, ModesInv, AppFields, FreshApp, NoToc
<1> QED
  BY <1>4, <1>6

LEMMA PageKeyKeeps ==
    ASSUME InputInv, PageKey
    PROVE  InputInv'
<1>1. PICK n \in Gated(NextPage(app.nav, CountOrOne)) \cup Gated(PrevPage(app.nav, CountOrOne)) :
        Do(Unpend(Move(app, n)))
  BY DEF PageKey
<1>2. n \in {NextPage(app.nav, CountOrOne), PrevPage(app.nav, CountOrOne), app.nav}
  BY <1>1 DEF Gated
<1>3. NavInv(n)
  BY <1>2, AppHas, PagesStepKeeps
<1> QED
  BY <1>1, <1>3, AppHas, Moved, Unpended, Done

(* Screens down, one after the other: all of the way stays in the shape.   *)
LEMMA ScreenKeyKeeps ==
    ASSUME InputInv, ScreenKey
    PROVE  InputInv'
<1>1. PICK px \in Steps :
        LET down[i \in 0 .. Greater(CountOrOne, 1)] ==
                IF i = 0 THEN app.nav ELSE ScrollByPx(down[i - 1], px)
        IN  \E n \in Gated(down[Greater(CountOrOne, 1)])
                       \cup {app.nav, ScrollByPx(app.nav, -px)} : Do(Unpend(Move(app, n)))
  BY DEF ScreenKey
<1> DEFINE c == Greater(CountOrOne, 1)
           nav == app.nav
           Rec(f) == f = [i \in 0 .. c |-> IF i = 0 THEN nav ELSE ScrollByPx(f[i - 1], px)]
           down[i \in 0 .. c] == IF i = 0 THEN nav ELSE ScrollByPx(down[i - 1], px)
           At(s) == [x \in NavFields |-> IF x = "scroll" THEN s ELSE nav[x]]
           D == {nav} \cup {At(s) : s \in 0 .. ScrollEnd(nav)}
           Step == [i \in 1 .. c |-> [x \in D |-> ScrollByPx(x, px)]]
<1>2. c \in Nat /\ px \in Int /\ -px \in Int /\ NavInv(nav)
  BY AppHas, AreasAre DEF Greater
<1>3. PICK n \in Gated(down[c]) \cup {nav, ScrollByPx(nav, -px)} : Do(Unpend(Move(app, n)))
  BY <1>1
<1> HIDE DEF nav, down, c
<1>4. ASSUME NEW x \in D PROVE NavInv(x) /\ ScrollByPx(x, px) \in D
  <2>1. DOMAIN nav = NavFields
    BY <1>2, NavStatic
  <2>2. NavInv(x)
    <3>1. CASE x = nav
      BY <1>2, <3>1
    <3>2. ASSUME NEW s \in 0 .. ScrollEnd(nav), x = At(s) PROVE NavInv(x)
      <4>1. /\ DOMAIN x = NavFields /\ x.scroll = s /\ x.key = nav.key /\ x.laid = nav.laid
            /\ x.rows = nav.rows /\ x.jumps = nav.jumps /\ x.jumpIdx = nav.jumpIdx
        BY <3>2 DEF NavFields
      <4>2. ScrollEnd(x) = ScrollEnd(nav) /\ s \in Nat /\ s <= ScrollEnd(nav)
        BY <1>2, <4>1, NavStatic, ScrollFacts, ScrollEndSame
      <4>3. NavTyped(x)
        BY <1>2, <4>1, <4>2 DEF NavInv, NavTyped, JumpsInv
      <4> QED
        BY <4>1, <4>2, <4>3 DEF NavInv
    <3> QED
      BY <3>1, <3>2
  <2> DEFINE s == NavClamp(x, x.scroll + px)
  <2>3. x.scroll + px \in Int /\ x.laid \in LayoutKeys /\ x.rows \in Nat
    BY <1>2, <2>2, NavStatic
  <2>7. x.laid = nav.laid /\ x.rows = nav.rows
    BY <2>1 DEF NavFields
  <2>4. s \in 0 .. ScrollEnd(nav)
    BY <2>3, <2>7, ScrollFacts, ScrollEndSame
  <2>5. ScrollByPx(x, px) = [x EXCEPT !.scroll = s]
    BY DEF ScrollByPx
  <2> HIDE DEF s
  <2>6. [x EXCEPT !.scroll = s] = At(s)
    <3>1. \A y \in NavFields \ {"scroll"} : x[y] = nav[y]
      BY DEF At
    <3>2. DOMAIN x = NavFields
      BY <2>2, NavStatic
    <3>3. \A y \in NavFields : [x EXCEPT !.scroll = s][y] = At(s)[y]
      BY <3>1, <3>2
    <3>4. DOMAIN [x EXCEPT !.scroll = s] = NavFields /\ DOMAIN At(s) = NavFields
      BY <3>2
    <3> QED
      BY <3>3, <3>4
  <2> QED
    BY <2>2, <2>4, <2>5, <2>6
<1> HIDE DEF D
<1>5. nav \in D
  BY DEF D
<1>6. PICK f : Iteration(f, c, D, nav, Step)
  <2>1. Step \in [1 .. c -> [D -> D]]
    BY <1>4
  <2> HIDE DEF Step
  <2> QED
    BY <1>2, <1>5, <2>1, Iterates, Zenon
<1>7. f \in [0 .. c -> D] /\ f[0] = nav /\ \A i \in 1 .. c : f[i] = Step[i][f[i - 1]]
  <2> HIDE DEF Step
  <2> QED
    BY <1>6 DEF Iteration
<1>8. \A i \in 1 .. c : f[i] = ScrollByPx(f[i - 1], px)
  <2> TAKE i \in 1 .. c
  <2>1. f[i - 1] \in D
    <3>1. i - 1 \in 0 .. c
      BY <1>2
    <3> QED
      BY <1>7, <3>1
  <2>2. f[i] = Step[i][f[i - 1]]
    BY <1>7
  <2> QED
    BY <2>1, <2>2
<1>9. Rec(f)
  <2>1. f = [i \in 0 .. c |-> f[i]]
    <3> HIDE DEF Step
    <3> QED
      BY <1>7
  <2>2. ASSUME NEW i \in 0 .. c PROVE f[i] = IF i = 0 THEN nav ELSE ScrollByPx(f[i - 1], px)
    <3>1. i = 0 \/ i \in 1 .. c
      BY <1>2
    <3> HIDE DEF Step
    <3> QED
      BY <1>7, <1>8, <3>1
  <2> QED
    BY <2>1, <2>2
<1>10. Rec(down)
  <2>1. \E g : Rec(g)
    BY <1>9
  <2> QED
    BY <2>1 DEF down
<1> DEFINE T == {i \in 0 .. c : NavInv(down[i])}
<1>11. 0 \in T
  <2>1. 0 \in 0 .. c
    BY <1>2
  <2>2. down[0] = nav
    BY <1>10, <2>1
  <2> QED
    BY <1>2, <2>1, <2>2
<1>12. ASSUME NEW i \in 1 .. c, i - 1 \in T PROVE i \in T
  <2>1. i \in 0 .. c /\ i # 0 /\ NavInv(down[i - 1])
    BY <1>2, <1>12
  <2>2. down[i] = ScrollByPx(down[i - 1], px)
    BY <1>10, <2>1
  <2>3. NavInv(down[i])
    BY <1>2, <2>1, <2>2, ScrollByKeeps
  <2> QED
    BY <2>1, <2>3
<1>13. NavInv(down[c])
  <2>1. \A i \in 0 .. c : i \in T
    <3> HIDE DEF T
    <3> QED
      BY <1>2, <1>11, <1>12, Climb
  <2> QED
    BY <1>2, <2>1
<1>14. n \in {down[c], nav, ScrollByPx(nav, -px)}
  BY <1>3 DEF Gated, nav
<1>15. NavInv(n)
  BY <1>2, <1>13, <1>14, ScrollByKeeps
<1> QED
  BY <1>3, <1>15, AppHas, Moved, Unpended, Done

LEMMA TravelKeysKeep ==
    ASSUME InputInv, ScrollKey \/ HistoryKey \/ ViewKey
    PROVE  InputInv'
<1>1. CASE ScrollKey
  <2>1. PICK px \in Steps : \E n \in {ScrollByPx(app.nav, px), ScrollByPx(app.nav, -px)} : Do(Move(app, n))
    BY <1>1 DEF ScrollKey
  <2>2. px \in Int /\ -px \in Int
    BY AreasAre
  <2> QED
    BY <2>1, <2>2, AppHas, ScrollByKeeps, Moved, Done
<1>2. CASE HistoryKey
  BY <1>2, AppHas, JumpBackKeeps, JumpForwardKeeps, Moved, Done DEF HistoryKey
<1>3. CASE ViewKey
  BY <1>3, AppHas, ChangeKeyKeeps, Moved, Done DEF ViewKey
<1> QED
  BY <1>1, <1>2, <1>3

LEMMA Pended ==
    ASSUME NEW a, AppInv(a), a.mode \in {"normal", "visual"}, a.awaiting = NoAnswer,
           NEW k \in PendingKeys
    PROVE  AppInv([a EXCEPT !.pending = Append(@, k)]) /\ AppInv([a EXCEPT !.pending = <<k>>])
<1>1. Append(a.pending, k) \in Seq(PendingKeys) /\ <<k>> \in Seq(PendingKeys)
  BY DEF AppInv
<1> HIDE DEF PendingKeys
<1>2. AppInv([a EXCEPT !.pending = Append(@, k)])
  BY <1>1 DEF AppInv, ModesInv, AppFields
<1>3. AppInv([a EXCEPT !.pending = <<k>>])
  BY <1>1 DEF AppInv, ModesInv, AppFields
<1> QED
  BY <1>2, <1>3

LEMMA ChordKeyKeeps ==
    ASSUME InputInv, ChordKey \/ DigitKey
    PROVE  InputInv'
<1>0. AppInv(app) /\ NavInv(app.nav)
  BY AppHas
<1>1. CASE ChordKey
  <2>1. PICK k \in Chords :
         IF app.pending = <<k>>
           THEN Do(Unpend(Move(app, CASE k = "g" -> FirstPage(app.nav)
                                      [] k = "]" -> JumpSection(app.nav, TRUE)
                                      [] k = "[" -> JumpSection(app.nav, FALSE))))
           ELSE /\ Len(app.pending) < MaxTyped
                /\ Do([app EXCEPT !.pending = Append(@, k)])
    BY <1>1 DEF ChordKey
  <2>2. app.mode = "normal" /\ app.awaiting = NoAnswer
    BY <1>1 DEF ChordKey, Ready, InNormal
  <2> DEFINE n == CASE k = "g" -> FirstPage(app.nav)
                    [] k = "]" -> JumpSection(app.nav, TRUE)
                    [] k = "[" -> JumpSection(app.nav, FALSE)
  <2>3. n = FirstPage(app.nav) \/ n = JumpSection(app.nav, TRUE) \/ n = JumpSection(app.nav, FALSE)
    <3>1. k = "g" \/ k = "]" \/ k = "["
      BY DEF Chords
    <3>2. k = "g" => n = FirstPage(app.nav)
      OBVIOUS
    <3>3. k = "]" => n = JumpSection(app.nav, TRUE)
      OBVIOUS
    <3>4. k = "[" => n = JumpSection(app.nav, FALSE)
      OBVIOUS
    <3> QED
      BY <3>1, <3>2, <3>3, <3>4
  <2> HIDE DEF n
  <2>4. NavInv(n)
    BY <1>0, <2>3, FirstPageKeeps, JumpSectionKeeps
  <2>5. CASE app.pending = <<k>>
    <3>1. Do(Unpend(Move(app, n)))
      BY <2>1, <2>5 DEF n
    <3> QED
      BY <1>0, <2>4, <3>1, Moved, Unpended, Done
  <2>6. CASE app.pending # <<k>>
    <3>1. k \in PendingKeys
      BY DEF PendingKeys
    <3> QED
      BY <1>0, <2>1, <2>2, <2>6, <3>1, Pended, Done
  <2> QED
    BY <2>5, <2>6
<1>2. CASE DigitKey
  <2>1. PICK k \in DOMAIN DigitValue : Do([app EXCEPT !.pending = Append(@, k)])
    BY <1>2 DEF DigitKey
  <2>2. app.mode = "normal" /\ app.awaiting = NoAnswer /\ k \in PendingKeys
    BY <1>2 DEF DigitKey, Ready, InNormal, PendingKeys
  <2> QED
    BY <1>0, <2>1, <2>2, Pended, Done
<1> QED
  BY <1>1, <1>2

LEMMA Answered ==
    ASSUME NEW a, AppInv(a), NEW x,
           x # NoAnswer => a.mode = "normal" /\ a.hints = <<>> /\ a.pending = <<>> /\ ~ a.toc.open
    PROVE  LET b == [a EXCEPT !.awaiting = x] IN AppInv(b) /\ b.nav = a.nav
BY DEF AppInv, ModesInv, AppFields

LEMMA PanelSet ==
    ASSUME NEW a, AppInv(a), NEW t, TocInv(t), a.awaiting # NoAnswer => ~ t.open
    PROVE  LET b == [a EXCEPT !.toc = t] IN AppInv(b) /\ b.nav = a.nav
BY DEF AppInv, ModesInv, AppFields

LEMMA HelpShown ==
    ASSUME NEW a, AppInv(a)
    PROVE  AppInv([a EXCEPT !.help = TRUE])
BY DEF AppInv, ModesInv, AppFields

LEMMA ResultsDropped ==
    ASSUME NEW a, AppInv(a)
    PROVE  AppInv([a EXCEPT !.search = {}])
BY DEF AppInv, ModesInv, AppFields

LEMMA TypingOver ==
    ASSUME NEW a, AppInv(a), a.mode \in {"command", "search"}
    PROVE  LET b == [a EXCEPT !.mode = "normal"]
           IN  /\ AppInv(b) /\ b.nav = a.nav /\ b.toc = a.toc /\ b.awaiting = NoAnswer
BY DEF AppInv, ModesInv, AppFields

LEMMA NormalKeysKeep ==
    ASSUME InputInv, LastOrCountedPageKey \/ SearchStepKey \/ DeleteKey \/ MarkKey
    PROVE  InputInv'
<1>0. AppInv(app) /\ NavInv(app.nav) /\ CountOrOne \in Nat
  BY AppHas
<1>1. CASE LastOrCountedPageKey
  <2> DEFINE page == IF Count = {} THEN LastPage ELSE Greater(CountOrOne - 1, 0)
  <2>1. Do(Unpend(Move(app, GotoPage(app.nav, page))))
    BY <1>1 DEF LastOrCountedPageKey
  <2>2. LastPage \in Nat /\ Greater(CountOrOne - 1, 0) \in Nat
    BY <1>0, NavigationAssumption, LaidFacts DEF Greater, LayoutKeys
  <2>3. page \in Nat
    BY <2>2
  <2> HIDE DEF page
  <2>4. NavInv(GotoPage(app.nav, page))
    BY <1>0, <2>3, GotoPageKeeps
  <2> QED
    BY <1>0, <2>1, <2>4, Moved, Unpended, Done
<1>2. CASE SearchStepKey
  BY <1>0, <1>2, Advanced, Done DEF SearchStepKey
<1>3. CASE DeleteKey \/ MarkKey
  <2>1. PICK asks : Do([Unpend(app) EXCEPT !.awaiting = asks])
    BY <1>3 DEF DeleteKey, MarkKey
  <2>2. app.mode = "normal" /\ app.hints = <<>> /\ ~ app.toc.open
    BY <1>3 DEF DeleteKey, MarkKey, Ready, InNormal, KeysFree
  <2> DEFINE a == Unpend(app)
  <2>3. AppInv(a) /\ a.pending = <<>> /\ a.mode = "normal" /\ a.hints = <<>> /\ ~ a.toc.open
    BY <1>0, <2>2, Unpended
  <2>4. AppInv([a EXCEPT !.awaiting = asks])
    <3> HIDE DEF a
    <3> QED
      BY <2>3, Answered
  <2> QED
    BY <2>1, <2>4, Done
<1> QED
  BY <1>1, <1>2, <1>3

LEMMA AnswerKeyKeeps ==
    ASSUME InputInv, AnswerKey
    PROVE  InputInv'
<1> DEFINE answered == [app EXCEPT !.awaiting = NoAnswer]
<1>1. \/ Do(answered)
      \/ \E m \in MarkNames : Do(Move(answered, SetMark(app.nav, m)))
      \/ \E m \in MarkNames : Do(Move(answered, JumpToMark(app.nav, m)))
  BY DEF AnswerKey
<1>2. AppInv(answered)
  BY AppHas, Answered
<1> HIDE DEF answered
<1> QED
  BY <1>1, <1>2, AppHas, MarksKeep, Moved, Done

LEMMA ModeKeyKeeps ==
    ASSUME InputInv, ModeKey
    PROVE  InputInv'
<1>1. AppInv(app) /\ TocInv(app.toc) /\ app.mode = "normal" /\ app.awaiting = NoAnswer
  BY AppHas DEF ModeKey, Ready, InNormal
<1>2. \/ \E mode \in {"command", "search"} : Do([ClearChordState(app) EXCEPT !.mode = mode])
      \/ Do(EnterVisual(Unpend(app)))
      \/ Do([Unpend(app) EXCEPT !.toc = ToggleToc(@)])
      \/ Do(EnterHintMode(app))
      \/ Do([app EXCEPT !.help = TRUE])
  BY DEF ModeKey
<1>3. ASSUME NEW mode \in {"command", "search"}, Do([ClearChordState(app) EXCEPT !.mode = mode])
      PROVE  InputInv'
  <2> DEFINE b == ClearChordState(app)
  <2>1. DOMAIN app = AppFields
    BY <1>1 DEF AppInv
  <2>2. AppInv(b) /\ b.mode = "normal" /\ b.awaiting = NoAnswer /\ b.hints = <<>> /\ b.pending = <<>>
    BY <1>1, <2>1, ClearedState, Cleared
  <2> HIDE DEF b
  <2>3. AppInv([b EXCEPT !.mode = mode])
    BY <2>2 DEF AppInv, ModesInv, AppFields
  <2> QED
    BY <1>3, <2>3, Done DEF b
<1>4. ASSUME Do(EnterVisual(Unpend(app))) PROVE InputInv'
  BY <1>1, <1>4, Unpended, VisualEntered, Done
<1>5. ASSUME Do([Unpend(app) EXCEPT !.toc = ToggleToc(@)]) PROVE InputInv'
  <2> DEFINE a == Unpend(app)
             t == ToggleToc(a.toc)
  <2>1. AppInv(a) /\ a.awaiting = NoAnswer /\ a.toc = app.toc
    BY <1>1, Unpended
  <2>2. TocInv(t)
    BY <1>1, <2>1, ToggleTocKeeps
  <2>3. [a EXCEPT !.toc = ToggleToc(@)] = [a EXCEPT !.toc = t]
    OBVIOUS
  <2> HIDE DEF t, a
  <2>4. AppInv([a EXCEPT !.toc = t])
    BY <2>1, <2>2, PanelSet
  <2> QED
    BY <1>5, <2>3, <2>4, Done DEF a
<1>6. ASSUME Do(EnterHintMode(app)) PROVE InputInv'
  BY <1>1, <1>6, HintsEntered, Done
<1>7. ASSUME Do([app EXCEPT !.help = TRUE]) PROVE InputInv'
  BY <1>1, <1>7, HelpShown, Done
<1> QED
  BY <1>2, <1>3, <1>4, <1>5, <1>6, <1>7

LEMMA LeavingKeysKeep ==
    ASSUME InputInv, QuitKey \/ EscapeKey \/ HintKey
    PROVE  InputInv'
BY AppHas, ReopenedKeeps, Escaped, HintTyped, Done DEF QuitKey, EscapeKey, HintKey

LEMMA PanelKeyKeeps ==
    ASSUME InputInv, PanelKey
    PROVE  InputInv'
<1>0. AppInv(app) /\ TocInv(app.toc) /\ NavInv(app.nav) /\ app.area \in Nat
  BY AppHas
<1>1. app.toc.open /\ app.awaiting = NoAnswer
  <2>1. app.toc.open
    BY DEF PanelKey
  <2> QED
    BY <1>0, <2>1 DEF AppInv, ModesInv
<1>2. ASSUME NEW t, TocInv(t) PROVE AppInv([app EXCEPT !.toc = t])
  BY <1>0, <1>1, <1>2, PanelSet
<1>3. CASE app.toc.editing
  <2>1. PICK t \in {FilterClear(app.toc), FilterFinish(app.toc), FilterPop(app.toc)}
                     \cup {FilterPush(app.toc, c) : c \in Letters} : Do([app EXCEPT !.toc = t])
    BY <1>3 DEF PanelKey
  <2>2. TocInv(t)
    BY <1>0, <1>1, <2>1, FilterKeysKeep
  <2> QED
    BY <1>2, <2>1, <2>2, Done
<1>4. CASE ~ app.toc.editing
  <2>1. \/ \E t \in {TocMove(app.toc, 1, app.area), TocMove(app.toc, -1, app.area),
                     TocTop(app.toc), TocBottom(app.toc, app.area), FilterStart(app.toc)} :
             Do([app EXCEPT !.toc = t])
        \/ Do([app EXCEPT !.toc = Activated(@), !.nav = JumpTo(@, TocTarget(app.toc))])
    BY <1>4 DEF PanelKey
  <2>2. ASSUME NEW t \in {TocMove(app.toc, 1, app.area), TocMove(app.toc, -1, app.area),
                          TocTop(app.toc), TocBottom(app.toc, app.area), FilterStart(app.toc)}
        PROVE  TocInv(t)
    <3>1. 1 \in Int /\ -1 \in Int
      OBVIOUS
    <3>2. TocInv(TocMove(app.toc, 1, app.area)) /\ TocInv(TocMove(app.toc, -1, app.area))
      BY <1>0, <3>1, TocMoveKeeps
    <3>3. DOMAIN app.toc = TocFields /\ app.toc.editing => app.toc.open
      BY <1>0 DEF TocInv
    <3>4. TocInv(TocTop(app.toc))
      BY <1>0, <1>1, <3>3, OpenHasOutline, TocTopKeeps DEF TocInv
    <3>5. TocInv(TocBottom(app.toc, app.area)) /\ TocInv(FilterStart(app.toc))
      BY <1>0, <1>1, TocBottomKeeps, FilterKeysKeep
    <3> QED
      BY <3>2, <3>4, <3>5
  <2>3. ASSUME Do([app EXCEPT !.toc = Activated(@), !.nav = JumpTo(@, TocTarget(app.toc))])
        PROVE  InputInv'
    <3> DEFINE t == Activated(app.toc)
               n == JumpTo(app.nav, TocTarget(app.toc))
    <3>1. TocInv(t) /\ NavInv(n)
      BY <1>0, TocTargetIs, JumpToKeeps
    <3>2. [app EXCEPT !.toc = Activated(@), !.nav = JumpTo(@, TocTarget(app.toc))]
            = Move([app EXCEPT !.toc = t], n)
      BY DEF Move
    <3> HIDE DEF t, n
    <3> QED
      BY <1>2, <2>3, <3>1, <3>2, Moved, Done
  <2> QED
    BY <1>2, <2>1, <2>2, <2>3, Done
<1> QED
  BY <1>3, <1>4

LEMMA ExecutedKeeps ==
    ASSUME NEW a, AppInv(a), a.awaiting = NoAnswer, NEW b \in Executed(a)
    PROVE  AppInv(b)
<1>0. NavInv(a.nav) /\ TocInv(a.toc)
  BY DEF AppInv
<1>1. \/ \E p \in 0 .. LastPage + 1 : b = Move(a, GotoPage(a.nav, p))
      \/ \E k \in LayoutKeys : b = Move(a, ChangeKey(a.nav, k))
      \/ b = Move(a, JumpToReferences(a.nav))
      \/ b = Reopened(a)
      \/ b = [a EXCEPT !.toc = ToggleToc(@)]
      \/ b = [a EXCEPT !.help = TRUE]
      \/ b = [a EXCEPT !.search = {}]
  BY DEF Executed
<1>2. ASSUME NEW p \in 0 .. LastPage + 1 PROVE NavInv(GotoPage(a.nav, p))
  <2>1. p \in Nat
    OBVIOUS
  <2> QED
    BY <1>0, <2>1, GotoPageKeeps
<1>3. \A k \in LayoutKeys : NavInv(ChangeKey(a.nav, k))
  BY <1>0, ChangeKeyKeeps
<1>4. NavInv(JumpToReferences(a.nav))
  BY <1>0, JumpSectionKeeps
<1>5. AppInv([a EXCEPT !.toc = ToggleToc(@)])
  <2> DEFINE t == ToggleToc(a.toc)
  <2>1. TocInv(t)
    BY <1>0, ToggleTocKeeps
  <2>2. [a EXCEPT !.toc = ToggleToc(@)] = [a EXCEPT !.toc = t]
    OBVIOUS
  <2> HIDE DEF t
  <2> QED
    BY <2>1, <2>2, PanelSet
<1> QED
  BY <1>1, <1>2, <1>3, <1>4, <1>5, Moved, ReopenedKeeps, HelpShown, ResultsDropped

LEMMA TypingKeysKeep ==
    ASSUME InputInv, CommandKey \/ SearchKey
    PROVE  InputInv'
<1> DEFINE done == [app EXCEPT !.mode = "normal"]
<1>1. AppInv(done) /\ done.awaiting = NoAnswer
  BY AppHas, TypingOver DEF CommandKey, SearchKey
<1>2. CASE CommandKey
  <2>1. PICK b \in Executed(done) : Do(b)
    BY <1>2 DEF CommandKey
  <2> HIDE DEF done
  <2> QED
    BY <1>1, <2>1, ExecutedKeeps, Done
<1>3. CASE SearchKey
  <2>1. \/ \E q \in {{}} \cup {{q} : q \in DOMAIN QueryHits} : Do(RunSearch(done, q))
        \/ Do(done)
    BY <1>3 DEF SearchKey
  <2> HIDE DEF done
  <2>2. ASSUME NEW q \in {{}} \cup {{q} : q \in DOMAIN QueryHits} PROVE AppInv(RunSearch(done, q))
    <3>1. q \subseteq DOMAIN QueryHits
      OBVIOUS
    <3> QED
      BY <1>1, <3>1, Searched
  <2> QED
    BY <1>1, <2>1, <2>2, Done
<1> QED
  BY <1>2, <1>3

LEMMA YankKeeps ==
    ASSUME NEW a, AppInv(a), Yank(a)
    PROVE  InputInv'
<1>1. app' = AfterYank(a) /\ effect' = [NoEffect EXCEPT !.yank = Taken(a)]
  BY DEF Yank
<1>2. effect'.yank = Taken(a)
  BY <1>1 DEF NoEffect
<1>3. AppInv(app')
  BY <1>1, Yanked
<1>4. \A y \in effect'.yank : Covers(y)
  BY <1>2, TakenCovers
<1> QED
  BY <1>3, <1>4 DEF InputInv

LEMMA VisualChordKeyKeeps ==
    ASSUME InputInv, VisualChordKey
    PROVE  InputInv'
<1>0. AppInv(app) /\ app.mode = "visual" /\ app.sel # {} /\ app.awaiting = NoAnswer
  BY AppHas DEF VisualChordKey, InVisual, AppInv, ModesInv
<1>1. CASE app.pending = <<>>
  <2>1. PICK k \in {"g", "f", "F", "i"} : Do([app EXCEPT !.pending = <<k>>])
    BY <1>1 DEF VisualChordKey
  <2>2. k \in PendingKeys
    BY DEF PendingKeys, Chords
  <2> QED
    BY <1>0, <2>1, <2>2, Pended, Done
<1>2. CASE app.pending # <<>>
  <2> DEFINE a == Unpend(app)
             s == CHOOSE s \in app.sel : TRUE
             pt == PageTexts[s.head.page]
             i == s.head.idx
  <2>1. \/ Do(IF app.pending = <<"i">> THEN ScrollToHead(a, s.head) ELSE a)
        \/ \E ch \in Letters : Do(MoveHead(a, FindChar(pt, i, ch, app.pending = <<"f">>)))
        \/ \E range \in {WordAround(pt, i), SentenceAround(pt, i), ParagraphAround(pt, i)} :
             Do(SelectInner(a, range))
        \/ Do(MoveHead(a, 1))
        \/ Yank(a)
    BY <1>2 DEF VisualChordKey
  <2>2. AppInv(a) /\ a.sel = app.sel
    BY <1>0, Unpended
  <2>3. s \in Selections /\ s.head \in CaretPlaces
    BY <1>0, TheSelection
  <2>4. IsPageText(pt) /\ i \in Carets(pt) /\ i \in Nat
    BY <2>3, PlacedCaret
  <2>5. s = CHOOSE r \in a.sel : TRUE
    BY <2>2
  <2> HIDE DEF a
  <2>6. ASSUME Do(IF app.pending = <<"i">> THEN ScrollToHead(a, s.head) ELSE a) PROVE InputInv'
    <3>1. AppInv(ScrollToHead(a, s.head))
      BY <2>2, <2>3, ScrolledToHead
    <3> QED
      BY <2>2, <2>6, <3>1, Done
  <2>7. ASSUME NEW idx \in Carets(pt), Do(MoveHead(a, idx)) PROVE InputInv'
    <3>1. AppInv(MoveHead(a, idx))
      BY <1>0, <2>2, HeadMoved
    <3> QED
      BY <2>7, <3>1, Done
  <2>8. ASSUME NEW ch PROVE FindChar(pt, i, ch, app.pending = <<"f">>) \in Carets(pt)
    BY <2>4, FindCharIn
  <2>9. 1 \in Carets(pt)
    BY <2>4, TextFacts DEF Carets
  <2>10. ASSUME NEW range \in {WordAround(pt, i), SentenceAround(pt, i), ParagraphAround(pt, i)},
                Do(SelectInner(a, range))
         PROVE  InputInv'
    <3>1. \A r \in range : r[1] \in Carets(pt) /\ r[2] \in Carets(pt)
      BY <2>4, TextObjectsIn
    <3>2. AppInv(SelectInner(a, range))
      BY <1>0, <2>2, <3>1, InnerSelected
    <3> QED
      BY <2>10, <3>2, Done
  <2>11. ASSUME Yank(a) PROVE InputInv'
    BY <2>2, <2>11, YankKeeps
  <2> HIDE DEF pt, i, s
  <2> QED
    BY <2>1, <2>6, <2>7, <2>8, <2>9, <2>10, <2>11
<1> QED
  BY <1>1, <1>2

LEMMA VisualKeyKeeps ==
    ASSUME InputInv, VisualKey
    PROVE  InputInv'
<1> DEFINE s == CHOOSE s \in app.sel : TRUE
           Toggled(kind) == [s EXCEPT !.kind = IF @ = kind THEN "char" ELSE kind]
           pt == PageTexts[s.head.page]
           i == s.head.idx
<1>0. AppInv(app) /\ app.mode = "visual" /\ app.sel # {}
  BY AppHas DEF VisualKey, InVisual, AppInv, ModesInv
<1>1. \/ \E idx \in Motions(pt, i) : Do(MoveHead(app, idx))
      \/ \E kind \in {"line", "block"} : Do([app EXCEPT !.sel = {Toggled(kind)}, !.placing = FALSE])
      \/ Do([app EXCEPT !.placing = ~@])
      \/ Yank(app)
  BY DEF VisualKey
<1>2. s \in Selections /\ s.head \in CaretPlaces
  BY <1>0, TheSelection
<1>3. IsPageText(pt) /\ i \in Carets(pt)
  BY <1>2, PlacedCaret
<1>4. ASSUME NEW idx \in Motions(pt, i), Do(MoveHead(app, idx)) PROVE InputInv'
  <2>1. idx \in Carets(pt)
    BY <1>3, MotionsIn
  <2>2. AppInv(MoveHead(app, idx))
    BY <1>0, <2>1, HeadMoved
  <2> QED
    BY <1>4, <2>2, Done
<1>5. ASSUME NEW kind \in {"line", "block"},
             Do([app EXCEPT !.sel = {Toggled(kind)}, !.placing = FALSE])
      PROVE  InputInv'
  <2> DEFINE t == Toggled(kind)
  <2>1. t \in Selections
    <3> HIDE DEF s
    <3> QED
      BY <1>2 DEF Selections
  <2> HIDE DEF t
  <2>2. AppInv([app EXCEPT !.sel = {t}, !.placing = FALSE])
    BY <1>0, <2>1 DEF AppInv, ModesInv, AppFields
  <2> QED
    BY <1>5, <2>2, Done DEF t
<1>6. ASSUME Do([app EXCEPT !.placing = ~@]) PROVE InputInv'
  <2>1. AppInv([app EXCEPT !.placing = ~@])
    BY <1>0 DEF AppInv, ModesInv, AppFields
  <2> QED
    BY <1>6, <2>1, Done
<1>7. ASSUME Yank(app) PROVE InputInv'
  BY <1>0, <1>7, YankKeeps
<1> HIDE DEF s, pt, i, Toggled
<1> QED
  BY <1>1, <1>4, <1>5, <1>6, <1>7

LEMMA MouseDownKeeps ==
    ASSUME InputInv, MouseDown
    PROVE  InputInv'
<1>1. PICK cell \in Cells :
        LET clicked == ClickRow(app.toc, cell.row, app.area)
            points == PointAt(app, cell)
            hit == LinkUnder(app, points)
            carets == CaretUnder(points)
            noted == IF hit = {} THEN app
                     ELSE [app EXCEPT !.click = {[at |-> l, cell |-> cell] : l \in hit}]
        IN  IF OnPanel(cell)
              THEN Do(IF RowToIndex(app.toc, cell.row, app.area) = {} THEN app
                      ELSE [app EXCEPT !.toc = Activated(clicked),
                                       !.nav = JumpTo(@, TocTarget(clicked))])
            ELSE IF carets = {} THEN Do(Touched(noted, points))
            ELSE \E c \in carets : Do([Begin(Touched(noted, points), c) EXCEPT !.dragging = TRUE])
  BY DEF MouseDown
<1> DEFINE clicked == ClickRow(app.toc, cell.row, app.area)
           points == PointAt(app, cell)
           hit == LinkUnder(app, points)
           clicks == {[at |-> l, cell |-> cell] : l \in hit}
           noted == IF hit = {} THEN app ELSE [app EXCEPT !.click = clicks]
           at == Touched(noted, points)
<1>2. AppInv(app) /\ NavInv(app.nav) /\ TocInv(app.toc) /\ app.area \in Nat
  BY AppHas
<1>3. points \subseteq Points
  BY <1>2, PointsAre
<1> HIDE DEF points
<1>4. hit \subseteq LinkPlaces
  BY <1>3, LinksUnder
<1>5. CaretUnder(points) \subseteq CaretPlaces
  BY <1>3, CaretsUnder
<1> HIDE DEF hit
<1>6. \A c \in clicks : c.at \in LinkPlaces
  BY <1>4
<1> HIDE DEF clicks
<1>7. AppInv(noted)
  BY <1>2, <1>6, Noted
<1> HIDE DEF noted
<1>8. AppInv(at)
  BY <1>7, TouchedKeeps
<1> HIDE DEF at
<1>9. CASE OnPanel(cell)
  <2> DEFINE t == Activated(clicked)
             n == JumpTo(app.nav, TocTarget(clicked))
             b == [app EXCEPT !.toc = Activated(clicked), !.nav = JumpTo(@, TocTarget(clicked))]
  <2>1. Do(app) \/ Do(b)
    BY <1>1, <1>9
  <2>2. TocInv(clicked)
    BY <1>2, ClickRowKeeps
  <2>3. TocInv(t) /\ NavInv(n)
    BY <1>2, <2>2, TocTargetIs, JumpToKeeps
  <2>4. app.awaiting = NoAnswer
    BY <1>2, <1>9 DEF OnPanel, AppInv, ModesInv
  <2>5. b = Move([app EXCEPT !.toc = t], n)
    BY DEF Move
  <2> HIDE DEF t, n
  <2>6. AppInv([app EXCEPT !.toc = t])
    BY <1>2, <2>3, <2>4, PanelSet
  <2>7. AppInv(b)
    BY <2>3, <2>5, <2>6, Moved
  <2> HIDE DEF b
  <2> QED
    BY <1>2, <2>1, <2>7, Done
<1>10. CASE ~ OnPanel(cell)
  <2>1. Do(at) \/ \E c \in CaretUnder(points) : Do([Begin(at, c) EXCEPT !.dragging = TRUE])
    BY <1>1, <1>10 DEF at, noted, clicks, hit, points
  <2>2. ASSUME NEW c \in CaretUnder(points), Do([Begin(at, c) EXCEPT !.dragging = TRUE])
        PROVE  InputInv'
    <3> DEFINE b == Begin(at, c)
    <3>1. AppInv(b) /\ b.mode = "visual"
      BY <1>5, <1>8, Begun
    <3> HIDE DEF b
    <3>2. AppInv([b EXCEPT !.dragging = TRUE])
      BY <3>1 DEF AppInv, ModesInv, AppFields
    <3> QED
      BY <2>2, <3>2, Done DEF b
  <2> QED
    BY <1>8, <2>1, <2>2, Done
<1> QED
  BY <1>9, <1>10

LEMMA MouseDragKeeps ==
    ASSUME InputInv, MouseDrag
    PROVE  InputInv'
<1>1. PICK cell \in Cells :
        LET near == {c \in app.click : /\ AbsDiff(cell.col, c.cell.col) <= DragSlop
                                       /\ AbsDiff(cell.row, c.cell.row) <= DragSlop}
            points == PointAt(app, cell)
            a == Touched([app EXCEPT !.click = near], points)
        IN  IF OnPanel(cell) THEN Do(app)
            ELSE IF ~app.dragging THEN Do([app EXCEPT !.click = near])
            ELSE IF CaretUnder(points) = {} THEN Do(a)
            ELSE \E c \in CaretUnder(points), s \in app.sel :
                   LET t == [s EXCEPT !.head = c]
                   IN  Do(WithText([a EXCEPT !.sel = {t}], t))
  BY Zenon DEF MouseDrag
<1> DEFINE near == {c \in app.click : /\ AbsDiff(cell.col, c.cell.col) <= DragSlop
                                      /\ AbsDiff(cell.row, c.cell.row) <= DragSlop}
           points == PointAt(app, cell)
           m == [app EXCEPT !.click = near]
           a == Touched(m, points)
<1>2. AppInv(app) /\ NavInv(app.nav) /\ app.area \in Nat
  BY AppHas
<1>3. CaretUnder(points) \subseteq CaretPlaces
  BY <1>2, PointsAre, CaretsUnder
<1>4. \A c \in near : c.at \in LinkPlaces
  BY <1>2 DEF AppInv
<1>5. \/ Do(app) \/ Do(m) \/ Do(a)
      \/ \E c \in CaretUnder(points), s \in app.sel :
           Do(WithText([a EXCEPT !.sel = {[s EXCEPT !.head = c]}], [s EXCEPT !.head = c]))
  BY <1>1
<1> HIDE DEF near, points
<1>6. AppInv(m) /\ m.sel = app.sel
  BY <1>2, <1>4, Noted
<1> HIDE DEF m
<1>7. AppInv(a) /\ a.sel = app.sel
  BY <1>6, TouchedKeeps
<1> HIDE DEF a
<1>8. ASSUME NEW c \in CaretUnder(points), NEW s \in app.sel,
             Do(WithText([a EXCEPT !.sel = {[s EXCEPT !.head = c]}], [s EXCEPT !.head = c]))
      PROVE  InputInv'
  <2> DEFINE t == [s EXCEPT !.head = c]
             b == [a EXCEPT !.sel = {t}]
  <2>1. s \in Selections /\ c \in CaretPlaces
    BY <1>2, <1>3 DEF AppInv
  <2>2. t \in Selections
    BY <2>1 DEF Selections
  <2> HIDE DEF t
  <2>3. AppInv(b)
    BY <1>7, <2>2, SelectionSet
  <2> HIDE DEF b
  <2>4. AppInv(WithText(b, t))
    BY <2>3, Loaded DEF WithText
  <2> QED
    BY <1>8, <2>4, Done DEF b, t
<1> QED
  BY <1>2, <1>5, <1>6, <1>7, <1>8, Done

LEMMA MouseUpKeeps ==
    ASSUME InputInv, MouseUp
    PROVE  InputInv'
<1>1. AppInv(app)
  BY AppHas
<1>2. CASE Do(app)
  BY <1>1, <1>2, Done
<1>3. CASE /\ app' = Followed([DragEnd(app) EXCEPT !.click = {}], app.click)
           /\ effect' = [link |-> {c.at : c \in app.click},
                         yank |-> IF RangeDragged(app) THEN Taken(app) ELSE {}]
  <2> DEFINE e == DragEnd(app)
             b == [e EXCEPT !.click = {}]
  <2>1. AppInv(e)
    BY <1>1, Yanked, VisualLeft DEF DragEnd
  <2> HIDE DEF e
  <2>2. AppInv(b)
    BY <2>1, Noted
  <2> HIDE DEF b
  <2>3. \A c \in app.click : c.at \in LinkPlaces
    BY <1>1 DEF AppInv
  <2>4. AppInv(Followed(b, app.click))
    BY <2>2, <2>3, LinkFollowed
  <2>5. AppInv(app')
    BY <1>3, <2>4 DEF b, e
  <2>6. effect'.yank = IF RangeDragged(app) THEN Taken(app) ELSE {}
    BY <1>3
  <2>7. \A y \in effect'.yank : Covers(y)
    BY <1>1, <2>6, TakenCovers
  <2> QED
    BY <2>5, <2>7 DEF InputInv
<1> QED
  BY <1>2, <1>3 DEF MouseUp

LEMMA WheelKeeps ==
    ASSUME InputInv, Wheel \/ Resize
    PROVE  InputInv'
<1>0. AppInv(app) /\ NavInv(app.nav) /\ TocInv(app.toc) /\ app.area \in Nat
  BY AppHas
<1>1. CASE Wheel
  <2>1. \/ \E px \in Steps : \E n \in {ScrollByPx(app.nav, px), ScrollByPx(app.nav, -px)} : Do(Move(app, n))
        \/ /\ app.toc.open
           /\ \E t \in {TocWheel(app.toc, WheelRows, app.area), TocWheel(app.toc, -WheelRows, app.area)} :
                Do([app EXCEPT !.toc = t])
    BY <1>1 DEF Wheel
  <2>2. ASSUME NEW px \in Steps PROVE NavInv(ScrollByPx(app.nav, px)) /\ NavInv(ScrollByPx(app.nav, -px))
    <3>1. px \in Int /\ -px \in Int
      BY AreasAre
    <3> QED
      BY <1>0, <3>1, ScrollByKeeps
  <2>3. ASSUME app.toc.open, NEW t, TocInv(t), Do([app EXCEPT !.toc = t]) PROVE InputInv'
    <3>1. app.awaiting = NoAnswer
      BY <1>0, <2>3 DEF AppInv, ModesInv
    <3>2. AppInv([app EXCEPT !.toc = t])
      BY <1>0, <2>3, <3>1, PanelSet
    <3> QED
      BY <2>3, <3>2, Done
  <2>4. WheelRows \in Int /\ -WheelRows \in Int
    BY TocAssumption
  <2>5. TocInv(TocWheel(app.toc, WheelRows, app.area)) /\ TocInv(TocWheel(app.toc, -WheelRows, app.area))
    BY <1>0, <2>4, TocWheelKeeps
  <2> QED
    BY <1>0, <2>1, <2>2, <2>3, <2>5, Moved, Done
<1>2. CASE Resize
  <2>1. PICK rows \in Areas : Do([app EXCEPT !.area = rows])
    BY <1>2 DEF Resize
  <2>2. rows \in Nat
    BY AreasAre
  <2>3. AppInv([app EXCEPT !.area = rows])
    BY <1>0, <2>2 DEF AppInv, ModesInv, AppFields
  <2> QED
    BY <2>1, <2>3, Done
<1> QED
  BY <1>1, <1>2

LEMMA FrameKeeps ==
    ASSUME InputInv, Frame
    PROVE  InputInv'
<1>0. AppInv(app) /\ NavInv(app.nav) /\ TocInv(app.toc)
  BY AppHas
<1>1. PICK rows \in Areas :
        LET popup == app.help \/ app.toc.open
            a == [app EXCEPT !.area = rows, !.toc = DrawnToc(@, rows)]
            n == Relaid(app.nav, rows)
            seen == VisiblePages(Laid(n), n.scroll, ViewportOf(n))
            near == {p \in NavPages : \E q \in seen : AbsDiff(p, q) <= FarMargin}
            kept == app.texts \cap (near \cup UNION {Span(s) : s \in app.sel})
        IN  IF popup THEN Do(a)
            ELSE \E shed \in SUBSET (kept \ seen) : Do([a EXCEPT !.nav = n, !.texts = kept \ shed])
  BY Zenon DEF Frame
<1> DEFINE t == DrawnToc(app.toc, rows)
           n == Relaid(app.nav, rows)
           a == [app EXCEPT !.area = rows, !.toc = t]
           Dropped(texts) == [a EXCEPT !.nav = n, !.texts = texts]
<1>2. Do(a) \/ \E texts \in SUBSET app.texts : Do(Dropped(texts))
  <2> DEFINE seen == VisiblePages(Laid(n), n.scroll, ViewportOf(n))
             near == {p \in NavPages : \E q \in seen : AbsDiff(p, q) <= FarMargin}
             kept == app.texts \cap (near \cup UNION {Span(s) : s \in app.sel})
  <2>1. \/ Do(a)
        \/ \E shed \in SUBSET (kept \ seen) : Do(Dropped(kept \ shed))
    BY <1>1, Zenon
  <2>2. kept \subseteq app.texts
    OBVIOUS
  <2> HIDE DEF kept, Dropped, a, n, seen
  <2>3. ASSUME NEW shed, Do(Dropped(kept \ shed))
        PROVE  \E texts \in SUBSET app.texts : Do(Dropped(texts))
    <3>1. kept \ shed \in SUBSET app.texts
      BY <2>2
    <3> QED
      BY <2>3, <3>1, Zenon
  <2> QED
    BY <2>1, <2>3, Zenon
<1>3. rows \in Nat
  BY AreasAre
<1>4. TocInv(t) /\ t.open = app.toc.open
  BY <1>0, <1>3, DrawnTocIs
<1>5. NavInv(n)
  BY <1>0, <1>3, RelaidKeeps
<1> HIDE DEF t, n
<1>6. AppInv(a)
  BY <1>0, <1>3, <1>4 DEF AppInv, ModesInv, AppFields
<1> HIDE DEF a
<1>7. ASSUME NEW texts \in SUBSET app.texts PROVE AppInv(Dropped(texts))
  <2>1. texts \subseteq DOMAIN PageTexts
    BY <1>0 DEF AppInv
  <2> QED
    BY <1>5, <1>6, <2>1 DEF AppInv, ModesInv, AppFields
<1> HIDE DEF Dropped
<1>8. CASE Do(a)
  BY <1>6, <1>8, Done
<1>9. ASSUME NEW texts \in SUBSET app.texts, Do(Dropped(texts)) PROVE InputInv'
  BY <1>7, <1>9, Done
<1> QED
  BY <1>2, <1>8, <1>9, Zenon

-----------------------------------------------------------------------------
(* Theorems.                                                               *)

(* Whatever keys, mouse events, resizes and frames come, in any order: the *)
(* modes agree, the carets of a selection are on characters of pages that  *)
(* have a text, the outline cursor is on an entry of the list it runs      *)
(* over, the pressed link, the shown hints and the search results are ones *)
(* the document has, and what a yank took covers the selection.            *)
THEOREM InputInvariant == InputSpec => []InputInv
<1>1. InputInit => InputInv
  BY InitKeeps
<1>2. InputInv /\ [InputNext]_inputVars => InputInv'
  <2> SUFFICES ASSUME InputInv, [InputNext]_inputVars
               PROVE  InputInv'
    OBVIOUS
  <2>1. CASE PageKey \/ ScreenKey \/ ScrollKey \/ HistoryKey \/ ViewKey \/ ChordKey \/ DigitKey
    BY <2>1, PageKeyKeeps, ScreenKeyKeeps, TravelKeysKeep, ChordKeyKeeps
  <2>2. CASE LastOrCountedPageKey \/ SearchStepKey \/ DeleteKey \/ MarkKey \/ AnswerKey \/ ModeKey
    BY <2>2, NormalKeysKeep, AnswerKeyKeeps, ModeKeyKeeps
  <2>3. CASE QuitKey \/ EscapeKey \/ HintKey \/ PanelKey \/ CommandKey \/ SearchKey
    BY <2>3, LeavingKeysKeep, PanelKeyKeeps, TypingKeysKeep
  <2>4. CASE VisualChordKey \/ VisualKey
    BY <2>4, VisualChordKeyKeeps, VisualKeyKeeps
  <2>5. CASE MouseDown \/ MouseDrag \/ MouseUp \/ Wheel \/ Resize \/ Frame
    BY <2>5, MouseDownKeeps, MouseDragKeeps, MouseUpKeeps, WheelKeeps, FrameKeeps
  <2>6. CASE UNCHANGED inputVars
    BY <2>6 DEF inputVars, InputInv
  <2> QED
    BY <2>1, <2>2, <2>3, <2>4, <2>5, <2>6 DEF InputNext
<1> QED
  BY <1>1, <1>2, PTL DEF InputSpec

(* A selection exists exactly in Visual mode and its carets are on         *)
(* characters; the modes that take the next key are one at a time; each    *)
(* Esc leaves one of the modes that hold the keyboard and enters none      *)
(* (keys.rs, "the user gets the expected one-keystroke exit"); and the     *)
(* outline panel keeps its cursor on screen and opens the row that was     *)
(* clicked (app.rs, toc_move to toc_click_row).                            *)
THEOREM InputStaysSound == InputSpec => []InputSound
<1>1. InputInv => InputSound
  <2> SUFFICES ASSUME InputInv
               PROVE  InputSound
    OBVIOUS
  <2>1. AppInv(app) /\ TocInv(app.toc) /\ app.area \in Nat /\ ModesInv(app) /\ app.sel \subseteq Selections
    BY AppHas DEF AppInv
  <2>2. ModesAgree
    <3>1. app.toc.editing => app.toc.open
      BY <2>1 DEF TocInv
    <3>2. ASSUME NEW s \in app.sel, NEW c \in {s.anchor, s.head}
          PROVE  HasText(c.page) /\ c.idx \in Carets(PageTexts[c.page])
      <4>1. c \in CaretPlaces
        BY <2>1 DEF Selections
      <4> QED
        BY <4>1, PlacedCaret
    <3> QED
      BY <2>1, <3>1, <3>2 DEF ModesAgree, ModesInv
  <2>3. EscapeLeaves
    BY <2>1, Escaped, FewerLayers DEF EscapeLeaves
  <2>4. PanelSound(app.toc, app.area)
    BY <2>1, PanelIsSound
  <2> QED
    BY <2>2, <2>3, <2>4 DEF InputSound
<1> QED
  BY <1>1, InputInvariant, PTL

(* However the frames evict page texts between the events of a selection,  *)
(* a yank takes every readable page of it, the first from the first        *)
(* selected character on and the last up to the last one (app.rs,          *)
(* ensure_selection_text_loaded before each loop over the pages).          *)
THEOREM YanksCoverSelection == InputSpec => []YankCoversSelection
<1>1. InputInv => YankCoversSelection
  BY DEF InputInv, Covers, YankCoversSelection
<1> QED
  BY <1>1, InputInvariant, PTL

(* Wherever the events have led: the jump list stays within its bound, its *)
(* index within the list, no place is in it twice in a row; and after any  *)
(* big move Ctrl-O comes back to where it began, Ctrl-I to where it ended, *)
(* and Ctrl-O back again (app.rs, push_jump, jump_back, jump_forward).     *)
THEOREM JumpsAlwaysReturn == InputSpec => []JumpsReturn
<1>1. InputInv => JumpsReturn
  BY AppHas, GoesRoundTrip DEF JumpsReturn
<1> QED
  BY <1>1, InputInvariant, PTL

=============================================================================
