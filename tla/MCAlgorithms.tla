---------------------------- MODULE MCAlgorithms ----------------------------
(***************************************************************************)
(* The algorithms for TLC.  They share no state, so a behaviour is about   *)
(* one of them (part) and the others stand still:                          *)
(*   "search"  the searches of LayoutSearch over every small document      *)
(*   "frame"   the transmit deferrals of DrawPlan, with ImageId for 3-bit  *)
(*             integers instead of 32-bit ones                             *)
(*   "page"    the caret motions and selections of TextLayout              *)
(*   "hints"   the link labels of Links                                    *)
(*   "index"   the text index of SearchIndex over its sessions             *)
(*   "cells"   the placement of pages of Placement, frame after frame      *)
(***************************************************************************)
EXTENDS LayoutSearch, DrawPlan, ImageId, TextLayout, Links, SearchIndex, Placement

CONSTANTS MaxPages, MaxHeight, MaxGap,   \* of the documents
          FramePages,                    \* pages in view of a frame
          TextPages,                     \* the pages of text
          MaxLinks

ASSUME SizesAssumption == FramePages \in Nat /\ MaxLinks \in Nat
ASSUME TextPagesAssumption == \A raws \in TextPages : IsRawText(raws)

VARIABLES part, frame,
          textPage,       \* a page of text
          linkCount       \* links on the visible pages

SmallLayouts ==
    UNION {{Build(h, g) : h \in [0 .. n - 1 -> 0 .. MaxHeight], g \in 0 .. MaxGap} :
             n \in 0 .. MaxPages}

SmallTops == -1 .. (MaxPages * (MaxHeight + MaxGap) + 1)

Slots == 0 .. FramePages - 1
NoNeed == [need |-> {}, prior |-> {}, current |-> 0]
Frames == [need : SUBSET Slots, prior : SUBSET Slots, current : Slots]

(* A page of text: characters of two by two units on a grid, some of them  *)
(* raised or lowered a little, some generated, without a finite box or     *)
(* without a unicode value.                                                *)
Raw(ch, column, row, raised) ==
    [ch |-> ch, left |-> 2 * column, right |-> 2 * column + 2,
     top |-> PageHeight - 6 * row + raised, bottom |-> PageHeight - 6 * row - 4 + raised,
     finite |-> ch # "?", generated |-> ch = "-"]

Grid(columns, rows, letters) ==
    {[i \in 1 .. columns * rows |->
        Raw(s[i], (i - 1) % columns, (i - 1) \div columns, IF i % 2 = 0 THEN 1 ELSE 0)] :
       s \in [1 .. columns * rows -> letters]}

(* Two columns: the stream has the first to its end before the second.     *)
Columns(rows, letters) ==
    {[i \in 1 .. 2 * rows |-> Raw(s[i], (i - 1) \div rows, (i - 1) % rows, 0)] :
       s \in [1 .. 2 * rows -> letters]}

ReadingOrder ==
    Grid(3, 2, {"a", "_", "."}) \cup Grid(2, 3, {"a", NoChar})
      \cup Grid(4, 1, {"a", "_", ".", "-", "?", NoChar})

TwoColumns == Columns(2, {"a", "_", "."})

SmallPages == ReadingOrder \cup TwoColumns

(* Documents for the index.                                                *)
Alphabet == {"a", "A", "E", "e", "nl"}
Utf8 == [c \in Alphabet |-> IF c \in {"E", "e"} THEN 2 ELSE 1]
LowerCase == [c \in Alphabet |-> CASE c = "A" -> "a" [] c = "E" -> "e" [] OTHER -> c]
TextsOver(letters, n) == UNION {[1 .. k -> letters] : k \in 0 .. n}
SmallDocuments ==
    (UNION {[1 .. n -> TextsOver({"a", "A", "E"}, 2)] : n \in 1 .. 2})
      \cup [1 .. 3 -> TextsOver({"a", "E"}, 1)]
SomeQueries == {<<"a">>, <<"a", "a">>, <<"E", "a">>}

(* Pages as wide as the area, one of them with a row cut off; pages in the *)
(* middle of it; pages wider and with more rows than can be addressed.     *)
SmallZooms ==
    {[layout |-> Build([p \in 0 .. 2 |-> IF p = 1 THEN 7 ELSE 6], 1), width |-> 5],
     [layout |-> Build([p \in 0 .. 1 |-> 7], 1), width |-> 1],
     [layout |-> Build([p \in 0 .. 1 |-> 18], 1), width |-> 6]}

NoSearch ==
    /\ l = Build([p \in {} |-> 0], 0) /\ top = 0 /\ viewport = 0 /\ call = "page_at"
    /\ search = "done" /\ lo = 0 /\ hi = 0 /\ first = 0 /\ found = {0}
NoFrame == frame = NoNeed /\ hash = 0
NoPage == textPage = NoText
NoLinks == linkCount = 0
NothingToIndex ==
    /\ texts = <<<<>>>> /\ unreadable = {}
    /\ docIndex = AddPage(EmptyIndex(1), 0, <<>>) /\ persisted = TRUE
    /\ writer = {} /\ disk = {} /\ sessions = MaxSessions /\ lost = 0
NoCells == PlaceInit /\ doc = CHOOSE d \in Zooms : TRUE

MCInit ==
    \/ /\ part = "search" /\ Init
       /\ NoFrame /\ NoPage /\ NoLinks /\ NothingToIndex /\ NoCells
    \/ /\ part = "frame" /\ frame \in Frames /\ AnyHash
       /\ NoSearch /\ NoPage /\ NoLinks /\ NothingToIndex /\ NoCells
    \/ /\ part = "page" /\ textPage \in {PageText(raws) : raws \in TextPages}
       /\ NoSearch /\ NoFrame /\ NoLinks /\ NothingToIndex /\ NoCells
    \/ /\ part = "hints" /\ linkCount \in 0 .. MaxLinks
       /\ NoSearch /\ NoFrame /\ NoPage /\ NothingToIndex /\ NoCells
    \/ part = "index" /\ IndexInit /\ NoSearch /\ NoFrame /\ NoPage /\ NoLinks /\ NoCells
    \/ part = "cells" /\ PlaceInit /\ NoSearch /\ NoFrame /\ NoPage /\ NoLinks /\ NothingToIndex

MCNext ==
    /\ UNCHANGED <<part, frame, hash, textPage, linkCount>>
    /\ \/ part = "search" /\ Next /\ UNCHANGED <<indexVars, placeVars>>
       \/ part = "index" /\ IndexNext /\ UNCHANGED <<vars, placeVars>>
       \/ part = "cells" /\ PlaceNext /\ UNCHANGED <<vars, indexVars>>

MCSpec ==
    /\ MCInit
    /\ [][MCNext]_<<part, vars, frame, hash, textPage, linkCount, indexVars, placeVars>>
    /\ WF_vars(Next) /\ IndexFairness

Put == TransmitDeferrals(frame.need, frame.prior, frame.current)

(* What is shown and saved as a highlight is what is selected, and what is *)
(* yanked and exported is what of it has a unicode value (SelectionSound   *)
(* says it of one page), on pages that are read line by line: between two  *)
(* stretches of a line a selection over columns shows more than it takes.  *)
ShownIsTaken == InReadingOrder(textPage) => SelectionSound(textPage)

(* The caret motions and text objects agree with each other on a page.     *)
MotionsAgree == MotionsSound(textPage)

(* Every hint label can be typed, and picks its link with its last letter. *)
HintsChoosable == LabelsChoosable(linkCount)

(* A page the terminal has nothing for is never put off (its cells would   *)
(* show garbage); as many of the others go out as the budget has room for, *)
(* so a frame neither exceeds the budget without need nor wastes it; and   *)
(* "among deferrable transmits, those farthest from current_page are shed  *)
(* first".                                                                 *)
DeferralsRight ==
    /\ Put \subseteq frame.need \cap frame.prior
    /\ LET sent == Cardinality(frame.need \ Put)
           undeferrable == Cardinality(frame.need \ frame.prior)
       IN  sent = IF undeferrable > MaxTransmits THEN undeferrable
                  ELSE Lesser(Cardinality(frame.need), MaxTransmits)
    /\ \A p \in Put, s \in (frame.need \cap frame.prior) \ Put :
          Distance(s, frame.current) <= Distance(p, frame.current)

=============================================================================
