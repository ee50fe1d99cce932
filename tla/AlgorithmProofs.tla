-------------------------- MODULE AlgorithmProofs --------------------------
(***************************************************************************)
(* Theorems about the algorithms, for inputs of any size: the binary       *)
(* searches of PageLayout, image ids, the transmits a frame puts off, the  *)
(* labels of link hints, the motions over the text of a page, and the      *)
(* cells that placing pages leaves on the terminal's grid.                 *)
(***************************************************************************)
EXTENDS MCAlgorithms, LayoutProofs

-----------------------------------------------------------------------------
(* The searches of PageLayout.                                             *)

Searches == {"first", "last", "owner"}

(* What LayoutsAssumption asks for is what build returns: for pages of any *)
(* heights, empty ones included, and any gap, the pages follow each other. *)
THEOREM BuildOrders ==
    \A n \in Nat, gap \in Nat : \A h \in [0 .. n - 1 -> Nat] : Ordered(Build(h, gap))
<1> TAKE n \in Nat, gap \in Nat
<1> TAKE h \in [0 .. n - 1 -> Nat]
<1>1. PICK y, t :
        /\ Build(h, gap) = [n |-> n, h |-> h, gap |-> gap, y |-> y, total |-> t]
        /\ t \in Nat /\ y \in [0 .. n - 1 -> Nat]
        /\ \A i \in 1 .. n - 1 : y[i] = y[i - 1] + h[i - 1] + gap
  BY BuildOffsets
<1> DEFINE Broken(p, q) == ~ (y[p] + h[p] + gap <= y[q])
           T == {q \in 0 .. n - 1 : \E p \in 0 .. q - 1 : Broken(p, q)}
<1>2. T = {}
  <2> SUFFICES ASSUME T # {} PROVE FALSE
    OBVIOUS
  <2>1. /\ T \subseteq Nat
        /\ \A q : q \in T <=> q \in 0 .. n - 1 /\ \E p \in 0 .. q - 1 : Broken(p, q)
    BY SMTT(30)
  <2> HIDE DEF T, Broken
  <2>2. PICK q : q \in T /\ \A r \in T : q <= r
    BY <2>1, NatLeast
  <2>3. PICK p : p \in 0 .. q - 1 /\ Broken(p, q)
    BY <2>1, <2>2
  <2>4. q \in 1 .. n - 1 /\ q - 1 \in 0 .. n - 1 /\ q - 1 \notin T /\ p \in 0 .. n - 1
    BY <2>1, <2>2, <2>3
  <2>5. ~ (y[p] + h[p] + gap <= y[q])
    BY <2>3 DEF Broken
  <2>6. /\ y[q] = y[q - 1] + h[q - 1] + gap
        /\ y[q] \in Nat /\ y[q - 1] \in Nat /\ h[q - 1] \in Nat
        /\ y[p] \in Nat /\ h[p] \in Nat
    BY <1>1, <2>4
  <2>7. CASE p = q - 1
    BY <2>5, <2>6, <2>7
  <2>8. CASE p # q - 1
    <3>1. p \in 0 .. (q - 1) - 1
      BY <2>3, <2>4, <2>8
    <3>2. y[p] + h[p] + gap <= y[q - 1]
      BY <2>1, <2>4, <3>1 DEF Broken
    <3> QED
      BY <2>5, <2>6, <3>2, SMTT(30)
  <2> QED
    BY <2>7, <2>8
<1>3. \A p, q \in 0 .. n - 1 : p < q => y[p] + h[p] + gap <= y[q]
  BY <1>2
<1> DEFINE b == [n |-> n, h |-> h, gap |-> gap, y |-> y, total |-> t]
<1>4. b.n = n /\ b.h = h /\ b.gap = gap /\ b.y = y /\ Build(h, gap) = b
  BY <1>1
<1> HIDE DEF b
<1>5. PagesOf(b) = 0 .. n - 1
  BY <1>4 DEF PagesOf
<1>6. \A p \in 0 .. n - 1 : Bottom(b, p) = y[p] + h[p]
  BY <1>4 DEF Bottom
<1>7. Ordered(b)
  <2>1. b.y \in [PagesOf(b) -> Nat] /\ b.h \in [PagesOf(b) -> Nat]
    BY <1>1, <1>4, <1>5
  <2>2. \A p, q \in PagesOf(b) : p < q => Bottom(b, p) + b.gap <= b.y[q]
    BY <1>3, <1>4, <1>5, <1>6
  <2> QED
    BY <1>4, <2>1, <2>2 DEF Ordered
<1> QED
  BY <1>4, <1>7

-----------------------------------------------------------------------------
(* A page of an ordered layout has a natural offset and height.            *)
LEMMA PageFacts ==
    ASSUME Ordered(l), NEW p \in PagesOf(l)
    PROVE  l.gap \in Nat /\ l.y[p] \in Nat /\ Bottom(l, p) \in Nat /\ l.y[p] <= Bottom(l, p)
<1>1. l.gap \in Nat /\ l.y[p] \in Nat /\ l.h[p] \in Nat
  BY DEF Ordered
<1> QED
  BY <1>1 DEF Bottom

(* What each of the three comparisons says.                                *)
LEMMA PastCases ==
    ASSUME NEW p
    PROVE  /\ Past("first", p) <=> Bottom(l, p) <= top
           /\ Past("last", p)  <=> l.y[p] < top + viewport
           /\ Past("owner", p) <=> Bottom(l, p) + l.gap <= top
BY DEF Past

(* The comparisons are monotonic, so that the bracket cuts off an initial  *)
(* and a final run of pages.                                               *)
LEMMA PastMonotonic ==
    ASSUME Ordered(l), top \in Int, viewport \in Nat, NEW s \in Searches,
           NEW p \in PagesOf(l), NEW q \in PagesOf(l), p < q, Past(s, q)
    PROVE  Past(s, p)
<1>1. /\ l.gap \in Nat /\ l.y[p] \in Nat /\ Bottom(l, p) \in Nat
      /\ l.y[q] \in Nat /\ Bottom(l, q) \in Nat
      /\ l.y[p] <= Bottom(l, p) /\ l.y[q] <= Bottom(l, q)
  BY PageFacts
<1>2. Bottom(l, p) + l.gap <= l.y[q]
  BY DEF Ordered
<1>3. CASE s = "first"
  BY <1>1, <1>2, <1>3, PastCases
<1>4. CASE s = "last"
  BY <1>1, <1>2, <1>4, PastCases
<1>5. CASE s = "owner"
  BY <1>1, <1>2, <1>5, PastCases
<1> QED
  BY <1>3, <1>4, <1>5 DEF Searches

(* The probe lies inside the bracket and below its end.                    *)
LEMMA ProbeInside ==
    ASSUME NEW a \in Nat, NEW b \in Nat, a < b
    PROVE  a + (b - a) \div 2 \in a .. b - 1
<1>1. (b - a) \div 2 \in 0 .. b - a - 1
  OBVIOUS
<1> QED
  BY <1>1

-----------------------------------------------------------------------------
(* The query does not change, and each loop belongs to one of the calls.   *)
QueryInv ==
    /\ l \in Layouts /\ top \in Int /\ viewport \in Nat
    /\ call \in {"visible_pages", "page_at"}
    /\ search \in Searches \cup {"done"}
    /\ search \in {"first", "last"} => call = "visible_pages"
    /\ search = "owner" => call = "page_at"

(* Until the search is done its bracket is one of natural numbers.         *)
BracketType == lo \in Nat /\ hi \in Nat

(* While the second loop runs, the first one's result is the first page    *)
(* that ends below the top of the window.                                  *)
FirstInv ==
    search = "last" =>
        /\ first \in PagesOf(l)
        /\ \A p \in PagesOf(l) : Past("first", p) <=> p < first

IInv == QueryInv /\ BracketType /\ Bracket /\ FirstInv /\ ResultMatches

(* The three facts every step uses about the query.                        *)
LEMMA QueryFacts ==
    ASSUME QueryInv
    PROVE  Ordered(l) /\ l.n \in Nat /\ top \in Int /\ viewport \in Nat
BY LayoutsAssumption DEF QueryInv, Ordered

(* The invariant holds when a search begins.                               *)
LEMMA InitInv == Init => IInv
<1> SUFFICES ASSUME Init PROVE IInv
  OBVIOUS
<1>1. QueryInv
  BY QueriesAssumption DEF Init, QueryInv, Searches
<1>2. l.n \in Nat
  BY <1>1, QueryFacts
<1>3. /\ lo = 0 /\ hi = l.n /\ search \in {"first", "owner"}
  BY DEF Init
<1>4. Bracket
  BY <1>2, <1>3 DEF Bracket, PagesOf
<1> QED
  BY <1>1, <1>2, <1>3, <1>4 DEF IInv, BracketType, FirstInv, ResultMatches

(* An early return finds nothing, or page 0 as page_at has it.             *)
LEMMA TrivialInv == ASSUME IInv, Trivial PROVE IInv'
<1> USE DEF IInv
<1>1. /\ l' = l /\ top' = top /\ viewport' = viewport /\ call' = call
      /\ lo' = lo /\ hi' = hi /\ search' = "done"
  BY DEF Trivial, query
<1>2. QueryInv' /\ BracketType' /\ Bracket' /\ FirstInv'
  BY <1>1 DEF QueryInv, BracketType, Bracket, FirstInv
<1>3. ResultMatches'
  <2>1. CASE search = "first" /\ l.n = 0
    <3>1. call = "visible_pages" /\ found' = {}
      BY <2>1 DEF Trivial, QueryInv
    <3>2. VisiblePages(l, top, viewport) = {}
      BY <2>1 DEF VisiblePages, PagesOf
    <3> QED
      BY <1>1, <3>1, <3>2 DEF ResultMatches
  <2>2. CASE search = "owner" /\ (l.n = 0 \/ top < 0)
    <3>1. call = "page_at" /\ found' = {0}
      BY <2>2 DEF Trivial, QueryInv
    <3>2. PageAt(l, top) = 0
      BY <2>2 DEF PageAt
    <3> QED
      BY <1>1, <3>1, <3>2 DEF ResultMatches
  <2> QED
    BY <2>1, <2>2 DEF Trivial
<1> QED
  BY <1>2, <1>3

(* A probe cuts off pages of which the comparison is known.                *)
LEMMA ProbeInv == ASSUME IInv, Probe PROVE IInv'
<1> USE DEF IInv
<1> DEFINE mid == lo + (hi - lo) \div 2
<1>1. /\ l' = l /\ top' = top /\ viewport' = viewport /\ call' = call
      /\ search' = search /\ first' = first /\ found' = found
      /\ search \in Searches
  BY DEF Probe, query, Searching, Searches
<1>2. /\ Ordered(l) /\ l.n \in Nat /\ top \in Int /\ viewport \in Nat
      /\ lo \in Nat /\ hi \in Nat /\ lo < hi /\ hi <= l.n
  BY <1>1, QueryFacts DEF Probe, Bracket, BracketType, Searches
<1>3. mid \in lo .. hi - 1 /\ mid \in PagesOf(l)
  BY <1>2, ProbeInside DEF PagesOf
<1>4. \A s, p : Past(s, p)' <=> Past(s, p)
  BY <1>1 DEF Past, Bottom
<1>5. \A p \in PagesOf(l) : (p < lo => Past(search, p)) /\ (p >= hi => ~Past(search, p))
  BY <1>1 DEF Bracket, Searches
<1>6. /\ lo' \in Nat /\ hi' \in Nat /\ lo' <= hi' /\ hi' <= l.n
      /\ \A p \in PagesOf(l) : (p < lo' => Past(search, p)) /\ (p >= hi' => ~Past(search, p))
  <2> HIDE DEF mid
  <2>1. CASE Past(search, mid)
    <3>1. lo' = mid + 1 /\ hi' = hi
      BY <2>1 DEF Probe, Halve, mid
    <3>2. \A p \in PagesOf(l) : p < mid + 1 => Past(search, p)
      BY <1>1, <1>2, <1>3, <2>1, PastMonotonic DEF PagesOf
    <3> QED
      BY <1>2, <1>3, <1>5, <3>1, <3>2
  <2>2. CASE ~Past(search, mid)
    <3>1. hi' = mid /\ lo' = lo
      BY <2>2 DEF Probe, Halve, mid
    <3>2. \A p \in PagesOf(l) : p >= mid => ~Past(search, p)
      BY <1>1, <1>2, <1>3, <2>2, PastMonotonic DEF PagesOf
    <3> QED
      BY <1>2, <1>3, <1>5, <3>1, <3>2
  <2> QED
    BY <2>1, <2>2
<1>7. QueryInv' /\ BracketType'
  BY <1>1, <1>6 DEF QueryInv, BracketType
<1>8. Bracket'
  BY <1>1, <1>4, <1>6 DEF Bracket, PagesOf
<1>9. FirstInv'
  BY <1>1, <1>4 DEF FirstInv, PagesOf
<1>10. ResultMatches'
  BY <1>1 DEF ResultMatches, Searches
<1> QED
  BY <1>7, <1>8, <1>9, <1>10

(* The end of the first loop: no page ends below the top, or the second    *)
(* loop starts with the whole document before it.                          *)
LEMMA FirstFoundInv == ASSUME IInv, FirstFound PROVE IInv'
<1> USE DEF IInv
<1>1. /\ l' = l /\ top' = top /\ viewport' = viewport /\ call' = call
      /\ search = "first" /\ call = "visible_pages"
  BY DEF FirstFound, query, QueryInv
<1>2. /\ Ordered(l) /\ l.n \in Nat /\ lo \in Nat /\ hi \in Nat
      /\ lo = hi /\ hi <= l.n /\ top \in Int /\ viewport \in Nat
  BY <1>1, QueryFacts DEF FirstFound, Bracket, BracketType
<1>3. \A p \in PagesOf(l) : Past("first", p) <=> p < lo
  BY <1>1, <1>2 DEF Bracket, PagesOf
<1>4. CASE lo >= l.n
  <2>1. search' = "done" /\ found' = {} /\ lo' = lo /\ hi' = hi
    BY <1>4 DEF FirstFound
  <2>2. VisiblePages(l, top, viewport) = {}
    <3>1. \A p \in PagesOf(l) : p < lo
      BY <1>2, <1>4 DEF PagesOf
    <3>2. \A p \in PagesOf(l) : ~(Bottom(l, p) > top)
      BY <1>2, <1>3, <3>1, PageFacts, PastCases
    <3> QED
      BY <3>2 DEF VisiblePages
  <2>3. ResultMatches'
    BY <1>1, <2>1, <2>2 DEF ResultMatches
  <2> QED
    BY <1>1, <2>1, <2>3 DEF QueryInv, BracketType, Bracket, FirstInv
<1>5. CASE ~(lo >= l.n)
  <2>1. search' = "last" /\ first' = lo /\ lo' = 0 /\ hi' = l.n
    BY <1>5 DEF FirstFound
  <2>2. QueryInv' /\ BracketType' /\ ResultMatches'
    BY <1>1, <1>2, <2>1 DEF QueryInv, BracketType, ResultMatches, Searches
  <2>3. Bracket'
    BY <1>1, <1>2, <2>1 DEF Bracket, PagesOf
  <2>4. FirstInv'
    <3>1. \A p : Past("first", p)' <=> Past("first", p)
      BY <1>1 DEF Past, Bottom
    <3> QED
      BY <1>1, <1>2, <1>3, <1>5, <2>1, <3>1 DEF FirstInv, PagesOf
  <2> QED
    BY <2>2, <2>3, <2>4
<1> QED
  BY <1>4, <1>5

(* The end of the second loop: from the first result up to the bracket.    *)
LEMMA LastFoundInv == ASSUME IInv, LastFound PROVE IInv'
<1> USE DEF IInv
<1>1. /\ l' = l /\ top' = top /\ viewport' = viewport /\ call' = call
      /\ lo' = lo /\ hi' = hi /\ search' = "done"
      /\ search = "last" /\ call = "visible_pages" /\ found' = first .. lo - 1
  BY DEF LastFound, query, QueryInv
<1>2. /\ Ordered(l) /\ l.n \in Nat /\ lo \in Nat /\ hi \in Nat
      /\ lo = hi /\ hi <= l.n /\ top \in Int /\ viewport \in Nat
  BY <1>1, QueryFacts DEF LastFound, Bracket, BracketType
<1>3. \A p \in PagesOf(l) : Past("last", p) <=> p < lo
  BY <1>1, <1>2 DEF Bracket, PagesOf
<1>4. first \in PagesOf(l) /\ \A p \in PagesOf(l) : Past("first", p) <=> p < first
  BY <1>1 DEF FirstInv
<1>5. \A p \in PagesOf(l) : Bottom(l, p) > top <=> p >= first
  <2> TAKE p \in PagesOf(l)
  <2>1. Bottom(l, p) \in Nat
    BY <1>2, PageFacts
  <2>2. p \in Int /\ first \in Int
    BY <1>2, <1>4 DEF PagesOf
  <2>3. Bottom(l, p) <= top <=> p < first
    BY <1>4, PastCases
  <2> QED
    BY <1>2, <2>1, <2>2, <2>3
<1>6. \A p \in PagesOf(l) : l.y[p] < top + viewport <=> p < lo
  BY <1>3, PastCases
<1>7. VisiblePages(l, top, viewport) = {p \in PagesOf(l) : p >= first /\ p < lo}
  BY <1>5, <1>6 DEF VisiblePages
<1>8. {p \in PagesOf(l) : p >= first /\ p < lo} = first .. lo - 1
  BY <1>2, <1>4 DEF PagesOf
<1>9. ResultMatches'
  BY <1>1, <1>7, <1>8 DEF ResultMatches
<1> QED
  BY <1>1, <1>9 DEF QueryInv, BracketType, Bracket, FirstInv

(* The end of page_at's loop: the first page that owns the position, or    *)
(* the last page when none does.                                           *)
LEMMA OwnerFoundInv == ASSUME IInv, OwnerFound PROVE IInv'
<1> USE DEF IInv
<1>1. /\ l' = l /\ top' = top /\ viewport' = viewport /\ call' = call
      /\ lo' = lo /\ hi' = hi /\ search' = "done"
      /\ search = "owner" /\ call = "page_at" /\ found' = {Lesser(lo, l.n - 1)}
  BY DEF OwnerFound, query, QueryInv
<1>2. /\ Ordered(l) /\ l.n \in Nat /\ lo \in Nat /\ hi \in Nat
      /\ lo = hi /\ hi <= l.n /\ top \in Int /\ l.n > 0 /\ top >= 0
  BY <1>1, QueryFacts DEF OwnerFound, Searching, Bracket, BracketType
<1>3. \A p \in PagesOf(l) : Past("owner", p) <=> p < lo
  BY <1>1, <1>2 DEF Bracket, PagesOf
<1> DEFINE owners == {p \in PagesOf(l) : Bottom(l, p) + l.gap > top}
<1>4. \A p : p \in owners <=> p \in PagesOf(l) /\ p >= lo
  <2>1. ASSUME NEW p \in PagesOf(l)
        PROVE  Bottom(l, p) + l.gap > top <=> p >= lo
    <3>1. Bottom(l, p) \in Nat /\ l.gap \in Nat
      BY <1>2, PageFacts
    <3>2. p \in Int
      BY <1>2 DEF PagesOf
    <3>3. Bottom(l, p) + l.gap <= top <=> p < lo
      BY <1>3, PastCases
    <3> QED
      BY <1>2, <3>1, <3>2, <3>3
  <2> QED
    BY <2>1
<1>5. PageAt(l, top) = IF owners = {} THEN l.n - 1
                       ELSE CHOOSE p \in owners : \A q \in owners : p <= q
  BY <1>2 DEF PageAt
<1>6. PageAt(l, top) = Lesser(lo, l.n - 1)
  <2> HIDE DEF owners
  <2>1. CASE lo = l.n
    <3>1. \A p \in PagesOf(l) : ~(p >= lo)
      BY <1>2, <2>1 DEF PagesOf
    <3>2. owners = {}
      BY <1>4, <3>1
    <3> QED
      BY <1>2, <1>5, <2>1, <3>2 DEF Lesser
  <2>2. CASE lo < l.n
    <3>1. lo \in owners /\ \A q \in owners : lo <= q
      BY <1>2, <1>4, <2>2 DEF PagesOf
    <3>2. \A p \in owners : (\A q \in owners : p <= q) => p = lo
      BY <1>2, <1>4, <3>1 DEF PagesOf
    <3>3. (CHOOSE p \in owners : \A q \in owners : p <= q) = lo
      BY <3>1, <3>2
    <3>4. PageAt(l, top) = lo
      BY <1>5, <3>1, <3>3
    <3>5. Lesser(lo, l.n - 1) = lo
      BY <1>2, <2>2 DEF Lesser
    <3> QED
      BY <3>4, <3>5
  <2> QED
    BY <1>2, <2>1, <2>2
<1>7. ResultMatches'
  BY <1>1, <1>6 DEF ResultMatches
<1> QED
  BY <1>1, <1>7 DEF QueryInv, BracketType, Bracket, FirstInv

(* The invariant of the searches.                                          *)
THEOREM SearchInvariant == Spec => []IInv
<1>1. IInv /\ [Next]_vars => IInv'
  <2> SUFFICES ASSUME IInv, [Next]_vars PROVE IInv'
    OBVIOUS
  <2>1. CASE UNCHANGED vars
    BY <2>1 DEF IInv, vars, QueryInv, BracketType, Bracket, FirstInv, ResultMatches, Past,
                Bottom
  <2> QED
    BY <2>1, TrivialInv, ProbeInv, FirstFoundInv, LastFoundInv, OwnerFoundInv DEF Next
<1> QED
  BY <1>1, InitInv, PTL DEF Spec

(* Bracket holds for every document: no probe reads past the arrays, and   *)
(* the page sought is never cut off.                                       *)
THEOREM BracketAlways == Spec => []Bracket
<1>1. IInv => Bracket
  BY DEF IInv
<1> QED
  BY <1>1, SearchInvariant, PTL

(* ResultMatches holds for every document, window and position.            *)
THEOREM SearchesCorrect == Spec => []ResultMatches
<1>1. IInv => ResultMatches
  BY DEF IInv
<1> QED
  BY <1>1, SearchInvariant, PTL

-----------------------------------------------------------------------------
(* The ids of pages.                                                       *)

(* The base leaves the upper half of u32 to the pages.                     *)
LEMMA BaseInLowerHalf ==
    ASSUME NEW h \in U32 PROVE StableKittyId(h) \in 1 .. Half - 1
<1>1. h % Half \in 0 .. Half - 1
  BY HalfAssumption DEF U32
<1> QED
  BY <1>1, HalfAssumption DEF StableKittyId, AtLeastOne

(* So the sum never overflows, and the folded branch is never taken.       *)
LEMMA NeverFolded ==
    ASSUME NEW h \in U32, NEW page \in RealisticPages
    PROVE  /\ IdFor(StableKittyId(h), page) = StableKittyId(h) + 1 + page
           /\ IdFor(StableKittyId(h), page) \in U32 \ {0}
<1>1. StableKittyId(h) \in 1 .. Half - 1
  BY BaseInLowerHalf
<1> QED
  BY <1>1, HalfAssumption DEF IdFor, RealisticPages, U32

(* The claim of stable_kitty_id's comment that "id_for(p) = id_base + 1 +  *)
(* p cannot wrap past u32::MAX", and what it is for: IdsDistinct always.   *)
THEOREM IdsAlwaysDistinct == IdSpec => []IdsDistinct
<1>1. AnyHash /\ [UNCHANGED hash]_hash => AnyHash'
  BY DEF AnyHash
<1>2. AnyHash => IdsDistinct
  <2> SUFFICES ASSUME AnyHash, NEW p \in RealisticPages, NEW q \in RealisticPages
               PROVE  LET id(page) == IdFor(StableKittyId(hash), page)
                      IN  id(p) \in U32 \ {0} /\ (id(p) = id(q) => p = q)
    BY DEF IdsDistinct
  <2>1. hash \in U32
    BY DEF AnyHash
  <2>2. StableKittyId(hash) \in 1 .. Half - 1
    BY <2>1, BaseInLowerHalf
  <2>3. /\ IdFor(StableKittyId(hash), p) = StableKittyId(hash) + 1 + p
        /\ IdFor(StableKittyId(hash), q) = StableKittyId(hash) + 1 + q
        /\ IdFor(StableKittyId(hash), p) \in U32 \ {0}
    BY <2>1, NeverFolded
  <2> QED
    BY <2>2, <2>3 DEF RealisticPages
<1> QED
  BY <1>1, <1>2, PTL DEF IdSpec

-----------------------------------------------------------------------------
(* The transmits that a frame puts off.                                    *)

(* A frame puts off no page that the terminal has nothing for, sends as    *)
(* many as its budget allows, and puts off the farthest                    *)
(* (plan_transmit_deferrals in ui.rs), for any number of pages in view.    *)
THEOREM DeferralsAlwaysRight == MCSpec => []DeferralsRight
<1> DEFINE FrameInv == frame.need \in SUBSET Slots /\ frame.current \in Int
<1>1. MCInit => FrameInv
  <2> SUFFICES ASSUME MCInit
               PROVE  FrameInv
    OBVIOUS
  <2>1. CASE frame \in Frames
    BY <2>1, SizesAssumption DEF Frames, Slots
  <2>2. CASE NoFrame
    BY <2>2 DEF NoFrame, NoNeed
  <2> QED
    BY <2>1, <2>2 DEF MCInit
<1>2. FrameInv /\ [MCNext]_<<part, vars, frame, hash, textPage, linkCount, indexVars, placeVars>> => FrameInv'
  BY DEF MCNext
<1>3. FrameInv => DeferralsRight
  <2> SUFFICES ASSUME FrameInv
               PROVE  DeferralsRight
    OBVIOUS
  <2>1. Slots \subseteq Int /\ IsFiniteSet(Slots)
    BY SizesAssumption, FS_Interval DEF Slots
  <2>2. frame.need \subseteq Int /\ IsFiniteSet(frame.need) /\ frame.current \in Int
    BY <2>1, FS_Subset
  <2> QED
    BY <2>2, DeferralsAre DEF DeferralsRight, Put
<1> QED
  BY <1>1, <1>2, <1>3, PTL DEF MCSpec

-----------------------------------------------------------------------------
(* The labels of link hints.                                               *)

LEMMA Division ==
    ASSUME NEW k \in Nat, NEW a \in Nat \ {0}
    PROVE  k \div a \in Nat /\ k % a \in 0 .. a - 1 /\ k = a * (k \div a) + (k % a)
OBVIOUS

LEMMA Divided ==
    ASSUME NEW q \in Nat, NEW a \in Nat \ {0}, NEW r \in 0 .. a - 1
    PROVE  (q * a + r) \div a = q
OBVIOUS

LEMMA MoreTimes ==
    ASSUME NEW i \in Nat, NEW j \in Nat, i <= j, NEW a \in Nat
    PROVE  i * a <= j * a
<1>1. (j - i) * a \in Nat
  <2>1. j - i \in Nat
    OBVIOUS
  <2> QED
    BY <2>1, Product
<1>2. (j - i) * a = j * a - i * a
  OBVIOUS
<1>3. i * a \in Nat /\ j * a \in Nat
  BY Product
<1> QED
  BY <1>1, <1>2, <1>3

(* As many prefixes as it takes, and not one more.                         *)
LEMMA PrefixesAre ==
    ASSUME NEW n \in Nat, AlphabetSize < n, n <= AlphabetSize * AlphabetSize
    PROVE  LET p == PrefixCount(n)
           IN  /\ p \in 1 .. AlphabetSize
               /\ (AlphabetSize - p) + p * AlphabetSize >= n
               /\ (AlphabetSize - (p - 1)) + (p - 1) * AlphabetSize < n
<1> DEFINE a == AlphabetSize
           Fits(x) == (a - x) + x * a >= n
           S == {x \in 1 .. a : Fits(x)} \cup {a}
           p == Min(S)
<1>1. a \in Nat /\ a > 1
  BY AlphabetAssumption
<1>2. S \subseteq Nat /\ S # {}
  BY <1>1
<1>3. p \in S /\ \A x \in S : p <= x
  <2> HIDE DEF S
  <2> QED
    BY <1>2, MinIs
<1>4. p \in 1 .. a /\ Fits(p)
  <2>1. Fits(a) /\ a \in 1 .. a
    BY <1>1
  <2> HIDE DEF Fits, a, p
  <2> QED
    BY <1>3, <2>1
<1>5. ~ Fits(p - 1)
  <2>1. CASE p = 1
    <3>1. (a - 0) + 0 * a = a
      BY <1>1
    <3> HIDE DEF p
    <3> QED
      BY <1>1, <2>1, <3>1
  <2>2. CASE p # 1
    <3>1. p - 1 \in 1 .. a /\ ~ (p <= p - 1)
      <4> HIDE DEF p, Fits
      <4> QED
        BY <1>1, <1>4, <2>2
    <3> HIDE DEF Fits, a, p
    <3> QED
      BY <1>3, <3>1
  <2> QED
    BY <2>1, <2>2
<1>6. (a - (p - 1)) + (p - 1) * a \in Int
  <2> HIDE DEF p
  <2>1. p - 1 \in Nat
    BY <1>1, <1>4
  <2>2. (p - 1) * a \in Nat
    BY <1>1, <2>1, Product
  <2> QED
    BY <1>1, <2>1, <2>2
<1>7. PrefixCount(n) = p
  BY DEF PrefixCount
<1> HIDE DEF p
<1> QED
  BY <1>4, <1>5, <1>6, <1>7

(* With more links than letters: the first `single` labels have one letter *)
(* each, and the others a prefix that is no label and a second letter.     *)
LEMMA LabelsAre ==
    ASSUME NEW n \in Nat, AlphabetSize < n, n <= AlphabetSize * AlphabetSize
    PROVE  LET single == AlphabetSize - PrefixCount(n)
           IN  /\ single \in Nat
               /\ DOMAIN HintLabels(n) = 1 .. n
               /\ \A i \in 1 .. n :
                     HintLabels(n)[i] =
                       IF i <= single THEN <<i>>
                       ELSE <<single + 1 + ((i - single - 1) \div AlphabetSize),
                              1 + ((i - single - 1) % AlphabetSize)>>
<1> DEFINE a == AlphabetSize
           p == PrefixCount(n)
           single == a - p
           m == single + (a - single) * a
           Double(k) == <<single + 1 + (k \div a), 1 + (k % a)>>
           all == [i \in 1 .. m |-> IF i <= single THEN <<i>> ELSE Double(i - single - 1)]
<1>1. a \in Nat /\ a > 1
  BY AlphabetAssumption
<1>2. p \in 1 .. a /\ (a - p) + p * a >= n
  BY PrefixesAre
<1> HIDE DEF p
<1>3. single \in Nat /\ a - single = p
  BY <1>1, <1>2
<1>4. m \in Nat /\ m >= n
  <2>1. p * a \in Nat
    BY <1>1, <1>2, Product
  <2>2. m = single + p * a
    BY <1>3
  <2> HIDE DEF m
  <2> QED
    BY <1>2, <1>3, <2>1, <2>2
<1> HIDE DEF m
<1>5. all \in Seq(Seq(Int)) /\ Len(all) = m
  <2>1. ASSUME NEW i \in 1 .. m, ~ (i <= single) PROVE Double(i - single - 1) \in Seq(Int)
    <3>1. i - single - 1 \in Nat
      BY <1>3, <1>4, <2>1
    <3>2. (i - single - 1) \div a \in Int /\ (i - single - 1) % a \in Int
      BY <1>1, <3>1, Division, SMTT(30)
    <3> HIDE DEF single
    <3> QED
      BY <1>3, <3>2
  <2> HIDE DEF Double
  <2>2. ASSUME NEW i \in 1 .. m
        PROVE  (IF i <= single THEN <<i>> ELSE Double(i - single - 1)) \in Seq(Int)
    <3>1. <<i>> \in Seq(Int)
      BY <1>4
    <3> QED
      BY <2>1, <3>1
  <2>3. all \in [1 .. m -> Seq(Int)]
    BY <2>2
  <2> HIDE DEF all
  <2> QED
    BY <1>4, <2>3
<1>6. Min({n, Len(all)}) = n
  <2>1. Min({n, m}) = Lesser(n, m)
    BY <1>4, MinOfTwo
  <2> QED
    BY <1>4, <1>5, <2>1 DEF Lesser
<1>7. GenHints(n) = SubSeq(all, 1, Min({n, Len(all)}))
  <2>1. ~ (n <= a)
    BY <1>1
  <2> QED
    BY <2>1 DEF GenHints, p, m
<1>8. Len(GenHints(n)) = n /\ \A i \in 1 .. n : GenHints(n)[i] = all[i]
  <2> HIDE DEF all
  <2>1. GenHints(n) = SubSeq(all, 1, n)
    BY <1>6, <1>7
  <2>2. Len(SubSeq(all, 1, n)) = n /\ \A i \in 1 .. n : SubSeq(all, 1, n)[i] = all[i]
    BY <1>4, <1>5
  <2> QED
    BY <2>1, <2>2
<1>9. \A i \in 1 .. n : HintLabels(n)[i] = all[i]
  <2> HIDE DEF all
  <2> QED
    BY <1>8 DEF HintLabels
<1>10. \A i \in 1 .. n : all[i] = IF i <= single THEN <<i>> ELSE Double(i - single - 1)
  <2> TAKE i \in 1 .. n
  <2>1. i \in 1 .. m
    BY <1>4
  <2> HIDE DEF Double, single
  <2> QED
    BY <2>1
<1>11. DOMAIN HintLabels(n) = 1 .. n
  BY DEF HintLabels
<1> HIDE DEF all
<1> QED
  BY <1>3, <1>9, <1>10, <1>11 DEF p

LEMMA FewLabels ==
    ASSUME NEW n \in Nat, n <= AlphabetSize
    PROVE  HintLabels(n) = [i \in 1 .. n |-> <<i>>]
<1>1. GenHints(n) = [i \in 1 .. n |-> <<i>>]
  BY DEF GenHints
<1>2. Len([i \in 1 .. n |-> <<i>>]) = n
  OBVIOUS
<1> QED
  BY <1>1, <1>2 DEF HintLabels

(* What one and two letters pick.                                          *)
LEMMA FirstOf ==
    ASSUME NEW s \in Seq(Int), Len(s) >= 1
    PROVE  SubSeq(s, 1, 1) = <<s[1]>>
<1> DEFINE t == SubSeq(s, 1, 1)
<1>1. t \in Seq(Int) /\ Len(t) = 1 /\ t[1] = s[1]
  OBVIOUS
<1> HIDE DEF t
<1>2. t = <<t[1]>>
  BY <1>1
<1> QED
  BY <1>1, <1>2 DEF t

LEMMA Starts ==
    /\ \A u, v \in Int : StartsWith(<<u>>, <<v>>) <=> u = v
    /\ \A u, v, w \in Int : /\ StartsWith(<<u, v>>, <<w>>) <=> u = w
                            /\ ~ StartsWith(<<w>>, <<u, v>>)
    /\ \A u, v, w, x \in Int : StartsWith(<<u, v>>, <<w, x>>) <=> u = w /\ v = x
<1>1. \A s \in Seq(Int) : Len(s) >= 1 => SubSeq(s, 1, 1) = <<s[1]>>
  BY FirstOf
<1>2. \A s \in Seq(Int) : Len(s) >= 2 => SubSeq(s, 1, 2) = <<s[1], s[2]>>
  <2> TAKE s \in Seq(Int)
  <2> HAVE Len(s) >= 2
  <2> DEFINE t == SubSeq(s, 1, 2)
  <2>1. t \in Seq(Int) /\ Len(t) = 2 /\ t[1] = s[1] /\ t[2] = s[2]
    OBVIOUS
  <2> HIDE DEF t
  <2>2. t = <<t[1], t[2]>>
    BY <2>1
  <2> QED
    BY <2>1, <2>2 DEF t
<1>3. ASSUME NEW u \in Int, NEW v \in Int PROVE StartsWith(<<u>>, <<v>>) <=> u = v
  <2> DEFINE s == <<u>>
             t == <<v>>
  <2>1. s \in Seq(Int) /\ Len(s) = 1 /\ s = <<s[1]>> /\ Len(t) = 1
    OBVIOUS
  <2>2. s = t <=> u = v
    OBVIOUS
  <2> HIDE DEF s, t
  <2>3. SubSeq(s, 1, 1) = s
    BY <1>1, <2>1
  <2>4. StartsWith(s, t) <=> u = v
    BY <2>1, <2>2, <2>3 DEF StartsWith
  <2> QED
    BY <2>4 DEF s, t
<1>4. ASSUME NEW u \in Int, NEW v \in Int, NEW w \in Int
      PROVE  (StartsWith(<<u, v>>, <<w>>) <=> u = w) /\ ~ StartsWith(<<w>>, <<u, v>>)
  <2> DEFINE s == <<u, v>>
             t == <<w>>
             f == <<u>>
  <2>1. s \in Seq(Int) /\ Len(s) = 2 /\ f = <<s[1]>> /\ Len(t) = 1
    OBVIOUS
  <2>2. f = t <=> u = w
    OBVIOUS
  <2> HIDE DEF s, t, f
  <2>3. SubSeq(s, 1, 1) = f
    BY <1>1, <2>1
  <2>4. (StartsWith(s, t) <=> u = w) /\ ~ StartsWith(t, s)
    BY <2>1, <2>2, <2>3 DEF StartsWith
  <2> QED
    BY <2>4 DEF s, t
<1>5. ASSUME NEW u \in Int, NEW v \in Int, NEW w \in Int, NEW x \in Int
      PROVE  StartsWith(<<u, v>>, <<w, x>>) <=> u = w /\ v = x
  <2> DEFINE s == <<u, v>>
             t == <<w, x>>
  <2>1. s \in Seq(Int) /\ Len(s) = 2 /\ s = <<s[1], s[2]>> /\ Len(t) = 2
    OBVIOUS
  <2>2. s = t <=> (u = w /\ v = x)
    OBVIOUS
  <2> HIDE DEF s, t
  <2>3. SubSeq(s, 1, 2) = s
    BY <1>2, <2>1
  <2>4. StartsWith(s, t) <=> (u = w /\ v = x)
    BY <2>1, <2>2, <2>3, SMTT(30) DEF StartsWith
  <2> QED
    BY <2>4 DEF s, t
<1> QED
  BY <1>3, <1>4, <1>5

LEMMA MoreThanOne ==
    ASSUME NEW S, IsFiniteSet(S), NEW i \in S, NEW j \in S, i # j
    PROVE  Cardinality(S) > 1
<1>1. {i, j} \in SUBSET S /\ IsFiniteSet({i, j}) /\ Cardinality({i, j}) = 2
  <2>1. IsFiniteSet({i}) /\ Cardinality({i}) = 1 /\ j \notin {i} /\ {i, j} = {i} \cup {j}
    BY FS_Singleton
  <2> QED
    BY <2>1, FS_AddElement
<1>2. Cardinality({i, j}) <= Cardinality(S)
  BY <1>1, FS_Subset
<1>3. Cardinality(S) \in Nat
  BY FS_CardinalityType
<1> QED
  BY <1>1, <1>2, <1>3

(* With labels enough for n links, a label picks its link with the last    *)
(* letter and not before (gen_hints in links.rs).                          *)
LEMMA LabelsAreChoosable ==
    ASSUME NEW n \in Nat
    PROVE  LabelsChoosable(n)
<1> DEFINE a == AlphabetSize
           labels == HintLabels(n)
<1>0. a \in Nat /\ a > 1
  BY AlphabetAssumption
<1> SUFFICES ASSUME n <= a * a, NEW i \in DOMAIN labels
             PROVE  /\ HintMatches(labels, labels[i]) = {i}
                    /\ \A k \in 1 .. Len(labels[i]) - 1 :
                          Cardinality(HintMatches(labels, SubSeq(labels[i], 1, k))) > 1
  BY DEF LabelsChoosable
<1>1. CASE n <= a
  <2>1. labels = [j \in 1 .. n |-> <<j>>]
    BY <1>1, FewLabels
  <2>2. i \in 1 .. n /\ DOMAIN labels = 1 .. n /\ \A j \in 1 .. n : labels[j] = <<j>>
    BY <2>1
  <2> HIDE DEF labels
  <2>3. \A j \in 1 .. n : StartsWith(labels[j], labels[i]) <=> j = i
    <3> TAKE j \in 1 .. n
    <3>1. labels[i] = <<i>> /\ labels[j] = <<j>>
      BY <2>2
    <3>2. i \in Int /\ j \in Int
      BY <2>2
    <3>3. StartsWith(<<j>>, <<i>>) <=> j = i
      BY <3>2, Starts
    <3> QED
      BY <3>1, <3>3
  <2>4. HintMatches(labels, labels[i]) = {i}
    BY <2>2, <2>3 DEF HintMatches
  <2>5. Len(labels[i]) = 1
    <3>1. labels[i] = <<i>>
      BY <2>2
    <3>2. Len(<<i>>) = 1
      OBVIOUS
    <3> QED
      BY <3>1, <3>2
  <2> QED
    BY <2>4, <2>5
<1>2. CASE n > a
  <2> DEFINE p == PrefixCount(n)
             single == a - p
             First(j) == single + 1 + ((j - single - 1) \div a)
             Second(j) == 1 + ((j - single - 1) % a)
  <2>1. /\ p \in 1 .. a
        /\ (a - p) + p * a >= n
        /\ (a - (p - 1)) + (p - 1) * a < n
    BY <1>2, PrefixesAre
  <2>2. /\ DOMAIN labels = 1 .. n
        /\ \A j \in 1 .. n : labels[j] = IF j <= single THEN <<j>> ELSE <<First(j), Second(j)>>
    BY <1>2, LabelsAre
  <2> HIDE DEF p, labels
  <2>3. single \in Nat /\ p = a - single /\ p - 1 \in Nat
    BY <1>0, <2>1
  <2>4. ASSUME NEW j \in 1 .. n, ~ (j <= single)
        PROVE  /\ (j - single - 1) \in Nat
               /\ First(j) \in Nat /\ First(j) > single /\ Second(j) \in 1 .. a
               /\ j - single - 1 = a * (First(j) - single - 1) + (Second(j) - 1)
    <3> DEFINE k == j - single - 1
               q == k \div a
               r == k % a
    <3>1. k \in Nat
      BY <2>3, <2>4
    <3> HIDE DEF k
    <3>2. q \in Nat /\ r \in 0 .. a - 1 /\ k = a * q + r
      <4> HIDE DEF a
      <4>1. a \in Nat \ {0}
        BY <1>0
      <4> QED
        BY <3>1, <4>1, Division
    <3>3. First(j) = single + 1 + q /\ Second(j) = 1 + r
      BY DEF k
    <3> HIDE DEF q, r, First, Second, single
    <3>4. First(j) - single - 1 = q /\ Second(j) - 1 = r
      BY <1>0, <2>3, <3>2, <3>3
    <3> QED
      BY <1>0, <2>3, <3>1, <3>2, <3>3, <3>4 DEF k
  <2> HIDE DEF First, Second
  <2>5. \A j \in 1 .. n : StartsWith(labels[j], labels[i]) <=> j = i
    <3> TAKE j \in 1 .. n
    <3>0. i \in 1 .. n /\ i \in Int /\ j \in Int
      BY <2>2
    <3>1. CASE i <= single /\ j <= single
      BY <2>2, <3>0, <3>1, Starts
    <3>2. CASE i <= single /\ ~ (j <= single)
      <4>1. labels[i] = <<i>> /\ labels[j] = <<First(j), Second(j)>>
        BY <2>2, <3>0, <3>2
      <4>2. First(j) \in Int /\ Second(j) \in Int /\ First(j) # i
        BY <1>0, <2>3, <2>4, <3>0, <3>2
      <4> QED
        BY <3>0, <3>2, <4>1, <4>2, Starts
    <3>3. CASE ~ (i <= single) /\ j <= single
      <4>1. labels[j] = <<j>> /\ labels[i] = <<First(i), Second(i)>>
        BY <2>2, <3>0, <3>3
      <4>2. First(i) \in Int /\ Second(i) \in Int
        BY <1>0, <2>4, <3>0, <3>3
      <4> QED
        BY <3>0, <3>3, <4>1, <4>2, Starts
    <3>4. CASE ~ (i <= single) /\ ~ (j <= single)
      <4>1. labels[j] = <<First(j), Second(j)>> /\ labels[i] = <<First(i), Second(i)>>
        BY <2>2, <3>0, <3>4
      <4>2. /\ First(i) \in Int /\ Second(i) \in Int /\ First(j) \in Int /\ Second(j) \in Int
            /\ i - single - 1 = a * (First(i) - single - 1) + (Second(i) - 1)
            /\ j - single - 1 = a * (First(j) - single - 1) + (Second(j) - 1)
        BY <1>0, <2>4, <3>0, <3>4
      <4>3. First(i) = First(j) /\ Second(i) = Second(j) => i = j
        <5> HAVE First(i) = First(j) /\ Second(i) = Second(j)
        <5>1. i - single - 1 = j - single - 1
          BY <4>2
        <5> QED
          BY <2>3, <3>0, <5>1
      <4>4. StartsWith(labels[j], labels[i]) <=> (First(j) = First(i) /\ Second(j) = Second(i))
        BY <4>1, <4>2, Starts
      <4> QED
        BY <4>3, <4>4
    <3> QED
      BY <3>1, <3>2, <3>3, <3>4
  <2>6. HintMatches(labels, labels[i]) = {i}
    BY <2>2, <2>5 DEF HintMatches
  <2>7. ASSUME NEW k \in 1 .. Len(labels[i]) - 1
        PROVE  Cardinality(HintMatches(labels, SubSeq(labels[i], 1, k))) > 1
    <3>0. i \in 1 .. n
      BY <2>2
    <3>1. ~ (i <= single)
      <4> SUFFICES ASSUME i <= single PROVE FALSE
        OBVIOUS
      <4>1. labels[i] = <<i>>
        BY <2>2, <3>0
      <4>2. Len(labels[i]) = 1
        BY <4>1
      <4> QED
        BY <4>2
    <3>2. /\ First(i) \in Nat /\ First(i) > single /\ Second(i) \in 1 .. a
          /\ i - single - 1 = a * (First(i) - single - 1) + (Second(i) - 1)
      BY <2>4, <3>0, <3>1
    <3>3. labels[i] = <<First(i), Second(i)>>
      BY <2>2, <3>0, <3>1
    <3> DEFINE q == First(i) - single - 1
               b == q * a
               u == b + single + 1
               v == b + single + 2
    <3>4. k = 1 /\ SubSeq(labels[i], 1, k) = <<First(i)>>
      <4> DEFINE f == First(i)
                 g == Second(i)
                 s == <<f, g>>
      <4>1. f \in Int /\ g \in Int
        BY <1>0, <3>2
      <4> HIDE DEF f, g
      <4>2. Len(s) = 2 /\ s \in Seq(Int) /\ s[1] = f
        BY <4>1
      <4> HIDE DEF s
      <4>3. labels[i] = s
        BY <3>3 DEF s, f, g
      <4>4. k = 1
        <5>1. Len(labels[i]) = 2
          BY <4>2, <4>3
        <5>2. k \in 1 .. Len(labels[i]) - 1
          OBVIOUS
        <5>3. k \in 1 .. 2 - 1
          BY <5>1, <5>2
        <5> QED
          BY <5>3
      <4>5. SubSeq(s, 1, 1) = <<f>>
        BY <4>2, FirstOf
      <4> QED
        BY <4>3, <4>4, <4>5 DEF f
    <3>5. q \in Nat /\ b \in Nat /\ b <= (p - 1) * a
      <4>1. q \in Nat
        BY <2>3, <3>2
      <4>2. q <= p - 1
        <5> SUFFICES ASSUME p <= q PROVE FALSE
          BY <2>1, <4>1
        <5>1. p * a <= q * a
          BY <1>0, <2>1, <4>1, MoreTimes
        <5>2. i - single - 1 >= q * a
          <6> DEFINE d == Second(i) - 1
          <6>1. d \in Nat /\ i - single - 1 = a * q + d
            BY <1>0, <3>2
          <6> HIDE DEF d, q
          <6>2. a * q = q * a /\ a * q \in Nat
            BY <1>0, <4>1, Product
          <6> QED
            BY <6>1, <6>2
        <5>3. p * a \in Nat /\ q * a \in Nat /\ i <= n
          BY <1>0, <2>1, <3>0, <4>1, Product
        <5> HIDE DEF q
        <5>4. i - single - 1 >= p * a
          BY <3>0, <2>3, <5>1, <5>2, <5>3
        <5> QED
          BY <2>1, <3>0, <2>3, <5>3, <5>4
      <4> HIDE DEF q
      <4>3. b <= (p - 1) * a
        BY <1>0, <2>3, <4>1, <4>2, MoreTimes
      <4>4. b \in Nat
        BY <1>0, <4>1, Product
      <4> QED
        BY <4>1, <4>3, <4>4
    <3>6. u \in 1 .. n /\ v \in 1 .. n /\ ~ (u <= single) /\ ~ (v <= single) /\ u # v
      <4>1. (p - 1) * a \in Nat
        BY <1>0, <2>3, Product
      <4> DEFINE c == (p - 1) * a
      <4>2. c \in Nat /\ single + 1 + c < n /\ b <= c
        <5>1. (a - (p - 1)) + c < n /\ a - (p - 1) = single + 1
          BY <1>0, <2>1, <2>3
        <5> HIDE DEF c, single, p
        <5> QED
          BY <3>5, <4>1, <5>1 DEF c
      <4> HIDE DEF c, b, single
      <4> QED
        BY <2>3, <3>5, <4>2
    <3>7. First(u) = First(i) /\ First(v) = First(i)
      <4> HIDE DEF b
      <4>1. u - single - 1 = b + 0 /\ v - single - 1 = b + 1
        BY <2>3, <3>5, SMTT(30)
      <4> HIDE DEF q, u, v
      <4>2. 0 \in 0 .. a - 1 /\ 1 \in 0 .. a - 1 /\ a \in Nat \ {0}
        BY <1>0
      <4>3. (q * a + 0) \div a = q /\ (q * a + 1) \div a = q
        BY <3>5, <4>2, Divided
      <4>4. First(u) = single + 1 + q /\ First(v) = single + 1 + q
        BY <4>1, <4>3 DEF First, b
      <4>5. First(i) = single + 1 + q
        BY <2>3, <3>2 DEF q
      <4> QED
        BY <4>4, <4>5
    <3> DEFINE matches == HintMatches(labels, <<First(i)>>)
    <3>8. ASSUME NEW j \in 1 .. n, ~ (j <= single), First(j) = First(i) PROVE j \in matches
      <4>1. labels[j] = <<First(j), Second(j)>>
        BY <2>2, <3>8
      <4>2. First(j) \in Int /\ Second(j) \in Int /\ First(i) \in Int
        BY <1>0, <2>4, <3>2, <3>8
      <4>3. StartsWith(labels[j], <<First(i)>>)
        BY <3>8, <4>1, <4>2, Starts
      <4> QED
        BY <2>2, <4>3 DEF HintMatches
    <3>9. u \in matches /\ v \in matches /\ u # v
      <4> HIDE DEF u, v, matches
      <4> QED
        BY <3>6, <3>7, <3>8
    <3>10. IsFiniteSet(matches)
      <4>1. matches \in SUBSET (1 .. n) /\ IsFiniteSet(1 .. n)
        BY <2>2, FS_Interval DEF HintMatches
      <4> QED
        BY <4>1, FS_Subset
    <3> HIDE DEF matches, u, v
    <3>11. Cardinality(matches) > 1
      BY <3>9, <3>10, MoreThanOne
    <3> QED
      BY <3>4, <3>11 DEF matches
  <2> QED
    BY <2>6, <2>7
<1> QED
  BY <1>0, <1>1, <1>2

(* Every label that link-hint mode shows can be typed, and picks its link  *)
(* with its last letter, for any alphabet and any number of links that it  *)
(* has labels for.                                                         *)
THEOREM HintsAlwaysChoosable == MCSpec => []HintsChoosable
<1> DEFINE CountInv == linkCount \in Nat
<1>1. MCInit => CountInv
  BY SizesAssumption DEF MCInit, NoLinks
<1>2. CountInv /\ [MCNext]_<<part, vars, frame, hash, textPage, linkCount, indexVars, placeVars>> => CountInv'
  BY DEF MCNext
<1>3. CountInv => HintsChoosable
  BY LabelsAreChoosable DEF HintsChoosable
<1> QED
  BY <1>1, <1>2, <1>3, PTL DEF MCSpec

-----------------------------------------------------------------------------
(* The caret motions and the text objects of a page.                       *)

LEMMA TextFacts ==
    ASSUME NEW pt, IsPageText(pt)
    PROVE  /\ LastCaret(pt) \in Nat /\ Carets(pt) = 1 .. LastCaret(pt)
           /\ Lines(pt) \subseteq Nat
           /\ \A i \in Carets(pt) : pt.line[i] \in Lines(pt)
           /\ \A m \in Lines(pt) : 0 .. m \subseteq Lines(pt)
           /\ \A m \in Lines(pt) : \E i \in Carets(pt) : pt.line[i] = m
           /\ \A i \in Carets(pt) :
                 /\ pt.chars[i].x \in Nat /\ pt.chars[i].y \in Nat
                 /\ pt.chars[i].w \in Nat /\ pt.chars[i].h \in Nat
<1>1. /\ LastCaret(pt) \in Nat /\ Carets(pt) = 1 .. LastCaret(pt)
      /\ DOMAIN pt.line = Carets(pt)
      /\ \A m \in Lines(pt) : m \in Nat /\ 0 .. m \subseteq Lines(pt)
  BY DEF IsPageText, LastCaret
<1>2. Lines(pt) = {pt.line[i] : i \in Carets(pt)}
  BY <1>1 DEF Lines, Range
<1>3. ASSUME NEW i \in Carets(pt)
      PROVE  /\ pt.chars[i].x \in Nat /\ pt.chars[i].y \in Nat
             /\ pt.chars[i].w \in Nat /\ pt.chars[i].h \in Nat
  BY DEF IsPageText
<1> QED
  BY <1>1, <1>2, <1>3

LEMMA LeastCaret ==
    ASSUME NEW pt, IsPageText(pt), NEW S, S \subseteq Carets(pt), S # {}
    PROVE  /\ Min(S) \in S /\ \A i \in S : Min(S) <= i
           /\ Max(S) \in S /\ \A i \in S : Max(S) >= i
<1>1. S \subseteq Nat /\ S \subseteq 0 .. LastCaret(pt) /\ LastCaret(pt) \in Nat
  BY TextFacts
<1> QED
  BY <1>1, MinIs, MaxIs

(* The words of a page, each on its line.                                  *)
LEMMA WordsAre ==
    ASSUME NEW pt, IsPageText(pt)
    PROVE  /\ \A m, w : w \in WordStarts(pt, m) => w \in Carets(pt) /\ pt.line[w] = m
           /\ \A w : w \in UNION {WordStarts(pt, m) : m \in Lines(pt)}
                 <=> w \in Carets(pt) /\ w \in WordStarts(pt, pt.line[w])
<1>1. \A m, w : w \in WordStarts(pt, m) => w \in Carets(pt) /\ pt.line[w] = m
  BY DEF WordStarts, OnLine
<1>2. \A w \in Carets(pt) : pt.line[w] \in Lines(pt)
  BY TextFacts
<1> QED
  BY <1>1, <1>2

(* The step of `w` from one word to the next, and of `b` back.             *)
LEMMA WordSteps ==
    ASSUME NEW pt, IsPageText(pt),
           NEW words, words = UNION {WordStarts(pt, m) : m \in Lines(pt)},
           NEW s \in words, NEW after,
           after = {t \in words : pt.line[s] < pt.line[t] \/ (pt.line[s] = pt.line[t] /\ s < t)},
           after # {}
    PROVE  LET n == NextWordStart(pt, s)
           IN  /\ n \in after
               /\ \A t \in after : ~ (pt.line[t] < pt.line[n] \/ (pt.line[t] = pt.line[n] /\ t < n))
               /\ PrevWordStart(pt, n) = s
<1> DEFINE n == NextWordStart(pt, s)
           On(m) == WordStarts(pt, m)
           rest == {w \in On(pt.line[s]) : w > s}
           below == {m \in Lines(pt) : m > pt.line[s] /\ On(m) # {}}
           past == {w \in On(pt.line[n]) : w < n}
           above == {m \in Lines(pt) : m < pt.line[n] /\ On(m) # {}}
<1>1. /\ n = IF rest # {} THEN Min(rest) ELSE IF below # {} THEN Min(On(Min(below))) ELSE LastCaret(pt)
      /\ PrevWordStart(pt, n) = IF past # {} THEN Max(past)
                                ELSE IF above # {} THEN Max(On(Max(above))) ELSE 1
  BY DEF NextWordStart, PrevWordStart
<1> HIDE DEF n
<1>2. /\ \A m, w : w \in On(m) => w \in Carets(pt) /\ pt.line[w] = m
      /\ \A w : w \in words <=> w \in Carets(pt) /\ w \in On(pt.line[w])
  BY WordsAre
<1>3. /\ Carets(pt) \subseteq Nat /\ Lines(pt) \subseteq Nat
      /\ \A w \in Carets(pt) : pt.line[w] \in Lines(pt)
  BY TextFacts
<1> HIDE DEF On
<1>4. s \in Carets(pt) /\ s \in On(pt.line[s]) /\ s \in Nat /\ pt.line[s] \in Nat
  BY <1>2, <1>3
<1>5. CASE rest # {}
  <2>1. n \in rest /\ \A w \in rest : n <= w
    <3>1. rest \subseteq Carets(pt)
      BY <1>2
    <3> HIDE DEF rest
    <3> QED
      BY <1>1, <1>5, <3>1, LeastCaret
  <2>2. n \in On(pt.line[s]) /\ n > s /\ n \in Carets(pt) /\ pt.line[n] = pt.line[s] /\ n \in Nat
    BY <1>2, <1>3, <2>1
  <2>3. n \in after
    BY <1>2, <2>2
  <2>4. ASSUME NEW t \in after
        PROVE  ~ (pt.line[t] < pt.line[n] \/ (pt.line[t] = pt.line[n] /\ t < n))
    <3>1. t \in Carets(pt) /\ t \in On(pt.line[t]) /\ t \in Nat /\ pt.line[t] \in Nat
      BY <1>2, <1>3
    <3>2. CASE pt.line[s] < pt.line[t]
      BY <1>4, <2>2, <3>1, <3>2
    <3>3. CASE pt.line[s] = pt.line[t] /\ s < t
      <4>1. t \in rest
        BY <3>1, <3>3
      <4> QED
        BY <1>4, <2>1, <2>2, <3>1, <3>3, <4>1
    <3> QED
      BY <3>2, <3>3
  <2>5. PrevWordStart(pt, n) = s
    <3>1. s \in past /\ past \subseteq Carets(pt)
      BY <1>2, <1>4, <2>2
    <3>2. \A w \in past : ~ (w > s)
      <4> TAKE w \in past
      <4>1. w \in On(pt.line[s]) /\ w < n /\ w \in Nat
        BY <1>3, <2>2, <3>1
      <4> QED
        BY <1>4, <2>1, <2>2, <4>1
    <3> HIDE DEF past
    <3>3. Max(past) \in past /\ \A w \in past : Max(past) >= w
      BY <3>1, LeastCaret
    <3>4. Max(past) = s
      <4>1. Max(past) \in Nat /\ Max(past) >= s /\ ~ (Max(past) > s)
        BY <1>3, <3>1, <3>2, <3>3
      <4> QED
        BY <1>4, <4>1
    <3> QED
      BY <1>1, <3>1, <3>4
  <2> QED
    BY <2>3, <2>4, <2>5 DEF n
<1>6. CASE rest = {}
  <2> DEFINE m == Min(below)
  <2>1. ASSUME NEW t \in after
        PROVE  /\ t \in Carets(pt) /\ t \in On(pt.line[t]) /\ t \in Nat /\ pt.line[t] \in Nat
               /\ pt.line[t] > pt.line[s] /\ pt.line[t] \in below
    <3>1. t \in Carets(pt) /\ t \in On(pt.line[t]) /\ t \in Nat /\ pt.line[t] \in Nat
          /\ pt.line[t] \in Lines(pt)
      BY <1>2, <1>3
    <3>2. ~ (pt.line[s] = pt.line[t] /\ s < t)
      BY <1>4, <1>6, <3>1
    <3>3. pt.line[s] < pt.line[t]
      BY <3>2
    <3> QED
      BY <1>4, <3>1, <3>3
  <2>2. m \in below /\ \A k \in below : m <= k
    <3>1. below # {} /\ below \subseteq Nat
      BY <1>3, <2>1
    <3> HIDE DEF below
    <3> QED
      BY <3>1, MinIs
  <2>3. m \in Lines(pt) /\ m \in Nat /\ m > pt.line[s] /\ On(m) # {} /\ below # {}
    BY <1>3, <2>2
  <2>4. n = Min(On(m))
    BY <1>1, <1>6, <2>3
  <2> HIDE DEF m
  <2>5. n \in On(m) /\ \A w \in On(m) : n <= w
    BY <1>2, <2>3, <2>4, LeastCaret
  <2>6. n \in Carets(pt) /\ pt.line[n] = m /\ n \in Nat
    BY <1>2, <1>3, <2>5
  <2>7. n \in after
    BY <1>2, <1>4, <2>3, <2>5, <2>6
  <2>8. ASSUME NEW t \in after
        PROVE  ~ (pt.line[t] < pt.line[n] \/ (pt.line[t] = pt.line[n] /\ t < n))
    <3>1. t \in On(pt.line[t]) /\ t \in Nat /\ pt.line[t] \in Nat /\ m <= pt.line[t]
      BY <2>1, <2>2
    <3>2. pt.line[t] = m => n <= t
      BY <2>5, <3>1
    <3> HIDE DEF below, rest
    <3> QED
      BY <2>3, <2>6, <3>1, <3>2
  <2>9. PrevWordStart(pt, n) = s
    <3>1. past = {}
      <4> SUFFICES ASSUME NEW w \in past PROVE FALSE
        OBVIOUS
      <4>1. w \in On(m) /\ w < n /\ w \in Nat
        BY <1>2, <1>3, <2>6
      <4> QED
        BY <2>5, <2>6, <4>1
    <3>2. pt.line[s] \in above
      BY <1>3, <1>4, <2>3, <2>6
    <3>3. \A k \in above : ~ (k > pt.line[s])
      <4> TAKE k \in above
      <4>1. k \in Lines(pt) /\ k \in Nat /\ k < m /\ On(k) # {}
        BY <1>3, <2>6
      <4>2. k > pt.line[s] => k \in below
        BY <4>1
      <4> HIDE DEF below, above
      <4> QED
        BY <2>2, <2>3, <4>1, <4>2
    <3>4. Max(above) \in above /\ \A k \in above : Max(above) >= k
      <4>1. above \subseteq 0 .. m
        BY <1>3, <2>3, <2>6
      <4> HIDE DEF above
      <4> QED
        BY <2>3, <3>2, <4>1, MaxIs
    <3>5. above \subseteq Nat
      BY <1>3
    <3> HIDE DEF above, past
    <3>6. Max(above) = pt.line[s]
      <4>1. Max(above) \in Nat /\ Max(above) >= pt.line[s] /\ ~ (Max(above) > pt.line[s])
        BY <3>2, <3>3, <3>4, <3>5
      <4> QED
        BY <1>4, <4>1
    <3>7. Max(On(pt.line[s])) = s
      <4>1. \A w \in On(pt.line[s]) : ~ (w > s)
        BY <1>6
      <4>2. /\ Max(On(pt.line[s])) \in On(pt.line[s])
            /\ \A w \in On(pt.line[s]) : Max(On(pt.line[s])) >= w
        BY <1>2, <1>4, LeastCaret
      <4>3. Max(On(pt.line[s])) \in Nat /\ Max(On(pt.line[s])) >= s /\ ~ (Max(On(pt.line[s])) > s)
        BY <1>2, <1>3, <1>4, <4>1, <4>2
      <4> QED
        BY <1>4, <4>3
    <3> QED
      BY <1>1, <3>1, <3>2, <3>6, <3>7
  <2> QED
    BY <2>7, <2>8, <2>9 DEF n
<1> QED
  BY <1>5, <1>6

(* The blanks that SkipBlanks skips, and the run around a character.       *)
LEMMA Skips ==
    ASSUME NEW pt, IsPageText(pt), NEW i \in Carets(pt)
    PROVE  /\ SkipBlanks(pt, i) \in Carets(pt) /\ SkipBlanks(pt, i) >= i
           /\ \A k \in i .. SkipBlanks(pt, i) - 1 : Blank(pt, k)
<1> DEFINE S == {j \in i .. LastCaret(pt) : ~ Blank(pt, j)} \cup {LastCaret(pt)}
<1>1. LastCaret(pt) \in Nat /\ Carets(pt) = 1 .. LastCaret(pt)
  BY TextFacts
<1>2. S \subseteq Carets(pt) /\ S # {} /\ \A j \in S : j >= i
  BY <1>1
<1>3. SkipBlanks(pt, i) = Min(S)
  BY DEF SkipBlanks
<1>4. \A k \in i .. LastCaret(pt) : ~ Blank(pt, k) => k \in S
  OBVIOUS
<1> HIDE DEF S
<1>5. SkipBlanks(pt, i) \in S /\ \A j \in S : SkipBlanks(pt, i) <= j
  BY <1>2, <1>3, LeastCaret
<1>6. ASSUME NEW k \in i .. SkipBlanks(pt, i) - 1 PROVE Blank(pt, k)
  <2> SUFFICES ASSUME ~ Blank(pt, k) PROVE FALSE
    OBVIOUS
  <2> DEFINE a == SkipBlanks(pt, i)
  <2>1. a \in 1 .. LastCaret(pt) /\ k \in i .. a - 1
    BY <1>1, <1>2, <1>5
  <2> HIDE DEF a
  <2>2. k \in i .. LastCaret(pt) /\ k < a
    BY <1>1, <2>1
  <2>3. a <= k
    BY <1>4, <1>5, <2>2 DEF a
  <2> QED
    BY <1>1, <2>1, <2>2, <2>3
<1> QED
  BY <1>2, <1>5, <1>6

LEMMA RunHolds ==
    ASSUME NEW pt, IsPageText(pt), NEW a \in Carets(pt), ~ Blank(pt, a)
    PROVE  /\ RunStart(pt, a) \in Carets(pt) /\ RunStart(pt, a) <= a /\ ~ Blank(pt, RunStart(pt, a))
           /\ RunEnd(pt, a) \in Carets(pt) /\ RunEnd(pt, a) >= a
<1> DEFINE S == {s \in 1 .. a : \A j \in s .. a : ~ Blank(pt, j)}
           E == {a} \cup {e \in a .. LastCaret(pt) : \A j \in a + 1 .. e : ~ Blank(pt, j)}
<1>1. LastCaret(pt) \in Nat /\ Carets(pt) = 1 .. LastCaret(pt) /\ a \in Nat
  BY TextFacts
<1>2. a \in S
  BY <1>1
<1>3. S \subseteq Carets(pt) /\ E \subseteq Carets(pt) /\ a \in E
  BY <1>1
<1>4. \A s \in S : s <= a /\ ~ Blank(pt, s)
  BY <1>1
<1>5. RunStart(pt, a) = Min(S) /\ RunEnd(pt, a) = Max(E)
  BY DEF RunStart, RunEnd
<1> HIDE DEF S, E
<1>6. Min(S) \in S /\ Max(E) \in E /\ Max(E) >= a
  BY <1>2, <1>3, LeastCaret
<1> QED
  BY <1>3, <1>4, <1>5, <1>6

(* A word or a sentence begins with ink and holds the caret, unless the    *)
(* caret was on the blanks before it.                                      *)
LEMMA ObjectsHold ==
    ASSUME NEW pt, IsPageText(pt), NEW i \in Carets(pt),
           NEW r \in WordAround(pt, i) \cup SentenceAround(pt, i)
    PROVE  /\ r[1] <= r[2] /\ ~ Blank(pt, r[1])
           /\ (i \in r[1] .. r[2]) \/ \A k \in i .. r[1] - 1 : Blank(pt, k)
<1>1. LastCaret(pt) \in Nat /\ Carets(pt) = 1 .. LastCaret(pt) /\ i \in Nat
  BY TextFacts
<1>2. CASE r \in WordAround(pt, i)
  <2> DEFINE a == SkipBlanks(pt, i)
             b == RunStart(pt, a)
             e == RunEnd(pt, a)
  <2>1. ~ Blank(pt, a) /\ r = <<b, e>>
    BY <1>2 DEF WordAround
  <2>2. a \in Carets(pt) /\ a >= i /\ \A k \in i .. a - 1 : Blank(pt, k)
    BY Skips
  <2>3. b \in Carets(pt) /\ b <= a /\ ~ Blank(pt, b) /\ e \in Carets(pt) /\ e >= a
    BY <2>1, <2>2, RunHolds
  <2>4. r[1] = b /\ r[2] = e
    BY <2>1
  <2> HIDE DEF a, b, e
  <2>5. a \in Nat /\ b \in Nat /\ e \in Nat
    BY <1>1, <2>2, <2>3
  <2>6. b <= e
    BY <2>3, <2>5
  <2>7. b <= i => i \in b .. e
    BY <1>1, <2>2, <2>3, <2>5
  <2>8. ~ (b <= i) => \A k \in i .. b - 1 : Blank(pt, k)
    <3>1. \A k \in i .. b - 1 : k \in i .. a - 1
      BY <1>1, <2>3, <2>5
    <3> QED
      BY <2>2, <3>1
  <2> QED
    BY <2>3, <2>4, <2>6, <2>7, <2>8
<1>3. CASE r \in SentenceAround(pt, i)
  <2> DEFINE starts == {1} \cup {k + 1 : k \in {j \in 1 .. i - 1 : Stop(pt, j)}}
             from == Max(starts)
             ink == {k \in from .. LastCaret(pt) : ~ Blank(pt, k)}
             stops == {k \in i .. LastCaret(pt) : Stop(pt, k)}
             ends == stops \cup {LastCaret(pt)}
             b == Min(ink)
             e == Min(ends)
  <2>1. ink # {} /\ r = <<b, e>>
    BY <1>3 DEF SentenceAround
  <2>2. from \in Carets(pt) /\ from <= i
    <3>1. starts \subseteq Carets(pt) /\ starts # {} /\ \A k \in starts : k <= i
      BY <1>1
    <3> HIDE DEF starts
    <3> QED
      BY <3>1, LeastCaret
  <2>3. ends \subseteq Carets(pt) /\ ends # {} /\ \A k \in ends : k >= i
    BY <1>1
  <2>4. e \in ends /\ e \in Nat /\ e >= i /\ e <= LastCaret(pt)
    <3> HIDE DEF ends
    <3>1. e \in ends
      BY <2>3, LeastCaret
    <3> HIDE DEF e
    <3> QED
      BY <1>1, <2>3, <3>1
  <2> HIDE DEF from
  <2>5. ink \subseteq Carets(pt)
    BY <1>1, <2>2
  <2>6. b \in ink /\ \A k \in ink : b <= k
    <3> HIDE DEF ink
    <3> QED
      BY <2>1, <2>5, LeastCaret
  <2>7. b \in from .. LastCaret(pt) /\ ~ Blank(pt, b) /\ b \in Nat /\ from \in Nat
    <3>1. b \in from .. LastCaret(pt) /\ ~ Blank(pt, b)
      BY <2>6
    <3> HIDE DEF b
    <3> QED
      BY <1>1, <2>2, <3>1
  <2>8. r[1] = b /\ r[2] = e
    BY <2>1
  <2>9. b <= e
    <3>1. CASE e = LastCaret(pt)
      <4> HIDE DEF b, e
      <4> QED
        BY <1>1, <2>7, <3>1
    <3>2. CASE e # LastCaret(pt)
      <4>1. e \in stops
        BY <2>4, <3>2
      <4>2. Stop(pt, e)
        BY <4>1
      <4>3. ~ Blank(pt, e)
        BY <4>2, TextLayoutAssumption DEF Stop, Blank
      <4>4. e \in ink
        <5> HIDE DEF e
        <5>1. e \in from .. LastCaret(pt)
          BY <1>1, <2>2, <2>4, <2>7
        <5> QED
          BY <4>3, <5>1
      <4> QED
        BY <2>6, <4>4
    <3> QED
      BY <3>1, <3>2
  <2>10. ASSUME NEW k \in i .. b - 1 PROVE Blank(pt, k)
    <3>1. k \in from .. LastCaret(pt) /\ k < b /\ k \in Nat
      <4> HIDE DEF b
      <4> QED
        BY <1>1, <2>2, <2>7
    <3>2. Blank(pt, k) \/ k \in ink
      BY <3>1
    <3> HIDE DEF b, ink
    <3> QED
      BY <2>6, <2>7, <3>1, <3>2
  <2> HIDE DEF b, e
  <2>11. b <= i => i \in b .. e
    BY <1>1, <2>4, <2>7
  <2> QED
    BY <2>7, <2>8, <2>9, <2>10, <2>11
<1> QED
  BY <1>2, <1>3

LEMMA MotionsOn ==
    ASSUME NEW pt, IsPageText(pt)
    PROVE  MotionsSound(pt)
<1> DEFINE words == UNION {WordStarts(pt, m) : m \in Lines(pt)}
           LineOrder(i, j) == pt.line[i] < pt.line[j] \/ (pt.line[i] = pt.line[j] /\ i < j)
           After(s) == {t \in words : LineOrder(s, t)}
<1>1. ASSUME NEW s \in words, After(s) # {}
      PROVE  /\ NextWordStart(pt, s) \in After(s)
             /\ \A t \in After(s) : ~ LineOrder(t, NextWordStart(pt, s))
             /\ PrevWordStart(pt, NextWordStart(pt, s)) = s
  <2> DEFINE W == words
             A == After(s)
  <2>1. /\ W = UNION {WordStarts(pt, m) : m \in Lines(pt)} /\ s \in W
        /\ A = {t \in W : pt.line[s] < pt.line[t] \/ (pt.line[s] = pt.line[t] /\ s < t)}
        /\ A # {}
    BY <1>1
  <2> HIDE DEF W, A
  <2>2. /\ NextWordStart(pt, s) \in A
        /\ \A t \in A : LET n == NextWordStart(pt, s)
                        IN ~ (pt.line[t] < pt.line[n] \/ (pt.line[t] = pt.line[n] /\ t < n))
        /\ PrevWordStart(pt, NextWordStart(pt, s)) = s
    BY <2>1, WordSteps
  <2> QED
    BY <2>2 DEF A
<1>2. ASSUME NEW i \in Carets(pt), NEW r \in WordAround(pt, i)
      PROVE  EndOfWord(pt, i) = r[2]
  BY DEF WordAround, EndOfWord
<1>3. ASSUME NEW i \in Carets(pt), NEW r \in WordAround(pt, i) \cup SentenceAround(pt, i)
      PROVE  /\ r[1] <= r[2] /\ ~ Blank(pt, r[1])
             /\ (i \in r[1] .. r[2]) \/ \A k \in i .. r[1] - 1 : Blank(pt, k)
  BY ObjectsHold
<1> HIDE DEF words, LineOrder
<1> QED
  BY <1>1, <1>2, <1>3 DEF MotionsSound, words, LineOrder

(* What load makes of a page.                                              *)

LEMMA CellIs ==
    ASSUME NEW raw, raw.left \in Int, raw.right \in Int, raw.top \in Int, raw.bottom \in Int
    PROVE  LET c == CellOf(raw) IN c.x \in Nat /\ c.y \in Nat /\ c.w \in Nat /\ c.h \in Nat
<1>1. \A v \in Int, m \in Nat : Clamped(v, m) \in Nat
  <2> TAKE v \in Int, m \in Nat
  <2>1. Min({v, m}) = Lesser(v, m) /\ Lesser(v, m) \in Int
    BY MinOfTwo DEF Lesser
  <2>2. Max({0, Lesser(v, m)}) = Greater(0, Lesser(v, m)) /\ Greater(0, Lesser(v, m)) \in Nat
    BY <2>1, MaxOfTwo DEF Greater
  <2> QED
    BY <2>1, <2>2 DEF Clamped
<1>2. \A v \in Int : Max({0, v}) \in Nat
  <2> TAKE v \in Int
  <2>1. Max({0, v}) = Greater(0, v) /\ Greater(0, v) \in Nat
    BY MaxOfTwo DEF Greater
  <2> QED
    BY <2>1
<1> DEFINE x == Clamped(raw.left, PageWidth)
           y == Clamped(PageHeight - raw.top, PageHeight)
           right == Clamped(raw.right, PageWidth)
           bottom == Clamped(PageHeight - raw.bottom, PageHeight)
<1>3. x \in Nat /\ y \in Nat /\ right \in Nat /\ bottom \in Nat
  <2>1. /\ PageWidth \in Nat /\ PageHeight \in Nat
        /\ PageHeight - raw.top \in Int /\ PageHeight - raw.bottom \in Int
    BY TextLayoutAssumption
  <2> QED
    BY <1>1, <2>1
<1>4. CellOf(raw) = [ch |-> raw.ch, generated |-> raw.generated, x |-> x, y |-> y,
                     w |-> Max({0, right - x}), h |-> Max({0, bottom - y})]
  BY DEF CellOf
<1> HIDE DEF x, y, right, bottom
<1>5. Max({0, right - x}) \in Nat /\ Max({0, bottom - y}) \in Nat
  BY <1>2, <1>3
<1> QED
  BY <1>3, <1>4, <1>5

(* cluster_lines numbers the lines from 0 on without a gap: each character *)
(* joins the last line or opens the one after it.                          *)
LEMMA LinesHaveNoGap ==
    ASSUME NEW n \in Nat, NEW cells, DOMAIN cells = 1 .. n,
           \A i \in 1 .. n : cells[i].y \in Nat /\ cells[i].h \in Nat
    PROVE  /\ DOMAIN ClusterLines(cells) = 1 .. n
           /\ \A m \in Range(ClusterLines(cells)) :
                 m \in Nat /\ 0 .. m \subseteq Range(ClusterLines(cells))
<1> DEFINE S == 1 .. n
           Before(i, j) == \/ CentreY(cells[i]) < CentreY(cells[j])
                           \/ CentreY(cells[i]) = CentreY(cells[j]) /\ i < j
           R == {p \in S \X S : Before(p[1], p[2])}
           order == InOrder(DOMAIN cells, Before)
           Far(m, i) == /\ m.count > 0
                        /\ 10 * AbsDiff(CentreY(cells[i]) * m.count, m.sum)
                             > 11 * MedianHeight(cells) * m.count
           Join(m, i) ==
             IF Far(m, i)
             THEN [line |-> m.line + 1, sum |-> CentreY(cells[i]), count |-> 1,
                   of |-> [m.of EXCEPT ![i] = m.line + 1]]
             ELSE [line |-> m.line, sum |-> m.sum + CentreY(cells[i]), count |-> m.count + 1,
                   of |-> [m.of EXCEPT ![i] = m.line]]
           base == [line |-> 0, sum |-> 0, count |-> 0, of |-> [i \in DOMAIN cells |-> 0]]
           iter[s \in SUBSET DOMAIN order] ==
             IF s = {} THEN base ELSE Join(iter[s \ {Max(s)}], order[Max(s)])
<1>1. ClusterLines(cells) = iter[DOMAIN order].of
  BY DEF ClusterLines, FoldLeft, MapThenFoldSet
<1>2. IsFiniteSet(S) /\ Cardinality(S) = n
  BY FS_Interval
<1>3. \A i \in S : CentreY(cells[i]) \in Nat
  BY DEF CentreY
<1>4. LinearOn(S, R)
  <2>1. \A p, q \in S : <<p, q>> \in R <=> Before(p, q)
    OBVIOUS
  <2> HIDE DEF R
  <2> QED
    BY <1>3, <2>1 DEF LinearOn
<1>5. /\ order \in [1 .. n -> S]
      /\ \A j, k \in 1 .. n : order[j] = order[k] => j = k
      /\ \A i \in S : \E k \in 1 .. n : order[k] = i
  <2>1. order = [k \in 1 .. n |-> CHOOSE i \in S : Cardinality({j \in S : Before(j, i)}) = k - 1]
    BY <1>2 DEF InOrder
  <2>2. \A i \in S : RankIn(S, R, i) = Cardinality({j \in S : Before(j, i)})
    <3> TAKE i \in S
    <3>1. {j \in S : <<j, i>> \in R} = {j \in S : Before(j, i)}
      OBVIOUS
    <3> HIDE DEF R, Before
    <3> QED
      BY <3>1 DEF RankIn
  <2> HIDE DEF order, R, Before, S
  <2>4. ASSUME NEW k \in 1 .. n, NEW i \in S, RankIn(S, R, i) = k - 1
        PROVE  order[k] \in S /\ RankIn(S, R, order[k]) = k - 1
    <3>1. order[k] = CHOOSE q \in S : Cardinality({j \in S : Before(j, q)}) = k - 1
      BY <2>1
    <3>2. \E q \in S : Cardinality({j \in S : Before(j, q)}) = k - 1
      BY <2>2, <2>4
    <3>3. order[k] \in S /\ Cardinality({j \in S : Before(j, order[k])}) = k - 1
      BY <3>1, <3>2
    <3> QED
      BY <2>2, <3>3
  <2>5. /\ \A k \in 1 .. n : order[k] \in S
        /\ \A j, k \in 1 .. n : order[j] = order[k] => j = k
        /\ \A i \in S : \E k \in 1 .. n : order[k] = i
    <3>1. ByRank(order, S, R)
      BY <1>2, <2>4 DEF ByRank
    <3> QED
      BY <1>2, <1>4, <3>1, Ordering
  <2>6. order \in [1 .. n -> S]
    BY <2>1, <2>5
  <2> QED
    BY <2>5, <2>6
<1> HIDE DEF order, Far, R, Before
<1> DEFINE D == [line : Nat, sum : Int, count : Nat, of : [S -> Nat]]
           Step == [k \in 1 .. n |-> [m \in D |-> Join(m, order[k])]]
           C == SUBSET (1 .. n)
<1>6. base \in D /\ base.line = 0 /\ base.count = 0
  OBVIOUS
<1>7. ASSUME NEW m \in D, NEW i \in S
      PROVE  /\ Join(m, i) \in D
             /\ Join(m, i).count > 0
             /\ Join(m, i).line = IF Far(m, i) THEN m.line + 1 ELSE m.line
             /\ Join(m, i).of = [m.of EXCEPT ![i] = Join(m, i).line]
             /\ Far(m, i) => m.count > 0
  <2>1. CentreY(cells[i]) \in Nat /\ m.line \in Nat /\ m.sum \in Int /\ m.count \in Nat
        /\ m.of \in [S -> Nat]
    BY <1>3
  <2>2. Far(m, i) => m.count > 0
    BY DEF Far
  <2>3. CASE Far(m, i)
    BY <2>1, <2>2, <2>3
  <2>4. CASE ~ Far(m, i)
    BY <2>1, <2>4
  <2> QED
    BY <2>2, <2>3, <2>4
<1> HIDE DEF Join, base
<1>8. Step \in [1 .. n -> [D -> D]] /\ \A k \in 1 .. n, m \in D : Step[k][m] = Join(m, order[k])
  <2>1. \A k \in 1 .. n : order[k] \in S
    BY <1>5
  <2> HIDE DEF D, S
  <2> QED
    BY <1>7, <2>1
<1>9. \A s \in C : iter[s] = IF s = {} THEN base ELSE Join(iter[s \ {Max(s)}], order[Max(s)])
  <2> HIDE DEF D, Step
  <2>1. PICK f \in [SUBSET (1 .. n) -> D] :
          \A s \in SUBSET (1 .. n) :
            f[s] = IF s = {} THEN base ELSE Step[Max(s)][f[s \ {Max(s)}]]
    <3>1. base \in D
      BY <1>6
    <3>2. Step \in [1 .. n -> [D -> D]]
      BY <1>8
    <3>3. \E f : Folding(f, n, D, base, Step)
      BY <3>1, <3>2, FoldExists
    <3> QED
      BY <3>3 DEF Folding
  <2>2. ASSUME NEW s \in C, s # {}
        PROVE  Step[Max(s)][f[s \ {Max(s)}]] = Join(f[s \ {Max(s)}], order[Max(s)])
    <3>1. Max(s) \in s
      <4>1. s \subseteq 0 .. n
        OBVIOUS
      <4> QED
        BY <2>2, <4>1, MaxIs
    <3>2. Max(s) \in 1 .. n /\ s \ {Max(s)} \in C
      BY <3>1
    <3>3. f[s \ {Max(s)}] \in D
      BY <2>1, <3>2
    <3> QED
      BY <1>8, <3>2, <3>3
  <2>3. \A s \in C : f[s] = IF s = {} THEN base ELSE Join(f[s \ {Max(s)}], order[Max(s)])
    BY <2>1, <2>2
  <2>4. DOMAIN order = 1 .. n
    BY <1>5
  <2>5. f = [s \in SUBSET DOMAIN order |->
               IF s = {} THEN base ELSE Join(f[s \ {Max(s)}], order[Max(s)])]
    BY <2>1, <2>3, <2>4
  <2>6. iter = [s \in SUBSET DOMAIN order |->
                  IF s = {} THEN base ELSE Join(iter[s \ {Max(s)}], order[Max(s)])]
    BY <2>5
  <2> HIDE DEF iter
  <2> QED
    BY <2>4, <2>6
<1> HIDE DEF iter
<1> DEFINE M(k) == iter[1 .. k]
           Upto(k) == /\ M(k) \in D
                      /\ k = 0 => M(k).line = 0 /\ M(k).count = 0
                      /\ k > 0 => M(k).count > 0
                      /\ \A j \in 1 .. k : M(k).of[order[j]] \in 0 .. M(k).line
                      /\ k > 0 => \A v \in 0 .. M(k).line : \E j \in 1 .. k : M(k).of[order[j]] = v
           T == {k \in 0 .. n : Upto(k)}
<1>10. 0 \in T
  <2>1. 1 .. 0 = {} /\ {} \in C
    OBVIOUS
  <2>2. M(0) = base
    BY <1>9, <2>1
  <2>3. Upto(0)
    <3> HIDE DEF M, D
    <3> QED
      BY <1>6, <2>2
  <2> HIDE DEF Upto
  <2> QED
    BY <2>3
<1>11. ASSUME NEW k \in 1 .. n, k - 1 \in T PROVE k \in T
  <2> DEFINE a == M(k - 1)
             i == order[k]
             b == Join(a, i)
  <2>1. M(k) = b
    <3>0. k \in Nat \ {0} /\ k <= n
      OBVIOUS
    <3>1. 1 .. k \in C /\ 1 .. k # {} /\ k \in 1 .. k /\ (1 .. k) \ {k} = 1 .. k - 1
      <4>1. k \in 1 .. k
        BY <3>0
      <4>2. 1 .. k \in C
        BY <3>0
      <4>3. \A j : j \in (1 .. k) \ {k} <=> j \in 1 .. k - 1
        BY <3>0
      <4> QED
        BY <4>1, <4>2, <4>3
    <3>2. Max(1 .. k) = k
      <4>1. k \in Nat /\ 1 .. k \subseteq 0 .. k /\ 1 .. k # {}
        BY <3>0, <3>1
      <4>2. Max(1 .. k) \in 1 .. k /\ \A j \in 1 .. k : Max(1 .. k) >= j
        BY <4>1, MaxIs
      <4> QED
        BY <3>1, <4>2
    <3> QED
      BY <1>9, <3>1, <3>2
  <2>2. Upto(k - 1)
    BY <1>11
  <2>3. /\ a \in D
        /\ k - 1 = 0 => a.line = 0 /\ a.count = 0
        /\ \A j \in 1 .. k - 1 : a.of[order[j]] \in 0 .. a.line
        /\ k - 1 > 0 => \A v \in 0 .. a.line : \E j \in 1 .. k - 1 : a.of[order[j]] = v
    BY <2>2
  <2>4. i \in S /\ \A j \in 1 .. k - 1 : order[j] \in S /\ order[j] # i
    <3>1. \A j \in 1 .. k - 1 : j \in 1 .. n /\ j # k
      OBVIOUS
    <3> QED
      BY <1>5, <3>1
  <2> HIDE DEF a, i, M
  <2>5. /\ b \in D /\ b.count > 0
        /\ b.line = IF Far(a, i) THEN a.line + 1 ELSE a.line
        /\ b.of = [a.of EXCEPT ![i] = b.line]
        /\ Far(a, i) => a.count > 0
    BY <1>7, <2>3, <2>4
  <2> HIDE DEF b
  <2>6. a.line \in Nat /\ b.line \in Nat /\ a.of \in [S -> Nat] /\ a.count \in Nat
    BY <2>3, <2>5
  <2>7. b.of[i] = b.line /\ \A j \in 1 .. k - 1 : b.of[order[j]] = a.of[order[j]]
    BY <2>4, <2>5, <2>6
  <2> HIDE DEF D, S
  <2>8. ASSUME NEW j \in 1 .. k PROVE b.of[order[j]] \in 0 .. b.line
    <3>1. CASE j = k
      BY <2>6, <2>7, <3>1 DEF i
    <3>2. CASE j # k
      <4>1. j \in 1 .. k - 1
        BY <3>2
      <4>2. b.of[order[j]] = a.of[order[j]] /\ a.of[order[j]] \in 0 .. a.line
        BY <2>3, <2>7, <4>1
      <4> QED
        BY <2>5, <2>6, <4>2
    <3> QED
      BY <3>1, <3>2
  <2>9. ASSUME NEW v \in 0 .. b.line PROVE \E j \in 1 .. k : b.of[order[j]] = v
    <3>1. CASE v = b.line
      <4>1. k \in 1 .. k /\ b.of[order[k]] = v
        BY <2>7, <3>1 DEF i
      <4> QED
        BY <4>1
    <3>2. CASE v # b.line
      <4>1. v \in 0 .. a.line
        BY <2>5, <2>6, <3>2
      <4>2. k - 1 > 0
        <5> SUFFICES ASSUME k = 1 PROVE FALSE
          OBVIOUS
        <5>1. a.line = 0 /\ a.count = 0
          BY <2>3
        <5>2. ~ Far(a, i)
          BY <2>5, <5>1
        <5>3. b.line = 0
          BY <2>5, <5>1, <5>2
        <5> QED
          BY <3>2, <5>3
      <4>3. PICK j \in 1 .. k - 1 : a.of[order[j]] = v
        BY <2>3, <4>1, <4>2
      <4>4. j \in 1 .. k /\ b.of[order[j]] = v
        BY <2>7, <4>3
      <4> QED
        BY <4>4
    <3> QED
      BY <3>1, <3>2
  <2>10. Upto(k)
    BY <2>1, <2>5, <2>8, <2>9
  <2> HIDE DEF Upto
  <2> QED
    BY <2>10
<1>12. Upto(n)
  <2>1. \A k \in 0 .. n : k \in T
    <3> HIDE DEF T
    <3> QED
      BY <1>10, <1>11, Climb
  <2> HIDE DEF Upto
  <2> QED
    BY <2>1
<1> DEFINE f == ClusterLines(cells)
           highest == M(n).line
<1>13. /\ f \in [S -> Nat] /\ highest \in Nat
       /\ \A i \in S : f[i] \in 0 .. highest
       /\ n > 0 => \A v \in 0 .. highest : \E i \in S : f[i] = v
  <2>1. f = M(n).of
    <3>1. DOMAIN order = 1 .. n
      BY <1>5
    <3> HIDE DEF f
    <3> QED
      BY <1>1, <3>1 DEF f
  <2> HIDE DEF f
  <2>2. /\ M(n) \in D
        /\ \A j \in 1 .. n : M(n).of[order[j]] \in 0 .. M(n).line
        /\ n > 0 => \A v \in 0 .. M(n).line : \E j \in 1 .. n : M(n).of[order[j]] = v
    BY <1>12
  <2> HIDE DEF M, Upto
  <2>3. f \in [S -> Nat] /\ highest \in Nat
    BY <2>1, <2>2
  <2>4. ASSUME NEW i \in S PROVE f[i] \in 0 .. highest
    BY <1>5, <2>1, <2>2
  <2>5. ASSUME n > 0, NEW v \in 0 .. highest PROVE \E i \in S : f[i] = v
    <3>1. PICK j \in 1 .. n : f[order[j]] = v
      BY <2>1, <2>2, <2>5
    <3> QED
      BY <1>5, <3>1
  <2> QED
    BY <2>3, <2>4, <2>5
<1> HIDE DEF f, highest
<1>14. DOMAIN f = 1 .. n /\ Range(f) = {f[i] : i \in 1 .. n}
  BY <1>13 DEF Range
<1>15. ASSUME NEW m \in Range(f) PROVE m \in Nat /\ 0 .. m \subseteq Range(f)
  <2>1. PICK i \in S : m = f[i]
    BY <1>14
  <2>2. n > 0 /\ m \in 0 .. highest
    BY <1>13, <2>1
  <2>3. \A v \in 0 .. m : v \in 0 .. highest
    BY <1>13, <2>2
  <2> QED
    BY <1>13, <1>14, <2>2, <2>3, SMTT(30)
<1> QED
  BY <1>14, <1>15 DEF f

(* A page has boxes within it and lines without a gap, whatever pdfium     *)
(* lists (PageText::load in textlayout.rs).                                *)
LEMMA LoadedPageIs ==
    ASSUME NEW raws, IsRawText(raws)
    PROVE  IsPageText(PageText(raws))
<1> DEFINE kept == {i \in DOMAIN raws : raws[i].finite}
           finite == InOrder(kept, <)
           cells == [k \in DOMAIN finite |-> CellOf(raws[finite[k]])]
           n == Cardinality(kept)
           R == {p \in kept \X kept : p[1] < p[2]}
<1>1. kept \subseteq DOMAIN raws /\ DOMAIN raws = 1 .. Len(raws) /\ Len(raws) \in Nat
  BY DEF IsRawText
<1>2. kept \subseteq Int /\ IsFiniteSet(kept)
  <2> HIDE DEF kept
  <2>1. kept \subseteq 1 .. Len(raws) /\ 0 \in Int /\ Len(raws) \in Int
    BY <1>1
  <2>2. IsFiniteSet(1 .. Len(raws))
    BY <2>1, FS_Interval
  <2>3. IsFiniteSet(kept)
    BY <2>1, <2>2, FS_Subset
  <2> QED
    BY <2>1, <2>3
<1>3. PageText(raws) = [chars |-> cells, line |-> ClusterLines(cells)]
  BY DEF PageText
<1>4. finite = [k \in 1 .. n |-> CHOOSE i \in kept : Cardinality({j \in kept : j < i}) = k - 1]
  BY DEF InOrder
<1> HIDE DEF kept
<1>5. LinearOn(kept, R)
  <2>1. \A p, q \in kept : <<p, q>> \in R <=> p < q
    OBVIOUS
  <2> HIDE DEF R
  <2> QED
    BY <1>2, <2>1 DEF LinearOn
<1>6. n \in Nat /\ finite \in [1 .. n -> kept]
  <2>1. \A i \in kept : RankIn(kept, R, i) = Cardinality({j \in kept : j < i})
    <3> TAKE i \in kept
    <3>1. {j \in kept : <<j, i>> \in R} = {j \in kept : j < i}
      OBVIOUS
    <3> HIDE DEF R
    <3> QED
      BY <3>1 DEF RankIn
  <2> HIDE DEF R, finite, n
  <2>3. ASSUME NEW k \in 1 .. n, NEW i \in kept, RankIn(kept, R, i) = k - 1
        PROVE  finite[k] \in kept /\ RankIn(kept, R, finite[k]) = k - 1
    <3>1. finite[k] = CHOOSE q \in kept : Cardinality({j \in kept : j < q}) = k - 1
      BY <1>4
    <3>2. \E q \in kept : Cardinality({j \in kept : j < q}) = k - 1
      BY <2>1, <2>3
    <3>3. finite[k] \in kept /\ Cardinality({j \in kept : j < finite[k]}) = k - 1
      BY <3>1, <3>2
    <3> QED
      BY <2>1, <3>3
  <2>4. n \in Nat /\ \A k \in 1 .. n : finite[k] \in kept
    <3>1. ByRank(finite, kept, R)
      BY <2>3 DEF ByRank, n
    <3> QED
      BY <1>2, <1>5, <3>1, Ordering DEF n
  <2> QED
    BY <1>4, <2>4
<1> HIDE DEF finite, n
<1>7. DOMAIN cells = 1 .. n /\ Len(cells) = n /\ \A k \in 1 .. n : cells[k] = CellOf(raws[finite[k]])
  <2>1. DOMAIN cells = 1 .. n /\ \A k \in 1 .. n : cells[k] = CellOf(raws[finite[k]])
    BY <1>6
  <2>2. cells = [k \in 1 .. n |-> CellOf(raws[finite[k]])]
    BY <1>6
  <2>3. Len([k \in 1 .. n |-> CellOf(raws[finite[k]])]) = n
    BY <1>6
  <2> QED
    BY <2>1, <2>2, <2>3
<1> HIDE DEF cells
<1>8. ASSUME NEW k \in 1 .. n
      PROVE  /\ cells[k].x \in Nat /\ cells[k].y \in Nat
             /\ cells[k].w \in Nat /\ cells[k].h \in Nat
  <2> DEFINE raw == raws[finite[k]]
  <2>1. finite[k] \in DOMAIN raws
    BY <1>1, <1>6
  <2>2. raw.left \in Int /\ raw.right \in Int /\ raw.top \in Int /\ raw.bottom \in Int
    BY <2>1 DEF IsRawText
  <2> HIDE DEF raw
  <2>3. cells[k] = CellOf(raw)
    BY <1>7 DEF raw
  <2> QED
    BY <2>2, <2>3, CellIs
<1>9. /\ DOMAIN ClusterLines(cells) = 1 .. n
      /\ \A m \in Range(ClusterLines(cells)) :
            m \in Nat /\ 0 .. m \subseteq Range(ClusterLines(cells))
  BY <1>6, <1>7, <1>8, LinesHaveNoGap
<1> DEFINE pt == PageText(raws)
<1>10. pt.chars = cells /\ pt.line = ClusterLines(cells)
  BY <1>3
<1> HIDE DEF pt
<1>11. Carets(pt) = 1 .. n /\ Lines(pt) = Range(ClusterLines(cells))
  BY <1>7, <1>10 DEF Carets, Lines
<1>12. IsPageText(pt)
  BY <1>6, <1>7, <1>8, <1>9, <1>10, <1>11 DEF IsPageText
<1> QED
  BY <1>12 DEF pt

(* A page without text *)
LEMMA NoTextIs == IsPageText(NoText)
<1>1. NoText.chars = <<>> /\ NoText.line = <<>>
  BY DEF NoText
<1>2. Len(<<>>) = 0 /\ DOMAIN <<>> = {} /\ 1 .. 0 = {}
  OBVIOUS
<1>3. Carets(NoText) = {} /\ Lines(NoText) = {}
  BY <1>1, <1>2 DEF Carets, Lines, Range
<1> QED
  BY <1>1, <1>2, <1>3 DEF IsPageText

(* Whatever page of text there is was made by load.                        *)
LEMMA TextAlwaysLoaded == MCSpec => []IsPageText(textPage)
<1>1. MCInit => IsPageText(textPage)
  <2> SUFFICES ASSUME MCInit
               PROVE  IsPageText(textPage)
    OBVIOUS
  <2>1. CASE textPage \in {PageText(raws) : raws \in TextPages}
    BY <2>1, LoadedPageIs, TextPagesAssumption
  <2>2. CASE NoPage
    BY <2>2, NoTextIs DEF NoPage
  <2> QED
    BY <2>1, <2>2 DEF MCInit
<1>2. /\ IsPageText(textPage)
      /\ [MCNext]_<<part, vars, frame, hash, textPage, linkCount, indexVars, placeVars>>
      => IsPageText(textPage)'
  BY DEF MCNext
<1> QED
  BY <1>1, <1>2, PTL DEF MCSpec

(* The caret motions and text objects agree with each other on every page  *)
(* that load makes, whatever pdfium lists (next_word_start,                *)
(* prev_word_start, end_of_word, word_around and sentence_around in        *)
(* textlayout.rs).                                                         *)
THEOREM MotionsAlwaysAgree == MCSpec => []MotionsAgree
<1>1. IsPageText(textPage) => MotionsAgree
  BY MotionsOn DEF MotionsAgree
<1> QED
  BY <1>1, TextAlwaysLoaded, PTL

-----------------------------------------------------------------------------
(* What a selection shows and what it takes.                               *)

LEMMA SetOf ==
    ASSUME NEW s \in Seq(Nat), NEW k \in Nat
    PROVE  /\ Append(s, k) \in Seq(Nat) /\ ToSet(Append(s, k)) = ToSet(s) \cup {k}
           /\ s \o <<k>> \in Seq(Nat) /\ ToSet(s \o <<k>>) = ToSet(s) \cup {k}
<1>1. s \o <<k>> = Append(s, k) /\ Append(s, k) \in Seq(Nat)
  OBVIOUS
<1>2. /\ Len(s) \in Nat /\ DOMAIN s = 1 .. Len(s)
      /\ DOMAIN Append(s, k) = 1 .. Len(s) + 1
      /\ \A i \in 1 .. Len(s) : Append(s, k)[i] = s[i]
      /\ Append(s, k)[Len(s) + 1] = k
  OBVIOUS
<1>3. ToSet(Append(s, k)) = ToSet(s) \cup {k}
  <2>1. ASSUME NEW v \in ToSet(Append(s, k)) PROVE v \in ToSet(s) \cup {k}
    <3>1. PICK i \in 1 .. Len(s) + 1 : v = Append(s, k)[i]
      BY <1>2, <2>1 DEF ToSet
    <3>2. i \in 1 .. Len(s) \/ i = Len(s) + 1
      BY <1>2
    <3> QED
      BY <1>2, <3>1, <3>2 DEF ToSet
  <2>2. ASSUME NEW v \in ToSet(s) \cup {k} PROVE v \in ToSet(Append(s, k))
    <3>1. CASE v = k
      <4>1. Len(s) + 1 \in 1 .. Len(s) + 1
        BY <1>2
      <4> QED
        BY <1>2, <3>1, <4>1 DEF ToSet
    <3>2. CASE v # k
      <4>1. PICK i \in 1 .. Len(s) : v = s[i]
        BY <1>2, <2>2, <3>2 DEF ToSet
      <4>2. i \in 1 .. Len(s) + 1
        BY <1>2
      <4> QED
        BY <1>2, <4>1, <4>2 DEF ToSet
    <3> QED
      BY <3>1, <3>2
  <2> QED
    BY <2>1, <2>2
<1> QED
  BY <1>1, <1>3

(* extract takes the characters of the range, but the generated ones and   *)
(* those without a unicode value.                                          *)
Spelled(pt, k) == ~ pt.chars[k].generated /\ pt.chars[k].ch # NoChar

LEMMA ExtractIs ==
    ASSUME NEW pt, IsPageText(pt), NEW i \in Carets(pt), NEW j \in Carets(pt), i <= j
    PROVE  ToSet(Extract(pt, i, j)) \ {0} = {k \in i .. j : Spelled(pt, k)}
<1> DEFINE n == j - i + 1
           seq == [k \in 1 .. j - i + 1 |-> i + k - 1]
           Add(m, k) ==
             IF pt.chars[k].generated THEN m
             ELSE [line |-> pt.line[k],
                   out |-> (IF pt.line[k] # m.line THEN Append(m.out, 0) ELSE m.out)
                              \o (IF pt.chars[k].ch = NoChar THEN <<>> ELSE <<k>>)]
           base == [line |-> pt.line[i], out |-> <<>>]
           iter[s \in SUBSET DOMAIN seq] ==
             IF s = {} THEN base ELSE Add(iter[s \ {Max(s)}], seq[Max(s)])
           D == [line : Nat, out : Seq(Nat)]
           Step == [k \in 1 .. n |-> [m \in D |-> Add(m, seq[k])]]
           C == SUBSET (1 .. n)
<1>1. Extract(pt, i, j) = iter[DOMAIN seq].out
  BY DEF Extract, FoldLeft, MapThenFoldSet
<1>2. /\ i \in Nat /\ j \in Nat /\ 0 < i /\ n \in Nat \ {0}
      /\ \A k \in i .. j : k \in Carets(pt)
      /\ \A k \in Carets(pt) : pt.line[k] \in Nat
  BY TextFacts
<1>3. DOMAIN seq = 1 .. n /\ \A k \in 1 .. n : seq[k] = i + k - 1 /\ seq[k] \in i .. j
  BY <1>2
<1>4. base \in D /\ base.out = <<>>
  BY <1>2
<1>5. ASSUME NEW m \in D, NEW k \in i .. j
      PROVE  /\ Add(m, k) \in D
             /\ ToSet(Add(m, k).out) \ {0}
                  = (ToSet(m.out) \ {0}) \cup (IF Spelled(pt, k) THEN {k} ELSE {})
  <2>1. m.line \in Nat /\ m.out \in Seq(Nat) /\ k \in Nat /\ k # 0 /\ pt.line[k] \in Nat
    BY <1>2
  <2>2. CASE pt.chars[k].generated
    BY <2>2 DEF Spelled
  <2>3. CASE ~ pt.chars[k].generated
    <3> DEFINE t == IF pt.line[k] # m.line THEN Append(m.out, 0) ELSE m.out
               u == IF pt.chars[k].ch = NoChar THEN <<>> ELSE <<k>>
    <3>1. t \in Seq(Nat) /\ ToSet(t) \ {0} = ToSet(m.out) \ {0}
      BY <2>1, SetOf
    <3>2. t \o u \in Seq(Nat) /\ ToSet(t \o u) = ToSet(t) \cup (IF Spelled(pt, k) THEN {k} ELSE {})
      <4>1. CASE pt.chars[k].ch = NoChar
        <5>1. u = <<>> /\ ~ Spelled(pt, k)
          BY <4>1 DEF Spelled
        <5> HIDE DEF t, u
        <5>2. t \o u = t
          BY <3>1, <5>1
        <5> QED
          BY <3>1, <5>1, <5>2
      <4>2. CASE pt.chars[k].ch # NoChar
        <5>1. u = <<k>> /\ Spelled(pt, k)
          BY <2>3, <4>2 DEF Spelled
        <5>2. t \o <<k>> \in Seq(Nat) /\ ToSet(t \o <<k>>) = ToSet(t) \cup {k}
          BY <2>1, <3>1, SetOf
        <5> HIDE DEF t, u
        <5> QED
          BY <5>1, <5>2
      <4> QED
        BY <4>1, <4>2
    <3>3. Add(m, k) = [line |-> pt.line[k], out |-> t \o u]
      BY <2>3
    <3> HIDE DEF t, u, Add
    <3> QED
      BY <2>1, <3>1, <3>2, <3>3
  <2> QED
    BY <2>2, <2>3
<1> HIDE DEF n, seq, Add, base
<1>6. Step \in [1 .. n -> [D -> D]] /\ \A k \in 1 .. n, m \in D : Step[k][m] = Add(m, seq[k])
  <2> HIDE DEF D
  <2> QED
    BY <1>3, <1>5
<1> HIDE DEF Step
<1>7. \A s \in C : iter[s] = IF s = {} THEN base ELSE Add(iter[s \ {Max(s)}], seq[Max(s)])
  <2> HIDE DEF D
  <2>1. PICK f \in [SUBSET (1 .. n) -> D] :
          \A s \in SUBSET (1 .. n) :
            f[s] = IF s = {} THEN base ELSE Step[Max(s)][f[s \ {Max(s)}]]
    <3>1. \E f : Folding(f, n, D, base, Step)
      BY <1>2, <1>4, <1>6, FoldExists
    <3> QED
      BY <3>1 DEF Folding
  <2>2. ASSUME NEW s \in C, s # {}
        PROVE  Step[Max(s)][f[s \ {Max(s)}]] = Add(f[s \ {Max(s)}], seq[Max(s)])
    <3>1. Max(s) \in s
      <4>1. s \subseteq 0 .. n /\ n \in Nat
        BY <1>2
      <4> QED
        BY <2>2, <4>1, MaxIs
    <3>2. Max(s) \in 1 .. n /\ s \ {Max(s)} \in C
      BY <3>1
    <3>3. f[s \ {Max(s)}] \in D
      BY <2>1, <3>2
    <3> QED
      BY <1>6, <3>2, <3>3
  <2>3. \A s \in C : f[s] = IF s = {} THEN base ELSE Add(f[s \ {Max(s)}], seq[Max(s)])
    BY <2>1, <2>2
  <2>4. f = [s \in SUBSET DOMAIN seq |->
               IF s = {} THEN base ELSE Add(f[s \ {Max(s)}], seq[Max(s)])]
    BY <1>3, <2>1, <2>3
  <2>5. iter = [s \in SUBSET DOMAIN seq |->
                  IF s = {} THEN base ELSE Add(iter[s \ {Max(s)}], seq[Max(s)])]
    BY <2>4
  <2> HIDE DEF iter
  <2> QED
    BY <1>3, <2>5
<1> HIDE DEF iter
<1> DEFINE M(k) == iter[1 .. k]
           Upto(k) == /\ M(k) \in D
                      /\ ToSet(M(k).out) \ {0}
                           = {c \in i .. i + k - 1 : Spelled(pt, c)}
           T == {k \in 0 .. n : Upto(k)}
<1>8. 0 \in T
  <2>1. 1 .. 0 = {} /\ {} \in C /\ i .. i + 0 - 1 = {}
    BY <1>2
  <2>2. M(0) = base
    BY <1>7, <2>1
  <2>3. ToSet(<<>>) = {}
    BY DEF ToSet
  <2>4. Upto(0)
    <3> HIDE DEF M, D
    <3> QED
      BY <1>4, <2>1, <2>2, <2>3
  <2>5. 0 \in 0 .. n
    BY <1>2
  <2> HIDE DEF Upto
  <2> QED
    BY <2>4, <2>5
<1>9. ASSUME NEW k \in 1 .. n, k - 1 \in T PROVE k \in T
  <2> DEFINE a == M(k - 1)
             c == seq[k]
             b == Add(a, c)
  <2>1. M(k) = b
    <3>0. k \in Nat \ {0} /\ k <= n
      BY <1>2
    <3>1. 1 .. k \in C /\ 1 .. k # {} /\ k \in 1 .. k /\ (1 .. k) \ {k} = 1 .. k - 1
      <4>1. k \in 1 .. k
        BY <3>0
      <4>2. 1 .. k \in C
        BY <1>2, <3>0
      <4>3. \A q : q \in (1 .. k) \ {k} <=> q \in 1 .. k - 1
        BY <3>0
      <4> QED
        BY <4>1, <4>2, <4>3
    <3>2. Max(1 .. k) = k
      <4>1. k \in Nat /\ 1 .. k \subseteq 0 .. k /\ 1 .. k # {}
        BY <3>0, <3>1
      <4>2. Max(1 .. k) \in 1 .. k /\ \A q \in 1 .. k : Max(1 .. k) >= q
        BY <4>1, MaxIs
      <4> QED
        BY <3>1, <4>2
    <3> QED
      BY <1>7, <3>1, <3>2
  <2>2. Upto(k - 1)
    BY <1>9
  <2>3. /\ a \in D
        /\ ToSet(a.out) \ {0} = {q \in i .. i + (k - 1) - 1 : Spelled(pt, q)}
    BY <2>2
  <2>4. c \in i .. j /\ c = i + k - 1
    BY <1>3
  <2> HIDE DEF a, c, M
  <2>5. /\ b \in D
        /\ ToSet(b.out) \ {0}
             = (ToSet(a.out) \ {0}) \cup (IF Spelled(pt, c) THEN {c} ELSE {})
    BY <1>5, <2>3, <2>4
  <2> HIDE DEF b
  <2>6. \A q : q \in i .. i + k - 1 <=> q \in i .. i + (k - 1) - 1 \/ q = c
    BY <1>2, <2>4
  <2>7. {q \in i .. i + k - 1 : Spelled(pt, q)}
          = {q \in i .. i + (k - 1) - 1 : Spelled(pt, q)}
              \cup (IF Spelled(pt, c) THEN {c} ELSE {})
    BY <2>6
  <2> HIDE DEF D
  <2>8. Upto(k)
    BY <2>1, <2>3, <2>5, <2>7
  <2>9. k \in 0 .. n
    BY <1>2
  <2> HIDE DEF Upto
  <2> QED
    BY <2>8, <2>9
<1>10. Upto(n)
  <2>1. \A k \in 0 .. n : k \in T
    <3> HIDE DEF T
    <3> QED
      BY <1>2, <1>8, <1>9, Climb
  <2>2. n \in 0 .. n
    BY <1>2
  <2> HIDE DEF Upto
  <2> QED
    BY <2>1, <2>2
<1>11. i + n - 1 = j
  BY <1>2 DEF n
<1>12. Extract(pt, i, j) = M(n).out
  BY <1>1, <1>3
<1> HIDE DEF M
<1> QED
  BY <1>10, <1>11, <1>12

(* The edges of the rectangle around some characters are edges of theirs.  *)
LEMMA HullIs ==
    ASSUME NEW pt, IsPageText(pt), NEW K, K \subseteq Carets(pt), K # {}
    PROVE  LET r == Hull({pt.chars[k] : k \in K})
           IN  /\ \E a \in K : r.x0 = pt.chars[a].x
               /\ \E a \in K : r.x1 = pt.chars[a].x + pt.chars[a].w
               /\ \E a \in K : r.y0 = pt.chars[a].y
               /\ \E a \in K : r.y1 = pt.chars[a].y + pt.chars[a].h
               /\ \A k \in K : /\ r.x0 <= pt.chars[k].x /\ pt.chars[k].x + pt.chars[k].w <= r.x1
                                /\ r.y0 <= pt.chars[k].y /\ pt.chars[k].y + pt.chars[k].h <= r.y1
<1> DEFINE cells == {pt.chars[k] : k \in K}
           n == LastCaret(pt)
           left == [k \in 1 .. n |-> pt.chars[k].x]
           upper == [k \in 1 .. n |-> pt.chars[k].y]
           right == [k \in 1 .. n |-> pt.chars[k].x + pt.chars[k].w]
           lower == [k \in 1 .. n |-> pt.chars[k].y + pt.chars[k].h]
<1>1. /\ n \in Nat /\ K \subseteq 1 .. n
      /\ left \in [1 .. n -> Nat] /\ right \in [1 .. n -> Nat]
      /\ upper \in [1 .. n -> Nat] /\ lower \in [1 .. n -> Nat]
  BY TextFacts, SMTT(30)
<1> HIDE DEF n
<1>2. ASSUME NEW f \in [1 .. n -> Nat]
      PROVE  /\ LET m == Min({f[k] : k \in K})
                 IN  (\E a \in K : m = f[a]) /\ \A k \in K : m <= f[k]
             /\ LET m == Max({f[k] : k \in K})
                 IN  (\E a \in K : m = f[a]) /\ \A k \in K : m >= f[k]
  <2> DEFINE V == {f[k] : k \in K}
  <2>1. V \subseteq Nat /\ V # {} /\ \A k \in K : f[k] \in V
    BY <1>1
  <2>2. PICK a \in K : \A b \in K : f[b] <= f[a]
    BY <1>1, GreatestValue
  <2>3. f[a] \in Nat /\ V \subseteq 0 .. f[a]
    BY <1>1, <2>2
  <2>4. \A v \in V : \E b \in K : v = f[b]
    OBVIOUS
  <2> HIDE DEF V
  <2>5. Min(V) \in V /\ \A v \in V : Min(V) <= v
    BY <2>1, MinIs
  <2>6. Max(V) \in V /\ \A v \in V : Max(V) >= v
    BY <2>1, <2>3, MaxIs
  <2>7. /\ (\E b \in K : Min(V) = f[b]) /\ \A k \in K : Min(V) <= f[k]
        /\ (\E b \in K : Max(V) = f[b]) /\ \A k \in K : Max(V) >= f[k]
    BY <2>1, <2>4, <2>5, <2>6
  <2> QED
    BY <2>7 DEF V
<1>3. /\ {c.x : c \in cells} = {left[k] : k \in K}
      /\ {c.x + c.w : c \in cells} = {right[k] : k \in K}
      /\ {c.y : c \in cells} = {upper[k] : k \in K}
      /\ {c.y + c.h : c \in cells} = {lower[k] : k \in K}
  BY <1>1
<1>4. /\ Hull(cells).x0 = Min({left[k] : k \in K}) /\ Hull(cells).x1 = Max({right[k] : k \in K})
      /\ Hull(cells).y0 = Min({upper[k] : k \in K}) /\ Hull(cells).y1 = Max({lower[k] : k \in K})
  <2> HIDE DEF cells, left, right, upper, lower
  <2> QED
    BY <1>3 DEF Hull
<1> DEFINE r == Hull(cells)
<1> HIDE DEF r, cells
<1>5. /\ (\E a \in K : r.x0 = left[a]) /\ \A k \in K : r.x0 <= left[k]
      /\ (\E a \in K : r.x1 = right[a]) /\ \A k \in K : r.x1 >= right[k]
      /\ (\E a \in K : r.y0 = upper[a]) /\ \A k \in K : r.y0 <= upper[k]
      /\ (\E a \in K : r.y1 = lower[a]) /\ \A k \in K : r.y1 >= lower[k]
  <2> HIDE DEF left, right, upper, lower
  <2>1. (\E a \in K : r.x0 = left[a]) /\ \A k \in K : r.x0 <= left[k]
    BY <1>1, <1>2, <1>4 DEF r
  <2>2. (\E a \in K : r.x1 = right[a]) /\ \A k \in K : r.x1 >= right[k]
    BY <1>1, <1>2, <1>4 DEF r
  <2>3. (\E a \in K : r.y0 = upper[a]) /\ \A k \in K : r.y0 <= upper[k]
    BY <1>1, <1>2, <1>4 DEF r
  <2>4. (\E a \in K : r.y1 = lower[a]) /\ \A k \in K : r.y1 >= lower[k]
    BY <1>1, <1>2, <1>4 DEF r
  <2> QED
    BY <2>1, <2>2, <2>3, <2>4
<1>6. /\ \E a \in K : r.x0 = pt.chars[a].x
      /\ \E a \in K : r.x1 = pt.chars[a].x + pt.chars[a].w
      /\ \E a \in K : r.y0 = pt.chars[a].y
      /\ \E a \in K : r.y1 = pt.chars[a].y + pt.chars[a].h
      /\ \A k \in K : /\ r.x0 <= pt.chars[k].x /\ pt.chars[k].x + pt.chars[k].w <= r.x1
                       /\ r.y0 <= pt.chars[k].y /\ pt.chars[k].y + pt.chars[k].h <= r.y1
  <2>1. \A k \in K : /\ left[k] = pt.chars[k].x /\ upper[k] = pt.chars[k].y
                      /\ right[k] = pt.chars[k].x + pt.chars[k].w
                      /\ lower[k] = pt.chars[k].y + pt.chars[k].h
                      /\ right[k] \in Nat /\ lower[k] \in Nat
    BY <1>1
  <2>2. /\ \A k \in K : right[k] <= r.x1 /\ lower[k] <= r.y1
    <3>1. r.x1 \in Nat /\ r.y1 \in Nat
      BY <1>5, <2>1
    <3> QED
      BY <1>5, <2>1, <3>1
  <2> HIDE DEF left, right, upper, lower
  <2> QED
    BY <1>5, <2>1, <2>2
<1> QED
  BY <1>6 DEF r, cells
(* The characters with ink that a selection has on a line                  *)
Picked(pt, i, j, m) ==
    {k \in i .. j : pt.line[k] = m /\ pt.chars[k].w > 0 /\ pt.chars[k].h > 0}

Bands(pt, i, j) ==
    {Hull({pt.chars[k] : k \in Picked(pt, i, j, m)}) :
       m \in {q \in pt.line[i] .. pt.line[j] : Picked(pt, i, j, q) # {}}}

(* range_to_rects, on a page that is read line by line: one rectangle      *)
(* around them for each line.                                              *)
LEMMA RectsAre ==
    ASSUME NEW pt, IsPageText(pt), InReadingOrder(pt),
           NEW i \in Carets(pt), NEW j \in Carets(pt), i <= j
    PROVE  /\ \A k \in i .. j : pt.line[k] \in pt.line[i] .. pt.line[j]
           /\ RangeToRects(pt, i, j) = Bands(pt, i, j)
<1> DEFINE touched == {pt.line[k] : k \in i .. j}
           On(m) == {k \in OnLine(pt, m) :
                       /\ k >= (IF m = Min(touched) THEN i ELSE LineStart(pt, m))
                       /\ k <= (IF m = Max(touched) THEN j ELSE LineEnd(pt, m))
                       /\ pt.chars[k].w > 0 /\ pt.chars[k].h > 0}
           Band(m) == {pt.chars[k] : k \in On(m)}
<1>1. /\ i \in Nat /\ j \in Nat /\ Carets(pt) \subseteq Nat
      /\ \A k \in i .. j : k \in Carets(pt)
      /\ \A k \in Carets(pt) : pt.line[k] \in Nat
  BY TextFacts
<1>2. \A a, b \in Carets(pt) : a <= b => pt.line[a] <= pt.line[b]
  <2>1. \A a, b \in Carets(pt) : a < b => pt.line[a] <= pt.line[b]
    BY DEF InReadingOrder
  <2> QED
    BY <1>1, <2>1
<1>3. \A k \in i .. j : pt.line[k] \in pt.line[i] .. pt.line[j]
  BY <1>1, <1>2
<1>4. Min(touched) = pt.line[i] /\ Max(touched) = pt.line[j]
  <2>1. /\ touched \subseteq Nat /\ touched \subseteq 0 .. pt.line[j] /\ touched # {}
        /\ pt.line[i] \in touched /\ pt.line[j] \in touched
        /\ \A m \in touched : m \in pt.line[i] .. pt.line[j]
        /\ pt.line[j] \in Nat /\ pt.line[i] \in Nat
    BY <1>1, <1>3
  <2> HIDE DEF touched
  <2>2. Min(touched) \in touched /\ Min(touched) <= pt.line[i]
    BY <2>1, MinIs
  <2>3. Max(touched) \in touched /\ Max(touched) >= pt.line[j]
    BY <2>1, MaxIs
  <2>4. /\ Min(touched) \in Nat /\ Min(touched) \in pt.line[i] .. pt.line[j]
        /\ Max(touched) \in Nat /\ Max(touched) \in pt.line[i] .. pt.line[j]
    BY <2>1, <2>2, <2>3
  <2>5. pt.line[i] \in Nat /\ pt.line[j] \in Nat
    BY <2>1
  <2> QED
    BY <2>2, <2>3, <2>4, <2>5
<1>5. RangeToRects(pt, i, j) = {Hull(Band(m)) : m \in {q \in Min(touched) .. Max(touched) : Band(q) # {}}}
  BY DEF RangeToRects
<1> HIDE DEF touched
<1>6. ASSUME NEW m \in pt.line[i] .. pt.line[j] PROVE On(m) = Picked(pt, i, j, m)
  <2>1. ASSUME NEW k \in On(m) PROVE k \in Picked(pt, i, j, m)
    <3>1. /\ k \in Carets(pt) /\ pt.line[k] = m
          /\ pt.chars[k].w > 0 /\ pt.chars[k].h > 0
          /\ m = pt.line[i] => k >= i
          /\ m = pt.line[j] => k <= j
      BY <1>4 DEF OnLine
    <3>2. k >= i
      BY <1>1, <1>2, <3>1
    <3>3. k <= j
      BY <1>1, <1>2, <3>1
    <3> QED
      BY <1>1, <3>1, <3>2, <3>3 DEF Picked
  <2>2. ASSUME NEW k \in Picked(pt, i, j, m) PROVE k \in On(m)
    <3>1. /\ k \in i .. j /\ k \in OnLine(pt, m) /\ pt.chars[k].w > 0 /\ pt.chars[k].h > 0
      BY <1>1 DEF Picked, OnLine
    <3>2. LineStart(pt, m) <= k /\ LineEnd(pt, m) >= k /\ k \in Nat
          /\ LineEnd(pt, m) \in Nat /\ LineStart(pt, m) \in Nat
      <4>1. OnLine(pt, m) \subseteq Carets(pt) /\ OnLine(pt, m) # {}
        BY <3>1 DEF OnLine
      <4> QED
        BY <1>1, <3>1, <4>1, LeastCaret DEF LineStart, LineEnd
    <3>3. k >= i /\ k <= j
      BY <1>1, <3>1
    <3> QED
      BY <3>1, <3>2, <3>3
  <2> HIDE DEF On
  <2> QED
    BY <2>1, <2>2
<1> HIDE DEF On
<1>7. \A m \in pt.line[i] .. pt.line[j] : Band(m) # {} <=> Picked(pt, i, j, m) # {}
  BY <1>6
<1> QED
  BY <1>3, <1>4, <1>5, <1>6, <1>7 DEF Bands

(* On a page that is read line by line the rectangle of a line has the     *)
(* middle of the characters between the first and the last with ink.       *)
LEMMA BandHas ==
    ASSUME NEW pt, IsPageText(pt), InReadingOrder(pt),
           NEW i \in Carets(pt), NEW j \in Carets(pt), i <= j,
           NEW m, Picked(pt, i, j, m) # {},
           NEW k \in Carets(pt), ~ pt.chars[k].generated
    PROVE  LET r == Hull({pt.chars[q] : q \in Picked(pt, i, j, m)})
           IN  /\ InRect(pt.chars[k], r) => k \in i .. j /\ pt.line[k] = m
               /\ k \in Picked(pt, i, j, m) => InRect(pt.chars[k], r)
<1> DEFINE K == Picked(pt, i, j, m)
           c == pt.chars[k]
           r == Hull({pt.chars[q] : q \in K})
<1>1. /\ i \in Nat /\ j \in Nat /\ k \in Nat
      /\ \A q \in i .. j : q \in Carets(pt)
      /\ \A q \in Carets(pt) : /\ pt.chars[q].x \in Nat /\ pt.chars[q].y \in Nat
                               /\ pt.chars[q].w \in Nat /\ pt.chars[q].h \in Nat
                               /\ pt.line[q] \in Nat
  BY TextFacts
<1>2. K \subseteq i .. j /\ K \subseteq Carets(pt) /\ K # {}
      /\ \A a \in K : pt.line[a] = m /\ pt.chars[a].w > 0 /\ pt.chars[a].h > 0
  BY <1>1 DEF Picked
<1> HIDE DEF K
<1>3. /\ \E a \in K : r.x0 = pt.chars[a].x
      /\ \E a \in K : r.x1 = pt.chars[a].x + pt.chars[a].w
      /\ \E a \in K : r.y0 = pt.chars[a].y
      /\ \E a \in K : r.y1 = pt.chars[a].y + pt.chars[a].h
      /\ \A q \in K : /\ r.x0 <= pt.chars[q].x /\ pt.chars[q].x + pt.chars[q].w <= r.x1
                       /\ r.y0 <= pt.chars[q].y /\ pt.chars[q].y + pt.chars[q].h <= r.y1
  BY <1>2, HullIs
<1>4. \A a, b \in K :
        /\ pt.line[k] # m => \/ CentreY(c) < 2 * pt.chars[a].y
                             \/ CentreY(c) > 2 * (pt.chars[b].y + pt.chars[b].h)
        /\ pt.line[k] = m /\ k < a => CentreX(c) < 2 * pt.chars[a].x
        /\ pt.line[k] = m /\ k > a => CentreX(c) > 2 * (pt.chars[a].x + pt.chars[a].w)
  BY <1>2 DEF InReadingOrder
<1> HIDE DEF r
<1>5. ASSUME InRect(c, r) PROVE k \in i .. j /\ pt.line[k] = m
  <2>1. /\ 2 * r.x0 <= CentreX(c) /\ CentreX(c) <= 2 * r.x1
        /\ 2 * r.y0 <= CentreY(c) /\ CentreY(c) <= 2 * r.y1
        /\ CentreX(c) \in Nat /\ CentreY(c) \in Nat
    BY <1>1, <1>5 DEF InRect, CentreX, CentreY
  <2>2. pt.line[k] = m
    <3>1. PICK a \in K : r.y0 = pt.chars[a].y
      BY <1>3
    <3>2. PICK b \in K : r.y1 = pt.chars[b].y + pt.chars[b].h
      BY <1>3
    <3>3. /\ ~ (CentreY(c) < 2 * pt.chars[a].y)
          /\ ~ (CentreY(c) > 2 * (pt.chars[b].y + pt.chars[b].h))
      <4>1. r.y0 \in Nat /\ r.y1 \in Nat
        BY <1>1, <1>2, <3>1, <3>2
      <4> QED
        BY <2>1, <3>1, <3>2, <4>1
    <3> QED
      BY <1>4, <3>3
  <2>3. k >= i
    <3>1. PICK a \in K : r.x0 = pt.chars[a].x
      BY <1>3
    <3>2. r.x0 \in Nat /\ a \in Nat /\ a >= i
      BY <1>1, <1>2, <3>1
    <3>3. ~ (CentreX(c) < 2 * pt.chars[a].x)
      BY <2>1, <3>1, <3>2
    <3>4. ~ (k < a)
      BY <1>4, <2>2, <3>3
    <3> QED
      BY <1>1, <3>2, <3>4
  <2>4. k <= j
    <3>1. PICK a \in K : r.x1 = pt.chars[a].x + pt.chars[a].w
      BY <1>3
    <3>2. r.x1 \in Nat /\ a \in Nat /\ a <= j
      BY <1>1, <1>2, <3>1
    <3>3. ~ (CentreX(c) > 2 * (pt.chars[a].x + pt.chars[a].w))
      BY <2>1, <3>1, <3>2
    <3>4. ~ (k > a)
      BY <1>4, <2>2, <3>3
    <3> QED
      BY <1>1, <3>2, <3>4
  <2> QED
    BY <1>1, <2>2, <2>3, <2>4
<1>6. ASSUME k \in K PROVE InRect(c, r)
  <2>1. /\ r.x0 <= c.x /\ c.x + c.w <= r.x1 /\ r.y0 <= c.y /\ c.y + c.h <= r.y1
    BY <1>3, <1>6
  <2>2. /\ c.x \in Nat /\ c.y \in Nat /\ c.w \in Nat /\ c.h \in Nat
        /\ r.x0 \in Nat /\ r.x1 \in Nat /\ r.y0 \in Nat /\ r.y1 \in Nat
    <3>1. c.x \in Nat /\ c.y \in Nat /\ c.w \in Nat /\ c.h \in Nat
      BY <1>1
    <3>2. \A a \in K : /\ pt.chars[a].x \in Nat /\ pt.chars[a].x + pt.chars[a].w \in Nat
                        /\ pt.chars[a].y \in Nat /\ pt.chars[a].y + pt.chars[a].h \in Nat
      BY <1>1, <1>2
    <3>3. r.x0 \in Nat /\ r.x1 \in Nat /\ r.y0 \in Nat /\ r.y1 \in Nat
      BY <1>3, <3>2
    <3> QED
      BY <3>1, <3>3
  <2> HIDE DEF c
  <2> QED
    BY <2>1, <2>2 DEF InRect, CentreX, CentreY
<1> QED
  BY <1>5, <1>6 DEF r, K

(* What a selection shows, takes, saves and quotes, on such a page         *)
LEMMA SelectionOn ==
    ASSUME NEW pt, IsPageText(pt), InReadingOrder(pt)
    PROVE  SelectionSound(pt)
<1> DEFINE Shows(k) == ~ pt.chars[k].generated /\ pt.chars[k].w > 0 /\ pt.chars[k].h > 0
<1> SUFFICES ASSUME NEW i \in Carets(pt), NEW j \in Carets(pt), i <= j
             PROVE  LET rects == RangeToRects(pt, i, j)
                        shown == {k \in Carets(pt) :
                                    Shows(k) /\ \E r \in rects : InRect(pt.chars[k], r)}
                        taken == {k \in ToSet(Extract(pt, i, j)) \ {0} : Shows(k)}
                        quoted == (UNION {ToSet(TextForHighlight(pt, r)) : r \in rects}) \ {0}
                    IN  /\ shown = {k \in i .. j : Shows(k)}
                        /\ taken = {k \in shown : pt.chars[k].ch # NoChar}
                        /\ taken = {k \in quoted : Shows(k)}
  BY DEF SelectionSound
<1> DEFINE rects == RangeToRects(pt, i, j)
           quoted == (UNION {ToSet(TextForHighlight(pt, r)) : r \in rects}) \ {0}
           seen == {k \in i .. j : Shows(k)}
           read == {k \in seen : pt.chars[k].ch # NoChar}
           Around(m) == Hull({pt.chars[k] : k \in Picked(pt, i, j, m)})
<1>1. /\ i \in Nat /\ j \in Nat /\ Carets(pt) \subseteq Nat \ {0}
      /\ \A k \in i .. j : k \in Carets(pt)
  BY TextFacts
<1>2. {k \in ToSet(Extract(pt, i, j)) \ {0} : Shows(k)} = read
  BY ExtractIs DEF Spelled
<1>3. /\ \A r \in rects : \E m \in pt.line[i] .. pt.line[j] :
            Picked(pt, i, j, m) # {} /\ r = Around(m)
      /\ \A m \in pt.line[i] .. pt.line[j] : Picked(pt, i, j, m) # {} => Around(m) \in rects
      /\ \A k \in i .. j : pt.line[k] \in pt.line[i] .. pt.line[j]
  <2> HIDE DEF Around
  <2>0. rects = Bands(pt, i, j)
    BY RectsAre
  <2>1. rects = {Around(m) : m \in {q \in pt.line[i] .. pt.line[j] : Picked(pt, i, j, q) # {}}}
    BY <2>0 DEF Around, Bands
  <2>2. \A k \in i .. j : pt.line[k] \in pt.line[i] .. pt.line[j]
    BY RectsAre
  <2> HIDE DEF rects
  <2> QED
    BY <2>1, <2>2
<1> HIDE DEF rects
<1>4. ASSUME NEW r \in rects, NEW k \in Carets(pt), ~ pt.chars[k].generated, InRect(pt.chars[k], r)
      PROVE  k \in i .. j
  <2>1. PICK m \in pt.line[i] .. pt.line[j] : Picked(pt, i, j, m) # {} /\ r = Around(m)
    BY <1>3
  <2> QED
    BY <1>4, <2>1, BandHas
<1>5. ASSUME NEW k \in seen
      PROVE  \E r \in rects : InRect(pt.chars[k], r)
  <2> DEFINE m == pt.line[k]
  <2>1. k \in Picked(pt, i, j, m) /\ m \in pt.line[i] .. pt.line[j]
        /\ k \in Carets(pt) /\ ~ pt.chars[k].generated
    BY <1>1, <1>3 DEF Picked
  <2>2. InRect(pt.chars[k], Around(m))
    BY <2>1, BandHas
  <2>3. Around(m) \in rects
    BY <1>3, <2>1
  <2> QED
    BY <2>2, <2>3
<1> HIDE DEF Around
<1>6. seen = {k \in Carets(pt) : Shows(k) /\ \E r \in rects : InRect(pt.chars[k], r)}
  BY <1>1, <1>4, <1>5
<1>7. ASSUME NEW r \in rects
      PROVE  /\ ToSet(TextForHighlight(pt, r)) \ {0} \subseteq {k \in i .. j : Spelled(pt, k)}
             /\ \A k \in read : InRect(pt.chars[k], r) =>
                   k \in ToSet(TextForHighlight(pt, r)) \ {0}
  <2> DEFINE hit == {k \in Carets(pt) : ~ pt.chars[k].generated /\ InRect(pt.chars[k], r)}
  <2>1. hit \subseteq Carets(pt) /\ hit \subseteq i .. j
        /\ \A k \in read : InRect(pt.chars[k], r) => k \in hit /\ Spelled(pt, k)
    BY <1>1, <1>4 DEF Spelled
  <2>2. TextForHighlight(pt, r) = IF hit = {} THEN <<>> ELSE Extract(pt, Min(hit), Max(hit))
    BY DEF TextForHighlight
  <2> HIDE DEF hit
  <2>3. CASE hit = {}
    <3>1. ToSet(<<>>) = {}
      BY DEF ToSet
    <3> QED
      BY <2>1, <2>2, <2>3, <3>1
  <2>4. CASE hit # {}
    <3>1. /\ Min(hit) \in hit /\ Max(hit) \in hit
          /\ \A k \in hit : Min(hit) <= k /\ k <= Max(hit)
      <4>1. /\ Min(hit) \in hit /\ Max(hit) \in hit
            /\ \A k \in hit : Min(hit) <= k /\ Max(hit) >= k
        BY <2>1, <2>4, LeastCaret
      <4> QED
        BY <1>1, <2>1, <4>1
    <3>2. /\ Min(hit) \in Carets(pt) /\ Max(hit) \in Carets(pt) /\ Min(hit) <= Max(hit)
          /\ i <= Min(hit) /\ Max(hit) <= j
      <4>1. /\ Min(hit) \in Carets(pt) /\ Max(hit) \in Carets(pt)
            /\ Min(hit) \in i .. j /\ Max(hit) \in i .. j /\ Min(hit) <= Max(hit)
        BY <2>1, <3>1
      <4> QED
        BY <1>1, <4>1
    <3>3. ToSet(Extract(pt, Min(hit), Max(hit))) \ {0}
            = {k \in Min(hit) .. Max(hit) : Spelled(pt, k)}
      BY <3>2, ExtractIs
    <3>4. Min(hit) .. Max(hit) \subseteq i .. j
      BY <1>1, <3>2
    <3>5. \A k \in hit : k \in Min(hit) .. Max(hit)
      BY <1>1, <2>1, <3>1
    <3> QED
      BY <2>1, <2>2, <2>4, <3>3, <3>4, <3>5
  <2> QED
    BY <2>3, <2>4
<1>8. read = {k \in quoted : Shows(k)}
  <2>1. ASSUME NEW k \in read PROVE k \in quoted
    <3>1. PICK r \in rects : InRect(pt.chars[k], r)
      BY <1>5
    <3>2. k \in ToSet(TextForHighlight(pt, r)) /\ k # 0
      BY <1>7, <3>1
    <3> QED
      BY <3>2
  <2>2. ASSUME NEW k \in quoted PROVE k \in i .. j /\ Spelled(pt, k)
    <3>1. PICK r \in rects : k \in ToSet(TextForHighlight(pt, r)) \ {0}
      OBVIOUS
    <3> QED
      BY <1>7, <3>1
  <2> HIDE DEF quoted
  <2> QED
    BY <2>1, <2>2 DEF Spelled
<1> HIDE DEF seen, read, quoted
<1>9. seen = {k \in i .. j : Shows(k)} /\ read = {k \in seen : pt.chars[k].ch # NoChar}
  BY DEF seen, read
<1>10. quoted = (UNION {ToSet(TextForHighlight(pt, r)) : r \in rects}) \ {0}
  BY DEF quoted
<1> HIDE DEF Shows
<1> QED
  BY <1>2, <1>6, <1>8, <1>9, <1>10 DEF rects

(* What a selection paints and saves is its range; what it yanks, and what *)
(* `:export` later quotes, is what is painted less the characters without  *)
(* a unicode value: on every page that is read line by line                *)
(* (range_to_rects, extract in textlayout.rs; text_for_highlight).         *)
THEOREM ShownIsAlwaysTaken == MCSpec => []ShownIsTaken
<1>1. IsPageText(textPage) => ShownIsTaken
  BY SelectionOn DEF ShownIsTaken
<1> QED
  BY <1>1, TextAlwaysLoaded, PTL

-----------------------------------------------------------------------------
(* The cells of a frame.                                                   *)

LEMMA CellPlace ==
    ASSUME NEW i \in Nat
    PROVE  /\ RowOf(i) \in Nat /\ ColOf(i) \in 0 .. AreaCols - 1
           /\ i = FirstCell(RowOf(i)) + ColOf(i)
BY PlacementAssumption DEF RowOf, ColOf, FirstCell

LEMMA SameProduct ==
    ASSUME NEW a \in Nat \ {0}, NEW q \in Nat, NEW r \in Nat, q < r
    PROVE  q * a + a <= r * a
<1>1. r - q - 1 \in Nat
  OBVIOUS
<1>2. (r - q - 1) * a \in Nat
  BY <1>1
<1> QED
  BY <1>2

LEMMA CellAt ==
    ASSUME NEW r \in Nat, NEW c \in 0 .. AreaCols - 1
    PROVE  RowOf(FirstCell(r) + c) = r /\ ColOf(FirstCell(r) + c) = c
<1> DEFINE i == FirstCell(r) + c
<1>1. AreaCols \in Nat \ {0}
  BY PlacementAssumption
<1>2. i \in Nat /\ FirstCell(r) = r * AreaCols
  BY <1>1 DEF FirstCell
<1>3. RowOf(i) \in Nat /\ ColOf(i) \in 0 .. AreaCols - 1 /\ i = RowOf(i) * AreaCols + ColOf(i)
  BY <1>2, CellPlace DEF FirstCell
<1>4. ~ (r < RowOf(i))
  BY <1>1, <1>2, <1>3, SameProduct
<1>5. ~ (RowOf(i) < r)
  BY <1>1, <1>2, <1>3, SameProduct
<1>6. RowOf(i) = r
  BY <1>3, <1>4, <1>5
<1> QED
  BY <1>1, <1>2, <1>3, <1>6

(* The cells of a frame.  Wide symbols are the escapes that paint a row of *)
(* a page and that clear a row of the area.                                *)

Wide(c) == c.sym.kind \in {"clear", "row"}

RowSpan(buf, j) == j + 1 .. j + buf[j].sym.width - 1

(* What every buffer a frame leaves is like: right of the first cell of a  *)
(* row of a page are cells marked skip and labels, right of any other wide *)
(* symbol is an empty cell, and no wide symbol is next to or under another *)
(* one that clears.                                                        *)
Framed(buf) ==
    /\ \A i \in CellIds :
         /\ buf[i].sym.kind \in {"empty", "filled", "clear", "label", "row"}
         /\ buf[i].skip \in BOOLEAN
    /\ \A i \in CellIds : Wide(buf[i]) => ~ buf[i].skip /\ (i > 0 => ~ Wide(buf[i - 1]))
    /\ \A i \in CellIds : buf[i].sym.kind = "row" =>
         /\ buf[i].sym.width \in Nat \ {0}
         /\ \A k \in RowSpan(buf, i) :
              /\ k \in CellIds /\ buf[k].sym.kind \in {"empty", "label"}
              /\ buf[k].skip <=> buf[k].sym.kind = "empty"
         /\ buf[i].sym.width = 1 /\ i + 1 \in CellIds => buf[i + 1] = EmptyCell
    /\ \A i \in CellIds : buf[i].sym.kind = "clear" =>
         /\ i + 1 \in CellIds => buf[i + 1] = EmptyCell
         /\ \A k \in 0 .. i - 1 : i \notin Painted(buf, k)
    /\ \A i \in CellIds : buf[i].sym.kind = "label" =>
         ~ buf[i].skip /\ (i > 0 => ~ Wide(buf[i - 1]))
    /\ \A i \in CellIds : buf[i].skip =>
         \E j \in CellIds : buf[j].sym.kind = "row" /\ i \in RowSpan(buf, j)

(* A terminal that shows a buffer, but for labels left on a page's row.    *)
ShowsCells(buf, g) ==
    \A i \in CellIds : ~ buf[i].skip /\ (i > 0 => ~ Wide(buf[i - 1])) => g[i] = Look(buf[i].sym, 0)

ShowsGaps(buf, g) ==
    \A i \in CellIds :
      i + 1 \in CellIds /\ Wide(buf[i]) /\ (buf[i].sym.kind = "row" => buf[i].sym.width = 1)
        => g[i + 1] = Bare

ShowsRows(buf, g) ==
    \A i \in CellIds : buf[i].sym.kind = "row" =>
      \A k \in RowSpan(buf, i) : g[k] = Look(buf[i].sym, k - i) \/ Len(g[k]) = 1

LEMMA WidthOf ==
    ASSUME NEW buf, Framed(buf), NEW i \in CellIds
    PROVE  /\ SymbolWidth(buf[i]) \in Nat \ {0}
           /\ SymbolWidth(buf[i]) = 1 <=> ~ Wide(buf[i])
           /\ i \in Painted(buf, i)
           /\ \A k \in Painted(buf, i) : k \in Int /\ k >= i /\ SymbolWidth(buf[i]) > k - i
           /\ ~ Wide(buf[i]) => Painted(buf, i) = {i}
<1>0. i \in Nat
  BY PlacementAssumption DEF CellIds
<1>1. CASE buf[i].sym.kind = "clear"
  BY <1>0, <1>1, PlacementAssumption DEF SymbolWidth, Painted, Wide
<1>2. CASE buf[i].sym.kind = "row"
  <2>1. buf[i].sym.width \in Nat \ {0}
    BY <1>2 DEF Framed
  <2> QED
    BY <1>0, <1>2, <2>1, PlacementAssumption DEF SymbolWidth, Painted, Wide
<1>3. CASE buf[i].sym.kind \notin {"clear", "row"}
  BY <1>0, <1>3 DEF SymbolWidth, Painted, Wide
<1> QED
  BY <1>1, <1>2, <1>3

(* Which symbols a cell of the terminal may show after a frame.            *)
PaintedBy(old, new, i) == {j \in Written(old, new) : i \in Painted(new, j)}

LEMMA FlushedCell ==
    ASSUME NEW old, NEW new, Framed(new), NEW i \in CellIds
    PROVE  /\ PaintedBy(old, new, i) = {} => Flushed(old, new)[i] = grid[i]
           /\ PaintedBy(old, new, i) # {} =>
                \E m \in PaintedBy(old, new, i) :
                  /\ \A j \in PaintedBy(old, new, i) : j <= m
                  /\ Flushed(old, new)[i] = Look(new[m].sym, i - m)
           /\ \A j \in PaintedBy(old, new, i) : j \in 0 .. i /\ j \in CellIds
<1> DEFINE by == PaintedBy(old, new, i)
<1>1. Flushed(old, new)[i] = IF by = {} THEN grid[i] ELSE Look(new[Max(by)].sym, i - Max(by))
  BY DEF Flushed, PaintedBy
<1>2. i \in Nat /\ \A j \in by : j \in CellIds /\ j \in Nat /\ i \in Painted(new, j)
  BY PlacementAssumption DEF PaintedBy, Written, CellIds
<1>3. \A j \in by : j \in 0 .. i /\ j \in CellIds
  BY <1>2, WidthOf
<1> HIDE DEF by
<1>4. by # {} => Max(by) \in by /\ \A j \in by : j <= Max(by)
  <2>1. by \subseteq 0 .. i
    BY <1>3
  <2>2. by # {} => Max(by) \in by /\ \A j \in by : Max(by) >= j
    BY <1>2, <2>1, MaxIs
  <2> QED
    BY <1>2, <2>1, <2>2
<1>5. by = PaintedBy(old, new, i)
  BY DEF by
<1> QED
  BY <1>1, <1>3, <1>4, <1>5

(* A cell that is neither marked nor after a wide symbol is written, or it *)
(* was the same before and nothing reaches it.                             *)
LEMMA WrittenOrSame ==
    ASSUME NEW old, NEW new, Framed(old), Framed(new), NEW i \in CellIds,
           ~ new[i].skip, i > 0 => ~ Wide(new[i - 1])
    PROVE  \/ i \in Written(old, new)
           \/ /\ new[i] = old[i] /\ (i > 0 => ~ Wide(old[i - 1]))
              /\ \A j \in 0 .. i - 1 : \A k \in Painted(new, j) : k < i
<1>1. i \in Nat /\ \A j \in 0 .. i - 1 : j \in CellIds
  BY PlacementAssumption DEF CellIds
<1>2. i > 0 => SymbolWidth(new[i - 1]) = 1
  BY <1>1, WidthOf
<1>3. SUFFICES ASSUME i \notin Written(old, new)
               PROVE  /\ new[i] = old[i] /\ (i > 0 => ~ Wide(old[i - 1]))
                      /\ \A j \in 0 .. i - 1 : \A k \in Painted(new, j) : k < i
  OBVIOUS
<1>4. /\ new[i] = old[i]
      /\ \A j \in 0 .. i - 1 :
           ~ (Greater(SymbolWidth(old[j]), SymbolWidth(new[j])) > i - j)
  BY <1>2, <1>3 DEF Written
<1>5. ASSUME NEW j \in 0 .. i - 1
      PROVE  SymbolWidth(old[j]) <= i - j /\ SymbolWidth(new[j]) <= i - j
  <2>1. SymbolWidth(old[j]) \in Nat /\ SymbolWidth(new[j]) \in Nat
    BY <1>1, WidthOf
  <2> QED
    BY <1>1, <1>4, <2>1 DEF Greater
<1>6. i > 0 => ~ Wide(old[i - 1])
  <2>1. i > 0 => i - 1 \in CellIds /\ SymbolWidth(old[i - 1]) <= 1
    BY <1>1, <1>5
  <2> QED
    BY <2>1, WidthOf
<1>7. ASSUME NEW j \in 0 .. i - 1, NEW k \in Painted(new, j) PROVE k < i
  <2>1. k \in Int /\ k >= j /\ SymbolWidth(new[j]) > k - j /\ SymbolWidth(new[j]) \in Nat
    BY <1>1, WidthOf
  <2> QED
    BY <1>1, <1>5, <2>1
<1> QED
  BY <1>4, <1>6, <1>7

(* What a flush leaves on the terminal shows the new buffer if what was    *)
(* there showed the old one.                                               *)
FlushFrom(old, new) ==
    /\ Framed(old) /\ Framed(new)
    /\ ShowsCells(old, grid) /\ ShowsGaps(old, grid) /\ ShowsRows(old, grid)
    /\ \A i \in CellIds :
         new[i].sym.kind = "row" /\ new[i].sym.width = 1 /\ i + 1 \in CellIds
           => grid[i + 1] = Bare

LEMMA FlushCells ==
    ASSUME NEW old, NEW new, FlushFrom(old, new)
    PROVE  ShowsCells(new, Flushed(old, new))
<1> USE DEF FlushFrom
<1> SUFFICES ASSUME NEW i \in CellIds, ~ new[i].skip, i > 0 => ~ Wide(new[i - 1])
             PROVE  Flushed(old, new)[i] = Look(new[i].sym, 0)
  BY DEF ShowsCells
<1>1. i \in Nat
  BY PlacementAssumption DEF CellIds
<1>2. CASE i \in Written(old, new)
  <2>1. i \in PaintedBy(old, new, i)
    BY <1>2, WidthOf DEF PaintedBy
  <2>2. PICK m \in PaintedBy(old, new, i) :
          /\ \A j \in PaintedBy(old, new, i) : j <= m
          /\ Flushed(old, new)[i] = Look(new[m].sym, i - m)
    BY <2>1, FlushedCell
  <2>3. m \in 0 .. i
    BY FlushedCell
  <2>4. m = i /\ i - m = 0
    BY <1>1, <2>1, <2>2, <2>3
  <2> QED
    BY <2>2, <2>4
<1>3. CASE i \notin Written(old, new)
  <2>1. /\ new[i] = old[i] /\ (i > 0 => ~ Wide(old[i - 1]))
        /\ \A j \in 0 .. i - 1 : \A k \in Painted(new, j) : k < i
    BY <1>3, WrittenOrSame
  <2>2. ASSUME NEW j \in PaintedBy(old, new, i) PROVE FALSE
    <3>1. j \in 0 .. i /\ j # i /\ i \in Painted(new, j)
      BY <1>3, FlushedCell DEF PaintedBy
    <3>2. j \in 0 .. i - 1
      BY <1>1, <3>1
    <3> QED
      BY <1>1, <2>1, <3>1, <3>2
  <2>3. Flushed(old, new)[i] = grid[i]
    BY <2>2, FlushedCell
  <2>4. grid[i] = Look(old[i].sym, 0)
    BY <2>1 DEF ShowsCells
  <2> QED
    BY <2>1, <2>3, <2>4
<1> QED
  BY <1>2, <1>3

LEMMA FlushGaps ==
    ASSUME NEW old, NEW new, FlushFrom(old, new), AreaCols > 1
    PROVE  ShowsGaps(new, Flushed(old, new))
<1> USE DEF FlushFrom
<1> SUFFICES ASSUME NEW i \in CellIds, NEW c \in CellIds, c = i + 1, Wide(new[i]),
                    new[i].sym.kind = "row" => new[i].sym.width = 1
             PROVE  Flushed(old, new)[c] = Bare
  BY DEF ShowsGaps
<1>1. i \in Nat /\ c \in Nat /\ c - 1 = i /\ c > 0
  BY PlacementAssumption DEF CellIds
<1>2. ~ new[i].skip /\ (i > 0 => ~ Wide(new[i - 1]))
  BY DEF Framed
<1>3. c \notin Written(old, new)
  <2>1. SymbolWidth(new[i]) # 1
    BY WidthOf
  <2> QED
    BY <1>1, <2>1 DEF Written
<1>4. ASSUME NEW j \in PaintedBy(old, new, c)
      PROVE  /\ j \in 0 .. i /\ j \in CellIds /\ c \in Painted(new, j) /\ Wide(new[j])
             /\ j \in Written(old, new)
  <2>1. j \in 0 .. c /\ j \in CellIds /\ c \in Painted(new, j) /\ j \in Written(old, new)
    BY FlushedCell DEF PaintedBy
  <2>2. j # c
    BY <1>3, <2>1
  <2>3. j \in 0 .. i
    BY <1>1, <2>1, <2>2
  <2>4. Wide(new[j])
    BY <2>1, <2>2, WidthOf
  <2> QED
    BY <2>1, <2>3, <2>4
<1>5. CASE new[i].sym.kind = "clear"
  <2>1. CASE i \in Written(old, new)
    <3>1. i \in PaintedBy(old, new, c)
      BY <1>1, <1>5, <2>1, PlacementAssumption, SMTT(30) DEF PaintedBy, Painted
    <3>2. PICK m \in PaintedBy(old, new, c) :
            /\ \A j \in PaintedBy(old, new, c) : j <= m
            /\ Flushed(old, new)[c] = Look(new[m].sym, c - m)
      BY <3>1, FlushedCell, SMTT(30)
    <3>3. m \in 0 .. i
      BY <1>4
    <3>4. m = i
      BY <1>1, <3>1, <3>2, <3>3
    <3> QED
      BY <1>5, <3>2, <3>4 DEF Look
  <2>2. CASE i \notin Written(old, new)
    <3>1. new[i] = old[i] /\ \A j \in 0 .. i - 1 : \A k \in Painted(new, j) : k < i
      BY <1>2, <2>2, WrittenOrSame
    <3>2. ASSUME NEW j \in PaintedBy(old, new, c) PROVE FALSE
      <4>1. j \in 0 .. i - 1
        BY <1>1, <1>4, <2>2
      <4> QED
        BY <1>1, <1>4, <3>1, <4>1
    <3>3. Flushed(old, new)[c] = grid[c]
      BY <3>2, FlushedCell
    <3>4. Wide(old[i]) /\ old[i].sym.kind # "row"
      BY <1>5, <3>1
    <3> QED
      BY <3>3, <3>4 DEF ShowsGaps
  <2> QED
    BY <2>1, <2>2
<1>6. CASE new[i].sym.kind = "row"
  <2>1. new[i].sym.width = 1 /\ Painted(new, i) = {i}
    BY <1>1, <1>6 DEF Painted
  <2>2. ASSUME NEW j \in PaintedBy(old, new, c) PROVE new[j].sym.kind = "clear"
    <3>1. j \in 0 .. i - 1
      BY <1>1, <1>4, <2>1
    <3>2. SUFFICES ASSUME new[j].sym.kind = "row" PROVE FALSE
      BY <1>4 DEF Wide
    <3>3. new[j].sym.width \in Nat /\ c \in j .. j + new[j].sym.width - 1
      BY <1>4, <3>2 DEF Framed, Painted
    <3>4. i \in RowSpan(new, j)
      BY <1>1, <3>1, <3>3 DEF RowSpan
    <3>5. new[i].sym.kind \in {"empty", "label"}
      BY <1>4, <3>2, <3>4 DEF Framed
    <3> QED
      BY <1>6, <3>5
  <2>3. grid[c] = Bare
    BY <1>6, <2>1
  <2>4. \A m \in PaintedBy(old, new, c) : Look(new[m].sym, c - m) = Bare
    BY <2>2 DEF Look
  <2>5. CASE PaintedBy(old, new, c) = {}
    BY <2>3, <2>5, FlushedCell
  <2>6. CASE PaintedBy(old, new, c) # {}
    <3>1. PICK m \in PaintedBy(old, new, c) :
            /\ \A j \in PaintedBy(old, new, c) : j <= m
            /\ Flushed(old, new)[c] = Look(new[m].sym, c - m)
      BY <2>6, FlushedCell
    <3> QED
      BY <2>4, <3>1
  <2> QED
    BY <2>5, <2>6
<1> QED
  BY <1>5, <1>6 DEF Wide

LEMMA FlushRows ==
    ASSUME NEW old, NEW new, FlushFrom(old, new)
    PROVE  ShowsRows(new, Flushed(old, new))
<1> USE DEF FlushFrom
<1> SUFFICES ASSUME NEW i \in CellIds, new[i].sym.kind = "row", NEW k \in RowSpan(new, i)
             PROVE  \/ Flushed(old, new)[k] = Look(new[i].sym, k - i)
                    \/ Len(Flushed(old, new)[k]) = 1
  BY DEF ShowsRows
<1>1. i \in Nat
  BY PlacementAssumption DEF CellIds
<1>2. new[i].sym.width \in Nat /\ \A h \in RowSpan(new, i) :
        h \in CellIds /\ new[h].sym.kind \in {"empty", "label"} /\ (new[h].skip <=> new[h].sym.kind = "empty")
  BY DEF Framed
<1>3. k \in i + 1 .. i + new[i].sym.width - 1
  BY DEF RowSpan
<1>4. CASE new[k].sym.kind = "label"
  <2>1. k \in CellIds /\ ~ new[k].skip /\ (k > 0 => ~ Wide(new[k - 1]))
    BY <1>2, <1>4 DEF Framed
  <2>2. Flushed(old, new)[k] = Look(new[k].sym, 0)
    BY <2>1, FlushCells DEF ShowsCells
  <2> QED
    BY <1>4, <2>2 DEF Look, Loading
<1>5. CASE new[k].skip
  <2>1. k \notin Written(old, new)
    BY <1>5 DEF Written
  <2>2. ~ new[i].skip /\ (i > 0 => ~ Wide(new[i - 1]))
    BY DEF Framed, Wide
  <2>3. ASSUME NEW j \in PaintedBy(old, new, k)
        PROVE  j \in 0 .. i /\ k \in Painted(new, j) /\ j \in Written(old, new)
    <3>1. j \in 0 .. k /\ j \in CellIds /\ k \in Painted(new, j) /\ j \in Written(old, new)
      BY <1>2, FlushedCell DEF PaintedBy
    <3>2. SUFFICES ASSUME j > i PROVE FALSE
      BY <1>1, <3>1
    <3>3. j \in RowSpan(new, i)
      BY <1>1, <1>2, <1>3, <3>1, <3>2 DEF RowSpan
    <3>4. Painted(new, j) = {j}
      BY <1>2, <3>1, <3>3, WidthOf DEF Wide
    <3> QED
      BY <2>1, <3>1, <3>4
  <2>4. CASE i \in Written(old, new)
    <3>1. i \in PaintedBy(old, new, k)
      BY <1>1, <1>2, <1>3, <2>4 DEF PaintedBy, Painted
    <3>2. PICK m \in PaintedBy(old, new, k) :
            /\ \A j \in PaintedBy(old, new, k) : j <= m
            /\ Flushed(old, new)[k] = Look(new[m].sym, k - m)
      BY <1>2, <3>1, FlushedCell
    <3>3. i <= m /\ m \in 0 .. i
      BY <2>3, <3>1, <3>2
    <3> HIDE DEF FlushFrom
    <3>4. m = i
      BY <1>1, <3>3
    <3> QED
      BY <3>2, <3>4
  <2>5. CASE i \notin Written(old, new)
    <3>1. new[i] = old[i] /\ \A j \in 0 .. i - 1 : \A h \in Painted(new, j) : h < i
      BY <2>2, <2>5, WrittenOrSame
    <3>2. ASSUME NEW j \in PaintedBy(old, new, k) PROVE FALSE
      <4>1. j \in 0 .. i - 1 /\ k \in Painted(new, j)
        BY <1>1, <2>3, <2>5
      <4> QED
        BY <1>1, <1>3, <3>1, <4>1
    <3>3. Flushed(old, new)[k] = grid[k]
      BY <1>2, <3>2, FlushedCell
    <3>4. old[i].sym.kind = "row" /\ k \in RowSpan(old, i)
      BY <3>1 DEF RowSpan
    <3>5. grid[k] = Look(old[i].sym, k - i) \/ Len(grid[k]) = 1
      BY <3>4 DEF ShowsRows
    <3> QED
      BY <3>1, <3>3, <3>5
  <2> QED
    BY <2>4, <2>5
<1> QED
  BY <1>2, <1>4, <1>5

(* Where the pages of a frame are placed: all in the same columns.         *)
PlaceWidth(s) == Min({doc.width - SourceCol(s), AreaCols - LeftCell, DiacriticCap - SourceCol(s)})

Shootable(s) ==
    /\ doc \in Zooms /\ s.kind = "pages" /\ s.scroll \in Int
    /\ s.pan \in 0 .. Overflow /\ s.active \subseteq Visible(s)

LEMMA PageColumns ==
    ASSUME NEW s, Shootable(s)
    PROVE  /\ AreaCols \in Nat /\ AreaCols > 1 /\ doc.width \in Nat
           /\ LeftCell \in 0 .. AreaCols - 1 /\ LeftCell # 1 /\ LeftCell < AreaCols - 1
           /\ Lesser(doc.width, AreaCols - LeftCell) = Lesser(doc.width, AreaCols)
           /\ SourceCol(s) \in Nat /\ PlaceWidth(s) \in Nat
           /\ LeftCell + PlaceWidth(s) <= AreaCols
           /\ PlaceWidth(s) = 1 => doc.width = 1
<1> DEFINE w == doc.width
<1>1. /\ AreaCols \in Nat /\ AreaCols > 1 /\ w \in Nat /\ AreaCols - w \notin {2, 3}
      /\ w > 1 => DiacriticCap > Greater(w - AreaCols, 0) + 1
      /\ DiacriticCap \in Nat \ {0} /\ s.pan \in 0 .. Greater(w - AreaCols, 0)
  BY PlacementAssumption, ZoomsAssumption DEF Shootable, Overflow
<1>2. /\ SourceCol(s) = Lesser(s.pan, DiacriticCap - 1)
      /\ LeftCell = (Greater(AreaCols - w, 0)) \div 2
  BY DEF SourceCol, LeftCell
<1>3. PlaceWidth(s) = Min({w - SourceCol(s), AreaCols - LeftCell, DiacriticCap - SourceCol(s)})
  BY DEF PlaceWidth
<1> HIDE DEF w
<1>4. LeftCell \in 0 .. AreaCols - 1 /\ LeftCell # 1 /\ AreaCols - LeftCell >= Lesser(w, AreaCols)
  BY <1>1, <1>2 DEF Greater, Lesser
<1>40. LeftCell < AreaCols - 1 /\ Lesser(w, AreaCols - LeftCell) = Lesser(w, AreaCols)
  BY <1>1, <1>2, <1>4 DEF Greater, Lesser
<1>5. SourceCol(s) \in Nat /\ SourceCol(s) <= s.pan /\ SourceCol(s) < DiacriticCap
  BY <1>1, <1>2 DEF Greater, Lesser
<1>6. w - SourceCol(s) \in Nat /\ w - SourceCol(s) >= Lesser(w, AreaCols)
  BY <1>1, <1>5 DEF Greater, Lesser
<1>7. w > 1 => DiacriticCap - SourceCol(s) > 1
  BY <1>1, <1>5 DEF Greater, Lesser
<1> DEFINE S == {w - SourceCol(s), AreaCols - LeftCell, DiacriticCap - SourceCol(s)}
<1>8. S \subseteq Nat /\ S # {} /\ AreaCols - LeftCell \in S
  BY <1>1, <1>4, <1>5, <1>6
<1>9. \A n \in S : n = 1 => w <= 1
  BY <1>1, <1>4, <1>6, <1>7 DEF Lesser
<1>10. \A n \in S : n = 1 => w = 1 \/ w = 0
  BY <1>1, <1>9
<1> HIDE DEF S
<1>11. Min(S) \in S /\ \A n \in S : Min(S) <= n
  BY <1>8, MinIs
<1>12. PlaceWidth(s) = Min(S)
  BY <1>3 DEF S
<1>13. w = 0 => PlaceWidth(s) = 0
  <2>1. w = 0 => w - SourceCol(s) = 0
    BY <1>1, <1>5 DEF Greater
  <2>2. w - SourceCol(s) \in S
    BY DEF S
  <2>3. Min(S) \in Nat /\ Min(S) <= w - SourceCol(s)
    BY <1>8, <1>11, <2>2
  <2>4. w = 0 => Min(S) = 0
    BY <2>1, <2>3
  <2> QED
    BY <1>12, <2>4
<1>14. w = doc.width
  BY DEF w
<1>15. PlaceWidth(s) \in Nat /\ PlaceWidth(s) <= AreaCols - LeftCell
  BY <1>8, <1>11, <1>12
<1>16. PlaceWidth(s) = 1 => doc.width = 1
  BY <1>10, <1>11, <1>12, <1>13, <1>14
<1> QED
  BY <1>1, <1>4, <1>40, <1>5, <1>14, <1>15, <1>16

LEMMA Rectangle ==
    ASSUME NEW s, Shootable(s), NEW p \in PagesOf(doc.layout)
    PROVE  /\ PlaceRect(s, p).left = LeftCell /\ PlaceRect(s, p).width = PlaceWidth(s)
           /\ PlaceRect(s, p).top \in Int /\ PlaceRect(s, p).height \in Int
<1>1. /\ doc.layout.y[p] \in Int /\ doc.layout.h[p] \in Nat /\ s.scroll \in Int
      /\ CellPixels \in Nat \ {0} /\ AreaRows \in Nat /\ DiacriticCap \in Nat
  BY PlacementAssumption, ZoomsAssumption DEF Shootable
<1>2. /\ Greater(doc.layout.y[p] - s.scroll, 0) \div CellPixels \in Nat
      /\ Greater(s.scroll - doc.layout.y[p], 0) \div CellPixels \in Nat
      /\ doc.layout.h[p] \div CellPixels \in Nat
  <2>1. /\ Greater(doc.layout.y[p] - s.scroll, 0) \in Nat
        /\ Greater(s.scroll - doc.layout.y[p], 0) \in Nat
    BY <1>1 DEF Greater
  <2> QED
    BY <1>1, <2>1, Quotient
<1>3. SourceRow(s, p) \in Int
  BY <1>1, <1>2 DEF SourceRow, Lesser
<1>4. RowsInView(s, p) \in Int
  BY <1>1, <1>2 DEF RowsInView, VisibleCellHeight, Greater, Lesser
<1>5. Lesser(RowsInView(s, p), DiacriticCap - SourceRow(s, p)) \in Int
  BY <1>1, <1>3, <1>4 DEF Lesser
<1> QED
  BY <1>2, <1>5 DEF PlaceRect, PlaceWidth

LEMMA InRectangle ==
    ASSUME NEW s, Shootable(s), NEW p \in PagesOf(doc.layout), NEW i \in CellIds
    PROVE  i \in CellsOf(PlaceRect(s, p)) <=>
             /\ LeftCell <= ColOf(i) /\ ColOf(i) < LeftCell + PlaceWidth(s)
             /\ PlaceRect(s, p).top <= RowOf(i)
             /\ RowOf(i) < PlaceRect(s, p).top + PlaceRect(s, p).height
BY Rectangle DEF CellsOf

(* The cells between two of one row.                                       *)
LEMMA Along ==
    ASSUME NEW i \in CellIds, NEW d \in Nat, ColOf(i) + d < AreaCols
    PROVE  i + d \in CellIds /\ RowOf(i + d) = RowOf(i) /\ ColOf(i + d) = ColOf(i) + d
<1>1. AreaCols \in Nat \ {0} /\ AreaRows \in Nat \ {0} /\ i \in Nat
  BY PlacementAssumption DEF CellIds
<1>2. RowOf(i) \in Nat /\ ColOf(i) \in 0 .. AreaCols - 1 /\ i = FirstCell(RowOf(i)) + ColOf(i)
  BY <1>1, CellPlace
<1>3. ColOf(i) + d \in 0 .. AreaCols - 1 /\ FirstCell(RowOf(i)) \in Nat
  BY <1>1, <1>2 DEF FirstCell
<1>4. i + d = FirstCell(RowOf(i)) + (ColOf(i) + d)
  BY <1>1, <1>2, <1>3
<1>5. RowOf(i) < AreaRows
  <2>1. i < AreaRows * AreaCols
    BY <1>1 DEF CellIds
  <2>2. SUFFICES ASSUME RowOf(i) >= AreaRows PROVE FALSE
    BY <1>1, <1>2
  <2>3. (RowOf(i) - AreaRows) * AreaCols \in Nat
    BY <1>1, <1>2, <2>2
  <2>4. RowOf(i) * AreaCols >= AreaRows * AreaCols
    BY <1>1, <1>2, <2>3
  <2> QED
    BY <1>1, <1>2, <2>1, <2>4 DEF FirstCell
<1>6. i + d \in CellIds
  <2>1. FirstCell(RowOf(i)) + AreaCols <= AreaRows * AreaCols
    BY <1>1, <1>2, <1>5, SameProduct DEF FirstCell
  <2>2. i + d < AreaRows * AreaCols /\ AreaRows * AreaCols \in Nat
    BY <1>1, <1>2, <1>3, <1>4, <2>1
  <2> QED
    BY <1>1, <2>2 DEF CellIds
<1> QED
  BY <1>2, <1>3, <1>4, <1>6, CellAt

(* The buffer once some of the pages are placed: the lowest of the pages   *)
(* that a cell belongs to has it, and the others are as they were cleared. *)
Over(s, P, i) == {p \in P : i \in CellsOf(PlaceRect(s, p))}

RowOfPage(s, p, i) ==
    RowCell(p, SourceRow(s, p) + RowOf(i) - PlaceRect(s, p).top, SourceCol(s), PlaceWidth(s))

HiddenCell == [sym |-> [kind |-> "empty"], skip |-> TRUE]

LaidCell(s, P, c, i) ==
    /\ Over(s, P, i) = {} => c = EmptyCell \/ (ColOf(i) = 0 /\ c = ClearCell)
    /\ Over(s, P, i) # {} /\ ColOf(i) # LeftCell => c = HiddenCell
    /\ Over(s, P, i) # {} /\ ColOf(i) = LeftCell =>
         \E p \in Over(s, P, i) :
           (\A q \in Over(s, P, i) : q <= p) /\ c = RowOfPage(s, p, i)

Laid(s, P, m) ==
    /\ DOMAIN m.buf = CellIds
    /\ \A i \in CellIds : LaidCell(s, P, m.buf[i], i)
    /\ \A p \in P : CellsOf(PlaceRect(s, p)) # {} =>
         p \in DOMAIN m.placed /\ m.placed[p] = PlaceRect(s, p)

LEMMA PlaceOne ==
    ASSUME NEW s, Shootable(s), NEW p \in PagesOf(doc.layout), NEW m,
           NEW P, P \subseteq PagesOf(doc.layout), \A q \in P : q < p, Laid(s, P, m)
    PROVE  Laid(s, P \cup {p}, PlacePage(s, m, p))
<1> DEFINE new == PlaceRect(s, p)
           own == CellsOf(new)
           wiped == Wiped(m.placed, p, new)
           after == PlacePage(s, m, p)
           Q == P \cup {p}
<1>0. PagesOf(doc.layout) \subseteq Int
  BY ZoomsAssumption DEF Shootable, PagesOf
<1>1. new.left = LeftCell /\ new.width = PlaceWidth(s) /\ new.height \in Int /\ new.top \in Int
  BY Rectangle
<1>2. PlaceWidth(s) \in Nat /\ LeftCell \in Nat
  BY PageColumns
<1>3. ASSUME NEW i \in CellIds
      PROVE  /\ ColOf(i) \in Nat /\ RowOf(i) \in Nat
             /\ i \in own => LeftCell <= ColOf(i) /\ PlaceWidth(s) # 0 /\ new.height # 0
             /\ Over(s, Q, i) = IF i \in own THEN Over(s, P, i) \cup {p} ELSE Over(s, P, i)
  <2>1. ColOf(i) \in Nat /\ RowOf(i) \in Nat
    BY PlacementAssumption, CellPlace DEF CellIds
  <2>2. Over(s, Q, i) = IF i \in own THEN Over(s, P, i) \cup {p} ELSE Over(s, P, i)
    BY DEF Over
  <2>3. i \in own => LeftCell <= ColOf(i) /\ PlaceWidth(s) # 0 /\ new.height # 0
    <3>1. i \in own <=>
             /\ LeftCell <= ColOf(i) /\ ColOf(i) < LeftCell + PlaceWidth(s)
             /\ new.top <= RowOf(i) /\ RowOf(i) < new.top + new.height
      BY InRectangle
    <3> HIDE DEF own, new
    <3> QED
      BY <1>1, <1>2, <2>1, <3>1
  <2> QED
    BY <2>1, <2>2, <2>3
<1>4. \A q \in P : CellsOf(PlaceRect(s, q)) # {} =>
        q \in DOMAIN m.placed \ {p} /\ m.placed[q] = PlaceRect(s, q)
  BY <1>0 DEF Laid
<1>5. CASE new.width = 0 \/ new.height = 0
  <2>1. after = m
    BY <1>5 DEF PlacePage
  <2>2. own = {}
    <3>1. own \subseteq CellIds
      BY DEF CellsOf
    <3> QED
      BY <1>1, <1>3, <1>5, <3>1
  <2>3. \A i \in CellIds : Over(s, Q, i) = Over(s, P, i)
    BY <1>3, <2>2
  <2>4. \A i \in CellIds : LaidCell(s, Q, m.buf[i], i)
    BY <2>3 DEF Laid, LaidCell
  <2> QED
    BY <2>1, <2>2, <2>4 DEF Laid
<1>6. CASE ~ (new.width = 0 \/ new.height = 0)
  <2> DEFINE row(i) == IF ColOf(i) = new.left
                         THEN RowCell(p, SourceRow(s, p) + RowOf(i) - new.top, SourceCol(s), new.width)
                         ELSE [sym |-> m.buf[i].sym, skip |-> TRUE]
             placed == [q \in DOMAIN m.placed \cup {p} |-> IF q = p THEN new ELSE m.placed[q]]
             buf == [i \in CellIds |-> IF i \in own THEN row(i)
                                       ELSE IF i \in wiped THEN EmptyCell ELSE m.buf[i]]
  <2>1. after = [placed |-> placed, buf |-> buf]
    BY <1>6 DEF PlacePage
  <2>2. after.placed = placed /\ after.buf = buf
    BY <2>1
  <2>3. ASSUME NEW i \in CellIds PROVE LaidCell(s, Q, buf[i], i)
    <3>1. LaidCell(s, P, m.buf[i], i)
      BY DEF Laid
    <3>2. CASE i \in own
      <4>1. Over(s, Q, i) = Over(s, P, i) \cup {p} /\ buf[i] = row(i)
        BY <1>3, <3>2
      <4>2. CASE ColOf(i) = LeftCell
        <5>1. row(i) = RowOfPage(s, p, i)
          BY <1>1, <4>2 DEF RowOfPage
        <5>2. \A q \in Over(s, Q, i) : q <= p
          BY <1>0, <4>1 DEF Over
        <5> HIDE DEF buf, row
        <5> QED
          BY <4>1, <4>2, <5>1, <5>2 DEF LaidCell
      <4>3. CASE ColOf(i) # LeftCell
        <5>0. LeftCell <= ColOf(i) /\ ColOf(i) \in Nat
          BY <1>3, <3>2
        <5>1. ColOf(i) # 0
          BY <1>2, <4>3, <5>0
        <5>2. m.buf[i] = EmptyCell \/ m.buf[i] = HiddenCell
          BY <3>1, <4>3, <5>1 DEF LaidCell
        <5>3. row(i) = [sym |-> m.buf[i].sym, skip |-> TRUE]
          BY <1>1, <4>3
        <5>4. m.buf[i].sym = [kind |-> "empty"]
          BY <5>2 DEF EmptyCell, Symbol, HiddenCell
        <5>6. row(i) = HiddenCell
          BY <5>3, <5>4 DEF HiddenCell
        <5> HIDE DEF buf, row
        <5> QED
          BY <4>1, <4>3, <5>6 DEF LaidCell
      <4> QED
        BY <4>2, <4>3
    <3>3. CASE i \notin own /\ i \in wiped
      <4>1. Over(s, Q, i) = Over(s, P, i) /\ buf[i] = EmptyCell
        BY <1>3, <3>3
      <4>2. Over(s, P, i) = {}
        <5> SUFFICES ASSUME NEW q \in P, i \in CellsOf(PlaceRect(s, q)) PROVE FALSE
          BY DEF Over
        <5>1. q \in DOMAIN m.placed \ {p} /\ m.placed[q] = PlaceRect(s, q)
          BY <1>4
        <5>2. i \notin UNION {CellsOf(m.placed[h]) : h \in DOMAIN m.placed \ {p}}
          BY <3>3 DEF Wiped
        <5> QED
          BY <5>1, <5>2
      <4> HIDE DEF buf
      <4> QED
        BY <4>1, <4>2 DEF LaidCell
    <3>4. CASE i \notin own /\ i \notin wiped
      <4>1. Over(s, Q, i) = Over(s, P, i) /\ buf[i] = m.buf[i]
        BY <1>3, <3>4
      <4> HIDE DEF buf
      <4> QED
        BY <3>1, <4>1 DEF LaidCell
    <3> QED
      BY <3>2, <3>3, <3>4
  <2>4. \A q \in Q : CellsOf(PlaceRect(s, q)) # {} =>
          q \in DOMAIN placed /\ placed[q] = PlaceRect(s, q)
    BY <1>4
  <2>5. DOMAIN buf = CellIds
    OBVIOUS
  <2> HIDE DEF buf, placed, after
  <2>6. Laid(s, Q, after)
    BY <2>2, <2>3, <2>4, <2>5 DEF Laid
  <2> QED
    BY <2>6 DEF after
<1> QED
  BY <1>5, <1>6

(* The recursion by which the pages are placed.                            *)
IsPlacing(f, n, s) ==
    f = [k \in 0 .. n |->
           IF k = 0 THEN [buf |-> ClearPageArea(FreshBuffer, InLayoutView(s)),
                          placed |-> last_placed]
           ELSE IF k - 1 \in s.active THEN PlacePage(s, f[k - 1], k - 1)
           ELSE f[k - 1]]

LEMMA PlacingExists ==
    ASSUME NEW n \in Nat, NEW s
    PROVE  \E f : IsPlacing(f, n, s)
<1> DEFINE T == {k \in 0 .. n : \E f : IsPlacing(f, k, s)}
           base == [buf |-> ClearPageArea(FreshBuffer, InLayoutView(s)), placed |-> last_placed]
<1>1. 0 \in T
  <2> DEFINE f == [k \in 0 .. 0 |-> base]
  <2>1. IsPlacing(f, 0, s)
    <3> HIDE DEF base
    <3>1. f = [k \in 0 .. 0 |-> IF k = 0 THEN base
                 ELSE IF k - 1 \in s.active THEN PlacePage(s, f[k - 1], k - 1) ELSE f[k - 1]]
      OBVIOUS
    <3> QED
      BY <3>1 DEF IsPlacing, base
  <2> QED
    BY <2>1
<1>2. ASSUME NEW k \in 1 .. n, k - 1 \in T PROVE k \in T
  <2>1. PICK f : IsPlacing(f, k - 1, s)
    BY <1>2
  <2> DEFINE Next1(m) == IF k - 1 \in s.active THEN PlacePage(s, m, k - 1) ELSE m
             last == Next1(f[k - 1])
             g == [i \in 0 .. k |-> IF i = k THEN last ELSE f[i]]
             Put1(h, i) == IF i = 0 THEN base
                           ELSE IF i - 1 \in s.active THEN PlacePage(s, h[i - 1], i - 1)
                           ELSE h[i - 1]
  <2>2. \A i \in 0 .. k - 1 : f[i] = Put1(f, i)
    BY <2>1 DEF IsPlacing
  <2>3. ASSUME NEW i \in 0 .. k PROVE g[i] = Put1(g, i)
    <3>1. CASE i = k
      <4>1. k # 0 /\ k - 1 \in 0 .. k /\ k - 1 # k
        OBVIOUS
      <4>2. g[k] = last /\ g[k - 1] = f[k - 1]
        BY <4>1
      <4> HIDE DEF g
      <4> QED
        BY <3>1, <4>1, <4>2
    <3>2. CASE i # k /\ i # 0
      <4>1. i \in 0 .. k - 1 /\ i - 1 \in 0 .. k /\ i - 1 # k
        BY <3>2
      <4>2. g[i] = f[i] /\ g[i - 1] = f[i - 1]
        BY <3>2, <4>1
      <4>3. f[i] = Put1(f, i)
        BY <2>2, <4>1
      <4> HIDE DEF g
      <4> QED
        BY <3>2, <4>2, <4>3
    <3>3. CASE i # k /\ i = 0
      <4>1. 0 \in 0 .. k - 1
        OBVIOUS
      <4>2. g[0] = f[0] /\ f[0] = base
        BY <2>2, <3>3, <4>1
      <4> HIDE DEF g
      <4> QED
        BY <3>3, <4>2
    <3> QED
      BY <3>1, <3>2, <3>3
  <2>4. g = [i \in 0 .. k |-> g[i]]
    OBVIOUS
  <2>5. g = [i \in 0 .. k |-> Put1(g, i)]
    <3> HIDE DEF g, Put1
    <3> QED
      BY <2>3, <2>4
  <2>6. IsPlacing(g, k, s)
    <3> HIDE DEF g
    <3> QED
      BY <2>5 DEF IsPlacing
  <2> HIDE DEF g
  <2> QED
    BY <2>6
<1> HIDE DEF T
<1>3. n \in T
  BY <1>1, <1>2, Climb
<1> QED
  BY <1>3 DEF T

LEMMA AllPlaced ==
    ASSUME NEW s, Shootable(s)
    PROVE  Laid(s, s.active, PlacePages(s))
<1> DEFINE n == doc.layout.n
           f[k \in 0 .. n] ==
             IF k = 0 THEN [buf |-> ClearPageArea(FreshBuffer, InLayoutView(s)),
                            placed |-> last_placed]
             ELSE IF k - 1 \in s.active THEN PlacePage(s, f[k - 1], k - 1)
             ELSE f[k - 1]
           Before(k) == {p \in s.active : p < k}
           T == {k \in 0 .. n : Laid(s, Before(k), f[k])}
<1>1. n \in Nat /\ PagesOf(doc.layout) = 0 .. n - 1 /\ s.active \subseteq 0 .. n - 1
  BY ZoomsAssumption DEF Shootable, PagesOf, Visible, InLayoutView, VisiblePages
<1>2. PlacePages(s) = f[n]
  BY DEF PlacePages
<1>3. IsPlacing(f, n, s)
  <2>1. \E g : IsPlacing(g, n, s)
    BY <1>1, PlacingExists
  <2> QED
    BY <2>1 DEF IsPlacing
<1> HIDE DEF f, n
<1> DEFINE base == [buf |-> ClearPageArea(FreshBuffer, InLayoutView(s)), placed |-> last_placed]
<1>4. /\ f[0] = base
      /\ \A k \in 1 .. n : f[k] = IF k - 1 \in s.active THEN PlacePage(s, f[k - 1], k - 1)
                                  ELSE f[k - 1]
  BY <1>1, <1>3 DEF IsPlacing
<1>5. 0 \in T
  <2>1. Before(0) = {}
    BY <1>1
  <2>2. ASSUME NEW i \in CellIds
        PROVE  base.buf[i] = EmptyCell \/ (ColOf(i) = 0 /\ base.buf[i] = ClearCell)
    BY DEF ClearPageArea, FreshBuffer
  <2>3. DOMAIN base.buf = CellIds
    BY DEF ClearPageArea
  <2> HIDE DEF base
  <2>4. Laid(s, {}, base)
    BY <2>2, <2>3 DEF Laid, LaidCell, Over
  <2> HIDE DEF Before
  <2>5. Laid(s, Before(0), f[0])
    BY <1>4, <2>1, <2>4
  <2> QED
    BY <1>1, <2>5
<1>6. ASSUME NEW k \in 1 .. n, k - 1 \in T PROVE k \in T
  <2>1. k \in 0 .. n /\ Laid(s, Before(k - 1), f[k - 1])
    BY <1>1, <1>6
  <2>2. CASE k - 1 \in s.active
    <3>1. Before(k) = Before(k - 1) \cup {k - 1}
      BY <1>1, <2>2
    <3>2. /\ k - 1 \in PagesOf(doc.layout) /\ Before(k - 1) \subseteq PagesOf(doc.layout)
          /\ \A q \in Before(k - 1) : q < k - 1
      BY <1>1
    <3> HIDE DEF Before
    <3>3. Laid(s, Before(k - 1) \cup {k - 1}, PlacePage(s, f[k - 1], k - 1))
      BY <2>1, <3>2, PlaceOne
    <3> QED
      BY <1>4, <2>1, <2>2, <3>1, <3>3
  <2>3. CASE k - 1 \notin s.active
    <3>1. Before(k) = Before(k - 1)
      BY <1>1, <2>3
    <3> HIDE DEF Before
    <3> QED
      BY <1>4, <2>1, <2>3, <3>1
  <2> QED
    BY <2>2, <2>3
<1> HIDE DEF T
<1>7. n \in T
  <2>1. \A k \in 0 .. n : k \in T
    BY <1>1, <1>5, <1>6, Climb
  <2> QED
    BY <1>1, <2>1
<1>8. Before(n) = s.active
  BY <1>1
<1> QED
  BY <1>2, <1>7, <1>8 DEF T

LEMMA CellBefore ==
    ASSUME AreaCols > 1, NEW i \in CellIds, i > 0
    PROVE  /\ i - 1 \in CellIds
           /\ ColOf(i) > 0 => ColOf(i - 1) = ColOf(i) - 1
           /\ ColOf(i) = 0 => ColOf(i - 1) = AreaCols - 1
<1>1. AreaCols \in Nat \ {0} /\ i \in Nat /\ i - 1 \in CellIds
  BY PlacementAssumption DEF CellIds
<1>2. RowOf(i) \in Nat /\ ColOf(i) \in 0 .. AreaCols - 1 /\ i = FirstCell(RowOf(i)) + ColOf(i)
  BY <1>1, CellPlace
<1>3. CASE ColOf(i) > 0
  <2>1. FirstCell(RowOf(i)) \in Nat /\ ColOf(i) - 1 \in 0 .. AreaCols - 1
    BY <1>1, <1>2, <1>3 DEF FirstCell
  <2>2. i - 1 = FirstCell(RowOf(i)) + (ColOf(i) - 1)
    BY <1>1, <1>2, <2>1
  <2>3. ColOf(i - 1) = ColOf(i) - 1
    BY <1>2, <2>1, <2>2, CellAt
  <2> QED
    BY <1>1, <1>3, <2>3
<1>4. CASE ColOf(i) = 0
  <2>1. i = FirstCell(RowOf(i)) /\ RowOf(i) # 0
    BY <1>1, <1>2, <1>4 DEF FirstCell
  <2>2. RowOf(i) - 1 \in Nat /\ AreaCols - 1 \in 0 .. AreaCols - 1
    BY <1>1, <1>2, <2>1
  <2>3. FirstCell(RowOf(i)) = FirstCell(RowOf(i) - 1) + AreaCols /\ FirstCell(RowOf(i) - 1) \in Nat
    BY <1>1, <1>2, <2>2 DEF FirstCell
  <2>4. i - 1 = FirstCell(RowOf(i) - 1) + (AreaCols - 1)
    BY <1>1, <2>1, <2>3
  <2>5. ColOf(i - 1) = AreaCols - 1
    BY <2>2, <2>4, CellAt
  <2> QED
    BY <1>1, <1>4, <2>5
<1> QED
  BY <1>2, <1>3, <1>4

(* A row of cells ends before the first cell of any later one.             *)
LEMMA RowEnds ==
    ASSUME NEW i \in CellIds, ColOf(i) = 0, NEW k \in CellIds, k < i
    PROVE  k - ColOf(k) + AreaCols <= i
<1>1. AreaCols \in Nat \ {0} /\ i \in Nat /\ k \in Nat
  BY PlacementAssumption DEF CellIds
<1>2. RowOf(i) \in Nat /\ i = FirstCell(RowOf(i)) + 0
  BY <1>1, CellPlace
<1>3. RowOf(k) \in Nat /\ ColOf(k) \in 0 .. AreaCols - 1 /\ k = FirstCell(RowOf(k)) + ColOf(k)
  BY <1>1, CellPlace
<1>4. /\ FirstCell(RowOf(i)) \in Nat /\ FirstCell(RowOf(k)) \in Nat
      /\ FirstCell(RowOf(i)) = RowOf(i) * AreaCols /\ FirstCell(RowOf(k)) = RowOf(k) * AreaCols
  BY <1>1, <1>2, <1>3 DEF FirstCell
<1>5. RowOf(k) < RowOf(i)
  <2>1. SUFFICES ASSUME RowOf(k) >= RowOf(i) PROVE FALSE
    BY <1>2, <1>3
  <2>2. FirstCell(RowOf(i)) <= FirstCell(RowOf(k))
    <3>1. CASE RowOf(k) = RowOf(i)
      BY <1>4, <3>1
    <3>2. CASE RowOf(i) < RowOf(k)
      <4>1. RowOf(i) * AreaCols + AreaCols <= RowOf(k) * AreaCols
        BY <1>1, <1>2, <1>3, <3>2, SameProduct
      <4> QED
        BY <1>1, <1>4, <4>1
    <3> QED
      BY <1>2, <1>3, <2>1, <3>1, <3>2
  <2> QED
    BY <1>1, <1>2, <1>3, <1>4, <2>2
<1>6. FirstCell(RowOf(k)) + AreaCols <= FirstCell(RowOf(i))
  BY <1>1, <1>2, <1>3, <1>4, <1>5, SameProduct
<1> QED
  BY <1>1, <1>2, <1>3, <1>4, <1>6

(* A label begins in the third cell of its page or later.                  *)
LEMMA LabelPlace ==
    ASSUME NEW s, Shootable(s), NEW p \in PagesOf(doc.layout), NEW i \in CellIds,
           i \in LabelCells(s, p)
    PROVE  ColOf(i) >= LeftCell + 2 /\ ColOf(i) < AreaCols /\ doc.width > 1
<1> DEFINE y == doc.layout.y[p]
           bottom == doc.layout.y[p] + doc.layout.h[p] - s.scroll
           upper == Lesser(Greater(y - s.scroll, 0) \div CellPixels, AreaRows)
           below == Lesser((Greater(bottom, 0) + CellPixels - 1) \div CellPixels, AreaRows)
           width == Lesser(doc.width, AreaCols - LeftCell)
           start == LeftCell + (width - LabelLength - 2) \div 2 + 1
           middle == upper + (below - upper) \div 2
<1>1. /\ y \in Int /\ doc.layout.h[p] \in Nat /\ s.scroll \in Int
      /\ CellPixels \in Nat \ {0} /\ AreaRows \in Nat /\ LabelLength \in Nat
      /\ Lesser(doc.width, AreaCols) - LabelLength \notin {2, 3}
  BY PlacementAssumption, ZoomsAssumption DEF Shootable
<1>2. /\ AreaCols \in Nat /\ AreaCols > 1 /\ doc.width \in Nat
      /\ LeftCell \in 0 .. AreaCols - 1
      /\ width = Lesser(doc.width, AreaCols)
  BY PageColumns
<1>3. /\ below > upper /\ middle < AreaRows /\ LabelLength + 2 <= width
      /\ i \in FirstCell(middle) + start .. FirstCell(middle) + start + LabelLength - 1
  <2>1. ~ (below <= upper \/ middle >= AreaRows \/ LabelLength + 2 > width)
    BY DEF LabelCells
  <2>2. i \in FirstCell(middle) + start .. FirstCell(middle) + start + LabelLength - 1
    BY <2>1 DEF LabelCells
  <2>3. upper \in Int /\ below \in Int
    <3>1. Greater(y - s.scroll, 0) \in Nat /\ Greater(bottom, 0) + CellPixels - 1 \in Nat
      BY <1>1 DEF Greater
    <3>2. /\ Greater(y - s.scroll, 0) \div CellPixels \in Nat
          /\ (Greater(bottom, 0) + CellPixels - 1) \div CellPixels \in Nat
      BY <1>1, <3>1, Quotient
    <3> QED
      BY <1>1, <3>2 DEF Lesser
  <2>4. width \in Int
    BY <1>2 DEF Lesser
  <2> HIDE DEF upper, below, width
  <2>5. middle \in Int
    BY <2>3
  <2> QED
    BY <1>1, <2>1, <2>2, <2>3, <2>4, <2>5
<1>4. upper \in Nat
  <2>1. Greater(y - s.scroll, 0) \in Nat
    BY <1>1 DEF Greater
  <2>2. Greater(y - s.scroll, 0) \div CellPixels \in Nat
    BY <1>1, <2>1, Quotient
  <2> QED
    BY <1>1, <2>2 DEF Lesser
<1>5. below \in Int
  <2>1. Greater(bottom, 0) + CellPixels - 1 \in Nat
    BY <1>1 DEF Greater
  <2>2. (Greater(bottom, 0) + CellPixels - 1) \div CellPixels \in Nat
    BY <1>1, <2>1, Quotient
  <2> QED
    BY <1>1, <2>2 DEF Lesser
<1>6. width \in Nat /\ width <= AreaCols - LeftCell /\ width <= doc.width
  BY <1>2 DEF Lesser
<1>7. width - LabelLength \notin {2, 3}
  BY <1>1, <1>2
<1> HIDE DEF upper, below, width
<1>8. middle \in Nat
  BY <1>3, <1>4, <1>5
<1>9. /\ start \in Nat /\ start >= LeftCell + 2
      /\ start + LabelLength <= LeftCell + width
  BY <1>1, <1>2, <1>3, <1>6, <1>7
<1> HIDE DEF middle, start
<1> DEFINE c == i - FirstCell(middle)
<1>10. FirstCell(middle) \in Nat /\ i \in Nat
  BY <1>2, <1>8, PlacementAssumption DEF FirstCell, CellIds
<1>11. c \in 0 .. AreaCols - 1 /\ c >= LeftCell + 2 /\ i = FirstCell(middle) + c
  BY <1>1, <1>2, <1>3, <1>6, <1>9, <1>10
<1> HIDE DEF c
<1>12. ColOf(i) = c
  BY <1>8, <1>11, CellAt
<1>13. doc.width > 1
  BY <1>1, <1>2, <1>3, <1>6
<1> QED
  BY <1>2, <1>11, <1>12, <1>13

(* What a cell of a finished frame is.                                     *)
Labelled(s, i) == {p \in Waiting(s) : i \in LabelCells(s, p)}

PageCells(s, i) == Over(s, s.active, i)

DrawnCell(s, c, i) ==
    \/ Labelled(s, i) # {} /\ c = LabelCell(Max(Labelled(s, i)))
    \/ /\ Labelled(s, i) = {} /\ PageCells(s, i) = {}
       /\ c = EmptyCell \/ (ColOf(i) = 0 /\ c = ClearCell)
    \/ Labelled(s, i) = {} /\ PageCells(s, i) # {} /\ ColOf(i) # LeftCell /\ c = HiddenCell
    \/ /\ Labelled(s, i) = {} /\ PageCells(s, i) # {} /\ ColOf(i) = LeftCell
       /\ \E p \in PageCells(s, i) : (\A q \in PageCells(s, i) : q <= p) /\ c = RowOfPage(s, p, i)

DrawnBuffer(s, buf) == \A i \in CellIds : DrawnCell(s, buf[i], i)

LEMMA DrawnCells ==
    ASSUME NEW s, Shootable(s), Visible(s) # {}
    PROVE  DrawnBuffer(s, Drawn(s).buf)
<1> DEFINE m == PlacePages(s)
<1>1. Drawn(s).buf = PaintLabels(s, m.buf)
  BY DEF Drawn, Shootable
<1>2. Laid(s, s.active, m)
  BY AllPlaced
<1> HIDE DEF m
<1> SUFFICES ASSUME NEW i \in CellIds PROVE DrawnCell(s, Drawn(s).buf[i], i)
  BY DEF DrawnBuffer
<1>3. Drawn(s).buf[i] = IF Labelled(s, i) = {} THEN m.buf[i] ELSE LabelCell(Max(Labelled(s, i)))
  BY <1>1 DEF PaintLabels, Labelled
<1>4. LaidCell(s, s.active, m.buf[i], i)
  BY <1>2 DEF Laid
<1> QED
  BY <1>3, <1>4 DEF DrawnCell, LaidCell, PageCells

LEMMA SamePages ==
    ASSUME NEW s, Shootable(s), NEW i \in CellIds
    PROVE  /\ PageCells(s, i) \subseteq PagesOf(doc.layout)
           /\ PageCells(s, i) # {} =>
                LeftCell <= ColOf(i) /\ ColOf(i) < LeftCell + PlaceWidth(s)
           /\ \A k \in CellIds :
                /\ RowOf(k) = RowOf(i)
                /\ LeftCell <= ColOf(i) /\ ColOf(i) < LeftCell + PlaceWidth(s)
                /\ LeftCell <= ColOf(k) /\ ColOf(k) < LeftCell + PlaceWidth(s)
                => PageCells(s, k) = PageCells(s, i)
<1>1. s.active \subseteq PagesOf(doc.layout)
  BY DEF Shootable, Visible, InLayoutView, VisiblePages
<1> QED
  BY <1>1, InRectangle DEF PageCells, Over

LEMMA Kinds ==
    ASSUME NEW s, Shootable(s), NEW buf, DrawnBuffer(s, buf), NEW i \in CellIds
    PROVE  /\ buf[i].sym.kind \in {"empty", "clear", "label", "row"} /\ buf[i].skip \in BOOLEAN
           /\ buf[i].sym.kind = "row" <=> PageCells(s, i) # {} /\ ColOf(i) = LeftCell
           /\ buf[i].sym.kind = "clear" => PageCells(s, i) = {} /\ ColOf(i) = 0 /\ ~ buf[i].skip
           /\ buf[i].sym.kind = "label" <=> Labelled(s, i) # {}
           /\ buf[i].sym.kind = "label" => ~ buf[i].skip /\ ColOf(i) >= LeftCell + 2 /\ doc.width > 1
           /\ buf[i].skip <=> buf[i].sym.kind = "empty" /\ PageCells(s, i) # {}
           /\ buf[i].sym.kind = "row" => buf[i].sym.width = PlaceWidth(s) /\ ~ buf[i].skip
           /\ buf[i].sym.kind = "empty" /\ ~ buf[i].skip => buf[i] = EmptyCell
           /\ Wide(buf[i]) => ColOf(i) \in {0, LeftCell}
<1>1. DrawnCell(s, buf[i], i)
  BY DEF DrawnBuffer
<1>2. Labelled(s, i) # {} => ColOf(i) >= LeftCell + 2 /\ doc.width > 1
  BY LabelPlace DEF Labelled, Waiting, Visible, InLayoutView, VisiblePages
<1>3. LeftCell \in Nat
  BY PageColumns
<1>4. CASE Labelled(s, i) # {} /\ buf[i] = LabelCell(Max(Labelled(s, i)))
  BY <1>2, <1>3, <1>4, PlacementAssumption, CellPlace DEF LabelCell, CellIds, Wide
<1>5. CASE /\ Labelled(s, i) = {} /\ PageCells(s, i) = {}
           /\ buf[i] = EmptyCell \/ (ColOf(i) = 0 /\ buf[i] = ClearCell)
  <2>1. CASE buf[i] = EmptyCell
    <3>1. buf[i].sym.kind = "empty" /\ buf[i].skip = FALSE
      BY <2>1 DEF EmptyCell, Symbol
    <3> QED
      BY <1>5, <2>1, <3>1 DEF Wide
  <2>2. CASE ColOf(i) = 0 /\ buf[i] = ClearCell
    <3>1. buf[i].sym.kind = "clear" /\ buf[i].skip = FALSE
      BY <2>2 DEF ClearCell, Symbol
    <3> QED
      BY <1>5, <2>2, <3>1 DEF Wide
  <2> QED
    BY <1>5, <2>1, <2>2
<1>6. CASE Labelled(s, i) = {} /\ PageCells(s, i) # {} /\ ColOf(i) # LeftCell /\ buf[i] = HiddenCell
  BY <1>6 DEF HiddenCell, Wide
<1>7. CASE /\ Labelled(s, i) = {} /\ PageCells(s, i) # {} /\ ColOf(i) = LeftCell
           /\ \E p \in PageCells(s, i) :
                (\A q \in PageCells(s, i) : q <= p) /\ buf[i] = RowOfPage(s, p, i)
  <2>1. PICK p \in PageCells(s, i) : buf[i] = RowOfPage(s, p, i)
    BY <1>7
  <2>2. buf[i].sym.kind = "row" /\ buf[i].sym.width = PlaceWidth(s) /\ buf[i].skip = FALSE
    BY <2>1 DEF RowOfPage, RowCell
  <2> QED
    BY <1>7, <2>2 DEF Wide
<1> QED
  BY <1>1, <1>4, <1>5, <1>6, <1>7 DEF DrawnCell

(* A row of a page and the cells that it paints.                           *)
LEMMA RowCells ==
    ASSUME NEW s, Shootable(s), NEW buf, DrawnBuffer(s, buf), NEW i \in CellIds,
           buf[i].sym.kind = "row", NEW k \in RowSpan(buf, i)
    PROVE  /\ k \in CellIds /\ RowOf(k) = RowOf(i) /\ ColOf(k) = LeftCell + (k - i)
           /\ PageCells(s, k) = PageCells(s, i) /\ k - i \in Nat /\ k - i > 0
<1>1. /\ AreaCols \in Nat /\ LeftCell \in Nat /\ PlaceWidth(s) \in Nat
      /\ LeftCell + PlaceWidth(s) <= AreaCols
  BY PageColumns
<1>2. /\ ColOf(i) = LeftCell /\ buf[i].sym.width = PlaceWidth(s) /\ i \in Nat
      /\ PageCells(s, i) # {}
  BY Kinds, PlacementAssumption DEF CellIds
<1>3. k \in i + 1 .. i + PlaceWidth(s) - 1
  BY <1>2 DEF RowSpan
<1> DEFINE d == k - i
<1>4. d \in Nat /\ d > 0 /\ k = i + d /\ LeftCell + d < AreaCols /\ d < PlaceWidth(s)
  BY <1>1, <1>2, <1>3
<1>5. d = k - i
  OBVIOUS
<1> HIDE DEF d
<1>6. k \in CellIds /\ RowOf(k) = RowOf(i) /\ ColOf(k) = LeftCell + d
  BY <1>2, <1>4, Along
<1>7. PageCells(s, k) = PageCells(s, i)
  <2>1. /\ LeftCell <= ColOf(i) /\ ColOf(i) < LeftCell + PlaceWidth(s)
        /\ LeftCell <= ColOf(k) /\ ColOf(k) < LeftCell + PlaceWidth(s)
    BY <1>1, <1>2, <1>4, <1>6
  <2> QED
    BY <1>6, <2>1, SamePages
<1> QED
  BY <1>4, <1>5, <1>6, <1>7

LEMMA FrameIsFramed ==
    ASSUME NEW s, Shootable(s), NEW buf, DrawnBuffer(s, buf)
    PROVE  Framed(buf)
<1>1. /\ AreaCols \in Nat /\ AreaCols > 1 /\ LeftCell \in Nat /\ LeftCell # 1
      /\ LeftCell < AreaCols - 1 /\ PlaceWidth(s) \in Nat
      /\ LeftCell + PlaceWidth(s) <= AreaCols
  BY PageColumns
<1>2. \A i \in CellIds : i \in Nat /\ ColOf(i) \in 0 .. AreaCols - 1
  BY PlacementAssumption, CellPlace DEF CellIds
<1>20. AreaRows * AreaCols \in Nat
  BY PlacementAssumption, Product
<1>3. ASSUME NEW i \in CellIds, i > 0, ColOf(i) \in {0, LeftCell} \/ ColOf(i) >= LeftCell + 2
      PROVE  ~ Wide(buf[i - 1])
  <2>1. /\ i - 1 \in CellIds /\ ColOf(i) \in Nat
        /\ ColOf(i) > 0 => ColOf(i - 1) = ColOf(i) - 1
        /\ ColOf(i) = 0 => ColOf(i - 1) = AreaCols - 1
    BY <1>1, <1>2, <1>3, CellBefore
  <2>2. ColOf(i - 1) \notin {0, LeftCell}
    BY <1>1, <1>3, <2>1
  <2> QED
    BY <2>1, <2>2, Kinds
<1>4. \A i \in CellIds : Wide(buf[i]) => ~ buf[i].skip /\ (i > 0 => ~ Wide(buf[i - 1]))
  BY <1>3, Kinds DEF Wide
<1>5. ASSUME NEW i \in CellIds, buf[i].sym.kind = "row"
      PROVE  /\ buf[i].sym.width \in Nat \ {0}
             /\ \A k \in RowSpan(buf, i) :
                  /\ k \in CellIds /\ buf[k].sym.kind \in {"empty", "label"}
                  /\ buf[k].skip <=> buf[k].sym.kind = "empty"
             /\ buf[i].sym.width = 1 /\ i + 1 \in CellIds => buf[i + 1] = EmptyCell
  <2>1. buf[i].sym.width = PlaceWidth(s) /\ ColOf(i) = LeftCell /\ PageCells(s, i) # {}
    BY <1>5, Kinds
  <2>2. PlaceWidth(s) # 0
    BY <1>1, <2>1, SamePages
  <2>3. ASSUME NEW k \in RowSpan(buf, i)
        PROVE  /\ k \in CellIds /\ buf[k].sym.kind \in {"empty", "label"}
               /\ buf[k].skip <=> buf[k].sym.kind = "empty"
    <3>1. /\ k \in CellIds /\ ColOf(k) = LeftCell + (k - i) /\ k - i \in Nat /\ k - i > 0
          /\ PageCells(s, k) = PageCells(s, i)
      BY <1>5, RowCells
    <3>2. ColOf(k) # LeftCell /\ PageCells(s, k) # {}
      BY <1>1, <2>1, <3>1
    <3> QED
      BY <3>1, <3>2, Kinds
  <2>4. ASSUME PlaceWidth(s) = 1, i + 1 \in CellIds PROVE buf[i + 1] = EmptyCell
    <3>1. i + 1 \in CellIds /\ ColOf(i + 1) = LeftCell + 1
      BY <1>1, <2>1, Along
    <3>2. PageCells(s, i + 1) = {}
      BY <1>1, <2>4, <3>1, SamePages
    <3>3. ~ (ColOf(i + 1) >= LeftCell + 2) /\ ColOf(i + 1) # 0
      BY <1>1, <3>1
    <3> QED
      BY <3>1, <3>2, <3>3, Kinds
  <2> QED
    BY <1>1, <2>1, <2>2, <2>3, <2>4
<1>6. ASSUME NEW i \in CellIds, buf[i].sym.kind = "clear"
      PROVE  /\ i + 1 \in CellIds => buf[i + 1] = EmptyCell
             /\ \A k \in 0 .. i - 1 : i \notin Painted(buf, k)
  <2>1. ColOf(i) = 0 /\ PageCells(s, i) = {}
    BY <1>6, Kinds
  <2>2. ASSUME i + 1 \in CellIds PROVE buf[i + 1] = EmptyCell
    <3>1. i + 1 \in CellIds /\ ColOf(i + 1) = 1 /\ RowOf(i + 1) = RowOf(i)
      BY <1>1, <2>1, Along
    <3>2. PageCells(s, i + 1) = {}
      <4>1. SUFFICES ASSUME PageCells(s, i + 1) # {} PROVE FALSE
        OBVIOUS
      <4>2. LeftCell <= 1 /\ 1 < LeftCell + PlaceWidth(s)
        BY <3>1, <4>1, SamePages
      <4>3. LeftCell <= ColOf(i) /\ ColOf(i) < LeftCell + PlaceWidth(s)
        BY <1>1, <2>1, <4>2
      <4>4. PageCells(s, i + 1) = PageCells(s, i)
        BY <3>1, <4>2, <4>3, SamePages
      <4> QED
        BY <2>1, <4>1, <4>4
    <3>3. ~ (ColOf(i + 1) >= LeftCell + 2) /\ ColOf(i + 1) # 0
      BY <1>1, <3>1
    <3> QED
      BY <3>1, <3>2, <3>3, Kinds
  <2>3. ASSUME NEW k \in 0 .. i - 1, i \in Painted(buf, k) PROVE FALSE
    <3>1. k \in CellIds /\ k \in Nat /\ i \in Nat /\ k < i
      BY <1>20 DEF CellIds
    <3>2. k - ColOf(k) + AreaCols <= i /\ ColOf(k) \in Nat
      BY <1>2, <2>1, <3>1, RowEnds
    <3>3. CASE buf[k].sym.kind = "clear"
      <4>1. ColOf(k) = 0 /\ i \in k .. k + AreaCols - 1
        BY <2>3, <3>1, <3>3, Kinds DEF Painted
      <4> QED
        BY <1>1, <3>1, <3>2, <4>1
    <3>4. CASE buf[k].sym.kind = "row"
      <4>1. ColOf(k) = LeftCell /\ i \in k .. k + PlaceWidth(s) - 1
        BY <2>3, <3>1, <3>4, Kinds DEF Painted
      <4> QED
        BY <1>1, <3>1, <3>2, <4>1
    <3>5. CASE buf[k].sym.kind \notin {"clear", "row"}
      BY <2>3, <3>1, <3>5 DEF Painted
    <3> QED
      BY <3>3, <3>4, <3>5
  <2> QED
    BY <2>2, <2>3
<1>7. \A i \in CellIds : buf[i].sym.kind = "label" =>
        ~ buf[i].skip /\ (i > 0 => ~ Wide(buf[i - 1]))
  BY <1>3, Kinds
<1>8. ASSUME NEW i \in CellIds, buf[i].skip
      PROVE  \E j \in CellIds : buf[j].sym.kind = "row" /\ i \in RowSpan(buf, j)
  <2>1. PageCells(s, i) # {} /\ buf[i].sym.kind # "row"
    BY <1>8, Kinds
  <2>2. LeftCell <= ColOf(i) /\ ColOf(i) < LeftCell + PlaceWidth(s) /\ ColOf(i) # LeftCell
    BY <2>1, SamePages, Kinds
  <2>30. i \in Nat /\ i < AreaRows * AreaCols
    BY <1>20 DEF CellIds
  <2>31. RowOf(i) \in Nat /\ i = FirstCell(RowOf(i)) + ColOf(i) /\ ColOf(i) \in Nat
    BY <2>30, CellPlace
  <2>3. /\ RowOf(i) \in Nat /\ i = FirstCell(RowOf(i)) + ColOf(i) /\ i \in Nat
        /\ FirstCell(RowOf(i)) \in Nat /\ ColOf(i) \in Nat /\ i < AreaRows * AreaCols
    BY <1>1, <2>30, <2>31, Product DEF FirstCell
  <2> DEFINE j == FirstCell(RowOf(i)) + LeftCell
  <2>4. RowOf(j) = RowOf(i) /\ ColOf(j) = LeftCell
    <3>1. LeftCell \in 0 .. AreaCols - 1
      BY <1>1
    <3> QED
      BY <2>3, <3>1, CellAt
  <2>5. j \in Nat /\ i \in j + 1 .. j + PlaceWidth(s) - 1 /\ j < i
    BY <1>1, <2>2, <2>3
  <2>6. j \in CellIds
    BY <1>20, <2>3, <2>5 DEF CellIds
  <2> HIDE DEF j
  <2>70. LeftCell <= LeftCell /\ LeftCell < LeftCell + PlaceWidth(s)
    BY <1>1, <2>2, <2>3
  <2>7. PageCells(s, j) = PageCells(s, i)
    BY <2>2, <2>4, <2>6, <2>70, SamePages
  <2>8. buf[j].sym.kind = "row" /\ buf[j].sym.width = PlaceWidth(s)
    BY <2>1, <2>4, <2>6, <2>7, Kinds
  <2> QED
    BY <2>5, <2>6, <2>8 DEF RowSpan
<1>9. \A i \in CellIds :
        /\ buf[i].sym.kind \in {"empty", "filled", "clear", "label", "row"}
        /\ buf[i].skip \in BOOLEAN
  BY Kinds
<1> QED
  BY <1>4, <1>5, <1>6, <1>7, <1>8, <1>9 DEF Framed

(* What the cells of a buffer show is what the frame means.                *)
Means(s, buf) ==
    /\ \A i \in CellIds : ~ buf[i].skip => Look(buf[i].sym, 0) = Meant(s, i)
    /\ \A i \in CellIds : buf[i].sym.kind = "row" =>
         \A k \in RowSpan(buf, i) :
           buf[k].skip => Len(Meant(s, k)) = 3 /\ Meant(s, k) = Look(buf[i].sym, k - i)

LEMMA FrameMeans ==
    ASSUME NEW s, Shootable(s), NEW buf, DrawnBuffer(s, buf)
    PROVE  Means(s, buf)
<1>0. LeftCell \in Nat /\ SourceCol(s) \in Nat /\ s.kind = "pages"
  BY PageColumns DEF Shootable
<1>1. \A i \in CellIds :
        Meant(s, i) =
          IF Labelled(s, i) # {} THEN Loading(Max(Labelled(s, i)))
          ELSE IF PageCells(s, i) = {} THEN Bare
          ELSE Placeholder(Max(PageCells(s, i)),
                           SourceRow(s, Max(PageCells(s, i))) + RowOf(i)
                             - PlaceRect(s, Max(PageCells(s, i))).top,
                           SourceCol(s) + ColOf(i) - PlaceRect(s, Max(PageCells(s, i))).left)
  BY <1>0 DEF Meant, Labelled, PageCells, Over
<1>2. ASSUME NEW i \in CellIds, PageCells(s, i) # {},
             NEW p \in PageCells(s, i), \A q \in PageCells(s, i) : q <= p
      PROVE  Max(PageCells(s, i)) = p /\ PlaceRect(s, p).left = LeftCell
  <2>1. PageCells(s, i) \subseteq 0 .. doc.layout.n /\ doc.layout.n \in Nat
    BY SamePages, ZoomsAssumption DEF Shootable, PagesOf
  <2>2. /\ Max(PageCells(s, i)) \in PageCells(s, i)
        /\ \A q \in PageCells(s, i) : Max(PageCells(s, i)) >= q
    BY <1>2, <2>1, MaxIs
  <2>3. Max(PageCells(s, i)) = p
    BY <1>2, <2>1, <2>2
  <2>4. p \in PagesOf(doc.layout)
    BY SamePages
  <2> QED
    BY <2>3, <2>4, Rectangle
<1>3. ASSUME NEW i \in CellIds, ~ buf[i].skip PROVE Look(buf[i].sym, 0) = Meant(s, i)
  <2>1. DrawnCell(s, buf[i], i)
    BY DEF DrawnBuffer
  <2>2. CASE Labelled(s, i) # {} /\ buf[i] = LabelCell(Max(Labelled(s, i)))
    BY <1>1, <2>2 DEF Look, LabelCell
  <2>3. CASE /\ Labelled(s, i) = {} /\ PageCells(s, i) = {}
             /\ buf[i] = EmptyCell \/ (ColOf(i) = 0 /\ buf[i] = ClearCell)
    <3>1. buf[i].sym.kind \in {"empty", "clear"}
      BY <2>3 DEF EmptyCell, ClearCell, Symbol
    <3> QED
      BY <1>1, <2>3, <3>1 DEF Look
  <2>4. CASE Labelled(s, i) = {} /\ PageCells(s, i) # {} /\ ColOf(i) # LeftCell /\ buf[i] = HiddenCell
    BY <1>3, <2>4 DEF HiddenCell
  <2>5. CASE /\ Labelled(s, i) = {} /\ PageCells(s, i) # {} /\ ColOf(i) = LeftCell
             /\ \E p \in PageCells(s, i) :
                  (\A q \in PageCells(s, i) : q <= p) /\ buf[i] = RowOfPage(s, p, i)
    <3>1. PICK p \in PageCells(s, i) :
            (\A q \in PageCells(s, i) : q <= p) /\ buf[i] = RowOfPage(s, p, i)
      BY <2>5
    <3>2. Max(PageCells(s, i)) = p /\ PlaceRect(s, p).left = LeftCell
      BY <1>2, <2>5, <3>1
    <3>3. Look(buf[i].sym, 0) =
            Placeholder(p, SourceRow(s, p) + RowOf(i) - PlaceRect(s, p).top, SourceCol(s) + 0)
      BY <3>1 DEF Look, RowOfPage, RowCell
    <3>4. SourceCol(s) + ColOf(i) - LeftCell = SourceCol(s) + 0
      BY <1>0, <2>5
    <3> QED
      BY <1>1, <2>5, <3>2, <3>3, <3>4
  <2> QED
    BY <2>1, <2>2, <2>3, <2>4, <2>5 DEF DrawnCell
<1>4. ASSUME NEW i \in CellIds, buf[i].sym.kind = "row", NEW k \in RowSpan(buf, i), buf[k].skip
      PROVE  Len(Meant(s, k)) = 3 /\ Meant(s, k) = Look(buf[i].sym, k - i)
  <2>1. /\ k \in CellIds /\ RowOf(k) = RowOf(i) /\ ColOf(k) = LeftCell + (k - i)
        /\ PageCells(s, k) = PageCells(s, i) /\ k - i \in Nat
    BY <1>4, RowCells
  <2>2. PageCells(s, i) # {} /\ ColOf(i) = LeftCell /\ Labelled(s, i) = {}
    BY <1>4, Kinds
  <2>3. Labelled(s, k) = {}
    BY <1>4, <2>1, Kinds
  <2>4. DrawnCell(s, buf[i], i)
    BY DEF DrawnBuffer
  <2>5. PICK p \in PageCells(s, i) :
          (\A q \in PageCells(s, i) : q <= p) /\ buf[i] = RowOfPage(s, p, i)
    BY <2>2, <2>4 DEF DrawnCell
  <2>6. Max(PageCells(s, i)) = p /\ PlaceRect(s, p).left = LeftCell
    BY <1>2, <2>2, <2>5
  <2>7. Look(buf[i].sym, k - i) =
          Placeholder(p, SourceRow(s, p) + RowOf(i) - PlaceRect(s, p).top, SourceCol(s) + (k - i))
    BY <2>5 DEF Look, RowOfPage, RowCell
  <2>8. SourceCol(s) + ColOf(k) - LeftCell = SourceCol(s) + (k - i)
    BY <1>0, <2>1
  <2>9. Meant(s, k) =
          Placeholder(p, SourceRow(s, p) + RowOf(k) - PlaceRect(s, p).top,
                      SourceCol(s) + ColOf(k) - LeftCell)
    BY <1>1, <2>1, <2>2, <2>3, <2>6
  <2>10. Meant(s, k) = Look(buf[i].sym, k - i)
    BY <2>1, <2>7, <2>8, <2>9
  <2>11. Len(Meant(s, k)) = 3
    BY <2>9 DEF Placeholder
  <2> QED
    BY <2>10, <2>11
<1> QED
  BY <1>3, <1>4 DEF Means

(* Where the rows of pages are one cell wide, the document is, and nothing *)
(* is shown outside its column.                                            *)
NarrowRows(buf) ==
    \A i \in CellIds :
      /\ buf[i].sym.kind = "row" /\ buf[i].sym.width = 1 => doc.width = 1 /\ ColOf(i) = LeftCell
      /\ doc.width = 1 => /\ buf[i].sym.kind # "label"
                          /\ buf[i].sym.kind = "row" => buf[i].sym.width = 1 /\ ColOf(i) = LeftCell

NarrowGrid(g) == doc.width = 1 => \A i \in CellIds : ColOf(i) # LeftCell => g[i] = Bare

LEMMA FrameNarrow ==
    ASSUME NEW s, Shootable(s), NEW buf, DrawnBuffer(s, buf)
    PROVE  NarrowRows(buf)
<1> SUFFICES ASSUME NEW i \in CellIds
             PROVE  /\ buf[i].sym.kind = "row" /\ buf[i].sym.width = 1
                         => doc.width = 1 /\ ColOf(i) = LeftCell
                    /\ doc.width = 1 =>
                         /\ buf[i].sym.kind # "label"
                         /\ buf[i].sym.kind = "row" => buf[i].sym.width = 1 /\ ColOf(i) = LeftCell
  BY DEF NarrowRows
<1>1. /\ PlaceWidth(s) = 1 => doc.width = 1
      /\ PlaceWidth(s) \in Nat /\ LeftCell \in Nat
  BY PageColumns
<1>2. /\ buf[i].sym.kind = "row" => /\ ColOf(i) = LeftCell /\ PageCells(s, i) # {}
                                    /\ buf[i].sym.width = PlaceWidth(s)
      /\ buf[i].sym.kind = "label" => doc.width > 1
  BY Kinds
<1>3. doc.width = 1 => PlaceWidth(s) <= 1
  <2>1. PlaceWidth(s) = Min({doc.width - SourceCol(s), AreaCols - LeftCell, DiacriticCap - SourceCol(s)})
    BY DEF PlaceWidth
  <2>2. SourceCol(s) \in Nat /\ SourceCol(s) <= s.pan /\ SourceCol(s) < DiacriticCap /\ DiacriticCap \in Nat
    BY PlacementAssumption DEF SourceCol, Shootable, Overflow, Lesser
  <2>3. AreaCols - LeftCell \in Nat /\ DiacriticCap - SourceCol(s) \in Nat
    BY <2>2, PageColumns
  <2>4. doc.width = 1 => s.pan = 0
    BY PageColumns DEF Shootable, Overflow, Greater
  <2>5. doc.width = 1 => doc.width - SourceCol(s) = 1
    BY <2>2, <2>4
  <2> DEFINE S == {doc.width - SourceCol(s), AreaCols - LeftCell, DiacriticCap - SourceCol(s)}
  <2>6. ASSUME doc.width = 1 PROVE PlaceWidth(s) <= 1
    <3>1. S \subseteq Nat /\ S # {} /\ 1 \in S
      BY <2>3, <2>5, <2>6
    <3>2. PlaceWidth(s) = Min(S)
      BY <2>1
    <3> HIDE DEF S
    <3> QED
      BY <3>1, <3>2, MinIs
  <2> QED
    BY <2>6
<1>4. PageCells(s, i) # {} => PlaceWidth(s) # 0
  <2>1. ColOf(i) \in Nat
    BY PlacementAssumption, CellPlace DEF CellIds
  <2> QED
    BY <1>1, <2>1, SamePages
<1> QED
  BY <1>1, <1>2, <1>3, <1>4

LEMMA FlushNarrow ==
    ASSUME NEW old, NEW new, Framed(new), NarrowRows(new), NarrowGrid(grid)
    PROVE  NarrowGrid(Flushed(old, new))
<1> SUFFICES ASSUME doc.width = 1, NEW i \in CellIds, ColOf(i) # LeftCell
             PROVE  Flushed(old, new)[i] = Bare
  BY DEF NarrowGrid
<1>1. CASE PaintedBy(old, new, i) = {}
  <2>1. Flushed(old, new)[i] = grid[i]
    BY <1>1, FlushedCell
  <2> QED
    BY <2>1 DEF NarrowGrid
<1>2. CASE PaintedBy(old, new, i) # {}
  <2>1. PICK m \in PaintedBy(old, new, i) :
          /\ \A j \in PaintedBy(old, new, i) : j <= m
          /\ Flushed(old, new)[i] = Look(new[m].sym, i - m)
    BY <1>2, FlushedCell
  <2>2. m \in CellIds /\ m \in Nat /\ i \in Painted(new, m)
    BY FlushedCell DEF PaintedBy
  <2>3. new[m].sym.kind # "label" /\ new[m].sym.kind # "row"
    <3>1. new[m].sym.kind = "row" => new[m].sym.width = 1 /\ ColOf(m) = LeftCell
      BY <2>2 DEF NarrowRows
    <3>2. new[m].sym.kind = "row" => i = m
      BY <2>2, <3>1 DEF Painted
    <3> QED
      BY <2>2, <3>1, <3>2 DEF NarrowRows
  <2> QED
    BY <2>1, <2>3 DEF Look
<1> QED
  BY <1>1, <1>2

(* A buffer without pages and labels.                                      *)
LEMMA PlainBuffer ==
    ASSUME NEW buf, \A i \in CellIds : buf[i].sym.kind \in {"empty", "filled"} /\ buf[i].skip = FALSE
    PROVE  /\ Framed(buf) /\ NarrowRows(buf)
           /\ \A i \in CellIds : Look(buf[i].sym, 0) = Bare
<1>1. Framed(buf)
  BY DEF Framed, Wide
<1>2. NarrowRows(buf)
  BY DEF NarrowRows
<1> QED
  BY <1>1, <1>2 DEF Look

LEMMA PlainMeans ==
    ASSUME NEW s, NEW buf, s.kind = "popup" \/ (Visible(s) = {} /\ s.active \subseteq Visible(s)),
           \A i \in CellIds : buf[i].sym.kind \in {"empty", "filled"} /\ buf[i].skip = FALSE
    PROVE  Means(s, buf)
<1>1. \A i \in CellIds : Meant(s, i) = Bare
  BY DEF Meant, Waiting
<1>2. \A i \in CellIds : buf[i].sym.kind # "row"
  OBVIOUS
<1> QED
  BY <1>1, <1>2, PlainBuffer DEF Means

(* Between frames: ratatui's buffer means what the last frame meant, and   *)
(* the terminal shows it.                                                  *)
PlaceInv ==
    /\ doc \in Zooms
    /\ Framed(previous) /\ NarrowRows(previous) /\ NarrowGrid(grid)
    /\ ShowsCells(previous, grid) /\ ShowsGaps(previous, grid) /\ ShowsRows(previous, grid)
    /\ Means(shot, previous)

LEMMA PlaceInitInv == PlaceInit => PlaceInv
<1> SUFFICES ASSUME PlaceInit PROVE PlaceInv
  OBVIOUS
<1>1. /\ doc \in Zooms /\ shot = NoShot /\ previous = FreshBuffer
      /\ grid = [i \in CellIds |-> Bare]
  BY DEF PlaceInit
<1>2. \A i \in CellIds : previous[i].sym.kind \in {"empty", "filled"} /\ previous[i].skip = FALSE
  BY <1>1 DEF FreshBuffer, EmptyCell, Symbol
<1>3. shot.kind = "popup"
  BY <1>1 DEF NoShot
<1>4. \A i \in CellIds : grid[i] = Bare
  BY <1>1
<1>5. Framed(previous) /\ NarrowRows(previous) /\ \A i \in CellIds : Look(previous[i].sym, 0) = Bare
  BY <1>2, PlainBuffer
<1>6. Means(shot, previous)
  BY <1>2, <1>3, PlainMeans
<1>7. /\ ShowsCells(previous, grid) /\ ShowsGaps(previous, grid) /\ ShowsRows(previous, grid)
      /\ NarrowGrid(grid)
  BY <1>2, <1>4, <1>5 DEF ShowsCells, ShowsGaps, ShowsRows, NarrowGrid
<1> QED
  BY <1>1, <1>5, <1>6, <1>7 DEF PlaceInv

(* Whatever a frame draws is a buffer of one of the kinds above.           *)
LEMMA EveryFrame ==
    ASSUME doc \in Zooms, NEW s \in Shots, s.active \subseteq Visible(s)
    PROVE  Framed(Drawn(s).buf) /\ NarrowRows(Drawn(s).buf) /\ Means(s, Drawn(s).buf)
<1>1. CASE s.kind = "popup"
  <2>1. \A i \in CellIds :
          Drawn(s).buf[i].sym.kind \in {"empty", "filled"} /\ Drawn(s).buf[i].skip = FALSE
    BY <1>1 DEF Drawn, FilledCell, Symbol
  <2> QED
    BY <1>1, <2>1, PlainBuffer, PlainMeans
<1>2. CASE s.kind # "popup" /\ Visible(s) = {}
  <2>1. \A i \in CellIds :
          Drawn(s).buf[i].sym.kind \in {"empty", "filled"} /\ Drawn(s).buf[i].skip = FALSE
    BY <1>2 DEF Drawn, FreshBuffer, EmptyCell, Symbol
  <2> QED
    BY <1>2, <2>1, PlainBuffer, PlainMeans
<1>3. CASE s.kind # "popup" /\ Visible(s) # {}
  <2>1. PICK y \in ScrollsTried \cap (0 .. Greater(doc.layout.total - AreaRows * CellPixels, 0)),
             x \in 0 .. Overflow, a \in SUBSET PagesOf(doc.layout) :
               s = [kind |-> "pages", scroll |-> y, pan |-> x, active |-> a]
    BY <1>3 DEF Shots, NoShot
  <2>2. Shootable(s)
    BY <2>1 DEF Shootable
  <2>3. DrawnBuffer(s, Drawn(s).buf)
    BY <1>3, <2>2, DrawnCells
  <2> HIDE DEF Shots
  <2> QED
    BY <2>2, <2>3, FrameIsFramed, FrameNarrow, FrameMeans
<1> QED
  BY <1>1, <1>2, <1>3

LEMMA MeantLater ==
    ASSUME NEW s, shot' = s, doc' = doc
    PROVE  \A i : Meant(shot, i)' = Meant(s, i)
<1>1. LeftCell' = LeftCell /\ SourceCol(shot)' = SourceCol(s)
  BY DEF LeftCell, SourceCol
<1>2. \A p : RowsInView(shot, p)' = RowsInView(s, p) /\ SourceRow(shot, p)' = SourceRow(s, p)
  BY DEF RowsInView, SourceRow
<1>3. InLayoutView(shot)' = InLayoutView(s)
  BY DEF InLayoutView
<1>4. Visible(shot)' = Visible(s)
  BY <1>2, <1>3 DEF Visible
<1>5. Waiting(shot)' = Waiting(s)
  BY <1>4 DEF Waiting
<1>6. \A p : PlaceRect(shot, p)' = PlaceRect(s, p)
  BY <1>1, <1>2 DEF PlaceRect
<1>7. \A p : LabelCells(shot, p)' = LabelCells(s, p)
  BY <1>1 DEF LabelCells
<1> QED
  BY <1>1, <1>2, <1>5, <1>6, <1>7 DEF Meant

LEMMA MeansLater ==
    ASSUME NEW s, NEW buf, shot' = s, doc' = doc, previous' = buf, Means(s, buf)
    PROVE  Means(shot, previous)'
<1>1. \A i : Meant(shot, i)' = Meant(s, i)
  BY MeantLater
<1>2. /\ \A i \in CellIds : ~ buf[i].skip => Look(buf[i].sym, 0) = Meant(s, i)
      /\ \A i \in CellIds : buf[i].sym.kind = "row" =>
           \A k \in RowSpan(buf, i) :
             buf[k].skip => Len(Meant(s, k)) = 3 /\ Meant(s, k) = Look(buf[i].sym, k - i)
  BY DEF Means
<1>3. \A i \in CellIds : RowSpan(previous, i)' = RowSpan(buf, i)
  BY DEF RowSpan
<1>4. \A i \in CellIds : ~ previous'[i].skip => Look(previous'[i].sym, 0) = Meant(shot, i)'
  BY <1>1, <1>2
<1>5. ASSUME NEW i \in CellIds, previous'[i].sym.kind = "row",
             NEW k \in RowSpan(previous, i)', previous'[k].skip
      PROVE  Len(Meant(shot, k)') = 3 /\ Meant(shot, k)' = Look(previous'[i].sym, k - i)
  <2>1. k \in RowSpan(buf, i) /\ buf[k].skip /\ buf[i].sym.kind = "row"
    BY <1>3, <1>5
  <2>2. Len(Meant(s, k)) = 3 /\ Meant(s, k) = Look(buf[i].sym, k - i)
    BY <1>2, <2>1
  <2> QED
    BY <1>1, <2>2
<1> QED
  BY <1>4, <1>5 DEF Means

LEMMA ShowFrameInv == PlaceInv /\ [PlaceNext]_placeVars => PlaceInv'
<1> SUFFICES ASSUME PlaceInv, [PlaceNext]_placeVars PROVE PlaceInv'
  OBVIOUS
<1>1. CASE UNCHANGED placeVars
  <2>1. doc' = doc /\ shot' = shot /\ previous' = previous /\ grid' = grid
    BY <1>1 DEF placeVars
  <2>2. Means(shot, previous)'
    <3> DEFINE s == shot
               buf == previous
    <3>1. shot' = s /\ doc' = doc /\ previous' = buf /\ Means(s, buf)
      BY <2>1 DEF PlaceInv
    <3> HIDE DEF s, buf
    <3> QED
      BY <3>1, MeansLater
  <2>3. LeftCell' = LeftCell
    BY <2>1 DEF LeftCell
  <2>4. NarrowRows(previous)' /\ NarrowGrid(grid)'
    BY <2>1, <2>3 DEF PlaceInv, NarrowRows, NarrowGrid
  <2>5. (doc \in Zooms)' /\ Framed(previous)'
    BY <2>1 DEF PlaceInv
  <2>6. ShowsCells(previous, grid)' /\ ShowsGaps(previous, grid)' /\ ShowsRows(previous, grid)'
    BY <2>1 DEF PlaceInv
  <2> QED
    BY <2>2, <2>4, <2>5, <2>6 DEF PlaceInv
<1>2. CASE ShowFrame
  <2>1. PICK s \in Shots :
          /\ s.active \subseteq Visible(s) /\ shot' = s /\ doc' = doc
          /\ previous' = Drawn(s).buf /\ grid' = Flushed(previous, Drawn(s).buf)
    BY <1>2 DEF ShowFrame
  <2> DEFINE new == Drawn(s).buf
  <2>2. Framed(new) /\ NarrowRows(new) /\ Means(s, new)
    BY <2>1, EveryFrame DEF PlaceInv
  <2>3. AreaCols > 1 /\ LeftCell < AreaCols - 1 /\ LeftCell \in Nat /\ AreaCols \in Nat
    <3>1. /\ AreaCols \in Nat /\ AreaCols > 1 /\ AreaCols - doc.width \notin {2, 3} /\ doc.width \in Nat
      BY PlacementAssumption, ZoomsAssumption DEF PlaceInv
    <3> QED
      BY <3>1 DEF LeftCell, Greater
  <2> HIDE DEF new
  <2>4. ASSUME NEW i \in CellIds, new[i].sym.kind = "row", new[i].sym.width = 1, i + 1 \in CellIds
        PROVE  grid[i + 1] = Bare
    <3>1. doc.width = 1 /\ ColOf(i) = LeftCell
      BY <2>2, <2>4 DEF NarrowRows
    <3>2. ColOf(i + 1) = LeftCell + 1
      BY <2>3, <3>1, Along
    <3>3. ColOf(i + 1) # LeftCell
      BY <2>3, <3>2
    <3> QED
      BY <2>4, <3>1, <3>3 DEF PlaceInv, NarrowGrid
  <2>5. FlushFrom(previous, new)
    BY <2>2, <2>4 DEF FlushFrom, PlaceInv
  <2> DEFINE g == Flushed(previous, new)
  <2>6. ShowsCells(new, g) /\ ShowsGaps(new, g) /\ ShowsRows(new, g)
    BY <2>3, <2>5, FlushCells, FlushGaps, FlushRows
  <2>7. NarrowGrid(g)
    BY <2>2, FlushNarrow DEF PlaceInv
  <2>8. doc' = doc /\ shot' = s /\ previous' = new /\ grid' = g
    BY <2>1 DEF new
  <2> HIDE DEF g
  <2>10. LeftCell' = LeftCell
    BY <2>8 DEF LeftCell
  <2>11. Means(shot, previous)'
    BY <2>2, <2>8, MeansLater
  <2>12. NarrowRows(previous)' /\ NarrowGrid(grid)'
    BY <2>2, <2>7, <2>8, <2>10 DEF NarrowRows, NarrowGrid
  <2>13. (doc \in Zooms)' /\ Framed(previous)'
    BY <2>2, <2>8 DEF PlaceInv
  <2>14. ShowsCells(previous, grid)' /\ ShowsGaps(previous, grid)' /\ ShowsRows(previous, grid)'
    BY <2>6, <2>8
  <2> QED
    BY <2>11, <2>12, <2>13, <2>14 DEF PlaceInv
<1> QED
  BY <1>1, <1>2 DEF PlaceNext

LEMMA PlaceInvShows == PlaceInv => GridShowsFrame
<1> SUFFICES ASSUME PlaceInv, NEW i \in CellIds PROVE grid[i] = Meant(shot, i) \/ LabelLeft(i)
  BY DEF GridShowsFrame
<1> USE DEF PlaceInv
<1>1. CASE previous[i].skip
  <2>1. PICK j \in CellIds : previous[j].sym.kind = "row" /\ i \in RowSpan(previous, j)
    BY <1>1 DEF Framed
  <2>2. grid[i] = Look(previous[j].sym, i - j) \/ Len(grid[i]) = 1
    BY <2>1 DEF ShowsRows
  <2>3. Len(Meant(shot, i)) = 3 /\ Meant(shot, i) = Look(previous[j].sym, i - j)
    BY <1>1, <2>1 DEF Means
  <2> QED
    BY <2>2, <2>3 DEF LabelLeft
<1>2. CASE ~ previous[i].skip /\ (i > 0 => ~ Wide(previous[i - 1]))
  BY <1>2 DEF ShowsCells, Means
<1>3. CASE ~ previous[i].skip /\ i > 0 /\ Wide(previous[i - 1])
  <2>1. i \in Nat /\ i - 1 \in CellIds
    <3>1. AreaRows * AreaCols \in Nat
      BY PlacementAssumption, Product
    <3> QED
      BY <1>3, <3>1 DEF CellIds
  <2>2. (i - 1) + 1 = i
    BY <2>1
  <2> DEFINE h == i - 1
  <2>3. h \in CellIds /\ h + 1 = i /\ Wide(previous[h])
    BY <1>3, <2>1, <2>2
  <2> HIDE DEF h
  <2>4. previous[h].sym.kind = "row" => previous[h].sym.width = 1
    <3>1. SUFFICES ASSUME previous[h].sym.kind = "row", previous[h].sym.width # 1 PROVE FALSE
      OBVIOUS
    <3>2. previous[h].sym.width \in Nat \ {0}
      BY <2>3, <3>1 DEF Framed
    <3>3. i \in RowSpan(previous, h)
      <4>1. h \in Int
        BY <2>1, <2>3 DEF h
      <4> QED
        BY <2>1, <2>3, <3>1, <3>2, <4>1 DEF RowSpan
    <3>4. previous[i].sym.kind = "label"
      BY <1>3, <2>3, <3>1, <3>3 DEF Framed
    <3> QED
      BY <1>3, <3>4 DEF Framed
  <2>5. previous[i] = EmptyCell
    BY <2>3, <2>4 DEF Framed, Wide
  <2>6. grid[i] = Bare
    BY <2>3, <2>4 DEF ShowsGaps
  <2>7. Look(previous[i].sym, 0) = Bare
    BY <2>5 DEF Look, EmptyCell, Symbol
  <2> QED
    BY <1>3, <2>6, <2>7 DEF Means
<1> QED
  BY <1>1, <1>2, <1>3

-----------------------------------------------------------------------------

(* Whatever frames came before, the grid shows the frame that was drawn    *)
(* last: every page at its place, labels on top, and no placeholder of an  *)
(* earlier frame (clear_page_area, place_page, paint_loading_indicator in  *)
(* kitty_pages.rs and ui.rs; ratatui writes only the cells that differ).   *)
THEOREM GridAlwaysShowsFrame == MCSpec => []GridShowsFrame
<1>1. MCInit => PlaceInv
  <2> SUFFICES ASSUME MCInit PROVE PlaceInv
    OBVIOUS
  <2>1. PlaceInit
    BY DEF MCInit, NoCells
  <2> QED
    BY <2>1, PlaceInitInv
<1>2. PlaceInv /\ [MCNext]_<<part, vars, frame, hash, textPage, linkCount, indexVars, placeVars>>
        => PlaceInv'
  <2> SUFFICES ASSUME PlaceInv,
                      [MCNext]_<<part, vars, frame, hash, textPage, linkCount, indexVars, placeVars>>
               PROVE  PlaceInv'
    OBVIOUS
  <2>1. [PlaceNext]_placeVars
    BY DEF MCNext
  <2> QED
    BY <2>1, ShowFrameInv
<1> QED
  BY <1>1, <1>2, PlaceInvShows, PTL DEF MCSpec

=============================================================================
