---------------------------- MODULE LayoutSearch ----------------------------
(***************************************************************************)
(* The binary searches of PageLayout (visible_pages and page_at in         *)
(* src/layout.rs), one step per probe, against the definitions of Layout   *)
(* by what they look for.                                                  *)
(***************************************************************************)
EXTENDS Layout

CONSTANTS
    Layouts,          \* layouts to search
    Tops, Viewports   \* scroll positions and viewport heights to search for

(* What build guarantees: pages follow each other downwards.               *)
Ordered(l) ==
    /\ l.n \in Nat /\ l.gap \in Nat
    /\ l.y \in [PagesOf(l) -> Nat] /\ l.h \in [PagesOf(l) -> Nat]
    /\ \A p, q \in PagesOf(l) : p < q => Bottom(l, p) + l.gap <= l.y[q]

ASSUME LayoutsAssumption == \A l \in Layouts : Ordered(l)
ASSUME QueriesAssumption == Tops \subseteq Int /\ Viewports \subseteq Nat

VARIABLES l, top, viewport,   \* the query
          call,               \* "visible_pages" or "page_at"
          search,             \* the loop that runs: "first", "last", "owner", or "done"
          lo, hi,
          first,              \* result of the first loop of visible_pages
          found               \* the result, as a set of pages

vars == <<l, top, viewport, call, search, lo, hi, first, found>>
query == <<l, top, viewport, call>>

(* Mutant: a page that ends where the window starts counts as visible.     *)
PastStrictly(s, p) ==
    \/ s = "first" /\ Bottom(l, p) < top
    \/ s = "last"  /\ l.y[p] < top + viewport
    \/ s = "owner" /\ Bottom(l, p) + l.gap <= top

(* The comparison of each loop: true of the pages before the one sought.   *)
Past(s, p) ==
    \/ s = "first" /\ Bottom(l, p) <= top
    \/ s = "last"  /\ l.y[p] < top + viewport
    \/ s = "owner" /\ Bottom(l, p) + l.gap <= top

(* The early returns of both functions.                                    *)
Trivial ==
    /\ \/ search = "first" /\ l.n = 0
       \/ search = "owner" /\ (l.n = 0 \/ top < 0)
    /\ found' = IF search = "first" THEN {} ELSE {0}
    /\ search' = "done"
    /\ UNCHANGED <<query, lo, hi, first>>

Searching ==
    \/ search = "first" /\ l.n > 0
    \/ search = "owner" /\ l.n > 0 /\ top >= 0
    \/ search = "last"

(* Mutant: the upper half is cut off too early.                            *)
HalveTooFar ==
    LET mid == lo + (hi - lo) \div 2
    IN  IF Past(search, mid) THEN lo' = mid + 1 /\ UNCHANGED hi
        ELSE hi' = Greater(lo, mid - 1) /\ UNCHANGED lo

(* Mutant: the lower bound stays on the probe.                             *)
HalveOnProbe ==
    LET mid == lo + (hi - lo) \div 2
    IN  IF Past(search, mid) THEN lo' = mid /\ UNCHANGED hi
        ELSE hi' = mid /\ UNCHANGED lo

Halve ==
    LET mid == lo + (hi - lo) \div 2
    IN  IF Past(search, mid) THEN lo' = mid + 1 /\ UNCHANGED hi
        ELSE hi' = mid /\ UNCHANGED lo

Probe ==
    /\ Searching /\ lo < hi
    /\ Halve
    /\ UNCHANGED <<query, search, first, found>>

FirstFound ==
    /\ search = "first" /\ Searching /\ lo >= hi
    /\ IF lo >= l.n
       THEN search' = "done" /\ found' = {} /\ UNCHANGED <<lo, hi, first>>
       ELSE search' = "last" /\ first' = lo /\ lo' = 0 /\ hi' = l.n /\ UNCHANGED found
    /\ UNCHANGED query

LastFound ==
    /\ search = "last" /\ lo >= hi
    /\ found' = first .. lo - 1
    /\ search' = "done"
    /\ UNCHANGED <<query, lo, hi, first>>

OwnerFound ==
    /\ search = "owner" /\ Searching /\ lo >= hi
    /\ found' = {Lesser(lo, l.n - 1)}
    /\ search' = "done"
    /\ UNCHANGED <<query, lo, hi, first>>

Init ==
    /\ l \in Layouts /\ top \in Tops /\ viewport \in Viewports
    /\ call \in {"visible_pages", "page_at"}
    /\ search = IF call = "visible_pages" THEN "first" ELSE "owner"
    /\ lo = 0 /\ hi = l.n /\ first = 0 /\ found = {}

Next == Trivial \/ Probe \/ FirstFound \/ LastFound \/ OwnerFound

Spec == Init /\ [][Next]_vars /\ WF_vars(Next)

-----------------------------------------------------------------------------
(* The searches return what Layout says: the visible range has every page  *)
(* that meets the window and no other, and a position has one owner, with  *)
(* empty pages, gaps and positions outside the document included.          *)
ResultMatches ==
    search = "done" =>
        found = IF call = "visible_pages" THEN VisiblePages(l, top, viewport)
                ELSE {PageAt(l, top)}

(* The bracket of a loop always encloses the answer.                       *)
Bracket ==
    search # "done" =>
        /\ 0 <= lo /\ lo <= hi /\ hi <= l.n
        /\ \A p \in PagesOf(l) : (p < lo => Past(search, p)) /\ (p >= hi => ~Past(search, p))

(* Every search ends.                                                      *)
Terminates == <>(search = "done")

=============================================================================
