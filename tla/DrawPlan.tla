------------------------------ MODULE DrawPlan ------------------------------
(***************************************************************************)
(* The pure decisions of a frame (src/ui.rs): which cold pages it renders, *)
(* which transmits it puts off, and when it distrusts every transmit made  *)
(* so far.  Page sets stand for the slices: a slice lists the visible      *)
(* pages in ascending order, so a page stands for its index too.           *)
(***************************************************************************)
EXTENDS Integers, FiniteSets

MaxColdRenders == 1     \* MAX_COLD_RENDERS_PER_DRAW
MaxTransmits == 2       \* MAX_TRANSMITS_PER_DRAW
JumpViewports == 2      \* LONG_JUMP_VIEWPORT_MULTIPLIER

Distance(a, b) == IF a > b THEN a - b ELSE b - a
Rank(p, S) == Cardinality({q \in S : q < p})

(* plan_cold_render over the visible pages in order: a page the budget     *)
(* allows is attempted, rapid input puts every cold page off.              *)
ColdAttempts(cold, rapid) ==
    IF rapid THEN {} ELSE {p \in cold : Rank(p, cold) < MaxColdRenders}

(* Mutant: the sort is turned around.                                      *)
Farther(q, p, current) ==
    \/ Distance(q, current) > Distance(p, current)
    \/ Distance(q, current) = Distance(p, current) /\ q < p

(* The sort key (distance from the current page, index).                   *)
Closer(q, p, current) ==
    \/ Distance(q, current) < Distance(p, current)
    \/ Distance(q, current) = Distance(p, current) /\ q < p

(* Mutant: pages without any image in the terminal may wait as well.       *)
AnyMayWait(need, prior, current) ==
    IF Cardinality(need) <= MaxTransmits THEN {}
    ELSE {p \in need : Cardinality({q \in need : Closer(q, p, current)}) >= MaxTransmits}

(***************************************************************************)
(* plan_transmit_deferrals: of the pages that need a transmit, those the   *)
(* terminal already has some image for may wait.  The closest to the       *)
(* current page fill what the others leave of the budget.                  *)
(***************************************************************************)
TransmitDeferrals(need, prior, current) ==
    LET candidates == need \cap prior
        others == Cardinality(need \ prior)
        keep == IF others < MaxTransmits THEN MaxTransmits - others ELSE 0
    IN  IF Cardinality(need) <= MaxTransmits THEN {}
        ELSE {p \in candidates :
                Cardinality({q \in candidates : Closer(q, p, current)}) >= keep}

IsLongJump(prev, curr, viewport) ==
    viewport > 0 /\ Distance(curr, prev) > JumpViewports * viewport

=============================================================================
