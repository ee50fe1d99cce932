------------------------------- MODULE ImageId -------------------------------
(***************************************************************************)
(* The image id of a page: stable_kitty_id (src/app.rs) reduces a hash to  *)
(* the lower half of u32 and id_for (src/kitty_pages.rs) adds the page to  *)
(* it.  Half is 2^31 in the program; u32 is 0 .. 2 * Half - 1.             *)
(***************************************************************************)
EXTENDS Integers

CONSTANT Half
ASSUME HalfAssumption == Half \in Nat /\ Half > 1

U32 == 0 .. 2 * Half - 1
RealisticPages == 0 .. Half - 1          \* "the realistic range (< 2^31)"

AtLeastOne(n) == IF n < 1 THEN 1 ELSE n

(* Mutant: any hash will do.                                               *)
WholeRange(h) == AtLeastOne(h)

(* The last line of stable_kitty_id.                                       *)
StableKittyId(h) == AtLeastOne(h % Half)

(* id_for: the folded branch is for bases stable_kitty_id never returns.   *)
IdFor(base, p) ==
    IF base + 1 + p <= 2 * Half - 1 THEN base + 1 + p
    ELSE AtLeastOne((base + 1 + p) % Half)

VARIABLE hash      \* of the process id and the clock, once per session

AnyHash == hash \in U32
IdSpec == AnyHash /\ [][UNCHANGED hash]_hash

(* Two pages never share an id, and none gets the reserved id 0: whatever  *)
(* the process id and the clock hash to, a delete or a placement can only  *)
(* hit the page it is meant for.                                           *)
IdsDistinct ==
    \A p, q \in RealisticPages :
        LET id(page) == IdFor(StableKittyId(hash), page)
        IN  /\ id(p) \in U32 \ {0}
            /\ id(p) = id(q) => p = q

=============================================================================
