-------------------------- MODULE MCKittyRegistry --------------------------
(* Instances of KittyRegistry for TLC.                                     *)
EXTENDS KittyRegistry, TLC

CONSTANT MaxCumulative   \* bound on the bytes sent in one epoch

(* Two fingerprints of different size: a page re-marked under the other    *)
(* one changes its share of the running total.                             *)
SmallLarge == "small" :> 1 @@ "large" :> 2

PageSymmetry == Permutations(Pages)

MCNext == Next /\ transmitted_bytes_cumulative' <= MaxCumulative
MCSpec == Init /\ [][MCNext]_vars

=============================================================================
