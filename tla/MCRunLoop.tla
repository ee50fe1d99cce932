------------------------------ MODULE MCRunLoop ------------------------------
(* Instances of RunLoop for TLC; the configurations choose the geometry:   *)
(* "spread" windows meet three pages at once, so that transmits have to    *)
(* wait; "jump" documents are long enough for long jumps and evictions.    *)
EXTENDS RunLoopClaims

=============================================================================
