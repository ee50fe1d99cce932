---------------------------- MODULE RunLoopClaims ----------------------------
(***************************************************************************)
(* What a comment in src/ui.rs promises of the draw path, where the code   *)
(* falls short of it: a run refutes it, and the README tells the story.    *)
(***************************************************************************)
EXTENDS RunLoop

(* LONG_JUMP_VIEWPORT_MULTIPLIER: "Forcing re-transmit guarantees the next *)
(* frame's placement cells point at images Ghostty actually holds".        *)
ForcedReachTerminal ==
    [][FlushFrame => \A p \in send : held'[p] # None /\ held'[p].print = PrintOf(p)]_vars

=============================================================================
