------------------------------ MODULE MCStores ------------------------------
(***************************************************************************)
(* What is kept in files and must survive other processes and crashes, for *)
(* TLC: the bitmap cache and the highlights.  They share nothing but the   *)
(* rule by which files are replaced, so a behaviour is one of the two.     *)
(***************************************************************************)
EXTENDS DiskCache, Highlights

CONSTANTS v1, v2

VARIABLE part

Symmetry == Permutations({v1, v2})

(* Bitmaps of one page in both colours, the dark one larger.               *)
Colours == {[page |-> 0, width |-> 1, dark |-> d] : d \in BOOLEAN}
ColourBytes == [b \in Colours |-> IF b.dark THEN 2 ELSE 1]

(* A document with another tool's highlight and one of ours that has lost  *)
(* its bounds; and one with more of ours, one of them of an older version. *)
Theirs == [kind |-> "foreign", group |-> NoGroup, id |-> 0]
Own(g, i) == [kind |-> "ours", group |-> g, id |-> i]
NoBounds == [kind |-> "unplaced", group |-> 1, id |-> 102]
TwoPages == {0, 1}
SomePdfs ==
    {[p \in TwoPages |-> IF p = 0 THEN <<NoBounds, Theirs>> ELSE <<>>],
     [p \in TwoPages |-> IF p = 0 THEN <<Own(1, 100), Theirs>>
                         ELSE <<Own(NoGroup, 101)>>]}

NoDisk == DiskInit /\ files = <<>> /\ tmps = {}
OnePdf == HlInit /\ pdf = (CHOOSE p \in InitialPdfs : TRUE)

StoresInit ==
    \/ part = "bitmaps" /\ DiskInit /\ OnePdf
    \/ part = "highlights" /\ NoDisk /\ HlInit

StoresNext ==
    \/ part = "bitmaps" /\ DiskNext /\ UNCHANGED <<part, hlVars>>
    \/ part = "highlights" /\ HlNext /\ UNCHANGED <<part, diskVars>>

StoresSpec == StoresInit /\ [][StoresNext]_<<part, diskVars, hlVars>>

=============================================================================
