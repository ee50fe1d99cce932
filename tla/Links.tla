------------------------------- MODULE Links -------------------------------
(***************************************************************************)
(* links.rs and the link lookups of app.rs: where a link leads, which link *)
(* is under a cell of the screen, and the labels of link-hint mode.        *)
(***************************************************************************)
EXTENDS Integers, Sequences, FiniteSets, FiniteSetsExt

CONSTANT AlphabetSize        \* of HINT_ALPHABET; letters are 1 .. AlphabetSize
ASSUME AlphabetAssumption == AlphabetSize \in Nat /\ AlphabetSize > 1

NoAction == [kind |-> "none"]
GoToPage(p) == [kind |-> "goto", page |-> p]

----------------------------------------------------------------------------
(* Resolution of a link annotation with the action `a` and the destination *)
(* `dest`, each {} or one value: the action first, a URI before a place in *)
(* the document, then the destination.  {} drops the link.                 *)
ResolveAction(a) == {x \in a : x.kind \in {"url", "goto"}}

ResolveLink(a, dest) ==
    IF ResolveAction(a) # {} THEN ResolveAction(a) ELSE {GoToPage(p) : p \in dest}

(* is_safe_external_url                                                    *)
SafeSchemes == {"http", "https", "mailto"}

(* link_at_norm_with_slop: of the links whose box, widened by half a cell, *)
(* holds the point, the smallest, the first of the page among equals.      *)
LinkAt(boxes, x, y, slopX, slopY) ==
    LET Holds(b) == /\ b.x - slopX <= x /\ x <= b.x + b.w + slopX
                    /\ b.y - slopY <= y /\ y <= b.y + b.h + slopY
        Area(i) == boxes[i].w * boxes[i].h
        hit == {i \in DOMAIN boxes : Holds(boxes[i])}
        small == {i \in hit : \A j \in hit : Area(i) <= Area(j)}
    IN  IF hit = {} THEN {} ELSE {Min(small)}

----------------------------------------------------------------------------
(* Link-hint mode                                                          *)

(* Mutant: one prefix more than needed when the labels fit exactly.        *)
PrefixCountSpare(n) ==
    LET Fits(p) == (AlphabetSize - p) + p * AlphabetSize > n
    IN  Min({p \in 1 .. AlphabetSize : Fits(p)} \cup {AlphabetSize})

(* The loop of gen_hints: how many letters begin labels of two letters.    *)
PrefixCount(n) ==
    LET Fits(p) == (AlphabetSize - p) + p * AlphabetSize >= n
    IN  Min({p \in 1 .. AlphabetSize : Fits(p)} \cup {AlphabetSize})

(* gen_hints: labels for n links, at most AlphabetSize ^ 2 of them.        *)
GenHints(n) ==
    LET single == AlphabetSize - PrefixCount(n)
        Double(k) == <<single + 1 + (k \div AlphabetSize), 1 + (k % AlphabetSize)>>
        all == [i \in 1 .. single + (AlphabetSize - single) * AlphabetSize |->
                  IF i <= single THEN <<i>> ELSE Double(i - single - 1)]
    IN  IF n <= AlphabetSize THEN [i \in 1 .. n |-> <<i>>]
        ELSE SubSeq(all, 1, Min({n, Len(all)}))

(* The labels of enter_link_hint_mode: links beyond the supply of labels   *)
(* keep an empty one.                                                      *)
HintLabels(n) ==
    [i \in 1 .. n |-> IF i <= Len(GenHints(n)) THEN GenHints(n)[i] ELSE <<>>]

StartsWith(label, typed) ==
    Len(typed) <= Len(label) /\ SubSeq(label, 1, Len(typed)) = typed

(* hint_keystroke: the links that what was typed so far may still mean.    *)
(* None or a single one ends the mode.                                     *)
HintMatches(labels, typed) == {i \in DOMAIN labels : StartsWith(labels[i], typed)}

----------------------------------------------------------------------------
(* While there are labels enough, the links differ in theirs, and typing a *)
(* label picks its link with the last letter and not before: a letter too  *)
(* many would be taken as a command of Normal mode.                        *)
LabelsChoosable(n) ==
    n <= AlphabetSize * AlphabetSize =>
      LET labels == HintLabels(n)
      IN  \A i \in DOMAIN labels :
            /\ HintMatches(labels, labels[i]) = {i}
            /\ \A k \in 1 .. Len(labels[i]) - 1 :
                 Cardinality(HintMatches(labels, SubSeq(labels[i], 1, k))) > 1

=============================================================================
