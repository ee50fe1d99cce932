------------------------- MODULE SearchIndexProofs -------------------------
(***************************************************************************)
(* Theorems about SearchIndex, for every alphabet, document, query and     *)
(* number of sessions and failed writes.                                   *)
(*                                                                         *)
(* The index always holds the first k pages (PrefixIndex), and what is or  *)
(* will be in the file all of them (IndexInv).  From there on nothing      *)
(* moves: the rest are lemmas about the search in such an index, which     *)
(* follow the code.  The scan (MatchStarts) finds the matches from left to *)
(* right, and of the overlapping ones it skips, each lies in the page of   *)
(* one it takes, as no match spans the newline between two pages; the      *)
(* offsets of matches grow with their places; the forward cursor           *)
(* (Advance) stops at the page an offset lies in (Owns), so that the walk  *)
(* over the offsets lists the pages with a match, once each, ascending.    *)
(***************************************************************************)
EXTENDS SearchIndex, LayoutProofs

LEMMA ElementOf ==
    ASSUME NEW S, NEW s \in Seq(S)
    PROVE  \A x \in 1 .. Len(s) : s[x] \in S
OBVIOUS

-----------------------------------------------------------------------------
(* Lengths in bytes.                                                       *)

(* The recursion of ByteLen.                                               *)
Counts(f, s) ==
    /\ f \in [0 .. Len(s) -> Nat] /\ f[0] = 0
    /\ \A i \in 1 .. Len(s) : f[i] = f[i - 1] + Width[s[i]]

LEMMA ByteLenCounts ==
    ASSUME NEW s \in Seq(Chars)
    PROVE  \E f : Counts(f, s) /\ ByteLen(s) = f[Len(s)]
<1> DEFINE n == Len(s)
           Rec(f) == f = [i \in 0 .. n |-> IF i = 0 THEN 0 ELSE f[i - 1] + Width[s[i]]]
           upTo[i \in 0 .. n] == IF i = 0 THEN 0 ELSE upTo[i - 1] + Width[s[i]]
           Step == [i \in 1 .. n |-> [x \in Nat |-> x + Width[s[i]]]]
           none == 0
           D == Nat
<1>0. n \in Nat /\ \A i \in 1 .. n : Width[s[i]] \in Nat
  BY SearchIndexAssumption
<1>1. PICK f : Iteration(f, n, D, none, Step)
  <2>1. Step \in [1 .. n -> [D -> D]] /\ none \in D
    BY <1>0
  <2>2. n \in Nat
    BY <1>0
  <2> HIDE DEF Step, n, none, D
  <2> QED
    BY <2>1, <2>2, Iterates, Zenon
<1>2. f \in [0 .. n -> Nat] /\ f[0] = 0 /\ \A i \in 1 .. n : f[i] = Step[i][f[i - 1]]
  <2> HIDE DEF Step
  <2> QED
    BY <1>1 DEF Iteration
<1>3. \A i \in 1 .. n : f[i] = f[i - 1] + Width[s[i]]
  <2> TAKE i \in 1 .. n
  <2>1. Step[i] = [x \in Nat |-> x + Width[s[i]]] /\ f[i - 1] \in Nat
    <3>1. i - 1 \in 0 .. n
      BY <1>0
    <3>2. f[i - 1] \in Nat
      BY <1>2, <3>1
    <3> QED
      BY <3>2
  <2>2. f[i] = Step[i][f[i - 1]]
    BY <1>2
  <2> HIDE DEF Step
  <2> QED
    BY <2>1, <2>2
<1>4. Rec(f)
  BY <1>0, <1>2, <1>3
<1>5. Rec(upTo)
  <2>1. \E g : Rec(g)
    BY <1>4
  <2> QED
    BY <2>1
<1>6. ByteLen(s) = upTo[n]
  BY DEF ByteLen
<1> HIDE DEF upTo
<1>7. \A i \in 0 .. n : upTo[i] = f[i]
  <2> DEFINE T == {i \in 0 .. n : upTo[i] = f[i]}
  <2>1. \A i \in 0 .. n : upTo[i] = IF i = 0 THEN 0 ELSE upTo[i - 1] + Width[s[i]]
    BY <1>5
  <2>2. 0 \in T
    BY <1>0, <1>2, <2>1
  <2>3. ASSUME NEW i \in 1 .. n, i - 1 \in T PROVE i \in T
    BY <1>0, <1>3, <2>1, <2>3
  <2>4. \A i \in 0 .. n : i \in T
    <3> HIDE DEF T, n
    <3> QED
      BY <1>0, <2>2, <2>3, Climb
  <2> QED
    BY <2>4
<1>8. Counts(f, s)
  BY <1>2, <1>3 DEF Counts
<1> QED
  BY <1>0, <1>6, <1>7, <1>8

(* Texts whose characters are equally wide have the same length, also up   *)
(* to any place.                                                           *)
SameWidths(s, t, n) == \A i \in 1 .. n : Width[s[i]] = Width[t[i]]

LEMMA CountsAgree ==
    ASSUME NEW s \in Seq(Chars), NEW t \in Seq(Chars), NEW n \in 0 .. Len(s), n <= Len(t),
           SameWidths(s, t, n),
           NEW f, Counts(f, s), NEW g, Counts(g, t), NEW j \in 0 .. n
    PROVE  f[j] = g[j]
<1> DEFINE T == {i \in 0 .. n : f[i] = g[i]}
<1>0. n \in Nat /\ Len(s) \in Nat /\ Len(t) \in Nat
  OBVIOUS
<1>1. 0 \in T
  BY <1>0 DEF Counts
<1>2. ASSUME NEW i \in 1 .. n, i - 1 \in T PROVE i \in T
  <2>1. f[i] = f[i - 1] + Width[s[i]] /\ g[i] = g[i - 1] + Width[t[i]]
    BY <1>0 DEF Counts
  <2>2. Width[s[i]] = Width[t[i]]
    BY DEF SameWidths
  <2> QED
    BY <1>2, <2>1, <2>2
<1>3. \A i \in 0 .. n : i \in T
  <2> HIDE DEF T
  <2> QED
    BY <1>0, <1>1, <1>2, Climb
<1> QED
  BY <1>3

(* The bytes before a place of a text.                                     *)
LEMMA BytesUpTo ==
    ASSUME NEW s \in Seq(Chars), NEW f, Counts(f, s), NEW n \in 0 .. Len(s)
    PROVE  ByteLen(SubSeq(s, 1, n)) = f[n]
<1> DEFINE t == SubSeq(s, 1, n)
<1>1. t \in Seq(Chars) /\ Len(t) = n /\ \A i \in 1 .. n : t[i] = s[i]
  OBVIOUS
<1> HIDE DEF t
<1>2. PICK g : Counts(g, t) /\ ByteLen(t) = g[Len(t)]
  BY <1>1, ByteLenCounts
<1>3. g[n] = f[n]
  <2>1. SameWidths(s, t, n) /\ n \in 0 .. Len(s) /\ n <= Len(t) /\ n \in 0 .. n
    BY <1>1 DEF SameWidths
  <2> QED
    BY <1>1, <1>2, <2>1, CountsAgree
<1> QED
  BY <1>1, <1>2, <1>3 DEF t

(* A later place has more bytes before it.                                 *)
LEMMA CountsGrow ==
    ASSUME NEW s \in Seq(Chars), NEW f, Counts(f, s),
           NEW i \in 0 .. Len(s), NEW j \in 0 .. Len(s), i < j
    PROVE  f[i] < f[j]
<1> DEFINE n == Len(s) - i
           T == {k \in 0 .. n : k = 0 \/ f[i] < f[i + k]}
<1>0. Len(s) \in Nat /\ n \in Nat
  OBVIOUS
<1>1. 0 \in T
  BY <1>0
<1>2. ASSUME NEW k \in 1 .. n, k - 1 \in T PROVE k \in T
  <2>1. i + k \in 1 .. Len(s) /\ (i + k) - 1 = i + (k - 1) /\ i + (k - 1) \in 0 .. Len(s)
    BY <1>0
  <2>2. f[i + k] = f[i + (k - 1)] + Width[s[i + k]]
    BY <2>1 DEF Counts
  <2>3. Width[s[i + k]] \in Nat \ {0}
    BY <2>1, SearchIndexAssumption, SMTT(30)
  <2>4. f[i] \in Nat /\ f[i + (k - 1)] \in Nat
    BY <2>1 DEF Counts
  <2>5. k - 1 = 0 \/ f[i] < f[i + (k - 1)]
    BY <1>2
  <2>6. f[i] < f[i + k]
    <3>1. CASE k - 1 = 0
      <4>1. i + (k - 1) = i
        BY <3>1
      <4> QED
        BY <2>2, <2>3, <2>4, <4>1
    <3>2. CASE f[i] < f[i + (k - 1)]
      BY <2>2, <2>3, <2>4, <3>2
    <3> QED
      BY <2>5, <3>1, <3>2
  <2> QED
    BY <2>6
<1>3. \A k \in 0 .. n : k \in T
  <2> HIDE DEF T, n
  <2> QED
    BY <1>0, <1>1, <1>2, Climb
<1>4. j - i \in 0 .. n /\ i + (j - i) = j /\ j - i # 0
  BY <1>0
<1>5. j - i \in T
  BY <1>3, <1>4
<1> QED
  BY <1>4, <1>5

-----------------------------------------------------------------------------
(* The text of the first pages, by its recursion: where each page and each *)
(* sentinel lies.                                                          *)
Piles(f, n) ==
    /\ f \in [0 .. n -> Seq(Chars)] /\ f[0] = <<>>
    /\ \A p \in 1 .. n : f[p] = f[p - 1] \o texts[p] \o <<Newline>>

Document == texts \in Seq(Seq(Chars))

LEMMA JoinedPiles ==
    ASSUME Document, NEW n \in 0 .. Len(texts)
    PROVE  \E f : Piles(f, n) /\ Joined(n) = f[n]
<1> DEFINE D == Seq(Chars)
           none == <<>>
           More(x, p) == x \o texts[p] \o <<Newline>>
           Rec(f) == f = [p \in 0 .. n |-> IF p = 0 THEN none ELSE More(f[p - 1], p)]
           upTo[p \in 0 .. n] == IF p = 0 THEN none ELSE More(upTo[p - 1], p)
           Step == [p \in 1 .. n |-> [x \in D |-> More(x, p)]]
<1>0. n \in Nat /\ none \in D /\ Newline \in Chars /\ \A p \in 1 .. n : texts[p] \in Seq(Chars)
  BY SearchIndexAssumption DEF Document
<1>1. \A p \in 1 .. n, x \in D : More(x, p) \in D
  <2> TAKE p \in 1 .. n, x \in D
  <2>1. x \o texts[p] \in Seq(Chars) /\ <<Newline>> \in Seq(Chars)
    BY <1>0
  <2> QED
    BY <2>1
<1>2a. PICK f : Iteration(f, n, D, none, Step)
  <2>1. Step \in [1 .. n -> [D -> D]] /\ none \in D
    <3> HIDE DEF D, More
    <3> QED
      BY <1>0, <1>1
  <2>2. n \in Nat
    BY <1>0
  <2> HIDE DEF Step, none, D
  <2> QED
    BY <2>1, <2>2, Iterates, Zenon
<1>2. f \in [0 .. n -> D] /\ f[0] = none /\ \A p \in 1 .. n : f[p] = Step[p][f[p - 1]]
  <2> HIDE DEF Step, D, none
  <2> QED
    BY <1>2a DEF Iteration
<1>3. \A p \in 1 .. n : f[p] = More(f[p - 1], p)
  <2> TAKE p \in 1 .. n
  <2>1. f[p - 1] \in D
    <3>1. p - 1 \in 0 .. n
      BY <1>0
    <3> HIDE DEF D, Step, none
    <3> QED
      BY <1>2, <3>1
  <2> HIDE DEF More, D
  <2>2. Step[p] = [x \in D |-> More(x, p)]
    OBVIOUS
  <2>3. f[p] = Step[p][f[p - 1]]
    BY <1>2
  <2> HIDE DEF Step
  <2> QED
    BY <2>1, <2>2, <2>3
<1>4. Rec(f)
  <2> HIDE DEF More
  <2> QED
    BY <1>0, <1>2, <1>3
<1>5. Rec(upTo)
  <2>1. \E g : Rec(g)
    BY <1>4
  <2> HIDE DEF More, none
  <2> QED
    BY <2>1
<1>6. Joined(n) = upTo[n]
  BY DEF Joined
<1> HIDE DEF upTo
<1>7. \A p \in 0 .. n : upTo[p] = f[p]
  <2> DEFINE T == {p \in 0 .. n : upTo[p] = f[p]}
  <2>1. \A p \in 0 .. n : upTo[p] = IF p = 0 THEN none ELSE More(upTo[p - 1], p)
    <3> HIDE DEF More, none
    <3> QED
      BY <1>5
  <2> HIDE DEF More, none, D
  <2>2. 0 \in T
    BY <1>0, <1>2, <2>1
  <2>3. ASSUME NEW p \in 1 .. n, p - 1 \in T PROVE p \in T
    <3>1. p \in 0 .. n /\ p # 0 /\ upTo[p - 1] = f[p - 1]
      BY <1>0, <2>3
    <3> QED
      BY <1>3, <2>1, <3>1
  <2>4. \A p \in 0 .. n : p \in T
    <3> HIDE DEF T
    <3> QED
      BY <1>0, <2>2, <2>3, Climb
  <2> QED
    BY <2>4
<1>8. Piles(f, n)
  BY <1>2, <1>3 DEF Piles
<1> QED
  BY <1>0, <1>6, <1>7, <1>8

LEMMA PilesAgree ==
    ASSUME NEW m \in Nat, NEW n \in Nat, n <= m, NEW f, Piles(f, m), NEW g, Piles(g, n)
    PROVE  \A p \in 0 .. n : f[p] = g[p]
<1> DEFINE T == {p \in 0 .. n : f[p] = g[p]}
<1>1. 0 \in T
  BY DEF Piles
<1>2. ASSUME NEW p \in 1 .. n, p - 1 \in T PROVE p \in T
  <2>1. p \in 1 .. m /\ p \in 0 .. n /\ f[p - 1] = g[p - 1]
    BY <1>2
  <2>2. f[p] = f[p - 1] \o texts[p] \o <<Newline>> /\ g[p] = g[p - 1] \o texts[p] \o <<Newline>>
    BY <2>1 DEF Piles
  <2> QED
    BY <2>1, <2>2
<1>3. \A p \in 0 .. n : p \in T
  <2> HIDE DEF T
  <2> QED
    BY <1>1, <1>2, Climb
<1> QED
  BY <1>3

(* One page more.                                                          *)
LEMMA JoinedMore ==
    ASSUME Document, NEW n \in 1 .. Len(texts)
    PROVE  /\ Joined(n - 1) \in Seq(Chars)
           /\ Joined(n) = Joined(n - 1) \o texts[n] \o <<Newline>>
<1>0. Len(texts) \in Nat
  BY DEF Document
<1>1. /\ n \in 0 .. Len(texts) /\ n - 1 \in 0 .. Len(texts)
      /\ n \in Nat /\ n - 1 \in Nat /\ n \in 1 .. n
  BY <1>0
<1>2. PICK f : Piles(f, n) /\ Joined(n) = f[n]
  BY <1>1, JoinedPiles
<1>3. PICK g : Piles(g, n - 1) /\ Joined(n - 1) = g[n - 1]
  BY <1>1, JoinedPiles
<1>4. f[n - 1] = g[n - 1]
  <2>1. \A p \in 0 .. n - 1 : f[p] = g[p]
    BY <1>1, <1>2, <1>3, PilesAgree
  <2> QED
    BY <1>1, <2>1
<1>5. f[n] = f[n - 1] \o texts[n] \o <<Newline>>
  BY <1>1, <1>2 DEF Piles
<1>6. g[n - 1] \in Seq(Chars)
  BY <1>1, <1>3 DEF Piles
<1> QED
  BY <1>2, <1>3, <1>4, <1>5, <1>6

LEMMA JoinedNone ==
    ASSUME Document
    PROVE  Joined(0) = <<>>
<1>1. 0 \in 0 .. Len(texts)
  BY DEF Document
<1>2. PICK f : Piles(f, 0) /\ Joined(0) = f[0]
  BY <1>1, JoinedPiles
<1> QED
  BY <1>2 DEF Piles

LEMMA JoinedType ==
    ASSUME Document, NEW n \in 0 .. Len(texts)
    PROVE  Joined(n) \in Seq(Chars)
<1>0. n \in Nat
  OBVIOUS
<1>1. PICK f : Piles(f, n) /\ Joined(n) = f[n]
  BY JoinedPiles
<1> QED
  BY <1>0, <1>1 DEF Piles

(* Where page p begins and ends in the text of more pages.                 *)
Off(p) == Len(Joined(p))

LEMMA OffMore ==
    ASSUME Document, NEW n \in 1 .. Len(texts)
    PROVE  /\ Off(n - 1) \in Nat /\ Len(texts[n]) \in Nat
           /\ Off(n) = Off(n - 1) + Len(texts[n]) + 1
           /\ \A i \in 1 .. Off(n - 1) : Joined(n)[i] = Joined(n - 1)[i]
           /\ \A i \in 1 .. Len(texts[n]) : Joined(n)[Off(n - 1) + i] = texts[n][i]
           /\ Joined(n)[Off(n)] = Newline
<1> DEFINE a == Joined(n - 1)
           b == texts[n]
<1>1. a \in Seq(Chars) /\ Joined(n) = a \o b \o <<Newline>>
  BY JoinedMore
<1>2. b \in Seq(Chars) /\ Newline \in Chars
  BY SearchIndexAssumption DEF Document
<1>3. Len(a) \in Nat /\ Len(b) \in Nat /\ a \o b \in Seq(Chars) /\ Len(a \o b) = Len(a) + Len(b)
  BY <1>1, <1>2
<1>4. /\ \A i \in 1 .. Len(a) : (a \o b)[i] = a[i]
      /\ \A i \in 1 .. Len(b) : (a \o b)[Len(a) + i] = b[i]
  BY <1>1, <1>2, <1>3
<1> HIDE DEF a, b
<1> DEFINE c == a \o b
<1>5. /\ c \in Seq(Chars) /\ <<Newline>> \in Seq(Chars) /\ Len(c) \in Nat /\ Len(<<Newline>>) = 1
      /\ <<Newline>>[1] = Newline
  BY <1>2, <1>3
<1>6. Joined(n) = c \o <<Newline>>
  BY <1>1
<1>7. Len(c) = Len(a) + Len(b)
  BY <1>3
<1>8. /\ \A i \in 1 .. Len(a) : c[i] = a[i]
      /\ \A i \in 1 .. Len(b) : c[Len(a) + i] = b[i]
  BY <1>4
<1> HIDE DEF c
<1>9. /\ Len(c \o <<Newline>>) = Len(c) + 1
      /\ \A i \in 1 .. Len(c) : (c \o <<Newline>>)[i] = c[i]
      /\ (c \o <<Newline>>)[Len(c) + 1] = Newline
  BY <1>5
<1>10. Off(n - 1) = Len(a) /\ Off(n) = Len(a) + Len(b) + 1
  BY <1>6, <1>7, <1>9 DEF Off, a
<1>11. \A i \in 1 .. Len(a) : Joined(n)[i] = a[i]
  BY <1>3, <1>6, <1>7, <1>8, <1>9
<1>12. \A i \in 1 .. Len(b) : Joined(n)[Len(a) + i] = b[i]
  <2> TAKE i \in 1 .. Len(b)
  <2>1. Len(a) + i \in 1 .. Len(c)
    BY <1>3, <1>7
  <2> QED
    BY <1>6, <1>8, <1>9, <2>1
<1>13. Joined(n)[Off(n)] = Newline
  BY <1>6, <1>7, <1>9, <1>10
<1>14. Len(a) \in Nat /\ Len(b) \in Nat
  BY <1>3
<1> QED
  BY <1>10, <1>11, <1>12, <1>13, <1>14 DEF a, b

(* The text of the first pages begins that of more pages.                  *)
LEMMA Places ==
    ASSUME Document, NEW k \in 0 .. Len(texts)
    PROVE  \A p \in 0 .. k :
             /\ Off(p) \in Nat /\ Off(p) <= Off(k) /\ (p < k => Off(p) < Off(k))
             /\ \A i \in 1 .. Off(p) : Joined(k)[i] = Joined(p)[i]
<1> DEFINE Begins(p, q) ==
             /\ Off(p) \in Nat /\ Off(p) <= Off(q) /\ (p < q => Off(p) < Off(q))
             /\ \A i \in 1 .. Off(p) : Joined(q)[i] = Joined(p)[i]
           T == {q \in 0 .. k : \A p \in 0 .. q : Begins(p, q)}
<1>0. k \in Nat /\ Len(texts) \in Nat
  BY DEF Document
<1>1. \A p \in 0 .. k : Off(p) \in Nat
  <2> TAKE p \in 0 .. k
  <2>1. Joined(p) \in Seq(Chars)
    BY <1>0, JoinedType
  <2> QED
    BY <2>1 DEF Off
<1>2. 0 \in T
  <2>1. Begins(0, 0)
    BY <1>0, <1>1
  <2> HIDE DEF Begins
  <2> QED
    BY <1>0, <2>1
<1>3. ASSUME NEW q \in 1 .. k, q - 1 \in T PROVE q \in T
  <2>1. /\ Off(q - 1) \in Nat /\ Len(texts[q]) \in Nat
        /\ Off(q) = Off(q - 1) + Len(texts[q]) + 1
        /\ \A i \in 1 .. Off(q - 1) : Joined(q)[i] = Joined(q - 1)[i]
    BY <1>0, OffMore
  <2>2. ASSUME NEW p \in 0 .. q PROVE Begins(p, q)
    <3>1. CASE p = q
      BY <1>0, <1>1, <3>1
    <3>2. CASE p # q
      <4>1. p \in 0 .. q - 1 /\ p \in 0 .. k
        BY <1>0, <3>2
      <4> HIDE DEF Begins
      <4>2. Begins(p, q - 1)
        BY <1>3, <4>1
      <4>3. /\ Off(p) \in Nat /\ Off(p) <= Off(q - 1)
            /\ \A i \in 1 .. Off(p) : Joined(q - 1)[i] = Joined(p)[i]
        BY <4>2 DEF Begins
      <4>4. Off(p) < Off(q)
        BY <2>1, <4>3
      <4>5. \A i \in 1 .. Off(p) : i \in 1 .. Off(q - 1)
        BY <2>1, <4>3
      <4>6. \A i \in 1 .. Off(p) : Joined(q)[i] = Joined(p)[i]
        BY <2>1, <4>3, <4>5
      <4>7. Off(p) <= Off(q)
        BY <2>1, <4>3
      <4> QED
        BY <4>3, <4>4, <4>6, <4>7 DEF Begins
    <3> QED
      BY <3>1, <3>2
  <2>3. q \in 0 .. k
    BY <1>0
  <2> HIDE DEF Begins
  <2> QED
    BY <2>2, <2>3
<1>4. \A q \in 0 .. k : q \in T
  <2> HIDE DEF T
  <2> QED
    BY <1>0, <1>2, <1>3, Climb
<1>5. k \in T
  BY <1>0, <1>4
<1> HIDE DEF Begins
<1>6. \A p \in 0 .. k : Begins(p, k)
  BY <1>5
<1> QED
  BY <1>6 DEF Begins

(* Every place in it belongs to a page.                                    *)
LEMMA PlaceOwned ==
    ASSUME Document, NEW k \in 0 .. Len(texts), NEW i \in 1 .. Off(k)
    PROVE  \E p \in 1 .. k : Off(p - 1) < i /\ i <= Off(p)
<1>0. k \in Nat /\ Len(texts) \in Nat
  BY DEF Document
<1> DEFINE T == {p \in 0 .. k : i <= Off(p)}
<1>1. Off(0) = 0 /\ Off(k) \in Nat
  <2>1. Joined(0) = <<>>
    BY JoinedNone
  <2>2. k \in 0 .. k
    BY <1>0
  <2> QED
    BY <2>1, <2>2, Places DEF Off
<1>2. i \in Nat /\ i >= 1 /\ i <= Off(k)
  BY <1>1
<1>3. T \subseteq Nat /\ k \in T
  BY <1>0, <1>2
<1>4. PICK p \in T : \A q \in T : p <= q
  <2> HIDE DEF T
  <2> QED
    BY <1>3, NatLeast
<1>5. p \in 0 .. k /\ i <= Off(p)
  BY <1>4
<1>6. p # 0
  BY <1>1, <1>2, <1>5
<1>7. p \in 1 .. k /\ p - 1 \in 0 .. k /\ ~ (p <= p - 1)
  BY <1>0, <1>5, <1>6
<1>8. ~ (i <= Off(p - 1))
  <2>1. p - 1 \notin T
    BY <1>4, <1>7
  <2> QED
    BY <1>7, <2>1
<1>9. Off(p - 1) \in Nat
  BY <1>7, Places
<1> QED
  BY <1>2, <1>5, <1>7, <1>8, <1>9

-----------------------------------------------------------------------------
(* The matches.                                                            *)

(* An occurrence, letter by letter.                                        *)
LEMMA OccursLetters ==
    ASSUME NEW q \in Seq(Chars), q # <<>>, NEW s \in Seq(Chars), NEW i \in 1 .. Len(s)
    PROVE  OccursAt(q, s, i) <=>
             i + Len(q) - 1 <= Len(s) /\ \A j \in 1 .. Len(q) : s[i + j - 1] = q[j]
<1>0. Len(q) \in Nat /\ Len(q) >= 1 /\ Len(s) \in Nat /\ i \in Nat /\ i >= 1
  OBVIOUS
<1> DEFINE e == i + Len(q) - 1
           t == SubSeq(s, i, e)
<1>1. CASE e <= Len(s)
  <2>1. t \in Seq(Chars) /\ Len(t) = Len(q) /\ \A j \in 1 .. Len(q) : t[j] = s[i + j - 1]
    BY <1>0, <1>1
  <2>2. t = q <=> \A j \in 1 .. Len(q) : t[j] = q[j]
    <3> HIDE DEF t
    <3>1. q \in [1 .. Len(q) -> Chars] /\ t \in [1 .. Len(q) -> Chars]
      BY <2>1
    <3> QED
      BY <3>1
  <2> HIDE DEF t
  <2>3. t = q <=> \A j \in 1 .. Len(q) : s[i + j - 1] = q[j]
    BY <2>1, <2>2
  <2> QED
    BY <1>1, <2>3 DEF OccursAt, t
<1>2. CASE ~ (e <= Len(s))
  BY <1>2 DEF OccursAt
<1> QED
  BY <1>1, <1>2

(* What MatchStarts has found when it has come to place i: occurrences, in *)
(* order, that overlap every occurrence up to there.                       *)
MatchedUpTo(m, needle, hay, i) ==
    /\ m \in [at : Seq(Nat), from : Nat]
    /\ \A j \in 1 .. Len(m.at) : m.at[j] \in 1 .. i /\ OccursAt(needle, hay, m.at[j])
    /\ \A j, k \in 1 .. Len(m.at) : j < k => m.at[j] < m.at[k]
    /\ m.from > 1 => \E j \in 1 .. Len(m.at) : m.from = m.at[j] + Len(needle)
    /\ \A o \in 1 .. i : OccursAt(needle, hay, o) =>
          \E j \in 1 .. Len(m.at) : m.at[j] <= o /\ o < m.at[j] + Len(needle)

LEMMA MatchStep ==
    ASSUME NEW needle \in Seq(Chars), needle # <<>>, NEW hay, NEW i \in Nat \ {0}, NEW m,
           MatchedUpTo(m, needle, hay, i - 1)
    PROVE  MatchedUpTo(IF i >= m.from /\ OccursAt(needle, hay, i)
                         THEN [at |-> Append(m.at, i), from |-> i + Len(needle)] ELSE m,
                       needle, hay, i)
<1>0. Len(needle) \in Nat /\ Len(needle) >= 1
  OBVIOUS
<1>1. /\ m \in [at : Seq(Nat), from : Nat]
      /\ \A j \in 1 .. Len(m.at) : m.at[j] \in 1 .. i - 1 /\ OccursAt(needle, hay, m.at[j])
      /\ \A j, k \in 1 .. Len(m.at) : j < k => m.at[j] < m.at[k]
      /\ m.from > 1 => \E j \in 1 .. Len(m.at) : m.from = m.at[j] + Len(needle)
      /\ \A o \in 1 .. i - 1 : OccursAt(needle, hay, o) =>
            \E j \in 1 .. Len(m.at) : m.at[j] <= o /\ o < m.at[j] + Len(needle)
  BY DEF MatchedUpTo
<1> DEFINE a == m.at
           n == Len(a)
<1>2. a \in Seq(Nat) /\ n \in Nat /\ m.from \in Nat
  BY <1>1
<1>3. CASE i >= m.from /\ OccursAt(needle, hay, i)
  <2> DEFINE b == Append(a, i)
             r == [at |-> b, from |-> i + Len(needle)]
  <2>1. b \in Seq(Nat) /\ Len(b) = n + 1 /\ b[n + 1] = i /\ \A j \in 1 .. n : b[j] = a[j]
    BY <1>2
  <2>2. r.at = b /\ r.from = i + Len(needle) /\ r \in [at : Seq(Nat), from : Nat]
    BY <1>0, <2>1
  <2> HIDE DEF b, r, a
  <2>3. \A j \in 1 .. n + 1 : j \in 1 .. n \/ j = n + 1
    BY <1>2
  <2>4. \A j \in 1 .. n : a[j] \in 1 .. i - 1 /\ OccursAt(needle, hay, a[j])
    BY <1>1 DEF a
  <2>5. \A j \in 1 .. n + 1 : b[j] \in 1 .. i /\ OccursAt(needle, hay, b[j])
    BY <1>3, <2>1, <2>3, <2>4, SMTT(30)
  <2>6. \A j, k \in 1 .. n + 1 : j < k => b[j] < b[k]
    <3> TAKE j, k \in 1 .. n + 1
    <3> HAVE j < k
    <3>1. j \in 1 .. n /\ b[j] = a[j] /\ a[j] \in 1 .. i - 1
      BY <1>2, <2>1, <2>3, <2>4, SMTT(30)
    <3>2. CASE k = n + 1
      BY <2>1, <3>1, <3>2
    <3>3. CASE k # n + 1
      <4>1. k \in 1 .. n /\ b[k] = a[k]
        BY <2>1, <2>3, <3>3
      <4>2. a[j] < a[k]
        BY <1>1, <3>1, <4>1 DEF a
      <4> QED
        BY <3>1, <4>1, <4>2
    <3> QED
      BY <3>2, <3>3
  <2>7. n + 1 \in 1 .. n + 1
    BY <1>2
  <2>8. \E j \in 1 .. n + 1 : i + Len(needle) = b[j] + Len(needle)
    BY <2>1, <2>7
  <2>9. \A o \in 1 .. i : OccursAt(needle, hay, o) =>
           \E j \in 1 .. n + 1 : b[j] <= o /\ o < b[j] + Len(needle)
    <3> TAKE o \in 1 .. i
    <3> HAVE OccursAt(needle, hay, o)
    <3>1. CASE o = i
      BY <1>0, <2>1, <2>7, <3>1
    <3>2. CASE o # i
      <4>1. o \in 1 .. i - 1
        BY <3>2
      <4>2. PICK j \in 1 .. n : a[j] <= o /\ o < a[j] + Len(needle)
        BY <1>1, <4>1 DEF a
      <4>3. j \in 1 .. n + 1 /\ b[j] = a[j]
        BY <1>2, <2>1
      <4> QED
        BY <4>2, <4>3
    <3> QED
      BY <3>1, <3>2
  <2>10. MatchedUpTo(r, needle, hay, i)
    BY <2>1, <2>2, <2>5, <2>6, <2>8, <2>9 DEF MatchedUpTo
  <2> QED
    BY <1>3, <2>10 DEF r, b, a
<1>4. CASE ~ (i >= m.from /\ OccursAt(needle, hay, i))
  <2>1. \A j \in 1 .. n : a[j] \in 1 .. i /\ OccursAt(needle, hay, a[j])
    BY <1>1
  <2>2. \A o \in 1 .. i : OccursAt(needle, hay, o) =>
           \E j \in 1 .. n : a[j] <= o /\ o < a[j] + Len(needle)
    <3> TAKE o \in 1 .. i
    <3> HAVE OccursAt(needle, hay, o)
    <3>1. CASE o = i
      <4>1. m.from > i
        BY <1>2, <1>4, <3>1
      <4>2. PICK j \in 1 .. n : m.from = a[j] + Len(needle)
        BY <1>1, <1>2, <4>1
      <4>3. a[j] <= o
        BY <1>1, <3>1
      <4> QED
        BY <3>1, <4>1, <4>2, <4>3
    <3>2. CASE o # i
      <4>1. o \in 1 .. i - 1
        BY <3>2
      <4> QED
        BY <1>1, <4>1
    <3> QED
      BY <3>1, <3>2
  <2>3. MatchedUpTo(m, needle, hay, i)
    BY <1>1, <2>1, <2>2 DEF MatchedUpTo
  <2> QED
    BY <1>4, <2>3
<1> QED
  BY <1>3, <1>4

LEMMA MatchesFound ==
    ASSUME NEW needle \in Seq(Chars), needle # <<>>, NEW hay \in Seq(Chars)
    PROVE  \E from : MatchedUpTo([at |-> MatchStarts(needle, hay), from |-> from],
                                 needle, hay, Len(hay))
<1> DEFINE n == Len(hay)
           none == [at |-> <<>>, from |-> 1]
           D == [at : Seq(Nat), from : Nat]
           More(m, i) == IF i >= m.from /\ OccursAt(needle, hay, i)
                           THEN [at |-> Append(m.at, i), from |-> i + Len(needle)] ELSE m
           Rec(f) == f = [i \in 0 .. n |-> IF i = 0 THEN none ELSE More(f[i - 1], i)]
           scan[i \in 0 .. n] ==
             IF i = 0 THEN none
             ELSE LET m == scan[i - 1]
                  IN  IF i >= m.from /\ OccursAt(needle, hay, i)
                        THEN [at |-> Append(m.at, i), from |-> i + Len(needle)] ELSE m
           Step == [i \in 1 .. n |-> [x \in D |-> More(x, i)]]
<1>0. n \in Nat /\ Len(needle) \in Nat
  OBVIOUS
<1>1. none \in D /\ MatchedUpTo(none, needle, hay, 0)
  <2>1. none \in D /\ none.at = <<>> /\ none.from = 1 /\ Len(none.at) = 0
    OBVIOUS
  <2> HIDE DEF none
  <2> QED
    BY <2>1 DEF MatchedUpTo
<1>2. \A i \in 1 .. n, x \in D : More(x, i) \in D
  <2> TAKE i \in 1 .. n, x \in D
  <2>1. x.at \in Seq(Nat) /\ i \in Nat
    BY <1>0
  <2>2. Append(x.at, i) \in Seq(Nat) /\ i + Len(needle) \in Nat
    BY <1>0, <2>1
  <2> QED
    BY <2>2
<1>3. PICK f : Iteration(f, n, D, none, Step)
  <2>1. Step \in [1 .. n -> [D -> D]]
    <3> HIDE DEF D, More
    <3> QED
      BY <1>2
  <2> HIDE DEF Step, none, D, n
  <2> QED
    BY <1>0, <1>1, <2>1, Iterates, Zenon
<1>4. Rec(f)
  <2>1. f \in [0 .. n -> D] /\ f[0] = none /\ \A i \in 1 .. n : f[i] = Step[i][f[i - 1]]
    <3> HIDE DEF Step, none, D
    <3> QED
      BY <1>3 DEF Iteration
  <2>2. \A i \in 1 .. n : f[i] = More(f[i - 1], i)
    <3> TAKE i \in 1 .. n
    <3> HIDE DEF More, D, none
    <3>1. i - 1 \in 0 .. n
      BY <1>0
    <3>2. Step[i] = [x \in D |-> More(x, i)]
      OBVIOUS
    <3> HIDE DEF Step
    <3>3. f[i - 1] \in D /\ f[i] = Step[i][f[i - 1]]
      BY <2>1, <3>1
    <3> QED
      BY <3>2, <3>3
  <2> HIDE DEF More, none, D, Step
  <2> QED
    BY <1>0, <2>1, <2>2
<1>5. Rec(scan)
  <2>1. \E g : Rec(g)
    BY <1>4
  <2> QED
    BY <2>1
<1>6. MatchStarts(needle, hay) = scan[n].at
  BY DEF MatchStarts
<1> HIDE DEF scan
<1>7. \A i \in 0 .. n : scan[i] = IF i = 0 THEN none ELSE More(scan[i - 1], i)
  <2> HIDE DEF More, none
  <2> QED
    BY <1>5
<1> DEFINE T == {i \in 0 .. n : MatchedUpTo(scan[i], needle, hay, i)}
<1>8. 0 \in T
  <2> HIDE DEF none, More
  <2>1. scan[0] = none
    BY <1>0, <1>7
  <2> QED
    BY <1>0, <1>1, <2>1
<1>9. ASSUME NEW i \in 1 .. n, i - 1 \in T PROVE i \in T
  <2>1. i \in Nat \ {0} /\ i \in 0 .. n /\ MatchedUpTo(scan[i - 1], needle, hay, i - 1)
    BY <1>0, <1>9
  <2>2. scan[i] = More(scan[i - 1], i)
    <3> HIDE DEF More, none
    <3> QED
      BY <1>7, <2>1
  <2>3. MatchedUpTo(More(scan[i - 1], i), needle, hay, i)
    BY <2>1, MatchStep
  <2> HIDE DEF More
  <2> QED
    BY <2>1, <2>2, <2>3
<1>10. \A i \in 0 .. n : i \in T
  <2> HIDE DEF T, n
  <2> QED
    BY <1>0, <1>8, <1>9, Climb
<1>11. MatchedUpTo(scan[n], needle, hay, n)
  BY <1>0, <1>10
<1>12. scan[n] = [at |-> scan[n].at, from |-> scan[n].from]
  BY <1>11 DEF MatchedUpTo
<1> QED
  BY <1>6, <1>11, <1>12

-----------------------------------------------------------------------------
(* The pages of the matches.                                               *)

(* The index of the first k pages.                                         *)
PrefixIndex(k) ==
    [text |-> Joined(k),
     pageStarts |-> [p \in Pages |-> IF p < k THEN ByteLen(Joined(p)) ELSE NotIndexed]]

(* Place a of the text lies in page p or on its sentinel.                  *)
Owns(p, a) == Off(p) < a /\ a <= Off(p + 1)

(* A text as it is searched.                                               *)
Folded(s, cs) == IF cs THEN s ELSE ToLower(s)

(* A lower case letter takes as many bytes as the letter itself.           *)
EqualWidths == \A c \in Chars : Width[Lower[c]] = Width[c]

LEMMA FoldedLetters ==
    ASSUME NEW s \in Seq(Chars), NEW cs \in BOOLEAN
    PROVE  /\ Folded(s, cs) \in Seq(Chars) /\ Len(Folded(s, cs)) = Len(s)
           /\ \A i \in 1 .. Len(s) : Folded(s, cs)[i] = IF cs THEN s[i] ELSE Lower[s[i]]
<1>0. /\ Len(s) \in Nat /\ DOMAIN s = 1 .. Len(s) /\ Lower \in [Chars -> Chars]
      /\ \A i \in 1 .. Len(s) : s[i] \in Chars
  BY SearchIndexAssumption
<1> DEFINE t == [i \in 1 .. Len(s) |-> Lower[s[i]]]
<1>1. t \in Seq(Chars) /\ Len(t) = Len(s) /\ \A i \in 1 .. Len(s) : t[i] = Lower[s[i]]
  BY <1>0
<1>2. ToLower(s) = t
  BY <1>0 DEF ToLower
<1> HIDE DEF t
<1> QED
  BY <1>1, <1>2 DEF Folded

LEMMA IndexedPrefix ==
    ASSUME Document, NEW k \in 0 .. Len(texts)
    PROVE  /\ DOMAIN PrefixIndex(k).pageStarts = Pages
           /\ Indexed(PrefixIndex(k)) = 0 .. k - 1
           /\ IsComplete(PrefixIndex(k)) <=> k = Len(texts)
           /\ \A p \in Pages : p < k => PrefixIndex(k).pageStarts[p] = ByteLen(Joined(p))
           /\ \A p \in Pages : ~ (p < k) => PrefixIndex(k).pageStarts[p] = NotIndexed
<1>0. Len(texts) \in Nat
  BY DEF Document
<1>1. \A p \in Pages : p < k => ByteLen(Joined(p)) \in Nat
  <2> SUFFICES ASSUME NEW p \in Pages, p < k PROVE ByteLen(Joined(p)) \in Nat
    OBVIOUS
  <2>1. p \in 0 .. Len(texts)
    BY <1>0 DEF Pages
  <2>2. Joined(p) \in Seq(Chars)
    BY <2>1, JoinedType
  <2>3. PICK f : Counts(f, Joined(p)) /\ ByteLen(Joined(p)) = f[Len(Joined(p))]
    BY <2>2, ByteLenCounts
  <2>4. Len(Joined(p)) \in 0 .. Len(Joined(p))
    BY <2>2
  <2> QED
    BY <2>3, <2>4 DEF Counts
<1> DEFINE s == PrefixIndex(k).pageStarts
<1>2. s = [p \in Pages |-> IF p < k THEN ByteLen(Joined(p)) ELSE NotIndexed]
  BY DEF PrefixIndex
<1> HIDE DEF s
<1>3. /\ DOMAIN s = Pages
      /\ \A p \in Pages : p < k => s[p] = ByteLen(Joined(p))
      /\ \A p \in Pages : ~ (p < k) => s[p] = NotIndexed
  BY <1>2
<1>4. \A p \in Pages : s[p] # NotIndexed <=> p < k
  <2> TAKE p \in Pages
  <2>1. p < k => s[p] \in Nat
    BY <1>1, <1>3
  <2>2. NotIndexed \notin Nat
    BY DEF NotIndexed
  <2> QED
    BY <1>3, <2>1, <2>2
<1>5. Indexed(PrefixIndex(k)) = {p \in Pages : p < k}
  BY <1>3, <1>4 DEF Indexed, s
<1>6. {p \in Pages : p < k} = 0 .. k - 1
  BY <1>0 DEF Pages
<1>7. 0 .. k - 1 = Pages <=> k = Len(texts)
  <2>1. CASE k = Len(texts)
    BY <2>1 DEF Pages
  <2>2. CASE k # Len(texts)
    <3>1. k \in Pages /\ k \notin 0 .. k - 1
      BY <1>0, <2>2 DEF Pages
    <3> QED
      BY <2>2, <3>1
  <2> QED
    BY <2>1, <2>2
<1> QED
  BY <1>3, <1>5, <1>6, <1>7 DEF s, IsComplete

(* A page begins before a place in bytes as in characters, when the text   *)
(* that is searched has the widths of the text.                            *)
LEMMA StartsBefore ==
    ASSUME Document, NEW k \in 1 .. Len(texts), NEW hay \in Seq(Chars), Len(hay) = Off(k),
           \A i \in 1 .. Off(k) : Width[hay[i]] = Width[Joined(k)[i]],
           NEW a \in 1 .. Off(k), NEW p \in 0 .. k - 1
    PROVE  PrefixIndex(k).pageStarts[p] <= ByteLen(SubSeq(hay, 1, a - 1)) <=> Off(p) < a
<1>0. k \in 0 .. Len(texts) /\ Len(texts) \in Nat /\ p \in Pages /\ p \in 0 .. k /\ p \in 0 .. Len(texts)
  BY DEF Document, Pages
<1> DEFINE s == Joined(k)
<1>1. s \in Seq(Chars) /\ Joined(p) \in Seq(Chars) /\ Off(k) = Len(s) /\ Off(p) = Len(Joined(p))
  BY <1>0, JoinedType DEF Off
<1>2. PICK f : Counts(f, s)
  BY <1>1, ByteLenCounts
<1>3. PICK g : Counts(g, hay)
  BY ByteLenCounts
<1>4. PICK h : Counts(h, Joined(p)) /\ ByteLen(Joined(p)) = h[Len(Joined(p))]
  BY <1>1, ByteLenCounts
<1>5. Off(p) \in Nat /\ Off(k) \in Nat /\ Off(p) <= Off(k) /\ a - 1 \in 0 .. Off(k)
  <2>1. Off(p) \in Nat /\ Off(p) <= Off(k)
    BY <1>0, Places
  <2>2. Off(k) \in Nat
    BY <1>1
  <2> QED
    BY <2>1, <2>2
<1>6. g[a - 1] = f[a - 1]
  <2>1. Off(k) \in 0 .. Len(hay) /\ Off(k) <= Len(s)
    BY <1>1, <1>5
  <2>2. SameWidths(hay, s, Off(k))
    BY DEF SameWidths
  <2> HIDE DEF s
  <2> QED
    BY <1>1, <1>2, <1>3, <1>5, <2>1, <2>2, CountsAgree
<1>7. h[Off(p)] = f[Off(p)]
  <2>1. SameWidths(Joined(p), s, Off(p))
    BY <1>0, Places DEF SameWidths
  <2>2. Off(p) \in 0 .. Len(Joined(p)) /\ Off(p) <= Len(s)
    BY <1>1, <1>5
  <2> HIDE DEF s
  <2>3. Off(p) \in 0 .. Off(p)
    BY <1>5
  <2> QED
    BY <1>1, <1>2, <1>4, <2>1, <2>2, <2>3, CountsAgree
<1>8. ByteLen(SubSeq(hay, 1, a - 1)) = f[a - 1]
  <2>1. a - 1 \in 0 .. Len(hay)
    BY <1>5
  <2> QED
    BY <1>3, <1>6, <2>1, BytesUpTo
<1>9. PrefixIndex(k).pageStarts[p] = f[Off(p)]
  <2>1. PrefixIndex(k).pageStarts[p] = ByteLen(Joined(p))
    <3>1. p < k
      OBVIOUS
    <3> QED
      BY <1>0, <3>1, IndexedPrefix
  <2> QED
    BY <1>1, <1>4, <1>7, <2>1
<1> HIDE DEF s
<1>10. Off(p) \in 0 .. Len(s) /\ a - 1 \in 0 .. Len(s) /\ f[Off(p)] \in Nat /\ f[a - 1] \in Nat
  <2>1. Off(p) \in 0 .. Len(s) /\ a - 1 \in 0 .. Len(s)
    BY <1>1, <1>5
  <2> QED
    BY <1>2, <2>1 DEF Counts
<1>11. CASE Off(p) < a
  <2>1. CASE Off(p) = a - 1
    BY <1>8, <1>9, <1>10, <1>11, <2>1
  <2>2. CASE Off(p) < a - 1
    <3>1. f[Off(p)] < f[a - 1]
      BY <1>1, <1>2, <1>10, <2>2, CountsGrow
    <3> QED
      BY <1>8, <1>9, <1>10, <1>11, <3>1
  <2> QED
    BY <1>5, <1>11, <2>1, <2>2
<1>12. CASE ~ (Off(p) < a)
  <2>1. a - 1 < Off(p)
    BY <1>5, <1>12
  <2>2. f[a - 1] < f[Off(p)]
    BY <1>1, <1>2, <1>10, <2>1, CountsGrow
  <2> QED
    BY <1>8, <1>9, <1>10, <1>12, <2>2
<1> QED
  BY <1>11, <1>12

(* The forward cursor stops at the last page that begins before.           *)
LEMMA AdvanceStops ==
    ASSUME Document, NEW k \in 1 .. Len(texts), NEW cursor \in 0 .. k - 1,
           NEW p \in cursor .. k - 1, NEW offset,
           \A r \in 0 .. k - 1 : PrefixIndex(k).pageStarts[r] <= offset <=> r <= p
    PROVE  Advance(PrefixIndex(k), cursor, offset) = p
<1> DEFINE s == PrefixIndex(k).pageStarts
           Passed(c) == \A r \in cursor + 1 .. c : s[r] # NotIndexed /\ s[r] <= offset
           D == {d \in DOMAIN s : d >= cursor /\ Passed(d)}
<1>0. /\ Len(texts) \in Nat /\ k \in 0 .. Len(texts) /\ Pages = 0 .. Len(texts) - 1
      /\ p \in Pages /\ p >= cursor
  BY DEF Document, Pages
<1>1. /\ DOMAIN s = Pages
      /\ \A r \in Pages : s[r] # NotIndexed <=> r < k
  <2>1. DOMAIN s = Pages
    BY <1>0, IndexedPrefix
  <2>2. Indexed(PrefixIndex(k)) = 0 .. k - 1
    BY <1>0, IndexedPrefix
  <2>3. \A r \in Pages : s[r] # NotIndexed <=> r \in 0 .. k - 1
    BY <2>1, <2>2 DEF Indexed
  <2> QED
    BY <1>0, <2>1, <2>3
<1>2. \A r \in 0 .. k - 1 : s[r] <= offset <=> r <= p
  OBVIOUS
<1> HIDE DEF s
<1>3. p \in D
  <2>1. \A r \in cursor + 1 .. p : r \in 0 .. k - 1 /\ r \in Pages /\ r <= p /\ r < k
    BY <1>0
  <2> QED
    BY <1>0, <1>1, <1>2, <2>1
<1>4. \A d \in D : d <= p
  <2> SUFFICES ASSUME NEW d \in D, ~ (d <= p) PROVE FALSE
    OBVIOUS
  <2>1. d \in Pages /\ Passed(d)
    BY <1>1
  <2>2. p + 1 \in cursor + 1 .. d /\ p + 1 \in Pages
    BY <1>0, <2>1
  <2>3. s[p + 1] # NotIndexed /\ s[p + 1] <= offset
    BY <2>1, <2>2
  <2>4. p + 1 \in 0 .. k - 1
    BY <1>0, <1>1, <2>2, <2>3
  <2> QED
    BY <1>2, <2>3, <2>4
<1>5. D \subseteq Int
  BY <1>0, <1>1
<1>6. Advance(PrefixIndex(k), cursor, offset) =
        CHOOSE c \in D : \A d \in DOMAIN s : d >= cursor /\ Passed(d) => d <= c
  BY DEF Advance, s
<1>7. \A c \in D : (\A d \in DOMAIN s : d >= cursor /\ Passed(d) => d <= c) <=> \A d \in D : d <= c
  OBVIOUS
<1> HIDE DEF D
<1>8. \A c \in D : (\A d \in D : d <= c) <=> c = p
  BY <1>3, <1>4, <1>5
<1> QED
  BY <1>3, <1>6, <1>7, <1>8

(* The letters of page r in the text that is searched, and the sentinel.   *)
LEMMA PageLetters ==
    ASSUME Document, NEW k \in 1 .. Len(texts), NEW cs \in BOOLEAN, NEW r \in 0 .. k - 1
    PROVE  LET hay == Folded(Joined(k), cs)
               page == Folded(texts[r + 1], cs)
           IN  /\ hay \in Seq(Chars) /\ Len(hay) = Off(k)
               /\ page \in Seq(Chars) /\ Len(page) \in Nat
               /\ Off(r) \in Nat /\ Off(r + 1) = Off(r) + Len(page) + 1 /\ Off(r + 1) <= Off(k)
               /\ Off(k) \in Nat
               /\ \A i \in 1 .. Len(page) : hay[Off(r) + i] = page[i]
               /\ hay[Off(r + 1)] = Newline
<1> DEFINE s == Joined(k)
           hay == Folded(s, cs)
           raw == texts[r + 1]
           page == Folded(raw, cs)
           e == r + 1
<1>0. Len(texts) \in Nat /\ k \in 0 .. Len(texts) /\ e \in 1 .. Len(texts) /\ e \in 0 .. k /\ e - 1 = r
      /\ r \in 0 .. k /\ k \in 0 .. k
  BY DEF Document
<1>1. s \in Seq(Chars) /\ Len(s) = Off(k) /\ raw \in Seq(Chars)
  BY <1>0, JoinedType DEF Document, Off
<1>2. /\ Off(r) \in Nat /\ Len(raw) \in Nat /\ Off(e) = Off(r) + Len(raw) + 1
      /\ \A i \in 1 .. Len(raw) : Joined(e)[Off(r) + i] = raw[i]
      /\ Joined(e)[Off(e)] = Newline
  <2> HIDE DEF e
  <2>1. /\ Off(e - 1) \in Nat /\ Len(texts[e]) \in Nat /\ Off(e) = Off(e - 1) + Len(texts[e]) + 1
        /\ \A i \in 1 .. Len(texts[e]) : Joined(e)[Off(e - 1) + i] = texts[e][i]
        /\ Joined(e)[Off(e)] = Newline
    BY <1>0, OffMore
  <2> QED
    BY <1>0, <2>1 DEF e
<1> HIDE DEF e
<1>3. /\ Off(e) <= Off(k) /\ Off(k) \in Nat
      /\ \A i \in 1 .. Off(e) : s[i] = Joined(e)[i]
  BY <1>0, Places
<1> HIDE DEF s, raw
<1>4. /\ hay \in Seq(Chars) /\ Len(hay) = Off(k)
      /\ \A i \in 1 .. Off(k) : hay[i] = IF cs THEN s[i] ELSE Lower[s[i]]
  BY <1>1, FoldedLetters
<1>5. /\ page \in Seq(Chars) /\ Len(page) = Len(raw)
      /\ \A i \in 1 .. Len(raw) : page[i] = IF cs THEN raw[i] ELSE Lower[raw[i]]
  BY <1>1, FoldedLetters
<1> HIDE DEF hay, page
<1>6. \A i \in 1 .. Len(page) : hay[Off(r) + i] = page[i]
  <2> TAKE i \in 1 .. Len(page)
  <2>1. Off(r) + i \in 1 .. Off(e) /\ Off(r) + i \in 1 .. Off(k) /\ i \in 1 .. Len(raw)
    BY <1>2, <1>3, <1>5
  <2>2. s[Off(r) + i] = raw[i]
    BY <1>2, <1>3, <2>1
  <2> QED
    BY <1>4, <1>5, <2>1, <2>2
<1>7. hay[Off(e)] = Newline
  <2>1. Off(e) \in 1 .. Off(e) /\ Off(e) \in 1 .. Off(k)
    BY <1>2, <1>3
  <2>2. s[Off(e)] = Newline
    BY <1>2, <1>3, <2>1
  <2>3. Lower[Newline] = Newline
    BY SearchIndexAssumption
  <2> QED
    BY <1>4, <2>1, <2>2, <2>3
<1> QED
  BY <1>2, <1>3, <1>4, <1>5, <1>6, <1>7 DEF hay, page, s, raw, e

Needles == {q \in Seq(Chars) : q # <<>> /\ \A j \in 1 .. Len(q) : q[j] # Newline}

(* No match reaches beyond its page, ...                                   *)
LEMMA MatchInPage ==
    ASSUME Document, NEW k \in 1 .. Len(texts), NEW cs \in BOOLEAN, NEW r \in 0 .. k - 1,
           NEW needle \in Needles, NEW a \in 1 .. Off(k),
           OccursAt(needle, Folded(Joined(k), cs), a), Owns(r, a)
    PROVE  /\ a + Len(needle) - 1 < Off(r + 1)
           /\ Occurs(needle, Folded(texts[r + 1], cs))
<1> DEFINE hay == Folded(Joined(k), cs)
           page == Folded(texts[r + 1], cs)
           n == Len(needle)
           o == Off(r)
           e == Off(r + 1)
<1>1. /\ hay \in Seq(Chars) /\ Len(hay) = Off(k)
      /\ page \in Seq(Chars) /\ Len(page) \in Nat
      /\ o \in Nat /\ e = o + Len(page) + 1 /\ e <= Off(k) /\ Off(k) \in Nat
      /\ \A i \in 1 .. Len(page) : hay[o + i] = page[i]
      /\ hay[e] = Newline
  BY PageLetters
<1>2. OccursAt(needle, hay, a) /\ o < a /\ a <= e /\ a \in Nat
  BY <1>1 DEF Owns
<1> HIDE DEF hay, page, o, e
<1>3. needle \in Seq(Chars) /\ needle # <<>> /\ n \in Nat /\ n >= 1 /\ \A j \in 1 .. n : needle[j] # Newline
  BY DEF Needles
<1>4. a + n - 1 <= Off(k) /\ \A j \in 1 .. n : hay[a + j - 1] = needle[j]
  <2>1. a \in 1 .. Len(hay)
    BY <1>1
  <2> QED
    BY <1>1, <1>2, <1>3, <2>1, OccursLetters
<1>5. a + n - 1 < e
  <2> SUFFICES ASSUME ~ (a + n - 1 < e) PROVE FALSE
    OBVIOUS
  <2> DEFINE j == e - a + 1
  <2>1. j \in 1 .. n /\ a + j - 1 = e
    BY <1>1, <1>2, <1>3
  <2> HIDE DEF j
  <2> QED
    BY <1>1, <1>3, <1>4, <2>1
<1>6. OccursAt(needle, page, a - o) /\ a - o \in DOMAIN page
  <2> DEFINE i == a - o
  <2>1. i \in 1 .. Len(page) /\ i + n - 1 <= Len(page)
    BY <1>1, <1>2, <1>3, <1>5
  <2>2. \A j \in 1 .. n : page[i + j - 1] = needle[j]
    <3> TAKE j \in 1 .. n
    <3>1. i + j - 1 \in 1 .. Len(page) /\ o + (i + j - 1) = a + j - 1
      BY <1>1, <1>2, <1>3, <2>1
    <3> QED
      BY <1>1, <1>4, <3>1
  <2> HIDE DEF i
  <2>3. OccursAt(needle, page, i)
    BY <1>1, <1>3, <2>1, <2>2, OccursLetters
  <2> QED
    BY <1>1, <2>1, <2>3 DEF i
<1> QED
  BY <1>5, <1>6 DEF Occurs, page, e

(* ... and every match of a page is one of the text.                       *)
LEMMA MatchInText ==
    ASSUME Document, NEW k \in 1 .. Len(texts), NEW cs \in BOOLEAN, NEW r \in 0 .. k - 1,
           NEW needle \in Needles, Occurs(needle, Folded(texts[r + 1], cs))
    PROVE  \E a \in 1 .. Off(k) : OccursAt(needle, Folded(Joined(k), cs), a) /\ Owns(r, a)
<1> DEFINE hay == Folded(Joined(k), cs)
           page == Folded(texts[r + 1], cs)
           n == Len(needle)
           o == Off(r)
           e == Off(r + 1)
<1>1. /\ hay \in Seq(Chars) /\ Len(hay) = Off(k)
      /\ page \in Seq(Chars) /\ Len(page) \in Nat
      /\ o \in Nat /\ e = o + Len(page) + 1 /\ e <= Off(k) /\ Off(k) \in Nat
      /\ \A i \in 1 .. Len(page) : hay[o + i] = page[i]
      /\ hay[e] = Newline
  BY PageLetters
<1>2. PICK i \in DOMAIN page : OccursAt(needle, page, i)
  BY DEF Occurs
<1> HIDE DEF hay, page, o, e
<1>3. needle \in Seq(Chars) /\ needle # <<>> /\ n \in Nat /\ n >= 1
  BY DEF Needles
<1>4. i \in 1 .. Len(page)
  BY <1>1, <1>2
<1>5. i + n - 1 <= Len(page) /\ \A j \in 1 .. n : page[i + j - 1] = needle[j]
  BY <1>1, <1>2, <1>3, <1>4, OccursLetters
<1>50. Len(page) \in Nat /\ i + n - 1 <= Len(page)
  BY <1>1, <1>5
<1> DEFINE a == o + i
<1>6. a \in 1 .. Off(k) /\ a + n - 1 <= Off(k) /\ o < a /\ a <= e
  BY <1>1, <1>3, <1>4, <1>5, SMTT(30)
<1>7. \A j \in 1 .. n : hay[a + j - 1] = needle[j]
  <2> TAKE j \in 1 .. n
  <2>1. i + j - 1 \in 1 .. Len(page)
    BY <1>3, <1>4, <1>50
  <2>2. o + (i + j - 1) = a + j - 1
    BY <1>1, <1>3, <1>4
  <2> QED
    BY <1>1, <1>5, <2>1, <2>2
<1> HIDE DEF a
<1>8. OccursAt(needle, hay, a)
  BY <1>1, <1>3, <1>6, <1>7, OccursLetters
<1> QED
  BY <1>6, <1>8 DEF Owns, hay, o, e

LEMMA OwnsOrder ==
    ASSUME Document, NEW k \in 1 .. Len(texts), NEW p \in 0 .. k - 1, NEW a \in Nat, Owns(p, a),
           NEW r \in 0 .. k - 1
    PROVE  Off(r) < a <=> r <= p
<1>0. /\ Len(texts) \in Nat /\ p \in 0 .. Len(texts) /\ r \in 0 .. Len(texts)
      /\ p + 1 \in 0 .. Len(texts) /\ p \in Nat /\ r \in Nat
  BY DEF Document
<1>1. Off(p) < a /\ a <= Off(p + 1)
  BY DEF Owns
<1>2. CASE r <= p
  <2>1. r \in 0 .. p /\ p \in 0 .. p
    BY <1>0, <1>2
  <2>2. Off(r) \in Nat /\ Off(p) \in Nat /\ Off(r) <= Off(p)
    BY <1>0, <2>1, Places
  <2> QED
    BY <1>1, <1>2, <2>2
<1>3. CASE ~ (r <= p)
  <2>1. p + 1 \in 0 .. r /\ r \in 0 .. r
    BY <1>0, <1>3
  <2>2. Off(p + 1) \in Nat /\ Off(r) \in Nat /\ Off(p + 1) <= Off(r)
    BY <1>0, <2>1, Places
  <2> QED
    BY <1>1, <1>3, <2>2
<1> QED
  BY <1>2, <1>3

(* The walk of pages_matching after j matches: the cursor is on the page   *)
(* of the last, and the pages put out are those of the matches, ascending. *)
Walked(m, at, k, j) ==
    /\ m \in [cursor : 0 .. k - 1, out : Seq(0 .. k - 1)]
    /\ \A x, y \in 1 .. Len(m.out) : x < y => m.out[x] < m.out[y]
    /\ \A i \in 1 .. j : \E x \in 1 .. Len(m.out) : Owns(m.out[x], at[i])
    /\ \A x \in 1 .. Len(m.out) : \E i \in 1 .. j : Owns(m.out[x], at[i])
    /\ j = 0 => m.cursor = 0 /\ m.out = <<>>
    /\ j > 0 => m.out # <<>> /\ m.out[Len(m.out)] = m.cursor /\ Owns(m.cursor, at[j])

MoveTo(m, p) ==
    [cursor |-> p,
     out |-> IF m.out = <<>> \/ m.out[Len(m.out)] # p THEN Append(m.out, p) ELSE m.out]

(* One match more: its page is not before the cursor.                      *)
LEMMA WalkStep ==
    ASSUME Document, NEW k \in 1 .. Len(texts), NEW at \in Seq(Nat),
           \A x, y \in 1 .. Len(at) : x < y => at[x] < at[y],
           NEW j \in 1 .. Len(at), NEW m, Walked(m, at, k, j - 1),
           NEW p \in 0 .. k - 1, Owns(p, at[j])
    PROVE  m.cursor <= p /\ Walked(MoveTo(m, p), at, k, j)
<1>0. Len(at) \in Nat /\ j \in Nat /\ j >= 1 /\ k \in Nat /\ Len(texts) \in Nat /\ k <= Len(texts)
  BY DEF Document
<1> DEFINE o == m.out
           n == Len(o)
<1>1. /\ m \in [cursor : 0 .. k - 1, out : Seq(0 .. k - 1)]
      /\ \A x, y \in 1 .. n : x < y => o[x] < o[y]
      /\ \A i \in 1 .. j - 1 : \E x \in 1 .. n : Owns(o[x], at[i])
      /\ \A x \in 1 .. n : \E i \in 1 .. j - 1 : Owns(o[x], at[i])
      /\ j - 1 = 0 => m.cursor = 0 /\ o = <<>>
      /\ j - 1 > 0 => o # <<>> /\ o[n] = m.cursor /\ Owns(m.cursor, at[j - 1])
  BY DEF Walked
<1>2. o \in Seq(0 .. k - 1) /\ n \in Nat /\ m.cursor \in 0 .. k - 1
  BY <1>1
<1>3. m.cursor <= p
  <2>1. CASE j - 1 = 0
    BY <1>1, <2>1
  <2>2. CASE j - 1 > 0
    <3>1. Owns(m.cursor, at[j - 1])
      BY <1>1, <2>2
    <3>2. at[j - 1] < at[j] /\ at[j - 1] \in Nat /\ at[j] \in Nat
      <4>1. j - 1 \in 1 .. Len(at) /\ j - 1 < j
        BY <1>0, <2>2
      <4> QED
        BY <4>1, SMTT(30)
    <3>3. Off(m.cursor) \in Nat
      <4>1. m.cursor \in 0 .. Len(texts) /\ m.cursor \in 0 .. m.cursor
        BY <1>0, <1>2
      <4> QED
        BY <4>1, Places
    <3>4. Off(m.cursor) < at[j]
      BY <3>1, <3>2, <3>3 DEF Owns
    <3> QED
      BY <1>2, <3>2, <3>4, OwnsOrder
  <2> QED
    BY <1>0, <2>1, <2>2
<1> HIDE DEF o
<1>4. CASE o = <<>> \/ o[n] # p
  <2> DEFINE b == Append(o, p)
             r == [cursor |-> p, out |-> b]
  <2>1. b \in Seq(0 .. k - 1) /\ Len(b) = n + 1 /\ b[n + 1] = p /\ \A x \in 1 .. n : b[x] = o[x]
    BY <1>2
  <2>2. MoveTo(m, p) = r /\ r.cursor = p /\ r.out = b
    BY <1>4 DEF MoveTo, o
  <2>3. r \in [cursor : 0 .. k - 1, out : Seq(0 .. k - 1)]
    BY <2>1
  <2> HIDE DEF b, r
  <2>4. \A x \in 1 .. n + 1 : x \in 1 .. n \/ x = n + 1
    BY <1>2, UpToNext, Zenon
  <2>5. n + 1 \in 1 .. n + 1 /\ b # <<>>
    BY <1>2, <2>1
  <2>6. \A x \in 1 .. n : o[x] < p
    <3> SUFFICES ASSUME NEW x \in 1 .. n PROVE o[x] < p
      OBVIOUS
    <3>1. o # <<>> /\ n \in 1 .. n /\ n >= 1
      BY <1>2
    <3>2. PICK i \in 1 .. j - 1 : Owns(o[x], at[i])
      BY <1>1
    <3>3. j - 1 > 0
      BY <1>0
    <3>4. o[n] = m.cursor
      BY <1>1, <3>3
    <3>5. o[n] # p
      BY <1>4, <3>1
    <3>6. o[n] < p
      BY <1>2, <1>3, <3>4, <3>5, SMTT(30)
    <3>7. o[x] \in 0 .. k - 1 /\ o[n] \in 0 .. k - 1
      <4>1. \A z \in 1 .. n : o[z] \in 0 .. k - 1
        BY <1>2, ElementOf, Zenon
      <4> QED
        BY <3>1, <4>1
    <3>8. x = n \/ o[x] < o[n]
      <4>1. CASE x # n
        <5>1. x < n
          BY <1>2, <4>1
        <5> QED
          BY <1>1, <3>1, <5>1
      <4> QED
        BY <4>1
    <3> QED
      BY <3>6, <3>7, <3>8, SMTT(30)
  <2>7. \A x, y \in 1 .. n + 1 : x < y => b[x] < b[y]
    <3> TAKE x, y \in 1 .. n + 1
    <3> HAVE x < y
    <3>1. x \in 1 .. n /\ b[x] = o[x]
      <4>1. x \in 1 .. n
        BY <1>2
      <4> QED
        BY <2>1, <4>1
    <3>2. CASE y = n + 1
      BY <2>1, <2>6, <3>1, <3>2
    <3>3. CASE y # n + 1
      <4>1. y \in 1 .. n /\ b[y] = o[y]
        BY <2>1, <2>4, <3>3
      <4> QED
        BY <1>1, <3>1, <4>1
    <3> QED
      BY <3>2, <3>3
  <2>8. \A i \in 1 .. j : \E x \in 1 .. n + 1 : Owns(b[x], at[i])
    <3> TAKE i \in 1 .. j
    <3>1. CASE i = j
      BY <2>1, <2>5, <3>1
    <3>2. CASE i # j
      <4>1. i \in 1 .. j - 1
        BY <1>0, <3>2
      <4>2. PICK x \in 1 .. n : Owns(o[x], at[i])
        BY <1>1, <4>1
      <4>3. x \in 1 .. n + 1 /\ b[x] = o[x]
        BY <1>2, <2>1
      <4> QED
        BY <4>2, <4>3
    <3> QED
      BY <3>1, <3>2
  <2>9. \A x \in 1 .. n + 1 : \E i \in 1 .. j : Owns(b[x], at[i])
    <3> TAKE x \in 1 .. n + 1
    <3>1. CASE x = n + 1
      BY <1>0, <2>1, <3>1
    <3>2. CASE x # n + 1
      <4>1. x \in 1 .. n /\ b[x] = o[x]
        BY <2>1, <2>4, <3>2
      <4>2. PICK i \in 1 .. j - 1 : Owns(o[x], at[i])
        BY <1>1, <4>1
      <4>3. i \in 1 .. j
        BY <1>0
      <4> QED
        BY <4>1, <4>2, <4>3
    <3> QED
      BY <3>1, <3>2
  <2>10. Walked(r, at, k, j)
    <3>1. j # 0 /\ Len(b) = n + 1 /\ b[Len(b)] = p
      BY <1>0, <2>1
    <3> QED
      BY <2>2, <2>3, <2>5, <2>7, <2>8, <2>9, <3>1 DEF Walked
  <2> QED
    BY <1>3, <2>2, <2>10
<1>5. CASE ~ (o = <<>> \/ o[n] # p)
  <2> DEFINE r == [cursor |-> p, out |-> o]
  <2>1. MoveTo(m, p) = r /\ r.cursor = p /\ r.out = o
    BY <1>5 DEF MoveTo, o
  <2>2. r \in [cursor : 0 .. k - 1, out : Seq(0 .. k - 1)]
    BY <1>2
  <2> HIDE DEF r
  <2>3. o # <<>> /\ o[n] = p /\ n \in 1 .. n
    BY <1>2, <1>5, SMTT(30)
  <2>4. \A i \in 1 .. j : \E x \in 1 .. n : Owns(o[x], at[i])
    <3> TAKE i \in 1 .. j
    <3>1. CASE i = j
      BY <2>3, <3>1
    <3>2. CASE i # j
      <4>1. i \in 1 .. j - 1
        BY <1>0, <3>2
      <4> QED
        BY <1>1, <4>1
    <3> QED
      BY <3>1, <3>2
  <2>5. \A x \in 1 .. n : \E i \in 1 .. j : Owns(o[x], at[i])
    <3> TAKE x \in 1 .. n
    <3>1. PICK i \in 1 .. j - 1 : Owns(o[x], at[i])
      BY <1>1
    <3>2. i \in 1 .. j
      BY <1>0
    <3> QED
      BY <3>1, <3>2
  <2>6. \A x, y \in 1 .. n : x < y => o[x] < o[y]
    BY <1>1
  <2>7. Walked(r, at, k, j)
    BY <1>0, <2>1, <2>2, <2>3, <2>4, <2>5, <2>6 DEF Walked
  <2> QED
    BY <1>3, <2>1, <2>7
<1> QED
  BY <1>4, <1>5

(* pages_matching puts out, in order, the pages on which the matches lie.  *)
LEMMA PagesOfMatches ==
    ASSUME Document, NEW k \in 1 .. Len(texts), NEW q, NEW cs \in BOOLEAN,
           Folded(q, cs) \in Needles, cs \/ EqualWidths
    PROVE  \E m, at, from :
             /\ PagesMatching(PrefixIndex(k), q, cs) = m.out
             /\ MatchedUpTo([at |-> at, from |-> from], Folded(q, cs), Folded(Joined(k), cs), Off(k))
             /\ Walked(m, at, k, Len(at))
<1> DEFINE ix == PrefixIndex(k)
           s == Joined(k)
           hay == Folded(s, cs)
           needle == Folded(q, cs)
           at == MatchStarts(needle, hay)
           offsets == [j \in DOMAIN at |-> ByteLen(SubSeq(hay, 1, at[j] - 1))]
           n == Len(at)
<1>0. Len(texts) \in Nat /\ k \in 0 .. Len(texts) /\ k \in 0 .. k /\ k \in Nat /\ k >= 1
  BY DEF Document
<1>1. s \in Seq(Chars) /\ Len(s) = Off(k) /\ Off(k) \in Nat /\ ix.text = s
  BY <1>0, JoinedType DEF Off, PrefixIndex
<1>2. hay \in Seq(Chars) /\ Len(hay) = Off(k)
      /\ \A i \in 1 .. Off(k) : hay[i] = IF cs THEN s[i] ELSE Lower[s[i]]
  <2> HIDE DEF s
  <2> QED
    BY <1>1, FoldedLetters
<1>3. \A i \in 1 .. Off(k) : Width[hay[i]] = Width[s[i]]
  <2> HIDE DEF s, hay
  <2> TAKE i \in 1 .. Off(k)
  <2>1. s[i] \in Chars
    BY <1>1
  <2> QED
    BY <1>2, <2>1 DEF EqualWidths
<1>4. needle \in Seq(Chars) /\ needle # <<>>
  BY DEF Needles
<1>5. PICK from : MatchedUpTo([at |-> at, from |-> from], needle, hay, Off(k))
  <2> HIDE DEF s, hay, needle
  <2> QED
    BY <1>2, <1>4, MatchesFound
<1>6. MatchOffsets(ix, q, cs) = offsets
  BY <1>1 DEF MatchOffsets, Folded
<1> HIDE DEF hay, needle, s, ix, at
<1>7. /\ at \in Seq(Nat) /\ n \in Nat
      /\ \A j \in 1 .. n : at[j] \in 1 .. Off(k)
      /\ \A x, y \in 1 .. n : x < y => at[x] < at[y]
  BY <1>5 DEF MatchedUpTo
<1>8. offsets \in Seq(UNION {{offsets[j]} : j \in 1 .. n}) /\ Len(offsets) = n
      /\ \A j \in 1 .. n : offsets[j] = ByteLen(SubSeq(hay, 1, at[j] - 1))
  <2>1. DOMAIN at = 1 .. n
    BY <1>7
  <2> QED
    BY <1>7, <2>1
<1> DEFINE Page(j) == CHOOSE p \in 0 .. k - 1 : Owns(p, at[j])
<1>9. \A j \in 1 .. n : Page(j) \in 0 .. k - 1 /\ Owns(Page(j), at[j])
  <2> TAKE j \in 1 .. n
  <2>1. at[j] \in 1 .. Off(k)
    BY <1>7
  <2>2. PICK p \in 1 .. k : Off(p - 1) < at[j] /\ at[j] <= Off(p)
    BY <1>0, <2>1, PlaceOwned
  <2>3. p - 1 \in 0 .. k - 1 /\ (p - 1) + 1 = p
    BY <1>0
  <2>4. Owns(p - 1, at[j])
    BY <2>2, <2>3 DEF Owns
  <2> QED
    BY <2>3, <2>4
<1> HIDE DEF Page, offsets
<1> DEFINE none == [cursor |-> 0, out |-> <<>>]
           More(m, j) ==
             LET cursor == Advance(ix, m.cursor, offsets[j])
                 start == ix.pageStarts[cursor]
             IN  [cursor |-> cursor,
                  out |-> IF /\ start # NotIndexed /\ start <= offsets[j]
                             /\ m.out = <<>> \/ m.out[Len(m.out)] # cursor
                            THEN Append(m.out, cursor) ELSE m.out]
<1>10. ASSUME NEW j \in 1 .. n, NEW m, Walked(m, at, k, j - 1)
       PROVE  More(m, j) = MoveTo(m, Page(j)) /\ Walked(More(m, j), at, k, j)
  <2> DEFINE p == Page(j)
  <2>0. p \in 0 .. k - 1 /\ Owns(p, at[j]) /\ at[j] \in 1 .. Off(k) /\ at[j] \in Nat
    BY <1>7, <1>9
  <2> HIDE DEF p
  <2>1. m.cursor <= p /\ Walked(MoveTo(m, p), at, k, j)
    BY <1>7, <1>10, <2>0, WalkStep
  <2>2. m.cursor \in 0 .. k - 1
    BY <1>10 DEF Walked
  <2>3. \A r \in 0 .. k - 1 : ix.pageStarts[r] <= offsets[j] <=> r <= p
    <3> TAKE r \in 0 .. k - 1
    <3>1. ix.pageStarts[r] <= ByteLen(SubSeq(hay, 1, at[j] - 1)) <=> Off(r) < at[j]
      BY <1>2, <1>3, <2>0, StartsBefore DEF ix, s
    <3>2. Off(r) < at[j] <=> r <= p
      BY <2>0, OwnsOrder
    <3> QED
      BY <1>8, <3>1, <3>2
  <2>4. Advance(ix, m.cursor, offsets[j]) = p
    <3>1. p \in m.cursor .. k - 1
      BY <2>0, <2>1, <2>2
    <3> QED
      BY <2>2, <2>3, <3>1, AdvanceStops DEF ix
  <2>5. ix.pageStarts[p] # NotIndexed
    <3>1. p \in Indexed(ix)
      BY <1>0, <2>0, IndexedPrefix DEF ix
    <3> QED
      BY <3>1 DEF Indexed
  <2>6. ix.pageStarts[p] <= offsets[j]
    BY <2>0, <2>3
  <2>7. More(m, j) = MoveTo(m, p)
    BY <2>4, <2>5, <2>6 DEF MoveTo
  <2> QED
    BY <2>1, <2>7 DEF p
<1>11. none \in [cursor : 0 .. k - 1, out : Seq(0 .. k - 1)] /\ Walked(none, at, k, 0)
  <2>1. /\ none \in [cursor : 0 .. k - 1, out : Seq(0 .. k - 1)]
        /\ none.cursor = 0 /\ none.out = <<>> /\ Len(none.out) = 0
    BY <1>0
  <2> HIDE DEF none
  <2> QED
    BY <2>1 DEF Walked
<1> DEFINE D == [cursor : 0 .. k - 1, out : Seq(0 .. k - 1)]
           Step == [j \in 1 .. n |-> [x \in D |-> MoveTo(x, Page(j))]]
           Rec(f) == f = [j \in 0 .. n |-> IF j = 0 THEN none ELSE More(f[j - 1], j)]
           walk[j \in 0 .. n] ==
             IF j = 0 THEN none
             ELSE LET m == walk[j - 1]
                      cursor == Advance(ix, m.cursor, offsets[j])
                      start == ix.pageStarts[cursor]
                  IN  [cursor |-> cursor,
                       out |-> IF /\ start # NotIndexed /\ start <= offsets[j]
                                  /\ m.out = <<>> \/ m.out[Len(m.out)] # cursor
                                 THEN Append(m.out, cursor) ELSE m.out]
<1>12. \A j \in 1 .. n, x \in D : MoveTo(x, Page(j)) \in D
  <2> TAKE j \in 1 .. n, x \in D
  <2>1. Page(j) \in 0 .. k - 1 /\ x.out \in Seq(0 .. k - 1)
    BY <1>9
  <2>2. Append(x.out, Page(j)) \in Seq(0 .. k - 1)
    BY <2>1
  <2> QED
    BY <2>1, <2>2 DEF MoveTo
<1>13. PICK f : Iteration(f, n, D, none, Step)
  <2>1. Step \in [1 .. n -> [D -> D]]
    <3> HIDE DEF D
    <3> QED
      BY <1>12
  <2>2. none \in D
    BY <1>11
  <2> HIDE DEF Step, none, D
  <2> QED
    BY <1>7, <2>1, <2>2, Iterates, Zenon
<1> HIDE DEF More
<1>14. \A j \in 0 .. n : Walked(f[j], at, k, j) /\ (j > 0 => f[j] = More(f[j - 1], j))
  <2>1. f \in [0 .. n -> D] /\ f[0] = none /\ \A j \in 1 .. n : f[j] = Step[j][f[j - 1]]
    <3> HIDE DEF Step, none, D
    <3> QED
      BY <1>13 DEF Iteration
  <2>2. \A j \in 1 .. n : f[j] = MoveTo(f[j - 1], Page(j))
    <3> TAKE j \in 1 .. n
    <3> HIDE DEF D, none
    <3>1. j - 1 \in 0 .. n
      BY <1>7
    <3>2. Step[j] = [x \in D |-> MoveTo(x, Page(j))]
      OBVIOUS
    <3> HIDE DEF Step
    <3>3. f[j - 1] \in D /\ f[j] = Step[j][f[j - 1]]
      BY <2>1, <3>1
    <3> QED
      BY <3>2, <3>3
  <2> DEFINE T == {j \in 0 .. n : Walked(f[j], at, k, j) /\ (j > 0 => f[j] = More(f[j - 1], j))}
  <2> HIDE DEF Step, none, D
  <2>3. 0 \in T
    BY <1>7, <1>11, <2>1
  <2>4. ASSUME NEW j \in 1 .. n, j - 1 \in T PROVE j \in T
    <3>1. Walked(f[j - 1], at, k, j - 1) /\ j \in 0 .. n
      BY <1>7, <2>4
    <3>2. More(f[j - 1], j) = MoveTo(f[j - 1], Page(j)) /\ Walked(More(f[j - 1], j), at, k, j)
      BY <1>10, <3>1
    <3> QED
      BY <2>2, <3>1, <3>2
  <2>5. \A j \in 0 .. n : j \in T
    <3> HIDE DEF T, n
    <3> QED
      BY <1>7, <2>3, <2>4, Climb
  <2> QED
    BY <2>5
<1>15. Rec(f)
  <2>1. f = [j \in 0 .. n |-> f[j]] /\ f[0] = none
    <3> HIDE DEF Step, none, D
    <3> QED
      BY <1>13 DEF Iteration
  <2> HIDE DEF none
  <2>2. \A j \in 0 .. n : f[j] = IF j = 0 THEN none ELSE More(f[j - 1], j)
    <3> TAKE j \in 0 .. n
    <3>1. j > 0 \/ j = 0
      BY <1>7
    <3>2. CASE j > 0
      <4>1. f[j] = More(f[j - 1], j) /\ j # 0
        BY <1>14, <3>2
      <4> QED
        BY <4>1
    <3>3. CASE j = 0
      BY <2>1, <3>3
    <3> QED
      BY <3>1, <3>2, <3>3
  <2> QED
    BY <2>1, <2>2
<1>16. Rec(walk)
  <2>1. \E g : Rec(g)
    BY <1>15
  <2> HIDE DEF none
  <2> QED
    BY <2>1 DEF More
<1>17. PagesMatching(ix, q, cs) = walk[n].out
  BY <1>6, <1>8 DEF PagesMatching
<1> HIDE DEF walk
<1>18. \A j \in 0 .. n : walk[j] = IF j = 0 THEN none ELSE More(walk[j - 1], j)
  <2> HIDE DEF none
  <2> QED
    BY <1>16
<1>19. Walked(walk[n], at, k, n)
  <2> DEFINE T == {j \in 0 .. n : Walked(walk[j], at, k, j)}
  <2> HIDE DEF none
  <2>1. 0 \in T
    BY <1>7, <1>11, <1>18
  <2>2. ASSUME NEW j \in 1 .. n, j - 1 \in T PROVE j \in T
    <3>1. Walked(walk[j - 1], at, k, j - 1) /\ j \in 0 .. n /\ j # 0
      BY <1>7, <2>2
    <3>2. Walked(More(walk[j - 1], j), at, k, j)
      BY <1>10, <3>1
    <3> QED
      BY <1>18, <3>1, <3>2
  <2>3. \A j \in 0 .. n : j \in T
    <3> HIDE DEF T, n
    <3> QED
      BY <1>7, <2>1, <2>2, Climb
  <2> QED
    BY <1>7, <2>3
<1> QED
  BY <1>5, <1>17, <1>19 DEF ix, needle, hay, s

LEMMA HasFolded ==
    ASSUME NEW q, NEW cs \in BOOLEAN, NEW p
    PROVE  HasMatch(p, q, cs) <=> Occurs(Folded(q, cs), Folded(texts[p + 1], cs))
BY DEF HasMatch, Folded

(* What is searched for is no match by itself, and never holds a sentinel. *)
LEMMA QueriesAreNeedles ==
    ASSUME NEW q \in Queries, NEW cs \in BOOLEAN
    PROVE  Folded(q, cs) \in Needles
<1>1. q \in Seq(Chars \ {Newline}) /\ q # <<>>
  BY SearchIndexAssumption
<1>2. Len(q) \in Nat /\ Len(q) # 0 /\ \A i \in 1 .. Len(q) : q[i] \in Chars /\ q[i] # Newline
  BY <1>1
<1>3. q \in Seq(Chars)
  <2>1. q \in [1 .. Len(q) -> Chars \ {Newline}]
    BY <1>1
  <2>2. q \in [1 .. Len(q) -> Chars]
    BY <2>1
  <2> QED
    BY <1>2, <2>2
<1>4. /\ Folded(q, cs) \in Seq(Chars) /\ Len(Folded(q, cs)) = Len(q)
      /\ \A i \in 1 .. Len(q) : Folded(q, cs)[i] = IF cs THEN q[i] ELSE Lower[q[i]]
  BY <1>3, FoldedLetters
<1>5. \A i \in 1 .. Len(q) : Folded(q, cs)[i] # Newline
  BY <1>2, <1>4, SearchIndexAssumption
<1>6. Folded(q, cs) # <<>>
  BY <1>2, <1>4
<1> QED
  BY <1>4, <1>5, <1>6 DEF Needles

(* The hits of an index are the indexed pages with a match, ascending.     *)
Hits(k, q, cs) == PagesMatching(PrefixIndex(k), q, cs)

HitsRight(hits, k, q, cs) ==
    /\ hits \in Seq(0 .. k - 1)
    /\ \A x, y \in 1 .. Len(hits) : x < y => hits[x] < hits[y]
    /\ \A r \in 0 .. k - 1 : HasMatch(r, q, cs) <=> \E x \in 1 .. Len(hits) : hits[x] = r

LEMMA HitsOfNone ==
    ASSUME Document, NEW q \in Queries, NEW cs \in BOOLEAN
    PROVE  Hits(0, q, cs) = <<>>
<1> DEFINE ix == PrefixIndex(0)
           hay == Folded(<<>>, cs)
           needle == Folded(q, cs)
           at == MatchStarts(needle, hay)
           offsets == [j \in DOMAIN at |-> ByteLen(SubSeq(hay, 1, at[j] - 1))]
<1>1. ix.text = <<>>
  BY JoinedNone DEF PrefixIndex
<1>2. hay \in Seq(Chars) /\ Len(hay) = 0
  <2>1. <<>> \in Seq(Chars) /\ Len(<<>>) = 0
    OBVIOUS
  <2> QED
    BY <2>1, FoldedLetters
<1>3. needle \in Seq(Chars) /\ needle # <<>>
  BY QueriesAreNeedles DEF Needles
<1>4. MatchOffsets(ix, q, cs) = offsets
  BY <1>1 DEF MatchOffsets, Folded
<1> HIDE DEF hay, needle, ix
<1>5. PICK from : MatchedUpTo([at |-> at, from |-> from], needle, hay, Len(hay))
  BY <1>2, <1>3, MatchesFound
<1>6. at = <<>>
  <2> HIDE DEF at
  <2>1. at \in Seq(Nat) /\ \A j \in 1 .. Len(at) : at[j] \in 1 .. 0
    BY <1>2, <1>5 DEF MatchedUpTo
  <2>2. Len(at) = 0
    <3>1. Len(at) \in Nat
      BY <2>1
    <3>2. ASSUME Len(at) # 0 PROVE FALSE
      <4>1. 1 \in 1 .. Len(at)
        BY <3>1, <3>2
      <4>2. at[1] \in 1 .. 0
        BY <2>1, <4>1
      <4> QED
        BY <4>2
    <3> QED
      BY <3>2
  <2> QED
    BY <2>1, <2>2
<1>7. offsets = <<>>
  <2> HIDE DEF at
  <2>1. DOMAIN at = {}
    BY <1>6
  <2> QED
    BY <2>1
<1> HIDE DEF offsets
<1>8. Len(MatchOffsets(ix, q, cs)) = 0
  BY <1>4, <1>7
<1> DEFINE o == MatchOffsets(ix, q, cs)
           none == [cursor |-> 0, out |-> <<>>]
           More(m, j) ==
             LET cursor == Advance(ix, m.cursor, o[j])
                 start == ix.pageStarts[cursor]
             IN  [cursor |-> cursor,
                  out |-> IF /\ start # NotIndexed /\ start <= o[j]
                             /\ m.out = <<>> \/ m.out[Len(m.out)] # cursor
                            THEN Append(m.out, cursor) ELSE m.out]
           Rec(f) == f = [j \in 0 .. Len(o) |-> IF j = 0 THEN none ELSE More(f[j - 1], j)]
           walk[j \in 0 .. Len(o)] ==
             IF j = 0 THEN none
             ELSE LET m == walk[j - 1]
                      cursor == Advance(ix, m.cursor, o[j])
                      start == ix.pageStarts[cursor]
                  IN  [cursor |-> cursor,
                       out |-> IF /\ start # NotIndexed /\ start <= o[j]
                                  /\ m.out = <<>> \/ m.out[Len(m.out)] # cursor
                                 THEN Append(m.out, cursor) ELSE m.out]
<1>9. Rec([j \in 0 .. 0 |-> none])
  <2> HIDE DEF More, none
  <2> QED
    BY <1>8
<1>10. Rec(walk)
  <2>1. \E g : Rec(g)
    BY <1>9
  <2> QED
    BY <2>1
<1>11. PagesMatching(ix, q, cs) = walk[Len(o)].out
  BY DEF PagesMatching
<1> HIDE DEF walk, More
<1>12. walk[0] = none
  <2> HIDE DEF none, o
  <2>1. 0 \in 0 .. Len(o)
    BY <1>8 DEF o
  <2> QED
    BY <1>10, <2>1
<1> QED
  BY <1>8, <1>11, <1>12 DEF Hits, ix

LEMMA HitsAreRight ==
    ASSUME Document, NEW k \in 0 .. Len(texts), NEW q \in Queries, NEW cs \in BOOLEAN,
           cs \/ EqualWidths
    PROVE  HitsRight(Hits(k, q, cs), k, q, cs)
<1>0. Len(texts) \in Nat /\ k \in Nat /\ Folded(q, cs) \in Needles
  BY QueriesAreNeedles DEF Document
<1>1. CASE k = 0
  <2>1. Hits(k, q, cs) = <<>>
    BY <1>1, HitsOfNone
  <2>2. <<>> \in Seq(0 .. k - 1) /\ Len(<<>>) = 0 /\ 0 .. k - 1 = {}
    BY <1>1
  <2> QED
    BY <2>1, <2>2 DEF HitsRight
<1>2. CASE k # 0
  <2>0. k \in 1 .. Len(texts) /\ k \in 0 .. k
    BY <1>0, <1>2
  <2> DEFINE needle == Folded(q, cs)
             hay == Folded(Joined(k), cs)
  <2>1. PICK m, at, from :
          /\ PagesMatching(PrefixIndex(k), q, cs) = m.out
          /\ MatchedUpTo([at |-> at, from |-> from], needle, hay, Off(k))
          /\ Walked(m, at, k, Len(at))
    BY <1>0, <2>0, PagesOfMatches
  <2>2. needle \in Needles /\ needle \in Seq(Chars) /\ Len(needle) \in Nat
    BY <1>0 DEF Needles
  <2>3. Off(k) \in Nat
    BY <2>0, Places
  <2> DEFINE out == m.out
             n == Len(out)
  <2> HIDE DEF hay, needle
  <2>4. /\ at \in Seq(Nat) /\ Len(at) \in Nat
        /\ \A j \in 1 .. Len(at) : at[j] \in 1 .. Off(k) /\ OccursAt(needle, hay, at[j])
        /\ \A o \in 1 .. Off(k) : OccursAt(needle, hay, o) =>
              \E j \in 1 .. Len(at) : at[j] <= o /\ o < at[j] + Len(needle)
    BY <2>1 DEF MatchedUpTo
  <2>5. /\ out \in Seq(0 .. k - 1)
        /\ \A x, y \in 1 .. n : x < y => out[x] < out[y]
        /\ \A i \in 1 .. Len(at) : \E x \in 1 .. n : Owns(out[x], at[i])
        /\ \A x \in 1 .. n : \E i \in 1 .. Len(at) : Owns(out[x], at[i])
    BY <2>1 DEF Walked
  <2> HIDE DEF out
  <2>6. \A x \in 1 .. n : out[x] \in 0 .. k - 1
    BY <2>5, ElementOf, Zenon
  <2>7. ASSUME NEW x \in 1 .. n PROVE HasMatch(out[x], q, cs)
    <3>1. PICK i \in 1 .. Len(at) : Owns(out[x], at[i])
      BY <2>5
    <3>2. out[x] \in 0 .. k - 1 /\ at[i] \in 1 .. Off(k) /\ OccursAt(needle, hay, at[i])
      BY <2>4, <2>6
    <3>3. Occurs(needle, Folded(texts[out[x] + 1], cs))
      BY <2>0, <2>2, <3>1, <3>2, MatchInPage DEF hay
    <3> QED
      BY <3>3, HasFolded DEF needle
  <2>8. ASSUME NEW r \in 0 .. k - 1, HasMatch(r, q, cs)
        PROVE  \E x \in 1 .. n : out[x] = r
    <3>1. Occurs(needle, Folded(texts[r + 1], cs))
      BY <2>8, HasFolded DEF needle
    <3>2. PICK a \in 1 .. Off(k) : OccursAt(needle, hay, a) /\ Owns(r, a)
      BY <2>0, <2>2, <3>1, MatchInText DEF hay
    <3>3. PICK j \in 1 .. Len(at) : at[j] <= a /\ a < at[j] + Len(needle)
      BY <2>4, <3>2
    <3>4. PICK x \in 1 .. n : Owns(out[x], at[j])
      BY <2>5
    <3> DEFINE p == out[x]
    <3>5. p \in 0 .. k - 1 /\ at[j] \in 1 .. Off(k) /\ OccursAt(needle, hay, at[j]) /\ Owns(p, at[j])
      BY <2>4, <2>6, <3>4
    <3> HIDE DEF p
    <3>6. at[j] + Len(needle) - 1 < Off(p + 1)
      BY <2>0, <2>2, <3>5, MatchInPage DEF hay
    <3>7. Off(p) \in Nat /\ Off(p + 1) \in Nat
      <4>1. p \in 0 .. k /\ p + 1 \in 0 .. k /\ k \in 0 .. Len(texts)
        BY <2>0, <3>5
      <4> QED
        BY <4>1, Places
    <3>8. Owns(p, a) /\ a \in Nat
      BY <2>2, <2>3, <3>3, <3>5, <3>6, <3>7, SMTT(30) DEF Owns
    <3>9. r <= p
      <4>1. Off(r) < a
        BY <3>2 DEF Owns
      <4> QED
        BY <2>0, <3>5, <3>8, <4>1, OwnsOrder
    <3>10. p <= r
      <4>1. Off(p) < a
        BY <3>8 DEF Owns
      <4> QED
        BY <2>0, <3>2, <3>5, <3>8, <4>1, OwnsOrder
    <3>11. p = r
      BY <3>5, <3>9, <3>10
    <3> QED
      BY <3>11 DEF p
  <2>9. HitsRight(out, k, q, cs)
    BY <2>5, <2>7, <2>8 DEF HitsRight
  <2> QED
    BY <2>1, <2>9 DEF out, Hits
<1> QED
  BY <1>1, <1>2

LEMMA AscendingRight ==
    ASSUME NEW n \in Nat, NEW pages, pages \subseteq 0 .. n - 1
    PROVE  LET s == Ascending(pages, n)
           IN  /\ s \in Seq(Nat)
               /\ \A x, y \in 1 .. Len(s) : x < y => s[x] < s[y]
               /\ ToSet(s) = pages
<1> DEFINE D == Seq(Nat)
           none == <<>>
           More(s, p) == IF p - 1 \in pages THEN Append(s, p - 1) ELSE s
           Rec(f) == f = [p \in 0 .. n |-> IF p = 0 THEN none ELSE More(f[p - 1], p)]
           upTo[p \in 0 .. n] ==
             IF p = 0 THEN <<>>
             ELSE IF p - 1 \in pages THEN Append(upTo[p - 1], p - 1) ELSE upTo[p - 1]
           Step == [p \in 1 .. n |-> [x \in D |-> More(x, p)]]
<1>0. none \in D
  OBVIOUS
<1>1. \A p \in 1 .. n, x \in D : More(x, p) \in D
  OBVIOUS
<1>2. PICK f : Iteration(f, n, D, none, Step)
  <2>1. Step \in [1 .. n -> [D -> D]]
    <3> HIDE DEF D, More
    <3> QED
      BY <1>1
  <2> HIDE DEF Step, none, D
  <2> QED
    BY <1>0, <2>1, Iterates, Zenon
<1> HIDE DEF More
<1>3. Rec(f)
  <2>1. f \in [0 .. n -> D] /\ f[0] = none /\ \A p \in 1 .. n : f[p] = Step[p][f[p - 1]]
    <3> HIDE DEF Step, none, D
    <3> QED
      BY <1>2 DEF Iteration
  <2> HIDE DEF D, none
  <2>2. \A p \in 1 .. n : f[p] = More(f[p - 1], p)
    <3> TAKE p \in 1 .. n
    <3>1. p - 1 \in 0 .. n
      OBVIOUS
    <3>2. Step[p] = [x \in D |-> More(x, p)]
      OBVIOUS
    <3> HIDE DEF Step
    <3>3. f[p - 1] \in D /\ f[p] = Step[p][f[p - 1]]
      BY <2>1, <3>1
    <3> QED
      BY <3>2, <3>3
  <2> HIDE DEF Step
  <2> QED
    BY <2>1, <2>2
<1>4. Rec(upTo)
  <2>1. \E g : Rec(g)
    BY <1>3
  <2> QED
    BY <2>1 DEF More
<1>5. Ascending(pages, n) = upTo[n]
  BY DEF Ascending
<1> HIDE DEF upTo
<1>6. \A p \in 0 .. n : upTo[p] = IF p = 0 THEN none ELSE More(upTo[p - 1], p)
  <2> HIDE DEF none
  <2> QED
    BY <1>4
<1> DEFINE Good(s, p) ==
             /\ s \in Seq(Nat)
             /\ \A x, y \in 1 .. Len(s) : x < y => s[x] < s[y]
             /\ \A x \in 1 .. Len(s) : s[x] \in pages /\ s[x] < p
             /\ \A r \in pages : r < p => \E x \in 1 .. Len(s) : s[x] = r
           T == {p \in 0 .. n : Good(upTo[p], p)}
<1>7. 0 \in T
  <2>1. none \in Seq(Nat) /\ Len(none) = 0 /\ \A r \in pages : ~ (r < 0)
    OBVIOUS
  <2> HIDE DEF none
  <2>2. upTo[0] = none
    BY <1>6
  <2>3. Good(none, 0)
    BY <2>1
  <2> HIDE DEF Good
  <2> QED
    BY <2>2, <2>3
<1>8. ASSUME NEW p \in 1 .. n, p - 1 \in T PROVE p \in T
  <2> DEFINE s == upTo[p - 1]
             t == upTo[p]
             m == Len(s)
  <2>1. p \in 0 .. n /\ p # 0 /\ p \in Nat
    OBVIOUS
  <2>2. t = More(s, p)
    <3> HIDE DEF none
    <3> QED
      BY <1>6, <2>1
  <2>3. /\ s \in Seq(Nat) /\ m \in Nat
        /\ \A x, y \in 1 .. m : x < y => s[x] < s[y]
        /\ \A x \in 1 .. m : s[x] \in pages /\ s[x] < p - 1
        /\ \A r \in pages : r < p - 1 => \E x \in 1 .. m : s[x] = r
    BY <1>8
  <2> HIDE DEF s, t
  <2>4. CASE p - 1 \in pages
    <3>1. /\ t \in Seq(Nat) /\ Len(t) = m + 1 /\ t[m + 1] = p - 1 /\ \A x \in 1 .. m : t[x] = s[x]
      BY <2>1, <2>2, <2>3, <2>4 DEF More
    <3>2. \A x \in 1 .. m + 1 : x \in 1 .. m \/ x = m + 1
      BY <2>3
    <3>3. \A x, y \in 1 .. m + 1 : x < y => t[x] < t[y]
      <4> TAKE x, y \in 1 .. m + 1
      <4> HAVE x < y
      <4>1. x \in 1 .. m
        BY <2>3
      <4>2. t[x] = s[x] /\ s[x] < p - 1
        BY <2>3, <3>1, <4>1
      <4>3. CASE y = m + 1
        BY <3>1, <4>2, <4>3
      <4>4. CASE y # m + 1
        <5>1. y \in 1 .. m /\ t[y] = s[y]
          BY <3>1, <3>2, <4>4
        <5> QED
          BY <2>3, <4>1, <4>2, <5>1
      <4> QED
        BY <4>3, <4>4
    <3>4. \A x \in 1 .. m + 1 : t[x] \in pages /\ t[x] < p
      <4> TAKE x \in 1 .. m + 1
      <4>1. CASE x = m + 1
        <5>1. t[x] = p - 1
          BY <3>1, <4>1
        <5>2. p - 1 < p
          BY <2>1
        <5> QED
          BY <2>4, <5>1, <5>2
      <4>2. CASE x \in 1 .. m
        <5>1. t[x] = s[x] /\ s[x] \in pages /\ s[x] < p - 1
          BY <2>3, <3>1, <4>2
        <5>2. s[x] \in Nat
          <6>1. \A r \in pages : r \in Nat
            OBVIOUS
          <6> HIDE DEF T
          <6> QED
            BY <5>1, <6>1
        <5> QED
          BY <2>1, <5>1, <5>2
      <4> QED
        BY <3>2, <4>1, <4>2
    <3>5. \A r \in pages : r < p => \E x \in 1 .. m + 1 : t[x] = r
      <4> TAKE r \in pages
      <4> HAVE r < p
      <4>1. CASE r = p - 1
        <5>1. m + 1 \in 1 .. m + 1
          BY <2>3
        <5> QED
          BY <3>1, <4>1, <5>1
      <4>2. CASE r # p - 1
        <5>1. r < p - 1
          BY <2>1, <4>2
        <5>2. PICK x \in 1 .. m : s[x] = r
          BY <2>3, <5>1
        <5>3. x \in 1 .. m + 1 /\ t[x] = r
          BY <2>3, <3>1, <5>2, SMTT(30)
        <5> QED
          BY <5>3
      <4> QED
        BY <4>1, <4>2
    <3>6. Good(t, p)
      BY <3>1, <3>3, <3>4, <3>5
    <3> HIDE DEF Good
    <3> QED
      BY <2>1, <3>6 DEF t
  <2>5. CASE p - 1 \notin pages
    <3>1. t = s
      BY <2>2, <2>5 DEF More
    <3>2. \A r \in pages : r < p => r < p - 1
      BY <2>1, <2>5
    <3>3. \A x \in 1 .. m : s[x] < p
      BY <2>1, <2>3
    <3>4. Good(s, p)
      BY <2>3, <3>2, <3>3
    <3> HIDE DEF Good
    <3> QED
      BY <2>1, <3>1, <3>4 DEF t
  <2> QED
    BY <2>4, <2>5
<1>9. \A p \in 0 .. n : p \in T
  <2> HIDE DEF T
  <2> QED
    BY <1>7, <1>8, Climb
<1> DEFINE s == upTo[n]
<1>10. Good(s, n)
  <2> HIDE DEF Good
  <2> QED
    BY <1>9
<1> HIDE DEF s
<1>11. \A r \in pages : r < n
  OBVIOUS
<1>12. ToSet(s) = pages
  <2>1. DOMAIN s = 1 .. Len(s)
    BY <1>10
  <2>2. /\ \A x \in 1 .. Len(s) : s[x] \in pages
        /\ \A r \in pages : \E x \in 1 .. Len(s) : s[x] = r
    BY <1>10, <1>11
  <2>3. ToSet(s) = {s[x] : x \in 1 .. Len(s)}
    BY <2>1 DEF ToSet
  <2> QED
    BY <2>2, <2>3
<1> QED
  BY <1>5, <1>10, <1>12 DEF s

(* The filter of an index of the first k pages.                            *)
LEMMA FilterOfPrefix ==
    ASSUME Document, NEW k \in 0 .. Len(texts), docIndex = PrefixIndex(k), EqualWidths
    PROVE  FilterIsExact
<1> SUFFICES ASSUME NEW q \in Queries, NEW cs \in BOOLEAN
             PROVE  LET c == Candidates(docIndex, q, cs)
                    IN  /\ \A p \in Pages : HasMatch(p, q, cs) => p \in ToSet(c)
                        /\ \A i \in 1 .. Len(c) - 1 : c[i] < c[i + 1]
                        /\ IsComplete(docIndex) => \A p \in ToSet(c) : HasMatch(p, q, cs)
  BY DEF FilterIsExact
<1> DEFINE n == Len(texts)
           c == Candidates(docIndex, q, cs)
           hits == Hits(k, q, cs)
<1>0. n \in Nat /\ Pages = 0 .. n - 1 /\ k \in Nat /\ k <= n
  BY DEF Document, Pages
<1>1. /\ hits \in Seq(0 .. k - 1)
      /\ \A x, y \in 1 .. Len(hits) : x < y => hits[x] < hits[y]
      /\ \A r \in 0 .. k - 1 : HasMatch(r, q, cs) <=> \E x \in 1 .. Len(hits) : hits[x] = r
  BY HitsAreRight DEF HitsRight
<1>2. /\ DOMAIN docIndex.pageStarts = Pages
      /\ Indexed(docIndex) = 0 .. k - 1
      /\ IsComplete(docIndex) <=> k = n
  BY IndexedPrefix
<1> HIDE DEF hits
<1>3. /\ Len(hits) \in Nat /\ \A x \in 1 .. Len(hits) : hits[x] \in 0 .. k - 1
      /\ ToSet(hits) = {hits[x] : x \in 1 .. Len(hits)}
  <2>1. Len(hits) \in Nat /\ DOMAIN hits = 1 .. Len(hits)
        /\ \A x \in 1 .. Len(hits) : hits[x] \in 0 .. k - 1
    BY <1>1
  <2> QED
    BY <2>1 DEF ToSet
<1>4. \A r \in 0 .. k - 1 : HasMatch(r, q, cs) <=> r \in ToSet(hits)
  BY <1>1, <1>3
<1>5. CASE k = n
  <2>1. c = hits
    BY <1>2, <1>5 DEF Candidates, Hits, hits
  <2> HIDE DEF c
  <2>2. \A i \in 1 .. Len(c) - 1 : c[i] < c[i + 1]
    <3> TAKE i \in 1 .. Len(c) - 1
    <3>1. i \in 1 .. Len(hits) /\ i + 1 \in 1 .. Len(hits) /\ i < i + 1
      BY <1>3, <2>1
    <3> QED
      BY <1>1, <2>1, <3>1
  <2>3. \A p \in ToSet(c) : p \in 0 .. k - 1
    BY <1>3, <2>1
  <2>4. \A p \in Pages : HasMatch(p, q, cs) => p \in ToSet(c)
    BY <1>0, <1>4, <1>5, <2>1
  <2>5. \A p \in ToSet(c) : HasMatch(p, q, cs)
    BY <1>4, <2>1, <2>3
  <2> QED
    BY <2>2, <2>4, <2>5 DEF c
<1>6. CASE k # n
  <2> DEFINE pages == ToSet(hits) \cup (Pages \ (0 .. k - 1))
  <2>1. ~ IsComplete(docIndex) /\ c = Ascending(pages, n)
    BY <1>2, <1>6 DEF Candidates, Hits, hits
  <2>2. pages \subseteq 0 .. n - 1
    BY <1>0, <1>3
  <2> HIDE DEF pages, c
  <2>3. c \in Seq(Nat) /\ (\A x, y \in 1 .. Len(c) : x < y => c[x] < c[y]) /\ ToSet(c) = pages
    BY <1>0, <2>1, <2>2, AscendingRight
  <2>4. \A i \in 1 .. Len(c) - 1 : c[i] < c[i + 1]
    <3> TAKE i \in 1 .. Len(c) - 1
    <3>1. Len(c) \in Nat
      BY <2>3
    <3>2. i \in 1 .. Len(c) /\ i + 1 \in 1 .. Len(c) /\ i < i + 1
      BY <3>1
    <3> QED
      BY <2>3, <3>2
  <2>5. \A p \in Pages : HasMatch(p, q, cs) => p \in ToSet(c)
    BY <1>4, <2>3 DEF pages
  <2> QED
    BY <2>1, <2>4, <2>5 DEF c
<1> QED
  BY <1>5, <1>6

(* The index grows page by page and holds the first pages of the document; *)
(* what is on disk or about to be written holds all of them.               *)
IndexInv ==
    /\ texts \in Documents
    /\ \E k \in 0 .. Len(texts) : docIndex = PrefixIndex(k)
    /\ \A ix \in disk \cup writer : ix = PrefixIndex(Len(texts))

LEMMA DocumentTexts ==
    ASSUME texts \in Documents
    PROVE  Document /\ Len(texts) \in Nat
BY SearchIndexAssumption DEF Document

LEMMA EmptyIsPrefix ==
    ASSUME Document
    PROVE  EmptyIndex(Len(texts)) = PrefixIndex(0)
<1>0. Len(texts) \in Nat
  BY DEF Document
<1>1. Joined(0) = <<>>
  BY JoinedNone
<1>2. [p \in 0 .. Len(texts) - 1 |-> NotIndexed]
        = [p \in Pages |-> IF p < 0 THEN ByteLen(Joined(p)) ELSE NotIndexed]
  <2>1. \A p \in Pages : ~ (p < 0)
    BY <1>0 DEF Pages
  <2> QED
    BY <2>1 DEF Pages
<1> QED
  BY <1>1, <1>2 DEF EmptyIndex, PrefixIndex

(* A tick appends the next page.                                           *)
LEMMA AddsPage ==
    ASSUME Document, NEW k \in 0 .. Len(texts), ~ IsComplete(PrefixIndex(k))
    PROVE  /\ k + 1 \in 0 .. Len(texts)
           /\ NextPageToIndex(PrefixIndex(k)) = k
           /\ AddPage(PrefixIndex(k), k, texts[k + 1]) = PrefixIndex(k + 1)
<1> DEFINE ix == PrefixIndex(k)
           s == ix.pageStarts
<1>0. Len(texts) \in Nat /\ k \in Nat /\ Pages = 0 .. Len(texts) - 1
  BY DEF Document, Pages
<1>1. /\ DOMAIN s = Pages /\ Indexed(ix) = 0 .. k - 1 /\ k # Len(texts)
  BY IndexedPrefix
<1>2. k \in Pages /\ k + 1 \in 0 .. Len(texts) /\ k + 1 \in 1 .. Len(texts) /\ (k + 1) - 1 = k
  BY <1>0, <1>1
<1>3. NextPageToIndex(ix) = k
  <2> DEFINE todo == DOMAIN s \ Indexed(ix)
  <2>1. k \in todo /\ \A o \in todo : k <= o
    BY <1>0, <1>1, <1>2
  <2>2. \A p \in todo : p \in Int
    BY <1>0, <1>1
  <2>3. NextPageToIndex(ix) = CHOOSE p \in todo : \A o \in todo : p <= o
    BY DEF NextPageToIndex
  <2> HIDE DEF todo
  <2>4. \A p \in todo : (\A o \in todo : p <= o) <=> p = k
    BY <1>0, <2>1, <2>2
  <2> QED
    BY <2>1, <2>3, <2>4
<1>4. Joined(k + 1) = Joined(k) \o texts[k + 1] \o <<Newline>>
  <2> DEFINE e == k + 1
  <2>1. e \in 1 .. Len(texts) /\ e - 1 = k
    BY <1>2
  <2> HIDE DEF e
  <2>2. Joined(e) = Joined(e - 1) \o texts[e] \o <<Newline>>
    BY <2>1, JoinedMore
  <2> QED
    BY <2>1, <2>2 DEF e
<1>5. [s EXCEPT ![k] = ByteLen(Joined(k))]
        = [p \in Pages |-> IF p < k + 1 THEN ByteLen(Joined(p)) ELSE NotIndexed]
  <2>1. s = [p \in Pages |-> IF p < k THEN ByteLen(Joined(p)) ELSE NotIndexed]
    BY DEF PrefixIndex
  <2>2. \A p \in Pages : p # k => (p < k + 1 <=> p < k)
    BY <1>0
  <2>3. k < k + 1
    BY <1>0
  <2> HIDE DEF s
  <2> QED
    BY <1>2, <2>1, <2>2, <2>3
<1>6. k \notin Indexed(ix) /\ ix.text = Joined(k)
  BY <1>0, <1>1 DEF PrefixIndex
<1>7. AddPage(ix, k, texts[k + 1]) =
        [text |-> ix.text \o texts[k + 1] \o <<Newline>>,
         pageStarts |-> [s EXCEPT ![k] = ByteLen(ix.text)]]
  BY <1>6 DEF AddPage
<1> QED
  BY <1>2, <1>3, <1>4, <1>5, <1>6, <1>7 DEF PrefixIndex

LEMMA PrefixKept ==
    ASSUME texts' = texts
    PROVE  \A k : PrefixIndex(k)' = PrefixIndex(k)
BY DEF PrefixIndex, Joined, Pages, ByteLen, NotIndexed

LEMMA IndexStep ==
    ASSUME IndexInv, [IndexNext]_indexVars
    PROVE  IndexInv'
<1>0. texts \in Documents /\ Document /\ Len(texts) \in Nat
  BY DocumentTexts DEF IndexInv
<1>1. texts' = texts
  BY DEF IndexNext, IndexOnePageText, WriteSerialized, WriteFails, Restart, Recover, indexVars
<1> DEFINE n == Len(texts)
<1>2. PICK k \in 0 .. n : docIndex = PrefixIndex(k)
  BY DEF IndexInv
<1>3. \A ix \in disk \cup writer : ix = PrefixIndex(n)
  BY DEF IndexInv
<1>4. /\ \E j \in 0 .. n : docIndex' = PrefixIndex(j)
      /\ \A ix \in disk' \cup writer' : ix = PrefixIndex(n)
  <2>1. CASE IndexOnePageText
    <3> DEFINE ix == AddPage(docIndex, NextPageToIndex(docIndex),
                             texts[NextPageToIndex(docIndex) + 1])
    <3>1. /\ ~ IsComplete(docIndex) /\ docIndex' = ix /\ disk' = disk
          /\ writer' = writer \/ (IsComplete(ix) /\ writer' = writer \cup {ix})
      BY <2>1 DEF IndexOnePageText
    <3>2. k + 1 \in 0 .. n /\ ix = PrefixIndex(k + 1)
      BY <1>0, <1>2, <3>1, AddsPage
    <3> HIDE DEF ix
    <3>3. IsComplete(ix) => ix = PrefixIndex(n)
      BY <1>0, <3>2, IndexedPrefix
    <3> QED
      BY <1>3, <3>1, <3>2, <3>3
  <2>2. CASE WriteSerialized
    BY <1>2, <1>3, <2>2 DEF WriteSerialized
  <2>3. CASE WriteFails
    BY <1>2, <1>3, <2>3 DEF WriteFails
  <2>4. CASE Restart
    <3>1. StartWith(disk, n) /\ writer' = {} /\ disk' = disk
      BY <2>4 DEF Restart
    <3>2. docIndex' = EmptyIndex(n) \/ docIndex' \in disk
      <4> DEFINE loaded == LoadIndex(disk, n)
      <4>1. docIndex' = IF loaded = {} THEN EmptyIndex(n) ELSE CHOOSE i \in loaded : TRUE
        BY <3>1 DEF StartWith
      <4>2. loaded \subseteq disk
        BY DEF LoadIndex
      <4> HIDE DEF loaded
      <4> QED
        BY <4>1, <4>2
    <3>3. 0 \in 0 .. n /\ n \in 0 .. n
      BY <1>0
    <3> QED
      BY <1>0, <1>3, <3>1, <3>2, <3>3, EmptyIsPrefix
  <2>5. CASE Recover
    BY <1>2, <1>3, <2>5 DEF Recover
  <2>6. CASE UNCHANGED indexVars
    BY <1>2, <1>3, <2>6 DEF indexVars
  <2> QED
    BY <2>1, <2>2, <2>3, <2>4, <2>5, <2>6 DEF IndexNext
<1>5. \A j : PrefixIndex(j)' = PrefixIndex(j)
  BY <1>1, PrefixKept
<1> QED
  BY <1>0, <1>1, <1>4, <1>5 DEF IndexInv

(* The index holds the first pages, the file the whole document: for any   *)
(* documents, sessions, failed and lost writes.                            *)
THEOREM IndexInvariant == IndexSpec => []IndexInv
<1>1. ASSUME IndexInit PROVE IndexInv
  <2>1. texts \in Documents /\ docIndex = EmptyIndex(Len(texts)) /\ writer = {} /\ disk = {}
    BY <1>1 DEF IndexInit
  <2>2. Document /\ 0 \in 0 .. Len(texts)
    BY <2>1, DocumentTexts
  <2> QED
    BY <2>1, <2>2, EmptyIsPrefix DEF IndexInv
<1>2. IndexInv /\ [IndexNext]_indexVars => IndexInv'
  BY IndexStep
<1> QED
  BY <1>1, <1>2, PTL DEF IndexSpec

(* What is on disk, and what a thread is about to put there, is the        *)
(* complete text of the document.                                          *)
THEOREM FileAlwaysWholeDocument == IndexSpec => []FileIsWholeDocument
<1>1. ASSUME IndexInv PROVE FileIsWholeDocument
  <2>0. Document /\ Len(texts) \in 0 .. Len(texts)
    BY <1>1, DocumentTexts DEF IndexInv
  <2>1. IsComplete(PrefixIndex(Len(texts)))
    BY <2>0, IndexedPrefix
  <2> QED
    BY <1>1, <2>1 DEF IndexInv, FileIsWholeDocument, PrefixIndex
<1> QED
  BY <1>1, IndexInvariant, PTL

(* As long as lower case letters are encoded in as many bytes as the       *)
(* letters themselves, the filter withholds no page with a match, is in    *)
(* page order and, once the index is complete, names no page in vain.      *)
THEOREM FilterAlwaysExact == EqualWidths => (IndexSpec => []FilterIsExact)
<1>1. ASSUME EqualWidths, IndexInv PROVE FilterIsExact
  <2>1. PICK k \in 0 .. Len(texts) : docIndex = PrefixIndex(k)
    BY <1>1 DEF IndexInv
  <2>2. Document
    BY <1>1, DocumentTexts DEF IndexInv
  <2> QED
    BY <1>1, <2>1, <2>2, FilterOfPrefix
<1>2. CASE EqualWidths
  <2>1. IndexInv => FilterIsExact
    BY <1>1, <1>2
  <2> QED
    BY <2>1, IndexInvariant, PTL
<1> QED
  BY <1>2

=============================================================================
