-------------------------- MODULE HighlightsProofs --------------------------
(***************************************************************************)
(* Theorems about Highlights, for every document, every PDF to start with, *)
(* and any number of yanks, deletes, failures, crashes and restarts.       *)
(*                                                                         *)
(* The inductive invariant is HlInv: types (HlTypes); what other tools     *)
(* wrote (ForeignInv); how far file, document and store agree, between     *)
(* actions and in the middle of a save (SavedInv); and that a group stands *)
(* for one yank in all three of them (GroupInv).  Before that come lemmas  *)
(* about Picked, by which pages, kinds and what is left are taken out of   *)
(* sequences, and about what is loaded from a file.                        *)
(***************************************************************************)
EXTENDS Highlights, FiniteSetTheorems, TLAPS

Orders == INSTANCE LayoutProofs

-----------------------------------------------------------------------------
(* Picked: some elements of a sequence, in order.                          *)

(* The recursion of Picked, ...                                            *)
IsUpTo(f, s, at) ==
    f = [i \in 0 .. Len(s) |->
           IF i = 0 THEN <<>> ELSE IF i \in at THEN Append(f[i - 1], s[i]) ELSE f[i - 1]]

(* ... which is well founded: a function for the first k elements extends  *)
(* to one more.                                                            *)
LEMMA UpToExists ==
    ASSUME NEW S, NEW s \in Seq(S), NEW at
    PROVE  \E f : IsUpTo(f, s, at)
<1> DEFINE Rec(f, k) ==
             f = [i \in 0 .. k |->
                    IF i = 0 THEN <<>> ELSE IF i \in at THEN Append(f[i - 1], s[i]) ELSE f[i - 1]]
           Has(k) == \E f : Rec(f, k)
           T == {k \in 0 .. Len(s) : Has(k)}
<1>0. Len(s) \in Nat
  OBVIOUS
<1>1. Has(0)
  <2> DEFINE f == [i \in 0 .. 0 |-> <<>>]
  <2>1. Rec(f, 0)
    OBVIOUS
  <2> QED
    BY <2>1
<1>2. ASSUME NEW k \in 1 .. Len(s), Has(k - 1) PROVE Has(k)
  <2>1. PICK f : Rec(f, k - 1)
    BY <1>2
  <2> DEFINE last == IF k \in at THEN Append(f[k - 1], s[k]) ELSE f[k - 1]
             g == [i \in 0 .. k |-> IF i = k THEN last ELSE f[i]]
  <2>2. \A i \in 0 .. k - 1 :
          f[i] = IF i = 0 THEN <<>> ELSE IF i \in at THEN Append(f[i - 1], s[i]) ELSE f[i - 1]
    BY <2>1
  <2>3. \A i \in 0 .. k :
          g[i] = IF i = 0 THEN <<>> ELSE IF i \in at THEN Append(g[i - 1], s[i]) ELSE g[i - 1]
    BY <1>0, <2>2
  <2>4. g = [i \in 0 .. k |->
               IF i = 0 THEN <<>> ELSE IF i \in at THEN Append(g[i - 1], s[i]) ELSE g[i - 1]]
    BY <2>3
  <2> HIDE DEF g
  <2> QED
    BY <2>4
<1> HIDE DEF Has
<1>3. \A k \in 0 .. Len(s) : k \in T
  <2>1. 0 \in T /\ \A k \in 1 .. Len(s) : k - 1 \in T => k \in T
    BY <1>0, <1>1, <1>2
  <2> HIDE DEF T
  <2> QED
    BY <1>0, <2>1, Orders!Climb
<1>4. Has(Len(s))
  BY <1>0, <1>3
<1> QED
  BY <1>4 DEF Has, IsUpTo

(* What the proofs below know of Picked.                                   *)
Grows(f, S, s, at) ==
    /\ f[0] = <<>>
    /\ \A i \in 1 .. Len(s) : f[i] = IF i \in at THEN Append(f[i - 1], s[i]) ELSE f[i - 1]
    /\ \A i \in 0 .. Len(s) : f[i] \in Seq(S)

(* There is such a function, and Picked is its last value.                 *)
LEMMA PickedUpTo ==
    ASSUME NEW S, NEW s \in Seq(S), NEW at
    PROVE  \E f : Grows(f, S, s, at) /\ Picked(s, at) = f[Len(s)]
<1> DEFINE upTo[i \in 0 .. Len(s)] ==
             IF i = 0 THEN <<>> ELSE IF i \in at THEN Append(upTo[i - 1], s[i]) ELSE upTo[i - 1]
<1>0. Len(s) \in Nat /\ \A i \in 1 .. Len(s) : s[i] \in S
  OBVIOUS
<1>1. IsUpTo(upTo, s, at)
  <2>1. \E f : IsUpTo(f, s, at)
    BY UpToExists
  <2> QED
    BY <2>1 DEF IsUpTo
<1>2. Picked(s, at) = upTo[Len(s)]
  BY DEF Picked
<1> HIDE DEF upTo
<1>3. \A i \in 0 .. Len(s) :
        upTo[i] = IF i = 0 THEN <<>>
                  ELSE IF i \in at THEN Append(upTo[i - 1], s[i]) ELSE upTo[i - 1]
  BY <1>1 DEF IsUpTo
<1>4. /\ upTo[0] = <<>>
      /\ \A i \in 1 .. Len(s) :
           upTo[i] = IF i \in at THEN Append(upTo[i - 1], s[i]) ELSE upTo[i - 1]
  BY <1>0, <1>3
<1>5. \A i \in 0 .. Len(s) : upTo[i] \in Seq(S)
  <2> DEFINE T == {i \in 0 .. Len(s) : upTo[i] \in Seq(S)}
  <2>1. 0 \in T /\ \A i \in 1 .. Len(s) : i - 1 \in T => i \in T
    <3>1. 0 \in T
      <4>1. <<>> \in Seq(S)
        OBVIOUS
      <4>2. upTo[0] \in Seq(S)
        BY <1>4, <4>1
      <4> QED
        BY <1>0, <4>2
    <3>2. ASSUME NEW i \in 1 .. Len(s), upTo[i - 1] \in Seq(S) PROVE i \in T
      <4>1. upTo[i] = IF i \in at THEN Append(upTo[i - 1], s[i]) ELSE upTo[i - 1]
        BY <1>4
      <4>2. s[i] \in S /\ i \in 0 .. Len(s)
        BY <1>0
      <4>3. \A b \in Seq(S), x \in S : Append(b, x) \in Seq(S)
        OBVIOUS
      <4>4. upTo[i] \in Seq(S)
        BY <3>2, <4>1, <4>2, <4>3
      <4> QED
        BY <4>2, <4>4
    <3> QED
      BY <3>1, <3>2
  <2>2. \A i \in 0 .. Len(s) : i \in T
    <3> HIDE DEF T
    <3> QED
      BY <1>0, <2>1, Orders!Climb
  <2> QED
    BY <2>2
<1>6. Grows(upTo, S, s, at)
  BY <1>4, <1>5 DEF Grows
<1> QED
  BY <1>2, <1>6

(* It is a sequence of the same things, ...                                *)
LEMMA PickedType ==
    ASSUME NEW S, NEW s \in Seq(S), NEW at
    PROVE  Picked(s, at) \in Seq(S)
<1>1. PICK f : Grows(f, S, s, at) /\ Picked(s, at) = f[Len(s)]
  BY PickedUpTo
<1> QED
  BY <1>1 DEF Grows

(* Sequences that agree on their first n elements and on the indices of    *)
(* what is picked of them.                                                 *)
LEMMA PickedPrefix ==
    ASSUME NEW S, NEW s, NEW I, NEW f, Grows(f, S, s, I),
           NEW t, NEW J, NEW g, Grows(g, S, t, J),
           NEW n \in Nat, Len(s) \in Nat, Len(t) \in Nat, n <= Len(s), n <= Len(t),
           \A i \in 1 .. n : s[i] = t[i] /\ (i \in I <=> i \in J)
    PROVE  f[n] = g[n]
<1> DEFINE T == {i \in 0 .. n : f[i] = g[i]}
<1>1. 0 \in T
  BY DEF Grows
<1>2. ASSUME NEW i \in 1 .. n, f[i - 1] = g[i - 1] PROVE i \in T
  <2>1. i \in 1 .. Len(s) /\ i \in 1 .. Len(t) /\ i \in 0 .. n
    OBVIOUS
  <2>2. /\ f[i] = IF i \in I THEN Append(f[i - 1], s[i]) ELSE f[i - 1]
        /\ g[i] = IF i \in J THEN Append(g[i - 1], t[i]) ELSE g[i - 1]
    BY <2>1 DEF Grows
  <2> QED
    BY <1>2, <2>1, <2>2
<1>3. \A i \in 1 .. n : i - 1 \in T => i \in T
  BY <1>2
<1>4. \A i \in 0 .. n : i \in T
  <2> HIDE DEF T
  <2> QED
    BY <1>1, <1>3, Orders!Climb
<1> QED
  BY <1>4

(* ... depends on no index outside of the sequence, ...                    *)
LEMMA PickedSame ==
    ASSUME NEW S, NEW s \in Seq(S), NEW I, NEW J, \A i \in DOMAIN s : i \in I <=> i \in J
    PROVE  Picked(s, I) = Picked(s, J)
<1>1. PICK f : Grows(f, S, s, I) /\ Picked(s, I) = f[Len(s)]
  BY PickedUpTo
<1>2. PICK g : Grows(g, S, s, J) /\ Picked(s, J) = g[Len(s)]
  BY PickedUpTo
<1>3. Len(s) \in Nat /\ DOMAIN s = 1 .. Len(s) /\ Len(s) <= Len(s)
  OBVIOUS
<1>4. f[Len(s)] = g[Len(s)]
  BY <1>1, <1>2, <1>3, PickedPrefix
<1> QED
  BY <1>1, <1>2, <1>4

(* ... and has just the elements at the indices.                           *)
LEMMA PickedRange ==
    ASSUME NEW S, NEW s \in Seq(S), NEW at
    PROVE  /\ \A j \in DOMAIN Picked(s, at) :
                \E i \in DOMAIN s : i \in at /\ Picked(s, at)[j] = s[i]
           /\ \A i \in DOMAIN s : i \in at =>
                \E j \in DOMAIN Picked(s, at) : Picked(s, at)[j] = s[i]
<1>1. PICK f : Grows(f, S, s, at) /\ Picked(s, at) = f[Len(s)]
  BY PickedUpTo
<1> DEFINE From(k) == \A j \in DOMAIN f[k] : \E i \in 1 .. k : i \in at /\ f[k][j] = s[i]
           Has(k) == \A i \in 1 .. k : i \in at => \E j \in DOMAIN f[k] : f[k][j] = s[i]
           T == {k \in 0 .. Len(s) : From(k) /\ Has(k)}
<1>2. Len(s) \in Nat /\ DOMAIN s = 1 .. Len(s)
  OBVIOUS
<1>3. From(0) /\ Has(0)
  BY <1>1 DEF Grows
<1>4. ASSUME NEW k \in 1 .. Len(s), From(k - 1), Has(k - 1) PROVE From(k) /\ Has(k)
  <2> DEFINE b == f[k - 1]
  <2>0. b \in Seq(S) /\ Len(b) \in Nat /\ k - 1 \in Nat /\ DOMAIN b = 1 .. Len(b)
    BY <1>1, <1>2 DEF Grows
  <2>1. CASE k \notin at
    <3>1. f[k] = b
      BY <1>1, <2>1 DEF Grows
    <3>2. From(k)
      <4> SUFFICES ASSUME NEW j \in DOMAIN f[k]
                   PROVE  \E i \in 1 .. k : i \in at /\ f[k][j] = s[i]
        OBVIOUS
      <4>1. PICK i \in 1 .. k - 1 : i \in at /\ b[j] = s[i]
        BY <1>4, <3>1
      <4> QED
        BY <1>2, <3>1, <4>1
    <3>3. Has(k)
      <4> SUFFICES ASSUME NEW i \in 1 .. k, i \in at PROVE \E j \in DOMAIN f[k] : f[k][j] = s[i]
        OBVIOUS
      <4>1. i \in 1 .. k - 1
        BY <1>2, <2>1
      <4> QED
        BY <1>4, <3>1, <4>1
    <3> QED
      BY <3>2, <3>3
  <2>2. CASE k \in at
    <3>1. f[k] = Append(b, s[k])
      BY <1>1, <2>2 DEF Grows
    <3>2. /\ DOMAIN f[k] = 1 .. Len(b) + 1 /\ f[k][Len(b) + 1] = s[k]
          /\ \A j \in 1 .. Len(b) : f[k][j] = b[j]
      <4> HIDE DEF b
      <4> QED
        BY <2>0, <3>1
    <3>3. From(k)
      <4> SUFFICES ASSUME NEW j \in DOMAIN f[k]
                   PROVE  \E i \in 1 .. k : i \in at /\ f[k][j] = s[i]
        OBVIOUS
      <4>1. CASE j = Len(b) + 1
        BY <1>2, <2>0, <2>2, <3>2, <4>1
      <4>2. CASE j # Len(b) + 1
        <5>1. j \in DOMAIN b /\ f[k][j] = b[j]
          BY <2>0, <3>2, <4>2, SMTT(30)
        <5>2. PICK i \in 1 .. k - 1 : i \in at /\ b[j] = s[i]
          BY <1>4, <5>1
        <5> QED
          BY <1>2, <5>1, <5>2
      <4> QED
        BY <4>1, <4>2
    <3>4. Has(k)
      <4> SUFFICES ASSUME NEW i \in 1 .. k, i \in at PROVE \E j \in DOMAIN f[k] : f[k][j] = s[i]
        OBVIOUS
      <4>1. CASE i = k
        BY <2>0, <3>2, <4>1, SMTT(30)
      <4>2. CASE i # k
        <5>1. i \in 1 .. k - 1
          BY <2>0, <4>2
        <5>2. PICK j \in DOMAIN b : b[j] = s[i]
          BY <1>4, <5>1
        <5> QED
          BY <2>0, <3>2, <5>2, SMTT(30)
      <4> QED
        BY <4>1, <4>2
    <3> QED
      BY <3>3, <3>4
  <2> QED
    BY <2>1, <2>2
<1> HIDE DEF From, Has
<1>5. 0 \in T /\ \A k \in 1 .. Len(s) : k - 1 \in T => k \in T
  BY <1>2, <1>3, <1>4
<1>6. \A k \in 0 .. Len(s) : k \in T
  <2> HIDE DEF T
  <2> QED
    BY <1>2, <1>5, Orders!Climb
<1>7. From(Len(s)) /\ Has(Len(s))
  BY <1>2, <1>6
<1> QED
  BY <1>1, <1>2, <1>7 DEF From, Has

(* Of a concatenation whose second part is not picked from, ...            *)
LEMMA PickedTailOut ==
    ASSUME NEW S, NEW a \in Seq(S), NEW b \in Seq(S), NEW at,
           \A i \in DOMAIN b : Len(a) + i \notin at
    PROVE  Picked(a \o b, at) = Picked(a, at)
<1> DEFINE s == a \o b
<1>1. /\ s \in Seq(S) /\ Len(a) \in Nat /\ Len(b) \in Nat /\ Len(s) = Len(a) + Len(b)
      /\ \A i \in 1 .. Len(a) : s[i] = a[i]
      /\ DOMAIN b = 1 .. Len(b)
  OBVIOUS
<1> HIDE DEF s
<1>2. PICK f : Grows(f, S, s, at) /\ Picked(s, at) = f[Len(s)]
  BY <1>1, PickedUpTo
<1>3. PICK g : Grows(g, S, a, at) /\ Picked(a, at) = g[Len(a)]
  BY PickedUpTo
<1>4. f[Len(a)] = g[Len(a)]
  <2>1. /\ Len(a) \in Nat /\ Len(s) \in Nat /\ Len(a) <= Len(s) /\ Len(a) <= Len(a)
        /\ \A i \in 1 .. Len(a) : s[i] = a[i] /\ (i \in at <=> i \in at)
    BY <1>1
  <2> QED
    BY <1>2, <1>3, <2>1, PickedPrefix
<1> DEFINE T == {j \in 0 .. Len(b) : f[Len(a) + j] = f[Len(a)]}
<1>5. 0 \in T
  BY <1>1
<1>6. ASSUME NEW j \in 1 .. Len(b), j - 1 \in T PROVE j \in T
  <2>1. /\ Len(a) + j \in 1 .. Len(s) /\ Len(a) + j - 1 = Len(a) + (j - 1)
        /\ j \in DOMAIN b
    <3> HIDE DEF T
    <3> QED
      BY <1>1
  <2>2. f[Len(a) + j] = f[Len(a) + j - 1]
    BY <1>2, <2>1 DEF Grows
  <2> QED
    BY <1>1, <1>6, <2>1, <2>2
<1>7. \A j \in 0 .. Len(b) : j \in T
  <2> HIDE DEF T
  <2> QED
    BY <1>1, <1>5, <1>6, Orders!Climb
<1>8. f[Len(a) + Len(b)] = f[Len(a)]
  BY <1>1, <1>7
<1> QED
  BY <1>1, <1>2, <1>3, <1>4, <1>8 DEF s

(* Of two concatenated, one is built up element by element.                *)
LEMMA ConcatGrows ==
    ASSUME NEW S, NEW c \in Seq(S), NEW b \in Seq(S), NEW j \in 1 .. Len(b)
    PROVE  Append(c \o SubSeq(b, 1, j - 1), b[j]) = c \o SubSeq(b, 1, j)
<1> DEFINE d == SubSeq(b, 1, j - 1)
<1>1. d \in Seq(S) /\ b[j] \in S /\ Append(d, b[j]) = SubSeq(b, 1, j)
  OBVIOUS
<1>2. ASSUME NEW v \in Seq(S), NEW y \in S PROVE Append(c \o v, y) = c \o Append(v, y)
  BY SMTT(30)
<1> HIDE DEF d
<1>3. Append(c \o d, b[j]) = c \o Append(d, b[j])
  BY <1>1, <1>2
<1> QED
  BY <1>1, <1>3 DEF d

(* ... and of one whose second part is picked as a whole.                  *)
LEMMA PickedTailIn ==
    ASSUME NEW S, NEW a \in Seq(S), NEW b \in Seq(S), NEW at,
           \A i \in DOMAIN b : Len(a) + i \in at
    PROVE  Picked(a \o b, at) = Picked(a, at) \o b
<1> DEFINE s == a \o b
<1>1. /\ s \in Seq(S) /\ Len(a) \in Nat /\ Len(b) \in Nat /\ Len(s) = Len(a) + Len(b)
      /\ \A i \in 1 .. Len(a) : s[i] = a[i]
      /\ \A i \in 1 .. Len(b) : s[Len(a) + i] = b[i]
      /\ DOMAIN b = 1 .. Len(b)
  OBVIOUS
<1> HIDE DEF s
<1>2. PICK f : Grows(f, S, s, at) /\ Picked(s, at) = f[Len(s)]
  BY <1>1, PickedUpTo
<1>3. PICK g : Grows(g, S, a, at) /\ Picked(a, at) = g[Len(a)]
  BY PickedUpTo
<1>4. f[Len(a)] = g[Len(a)]
  <2>1. /\ Len(a) \in Nat /\ Len(s) \in Nat /\ Len(a) <= Len(s) /\ Len(a) <= Len(a)
        /\ \A i \in 1 .. Len(a) : s[i] = a[i] /\ (i \in at <=> i \in at)
    BY <1>1
  <2> QED
    BY <1>2, <1>3, <2>1, PickedPrefix
<1> DEFINE c == f[Len(a)]
<1>0. c \in Seq(S)
  BY <1>1, <1>2 DEF Grows
<1>5. \A j \in 1 .. Len(b) : f[Len(a) + j] = Append(f[Len(a) + (j - 1)], b[j])
  <2> SUFFICES ASSUME NEW j \in 1 .. Len(b)
               PROVE  f[Len(a) + j] = Append(f[Len(a) + (j - 1)], b[j])
    OBVIOUS
  <2> DEFINE k == Len(a) + j
  <2>1. k \in 1 .. Len(s) /\ k - 1 = Len(a) + (j - 1) /\ s[k] = b[j]
    BY <1>1
  <2>2. k \in at
    BY <1>1
  <2> HIDE DEF k
  <2>3. f[k] = Append(f[k - 1], s[k])
    BY <1>2, <2>1, <2>2 DEF Grows
  <2> QED
    BY <2>1, <2>3 DEF k
<1>6. f[Len(a) + 0] = c
  BY <1>1
<1> HIDE DEF c
<1> DEFINE T == {j \in 0 .. Len(b) : f[Len(a) + j] = c \o SubSeq(b, 1, j)}
<1>7. 0 \in T
  <2>1. SubSeq(b, 1, 0) = <<>> /\ c \o <<>> = c
    BY <1>0
  <2>2. f[Len(a) + 0] = c \o SubSeq(b, 1, 0)
    BY <1>6, <2>1
  <2>3. 0 \in 0 .. Len(b)
    BY <1>1
  <2> QED
    BY <2>2, <2>3
<1>8. ASSUME NEW j \in 1 .. Len(b), f[Len(a) + (j - 1)] = c \o SubSeq(b, 1, j - 1)
      PROVE  f[Len(a) + j] = c \o SubSeq(b, 1, j)
  <2>1. f[Len(a) + j] = Append(c \o SubSeq(b, 1, j - 1), b[j])
    BY <1>5, <1>8
  <2>2. Append(c \o SubSeq(b, 1, j - 1), b[j]) = c \o SubSeq(b, 1, j)
    BY <1>0, ConcatGrows
  <2> QED
    BY <2>1, <2>2
<1>9. \A j \in 0 .. Len(b) : j \in T
  <2>1. ASSUME NEW j \in 1 .. Len(b), j - 1 \in T PROVE j \in T
    <3>1. f[Len(a) + (j - 1)] = c \o SubSeq(b, 1, j - 1)
      BY <2>1
    <3>2. f[Len(a) + j] = c \o SubSeq(b, 1, j)
      BY <1>8, <3>1, Zenon
    <3>3. j \in 0 .. Len(b)
      BY <1>1
    <3> QED
      BY <3>2, <3>3
  <2> HIDE DEF T
  <2> QED
    BY <1>1, <1>7, <2>1, Orders!Climb
<1>10. Len(b) \in T
  <2> HIDE DEF T
  <2> QED
    BY <1>1, <1>9
<1>11. f[Len(s)] = c \o SubSeq(b, 1, Len(b)) /\ SubSeq(b, 1, Len(b)) = b
  BY <1>1, <1>10
<1> QED
  BY <1>2, <1>3, <1>4, <1>11 DEF s, c

(* Nothing is picked at no index, ...                                      *)
LEMMA PickedNone ==
    ASSUME NEW S, NEW s \in Seq(S), NEW at, \A i \in DOMAIN s : i \notin at
    PROVE  Picked(s, at) = <<>>
<1>1. \A j \in DOMAIN Picked(s, at) : FALSE
  BY PickedRange
<1>2. Picked(s, at) \in Seq(S)
  BY PickedType
<1> HIDE DEF Picked
<1> DEFINE q == Picked(s, at)
<1>3. q \in Seq(S) /\ DOMAIN q = {}
  BY <1>1, <1>2
<1> HIDE DEF q
<1>4. q = <<>>
  BY <1>3
<1> QED
  BY <1>4 DEF q

(* ... and everything at all of them.                                      *)
LEMMA PickedAll ==
    ASSUME NEW S, NEW s \in Seq(S), NEW at, \A i \in DOMAIN s : i \in at
    PROVE  Picked(s, at) = s
<1> DEFINE e == SubSeq(s, 1, 0)
<1>1. e = <<>> /\ e \in Seq(S) /\ Len(e) = 0 /\ e \o s = s /\ DOMAIN e = {}
  OBVIOUS
<1> HIDE DEF e
<1>2. \A i \in DOMAIN s : Len(e) + i \in at
  BY <1>1
<1>3. Picked(e \o s, at) = Picked(e, at) \o s
  BY <1>1, <1>2, PickedTailIn
<1>4. Picked(e, at) = <<>>
  BY <1>1, PickedNone
<1> QED
  BY <1>1, <1>3, <1>4

-----------------------------------------------------------------------------
(* Types.                                                                  *)

Group == Nat \cup {NoGroup}
Item == [page : HlPages, group : Group, id : Nat]
Pages == [HlPages -> Seq(Annotation)]

HlTypes ==
    /\ pdf \in Pages /\ original \in Pages /\ docAnnots \in Pages
    /\ store \in Seq(Item) /\ before \in Seq(Item)
    /\ prevPages \subseteq HlPages
    /\ nextGroup \in Nat /\ revision \in Nat /\ yanks \in Nat /\ failures \in Nat
    /\ saving \in [pc : {"down", "idle", "apply", "quit"}, left : SUBSET HlPages,
                   quitting : BOOLEAN]

(* Pages are numbered from 0.                                              *)
LEMMA PagesAreNat ==
    /\ Cardinality(HlPages) \in Nat
    /\ HlPages = 0 .. Cardinality(HlPages) - 1
    /\ HlPages \subseteq Nat
BY HighlightsAssumption, FS_CardinalityType

(* The annotations of one kind.                                            *)
LEMMA OfKindType ==
    ASSUME NEW s \in Seq(Annotation), NEW kind
    PROVE  /\ OfKind(s, kind) \in Seq(Annotation)
           /\ \A j \in DOMAIN OfKind(s, kind) : OfKind(s, kind)[j].kind = kind
           /\ \A j \in DOMAIN OfKind(s, kind) : \E i \in DOMAIN s : OfKind(s, kind)[j] = s[i]
           /\ \A i \in DOMAIN s : s[i].kind = kind =>
                \E j \in DOMAIN OfKind(s, kind) : OfKind(s, kind)[j] = s[i]
<1> DEFINE at == {i \in DOMAIN s : s[i].kind = kind}
           q == Picked(s, at)
<1>1. /\ q \in Seq(Annotation)
      /\ \A j \in DOMAIN q : \E i \in DOMAIN s : i \in at /\ q[j] = s[i]
      /\ \A i \in DOMAIN s : i \in at => \E j \in DOMAIN q : q[j] = s[i]
  <2> HIDE DEF at
  <2> QED
    BY PickedType, PickedRange
<1>2. OfKind(s, kind) = q
  BY DEF OfKind
<1>3. \A i : i \in at <=> i \in DOMAIN s /\ s[i].kind = kind
  OBVIOUS
<1> HIDE DEF q, at
<1> QED
  BY <1>1, <1>2, <1>3

(* The kind of what follows: all of it, ...                                *)
LEMMA OfKindMore ==
    ASSUME NEW a \in Seq(Annotation), NEW b \in Seq(Annotation), NEW kind,
           \A i \in DOMAIN b : b[i].kind = kind
    PROVE  OfKind(a \o b, kind) = OfKind(a, kind) \o b
<1> DEFINE c == a \o b
           C == {i \in DOMAIN c : c[i].kind = kind}
           A == {i \in DOMAIN a : a[i].kind = kind}
<1>1. /\ \A i \in DOMAIN a : i \in DOMAIN c /\ c[i] = a[i]
      /\ \A i \in DOMAIN b : Len(a) + i \in DOMAIN c /\ c[Len(a) + i] = b[i]
  OBVIOUS
<1>2. OfKind(a \o b, kind) = Picked(a \o b, C) /\ OfKind(a, kind) = Picked(a, A)
  BY DEF OfKind
<1>3. /\ \A i \in DOMAIN a : i \in A <=> i \in C
      /\ \A i \in DOMAIN b : Len(a) + i \in C
  BY <1>1
<1> HIDE DEF C, A
<1>4. Picked(a, A) = Picked(a, C)
  BY <1>3, PickedSame
<1>5. Picked(a \o b, C) = Picked(a, C) \o b
  BY <1>3, PickedTailIn
<1> QED
  BY <1>2, <1>4, <1>5

(* ... or none.                                                            *)
LEMMA OfKindOther ==
    ASSUME NEW a \in Seq(Annotation), NEW b \in Seq(Annotation), NEW kind,
           \A i \in DOMAIN b : b[i].kind # kind
    PROVE  OfKind(a \o b, kind) = OfKind(a, kind)
<1> DEFINE c == a \o b
           C == {i \in DOMAIN c : c[i].kind = kind}
           A == {i \in DOMAIN a : a[i].kind = kind}
<1>1. /\ \A i \in DOMAIN a : i \in DOMAIN c /\ c[i] = a[i]
      /\ \A i \in DOMAIN b : Len(a) + i \in DOMAIN c /\ c[Len(a) + i] = b[i]
  OBVIOUS
<1>2. OfKind(a \o b, kind) = Picked(a \o b, C) /\ OfKind(a, kind) = Picked(a, A)
  BY DEF OfKind
<1>3. /\ \A i \in DOMAIN a : i \in A <=> i \in C
      /\ \A i \in DOMAIN b : Len(a) + i \notin C
  BY <1>1
<1> HIDE DEF C, A
<1>4. Picked(a, A) = Picked(a, C)
  BY <1>3, PickedSame
<1>5. Picked(a \o b, C) = Picked(a, C)
  BY <1>3, PickedTailOut
<1> QED
  BY <1>2, <1>4, <1>5

(* Nothing of a kind where there is none.                                  *)
LEMMA OfKindNone ==
    ASSUME NEW a \in Seq(Annotation), NEW kind, \A i \in DOMAIN a : a[i].kind # kind
    PROVE  OfKind(a, kind) = <<>>
<1> DEFINE A == {i \in DOMAIN a : a[i].kind = kind}
<1>1. OfKind(a, kind) = Picked(a, A) /\ \A i \in DOMAIN a : i \notin A
  BY DEF OfKind
<1> HIDE DEF A
<1> QED
  BY <1>1, PickedNone

(* What is picked has of a kind what there was, if none of it is left out. *)
LEMMA KindOfPicked ==
    ASSUME NEW s \in Seq(Annotation), NEW at, NEW kind,
           \A i \in DOMAIN s : s[i].kind = kind => i \in at
    PROVE  OfKind(Picked(s, at), kind) = OfKind(s, kind)
<1> DEFINE K == {i \in DOMAIN s : s[i].kind = kind}
<1>1. /\ Len(s) \in Nat /\ DOMAIN s = 1 .. Len(s) /\ \A i \in 1 .. Len(s) : s[i] \in Annotation
      /\ OfKind(s, kind) = Picked(s, K)
      /\ \A i \in 1 .. Len(s) : i \in K <=> s[i].kind = kind
  BY DEF OfKind
<1> HIDE DEF K
<1>2. PICK f : Grows(f, Annotation, s, at) /\ Picked(s, at) = f[Len(s)]
  BY PickedUpTo
<1>3. PICK g : Grows(g, Annotation, s, K) /\ Picked(s, K) = g[Len(s)]
  BY PickedUpTo
<1> DEFINE T == {i \in 0 .. Len(s) : OfKind(f[i], kind) = g[i]}
<1>4. 0 \in T
  <2>1. <<>> \in Seq(Annotation) /\ DOMAIN <<>> = {}
    OBVIOUS
  <2>2. OfKind(<<>>, kind) = <<>>
    BY <2>1, OfKindNone
  <2> QED
    BY <1>1, <1>2, <1>3, <2>2 DEF Grows
<1>5. ASSUME NEW i \in 1 .. Len(s), OfKind(f[i - 1], kind) = g[i - 1]
      PROVE  OfKind(f[i], kind) = g[i]
  <2> DEFINE b == <<s[i]>>
  <2>1. /\ f[i - 1] \in Seq(Annotation) /\ g[i - 1] \in Seq(Annotation)
        /\ f[i] = IF i \in at THEN Append(f[i - 1], s[i]) ELSE f[i - 1]
        /\ g[i] = IF i \in K THEN Append(g[i - 1], s[i]) ELSE g[i - 1]
    <3>1. i - 1 \in 0 .. Len(s)
      BY <1>1
    <3> QED
      BY <1>2, <1>3, <3>1 DEF Grows
  <2>2. b \in Seq(Annotation) /\ DOMAIN b = {1} /\ b[1] = s[i]
    BY <1>1
  <2>3. /\ Append(f[i - 1], s[i]) = f[i - 1] \o b
        /\ Append(g[i - 1], s[i]) = g[i - 1] \o b
    <3>1. ASSUME NEW c \in Seq(Annotation), NEW x \in Annotation
          PROVE  Append(c, x) = c \o <<x>>
      BY SMTT(30)
    <3> QED
      BY <1>1, <2>1, <3>1
  <2> HIDE DEF b
  <2>4. CASE i \notin at
    <3>1. i \notin K
      BY <1>1, <2>4
    <3> QED
      BY <1>5, <2>1, <2>4, <3>1
  <2>5. CASE i \in at /\ i \in K
    <3>1. f[i] = f[i - 1] \o b /\ g[i] = g[i - 1] \o b
      BY <2>1, <2>3, <2>5
    <3>2. \A j \in DOMAIN b : b[j].kind = kind
      BY <1>1, <2>2, <2>5
    <3>3. OfKind(f[i - 1] \o b, kind) = OfKind(f[i - 1], kind) \o b
      BY <2>1, <2>2, <3>2, OfKindMore
    <3> QED
      BY <1>5, <3>1, <3>3
  <2>6. CASE i \in at /\ i \notin K
    <3>1. f[i] = f[i - 1] \o b /\ g[i] = g[i - 1]
      BY <2>1, <2>3, <2>6
    <3>2. OfKind(f[i - 1] \o b, kind) = OfKind(f[i - 1], kind)
      BY <1>1, <2>1, <2>2, <2>6, OfKindOther
    <3> QED
      BY <1>5, <3>1, <3>2
  <2> QED
    BY <2>4, <2>5, <2>6
<1>6. \A i \in 1 .. Len(s) : i - 1 \in T => i \in T
  BY <1>1, <1>5
<1>7. \A i \in 0 .. Len(s) : i \in T
  <2> HIDE DEF T
  <2> QED
    BY <1>1, <1>4, <1>6, Orders!Climb
<1>8. OfKind(f[Len(s)], kind) = g[Len(s)]
  BY <1>1, <1>7
<1> QED
  BY <1>1, <1>2, <1>3, <1>8

(* What a save keeps on a page: all that is foreign, and of ours what      *)
(* could not be deleted.                                                   *)
LEMMA KeptType ==
    ASSUME docAnnots \in Pages, NEW p \in HlPages, NEW stuck
    PROVE  /\ Kept(p, stuck) \in Seq(Annotation)
           /\ OfKind(Kept(p, stuck), "foreign") = OfKind(docAnnots[p], "foreign")
           /\ \A j \in DOMAIN Kept(p, stuck) :
                \E i \in DOMAIN docAnnots[p] : Kept(p, stuck)[j] = docAnnots[p][i]
           /\ stuck = {} => OfKind(Kept(p, stuck), "ours") = <<>>
<1> DEFINE s == docAnnots[p]
           at == (DOMAIN s \ Tagged(p)) \cup stuck
           k == Kept(p, stuck)
<1>1. s \in Seq(Annotation)
  BY DEF Pages
<1>2. /\ k = Picked(s, at)
      /\ \A i \in DOMAIN s : s[i].kind = "foreign" => i \in at
      /\ stuck = {} => \A i \in at : s[i].kind # "ours"
  BY DEF Kept, Tagged, IsOurs
<1> HIDE DEF s, at, k
<1>3. /\ k \in Seq(Annotation) /\ OfKind(k, "foreign") = OfKind(s, "foreign")
      /\ \A j \in DOMAIN k : \E i \in DOMAIN s : i \in at /\ k[j] = s[i]
  BY <1>1, <1>2, KindOfPicked, PickedType, PickedRange
<1>4. ASSUME stuck = {} PROVE OfKind(k, "ours") = <<>>
  BY <1>2, <1>3, <1>4, OfKindNone
<1> QED
  BY <1>3, <1>4 DEF s, k

(* The highlights of a page, and the annotations that are made of them.    *)
LEMMA OnPageType ==
    ASSUME NEW items \in Seq(Item), NEW p
    PROVE  /\ OnPage(items, p) \in Seq(Item)
           /\ \A j \in DOMAIN OnPage(items, p) :
                \E i \in DOMAIN items : OnPage(items, p)[j] = items[i] /\ items[i].page = p
<1> DEFINE at == {i \in DOMAIN items : items[i].page = p}
<1>1. OnPage(items, p) = Picked(items, at) /\ \A i \in at : items[i].page = p
  BY DEF OnPage
<1> HIDE DEF at
<1> QED
  BY <1>1, PickedType, PickedRange

(* What is made of them is ours, and has their groups and ids.             *)
LEMMA CreatedType ==
    ASSUME NEW items \in Seq(Item), NEW p
    PROVE  /\ Created(items, p) \in Seq(Annotation)
           /\ Len(Created(items, p)) = Len(OnPage(items, p))
           /\ DOMAIN Created(items, p) = DOMAIN OnPage(items, p)
           /\ \A j \in DOMAIN Created(items, p) :
                /\ Created(items, p)[j].kind = "ours"
                /\ \E i \in DOMAIN items : /\ Created(items, p)[j].group = items[i].group
                                           /\ Created(items, p)[j].id = items[i].id
<1> DEFINE on == OnPage(items, p)
           made == [i \in DOMAIN on |-> [kind |-> "ours", group |-> on[i].group, id |-> on[i].id]]
<1>1. Created(items, p) = made
  BY DEF Created
<1>2. /\ on \in Seq(Item) /\ Len(on) \in Nat /\ DOMAIN on = 1 .. Len(on)
      /\ \A j \in DOMAIN on : on[j] \in Item
      /\ \A j \in DOMAIN on : \E i \in DOMAIN items : on[j] = items[i]
  BY OnPageType
<1> HIDE DEF on
<1>3. \A j \in DOMAIN on :
        /\ made[j] \in Annotation
        /\ made[j].kind = "ours" /\ made[j].group = on[j].group /\ made[j].id = on[j].id
  BY <1>2 DEF Item, Group, Annotation
<1>4. made \in [1 .. Len(on) -> Annotation]
  BY <1>2, <1>3
<1>5. made \in Seq(Annotation) /\ Len(made) = Len(on) /\ DOMAIN made = DOMAIN on
  BY <1>2, <1>4
<1> HIDE DEF made
<1> QED
  BY <1>1, <1>2, <1>3, <1>5 DEF on

(* Nothing is made on a page without highlights.                           *)
LEMMA CreatedNone ==
    ASSUME NEW items \in Seq(Item), NEW p, p \notin PagesOfStore(items)
    PROVE  Created(items, p) = <<>>
<1>1. OnPage(items, p) = <<>>
  <2> DEFINE at == {i \in DOMAIN items : items[i].page = p}
  <2>1. \A i \in DOMAIN items : i \notin at
    BY DEF PagesOfStore
  <2>2. OnPage(items, p) = Picked(items, at)
    BY DEF OnPage
  <2> HIDE DEF at
  <2> QED
    BY <2>1, <2>2, PickedNone
<1>2. Created(items, p) \in Seq(Annotation) /\ Len(Created(items, p)) = 0
  BY <1>1, CreatedType
<1> DEFINE c == Created(items, p)
<1>3. c \in Seq(Annotation) /\ Len(c) = 0
  BY <1>2
<1> HIDE DEF c
<1>4. c = <<>>
  BY <1>3
<1> QED
  BY <1>4 DEF c

(* The pages of the store are pages of the document.                       *)
LEMMA PagesOfStoreType ==
    ASSUME NEW items \in Seq(Item)
    PROVE  PagesOfStore(items) \subseteq HlPages
<1>1. \A i \in DOMAIN items : items[i] \in Item
  OBVIOUS
<1> QED
  BY <1>1 DEF PagesOfStore, Item

(* An element of two concatenated is one of the first or of the second.    *)
LEMMA InOneOrTheOther ==
    ASSUME NEW S, NEW a \in Seq(S), NEW b \in Seq(S), NEW k \in DOMAIN (a \o b)
    PROVE  \/ k \in DOMAIN a /\ (a \o b)[k] = a[k]
           \/ \E m \in DOMAIN b : (a \o b)[k] = b[m]
<1>1. CASE k \in DOMAIN a
  BY <1>1
<1>2. CASE k \notin DOMAIN a
  <2>1. k - Len(a) \in DOMAIN b /\ (a \o b)[k] = b[k - Len(a)]
    BY <1>2
  <2> QED
    BY <2>1
<1> QED
  BY <1>1, <1>2

-----------------------------------------------------------------------------
(* What is loaded from a file.                                             *)

(* One page.                                                               *)
LEMMA LoadedType ==
    ASSUME NEW pages \in Pages, NEW p \in HlPages
    PROVE  /\ Loaded(pages, p) \in Seq(Item)
           /\ DOMAIN Loaded(pages, p) = DOMAIN OfKind(pages[p], "ours")
           /\ \A i \in DOMAIN Loaded(pages, p) :
                /\ Loaded(pages, p)[i].page = p
                /\ Loaded(pages, p)[i].group = OfKind(pages[p], "ours")[i].group
                /\ Loaded(pages, p)[i].id = OfKind(pages[p], "ours")[i].id
<1> DEFINE ours == OfKind(pages[p], "ours")
           l == [i \in DOMAIN ours |-> [page |-> p, group |-> ours[i].group, id |-> ours[i].id]]
<1>1. Loaded(pages, p) = l
  <2>1. {i \in DOMAIN pages[p] : IsOurs(pages[p][i]) /\ Placed(pages[p][i])}
          = {i \in DOMAIN pages[p] : pages[p][i].kind = "ours"}
    BY DEF IsOurs, Placed
  <2> QED
    BY <2>1 DEF Loaded, OfKind
<1>2. /\ ours \in Seq(Annotation) /\ Len(ours) \in Nat /\ DOMAIN ours = 1 .. Len(ours)
      /\ \A i \in DOMAIN ours : ours[i] \in Annotation
  <2>1. pages[p] \in Seq(Annotation)
    BY DEF Pages
  <2> QED
    BY <2>1, OfKindType
<1> HIDE DEF ours
<1>3. \A i \in DOMAIN ours :
        /\ l[i] \in Item
        /\ l[i].page = p /\ l[i].group = ours[i].group /\ l[i].id = ours[i].id
  BY <1>2 DEF Item, Group, Annotation
<1>4. l \in [1 .. Len(ours) -> Item]
  BY <1>2, <1>3
<1>5. l \in Seq(Item) /\ DOMAIN l = DOMAIN ours
  BY <1>2, <1>4
<1> HIDE DEF l
<1> QED
  BY <1>1, <1>3, <1>5 DEF ours

(* The recursion over the pages, as that of Picked above.                  *)
LoadRec(f, n, pages) ==
    f = [i \in 0 .. n |-> IF i = 0 THEN <<>> ELSE f[i - 1] \o Loaded(pages, i - 1)]

(* There is a function that satisfies it.                                  *)
LEMMA LoadExists ==
    ASSUME NEW n \in Nat, NEW pages
    PROVE  \E f : LoadRec(f, n, pages)
<1> DEFINE Has(k) == \E f : LoadRec(f, k, pages)
           T == {k \in 0 .. n : Has(k)}
<1>1. Has(0)
  <2> DEFINE f == [i \in 0 .. 0 |-> <<>>]
  <2>1. LoadRec(f, 0, pages)
    BY DEF LoadRec
  <2> QED
    BY <2>1
<1>2. ASSUME NEW k \in 1 .. n, Has(k - 1) PROVE Has(k)
  <2>1. PICK f : LoadRec(f, k - 1, pages)
    BY <1>2
  <2> DEFINE g == [i \in 0 .. k |-> IF i = k THEN f[k - 1] \o Loaded(pages, k - 1) ELSE f[i]]
  <2>2. \A i \in 0 .. k - 1 : f[i] = IF i = 0 THEN <<>> ELSE f[i - 1] \o Loaded(pages, i - 1)
    BY <2>1 DEF LoadRec
  <2>3. \A i \in 0 .. k : g[i] = IF i = 0 THEN <<>> ELSE g[i - 1] \o Loaded(pages, i - 1)
    BY <2>2
  <2>4. g = [i \in 0 .. k |-> IF i = 0 THEN <<>> ELSE g[i - 1] \o Loaded(pages, i - 1)]
    BY <2>3
  <2> HIDE DEF g
  <2> QED
    BY <2>4 DEF LoadRec
<1> HIDE DEF Has
<1>3. \A k \in 0 .. n : k \in T
  <2>1. 0 \in T /\ \A k \in 1 .. n : k - 1 \in T => k \in T
    BY <1>1, <1>2
  <2> HIDE DEF T
  <2> QED
    BY <2>1, Orders!Climb
<1>4. Has(n)
  BY <1>3
<1> QED
  BY <1>4 DEF Has

(* Highlights that are added are on their page ...                         *)
LEMMA OnPageMore ==
    ASSUME NEW a \in Seq(Item), NEW b \in Seq(Item), NEW p,
           \A i \in DOMAIN b : b[i].page = p
    PROVE  OnPage(a \o b, p) = OnPage(a, p) \o b
<1> DEFINE c == a \o b
           C == {i \in DOMAIN c : c[i].page = p}
           A == {i \in DOMAIN a : a[i].page = p}
<1>1. /\ \A i \in DOMAIN a : i \in DOMAIN c /\ c[i] = a[i]
      /\ \A i \in DOMAIN b : Len(a) + i \in DOMAIN c /\ c[Len(a) + i] = b[i]
  OBVIOUS
<1>2. OnPage(a \o b, p) = Picked(a \o b, C) /\ OnPage(a, p) = Picked(a, A)
  BY DEF OnPage
<1>3. /\ \A i \in DOMAIN a : i \in A <=> i \in C
      /\ \A i \in DOMAIN b : Len(a) + i \in C
  BY <1>1
<1> HIDE DEF C, A
<1>4. Picked(a, A) = Picked(a, C)
  BY <1>3, PickedSame
<1>5. Picked(a \o b, C) = Picked(a, C) \o b
  BY <1>3, PickedTailIn
<1> QED
  BY <1>2, <1>4, <1>5

(* ... and on no other.                                                   *)
LEMMA OnPageOther ==
    ASSUME NEW a \in Seq(Item), NEW b \in Seq(Item), NEW p,
           \A i \in DOMAIN b : b[i].page # p
    PROVE  OnPage(a \o b, p) = OnPage(a, p)
<1> DEFINE c == a \o b
           C == {i \in DOMAIN c : c[i].page = p}
           A == {i \in DOMAIN a : a[i].page = p}
<1>1. /\ \A i \in DOMAIN a : i \in DOMAIN c /\ c[i] = a[i]
      /\ \A i \in DOMAIN b : Len(a) + i \in DOMAIN c /\ c[Len(a) + i] = b[i]
  OBVIOUS
<1>2. OnPage(a \o b, p) = Picked(a \o b, C) /\ OnPage(a, p) = Picked(a, A)
  BY DEF OnPage
<1>3. /\ \A i \in DOMAIN a : i \in A <=> i \in C
      /\ \A i \in DOMAIN b : Len(a) + i \notin C
  BY <1>1
<1> HIDE DEF C, A
<1>4. Picked(a, A) = Picked(a, C)
  BY <1>3, PickedSame
<1>5. Picked(a \o b, C) = Picked(a, C)
  BY <1>3, PickedTailOut
<1> QED
  BY <1>2, <1>4, <1>5

(* Page by page, the store loaded from a file is what the file has of ours. *)
LEMMA LoadIsByPage ==
    ASSUME NEW pages \in Pages
    PROVE  /\ LoadFromPdf(pages) \in Seq(Item)
           /\ \A p \in HlPages : OnPage(LoadFromPdf(pages), p) = Loaded(pages, p)
<1> DEFINE N == Cardinality(HlPages)
           upTo[n \in 0 .. N] == IF n = 0 THEN <<>> ELSE upTo[n - 1] \o Loaded(pages, n - 1)
<1>1. N \in Nat /\ HlPages = 0 .. N - 1
  BY PagesAreNat
<1>2. LoadFromPdf(pages) = upTo[N]
  BY DEF LoadFromPdf
<1> HIDE DEF N
<1>3. LoadRec(upTo, N, pages)
  <2>1. \E f : LoadRec(f, N, pages)
    BY <1>1, LoadExists
  <2> QED
    BY <2>1 DEF LoadRec
<1> HIDE DEF upTo
<1>4. \A n \in 0 .. N : upTo[n] = IF n = 0 THEN <<>> ELSE upTo[n - 1] \o Loaded(pages, n - 1)
  BY <1>3 DEF LoadRec
<1> DEFINE Good(n) == /\ upTo[n] \in Seq(Item)
                      /\ \A p \in HlPages : OnPage(upTo[n], p) =
                           IF p < n THEN Loaded(pages, p) ELSE <<>>
           T == {n \in 0 .. N : Good(n)}
<1>5. Good(0)
  <2>1. upTo[0] = <<>> /\ <<>> \in Seq(Item) /\ DOMAIN <<>> = {}
    BY <1>1, <1>4
  <2>2. ASSUME NEW p \in HlPages PROVE OnPage(upTo[0], p) = <<>>
    <3> DEFINE at == {i \in DOMAIN upTo[0] : upTo[0][i].page = p}
    <3>1. OnPage(upTo[0], p) = Picked(upTo[0], at)
      BY DEF OnPage
    <3> HIDE DEF at
    <3> QED
      BY <2>1, <3>1, PickedNone
  <2>3. \A p \in HlPages : ~ (p < 0)
    BY <1>1
  <2> QED
    BY <2>1, <2>2, <2>3
<1>6. ASSUME NEW n \in 1 .. N, Good(n - 1) PROVE Good(n)
  <2>1. n - 1 \in HlPages /\ n - 1 \in 0 .. N /\ n \in 0 .. N /\ n # 0
    BY <1>1
  <2>2. PICK a \in Seq(Item) : a = upTo[n - 1]
    BY <1>6
  <2>3. PICK b \in Seq(Item) :
          b = Loaded(pages, n - 1) /\ \A i \in DOMAIN b : b[i].page = n - 1
    BY <2>1, LoadedType
  <2>4. upTo[n] = a \o b
    BY <1>4, <2>1, <2>2, <2>3
  <2>5. ASSUME NEW p \in HlPages
        PROVE  OnPage(upTo[n], p) = IF p < n THEN Loaded(pages, p) ELSE <<>>
    <3>1. OnPage(a, p) = IF p < n - 1 THEN Loaded(pages, p) ELSE <<>>
      BY <1>6, <2>2
    <3>2. p \in Nat /\ n \in Nat
      BY <1>1
    <3>3. CASE p = n - 1
      <4>1. OnPage(a, p) = <<>> /\ p < n
        BY <3>1, <3>2, <3>3
      <4>2. OnPage(a \o b, p) = OnPage(a, p) \o b
        BY <2>3, <3>3, OnPageMore
      <4>3. <<>> \o b = b
        OBVIOUS
      <4> QED
        BY <2>3, <2>4, <3>3, <4>1, <4>2, <4>3
    <3>4. CASE p # n - 1
      <4>1. \A i \in DOMAIN b : b[i].page # p
        BY <2>3, <3>4
      <4>2. OnPage(a \o b, p) = OnPage(a, p)
        BY <4>1, OnPageOther
      <4> QED
        BY <2>4, <3>1, <3>2, <3>4, <4>2
    <3> QED
      BY <3>3, <3>4
  <2>6. upTo[n] \in Seq(Item)
    BY <2>4
  <2> QED
    BY <2>5, <2>6
<1> HIDE DEF Good
<1>7. \A n \in 0 .. N : n \in T
  <2>1. 0 \in T /\ \A n \in 1 .. N : n - 1 \in T => n \in T
    BY <1>1, <1>5, <1>6
  <2> HIDE DEF T
  <2> QED
    BY <1>1, <2>1, Orders!Climb
<1>8. Good(N)
  BY <1>1, <1>7
<1>9. \A p \in HlPages : p < N
  BY <1>1
<1> QED
  BY <1>2, <1>8, <1>9 DEF Good

(* So saving a store that was just loaded changes none of our annotations. *)
LEMMA LoadMatches ==
    ASSUME NEW pages \in Pages, NEW p \in HlPages
    PROVE  Created(LoadFromPdf(pages), p) = OfKind(pages[p], "ours")
<1> DEFINE ours == OfKind(pages[p], "ours")
           on == Loaded(pages, p)
<1>1. Created(LoadFromPdf(pages), p) =
        [i \in DOMAIN on |-> [kind |-> "ours", group |-> on[i].group, id |-> on[i].id]]
  BY LoadIsByPage DEF Created
<1>2. /\ ours \in Seq(Annotation) /\ \A i \in DOMAIN ours : ours[i] \in Annotation
      /\ \A i \in DOMAIN ours : ours[i].kind = "ours"
  <2>1. pages[p] \in Seq(Annotation)
    BY DEF Pages
  <2> QED
    BY <2>1, OfKindType
<1>3. DOMAIN on = DOMAIN ours
      /\ \A i \in DOMAIN on : on[i].group = ours[i].group /\ on[i].id = ours[i].id
  BY LoadedType
<1> HIDE DEF ours, on
<1>4. \A i \in DOMAIN ours :
        ours[i] = [kind |-> "ours", group |-> on[i].group, id |-> on[i].id]
  BY <1>2, <1>3 DEF Annotation
<1>5. ours = [i \in DOMAIN ours |-> ours[i]]
  BY <1>2
<1> QED
  BY <1>1, <1>3, <1>4, <1>5 DEF ours

-----------------------------------------------------------------------------
(* The steps: what they change.                                            *)

(* The pages of a save are taken in order.                                 *)
LEMMA MinIsIn ==
    ASSUME NEW S, S \subseteq HlPages, S # {}
    PROVE  Min(S) \in S
<1>1. S \subseteq Nat
  BY PagesAreNat
<1>2. \E x \in S : \A y \in S : x <= y
  BY <1>1, Orders!NatLeast
<1> QED
  BY <1>2 DEF Min

(* A save keeps what is foreign on a page that it writes, leaves the other *)
(* pages alone, and puts nothing of ours there that was neither there nor  *)
(* in the store.                                                           *)
Rewritten(p) ==
    /\ docAnnots' \in Pages
    /\ OfKind(docAnnots'[p], "foreign") = OfKind(docAnnots[p], "foreign")
    /\ \A q \in HlPages \ {p} : docAnnots'[q] = docAnnots[q]
    /\ \A k \in DOMAIN docAnnots'[p] : docAnnots'[p][k].kind = "ours" =>
         \/ \E i \in DOMAIN docAnnots[p] : docAnnots'[p][k] = docAnnots[p][i]
         \/ \E j \in DOMAIN store : /\ docAnnots'[p][k].group = store[j].group
                                    /\ docAnnots'[p][k].id = store[j].id

(* A page that keeps some, and gets some that are not foreign.             *)
LEMMA PageWritten ==
    ASSUME HlTypes, NEW p \in HlPages, NEW stuck, NEW a \in Seq(Annotation),
           \A i \in DOMAIN a : a[i].kind # "foreign",
           \A i \in DOMAIN a : a[i].kind = "ours" => \E j \in DOMAIN store :
             a[i].group = store[j].group /\ a[i].id = store[j].id,
           docAnnots' = [docAnnots EXCEPT ![p] = Kept(p, stuck) \o a]
    PROVE  /\ Rewritten(p)
           /\ stuck = {} /\ (\A i \in DOMAIN a : a[i].kind = "ours") =>
                OfKind(docAnnots'[p], "ours") = a
<1>1. docAnnots \in Pages
  BY DEF HlTypes
<1>2. PICK k \in Seq(Annotation) :
        /\ k = Kept(p, stuck)
        /\ OfKind(k, "foreign") = OfKind(docAnnots[p], "foreign")
        /\ \A j \in DOMAIN k : \E i \in DOMAIN docAnnots[p] : k[j] = docAnnots[p][i]
        /\ stuck = {} => OfKind(k, "ours") = <<>>
  BY <1>1, KeptType
<1> DEFINE c == k \o a
<1>3. c \in Seq(Annotation)
  OBVIOUS
<1>4. OfKind(c, "foreign") = OfKind(docAnnots[p], "foreign")
  BY <1>2, OfKindOther
<1>5. \A m \in DOMAIN c : \/ m \in DOMAIN k /\ c[m] = k[m]
                          \/ \E i \in DOMAIN a : c[m] = a[i]
  BY InOneOrTheOther
<1>6. stuck = {} /\ (\A i \in DOMAIN a : a[i].kind = "ours") => OfKind(c, "ours") = a
  <2> SUFFICES ASSUME stuck = {}, \A i \in DOMAIN a : a[i].kind = "ours"
               PROVE  OfKind(c, "ours") = a
    OBVIOUS
  <2>1. OfKind(c, "ours") = OfKind(k, "ours") \o a
    BY OfKindMore
  <2>2. <<>> \o a = a
    OBVIOUS
  <2> QED
    BY <1>2, <2>1, <2>2
<1> HIDE DEF c
<1>7. /\ docAnnots' \in Pages /\ docAnnots'[p] = c
      /\ \A q \in HlPages \ {p} : docAnnots'[q] = docAnnots[q]
  <2>1. docAnnots' = [docAnnots EXCEPT ![p] = c]
    BY <1>2 DEF c
  <2> QED
    BY <1>1, <1>3, <2>1 DEF Pages
<1>8. \A m \in DOMAIN c : c[m].kind = "ours" =>
         \/ \E i \in DOMAIN docAnnots[p] : c[m] = docAnnots[p][i]
         \/ \E j \in DOMAIN store : c[m].group = store[j].group /\ c[m].id = store[j].id
  BY <1>2, <1>5
<1> QED
  BY <1>4, <1>6, <1>7, <1>8 DEF Rewritten

(* One page of a save.                                                     *)
LEMMA ApplyShape ==
    ASSUME HlTypes, ApplyPage
    PROVE  \E p \in saving.left :
             /\ saving.pc = "apply" /\ p \in HlPages
             /\ saving' = [saving EXCEPT !.left = @ \ {p}]
             /\ Rewritten(p)
             /\ OfKind(docAnnots'[p], "ours") = Created(store, p)
<1>1. PICK p \in saving.left : p \in HlPages /\ p = Min(saving.left)
  BY MinIsIn DEF ApplyPage, HlTypes
<1>2. PICK a \in Seq(Annotation) :
        /\ a = Created(store, p) /\ \A i \in DOMAIN a : a[i].kind = "ours"
        /\ \A i \in DOMAIN a : \E j \in DOMAIN store :
             a[i].group = store[j].group /\ a[i].id = store[j].id
  BY CreatedType DEF HlTypes
<1>3. /\ saving.pc = "apply" /\ saving' = [saving EXCEPT !.left = @ \ {p}]
      /\ docAnnots' = [docAnnots EXCEPT ![p] = Kept(p, {}) \o a]
  BY <1>1, <1>2 DEF ApplyPage
<1>4. \A i \in DOMAIN a : a[i].kind # "foreign"
  BY <1>2
<1>5. Rewritten(p) /\ OfKind(docAnnots'[p], "ours") = a
  BY <1>1, <1>2, <1>3, <1>4, PageWritten
<1> QED
  BY <1>1, <1>2, <1>3, <1>5

(* What is made of a page's highlights, with or without Contents.          *)
LEMMA MadeType ==
    ASSUME HlTypes, NEW p, NEW bare
    PROVE  /\ Made(p, bare) \in Seq(Annotation) /\ Len(Made(p, bare)) = Len(Created(store, p))
           /\ \A i \in DOMAIN Made(p, bare) :
                /\ Made(p, bare)[i].kind # "foreign"
                /\ Made(p, bare)[i].kind = "ours" => \E j \in DOMAIN store :
                     /\ Made(p, bare)[i].group = store[j].group
                     /\ Made(p, bare)[i].id = store[j].id
<1>1. PICK c \in Seq(Annotation) :
        /\ c = Created(store, p) /\ \A i \in DOMAIN c : c[i].kind = "ours"
        /\ \A i \in DOMAIN c : \E j \in DOMAIN store :
             c[i].group = store[j].group /\ c[i].id = store[j].id
  BY CreatedType DEF HlTypes
<1> DEFINE m == [i \in DOMAIN c |-> IF i \in bare THEN Untagged ELSE c[i]]
<1>2. Made(p, bare) = m
  BY <1>1 DEF Made
<1>3. Untagged \in Annotation /\ Untagged.kind = "untagged"
  BY DEF Untagged, Annotation
<1>4. /\ Len(c) \in Nat /\ DOMAIN c = 1 .. Len(c)
      /\ \A i \in DOMAIN c : m[i] \in Annotation /\ (m[i] = Untagged \/ m[i] = c[i])
  BY <1>3
<1>5. m \in [1 .. Len(c) -> Annotation] /\ DOMAIN m = DOMAIN c
  BY <1>4
<1> HIDE DEF m
<1>6. m \in Seq(Annotation) /\ Len(m) = Len(c)
  BY <1>4, <1>5
<1> QED
  BY <1>1, <1>2, <1>3, <1>4, <1>5, <1>6

(* So a page that was botched is still none of the worse for others.       *)
LEMMA BotchedShape ==
    ASSUME HlTypes, NEW p \in HlPages, NEW stuck, NEW bare,
           NEW n \in 0 .. Len(Created(store, p)),
           docAnnots' = Botched(p, stuck, bare, n)
    PROVE  Rewritten(p)
<1>1. PICK m \in Seq(Annotation) :
        /\ m = Made(p, bare) /\ Len(m) = Len(Created(store, p))
        /\ \A i \in DOMAIN m :
             /\ m[i].kind # "foreign"
             /\ m[i].kind = "ours" => \E j \in DOMAIN store :
                  m[i].group = store[j].group /\ m[i].id = store[j].id
  BY MadeType
<1>2. PICK a \in Seq(Annotation) :
        a = SubSeq(m, 1, n) /\ \A i \in DOMAIN a : i \in DOMAIN m /\ a[i] = m[i]
  <2> DEFINE a == SubSeq(m, 1, n)
  <2>1. Len(m) \in Nat /\ n \in 0 .. Len(m) /\ DOMAIN m = 1 .. Len(m)
    BY <1>1
  <2>2. a \in Seq(Annotation) /\ \A i \in DOMAIN a : i \in DOMAIN m /\ a[i] = m[i]
    BY <2>1
  <2> QED
    BY <2>2
<1>3. docAnnots' = [docAnnots EXCEPT ![p] = Kept(p, stuck) \o a]
  BY <1>1, <1>2 DEF Botched
<1>4. /\ \A i \in DOMAIN a : a[i].kind # "foreign"
      /\ \A i \in DOMAIN a : a[i].kind = "ours" => \E j \in DOMAIN store :
           a[i].group = store[j].group /\ a[i].id = store[j].id
  BY <1>1, <1>2
<1> QED
  BY <1>3, <1>4, PageWritten

(* A page on which not everything was done, and one on which the save was  *)
(* given up.                                                               *)
LEMMA ApplyBadlyShape ==
    ASSUME HlTypes, ApplyBadly
    PROVE  \E p \in saving.left :
             /\ p \in HlPages /\ saving.pc = "apply"
             /\ saving' = [saving EXCEPT !.left = @ \ {p}]
             /\ Rewritten(p)
<1>1. PICK p \in saving.left : p \in HlPages /\ p = Min(saving.left)
  BY MinIsIn DEF ApplyBadly, HlTypes
<1>2. Created(store, p) \in Seq(Annotation)
  BY CreatedType DEF HlTypes
<1>3. Len(Created(store, p)) \in 0 .. Len(Created(store, p))
  BY <1>2
<1>4. PICK stuck, bare : docAnnots' = Botched(p, stuck, bare, Len(Created(store, p)))
  BY <1>1 DEF ApplyBadly
<1>5. Rewritten(p)
  BY <1>1, <1>3, <1>4, BotchedShape
<1> QED
  BY <1>1, <1>5 DEF ApplyBadly

LEMMA ApplyFailsShape ==
    ASSUME HlTypes, ApplyFails
    PROVE  docAnnots' = docAnnots \/ \E p \in HlPages : Rewritten(p)
<1>1. PICK p \in HlPages : p = Min(saving.left)
  BY MinIsIn DEF ApplyFails, HlTypes
<1>2. Created(store, p) \in Seq(Annotation)
  BY CreatedType DEF HlTypes
<1>3. \A n \in {0} \cup DOMAIN Created(store, p) : n \in 0 .. Len(Created(store, p))
  BY <1>2
<1>4. \/ docAnnots' = docAnnots
      \/ \E stuck, bare : \E n \in {0} \cup DOMAIN Created(store, p) :
           docAnnots' = Botched(p, stuck, bare, n)
  BY <1>1 DEF ApplyFails
<1> QED
  BY <1>3, <1>4, BotchedShape

(* A save begins, if anything was touched, ...                             *)
LEMMA BeginSaveShape ==
    ASSUME NEW items \in Seq(Item), NEW touched \in Nat, NEW quitting \in BOOLEAN,
           prevPages \subseteq HlPages, BeginSave(items, touched, quitting)
    PROVE  /\ saving' \in [pc : {"down", "idle", "apply", "quit"}, left : SUBSET HlPages,
                           quitting : BOOLEAN]
           /\ touched = 0 => saving'.pc \in {"idle", "quit"}
           /\ touched # 0 => saving'.pc = "apply"
                             /\ saving'.left = prevPages \cup PagesOfStore(items)
BY PagesOfStoreType DEF BeginSave, CandidatePages, Idle

(* ... and ends, failed or not.                                            *)
LEMMA EndSaveShape ==
    ASSUME EndSave
    PROVE  /\ saving' \in [pc : {"down", "idle", "apply", "quit"}, left : SUBSET HlPages,
                           quitting : BOOLEAN]
           /\ saving'.pc \in {"idle", "quit"}
BY DEF EndSave, Idle

(* A yank adds highlights of one group to the store and starts a save.     *)
LEMMA YankShape ==
    ASSUME HlTypes, NEW ps \in SUBSET HlPages, Yank(ps)
    PROVE  /\ yanks' = yanks + 1 /\ nextGroup' = nextGroup + 1 /\ revision' = 1
           /\ before' = store
           /\ \E new \in Seq(Item) :
                /\ store' = store \o new
                /\ \A i \in DOMAIN new : new[i].group = nextGroup /\ new[i].id = yanks + 1
           /\ saving.pc = "idle" /\ saving'.pc = "apply"
           /\ saving'.left = prevPages \cup PagesOfStore(store')
           /\ saving' \in [pc : {"down", "idle", "apply", "quit"}, left : SUBSET HlPages,
                           quitting : BOOLEAN]
<1> DEFINE all == [i \in 1 .. Cardinality(HlPages) |-> i - 1]
           at == {p + 1 : p \in ps}
           sorted == Picked(all, at)
           new == [i \in DOMAIN sorted |->
                     [page |-> sorted[i], group |-> nextGroup, id |-> yanks']]
<1>1. yanks' = yanks + 1 /\ yanks \in Nat /\ nextGroup \in Nat /\ revision \in Nat
  BY DEF Yank, HlTypes
<1>2. sorted \in Seq(HlPages)
  <2>1. all \in Seq(HlPages)
    BY PagesAreNat
  <2> HIDE DEF all, at
  <2> QED
    BY <2>1, PickedType
<1>3. store' = store \o new
  BY DEF Yank
<1> HIDE DEF sorted
<1>4. /\ Len(sorted) \in Nat /\ DOMAIN sorted = 1 .. Len(sorted)
      /\ \A i \in DOMAIN sorted : sorted[i] \in HlPages
  BY <1>2
<1>5. \A i \in DOMAIN sorted :
        new[i] \in Item /\ new[i].group = nextGroup /\ new[i].id = yanks + 1
  BY <1>1, <1>4 DEF Item, Group
<1>6. new \in [1 .. Len(sorted) -> Item] /\ DOMAIN new = DOMAIN sorted
  BY <1>4, <1>5
<1>7. new \in Seq(Item)
  BY <1>4, <1>6
<1> HIDE DEF new
<1>8. \A i \in DOMAIN new : new[i].group = nextGroup /\ new[i].id = yanks + 1
  BY <1>5, <1>6
<1>9. /\ nextGroup' = nextGroup + 1 /\ revision' = 1 /\ before' = store
      /\ saving.pc = "idle" /\ BeginSave(store', revision', FALSE)
  BY DEF Yank
<1>10. store' \in Seq(Item)
  <2>1. store \in Seq(Item)
    BY DEF HlTypes
  <2> QED
    BY <1>3, <1>7, <2>1
<1>11. revision' \in Nat /\ revision' # 0 /\ prevPages \subseteq HlPages
  BY <1>1, <1>9 DEF HlTypes
<1>12. /\ saving'.pc = "apply" /\ saving'.left = prevPages \cup PagesOfStore(store')
       /\ saving' \in [pc : {"down", "idle", "apply", "quit"}, left : SUBSET HlPages,
                       quitting : BOOLEAN]
  BY <1>9, <1>10, <1>11, BeginSaveShape
<1> QED
  BY <1>1, <1>3, <1>7, <1>8, <1>9, <1>12

(* A confirmed delete keeps the rest, and starts a save if it took any.    *)
LEMMA PressYShape ==
    ASSUME HlTypes, PressY
    PROVE  /\ store' \in Seq(Item)
           /\ \A j \in DOMAIN store' : \E i \in DOMAIN store : store'[j] = store[i]
           /\ \A i \in DOMAIN store : i \notin Doomed(page) =>
                \E j \in DOMAIN store' : store'[j] = store[i]
           /\ saving.pc = "idle"
           /\ \/ store' = store /\ before' = before /\ revision' = revision /\ saving' = saving
              \/ /\ before' = store /\ revision' = 1
                 /\ saving'.pc = "apply" /\ saving'.left = prevPages \cup PagesOfStore(store')
                 /\ saving' \in [pc : {"down", "idle", "apply", "quit"}, left : SUBSET HlPages,
                                 quitting : BOOLEAN]
<1> DEFINE gone == Doomed(page)
           at == DOMAIN store \ gone
<1>1. store \in Seq(Item) /\ revision \in Nat /\ prevPages \subseteq HlPages
  BY DEF HlTypes
<1>2. store' = Picked(store, at) /\ saving.pc = "idle"
  BY DEF PressY, Without
<1>3. \A i \in DOMAIN store : i \in at <=> i \notin gone
  OBVIOUS
<1>4. \/ /\ gone = {} /\ before' = before /\ revision' = revision /\ saving' = saving
      \/ /\ before' = store /\ revision' = 1
         /\ BeginSave(store', revision', FALSE)
  BY DEF PressY
<1> HIDE DEF gone, at
<1>5. /\ store' \in Seq(Item)
      /\ \A j \in DOMAIN store' : \E i \in DOMAIN store : store'[j] = store[i]
      /\ \A i \in DOMAIN store : i \notin gone => \E j \in DOMAIN store' : store'[j] = store[i]
  <2>1. /\ Picked(store, at) \in Seq(Item)
        /\ \A j \in DOMAIN Picked(store, at) :
             \E i \in DOMAIN store : Picked(store, at)[j] = store[i]
        /\ \A i \in DOMAIN store : i \in at =>
             \E j \in DOMAIN Picked(store, at) : Picked(store, at)[j] = store[i]
    BY <1>1, PickedType, PickedRange
  <2> QED
    BY <1>2, <1>3, <2>1
<1>6. CASE gone = {} /\ before' = before /\ revision' = revision /\ saving' = saving
  <2>1. Picked(store, at) = store
    BY <1>1, <1>3, <1>6, PickedAll
  <2> QED
    BY <1>2, <1>5, <1>6, <2>1 DEF gone
<1>7. CASE /\ before' = store /\ revision' = 1
           /\ BeginSave(store', revision', FALSE)
  <2>1. revision' \in Nat /\ revision' # 0
    BY <1>1, <1>7
  <2>2. /\ saving'.pc = "apply" /\ saving'.left = prevPages \cup PagesOfStore(store')
        /\ saving' \in [pc : {"down", "idle", "apply", "quit"}, left : SUBSET HlPages,
                        quitting : BOOLEAN]
    BY <1>1, <1>5, <1>7, <2>1, BeginSaveShape
  <2> QED
    BY <1>2, <1>5, <1>7, <2>2 DEF gone
<1> QED
  BY <1>4, <1>6, <1>7

(* A group that is free is past all that are in the store.                 *)
LEMMA FirstFreeIsFree ==
    ASSUME NEW items \in Seq(Item)
    PROVE  /\ FirstFreeGroup(items) \in Nat
           /\ \A i \in DOMAIN items : items[i].group < FirstFreeGroup(items)
<1> DEFINE groups == {items[i].group : i \in DOMAIN items} \ {NoGroup}
           n == Len(items)
           Bound(k) == {b \in Nat : \A i \in 1 .. k : items[i].group <= b}
           T == {k \in 0 .. n : Bound(k) # {}}
<1>1. n \in Nat /\ DOMAIN items = 1 .. n /\ \A i \in 1 .. n : items[i].group \in Group
  <2>1. n \in Nat /\ DOMAIN items = 1 .. n /\ \A i \in 1 .. n : items[i] \in Item
    OBVIOUS
  <2> QED
    BY <2>1 DEF Item
<1>2. /\ groups \subseteq Nat
      /\ \A i \in 1 .. n : items[i].group \in groups \/ items[i].group = NoGroup
  BY <1>1 DEF Group
<1>3. \A k \in 0 .. n : k \in T
  <2>1. 0 \in T
    <3>1. 0 \in Bound(0)
      OBVIOUS
    <3> QED
      BY <1>1, <3>1
  <2>2. ASSUME NEW k \in 1 .. n, Bound(k - 1) # {} PROVE Bound(k) # {}
    <3>1. PICK b \in Nat : \A i \in 1 .. k - 1 : items[i].group <= b
      BY <2>2
    <3>2. \E c \in Nat : b <= c /\ items[k].group <= c
      <4>1. items[k].group \in Int
        BY <1>1 DEF Group, NoGroup
      <4> QED
        BY <4>1
    <3>3. PICK c \in Nat : b <= c /\ items[k].group <= c
      BY <3>2
    <3>4. \A i \in 1 .. k : items[i].group <= c
      <4> SUFFICES ASSUME NEW i \in 1 .. k PROVE items[i].group <= c
        OBVIOUS
      <4>1. i \in 1 .. n /\ items[i].group \in Int
        BY <1>1 DEF Group, NoGroup
      <4>2. CASE i = k
        BY <3>3, <4>2
      <4>3. CASE i # k
        <5>1. items[i].group <= b
          BY <1>1, <3>1, <4>3
        <5> QED
          BY <3>3, <4>1, <5>1
      <4> QED
        BY <4>2, <4>3
    <3> QED
      BY <3>4
  <2>3. \A k \in 1 .. n : k - 1 \in T => k \in T
    BY <2>2
  <2> HIDE DEF T
  <2> QED
    BY <1>1, <2>1, <2>3, Orders!Climb
<1>4. Bound(n) # {}
  <2>1. n \in T
    <3> HIDE DEF T
    <3> QED
      BY <1>1, <1>3
  <2> HIDE DEF Bound
  <2> QED
    BY <2>1
<1>5. PICK b \in Bound(n) : \A c \in Bound(n) : b <= c
  <2>1. Bound(n) \subseteq Nat
    OBVIOUS
  <2> HIDE DEF Bound
  <2> QED
    BY <1>4, <2>1, Orders!NatLeast
<1>6. b \in Nat /\ \A i \in 1 .. n : items[i].group <= b
  OBVIOUS
<1>7. groups # {} => b \in groups
  <2> SUFFICES ASSUME groups # {}, b \notin groups PROVE FALSE
    OBVIOUS
  <2>1. PICK g \in groups : TRUE
    OBVIOUS
  <2>2. PICK i \in 1 .. n : items[i].group = g
    BY <1>1
  <2>3. g \in Nat /\ g <= b /\ g # b
    BY <1>2, <1>6, <2>1, <2>2
  <2>4. b \in Nat /\ b - 1 \in Nat
    BY <1>6, <2>3
  <2>5. ASSUME NEW j \in 1 .. n PROVE items[j].group <= b - 1
    <3>1. items[j].group <= b
      BY <1>6
    <3>2. CASE items[j].group \in groups
      <4>1. items[j].group \in Nat /\ items[j].group # b
        BY <1>2, <3>2
      <4> QED
        BY <2>4, <3>1, <4>1
    <3>3. CASE items[j].group = NoGroup
      BY <2>4, <3>3 DEF NoGroup
    <3> QED
      BY <1>2, <3>2, <3>3
  <2>6. b - 1 \in Bound(n)
    BY <2>4, <2>5
  <2>7. b <= b - 1
    <3> HIDE DEF Bound
    <3> QED
      BY <1>5, <2>6
  <2> QED
    BY <2>4, <2>7
<1>8. \A g \in groups : g <= b
  BY <1>1, <1>6
<1>9. FirstFreeGroup(items) = IF groups = {} THEN 1 ELSE Max(groups) + 1
  BY DEF FirstFreeGroup
<1> HIDE DEF groups, Bound
<1>10. groups # {} => Max(groups) = b
  <2> SUFFICES ASSUME groups # {} PROVE Max(groups) = b
    OBVIOUS
  <2>1. b \in groups /\ \A g \in groups : b >= g
    BY <1>2, <1>6, <1>7, <1>8
  <2>2. \A m \in groups : (\A g \in groups : m >= g) => m = b
    BY <1>2, <1>6, <2>1
  <2> QED
    BY <2>1, <2>2 DEF Max
<1>11. CASE groups = {}
  <2>1. \A i \in 1 .. n : items[i].group = NoGroup
    BY <1>2, <1>11
  <2> QED
    BY <1>1, <1>9, <1>11, <2>1 DEF NoGroup
<1>12. CASE groups # {}
  <2>1. FirstFreeGroup(items) = b + 1
    BY <1>9, <1>10, <1>12
  <2>2. \A i \in 1 .. n : items[i].group \in Int
    BY <1>1 DEF Group, NoGroup
  <2> QED
    BY <1>1, <1>6, <2>1, <2>2
<1> QED
  BY <1>11, <1>12

(* A new session takes everything from the file.                           *)
LEMMA StartShape ==
    ASSUME HlTypes, Start
    PROVE  /\ store' \in Seq(Item) /\ store' = LoadFromPdf(pdf)
           /\ nextGroup' \in Nat /\ \A i \in DOMAIN store' : store'[i].group < nextGroup'
           /\ pdf' = pdf /\ docAnnots' = pdf /\ before' = store'
           /\ prevPages' = PagesOfStore(store') /\ saving' = Idle /\ revision' = 0
           /\ failures' = 0 /\ yanks' = yanks /\ original' = original
<1>1. store' = LoadFromPdf(pdf) /\ pdf \in Pages /\ nextGroup' = FirstFreeGroup(store')
  BY DEF HlTypes, Start
<1>2. store' \in Seq(Item)
  BY <1>1, LoadIsByPage
<1> QED
  BY <1>1, <1>2, FirstFreeIsFree DEF Start

-----------------------------------------------------------------------------
(* Types are kept.                                                         *)

SavingType == [pc : {"down", "idle", "apply", "quit"}, left : SUBSET HlPages, quitting : BOOLEAN]

(* At first, ...                                                           *)
LEMMA HlTypesInit == HlInit => HlTypes
<1> SUFFICES ASSUME HlInit PROVE HlTypes
  OBVIOUS
<1>1. pdf \in Pages /\ original = pdf /\ docAnnots = pdf
  BY HighlightsAssumption DEF HlInit, Pages
<1>2. store = LoadFromPdf(pdf) /\ before = store /\ store \in Seq(Item)
  BY <1>1, LoadIsByPage DEF HlInit
<1>3. prevPages \subseteq HlPages
  BY <1>2, PagesOfStoreType DEF HlInit
<1>4. nextGroup \in Nat
  BY <1>2, FirstFreeIsFree DEF HlInit
<1> QED
  BY <1>1, <1>2, <1>3, <1>4 DEF HlInit, HlTypes, Idle

(* ... and in every step.                                                  *)
LEMMA HlTypesStep ==
    ASSUME HlTypes, [HlNext]_hlVars
    PROVE  HlTypes'
<1>1. ASSUME NEW ps \in SUBSET HlPages, Yank(ps) PROVE HlTypes'
  <2>1. PICK new \in Seq(Item) : store' = store \o new
    BY <1>1, YankShape
  <2>2. store' \in Seq(Item) /\ before' = store
    BY <1>1, <2>1, YankShape DEF HlTypes
  <2>3. /\ yanks' \in Nat /\ nextGroup' \in Nat /\ revision' \in Nat
        /\ saving' \in SavingType
    BY <1>1, YankShape DEF HlTypes, SavingType
  <2> QED
    BY <1>1, <2>2, <2>3 DEF Yank, HlTypes, keyVars, SavingType
<1>2. CASE PressX
  BY <1>2 DEF PressX, HlTypes, storeVars, saveVars
<1>3. CASE PressY
  <2>1. /\ store' \in Seq(Item) /\ before' \in Seq(Item) /\ revision' \in Nat
        /\ saving' \in SavingType
    BY <1>3, PressYShape DEF HlTypes, SavingType
  <2> QED
    BY <1>3, <2>1 DEF PressY, HlTypes, SavingType
<1>4. CASE PressOther
  BY <1>4 DEF PressOther, HlTypes, storeVars, saveVars
<1>5. ASSUME NEW p \in HlPages, NEW wheel \in BOOLEAN, Move(p, wheel) PROVE HlTypes'
  BY <1>5 DEF Move, HlTypes, storeVars, saveVars
<1>6. CASE Quit
  <2>1. saving' \in SavingType
    BY <1>6, BeginSaveShape DEF Quit, HlTypes, SavingType
  <2> QED
    BY <1>6, <2>1 DEF Quit, HlTypes, SavingType, keyVars
<1>7. CASE ApplyPage
  <2>1. docAnnots' \in Pages /\ saving' \in SavingType
    BY <1>7, ApplyShape DEF HlTypes, SavingType, Rewritten
  <2> QED
    BY <1>7, <2>1 DEF ApplyPage, HlTypes, SavingType, storeVars, keyVars
<1>15. CASE ApplyBadly
  <2>1. docAnnots' \in Pages /\ saving' \in SavingType
    BY <1>15, ApplyBadlyShape DEF HlTypes, SavingType, Rewritten
  <2> QED
    BY <1>15, <2>1 DEF ApplyBadly, HlTypes, SavingType, storeVars, keyVars
<1>8. CASE ApplyFails
  <2>1. docAnnots' \in Pages
    BY <1>8, ApplyFailsShape DEF HlTypes, Rewritten
  <2>2. saving' \in SavingType
    BY <1>8, EndSaveShape DEF ApplyFails, SavingType
  <2> QED
    BY <1>8, <2>1, <2>2 DEF ApplyFails, HlTypes, SavingType, storeVars, keyVars
<1>9. CASE SaveAtomic
  <2>1. saving' \in SavingType
    BY <1>9, EndSaveShape DEF SaveAtomic, SavingType
  <2>2. prevPages' \subseteq HlPages
    BY <1>9, PagesOfStoreType DEF SaveAtomic, HlTypes
  <2> QED
    BY <1>9, <2>1, <2>2 DEF SaveAtomic, HlTypes, SavingType, storeVars, keyVars
<1>10. CASE SaveFails
  <2>1. saving' \in SavingType
    BY <1>10, EndSaveShape DEF SaveFails, SavingType
  <2> QED
    BY <1>10, <2>1 DEF SaveFails, HlTypes, SavingType, storeVars, keyVars
<1>11. CASE PersistSession
  BY <1>11 DEF PersistSession, HlTypes, Idle, storeVars, keyVars
<1>12. CASE Crash
  BY <1>12 DEF Crash, HlTypes, Idle, storeVars, keyVars
<1>13. CASE Start
  <2>1. prevPages' \subseteq HlPages
    BY <1>13, StartShape, PagesOfStoreType
  <2>2. /\ store' \in Seq(Item) /\ before' \in Seq(Item) /\ nextGroup' \in Nat
        /\ pdf' \in Pages /\ docAnnots' \in Pages /\ original' \in Pages
        /\ revision' \in Nat /\ yanks' \in Nat /\ failures' \in Nat
    <3>1. pdf \in Pages /\ original \in Pages /\ yanks \in Nat
      BY DEF HlTypes
    <3> QED
      BY <1>13, <3>1, StartShape
  <2>3. saving' \in SavingType
    BY <1>13 DEF Start, Idle, SavingType
  <2> QED
    BY <2>1, <2>2, <2>3 DEF HlTypes, SavingType
<1>14. CASE UNCHANGED hlVars
  BY <1>14 DEF hlVars, HlTypes, storeVars, saveVars, keyVars
<1> QED
  BY <1>1, <1>2, <1>3, <1>4, <1>5, <1>6, <1>7, <1>8, <1>9, <1>10, <1>11, <1>12, <1>13, <1>14,
     <1>15
  DEF HlNext, UserAction

-----------------------------------------------------------------------------
(* What other tools wrote.                                                 *)

(* It is in the document what it was in the file at first; the file has it *)
(* from the document, and a new session's document from the file.          *)
ForeignInv ==
    \A p \in HlPages :
        /\ OfKind(docAnnots[p], "foreign") = OfKind(original[p], "foreign")
        /\ OfKind(pdf[p], "foreign") = OfKind(original[p], "foreign")

(* Who changes the document, ...                                           *)
LEMMA DocumentStep ==
    ASSUME HlTypes, [HlNext]_hlVars
    PROVE  \/ docAnnots' = docAnnots
           \/ ApplyPage \/ ApplyBadly \/ ApplyFails
           \/ (docAnnots' = pdf /\ Start)
BY DEF HlNext, UserAction, Yank, PressX, PressY, PressOther, Move, Quit, SaveAtomic, SaveFails,
       PersistSession, Crash, Start, hlVars, storeVars, saveVars, keyVars

(* ... and who changes the file.                                           *)
LEMMA FileStep ==
    ASSUME HlTypes, [HlNext]_hlVars
    PROVE  /\ original' = original
           /\ pdf' = pdf \/ (pdf' = docAnnots /\ SaveAtomic)
BY DEF HlNext, UserAction, Yank, PressX, PressY, PressOther, Move, Quit, ApplyPage, ApplyBadly, ApplyFails,
       SaveAtomic, SaveFails, PersistSession, Crash, Start, hlVars, storeVars, saveVars, keyVars

(* Every step keeps them where they are.                                   *)
LEMMA ForeignStep ==
    ASSUME HlTypes, ForeignInv, [HlNext]_hlVars
    PROVE  ForeignInv'
<1> SUFFICES ASSUME NEW p \in HlPages
             PROVE  /\ OfKind(docAnnots'[p], "foreign") = OfKind(original[p], "foreign")
                    /\ OfKind(pdf'[p], "foreign") = OfKind(original[p], "foreign")
  <2>1. original' = original
    BY FileStep
  <2> QED
    BY <2>1 DEF ForeignInv
<1>1. OfKind(pdf'[p], "foreign") = OfKind(original[p], "foreign")
  BY FileStep DEF ForeignInv
<1>2. OfKind(docAnnots'[p], "foreign") = OfKind(docAnnots[p], "foreign")
      \/ OfKind(docAnnots'[p], "foreign") = OfKind(pdf[p], "foreign")
  <2>1. CASE ApplyPage
    BY <2>1, ApplyShape DEF Rewritten
  <2>2. CASE ApplyBadly \/ ApplyFails
    BY <2>2, ApplyBadlyShape, ApplyFailsShape DEF Rewritten
  <2> QED
    BY <2>1, <2>2, DocumentStep
<1> QED
  BY <1>1, <1>2 DEF ForeignInv

-----------------------------------------------------------------------------
(* The file is the store.                                                  *)

(* While no save of the session has failed: between actions, file,         *)
(* document and store agree; during a save, the pages walked already are   *)
(* as in the store, the others still as before the action, and a page that *)
(* is not to be walked is the same in both.                                *)
Synced ==
    /\ \A p \in HlPages : OfKind(docAnnots[p], "ours") = Created(store, p)
    /\ \A p \in HlPages : OfKind(pdf[p], "ours") = Created(store, p)
    /\ prevPages = PagesOfStore(store)

InBetween ==
    /\ \A p \in HlPages : OfKind(docAnnots[p], "ours") =
         IF p \in saving.left THEN Created(before, p) ELSE Created(store, p)
    /\ \A p \in HlPages : OfKind(pdf[p], "ours") = Created(before, p)

SavedInv ==
    failures = 0 /\ saving.pc # "down" =>
        IF saving.pc = "apply" THEN InBetween ELSE Synced

(* At first they agree, whatever the file holds.                           *)
LEMMA SavedInit ==
    ASSUME HlInit
    PROVE  SavedInv
<1>1. pdf \in Pages /\ docAnnots = pdf /\ store = LoadFromPdf(pdf)
  BY HighlightsAssumption DEF HlInit, Pages
<1>2. \A p \in HlPages : OfKind(pdf[p], "ours") = Created(store, p)
  BY <1>1, LoadMatches
<1> QED
  BY <1>1, <1>2 DEF HlInit, SavedInv, Synced, Idle

(* A save that begins finds the document as the store was before, and      *)
(* walks every page that differs.                                          *)
LEMMA BeginStep ==
    ASSUME HlTypes, Synced, store' \in Seq(Item), before' = store,
           saving'.pc = "apply", saving'.left = prevPages \cup PagesOfStore(store'),
           docAnnots' = docAnnots, pdf' = pdf
    PROVE  InBetween'
<1>1. ASSUME NEW p \in HlPages, p \notin saving'.left PROVE Created(store, p) = Created(store', p)
  <2>1. p \notin PagesOfStore(store) /\ p \notin PagesOfStore(store')
    BY <1>1 DEF Synced
  <2>2. Created(store, p) = <<>> /\ Created(store', p) = <<>>
    BY <2>1, CreatedNone DEF HlTypes
  <2> QED
    BY <2>2
<1> QED
  BY <1>1 DEF Synced, InBetween

(* Step by step; a failure is excluded until the next session.             *)
LEMMA SavedStep ==
    ASSUME HlTypes, SavedInv, [HlNext]_hlVars
    PROVE  SavedInv'
<1>1. ASSUME NEW ps \in SUBSET HlPages, Yank(ps) PROVE SavedInv'
  <2> SUFFICES ASSUME failures' = 0 PROVE InBetween' /\ saving'.pc = "apply"
    BY DEF SavedInv
  <2>1. failures = 0 /\ docAnnots' = docAnnots /\ pdf' = pdf
    BY <1>1 DEF Yank
  <2>2. /\ saving.pc = "idle" /\ saving'.pc = "apply" /\ before' = store
        /\ saving'.left = prevPages \cup PagesOfStore(store')
    BY <1>1, YankShape
  <2>3. store' \in Seq(Item)
    BY <1>1, HlTypesStep DEF HlTypes, HlNext, UserAction
  <2>4. Synced
    BY <2>1, <2>2 DEF SavedInv
  <2> QED
    BY <2>1, <2>2, <2>3, <2>4, BeginStep
<1>2. CASE PressX
  BY <1>2 DEF PressX, storeVars, saveVars, SavedInv, Synced, InBetween
<1>3. CASE PressY
  <2> SUFFICES ASSUME failures' = 0, saving'.pc # "down"
               PROVE  IF saving'.pc = "apply" THEN InBetween' ELSE Synced'
    BY DEF SavedInv
  <2>1. failures = 0 /\ docAnnots' = docAnnots /\ pdf' = pdf /\ prevPages' = prevPages
    BY <1>3 DEF PressY
  <2>2. saving.pc = "idle" /\ store' \in Seq(Item)
    BY <1>3, PressYShape
  <2>3. Synced
    BY <2>1, <2>2 DEF SavedInv
  <2>4. CASE store' = store /\ before' = before /\ revision' = revision /\ saving' = saving
    BY <2>1, <2>2, <2>3, <2>4 DEF Synced
  <2>5. CASE /\ before' = store /\ revision' = 1
             /\ saving'.pc = "apply" /\ saving'.left = prevPages \cup PagesOfStore(store')
    BY <2>1, <2>2, <2>3, <2>5, BeginStep
  <2> QED
    BY <1>3, <2>4, <2>5, PressYShape
<1>4. CASE PressOther
  BY <1>4 DEF PressOther, storeVars, saveVars, SavedInv, Synced, InBetween
<1>5. ASSUME NEW p \in HlPages, NEW wheel \in BOOLEAN, Move(p, wheel) PROVE SavedInv'
  BY <1>5 DEF Move, storeVars, saveVars, SavedInv, Synced, InBetween
<1>6. CASE Quit
  <2> SUFFICES ASSUME failures' = 0, saving'.pc # "down"
               PROVE  IF saving'.pc = "apply" THEN InBetween' ELSE Synced'
    BY DEF SavedInv
  <2>1. /\ failures = 0 /\ docAnnots' = docAnnots /\ pdf' = pdf /\ prevPages' = prevPages
        /\ store' = store /\ before' = store /\ saving.pc = "idle"
        /\ BeginSave(store, revision, TRUE)
    BY <1>6 DEF Quit
  <2>2. Synced
    BY <2>1 DEF SavedInv
  <2>3. store \in Seq(Item) /\ revision \in Nat /\ prevPages \subseteq HlPages
    BY DEF HlTypes
  <2>4. CASE revision = 0
    <3>1. saving'.pc # "apply"
      BY <2>1, <2>3, <2>4, BeginSaveShape
    <3> QED
      BY <2>1, <2>2, <3>1 DEF Synced
  <2>5. CASE revision # 0
    <3>1. saving'.pc = "apply" /\ saving'.left = prevPages \cup PagesOfStore(store)
      BY <2>1, <2>3, <2>5, BeginSaveShape
    <3> QED
      BY <2>1, <2>2, <2>3, <3>1, BeginStep
  <2> QED
    BY <2>4, <2>5
<1>7. CASE ApplyPage
  <2> SUFFICES ASSUME failures' = 0 PROVE InBetween' /\ saving'.pc = "apply"
    BY DEF SavedInv
  <2>1. PICK p \in saving.left :
          /\ saving.pc = "apply" /\ p \in HlPages
          /\ saving' = [saving EXCEPT !.left = @ \ {p}]
          /\ OfKind(docAnnots'[p], "ours") = Created(store, p)
          /\ \A q \in HlPages \ {p} : docAnnots'[q] = docAnnots[q]
    BY <1>7, ApplyShape DEF Rewritten
  <2>2. /\ failures = 0 /\ pdf' = pdf /\ store' = store /\ before' = before
    BY <1>7 DEF ApplyPage, storeVars
  <2>3. saving'.pc = "apply" /\ saving'.left = saving.left \ {p}
    BY <2>1 DEF HlTypes
  <2>4. InBetween
    BY <2>1, <2>2 DEF SavedInv
  <2> QED
    BY <2>1, <2>2, <2>3, <2>4 DEF InBetween
<1>15. CASE ApplyBadly
  BY <1>15 DEF ApplyBadly, SavedInv, HlTypes
<1>8. CASE ApplyFails
  BY <1>8 DEF ApplyFails, SavedInv, HlTypes
<1>9. CASE SaveAtomic
  <2> SUFFICES ASSUME failures' = 0 PROVE Synced' /\ saving'.pc # "apply"
    BY DEF SavedInv
  <2>1. /\ failures = 0 /\ saving.pc = "apply" /\ saving.left = {}
        /\ pdf' = docAnnots /\ docAnnots' = docAnnots /\ store' = store
        /\ prevPages' = PagesOfStore(store)
    BY <1>9 DEF SaveAtomic, storeVars
  <2>2. saving'.pc # "apply"
    BY <1>9, EndSaveShape DEF SaveAtomic
  <2>3. InBetween
    BY <2>1 DEF SavedInv
  <2> QED
    BY <2>1, <2>2, <2>3 DEF InBetween, Synced
<1>10. CASE SaveFails
  BY <1>10 DEF SaveFails, SavedInv, HlTypes
<1>11. CASE PersistSession
  BY <1>11 DEF PersistSession, SavedInv, Idle
<1>12. CASE Crash
  BY <1>12 DEF Crash, SavedInv, Idle
<1>13. CASE Start
  <2>1. /\ pdf' = pdf /\ docAnnots' = pdf /\ store' = LoadFromPdf(pdf)
        /\ prevPages' = PagesOfStore(store') /\ saving'.pc = "idle" /\ pdf \in Pages
    BY <1>13 DEF Start, Idle, HlTypes
  <2>2. \A p \in HlPages : OfKind(pdf[p], "ours") = Created(store', p)
    BY <2>1, LoadMatches
  <2> QED
    BY <2>1, <2>2 DEF SavedInv, Synced
<1>14. CASE UNCHANGED hlVars
  BY <1>14 DEF hlVars, storeVars, saveVars, keyVars, SavedInv, Synced, InBetween
<1> QED
  BY <1>1, <1>2, <1>3, <1>4, <1>5, <1>6, <1>7, <1>8, <1>9, <1>10, <1>11, <1>12, <1>13, <1>14,
     <1>15
  DEF HlNext, UserAction

-----------------------------------------------------------------------------
(* One yank, one group.                                                    *)

(* Somewhere there is a highlight of that group and that yank: in the      *)
(* store, in the document or in the file.                                  *)
Marked(g, i) ==
    \/ \E k \in DOMAIN store : store[k].group = g /\ store[k].id = i
    \/ \E p \in HlPages : \E k \in DOMAIN docAnnots[p] :
         docAnnots[p][k].kind = "ours" /\ docAnnots[p][k].group = g /\ docAnnots[p][k].id = i
    \/ \E p \in HlPages : \E k \in DOMAIN pdf[p] :
         pdf[p][k].kind = "ours" /\ pdf[p][k].group = g /\ pdf[p][k].id = i

(* While a session runs, the next group is past all of these; after a      *)
(* crash nobody yanks, and the next session counts from the file.          *)
GroupInv ==
    \A g \in Nat, i \in Nat :
        Marked(g, i) => /\ \A j \in Nat : Marked(g, j) => i = j
                        /\ g < nextGroup

(* A file's highlights are all loaded, and nothing else is.                *)
LEMMA LoadKnows ==
    ASSUME NEW pages \in Pages
    PROVE  /\ \A k \in DOMAIN LoadFromPdf(pages) :
                \E p \in HlPages : \E i \in DOMAIN pages[p] :
                   /\ pages[p][i].kind = "ours"
                   /\ pages[p][i].group = LoadFromPdf(pages)[k].group
                   /\ pages[p][i].id = LoadFromPdf(pages)[k].id
           /\ \A p \in HlPages : \A i \in DOMAIN pages[p] :
                pages[p][i].kind = "ours" =>
                  \E k \in DOMAIN LoadFromPdf(pages) :
                    LoadFromPdf(pages)[k].group = pages[p][i].group
<1>1. PICK l \in Seq(Item) : l = LoadFromPdf(pages)
  BY LoadIsByPage
<1>2. ASSUME NEW k \in DOMAIN l
      PROVE  \E p \in HlPages : \E i \in DOMAIN pages[p] :
               /\ pages[p][i].kind = "ours"
               /\ pages[p][i].group = l[k].group /\ pages[p][i].id = l[k].id
  <2>1. PICK p \in HlPages : p = l[k].page
    <3>1. l[k] \in Item
      OBVIOUS
    <3> QED
      BY <3>1 DEF Item
  <2>2. PICK on \in Seq(Item) : on = Loaded(pages, p) /\ OnPage(l, p) = on
    BY <1>1, LoadIsByPage, LoadedType
  <2>3. PICK j \in DOMAIN on : on[j] = l[k]
    <3> DEFINE at == {i \in DOMAIN l : l[i].page = p}
    <3>1. k \in at /\ OnPage(l, p) = Picked(l, at)
      BY <2>1 DEF OnPage
    <3> HIDE DEF at
    <3> QED
      BY <2>2, <3>1, PickedRange
  <2>4. pages[p] \in Seq(Annotation)
    BY DEF Pages
  <2>5. PICK ours \in Seq(Annotation) : ours = OfKind(pages[p], "ours")
    BY <2>4, OfKindType
  <2>6. /\ j \in DOMAIN ours /\ on[j].group = ours[j].group /\ on[j].id = ours[j].id
    BY <2>2, <2>3, <2>5, LoadedType
  <2>7. \E i \in DOMAIN pages[p] : ours[j] = pages[p][i]
    BY <2>4, <2>5, <2>6, OfKindType
  <2>8. ours[j].kind = "ours"
    BY <2>4, <2>5, <2>6, OfKindType
  <2> QED
    BY <2>3, <2>6, <2>7, <2>8
<1>3. ASSUME NEW p \in HlPages, NEW i \in DOMAIN pages[p], pages[p][i].kind = "ours"
      PROVE  \E k \in DOMAIN l : l[k].group = pages[p][i].group
  <2>1. pages[p] \in Seq(Annotation)
    BY DEF Pages
  <2>2. PICK j \in DOMAIN OfKind(pages[p], "ours") : OfKind(pages[p], "ours")[j] = pages[p][i]
    <3> DEFINE s == pages[p]
    <3>1. s[i].kind = "ours" /\ i \in DOMAIN s /\ s \in Seq(Annotation)
      BY <1>3, <2>1
    <3> HIDE DEF s
    <3>2. \A m \in DOMAIN s : s[m].kind = "ours" =>
            \E j \in DOMAIN OfKind(s, "ours") : OfKind(s, "ours")[j] = s[m]
      BY <3>1, OfKindType
    <3>3. \E j \in DOMAIN OfKind(s, "ours") : OfKind(s, "ours")[j] = s[i]
      BY <3>1, <3>2
    <3> QED
      BY <3>3 DEF s
  <2>3. j \in DOMAIN Loaded(pages, p) /\ Loaded(pages, p)[j].group = pages[p][i].group
    BY <2>2, LoadedType
  <2>4. OnPage(l, p) = Loaded(pages, p)
    BY <1>1, LoadIsByPage
  <2>5. \E k \in DOMAIN l : Loaded(pages, p)[j] = l[k]
    BY <2>3, <2>4, OnPageType
  <2> QED
    BY <2>3, <2>5
<1> QED
  BY <1>1, <1>2, <1>3

(* In the file a session starts with, a group has one yank.                *)
LEMMA GroupInit ==
    ASSUME HlInit
    PROVE  GroupInv
<1>1. pdf \in InitialPdfs /\ pdf \in Pages /\ docAnnots = pdf /\ store = LoadFromPdf(pdf)
  BY HighlightsAssumption DEF HlInit, Pages
<1>2. ASSUME NEW g \in Nat, NEW i \in Nat, Marked(g, i)
      PROVE  \E p \in HlPages : \E k \in DOMAIN pdf[p] :
               pdf[p][k].kind = "ours" /\ pdf[p][k].group = g /\ pdf[p][k].id = i
  BY <1>1, <1>2, LoadKnows DEF Marked
<1>3. ASSUME NEW g \in Nat, NEW i \in Nat, NEW j \in Nat, Marked(g, i), Marked(g, j)
      PROVE  i = j
  <2>1. PICK p \in HlPages : \E k \in DOMAIN pdf[p] :
          pdf[p][k].kind = "ours" /\ pdf[p][k].group = g /\ pdf[p][k].id = i
    BY <1>2, <1>3
  <2>2. PICK k \in DOMAIN pdf[p] :
          pdf[p][k].kind = "ours" /\ pdf[p][k].group = g /\ pdf[p][k].id = i
    BY <2>1
  <2>3. PICK q \in HlPages : \E m \in DOMAIN pdf[q] :
          pdf[q][m].kind = "ours" /\ pdf[q][m].group = g /\ pdf[q][m].id = j
    BY <1>2, <1>3
  <2>4. PICK m \in DOMAIN pdf[q] :
          pdf[q][m].kind = "ours" /\ pdf[q][m].group = g /\ pdf[q][m].id = j
    BY <2>3
  <2>5. g # NoGroup
    BY DEF NoGroup
  <2>6. \A x, y \in HlPages : \A a \in DOMAIN pdf[x], b \in DOMAIN pdf[y] :
          /\ pdf[x][a].kind = "ours" /\ pdf[y][b].kind = "ours"
          /\ pdf[x][a].group = pdf[y][b].group /\ pdf[x][a].group # NoGroup
          => pdf[x][a].id = pdf[y][b].id
    BY <1>1, HighlightsAssumption, ZenonT(30)
  <2> QED
    BY <2>2, <2>4, <2>5, <2>6
<1>4. ASSUME NEW g \in Nat, NEW i \in Nat, Marked(g, i) PROVE g < nextGroup
  <2>1. \E k \in DOMAIN store : store[k].group = g
    BY <1>1, <1>2, <1>4, LoadKnows
  <2>2. nextGroup = FirstFreeGroup(store) /\ store \in Seq(Item)
    BY <1>1, LoadIsByPage DEF HlInit
  <2> QED
    BY <2>1, <2>2, FirstFreeIsFree
<1> QED
  BY <1>3, <1>4 DEF GroupInv

(* No step invents a highlight but a yank, and that under the next group.  *)
LEMMA MarkedStep ==
    ASSUME HlTypes, [HlNext]_hlVars, NEW g \in Nat, NEW i \in Nat, Marked(g, i)'
    PROVE  \/ Marked(g, i)
           \/ g = nextGroup /\ i = yanks + 1 /\ \E ps \in SUBSET HlPages : Yank(ps)
<1>1. ASSUME NEW k \in DOMAIN store', store'[k].group = g, store'[k].id = i
      PROVE  \/ Marked(g, i)
             \/ g = nextGroup /\ i = yanks + 1 /\ \E ps \in SUBSET HlPages : Yank(ps)
  <2>1. CASE store' = store
    BY <1>1, <2>1 DEF Marked
  <2>2. ASSUME NEW ps \in SUBSET HlPages, Yank(ps)
        PROVE  Marked(g, i) \/ (g = nextGroup /\ i = yanks + 1)
    <3>1. PICK new \in Seq(Item) :
            /\ store' = store \o new
            /\ \A m \in DOMAIN new : new[m].group = nextGroup /\ new[m].id = yanks + 1
      BY <2>2, YankShape
    <3>2. store \in Seq(Item)
      BY DEF HlTypes
    <3>3. \/ k \in DOMAIN store /\ store'[k] = store[k]
          \/ \E m \in DOMAIN new : store'[k] = new[m]
      BY <1>1, <3>1, <3>2, InOneOrTheOther
    <3> QED
      BY <1>1, <3>1, <3>3 DEF Marked
  <2>3. CASE PressY
    BY <1>1, <2>3, PressYShape DEF Marked
  <2>4. CASE Start
    <3>1. store' = LoadFromPdf(pdf) /\ pdf \in Pages
      BY <2>4 DEF Start, HlTypes
    <3> QED
      BY <1>1, <3>1, LoadKnows DEF Marked
  <2> QED
    BY <2>1, <2>2, <2>3, <2>4 DEF HlNext, UserAction, PressX, PressOther, Move, Quit, ApplyPage,
       ApplyBadly, ApplyFails, SaveAtomic, SaveFails, PersistSession, Crash, hlVars, storeVars
<1>2. ASSUME NEW p \in HlPages, NEW k \in DOMAIN docAnnots'[p], docAnnots'[p][k].kind = "ours",
             docAnnots'[p][k].group = g, docAnnots'[p][k].id = i
      PROVE  Marked(g, i)
  <2>1. CASE docAnnots'[p] = docAnnots[p] \/ docAnnots' = pdf
    BY <1>2, <2>1 DEF Marked
  <2>2. ASSUME NEW q \in HlPages, Rewritten(q) PROVE Marked(g, i)
    <3>1. CASE q = p
      BY <1>2, <2>2, <3>1 DEF Rewritten, Marked
    <3>2. CASE q # p
      BY <1>2, <2>2, <3>2 DEF Rewritten, Marked
    <3> QED
      BY <3>1, <3>2
  <2>3. CASE ApplyPage \/ ApplyBadly \/ ApplyFails
    <3>1. docAnnots' = docAnnots \/ \E q \in HlPages : Rewritten(q)
      BY <2>3, ApplyShape, ApplyBadlyShape, ApplyFailsShape
    <3> QED
      BY <2>1, <2>2, <3>1
  <2> QED
    BY <2>1, <2>3, DocumentStep
<1>3. ASSUME NEW p \in HlPages, NEW k \in DOMAIN pdf'[p], pdf'[p][k].kind = "ours",
             pdf'[p][k].group = g, pdf'[p][k].id = i
      PROVE  Marked(g, i)
  BY <1>3, FileStep DEF Marked
<1> QED
  BY <1>1, <1>2, <1>3 DEF Marked

(* So groups stay with their yanks.                                        *)
LEMMA GroupStep ==
    ASSUME HlTypes, GroupInv, [HlNext]_hlVars
    PROVE  GroupInv'
<1>0. nextGroup \in Nat
  BY DEF HlTypes
<1>1. \A g \in Nat, i \in Nat : Marked(g, i) =>
        (\A j \in Nat : Marked(g, j) => i = j) /\ g < nextGroup
  BY DEF GroupInv
<1>2. CASE \E ps \in SUBSET HlPages : Yank(ps)
  <2>1. nextGroup' = nextGroup + 1
    BY <1>2, YankShape
  <2>2. ASSUME NEW g \in Nat, NEW i \in Nat, Marked(g, i)'
        PROVE  Marked(g, i) \/ (g = nextGroup /\ i = yanks + 1)
    BY <2>2, MarkedStep
  <2>3. ASSUME NEW g \in Nat, NEW i \in Nat, Marked(g, i)' PROVE g < nextGroup'
    BY <1>0, <1>1, <2>1, <2>2, <2>3
  <2>4. ASSUME NEW g \in Nat, NEW i \in Nat, NEW j \in Nat, Marked(g, i)', Marked(g, j)'
        PROVE  i = j
    <3>1. g < nextGroup => Marked(g, i) /\ Marked(g, j)
      BY <1>0, <2>2, <2>4
    <3>2. ~ (g < nextGroup) => i = yanks + 1 /\ j = yanks + 1
      BY <1>1, <2>2, <2>4
    <3> QED
      BY <1>1, <3>1, <3>2
  <2> QED
    BY <2>3, <2>4 DEF GroupInv
<1>3. CASE ~ \E ps \in SUBSET HlPages : Yank(ps)
  <2>1. ASSUME NEW g \in Nat, NEW i \in Nat, Marked(g, i)' PROVE Marked(g, i)
    BY <1>3, <2>1, MarkedStep
  <2>2. ASSUME NEW g \in Nat, NEW i \in Nat, Marked(g, i)' PROVE g < nextGroup'
    <3>1. CASE Start
      <4>1. /\ store' = LoadFromPdf(pdf) /\ pdf \in Pages /\ docAnnots' = pdf /\ pdf' = pdf
            /\ \A k \in DOMAIN store' : store'[k].group < nextGroup'
        BY <3>1, StartShape DEF HlTypes
      <4>2. \E k \in DOMAIN store' : store'[k].group = g
        BY <2>2, <4>1, LoadKnows DEF Marked
      <4> QED
        BY <4>1, <4>2
    <3>2. CASE nextGroup' = nextGroup
      BY <1>1, <2>1, <2>2, <3>2
    <3> QED
      BY <1>3, <3>1, <3>2 DEF HlNext, UserAction, PressX, PressY, PressOther, Move, Quit,
         ApplyPage, ApplyBadly, ApplyFails, SaveAtomic, SaveFails, PersistSession, Crash, hlVars, storeVars
  <2> QED
    BY <1>1, <2>1, <2>2 DEF GroupInv
<1> QED
  BY <1>2, <1>3

-----------------------------------------------------------------------------
(* The theorems.                                                           *)

HlInv == HlTypes /\ ForeignInv /\ SavedInv /\ GroupInv

(* The invariant holds of every PDF to start with, ...                     *)
LEMMA HlInvInit == HlInit => HlInv
<1> SUFFICES ASSUME HlInit PROVE HlInv
  OBVIOUS
<1>1. ForeignInv
  BY DEF HlInit, ForeignInv
<1> QED
  BY <1>1, HlTypesInit, SavedInit, GroupInit DEF HlInv

(* ... and every step keeps it.                                            *)
LEMMA HlInvStep == HlInv /\ [HlNext]_hlVars => HlInv'
BY HlTypesStep, ForeignStep, SavedStep, GroupStep DEF HlInv

(* The invariant of the highlights holds throughout, in every session and  *)
(* in the middle of every save.                                            *)
THEOREM HighlightsInvariant == HlSpec => []HlInv
BY HlInvInit, HlInvStep, PTL DEF HlSpec

(* Other tools' annotations are in the file whatever happens: saves, saves *)
(* in which pdfium refuses deletions, Contents or a whole page             *)
(* (apply_store_to_document), the death of the process and new sessions    *)
(* keep each on its page and them in their order.  What an untagged        *)
(* annotation adds to a page is not theirs.                                *)
THEOREM ForeignStays == HlSpec => []ForeignKept
<1>1. HlInv => ForeignKept
  BY DEF HlInv, ForeignInv, ForeignKept, Foreign
<1> QED
  BY <1>1, HighlightsInvariant, PTL

(* As long as pdfium and the disk have refused the session nothing, the    *)
(* file has the highlights of the store, in the middle of                  *)
(* persist_highlights those of the store before the action: the pages it   *)
(* skips need no writing, and nothing is in the file that was deleted.     *)
(* The process may die at any step; a power loss is not in the model.      *)
THEOREM FileIsStore == HlSpec => []SavedIsStore
<1>1. HlInv => SavedIsStore
  <2> SUFFICES ASSUME HlInv, saving.pc # "down", failures = 0
               PROVE  Ours(pdf) = AsAnnotations(IF saving.pc = "apply" THEN before ELSE store)
    BY DEF SavedIsStore, Running, Handling
  <2>1. IF saving.pc = "apply" THEN InBetween ELSE Synced
    BY DEF HlInv, SavedInv
  <2> QED
    BY <2>1 DEF InBetween, Synced, Ours, AsAnnotations
<1> QED
  BY <1>1, HighlightsInvariant, PTL

(* A confirmed delete takes highlights of one yank from one page, whatever *)
(* was yanked, loaded, saved or lost before: next_highlight_group_id is    *)
(* past every group of the store, the document and the file.               *)
THEOREM DeleteIsOneYank == HlSpec => DeleteTakesOneYank
<1>1. HlInv /\ [HlNext]_hlVars =>
        [saving.pc = "idle" /\ awaiting /\ ~awaiting' /\ Len(store') < Len(store) =>
           LET gone == ToSet(store) \ ToSet(store')
           IN  \A g, h \in gone : g.page = h.page /\ g.id = h.id]_hlVars
  <2> DEFINE gone == ToSet(store) \ ToSet(store')
  <2> SUFFICES ASSUME HlInv, HlNext, saving.pc = "idle", awaiting, ~awaiting',
                      Len(store') < Len(store), NEW g \in gone, NEW h \in gone
               PROVE  g.page = h.page /\ g.id = h.id
    BY DEF hlVars
  <2>0. HlTypes /\ GroupInv /\ store \in Seq(Item)
    BY DEF HlInv, HlTypes
  <2>1. CASE PressY
    <3>1. \A i \in DOMAIN store : i \notin Doomed(page) =>
            \E j \in DOMAIN store' : store'[j] = store[i]
      BY <2>0, <2>1, PressYShape
    <3>2. \A x \in gone : \E i \in DOMAIN store : i \in Doomed(page) /\ x = store[i]
      BY <3>1 DEF ToSet
    <3>3. PICK i \in DOMAIN store : i \in Doomed(page) /\ g = store[i]
      BY <3>2
    <3>4. PICK j \in DOMAIN store : j \in Doomed(page) /\ h = store[j]
      BY <3>2
    <3> DEFINE on == {k \in DOMAIN store : store[k].page = page}
               c == store[Max(on)].group
    <3>5. Doomed(page) = IF on = {} THEN {} ELSE IF c = NoGroup THEN {Max(on)}
                         ELSE {k \in on : store[k].group = c}
      BY DEF Doomed
    <3>6. CASE i = j
      BY <3>3, <3>4, <3>6
    <3>7. CASE i # j
      <4>1. /\ store[i].page = page /\ store[j].page = page
            /\ store[i].group = c /\ store[j].group = c /\ c # NoGroup
        BY <3>3, <3>4, <3>5, <3>7
      <4>2. g \in Item /\ h \in Item
        BY <2>0, <3>3, <3>4
      <4> HIDE DEF c
      <4>3. c \in Nat /\ g.id \in Nat /\ h.id \in Nat
        BY <3>3, <4>1, <4>2 DEF Item, Group
      <4>4. Marked(c, g.id) /\ Marked(c, h.id)
        BY <3>3, <3>4, <4>1 DEF Marked
      <4>5. g.id = h.id
        BY <2>0, <4>3, <4>4 DEF GroupInv
      <4> QED
        BY <3>3, <3>4, <4>1, <4>5
    <3> QED
      BY <3>6, <3>7
  <2>2. CASE store' = store
    BY <2>0, <2>2
  <2>3. CASE \E ps \in SUBSET HlPages : Yank(ps)
    BY <2>3 DEF Yank
  <2>4. CASE Start
    BY <2>4 DEF Start
  <2> QED
    BY <2>1, <2>2, <2>3, <2>4 DEF HlNext, UserAction, PressX, PressOther, Move, Quit, ApplyPage,
       ApplyBadly, ApplyFails, SaveAtomic, SaveFails, PersistSession, Crash, storeVars
<1> QED
  BY <1>1, HighlightsInvariant, PTL DEF HlSpec, DeleteTakesOneYank

=============================================================================
