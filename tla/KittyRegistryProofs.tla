------------------------ MODULE KittyRegistryProofs ------------------------
(***************************************************************************)
(* Theorems about KittyRegistry, for every document, every set of          *)
(* fingerprints and every budget.                                          *)
(***************************************************************************)
EXTENDS KittyRegistry, FiniteSetTheorems, TLAPS

Orders == INSTANCE LayoutProofs

-----------------------------------------------------------------------------
(* Counting bytes: the size of a set of pages is finite, additive over     *)
(* disjoint sets, and depends on nothing but the pages' prints.            *)

Prints0 == Prints \cup {NoPrint}

(* The bytes of one page: none, or DecodedBytes of its print.              *)
LEMMA PageUnitsSize ==
    ASSUME NEW m, NEW p, m[p].print \in Prints0
    PROVE  /\ IsFiniteSet(PageUnits(m, p))
           /\ m[p].print = NoPrint => PageUnits(m, p) = {}
           /\ m[p].print # NoPrint =>
                Cardinality(PageUnits(m, p)) = DecodedBytes[m[p].print]
<1>1. CASE m[p].print = NoPrint
  <2>1. PageUnits(m, p) = {}
    BY <1>1 DEF PageUnits, BytesOf
  <2> QED
    BY <2>1, <1>1, FS_EmptySet
<1>2. CASE m[p].print # NoPrint
  <2> DEFINE n == DecodedBytes[m[p].print]
  <2>1. n \in Nat
    BY <1>2, BytesAssumption DEF Prints0
  <2>2. IsFiniteSet(1 .. n) /\ Cardinality(1 .. n) = n
    <3>1. 1 \in Int /\ n \in Int
      BY <2>1
    <3>2. /\ IsFiniteSet(1 .. n)
          /\ Cardinality(1 .. n) = IF 1 > n THEN 0 ELSE n - 1 + 1
      BY <3>1, FS_Interval
    <3> QED
      BY <2>1, <3>2
  <2>3. IsFiniteSet({p}) /\ Cardinality({p}) = 1
    BY FS_Singleton
  <2>4. PageUnits(m, p) = {p} \X (1 .. n)
    BY <1>2 DEF PageUnits, BytesOf
  <2>5. /\ IsFiniteSet({p} \X (1 .. n))
        /\ Cardinality({p} \X (1 .. n)) = 1 * n
    <3> DEFINE P == {p}
               N == 1 .. n
    <3>1. IsFiniteSet(P) /\ Cardinality(P) = 1 /\ IsFiniteSet(N) /\ Cardinality(N) = n
      BY <2>2, <2>3
    <3> HIDE DEF P, N
    <3>2. IsFiniteSet(P \X N) /\ Cardinality(P \X N) = Cardinality(P) * Cardinality(N)
      BY <3>1, FS_Product
    <3>3. IsFiniteSet(P \X N) /\ Cardinality(P \X N) = 1 * n
      BY <3>1, <3>2
    <3> QED
      BY <3>3 DEF P, N
  <2> QED
    BY <1>2, <2>1, <2>4, <2>5
<1> QED
  BY <1>1, <1>2

(* A finite set of pages has finitely many bytes.                          *)
LEMMA ByteUnitsFinite ==
    ASSUME NEW m, NEW S, IsFiniteSet(S), \A p \in S : m[p].print \in Prints0
    PROVE  IsFiniteSet(ByteUnits(m, S)) /\ TransmittedSize(m, S) \in Nat
<1> DEFINE U == {PageUnits(m, p) : p \in S}
           g == [p \in S |-> PageUnits(m, p)]
<1>1. g \in Surjection(S, U)
  BY DEF Surjection
<1>2. IsFiniteSet(U)
  BY <1>1, FS_Surjection
<1>3. \A T \in U : IsFiniteSet(T)
  BY PageUnitsSize
<1>4. IsFiniteSet(UNION U)
  BY <1>2, <1>3, FS_UNION
<1> QED
  BY <1>4, FS_CardinalityType DEF ByteUnits, TransmittedSize

(* Additivity over disjoint sets of pages.                                 *)
LEMMA SizeAdditive ==
    ASSUME NEW m, NEW A, NEW B, IsFiniteSet(A), IsFiniteSet(B), A \cap B = {},
           \A p \in A \cup B : m[p].print \in Prints0
    PROVE  TransmittedSize(m, A \cup B) = TransmittedSize(m, A) + TransmittedSize(m, B)
<1>1. ByteUnits(m, A \cup B) = ByteUnits(m, A) \cup ByteUnits(m, B)
  BY DEF ByteUnits
<1>2. ByteUnits(m, A) \cap ByteUnits(m, B) = {}
  BY DEF ByteUnits, PageUnits
<1>3. /\ IsFiniteSet(ByteUnits(m, A)) /\ IsFiniteSet(ByteUnits(m, B))
      /\ TransmittedSize(m, A) \in Nat /\ TransmittedSize(m, B) \in Nat
  BY ByteUnitsFinite
<1>4. Cardinality(ByteUnits(m, A) \cup ByteUnits(m, B))
        = Cardinality(ByteUnits(m, A)) + Cardinality(ByteUnits(m, B)) - Cardinality({})
  BY <1>2, <1>3, FS_Union
<1>5. Cardinality({}) = 0
  BY FS_EmptySet
<1>6. TransmittedSize(m, A \cup B) = TransmittedSize(m, A) + TransmittedSize(m, B) - 0
  BY <1>1, <1>4, <1>5 DEF TransmittedSize
<1> QED
  BY <1>3, <1>6

(* Only the prints matter.                                                 *)
LEMMA SizeCongruence ==
    ASSUME NEW m, NEW n, NEW S, \A p \in S : m[p].print = n[p].print
    PROVE  TransmittedSize(m, S) = TransmittedSize(n, S)
<1>1. ByteUnits(m, S) = ByteUnits(n, S)
  BY DEF ByteUnits, PageUnits
<1> QED
  BY <1>1 DEF TransmittedSize

(* The size of a single page.                                              *)
LEMMA SizeOfOne ==
    ASSUME NEW m, NEW p, m[p].print \in Prints0
    PROVE  TransmittedSize(m, {p})
             = IF m[p].print = NoPrint THEN 0 ELSE DecodedBytes[m[p].print]
<1>1. ByteUnits(m, {p}) = PageUnits(m, p)
  BY DEF ByteUnits
<1> QED
  BY <1>1, PageUnitsSize, FS_EmptySet DEF TransmittedSize

-----------------------------------------------------------------------------
(* The deque as an order: what touch and retain preserve.                  *)

IsDeque(l, R) ==
    /\ DOMAIN l = R
    /\ \A p \in R : l[p] \subseteq R \ {p}
    /\ \A p, q \in R : p # q => (p \in l[q] <=> q \notin l[p])
    /\ \A p, q \in R : p \in l[q] => l[p] \subseteq l[q]

Touched(l, p) ==
    [q \in DOMAIN l \cup {p} |-> IF q = p THEN DOMAIN l \ {p} ELSE l[q] \ {p}]

(* touch keeps the order total and strict, and adds the page it moves.     *)
LEMMA DequeTouch ==
    ASSUME NEW l, NEW R, NEW p, IsDeque(l, R)
    PROVE  IsDeque(Touched(l, p), R \cup {p})
<1> DEFINE t == Touched(l, p)
           S == R \cup {p}
<1>1. /\ DOMAIN t = S
      /\ t[p] = R \ {p}
      /\ \A q \in R \ {p} : t[q] = l[q] \ {p}
  BY DEF Touched, IsDeque
<1>2. \A q \in S : t[q] \subseteq S \ {q}
  BY <1>1 DEF IsDeque
<1>3. \A q, r \in S : q # r => (q \in t[r] <=> r \notin t[q])
  <2> SUFFICES ASSUME NEW q \in S, NEW r \in S, q # r
               PROVE  q \in t[r] <=> r \notin t[q]
    OBVIOUS
  <2>1. CASE q = p
    BY <1>1, <2>1
  <2>2. CASE r = p
    BY <1>1, <2>2
  <2>3. CASE q # p /\ r # p
    BY <1>1, <2>3 DEF IsDeque
  <2> QED
    BY <2>1, <2>2, <2>3
<1>4. \A q, r \in S : q \in t[r] => t[q] \subseteq t[r]
  <2> SUFFICES ASSUME NEW q \in S, NEW r \in S, q \in t[r]
               PROVE  t[q] \subseteq t[r]
    OBVIOUS
  <2>1. CASE r = p
    BY <1>1, <2>1 DEF IsDeque
  <2>2. CASE r # p
    BY <1>1, <2>2 DEF IsDeque
  <2> QED
    BY <2>1, <2>2
<1> QED
  BY <1>1, <1>2, <1>3, <1>4 DEF IsDeque

(* retain keeps the order of what is left.                                 *)
LEMMA DequeRetain ==
    ASSUME NEW l, NEW R, NEW V, IsDeque(l, R)
    PROVE  IsDeque([q \in DOMAIN l \ V |-> l[q] \ V], R \ V)
<1> DEFINE t == [q \in DOMAIN l \ V |-> l[q] \ V]
<1>1. DOMAIN t = R \ V /\ \A q \in R \ V : t[q] = l[q] \ V
  BY DEF IsDeque
<1> HIDE DEF t
<1>2. /\ \A q \in R \ V : t[q] \subseteq (R \ V) \ {q}
      /\ \A q, r \in R \ V : q # r => (q \in t[r] <=> r \notin t[q])
      /\ \A q, r \in R \ V : q \in t[r] => t[q] \subseteq t[r]
  BY <1>1 DEF IsDeque
<1>3. IsDeque(t, R \ V)
  BY <1>1, <1>2 DEF IsDeque
<1> QED
  BY <1>3 DEF t

-----------------------------------------------------------------------------
(***************************************************************************)
(* The inductive invariant is the conjunction of the registry's safety     *)
(* invariants: the byte total needs the deque (a victim is resident), the  *)
(* intervals need the types.                                               *)
(***************************************************************************)
IInv ==
    /\ TypeOK
    /\ LruMirrorsPages
    /\ TransmittedBytesExact
    /\ NoLiveDeleteQueued
    /\ EpochIntervals

(* LruMirrorsPages is about the sequence lru; IsDeque is, too.             *)
LEMMA LruIsDeque == LruMirrorsPages <=> IsDeque(lru, Resident)
BY DEF LruMirrorsPages, IsDeque

(* Facts about a typed map that every case below uses.                     *)
LEMMA TypedMap ==
    ASSUME TypeOK
    PROVE  /\ IsFiniteSet(Resident)
           /\ \A p \in Resident : pages[p] \in PageEntry /\ pages[p].print \in Prints0
           /\ \A S \in SUBSET Resident :
                 IsFiniteSet(S) /\ TransmittedSize(pages, S) \in Nat
<1>1. IsFiniteSet(Resident)
  BY PagesAssumption, FS_Subset DEF TypeOK
<1>2. \A p \in Resident : pages[p] \in PageEntry /\ pages[p].print \in Prints0
  BY DEF TypeOK, PageEntry, Prints0
<1>3. \A S \in SUBSET Resident : IsFiniteSet(S)
  BY <1>1, FS_Subset
<1> QED
  BY <1>1, <1>2, <1>3, ByteUnitsFinite

(* The invariant holds at first.                                           *)
LEMMA InitInductive == Init => IInv
<1> SUFFICES ASSUME Init PROVE IInv
  OBVIOUS
<1>1. pages = << >> /\ lru = << >> /\ DOMAIN << >> = {}
  BY DEF Init
<1>2. TypeOK
  BY <1>1 DEF Init, TypeOK, Resident
<1>3. LruMirrorsPages
  BY <1>1 DEF LruMirrorsPages, Resident
<1>4. TransmittedBytesExact
  <2>1. ByteUnits(pages, Resident) = {}
    BY <1>1 DEF ByteUnits, Resident
  <2> QED
    BY <2>1, FS_EmptySet DEF Init, TransmittedBytesExact, TransmittedSize
<1>5. NoLiveDeleteQueued
  BY DEF Init, NoLiveDeleteQueued
<1>6. EpochIntervals
  BY <1>1 DEF EpochIntervals, Transmitted, Resident
<1> QED
  BY <1>2, <1>3, <1>4, <1>5, <1>6 DEF IInv

-----------------------------------------------------------------------------
(* One lemma per action: it preserves the inductive invariant.             *)

(* build_transmit keeps it,                                                *)
LEMMA BuildStep ==
    ASSUME IInv, NEW p \in Pages, NEW f \in Prints, BuildTransmit(p, f)
    PROVE  IInv'
<1> USE DEF IInv
<1>1. TypeOK' /\ Resident' = Resident \cup {p}
  BY DEF BuildTransmit, WithEntry, Touch, TypeOK, PageEntry, Resident
<1>2. LruMirrorsPages'
  <2>1. lru' = Touched(lru, p)
    BY DEF BuildTransmit, Touch, Touched
  <2>2. IsDeque(lru', Resident')
    BY <1>1, <2>1, LruIsDeque, DequeTouch
  <2> QED
    BY <2>2 DEF LruMirrorsPages, IsDeque
<1>3. /\ \A q \in Resident : /\ pages'[q].print = pages[q].print
                             /\ pages'[q].snap = pages[q].snap
      /\ p \notin Resident => pages'[p].print = NoPrint
  BY DEF BuildTransmit, WithEntry, Resident, TypeOK, PageEntry
<1>4. Transmitted' = Transmitted
  BY <1>1, <1>3 DEF Transmitted, Resident
<1>5. TransmittedBytesExact'
  <2>1. TransmittedSize(pages', Resident) = TransmittedSize(pages, Resident)
    BY <1>3, SizeCongruence
  <2>2. TransmittedSize(pages', Resident') = TransmittedSize(pages, Resident)
    <3>1. CASE p \in Resident
      BY <1>1, <2>1, <3>1
    <3>2. CASE p \notin Resident
      <4>1. /\ IsFiniteSet(Resident) /\ IsFiniteSet({p}) /\ Resident \cap {p} = {}
            /\ \A q \in Resident \cup {p} : pages'[q].print \in Prints0
        BY <1>3, <3>2, TypedMap, FS_Singleton DEF Prints0
      <4>2. TransmittedSize(pages', Resident \cup {p})
              = TransmittedSize(pages', Resident) + TransmittedSize(pages', {p})
        BY <4>1, SizeAdditive
      <4>3. TransmittedSize(pages', {p}) = 0
        BY <1>3, <3>2, SizeOfOne DEF Prints0
      <4>4. TransmittedSize(pages, Resident) \in Nat
        BY TypedMap
      <4> QED
        BY <1>1, <2>1, <4>2, <4>3, <4>4
    <3> QED
      BY <3>1, <3>2
  <2> QED
    BY <2>2 DEF TransmittedBytesExact, BuildTransmit
<1>6. NoLiveDeleteQueued'
  BY <1>4 DEF NoLiveDeleteQueued, BuildTransmit
<1>7. EpochIntervals'
  BY <1>3, <1>4 DEF EpochIntervals, BuildTransmit, Transmitted
<1> QED
  BY <1>1, <1>2, <1>5, <1>6, <1>7

(* mark_transmitted keeps it,                                              *)
LEMMA MarkStep ==
    ASSUME IInv, NEW p \in Pages, NEW f \in Prints, MarkTransmitted(p, f)
    PROVE  IInv'
<1> USE DEF IInv
<1> DEFINE rest == Resident \ {p}
           prev == IF p \in Transmitted THEN DecodedBytes[pages[p].print] ELSE 0
<1>1. /\ Resident' = Resident \cup {p}
      /\ pages'[p].print = f
      /\ pages'[p].snap = transmitted_bytes_cumulative
      /\ \A q \in rest : pages'[q] = pages[q]
  BY DEF MarkTransmitted, DropPendingDelete, WithEntry, Resident
<1>2. f # NoPrint /\ DecodedBytes[f] \in Nat
  BY PrintsAssumption, BytesAssumption
<1>3. Transmitted' = (Transmitted \ {p}) \cup {p}
  BY <1>1, <1>2 DEF Transmitted
<1>4. LruMirrorsPages'
  <2>1. lru' = Touched(lru, p)
    BY DEF MarkTransmitted, DropPendingDelete, Touch, Touched
  <2>2. IsDeque(lru', Resident')
    BY <1>1, <2>1, LruIsDeque, DequeTouch
  <2> QED
    BY <2>2 DEF LruMirrorsPages, IsDeque
<1>5. /\ IsFiniteSet(rest) /\ IsFiniteSet({p}) /\ rest \cap {p} = {}
      /\ \A q \in rest : pages[q].print \in Prints0
      /\ TransmittedSize(pages, rest) \in Nat
  BY TypedMap, FS_Singleton
<1>6. transmitted_bytes = TransmittedSize(pages, rest) + prev
  <2>1. CASE p \in Resident
    <3>1. pages[p].print \in Prints0
      BY <2>1, TypedMap
    <3>2. TransmittedSize(pages, rest \cup {p})
            = TransmittedSize(pages, rest) + TransmittedSize(pages, {p})
      BY <1>5, <3>1, SizeAdditive
    <3>3. TransmittedSize(pages, {p}) = prev
      BY <2>1, <3>1, SizeOfOne DEF Transmitted
    <3>4. rest \cup {p} = Resident
      BY <2>1
    <3> QED
      BY <3>2, <3>3, <3>4 DEF TransmittedBytesExact
  <2>2. CASE p \notin Resident
    <3>1. rest = Resident /\ prev = 0
      BY <2>2 DEF Transmitted
    <3>2. transmitted_bytes = TransmittedSize(pages, rest)
      BY <3>1 DEF TransmittedBytesExact
    <3>3. transmitted_bytes \in Nat
      BY DEF TypeOK
    <3> HIDE DEF prev, rest
    <3> QED
      BY <3>1, <3>2, <3>3
  <2> QED
    BY <2>1, <2>2
<1>7. prev \in Nat
  BY TypedMap, BytesAssumption DEF Transmitted, Prints0
<1>8. transmitted_bytes' = TransmittedSize(pages, rest) + DecodedBytes[f]
  <2>1. transmitted_bytes' = SaturatingSub(transmitted_bytes, prev) + DecodedBytes[f]
    BY DEF MarkTransmitted, DropPendingDelete
  <2> HIDE DEF prev, rest
  <2> QED
    BY <1>5, <1>6, <1>7, <2>1 DEF SaturatingSub
<1>9. TransmittedBytesExact'
  <2>1. TransmittedSize(pages', rest) = TransmittedSize(pages, rest)
    BY <1>1, SizeCongruence
  <2>2. TransmittedSize(pages', {p}) = DecodedBytes[f]
    BY <1>1, <1>2, SizeOfOne DEF Prints0
  <2>3. TransmittedSize(pages', rest \cup {p})
          = TransmittedSize(pages', rest) + TransmittedSize(pages', {p})
    <3>1. \A q \in rest \cup {p} : pages'[q].print \in Prints0
      BY <1>1, <1>5 DEF Prints0
    <3> QED
      BY <1>5, <3>1, SizeAdditive
  <2>4. Resident' = rest \cup {p}
    BY <1>1
  <2> QED
    BY <1>8, <2>1, <2>2, <2>3, <2>4 DEF TransmittedBytesExact
<1>10. TypeOK'
  <2>1. pages' \in [Resident' -> PageEntry]
    BY DEF MarkTransmitted, DropPendingDelete, WithEntry, Resident, TypeOK, PageEntry
  <2>2. transmitted_bytes' \in Nat
    BY <1>2, <1>5, <1>8
  <2>3. transmitted_bytes_cumulative' \in Nat
    BY <1>2 DEF MarkTransmitted, DropPendingDelete, TypeOK
  <2>4. DOMAIN lru' \subseteq Pages /\ lru' \in [DOMAIN lru' -> SUBSET Pages]
    BY DEF MarkTransmitted, DropPendingDelete, Touch, TypeOK
  <2> QED
    BY <1>1, <2>1, <2>2, <2>3, <2>4 DEF MarkTransmitted, DropPendingDelete, TypeOK
<1>11. NoLiveDeleteQueued'
  BY <1>3 DEF NoLiveDeleteQueued, MarkTransmitted, DropPendingDelete
<1>12. EpochIntervals'
  <2>1. transmitted_bytes_cumulative' = transmitted_bytes_cumulative + DecodedBytes[f]
    BY DEF MarkTransmitted, DropPendingDelete
  <2>2. \A q \in Transmitted \ {p} :
           /\ pages'[q] = pages[q]
           /\ pages[q].snap \in Nat /\ DecodedBytes[pages[q].print] \in Nat
    BY <1>1, TypedMap, BytesAssumption DEF Transmitted, PageEntry, Prints0
  <2>3. transmitted_bytes_cumulative \in Nat
    BY DEF TypeOK
  <2> QED
    BY <1>1, <1>2, <1>3, <2>1, <2>2, <2>3 DEF EpochIntervals
<1> QED
  BY <1>4, <1>9, <1>10, <1>11, <1>12

(* invalidate_transmit keeps it,                                           *)
LEMMA InvalidateOneStep ==
    ASSUME IInv, NEW p \in Pages, InvalidateTransmit(p)
    PROVE  IInv'
<1> USE DEF IInv
<1> DEFINE rest == Resident \ {p}
           prev == IF p \in Transmitted THEN DecodedBytes[pages[p].print] ELSE 0
<1>1. /\ p \in Resident /\ Resident' = Resident
      /\ pages'[p].print = NoPrint
      /\ \A q \in rest : pages'[q] = pages[q]
      /\ pages' \in [Resident -> PageEntry]
  BY DEF InvalidateTransmit, Resident, TypeOK, PageEntry
<1>2. Transmitted' = Transmitted \ {p}
  BY <1>1 DEF Transmitted
<1>3. /\ IsFiniteSet(rest) /\ IsFiniteSet({p}) /\ rest \cap {p} = {}
      /\ \A q \in Resident : pages[q].print \in Prints0
      /\ TransmittedSize(pages, rest) \in Nat
      /\ rest \cup {p} = Resident
  BY <1>1, TypedMap, FS_Singleton
<1>4. prev \in Nat
  BY <1>3, BytesAssumption DEF Transmitted, Prints0
<1>5. transmitted_bytes = TransmittedSize(pages, rest) + prev
  <2>1. TransmittedSize(pages, rest \cup {p})
          = TransmittedSize(pages, rest) + TransmittedSize(pages, {p})
    BY <1>1, <1>3, SizeAdditive
  <2>2. TransmittedSize(pages, {p}) = prev
    BY <1>1, <1>3, SizeOfOne DEF Transmitted
  <2> QED
    BY <1>3, <2>1, <2>2 DEF TransmittedBytesExact
<1>6. transmitted_bytes' = TransmittedSize(pages, rest)
  <2>1. transmitted_bytes' = SaturatingSub(transmitted_bytes, prev)
    <3>1. CASE p \in Transmitted
      BY <3>1 DEF InvalidateTransmit
    <3>2. CASE p \notin Transmitted
      BY <3>2 DEF InvalidateTransmit, SaturatingSub, TypeOK
    <3> QED
      BY <3>1, <3>2
  <2> HIDE DEF prev, rest
  <2> QED
    BY <1>3, <1>4, <1>5, <2>1 DEF SaturatingSub
<1>7. TransmittedBytesExact'
  <2>1. TransmittedSize(pages', rest) = TransmittedSize(pages, rest)
    BY <1>1, SizeCongruence
  <2>2. TransmittedSize(pages', {p}) = 0
    BY <1>1, SizeOfOne DEF Prints0
  <2>3. TransmittedSize(pages', rest \cup {p})
          = TransmittedSize(pages', rest) + TransmittedSize(pages', {p})
    <3>1. \A q \in rest \cup {p} : pages'[q].print \in Prints0
      BY <1>1, <1>3 DEF Prints0
    <3> QED
      BY <1>3, <3>1, SizeAdditive
  <2>4. TransmittedSize(pages', Resident') = TransmittedSize(pages, rest) + 0
    BY <1>1, <1>3, <2>1, <2>2, <2>3
  <2>5. TransmittedSize(pages', Resident') = TransmittedSize(pages, rest)
    <3> HIDE DEF rest
    <3> QED
      BY <1>3, <2>4
  <2> QED
    BY <1>6, <2>5 DEF TransmittedBytesExact
<1>8. TypeOK'
  BY <1>1, <1>3, <1>6 DEF TypeOK, InvalidateTransmit
<1>9. LruMirrorsPages'
  BY <1>1 DEF LruMirrorsPages, InvalidateTransmit
<1>10. NoLiveDeleteQueued'
  BY <1>2 DEF NoLiveDeleteQueued, InvalidateTransmit
<1>11. EpochIntervals'
  BY <1>1, <1>2 DEF EpochIntervals, InvalidateTransmit, Transmitted
<1> QED
  BY <1>7, <1>8, <1>9, <1>10, <1>11

(* invalidate_all_transmits keeps it,                                      *)
LEMMA InvalidateAllStep ==
    ASSUME IInv, InvalidateAllTransmits
    PROVE  IInv'
<1> USE DEF IInv
<1>1. /\ Resident' = Resident
      /\ \A q \in Resident : pages'[q].print = NoPrint
      /\ pages' \in [Resident -> PageEntry]
  BY DEF InvalidateAllTransmits, Resident, TypeOK, PageEntry
<1>2. Transmitted' = {}
  BY <1>1 DEF Transmitted
<1>3. TransmittedBytesExact'
  <2>1. \A q \in Resident : PageUnits(pages', q) = {}
    BY <1>1 DEF PageUnits, BytesOf
  <2>2. ByteUnits(pages', Resident) = {}
    BY <2>1 DEF ByteUnits
  <2> QED
    BY <1>1, <2>2, FS_EmptySet
    DEF TransmittedBytesExact, TransmittedSize, InvalidateAllTransmits
<1> QED
  BY <1>1, <1>2, <1>3
  DEF TypeOK, LruMirrorsPages, NoLiveDeleteQueued, EpochIntervals, InvalidateAllTransmits

(* and evict_to_budget keeps it.                                           *)
LEMMA EvictStep ==
    ASSUME IInv, NEW pinned \in SUBSET Pages, EvictToBudget(pinned)
    PROVE  IInv' /\ Resident \ Resident' \subseteq pending_deletes'
<1> USE DEF IInv
<1> DEFINE V == Victims(pinned)
           rest == Resident \ V
<1>1. V \subseteq Resident
  BY DEF Victims, LruMirrorsPages
<1>2. /\ Resident' = rest
      /\ \A q \in rest : pages'[q] = pages[q]
      /\ pages' \in [rest -> PageEntry]
  BY DEF EvictToBudget, QueueDeletes, Resident, TypeOK
<1>3. Transmitted' = Transmitted \ V
  BY <1>2 DEF Transmitted
<1>4. /\ transmitted_bytes' = SaturatingSub(transmitted_bytes, TransmittedSize(pages, V))
      /\ pending_deletes' = pending_deletes \cup V
      /\ lru' = [p \in DOMAIN lru \ V |-> lru[p] \ V]
      /\ UNCHANGED <<transmitted_bytes_cumulative, drained>>
  BY DEF EvictToBudget, QueueDeletes
<1>5. LruMirrorsPages'
  <2>1. IsDeque(lru', Resident')
    BY <1>2, <1>4, LruIsDeque, DequeRetain
  <2> QED
    BY <2>1 DEF LruMirrorsPages, IsDeque
<1>6. /\ TransmittedSize(pages, V) \in Nat /\ TransmittedSize(pages, rest) \in Nat
      /\ transmitted_bytes = TransmittedSize(pages, rest) + TransmittedSize(pages, V)
  <2>1. /\ IsFiniteSet(V) /\ IsFiniteSet(rest) /\ rest \cap V = {}
        /\ rest \cup V = Resident
        /\ \A q \in Resident : pages[q].print \in Prints0
        /\ TransmittedSize(pages, V) \in Nat /\ TransmittedSize(pages, rest) \in Nat
    BY <1>1, TypedMap
  <2> HIDE DEF V, rest
  <2>2. TransmittedSize(pages, rest \cup V)
          = TransmittedSize(pages, rest) + TransmittedSize(pages, V)
    BY <2>1, SizeAdditive
  <2> QED
    BY <2>1, <2>2 DEF TransmittedBytesExact
<1>7. transmitted_bytes' = TransmittedSize(pages, rest)
  <2> HIDE DEF V, rest
  <2> QED
    BY <1>4, <1>6 DEF SaturatingSub
<1>8. TransmittedBytesExact'
  <2>1. TransmittedSize(pages', rest) = TransmittedSize(pages, rest)
    BY <1>2, SizeCongruence
  <2> QED
    BY <1>2, <1>7, <2>1 DEF TransmittedBytesExact
<1>9. TypeOK'
  BY <1>1, <1>2, <1>4, <1>6, <1>7 DEF TypeOK
<1>10. NoLiveDeleteQueued'
  BY <1>3, <1>4 DEF NoLiveDeleteQueued
<1>11. EpochIntervals'
  BY <1>2, <1>3, <1>4 DEF EpochIntervals, Transmitted
<1>12. Resident \ Resident' \subseteq pending_deletes'
  BY <1>2, <1>4
<1> QED
  BY <1>5, <1>8, <1>9, <1>10, <1>11, <1>12

(* The three steps that only move ids between the queue and its taker.     *)
LEMMA QueueStep ==
    ASSUME IInv, TakePendingDeletes \/ PutBackPendingDeletes \/ ShipDeletes
    PROVE  IInv'
<1> USE DEF IInv
<1>1. UNCHANGED <<pages, lru, transmitted_bytes, transmitted_bytes_cumulative>>
  BY DEF TakePendingDeletes, PutBackPendingDeletes, ShipDeletes
<1>2. /\ Transmitted \subseteq Resident
      /\ pending_deletes' \cap Transmitted = {}
      /\ pending_deletes' \subseteq Pages /\ drained' \subseteq Pages
  BY DEF TakePendingDeletes, PutBackPendingDeletes, ShipDeletes,
         NoLiveDeleteQueued, Transmitted, TypeOK
<1>3. Resident' = Resident /\ Transmitted' = Transmitted
  BY <1>1 DEF Resident, Transmitted
<1>4. TransmittedBytesExact'
  BY <1>1, <1>3 DEF TransmittedBytesExact, TransmittedSize, ByteUnits, PageUnits
<1>5. TypeOK' /\ LruMirrorsPages'
  BY <1>1, <1>2, <1>3 DEF TypeOK, LruMirrorsPages
<1>6. NoLiveDeleteQueued' /\ EpochIntervals'
  BY <1>1, <1>2, <1>3 DEF NoLiveDeleteQueued, EpochIntervals
<1> QED
  BY <1>4, <1>5, <1>6

-----------------------------------------------------------------------------
(* Every step of the registry, in whatever order the program calls it.     *)
LEMMA StepInductive == IInv /\ [Next]_vars => IInv'
<1> SUFFICES ASSUME IInv, [Next]_vars PROVE IInv'
  OBVIOUS
<1>1. CASE \E p \in Pages, f \in Prints : BuildTransmit(p, f)
  BY <1>1, BuildStep
<1>2. CASE \E p \in Pages, f \in Prints : MarkTransmitted(p, f)
  BY <1>2, MarkStep
<1>3. CASE \E p \in Pages : InvalidateTransmit(p)
  BY <1>3, InvalidateOneStep
<1>4. CASE InvalidateAllTransmits
  BY <1>4, InvalidateAllStep
<1>5. CASE \E pinned \in SUBSET Pages : EvictToBudget(pinned)
  BY <1>5, EvictStep
<1>6. CASE TakePendingDeletes \/ PutBackPendingDeletes \/ ShipDeletes
  BY <1>6, QueueStep
<1>7. CASE UNCHANGED vars
  BY <1>7 DEF vars, IInv, TypeOK, LruMirrorsPages, TransmittedBytesExact,
       NoLiveDeleteQueued, EpochIntervals, Transmitted, Resident,
       TransmittedSize, ByteUnits, PageUnits
<1> QED
  BY <1>1, <1>2, <1>3, <1>4, <1>5, <1>6, <1>7 DEF Next

(* The conjunction of the registry's safety invariants is an invariant.    *)
THEOREM RegistryInvariant == Spec => []IInv
BY InitInductive, StepInductive, PTL DEF Spec

(* The type invariant of KittyPageRegistry: map, deque and queue are over  *)
(* the pages of the document, prints and sizes of the kinds the calls hand *)
(* in.  The counters stay natural by the saturating subtractions alone;    *)
(* that none of these clips is SubtractionsNeverClip.                      *)
THEOREM TypeCorrect == Spec => []TypeOK
<1>1. IInv => TypeOK
  BY DEF IInv
<1> QED
  BY <1>1, RegistryInvariant, PTL

(* The deque and the map never disagree (I1 and I5 of registry_proptests). *)
THEOREM LruMirrorsPagesAlways == Spec => []LruMirrorsPages
<1>1. IInv => LruMirrorsPages
  BY DEF IInv
<1> QED
  BY <1>1, RegistryInvariant, PTL

(* The running byte total is exact, so the debug_assert of evict_to_budget *)
(* cannot fire.                                                            *)
THEOREM ByteAccountingExact == Spec => []TransmittedBytesExact
<1>1. IInv => TransmittedBytesExact
  BY DEF IInv
<1> QED
  BY <1>1, RegistryInvariant, PTL

(* Every subtraction of a counter in kitty_pages.rs is a saturating_sub.   *)
(* None has to be: what mark_transmitted, invalidate_transmit and          *)
(* evict_to_budget take from the total is part of it, and no page was      *)
(* transmitted later than the cumulative count says (is_eviction_at_risk). *)
SubtractionsExact ==
    /\ \A S \in SUBSET Resident : TransmittedSize(pages, S) <= transmitted_bytes
    /\ \A p \in Transmitted :
          /\ DecodedBytes[pages[p].print] <= transmitted_bytes
          /\ pages[p].snap <= transmitted_bytes_cumulative

THEOREM SubtractionsNeverClip == Spec => []SubtractionsExact
<1>1. IInv => SubtractionsExact
  <2> SUFFICES ASSUME IInv PROVE SubtractionsExact
    OBVIOUS
  <2> USE DEF IInv
  <2>1. ASSUME NEW S \in SUBSET Resident
        PROVE  TransmittedSize(pages, S) \in Nat /\ TransmittedSize(pages, S) <= transmitted_bytes
    <3> DEFINE rest == Resident \ S
    <3>1. /\ IsFiniteSet(S) /\ IsFiniteSet(rest) /\ rest \cap S = {}
          /\ rest \cup S = Resident
          /\ \A q \in Resident : pages[q].print \in Prints0
          /\ TransmittedSize(pages, S) \in Nat /\ TransmittedSize(pages, rest) \in Nat
      BY TypedMap
    <3> HIDE DEF rest
    <3>2. TransmittedSize(pages, rest \cup S)
            = TransmittedSize(pages, rest) + TransmittedSize(pages, S)
      BY <3>1, SizeAdditive
    <3>3. transmitted_bytes = TransmittedSize(pages, rest) + TransmittedSize(pages, S)
      BY <3>1, <3>2 DEF TransmittedBytesExact
    <3> QED
      <4> DEFINE a == TransmittedSize(pages, rest)
                 b == TransmittedSize(pages, S)
      <4>1. a \in Nat /\ b \in Nat /\ transmitted_bytes = a + b
        BY <3>1, <3>3
      <4> HIDE DEF a, b
      <4>2. b \in Nat /\ b <= transmitted_bytes
        BY <4>1
      <4> QED
        BY <4>2 DEF b
  <2>2. ASSUME NEW p \in Transmitted
        PROVE  /\ DecodedBytes[pages[p].print] <= transmitted_bytes
               /\ pages[p].snap <= transmitted_bytes_cumulative
    <3>1. p \in Resident /\ pages[p].print \in Prints
      BY TypedMap DEF Transmitted, Prints0
    <3>2. TransmittedSize(pages, {p}) = DecodedBytes[pages[p].print]
      BY <3>1, TypedMap, SizeOfOne DEF Transmitted
    <3>3. TransmittedSize(pages, {p}) <= transmitted_bytes
      BY <3>1, <2>1
    <3>4. /\ DecodedBytes[pages[p].print] \in Nat /\ pages[p].snap \in Nat
          /\ transmitted_bytes_cumulative \in Nat
      BY <3>1, BytesAssumption DEF TypeOK, PageEntry
    <3>5. pages[p].snap + DecodedBytes[pages[p].print] <= transmitted_bytes_cumulative
      BY DEF EpochIntervals
    <3> QED
      BY <3>2, <3>3, <3>4, <3>5
  <2> QED
    BY <2>1, <2>2 DEF SubtractionsExact
<1> QED
  BY <1>1, RegistryInvariant, PTL

(* No delete is ever queued for an image believed to be live (I4).         *)
THEOREM LiveImagesSafe == Spec => []NoLiveDeleteQueued
<1>1. IInv => NoLiveDeleteQueued
  BY DEF IInv
<1> QED
  BY <1>1, RegistryInvariant, PTL

(* Transmits of one epoch occupy disjoint intervals of the byte count.     *)
THEOREM EpochIntervalsAlways == Spec => []EpochIntervals
<1>1. IInv => EpochIntervals
  BY DEF IInv
<1> QED
  BY <1>1, RegistryInvariant, PTL

(* Every page that leaves the registry leaves with its delete queued.      *)
THEOREM EvictionQueuesDeletes == Spec => EvictedAreQueued
<1>1. IInv /\ [Next]_vars => [Resident \ Resident' \subseteq pending_deletes']_vars
  <2> SUFFICES ASSUME IInv, Next
               PROVE  Resident \ Resident' \subseteq pending_deletes'
    OBVIOUS
  <2>1. CASE \E p \in Pages, f \in Prints : BuildTransmit(p, f) \/ MarkTransmitted(p, f)
    BY <2>1 DEF BuildTransmit, MarkTransmitted, DropPendingDelete, WithEntry, Resident
  <2>2. CASE InvalidateAllTransmits \/ \E p \in Pages : InvalidateTransmit(p)
    BY <2>2 DEF InvalidateAllTransmits, InvalidateTransmit, Resident
  <2>3. CASE \E pinned \in SUBSET Pages : EvictToBudget(pinned)
    BY <2>3, EvictStep
  <2>4. CASE TakePendingDeletes \/ PutBackPendingDeletes \/ ShipDeletes
    BY <2>4 DEF TakePendingDeletes, PutBackPendingDeletes, ShipDeletes, Resident
  <2> QED
    BY <2>1, <2>2, <2>3, <2>4 DEF Next
<1> QED
  BY <1>1, RegistryInvariant, PTL DEF Spec, EvictedAreQueued

-----------------------------------------------------------------------------
(* The eviction policy.                                                    *)

(* More victims cover what fewer cover.                                    *)
LEMMA CoverGrows ==
    ASSUME IInv, NEW B \in SUBSET Resident, NEW A \in SUBSET B, CoversDeficit(A)
    PROVE  CoversDeficit(B)
<1>1. /\ IsFiniteSet(A) /\ IsFiniteSet(B) /\ IsFiniteSet(B \ A)
      /\ TransmittedSize(pages, A) \in Nat /\ TransmittedSize(pages, B \ A) \in Nat
      /\ \A p \in B : pages[p].print \in Prints0
  <2>1. A \in SUBSET Resident /\ B \ A \in SUBSET Resident
    OBVIOUS
  <2> QED
    BY <2>1, TypedMap DEF IInv
<1>2. Cardinality(A) <= Cardinality(B) /\ Cardinality(A) \in Nat /\ Cardinality(B) \in Nat
  BY <1>1, FS_Subset, FS_CardinalityType
<1>3. TransmittedSize(pages, B) = TransmittedSize(pages, A) + TransmittedSize(pages, B \ A)
  <2> DEFINE C == B \ A
  <2>1. A \cap C = {} /\ A \cup C = B /\ IsFiniteSet(C) /\ \A p \in A \cup C : pages[p].print \in Prints0
    BY <1>1
  <2> HIDE DEF C
  <2>2. TransmittedSize(pages, A \cup C) = TransmittedSize(pages, A) + TransmittedSize(pages, C)
    BY <1>1, <2>1, SizeAdditive
  <2> QED
    BY <2>1, <2>2 DEF C
<1>4. Cardinality(A) >= OverPages /\ TransmittedSize(pages, A) >= OverBytes
  BY DEF CoversDeficit
<1>5. OverPages \in Nat /\ OverBytes \in Nat
  <2>1. Cardinality(Resident) \in Nat
    BY TypedMap, FS_CardinalityType DEF IInv
  <2> QED
    BY <2>1, BudgetAssumption DEF OverPages, OverBytes, SaturatingSub, IInv, TypeOK
<1>6. Cardinality(B) >= OverPages
  BY <1>2, <1>4, <1>5
<1>7. TransmittedSize(pages, B) >= OverBytes
  BY <1>1, <1>3, <1>4, <1>5
<1> QED
  BY <1>6, <1>7 DEF CoversDeficit

(* A set of victims covers the deficits exactly when nothing more is       *)
(* needed.                                                                 *)
LEMMA CoverIsEnough ==
    ASSUME IInv, NEW S \in SUBSET Resident
    PROVE  ~ CoversDeficit(S) <=>
             \/ Cardinality(Resident \ S) > MaxCachedPages
             \/ transmitted_bytes - TransmittedSize(pages, S) > GhosttyBudget
<1> DEFINE n == Cardinality(Resident)
           k == Cardinality(S)
           b == TransmittedSize(pages, S)
<1>1. IsFiniteSet(Resident) /\ IsFiniteSet(S) /\ b \in Nat
  BY TypedMap DEF IInv
<1>2. n \in Nat /\ k \in Nat /\ Cardinality(Resident \ S) = n - k
  <2>1. Cardinality(Resident \ S) = n - Cardinality(Resident \cap S) /\ Resident \cap S = S
    BY <1>1, FS_Difference
  <2> QED
    BY <1>1, <2>1, FS_CardinalityType
<1>3. transmitted_bytes \in Nat /\ MaxCachedPages \in Nat /\ GhosttyBudget \in Nat
  BY BudgetAssumption DEF IInv, TypeOK
<1>4. CoversDeficit(S) <=> k >= SaturatingSub(n, MaxCachedPages)
                           /\ b >= SaturatingSub(transmitted_bytes, GhosttyBudget)
  BY DEF CoversDeficit, OverPages, OverBytes
<1> HIDE DEF n, k, b
<1>5. k >= SaturatingSub(n, MaxCachedPages) <=> ~ (n - k > MaxCachedPages)
  BY <1>2, <1>3 DEF SaturatingSub
<1>6. b >= SaturatingSub(transmitted_bytes, GhosttyBudget)
        <=> ~ (transmitted_bytes - b > GhosttyBudget)
  BY <1>1, <1>3 DEF SaturatingSub
<1> QED
  BY <1>2, <1>4, <1>5, <1>6 DEF b

(* The page at the front among some of the resident ones.                  *)
LEMMA FrontOf ==
    ASSUME IInv, NEW U \in SUBSET Resident, U # {}
    PROVE  \E s \in U : lru[s] \cap U = {}
<1> DEFINE T == {Cardinality(lru[s]) : s \in U}
<1>1. \A s \in Resident : /\ lru[s] \in SUBSET Resident /\ s \notin lru[s]
                          /\ IsFiniteSet(lru[s]) /\ Cardinality(lru[s]) \in Nat
  <2> TAKE s \in Resident
  <2>1. lru[s] \in SUBSET Resident /\ s \notin lru[s]
    BY DEF IInv, LruMirrorsPages
  <2>2. IsFiniteSet(lru[s])
    BY <2>1, TypedMap DEF IInv
  <2> QED
    BY <2>1, <2>2, FS_CardinalityType
<1>2. T \subseteq Nat /\ T # {} /\ \A s \in U : Cardinality(lru[s]) \in T
  BY <1>1
<1>3. PICK t \in T : \A u \in T : t <= u
  <2> HIDE DEF T
  <2> QED
    BY <1>2, Orders!NatLeast
<1>4. PICK s \in U : t = Cardinality(lru[s])
  OBVIOUS
<1>5. ASSUME NEW u \in lru[s] \cap U PROVE FALSE
  <2>1. u \in Resident /\ s \in Resident /\ lru[u] \subseteq lru[s] /\ u \notin lru[u]
    BY <1>1 DEF IInv, LruMirrorsPages
  <2>2. lru[u] # lru[s] /\ lru[u] \in SUBSET lru[s]
    BY <2>1
  <2>3. Cardinality(lru[u]) <= Cardinality(lru[s]) /\ Cardinality(lru[u]) # Cardinality(lru[s])
    BY <1>1, <2>1, <2>2, FS_Subset
  <2>4. Cardinality(lru[s]) <= Cardinality(lru[u])
    BY <1>2, <1>3, <1>4
  <2> QED
    BY <1>1, <2>1, <2>3, <2>4
<1> QED
  BY <1>5

(* What evict_to_budget leaves.                                            *)
LEMMA EvictionIsRight ==
    ASSUME IInv, NEW pinned \in SUBSET Pages, EvictToBudget(pinned)
    PROVE  LET victims == Resident \ Resident'
               needed(S) == \/ Cardinality(Resident \ S) > MaxCachedPages
                            \/ transmitted_bytes - TransmittedSize(pages, S) > GhosttyBudget
           IN  /\ victims \cap pinned = {}
               /\ \A v \in victims, s \in Resident' \ pinned : v \in lru[s]
               /\ needed(victims) => Resident' \subseteq pinned
               /\ \A v \in victims : needed(victims \cap lru[v])
<1> DEFINE W == Victims(pinned)
           Left == (Resident \ W) \ pinned
           needed(S) == \/ Cardinality(Resident \ S) > MaxCachedPages
                        \/ transmitted_bytes - TransmittedSize(pages, S) > GhosttyBudget
<1>1. /\ DOMAIN lru = Resident
      /\ \A p \in Resident : lru[p] \subseteq Resident \ {p}
      /\ \A p, q \in Resident : p # q => (p \in lru[q] <=> q \notin lru[p])
      /\ \A p, q \in Resident : p \in lru[q] => lru[p] \subseteq lru[q]
  BY DEF IInv, LruMirrorsPages
<1>2. \A p : p \in W <=> p \in Resident /\ p \notin pinned /\ ~ CoversDeficit(lru[p] \ pinned)
  BY <1>1 DEF Victims
<1> HIDE DEF W
<1>3. Resident' = Resident \ W /\ Resident \ Resident' = W
  <2>1. Resident' = Resident \ W
    BY DEF EvictToBudget, Resident, W
  <2> QED
    BY <1>2, <2>1
<1>4. ASSUME NEW v \in W, NEW s \in Left PROVE v \in lru[s]
  <2> SUFFICES ASSUME v \notin lru[s] PROVE FALSE
    OBVIOUS
  <2>1. v \in Resident /\ s \in Resident /\ v # s
    BY <1>2
  <2>2. lru[s] \subseteq lru[v] /\ lru[v] \subseteq Resident
    BY <1>1, <2>1
  <2> DEFINE A == lru[s] \ pinned
             B == lru[v] \ pinned
  <2>3. A \in SUBSET B /\ B \in SUBSET Resident
    BY <2>2
  <2>4. CoversDeficit(A) /\ ~ CoversDeficit(B)
    BY <1>2
  <2> HIDE DEF A, B
  <2> QED
    BY <2>3, <2>4, CoverGrows
<1>5. ASSUME needed(W) PROVE Left = {}
  <2> SUFFICES ASSUME Left # {} PROVE FALSE
    OBVIOUS
  <2>1. Left \in SUBSET Resident
    OBVIOUS
  <2>2. PICK s \in Left : lru[s] \cap Left = {}
    <3> HIDE DEF Left
    <3> QED
      BY <2>1, FrontOf
  <2> DEFINE A == lru[s] \ pinned
  <2>3. A \in SUBSET W
    BY <1>1, <2>2
  <2>4. CoversDeficit(A)
    BY <1>2
  <2>5. W \in SUBSET Resident
    BY <1>2
  <2> HIDE DEF A
  <2>6. CoversDeficit(W)
    BY <2>3, <2>4, <2>5, CoverGrows
  <2> QED
    BY <1>5, <2>5, <2>6, CoverIsEnough
<1>6. ASSUME NEW v \in W PROVE needed(W \cap lru[v])
  <2> DEFINE A == W \cap lru[v]
             B == lru[v] \ pinned
  <2>1. ~ CoversDeficit(B)
    BY <1>2
  <2>2. A \in SUBSET B /\ B \in SUBSET Resident /\ A \in SUBSET Resident
    BY <1>1, <1>2
  <2> HIDE DEF A, B
  <2>3. ~ CoversDeficit(A)
    BY <2>1, <2>2, CoverGrows
  <2>4. needed(A)
    BY <2>2, <2>3, CoverIsEnough
  <2> QED
    BY <2>4 DEF A
<1>7. W \cap pinned = {}
  BY <1>2
<1>8. needed(W) => Resident' \subseteq pinned
  <2> HAVE needed(W)
  <2>1. Left = {}
    BY <1>5
  <2> QED
    BY <1>3, <2>1
<1>9. \A s \in Resident' \ pinned : s \in Left
  BY <1>3
<1> HIDE DEF needed, Left
<1> QED
  BY <1>3, <1>4, <1>6, <1>7, <1>8, <1>9 DEF needed

(* Eviction spares the pinned pages, takes the least recently used of the  *)
(* others, and takes them until the page cap and the byte budget hold and  *)
(* no further (evict_to_budget in kitty_pages.rs).                         *)
THEOREM EvictionPolicyHolds == Spec => EvictionPolicy
<1> DEFINE Policy ==
      \A pinned \in SUBSET Pages : EvictToBudget(pinned) =>
         LET victims == Resident \ Resident'
             needed(S) == \/ Cardinality(Resident \ S) > MaxCachedPages
                          \/ transmitted_bytes - TransmittedSize(pages, S) > GhosttyBudget
         IN  /\ victims \cap pinned = {}
             /\ \A v \in victims, s \in Resident' \ pinned : v \in lru[s]
             /\ needed(victims) => Resident' \subseteq pinned
             /\ \A v \in victims : needed(victims \cap lru[v])
<1>1. IInv => Policy
  BY EvictionIsRight
<1>2. IInv /\ [Next]_vars => [Policy]_vars
  BY <1>1
<1> QED
  BY <1>2, RegistryInvariant, PTL DEF Spec, EvictionPolicy

=============================================================================
