--------------------------- MODULE DiskCacheProofs ---------------------------
(***************************************************************************)
(* Theorems about DiskCache, for every number of viewers, every set of     *)
(* bitmaps, all their sizes and every budget.                              *)
(*                                                                         *)
(* The inductive invariant is DiskInv: types and ids (DiskBase); what the  *)
(* files show (Contents), which needs to know that a viewer's directory    *)
(* is that of the edition it has open (Editions); that the temporary files *)
(* a sweep takes for left over have no writer any more (Orphans); that     *)
(* what a sweep has still to free covers what is over the budget (Freed);  *)
(* and that what it has taken so far did not do without the last (Taken).  *)
(***************************************************************************)
EXTENDS DiskCache, FiniteSetTheorems, TLAPS

Orders == INSTANCE LayoutProofs

-----------------------------------------------------------------------------
(* Types and ids.                                                          *)

Oldness == Cardinality(Bitmaps)

Times == {m \in Int : 0 - Oldness <= m}
Name == {n \in [dir : Nat, page : Nat, width : Nat, dark : BOOLEAN] : BitmapOf(n) \in Bitmaps}
Pixels == [doc : Nat, bitmap : Bitmaps]
File == [pixels : Pixels, whole : BOOLEAN, mtime : Times]
Tmp == [id : Nat, name : Name, pixels : Pixels, whole : BOOLEAN, old : BOOLEAN]
Entry == [name : Name, mtime : Times]
Jobs == Nat \cup Bitmaps
Viewer == [pc : {"down", "opened", "view", "fast", "mkdir", "created", "written"},
           doc : Nat, dir : Nat, job : Jobs]
Sweep == [pc : {"off", "scan", "evict"}, left : SUBSET Nat, entries : SUBSET Entry,
          queue : Seq(Entry), toFree : Nat, taken : SUBSET Entry, orphans : SUBSET Tmp]

(* What a sweep has found is finite, and what it has still to try is each  *)
(* entry once, and by age.                                                 *)
Queued(q) ==
    \A i, j \in DOMAIN q : i < j => q[i] # q[j] /\ q[i].mtime <= q[j].mtime

Orderly(s) == IsFiniteSet(s.entries) /\ Queued(s.queue)

Untried(p) == ToSet(sweep[p].queue)

DiskTypes ==
    /\ version \in Nat /\ clock \in Nat /\ opens \in Nat
    /\ DOMAIN files \subseteq Name /\ files \in [DOMAIN files -> File]
    /\ IsFiniteSet(DOMAIN files)
    /\ tmps \subseteq Tmp
    /\ dirs \subseteq Nat
    /\ viewer \in [Viewers -> Viewer]
    /\ sweep \in [Viewers -> Sweep]
    /\ \A p \in Viewers : Orderly(sweep[p])

(* What a viewer is about to store, and the temporary file it writes: no   *)
(* two files have the same id, nor one that has been given yet.            *)
DiskIds ==
    /\ \A p \in Viewers : viewer[p].pc \in {"fast", "mkdir"} => viewer[p].job \in Bitmaps
    /\ \A p \in Viewers : viewer[p].pc \in {"created", "written"} => viewer[p].job \in 1 .. clock
    /\ \A t, u \in tmps : t.id = u.id => t = u
    /\ \A t \in tmps : t.id <= clock

DiskBase == DiskTypes /\ DiskIds

(* The files there at the start are older than the clock, by their rank.   *)
LEMMA OldnessIsNat == Oldness \in Nat
BY DiskCacheAssumption, FS_CardinalityType DEF Oldness

(* A bitmap can be told from the name it is filed under.                   *)
LEMMA NameOfBitmap ==
    ASSUME NEW v \in Nat, NEW b \in Bitmaps
    PROVE  CachePathInDir(v, b) \in Name /\ BitmapOf(CachePathInDir(v, b)) = b
BY DiskCacheAssumption DEF CachePathInDir, BitmapOf, Name

(* The bytes of some files: a natural number, and more for more files.     *)
LEMMA UnitsOfOne ==
    ASSUME NEW n \in Name
    PROVE  Size(n) \in Nat /\ IsFiniteSet(Units(n)) /\ Cardinality(Units(n)) = Size(n)
<1>1. Size(n) \in Nat
  BY DiskCacheAssumption DEF Size, Name
<1> DEFINE P == {n}
           N == 1 .. Size(n)
<1>2. IsFiniteSet(N) /\ Cardinality(N) = Size(n)
  <2>1. 1 \in Int /\ Size(n) \in Int
    BY <1>1
  <2>2. IsFiniteSet(N) /\ Cardinality(N) = IF 1 > Size(n) THEN 0 ELSE Size(n) - 1 + 1
    BY <2>1, FS_Interval
  <2> QED
    BY <1>1, <2>2
<1>3. IsFiniteSet(P) /\ Cardinality(P) = 1
  BY FS_Singleton
<1>4. Units(n) = P \X N
  BY DEF Units
<1> HIDE DEF P, N
<1>5. IsFiniteSet(P \X N) /\ Cardinality(P \X N) = Cardinality(P) * Cardinality(N)
  BY <1>2, <1>3, FS_Product
<1>6. Cardinality(P) * Cardinality(N) = Size(n)
  BY <1>1, <1>2, <1>3
<1> QED
  BY <1>1, <1>4, <1>5, <1>6

AllUnits(names) == UNION {Units(n) : n \in names}

(* The bytes of finitely many files are finitely many.                     *)
LEMMA UnitsFinite ==
    ASSUME NEW S, S \subseteq Name, IsFiniteSet(S)
    PROVE  IsFiniteSet(AllUnits(S)) /\ Total(S) \in Nat /\ Total(S) = Cardinality(AllUnits(S))
<1> DEFINE U == {Units(n) : n \in S}
           g == [n \in S |-> Units(n)]
<1>1. g \in Surjection(S, U)
  BY DEF Surjection
<1>2. IsFiniteSet(U)
  BY <1>1, FS_Surjection
<1>3. \A T \in U : IsFiniteSet(T)
  BY UnitsOfOne
<1>4. IsFiniteSet(UNION U)
  BY <1>2, <1>3, FS_UNION
<1> QED
  BY <1>4, FS_CardinalityType DEF AllUnits, Total

(* Fewer files, no more bytes.                                             *)
LEMMA TotalMonotonic ==
    ASSUME NEW S, S \subseteq Name, IsFiniteSet(S), NEW T \in SUBSET S
    PROVE  Total(T) <= Total(S)
<1>1. IsFiniteSet(T)
  BY FS_Subset
<1>2. AllUnits(T) \subseteq AllUnits(S)
  BY DEF AllUnits
<1>3. IsFiniteSet(AllUnits(S)) /\ Total(S) = Cardinality(AllUnits(S))
  BY UnitsFinite
<1>4. Total(T) = Cardinality(AllUnits(T))
  BY <1>1, UnitsFinite
<1> QED
  BY <1>2, <1>3, <1>4, FS_Subset

(* Removing one file takes just its size off the total.                    *)
LEMMA TotalWithout ==
    ASSUME NEW S, S \subseteq Name, IsFiniteSet(S), NEW n \in S
    PROVE  Total(S \ {n}) = Total(S) - Size(n)
<1> DEFINE R == S \ {n}
<1>1. IsFiniteSet(R) /\ R \subseteq Name
  BY FS_Subset
<1>2. AllUnits(S) = AllUnits(R) \cup Units(n) /\ AllUnits(R) \cap Units(n) = {}
  BY DEF AllUnits, Units
<1>3. /\ IsFiniteSet(AllUnits(R)) /\ Total(R) \in Nat /\ Total(R) = Cardinality(AllUnits(R))
      /\ Total(S) = Cardinality(AllUnits(S)) /\ Total(S) \in Nat
  BY <1>1, UnitsFinite
<1>4. IsFiniteSet(Units(n)) /\ Cardinality(Units(n)) = Size(n) /\ Size(n) \in Nat
  BY UnitsOfOne
<1>5. Cardinality(AllUnits(R) \cup Units(n))
        = Cardinality(AllUnits(R)) + Cardinality(Units(n)) - Cardinality(AllUnits(R) \cap Units(n))
  BY <1>3, <1>4, FS_Union
<1>6. Cardinality(AllUnits(R) \cap Units(n)) = 0
  BY <1>2, FS_EmptySet
<1>7. Total(S) = Total(R) + Size(n) - 0
  BY <1>2, <1>3, <1>4, <1>5, <1>6
<1> QED
  BY <1>3, <1>4, <1>7

(* A sweep that is off is orderly.                                         *)
LEMMA NoSweepIsOrderly ==
    /\ NoSweep \in Sweep /\ Orderly(NoSweep) /\ NoSweep.pc = "off"
    /\ NoSweep.entries = {} /\ NoSweep.queue = <<>> /\ NoSweep.taken = {}
<1>1. <<>> \in Seq(Entry) /\ DOMAIN <<>> = {}
  OBVIOUS
<1> QED
  BY <1>1, FS_EmptySet DEF NoSweep, Sweep, Orderly, Queued

(* The first of a queue is the oldest, and all others are in its tail.     *)
LEMMA HeadIsOldest ==
    ASSUME NEW q \in Seq(Entry), q # <<>>, Queued(q)
    PROVE  /\ Head(q) \in ToSet(q) /\ Head(q) \in Entry
           /\ \A f \in ToSet(q) : Head(q).mtime <= f.mtime
           /\ Tail(q) \in Seq(Entry) /\ Queued(Tail(q))
           /\ ToSet(Tail(q)) = ToSet(q) \ {Head(q)}
<1> DEFINE t == Tail(q)
<1>1. /\ Len(q) \in Nat /\ Len(q) >= 1 /\ DOMAIN q = 1 .. Len(q) /\ Head(q) = q[1] /\ q[1] \in Entry
      /\ \A i \in 1 .. Len(q) : q[i] \in Entry
  OBVIOUS
<1>2. /\ t \in Seq(Entry) /\ DOMAIN t = 1 .. Len(q) - 1
      /\ \A i \in 1 .. Len(q) - 1 : t[i] = q[i + 1]
  OBVIOUS
<1> HIDE DEF t
<1>3. \A i, j \in 1 .. Len(q) : i < j => q[i] # q[j] /\ q[i].mtime <= q[j].mtime
  BY <1>1 DEF Queued
<1>4. \A i \in 1 .. Len(q) : q[1].mtime <= q[i].mtime
  <2>1. q[1].mtime <= q[1].mtime
    BY <1>1 DEF Entry, Times
  <2> QED
    BY <1>1, <1>3, <2>1
<1>5. Queued(t)
  <2> SUFFICES ASSUME NEW i \in 1 .. Len(q) - 1, NEW j \in 1 .. Len(q) - 1, i < j
               PROVE  t[i] # t[j] /\ t[i].mtime <= t[j].mtime
    BY <1>2 DEF Queued
  <2>1. i + 1 \in 1 .. Len(q) /\ j + 1 \in 1 .. Len(q) /\ i + 1 < j + 1
    BY <1>1
  <2> QED
    BY <1>2, <1>3, <2>1
<1>6. ToSet(t) = ToSet(q) \ {q[1]}
  <2>1. ASSUME NEW x \in ToSet(t) PROVE x \in ToSet(q) \ {q[1]}
    <3>1. PICK i \in 1 .. Len(q) - 1 : x = t[i]
      BY <1>2 DEF ToSet
    <3>2. i + 1 \in 1 .. Len(q) /\ 1 \in 1 .. Len(q) /\ 1 < i + 1
      BY <1>1
    <3> QED
      BY <1>1, <1>2, <1>3, <3>1, <3>2 DEF ToSet
  <2>2. ASSUME NEW x \in ToSet(q), x # q[1] PROVE x \in ToSet(t)
    <3>1. PICK i \in 1 .. Len(q) : x = q[i]
      BY <1>1 DEF ToSet
    <3>2. i - 1 \in 1 .. Len(q) - 1 /\ i = (i - 1) + 1
      BY <1>1, <2>2, <3>1
    <3> QED
      BY <1>2, <3>1, <3>2 DEF ToSet
  <2> QED
    BY <2>1, <2>2
<1>7. Head(q) \in ToSet(q) /\ \A f \in ToSet(q) : Head(q).mtime <= f.mtime
  BY <1>1, <1>4 DEF ToSet
<1> QED
  BY <1>1, <1>2, <1>5, <1>6, <1>7 DEF t

(* A sorted sequence of finitely many entries is a queue of them.          *)
LEMMA SortedIsQueued ==
    ASSUME NEW S, S \subseteq Entry, IsFiniteSet(S), NEW q \in ByAge(S)
    PROVE  q \in Seq(Entry) /\ Queued(q) /\ ToSet(q) \subseteq S
<1> DEFINE D == 1 .. Cardinality(S)
<1>1. Cardinality(S) \in Nat
  BY FS_CardinalityType
<1>2. /\ q \in [D -> S] /\ \A i, j \in D : i # j => q[i] # q[j]
      /\ \A i, j \in DOMAIN q : i < j => q[i].mtime <= q[j].mtime
  BY DEF ByAge, SetToSeqs
<1>3. \A i, j \in D : i < j => i # j
  BY <1>1
<1> QED
  BY <1>1, <1>2, <1>3 DEF Queued, ToSet

(* saturating_sub.                                                         *)
LEMMA MaxWithZero ==
    ASSUME NEW x \in Int
    PROVE  Max({0, x}) = IF x > 0 THEN x ELSE 0
BY DEF Max

(* A viewer's next state, and the one temporary file it may be writing.    *)
LEMMA MineIsOne ==
    ASSUME DiskBase, NEW p \in Viewers, NEW t \in Mine(p)
    PROVE  Mine(p) = {t} /\ t \in tmps /\ t \in Tmp
BY DEF Mine, DiskBase, DiskIds, DiskTypes

(* A step of one viewer that goes on to another job leaves the others, and *)
(* its document and directory, as they are.                                *)
LEMMA Advances ==
    ASSUME DiskTypes, NEW p \in Viewers,
           NEW c \in {"down", "opened", "view", "fast", "mkdir", "created", "written"},
           NEW j \in Jobs, viewer' = [viewer EXCEPT ![p].pc = c, ![p].job = j]
    PROVE  /\ viewer' \in [Viewers -> Viewer]
           /\ viewer'[p].pc = c /\ viewer'[p].job = j
           /\ viewer'[p].doc = viewer[p].doc /\ viewer'[p].dir = viewer[p].dir
           /\ \A q \in Viewers \ {p} : viewer'[q] = viewer[q]
BY DEF DiskTypes, Viewer

(* The same for a step that keeps the job.                                 *)
LEMMA Steps ==
    ASSUME DiskTypes, NEW p \in Viewers,
           NEW c \in {"down", "opened", "view", "fast", "mkdir", "created", "written"},
           viewer' = [viewer EXCEPT ![p].pc = c]
    PROVE  /\ viewer' \in [Viewers -> Viewer]
           /\ viewer'[p].pc = c /\ viewer'[p].job = viewer[p].job
           /\ viewer'[p].doc = viewer[p].doc /\ viewer'[p].dir = viewer[p].dir
           /\ \A q \in Viewers \ {p} : viewer'[q] = viewer[q]
BY DEF DiskTypes, Viewer

(* The steps that change files, one by one.  A temporary file that is      *)
(* created has a new id;                                                   *)
LEMMA CreateShape ==
    ASSUME DiskBase, NEW p \in Viewers, StoreCreate(p)
    PROVE  /\ clock' = clock + 1
           /\ viewer' \in [Viewers -> Viewer] /\ \A q \in Viewers \ {p} : viewer'[q] = viewer[q]
           /\ viewer[p].pc = "mkdir"
           /\ viewer'[p].doc = viewer[p].doc /\ viewer'[p].dir = viewer[p].dir
           /\ \/ tmps' = tmps /\ viewer'[p].pc = "view"
              \/ /\ viewer'[p].pc = "created" /\ viewer'[p].job = clock + 1
                 /\ \E t \in Tmp :
                      /\ tmps' = tmps \cup {t}
                      /\ t.id = clock + 1 /\ ~t.whole /\ ~t.old
                      /\ t.name = CachePathInDir(viewer[p].dir, viewer[p].job)
                      /\ t.pixels = Render(viewer[p].doc, viewer[p].job)
                      /\ t.name.dir \in dirs
<1> DEFINE t == [id |-> clock', name |-> CachePathInDir(viewer[p].dir, viewer[p].job),
                 pixels |-> Render(viewer[p].doc, viewer[p].job),
                 whole |-> FALSE, old |-> FALSE]
<1>0. 0 \in Jobs /\ Nat \subseteq Jobs
  BY DEF Jobs
<1>1. clock' = clock + 1 /\ clock \in Nat /\ viewer[p] \in Viewer /\ viewer[p].job \in Bitmaps
  BY DEF StoreCreate, DiskBase, DiskTypes, DiskIds
<1>2. t \in Tmp
  <2>1. CachePathInDir(viewer[p].dir, viewer[p].job) \in Name
    BY <1>1, NameOfBitmap DEF Viewer
  <2>2. Render(viewer[p].doc, viewer[p].job) \in Pixels
    BY <1>1 DEF Render, Pixels, Viewer
  <2> QED
    BY <1>1, <2>1, <2>2 DEF Tmp
<1>3. /\ t.id = clock + 1 /\ ~t.whole /\ ~t.old
      /\ t.name = CachePathInDir(viewer[p].dir, viewer[p].job)
      /\ t.pixels = Render(viewer[p].doc, viewer[p].job)
      /\ t.name.dir = viewer[p].dir
  BY <1>1 DEF CachePathInDir
<1> HIDE DEF t
<1>4. \/ /\ tmps' = tmps \cup {t} /\ viewer[p].dir \in dirs
         /\ viewer' = [viewer EXCEPT ![p].pc = "created", ![p].job = clock']
      \/ tmps' = tmps /\ viewer' = [viewer EXCEPT ![p].pc = "view", ![p].job = 0]
  BY DEF StoreCreate, t
<1>5. clock' \in Jobs
  BY <1>0, <1>1
<1>6. viewer[p].pc = "mkdir"
  BY DEF StoreCreate
<1>7. CASE /\ tmps' = tmps \cup {t} /\ viewer[p].dir \in dirs
           /\ viewer' = [viewer EXCEPT ![p].pc = "created", ![p].job = clock']
  <2>1. /\ viewer' \in [Viewers -> Viewer]
        /\ viewer'[p].pc = "created" /\ viewer'[p].job = clock'
        /\ viewer'[p].doc = viewer[p].doc /\ viewer'[p].dir = viewer[p].dir
        /\ \A q \in Viewers \ {p} : viewer'[q] = viewer[q]
    BY <1>5, <1>7, Advances DEF DiskBase
  <2> QED
    BY <1>1, <1>2, <1>3, <1>6, <1>7, <2>1
<1>8. CASE tmps' = tmps /\ viewer' = [viewer EXCEPT ![p].pc = "view", ![p].job = 0]
  <2>1. /\ viewer' \in [Viewers -> Viewer] /\ viewer'[p].pc = "view"
        /\ viewer'[p].doc = viewer[p].doc /\ viewer'[p].dir = viewer[p].dir
        /\ \A q \in Viewers \ {p} : viewer'[q] = viewer[q]
    BY <1>0, <1>8, Advances DEF DiskBase
  <2> QED
    BY <1>1, <1>6, <1>8, <2>1
<1> QED
  BY <1>4, <1>7, <1>8

(* a write ends with it complete, or without it;                           *)
LEMMA WriteShape ==
    ASSUME DiskBase, NEW p \in Viewers, StoreWrite(p)
    PROVE  /\ viewer' \in [Viewers -> Viewer] /\ \A q \in Viewers \ {p} : viewer'[q] = viewer[q]
           /\ viewer[p].pc = "created" /\ viewer'[p].pc \in {"view", "written"}
           /\ viewer'[p].pc = "written" => viewer'[p].job = viewer[p].job
           /\ viewer'[p].doc = viewer[p].doc /\ viewer'[p].dir = viewer[p].dir
           /\ \/ tmps' = tmps /\ Mine(p) = {}
              \/ \E t \in tmps :
                    tmps' = tmps \ {t} /\ t.id = viewer[p].job /\ viewer'[p].pc = "view"
              \/ \E t \in tmps, u \in Tmp :
                    /\ tmps' = (tmps \ {t}) \cup {u}
                    /\ t.id = viewer[p].job /\ u.id = t.id /\ u.name = t.name
                    /\ u.pixels = t.pixels /\ u.whole /\ ~u.old
<1>0. 0 \in Jobs
  BY DEF Jobs
<1>1. /\ viewer' \in [Viewers -> Viewer] /\ \A q \in Viewers \ {p} : viewer'[q] = viewer[q]
      /\ viewer[p].pc = "created" /\ viewer'[p].pc \in {"view", "written"}
      /\ viewer'[p].pc = "written" => viewer'[p].job = viewer[p].job
      /\ viewer'[p].doc = viewer[p].doc /\ viewer'[p].dir = viewer[p].dir
  <2>1. viewer[p].pc = "created"
    BY DEF StoreWrite
  <2>2. CASE viewer' = [viewer EXCEPT ![p].pc = "written"]
    BY <2>1, <2>2, Steps DEF DiskBase
  <2>3. CASE viewer' = [viewer EXCEPT ![p].pc = "view", ![p].job = 0]
    <3>1. viewer'[p].pc = "view"
      BY <1>0, <2>3, Advances DEF DiskBase
    <3> QED
      BY <1>0, <2>1, <2>3, <3>1, Advances DEF DiskBase
  <2> QED
    BY <2>2, <2>3 DEF StoreWrite
<1>2. CASE Mine(p) = {}
  BY <1>1, <1>2 DEF StoreWrite
<1>3. ASSUME NEW t \in Mine(p)
      PROVE  \/ \E v \in tmps : tmps' = tmps \ {v} /\ v.id = viewer[p].job /\ viewer'[p].pc = "view"
             \/ \E v \in tmps, u \in Tmp :
                    /\ tmps' = (tmps \ {v}) \cup {u}
                    /\ v.id = viewer[p].job /\ u.id = v.id /\ u.name = v.name
                    /\ u.pixels = v.pixels /\ u.whole /\ ~u.old
  <2> DEFINE u == [t EXCEPT !.whole = TRUE, !.old = FALSE]
  <2>1. Mine(p) = {t} /\ t \in tmps /\ t \in Tmp /\ t.id = viewer[p].job
    BY MineIsOne DEF Mine
  <2>2. /\ u \in Tmp /\ u.id = t.id /\ u.name = t.name /\ u.pixels = t.pixels
        /\ u.whole /\ ~u.old
    BY <2>1 DEF Tmp
  <2>3. \/ tmps' = tmps \ Mine(p) /\ viewer' = [viewer EXCEPT ![p].pc = "view", ![p].job = 0]
        \/ tmps' = (tmps \ Mine(p)) \cup {[v EXCEPT !.whole = TRUE, !.old = FALSE] : v \in Mine(p)}
    BY DEF StoreWrite
  <2>4. \/ tmps' = tmps \ {t} /\ viewer' = [viewer EXCEPT ![p].pc = "view", ![p].job = 0]
        \/ tmps' = (tmps \ {t}) \cup {u}
    BY <2>1, <2>3
  <2> HIDE DEF u
  <2>5. viewer' = [viewer EXCEPT ![p].pc = "view", ![p].job = 0] => viewer'[p].pc = "view"
    BY <1>0, Advances DEF DiskBase
  <2> QED
    BY <2>1, <2>2, <2>4, <2>5
<1> QED
  BY <1>1, <1>2, <1>3

(* and a rename makes it the file of its name.                             *)
LEMMA RenameShape ==
    ASSUME DiskBase, NEW p \in Viewers, StoreRename(p)
    PROVE  /\ viewer' \in [Viewers -> Viewer] /\ \A q \in Viewers \ {p} : viewer'[q] = viewer[q]
           /\ viewer[p].pc = "written" /\ viewer'[p].pc = "view"
           /\ viewer'[p].doc = viewer[p].doc /\ viewer'[p].dir = viewer[p].dir
           /\ \/ tmps' = tmps /\ files' = files
              \/ \E t \in Mine(p) :
                    /\ tmps' = tmps \ {t} /\ t \in tmps
                    /\ files' = [n \in DOMAIN files \cup {t.name} |->
                                   IF n = t.name
                                     THEN [pixels |-> t.pixels, whole |-> t.whole, mtime |-> t.id]
                                     ELSE files[n]]
<1>0. 0 \in Jobs
  BY DEF Jobs
<1>1. /\ viewer' \in [Viewers -> Viewer] /\ \A q \in Viewers \ {p} : viewer'[q] = viewer[q]
      /\ viewer[p].pc = "written" /\ viewer'[p].pc = "view"
      /\ viewer'[p].doc = viewer[p].doc /\ viewer'[p].dir = viewer[p].dir
  BY <1>0, Advances DEF StoreRename, DiskBase
<1>2. CASE Mine(p) = {}
  BY <1>1, <1>2 DEF StoreRename, DiskBase, DiskTypes
<1>3. ASSUME NEW t \in Mine(p)
      PROVE  /\ tmps' = tmps \ {t} /\ t \in tmps
             /\ files' = [n \in DOMAIN files \cup {t.name} |->
                            IF n = t.name
                              THEN [pixels |-> t.pixels, whole |-> t.whole, mtime |-> t.id]
                              ELSE files[n]]
  <2>1. Mine(p) = {t} /\ t \in tmps /\ t \in Tmp
    BY MineIsOne
  <2>2. {u.name : u \in Mine(p)} = {t.name} /\ (CHOOSE u \in Mine(p) : TRUE) = t
    BY <2>1
  <2>3. \A n : (\E u \in Mine(p) : u.name = n) <=> n = t.name
    BY <2>1
  <2> QED
    BY <2>1, <2>2, <2>3 DEF StoreRename
<1> QED
  BY <1>1, <1>2, <1>3

(* Types and ids, step by step of a viewer.                                *)
LEMMA BaseViewer ==
    ASSUME DiskBase, NEW p \in Viewers, ViewerStep(p)
    PROVE  DiskBase'
<1>0. 0 \in Jobs /\ Nat \subseteq Jobs /\ Bitmaps \subseteq Jobs
  BY DEF Jobs
<1>1. CASE Open(p)
  <2>1. [Down EXCEPT !.pc = "opened", !.doc = version] \in Viewer
    BY <1>0 DEF Down, Viewer, DiskBase, DiskTypes
  <2>2. [NoSweep EXCEPT !.pc = "scan", !.left = dirs, !.orphans = {t \in tmps : t.old /\ Orphan(t)}]
          \in Sweep
    BY NoSweepIsOrderly DEF Sweep, DiskBase, DiskTypes
  <2>3. DiskTypes'
    <3>1. opens + 1 \in Nat
      BY DEF DiskBase, DiskTypes
    <3> DEFINE s == [NoSweep EXCEPT !.pc = "scan", !.left = dirs,
                                    !.orphans = {t \in tmps : t.old /\ Orphan(t)}]
    <3>2. s \in Sweep /\ Orderly(s)
      BY <2>2, NoSweepIsOrderly DEF NoSweep, Orderly
    <3>3. viewer' \in [Viewers -> Viewer] /\ sweep' = [sweep EXCEPT ![p] = s]
      BY <1>1, <2>1 DEF Open, DiskBase, DiskTypes
    <3> HIDE DEF s
    <3>4. sweep' \in [Viewers -> Sweep] /\ \A q \in Viewers : Orderly(sweep'[q])
      BY <3>2, <3>3 DEF DiskBase, DiskTypes
    <3> QED
      BY <1>1, <3>1, <3>3, <3>4 DEF Open, DiskBase, DiskTypes
  <2>4. DiskIds'
    BY <1>1 DEF Open, DiskBase, DiskTypes, DiskIds, Down
  <2> QED
    BY <2>3, <2>4 DEF DiskBase
<1>2. CASE ResolveDir(p)
  <2>1. viewer' \in [Viewers -> Viewer] /\ viewer'[p].pc = "view"
        /\ \A q \in Viewers \ {p} : viewer'[q] = viewer[q]
    BY <1>2 DEF ResolveDir, DiskBase, DiskTypes, Viewer, PdfCacheDir
  <2> QED
    BY <1>2, <2>1 DEF ResolveDir, DiskBase, DiskTypes, DiskIds
<1>3. CASE \E b \in Bitmaps : EnsurePageRendered(p, b)
  <2>1. PICK b \in Bitmaps : EnsurePageRendered(p, b)
    BY <1>3
  <2>2. /\ viewer' \in [Viewers -> Viewer]
        /\ viewer'[p].pc = "fast" /\ viewer'[p].job = b
        /\ \A q \in Viewers \ {p} : viewer'[q] = viewer[q]
    BY <1>0, <2>1, Advances DEF EnsurePageRendered, DiskBase
  <2> QED
    BY <2>1, <2>2 DEF EnsurePageRendered, DiskBase, DiskTypes, DiskIds
<1>4. CASE StoreMkdir(p)
  <2>1. /\ viewer' \in [Viewers -> Viewer]
        /\ viewer'[p].pc = "mkdir" /\ viewer'[p].job = viewer[p].job
        /\ \A q \in Viewers \ {p} : viewer'[q] = viewer[q]
    BY <1>4, Steps DEF StoreMkdir, DiskBase
  <2>2. dirs' \subseteq Nat
    BY <1>4 DEF StoreMkdir, DiskBase, DiskTypes, Viewer
  <2> QED
    BY <1>4, <2>1, <2>2 DEF StoreMkdir, DiskBase, DiskTypes, DiskIds
<1>5. CASE StoreCreate(p)
  <2>1. /\ clock' = clock + 1 /\ clock \in Nat /\ viewer' \in [Viewers -> Viewer]
        /\ \A q \in Viewers \ {p} : viewer'[q] = viewer[q]
        /\ viewer'[p].pc = "view" \/ (viewer'[p].pc = "created" /\ viewer'[p].job = clock + 1)
    BY <1>5, CreateShape DEF DiskBase, DiskTypes
  <2>2. \/ tmps' = tmps
        \/ \E t \in Tmp : tmps' = tmps \cup {t} /\ t.id = clock + 1
    BY <1>5, CreateShape
  <2>3. DiskTypes'
    BY <1>5, <2>1, <2>2 DEF StoreCreate, DiskBase, DiskTypes
  <2>4. DiskIds'
    <3>1. \A q \in Viewers : viewer'[q].pc \in {"fast", "mkdir"} => viewer'[q].job \in Bitmaps
      BY <2>1 DEF DiskBase, DiskIds
    <3>2. \A q \in Viewers : viewer'[q].pc \in {"created", "written"} =>
             viewer'[q].job \in 1 .. clock + 1
      BY <2>1 DEF DiskBase, DiskIds
    <3>3. \A u \in tmps : u.id \in Nat /\ u.id <= clock
      BY DEF DiskBase, DiskIds, DiskTypes, Tmp
    <3>4. \A u, w \in tmps' : u.id = w.id => u = w
      BY <2>1, <2>2, <3>3 DEF DiskBase, DiskIds
    <3>5. \A u \in tmps' : u.id <= clock + 1
      BY <2>1, <2>2, <3>3
    <3> QED
      BY <2>1, <3>1, <3>2, <3>4, <3>5 DEF DiskIds
  <2> QED
    BY <2>3, <2>4 DEF DiskBase
<1>6. CASE StoreWrite(p)
  <2>1. /\ viewer' \in [Viewers -> Viewer] /\ \A q \in Viewers \ {p} : viewer'[q] = viewer[q]
        /\ viewer[p].pc = "created" /\ viewer'[p].pc \in {"view", "written"}
        /\ viewer'[p].pc = "written" => viewer'[p].job = viewer[p].job
    BY <1>6, WriteShape
  <2>2. \/ tmps' \subseteq tmps
        \/ \E t \in tmps, u \in Tmp : tmps' = (tmps \ {t}) \cup {u} /\ u.id = t.id
    BY <1>6, WriteShape, Zenon, SMTT(30)
  <2>3. /\ tmps' \subseteq Tmp
        /\ \A t, u \in tmps' : t.id = u.id => t = u
        /\ \A t \in tmps' : t.id <= clock
    BY <2>2 DEF DiskBase, DiskTypes, DiskIds
  <2> QED
    BY <1>6, <2>1, <2>3 DEF StoreWrite, DiskBase, DiskTypes, DiskIds
<1>7. CASE StoreRename(p)
  <2>1. /\ viewer' \in [Viewers -> Viewer] /\ viewer'[p].pc = "view"
        /\ \A q \in Viewers \ {p} : viewer'[q] = viewer[q]
    BY <1>7, RenameShape
  <2>2. tmps' \subseteq tmps
    BY <1>7, RenameShape, Zenon
  <2>3. /\ DOMAIN files' \subseteq Name /\ files' \in [DOMAIN files' -> File]
        /\ IsFiniteSet(DOMAIN files')
    <3>1. CASE files' = files
      BY <3>1 DEF DiskBase, DiskTypes
    <3>2. ASSUME NEW t \in tmps,
                 files' = [n \in DOMAIN files \cup {t.name} |->
                            IF n = t.name
                              THEN [pixels |-> t.pixels, whole |-> t.whole, mtime |-> t.id]
                              ELSE files[n]]
          PROVE  /\ DOMAIN files' \subseteq Name /\ files' \in [DOMAIN files' -> File]
                 /\ IsFiniteSet(DOMAIN files')
      <4>1. t.name \in Name /\ [pixels |-> t.pixels, whole |-> t.whole, mtime |-> t.id] \in File
        BY OldnessIsNat DEF DiskBase, DiskTypes, Tmp, File, Times
      <4>2. IsFiniteSet(DOMAIN files \cup {t.name})
        BY FS_AddElement DEF DiskBase, DiskTypes
      <4>3. DOMAIN files' = DOMAIN files \cup {t.name}
        BY <3>2
      <4> QED
        BY <3>2, <4>1, <4>2, <4>3 DEF DiskBase, DiskTypes
    <3> QED
      BY <1>7, <3>1, <3>2, RenameShape, Zenon
  <2> QED
    BY <1>7, <2>1, <2>2, <2>3 DEF StoreRename, DiskBase, DiskTypes, DiskIds
<1> QED
  BY <1>1, <1>2, <1>3, <1>4, <1>5, <1>6, <1>7 DEF ViewerStep

(* What a sweep does to its own state; the other sweeps stay as they are.  *)
LEMMA DirShape ==
    ASSUME DiskBase, NEW p \in Viewers, NEW d \in sweep[p].left, SweepDir(p, d)
    PROVE  /\ sweep[p].pc = "scan"
           /\ sweep' \in [Viewers -> Sweep] /\ \A q \in Viewers \ {p} : sweep'[q] = sweep[q]
           /\ sweep'[p].pc = "scan" /\ sweep'[p].left = sweep[p].left \ {d}
           /\ sweep'[p].queue = sweep[p].queue /\ sweep'[p].orphans = sweep[p].orphans
           /\ sweep'[p].entries = sweep[p].entries \cup
                {[name |-> n, mtime |-> files[n].mtime] : n \in {m \in DOMAIN files : m.dir = d}}
           /\ Orderly(sweep'[p])
<1> DEFINE D == {m \in DOMAIN files : m.dir = d}
           E == {[name |-> n, mtime |-> files[n].mtime] : n \in D}
           g == [n \in D |-> [name |-> n, mtime |-> files[n].mtime]]
<1>1. E \subseteq Entry
  BY DEF Entry, DiskBase, DiskTypes, File
<1>2. IsFiniteSet(E)
  <2>1. IsFiniteSet(D)
    BY FS_Subset DEF DiskBase, DiskTypes
  <2>2. g \in Surjection(D, E)
    BY DEF Surjection
  <2> QED
    BY <2>1, <2>2, FS_Surjection
<1> HIDE DEF E
<1>3. /\ sweep[p].pc = "scan"
      /\ sweep' = [sweep EXCEPT ![p].left = @ \ {d}, ![p].entries = @ \cup E]
  BY DEF SweepDir, E
<1>4. /\ sweep' \in [Viewers -> Sweep] /\ \A q \in Viewers \ {p} : sweep'[q] = sweep[q]
      /\ sweep'[p].pc = "scan" /\ sweep'[p].left = sweep[p].left \ {d}
      /\ sweep'[p].queue = sweep[p].queue /\ sweep'[p].orphans = sweep[p].orphans
      /\ sweep'[p].entries = sweep[p].entries \cup E
  BY <1>1, <1>3, ZenonT(30) DEF DiskBase, DiskTypes, Sweep
<1>5. IsFiniteSet(sweep[p].entries \cup E)
  BY <1>2, FS_Union DEF DiskBase, DiskTypes, Orderly
<1>6. Queued(sweep[p].queue)
  BY DEF DiskBase, DiskTypes, Orderly
<1> QED
  BY <1>3, <1>4, <1>5, <1>6 DEF E, Orderly

NamesFinite(entries) ==
    Names(entries) \subseteq Name /\ IsFiniteSet(Names(entries)) /\ Total(Names(entries)) \in Nat

(* The names of finitely many entries are finitely many, and so are their  *)
(* bytes.                                                                  *)
LEMMA NamesAreFinite ==
    ASSUME NEW S, S \subseteq Entry, IsFiniteSet(S)
    PROVE  NamesFinite(S)
<1> DEFINE g == [e \in S |-> e.name]
<1>1. Names(S) \subseteq Name
  BY DEF Names, Entry
<1>2. g \in Surjection(S, Names(S))
  BY DEF Surjection, Names
<1>3. IsFiniteSet(Names(S))
  BY <1>2, FS_Surjection
<1> QED
  BY <1>1, <1>3, UnitsFinite DEF NamesFinite

(* After the scan, either everything fits and the sweep is over, or what   *)
(* is beyond the budget is to be freed.                                    *)
LEMMA CountShape ==
    ASSUME DiskBase, NEW p \in Viewers, SweepCount(p)
    PROVE  /\ sweep[p].pc = "scan"
           /\ sweep' \in [Viewers -> Sweep] /\ \A q \in Viewers \ {p} : sweep'[q] = sweep[q]
           /\ Orderly(sweep'[p])
           /\ \/ /\ sweep'[p].pc = "off"
                 /\ sweep'[p].entries = {} /\ sweep'[p].queue = <<>> /\ sweep'[p].taken = {}
              \/ /\ sweep'[p].pc = "evict" /\ sweep'[p].taken = {}
                 /\ sweep'[p].entries = sweep[p].entries /\ Untried(p)' \subseteq sweep[p].entries
                 /\ sweep'[p].toFree + CacheBudget = Total(Names(sweep[p].entries))
<1> DEFINE total == Total(Names(sweep[p].entries))
<1>1. /\ total \in Nat /\ CacheBudget \in Nat
      /\ sweep[p].entries \subseteq Entry /\ IsFiniteSet(sweep[p].entries)
  BY NamesAreFinite, DiskCacheAssumption DEF NamesFinite, DiskBase, DiskTypes, Sweep, Orderly
<1>2. /\ sweep[p].pc = "scan"
      /\ \/ sweep' = [sweep EXCEPT ![p] = NoSweep]
         \/ /\ total > CacheBudget
            /\ \E q \in ByAge(sweep[p].entries) :
                 sweep' = [sweep EXCEPT ![p] =
                   [NoSweep EXCEPT !.pc = "evict", !.entries = sweep[p].entries,
                                   !.queue = q, !.toFree = total - CacheBudget]]
  BY DEF SweepCount
<1> HIDE DEF total
<1>3. CASE sweep' = [sweep EXCEPT ![p] = NoSweep]
  BY <1>2, <1>3, NoSweepIsOrderly DEF DiskBase, DiskTypes
<1>4. ASSUME total > CacheBudget, NEW q \in ByAge(sweep[p].entries),
             sweep' = [sweep EXCEPT ![p] =
               [NoSweep EXCEPT !.pc = "evict", !.entries = sweep[p].entries,
                               !.queue = q, !.toFree = total - CacheBudget]]
      PROVE  /\ sweep' \in [Viewers -> Sweep] /\ \A r \in Viewers \ {p} : sweep'[r] = sweep[r]
             /\ Orderly(sweep'[p])
             /\ sweep'[p].pc = "evict" /\ sweep'[p].taken = {}
             /\ sweep'[p].entries = sweep[p].entries /\ ToSet(sweep'[p].queue) \subseteq sweep[p].entries
             /\ sweep'[p].toFree + CacheBudget = total
  <2> DEFINE s == [NoSweep EXCEPT !.pc = "evict", !.entries = sweep[p].entries,
                                  !.queue = q, !.toFree = total - CacheBudget]
  <2>1. q \in Seq(Entry) /\ Queued(q) /\ ToSet(q) \subseteq sweep[p].entries
    BY <1>1, SortedIsQueued
  <2>2. total - CacheBudget \in Nat /\ total - CacheBudget + CacheBudget = total
    BY <1>1, <1>4
  <2>3. s \in Sweep
    BY <1>1, <2>1, <2>2 DEF NoSweep, Sweep
  <2>4. /\ s.pc = "evict" /\ s.entries = sweep[p].entries /\ s.queue = q /\ s.taken = {}
        /\ s.toFree = total - CacheBudget
    BY DEF NoSweep
  <2>5. sweep' = [sweep EXCEPT ![p] = s]
    BY <1>4
  <2> HIDE DEF s
  <2> QED
    BY <1>1, <2>1, <2>2, <2>3, <2>4, <2>5 DEF DiskBase, DiskTypes, Orderly
<1> QED
  BY <1>2, <1>3, <1>4, NoSweepIsOrderly DEF DiskBase, DiskTypes, Untried, total

(* One turn of the deletion loop: the oldest entry is tried; if its file   *)
(* could be removed, its size comes off what is to be freed.               *)
LEMMA EvictShape ==
    ASSUME DiskBase, NEW p \in Viewers, SweepEvict(p)
    PROVE  /\ sweep[p].pc = "evict" /\ sweep'[p].pc = "evict" /\ sweep[p].toFree > 0
           /\ sweep' \in [Viewers -> Sweep] /\ \A q \in Viewers \ {p} : sweep'[q] = sweep[q]
           /\ sweep'[p].entries = sweep[p].entries /\ Orderly(sweep'[p])
           /\ \E e \in Untried(p) :
                /\ e \in Entry /\ \A f \in Untried(p) : e.mtime <= f.mtime
                /\ Untried(p)' = Untried(p) \ {e}
                /\ \/ /\ sweep'[p].toFree = sweep[p].toFree /\ sweep'[p].taken = sweep[p].taken
                      /\ files' = files
                   \/ /\ files' = [n \in DOMAIN files \ {e.name} |-> files[n]]
                      /\ sweep'[p].taken = sweep[p].taken \cup {e}
                      /\ sweep[p].toFree <= sweep'[p].toFree + Size(e.name)
                      /\ sweep'[p].toFree > 0 => sweep[p].toFree = sweep'[p].toFree + Size(e.name)
<1> DEFINE e == Head(sweep[p].queue)
           rest == [sweep[p] EXCEPT !.queue = Tail(@)]
           less == Removed(p, e)
<1>1. /\ sweep[p].pc = "evict" /\ sweep[p].queue # <<>> /\ sweep[p].toFree > 0
      /\ sweep[p] \in Sweep /\ Orderly(sweep[p])
  BY DEF SweepEvict, DiskBase, DiskTypes
<1>2. /\ e \in Untried(p) /\ e \in Entry /\ \A f \in Untried(p) : e.mtime <= f.mtime
      /\ Tail(sweep[p].queue) \in Seq(Entry) /\ Queued(Tail(sweep[p].queue))
      /\ ToSet(Tail(sweep[p].queue)) = Untried(p) \ {e}
  BY <1>1, HeadIsOldest DEF Sweep, Orderly, Untried
<1>3. \/ /\ files' = [n \in DOMAIN files \ {e.name} |-> files[n]]
         /\ sweep' = [sweep EXCEPT ![p] = less]
      \/ sweep' = [sweep EXCEPT ![p] = rest] /\ files' = files
  BY DEF SweepEvict, Restrict
<1>4. /\ rest \in Sweep /\ rest.pc = "evict" /\ rest.entries = sweep[p].entries
      /\ rest.taken = sweep[p].taken
      /\ rest.queue = Tail(sweep[p].queue) /\ rest.toFree = sweep[p].toFree
  BY <1>1, <1>2 DEF Sweep
<1> HIDE DEF rest, e
<1>5. Size(e.name) \in Nat /\ sweep[p].toFree \in Nat
  BY <1>1, <1>2, UnitsOfOne DEF Entry, Sweep
<1>6. /\ Max({0, sweep[p].toFree - Size(e.name)}) \in Nat
      /\ sweep[p].toFree <= Max({0, sweep[p].toFree - Size(e.name)}) + Size(e.name)
      /\ Max({0, sweep[p].toFree - Size(e.name)}) > 0 =>
           sweep[p].toFree = Max({0, sweep[p].toFree - Size(e.name)}) + Size(e.name)
  BY <1>5, MaxWithZero
<1>7. /\ less \in Sweep /\ less.pc = "evict" /\ less.entries = sweep[p].entries
      /\ less.queue = Tail(sweep[p].queue) /\ less.taken = sweep[p].taken \cup {e}
      /\ less.toFree = Max({0, sweep[p].toFree - Size(e.name)})
  BY <1>1, <1>2, <1>6 DEF Sweep, Removed
<1> HIDE DEF less
<1>8. CASE /\ files' = [n \in DOMAIN files \ {e.name} |-> files[n]]
           /\ sweep' = [sweep EXCEPT ![p] = less]
  <2>1. /\ sweep' \in [Viewers -> Sweep] /\ sweep'[p] = less
        /\ \A q \in Viewers \ {p} : sweep'[q] = sweep[q]
    BY <1>7, <1>8 DEF DiskBase, DiskTypes
  <2> QED
    BY <1>1, <1>2, <1>6, <1>7, <1>8, <2>1 DEF Orderly, Untried
<1>9. CASE sweep' = [sweep EXCEPT ![p] = rest] /\ files' = files
  <2>1. /\ sweep' \in [Viewers -> Sweep] /\ sweep'[p] = rest
        /\ \A q \in Viewers \ {p} : sweep'[q] = sweep[q]
    BY <1>4, <1>9 DEF DiskBase, DiskTypes
  <2> QED
    BY <1>1, <1>2, <1>4, <1>9, <2>1 DEF Orderly, Untried
<1> QED
  BY <1>3, <1>8, <1>9

(* Types and ids, step by step of a sweep.                                 *)
LEMMA BaseSweep ==
    ASSUME DiskBase, NEW p \in Viewers, SweepStep(p)
    PROVE  DiskBase'
<1>1. ASSUME NEW d \in sweep[p].left, SweepDir(p, d) PROVE DiskBase'
  <2>1. /\ sweep' \in [Viewers -> Sweep] /\ Orderly(sweep'[p])
        /\ \A q \in Viewers \ {p} : sweep'[q] = sweep[q]
    BY <1>1, DirShape
  <2> QED
    BY <1>1, <2>1 DEF SweepDir, DiskBase, DiskTypes, DiskIds
<1>2. CASE SweepCount(p)
  <2>1. /\ sweep' \in [Viewers -> Sweep] /\ \A q \in Viewers \ {p} : sweep'[q] = sweep[q]
        /\ Orderly(sweep'[p])
    BY <1>2, CountShape
  <2> QED
    BY <1>2, <2>1 DEF SweepCount, DiskBase, DiskTypes, DiskIds
<1>3. CASE SweepEvict(p)
  <2>1. /\ sweep' \in [Viewers -> Sweep] /\ \A q \in Viewers \ {p} : sweep'[q] = sweep[q]
        /\ Orderly(sweep'[p])
    BY <1>3, EvictShape
  <2>3. /\ DOMAIN files' \subseteq DOMAIN files
        /\ files' \in [DOMAIN files' -> File]
    <3>1. files' = files \/ \E n : files' = [m \in DOMAIN files \ {n} |-> files[m]]
      BY <1>3, EvictShape
    <3>2. files \in [DOMAIN files -> File]
      BY DEF DiskBase, DiskTypes
    <3> QED
      BY <3>1, <3>2
  <2>4. IsFiniteSet(DOMAIN files')
    BY <2>3, FS_Subset DEF DiskBase, DiskTypes
  <2> QED
    BY <1>3, <2>1, <2>3, <2>4 DEF SweepEvict, DiskBase, DiskTypes, DiskIds
<1>4. CASE SweepPrune(p)
  <2>1. /\ sweep' \in [Viewers -> Sweep]
        /\ \A q \in Viewers : Orderly(sweep'[q])
    BY <1>4, NoSweepIsOrderly DEF SweepPrune, DiskBase, DiskTypes
  <2> QED
    BY <1>4, <2>1 DEF SweepPrune, DiskBase, DiskTypes, DiskIds
<1> QED
  BY <1>1, <1>2, <1>3, <1>4 DEF SweepStep

(* Types and ids, for any step of the system.                              *)
LEMMA BaseStep ==
    ASSUME DiskBase, [DiskNext]_diskVars
    PROVE  DiskBase'
<1>1. ASSUME NEW p \in Viewers, Die(p) PROVE DiskBase'
  <2>1. /\ viewer' \in [Viewers -> Viewer] /\ sweep' \in [Viewers -> Sweep]
        /\ viewer'[p].pc = "down" /\ \A q \in Viewers \ {p} : viewer'[q] = viewer[q]
    <3>1. Down \in Viewer /\ NoSweep \in Sweep /\ Down.pc = "down"
      BY NoSweepIsOrderly DEF Down, Viewer, Jobs
    <3> QED
      BY <1>1, <3>1 DEF Die, DiskBase, DiskTypes
  <2>2. \A q \in Viewers : Orderly(sweep'[q])
    BY <1>1, NoSweepIsOrderly DEF Die, DiskBase, DiskTypes
  <2> QED
    BY <1>1, <2>1, <2>2 DEF Die, DiskBase, DiskTypes, DiskIds
<1>2. CASE Edit
  BY <1>2 DEF Edit, DiskBase, DiskTypes, DiskIds
<1>3. CASE HourPasses
  <2>1. tmps' \subseteq Tmp
    BY <1>3, ZenonT(30) DEF HourPasses, DiskBase, DiskTypes, Tmp
  <2> DEFINE Aged(u) == [u EXCEPT !.old = TRUE]
  <2>2. \A u \in tmps : Aged(u).id = u.id
    BY DEF DiskBase, DiskTypes, Tmp
  <2> HIDE DEF Aged
  <2>3. \A t \in tmps' : \E u \in tmps : t = Aged(u)
    BY <1>3 DEF HourPasses, Aged
  <2>4. DiskIds'
    BY <1>3, <2>2, <2>3 DEF HourPasses, DiskBase, DiskIds
  <2> QED
    BY <1>3, <2>1, <2>4 DEF HourPasses, DiskBase, DiskTypes
<1>4. CASE UNCHANGED diskVars
  BY <1>4 DEF diskVars, DiskBase, DiskTypes, DiskIds
<1> QED
  BY <1>1, <1>2, <1>3, <1>4, BaseViewer, BaseSweep DEF DiskNext

-----------------------------------------------------------------------------
(* What is in the files.                                                   *)

(* What any step can do to the files: a temporary file is created under a  *)
(* new id, completed, aged or removed, and becomes the file of its name.   *)
LEMMA FilesStep ==
    ASSUME DiskBase, [DiskNext]_diskVars
    PROVE  /\ clock \in Nat /\ clock' \in Nat /\ clock <= clock'
           /\ \A t \in tmps' :
                \/ \E u \in tmps : /\ u.id = t.id /\ u.name = t.name /\ u.pixels = t.pixels
                                   /\ u.whole => t.whole
                                   /\ u.old /\ Orphan(u) => t = u
                \/ /\ clock' = clock + 1 /\ t.id = clock' /\ ~t.old /\ t.name.dir \in dirs
                   /\ \E p \in Viewers : /\ viewer[p].pc = "mkdir"
                                         /\ t.name = CachePathInDir(viewer[p].dir, viewer[p].job)
                                         /\ t.pixels = Render(viewer[p].doc, viewer[p].job)
           /\ \A n \in DOMAIN files' :
                \/ n \in DOMAIN files /\ files'[n] = files[n]
                \/ \E p \in Viewers : \E t \in Mine(p) :
                     /\ viewer[p].pc = "written" /\ t \in tmps /\ tmps' = tmps \ {t} /\ n = t.name
                     /\ files'[n] = [pixels |-> t.pixels, whole |-> t.whole, mtime |-> t.id]
<1>0. clock \in Nat /\ \A t \in tmps : t \in Tmp
  BY DEF DiskBase, DiskTypes
<1>1. ASSUME NEW p \in Viewers, StoreCreate(p)
      PROVE  /\ files' = files /\ clock' = clock + 1
             /\ \/ tmps' = tmps
                \/ \E t \in Tmp :
                     /\ tmps' = tmps \cup {t} /\ t.id = clock + 1 /\ ~t.old /\ t.name.dir \in dirs
                     /\ viewer[p].pc = "mkdir"
                     /\ t.name = CachePathInDir(viewer[p].dir, viewer[p].job)
                     /\ t.pixels = Render(viewer[p].doc, viewer[p].job)
  <2>1. files' = files /\ clock' = clock + 1
    BY <1>1 DEF StoreCreate
  <2> QED
    BY <1>1, <2>1, CreateShape
<1>2. ASSUME NEW p \in Viewers, StoreWrite(p)
      PROVE  /\ UNCHANGED <<files, clock>>
             /\ \A t \in tmps' : t \in tmps \/
                  \E u \in tmps : /\ u.id = t.id /\ u.name = t.name /\ u.pixels = t.pixels
                                  /\ u.whole => t.whole
                                  /\ ~Orphan(u)
  <2>1. UNCHANGED <<files, clock>>
    BY <1>2 DEF StoreWrite
  <2>2. \/ tmps' = tmps
        \/ \E t \in tmps : tmps' = tmps \ {t}
        \/ \E t \in tmps, u \in Tmp :
             /\ tmps' = (tmps \ {t}) \cup {u}
             /\ u.id = t.id /\ u.name = t.name /\ u.pixels = t.pixels /\ u.whole
             /\ t.id = viewer[p].job
    BY <1>2, WriteShape, Zenon
  <2>3. viewer[p].pc = "created"
    BY <1>2 DEF StoreWrite
  <2>4. \A t : t.id = viewer[p].job => ~Orphan(t)
    BY <2>3 DEF Orphan
  <2> QED
    BY <2>1, <2>2, <2>4
<1>3. ASSUME NEW p \in Viewers, StoreRename(p)
      PROVE  /\ clock' = clock /\ tmps' \subseteq tmps
             /\ \A n \in DOMAIN files' :
                  \/ n \in DOMAIN files /\ files'[n] = files[n]
                  \/ \E t \in Mine(p) :
                       /\ viewer[p].pc = "written" /\ t \in tmps /\ tmps' = tmps \ {t} /\ n = t.name
                       /\ files'[n] = [pixels |-> t.pixels, whole |-> t.whole, mtime |-> t.id]
  <2>1. clock' = clock /\ viewer[p].pc = "written"
    BY <1>3 DEF StoreRename
  <2>2. CASE tmps' = tmps /\ files' = files
    BY <2>1, <2>2
  <2>3. ASSUME NEW t \in Mine(p), tmps' = tmps \ {t}, t \in tmps,
               files' = [n \in DOMAIN files \cup {t.name} |->
                          IF n = t.name
                            THEN [pixels |-> t.pixels, whole |-> t.whole, mtime |-> t.id]
                            ELSE files[n]]
        PROVE  /\ tmps' \subseteq tmps
               /\ \A n \in DOMAIN files' :
                  \/ n \in DOMAIN files /\ files'[n] = files[n]
                  \/ /\ viewer[p].pc = "written" /\ t \in tmps /\ tmps' = tmps \ {t} /\ n = t.name
                     /\ files'[n] = [pixels |-> t.pixels, whole |-> t.whole, mtime |-> t.id]
    BY <2>1, <2>3
  <2> QED
    BY <1>3, <2>1, <2>2, <2>3, RenameShape, Zenon
<1>4. CASE HourPasses
  <2>1. UNCHANGED <<files, clock>>
    BY <1>4 DEF HourPasses
  <2>2. \A t \in tmps' : \E u \in tmps :
           /\ u.id = t.id /\ u.name = t.name /\ u.pixels = t.pixels /\ u.whole = t.whole
           /\ u.old => t = u
    <3> DEFINE Aged(u) == [u EXCEPT !.old = TRUE]
    <3>1. ASSUME NEW u \in Tmp
          PROVE  /\ u.id = Aged(u).id /\ u.name = Aged(u).name /\ u.pixels = Aged(u).pixels
                 /\ u.whole = Aged(u).whole
                 /\ u.old => Aged(u) = u
      BY DEF Tmp
    <3> HIDE DEF Aged
    <3>2. \A t \in tmps' : \E u \in tmps : t = Aged(u)
      BY <1>4 DEF HourPasses, Aged
    <3> QED
      BY <1>0, <3>1, <3>2
  <2> QED
    BY <1>0, <2>1, <2>2
<1>5. ASSUME NEW p \in Viewers, SweepEvict(p)
      PROVE  /\ UNCHANGED <<tmps, clock>>
             /\ \A n \in DOMAIN files' : n \in DOMAIN files /\ files'[n] = files[n]
  <2>1. UNCHANGED <<tmps, clock>>
    BY <1>5 DEF SweepEvict
  <2> QED
    BY <1>5, <2>1, EvictShape, ZenonT(30)
<1>6. ASSUME NEW p \in Viewers,
             \/ Open(p) \/ ResolveDir(p) \/ \E b \in Bitmaps : EnsurePageRendered(p, b)
             \/ StoreMkdir(p) \/ (\E d \in sweep[p].left : SweepDir(p, d)) \/ SweepCount(p)
             \/ SweepPrune(p) \/ Die(p)
      PROVE  UNCHANGED <<files, clock>> /\ tmps' \subseteq tmps
  BY <1>6 DEF Open, ResolveDir, EnsurePageRendered, StoreMkdir, SweepDir, SweepCount, SweepPrune,
              Die
<1>7. CASE Edit \/ UNCHANGED diskVars
  BY <1>0, <1>7 DEF Edit, diskVars
<1>8. ASSUME NEW p \in Viewers, ViewerStep(p) \/ SweepStep(p) \/ Die(p)
      PROVE  /\ clock \in Nat /\ clock' \in Nat /\ clock <= clock'
             /\ \A t \in tmps' :
                \/ \E u \in tmps : /\ u.id = t.id /\ u.name = t.name /\ u.pixels = t.pixels
                                   /\ u.whole => t.whole
                                   /\ u.old /\ Orphan(u) => t = u
                \/ /\ clock' = clock + 1 /\ t.id = clock' /\ ~t.old /\ t.name.dir \in dirs
                   /\ \E q \in Viewers : /\ viewer[q].pc = "mkdir"
                                         /\ t.name = CachePathInDir(viewer[q].dir, viewer[q].job)
                                         /\ t.pixels = Render(viewer[q].doc, viewer[q].job)
             /\ \A n \in DOMAIN files' :
                \/ n \in DOMAIN files /\ files'[n] = files[n]
                \/ \E t \in Mine(p) :
                     /\ viewer[p].pc = "written" /\ t \in tmps /\ tmps' = tmps \ {t} /\ n = t.name
                     /\ files'[n] = [pixels |-> t.pixels, whole |-> t.whole, mtime |-> t.id]
  <2>1. CASE StoreCreate(p)
    BY <1>0, <1>1, <2>1
  <2>2. CASE StoreWrite(p)
    BY <1>0, <1>2, <2>2
  <2>3. CASE StoreRename(p)
    BY <1>0, <1>3, <2>3
  <2>4. CASE SweepEvict(p)
    BY <1>0, <1>5, <2>4
  <2>5. CASE \/ Open(p) \/ ResolveDir(p) \/ \E b \in Bitmaps : EnsurePageRendered(p, b)
             \/ StoreMkdir(p) \/ (\E d \in sweep[p].left : SweepDir(p, d)) \/ SweepCount(p)
             \/ SweepPrune(p) \/ Die(p)
    BY <1>0, <1>6, <2>5
  <2> QED
    BY <1>8, <2>1, <2>2, <2>3, <2>4, <2>5 DEF ViewerStep, SweepStep
<1> QED
  BY <1>4, <1>7, <1>8 DEF DiskNext

(* Who writes a temporary file keeps its id until it is done.              *)
LEMMA WritingStep ==
    ASSUME DiskBase, [DiskNext]_diskVars, NEW q \in Viewers
    PROVE  /\ viewer'[q].pc = "created" =>
                \/ viewer[q].pc = "created" /\ viewer'[q].job = viewer[q].job
                \/ clock' = clock + 1 /\ viewer'[q].job = clock'
           /\ viewer'[q].pc = "written" =>
                \/ viewer[q].pc = "written" /\ viewer'[q].job = viewer[q].job
                \/ StoreWrite(q) /\ viewer[q].pc = "created" /\ viewer'[q].job = viewer[q].job
<1>1. ASSUME NEW p \in Viewers, ViewerStep(p) \/ Die(p)
      PROVE  /\ p # q => viewer'[q] = viewer[q]
             /\ viewer'[p].pc = "created" => clock' = clock + 1 /\ viewer'[p].job = clock'
             /\ viewer'[p].pc = "written" =>
                  StoreWrite(p) /\ viewer[p].pc = "created" /\ viewer'[p].job = viewer[p].job
  <2>1. CASE Open(p) \/ ResolveDir(p) \/ Die(p)
    <3>1. /\ p # q => viewer'[q] = viewer[q]
          /\ viewer'[p].pc \in {"opened", "view", "down"}
      <4>1. CASE Open(p)
        BY <4>1 DEF Open, Down, DiskBase, DiskTypes
      <4>2. CASE ResolveDir(p)
        BY <4>2 DEF ResolveDir, DiskBase, DiskTypes, Viewer
      <4>3. CASE Die(p)
        BY <4>3 DEF Die, Down, DiskBase, DiskTypes
      <4> QED
        BY <2>1, <4>1, <4>2, <4>3
    <3> QED
      BY <3>1
  <2>2. ASSUME NEW b \in Bitmaps, EnsurePageRendered(p, b)
        PROVE  (p # q => viewer'[q] = viewer[q]) /\ viewer'[p].pc = "fast"
    BY <2>2 DEF EnsurePageRendered, DiskBase, DiskTypes, Viewer
  <2>3. CASE StoreMkdir(p)
    BY <2>3 DEF StoreMkdir, DiskBase, DiskTypes, Viewer
  <2>4. CASE StoreCreate(p)
    <3>1. clock' = clock + 1
      BY <2>4 DEF StoreCreate
    <3> QED
      BY <2>4, <3>1, CreateShape
  <2>5. CASE StoreWrite(p)
    BY <2>5, WriteShape
  <2>6. CASE StoreRename(p)
    BY <2>6, RenameShape
  <2> QED
    BY <1>1, <2>1, <2>2, <2>3, <2>4, <2>5, <2>6 DEF ViewerStep
<1>2. ASSUME NEW p \in Viewers, SweepStep(p) PROVE viewer' = viewer
  BY <1>2 DEF SweepStep, SweepDir, SweepCount, SweepEvict, SweepPrune
<1>3. CASE Edit \/ HourPasses \/ UNCHANGED diskVars
  BY <1>3 DEF Edit, HourPasses, diskVars
<1> QED
  BY <1>1, <1>2, <1>3 DEF DiskNext

(* Pixels are those of the bitmap they are named after, and, if the PDF    *)
(* does not change while a viewer opens it, of the edition whose directory *)
(* they are in.                                                            *)
Shows(n, pixels) ==
    pixels.bitmap = BitmapOf(n) /\ (~EditWhileOpening => pixels.doc = n.dir)

Contents ==
    /\ \A n \in DOMAIN files : Shows(n, files[n].pixels) /\ files[n].whole
    /\ \A t \in tmps : Shows(t.name, t.pixels)
    /\ \A p \in Viewers : viewer[p].pc = "written" => \A t \in Mine(p) : t.whole

Editions ==
    ~EditWhileOpening => \A p \in Viewers :
        /\ viewer[p].pc = "opened" => viewer[p].doc = version
        /\ viewer[p].pc \notin {"down", "opened"} => viewer[p].dir = viewer[p].doc

(* Only resolving the directory relates a viewer to the version on disk,   *)
(* and if nothing changes in between that is the version it has opened.    *)
LEMMA EditionsStep ==
    ASSUME DiskBase, Editions, [DiskNext]_diskVars
    PROVE  Editions'
<1> SUFFICES ASSUME ~EditWhileOpening PROVE Editions'
  BY DEF Editions
<1>0. \A q \in Viewers :
        /\ viewer[q].pc = "opened" => viewer[q].doc = version
        /\ viewer[q].pc \notin {"down", "opened"} => viewer[q].dir = viewer[q].doc
  BY DEF Editions
<1>1. ASSUME NEW p \in Viewers, ViewerStep(p) PROVE Editions'
  <2>1. version' = version
    BY <1>1 DEF ViewerStep, Open, ResolveDir, EnsurePageRendered, StoreMkdir, StoreCreate,
                StoreWrite, StoreRename
  <2>2. CASE Open(p)
    BY <1>0, <2>2 DEF Open, Editions, Down, DiskBase, DiskTypes
  <2>3. CASE ResolveDir(p)
    BY <1>0, <2>3 DEF ResolveDir, Editions, PdfCacheDir, DiskBase, DiskTypes, Viewer
  <2>4. CASE \/ \E b \in Bitmaps : EnsurePageRendered(p, b)
             \/ StoreMkdir(p) \/ StoreCreate(p) \/ StoreWrite(p) \/ StoreRename(p)
    <3>1. /\ viewer[p].pc \notin {"down", "opened"} /\ viewer'[p].pc # "opened"
          /\ viewer'[p].doc = viewer[p].doc /\ viewer'[p].dir = viewer[p].dir
          /\ \A q \in Viewers \ {p} : viewer'[q] = viewer[q]
      <4>1. ASSUME NEW b \in Bitmaps, EnsurePageRendered(p, b)
            PROVE  /\ viewer[p].pc \notin {"down", "opened"} /\ viewer'[p].pc # "opened"
                   /\ viewer'[p].doc = viewer[p].doc /\ viewer'[p].dir = viewer[p].dir
                   /\ \A q \in Viewers \ {p} : viewer'[q] = viewer[q]
        <5>1. b \in Jobs /\ viewer[p].pc = "view"
          BY <4>1 DEF EnsurePageRendered, Jobs
        <5> QED
          BY <4>1, <5>1, Advances DEF EnsurePageRendered, DiskBase
      <4>2. CASE StoreMkdir(p)
        <5>1. viewer[p].pc = "fast"
          BY <4>2 DEF StoreMkdir
        <5> QED
          BY <4>2, <5>1, Steps DEF StoreMkdir, DiskBase
      <4>3. CASE StoreCreate(p)
        BY <4>3, CreateShape
      <4>4. CASE StoreWrite(p)
        BY <4>4, WriteShape
      <4>5. CASE StoreRename(p)
        BY <4>5, RenameShape
      <4> QED
        BY <2>4, <4>1, <4>2, <4>3, <4>4, <4>5
    <3> QED
      BY <1>0, <2>1, <3>1 DEF Editions
  <2> QED
    BY <1>1, <2>2, <2>3, <2>4 DEF ViewerStep
<1>2. ASSUME NEW p \in Viewers, SweepStep(p) PROVE Editions'
  BY <1>0, <1>2 DEF SweepStep, SweepDir, SweepCount, SweepEvict, SweepPrune, Editions
<1>3. ASSUME NEW p \in Viewers, Die(p) PROVE Editions'
  BY <1>0, <1>3 DEF Die, Down, Editions, DiskBase, DiskTypes
<1>4. CASE Edit
  BY <1>0, <1>4 DEF Edit, Editions
<1>5. CASE HourPasses \/ UNCHANGED diskVars
  BY <1>0, <1>5 DEF HourPasses, diskVars, Editions
<1> QED
  BY <1>1, <1>2, <1>3, <1>4, <1>5 DEF DiskNext

(* What a file shows is settled when its temporary file is created; the    *)
(* rename makes it visible only once it is complete.                       *)
LEMMA ContentsStep ==
    ASSUME DiskBase, Editions, Contents, [DiskNext]_diskVars
    PROVE  Contents'
<1>1. ASSUME NEW t \in tmps' PROVE Shows(t.name, t.pixels)
  <2>1. CASE \E u \in tmps : u.name = t.name /\ u.pixels = t.pixels
    BY <2>1 DEF Contents
  <2>2. ASSUME NEW p \in Viewers, viewer[p].pc = "mkdir",
               t.name = CachePathInDir(viewer[p].dir, viewer[p].job),
               t.pixels = Render(viewer[p].doc, viewer[p].job)
        PROVE  Shows(t.name, t.pixels)
    <3>1. viewer[p].job \in Bitmaps /\ viewer[p].dir \in Nat
      BY <2>2 DEF DiskBase, DiskIds, DiskTypes, Viewer
    <3>2. BitmapOf(t.name) = viewer[p].job /\ t.name.dir = viewer[p].dir
      BY <2>2, <3>1, NameOfBitmap DEF CachePathInDir
    <3>3. t.pixels.bitmap = viewer[p].job /\ t.pixels.doc = viewer[p].doc
      BY <2>2 DEF Render
    <3> QED
      BY <2>2, <3>2, <3>3 DEF Shows, Editions
  <2> QED
    BY <2>1, <2>2, FilesStep
<1>2. ASSUME NEW n \in DOMAIN files' PROVE Shows(n, files'[n].pixels) /\ files'[n].whole
  BY FilesStep DEF Contents
<1>3. ASSUME NEW p \in Viewers, viewer'[p].pc = "written", NEW t \in tmps', t.id = viewer'[p].job
      PROVE  t.whole
  <2>1. CASE viewer[p].pc = "written" /\ viewer'[p].job = viewer[p].job
    <3>1. viewer[p].job \in 1 .. clock /\ clock \in Nat
      BY <2>1 DEF DiskBase, DiskIds, DiskTypes
    <3>2. \E u \in tmps : u.id = t.id /\ (u.whole => t.whole)
      BY <1>3, <2>1, <3>1, FilesStep
    <3> QED
      BY <1>3, <2>1, <3>2 DEF Contents, Mine
  <2>2. CASE StoreWrite(p)
    <3>1. viewer[p].pc = "created" /\ viewer'[p].job = viewer[p].job
      BY <1>3, <2>2, WriteShape
    <3>2. \/ tmps' = tmps /\ Mine(p) = {}
          \/ \E v \in tmps, u \in Tmp :
                    /\ tmps' = (tmps \ {v}) \cup {u}
                    /\ v.id = viewer[p].job /\ u.id = v.id /\ u.whole
      BY <1>3, <2>2, WriteShape, Zenon
    <3> QED
      BY <1>3, <3>1, <3>2 DEF Mine, DiskBase, DiskIds
  <2> QED
    BY <1>3, <2>1, <2>2, WritingStep
<1> QED
  BY <1>1, <1>2, <1>3 DEF Contents, Mine

-----------------------------------------------------------------------------
(* The sweep.                                                              *)

(* A sweep is changed by its own steps only.                               *)
LEMMA SweepsStep ==
    ASSUME DiskBase, [DiskNext]_diskVars, NEW p \in Viewers
    PROVE  \/ sweep'[p] = sweep[p]
           \/ Open(p) \/ (\E d \in sweep[p].left : SweepDir(p, d)) \/ SweepCount(p)
           \/ SweepEvict(p)
           \/ sweep'[p] = NoSweep
<1>1. ASSUME NEW q \in Viewers, ViewerStep(q), ~Open(q) PROVE sweep' = sweep
  BY <1>1 DEF ViewerStep, ResolveDir, EnsurePageRendered, StoreMkdir, StoreCreate,
              StoreWrite, StoreRename
<1>2. ASSUME NEW q \in Viewers, q # p, Open(q) \/ SweepStep(q) \/ Die(q)
      PROVE  sweep'[p] = sweep[p]
  BY <1>2 DEF Open, Die, SweepStep, SweepDir, SweepCount, SweepEvict, SweepPrune, DiskBase,
              DiskTypes
<1>3. CASE Edit \/ HourPasses \/ UNCHANGED diskVars
  BY <1>3 DEF Edit, HourPasses, diskVars
<1>4. CASE SweepPrune(p) \/ Die(p)
  BY <1>4 DEF SweepPrune, Die, DiskBase, DiskTypes
<1> QED
  BY <1>1, <1>2, <1>3, <1>4 DEF DiskNext, SweepStep

(* While a directory with an orphan in it is not swept yet, nobody else    *)
(* can touch the orphan; once it is gone, its id does not come back.       *)
Orphans ==
    /\ \A t \in tmps : t.name.dir \in dirs
    /\ \A p \in Viewers : sweep[p].pc = "scan" =>
         \A o \in sweep[p].orphans :
            /\ o.old /\ o.id <= clock /\ Orphan(o)
            /\ \A t \in tmps : t.id = o.id => t = o /\ o.name.dir \in sweep[p].left

(* Nobody takes over a temporary file: ids are not given twice.            *)
LEMMA OrphanStays ==
    ASSUME DiskBase, [DiskNext]_diskVars, NEW o \in Tmp, Orphan(o), o.id <= clock
    PROVE  Orphan(o)'
BY WritingStep DEF Orphan, DiskBase, DiskTypes, Tmp

(* A temporary file that had no writer when the sweep began is gone once   *)
(* its directory has been visited.                                         *)
LEMMA OrphansStep ==
    ASSUME DiskBase, Orphans, [DiskNext]_diskVars
    PROVE  Orphans'
<1>1. ASSUME NEW t \in tmps' PROVE t.name.dir \in dirs'
  <2>1. t.name.dir \in dirs
    BY FilesStep DEF Orphans
  <2>2. CASE \E p \in Viewers : SweepPrune(p)
    BY <2>1, <2>2 DEF SweepPrune
  <2>3. CASE ~ \E p \in Viewers : SweepPrune(p)
    <3>1. dirs \subseteq dirs'
      BY <2>3 DEF DiskNext, ViewerStep, SweepStep, Open, ResolveDir, EnsurePageRendered, StoreMkdir,
                  StoreCreate, StoreWrite, StoreRename, Die, SweepDir, SweepCount, SweepEvict, Edit,
                  HourPasses, diskVars
    <3> QED
      BY <2>1, <3>1
  <2> QED
    BY <2>2, <2>3
<1>2. ASSUME NEW p \in Viewers, sweep'[p].pc = "scan", NEW o \in sweep'[p].orphans
      PROVE  /\ o.old /\ o.id <= clock' /\ Orphan(o)'
             /\ \A t \in tmps' : t.id = o.id => t = o /\ o.name.dir \in sweep'[p].left
  <2>0. o \in Tmp /\ clock \in Nat /\ clock' \in Nat /\ clock <= clock'
    BY <1>2, BaseStep, FilesStep DEF DiskBase, DiskTypes, Sweep
  <2>1. CASE Open(p)
    <3> DEFINE s == [NoSweep EXCEPT !.pc = "scan", !.left = dirs,
                                    !.orphans = {t \in tmps : t.old /\ Orphan(t)}]
    <3>1. sweep'[p] = s /\ tmps' = tmps
      BY <2>1 DEF Open, DiskBase, DiskTypes
    <3>2. s.left = dirs /\ s.orphans = {t \in tmps : t.old /\ Orphan(t)}
      BY DEF NoSweep
    <3> HIDE DEF s
    <3>3. o \in tmps /\ o.old /\ Orphan(o) /\ o.id <= clock
      BY <1>2, <3>1, <3>2 DEF DiskBase, DiskIds
    <3>4. \A t \in tmps' : t.id = o.id => t = o /\ o.name.dir \in dirs
      BY <3>1, <3>3 DEF DiskBase, DiskIds, Orphans
    <3>5. Orphan(o)'
      BY <2>0, <3>3, OrphanStays
    <3>6. o.id <= clock'
      BY <2>0, <3>3 DEF Tmp
    <3> QED
      BY <3>1, <3>2, <3>3, <3>4, <3>5, <3>6
  <2>2. ASSUME NEW d \in sweep[p].left, SweepDir(p, d)
        PROVE  /\ o.old /\ o.id <= clock' /\ Orphan(o)'
               /\ \A t \in tmps' : t.id = o.id => t = o /\ o.name.dir \in sweep'[p].left
    <3>1. /\ sweep[p].pc = "scan" /\ sweep'[p].left = sweep[p].left \ {d}
          /\ o \in sweep[p].orphans
      BY <1>2, <2>2, DirShape
    <3>2. /\ o.old /\ o.id <= clock /\ Orphan(o)
          /\ \A t \in tmps : t.id = o.id => t = o /\ o.name.dir \in sweep[p].left
      BY <3>1 DEF Orphans
    <3>3. tmps' = {t \in tmps : ~(t.name.dir = d /\ t.old)}
      BY <2>2 DEF SweepDir
    <3>4. Orphan(o)' /\ o.id <= clock'
      BY <2>0, <3>2, OrphanStays DEF Tmp
    <3> QED
      BY <3>1, <3>2, <3>3, <3>4
  <2>3. CASE sweep'[p] = sweep[p]
    <3>1. /\ o.old /\ o.id <= clock /\ Orphan(o)
          /\ \A t \in tmps : t.id = o.id => t = o /\ o.name.dir \in sweep[p].left
      BY <1>2, <2>3 DEF Orphans
    <3>2. Orphan(o)' /\ o.id <= clock' /\ o.id # clock + 1
      BY <2>0, <3>1, OrphanStays DEF Tmp
    <3>3. \A t \in tmps' : t.id = o.id => t = o /\ o.name.dir \in sweep[p].left
      BY <3>1, <3>2, FilesStep
    <3> QED
      BY <2>3, <3>1, <3>2, <3>3
  <2>4. CASE SweepCount(p) \/ SweepEvict(p) \/ sweep'[p] = NoSweep
    BY <1>2, <2>4, CountShape, EvictShape DEF NoSweep
  <2> QED
    BY <2>1, <2>2, <2>3, <2>4, SweepsStep
<1> QED
  BY <1>1, <1>2 DEF Orphans

(* What is left of the files a sweep has found.                            *)
LeftOf(p) ==
    {e \in sweep[p].entries : e.name \in DOMAIN files /\ files[e.name].mtime = e.mtime}

(* No file that comes later has the time of one that was found; so what is *)
(* left of them only gets less.  What is still to be freed is enough, if   *)
(* it is what is left and what has not been tried yet that is counted.     *)
FreedBy(p) ==
    /\ \A e, f \in sweep[p].entries : e.name = f.name => e = f
    /\ sweep[p].pc = "off" => sweep[p].entries = {}
    /\ sweep[p].pc = "scan" => \A e \in sweep[p].entries : e.name.dir \notin sweep[p].left
    /\ sweep[p].pc = "evict" =>
         /\ Untried(p) \subseteq sweep[p].entries
         /\ Total(Names(LeftOf(p) \cup Untried(p))) <= sweep[p].toFree + CacheBudget

(* The account of what a sweep has taken: as long as something is to be    *)
(* freed, it is what is found beyond the budget but for what was taken.    *)
LastWasNeeded(taken, found) ==
    \E e \in taken : /\ \A f \in taken : f.mtime <= e.mtime
                     /\ Total(Names(taken \ {e})) + CacheBudget < Total(Names(found))

TakenBy(p) ==
    LET taken == sweep[p].taken
    IN  sweep[p].pc = "evict" =>
          /\ taken \subseteq sweep[p].entries
          /\ \A e \in taken, f \in Untried(p) : e # f /\ e.mtime <= f.mtime
          /\ sweep[p].toFree > 0 =>
               Total(Names(taken)) + sweep[p].toFree + CacheBudget
                 = Total(Names(sweep[p].entries))
          /\ taken # {} => LastWasNeeded(taken, sweep[p].entries)

Freed ==
    /\ \A n \in DOMAIN files :
         files[n].mtime <= clock /\ \A t \in tmps : t.id # files[n].mtime
    /\ \A p \in Viewers : \A e \in sweep[p].entries :
         e.mtime <= clock /\ \A t \in tmps : t.id # e.mtime
    /\ \A p \in Viewers : FreedBy(p)

Taken == \A p \in Viewers : TakenBy(p)

(* Times of files and entries.                                             *)
LEMMA TimesStep ==
    ASSUME DiskBase, Freed, [DiskNext]_diskVars
    PROVE  /\ \A n \in DOMAIN files' :
                files'[n].mtime <= clock' /\ \A t \in tmps' : t.id # files'[n].mtime
           /\ \A p \in Viewers : \A e \in sweep'[p].entries :
                e.mtime <= clock' /\ \A t \in tmps' : t.id # e.mtime
<1>0. /\ clock \in Nat /\ clock' \in Nat /\ clock <= clock'
      /\ \A t \in tmps' : (\E u \in tmps : u.id = t.id) \/ t.id = clock + 1
  BY FilesStep
<1>1. ASSUME NEW m \in Int, m <= clock, \A t \in tmps : t.id # m
      PROVE  m <= clock' /\ \A t \in tmps' : t.id # m
  BY <1>0, <1>1
<1>2. \A n \in DOMAIN files : files[n].mtime \in Int
  BY DEF DiskBase, DiskTypes, File, Times
<1>3. ASSUME NEW n \in DOMAIN files'
      PROVE  files'[n].mtime <= clock' /\ \A t \in tmps' : t.id # files'[n].mtime
  <2>1. CASE n \in DOMAIN files /\ files'[n] = files[n]
    BY <1>1, <1>2, <2>1 DEF Freed
  <2>2. ASSUME NEW t \in tmps, tmps' = tmps \ {t},
               files'[n] = [pixels |-> t.pixels, whole |-> t.whole, mtime |-> t.id]
        PROVE  files'[n].mtime <= clock' /\ \A u \in tmps' : u.id # files'[n].mtime
    BY <1>0, <2>2 DEF DiskBase, DiskIds, DiskTypes, Tmp
  <2> QED
    BY <2>1, <2>2, FilesStep
<1>4. ASSUME NEW p \in Viewers, NEW e \in sweep'[p].entries
      PROVE  e.mtime <= clock' /\ \A t \in tmps' : t.id # e.mtime
  <2>1. CASE e \in sweep[p].entries
    <3>1. e \in Entry
      BY <2>1 DEF DiskBase, DiskTypes, Sweep
    <3> QED
      BY <1>1, <2>1, <3>1 DEF Freed, Entry, Times
  <2>2. CASE \E n \in DOMAIN files : e = [name |-> n, mtime |-> files[n].mtime]
    BY <1>1, <1>2, <2>2 DEF Freed
  <2> QED
    <3>1. CASE Open(p) \/ sweep'[p] = NoSweep
      <4>1. sweep'[p].entries = {}
        <5> DEFINE w == [NoSweep EXCEPT !.pc = "scan", !.left = dirs,
                                        !.orphans = {t \in tmps : t.old /\ Orphan(t)}]
        <5>1. Open(p) => sweep'[p] = w
          BY DEF Open, DiskBase, DiskTypes
        <5>2. w.entries = {} /\ NoSweep.entries = {}
          BY DEF NoSweep
        <5> HIDE DEF w
        <5> QED
          BY <3>1, <5>1, <5>2
      <4> QED
        BY <1>4, <4>1
    <3>2. ASSUME NEW d \in sweep[p].left, SweepDir(p, d)
          PROVE  \/ e \in sweep[p].entries
                 \/ \E n \in DOMAIN files : e = [name |-> n, mtime |-> files[n].mtime]
      BY <1>4, <3>2, DirShape
    <3>3. CASE SweepCount(p) \/ SweepEvict(p) \/ sweep'[p] = sweep[p]
      BY <1>4, <2>1, <3>3, CountShape, EvictShape
    <3> QED
      BY <2>1, <2>2, <3>1, <3>2, <3>3, SweepsStep
<1> QED
  BY <1>3, <1>4

(* The sum over what is left and untried.                                  *)
LEMMA LessIsLess ==
    ASSUME DiskBase, NEW S, S \subseteq Entry, IsFiniteSet(S), NEW T \in SUBSET S
    PROVE  /\ Total(Names(T)) <= Total(Names(S))
           /\ Total(Names(T)) \in Nat /\ Total(Names(S)) \in Nat
           /\ \A e \in S : e.name \notin Names(T) =>
                Total(Names(T)) <= Total(Names(S)) - Size(e.name) /\ Size(e.name) \in Nat
<1>1. IsFiniteSet(T) /\ T \subseteq Entry
  BY FS_Subset
<1>2. NamesFinite(S) /\ NamesFinite(T)
  BY <1>1, NamesAreFinite
<1>3. Names(T) \subseteq Names(S)
  BY DEF Names
<1>4. Total(Names(T)) <= Total(Names(S))
  BY <1>2, <1>3, TotalMonotonic DEF NamesFinite
<1>5. ASSUME NEW e \in S, e.name \notin Names(T)
      PROVE  Total(Names(T)) <= Total(Names(S)) - Size(e.name) /\ Size(e.name) \in Nat
  <2> DEFINE R == Names(S) \ {e.name}
  <2>1. e.name \in Names(S) /\ e.name \in Name
    BY <1>5 DEF Names, Entry
  <2>2. Total(R) = Total(Names(S)) - Size(e.name)
    BY <1>2, <2>1, TotalWithout DEF NamesFinite
  <2>3. R \subseteq Name /\ IsFiniteSet(R)
    BY <1>2, FS_Subset DEF NamesFinite
  <2>4. Names(T) \subseteq R
    BY <1>3, <1>5
  <2>5. Total(Names(T)) <= Total(R)
    BY <2>3, <2>4, TotalMonotonic
  <2> QED
    BY <2>1, <2>2, <2>5, UnitsOfOne
<1> QED
  BY <1>2, <1>4, <1>5 DEF NamesFinite

(* A file that still has the time the sweep found it with has been there   *)
(* all along.                                                              *)
LEMMA LeftGetsLess ==
    ASSUME DiskBase, Freed, [DiskNext]_diskVars, NEW p \in Viewers, sweep'[p].entries = sweep[p].entries
    PROVE  LeftOf(p)' \subseteq LeftOf(p)
<1> SUFFICES ASSUME NEW e \in sweep[p].entries, e.name \in DOMAIN files',
                    files'[e.name].mtime = e.mtime
             PROVE  e.name \in DOMAIN files /\ files[e.name].mtime = e.mtime
  BY DEF LeftOf
<1>1. \A t \in tmps : t.id # e.mtime
  BY DEF Freed
<1> QED
  BY <1>1, FilesStep

(* The loop invariant of the deletion, with other viewers storing and      *)
(* sweeping meanwhile.                                                     *)
LEMMA FreedStep ==
    ASSUME DiskBase, Freed, [DiskNext]_diskVars
    PROVE  Freed'
<1> SUFFICES ASSUME NEW p \in Viewers PROVE FreedBy(p)'
  BY TimesStep DEF Freed
<1>0. /\ FreedBy(p) /\ sweep[p] \in Sweep /\ CacheBudget \in Nat
      /\ IsFiniteSet(sweep[p].entries) /\ sweep[p].entries \subseteq Entry
  BY DiskCacheAssumption DEF Freed, DiskBase, DiskTypes, Sweep, Orderly
<1>1. CASE sweep'[p] = sweep[p]
  <2>1. sweep[p].pc = "evict" =>
          Total(Names(LeftOf(p)' \cup Untried(p))) <= sweep[p].toFree + CacheBudget
    <3> SUFFICES ASSUME sweep[p].pc = "evict"
                 PROVE  Total(Names(LeftOf(p)' \cup Untried(p)))
                          <= sweep[p].toFree + CacheBudget
      OBVIOUS
    <3> DEFINE S == LeftOf(p) \cup Untried(p)
               T == LeftOf(p)' \cup Untried(p)
    <3>1. S \subseteq sweep[p].entries /\ S \subseteq Entry
      BY <1>0 DEF FreedBy, LeftOf
    <3>2. IsFiniteSet(S) /\ T \subseteq S
      BY <1>0, <1>1, <3>1, FS_Subset, LeftGetsLess
    <3>3. Total(Names(S)) <= sweep[p].toFree + CacheBudget /\ sweep[p].toFree \in Nat
      BY <1>0 DEF FreedBy, Sweep
    <3> HIDE DEF S, T
    <3>4. Total(Names(T)) <= Total(Names(S)) /\ Total(Names(T)) \in Nat /\ Total(Names(S)) \in Nat
      BY <3>1, <3>2, LessIsLess
    <3>5. Total(Names(T)) <= sweep[p].toFree + CacheBudget
      BY <1>0, <3>3, <3>4
    <3> QED
      BY <3>5 DEF T
  <2> QED
    BY <1>0, <1>1, <2>1 DEF FreedBy, Untried
<1>2. CASE Open(p) \/ sweep'[p] = NoSweep
  <2> DEFINE w == [NoSweep EXCEPT !.pc = "scan", !.left = dirs,
                                  !.orphans = {t \in tmps : t.old /\ Orphan(t)}]
  <2>1. Open(p) => sweep'[p] = w
    BY DEF Open, DiskBase, DiskTypes
  <2>2. /\ w.entries = {} /\ NoSweep.entries = {}
        /\ w.pc = "scan" /\ NoSweep.pc = "off"
    BY DEF NoSweep
  <2> HIDE DEF w
  <2> QED
    BY <1>2, <2>1, <2>2 DEF FreedBy
<1>3. ASSUME NEW d \in sweep[p].left, SweepDir(p, d) PROVE FreedBy(p)'
  <2>1. /\ sweep[p].pc = "scan" /\ sweep'[p].pc = "scan" /\ sweep'[p].left = sweep[p].left \ {d}
        /\ sweep'[p].entries = sweep[p].entries \cup
                {[name |-> n, mtime |-> files[n].mtime] : n \in {m \in DOMAIN files : m.dir = d}}
    BY <1>3, DirShape
  <2>2. /\ \A e \in sweep[p].entries : e.name.dir \notin sweep[p].left
        /\ \A e, f \in sweep[p].entries : e.name = f.name => e = f
    BY <1>0, <2>1 DEF FreedBy
  <2>3. \A e \in sweep'[p].entries :
          \/ e \in sweep[p].entries /\ e.name.dir # d
          \/ e = [name |-> e.name, mtime |-> files[e.name].mtime] /\ e.name.dir = d
    BY <1>3, <2>1, <2>2
  <2> QED
    BY <2>1, <2>2, <2>3 DEF FreedBy
<1>4. CASE SweepCount(p)
  <2>1. CASE sweep'[p].pc = "off" /\ sweep'[p].entries = {}
    BY <2>1 DEF FreedBy
  <2>2. CASE /\ sweep'[p].pc = "evict"
             /\ sweep'[p].entries = sweep[p].entries /\ Untried(p)' \subseteq sweep[p].entries
             /\ sweep'[p].toFree + CacheBudget = Total(Names(sweep[p].entries))
    <3> DEFINE T == LeftOf(p)' \cup Untried(p)'
    <3>1. T \subseteq sweep[p].entries
      BY <2>2 DEF LeftOf
    <3> HIDE DEF T
    <3>2. Total(Names(T)) <= sweep'[p].toFree + CacheBudget
      BY <1>0, <2>2, <3>1, LessIsLess
    <3> QED
      BY <1>0, <2>2, <3>2 DEF FreedBy, T
  <2> QED
    BY <1>4, <2>1, <2>2, CountShape
<1>5. CASE SweepEvict(p)
  <2>1. /\ sweep[p].pc = "evict" /\ sweep'[p].pc = "evict"
        /\ sweep'[p].entries = sweep[p].entries
    BY <1>5, EvictShape
  <2>2. PICK e \in Untried(p) :
          /\ Untried(p)' = Untried(p) \ {e}
          /\ \/ sweep'[p].toFree = sweep[p].toFree /\ files' = files
             \/ /\ files' = [n \in DOMAIN files \ {e.name} |-> files[n]]
                /\ sweep[p].toFree <= sweep'[p].toFree + Size(e.name)
    BY <1>5, EvictShape, Zenon
  <2> DEFINE S == LeftOf(p) \cup Untried(p)
             T == LeftOf(p)' \cup Untried(p)'
  <2>3. /\ S \subseteq sweep[p].entries /\ S \subseteq Entry
        /\ Untried(p) \subseteq sweep[p].entries
        /\ \A f, g \in sweep[p].entries : f.name = g.name => f = g
    BY <1>0, <2>1 DEF FreedBy, LeftOf
  <2>4. IsFiniteSet(S) /\ T \subseteq S /\ e \in S /\ T \subseteq sweep[p].entries
    BY <1>0, <2>1, <2>2, <2>3, FS_Subset, LeftGetsLess
  <2>5. /\ Total(Names(S)) <= sweep[p].toFree + CacheBudget
        /\ sweep[p].toFree \in Nat /\ sweep'[p].toFree \in Nat
    BY <1>0, <2>1, BaseStep DEF FreedBy, Sweep, DiskBase, DiskTypes
  <2>6. Total(Names(T)) <= Total(Names(S)) /\ Total(Names(T)) \in Nat /\ Total(Names(S)) \in Nat
    BY <2>3, <2>4, LessIsLess
  <2>7. Total(Names(T)) <= sweep'[p].toFree + CacheBudget
    <3>1. CASE sweep'[p].toFree = sweep[p].toFree
      BY <1>0, <2>5, <2>6, <3>1
    <3>2. CASE /\ files' = [n \in DOMAIN files \ {e.name} |-> files[n]]
               /\ sweep[p].toFree <= sweep'[p].toFree + Size(e.name)
      <4>1. e.name \notin DOMAIN files'
        BY <3>2
      <4>2. e \notin T
        BY <2>2, <4>1 DEF LeftOf
      <4>3. e.name \notin Names(T)
        BY <2>2, <2>3, <2>4, <4>2 DEF Names
      <4>4. Total(Names(T)) <= Total(Names(S)) - Size(e.name) /\ Size(e.name) \in Nat
        BY <2>3, <2>4, <4>3, LessIsLess
      <4> HIDE DEF S, T
      <4> QED
        BY <1>0, <2>5, <2>6, <3>2, <4>4
    <3> QED
      BY <2>2, <3>1, <3>2
  <2> QED
    BY <1>0, <2>1, <2>2, <2>3, <2>7 DEF FreedBy
<1> QED
  BY <1>1, <1>2, <1>3, <1>4, <1>5, SweepsStep

(* The same of what it has taken.  Nobody else has a say in it: what others  *)
(* remove is not counted, and what they store has not been found.          *)
LEMMA TakenStep ==
    ASSUME DiskBase, Freed, Taken, [DiskNext]_diskVars
    PROVE  Taken'
<1> SUFFICES ASSUME NEW p \in Viewers PROVE TakenBy(p)'
  BY DEF Taken
<1>0. /\ TakenBy(p) /\ FreedBy(p) /\ sweep[p] \in Sweep /\ CacheBudget \in Nat
      /\ IsFiniteSet(sweep[p].entries) /\ sweep[p].entries \subseteq Entry
  BY DiskCacheAssumption DEF Taken, Freed, DiskBase, DiskTypes, Sweep, Orderly
<1>1. CASE sweep'[p] = sweep[p]
  BY <1>0, <1>1 DEF TakenBy, Untried
<1>2. CASE sweep'[p].pc # "evict"
  BY <1>2 DEF TakenBy
<1>3. CASE Open(p)
  <2> DEFINE w == [NoSweep EXCEPT !.pc = "scan", !.left = dirs,
                                  !.orphans = {t \in tmps : t.old /\ Orphan(t)}]
  <2>1. sweep'[p] = w
    BY <1>3 DEF Open, DiskBase, DiskTypes
  <2>2. w.pc = "scan"
    BY DEF NoSweep
  <2> HIDE DEF w
  <2> QED
    BY <2>1, <2>2 DEF TakenBy
<1>4. CASE SweepCount(p) /\ sweep'[p].pc = "evict"
  <2>1. /\ sweep'[p].taken = {} /\ sweep'[p].entries = sweep[p].entries
        /\ sweep'[p].toFree + CacheBudget = Total(Names(sweep[p].entries))
    BY <1>4, CountShape
  <2>2. Total(Names({})) = 0
    <3>1. AllUnits(Names({})) = {} /\ Names({}) = {}
      BY DEF AllUnits, Names
    <3> QED
      BY <3>1, FS_EmptySet DEF Total, AllUnits
  <2>3. sweep'[p].toFree \in Nat
    BY BaseStep DEF DiskBase, DiskTypes, Sweep
  <2> QED
    BY <1>0, <2>1, <2>2, <2>3 DEF TakenBy
<1>5. CASE SweepEvict(p)
  <2> DEFINE taken == sweep[p].taken
             found == sweep[p].entries
  <2>1. /\ sweep[p].pc = "evict" /\ sweep'[p].pc = "evict" /\ sweep[p].toFree > 0
        /\ sweep'[p].entries = found
    BY <1>5, EvictShape
  <2>2. PICK e \in Untried(p) :
          /\ e \in Entry /\ \A f \in Untried(p) : e.mtime <= f.mtime
          /\ Untried(p)' = Untried(p) \ {e}
          /\ \/ sweep'[p].toFree = sweep[p].toFree /\ sweep'[p].taken = taken
             \/ /\ sweep'[p].taken = taken \cup {e}
                /\ sweep'[p].toFree > 0 => sweep[p].toFree = sweep'[p].toFree + Size(e.name)
    BY <1>5, EvictShape, Zenon
  <2>3. /\ taken \subseteq found /\ Untried(p) \subseteq found /\ found \subseteq Entry
        /\ \A d \in taken, f \in Untried(p) : d # f /\ d.mtime <= f.mtime
        /\ Total(Names(taken)) + sweep[p].toFree + CacheBudget = Total(Names(found))
        /\ taken # {} => LastWasNeeded(taken, found)
        /\ \A d, f \in found : d.name = f.name => d = f
    BY <1>0, <2>1 DEF TakenBy, FreedBy
  <2>4. CASE sweep'[p].toFree = sweep[p].toFree /\ sweep'[p].taken = taken
    BY <2>1, <2>2, <2>3, <2>4 DEF TakenBy
  <2>5. CASE /\ sweep'[p].taken = taken \cup {e}
             /\ sweep'[p].toFree > 0 => sweep[p].toFree = sweep'[p].toFree + Size(e.name)
    <3> DEFINE more == taken \cup {e}
    <3>1. e \notin taken /\ more \subseteq found /\ more \ {e} = taken
      BY <2>2, <2>3
    <3>2. IsFiniteSet(more) /\ IsFiniteSet(taken) /\ more \subseteq Entry
      BY <1>0, <3>1, FS_Subset
    <3>3. /\ Total(Names(taken)) \in Nat /\ Total(Names(found)) \in Nat
          /\ sweep[p].toFree \in Nat /\ sweep'[p].toFree \in Nat
      BY <1>0, <2>3, <3>2, NamesAreFinite, BaseStep DEF NamesFinite, Sweep, DiskBase, DiskTypes
    <3>4. Total(Names(more)) = Total(Names(taken)) + Size(e.name) /\ Size(e.name) \in Nat
      <4>1. Names(more) \ {e.name} = Names(taken) /\ e.name \in Names(more)
        BY <2>2, <2>3, <3>1 DEF Names
      <4>2. Total(Names(taken)) = Total(Names(more)) - Size(e.name)
        BY <3>2, <4>1, NamesAreFinite, TotalWithout DEF NamesFinite
      <4>3. Size(e.name) \in Nat /\ Total(Names(more)) \in Nat
        BY <2>2, <3>2, NamesAreFinite, UnitsOfOne DEF NamesFinite, Entry
      <4> QED
        BY <4>2, <4>3
    <3>5. \A d \in more, f \in Untried(p)' : d # f /\ d.mtime <= f.mtime
      BY <2>2, <2>3
    <3>6. LastWasNeeded(more, found)
      <4>1. \A f \in more : f.mtime <= e.mtime
        BY <2>2, <2>3
      <4>2. Total(Names(taken)) + CacheBudget < Total(Names(found))
        BY <1>0, <2>1, <2>3, <3>3
      <4> QED
        BY <3>1, <4>1, <4>2 DEF LastWasNeeded
    <3>7. sweep'[p].toFree > 0 =>
            Total(Names(more)) + sweep'[p].toFree + CacheBudget = Total(Names(found))
      <4> HIDE DEF more, taken, found
      <4> QED
        BY <1>0, <2>3, <2>5, <3>3, <3>4
    <3> QED
      BY <2>1, <2>5, <3>1, <3>5, <3>6, <3>7 DEF TakenBy
  <2> QED
    BY <2>2, <2>4, <2>5
<1> QED
  BY <1>1, <1>2, <1>3, <1>4, <1>5, SweepsStep, DirShape, NoSweepIsOrderly

-----------------------------------------------------------------------------
(* The theorems.                                                           *)

DiskInv == DiskBase /\ Contents /\ Editions /\ Orphans /\ Freed /\ Taken

(* The invariant holds of whatever a cache directory may hold at first.    *)
LEMMA DiskInvInit == DiskInit => DiskInv
<1> SUFFICES ASSUME DiskInit PROVE DiskInv
  OBVIOUS
<1>1. PICK stored \in SUBSET Bitmaps : \E age \in Bijection(stored, 1 .. Cardinality(stored)) :
        files = [n \in {CachePathInDir(1, b) : b \in stored} |->
                  LET b == CHOOSE b \in stored : CachePathInDir(1, b) = n
                  IN  [pixels |-> Render(1, b), whole |-> TRUE, mtime |-> 0 - age[b]]]
  BY DEF DiskInit
<1>2. PICK age \in Bijection(stored, 1 .. Cardinality(stored)) :
        files = [n \in {CachePathInDir(1, b) : b \in stored} |->
                  LET b == CHOOSE b \in stored : CachePathInDir(1, b) = n
                  IN  [pixels |-> Render(1, b), whole |-> TRUE, mtime |-> 0 - age[b]]]
  BY <1>1
<1> DEFINE N == {CachePathInDir(1, b) : b \in stored}
<1>3. DOMAIN files = N
  BY <1>2
<1>4. ASSUME NEW n \in N
      PROVE  /\ n \in Name /\ n.dir = 1
             /\ BitmapOf(n) \in stored
             /\ files[n] = [pixels |-> Render(1, BitmapOf(n)), whole |-> TRUE,
                            mtime |-> 0 - age[BitmapOf(n)]]
  <2>1. \A b \in stored : CachePathInDir(1, b) = n => b = BitmapOf(n)
    BY NameOfBitmap
  <2>2. BitmapOf(n) \in stored /\ CachePathInDir(1, BitmapOf(n)) = n
    BY <2>1
  <2>3. (CHOOSE b \in stored : CachePathInDir(1, b) = n) = BitmapOf(n)
    BY <2>1, <2>2
  <2>4. n \in Name /\ n.dir = 1
    BY NameOfBitmap DEF CachePathInDir
  <2> QED
    BY <1>2, <2>2, <2>3, <2>4
<1>5. \A b \in stored : age[b] \in 1 .. Oldness
  <2>1. Cardinality(stored) \in Nat /\ Cardinality(stored) <= Oldness
    BY DiskCacheAssumption, FS_Subset, FS_CardinalityType DEF Oldness
  <2>2. \A b \in stored : age[b] \in 1 .. Cardinality(stored)
    BY DEF Bijection, Injection
  <2> QED
    BY <2>1, <2>2, OldnessIsNat
<1>6. IsFiniteSet(N)
  <2> DEFINE g == [b \in stored |-> CachePathInDir(1, b)]
  <2>1. g \in Surjection(stored, N)
    BY DEF Surjection
  <2>2. IsFiniteSet(stored)
    BY DiskCacheAssumption, FS_Subset
  <2> QED
    BY <2>1, <2>2, FS_Surjection
<1>7. \A n \in N : files[n] \in File /\ files[n].mtime <= 0 - 1
  <2> SUFFICES ASSUME NEW n \in N PROVE files[n] \in File /\ files[n].mtime <= 0 - 1
    OBVIOUS
  <2>1. age[BitmapOf(n)] \in 1 .. Oldness /\ BitmapOf(n) \in Bitmaps
    BY <1>4, <1>5
  <2>2. 0 - age[BitmapOf(n)] \in Times /\ 0 - age[BitmapOf(n)] <= 0 - 1
    BY <2>1, OldnessIsNat DEF Times
  <2>3. Render(1, BitmapOf(n)) \in Pixels
    BY <2>1 DEF Render, Pixels
  <2> DEFINE r == Render(1, BitmapOf(n))
             m == 0 - age[BitmapOf(n)]
  <2>4. files[n] = [pixels |-> r, whole |-> TRUE, mtime |-> m]
    BY <1>4
  <2>5. r \in Pixels /\ m \in Times /\ m <= 0 - 1
    BY <2>2, <2>3
  <2> HIDE DEF r, m
  <2> QED
    BY <2>4, <2>5 DEF File
<1>8. \/ tmps = {}
      \/ \E t \in Tmp : /\ tmps = {t} /\ t.id = 0 /\ t.name.dir = 1
                        /\ Shows(t.name, t.pixels)
  <2>1. ASSUME NEW b \in Bitmaps,
               tmps = {[id |-> 0, name |-> CachePathInDir(1, b), pixels |-> Render(1, b),
                        whole |-> FALSE, old |-> TRUE]}
        PROVE  \E t \in Tmp : /\ tmps = {t} /\ t.id = 0 /\ t.name.dir = 1
                              /\ Shows(t.name, t.pixels)
    <3> DEFINE t == [id |-> 0, name |-> CachePathInDir(1, b), pixels |-> Render(1, b),
                     whole |-> FALSE, old |-> TRUE]
    <3>1. CachePathInDir(1, b) \in Name /\ BitmapOf(CachePathInDir(1, b)) = b
      BY NameOfBitmap
    <3>2. CachePathInDir(1, b).dir = 1
      BY DEF CachePathInDir
    <3>3. Render(1, b) \in Pixels /\ Render(1, b).doc = 1 /\ Render(1, b).bitmap = b
      BY DEF Render, Pixels
    <3>4. t \in Tmp /\ t.id = 0 /\ t.name.dir = 1 /\ Shows(t.name, t.pixels)
      BY <3>1, <3>2, <3>3 DEF Tmp, Shows
    <3> HIDE DEF t
    <3>5. tmps = {t}
      BY <2>1 DEF t
    <3> QED
      BY <3>4, <3>5
  <2> QED
    BY <2>1 DEF DiskInit
<1>9. /\ version = 1 /\ clock = 0 /\ opens = 0
      /\ dirs \subseteq Nat /\ \A t \in tmps : t.name.dir \in dirs
      /\ viewer \in [Viewers -> Viewer] /\ \A p \in Viewers : viewer[p].pc = "down"
      /\ sweep \in [Viewers -> Sweep]
      /\ \A p \in Viewers : sweep[p].pc = "off" /\ sweep[p].entries = {} /\ Orderly(sweep[p])
  <2>1. Down \in Viewer /\ Down.pc = "down"
    BY DEF Down, Viewer, Jobs
  <2>2. /\ NoSweep \in Sweep /\ NoSweep.pc = "off" /\ NoSweep.entries = {}
        /\ Orderly(NoSweep)
    BY NoSweepIsOrderly
  <2>3. \A t \in tmps : t.name.dir \in dirs
    BY <1>8 DEF DiskInit
  <2> QED
    BY <2>1, <2>2, <2>3 DEF DiskInit
<1>10. files \in [N -> File]
  BY <1>2, <1>3, <1>7
<1>11. DiskBase
  <2>1. DiskTypes
    BY <1>3, <1>4, <1>6, <1>8, <1>9, <1>10, FS_EmptySet DEF DiskTypes
  <2>2. DiskIds
    BY <1>8, <1>9 DEF DiskIds
  <2> QED
    BY <2>1, <2>2 DEF DiskBase
<1>12. Contents /\ Editions
  <2>1. ASSUME NEW n \in DOMAIN files PROVE Shows(n, files[n].pixels) /\ files[n].whole
    <3> DEFINE r == Render(1, BitmapOf(n))
               m == 0 - age[BitmapOf(n)]
    <3>1. files[n] = [pixels |-> r, whole |-> TRUE, mtime |-> m] /\ n.dir = 1
      BY <1>3, <1>4, <2>1
    <3>2. r.bitmap = BitmapOf(n) /\ r.doc = 1
      BY DEF Render
    <3> HIDE DEF r, m
    <3> QED
      BY <3>1, <3>2 DEF Shows
  <2> QED
    BY <1>8, <1>9, <2>1 DEF Contents, Editions
<1>13. Orphans /\ Freed /\ Taken
  <2>1. \A n \in DOMAIN files : files[n].mtime <= clock /\ \A t \in tmps : t.id # files[n].mtime
    <3>1. \A n \in N : files[n].mtime \in Int
      BY <1>7 DEF File, Times
    <3> QED
      BY <1>3, <1>7, <1>8, <1>9, <3>1
  <2> QED
    BY <1>9, <2>1 DEF Orphans, Freed, FreedBy, Taken, TakenBy
<1> QED
  BY <1>11, <1>12, <1>13 DEF DiskInv

(* And every step keeps it.                                                *)
LEMMA DiskInvStep == DiskInv /\ [DiskNext]_diskVars => DiskInv'
BY BaseStep, EditionsStep, ContentsStep, OrphansStep, FreedStep, TakenStep DEF DiskInv

(* The invariant of the disk cache holds throughout, with any number of    *)
(* processes storing, sweeping and dying between any two calls to the file *)
(* system.                                                                 *)
THEOREM DiskInvariant == DiskSpec => []DiskInv
BY DiskInvInit, DiskInvStep, PTL DEF DiskSpec

(* A bitmap loaded from the disk is the one that was asked for, of the     *)
(* edition the viewer has open: stale, torn and mixed-up files are never   *)
(* shown.  Without the hypothesis (the PDF is rewritten between the open   *)
(* and the stat of App::new) this is not so, see the README.               *)
THEOREM HitsAreRight == DiskSpec => [](~EditWhileOpening => HitIsRight)
<1>1. DiskInv => (~EditWhileOpening => HitIsRight)
  <2> SUFFICES ASSUME DiskInv, ~EditWhileOpening, NEW p \in Viewers, NEW b \in Bitmaps,
                      viewer[p].pc \notin {"down", "opened"}
               PROVE  LoadResult(p, b) \subseteq {Render(viewer[p].doc, b)}
    BY DEF HitIsRight
  <2> DEFINE n == CachePathInDir(viewer[p].dir, b)
  <2>1. viewer[p].dir = viewer[p].doc /\ viewer[p].dir \in Nat
    BY DEF DiskInv, Editions, DiskBase, DiskTypes, Viewer
  <2>2. n \in Name /\ n.dir = viewer[p].doc /\ BitmapOf(n) = b
    BY <2>1, NameOfBitmap DEF CachePathInDir
  <2>3. ASSUME n \in DOMAIN files PROVE files[n].pixels = Render(viewer[p].doc, b)
    <3>1. files[n].pixels \in Pixels
      BY <2>3 DEF DiskInv, DiskBase, DiskTypes, File
    <3>2. files[n].pixels.bitmap = b /\ files[n].pixels.doc = viewer[p].doc
      BY <2>2, <2>3 DEF DiskInv, Contents, Shows
    <3> QED
      BY <3>1, <3>2 DEF Pixels, Render
  <2> QED
    BY <2>3 DEF LoadResult
<1> QED
  BY <1>1, DiskInvariant, PTL

(* Under a final name there is a complete file only, and the sweep leaves  *)
(* no temporary file that was abandoned before it began: the temporary     *)
(* name and the rename of store(), and the walk of evict_to_budget().      *)
THEOREM WholeOrNothing == DiskSpec => []NothingHalfWritten
<1>1. DiskInv => NothingHalfWritten
  <2> SUFFICES ASSUME DiskInv PROVE NothingHalfWritten
    OBVIOUS
  <2>1. \A n \in DOMAIN files : files[n].whole
    BY DEF DiskInv, Contents
  <2>2. ASSUME NEW p \in Viewers, sweep[p].pc = "scan", sweep[p].left = {},
               NEW t \in sweep[p].orphans
        PROVE  t \notin tmps
    BY <2>2 DEF DiskInv, Orphans
  <2> QED
    BY <2>1, <2>2 DEF NothingHalfWritten
<1> QED
  BY <1>1, DiskInvariant, PTL

(* Once the deletion loop of evict_to_budget() ends with files to spare,   *)
(* what is left of those it found fits the budget, although other          *)
(* processes store, replace and delete files meanwhile.                    *)
THEOREM SweepFreesEnough == DiskSpec => []SweepReachesBudget
<1>1. DiskInv => SweepReachesBudget
  <2> SUFFICES ASSUME DiskInv, NEW p \in Viewers, SweepOver(p), sweep[p].queue # <<>>
               PROVE  Total(Names(LeftOf(p))) <= CacheBudget
    BY DEF SweepReachesBudget, LeftOf
  <2> DEFINE S == LeftOf(p) \cup Untried(p)
             T == LeftOf(p)
  <2>1. /\ sweep[p].pc = "evict" /\ sweep[p].toFree = 0 /\ CacheBudget \in Nat
    BY DiskCacheAssumption DEF SweepOver
  <2>2. /\ FreedBy(p) /\ sweep[p].entries \subseteq Entry /\ IsFiniteSet(sweep[p].entries)
    BY DEF DiskInv, Freed, DiskBase, DiskTypes, Sweep, Orderly
  <2>3. /\ S \subseteq sweep[p].entries /\ S \subseteq Entry
        /\ Total(Names(S)) <= 0 + CacheBudget
    BY <2>1, <2>2 DEF FreedBy, LeftOf
  <2>4. IsFiniteSet(S) /\ T \subseteq S
    BY <2>2, <2>3, FS_Subset
  <2> HIDE DEF S, T
  <2>5. Total(Names(T)) <= Total(Names(S)) /\ Total(Names(T)) \in Nat /\ Total(Names(S)) \in Nat
    BY <2>3, <2>4, LessIsLess DEF DiskInv
  <2>6. Total(Names(T)) <= CacheBudget
    BY <2>1, <2>3, <2>5
  <2> QED
    BY <2>6 DEF T
<1> QED
  BY <1>1, DiskInvariant, PTL

(* evict_to_budget() takes the oldest of what it can remove and no more    *)
(* than it needs to: when it has taken a file, every older one was tried,  *)
(* and without the last one it would not have had enough, whatever the     *)
(* sizes, and however many other viewers store and sweep beside it.        *)
THEOREM NoMoreThanNeeded == DiskSpec => []SweepTakesOldest
<1>1. DiskInv => SweepTakesOldest
  BY DEF DiskInv, Taken, TakenBy, Untried, LastWasNeeded, SweepTakesOldest
<1> QED
  BY <1>1, DiskInvariant, PTL

=============================================================================
