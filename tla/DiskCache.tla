----------------------------- MODULE DiskCache -----------------------------
(***************************************************************************)
(* disk_cache.rs: the bitmaps that viewers keep in one directory per PDF,  *)
(* shared by every running viewer, and the sweep that each viewer starts   *)
(* on a detached thread and that nobody waits for.                         *)
(*                                                                         *)
(* A viewer opens its PDF, then derives the cache directory from the       *)
(* PDF's metadata, then loads bitmaps and stores the sharp ones it         *)
(* renders.  Every system call that another process can observe is a step  *)
(* of its own.  A viewer may die between any two of them.                  *)
(*                                                                         *)
(* A bitmap is named by what it shows (page, width, dark); its pixels are  *)
(* that name and the version of the PDF they were rendered from.           *)
(***************************************************************************)
EXTENDS Integers, Sequences, FiniteSets, SequencesExt, FiniteSetsExt, Functions, TLC

CONSTANTS Viewers,            \* processes, each may be started again
          Bitmaps,            \* what a viewer may need: page, width, dark
          Bytes,              \* Bytes[b]: size of the encoded bitmap
          CacheBudget,        \* DISK_CACHE_BUDGET_BYTES
          EditWhileOpening,   \* may the PDF change between open and stat?
          MaxVersions, MaxOpens, MaxStores   \* bounds of the model

ASSUME DiskCacheAssumption ==
    /\ Bitmaps \subseteq [page : Nat, width : Nat, dark : BOOLEAN]
    /\ IsFiniteSet(Bitmaps)
    /\ Bytes \in [Bitmaps -> Nat]
    /\ CacheBudget \in Nat
    /\ EditWhileOpening \in BOOLEAN

VARIABLES
    version,   \* of the PDF at its path; an edit changes its size or mtime
    files,     \* name |-> [pixels, whole, mtime], the finished files
    tmps,      \* the temporary files, [id, name, pixels, whole, old]
    dirs,      \* the per-PDF directories that exist
    clock,     \* the time, for mtimes and temporary names
    opens,     \* starts so far
    viewer,    \* the main thread of each process
    sweep      \* its eviction thread

diskVars == <<version, files, tmps, dirs, clock, opens, viewer, sweep>>

Down == [pc |-> "down", doc |-> 0, dir |-> 0, job |-> 0]
NoSweep == [pc |-> "off", left |-> {}, entries |-> {}, queue |-> <<>>, toFree |-> 0,
            taken |-> {}, orphans |-> {}]   \* taken and orphans: for the properties

(* pdf_cache_dir: the hash of path, size and mtime; the path is the same   *)
(* throughout, so the directory stands for one version of the PDF.         *)
PdfCacheDir(v) == v

(* Mutant: the name leaves the colours out.                                *)
CachePathWithoutColours(dir, b) ==
    [dir |-> dir, page |-> b.page, width |-> b.width, dark |-> FALSE]

(* cache_path_in_dir                                                       *)
CachePathInDir(dir, b) == [dir |-> dir, page |-> b.page, width |-> b.width, dark |-> b.dark]

BitmapOf(n) == [page |-> n.page, width |-> n.width, dark |-> n.dark]

Render(v, b) == [doc |-> v, bitmap |-> b]

(* What earlier sessions left: some of the bitmaps of the PDF as it is now, *)
(* in any order of age, and perhaps a temporary file of one that died.     *)
DiskInit ==
    /\ version = 1
    /\ \E stored \in SUBSET Bitmaps :
         \E age \in Bijection(stored, 1 .. Cardinality(stored)) :
           files = [n \in {CachePathInDir(1, b) : b \in stored} |->
                     LET b == CHOOSE b \in stored : CachePathInDir(1, b) = n
                     IN  [pixels |-> Render(1, b), whole |-> TRUE, mtime |-> 0 - age[b]]]
    /\ \/ tmps = {}
       \/ \E b \in Bitmaps :
            tmps = {[id |-> 0, name |-> CachePathInDir(1, b), pixels |-> Render(1, b),
                     whole |-> FALSE, old |-> TRUE]}
    /\ dirs = {1} \cap ({n.dir : n \in DOMAIN files} \cup {t.name.dir : t \in tmps})
    /\ clock = 0
    /\ opens = 0
    /\ viewer = [p \in Viewers |-> Down]
    /\ sweep = [p \in Viewers |-> NoSweep]

----------------------------------------------------------------------------
(* The viewer                                                              *)

(* A temporary file whose writer is gone (for the properties).             *)
Orphan(t) ==
    \A p \in Viewers : viewer[p].pc \in {"created", "written"} => viewer[p].job # t.id

(* main: the document is opened, and the sweep is spawned.                 *)
Open(p) ==
    /\ viewer[p].pc = "down" /\ opens < MaxOpens
    /\ opens' = opens + 1
    /\ viewer' = [viewer EXCEPT ![p] = [Down EXCEPT !.pc = "opened", !.doc = version]]
    /\ sweep' = [sweep EXCEPT ![p] = [NoSweep EXCEPT !.pc = "scan", !.left = dirs,
                                        !.orphans = {t \in tmps : t.old /\ Orphan(t)}]]
    /\ UNCHANGED <<version, files, tmps, dirs, clock>>

(* App::new: the cache directory of the session, from the metadata of the  *)
(* PDF as it is now.                                                       *)
ResolveDir(p) ==
    /\ viewer[p].pc = "opened"
    /\ viewer' = [viewer EXCEPT ![p].pc = "view", ![p].dir = PdfCacheDir(version)]
    /\ UNCHANGED <<version, files, tmps, dirs, clock, opens, sweep>>

(* load: any error, a torn file included (it does not decode), is a miss.  *)
LoadResult(p, b) ==
    LET name == CachePathInDir(viewer[p].dir, b)
    IN  {files[name].pixels : n \in {name} \cap {m \in DOMAIN files : files[m].whole}}

(* ensure_page_rendered: what the disk has is shown (nothing changes       *)
(* here); else a Fast render is, until the idle path replaces it.  The     *)
(* model follows one such page of a viewer at a time.                      *)
EnsurePageRendered(p, b) ==
    /\ viewer[p].pc = "view" /\ LoadResult(p, b) = {} /\ clock < MaxStores
    /\ viewer' = [viewer EXCEPT ![p].pc = "fast", ![p].job = b]
    /\ UNCHANGED <<version, files, tmps, dirs, clock, opens, sweep>>

(* upgrade_page_to_sharp calls store, which first creates the directory.   *)
StoreMkdir(p) ==
    /\ viewer[p].pc = "fast"
    /\ dirs' = dirs \cup {viewer[p].dir}
    /\ viewer' = [viewer EXCEPT ![p].pc = "mkdir"]
    /\ UNCHANGED <<version, files, tmps, clock, opens, sweep>>

(* Mutant: the bytes are written straight into the final file.             *)
StoreInPlace(p) ==
    /\ viewer[p].pc = "mkdir" /\ viewer[p].dir \in dirs
    /\ clock' = clock + 1
    /\ files' = [n \in {CachePathInDir(viewer[p].dir, viewer[p].job)} |->
                   [pixels |-> Render(viewer[p].doc, viewer[p].job), whole |-> FALSE,
                    mtime |-> clock']] @@ files
    /\ viewer' = [viewer EXCEPT ![p].pc = "created", ![p].job = clock']
    /\ UNCHANGED <<version, tmps, dirs, opens, sweep>>

(* The temporary file, with O_EXCL under a name of process and time.       *)
StoreCreate(p) ==
    /\ viewer[p].pc = "mkdir"
    /\ clock' = clock + 1
    /\ IF viewer[p].dir \in dirs
         THEN /\ tmps' = tmps \cup
                  {[id |-> clock', name |-> CachePathInDir(viewer[p].dir, viewer[p].job),
                    pixels |-> Render(viewer[p].doc, viewer[p].job),
                    whole |-> FALSE, old |-> FALSE]}
              /\ viewer' = [viewer EXCEPT ![p].pc = "created", ![p].job = clock']
         ELSE /\ viewer' = [viewer EXCEPT ![p].pc = "view", ![p].job = 0]
              /\ UNCHANGED tmps
    /\ UNCHANGED <<version, files, dirs, opens, sweep>>

(* A sweep may have removed the temporary file of a writer that was        *)
(* stopped for an hour; writing to it still succeeds.                      *)
Mine(p) == {t \in tmps : t.id = viewer[p].job}

(* write_all: the disk may be full, then the temporary file is removed.    *)
StoreWrite(p) ==
    /\ viewer[p].pc = "created"
    /\ \/ /\ tmps' = (tmps \ Mine(p)) \cup {[t EXCEPT !.whole = TRUE, !.old = FALSE] : t \in Mine(p)}
          /\ viewer' = [viewer EXCEPT ![p].pc = "written"]
       \/ /\ tmps' = tmps \ Mine(p)
          /\ viewer' = [viewer EXCEPT ![p].pc = "view", ![p].job = 0]
    /\ UNCHANGED <<version, files, dirs, clock, opens, sweep>>

(* rename replaces whatever is there; it fails when the file is gone.      *)
StoreRename(p) ==
    /\ viewer[p].pc = "written"
    /\ files' = [n \in DOMAIN files \cup {t.name : t \in Mine(p)} |->
                   IF \E t \in Mine(p) : t.name = n
                     THEN LET t == CHOOSE t \in Mine(p) : TRUE
                          IN  [pixels |-> t.pixels, whole |-> t.whole, mtime |-> t.id]
                     ELSE files[n]]
    /\ tmps' = tmps \ Mine(p)
    /\ viewer' = [viewer EXCEPT ![p].pc = "view", ![p].job = 0]
    /\ UNCHANGED <<version, dirs, clock, opens, sweep>>

(* Exit, a signal or a crash, in the middle of a store or a sweep as well. *)
Die(p) ==
    /\ viewer[p].pc # "down"
    /\ viewer' = [viewer EXCEPT ![p] = Down]
    /\ sweep' = [sweep EXCEPT ![p] = NoSweep]
    /\ UNCHANGED <<version, files, tmps, dirs, clock, opens>>

----------------------------------------------------------------------------
(* evict_to_budget                                                         *)

Size(n) == Bytes[BitmapOf(n)]
Units(n) == {n} \X (1 .. Size(n))
Total(names) == Cardinality(UNION {Units(n) : n \in names})   \* byte by byte
Names(entries) == {e.name : e \in entries}

(* One directory of the walk: temporary files older than an hour go, the   *)
(* finished files are noted with their mtime.                              *)
SweepDir(p, d) ==
    /\ sweep[p].pc = "scan" /\ d \in sweep[p].left
    /\ tmps' = {t \in tmps : ~(t.name.dir = d /\ t.old)}
    /\ sweep' = [sweep EXCEPT ![p].left = @ \ {d},
                   ![p].entries = @ \cup {[name |-> n, mtime |-> files[n].mtime] :
                                            n \in {m \in DOMAIN files : m.dir = d}}]
    /\ UNCHANGED <<version, files, dirs, clock, opens, viewer>>

(* sort_by_key: by age, those of one age as they come.                     *)
ByAge(entries) ==
    {q \in SetToSeqs(entries) : \A i, j \in DOMAIN q : i < j => q[i].mtime <= q[j].mtime}

(* The total decides whether anything has to go; if so, oldest first.      *)
SweepCount(p) ==
    /\ sweep[p].pc = "scan" /\ sweep[p].left = {}
    /\ LET total == Total(Names(sweep[p].entries))
       IN  \/ total <= CacheBudget /\ sweep' = [sweep EXCEPT ![p] = NoSweep]
           \/ /\ total > CacheBudget
              /\ \E q \in ByAge(sweep[p].entries) :
                   sweep' = [sweep EXCEPT ![p] =
                     [NoSweep EXCEPT !.pc = "evict", !.entries = sweep[p].entries,
                                     !.queue = q, !.toFree = total - CacheBudget]]
    /\ UNCHANGED <<version, files, tmps, dirs, clock, opens, viewer>>

Removed(p, e) ==
    [sweep[p] EXCEPT !.queue = Tail(@), !.taken = @ \cup {e},
                     !.toFree = Max({0, @ - Size(e.name)})]

(* Mutant: the sweep counts a file as freed whether or not it removed it.  *)
SweepEvictUnchecked(p) ==
    /\ sweep[p].pc = "evict" /\ sweep[p].toFree > 0 /\ sweep[p].queue # <<>>
    /\ LET e == Head(sweep[p].queue)
       IN  /\ files' \in {files, Restrict(files, DOMAIN files \ {e.name})}
           /\ sweep' = [sweep EXCEPT ![p] = Removed(p, e)]
    /\ UNCHANGED <<version, tmps, dirs, clock, opens, viewer>>

(* Mutant: the loop does not stop when enough is free.                     *)
SweepEvictOn(p) ==
    /\ sweep[p].pc = "evict" /\ sweep[p].queue # <<>>
    /\ LET e == Head(sweep[p].queue)
       IN  /\ files' = Restrict(files, DOMAIN files \ {e.name})
           /\ sweep' = [sweep EXCEPT ![p] = Removed(p, e)]
    /\ UNCHANGED <<version, tmps, dirs, clock, opens, viewer>>

(* One turn of the deletion loop: by name, whatever the file is by now.  A *)
(* file that cannot be removed (gone, or an error) is passed over.         *)
SweepEvict(p) ==
    /\ sweep[p].pc = "evict" /\ sweep[p].toFree > 0 /\ sweep[p].queue # <<>>
    /\ LET e == Head(sweep[p].queue)
       IN  \/ /\ e.name \in DOMAIN files
              /\ files' = Restrict(files, DOMAIN files \ {e.name})
              /\ sweep' = [sweep EXCEPT ![p] = Removed(p, e)]
           \/ /\ sweep' = [sweep EXCEPT ![p].queue = Tail(@)]
              /\ UNCHANGED files
    /\ UNCHANGED <<version, tmps, dirs, clock, opens, viewer>>

SweepOver(p) == sweep[p].pc = "evict" /\ (sweep[p].toFree = 0 \/ sweep[p].queue = <<>>)

(* The directories that became empty are removed.                          *)
SweepPrune(p) ==
    /\ SweepOver(p)
    /\ dirs' = {d \in dirs : \/ \E n \in DOMAIN files : n.dir = d
                             \/ \E t \in tmps : t.name.dir = d}
    /\ sweep' = [sweep EXCEPT ![p] = NoSweep]
    /\ UNCHANGED <<version, files, tmps, clock, opens, viewer>>

----------------------------------------------------------------------------
(* The environment                                                         *)

(* The PDF is rebuilt or annotated.                                        *)
Edit ==
    /\ version < MaxVersions
    /\ EditWhileOpening \/ \A p \in Viewers : viewer[p].pc # "opened"
    /\ version' = version + 1
    /\ UNCHANGED <<files, tmps, dirs, clock, opens, viewer, sweep>>

(* An hour passes, for a writer that was suspended as well.                *)
HourPasses ==
    /\ \E t \in tmps : ~t.old
    /\ tmps' = {[t EXCEPT !.old = TRUE] : t \in tmps}
    /\ UNCHANGED <<version, files, dirs, clock, opens, viewer, sweep>>

ViewerStep(p) ==
    \/ Open(p) \/ ResolveDir(p)
    \/ \E b \in Bitmaps : EnsurePageRendered(p, b)
    \/ StoreMkdir(p) \/ StoreCreate(p) \/ StoreWrite(p) \/ StoreRename(p)

SweepStep(p) ==
    \/ \E d \in sweep[p].left : SweepDir(p, d)
    \/ SweepCount(p) \/ SweepEvict(p) \/ SweepPrune(p)

DiskNext ==
    \/ \E p \in Viewers : ViewerStep(p) \/ SweepStep(p) \/ Die(p)
    \/ Edit \/ HourPasses

DiskSpec == DiskInit /\ [][DiskNext]_diskVars

----------------------------------------------------------------------------
(* Properties                                                              *)

(* A bitmap that comes from the disk is the page that was asked for, at    *)
(* the width and in the colours that were asked for, of the document this  *)
(* viewer has open, and whole: no torn write, no other zoom, no older      *)
(* edition of the PDF ("The file metadata invalidates the cache when the   *)
(* user edits the PDF").                                                   *)
HitIsRight ==
    \A p \in Viewers : viewer[p].pc \notin {"down", "opened"} =>
        \A b \in Bitmaps : LoadResult(p, b) \subseteq {Render(viewer[p].doc, b)}

(* A sweep that stops before it has tried every file has brought what it   *)
(* found down to the budget: files it could not remove, because another    *)
(* sweep was faster or because of an error, are not counted as freed.      *)
SweepReachesBudget ==
    \A p \in Viewers :
        SweepOver(p) /\ sweep[p].queue # <<>> =>
            LET left == {e \in sweep[p].entries :
                           e.name \in DOMAIN files /\ files[e.name].mtime = e.mtime}
            IN  Total(Names(left)) <= CacheBudget

(* A crash leaves nothing half written: a file appears under its final    *)
(* name only complete, so a reader that opens it at any moment, in any     *)
(* process, sees all of it or none; and a temporary file that a dead       *)
(* writer left more than an hour before a sweep began does not outlive the *)
(* sweep.                                                                  *)
NothingHalfWritten ==
    /\ \A n \in DOMAIN files : files[n].whole
    /\ \A p \in Viewers :
         sweep[p].pc = "scan" /\ sweep[p].left = {} =>
             \A t \in sweep[p].orphans : t \notin tmps

(* A sweep takes no more than it has to, and the oldest of what it can     *)
(* get: whatever is removed or stored beside it, no file it found that is  *)
(* older than one it took has still to be tried, and without the last of   *)
(* those it took, what it found would be over the budget.  What a viewer   *)
(* stored last is the last to go.                                          *)
SweepTakesOldest ==
    \A p \in Viewers : sweep[p].pc = "evict" =>
        LET taken == sweep[p].taken
        IN  /\ \A e \in taken, f \in ToSet(sweep[p].queue) : e.mtime <= f.mtime
            /\ taken # {} => \E e \in taken :
                 /\ \A f \in taken : f.mtime <= e.mtime
                 /\ Total(Names(taken \ {e})) + CacheBudget < Total(Names(sweep[p].entries))

=============================================================================
