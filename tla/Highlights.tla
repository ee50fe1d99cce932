---------------------------- MODULE Highlights ----------------------------
(***************************************************************************)
(* highlight.rs, pdfhighlights.rs, session.rs and the parts of app.rs that *)
(* add, delete and save highlights.  The highlights of a session live in   *)
(* three places: the store in memory, the annotations of the document that *)
(* pdfium holds, and the PDF on disk.  A save brings the store into the    *)
(* document, page by page and only on the pages thought to be concerned,   *)
(* then writes the whole document to a temporary file and renames it.      *)
(*                                                                         *)
(* An annotation is a record [kind, group, id].  kind is "ours" when its   *)
(* Contents are behind our prefix and parse, or "unplaced" when its bounds *)
(* can then not be read or are not finite; "foreign" is other tools'.      *)
(* "untagged" is one we made whose Contents could not be set: the code     *)
(* takes it for another tool's from then on.  A page's annotations are a   *)
(* sequence.  id names the yank that made a highlight.                     *)
(***************************************************************************)
EXTENDS Integers, Sequences, FiniteSets, SequencesExt, FiniteSetsExt

NoGroup == 0 - 1   \* a highlight of an older version has no group_id
Annotation ==
    [kind : {"ours", "unplaced", "untagged", "foreign"}, group : Nat \cup {NoGroup}, id : Nat]

CONSTANTS HlPages,          \* page numbers of the document
          InitialPdfs,      \* annotations the PDF may start with
          MaxYanks, MaxRestarts, MaxFailures,  \* bounds of the model
          MaxRefused                           \* deletions and Contents, of a failure

ASSUME HighlightsAssumption ==
    /\ IsFiniteSet(HlPages) /\ HlPages = 0 .. Cardinality(HlPages) - 1 /\ HlPages # {}
    /\ InitialPdfs \subseteq [HlPages -> Seq(Annotation)]
    /\ \A pdf \in InitialPdfs : \A p, q \in HlPages : \A i \in DOMAIN pdf[p], j \in DOMAIN pdf[q] :
         /\ pdf[p][i].kind = "ours" /\ pdf[q][j].kind = "ours"
         /\ pdf[p][i].group = pdf[q][j].group /\ pdf[p][i].group # NoGroup
         => pdf[p][i].id = pdf[q][j].id

VARIABLES
    pdf,        \* the file: page |-> annotations
    original,   \* what it was at first (for the properties)
    docAnnots,   \* the annotations of the document in memory
    store,      \* HighlightStore.items, [page, group, id]
    before,     \* the store as of the last action (for the properties)
    prevPages,  \* prev_highlight_pages
    nextGroup,  \* next_highlight_group_id
    revision,   \* whether highlight_revision has left 0, as 1 or 0
    awaiting,   \* awaiting_highlight_delete_confirm
    staged,     \* what the open prompt is about (for the properties)
    page,       \* current_page
    saving,     \* the handler's position in persist_highlights
    session,    \* the page in the session file
    yanks, failures, restarts

storeVars == <<store, before, nextGroup, revision>>
saveVars == <<pdf, docAnnots, prevPages, saving, session>>
keyVars == <<awaiting, staged, page>>
hlVars == <<storeVars, saveVars, keyVars, original, yanks, failures, restarts>>

Idle == [pc |-> "idle", left |-> {}, quitting |-> FALSE]

(* Mutant: every highlight annotation is taken for ours.                   *)
AnyHighlight(a) == TRUE

(* is_ours: by the Contents alone                                          *)
IsOurs(a) == a.kind \in {"ours", "unplaced"}

(* What a load wants besides: bounds, of finite numbers                    *)
Placed(a) == a.kind # "unplaced"

(* The elements of a sequence at some indices, in order.                   *)
Picked(s, at) ==
    LET upTo[i \in 0 .. Len(s)] ==
          IF i = 0 THEN <<>>
          ELSE IF i \in at THEN Append(upTo[i - 1], s[i]) ELSE upTo[i - 1]
    IN  upTo[Len(s)]

(* load_from_pdf: of a page, what is ours and has a place; of all pages,   *)
(* in page order                                                           *)
Loaded(pages, p) ==
    LET ours == Picked(pages[p], {i \in DOMAIN pages[p] :
                                    IsOurs(pages[p][i]) /\ Placed(pages[p][i])})
    IN  [i \in DOMAIN ours |-> [page |-> p, group |-> ours[i].group, id |-> ours[i].id]]

LoadFromPdf(pages) ==
    LET upTo[n \in 0 .. Cardinality(HlPages)] ==
          IF n = 0 THEN <<>> ELSE upTo[n - 1] \o Loaded(pages, n - 1)
    IN  upTo[Cardinality(HlPages)]

PagesOfStore(items) == {items[i].page : i \in DOMAIN items}
OnPage(items, p) == Picked(items, {i \in DOMAIN items : items[i].page = p})

(* App::new: past every group of the document                              *)
FirstFreeGroup(items) ==
    LET groups == {items[i].group : i \in DOMAIN items} \ {NoGroup}
    IN  IF groups = {} THEN 1 ELSE Max(groups) + 1

HlInit ==
    /\ pdf \in InitialPdfs /\ original = pdf /\ docAnnots = pdf
    /\ store = LoadFromPdf(pdf) /\ before = store
    /\ prevPages = PagesOfStore(store)
    /\ nextGroup = FirstFreeGroup(store)
    /\ revision = 0
    /\ awaiting = FALSE /\ staged = <<>> /\ page = 0
    /\ saving = Idle
    /\ session = 0
    /\ yanks = 0 /\ failures = 0 /\ restarts = 0

Running == saving.pc # "down"
Handling == saving.pc \notin {"down", "idle"}

----------------------------------------------------------------------------
(* persist_highlights                                                      *)

(* The pages to walk: "pages that either had our annotations at load time  *)
(* [...] or have highlights now".                                          *)
CandidatePages(items) == prevPages \cup PagesOfStore(items)

(* Nothing is saved when nothing was touched.                              *)
BeginSave(items, touched, quitting) ==
    saving' = IF touched = 0
                THEN IF quitting THEN [Idle EXCEPT !.pc = "quit"] ELSE Idle
                ELSE [pc |-> "apply", left |-> CandidatePages(items),
                      quitting |-> quitting]

EndSave == saving' = IF saving.quitting THEN [Idle EXCEPT !.pc = "quit"] ELSE Idle

(* apply_store_to_document, one page: what is_ours says goes, but for what *)
(* pdfium does not hand out or delete, and the store's are created.        *)
Tagged(p) == {i \in DOMAIN docAnnots[p] : IsOurs(docAnnots[p][i])}
Kept(p, stuck) == Picked(docAnnots[p], (DOMAIN docAnnots[p] \ Tagged(p)) \cup stuck)

Created(items, p) ==
    LET on == OnPage(items, p)
    IN  [i \in DOMAIN on |-> [kind |-> "ours", group |-> on[i].group, id |-> on[i].id]]

ApplyPage ==
    /\ saving.pc = "apply" /\ saving.left # {}
    /\ LET p == Min(saving.left)
       IN  /\ docAnnots' = [docAnnots EXCEPT ![p] = Kept(p, {}) \o Created(store, p)]
           /\ saving' = [saving EXCEPT !.left = @ \ {p}]
    /\ UNCHANGED <<storeVars, keyVars, pdf, prevPages, session, original, yanks, failures, restarts>>

(* A page on which pdfium does not do all it is asked to: stuck are not    *)
(* deleted, bare are created without Contents, and n are created at all.   *)
Untagged == [kind |-> "untagged", group |-> NoGroup, id |-> 0]

Made(p, bare) ==
    [i \in DOMAIN Created(store, p) |-> IF i \in bare THEN Untagged ELSE Created(store, p)[i]]

MayRefuse(stuck, bare) == Cardinality(stuck) + Cardinality(bare) <= MaxRefused

Botched(p, stuck, bare, n) ==
    [docAnnots EXCEPT ![p] = Kept(p, stuck) \o SubSeq(Made(p, bare), 1, n)]

(* Deletions and set_contents that fail are ignored: the save goes on.     *)
ApplyBadly ==
    /\ saving.pc = "apply" /\ saving.left # {} /\ failures < MaxFailures
    /\ failures' = failures + 1
    /\ LET p == Min(saving.left)
       IN  /\ \E stuck \in SUBSET Tagged(p), bare \in SUBSET DOMAIN Created(store, p) :
                /\ stuck # {} \/ bare # {}
                /\ MayRefuse(stuck, bare)
                /\ docAnnots' = Botched(p, stuck, bare, Len(Created(store, p)))
           /\ saving' = [saving EXCEPT !.left = @ \ {p}]
    /\ UNCHANGED <<storeVars, keyVars, pdf, prevPages, session, original, yanks, restarts>>

(* The rest of the save is given up when pdfium cannot open the page, or   *)
(* cannot create an annotation after the first n, or has created the n-th  *)
(* and cannot set its bounds, which leaves it without Contents.            *)
ApplyFails ==
    /\ saving.pc = "apply" /\ saving.left # {} /\ failures < MaxFailures
    /\ failures' = failures + 1
    /\ LET p == Min(saving.left)
           made == DOMAIN Created(store, p)
       IN  \/ UNCHANGED docAnnots
           \/ \E stuck \in SUBSET Tagged(p), bare \in SUBSET made, n \in {0} \cup made :
                /\ n < Len(Created(store, p)) \/ n \in bare
                /\ MayRefuse(stuck, bare)
                /\ docAnnots' = Botched(p, stuck, bare, n)
    /\ EndSave
    /\ UNCHANGED <<storeVars, keyVars, pdf, prevPages, session, original, yanks, restarts>>

(* Mutant: written in place, so that a failure leaves part of it.          *)
SaveInPlace ==
    /\ saving.pc = "apply" /\ saving.left = {}
    /\ \E ps \in SUBSET HlPages : pdf' = [p \in HlPages |-> IF p \in ps THEN docAnnots[p] ELSE <<>>]
    /\ prevPages' = PagesOfStore(store)
    /\ EndSave
    /\ UNCHANGED <<storeVars, keyVars, docAnnots, session, original, yanks, failures, restarts>>

(* save_atomic: all of it or nothing, for whoever opens the file by name;  *)
(* on success the pages to walk next time are those of the store.  Nothing *)
(* is synced to the disk: of what a power loss leaves, nothing is said.    *)
SaveAtomic ==
    /\ saving.pc = "apply" /\ saving.left = {}
    /\ pdf' = docAnnots
    /\ prevPages' = PagesOfStore(store)
    /\ EndSave
    /\ UNCHANGED <<storeVars, keyVars, docAnnots, session, original, yanks, failures, restarts>>

(* The temporary file cannot be created, written or renamed; it may stay.  *)
SaveFails ==
    /\ saving.pc = "apply" /\ saving.left = {} /\ failures < MaxFailures
    /\ failures' = failures + 1
    /\ EndSave
    /\ UNCHANGED <<storeVars, keyVars, pdf, docAnnots, prevPages, session, original, yanks, restarts>>

----------------------------------------------------------------------------
(* What the user does                                                      *)

(* yank_selection(save): one rectangle per page of the selection and line, *)
(* all of one group.                                                       *)
Yank(ps) ==
    /\ saving.pc = "idle" /\ ~awaiting /\ yanks < MaxYanks
    /\ yanks' = yanks + 1
    /\ LET sorted == Picked([i \in 1 .. Cardinality(HlPages) |-> i - 1], {p + 1 : p \in ps})
       IN  store' = store \o [i \in DOMAIN sorted |->
                                [page |-> sorted[i], group |-> nextGroup, id |-> yanks']]
    /\ nextGroup' = nextGroup + 1
    /\ before' = store
    /\ revision' = 1
    /\ BeginSave(store', revision', FALSE)
    /\ UNCHANGED <<keyVars, pdf, docAnnots, prevPages, session, original, failures, restarts>>

(* The group that `x` is about: of the last highlight on the page.         *)
LastGroup(p) == Last(OnPage(store, p)).group

(* request_delete_last_highlight: the prompt                               *)
PressX ==
    /\ saving.pc = "idle" /\ ~awaiting
    /\ awaiting' = (OnPage(store, page) # <<>>)
    /\ staged' = IF awaiting' THEN <<page, LastGroup(page)>> ELSE <<>>
    /\ UNCHANGED <<storeVars, saveVars, page, original, yanks, failures, restarts>>

(* Mutant: whatever page the group's other highlights are on.              *)
DoomedEverywhere(p) ==
    LET on == {i \in DOMAIN store : store[i].page = p}
        g == store[Max(on)].group
    IN  IF on = {} THEN {} ELSE {i \in DOMAIN store : store[i].group = g}

(* The group on the page, or a single highlight without a group            *)
Doomed(p) ==
    LET on == {i \in DOMAIN store : store[i].page = p}
        g == store[Max(on)].group
    IN  IF on = {} THEN {}
        ELSE IF g = NoGroup THEN {Max(on)} ELSE {i \in on : store[i].group = g}

Without(items, gone) == Picked(items, DOMAIN items \ gone)

(* confirm_delete_last_highlight: on the page that is current by now.      *)
PressY ==
    /\ saving.pc = "idle" /\ awaiting
    /\ awaiting' = FALSE /\ staged' = <<>>
    /\ LET gone == Doomed(page)
       IN  /\ store' = Without(store, gone)
           /\ IF gone = {} THEN UNCHANGED <<before, revision, saving>>
              ELSE /\ before' = store
                   /\ revision' = 1
                   /\ BeginSave(store', revision', FALSE)
    /\ UNCHANGED <<pdf, docAnnots, prevPages, session, nextGroup, page, original, yanks, failures, restarts>>

(* cancel_delete_last_highlight: any other key                             *)
PressOther ==
    /\ saving.pc = "idle" /\ awaiting
    /\ awaiting' = FALSE /\ staged' = <<>>
    /\ UNCHANGED <<storeVars, saveVars, page, original, yanks, failures, restarts>>

(* A key that moves, when no prompt waits for one; the wheel, at any time. *)
Move(p, wheel) ==
    /\ saving.pc = "idle" /\ p # page /\ (wheel \/ ~awaiting)
    /\ page' = p
    /\ UNCHANGED <<storeVars, saveVars, awaiting, staged, original, yanks, failures, restarts>>

(* main, after run_loop: highlights are saved, then the session, whatever  *)
(* becomes of the first.                                                   *)
Quit ==
    /\ saving.pc = "idle" /\ ~awaiting
    /\ BeginSave(store, revision, TRUE)
    /\ before' = store
    /\ UNCHANGED <<store, nextGroup, revision, keyVars, pdf, docAnnots, prevPages, session, original, yanks, failures, restarts>>

PersistSession ==
    /\ saving.pc = "quit"
    /\ session' = page
    /\ saving' = [Idle EXCEPT !.pc = "down"]
    /\ UNCHANGED <<storeVars, keyVars, pdf, docAnnots, prevPages, original, yanks, failures, restarts>>

(* The process dies, of a panic or a signal, in the middle of a save as    *)
(* well.  What it wrote is in the system's hands and stays.                *)
Crash ==
    /\ Running
    /\ saving' = [Idle EXCEPT !.pc = "down"]
    /\ UNCHANGED <<storeVars, keyVars, pdf, docAnnots, prevPages, session, original, yanks, failures, restarts>>

(* App::new                                                                *)
Start ==
    /\ saving.pc = "down" /\ restarts < MaxRestarts
    /\ restarts' = restarts + 1
    /\ docAnnots' = pdf
    /\ store' = LoadFromPdf(pdf) /\ before' = store'
    /\ prevPages' = PagesOfStore(store')
    /\ nextGroup' = FirstFreeGroup(store')
    /\ revision' = 0
    /\ awaiting' = FALSE /\ staged' = <<>>
    /\ page' = session
    /\ failures' = 0
    /\ saving' = Idle
    /\ UNCHANGED <<pdf, session, original, yanks>>

UserAction ==
    \/ \E ps \in (SUBSET HlPages) \ {{}} : Yank(ps)
    \/ PressX \/ PressY \/ PressOther
    \/ \E p \in HlPages, wheel \in BOOLEAN : Move(p, wheel)
    \/ Quit

HlNext ==
    \/ UserAction
    \/ ApplyPage \/ ApplyBadly \/ ApplyFails \/ SaveAtomic \/ SaveFails
    \/ PersistSession \/ Crash \/ Start

HlSpec == HlInit /\ [][HlNext]_hlVars

----------------------------------------------------------------------------
(* Properties                                                              *)

OfKind(s, kind) == Picked(s, {i \in DOMAIN s : s[i].kind = kind})
Ours(pages) == [p \in HlPages |-> OfKind(pages[p], "ours")]
Foreign(pages) == [p \in HlPages |-> OfKind(pages[p], "foreign")]
AsAnnotations(items) == [p \in HlPages |-> Created(items, p)]

(* As long as pdfium and the disk have done all the session asked of them, *)
(* the file holds exactly the store of a moment ago: the death of the      *)
(* process at any point loses the action in progress and nothing else, and *)
(* a page whose last highlight was deleted is not forgotten ("a panic /    *)
(* SIGKILL / power loss mid-session bounds the worst-case loss to one      *)
(* yank", app.rs:1744; the model has no power loss).                       *)
SavedIsStore ==
    Running /\ failures = 0 =>
        Ours(pdf) = AsAnnotations(IF Handling /\ saving.pc = "apply" THEN before ELSE store)

(* What other tools wrote is on its page in the file, in its order,        *)
(* whatever was saved, failed or interrupted ("foreign highlights from     *)
(* other tools are left alone").  An untagged one that a failed save left  *)
(* may have come between or after them.                                    *)
ForeignKept == Foreign(pdf) = Foreign(original)

(* A confirmed delete removes highlights of one yank from one page, also   *)
(* when the yanks were made in different sessions.                         *)
DeleteTakesOneYank ==
    [][saving.pc = "idle" /\ awaiting /\ ~awaiting' /\ Len(store') < Len(store) =>
         LET gone == ToSet(store) \ ToSet(store')
         IN  \A g, h \in gone : g.page = h.page /\ g.id = h.id]_hlVars

(* "Step 2: actually delete the staged highlight group" (app.rs:2812).     *)
DeletesWhatWasStaged ==
    [][saving.pc = "idle" /\ awaiting /\ ~awaiting' /\ Len(store') < Len(store) =>
         \A h \in ToSet(store) \ ToSet(store') : <<h.page, h.group>> = staged]_hlVars

=============================================================================
