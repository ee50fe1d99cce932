----------------------------- MODULE DrawFrame -----------------------------
(***************************************************************************)
(* One frame of the kitty draw path (draw and draw_pages_kitty_inner in    *)
(* src/ui.rs) over the image registry: triggers, cold renders and cache    *)
(* trimming, the plan, then build, ride-along of the deletes, marks,       *)
(* eviction, and the flush that hands the frame to the terminal.  pc walks *)
(* the calls of the frame; each step makes at most one registry call.      *)
(*                                                                         *)
(* Geometry is that of one zoom level: the layout key varies by dark mode. *)
(* A window that meets no page by a whole cell ends the frame early in the *)
(* code; PlaceableAssumption leaves such windows out.                      *)
(***************************************************************************)
EXTENDS Layout, DrawPlan

CONSTANTS
    NumPages, PageHeight, Gap, Viewport, CellHeight,  \* the document and the window
    Bad,              \* pages whose render fails
    CacheDir,         \* is there a disk cache
    Revisions,        \* overlay revisions a page can have
    PageBytes,        \* decoded bytes of a page's bitmap
    MaxCachedPages, GhosttyBudget,
    PageCacheSlots,   \* page_cache_budget_bytes, in pages
    Margin,           \* MARGIN of evict_far_pages
    BurstMin,         \* RAPID_SCROLL_BURST_MIN
    None              \* no print, no image, no cell

Pages == 0 .. NumPages - 1
layout == Build([p \in Pages |-> PageHeight], Gap)
Prints == BOOLEAN \X Revisions     \* layout key (dark) and page revision

Bitmap == [dark : BOOLEAN, sharp : BOOLEAN]
Images == [print : Prints, bitmap : Bitmap \cup {None}]
Cells == [page : Pages, at : Int, image : Images \cup {None}, deletes : SUBSET Pages]

LayoutVisible(at) == VisiblePages(layout, at, Viewport)
Placeable(at) ==
    {p \in LayoutVisible(at) :
        VisibleCellHeight(layout, at, Viewport \div CellHeight, p, CellHeight) > 0}

ASSUME DocumentAssumption ==
    NumPages \in Nat /\ PageHeight \in Nat /\ Gap \in Nat /\ Viewport \in Nat
ASSUME StorageAssumption ==
    PageBytes \in Nat /\ MaxCachedPages \in Nat /\ GhosttyBudget \in Nat /\ Margin \in Nat
ASSUME RevisionsAssumption ==
    Revisions # {} /\ \A r \in Revisions : Revisions \ {r} # {}

ASSUME NoneAssumption ==
    None \notin Prints /\ None \notin Bitmap /\ None \notin Images /\ None \notin Cells

ASSUME PlaceableAssumption ==
    \A at \in 0 .. layout.total : ClampScroll(layout, at, Viewport) = at => Placeable(at) # {}

VARIABLES
    \* the image registry
    pages, lru, pending_deletes, transmitted_bytes, transmitted_bytes_cumulative, drained,
    \* App: what to show
    scroll_y_px, dark, revision, popup_open,
    \* App: bitmaps
    page_cache, pages_at_fast_quality, failed_pages, last_layout_key,
    disk,                            \* sharp renders in the disk cache: <<dark, page>>
    encoded,                         \* the bitmap each cached payload was encoded from
    \* App: what the last frame left behind
    last_drawn_scroll_y_px, popup_open_prev, pending_post_scroll_invalidate,
    pending_cold_redraw, input_burst_count,
    \* this frame
    pc, send, todo,
    \* the terminal
    held,                            \* the image stored for each page's id
    screen,                          \* the pages placed by the last frame
    top_cell                         \* first cell of the topmost page of the last frame

registryVars == <<pages, lru, pending_deletes, transmitted_bytes,
                  transmitted_bytes_cumulative, drained>>
contentVars == <<scroll_y_px, dark, revision, popup_open>>
bitmapVars == <<page_cache, pages_at_fast_quality, failed_pages, last_layout_key, disk>>
historyVars == <<last_drawn_scroll_y_px, popup_open_prev, pending_post_scroll_invalidate>>
planVars == <<pending_cold_redraw, input_burst_count>>
frameVars == <<send, todo>>
terminalVars == <<held, screen, top_cell>>

Registry == INSTANCE KittyRegistry
              WITH NoPrint <- None, DecodedBytes <- [f \in Prints |-> PageBytes]

Cached == DOMAIN page_cache
PrintOf(p) == <<dark, revision[p]>>
CurrentPage == PageAt(layout, scroll_y_px + Viewport \div 2)
First(S) == CHOOSE p \in S : \A q \in S : p <= q
Blits == Placeable(scroll_y_px) \cap Cached
Stored(p) == <<dark, p>> \in disk

Plus(f, p, v) == [q \in DOMAIN f \cup {p} |-> IF q = p THEN v ELSE f[q]]

-----------------------------------------------------------------------------
(* draw with a popup: the image area is filled over, the registry is not   *)
(* touched and the layout is not refreshed.                                *)
DrawPopup ==
    /\ pc \in {"draw", "settle"}
    /\ popup_open
    /\ screen' = {} /\ top_cell' = None
    /\ popup_open_prev' = TRUE
    /\ last_drawn_scroll_y_px' = scroll_y_px
    /\ pc' = "drawn"
    /\ UNCHANGED <<registryVars, contentVars, bitmapVars, encoded,
                   pending_post_scroll_invalidate, planVars, frameVars, held>>

(***************************************************************************)
(* The three triggers.  Whether POST_SCROLL_SETTLE_MS have elapsed since   *)
(* the last scroll is a choice of the clock, except that the settle draw   *)
(* comes after a poll of SETTLE_MS with no input, which is longer.         *)
(***************************************************************************)
CheckTriggers ==
    LET changed == last_drawn_scroll_y_px # scroll_y_px
        armed == pending_post_scroll_invalidate \/ changed
        jump == IsLongJump(last_drawn_scroll_y_px, scroll_y_px, Viewport)
    IN  /\ pc \in {"draw", "settle"}
        /\ ~popup_open
        /\ \E settled \in {b \in BOOLEAN :
                             /\ b => armed /\ ~changed
                             /\ pc = "settle" /\ armed /\ ~changed => b} :
             IF popup_open_prev \/ jump \/ settled
             THEN /\ Registry!InvalidateAllTransmits
                  /\ pending_post_scroll_invalidate' = FALSE
             ELSE /\ UNCHANGED registryVars
                  /\ pending_post_scroll_invalidate' = armed
        /\ pc' = "render"
        /\ UNCHANGED <<contentVars, bitmapVars, encoded, last_drawn_scroll_y_px,
                       popup_open_prev, planVars, frameVars, terminalVars>>

(* evict_far_pages and enforce_byte_budget: pages far from the window go,  *)
(* then as many unpinned ones as exceed the budget.  Which of them is up   *)
(* to the LRU order of the page cache, which is left open.                 *)
NearWindow(visible) ==
    {p \in Pages : \E v \in visible : Distance(p, v) <= Margin}

Trimmed(cached, visible) ==
    LET near == cached \cap NearWindow(visible)
        excess == Cardinality(near) - PageCacheSlots
        loose == near \ visible
    IN  {near \ gone : gone \in
           {s \in SUBSET loose :
              Cardinality(s) = Greater(0, Lesser(excess, Cardinality(loose)))}}

(* is_rapid_scrolling: a burst goes stale when the clock says so.          *)
RapidChoices == IF input_burst_count >= BurstMin THEN BOOLEAN ELSE {FALSE}

(* Mutant: the bitmaps of the old layout stay in the cache.                *)
OldBitmaps(rebuilt) == Cached

SurvivingBitmaps(rebuilt) == IF rebuilt THEN {} ELSE Cached

(* Mutant: the Fast marks of evicted pages stay.                           *)
AllMarks(marks, kept) == marks

RetainedMarks(marks, kept) == marks \cap kept

(* Mutant: a page put off by rapid input asks for a redraw as well.        *)
AnyPutOff(cold, rapid) == cold # ColdAttempts(cold, rapid)

(* deferred_for_budget                                                     *)
PutOffByBudget(cold, rapid) == ~rapid /\ cold # ColdAttempts(cold, rapid)

(***************************************************************************)
(* ensure_layout, the cold renders in page order, and the trim.  A failed  *)
(* page is cold in every frame and takes its share of the budget.  A hit   *)
(* in the disk cache spares the render and is sharp.                       *)
(***************************************************************************)
RenderPages ==
    LET rebuilt == last_layout_key # dark
        at == IF rebuilt THEN RestoredScroll(layout, layout, scroll_y_px, Viewport)
              ELSE ClampScroll(layout, scroll_y_px, Viewport)
        cached == SurvivingBitmaps(rebuilt)
        failed == IF rebuilt THEN {} ELSE failed_pages
        cold == Placeable(at) \ cached
    IN  /\ pc = "render"
        /\ scroll_y_px' = at
        /\ last_layout_key' = dark
        /\ \E rapid \in RapidChoices :
             LET attempted == ColdAttempts(cold, rapid) \ failed
                 rendered == {p \in attempted : Stored(p) \/ p \notin Bad}
             IN  /\ input_burst_count' = IF rapid THEN input_burst_count
                                         ELSE IF input_burst_count >= BurstMin THEN 0
                                         ELSE input_burst_count
                 /\ failed_pages' = failed \cup (attempted \ rendered)
                 /\ pending_cold_redraw' = PutOffByBudget(cold, rapid)
                 /\ \E kept \in Trimmed(cached \cup rendered, LayoutVisible(at)) :
                      /\ page_cache' = [p \in kept |->
                            IF p \in rendered THEN [dark |-> dark, sharp |-> Stored(p)]
                            ELSE page_cache[p]]
                      /\ pages_at_fast_quality' =
                            RetainedMarks((IF rebuilt THEN {} ELSE pages_at_fast_quality)
                                             \cup {p \in rendered : ~Stored(p)}, kept)
        /\ pc' = "plan"
        /\ UNCHANGED <<registryVars, dark, revision, popup_open, disk, encoded,
                       historyVars, frameVars, terminalVars>>

(* The plan: stale or at-risk pages need a transmit, some may wait.        *)
Needed ==
    {p \in Blits : \/ ~Registry!IsFresh(p, PrintOf(p))
                   \/ Registry!IsEvictionAtRisk(p, GhosttyBudget)}
Deferred ==
    TransmitDeferrals(Needed, {p \in Blits : Registry!HasPriorTransmit(p)}, CurrentPage)

PlanFrame ==
    /\ pc = "plan"
    /\ send' = Needed \ Deferred
    /\ todo' = Needed \ Deferred
    /\ pending_cold_redraw' = (pending_cold_redraw \/ Deferred # {})
    /\ pc' = "build"
    /\ UNCHANGED <<registryVars, contentVars, bitmapVars, encoded, historyVars,
                   input_burst_count, terminalVars>>

(* A payload with the right fingerprint is reused as it is; otherwise the  *)
(* bitmap is encoded now.                                                  *)
EncodeFor(p) ==
    IF p \in Registry!Resident /\ pages[p].payload = PrintOf(p)
    THEN encoded ELSE [encoded EXCEPT ![p] = page_cache[p]]

BuildNext ==
    /\ pc = "build" /\ todo # {}
    /\ Registry!BuildTransmit(First(todo), PrintOf(First(todo)))
    /\ encoded' = EncodeFor(First(todo))
    /\ todo' = todo \ {First(todo)}
    /\ UNCHANGED <<contentVars, bitmapVars, historyVars, planVars, pc, send, terminalVars>>

BuildDone ==
    /\ pc = "build" /\ todo = {}
    /\ IF pending_deletes = {} THEN UNCHANGED registryVars
       ELSE Registry!TakePendingDeletes
    /\ pc' = IF pending_deletes # {} /\ send = {} THEN "put_back" ELSE "mark"
    /\ todo' = send
    /\ UNCHANGED <<contentVars, bitmapVars, encoded, historyVars, planVars, send, terminalVars>>

(* Mutant: ids that are resident again by now go back, too.                *)
PutBackAll ==
    /\ pc = "put_back"
    /\ pending_deletes' = drained \cup pending_deletes /\ drained' = {}
    /\ UNCHANGED <<pages, lru, transmitted_bytes, transmitted_bytes_cumulative>>
    /\ pc' = "mark"
    /\ UNCHANGED <<contentVars, bitmapVars, encoded, historyVars, planVars, frameVars,
                   terminalVars>>

(* No transmit to ride on: the deletes go back.                            *)
PutBack ==
    /\ pc = "put_back"
    /\ Registry!PutBackPendingDeletes
    /\ pc' = "mark"
    /\ UNCHANGED <<contentVars, bitmapVars, encoded, historyVars, planVars, frameVars,
                   terminalVars>>

MarkNext ==
    /\ pc = "mark" /\ todo # {}
    /\ Registry!MarkTransmitted(First(todo), PrintOf(First(todo)))
    /\ todo' = todo \ {First(todo)}
    /\ UNCHANGED <<contentVars, bitmapVars, encoded, historyVars, planVars, pc, send,
                   terminalVars>>

EvictRegistry ==
    /\ pc = "mark" /\ todo = {}
    /\ Registry!EvictToBudget(LayoutVisible(scroll_y_px))
    /\ pc' = "flush"
    /\ UNCHANGED <<contentVars, bitmapVars, encoded, historyVars, planVars, frameVars,
                   terminalVars>>

(***************************************************************************)
(* The terminal's side of the flush.  ratatui writes the cells that differ *)
(* from the last frame's; each page's transmit rides in its first cell,    *)
(* the deletes in front of the first transmit.  Only the topmost page's    *)
(* cell can be equal to the last frame's and stay unwritten: the cells     *)
(* after a written page row are written again whatever they hold.          *)
(***************************************************************************)
Image(p) == [print |-> PrintOf(p), bitmap |-> encoded[p]]

TopCell ==
    IF Blits = {} THEN None
    ELSE LET p == First(Blits)
         IN  [page |-> p, at |-> scroll_y_px,
              image |-> IF p \in send THEN Image(p) ELSE None,
              deletes |-> IF p \in send THEN drained ELSE {}]

Unwritten == IF Blits # {} /\ TopCell = top_cell THEN {First(Blits)} ELSE {}

DeletesWritten == IF send # {} /\ First(send) \notin Unwritten THEN drained ELSE {}

FlushFrame ==
    /\ pc = "flush"
    /\ Registry!ShipDeletes
    /\ held' = [p \in Pages |->
                  IF p \in send \ Unwritten THEN Image(p)
                  ELSE IF p \in DeletesWritten THEN None ELSE held[p]]
    /\ screen' = Blits
    /\ top_cell' = TopCell
    /\ popup_open_prev' = FALSE
    /\ last_drawn_scroll_y_px' = scroll_y_px
    /\ send' = {}
    /\ pc' = "drawn"
    /\ UNCHANGED <<contentVars, bitmapVars, encoded, pending_post_scroll_invalidate,
                   planVars, todo>>

Draw ==
    \/ DrawPopup \/ CheckTriggers \/ RenderPages \/ PlanFrame \/ BuildNext
    \/ BuildDone \/ PutBack \/ MarkNext \/ EvictRegistry \/ FlushFrame

=============================================================================
