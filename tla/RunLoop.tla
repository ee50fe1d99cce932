------------------------------- MODULE RunLoop -------------------------------
(***************************************************************************)
(* run_loop (src/main.rs): a frame when something changed, forced frames   *)
(* while a frame says it put work off, then one poll: input is dispatched  *)
(* in batches, the first quiet poll schedules the settle frame, and later  *)
(* ones warm the pages ahead or sharpen a visible one.                     *)
(*                                                                         *)
(* The watchdog that skips a frame while more input is queued only merges  *)
(* batches, which a longer batch covers.                                   *)
(***************************************************************************)
EXTENDS DrawFrame

CONSTANTS
    Strides,          \* scroll steps, taken down and up (keys, wheel)
    Targets,          \* pages that can be jumped to
    Editable,         \* pages whose overlay an edit can change
    Toggles,          \* subset of {"dark", "popup", "refresh", "search"}
    SharpBad,         \* pages whose sharp render fails
    PrefetchDepth, MaxWarms,  \* PREFETCH_DEPTH, MAX_WARMS_PER_IDLE
    MaxInputs,        \* bound on the inputs of a behaviour
    MaxFaults,        \* bound on images the terminal drops by itself
    MaxLostWrites     \* bound on idle writes that fail

ASSUME StridesAssumption == Strides \subseteq Int
ASSUME TargetsAssumption == Targets \subseteq Pages

VARIABLES
    last_scroll_dir,             \* 1 or -1 (0 at first, which counts as 1)
    needs_settle_redraw,
    warming,                     \* the page an idle warm is sending
    warms,                       \* pages warmed in this idle tick
    idle_warm_pushed_visible_at_risk,
    forced,                      \* frames drawn since the last poll (history)
    inputs, faults, lost_writes  \* bound counters; inputs also says if any input came

idleVars == <<warming, warms, idle_warm_pushed_visible_at_risk>>
boundVars == <<inputs, faults, lost_writes>>
loopVars == <<last_scroll_dir, needs_settle_redraw, idleVars, forced, boundVars>>
drawVars == <<registryVars, contentVars, bitmapVars, encoded, historyVars, planVars,
              pc, frameVars, terminalVars>>
vars == <<drawVars, loopVars>>

-----------------------------------------------------------------------------
(* A frame for each page to render, one for every two to transmit.         *)
CatchUpFrames == NumPages \div MaxColdRenders + NumPages \div MaxTransmits

(* The end of an iteration that drew: work put off means another frame at  *)
(* once, without a poll.                                                   *)
AfterDraw ==
    /\ pc = "drawn"
    /\ pending_cold_redraw' = FALSE
    /\ IF pending_cold_redraw
       THEN pc' = "draw" /\ forced' = Lesser(forced + 1, CatchUpFrames + 1)
       ELSE pc' = "poll" /\ forced' = 0
    /\ UNCHANGED <<registryVars, contentVars, bitmapVars, encoded, historyVars,
                   input_burst_count, frameVars, terminalVars, last_scroll_dir,
                   needs_settle_redraw, idleVars, boundVars>>

(* note_input: the count restarts when the last input is too long ago.     *)
NoteInput ==
    input_burst_count' \in {1, Lesser(input_burst_count + 1, BurstMin)}

(* What an event changes, besides being noted.                             *)
ScrollTo(at) ==
    /\ scroll_y_px' = ClampScroll(layout, at, Viewport)
    /\ UNCHANGED <<dark, revision, popup_open, registryVars>>

Scroll(stride) ==
    /\ ScrollTo(scroll_y_px + stride)
    /\ last_scroll_dir' = IF scroll_y_px' > scroll_y_px THEN 1
                          ELSE IF scroll_y_px' < scroll_y_px THEN -1 ELSE last_scroll_dir

GotoPage(p) == ~popup_open /\ ScrollTo(layout.y[p]) /\ UNCHANGED last_scroll_dir

Other(rev) == CHOOSE r \in Revisions : r # rev
EditPages(S) ==
    /\ ~popup_open
    /\ revision' = [p \in Pages |-> IF p \in S THEN Other(revision[p]) ELSE revision[p]]
    /\ UNCHANGED <<scroll_y_px, dark, popup_open, registryVars, last_scroll_dir>>

ToggleDark ==
    /\ "dark" \in Toggles /\ ~popup_open
    /\ dark' = ~dark
    /\ UNCHANGED <<scroll_y_px, revision, popup_open, registryVars, last_scroll_dir>>

TogglePopup ==
    /\ "popup" \in Toggles
    /\ popup_open' = ~popup_open
    /\ UNCHANGED <<scroll_y_px, dark, revision, registryVars, last_scroll_dir>>

(* Ctrl-L, a resize and FocusGained.                                       *)
Refresh ==
    /\ "refresh" \in Toggles
    /\ Registry!InvalidateAllTransmits
    /\ UNCHANGED <<contentVars, last_scroll_dir>>

Input ==
    /\ pc \in {"poll", "batch"}
    /\ inputs < MaxInputs
    /\ inputs' = inputs + 1
    /\ \/ \E d \in Strides : Scroll(d) \/ Scroll(-d)
       \/ \E p \in Targets : GotoPage(p)
       \/ \E p \in Editable : EditPages({p})
       \/ "search" \in Toggles /\ EditPages(Pages)
       \/ ToggleDark
       \/ TogglePopup
       \/ Refresh
    /\ NoteInput
    /\ needs_settle_redraw' = TRUE
    /\ pc' = "batch"
    /\ UNCHANGED <<bitmapVars, encoded, historyVars, pending_cold_redraw, frameVars,
                   terminalVars, idleVars, forced, faults, lost_writes>>

(* The queue is empty: paint the result of the batch.                      *)
BatchDone ==
    /\ pc = "batch"
    /\ pc' = "draw"
    /\ UNCHANGED <<registryVars, contentVars, bitmapVars, encoded, historyVars, planVars,
                   frameVars, terminalVars, loopVars>>

(* Mutant: the settle frame still sees the burst.                          *)
SettleInBurst ==
    /\ pc = "poll" /\ needs_settle_redraw
    /\ needs_settle_redraw' = FALSE
    /\ pc' = "settle"
    /\ UNCHANGED <<registryVars, contentVars, bitmapVars, encoded, historyVars, planVars,
                   frameVars, terminalVars, last_scroll_dir, idleVars, forced, boundVars>>

(* The first quiet poll after input ends the burst.                        *)
SettleTimeout ==
    /\ pc = "poll" /\ needs_settle_redraw
    /\ input_burst_count' = 0
    /\ needs_settle_redraw' = FALSE
    /\ pc' = "settle"
    /\ UNCHANGED <<registryVars, contentVars, bitmapVars, encoded, historyVars,
                   pending_cold_redraw, frameVars, terminalVars, last_scroll_dir, idleVars,
                   disk, forced, boundVars>>

-----------------------------------------------------------------------------
(* Idle work, after the first input of the session only.                   *)
IdleStart ==
    /\ pc = "poll" /\ ~needs_settle_redraw /\ inputs > 0
    /\ pc' = "warm"
    /\ UNCHANGED <<registryVars, contentVars, bitmapVars, encoded, historyVars, planVars,
                   frameVars, terminalVars, loopVars>>

PrefetchWindow ==
    LET visible == LayoutVisible(scroll_y_px)
    IN  {p \in Pages \ visible :
           /\ \E v \in visible : Distance(p, v) <= PrefetchDepth
           /\ \A v \in visible : IF last_scroll_dir > 0 THEN p > v ELSE p < v}

(* Mutant: a page that failed is tried again.                              *)
AheadRetried == PrefetchWindow \ Cached

(* The pages ahead that are neither cached nor known to fail.              *)
Ahead == PrefetchWindow \ (Cached \cup failed_pages)

NextWarm ==
    IF last_scroll_dir > 0 THEN First(Ahead) ELSE CHOOSE p \in Ahead : \A q \in Ahead : q <= p

(* warm_next_uncached ends: another page if there is room and no input is  *)
(* waiting, else back to the loop, which redraws if a visible page is at   *)
(* risk now.                                                               *)
WarmEnds(atRisk) ==
    \/ warms + 1 < MaxWarms
       /\ pc' = "warm" /\ warms' = warms + 1
       /\ idle_warm_pushed_visible_at_risk' = atRisk
    \/ pc' = (IF atRisk THEN "draw" ELSE "poll")
       /\ warms' = 0
       /\ idle_warm_pushed_visible_at_risk' = FALSE

WarmRender ==
    LET p == NextWarm
    IN  /\ pc = "warm" /\ Ahead # {}
        /\ IF p \in Bad /\ ~Stored(p)
           THEN /\ failed_pages' = failed_pages \cup {p}
                /\ WarmEnds(idle_warm_pushed_visible_at_risk)
                /\ UNCHANGED <<page_cache, pages_at_fast_quality, warming>>
           ELSE /\ page_cache' =
                      Plus(page_cache, p, [dark |-> dark, sharp |-> Stored(p)])
                /\ pages_at_fast_quality' =
                      IF Stored(p) THEN pages_at_fast_quality \ {p}
                      ELSE pages_at_fast_quality \cup {p}
                /\ warming' = p
                /\ pc' = "warm_build"
                /\ UNCHANGED <<failed_pages, warms, idle_warm_pushed_visible_at_risk>>
        /\ UNCHANGED <<registryVars, contentVars, last_layout_key, disk, encoded, historyVars,
                       planVars, frameVars, terminalVars, last_scroll_dir,
                       needs_settle_redraw, forced, boundVars>>

WarmBuild ==
    /\ pc = "warm_build"
    /\ Registry!BuildTransmit(warming, PrintOf(warming))
    /\ encoded' = EncodeFor(warming)
    /\ pc' = "warm_write"
    /\ UNCHANGED <<contentVars, bitmapVars, historyVars, planVars, frameVars, terminalVars,
                   loopVars>>

VisibleAtRisk ==
    \E v \in LayoutVisible(scroll_y_px) : Registry!IsEvictionAtRisk(v, GhosttyBudget)

WarmWrite ==
    /\ pc = "warm_write"
    /\ Registry!MarkTransmitted(warming, PrintOf(warming))
    /\ held' = [held EXCEPT ![warming] = Image(warming)]
    /\ warming' = None
    /\ UNCHANGED <<contentVars, bitmapVars, encoded, historyVars, planVars, frameVars,
                   screen, top_cell, last_scroll_dir, needs_settle_redraw, forced,
                   boundVars>>
    /\ WarmEnds(idle_warm_pushed_visible_at_risk \/ VisibleAtRisk')

(* The write fails: the page is not marked, though the terminal may have   *)
(* received all of it.                                                     *)
WarmWriteFails ==
    /\ pc = "warm_write"
    /\ lost_writes < MaxLostWrites
    /\ lost_writes' = lost_writes + 1
    /\ held' \in {held, [held EXCEPT ![warming] = Image(warming)]}
    /\ WarmEnds(idle_warm_pushed_visible_at_risk)
    /\ warming' = None
    /\ UNCHANGED <<registryVars, contentVars, bitmapVars, encoded, historyVars, planVars,
                   frameVars, screen, top_cell, last_scroll_dir, needs_settle_redraw,
                   forced, inputs, faults>>

(* Nothing left to warm: upgrade_one_visible_to_sharp takes the first fast *)
(* page on screen.  The new pixels need a transmit, but no frame is asked  *)
(* for here.                                                               *)
FastVisible == LayoutVisible(scroll_y_px) \cap pages_at_fast_quality

UpgradeVisible ==
    LET p == First(FastVisible)
    IN  /\ pc = "warm" /\ Ahead = {}
        /\ IF FastVisible = {} \/ p \in failed_pages \cup SharpBad
           THEN UNCHANGED <<registryVars, bitmapVars>>
           ELSE /\ page_cache' = Plus(page_cache, p, [dark |-> dark, sharp |-> TRUE])
                /\ pages_at_fast_quality' = pages_at_fast_quality \ {p}
                /\ disk' = IF CacheDir THEN disk \cup {<<dark, p>>} ELSE disk
                /\ IF p \in Registry!Resident
                   THEN Registry!InvalidateTransmit(p)
                   ELSE UNCHANGED registryVars
                /\ UNCHANGED <<failed_pages, last_layout_key>>
        /\ pc' = IF idle_warm_pushed_visible_at_risk THEN "draw" ELSE "poll"
        /\ warms' = 0
        /\ idle_warm_pushed_visible_at_risk' = FALSE
        /\ UNCHANGED <<contentVars, encoded, historyVars, planVars, frameVars, terminalVars,
                       last_scroll_dir, needs_settle_redraw, warming, forced, boundVars>>

-----------------------------------------------------------------------------
(* The terminal drops an image to make room (its evictImage): outside the  *)
(* program, and unseen by it.                                              *)
TerminalEvicts ==
    /\ faults < MaxFaults
    /\ faults' = faults + 1
    /\ \E p \in Pages : held[p] # None /\ held' = [held EXCEPT ![p] = None]
    /\ UNCHANGED <<registryVars, contentVars, bitmapVars, encoded, historyVars, planVars,
                   pc, frameVars, screen, top_cell, last_scroll_dir, needs_settle_redraw,
                   idleVars, forced, inputs, lost_writes>>

Idle ==
    \/ IdleStart \/ WarmRender \/ WarmBuild \/ WarmWrite \/ WarmWriteFails
    \/ UpgradeVisible

DrawStep == Draw /\ UNCHANGED loopVars

System == DrawStep \/ AfterDraw \/ BatchDone \/ SettleTimeout \/ Idle

Init ==
    /\ Registry!Init
    /\ scroll_y_px = 0 /\ dark = FALSE /\ popup_open = FALSE
    /\ revision = [p \in Pages |-> CHOOSE r \in Revisions : TRUE]
    /\ page_cache = << >> /\ pages_at_fast_quality = {} /\ failed_pages = {}
    /\ last_layout_key = None /\ disk = {}
    /\ encoded = [p \in Pages |-> None]
    /\ last_drawn_scroll_y_px = 0 /\ popup_open_prev = FALSE
    /\ pending_post_scroll_invalidate = FALSE
    /\ pending_cold_redraw = FALSE /\ input_burst_count = 0
    /\ pc = "draw" /\ send = {} /\ todo = {}
    /\ held = [p \in Pages |-> None] /\ screen = {} /\ top_cell = None
    /\ last_scroll_dir = 1 /\ needs_settle_redraw = FALSE
    /\ warming = None /\ warms = 0 /\ idle_warm_pushed_visible_at_risk = FALSE
    /\ forced = 0
    /\ inputs = 0 /\ faults = 0 /\ lost_writes = 0

Next == System \/ Input \/ TerminalEvicts

(* The loop never stops by itself and a poll always returns; input and the *)
(* terminal's evictions may or may not come.                               *)
Spec == Init /\ [][Next]_vars /\ WF_vars(System)

-----------------------------------------------------------------------------
(* A frame or an idle write is under way: marks are ahead of the bytes.    *)
Sending == pc \in {"mark", "flush"}

(* The Fast marks and the bitmaps agree: upgrade_one_visible_to_sharp       *)
(* works from the marks, and evict_far_pages, enforce_byte_budget and      *)
(* ensure_layout each have to prune both.                                  *)
QualityTracked ==
    /\ pages_at_fast_quality \subseteq Cached
    /\ \A p \in Cached : page_cache[p].sharp <=> p \notin pages_at_fast_quality

(* Every image the terminal holds is known to the registry, queued for     *)
(* deletion or on its way to be: nothing else would ever free it.          *)
NoOrphanImages ==
    \A p \in Pages :
        held[p] # None => p \in Registry!Resident \cup pending_deletes \cup drained

(* Between frames, what the registry believes to be transmitted is what    *)
(* the terminal holds (deletes and transmits ride in cells that the diff   *)
(* may drop, and leave in another order than they were decided in).        *)
BeliefIsTrue ==
    ~Sending => \A p \in Registry!Transmitted :
                   held[p] # None /\ held[p].print = pages[p].print

(* A placed page always has an image behind it: no delete, eviction,       *)
(* deferral or invalidation leaves a blank page on screen.                 *)
ScreenHeld == \A p \in screen : held[p] # None

(* A fresh page of the cache shows the pixels of the cache: neither the    *)
(* print nor the payload's fingerprint tells Fast from Sharp, so the       *)
(* upgrade must reset both.                                                *)
FreshIsCurrent ==
    ~Sending => \A p \in Cached :
        Registry!IsFresh(p, PrintOf(p)) => held[p].bitmap.sharp = page_cache[p].sharp

(* An image was encoded from a bitmap of the layout key it is sent under.  *)
PixelsMatchLayout ==
    \A p \in Pages : held[p] # None => held[p].bitmap.dark = held[p].print[1]

(* Frames drawn without a poll in between ("spreads the burst into ~3      *)
(* frames", MAX_COLD_RENDERS_PER_DRAW) end, and not later than the work    *)
(* there can be takes: no page is rendered twice, nor is one sent twice.   *)
CatchUpBounded == forced <= CatchUpFrames

(* What the registry is made to do is what KittyRegistry allows.           *)
RefinesRegistry == Registry!Spec

(* Once input stops, every page of the window ends up on screen with the   *)
(* revision and the colours it should have, unless its render fails.       *)
UpToDate(p) == p \in screen /\ held[p] # None /\ held[p].print = PrintOf(p)
Converges ==
    <>[](popup_open \/ \A p \in Placeable(scroll_y_px) : p \in failed_pages \/ UpToDate(p))

(* ... and the idle upgrades have replaced every Fast bitmap in view.      *)
EventuallySharp == <>(inputs > 0) => <>[](popup_open \/ FastVisible = {})

(* The loop keeps coming back to the poll for input.                       *)
KeepsPolling == []<>(pc = "poll")

=============================================================================
