--------------------------- MODULE RunLoopProofs ---------------------------
(***************************************************************************)
(* Theorems about RunLoop, for every document, window, budget and sequence *)
(* of inputs, in four parts: it makes no change to the image registry that *)
(* KittyRegistry does not allow; what it believes of the terminal is true  *)
(* and nothing leaks; the bitmaps have the right colours and quality; the  *)
(* frames drawn without a poll in between come to an end.                  *)
(***************************************************************************)
EXTENDS RunLoop, LayoutProofs

RegistryProofs == INSTANCE KittyRegistryProofs
                    WITH NoPrint <- None, DecodedBytes <- [f \in Prints |-> PageBytes]

-----------------------------------------------------------------------------
(* Types.                                                                  *)
TypeInv ==
    /\ scroll_y_px \in Int /\ dark \in BOOLEAN /\ popup_open \in BOOLEAN
    /\ revision \in [Pages -> Revisions]
    /\ Cached \subseteq Pages /\ page_cache \in [Cached -> Bitmap]
    /\ pages_at_fast_quality \subseteq Pages
    /\ encoded \in [Pages -> Bitmap \cup {None}]
    /\ pending_cold_redraw \in BOOLEAN
    /\ send \subseteq Pages /\ todo \subseteq Pages
    /\ held \in [Pages -> Images \cup {None}]
    /\ screen \subseteq Pages
    /\ top_cell \in Cells \cup {None}
    /\ pc = "build" => todo \subseteq Cached
    /\ pc \in {"warm_build", "warm_write"} => warming \in Pages
    /\ pc = "warm_build" => warming \in Cached
    /\ faults \in Nat /\ lost_writes \in Nat /\ forced \in Nat

-----------------------------------------------------------------------------
(* The layout of the document.                                             *)
LEMMA LayoutFacts ==
    /\ layout.n = NumPages /\ layout.total \in Nat
    /\ layout.y \in [Pages -> Nat] /\ layout.h = [p \in Pages |-> PageHeight]
<1> DEFINE h == [p \in Pages |-> PageHeight]
<1>1. h \in [0 .. NumPages - 1 -> Nat] /\ NumPages \in Nat /\ Gap \in Nat
  BY DocumentAssumption DEF Pages
<1>2. layout = Build(h, Gap)
  BY DEF layout
<1> HIDE DEF h
<1>3. PICK y, t :
        /\ layout = [n |-> NumPages, h |-> h, gap |-> Gap, y |-> y, total |-> t]
        /\ t \in Nat /\ y \in [0 .. NumPages - 1 -> Nat]
  <2>1. \E y, t :
          /\ Build(h, Gap) = [n |-> NumPages, h |-> h, gap |-> Gap, y |-> y, total |-> t]
          /\ t \in Nat /\ y \in [0 .. NumPages - 1 -> Nat]
          /\ \A i \in 1 .. NumPages - 1 : y[i] = y[i - 1] + h[i - 1] + Gap
    BY <1>1, BuildOffsets
  <2> QED
    BY <1>2, <2>1
<1> QED
  BY <1>3 DEF h, Pages

(* The pages in a window are pages of the document, and First of some of   *)
(* them is one of them.                                                    *)
LEMMA VisibleArePages ==
    ASSUME NEW at
    PROVE  LayoutVisible(at) \subseteq Pages /\ Placeable(at) \subseteq LayoutVisible(at)
BY LayoutFacts DEF LayoutVisible, VisiblePages, PagesOf, Placeable, Pages

(* First of a set of pages is its least.                                   *)
LEMMA FirstOfPages ==
    ASSUME NEW S, S \subseteq Pages, S # {}
    PROVE  First(S) \in S /\ \A q \in S : First(S) <= q
<1>1. S \subseteq Nat
  BY DocumentAssumption DEF Pages
<1>2. \E p \in S : \A q \in S : p <= q
  BY <1>1, NatLeast
<1> QED
  BY <1>2 DEF First

(* The page an idle warm takes is one of those ahead.                      *)
LEMMA NextWarmIsAhead ==
    ASSUME Ahead # {}
    PROVE  NextWarm \in Ahead /\ NextWarm \in Pages \ LayoutVisible(scroll_y_px)
<1>1. Ahead \subseteq Pages \ LayoutVisible(scroll_y_px)
  BY DEF Ahead, PrefetchWindow
<1>2. CASE last_scroll_dir > 0
  BY <1>1, <1>2, FirstOfPages DEF NextWarm
<1>3. CASE ~ (last_scroll_dir > 0)
  <2> DEFINE T == {NumPages - p : p \in Ahead}
  <2>1. T \subseteq Nat /\ T # {}
    <3>1. \A p \in Ahead : NumPages - p \in Nat
      BY <1>1, DocumentAssumption DEF Pages
    <3> QED
      BY <3>1
  <2>2. \E t \in T : \A u \in T : t <= u
    <3> HIDE DEF T
    <3> QED
      BY <2>1, NatLeast
  <2>3. PICK p \in Ahead : \A q \in Ahead : NumPages - p <= NumPages - q
    BY <2>2
  <2>4. \A q \in Ahead : q <= p
    BY <1>1, <2>3, DocumentAssumption DEF Pages
  <2> QED
    BY <1>1, <1>3, <2>3, <2>4 DEF NextWarm
<1> QED
  BY <1>2, <1>3

(* Scrolling is to integers.                                               *)
LEMMA ScrollIsInt ==
    ASSUME NEW at \in Int
    PROVE  ClampScroll(layout, at, Viewport) \in Int
BY LayoutFacts, DocumentAssumption DEF ClampScroll, Clamp, Greater

(* A document without pages has no window that shows one.                  *)
LEMMA SomePages == NumPages > 0
<1>1. ClampScroll(layout, 0, Viewport) = 0
  BY LayoutFacts, DocumentAssumption DEF ClampScroll, Clamp, Greater
<1>2. Placeable(0) # {}
  BY <1>1, LayoutFacts, PlaceableAssumption
<1>3. Pages # {}
  BY <1>2, VisibleArePages
<1> QED
  BY <1>3, DocumentAssumption DEF Pages

(* The page at a position is a page of the document.                       *)
LEMMA PageAtIsPage ==
    ASSUME NEW at
    PROVE  PageAt(layout, at) \in Pages
<1> DEFINE owners == {p \in PagesOf(layout) : Bottom(layout, p) + layout.gap > at}
<1>1. PagesOf(layout) = Pages /\ 0 \in Pages /\ NumPages - 1 \in Pages
  BY LayoutFacts, SomePages, DocumentAssumption DEF PagesOf, Pages
<1>2. CASE layout.n = 0 \/ at < 0 \/ owners = {}
  BY <1>1, <1>2, LayoutFacts DEF PageAt
<1>3. CASE ~ (layout.n = 0 \/ at < 0) /\ owners # {}
  <2>1. owners \subseteq Nat /\ owners \subseteq Pages
    BY <1>1, DocumentAssumption DEF Pages
  <2>2. PageAt(layout, at) = CHOOSE p \in owners : \A q \in owners : p <= q
    BY <1>3 DEF PageAt
  <2> HIDE DEF owners
  <2>3. \E p \in owners : \A q \in owners : p <= q
    BY <1>3, <2>1, NatLeast
  <2> QED
    BY <2>1, <2>2, <2>3
<1> QED
  BY <1>2, <1>3

(* The scroll that a rebuild restores is a clamped one.                    *)
LEMMA RestoredIsInt ==
    ASSUME NEW at \in Int
    PROVE  \E s \in Int :
             RestoredScroll(layout, layout, at, Viewport) = ClampScroll(layout, s, Viewport)
<1> DEFINE p == PageAt(layout, at)
           local == Clamp(at - layout.y[p], 0, layout.h[p])
           moved == layout.y[p] + (local * layout.h[p]) \div Greater(layout.h[p], 1)
<1>1. p \in Pages
  BY PageAtIsPage
<1>2. layout.y[p] \in Nat /\ layout.h[p] = PageHeight
  BY <1>1, LayoutFacts
<1>3. local \in Int
  BY <1>2, DocumentAssumption DEF Clamp
<1>4. PageHeight \in Nat /\ Greater(PageHeight, 1) \in Nat \ {0}
  BY DocumentAssumption DEF Greater
<1>5. RestoredScroll(layout, layout, at, Viewport) = ClampScroll(layout, moved, Viewport)
  BY DEF RestoredScroll
<1> HIDE DEF local, p
<1>6. local * PageHeight \in Int
  BY <1>3, <1>4
<1>7. moved \in Int
  BY <1>2, <1>4, <1>6
<1> QED
  BY <1>5, <1>7

-----------------------------------------------------------------------------
(* Types are kept.                                                         *)
LEMMA TypeInit == Init => TypeInv
<1> SUFFICES ASSUME Init PROVE TypeInv
  OBVIOUS
<1>1. DOMAIN << >> = {} /\ << >> \in [{} -> Bitmap]
  OBVIOUS
<1>2. Cached = {} /\ page_cache \in [Cached -> Bitmap]
  BY <1>1 DEF Init, Cached
<1>3. revision \in [Pages -> Revisions]
  BY RevisionsAssumption DEF Init
<1>4. /\ encoded \in [Pages -> Bitmap \cup {None}] /\ held \in [Pages -> Images \cup {None}]
      /\ send = {} /\ todo = {} /\ screen = {} /\ pages_at_fast_quality = {}
      /\ top_cell = None /\ pc = "draw"
  BY DEF Init
<1>5. /\ scroll_y_px \in Int
      /\ faults = 0 /\ lost_writes = 0 /\ forced = 0
  BY DEF Init
<1>6. dark \in BOOLEAN /\ popup_open \in BOOLEAN /\ pending_cold_redraw \in BOOLEAN
  BY Zenon DEF Init
<1> QED
  BY <1>2, <1>3, <1>4, <1>5, <1>6 DEF TypeInv

(* Every input of the user or the terminal keeps the types.                *)
LEMMA TypeInput ==
    ASSUME TypeInv, Input
    PROVE  TypeInv'
<1>1. UNCHANGED <<bitmapVars, encoded, historyVars, pending_cold_redraw, frameVars,
                  terminalVars, idleVars, forced, faults, lost_writes>> /\ pc' = "batch"
  BY DEF Input
<1>2. /\ scroll_y_px' \in Int /\ dark' \in BOOLEAN /\ popup_open' \in BOOLEAN
      /\ revision' \in [Pages -> Revisions]
  <2> USE DEF TypeInv
  <2>1. ASSUME NEW at \in Int, ScrollTo(at)
        PROVE  scroll_y_px' \in Int /\ UNCHANGED <<dark, revision, popup_open>>
    BY <2>1, ScrollIsInt DEF ScrollTo
  <2>2. CASE \E d \in Strides : Scroll(d) \/ Scroll(-d)
    <3>1. PICK d \in Strides : Scroll(d) \/ Scroll(-d)
      BY <2>2
    <3>2. scroll_y_px + d \in Int /\ scroll_y_px + (-d) \in Int
      BY StridesAssumption
    <3> QED
      BY <2>1, <3>1, <3>2 DEF Scroll
  <2>3. CASE \E p \in Targets : GotoPage(p)
    <3>1. PICK p \in Targets : GotoPage(p)
      BY <2>3
    <3>2. layout.y[p] \in Int
      BY LayoutFacts, TargetsAssumption
    <3> QED
      BY <2>1, <3>1, <3>2 DEF GotoPage
  <2>4. CASE (\E p \in Editable : EditPages({p})) \/ EditPages(Pages)
    <3>1. PICK S : EditPages(S)
      BY <2>4
    <3>2. \A r \in Revisions : Other(r) \in Revisions
      BY RevisionsAssumption DEF Other
    <3> QED
      BY <3>1, <3>2 DEF EditPages
  <2>5. CASE ToggleDark \/ TogglePopup \/ Refresh
    BY <2>5 DEF ToggleDark, TogglePopup, Refresh, contentVars
  <2> QED
    BY <2>2, <2>3, <2>4, <2>5 DEF Input
<1> QED
  BY <1>1, <1>2 DEF TypeInv, Cached, bitmapVars, frameVars, terminalVars, idleVars

(* What RenderPages does, in one place for all the invariants.             *)
RenderEffect(at, rendered, kept) ==
    LET rebuilt == last_layout_key # dark
        cached == SurvivingBitmaps(rebuilt)
    IN  /\ at = IF rebuilt THEN RestoredScroll(layout, layout, scroll_y_px, Viewport)
                ELSE ClampScroll(layout, scroll_y_px, Viewport)
        /\ rendered \subseteq Placeable(at) \ cached
        /\ kept \subseteq cached \cup rendered
        /\ page_cache' = [p \in kept |->
              IF p \in rendered THEN [dark |-> dark, sharp |-> Stored(p)] ELSE page_cache[p]]
        /\ pages_at_fast_quality' =
              ((IF rebuilt THEN {} ELSE pages_at_fast_quality)
                  \cup {p \in rendered : ~Stored(p)}) \cap kept

(* All that the invariants need of RenderPages: it changes the cache and   *)
(* the scroll, by RenderEffect.                                            *)
LEMMA RenderShape ==
    ASSUME RenderPages
    PROVE  /\ \E rendered, kept : RenderEffect(scroll_y_px', rendered, kept)
           /\ pending_cold_redraw' \in BOOLEAN
           /\ pc = "render" /\ pc' = "plan" /\ last_layout_key' = dark
           /\ UNCHANGED <<registryVars, dark, revision, popup_open, disk, encoded,
                          frameVars, terminalVars, popup_open_prev>>
<1> DEFINE rebuilt == last_layout_key # dark
           at == IF rebuilt THEN RestoredScroll(layout, layout, scroll_y_px, Viewport)
                 ELSE ClampScroll(layout, scroll_y_px, Viewport)
           cached == SurvivingBitmaps(rebuilt)
           failed == IF rebuilt THEN {} ELSE failed_pages
           cold == Placeable(at) \ cached
           attempted(rapid) == ColdAttempts(cold, rapid) \ failed
           rendered(rapid) == {p \in attempted(rapid) : Stored(p) \/ p \notin Bad}
           marks(rapid) == (IF rebuilt THEN {} ELSE pages_at_fast_quality)
                              \cup {p \in rendered(rapid) : ~Stored(p)}
<1>1. PICK rapid \in RapidChoices :
        /\ pending_cold_redraw' = PutOffByBudget(cold, rapid)
        /\ \E kept \in Trimmed(cached \cup rendered(rapid), LayoutVisible(at)) :
             /\ page_cache' = [p \in kept |->
                   IF p \in rendered(rapid) THEN [dark |-> dark, sharp |-> Stored(p)]
                   ELSE page_cache[p]]
             /\ pages_at_fast_quality' = RetainedMarks(marks(rapid), kept)
  BY Zenon DEF RenderPages
<1>2. PICK kept \in Trimmed(cached \cup rendered(rapid), LayoutVisible(at)) :
        /\ page_cache' = [p \in kept |->
              IF p \in rendered(rapid) THEN [dark |-> dark, sharp |-> Stored(p)]
              ELSE page_cache[p]]
        /\ pages_at_fast_quality' = RetainedMarks(marks(rapid), kept)
  BY <1>1
<1>3. scroll_y_px' = at
  BY DEF RenderPages
<1>4. rendered(rapid) \subseteq cold
  BY DEF ColdAttempts
<1>5. kept \subseteq cached \cup rendered(rapid)
  BY DEF Trimmed
<1>6. RenderEffect(at, rendered(rapid), kept)
  <2> HIDE DEF attempted
  <2> QED
    BY <1>2, <1>4, <1>5 DEF RenderEffect, RetainedMarks
<1>7. pending_cold_redraw' \in BOOLEAN
  <2> HIDE DEF cold
  <2> QED
    BY <1>1 DEF PutOffByBudget
<1> HIDE DEF rendered, at
<1> QED
  BY <1>3, <1>6, <1>7 DEF RenderPages, historyVars

(* RenderPages keeps the types.                                            *)
LEMMA TypeRender ==
    ASSUME TypeInv, RenderPages, UNCHANGED loopVars
    PROVE  TypeInv'
<1> USE DEF TypeInv
<1>1. PICK rendered, kept : RenderEffect(scroll_y_px', rendered, kept)
  BY RenderShape
<1>2. scroll_y_px' \in Int
  <2>1. CASE last_layout_key # dark
    BY <1>1, <2>1, RestoredIsInt, ScrollIsInt DEF RenderEffect
  <2>2. CASE last_layout_key = dark
    BY <1>1, <2>2, ScrollIsInt DEF RenderEffect
  <2> QED
    BY <2>1, <2>2
<1>3. rendered \subseteq Pages /\ kept \subseteq Cached \cup rendered
  BY <1>1, VisibleArePages DEF RenderEffect, SurvivingBitmaps
<1>4. \A p : Stored(p) \in BOOLEAN
  BY DEF Stored
<1>5. /\ Cached' \subseteq Pages /\ page_cache' \in [Cached' -> Bitmap]
      /\ pages_at_fast_quality' \subseteq Pages
  BY <1>1, <1>3, <1>4 DEF RenderEffect, Cached, Bitmap
<1>6. /\ pending_cold_redraw' \in BOOLEAN /\ pc' = "plan"
      /\ UNCHANGED <<dark, revision, popup_open, encoded, send, todo, held, screen, top_cell>>
  BY RenderShape DEF frameVars, terminalVars
<1>7. UNCHANGED <<faults, lost_writes, forced, warming>>
  BY DEF loopVars, boundVars, idleVars
<1> QED
  BY <1>2, <1>5, <1>6, <1>7

(* The other steps of a draw keep the types.                               *)
LEMMA TypeFrame ==
    ASSUME TypeInv, drained \subseteq Pages, UNCHANGED loopVars,
           \/ DrawPopup \/ CheckTriggers \/ PlanFrame \/ BuildNext \/ BuildDone \/ PutBack
           \/ MarkNext \/ EvictRegistry \/ FlushFrame
    PROVE  TypeInv'
<1> USE DEF TypeInv
<1>1. UNCHANGED <<faults, lost_writes, forced, warming>>
  BY DEF loopVars, boundVars, idleVars
<1>2. Blits \subseteq Pages /\ Blits \subseteq Cached /\ Needed \subseteq Blits
  BY VisibleArePages DEF Blits, Needed
<1>3. CASE DrawPopup
  BY <1>1, <1>3 DEF DrawPopup, contentVars, bitmapVars, planVars, frameVars, Cached
<1>4. CASE CheckTriggers
  BY <1>1, <1>4 DEF CheckTriggers, contentVars, bitmapVars, planVars, frameVars,
                    terminalVars, Cached
<1>5. CASE PlanFrame
  <2>1. pending_cold_redraw' \in BOOLEAN
    BY <1>5, Zenon DEF PlanFrame
  <2>2. /\ send' \subseteq Pages /\ todo' \subseteq Pages /\ pc' = "build"
        /\ todo' \subseteq Cached
    BY <1>2, <1>5 DEF PlanFrame
  <2>3. UNCHANGED <<contentVars, bitmapVars, encoded, terminalVars>>
    BY <1>5 DEF PlanFrame
  <2> QED
    BY <1>1, <2>1, <2>2, <2>3 DEF contentVars, bitmapVars, terminalVars, Cached
<1>6. CASE BuildNext
  <2>1. First(todo) \in todo
    BY <1>6, FirstOfPages DEF BuildNext
  <2>2. page_cache[First(todo)] \in Bitmap
    BY <1>6, <2>1 DEF BuildNext
  <2> QED
    BY <1>1, <1>6, <2>1, <2>2
    DEF BuildNext, EncodeFor, contentVars, bitmapVars, planVars, terminalVars, Cached
<1>7. CASE BuildDone \/ PutBack \/ MarkNext \/ EvictRegistry
  BY <1>1, <1>7 DEF BuildDone, PutBack, MarkNext, EvictRegistry, contentVars, bitmapVars,
                    planVars, frameVars, terminalVars, Cached
<1>8. CASE FlushFrame
  <2>1. \A p \in Pages : Image(p) \in Images
    BY DEF Image, Images, Prints, PrintOf
  <2>2. TopCell \in Cells \cup {None}
    <3>1. CASE Blits = {}
      BY <3>1 DEF TopCell
    <3>2. CASE Blits # {}
      <4>1. First(Blits) \in Pages
        BY <1>2, <3>2, FirstOfPages
      <4> QED
        BY <2>1, <3>2, <4>1 DEF TopCell, Cells
    <3> QED
      BY <3>1, <3>2
  <2>3. held' \in [Pages -> Images \cup {None}]
    BY <1>8, <2>1 DEF FlushFrame
  <2> QED
    BY <1>1, <1>2, <1>8, <2>2, <2>3
    DEF FlushFrame, contentVars, bitmapVars, planVars, Cached
<1> QED
  BY <1>3, <1>4, <1>5, <1>6, <1>7, <1>8

(* The bound on the frames of a catch-up, and when it is kept.             *)
LEMMA CatchUpFramesAre ==
    CatchUpFrames \in Nat /\ \A n \in Nat : 2 * n <= 3 * NumPages => n <= CatchUpFrames
BY DocumentAssumption DEF CatchUpFrames, MaxColdRenders, MaxTransmits

(* The steps of the run loop keep the types.                               *)
LEMMA TypeLoop ==
    ASSUME TypeInv,
           \/ AfterDraw \/ BatchDone \/ SettleTimeout \/ Idle \/ TerminalEvicts
           \/ UNCHANGED vars
    PROVE  TypeInv'
<1> USE DEF TypeInv
<1>1. CASE AfterDraw \/ BatchDone \/ SettleTimeout \/ IdleStart \/ UNCHANGED vars
  <2>1. forced' \in Nat
    BY <1>1, CatchUpFramesAre
    DEF AfterDraw, BatchDone, SettleTimeout, IdleStart, vars, loopVars, Lesser
  <2>2. pending_cold_redraw' \in BOOLEAN
    BY <1>1, Zenon
    DEF AfterDraw, BatchDone, SettleTimeout, IdleStart, vars, drawVars, planVars
  <2> QED
    BY <1>1, <2>1, <2>2
    DEF AfterDraw, BatchDone, SettleTimeout, IdleStart, vars, drawVars, contentVars,
        bitmapVars, frameVars, terminalVars, loopVars, idleVars, boundVars, Cached
<1>2. CASE WarmRender
  <2>1. Stored(NextWarm) \in BOOLEAN
    BY DEF Stored
  <2>2. NextWarm \in Pages
    BY <1>2, NextWarmIsAhead DEF WarmRender
  <2>3. /\ UNCHANGED <<scroll_y_px, dark, revision, popup_open, encoded, send, todo,
                       held, screen, top_cell, pending_cold_redraw, forced, faults, lost_writes>>
        /\ pc = "warm"
    BY <1>2 DEF WarmRender, contentVars, planVars, frameVars, terminalVars, boundVars
  <2>4. CASE NextWarm \in Bad /\ ~Stored(NextWarm)
    BY <1>2, <2>3, <2>4 DEF WarmRender, WarmEnds, Cached
  <2>5. CASE ~ (NextWarm \in Bad /\ ~Stored(NextWarm))
    <3>1. /\ page_cache' = Plus(page_cache, NextWarm, [dark |-> dark, sharp |-> Stored(NextWarm)])
          /\ pages_at_fast_quality' \subseteq pages_at_fast_quality \cup {NextWarm}
          /\ warming' = NextWarm /\ pc' = "warm_build"
      BY <1>2, <2>5 DEF WarmRender
    <3>2. /\ Cached' = Cached \cup {NextWarm}
          /\ page_cache' \in [Cached' -> Bitmap]
      BY <2>1, <3>1 DEF Plus, Cached, Bitmap
    <3> QED
      BY <2>2, <2>3, <3>1, <3>2
  <2> QED
    BY <2>4, <2>5
<1>3. CASE WarmBuild
  BY <1>3 DEF WarmBuild, EncodeFor, contentVars, bitmapVars, planVars, frameVars,
              terminalVars, loopVars, idleVars, boundVars, Cached
<1>4. CASE WarmWrite \/ WarmWriteFails
  <2>1. Image(warming) \in Images
    BY <1>4 DEF WarmWrite, WarmWriteFails, Image, Images, Prints, PrintOf
  <2>2. held' \in [Pages -> Images \cup {None}]
    BY <1>4, <2>1 DEF WarmWrite, WarmWriteFails
  <2>3. pc' \in {"warm", "draw", "poll"}
    BY <1>4 DEF WarmWrite, WarmWriteFails, WarmEnds
  <2>4. lost_writes' \in Nat
    BY <1>4 DEF WarmWrite, WarmWriteFails, boundVars
  <2> QED
    BY <1>4, <2>2, <2>3, <2>4 DEF WarmWrite, WarmWriteFails, contentVars, bitmapVars,
       planVars, frameVars, boundVars, Cached
<1>5. CASE UpgradeVisible
  <2>1. FastVisible \subseteq Pages
    BY VisibleArePages DEF FastVisible
  <2>2. /\ UNCHANGED <<scroll_y_px, dark, revision, popup_open, encoded, send, todo,
                       held, screen, top_cell, pending_cold_redraw, forced, faults, lost_writes>>
        /\ pc' \in {"draw", "poll"}
    BY <1>5 DEF UpgradeVisible, contentVars, planVars, frameVars, terminalVars, boundVars
  <2> DEFINE p == First(FastVisible)
  <2>3. CASE FastVisible = {} \/ p \in failed_pages \cup SharpBad
    BY <1>5, <2>2, <2>3 DEF UpgradeVisible, bitmapVars, Cached
  <2>4. CASE ~ (FastVisible = {} \/ p \in failed_pages \cup SharpBad)
    <3>1. p \in Pages
      BY <2>1, <2>4, FirstOfPages
    <3>2. /\ page_cache' = Plus(page_cache, p, [dark |-> dark, sharp |-> TRUE])
          /\ pages_at_fast_quality' \subseteq pages_at_fast_quality
      BY <1>5, <2>4 DEF UpgradeVisible
    <3>3. Cached' = Cached \cup {p} /\ page_cache' \in [Cached' -> Bitmap]
      BY <3>2 DEF Plus, Cached, Bitmap
    <3> QED
      BY <2>2, <3>1, <3>2, <3>3
  <2> QED
    BY <2>3, <2>4
<1>6. CASE TerminalEvicts
  <2>1. held' \in [Pages -> Images \cup {None}] /\ faults' \in Nat
    BY <1>6 DEF TerminalEvicts
  <2> QED
    BY <1>6, <2>1 DEF TerminalEvicts, contentVars, bitmapVars, planVars, frameVars,
       idleVars, Cached
<1> QED
  BY <1>1, <1>2, <1>3, <1>4, <1>5, <1>6 DEF Idle

-----------------------------------------------------------------------------
(* Every step of the program is one of the registry's own, or leaves the   *)
(* registry alone.                                                         *)
LEMMA RegistryStep ==
    ASSUME TypeInv, [Next]_vars
    PROVE  [Registry!Next]_(Registry!vars)
<1> USE DEF TypeInv
<1> SUFFICES ASSUME ~ UNCHANGED registryVars PROVE Registry!Next
  BY DEF Registry!vars, registryVars
<1>1. \A p \in Pages : PrintOf(p) \in Prints
  BY DEF PrintOf, Prints
<1>2. CASE DrawStep
  <2>1. CASE CheckTriggers
    BY <2>1 DEF CheckTriggers, Registry!Next
  <2>2. CASE BuildNext
    <3>1. First(todo) \in Pages
      BY <2>2, FirstOfPages DEF BuildNext
    <3> QED
      BY <1>1, <2>2, <3>1 DEF BuildNext, Registry!Next
  <2>3. CASE BuildDone
    BY <2>3 DEF BuildDone, Registry!Next
  <2>4. CASE PutBack
    BY <2>4 DEF PutBack, Registry!Next
  <2>5. CASE MarkNext
    <3>1. First(todo) \in Pages
      BY <2>5, FirstOfPages DEF MarkNext
    <3> QED
      BY <1>1, <2>5, <3>1 DEF MarkNext, Registry!Next
  <2>6. CASE EvictRegistry
    BY <2>6, VisibleArePages DEF EvictRegistry, Registry!Next
  <2>7. CASE FlushFrame
    BY <2>7 DEF FlushFrame, Registry!Next
  <2>8. CASE DrawPopup \/ RenderPages \/ PlanFrame
    BY <2>8 DEF DrawPopup, RenderPages, PlanFrame
  <2> QED
    BY <1>2, <2>1, <2>2, <2>3, <2>4, <2>5, <2>6, <2>7, <2>8 DEF DrawStep, Draw
<1>3. CASE WarmBuild \/ WarmWrite
  BY <1>1, <1>3 DEF WarmBuild, WarmWrite, Registry!Next
<1>4. CASE UpgradeVisible
  <2>1. FastVisible # {} /\ Registry!InvalidateTransmit(First(FastVisible))
    BY <1>4 DEF UpgradeVisible
  <2>2. First(FastVisible) \in Pages
    BY <2>1, VisibleArePages, FirstOfPages DEF FastVisible
  <2> QED
    BY <2>1, <2>2 DEF Registry!Next
<1>5. CASE Input
  <2>1. Refresh
    BY <1>5 DEF Input, Scroll, ScrollTo, GotoPage, EditPages, ToggleDark, TogglePopup
  <2> QED
    BY <2>1 DEF Refresh, Registry!Next
<1>6. CASE \/ AfterDraw \/ BatchDone \/ SettleTimeout \/ IdleStart \/ WarmRender
           \/ WarmWriteFails \/ TerminalEvicts \/ UNCHANGED vars
  BY <1>6 DEF AfterDraw, BatchDone, SettleTimeout, IdleStart, WarmRender, WarmWriteFails,
              TerminalEvicts, vars, drawVars
<1> QED
  BY <1>2, <1>3, <1>4, <1>5, <1>6 DEF Next, System, Idle

-----------------------------------------------------------------------------
(* The theorems of KittyRegistryProofs are about an instance of their own, *)
(* which is the same.                                                      *)
LEMMA SameSets ==
    /\ Registry!Resident = RegistryProofs!Resident
    /\ Registry!Transmitted = RegistryProofs!Transmitted
    /\ \A a, b : Registry!SaturatingSub(a, b) = RegistryProofs!SaturatingSub(a, b)
    /\ \A S : Registry!Cardinality(S) = RegistryProofs!Cardinality(S)
BY DEF Registry!Resident, RegistryProofs!Resident, Registry!Transmitted,
       RegistryProofs!Transmitted, Registry!SaturatingSub, RegistryProofs!SaturatingSub,
       Registry!Cardinality, RegistryProofs!Cardinality

(* The two instances sum up the same bytes ...                             *)
LEMMA SameSize ==
    ASSUME NEW m, NEW S
    PROVE  Registry!TransmittedSize(m, S) = RegistryProofs!TransmittedSize(m, S)
<1>1. \A p : Registry!PageUnits(m, p) = RegistryProofs!PageUnits(m, p)
  BY DEF Registry!PageUnits, RegistryProofs!PageUnits, Registry!BytesOf, RegistryProofs!BytesOf
<1>2. Registry!ByteUnits(m, S) = RegistryProofs!ByteUnits(m, S)
  BY <1>1, Zenon DEF Registry!ByteUnits, RegistryProofs!ByteUnits
<1> QED
  BY <1>2, SameSets DEF Registry!TransmittedSize, RegistryProofs!TransmittedSize

(* ... have the same actions ...                                           *)
LEMMA SameActions ==
    /\ \A p, f : Registry!BuildTransmit(p, f) <=> RegistryProofs!BuildTransmit(p, f)
    /\ \A p, f : Registry!MarkTransmitted(p, f) <=> RegistryProofs!MarkTransmitted(p, f)
    /\ \A p : Registry!InvalidateTransmit(p) <=> RegistryProofs!InvalidateTransmit(p)
    /\ Registry!InvalidateAllTransmits <=> RegistryProofs!InvalidateAllTransmits
    /\ \A pinned : Registry!EvictToBudget(pinned) <=> RegistryProofs!EvictToBudget(pinned)
    /\ Registry!TakePendingDeletes <=> RegistryProofs!TakePendingDeletes
    /\ Registry!PutBackPendingDeletes <=> RegistryProofs!PutBackPendingDeletes
    /\ Registry!ShipDeletes <=> RegistryProofs!ShipDeletes
<1>1. ASSUME NEW p, NEW e PROVE Registry!WithEntry(p, e) = RegistryProofs!WithEntry(p, e)
  BY SameSets DEF Registry!WithEntry, RegistryProofs!WithEntry
<1>2. ASSUME NEW p PROVE Registry!Touch(p) <=> RegistryProofs!Touch(p)
  BY DEF Registry!Touch, RegistryProofs!Touch
<1>3. ASSUME NEW p, NEW f
      PROVE  Registry!BuildTransmit(p, f) <=> RegistryProofs!BuildTransmit(p, f)
  BY <1>1, <1>2, SameSets DEF Registry!BuildTransmit, RegistryProofs!BuildTransmit
<1>4. ASSUME NEW p, NEW f
      PROVE  Registry!MarkTransmitted(p, f) <=> RegistryProofs!MarkTransmitted(p, f)
  BY <1>1, <1>2, SameSets
  DEF Registry!MarkTransmitted, RegistryProofs!MarkTransmitted,
      Registry!DropPendingDelete, RegistryProofs!DropPendingDelete
<1>5. ASSUME NEW p
      PROVE  Registry!InvalidateTransmit(p) <=> RegistryProofs!InvalidateTransmit(p)
  BY SameSets DEF Registry!InvalidateTransmit, RegistryProofs!InvalidateTransmit
<1>6. Registry!InvalidateAllTransmits <=> RegistryProofs!InvalidateAllTransmits
  BY SameSets DEF Registry!InvalidateAllTransmits, RegistryProofs!InvalidateAllTransmits
<1>7. ASSUME NEW pinned
      PROVE  Registry!EvictToBudget(pinned) <=> RegistryProofs!EvictToBudget(pinned)
  <2>1. \A S : Registry!CoversDeficit(S) <=> RegistryProofs!CoversDeficit(S)
    BY SameSets, SameSize
    DEF Registry!CoversDeficit, RegistryProofs!CoversDeficit, Registry!OverPages,
        RegistryProofs!OverPages, Registry!OverBytes, RegistryProofs!OverBytes
  <2>2. Registry!Victims(pinned) = RegistryProofs!Victims(pinned)
    BY <2>1 DEF Registry!Victims, RegistryProofs!Victims
  <2> QED
    BY <2>2, SameSets, SameSize
    DEF Registry!EvictToBudget, RegistryProofs!EvictToBudget,
        Registry!QueueDeletes, RegistryProofs!QueueDeletes
<1>8. /\ Registry!TakePendingDeletes <=> RegistryProofs!TakePendingDeletes
      /\ Registry!PutBackPendingDeletes <=> RegistryProofs!PutBackPendingDeletes
      /\ Registry!ShipDeletes <=> RegistryProofs!ShipDeletes
  BY SameSets
  DEF Registry!TakePendingDeletes, RegistryProofs!TakePendingDeletes,
      Registry!PutBackPendingDeletes, RegistryProofs!PutBackPendingDeletes,
      Registry!ShipDeletes, RegistryProofs!ShipDeletes
<1> QED
  BY <1>3, <1>4, <1>5, <1>6, <1>7, <1>8

(* ... and the same behaviours.                                            *)
LEMMA SameSpec ==
    /\ Registry!Init <=> RegistryProofs!Init
    /\ [Registry!Next]_(Registry!vars) <=> [RegistryProofs!Next]_(RegistryProofs!vars)
<1>1. Registry!Init <=> RegistryProofs!Init
  BY DEF Registry!Init, RegistryProofs!Init
<1>2. Registry!Next <=> RegistryProofs!Next
  BY SameActions DEF Registry!Next, RegistryProofs!Next
<1> QED
  BY <1>1, <1>2 DEF Registry!vars, RegistryProofs!vars

(* What the registry's invariants are, whoever runs it.                    *)
RegistryInv ==
    /\ Registry!TypeOK
    /\ Registry!LruMirrorsPages
    /\ Registry!TransmittedBytesExact
    /\ Registry!NoLiveDeleteQueued
    /\ Registry!EpochIntervals

(* The invariant of the registry's proofs, under the names of the          *)
(* program's instance.                                                     *)
LEMMA SameInvariant == RegistryInv <=> RegistryProofs!IInv
<1>1. Registry!TypeOK <=> RegistryProofs!TypeOK
  BY SameSets DEF Registry!TypeOK, RegistryProofs!TypeOK, Registry!PageEntry,
                  RegistryProofs!PageEntry
<1>2. Registry!LruMirrorsPages <=> RegistryProofs!LruMirrorsPages
  BY SameSets DEF Registry!LruMirrorsPages, RegistryProofs!LruMirrorsPages
<1>3. Registry!TransmittedBytesExact <=> RegistryProofs!TransmittedBytesExact
  BY SameSets, SameSize
  DEF Registry!TransmittedBytesExact, RegistryProofs!TransmittedBytesExact
<1>4. Registry!NoLiveDeleteQueued <=> RegistryProofs!NoLiveDeleteQueued
  BY SameSets DEF Registry!NoLiveDeleteQueued, RegistryProofs!NoLiveDeleteQueued
<1>5. Registry!EpochIntervals <=> RegistryProofs!EpochIntervals
  BY SameSets DEF Registry!EpochIntervals, RegistryProofs!EpochIntervals
<1> QED
  BY <1>1, <1>2, <1>3, <1>4, <1>5 DEF RegistryInv, RegistryProofs!IInv

(* The program gives the registry's constants values that its assumptions  *)
(* allow.                                                                  *)
LEMMA RegistryConstants ==
    /\ RegistryProofs!IsFiniteSet(Pages) /\ None \notin Prints
    /\ [f \in Prints |-> PageBytes] \in [Prints -> Nat]
    /\ MaxCachedPages \in Nat /\ GhosttyBudget \in Nat
<1>1. IsFiniteSet(Pages)
  BY FS_Interval, DocumentAssumption DEF Pages
<1>2. RegistryProofs!IsFiniteSet(Pages)
  BY <1>1 DEF IsFiniteSet, RegistryProofs!IsFiniteSet
<1> QED
  BY <1>2, NoneAssumption, StorageAssumption

(* So the registry's invariant is inductive here as well.                  *)
LEMMA RegistryInductive ==
    /\ Registry!Init => RegistryInv
    /\ RegistryInv /\ [Registry!Next]_(Registry!vars) => RegistryInv'
<1>1. RegistryProofs!Init => RegistryProofs!IInv
  BY RegistryConstants, RegistryProofs!InitInductive
<1>2. RegistryProofs!IInv /\ [RegistryProofs!Next]_(RegistryProofs!vars)
        => RegistryProofs!IInv'
  BY RegistryConstants, RegistryProofs!StepInductive
<1>3. RegistryInv' <=> RegistryProofs!IInv'
  BY SameInvariant, PTL
<1> QED
  BY <1>1, <1>2, <1>3, SameInvariant, SameSpec

-----------------------------------------------------------------------------
(* Types and the registry's invariants are what every other invariant of   *)
(* the program stands on.                                                  *)
Base == TypeInv /\ RegistryInv

(* Types and the registry's invariant hold at first ...                    *)
LEMMA BaseInit == Init => Base
BY TypeInit, RegistryInductive DEF Init, Base

(* ... and after every step.                                               *)
LEMMA BaseStep == Base /\ [Next]_vars => Base'
<1> SUFFICES ASSUME Base, [Next]_vars PROVE Base'
  OBVIOUS
<1>1. TypeInv /\ RegistryInv /\ drained \subseteq Pages
  BY DEF Base, RegistryInv, Registry!TypeOK
<1>2. RegistryInv'
  BY <1>1, RegistryStep, RegistryInductive
<1>3. TypeInv'
  <2>1. CASE DrawStep
    BY <1>1, <2>1, TypeRender, TypeFrame DEF DrawStep, Draw
  <2>2. CASE Input
    BY <1>1, <2>2, TypeInput
  <2>3. CASE \/ AfterDraw \/ BatchDone \/ SettleTimeout \/ Idle \/ TerminalEvicts
             \/ UNCHANGED vars
    BY <1>1, <2>3, TypeLoop
  <2> QED
    BY <2>1, <2>2, <2>3 DEF Next, System
<1> QED
  BY <1>2, <1>3 DEF Base

(* Type correctness of the program's state: draw's, the run loop's and the *)
(* terminal's, whatever is pressed and whatever fails.                     *)
THEOREM TypesHold == Spec => []TypeInv
<1>1. Base => TypeInv
  BY DEF Base
<1> QED
  BY <1>1, BaseInit, BaseStep, PTL DEF Spec

(* draw, the idle warms and the key handlers make no change to the         *)
(* registry other than those of its own methods, each called in a state    *)
(* where it may be: the program implements KittyRegistry.                  *)
THEOREM ImplementsRegistry == Spec => RefinesRegistry
<1>1. Init => Registry!Init
  BY DEF Init
<1>2. Base /\ [Next]_vars => [Registry!Next]_(Registry!vars)
  BY RegistryStep DEF Base
<1> QED
  BY <1>1, <1>2, BaseInit, BaseStep, PTL DEF Spec, RefinesRegistry, Registry!Spec

(* So what holds of the registry in whatever order it is called holds in   *)
(* the program: the deque mirrors the map, the byte total is exact (the    *)
(* debug_assert of evict_to_budget), and no delete is queued for an image  *)
(* that is believed to be live.                                            *)
THEOREM RegistryInvariantInUse == Spec => []RegistryInv
<1>1. Base => RegistryInv
  BY DEF Base
<1> QED
  BY <1>1, BaseInit, BaseStep, PTL DEF Spec

-----------------------------------------------------------------------------
(***************************************************************************)
(* What the program believes of the terminal.                              *)
(* The marks of a frame are made before its bytes are out, deletes ride in *)
(* front of a transmit, and the diff may drop the cell both ride in; the   *)
(* invariants below say at which step of a frame what is owed to whom.     *)
(***************************************************************************)

(* Where a frame stands.                                                   *)
Planned == pc \in {"build", "put_back", "mark", "flush"}
Built == pc \in {"put_back", "mark", "flush"}

(* The pages this frame has marked before their bytes are out.             *)
Marked == IF Sending THEN send \ todo ELSE {}

TopDeletes == IF top_cell = None THEN {} ELSE top_cell.deletes

PayloadReady(p) == p \in Registry!Resident /\ pages[p].payload = PrintOf(p)

(* Pages blitted without an image of their own are transmitted by the end. *)
FramePlan ==
    /\ Planned => send \subseteq Blits /\ todo \subseteq send
    /\ pc = "put_back" => send = {}
    /\ pc = "flush" => todo = {}
    /\ pc \in {"build", "put_back"} => Blits \subseteq Registry!Transmitted \cup send
    /\ Sending => Blits \subseteq Registry!Transmitted \cup todo

(* What is sent was encoded for this frame, or for the same print.         *)
FramePayloads ==
    /\ pc = "build" => \A p \in send \ todo : PayloadReady(p)
    /\ Built => \A p \in send : PayloadReady(p)
    /\ Sending => \A p \in Marked : p \in Registry!Transmitted /\ pages[p].print = PrintOf(p)
    /\ pc = "warm_write" => PayloadReady(warming)

(* Deletes are held by a frame that sends, and for no image it keeps.      *)
FrameDeletes ==
    /\ drained # {} => Built
    /\ Sending /\ send = {} => drained = {}
    /\ drained \cap Registry!Transmitted \subseteq Marked

(* The cell of the last frame, and the page an idle warm works on.         *)
FrameCells ==
    /\ pc \in {"drawn", "poll", "warm", "warm_build", "warm_write"} =>
          top_cell = None \/ top_cell.at = scroll_y_px
    /\ top_cell # None => top_cell.page \in Placeable(top_cell.at)
    /\ pc \in {"warm_build", "warm_write"} => warming \notin LayoutVisible(scroll_y_px)

FrameInv == FramePlan /\ FramePayloads /\ FrameDeletes /\ FrameCells

-----------------------------------------------------------------------------
(* What each registry call does to what the invariants look at.            *)
LEMMA BuildEffect ==
    ASSUME RegistryInv, NEW p, NEW f, Registry!BuildTransmit(p, f)
    PROVE  /\ Registry!Resident' = Registry!Resident \cup {p}
           /\ Registry!Transmitted' = Registry!Transmitted
           /\ \A q \in Registry!Resident : pages'[q].print = pages[q].print
           /\ \A q \in Registry!Resident \ {p} : pages'[q] = pages[q]
           /\ pages'[p].payload = f
           /\ UNCHANGED <<pending_deletes, drained>>
<1> USE DEF RegistryInv, Registry!TypeOK, Registry!PageEntry
<1>1. pages' = Registry!WithEntry(p,
                 IF p \in Registry!Resident
                 THEN [pages[p] EXCEPT !.payload = f]
                 ELSE [print |-> None, payload |-> f, snap |-> 0])
  BY DEF Registry!BuildTransmit
<1>2. /\ Registry!Resident' = Registry!Resident \cup {p}
      /\ \A q \in Registry!Resident \ {p} : pages'[q] = pages[q]
      /\ p \in Registry!Resident => pages'[p] = [pages[p] EXCEPT !.payload = f]
      /\ p \notin Registry!Resident => pages'[p] = [print |-> None, payload |-> f, snap |-> 0]
  BY <1>1 DEF Registry!WithEntry, Registry!Resident
<1>3. \A q \in Registry!Resident : pages'[q].print = pages[q].print
  BY <1>2
<1>4. pages'[p].payload = f
  BY <1>2
<1>5. Registry!Transmitted' = Registry!Transmitted
  BY <1>2, <1>3 DEF Registry!Transmitted
<1> QED
  BY <1>2, <1>3, <1>4, <1>5 DEF Registry!BuildTransmit

(* A mark makes a page transmitted under a print and drops its delete.     *)
LEMMA MarkEffect ==
    ASSUME NEW p, NEW f, f # None, Registry!MarkTransmitted(p, f)
    PROVE  /\ Registry!Resident' = Registry!Resident \cup {p}
           /\ Registry!Transmitted' = Registry!Transmitted \cup {p}
           /\ \A q \in Registry!Resident \ {p} : pages'[q] = pages[q]
           /\ pages'[p].print = f
           /\ p \in Registry!Resident => pages'[p].payload = pages[p].payload
           /\ p \notin Registry!Resident => pages'[p].payload = None
           /\ pending_deletes' = pending_deletes \ {p}
           /\ drained' = drained
<1>1. /\ Registry!Resident' = Registry!Resident \cup {p}
      /\ \A q \in Registry!Resident \ {p} : pages'[q] = pages[q]
      /\ pages'[p].print = f
      /\ p \in Registry!Resident => pages'[p].payload = pages[p].payload
      /\ p \notin Registry!Resident => pages'[p].payload = None
  BY DEF Registry!MarkTransmitted, Registry!WithEntry, Registry!Resident
<1>2. Registry!Transmitted' = Registry!Transmitted \cup {p}
  BY <1>1 DEF Registry!Transmitted
<1> QED
  BY <1>1, <1>2 DEF Registry!MarkTransmitted, Registry!DropPendingDelete

(* An invalidation takes the print and the payload of one page.            *)
LEMMA InvalidateEffect ==
    ASSUME RegistryInv, NEW p, Registry!InvalidateTransmit(p)
    PROVE  /\ p \in Registry!Resident /\ Registry!Resident' = Registry!Resident
           /\ Registry!Transmitted' = Registry!Transmitted \ {p}
           /\ \A q \in Registry!Resident \ {p} : pages'[q] = pages[q]
           /\ pages'[p].print = None /\ pages'[p].payload = None
           /\ UNCHANGED <<pending_deletes, drained>>
<1>1. /\ p \in Registry!Resident /\ Registry!Resident' = Registry!Resident
      /\ \A q \in Registry!Resident \ {p} : pages'[q] = pages[q]
      /\ pages'[p].print = None /\ pages'[p].payload = None
  BY DEF Registry!InvalidateTransmit, Registry!Resident, RegistryInv, Registry!TypeOK,
         Registry!PageEntry
<1>2. Registry!Transmitted' = Registry!Transmitted \ {p}
  BY <1>1 DEF Registry!Transmitted
<1> QED
  BY <1>1, <1>2 DEF Registry!InvalidateTransmit

(* ... or the prints of all pages, which keep their payloads.              *)
LEMMA InvalidateAllEffect ==
    ASSUME RegistryInv, Registry!InvalidateAllTransmits
    PROVE  /\ Registry!Resident' = Registry!Resident
           /\ Registry!Transmitted' = {}
           /\ \A q \in Registry!Resident : pages'[q].payload = pages[q].payload
           /\ UNCHANGED <<pending_deletes, drained>>
<1>1. /\ Registry!Resident' = Registry!Resident
      /\ \A q \in Registry!Resident :
            pages'[q].payload = pages[q].payload /\ pages'[q].print = None
  BY DEF Registry!InvalidateAllTransmits, Registry!Resident, RegistryInv, Registry!TypeOK,
         Registry!PageEntry
<1>2. Registry!Transmitted' = {}
  BY <1>1 DEF Registry!Transmitted
<1> QED
  BY <1>1, <1>2 DEF Registry!InvalidateAllTransmits

(* An eviction takes pages out of the registry and queues their deletes.   *)
LEMMA EvictEffect ==
    ASSUME RegistryInv, NEW pinned, Registry!EvictToBudget(pinned)
    PROVE  \E V : /\ V \subseteq Registry!Resident \ pinned
                  /\ Registry!Resident' = Registry!Resident \ V
                  /\ Registry!Transmitted' = Registry!Transmitted \ V
                  /\ \A q \in Registry!Resident' : pages'[q] = pages[q]
                  /\ pending_deletes' = pending_deletes \cup V
                  /\ drained' = drained
<1> DEFINE V == Registry!Victims(pinned)
<1>1. V \subseteq Registry!Resident \ pinned
  BY DEF RegistryInv, Registry!LruMirrorsPages, Registry!Victims
<1>2. /\ Registry!Resident' = Registry!Resident \ V
      /\ \A q \in Registry!Resident' : pages'[q] = pages[q]
  BY DEF Registry!EvictToBudget, Registry!Resident
<1>3. Registry!Transmitted' = Registry!Transmitted \ V
  BY <1>2 DEF Registry!Transmitted
<1>4. pending_deletes' = pending_deletes \cup V /\ drained' = drained
  BY DEF Registry!EvictToBudget, Registry!QueueDeletes
<1> HIDE DEF V
<1> QED
  BY <1>1, <1>2, <1>3, <1>4

(* With the page map both sets of pages stay.                              *)
LEMMA SameRegistry ==
    ASSUME UNCHANGED pages
    PROVE  /\ Registry!Resident' = Registry!Resident
           /\ Registry!Transmitted' = Registry!Transmitted
BY DEF Registry!Resident, Registry!Transmitted

(* Nothing but the frame itself takes deletes or touches the plan.         *)
Outside ==
    \/ (DrawPopup \/ CheckTriggers \/ RenderPages) /\ UNCHANGED loopVars
    \/ AfterDraw \/ BatchDone \/ SettleTimeout \/ Input \/ Idle

(* There is no plan and there are no drained deletes outside the frame     *)
(* ...                                                                     *)
LEMMA OutsideFrame ==
    ASSUME Base, FrameInv, Outside
    PROVE  ~Planned /\ ~Planned' /\ drained = {} /\ drained' = {}
<1>1. ~Planned /\ pc' \notin {"build", "put_back", "mark", "flush"}
  BY DEF Outside, DrawPopup, CheckTriggers, RenderPages, AfterDraw, BatchDone, SettleTimeout,
         Input, Idle, IdleStart, WarmRender, WarmBuild, WarmWrite, WarmWriteFails,
         UpgradeVisible, WarmEnds, Planned
<1>2. ~Planned'
  BY <1>1 DEF Planned
<1>3. drained = {}
  BY <1>1 DEF FrameInv, FrameDeletes, Planned, Built
<1>4. drained' = drained
  <2>1. CASE \/ DrawPopup \/ RenderPages \/ AfterDraw \/ BatchDone \/ SettleTimeout
             \/ IdleStart \/ WarmRender \/ WarmWriteFails
    BY <2>1 DEF DrawPopup, RenderPages, AfterDraw, BatchDone, SettleTimeout, IdleStart,
                WarmRender, WarmWriteFails, registryVars
  <2>2. CASE CheckTriggers
    BY <2>2, InvalidateAllEffect DEF CheckTriggers, Base, registryVars
  <2>3. CASE Input
    BY <2>3, InvalidateAllEffect DEF Input, Scroll, ScrollTo, GotoPage, EditPages, ToggleDark,
       TogglePopup, Refresh, Base, registryVars
  <2>4. CASE WarmBuild \/ WarmWrite
    BY <2>4 DEF WarmBuild, WarmWrite, Registry!BuildTransmit, Registry!MarkTransmitted
  <2>5. CASE UpgradeVisible
    BY <2>5, InvalidateEffect DEF UpgradeVisible, Base, registryVars
  <2> QED
    BY <2>1, <2>2, <2>3, <2>4, <2>5 DEF Outside, Idle
<1> QED
  BY <1>1, <1>2, <1>3, <1>4

(* ... so those steps keep FrameInv.                                       *)
LEMMA FrameOutside ==
    ASSUME Base, FrameInv, Outside
    PROVE  FrameInv'
<1>1. ~Planned' /\ drained' = {}
  BY OutsideFrame
<1>2. pc' \notin {"build", "put_back", "mark", "flush"}
  BY <1>1 DEF Planned
<1>3. FramePlan' /\ FrameDeletes'
  BY <1>1, <1>2 DEF FramePlan, FrameDeletes, Planned, Sending
<1>4. pc' = "warm_write" => PayloadReady(warming)'
  <2> SUFFICES ASSUME pc' = "warm_write" PROVE PayloadReady(warming)'
    OBVIOUS
  <2>1. WarmBuild
    BY DEF Outside, DrawPopup, CheckTriggers, RenderPages, AfterDraw, BatchDone, SettleTimeout,
           Input, Idle, IdleStart, WarmRender, WarmWrite, WarmWriteFails, UpgradeVisible, WarmEnds
  <2>2. Registry!BuildTransmit(warming, PrintOf(warming)) /\ UNCHANGED <<contentVars, warming>>
    BY <2>1 DEF WarmBuild, loopVars, idleVars
  <2>3. warming \in Registry!Resident' /\ pages'[warming].payload = PrintOf(warming)
    BY <2>2, BuildEffect DEF Base
  <2> QED
    BY <2>2, <2>3 DEF PayloadReady, PrintOf, contentVars
<1>5. FramePayloads'
  BY <1>2, <1>4 DEF FramePayloads, Built, Sending
<1>6. FrameCells'
  <2> USE DEF FrameInv, FrameCells
  <2>1. CASE DrawPopup
    BY <2>1 DEF DrawPopup
  <2>2. CASE CheckTriggers \/ RenderPages \/ BatchDone \/ Input
    BY <2>2 DEF CheckTriggers, RenderPages, BatchDone, Input, terminalVars
  <2>3. CASE \/ AfterDraw \/ SettleTimeout \/ IdleStart
             \/ UpgradeVisible \/ WarmBuild
    BY <2>3 DEF AfterDraw, SettleTimeout, IdleStart, UpgradeVisible, WarmBuild, terminalVars,
                contentVars, loopVars, idleVars
  <2>4. CASE WarmRender
    <3>1. /\ UNCHANGED <<top_cell, scroll_y_px>>
          /\ pc = "warm"
          /\ pc' = "warm_build" => warming' = NextWarm
          /\ NextWarm \notin LayoutVisible(scroll_y_px)
          /\ pc' # "warm_write"
      BY <2>4, NextWarmIsAhead DEF WarmRender, WarmEnds, terminalVars, contentVars
    <3> QED
      BY <3>1
  <2>5. CASE WarmWrite \/ WarmWriteFails
    <3>1. UNCHANGED <<top_cell, scroll_y_px>> /\ pc' \in {"warm", "draw", "poll"}
          /\ pc = "warm_write"
      BY <2>5 DEF WarmWrite, WarmWriteFails, WarmEnds, contentVars
    <3> QED
      BY <3>1
  <2> QED
    BY <2>1, <2>2, <2>3, <2>4, <2>5 DEF Outside, Idle
<1> QED
  BY <1>3, <1>5, <1>6 DEF FrameInv

(* A frame blits cached pages of the window.                               *)
LEMMA BlitsAreVisible ==
    Blits \subseteq LayoutVisible(scroll_y_px) /\ Blits \subseteq Placeable(scroll_y_px)
    /\ Blits \subseteq Pages /\ Blits \subseteq Cached
BY VisibleArePages DEF Blits

(* With the content and the page cache, the frame's pages and prints       *)
(* stay.                                                                   *)
LEMMA SameFrame ==
    ASSUME UNCHANGED <<contentVars, page_cache>>
    PROVE  /\ Blits' = Blits /\ scroll_y_px' = scroll_y_px /\ Cached' = Cached
           /\ dark' = dark /\ revision' = revision
           /\ \A p : PrintOf(p)' = PrintOf(p)
BY DEF contentVars, Blits, Cached, PrintOf

(* A print is never None, what the registry has for no print.              *)
LEMMA PrintsAreNotNone == Base => \A p \in Pages : PrintOf(p) \in Prints /\ PrintOf(p) # None
BY NoneAssumption DEF Base, TypeInv, PrintOf, Prints

(* FrameInv, step by step: the plan is made,                               *)
LEMMA FramePlans ==
    ASSUME Base, FrameInv, PlanFrame
    PROVE  FrameInv'
<1>1. /\ UNCHANGED <<registryVars, contentVars, bitmapVars, terminalVars>>
      /\ pc = "plan" /\ pc' = "build" /\ send' = Needed \ Deferred /\ todo' = send'
  BY DEF PlanFrame
<1>2. /\ Blits' = Blits /\ scroll_y_px' = scroll_y_px
      /\ Registry!Transmitted' = Registry!Transmitted /\ drained' = drained
  BY <1>1, SameFrame, SameRegistry DEF bitmapVars, registryVars
<1>3. drained = {}
  BY <1>1 DEF FrameInv, FrameDeletes, Built
<1>4. Needed \subseteq Blits
  BY DEF Needed
<1>5. Blits \subseteq Registry!Transmitted \cup Needed
  <2> SUFFICES ASSUME NEW p \in Blits, p \notin Registry!Transmitted PROVE p \in Needed
    OBVIOUS
  <2>1. PrintOf(p) # None
    BY BlitsAreVisible, PrintsAreNotNone
  <2>2. ~Registry!IsFresh(p, PrintOf(p))
    BY <2>1 DEF Registry!IsFresh, Registry!Transmitted
  <2> QED
    BY <2>2 DEF Needed
<1>6. Deferred \subseteq Registry!Transmitted
  BY DEF Deferred, TransmitDeferrals, Registry!HasPriorTransmit
<1>7. FramePlan'
  BY <1>1, <1>2, <1>4, <1>5, <1>6 DEF FramePlan, Planned, Sending
<1>8. FramePayloads' /\ FrameDeletes'
  BY <1>1, <1>2, <1>3 DEF FramePayloads, FrameDeletes, Built, Sending
<1>9. FrameCells'
  BY <1>1 DEF FrameCells, FrameInv, terminalVars
<1> QED
  BY <1>7, <1>8, <1>9 DEF FrameInv

(* a payload is built,                                                     *)
LEMMA FrameBuilds ==
    ASSUME Base, FrameInv, BuildNext
    PROVE  FrameInv'
<1> DEFINE p == First(todo)
<1>1. /\ UNCHANGED <<contentVars, bitmapVars, terminalVars, pc, send>>
      /\ pc = "build" /\ todo' = todo \ {p} /\ todo # {}
      /\ Registry!BuildTransmit(p, PrintOf(p))
  BY DEF BuildNext
<1>2. /\ Blits' = Blits /\ scroll_y_px' = scroll_y_px /\ \A q : PrintOf(q)' = PrintOf(q)
  BY <1>1, SameFrame DEF bitmapVars
<1>3. p \in todo
  BY <1>1, FirstOfPages DEF Base, TypeInv
<1> HIDE DEF p
<1>4. /\ Registry!Resident' = Registry!Resident \cup {p}
      /\ Registry!Transmitted' = Registry!Transmitted
      /\ \A q \in Registry!Resident \ {p} : pages'[q] = pages[q]
      /\ pages'[p].payload = PrintOf(p)
      /\ drained' = drained
  BY <1>1, BuildEffect DEF Base
<1>5. drained = {}
  BY <1>1 DEF FrameInv, FrameDeletes, Built
<1>6. FramePlan'
  BY <1>1, <1>2, <1>3, <1>4 DEF FrameInv, FramePlan, Planned, Sending
<1>7. FramePayloads'
  <2>1. \A q \in send \ todo' : q \in send \ todo \/ q = p
    BY <1>1
  <2>2. \A q \in send \ todo' : q \in Registry!Resident' /\ pages'[q].payload = PrintOf(q)
    BY <1>1, <1>4, <2>1 DEF FrameInv, FramePayloads, PayloadReady
  <2>3. \A q \in send' \ todo' : PayloadReady(q)'
    BY <1>1, <1>2, <2>2 DEF PayloadReady
  <2> QED
    BY <1>1, <2>3 DEF FramePayloads, Built, Sending
<1>8. FrameDeletes'
  BY <1>4, <1>5, <1>1 DEF FrameDeletes, Sending
<1>9. FrameCells'
  BY <1>1 DEF FrameCells, FrameInv, terminalVars
<1> QED
  BY <1>6, <1>7, <1>8, <1>9 DEF FrameInv

(* the deletes are drained, and go back when nothing is sent,              *)
LEMMA FrameTakesDeletes ==
    ASSUME Base, FrameInv, BuildDone \/ PutBack
    PROVE  FrameInv'
<1>1. /\ UNCHANGED <<contentVars, bitmapVars, terminalVars, send, pages>>
      /\ pc \in {"build", "put_back"} /\ pc' \in {"put_back", "mark"}
      /\ BuildDone => pc = "build" /\ todo = {} /\ todo' = send
      /\ PutBack => pc = "put_back" /\ todo' = todo /\ pc' = "mark"
  BY DEF BuildDone, PutBack, frameVars, registryVars, Registry!TakePendingDeletes,
         Registry!PutBackPendingDeletes
<1>2. /\ Blits' = Blits /\ scroll_y_px' = scroll_y_px /\ \A q : PrintOf(q)' = PrintOf(q)
      /\ Registry!Transmitted' = Registry!Transmitted
      /\ Registry!Resident' = Registry!Resident
  BY <1>1, SameFrame, SameRegistry DEF bitmapVars
<1>3. send \ todo' = {} /\ todo' = send
  BY <1>1 DEF FrameInv, FramePlan, Planned
<1>4. BuildDone => (drained' = {} \/ drained' = pending_deletes)
                   /\ (pc' = "put_back" => send = {})
                   /\ (pc' = "mark" /\ send = {} => drained' = {})
  <2> SUFFICES ASSUME BuildDone
               PROVE  /\ drained' = {} \/ drained' = pending_deletes
                      /\ pc' = "put_back" => send = {}
                      /\ pc' = "mark" /\ send = {} => drained' = {}
    OBVIOUS
  <2>1. drained = {}
    BY DEF BuildDone, FrameInv, FrameDeletes, Built
  <2> QED
    BY <2>1 DEF BuildDone, registryVars, Registry!TakePendingDeletes
<1>5. PutBack => drained' = {}
  BY DEF PutBack, Registry!PutBackPendingDeletes
<1>6. pending_deletes \cap Registry!Transmitted = {}
  BY DEF Base, RegistryInv, Registry!NoLiveDeleteQueued
<1>7. FramePlan'
  <2>1. Blits \subseteq Registry!Transmitted \cup send
    BY <1>1 DEF FrameInv, FramePlan
  <2>2. send \subseteq Blits
    BY <1>1 DEF FrameInv, FramePlan, Planned
  <2> QED
    BY <1>1, <1>2, <1>3, <1>4, <2>1, <2>2 DEF FramePlan, Planned, Sending
<1>8. FramePayloads'
  <2>1. \A q \in send : PayloadReady(q)
    BY <1>1 DEF FrameInv, FramePayloads, Built
  <2>2. \A q \in send' : PayloadReady(q)'
    BY <1>1, <1>2, <2>1 DEF PayloadReady
  <2> QED
    BY <1>1, <1>3, <2>2 DEF FramePayloads, Built, Sending, Marked
<1>9. FrameDeletes'
  BY <1>1, <1>2, <1>4, <1>5, <1>6 DEF FrameDeletes, Built, Sending
<1>10. FrameCells'
  BY <1>1 DEF FrameCells, FrameInv, terminalVars
<1> QED
  BY <1>7, <1>8, <1>9, <1>10 DEF FrameInv

(* a page is marked,                                                       *)
LEMMA FrameMarks ==
    ASSUME Base, FrameInv, MarkNext
    PROVE  FrameInv' /\ First(todo) \in todo /\ Marked' = Marked \cup {First(todo)}
<1> DEFINE p == First(todo)
<1>1. /\ UNCHANGED <<contentVars, bitmapVars, terminalVars, pc, send>>
      /\ pc = "mark" /\ todo' = todo \ {p} /\ todo # {}
      /\ Registry!MarkTransmitted(p, PrintOf(p))
  BY DEF MarkNext
<1>2. /\ Blits' = Blits /\ scroll_y_px' = scroll_y_px /\ \A q : PrintOf(q)' = PrintOf(q)
  BY <1>1, SameFrame DEF bitmapVars
<1>3. p \in todo
  BY <1>1, FirstOfPages DEF Base, TypeInv
<1> HIDE DEF p
<1>4. p \in send /\ todo \subseteq send /\ send \subseteq Blits
  BY <1>1, <1>3 DEF FrameInv, FramePlan, Planned
<1>5. PrintOf(p) # None
  BY <1>4, BlitsAreVisible, PrintsAreNotNone
<1>6. p \in Registry!Resident /\ pages[p].payload = PrintOf(p)
  BY <1>1, <1>4 DEF FrameInv, FramePayloads, Built, PayloadReady
<1>7. /\ Registry!Resident' = Registry!Resident
      /\ Registry!Transmitted' = Registry!Transmitted \cup {p}
      /\ \A q \in Registry!Resident \ {p} : pages'[q] = pages[q]
      /\ pages'[p].print = PrintOf(p) /\ pages'[p].payload = pages[p].payload
      /\ drained' = drained
  BY <1>1, <1>5, <1>6, MarkEffect
<1>8. Marked' = Marked \cup {p}
  BY <1>1, <1>3, <1>4 DEF Marked, Sending
<1>9. FramePlan'
  BY <1>1, <1>2, <1>4, <1>7 DEF FrameInv, FramePlan, Planned, Sending
<1>10. FramePayloads'
  <2>1. \A q \in send : q \in Registry!Resident' /\ pages'[q].payload = PrintOf(q)
    BY <1>1, <1>6, <1>7 DEF FrameInv, FramePayloads, Built, PayloadReady
  <2>2. \A q \in Marked \cup {p} : q \in Registry!Transmitted' /\ pages'[q].print = PrintOf(q)
    BY <1>1, <1>7 DEF FrameInv, FramePayloads, Sending, Registry!Transmitted
  <2>3. \A q \in send' : PayloadReady(q)'
    BY <1>1, <1>2, <2>1 DEF PayloadReady
  <2>4. \A q \in Marked' : q \in Registry!Transmitted' /\ pages'[q].print = PrintOf(q)'
    BY <1>2, <1>8, <2>2
  <2> QED
    BY <1>1, <2>3, <2>4 DEF FramePayloads, Built
<1>11. FrameDeletes'
  BY <1>1, <1>4, <1>7, <1>8 DEF FrameInv, FrameDeletes, Built, Sending
<1>12. FrameCells'
  BY <1>1 DEF FrameCells, FrameInv, terminalVars
<1> QED
  BY <1>3, <1>8, <1>9, <1>10, <1>11, <1>12 DEF FrameInv, p

(* the registry is brought to its budgets,                                 *)
LEMMA FrameEvicts ==
    ASSUME Base, FrameInv, EvictRegistry
    PROVE  FrameInv'
<1>1. /\ UNCHANGED <<contentVars, bitmapVars, terminalVars, frameVars>>
      /\ pc = "mark" /\ pc' = "flush" /\ todo = {}
      /\ Registry!EvictToBudget(LayoutVisible(scroll_y_px))
  BY DEF EvictRegistry
<1>2. /\ Blits' = Blits /\ scroll_y_px' = scroll_y_px /\ \A q : PrintOf(q)' = PrintOf(q)
      /\ send' = send /\ todo' = todo
  BY <1>1, SameFrame DEF bitmapVars, frameVars
<1>3. PICK V : /\ V \subseteq Registry!Resident \ LayoutVisible(scroll_y_px)
               /\ Registry!Resident' = Registry!Resident \ V
               /\ Registry!Transmitted' = Registry!Transmitted \ V
               /\ \A q \in Registry!Resident' : pages'[q] = pages[q]
               /\ drained' = drained
  BY <1>1, EvictEffect, Zenon DEF Base
<1>4. Blits \cap V = {} /\ send \subseteq Blits
  BY <1>1, <1>3, BlitsAreVisible DEF FrameInv, FramePlan, Planned
<1>5. Marked = send /\ Marked' = send
  BY <1>1, <1>2 DEF Marked, Sending
<1>6. FramePlan'
  BY <1>1, <1>2, <1>3, <1>4 DEF FrameInv, FramePlan, Planned, Sending
<1>7. FramePayloads'
  <2>1. \A q \in send : /\ q \in Registry!Resident /\ pages[q].payload = PrintOf(q)
                        /\ q \in Registry!Transmitted /\ pages[q].print = PrintOf(q)
    BY <1>1, <1>5 DEF FrameInv, FramePayloads, Built, PayloadReady, Sending
  <2>2. \A q \in send : /\ q \in Registry!Resident' /\ pages'[q].payload = PrintOf(q)
                        /\ q \in Registry!Transmitted' /\ pages'[q].print = PrintOf(q)
    BY <1>3, <1>4, <2>1
  <2> QED
    BY <1>1, <1>2, <1>5, <2>2 DEF FramePayloads, Built, PayloadReady
<1>8. FrameDeletes'
  BY <1>1, <1>2, <1>3, <1>5 DEF FrameInv, FrameDeletes, Built, Sending
<1>9. FrameCells'
  BY <1>1 DEF FrameCells, FrameInv, terminalVars
<1> QED
  BY <1>6, <1>7, <1>8, <1>9 DEF FrameInv

(* and the bytes go out.                                                   *)
LEMMA FrameFlushes ==
    ASSUME Base, FrameInv, FlushFrame
    PROVE  FrameInv'
<1>1. /\ UNCHANGED contentVars /\ pc' = "drawn" /\ top_cell' = TopCell /\ drained' = {}
  BY DEF FlushFrame, Registry!ShipDeletes
<1>2. FramePlan' /\ FramePayloads' /\ FrameDeletes'
  BY <1>1 DEF FramePlan, FramePayloads, FrameDeletes, Planned, Built, Sending
<1>3. TopCell # None => TopCell.at = scroll_y_px /\ TopCell.page \in Placeable(scroll_y_px)
  <2>1. Blits # {} => First(Blits) \in Blits
    BY FirstOfPages, BlitsAreVisible
  <2> QED
    BY <2>1, BlitsAreVisible DEF TopCell
<1>4. FrameCells'
  BY <1>1, <1>3 DEF FrameCells, contentVars
<1> QED
  BY <1>2, <1>4 DEF FrameInv

(* Where a frame stands is as FrameInv says, after every step.             *)
LEMMA FrameStep == Base /\ FrameInv /\ [Next]_vars => FrameInv'
<1> SUFFICES ASSUME Base, FrameInv, [Next]_vars PROVE FrameInv'
  OBVIOUS
<1>1. CASE Outside
  BY <1>1, FrameOutside
<1>2. CASE \/ PlanFrame \/ BuildNext \/ BuildDone \/ PutBack \/ MarkNext \/ EvictRegistry
           \/ FlushFrame
  BY <1>2, FramePlans, FrameBuilds, FrameTakesDeletes, FrameMarks, FrameEvicts, FrameFlushes
<1>3. CASE TerminalEvicts \/ UNCHANGED vars
  <2>1. UNCHANGED <<pages, drained, contentVars, page_cache, pc, send, todo, top_cell, warming>>
    BY <1>3 DEF TerminalEvicts, vars, drawVars, registryVars, bitmapVars, frameVars,
                terminalVars, loopVars, idleVars
  <2>2. /\ Blits' = Blits /\ scroll_y_px' = scroll_y_px /\ \A q : PrintOf(q)' = PrintOf(q)
        /\ Registry!Transmitted' = Registry!Transmitted
        /\ Registry!Resident' = Registry!Resident
    BY <2>1, SameFrame, SameRegistry
  <2>3. FramePlan'
    BY <2>1, <2>2 DEF FrameInv, FramePlan, Planned, Sending
  <2>4. \A p : PayloadReady(p)' <=> PayloadReady(p)
    BY <2>1, <2>2 DEF PayloadReady
  <2>5. FramePayloads'
    BY <2>1, <2>2, <2>4 DEF FrameInv, FramePayloads, Built, Sending, Marked, PayloadReady
  <2>6. FrameDeletes' /\ FrameCells'
    BY <2>1, <2>2 DEF FrameInv, FrameDeletes, FrameCells, Built, Sending, Marked
  <2> QED
    BY <2>3, <2>5, <2>6 DEF FrameInv
<1> QED
  BY <1>1, <1>2, <1>3 DEF Outside, Next, System, DrawStep, Draw

-----------------------------------------------------------------------------
(* The steps that send the terminal nothing it stores: of the pages        *)
(* believed to be transmitted some may be given up, the rest stay as they  *)
(* are.                                                                    *)
SilentDraw ==
    /\ \/ DrawPopup \/ CheckTriggers \/ RenderPages \/ PlanFrame \/ BuildNext \/ BuildDone
       \/ PutBack \/ EvictRegistry
    /\ UNCHANGED loopVars

Silent ==
    \/ SilentDraw
    \/ AfterDraw \/ BatchDone \/ SettleTimeout \/ Input \/ IdleStart \/ WarmRender
    \/ WarmBuild \/ UpgradeVisible \/ UNCHANGED vars

(* Silent steps at most give up transmitted pages.                         *)
LEMMA SilentRegistry ==
    ASSUME Base, Silent
    PROVE  /\ Registry!Transmitted' \subseteq Registry!Transmitted
           /\ \A q \in Registry!Transmitted' : pages'[q].print = pages[q].print
<1>1. CASE \/ DrawPopup \/ RenderPages \/ PlanFrame \/ BuildDone \/ PutBack \/ AfterDraw
           \/ BatchDone \/ SettleTimeout \/ IdleStart \/ WarmRender \/ UNCHANGED vars
  <2>1. UNCHANGED pages
    BY <1>1 DEF DrawPopup, RenderPages, PlanFrame, BuildDone, PutBack, AfterDraw, BatchDone,
       SettleTimeout, IdleStart, WarmRender, vars, drawVars, registryVars,
       Registry!TakePendingDeletes, Registry!PutBackPendingDeletes
  <2> QED
    BY <2>1, SameRegistry
<1>2. CASE CheckTriggers
  BY <1>2, InvalidateAllEffect, SameRegistry DEF CheckTriggers, Base, registryVars
<1>3. CASE Input
  BY <1>3, InvalidateAllEffect, SameRegistry
  DEF Input, Scroll, ScrollTo, GotoPage, EditPages, ToggleDark, TogglePopup, Refresh, Base,
      registryVars
<1>4. CASE BuildNext \/ WarmBuild
  <2>1. PICK p : Registry!BuildTransmit(p, PrintOf(p))
    BY <1>4 DEF BuildNext, WarmBuild
  <2> QED
    BY <2>1, BuildEffect DEF Base, Registry!Transmitted
<1>5. CASE EvictRegistry
  <2>1. PICK V : /\ Registry!Transmitted' = Registry!Transmitted \ V
                 /\ \A q \in Registry!Resident' : pages'[q] = pages[q]
    BY <1>5, EvictEffect, Zenon DEF EvictRegistry, Base
  <2> QED
    BY <2>1 DEF Registry!Transmitted
<1>6. CASE UpgradeVisible
  BY <1>6, InvalidateEffect, SameRegistry DEF UpgradeVisible, Base, registryVars,
     Registry!Transmitted
<1> QED
  BY <1>1, <1>2, <1>3, <1>4, <1>5, <1>6 DEF Silent, SilentDraw

(* They mark no page,                                                      *)
LEMMA SilentMarks ==
    ASSUME Base, FrameInv, Silent
    PROVE  Marked' = Marked
<1>1. CASE EvictRegistry \/ UNCHANGED vars
  BY <1>1 DEF EvictRegistry, vars, drawVars, frameVars, Marked, Sending
<1>2. CASE ~ (EvictRegistry \/ UNCHANGED vars)
  <2>1. ~Sending
    BY <1>2 DEF Silent, SilentDraw, DrawPopup, CheckTriggers, RenderPages, PlanFrame,
       BuildNext, BuildDone, PutBack, AfterDraw, BatchDone, SettleTimeout, Input, IdleStart,
       WarmRender, WarmBuild,
       UpgradeVisible, Sending
  <2>2. Marked = {}
    BY <2>1 DEF Marked
  <2>3. CASE BuildDone
    BY <2>2, <2>3 DEF BuildDone, Marked
  <2>4. CASE PutBack
    BY <2>2, <2>4 DEF PutBack, Marked, frameVars, FrameInv, FramePlan, Planned
  <2>5. CASE ~ (BuildDone \/ PutBack)
    <3>1. pc' \notin {"mark", "flush"}
      BY <1>2, <2>5 DEF Silent, SilentDraw, DrawPopup, CheckTriggers, RenderPages,
         PlanFrame, BuildNext,
         AfterDraw, BatchDone, SettleTimeout, Input, IdleStart, WarmRender, WarmBuild,
         UpgradeVisible, WarmEnds
    <3> QED
      BY <2>2, <3>1 DEF Marked, Sending
  <2> QED
    BY <2>3, <2>4, <2>5
<1> QED
  BY <1>1, <1>2

(* and they leave the screen alone or clear it.                            *)
LEMMA SilentScreen ==
    ASSUME Silent
    PROVE  /\ UNCHANGED <<held, faults, lost_writes>>
           /\ \/ UNCHANGED <<screen, top_cell>>
              \/ screen' = {} /\ top_cell' = None
<1>1. CASE SilentDraw
  <2>1. UNCHANGED <<held, faults, lost_writes>>
    BY <1>1 DEF SilentDraw, loopVars, boundVars, DrawPopup, CheckTriggers, RenderPages,
       PlanFrame, BuildNext, BuildDone, PutBack, EvictRegistry, terminalVars
  <2>2. UNCHANGED <<screen, top_cell>> \/ (screen' = {} /\ top_cell' = None)
    BY <1>1 DEF SilentDraw, DrawPopup, CheckTriggers, RenderPages,
       PlanFrame, BuildNext, BuildDone, PutBack, EvictRegistry, terminalVars
  <2> QED
    BY <2>1, <2>2
<1>2. CASE ~SilentDraw
  BY <1>2 DEF Silent, AfterDraw, BatchDone, SettleTimeout, Input, IdleStart, WarmRender,
     WarmBuild, UpgradeVisible, vars, drawVars, loopVars, boundVars, terminalVars
<1> QED
  BY <1>1, <1>2

-----------------------------------------------------------------------------
(* The belief of the registry about the terminal.                          *)
Calm == faults = 0 /\ lost_writes = 0

Believed(p) == held[p] # None /\ held[p].print = pages[p].print

BeliefInv ==
    Calm =>
      /\ \A p \in Registry!Transmitted \ Marked : Believed(p)
      /\ top_cell # None /\ top_cell.image # None => held[top_cell.page] = top_cell.image
      /\ ScreenHeld

(* BeliefInv, step by step: silent steps keep it,                          *)
LEMMA BeliefSilent ==
    ASSUME Base, FrameInv, BeliefInv, Silent
    PROVE  BeliefInv'
<1> SUFFICES ASSUME Calm'
             PROVE  /\ \A p \in (Registry!Transmitted \ Marked)' : Believed(p)'
                    /\ top_cell' # None /\ top_cell'.image # None =>
                          held'[top_cell'.page] = top_cell'.image
                    /\ ScreenHeld'
  BY DEF BeliefInv
<1>1. /\ held' = held /\ Calm
      /\ UNCHANGED <<screen, top_cell>> \/ (screen' = {} /\ top_cell' = None)
  BY SilentScreen DEF Calm
<1>2. /\ Registry!Transmitted' \subseteq Registry!Transmitted
      /\ \A q \in Registry!Transmitted' : pages'[q].print = pages[q].print
      /\ Marked' = Marked
  BY SilentRegistry, SilentMarks
<1>3. \A p \in (Registry!Transmitted \ Marked)' : Believed(p)'
  BY <1>1, <1>2 DEF BeliefInv, Believed
<1> QED
  BY <1>1, <1>3 DEF BeliefInv, ScreenHeld

(* a mark moves a page to those whose bytes are owed,                      *)
LEMMA BeliefMarks ==
    ASSUME Base, FrameInv, BeliefInv, MarkNext, UNCHANGED loopVars
    PROVE  BeliefInv'
<1> DEFINE p == First(todo)
<1>1. /\ UNCHANGED <<held, screen, top_cell, faults, lost_writes>>
      /\ Registry!MarkTransmitted(p, PrintOf(p)) /\ p \in Pages
  BY FrameMarks DEF MarkNext, terminalVars, loopVars, boundVars, Base, TypeInv
<1>2. Marked' = Marked \cup {p}
  BY FrameMarks
<1> HIDE DEF p
<1>3. /\ Registry!Transmitted' = Registry!Transmitted \cup {p}
      /\ \A q \in Registry!Resident \ {p} : pages'[q] = pages[q]
  BY <1>1, MarkEffect, PrintsAreNotNone
<1>4. \A q \in Registry!Transmitted' \ Marked' :
         q \in Registry!Transmitted \ Marked /\ pages'[q] = pages[q]
  BY <1>2, <1>3 DEF Registry!Transmitted
<1> QED
  BY <1>1, <1>4 DEF BeliefInv, Believed, ScreenHeld, Calm

(* The flush is where marks and bytes meet.  If the diff drops the cell    *)
(* the deletes ride in, the frame sends nothing else in front of them.     *)
LEMMA FlushUnwritten ==
    ASSUME Base, FrameInv, FlushFrame, NEW p \in send, p \in Unwritten
    PROVE  /\ p = First(Blits) /\ p = First(send) /\ DeletesWritten = {}
           /\ top_cell = TopCell /\ TopCell # None
           /\ TopCell.page = p /\ TopCell.image = Image(p) /\ TopCell.deletes = drained
<1>1. send \subseteq Blits /\ send # {}
  BY DEF FlushFrame, FrameInv, FramePlan, Planned
<1>2. p = First(Blits) /\ top_cell = TopCell /\ Blits # {}
  BY DEF Unwritten
<1>3. Blits \subseteq Nat
  BY BlitsAreVisible, DocumentAssumption DEF Pages
<1>4. \A q \in Blits : p <= q
  BY <1>2, FirstOfPages, BlitsAreVisible
<1>5. First(send) \in send /\ \A q \in send : First(send) <= q
  <2>1. send \subseteq Pages
    BY <1>1, BlitsAreVisible
  <2> QED
    BY <1>1, <2>1, FirstOfPages
<1>6. p = First(send)
  <2>1. First(send) \in Nat /\ p \in Nat /\ First(send) <= p /\ p <= First(send)
    BY <1>1, <1>3, <1>4, <1>5
  <2> QED
    BY <2>1
<1>7. DeletesWritten = {}
  BY <1>6 DEF DeletesWritten
<1>8. TopCell = [page |-> p, at |-> scroll_y_px, image |-> Image(p), deletes |-> drained]
  BY <1>2 DEF TopCell
<1>9. TopCell # None
  <2>1. Image(p) \in Images
    BY <1>1, BlitsAreVisible DEF Base, TypeInv, Image, Images, Prints, PrintOf
  <2>2. drained \in SUBSET Pages /\ scroll_y_px \in Int /\ p \in Pages
    BY <1>1, BlitsAreVisible DEF Base, TypeInv, RegistryInv, Registry!TypeOK
  <2> QED
    BY <1>8, <2>1, <2>2, NoneAssumption DEF Cells
<1> QED
  BY <1>2, <1>6, <1>7, <1>8, <1>9

(* After a flush the terminal holds what was sent, and what it held of     *)
(* the rest.                                                               *)
LEMMA FlushHolds ==
    ASSUME Base, FrameInv, BeliefInv, Calm, FlushFrame
    PROVE  /\ \A p \in send : held'[p] = Image(p)
           /\ \A p \in Registry!Transmitted \ send : held'[p] = held[p]
<1>1. /\ send \subseteq Blits /\ todo = {} /\ Marked = send
      /\ drained \cap Registry!Transmitted \subseteq send
  BY DEF FlushFrame, FrameInv, FramePlan, FrameDeletes, Planned, Marked, Sending
<1>2. \A p \in Pages :
         held'[p] = IF p \in send \ Unwritten THEN Image(p)
                    ELSE IF p \in DeletesWritten THEN None ELSE held[p]
  BY DEF FlushFrame
<1>3. send \subseteq Pages /\ Registry!Transmitted \subseteq Pages
  BY <1>1, BlitsAreVisible DEF Base, RegistryInv, Registry!TypeOK, Registry!Transmitted
<1>4. ASSUME NEW p \in send, p \in Unwritten PROVE held'[p] = Image(p)
  <2>1. /\ DeletesWritten = {} /\ top_cell = TopCell /\ TopCell # None
        /\ TopCell.page = p /\ TopCell.image = Image(p)
    BY <1>4, FlushUnwritten
  <2>2. Image(p) # None
    <3>1. Image(p) \in Images
      BY <1>3 DEF Base, TypeInv, Image, Images, Prints, PrintOf
    <3> QED
      BY <3>1, NoneAssumption
  <2>3. held[p] = Image(p)
    BY <2>1, <2>2 DEF BeliefInv
  <2> QED
    BY <1>2, <1>3, <1>4, <2>1, <2>3
<1>5. \A p \in send : held'[p] = Image(p)
  BY <1>2, <1>3, <1>4
<1>6. DeletesWritten \subseteq drained
  BY DEF DeletesWritten
<1> QED
  BY <1>1, <1>2, <1>3, <1>5, <1>6

(* An image is one of Images, never None.                                  *)
LEMMA ImageIsHeld == Base => \A p \in Pages : Image(p) \in Images /\ Image(p) # None
BY NoneAssumption DEF Base, TypeInv, Image, Images, Prints, PrintOf

(* a flush pays what was owed,                                             *)
LEMMA BeliefFlushes ==
    ASSUME Base, FrameInv, BeliefInv, FlushFrame, UNCHANGED loopVars
    PROVE  BeliefInv'
<1> SUFFICES ASSUME Calm
             PROVE  /\ \A p \in (Registry!Transmitted \ Marked)' : Believed(p)'
                    /\ top_cell' # None /\ top_cell'.image # None =>
                          held'[top_cell'.page] = top_cell'.image
                    /\ ScreenHeld'
  BY DEF BeliefInv, Calm, loopVars, boundVars
<1>1. /\ send \subseteq Blits /\ todo = {} /\ Marked = send
      /\ Blits \subseteq Registry!Transmitted
      /\ \A p \in send : p \in Registry!Transmitted /\ pages[p].print = PrintOf(p)
  BY DEF FlushFrame, FrameInv, FramePlan, FramePayloads, Planned, Marked, Sending
<1>2. /\ \A p \in send : held'[p] = Image(p)
      /\ \A p \in Registry!Transmitted \ send : held'[p] = held[p]
  BY FlushHolds
<1>3. /\ UNCHANGED pages /\ screen' = Blits /\ top_cell' = TopCell /\ pc' = "drawn"
  BY DEF FlushFrame, Registry!ShipDeletes
<1>4. Registry!Transmitted' = Registry!Transmitted /\ Marked' = {}
  BY <1>3, SameRegistry DEF Marked, Sending
<1>5. \A p \in Registry!Transmitted : held'[p] # None /\ held'[p].print = pages[p].print
  <2>1. ASSUME NEW p \in send PROVE held'[p] # None /\ held'[p].print = pages[p].print
    <3>1. held'[p] = Image(p) /\ Image(p) # None
      BY <1>1, <1>2, BlitsAreVisible, ImageIsHeld
    <3>2. Image(p).print = PrintOf(p) /\ pages[p].print = PrintOf(p)
      BY <1>1 DEF Image
    <3> QED
      BY <3>1, <3>2
  <2>2. ASSUME NEW p \in Registry!Transmitted \ send
        PROVE  held'[p] # None /\ held'[p].print = pages[p].print
    <3>1. held[p] # None /\ held[p].print = pages[p].print
      BY <1>1, <2>2 DEF BeliefInv, Believed
    <3>2. held'[p] = held[p]
      BY <1>2, <2>2
    <3> QED
      BY <3>1, <3>2
  <2> QED
    BY <2>1, <2>2
<1>6. \A p \in (Registry!Transmitted \ Marked)' : Believed(p)'
  BY <1>3, <1>4, <1>5 DEF Believed
<1>7. TopCell # None /\ TopCell.image # None => held'[TopCell.page] = TopCell.image
  <2>1. CASE Blits = {}
    BY <2>1 DEF TopCell
  <2>2. CASE Blits # {}
    BY <1>2, <2>2 DEF TopCell
  <2> QED
    BY <2>1, <2>2
<1>8. ScreenHeld'
  BY <1>1, <1>3, <1>5 DEF ScreenHeld
<1> QED
  BY <1>3, <1>6, <1>7, <1>8

(* an idle warm writes first and marks then.                               *)
LEMMA BeliefWarms ==
    ASSUME Base, FrameInv, BeliefInv, WarmWrite
    PROVE  BeliefInv'
<1> SUFFICES ASSUME Calm
             PROVE  /\ \A p \in (Registry!Transmitted \ Marked)' : Believed(p)'
                    /\ top_cell' # None /\ top_cell'.image # None =>
                          held'[top_cell'.page] = top_cell'.image
                    /\ ScreenHeld'
  BY DEF BeliefInv, Calm, WarmWrite, boundVars
<1> DEFINE p == warming
<1>1. /\ p \in Pages /\ p \notin LayoutVisible(scroll_y_px)
      /\ top_cell # None => top_cell.page \in LayoutVisible(scroll_y_px)
      /\ PrintOf(p) # None /\ Image(p) # None
  BY VisibleArePages, PrintsAreNotNone, ImageIsHeld
  DEF WarmWrite, FrameInv, FrameCells, Base, TypeInv
<1>2. /\ held' = [held EXCEPT ![p] = Image(p)]
      /\ UNCHANGED <<screen, top_cell>> /\ pc = "warm_write"
      /\ pc' \in {"warm", "draw", "poll"}
      /\ Registry!MarkTransmitted(p, PrintOf(p))
  BY DEF WarmWrite, WarmEnds
<1>3. Marked = {} /\ Marked' = {}
  BY <1>2 DEF Marked, Sending
<1> HIDE DEF p
<1>4. /\ Registry!Transmitted' = Registry!Transmitted \cup {p}
      /\ \A q \in Registry!Resident \ {p} : pages'[q] = pages[q]
      /\ pages'[p].print = PrintOf(p)
  BY <1>1, <1>2, MarkEffect
<1>5. /\ held'[p] = Image(p)
      /\ \A q \in Pages \ {p} : held'[q] = held[q]
  BY <1>1, <1>2 DEF Base, TypeInv
<1>6. ASSUME NEW q \in Registry!Transmitted'
      PROVE  held'[q] # None /\ held'[q].print = pages'[q].print
  <2>1. CASE q = p
    BY <1>1, <1>4, <1>5, <2>1 DEF Image
  <2>2. CASE q # p
    BY <1>3, <1>4, <1>5, <2>2
    DEF BeliefInv, Believed, Base, RegistryInv, Registry!TypeOK, Registry!Transmitted
  <2> QED
    BY <2>1, <2>2
<1>7. \A q \in (Registry!Transmitted \ Marked)' : Believed(q)'
  BY <1>6 DEF Believed
<1>8. top_cell' # None /\ top_cell'.image # None => held'[top_cell'.page] = top_cell'.image
  BY <1>1, <1>2, <1>5, VisibleArePages DEF BeliefInv
<1>9. ScreenHeld'
  BY <1>1, <1>2, <1>5 DEF BeliefInv, ScreenHeld, Base, TypeInv
<1> QED
  BY <1>7, <1>8, <1>9

(* BeliefInv holds after every step.                                       *)
LEMMA BeliefStep == Base /\ FrameInv /\ BeliefInv /\ [Next]_vars => BeliefInv'
<1> SUFFICES ASSUME Base, FrameInv, BeliefInv, [Next]_vars PROVE BeliefInv'
  OBVIOUS
<1>1. CASE Silent
  BY <1>1, BeliefSilent
<1>2. CASE (MarkNext \/ FlushFrame) /\ UNCHANGED loopVars
  BY <1>2, BeliefMarks, BeliefFlushes
<1>3. CASE WarmWrite
  BY <1>3, BeliefWarms
<1>4. CASE WarmWriteFails \/ TerminalEvicts
  <2>1. lost_writes' = lost_writes + 1 \/ faults' = faults + 1
    BY <1>4 DEF WarmWriteFails, TerminalEvicts
  <2>2. ~Calm'
    BY <2>1 DEF Calm, Base, TypeInv
  <2> QED
    BY <2>2 DEF BeliefInv
<1> QED
  BY <1>1, <1>2, <1>3, <1>4 DEF Silent, SilentDraw, Next, System, DrawStep, Draw, Idle

(* At first the terminal holds nothing and nothing is believed.            *)
LEMMA TerminalInit == Init => FrameInv /\ BeliefInv
<1> SUFFICES ASSUME Init PROVE FrameInv /\ BeliefInv
  OBVIOUS
<1>1. /\ pc = "draw" /\ drained = {} /\ top_cell = None /\ screen = {}
      /\ pages = << >>
  BY DEF Init, Registry!Init
<1>2. Registry!Transmitted = {}
  BY <1>1 DEF Registry!Transmitted, Registry!Resident
<1> QED
  BY <1>1, <1>2 DEF FrameInv, FramePlan, FramePayloads, FrameDeletes, FrameCells, Planned, Built,
     Sending, BeliefInv, ScreenHeld

(* Between frames, and as long as no write of an idle warm fails and the   *)
(* terminal drops nothing by itself, the images the registry believes to   *)
(* be transmitted are the ones the terminal holds: though the diff may     *)
(* drop the cell of the topmost page, with the transmit and the deletes    *)
(* that ride in it.                                                        *)
THEOREM BeliefHolds == Spec => [](Calm => BeliefIsTrue)
<1>1. BeliefInv => (Calm => BeliefIsTrue)
  BY DEF BeliefInv, BeliefIsTrue, Believed, Marked
<1> QED
  BY <1>1, BaseInit, BaseStep, TerminalInit, FrameStep, BeliefStep, PTL DEF Spec

(* ... and every page on screen has an image behind it.                    *)
THEOREM ScreenStaysHeld == Spec => [](Calm => ScreenHeld)
<1>1. BeliefInv => (Calm => ScreenHeld)
  BY DEF BeliefInv
<1> QED
  BY <1>1, BaseInit, BaseStep, TerminalInit, FrameStep, BeliefStep, PTL DEF Spec

-----------------------------------------------------------------------------
(* The deletes.  As long as no idle write has failed, the deletes of the   *)
(* last frame's top cell are queued no more, so a top cell with deletes is *)
(* always written; and only a page this frame has built, or an idle warm   *)
(* is about to send, is resident with its delete still queued.             *)
Rebuilt ==
    IF pc = "build" THEN send \ todo ELSE IF pc = "warm_write" THEN {warming} ELSE {}

DeletesInv ==
    lost_writes = 0 =>
      /\ TopDeletes \cap drained = {}
      /\ pc # "flush" => TopDeletes \cap pending_deletes = {}
      /\ drained \cap pending_deletes = {}
      /\ pending_deletes \cap Registry!Resident \subseteq Rebuilt
      /\ drained \cap Registry!Resident \subseteq send

(* The failed write of a page the terminal has received all the same       *)
(* leaves an image the registry has not marked; its delete is then not     *)
(* one of those the top cell holds.                                        *)
LateDeletesInv ==
    lost_writes <= 1 =>
      /\ \A p \in TopDeletes : held[p] # None =>
            p \notin drained /\ (pc # "flush" => p \notin pending_deletes)
      /\ NoOrphanImages

(* Outside the frame the queue stays as it is, up to what a warm drops.    *)
LEMMA OutsideQueue ==
    ASSUME Base, FrameInv, Outside
    PROVE  /\ pc # "flush" /\ pc' # "flush" /\ pc' # "build" /\ pc # "build"
           /\ pending_deletes' \subseteq pending_deletes
           /\ TopDeletes' = TopDeletes \/ TopDeletes' = {}
           /\ Registry!Resident \subseteq Registry!Resident'
           /\ Registry!Resident' \subseteq Registry!Resident \cup Rebuilt'
           /\ pending_deletes \ pending_deletes' \subseteq Registry!Resident
           /\ lost_writes' = 0 => pending_deletes' \cap Rebuilt \subseteq Rebuilt'
<1>1. ~Planned /\ ~Planned'
  BY OutsideFrame
<1>2. pc # "flush" /\ pc' # "flush" /\ pc' # "build" /\ pc # "build"
  BY <1>1 DEF Planned
<1>3. TopDeletes' = TopDeletes \/ TopDeletes' = {}
  BY DEF Outside, DrawPopup, CheckTriggers, RenderPages, AfterDraw, BatchDone, SettleTimeout,
         Input, Idle, IdleStart, WarmRender, WarmBuild, WarmWrite, WarmWriteFails,
         UpgradeVisible, terminalVars, TopDeletes
<1>4. CASE WarmWrite
  <2>1. /\ Registry!MarkTransmitted(warming, PrintOf(warming)) /\ PrintOf(warming) # None
        /\ pc = "warm_write" /\ warming \in Registry!Resident
    BY <1>4, PrintsAreNotNone
    DEF WarmWrite, Base, TypeInv, FrameInv, FramePayloads, PayloadReady
  <2>2. /\ Registry!Resident' = Registry!Resident
        /\ pending_deletes' = pending_deletes \ {warming}
    BY <2>1, MarkEffect
  <2> QED
    BY <1>2, <1>3, <2>1, <2>2 DEF Rebuilt
<1>5. CASE WarmBuild
  <2>1. Registry!BuildTransmit(warming, PrintOf(warming)) /\ pc' = "warm_write"
        /\ pc = "warm_build" /\ warming' = warming
    BY <1>5 DEF WarmBuild, loopVars, idleVars
  <2>2. /\ Registry!Resident' = Registry!Resident \cup {warming}
        /\ pending_deletes' = pending_deletes
    BY <2>1, BuildEffect DEF Base
  <2> QED
    BY <1>2, <1>3, <2>1, <2>2 DEF Rebuilt
<1>6. CASE WarmWriteFails
  <2>1. /\ lost_writes' # 0 /\ UNCHANGED registryVars
    BY <1>6 DEF WarmWriteFails, Base, TypeInv
  <2> QED
    BY <1>2, <1>3, <2>1, SameRegistry DEF registryVars
<1>7. CASE ~ (WarmWrite \/ WarmBuild \/ WarmWriteFails)
  <2>1. /\ Registry!Resident' = Registry!Resident
        /\ pending_deletes' = pending_deletes
    <3>1. CASE \/ DrawPopup \/ RenderPages \/ AfterDraw \/ BatchDone \/ SettleTimeout
               \/ IdleStart \/ WarmRender
      BY <3>1, SameRegistry DEF DrawPopup, RenderPages, AfterDraw, BatchDone, SettleTimeout,
         IdleStart, WarmRender, registryVars
    <3>2. CASE CheckTriggers
      BY <3>2, InvalidateAllEffect, SameRegistry DEF CheckTriggers, Base, registryVars
    <3>3. CASE Input
      BY <3>3, InvalidateAllEffect, SameRegistry DEF Input, Scroll, ScrollTo, GotoPage,
         EditPages, ToggleDark, TogglePopup, Refresh, Base, registryVars
    <3>4. CASE UpgradeVisible
      BY <3>4, InvalidateEffect, SameRegistry DEF UpgradeVisible, Base, registryVars
    <3> QED
      BY <1>7, <3>1, <3>2, <3>3, <3>4 DEF Outside, Idle
  <2>2. pc # "warm_write"
    BY <1>7 DEF Outside, DrawPopup, CheckTriggers, RenderPages, AfterDraw, BatchDone,
       SettleTimeout, Input, Idle, IdleStart, WarmRender, UpgradeVisible
  <2> QED
    BY <1>2, <1>3, <2>1, <2>2 DEF Rebuilt
<1> QED
  BY <1>4, <1>5, <1>6, <1>7

(* The deletes, step by step: outside the frame,                           *)
LEMMA DeletesOutside ==
    ASSUME Base, FrameInv, DeletesInv, LateDeletesInv, Outside
    PROVE  DeletesInv' /\ LateDeletesInv'
<1>1. /\ pc # "flush" /\ pc' # "flush" /\ pc' # "build" /\ pc # "build"
      /\ pending_deletes' \subseteq pending_deletes
      /\ TopDeletes' = TopDeletes \/ TopDeletes' = {}
      /\ Registry!Resident \subseteq Registry!Resident'
      /\ Registry!Resident' \subseteq Registry!Resident \cup Rebuilt'
      /\ pending_deletes \ pending_deletes' \subseteq Registry!Resident
      /\ lost_writes' = 0 => pending_deletes' \cap Rebuilt \subseteq Rebuilt'
  BY OutsideQueue
<1>2. drained = {} /\ drained' = {}
  BY OutsideFrame
<1>3. lost_writes \in Nat /\ (lost_writes' = lost_writes \/ lost_writes' = lost_writes + 1)
  BY DEF Outside, DrawPopup, CheckTriggers, RenderPages, AfterDraw, BatchDone, SettleTimeout,
         Input, Idle, IdleStart, WarmRender, WarmBuild, WarmWrite, WarmWriteFails,
         UpgradeVisible, loopVars, boundVars, Base, TypeInv
<1>4. DeletesInv'
  BY <1>1, <1>2, <1>3 DEF DeletesInv
<1>5. ASSUME lost_writes' <= 1
      PROVE  /\ \A p \in TopDeletes' : held'[p] # None => p \notin pending_deletes'
             /\ \A p \in Pages : held'[p] # None =>
                   p \in Registry!Resident' \cup pending_deletes'
  <2>1. /\ \A p \in TopDeletes : held[p] # None => p \notin pending_deletes
        /\ \A p \in Pages : held[p] # None => p \in Registry!Resident \cup pending_deletes
    BY <1>1, <1>2, <1>3, <1>5 DEF LateDeletesInv, NoOrphanImages
  <2>2. CASE held' = held
    BY <1>1, <2>1, <2>2
  <2>3. CASE WarmWrite
    <3>1. /\ warming \in Pages /\ PrintOf(warming) # None
          /\ held' = [held EXCEPT ![warming] = Image(warming)]
          /\ Registry!MarkTransmitted(warming, PrintOf(warming))
      BY <2>3, PrintsAreNotNone DEF WarmWrite, Base, TypeInv
    <3>2. /\ warming \in Registry!Resident' /\ warming \notin pending_deletes'
      BY <3>1, MarkEffect
    <3>3. \A q \in Pages \ {warming} : held'[q] = held[q]
      BY <3>1 DEF Base, TypeInv
    <3>4. pending_deletes' \subseteq Pages
      BY <1>1 DEF Base, RegistryInv, Registry!TypeOK
    <3> QED
      BY <1>1, <2>1, <3>2, <3>3, <3>4
  <2>4. CASE WarmWriteFails
    <3>1. /\ warming \in Pages /\ warming \in Registry!Resident
          /\ held' \in {held, [held EXCEPT ![warming] = Image(warming)]}
          /\ UNCHANGED <<pages, pending_deletes, top_cell>>
          /\ lost_writes' = lost_writes + 1
      BY <2>4 DEF WarmWriteFails, Base, TypeInv, FrameInv, FramePayloads, PayloadReady,
                  registryVars
    <3>2. lost_writes = 0
      BY <1>3, <1>5, <3>1
    <3>3. TopDeletes \cap pending_deletes = {}
      BY <1>1, <3>2 DEF DeletesInv
    <3>4. \A q \in Pages \ {warming} : held'[q] = held[q]
      BY <3>1 DEF Base, TypeInv
    <3>5. TopDeletes' = TopDeletes /\ Registry!Resident' = Registry!Resident
      BY <3>1, SameRegistry DEF TopDeletes
    <3> QED
      BY <2>1, <3>1, <3>3, <3>4, <3>5
  <2>5. CASE ~ (held' = held \/ WarmWrite \/ WarmWriteFails)
    BY <2>5 DEF Outside, DrawPopup, CheckTriggers, RenderPages, AfterDraw, BatchDone,
       SettleTimeout, Input, Idle, IdleStart, WarmRender, WarmBuild, UpgradeVisible, terminalVars
  <2> QED
    BY <2>2, <2>3, <2>4, <2>5
<1>6. LateDeletesInv'
  BY <1>2, <1>5 DEF LateDeletesInv, NoOrphanImages
<1> QED
  BY <1>4, <1>6

(* as the frame plans, builds and marks,                                   *)
LEMMA DeletesPlanned ==
    ASSUME Base, FrameInv, DeletesInv, LateDeletesInv, UNCHANGED loopVars,
           PlanFrame \/ BuildNext \/ MarkNext
    PROVE  DeletesInv' /\ LateDeletesInv'
<1>1. /\ UNCHANGED <<held, top_cell, lost_writes>> /\ TopDeletes' = TopDeletes
      /\ pc # "flush" /\ pc' # "flush"
  BY DEF PlanFrame, BuildNext, MarkNext, terminalVars, loopVars, boundVars, TopDeletes
<1>2. drained' = drained
  BY DEF PlanFrame, BuildNext, MarkNext, registryVars, Registry!BuildTransmit,
         Registry!MarkTransmitted
<1>3. /\ Registry!Resident \subseteq Registry!Resident'
      /\ pending_deletes' \subseteq pending_deletes
      /\ pending_deletes \ pending_deletes' \subseteq Registry!Resident
      /\ drained \cap Registry!Resident' \subseteq drained \cap Registry!Resident
      /\ pending_deletes \cap Registry!Resident \subseteq Rebuilt =>
            pending_deletes' \cap Registry!Resident' \subseteq Rebuilt'
      /\ send' = send \/ drained = {}
  <2>1. CASE PlanFrame
    <3>1. /\ UNCHANGED registryVars /\ pc = "plan"
      BY <2>1 DEF PlanFrame
    <3>2. drained = {} /\ Rebuilt = {}
      BY <3>1 DEF FrameInv, FrameDeletes, Built, Rebuilt
    <3> QED
      BY <3>1, <3>2, SameRegistry DEF registryVars
  <2>2. CASE BuildNext
    <3> DEFINE p == First(todo)
    <3>1. /\ Registry!BuildTransmit(p, PrintOf(p)) /\ pc = "build" /\ pc' = pc
          /\ send' = send /\ todo' = todo \ {p} /\ p \in todo /\ todo \subseteq send
      BY <2>2, FirstOfPages DEF BuildNext, Base, TypeInv, FrameInv, FramePlan, Planned
    <3>2. drained = {}
      BY <3>1 DEF FrameInv, FrameDeletes, Built
    <3> HIDE DEF p
    <3>3. /\ Registry!Resident' = Registry!Resident \cup {p}
          /\ pending_deletes' = pending_deletes
      BY <3>1, BuildEffect DEF Base
    <3>4. Rebuilt = send \ todo /\ Rebuilt' = (send \ todo) \cup {p}
      BY <3>1 DEF Rebuilt
    <3> QED
      BY <3>1, <3>2, <3>3, <3>4
  <2>3. CASE MarkNext
    <3> DEFINE p == First(todo)
    <3>1. /\ Registry!MarkTransmitted(p, PrintOf(p)) /\ pc = "mark" /\ pc' = pc
          /\ send' = send /\ p \in send
      BY <2>3, FrameMarks DEF MarkNext, FrameInv, FramePlan, Planned
    <3>2. p \in Registry!Resident
      BY <3>1 DEF FrameInv, FramePayloads, PayloadReady, Built
    <3>3. PrintOf(p) # None
      BY <3>1, PrintsAreNotNone DEF Base, TypeInv
    <3> HIDE DEF p
    <3>4. /\ Registry!Resident' = Registry!Resident
          /\ pending_deletes' = pending_deletes \ {p}
      BY <3>1, <3>2, <3>3, MarkEffect
    <3>5. Rebuilt = {} /\ Rebuilt' = {}
      BY <3>1 DEF Rebuilt
    <3> QED
      BY <3>1, <3>2, <3>4, <3>5
  <2> QED
    BY <2>1, <2>2, <2>3
<1>4. DeletesInv'
  BY <1>1, <1>2, <1>3 DEF DeletesInv
<1>5. LateDeletesInv'
  BY <1>1, <1>2, <1>3 DEF LateDeletesInv, NoOrphanImages
<1> QED
  BY <1>4, <1>5

(* as it drains the queue,                                                 *)
LEMMA DeletesTaken ==
    ASSUME Base, FrameInv, DeletesInv, LateDeletesInv, UNCHANGED loopVars, BuildDone
    PROVE  DeletesInv' /\ LateDeletesInv'
<1>1. /\ UNCHANGED <<held, top_cell, lost_writes, send, pages>> /\ TopDeletes' = TopDeletes
      /\ pc = "build" /\ pc' \in {"put_back", "mark"} /\ todo = {}
  BY DEF BuildDone, terminalVars, loopVars, boundVars, TopDeletes, registryVars,
         Registry!TakePendingDeletes
<1>2. drained = {}
  BY <1>1 DEF FrameInv, FrameDeletes, Built
<1>3. drained' = pending_deletes /\ pending_deletes' = {}
  BY <1>2 DEF BuildDone, registryVars, Registry!TakePendingDeletes
<1>4. Registry!Resident' = Registry!Resident
  BY <1>1, SameRegistry
<1>5. Rebuilt = send /\ Rebuilt' = {}
  BY <1>1 DEF Rebuilt
<1>6. DeletesInv'
  BY <1>1, <1>3, <1>4, <1>5 DEF DeletesInv
<1>7. LateDeletesInv'
  BY <1>1, <1>2, <1>3, <1>4 DEF LateDeletesInv, NoOrphanImages
<1> QED
  BY <1>6, <1>7

(* as it puts the deletes back for want of a transmit,                     *)
LEMMA DeletesPutBack ==
    ASSUME Base, FrameInv, DeletesInv, LateDeletesInv, UNCHANGED loopVars, PutBack
    PROVE  DeletesInv' /\ LateDeletesInv'
<1>1. /\ UNCHANGED <<held, top_cell, lost_writes, send, pages>> /\ TopDeletes' = TopDeletes
      /\ pc = "put_back" /\ pc' = "mark"
      /\ drained' = {} /\ pending_deletes' = (drained \ Registry!Resident) \cup pending_deletes
  BY DEF PutBack, terminalVars, loopVars, boundVars, TopDeletes, frameVars,
         Registry!PutBackPendingDeletes
<1>2. Registry!Resident' = Registry!Resident
  BY <1>1, SameRegistry
<1>3. Rebuilt = {} /\ Rebuilt' = {}
  BY <1>1 DEF Rebuilt
<1>4. DeletesInv'
  BY <1>1, <1>2, <1>3 DEF DeletesInv
<1>5. LateDeletesInv'
  BY <1>1, <1>2 DEF LateDeletesInv, NoOrphanImages
<1> QED
  BY <1>4, <1>5

(* as the registry evicts,                                                 *)
LEMMA DeletesEvict ==
    ASSUME Base, FrameInv, DeletesInv, LateDeletesInv, UNCHANGED loopVars, EvictRegistry
    PROVE  DeletesInv' /\ LateDeletesInv'
<1>1. /\ UNCHANGED <<held, top_cell, lost_writes, send>> /\ TopDeletes' = TopDeletes
      /\ pc = "mark" /\ pc' = "flush" /\ send \subseteq Blits
      /\ Registry!EvictToBudget(LayoutVisible(scroll_y_px))
  BY DEF EvictRegistry, terminalVars, loopVars, boundVars, TopDeletes, frameVars, FrameInv,
         FramePlan, Planned
<1>2. PICK V : /\ V \subseteq Registry!Resident \ LayoutVisible(scroll_y_px)
               /\ Registry!Resident' = Registry!Resident \ V
               /\ pending_deletes' = pending_deletes \cup V
               /\ drained' = drained
  BY <1>1, EvictEffect, Zenon DEF Base
<1>3. V \cap send = {}
  BY <1>1, <1>2, BlitsAreVisible
<1>4. Rebuilt = {} /\ Rebuilt' = {}
  BY <1>1 DEF Rebuilt
<1>5. DeletesInv'
  BY <1>1, <1>2, <1>3, <1>4 DEF DeletesInv
<1>6. LateDeletesInv'
  BY <1>1, <1>2 DEF LateDeletesInv, NoOrphanImages
<1> QED
  BY <1>5, <1>6

(* and as the bytes go out.                                                *)
LEMMA DeletesFlush ==
    ASSUME Base, FrameInv, DeletesInv, LateDeletesInv, UNCHANGED loopVars, FlushFrame
    PROVE  DeletesInv' /\ LateDeletesInv'
<1>1. /\ UNCHANGED <<pages, pending_deletes, lost_writes>> /\ drained' = {}
      /\ pc = "flush" /\ pc' = "drawn" /\ top_cell' = TopCell
      /\ \A p \in Pages :
           held'[p] = IF p \in send \ Unwritten THEN Image(p)
                      ELSE IF p \in DeletesWritten THEN None ELSE held[p]
  BY DEF FlushFrame, Registry!ShipDeletes, loopVars, boundVars
<1>2. Registry!Resident' = Registry!Resident /\ Rebuilt = {} /\ Rebuilt' = {}
  BY <1>1, SameRegistry DEF Rebuilt
<1>3. TopDeletes' \subseteq drained
  <2>1. Blits # {} => TopCell.deletes \subseteq drained
    BY DEF TopCell
  <2>2. Blits = {} => TopCell = None
    BY DEF TopCell
  <2> QED
    BY <1>1, <2>1, <2>2 DEF TopDeletes
<1>4. DeletesInv'
  BY <1>1, <1>2, <1>3 DEF DeletesInv
<1>5. /\ send \subseteq Blits /\ send \subseteq Pages /\ Marked = send
      /\ \A p \in send : p \in Registry!Resident /\ p \in Registry!Transmitted
      /\ send = {} => drained = {}
  BY <1>1, BlitsAreVisible
  DEF FrameInv, FramePlan, FramePayloads, FrameDeletes, PayloadReady, Planned, Built, Sending,
      Marked
<1>6. pending_deletes \cap Registry!Transmitted = {} /\ drained \subseteq Pages
  BY DEF Base, RegistryInv, Registry!NoLiveDeleteQueued, Registry!TypeOK
<1>7. ASSUME lost_writes <= 1, NEW p \in drained, p \notin send, held'[p] # None
      PROVE  FALSE
  <2>1. CASE First(send) \notin Unwritten
    BY <1>1, <1>5, <1>6, <1>7, <2>1 DEF DeletesWritten
  <2>2. CASE First(send) \in Unwritten
    <3>1. First(send) \in send
      BY <1>5, <1>7, FirstOfPages
    <3>2. /\ DeletesWritten = {} /\ TopCell = top_cell /\ TopCell # None
          /\ TopCell.deletes = drained
      BY <2>2, <3>1, FlushUnwritten
    <3>3. p \in TopDeletes /\ held[p] # None
      BY <1>1, <1>6, <1>7, <3>2 DEF TopDeletes
    <3> QED
      BY <1>7, <3>3 DEF LateDeletesInv
  <2> QED
    BY <2>1, <2>2
<1>8. ASSUME lost_writes <= 1, NEW p \in TopDeletes', held'[p] # None
      PROVE  p \notin pending_deletes
  BY <1>3, <1>5, <1>6, <1>7, <1>8
<1>9. ASSUME lost_writes <= 1, NEW p \in Pages, held'[p] # None
      PROVE  p \in Registry!Resident \cup pending_deletes
  <2>1. CASE p \in send
    BY <1>5, <2>1
  <2>2. CASE p \notin send
    <3>1. p \notin drained
      BY <1>7, <1>9, <2>2
    <3>2. held[p] # None
      BY <1>1, <1>9, <2>2
    <3> QED
      BY <1>9, <3>1, <3>2 DEF LateDeletesInv, NoOrphanImages
  <2> QED
    BY <2>1, <2>2
<1>10. LateDeletesInv'
  <2> SUFFICES ASSUME lost_writes <= 1
               PROVE  /\ \A p \in TopDeletes' : held'[p] # None =>
                            p \notin drained' /\ p \notin pending_deletes'
                      /\ NoOrphanImages'
    BY <1>1 DEF LateDeletesInv
  <2> QED
    BY <1>1, <1>2, <1>8, <1>9 DEF NoOrphanImages
<1> QED
  BY <1>4, <1>10

(* Both invariants hold after every step.                                  *)
LEMMA DeletesStep ==
    Base /\ FrameInv /\ DeletesInv /\ LateDeletesInv /\ [Next]_vars
      => DeletesInv' /\ LateDeletesInv'
<1> SUFFICES ASSUME Base, FrameInv, DeletesInv, LateDeletesInv, [Next]_vars
             PROVE  DeletesInv' /\ LateDeletesInv'
  OBVIOUS
<1>1. CASE Outside
  BY <1>1, DeletesOutside
<1>2. CASE /\ \/ PlanFrame \/ BuildNext \/ BuildDone \/ PutBack \/ MarkNext \/ EvictRegistry
              \/ FlushFrame
           /\ UNCHANGED loopVars
  BY <1>2, DeletesPlanned, DeletesTaken, DeletesPutBack, DeletesEvict, DeletesFlush
<1>3. CASE TerminalEvicts \/ UNCHANGED vars
  <2>1. /\ UNCHANGED <<registryVars, pc, send, todo, top_cell, warming, lost_writes>>
        /\ \A p \in Pages : held'[p] = held[p] \/ held'[p] = None
    <3>1. CASE TerminalEvicts
      BY <3>1 DEF TerminalEvicts, frameVars, idleVars, Base, TypeInv
    <3>2. CASE UNCHANGED vars
      BY <3>2 DEF vars, drawVars, frameVars, terminalVars, loopVars, idleVars, boundVars
    <3> QED
      BY <1>3, <3>1, <3>2
  <2>2. /\ Registry!Resident' = Registry!Resident /\ Rebuilt' = Rebuilt
        /\ TopDeletes' = TopDeletes /\ UNCHANGED <<pending_deletes, drained>>
    BY <2>1, SameRegistry DEF registryVars, Rebuilt, TopDeletes
  <2>3. TopDeletes \subseteq Pages
    BY NoneAssumption DEF Base, TypeInv, TopDeletes, Cells
  <2>4. DeletesInv'
    BY <2>1, <2>2 DEF DeletesInv
  <2>5. LateDeletesInv'
    BY <2>1, <2>2, <2>3 DEF LateDeletesInv, NoOrphanImages
  <2> QED
    BY <2>4, <2>5
<1> QED
  BY <1>1, <1>2, <1>3 DEF Outside, Next, System, DrawStep, Draw

(* At first there is no image and no delete.                               *)
LEMMA DeletesInit == Init => DeletesInv /\ LateDeletesInv
<1> SUFFICES ASSUME Init PROVE DeletesInv /\ LateDeletesInv
  OBVIOUS
<1>1. /\ pc = "draw" /\ drained = {} /\ top_cell = None /\ pending_deletes = {}
      /\ \A p \in Pages : held[p] = None
  BY DEF Init, Registry!Init
<1> QED
  BY <1>1 DEF DeletesInv, LateDeletesInv, TopDeletes, NoOrphanImages

(* Every image in the terminal is known to the registry, queued for        *)
(* deletion or on its way to be, as long as at most one write of an idle   *)
(* warm has failed: also when the terminal drops images by itself, and     *)
(* when the diff drops a cell with deletes in it.  Two failed writes of    *)
(* one page can lose an image.                                             *)
THEOREM ImagesAreNotOrphaned == Spec => [](lost_writes <= 1 => NoOrphanImages)
<1>1. LateDeletesInv => (lost_writes <= 1 => NoOrphanImages)
  BY DEF LateDeletesInv
<1> QED
  BY <1>1, BaseInit, BaseStep, TerminalInit, FrameStep, DeletesInit, DeletesStep, PTL DEF Spec

-----------------------------------------------------------------------------
(***************************************************************************)
(* What the bitmaps in the page cache, the encoded                         *)
(* payloads and the terminal's images have to do with each other.  Colours *)
(* and sharpness are in none of the fingerprints by themselves, so what is *)
(* reused must have been made under the same ones.                         *)
(***************************************************************************)

(* Three actions put bitmaps into the page cache.                          *)
Rendering == RenderPages \/ WarmRender \/ UpgradeVisible

(* The other actions leave the bitmaps and their marks alone.              *)
LEMMA CacheKept ==
    ASSUME [Next]_vars, ~Rendering
    PROVE  UNCHANGED <<page_cache, pages_at_fast_quality, last_layout_key, disk>>
BY DEF Rendering, Next, System, DrawStep, Draw, DrawPopup, CheckTriggers, PlanFrame, BuildNext,
       BuildDone, PutBack, MarkNext, EvictRegistry, FlushFrame, AfterDraw, BatchDone,
       SettleTimeout, Input, Idle, IdleStart, WarmBuild, WarmWrite, WarmWriteFails,
       TerminalEvicts, vars, drawVars, bitmapVars

(* RenderPages is a step of a draw, not of the loop.                       *)
LEMMA RenderIsADraw ==
    ASSUME [Next]_vars, RenderPages
    PROVE  UNCHANGED loopVars
<1>1. pc = "render" /\ pc' = "plan"
  BY DEF RenderPages
<1> QED
  BY <1>1 DEF Next, System, DrawStep, AfterDraw, BatchDone, SettleTimeout, Input, Idle,
     IdleStart, WarmRender, WarmBuild, WarmWrite, WarmWriteFails, UpgradeVisible,
     TerminalEvicts, vars, drawVars

(* All that the invariants need of an idle warm's render: one page out of  *)
(* view is cached, or none.                                                *)
LEMMA WarmRenderShape ==
    ASSUME WarmRender
    PROVE  /\ NextWarm \in Pages \ Cached /\ NextWarm \notin LayoutVisible(scroll_y_px)
           /\ pc = "warm" /\ pc' \in {"warm", "draw", "poll", "warm_build"}
           /\ \/ UNCHANGED <<page_cache, pages_at_fast_quality>> /\ pc' # "warm_build"
              \/ /\ page_cache' =
                       Plus(page_cache, NextWarm, [dark |-> dark, sharp |-> Stored(NextWarm)])
                 /\ pages_at_fast_quality' =
                       IF Stored(NextWarm) THEN pages_at_fast_quality \ {NextWarm}
                       ELSE pages_at_fast_quality \cup {NextWarm}
                 /\ warming' = NextWarm /\ pc' = "warm_build"
           /\ UNCHANGED <<registryVars, contentVars, last_layout_key, disk, encoded,
                          terminalVars, forced, planVars>>
<1>1. NextWarm \in Ahead /\ NextWarm \in Pages \ LayoutVisible(scroll_y_px)
  BY NextWarmIsAhead DEF WarmRender
<1>2. NextWarm \notin Cached
  BY <1>1 DEF Ahead
<1>3. \/ UNCHANGED <<page_cache, pages_at_fast_quality>> /\ pc' # "warm_build"
      \/ /\ page_cache' =
               Plus(page_cache, NextWarm, [dark |-> dark, sharp |-> Stored(NextWarm)])
         /\ pages_at_fast_quality' =
               IF Stored(NextWarm) THEN pages_at_fast_quality \ {NextWarm}
               ELSE pages_at_fast_quality \cup {NextWarm}
         /\ warming' = NextWarm /\ pc' = "warm_build"
  BY DEF WarmRender, WarmEnds
<1>4. /\ pc = "warm" /\ pc' \in {"warm", "draw", "poll", "warm_build"}
      /\ UNCHANGED <<registryVars, contentVars, last_layout_key, disk, encoded,
                     terminalVars, forced, planVars>>
  BY DEF WarmRender, WarmEnds
<1> QED
  BY <1>1, <1>2, <1>3, <1>4

(* ... and of an upgrade: one Fast page becomes Sharp and loses its        *)
(* image, or none does.                                                    *)
LEMMA UpgradeShape ==
    ASSUME UpgradeVisible
    PROVE  /\ pc = "warm" /\ pc' \in {"draw", "poll"}
           /\ UNCHANGED <<contentVars, last_layout_key, encoded, terminalVars, forced, planVars>>
           /\ \/ UNCHANGED <<registryVars, bitmapVars>>
              \/ LET p == First(FastVisible)
                 IN  /\ p \in Pages /\ p \in pages_at_fast_quality
                     /\ page_cache' = Plus(page_cache, p, [dark |-> dark, sharp |-> TRUE])
                     /\ pages_at_fast_quality' = pages_at_fast_quality \ {p}
                     /\ CacheDir => disk' = disk \cup {<<dark, p>>}
                     /\ IF p \in Registry!Resident THEN Registry!InvalidateTransmit(p)
                        ELSE UNCHANGED registryVars
<1> DEFINE p == First(FastVisible)
<1>1. CASE FastVisible = {} \/ p \in failed_pages \cup SharpBad
  BY <1>1 DEF UpgradeVisible, bitmapVars
<1>2. CASE ~ (FastVisible = {} \/ p \in failed_pages \cup SharpBad)
  <2>1. FastVisible \subseteq Pages
    BY VisibleArePages DEF FastVisible
  <2>2. p \in FastVisible
    BY <1>2, <2>1, FirstOfPages
  <2> QED
    BY <1>2, <2>1, <2>2 DEF UpgradeVisible, FastVisible
<1> QED
  BY <1>1, <1>2

(* QualityTracked is inductive.                                            *)
LEMMA QualityStep == Base /\ QualityTracked /\ [Next]_vars => QualityTracked'
<1> SUFFICES ASSUME Base, QualityTracked, [Next]_vars PROVE QualityTracked'
  OBVIOUS
<1> USE DEF QualityTracked
<1>1. CASE ~Rendering
  BY <1>1, CacheKept DEF Cached
<1>2. CASE RenderPages
  <2>1. PICK rendered, kept : RenderEffect(scroll_y_px', rendered, kept)
    BY <1>2, RenderShape
  <2> DEFINE rebuilt == last_layout_key # dark
             marks == IF rebuilt THEN {} ELSE pages_at_fast_quality
  <2>2. /\ Cached' = kept
        /\ \A p \in kept : page_cache'[p] =
              IF p \in rendered THEN [dark |-> dark, sharp |-> Stored(p)] ELSE page_cache[p]
        /\ pages_at_fast_quality' = (marks \cup {p \in rendered : ~Stored(p)}) \cap kept
    BY <2>1 DEF RenderEffect, Cached
  <2>3. /\ rendered \cap SurvivingBitmaps(rebuilt) = {}
        /\ kept \subseteq SurvivingBitmaps(rebuilt) \cup rendered
    BY <2>1 DEF RenderEffect
  <2>4. /\ marks \subseteq SurvivingBitmaps(rebuilt)
        /\ \A p \in SurvivingBitmaps(rebuilt) : page_cache[p].sharp <=> p \notin marks
    BY DEF SurvivingBitmaps
  <2> HIDE DEF marks, rebuilt
  <2>5. pages_at_fast_quality' \subseteq Cached'
    BY <2>2
  <2>6. ASSUME NEW p \in kept
        PROVE  page_cache'[p].sharp <=> p \notin pages_at_fast_quality'
    <3>1. CASE p \in rendered
      <4>1. page_cache'[p].sharp <=> Stored(p)
        <5>1. page_cache'[p] = [dark |-> dark, sharp |-> Stored(p)]
          BY <2>2, <3>1
        <5>2. page_cache'[p].sharp = Stored(p)
          BY <5>1
        <5> QED
          BY <5>2, Zenon
      <4>2. p \notin marks
        BY <2>3, <2>4, <3>1
      <4> QED
        BY <2>2, <2>6, <3>1, <4>1, <4>2, Zenon
    <3>2. CASE p \notin rendered
      BY <2>2, <2>3, <2>4, <2>6, <3>2
    <3> QED
      BY <3>1, <3>2
  <2> QED
    BY <2>2, <2>5, <2>6
<1>3. CASE WarmRender
  <2>1. CASE UNCHANGED <<page_cache, pages_at_fast_quality>>
    BY <2>1 DEF Cached
  <2>2. CASE ~ UNCHANGED <<page_cache, pages_at_fast_quality>>
    <3> DEFINE p == NextWarm
    <3>1. /\ page_cache' = Plus(page_cache, p, [dark |-> dark, sharp |-> Stored(p)])
          /\ pages_at_fast_quality' = IF Stored(p) THEN pages_at_fast_quality \ {p}
                                      ELSE pages_at_fast_quality \cup {p}
      BY <1>3, <2>2, WarmRenderShape
    <3> HIDE DEF p
    <3>2. /\ Cached' = Cached \cup {p}
          /\ page_cache'[p].sharp <=> Stored(p)
          /\ \A q \in Cached \ {p} : page_cache'[q] = page_cache[q]
      BY <3>1 DEF Plus, Cached
    <3> QED
      BY <3>1, <3>2
  <2> QED
    BY <2>1, <2>2
<1>4. CASE UpgradeVisible
  <2>1. CASE UNCHANGED <<page_cache, pages_at_fast_quality>>
    BY <2>1 DEF Cached
  <2>2. CASE ~ UNCHANGED <<page_cache, pages_at_fast_quality>>
    <3> DEFINE p == First(FastVisible)
    <3>1. /\ page_cache' = Plus(page_cache, p, [dark |-> dark, sharp |-> TRUE])
          /\ pages_at_fast_quality' = pages_at_fast_quality \ {p}
      BY <1>4, <2>2, UpgradeShape DEF bitmapVars
    <3> HIDE DEF p
    <3>2. /\ Cached' = Cached \cup {p}
          /\ page_cache'[p].sharp
          /\ \A q \in Cached \ {p} : page_cache'[q] = page_cache[q]
      BY <3>1 DEF Plus, Cached
    <3> QED
      BY <3>1, <3>2
  <2> QED
    BY <2>1, <2>2
<1> QED
  BY <1>1, <1>2, <1>3, <1>4 DEF Rendering

(* The Fast marks and the bitmaps agree, whatever is rendered, trimmed,    *)
(* warmed or sharpened in between.                                         *)
THEOREM QualityHolds == Spec => []QualityTracked
<1>1. Init => QualityTracked
  BY DEF Init, QualityTracked, Cached
<1> QED
  BY <1>1, BaseInit, BaseStep, QualityStep, PTL DEF Spec

-----------------------------------------------------------------------------
(* Two actions encode a bitmap; the others keep the payloads or drop them. *)
LEMMA PayloadsKept ==
    ASSUME Base, FrameInv, [Next]_vars, ~BuildNext, ~WarmBuild
    PROVE  /\ encoded' = encoded
           /\ \A q \in Registry!Resident' : pages'[q].payload # None =>
                 q \in Registry!Resident /\ pages'[q].payload = pages[q].payload
<1>1. encoded' = encoded
  BY DEF Next, System, DrawStep, Draw, DrawPopup, CheckTriggers, RenderPages, PlanFrame,
         BuildDone, PutBack, MarkNext, EvictRegistry, FlushFrame, AfterDraw, BatchDone,
         SettleTimeout, Input, Idle, IdleStart, WarmRender, WarmWrite, WarmWriteFails,
         UpgradeVisible, TerminalEvicts, vars, drawVars
<1>2. CASE \/ DrawPopup \/ RenderPages \/ PlanFrame \/ BuildDone \/ PutBack \/ FlushFrame
           \/ AfterDraw \/ BatchDone \/ SettleTimeout \/ IdleStart \/ WarmRender
           \/ WarmWriteFails \/ TerminalEvicts \/ UNCHANGED vars
  <2>1. UNCHANGED pages
    BY <1>2 DEF DrawPopup, RenderPages, PlanFrame, BuildDone, PutBack, FlushFrame, AfterDraw,
       BatchDone, SettleTimeout, IdleStart, WarmRender, WarmWriteFails, TerminalEvicts, vars,
       drawVars, registryVars, Registry!TakePendingDeletes, Registry!PutBackPendingDeletes,
       Registry!ShipDeletes
  <2> QED
    BY <1>1, <2>1, SameRegistry
<1>3. CASE CheckTriggers
  BY <1>1, <1>3, InvalidateAllEffect, SameRegistry DEF CheckTriggers, Base, registryVars
<1>4. CASE Input
  BY <1>1, <1>4, InvalidateAllEffect, SameRegistry
  DEF Input, Scroll, ScrollTo, GotoPage, EditPages, ToggleDark, TogglePopup, Refresh, Base,
      registryVars
<1>5. CASE MarkNext \/ WarmWrite
  <2>1. PICK p \in Pages : Registry!MarkTransmitted(p, PrintOf(p))
    BY <1>5, FrameMarks DEF MarkNext, WarmWrite, Base, TypeInv
  <2> QED
    BY <1>1, <2>1, MarkEffect, PrintsAreNotNone
<1>6. CASE EvictRegistry
  <2>1. PICK V : /\ Registry!Resident' = Registry!Resident \ V
                 /\ \A q \in Registry!Resident' : pages'[q] = pages[q]
    BY <1>6, EvictEffect, Zenon DEF EvictRegistry, Base
  <2> QED
    BY <1>1, <2>1
<1>7. CASE UpgradeVisible
  BY <1>1, <1>7, InvalidateEffect, SameRegistry DEF UpgradeVisible, Base, registryVars
<1> QED
  BY <1>2, <1>3, <1>4, <1>5, <1>6, <1>7 DEF Next, System, DrawStep, Draw, Idle

(* An encode takes the bitmap of the cache, or the payload that is already *)
(* encoded for this print.                                                 *)
LEMMA PayloadsBuilt ==
    ASSUME Base, FrameInv, BuildNext \/ WarmBuild
    PROVE  \E p \in Pages \cap Cached :
             /\ p = IF pc = "build" THEN First(todo) ELSE warming
             /\ pages'[p].payload = PrintOf(p)
             /\ encoded' = EncodeFor(p)
             /\ \A q \in Registry!Resident' \ {p} :
                   q \in Registry!Resident /\ pages'[q] = pages[q]
<1>1. CASE BuildNext
  <2> DEFINE p == First(todo)
  <2>1. p \in todo
    BY <1>1, FirstOfPages DEF BuildNext, Base, TypeInv
  <2>2. p \in Pages /\ p \in Cached /\ pc = "build"
    BY <1>1, <2>1 DEF BuildNext, Base, TypeInv
  <2>3. Registry!BuildTransmit(p, PrintOf(p)) /\ encoded' = EncodeFor(p)
    BY <1>1 DEF BuildNext
  <2> HIDE DEF p
  <2>4. /\ pages'[p].payload = PrintOf(p)
        /\ \A q \in Registry!Resident' \ {p} :
              q \in Registry!Resident /\ pages'[q] = pages[q]
    BY <2>3, BuildEffect DEF Base
  <2> QED
    BY <2>2, <2>3, <2>4 DEF p
<1>2. CASE WarmBuild
  <2>1. warming \in Pages /\ warming \in Cached /\ pc # "build"
    BY <1>2 DEF WarmBuild, Base, TypeInv
  <2>2. Registry!BuildTransmit(warming, PrintOf(warming)) /\ encoded' = EncodeFor(warming)
    BY <1>2 DEF WarmBuild
  <2>3. /\ pages'[warming].payload = PrintOf(warming)
        /\ \A q \in Registry!Resident' \ {warming} :
              q \in Registry!Resident /\ pages'[q] = pages[q]
    BY <2>2, BuildEffect DEF Base
  <2> QED
    BY <2>1, <2>2, <2>3
<1> QED
  BY <1>1, <1>2

(* What is sent is what was encoded, under the fingerprint it was encoded  *)
(* for.                                                                    *)
LEMMA HeldChanges ==
    ASSUME Base, FrameInv, [Next]_vars, NEW p \in Pages, held'[p] # None
    PROVE  \/ held'[p] = held[p]
           \/ /\ held'[p] = Image(p) /\ PayloadReady(p)
              /\ FlushFrame \/ WarmWrite \/ WarmWriteFails
<1>1. CASE FlushFrame
  <2>1. held'[p] = held[p] \/ (held'[p] = Image(p) /\ p \in send)
    BY <1>1 DEF FlushFrame
  <2>2. p \in send => PayloadReady(p)
    BY <1>1 DEF FlushFrame, FrameInv, FramePayloads, Built
  <2> QED
    BY <1>1, <2>1, <2>2
<1>2. CASE WarmWrite \/ WarmWriteFails
  <2>1. held'[p] = held[p] \/ (held'[p] = Image(p) /\ p = warming)
    BY <1>2 DEF WarmWrite, WarmWriteFails, Base, TypeInv
  <2>2. PayloadReady(warming)
    BY <1>2 DEF WarmWrite, WarmWriteFails, FrameInv, FramePayloads
  <2> QED
    BY <1>2, <2>1, <2>2
<1>3. CASE TerminalEvicts
  BY <1>3 DEF TerminalEvicts, Base, TypeInv
<1>4. CASE ~ (FlushFrame \/ WarmWrite \/ WarmWriteFails \/ TerminalEvicts)
  <2>1. held' = held
    BY <1>4 DEF Next, System, DrawStep, Draw, DrawPopup, CheckTriggers, RenderPages, PlanFrame,
       BuildNext, BuildDone, PutBack, MarkNext, EvictRegistry, AfterDraw, BatchDone,
       SettleTimeout, Input, Idle, IdleStart, WarmRender, WarmBuild, UpgradeVisible, vars,
       drawVars, terminalVars
  <2> QED
    BY <2>1
<1> QED
  BY <1>1, <1>2, <1>3, <1>4

-----------------------------------------------------------------------------
(* Colours.  A popup that is opened in the batch of input that switches    *)
(* the colours keeps the layout from being refreshed, so that the idle     *)
(* work after it takes bitmaps of the old colours for new ones: what       *)
(* follows is about runs without popups.                                   *)
Plain == "popup" \notin Toggles

(* The layout key of the page cache, and when it has to be the current one.*)
KeyInv ==
    /\ ~popup_open
    /\ pc \in {"poll", "batch", "settle", "warm", "warm_build", "warm_write"} => forced = 0
    /\ pc \notin {"batch", "draw", "render"} \/ forced > 0 => last_layout_key = dark
    /\ \A p \in Cached : page_cache[p].dark = last_layout_key

EncodedInv ==
    \A p \in Registry!Resident : pages[p].payload # None =>
        encoded[p] \in Bitmap /\ encoded[p].dark = pages[p].payload[1]

HeldInv ==
    \A p \in Pages : held[p] # None =>
        held[p].bitmap \in Bitmap /\ held[p].bitmap.dark = held[p].print[1]

ColourInv == Plain => KeyInv /\ EncodedInv /\ HeldInv

(* The layout key is as KeyInv says after every step.                      *)
LEMMA KeyStep ==
    ASSUME Base, FrameInv, Plain, KeyInv, [Next]_vars
    PROVE  KeyInv'
<1> USE DEF KeyInv
<1>1. CASE RenderPages /\ UNCHANGED loopVars
  <2>1. PICK rendered, kept : RenderEffect(scroll_y_px', rendered, kept)
    BY <1>1, RenderShape
  <2>2. /\ last_layout_key' = dark /\ UNCHANGED <<dark, popup_open, forced>> /\ pc' = "plan"
    BY <1>1, RenderShape DEF loopVars
  <2>3. ASSUME NEW p \in Cached' PROVE page_cache'[p].dark = dark
    <3>1. /\ page_cache'[p] = IF p \in rendered THEN [dark |-> dark, sharp |-> Stored(p)]
                              ELSE page_cache[p]
          /\ p \in rendered \/ p \in SurvivingBitmaps(last_layout_key # dark)
      BY <2>1, <2>3 DEF RenderEffect, Cached
    <3> QED
      BY <3>1 DEF SurvivingBitmaps
  <2> QED
    BY <2>2, <2>3
<1>2. CASE WarmRender
  <2>1. /\ pc = "warm" /\ pc' \in {"warm", "draw", "poll", "warm_build"}
        /\ UNCHANGED <<dark, popup_open, last_layout_key, forced>>
    BY <1>2, WarmRenderShape DEF contentVars
  <2>2. \A p \in Cached' : page_cache'[p].dark = dark
    <3>1. \/ page_cache' = page_cache
          \/ page_cache' = Plus(page_cache, NextWarm, [dark |-> dark, sharp |-> Stored(NextWarm)])
      BY <1>2, WarmRenderShape
    <3> QED
      BY <2>1, <3>1 DEF Plus, Cached
  <2> QED
    BY <2>1, <2>2
<1>3. CASE UpgradeVisible
  <2>1. /\ pc = "warm" /\ pc' \in {"draw", "poll"}
        /\ UNCHANGED <<dark, popup_open, last_layout_key, forced>>
    BY <1>3, UpgradeShape DEF contentVars
  <2>2. \A p \in Cached' : page_cache'[p].dark = dark
    <3>1. \/ page_cache' = page_cache
          \/ page_cache' = Plus(page_cache, First(FastVisible), [dark |-> dark, sharp |-> TRUE])
      BY <1>3, UpgradeShape DEF bitmapVars
    <3> QED
      BY <2>1, <3>1 DEF Plus, Cached
  <2> QED
    BY <2>1, <2>2
<1>4. CASE ~Rendering
  <2>1. UNCHANGED <<page_cache, last_layout_key>>
    BY <1>4, CacheKept
  <2>2. \A p \in Cached' : page_cache'[p].dark = last_layout_key'
    BY <2>1 DEF Cached
  <2>3. CASE Input
    <3>1. /\ pc \in {"poll", "batch"} /\ pc' = "batch" /\ forced' = forced
          /\ popup_open' = popup_open
      BY <2>3 DEF Input, Scroll, ScrollTo, GotoPage, EditPages, ToggleDark, TogglePopup, Refresh,
         Plain, contentVars
    <3> QED
      BY <2>2, <3>1
  <2>4. CASE AfterDraw
    <3>1. /\ pc = "drawn" /\ UNCHANGED <<dark, popup_open>>
          /\ pc' = "draw" \/ (pc' = "poll" /\ forced' = 0)
      BY <2>4 DEF AfterDraw, contentVars
    <3> QED
      BY <2>1, <2>2, <3>1
  <2>5. CASE (SilentDraw \/ MarkNext \/ FlushFrame) /\ UNCHANGED loopVars
    <3>1. /\ UNCHANGED <<dark, popup_open, forced>>
          /\ pc' \notin {"poll", "batch", "settle", "warm", "warm_build", "warm_write", "draw"}
          /\ pc \in {"batch", "draw", "render"} => pc' \in {"render"}
      BY <1>4, <2>5 DEF Rendering, SilentDraw, DrawPopup, CheckTriggers, PlanFrame, BuildNext,
         BuildDone, PutBack, MarkNext, EvictRegistry, FlushFrame, contentVars, loopVars
    <3> QED
      BY <2>1, <2>2, <3>1
  <2>6. CASE \/ BatchDone \/ SettleTimeout \/ IdleStart \/ WarmBuild \/ WarmWrite
             \/ WarmWriteFails
    <3>1. /\ UNCHANGED <<dark, popup_open, forced>>
          /\ pc \in {"poll", "batch", "warm_build", "warm_write"}
          /\ pc = "batch" => pc' = "draw"
      BY <2>6 DEF BatchDone, SettleTimeout, IdleStart, WarmBuild, WarmWrite, WarmWriteFails,
         contentVars, loopVars
    <3> QED
      BY <2>1, <2>2, <3>1
  <2>7. CASE TerminalEvicts \/ UNCHANGED vars
    <3>1. UNCHANGED <<dark, popup_open, forced, pc>>
      BY <2>7 DEF TerminalEvicts, vars, drawVars, contentVars, loopVars
    <3> QED
      BY <2>1, <2>2, <3>1
  <2> QED
    BY <1>4, <2>3, <2>4, <2>5, <2>6, <2>7
    DEF Rendering, Next, System, DrawStep, Draw, Idle, SilentDraw
<1> QED
  BY <1>1, <1>2, <1>3, <1>4, RenderIsADraw DEF Rendering

(* Payloads have the colours of the fingerprint they were encoded for.     *)
LEMMA EncodedStep ==
    ASSUME Base, FrameInv, KeyInv, EncodedInv, [Next]_vars
    PROVE  EncodedInv'
<1> USE DEF EncodedInv
<1>1. CASE ~BuildNext /\ ~WarmBuild
  BY <1>1, PayloadsKept
<1>2. CASE BuildNext \/ WarmBuild
  <2>1. PICK p \in Pages \cap Cached :
          /\ pages'[p].payload = PrintOf(p)
          /\ encoded' = EncodeFor(p)
          /\ \A q \in Registry!Resident' \ {p} :
                q \in Registry!Resident /\ pages'[q] = pages[q]
    BY <1>2, PayloadsBuilt
  <2>2. last_layout_key = dark
    BY <1>2 DEF BuildNext, WarmBuild, KeyInv
  <2>3. page_cache[p] \in Bitmap /\ page_cache[p].dark = dark
    BY <2>1, <2>2 DEF KeyInv, Base, TypeInv
  <2>4. PrintOf(p)[1] = dark /\ PrintOf(p) # None
    BY PrintsAreNotNone DEF PrintOf
  <2>5. /\ encoded'[p] \in Bitmap /\ encoded'[p].dark = dark
        /\ \A q \in Pages \ {p} : encoded'[q] = encoded[q]
    BY <2>1, <2>3, <2>4 DEF EncodeFor, Base, TypeInv
  <2>6. Registry!Resident \subseteq Pages
    BY DEF Base, RegistryInv, Registry!TypeOK
  <2> QED
    BY <2>1, <2>4, <2>5, <2>6
<1> QED
  BY <1>1, <1>2

(* Images have the colours of the print they were sent under.              *)
LEMMA HeldStep ==
    ASSUME Base, FrameInv, EncodedInv, HeldInv, [Next]_vars
    PROVE  HeldInv'
<1> SUFFICES ASSUME NEW p \in Pages, held'[p] # None
             PROVE  held'[p].bitmap \in Bitmap /\ held'[p].bitmap.dark = held'[p].print[1]
  BY DEF HeldInv
<1>1. CASE held'[p] = held[p]
  BY <1>1 DEF HeldInv
<1>2. CASE held'[p] = Image(p) /\ PayloadReady(p)
  <2>1. encoded[p] \in Bitmap /\ encoded[p].dark = PrintOf(p)[1]
    BY <1>2, PrintsAreNotNone DEF EncodedInv, PayloadReady
  <2> QED
    BY <1>2, <2>1 DEF Image
<1> QED
  BY <1>1, <1>2, HeldChanges

(* At first nothing is cached, encoded or sent.                            *)
LEMMA ColourInit == Init => ColourInv
<1> SUFFICES ASSUME Init PROVE ColourInv
  OBVIOUS
<1>1. Cached = {} /\ Registry!Resident = {}
  BY DEF Init, Registry!Init, Cached, Registry!Resident
<1> QED
  BY <1>1 DEF Init, ColourInv, KeyInv, EncodedInv, HeldInv

(* ColourInv is inductive.                                                 *)
LEMMA ColourStep == Base /\ FrameInv /\ ColourInv /\ [Next]_vars => ColourInv'
BY KeyStep, EncodedStep, HeldStep DEF ColourInv, Plain

(* Without popups, an image in the terminal has the colours of the print   *)
(* it was sent under: no bitmap of the old colours is sent as one of the   *)
(* new, though bitmaps, payloads and images each outlive a toggle for a    *)
(* while.                                                                  *)
THEOREM PixelsStayTrue == Spec => [](Plain => PixelsMatchLayout)
<1>1. ColourInv => (Plain => PixelsMatchLayout)
  BY DEF ColourInv, HeldInv, PixelsMatchLayout
<1> QED
  BY <1>1, BaseInit, BaseStep, TerminalInit, FrameStep, ColourInit, ColourStep, PTL DEF Spec

-----------------------------------------------------------------------------
(* Sharpness.  A sharp bitmap is always one of the disk cache's, so the    *)
(* disk says for every colour and page whether the bitmap of the cache,    *)
(* the payload and the image should be sharp.                              *)

(* The pages whose image may still have the colours of an older bitmap:    *)
(* those this frame, the next forced one or the idle warm will look at.    *)
Owed ==
    IF pc = "plan" \/ Planned THEN Placeable(scroll_y_px)
    ELSE IF pc = "drawn" THEN (IF pending_cold_redraw THEN Placeable(scroll_y_px) ELSE {})
    ELSE IF pc \in {"draw", "render"}
         THEN (IF forced > 0 THEN Placeable(ClampScroll(layout, scroll_y_px, Viewport)) ELSE {})
    ELSE IF pc \in {"warm_build", "warm_write"} THEN {warming}
    ELSE {}

Current(p) == p \in Registry!Transmitted /\ pages[p].print = PrintOf(p)

SharpFrame ==
    /\ pc = "plan" \/ Planned \/ pc = "drawn" =>
          ClampScroll(layout, scroll_y_px, Viewport) = scroll_y_px
    /\ Planned /\ ~pending_cold_redraw => \A p \in Blits \ send : Current(p)

SharpCache == \A p \in Cached : page_cache[p].sharp <=> <<page_cache[p].dark, p>> \in disk

SharpPayloads ==
    \A p \in Registry!Resident : pages[p].payload # None =>
        (encoded[p].sharp <=> <<pages[p].payload[1], p>> \in disk)

SharpImages ==
    \A p \in Registry!Transmitted \ Marked :
        held[p].bitmap.sharp <=> <<held[p].print[1], p>> \in disk

SharpOwed ==
    \A p \in Cached \cap Registry!Transmitted :
        pages[p].print[1] = page_cache[p].dark \/ p \in Owed

Sharpening == Plain /\ CacheDir

SharpInv ==
    Sharpening /\ Calm => SharpFrame /\ SharpCache /\ SharpPayloads /\ SharpImages /\ SharpOwed

(* A clamped scroll stays as it is when it is clamped again,               *)
LEMMA ClampTwice ==
    ASSUME NEW at \in Int
    PROVE  ClampScroll(layout, ClampScroll(layout, at, Viewport), Viewport)
             = ClampScroll(layout, at, Viewport)
BY LayoutFacts, DocumentAssumption DEF ClampScroll, Clamp, Greater

(* and RenderPages leaves the scroll clamped.                              *)
LEMMA RenderClamps ==
    ASSUME Base, RenderPages
    PROVE  ClampScroll(layout, scroll_y_px', Viewport) = scroll_y_px'
<1>1. PICK rendered, kept : RenderEffect(scroll_y_px', rendered, kept)
  BY RenderShape
<1>2. \E s \in Int : scroll_y_px' = ClampScroll(layout, s, Viewport)
  <2>1. CASE last_layout_key # dark
    BY <1>1, <2>1, RestoredIsInt DEF RenderEffect, Base, TypeInv
  <2>2. CASE last_layout_key = dark
    BY <1>1, <2>2 DEF RenderEffect, Base, TypeInv
  <2> QED
    BY <2>1, <2>2
<1> QED
  BY <1>2, ClampTwice

(* SharpFrame holds after every step.                                      *)
LEMMA SharpFrameStep ==
    ASSUME Base, FrameInv, KeyInv, SharpFrame, [Next]_vars
    PROVE  SharpFrame'
<1>1. CASE Outside
  <2>1. ~Planned'
    BY <1>1, OutsideFrame
  <2>2. pc' = "plan" \/ pc' = "drawn" => RenderPages
    BY <1>1 DEF Outside, DrawPopup, CheckTriggers, AfterDraw, BatchDone, SettleTimeout, Input,
       Idle, IdleStart, WarmRender, WarmBuild, WarmWrite, WarmWriteFails, UpgradeVisible, WarmEnds,
       KeyInv
  <2> QED
    BY <2>1, <2>2, RenderClamps DEF SharpFrame
<1>2. CASE PlanFrame
  <2>1. /\ UNCHANGED <<pages, contentVars, page_cache>> /\ pc = "plan" /\ pc' = "build"
        /\ send' = Needed \ Deferred
        /\ ~pending_cold_redraw' => Deferred = {}
    BY <1>2 DEF PlanFrame, registryVars, bitmapVars
  <2>2. /\ Blits' = Blits /\ scroll_y_px' = scroll_y_px
        /\ \A q : PrintOf(q)' = PrintOf(q)
        /\ Registry!Transmitted' = Registry!Transmitted
    BY <2>1, SameFrame, SameRegistry
  <2>3. ASSUME NEW p \in Blits \ Needed PROVE Current(p)
    BY <2>3, BlitsAreVisible, PrintsAreNotNone
    DEF Needed, Registry!IsFresh, Current, Registry!Transmitted
  <2>4. ~pending_cold_redraw' => \A p \in Blits' \ send' : Current(p)'
    BY <2>1, <2>2, <2>3 DEF Current
  <2> QED
    BY <2>1, <2>2, <2>4 DEF SharpFrame
<1>3. CASE BuildNext \/ BuildDone \/ PutBack \/ MarkNext \/ EvictRegistry
  <2>1. /\ UNCHANGED <<contentVars, page_cache, send, pending_cold_redraw>>
        /\ Planned /\ Planned'
    BY <1>3 DEF BuildNext, BuildDone, PutBack, MarkNext, EvictRegistry, bitmapVars, planVars,
                frameVars, Planned
  <2>2. /\ Blits' = Blits /\ scroll_y_px' = scroll_y_px
        /\ \A q : PrintOf(q)' = PrintOf(q)
    BY <2>1, SameFrame
  <2>3. ASSUME NEW p \in Blits \ send, Current(p) PROVE Current(p)'
    <3>1. CASE BuildNext
      <4>1. Registry!BuildTransmit(First(todo), PrintOf(First(todo)))
        BY <3>1 DEF BuildNext
      <4>2. /\ Registry!Transmitted' = Registry!Transmitted
            /\ \A q \in Registry!Resident : pages'[q].print = pages[q].print
        BY <4>1, BuildEffect DEF Base
      <4> QED
        BY <2>2, <2>3, <4>2 DEF Current, Registry!Transmitted
    <3>2. CASE BuildDone \/ PutBack
      <4>1. UNCHANGED pages
        BY <3>2 DEF BuildDone, PutBack, registryVars, Registry!TakePendingDeletes,
                    Registry!PutBackPendingDeletes
      <4> QED
        BY <2>2, <2>3, <4>1, SameRegistry DEF Current
    <3>3. CASE MarkNext
      <4>1. /\ Registry!MarkTransmitted(First(todo), PrintOf(First(todo)))
            /\ First(todo) \in send /\ First(todo) \in Pages
        BY <3>3, FrameMarks DEF MarkNext, FrameInv, FramePlan, Planned, Base, TypeInv
      <4>2. /\ Registry!Transmitted' = Registry!Transmitted \cup {First(todo)}
            /\ \A q \in Registry!Resident \ {First(todo)} : pages'[q] = pages[q]
        BY <4>1, MarkEffect, PrintsAreNotNone
      <4> QED
        BY <2>2, <2>3, <4>1, <4>2 DEF Current, Registry!Transmitted
    <3>4. CASE EvictRegistry
      <4>1. PICK V : /\ V \subseteq Registry!Resident \ LayoutVisible(scroll_y_px)
                     /\ Registry!Transmitted' = Registry!Transmitted \ V
                     /\ \A q \in Registry!Resident' : pages'[q] = pages[q]
        BY <3>4, EvictEffect, Zenon DEF EvictRegistry, Base
      <4> QED
        BY <2>2, <2>3, <4>1, BlitsAreVisible DEF Current, Registry!Transmitted
    <3> QED
      BY <1>3, <3>1, <3>2, <3>3, <3>4
  <2> QED
    BY <2>1, <2>2, <2>3 DEF SharpFrame
<1>4. CASE FlushFrame
  BY <1>4 DEF FlushFrame, SharpFrame, Planned, contentVars
<1>5. CASE TerminalEvicts \/ UNCHANGED vars
  <2>1. UNCHANGED <<pages, contentVars, page_cache, send, pending_cold_redraw, pc>>
    BY <1>5 DEF TerminalEvicts, vars, drawVars, registryVars, bitmapVars, frameVars, planVars
  <2>2. /\ Blits' = Blits /\ scroll_y_px' = scroll_y_px
        /\ \A q : PrintOf(q)' = PrintOf(q)
        /\ Registry!Transmitted' = Registry!Transmitted
    BY <2>1, SameFrame, SameRegistry
  <2> QED
    BY <2>1, <2>2 DEF SharpFrame, Planned, Current
<1> QED
  BY <1>1, <1>2, <1>3, <1>4, <1>5 DEF Outside, Next, System, DrawStep, Draw

(* Only an upgrade stores a bitmap in the disk cache.                      *)
LEMMA DiskKept ==
    ASSUME [Next]_vars, ~UpgradeVisible
    PROVE  disk' = disk
BY CacheKept, RenderShape, WarmRenderShape DEF Rendering

(* An upgrade puts one page's sharp render on disk and drops its image and *)
(* its payload.                                                            *)
LEMMA UpgradeDisk ==
    ASSUME Base, CacheDir, UpgradeVisible
    PROVE  \/ disk' = disk /\ page_cache' = page_cache
           \/ \E p \in Pages :
                /\ disk' = disk \cup {<<dark, p>>}
                /\ page_cache' = Plus(page_cache, p, [dark |-> dark, sharp |-> TRUE])
                /\ p \notin Registry!Transmitted'
                /\ p \in Registry!Resident' => pages'[p].payload = None
<1> DEFINE p == First(FastVisible)
<1>1. CASE UNCHANGED <<registryVars, bitmapVars>>
  BY <1>1 DEF bitmapVars
<1>2. CASE /\ p \in Pages
           /\ disk' = disk \cup {<<dark, p>>}
           /\ page_cache' = Plus(page_cache, p, [dark |-> dark, sharp |-> TRUE])
           /\ IF p \in Registry!Resident THEN Registry!InvalidateTransmit(p)
              ELSE UNCHANGED registryVars
  <2> HIDE DEF p
  <2>1. /\ p \notin Registry!Transmitted'
        /\ p \in Registry!Resident' => pages'[p].payload = None
    <3>1. CASE p \in Registry!Resident
      BY <1>2, <3>1, InvalidateEffect DEF Base
    <3>2. CASE p \notin Registry!Resident
      BY <1>2, <3>2, SameRegistry DEF registryVars, Registry!Transmitted
    <3> QED
      BY <3>1, <3>2
  <2> QED
    BY <1>2, <2>1
<1> QED
  BY <1>1, <1>2, UpgradeShape

(* SharpCache holds after every step,                                      *)
LEMMA SharpCacheStep ==
    ASSUME Base, CacheDir, SharpCache, [Next]_vars
    PROVE  SharpCache'
<1> USE DEF SharpCache
<1>1. CASE ~Rendering
  BY <1>1, CacheKept DEF Cached
<1>2. CASE RenderPages
  <2>1. PICK rendered, kept : RenderEffect(scroll_y_px', rendered, kept)
    BY <1>2, RenderShape
  <2>2. disk' = disk
    BY <1>2, RenderShape
  <2>3. ASSUME NEW p \in Cached'
        PROVE  page_cache'[p].sharp <=> <<page_cache'[p].dark, p>> \in disk
    <3>1. page_cache'[p] = IF p \in rendered THEN [dark |-> dark, sharp |-> Stored(p)]
                           ELSE page_cache[p]
      BY <2>1, <2>3 DEF RenderEffect, Cached
    <3>2. CASE p \in rendered
      <4>1. page_cache'[p].sharp = Stored(p) /\ page_cache'[p].dark = dark
        BY <3>1, <3>2
      <4> QED
        BY <4>1, Zenon DEF Stored
    <3>3. CASE p \notin rendered
      <4>1. p \in Cached
        BY <2>1, <2>3, <3>3 DEF RenderEffect, Cached, SurvivingBitmaps
      <4> QED
        BY <3>1, <3>3, <4>1
    <3> QED
      BY <3>2, <3>3
  <2> QED
    BY <2>2, <2>3
<1>3. CASE WarmRender
  <2>1. disk' = disk
    BY <1>3, WarmRenderShape
  <2>2. CASE page_cache' = page_cache
    BY <2>1, <2>2 DEF Cached
  <2>3. CASE page_cache' = Plus(page_cache, NextWarm,
                                [dark |-> dark, sharp |-> Stored(NextWarm)])
    <3> DEFINE p == NextWarm
    <3> HIDE DEF p
    <3>0. page_cache' = Plus(page_cache, p, [dark |-> dark, sharp |-> Stored(p)])
      BY <2>3 DEF p
    <3>1. /\ Cached' = Cached \cup {p}
          /\ page_cache'[p] = [dark |-> dark, sharp |-> Stored(p)]
          /\ \A q \in Cached \ {p} : page_cache'[q] = page_cache[q]
      BY <3>0 DEF Plus, Cached
    <3>2. page_cache'[p].sharp = Stored(p) /\ page_cache'[p].dark = dark
      BY <3>1
    <3>3. page_cache'[p].sharp <=> <<page_cache'[p].dark, p>> \in disk
      BY <3>2, Zenon DEF Stored
    <3> QED
      BY <2>1, <3>1, <3>3
  <2> QED
    BY <1>3, <2>2, <2>3, WarmRenderShape
<1>4. CASE UpgradeVisible
  <2>1. CASE disk' = disk /\ page_cache' = page_cache
    BY <2>1 DEF Cached
  <2>2. ASSUME NEW p \in Pages,
               disk' = disk \cup {<<dark, p>>},
               page_cache' = Plus(page_cache, p, [dark |-> dark, sharp |-> TRUE])
        PROVE  SharpCache'
    <3>1. /\ Cached' = Cached \cup {p}
          /\ page_cache'[p].sharp /\ page_cache'[p].dark = dark
          /\ \A q \in Cached \ {p} : page_cache'[q] = page_cache[q]
      BY <2>2 DEF Plus, Cached
    <3> QED
      BY <2>2, <3>1
  <2> QED
    BY <1>4, <2>1, <2>2, UpgradeDisk
<1> QED
  BY <1>1, <1>2, <1>3, <1>4 DEF Rendering

(* SharpPayloads as well, since an encode takes the bitmap of the cache,   *)
LEMMA SharpPayloadsStep ==
    ASSUME Base, FrameInv, CacheDir, KeyInv, EncodedInv, SharpCache, SharpPayloads, [Next]_vars
    PROVE  SharpPayloads'
<1> USE DEF SharpPayloads
<1>1. CASE ~BuildNext /\ ~WarmBuild
  <2>1. /\ encoded' = encoded
        /\ \A q \in Registry!Resident' : pages'[q].payload # None =>
              q \in Registry!Resident /\ pages'[q].payload = pages[q].payload
    BY <1>1, PayloadsKept
  <2>2. CASE disk' = disk
    BY <2>1, <2>2
  <2>3. ASSUME NEW p \in Pages, disk' = disk \cup {<<dark, p>>},
               p \in Registry!Resident' => pages'[p].payload = None
        PROVE  SharpPayloads'
    BY <2>1, <2>3
  <2> QED
    BY <2>2, <2>3, DiskKept, UpgradeDisk
<1>2. CASE BuildNext \/ WarmBuild
  <2>1. PICK p \in Pages \cap Cached :
          /\ pages'[p].payload = PrintOf(p)
          /\ encoded' = EncodeFor(p)
          /\ \A q \in Registry!Resident' \ {p} :
                q \in Registry!Resident /\ pages'[q] = pages[q]
    BY <1>2, PayloadsBuilt
  <2>2. last_layout_key = dark /\ disk' = disk
    BY <1>2 DEF BuildNext, WarmBuild, KeyInv, bitmapVars
  <2>3. PrintOf(p)[1] = dark /\ PrintOf(p) # None
    BY PrintsAreNotNone DEF PrintOf
  <2>4. \A q \in Pages \ {p} : encoded'[q] = encoded[q]
    BY <2>1 DEF EncodeFor, Base, TypeInv
  <2>5. encoded'[p].sharp <=> <<dark, p>> \in disk
    <3>1. CASE p \in Registry!Resident /\ pages[p].payload = PrintOf(p)
      <4>1. encoded' = encoded
        BY <2>1, <3>1 DEF EncodeFor
      <4> QED
        BY <2>3, <3>1, <4>1
    <3>2. CASE ~ (p \in Registry!Resident /\ pages[p].payload = PrintOf(p))
      <4>1. encoded'[p] = page_cache[p]
        BY <2>1, <3>2 DEF EncodeFor, Base, TypeInv
      <4>2. page_cache[p].dark = dark
        BY <2>1, <2>2 DEF KeyInv
      <4> QED
        BY <2>1, <4>1, <4>2 DEF SharpCache
    <3> QED
      BY <3>1, <3>2
  <2>6. Registry!Resident \subseteq Pages
    BY DEF Base, RegistryInv, Registry!TypeOK
  <2> QED
    BY <2>1, <2>2, <2>3, <2>4, <2>5, <2>6
<1> QED
  BY <1>1, <1>2

(* SharpImages, since what is sent is what was encoded,                    *)
LEMMA SharpImagesStep ==
    ASSUME Base, FrameInv, CacheDir, BeliefInv, Calm, Calm', SharpPayloads, SharpImages,
           [Next]_vars
    PROVE  SharpImages'
<1>1. CASE Silent
  <2>1. /\ held' = held
        /\ Registry!Transmitted' \subseteq Registry!Transmitted /\ Marked' = Marked
    BY <1>1, SilentScreen, SilentRegistry, SilentMarks
  <2>2. CASE disk' = disk
    BY <2>1, <2>2 DEF SharpImages
  <2>3. ASSUME NEW p \in Pages, disk' = disk \cup {<<dark, p>>},
               p \notin Registry!Transmitted'
        PROVE  SharpImages'
    BY <2>1, <2>3 DEF SharpImages
  <2> QED
    BY <2>2, <2>3, DiskKept, UpgradeDisk
<1>2. CASE MarkNext
  <2>1. /\ Registry!MarkTransmitted(First(todo), PrintOf(First(todo)))
        /\ First(todo) \in Pages /\ Marked' = Marked \cup {First(todo)}
        /\ UNCHANGED <<held, disk>>
    BY <1>2, FrameMarks DEF MarkNext, Base, TypeInv, terminalVars, bitmapVars
  <2>2. Registry!Transmitted' = Registry!Transmitted \cup {First(todo)}
    BY <2>1, MarkEffect, PrintsAreNotNone
  <2> QED
    BY <2>1, <2>2 DEF SharpImages
<1>3. CASE FlushFrame
  <2>1. /\ UNCHANGED <<pages, disk>> /\ pc = "flush" /\ pc' = "drawn" /\ todo = {}
        /\ \A p \in send : PayloadReady(p) /\ p \in Pages
    BY <1>3 DEF FlushFrame, Registry!ShipDeletes, bitmapVars, FrameInv, FramePlan, FramePayloads,
                Built, Base, TypeInv
  <2>2. /\ Registry!Transmitted' = Registry!Transmitted /\ Marked' = {} /\ Marked = send
    BY <2>1, SameRegistry DEF Marked, Sending
  <2>3. ASSUME NEW p \in send
        PROVE  held'[p].bitmap.sharp <=> <<held'[p].print[1], p>> \in disk
    <3>1. held'[p] = Image(p)
      BY <1>3, FlushHolds
    <3>2. p \in Registry!Resident /\ pages[p].payload = PrintOf(p) /\ PrintOf(p) # None
      BY <2>1, PrintsAreNotNone DEF PayloadReady
    <3> QED
      BY <3>1, <3>2 DEF SharpPayloads, Image
  <2>4. ASSUME NEW p \in Registry!Transmitted \ send
        PROVE  held'[p].bitmap.sharp <=> <<held'[p].print[1], p>> \in disk
    <3>1. held'[p] = held[p]
      BY <1>3, <2>4, FlushHolds
    <3> QED
      BY <2>2, <2>4, <3>1 DEF SharpImages
  <2> QED
    BY <2>1, <2>2, <2>3, <2>4 DEF SharpImages
<1>4. CASE WarmWrite
  <2> DEFINE p == warming
  <2>1. /\ Registry!MarkTransmitted(p, PrintOf(p)) /\ p \in Pages /\ PayloadReady(p)
        /\ PrintOf(p) # None /\ disk' = disk
        /\ held'[p] = Image(p) /\ \A q \in Pages \ {p} : held'[q] = held[q]
        /\ pc = "warm_write"
    BY <1>4, PrintsAreNotNone
    DEF WarmWrite, Base, TypeInv, FrameInv, FramePayloads, bitmapVars
  <2>2. Marked = {}
    BY <2>1 DEF Marked, Sending
  <2> HIDE DEF p
  <2>3. Registry!Transmitted' = Registry!Transmitted \cup {p}
    BY <2>1, MarkEffect
  <2>4. held'[p].bitmap.sharp <=> <<held'[p].print[1], p>> \in disk
    BY <2>1 DEF SharpPayloads, Image, PayloadReady
  <2>5. Registry!Transmitted \subseteq Pages
    BY DEF Base, RegistryInv, Registry!TypeOK, Registry!Transmitted
  <2> QED
    BY <2>1, <2>2, <2>3, <2>4, <2>5 DEF SharpImages
<1>5. CASE WarmWriteFails \/ TerminalEvicts
  <2>1. lost_writes' = lost_writes + 1 \/ faults' = faults + 1
    BY <1>5 DEF WarmWriteFails, TerminalEvicts
  <2> QED
    BY <2>1 DEF Calm
<1> QED
  BY <1>1, <1>2, <1>3, <1>4, <1>5 DEF Silent, SilentDraw, Next, System, DrawStep, Draw, Idle

(* and SharpOwed: a page is looked at again before it counts as fresh.     *)
LEMMA SharpOwedStep ==
    ASSUME Base, FrameInv, KeyInv, Calm, Calm', SharpFrame, SharpOwed, [Next]_vars
    PROVE  SharpOwed'
<1> SUFFICES ASSUME NEW p \in (Cached \cap Registry!Transmitted)'
             PROVE  pages'[p].print[1] = page_cache'[p].dark \/ p \in Owed'
  BY DEF SharpOwed
<1>1. CASE RenderPages
  <2>1. PICK rendered, kept : RenderEffect(scroll_y_px', rendered, kept)
    BY <1>1, RenderShape
  <2>2. UNCHANGED <<pages, forced>> /\ pc = "render" /\ pc' = "plan"
    BY <1>1, RenderShape, RenderIsADraw DEF registryVars, loopVars
  <2>3. Owed' = Placeable(scroll_y_px')
    BY <2>2 DEF Owed
  <2>4. CASE p \in rendered
    BY <2>1, <2>3, <2>4 DEF RenderEffect
  <2>5. CASE p \notin rendered
    <3>1. /\ last_layout_key = dark /\ p \in Cached /\ page_cache'[p] = page_cache[p]
          /\ scroll_y_px' = ClampScroll(layout, scroll_y_px, Viewport)
      BY <2>1, <2>5 DEF RenderEffect, Cached, SurvivingBitmaps
    <3>2. p \in Registry!Transmitted
      BY <2>2, SameRegistry
    <3>3. Owed \subseteq Placeable(scroll_y_px')
      BY <2>2, <3>1 DEF Owed, Planned
    <3> QED
      BY <2>2, <2>3, <3>1, <3>2, <3>3 DEF SharpOwed
  <2> QED
    BY <2>4, <2>5
<1>2. CASE WarmRender
  <2>1. UNCHANGED pages /\ pc = "warm"
    BY <1>2, WarmRenderShape DEF registryVars
  <2>2. \/ page_cache' = page_cache
        \/ /\ page_cache' = Plus(page_cache, NextWarm, [dark |-> dark, sharp |-> Stored(NextWarm)])
           /\ pc' = "warm_build" /\ warming' = NextWarm
    BY <1>2, WarmRenderShape
  <2>3. CASE p \in Cached /\ page_cache'[p] = page_cache[p]
    BY <2>1, <2>3, SameRegistry DEF SharpOwed, Owed, Planned
  <2>4. CASE p = NextWarm /\ pc' = "warm_build" /\ warming' = NextWarm
    BY <2>4 DEF Owed, Planned
  <2> QED
    BY <2>2, <2>3, <2>4 DEF Plus, Cached
<1>3. CASE UpgradeVisible
  <2>1. /\ Registry!Transmitted' \subseteq Registry!Transmitted
        /\ \A q \in Registry!Transmitted' : pages'[q].print = pages[q].print
    BY <1>3, SilentRegistry DEF Silent
  <2>2. Owed = {}
    BY <1>3 DEF UpgradeVisible, Owed, Planned
  <2>3. p \in Cached /\ page_cache'[p] = page_cache[p]
    <3> DEFINE u == First(FastVisible)
    <3>1. CASE page_cache' = page_cache
      BY <3>1 DEF Cached
    <3>2. CASE /\ page_cache' = Plus(page_cache, u, [dark |-> dark, sharp |-> TRUE])
               /\ IF u \in Registry!Resident THEN Registry!InvalidateTransmit(u)
                  ELSE UNCHANGED registryVars
      <4> HIDE DEF u
      <4>1. u \notin Registry!Transmitted'
        <5>1. CASE u \in Registry!Resident
          BY <3>2, <5>1, InvalidateEffect DEF Base
        <5>2. CASE u \notin Registry!Resident
          BY <3>2, <5>2, SameRegistry DEF registryVars, Registry!Transmitted
        <5> QED
          BY <5>1, <5>2
      <4> QED
        BY <3>2, <4>1 DEF Plus, Cached
    <3> QED
      BY <1>3, <3>1, <3>2, UpgradeShape DEF bitmapVars
  <2> QED
    BY <2>1, <2>2, <2>3 DEF SharpOwed
<1>4. CASE ~Rendering
  <2>1. p \in Cached /\ page_cache'[p] = page_cache[p]
    BY <1>4, CacheKept DEF Cached
  <2>2. CASE Silent
    <3>1. p \in Registry!Transmitted /\ pages'[p].print = pages[p].print
      BY <2>2, SilentRegistry
    <3>2. p \in Owed => p \in Owed'
      <4>1. CASE DrawPopup
        BY <4>1 DEF DrawPopup, KeyInv
      <4>2. CASE AfterDraw
        <5>1. /\ pc = "drawn" /\ scroll_y_px' = scroll_y_px
              /\ IF pending_cold_redraw
                 THEN pc' = "draw" /\ forced' = Lesser(forced + 1, CatchUpFrames + 1)
                 ELSE pc' = "poll"
          BY <4>2 DEF AfterDraw, contentVars
        <5>2. Lesser(forced + 1, CatchUpFrames + 1) > 0
          BY CatchUpFramesAre DEF Base, TypeInv, Lesser
        <5> QED
          BY <5>1, <5>2 DEF Owed, Planned, SharpFrame
      <4>3. CASE (CheckTriggers \/ PlanFrame \/ BuildNext \/ BuildDone \/ PutBack \/ EvictRegistry)
                 /\ UNCHANGED loopVars
        BY <4>3 DEF CheckTriggers, PlanFrame, BuildNext, BuildDone, PutBack, EvictRegistry,
           contentVars, loopVars, Owed, Planned
      <4>4. CASE BatchDone \/ SettleTimeout \/ Input \/ IdleStart
        BY <4>4 DEF BatchDone, SettleTimeout, Input, IdleStart, Owed, Planned
      <4>5. CASE WarmBuild
        BY <4>5 DEF WarmBuild, Owed, Planned, loopVars, idleVars
      <4>6. CASE UNCHANGED vars
        BY <4>6 DEF vars, drawVars, contentVars, planVars, loopVars, idleVars, Owed, Planned
      <4> QED
        BY <1>4, <2>2, <4>1, <4>2, <4>3, <4>4, <4>5, <4>6 DEF Silent, SilentDraw, Rendering
    <3> QED
      BY <2>1, <3>1, <3>2 DEF SharpOwed
  <2>3. CASE MarkNext /\ UNCHANGED loopVars
    <3> DEFINE u == First(todo)
    <3>1. /\ Registry!MarkTransmitted(u, PrintOf(u)) /\ u \in Pages /\ last_layout_key = dark
          /\ Owed' = Owed
      BY <2>3, FrameMarks DEF MarkNext, Base, TypeInv, KeyInv, contentVars, Owed, Planned
    <3> HIDE DEF u
    <3>2. /\ Registry!Transmitted' = Registry!Transmitted \cup {u}
          /\ \A q \in Registry!Resident \ {u} : pages'[q] = pages[q]
          /\ pages'[u].print = PrintOf(u)
      BY <3>1, MarkEffect, PrintsAreNotNone
    <3>3. PrintOf(u)[1] = dark /\ page_cache[p].dark = dark
      BY <2>1, <3>1 DEF PrintOf, KeyInv
    <3> QED
      BY <2>1, <3>1, <3>2, <3>3 DEF SharpOwed, Registry!Transmitted
  <2>4. CASE WarmWrite
    <3> DEFINE u == warming
    <3>1. /\ Registry!MarkTransmitted(u, PrintOf(u)) /\ u \in Pages /\ last_layout_key = dark
          /\ Owed = {u}
      BY <2>4 DEF WarmWrite, Base, TypeInv, KeyInv, Owed, Planned
    <3> HIDE DEF u
    <3>2. /\ Registry!Transmitted' = Registry!Transmitted \cup {u}
          /\ \A q \in Registry!Resident \ {u} : pages'[q] = pages[q]
          /\ pages'[u].print = PrintOf(u)
      BY <3>1, MarkEffect, PrintsAreNotNone
    <3>3. PrintOf(u)[1] = dark /\ page_cache[p].dark = dark
      BY <2>1, <3>1 DEF PrintOf, KeyInv
    <3> QED
      BY <2>1, <3>1, <3>2, <3>3 DEF SharpOwed, Registry!Transmitted
  <2>5. CASE WarmWriteFails \/ TerminalEvicts
    <3>1. lost_writes' = lost_writes + 1 \/ faults' = faults + 1
      BY <2>5 DEF WarmWriteFails, TerminalEvicts
    <3> QED
      BY <3>1 DEF Calm
  <2>6. CASE FlushFrame
    <3>1. /\ UNCHANGED <<pages, scroll_y_px, pending_cold_redraw>> /\ pc = "flush"
          /\ pc' = "drawn" /\ todo = {} /\ last_layout_key = dark
      BY <2>6 DEF FlushFrame, Registry!ShipDeletes, contentVars, planVars, KeyInv, FrameInv,
                  FramePlan
    <3>2. p \in Registry!Transmitted /\ page_cache[p].dark = dark
      BY <2>1, <3>1, SameRegistry DEF KeyInv
    <3>3. CASE p \in Owed
      <4>1. p \in Blits
        BY <2>1, <3>1, <3>3 DEF Owed, Planned, Blits
      <4>2. CASE pending_cold_redraw
        BY <3>1, <3>3, <4>2 DEF Owed, Planned
      <4>3. CASE ~pending_cold_redraw
        <5>1. pages[p].print = PrintOf(p)
          <6>1. CASE p \in send
            BY <3>1, <6>1 DEF FrameInv, FramePayloads, Sending, Marked
          <6>2. CASE p \notin send
            BY <3>1, <4>1, <4>3, <6>2 DEF SharpFrame, Current, Planned
          <6> QED
            BY <6>1, <6>2
        <5> QED
          BY <2>1, <3>1, <3>2, <5>1 DEF PrintOf
      <4> QED
        BY <4>2, <4>3
    <3>4. CASE p \notin Owed
      BY <2>1, <3>1, <3>2, <3>4 DEF SharpOwed
    <3> QED
      BY <3>3, <3>4
  <2> QED
    BY <1>4, <2>2, <2>3, <2>4, <2>5, <2>6
    DEF Silent, SilentDraw, Rendering, Next, System, DrawStep, Draw, Idle
<1> QED
  BY <1>1, <1>2, <1>3, <1>4 DEF Rendering

(* Failures are never forgotten.                                           *)
LEMMA CalmBefore ==
    ASSUME Base, Calm', [Next]_vars
    PROVE  Calm
<1>1. /\ faults' = faults \/ faults' = faults + 1
      /\ lost_writes' = lost_writes \/ lost_writes' = lost_writes + 1
  BY DEF Next, System, DrawStep, AfterDraw, BatchDone, SettleTimeout, Input, Idle, IdleStart,
         WarmRender, WarmBuild, WarmWrite, WarmWriteFails, UpgradeVisible, TerminalEvicts, vars,
         loopVars, boundVars
<1> QED
  BY <1>1 DEF Calm, Base, TypeInv

(* SharpInv holds after every step, given the other invariants.            *)
LEMMA SharpStep ==
    Base /\ FrameInv /\ BeliefInv /\ ColourInv /\ SharpInv /\ [Next]_vars => SharpInv'
<1> SUFFICES ASSUME Base, FrameInv, BeliefInv, ColourInv, SharpInv, [Next]_vars,
                    Sharpening, Calm'
             PROVE  (SharpFrame /\ SharpCache /\ SharpPayloads /\ SharpImages /\ SharpOwed)'
  BY DEF SharpInv, Sharpening, Plain
<1>1. Calm
  BY CalmBefore
<1>2. /\ SharpFrame /\ SharpCache /\ SharpPayloads /\ SharpImages /\ SharpOwed
      /\ KeyInv /\ EncodedInv /\ CacheDir
  BY <1>1 DEF SharpInv, Sharpening, ColourInv
<1> QED
  BY <1>1, <1>2, SharpFrameStep, SharpCacheStep, SharpPayloadsStep, SharpImagesStep,
     SharpOwedStep

(* At first nothing is cached, encoded or sent.                            *)
LEMMA SharpInit == Init => SharpInv
<1> SUFFICES ASSUME Init PROVE SharpInv
  OBVIOUS
<1>1. Cached = {} /\ Registry!Resident = {} /\ Registry!Transmitted = {} /\ pc = "draw"
  BY DEF Init, Registry!Init, Cached, Registry!Resident, Registry!Transmitted
<1> QED
  BY <1>1 DEF SharpInv, SharpFrame, SharpCache, SharpPayloads, SharpImages, SharpOwed, Planned

(* With a disk cache, without popups and as long as the terminal gets what *)
(* it is sent: a page the registry takes for fresh shows the pixels of the *)
(* page cache, Fast or Sharp, though no fingerprint tells the two apart.   *)
THEOREM FreshStaysCurrent == Spec => [](Sharpening /\ Calm => FreshIsCurrent)
<1>1. Base /\ BeliefInv /\ ColourInv /\ SharpInv => (Sharpening /\ Calm => FreshIsCurrent)
  <2> SUFFICES ASSUME Base, BeliefInv, ColourInv, SharpInv, Sharpening, Calm, ~Sending,
                      NEW p \in Cached, Registry!IsFresh(p, PrintOf(p))
               PROVE  held[p].bitmap.sharp = page_cache[p].sharp
    BY DEF FreshIsCurrent
  <2>1. /\ SharpCache /\ SharpImages /\ SharpOwed /\ KeyInv /\ HeldInv
    BY DEF SharpInv, Sharpening, ColourInv
  <2>2. p \in Pages /\ page_cache[p] \in Bitmap
    BY DEF Base, TypeInv
  <2>3. p \in Registry!Transmitted /\ pages[p].print = PrintOf(p) /\ Marked = {}
    BY <2>2, PrintsAreNotNone DEF Registry!IsFresh, Registry!Transmitted, Marked
  <2>4. held[p] # None /\ held[p].print = PrintOf(p)
    BY <2>3 DEF BeliefInv, Believed
  <2>5. PrintOf(p)[1] = dark
    BY DEF PrintOf
  <2>6. page_cache[p].dark = dark
    <3>1. CASE last_layout_key = dark
      BY <2>1, <3>1 DEF KeyInv
    <3>2. CASE last_layout_key # dark
      <4>1. pc \in {"batch", "draw", "render"} /\ ~ (forced > 0)
        BY <2>1, <3>2 DEF KeyInv
      <4>2. Owed = {}
        BY <4>1 DEF Owed, Planned
      <4> QED
        BY <2>1, <2>3, <2>5, <4>2 DEF SharpOwed
    <3> QED
      BY <3>1, <3>2
  <2>7. held[p].bitmap.sharp <=> page_cache[p].sharp
    BY <2>1, <2>3, <2>4, <2>5, <2>6 DEF SharpImages, SharpCache
  <2>8. held[p].bitmap \in Bitmap
    BY <2>1, <2>2, <2>4 DEF HeldInv
  <2> QED
    BY <2>2, <2>7, <2>8 DEF Bitmap
<1> QED
  BY <1>1, BaseInit, BaseStep, TerminalInit, FrameStep, BeliefStep, ColourInit, ColourStep,
     SharpInit, SharpStep, PTL DEF Spec

-----------------------------------------------------------------------------
(***************************************************************************)
(* How many frames a catch-up takes.  Where every page can be rendered and *)
(* all of them fit the terminal's storage, each frame of a catch-up adds a *)
(* page to those that are blitted, or two to those that are sent for good. *)
(***************************************************************************)
Roomy == Bad = {} /\ NumPages * PageBytes < GhosttyBudget

(* The frames of this catch-up, the next one included once it is due.      *)
Spent == forced + (IF pending_cold_redraw THEN 1 ELSE 0)

(* Pages that are shown as they should be, and sent not long ago.          *)
Fits(S, n) ==
    \A p \in S : /\ Registry!IsFresh(p, PrintOf(p))
                 /\ transmitted_bytes_cumulative - pages[p].snap <= n * PageBytes

Earned(n) == 2 * Spent <= 2 * Cardinality(Blits) + n

Polling == pc \in {"poll", "batch", "settle", "warm", "warm_build", "warm_write"}

(* Within a catch-up the layout and the scroll position stay.              *)
Linked ==
    \/ pc \in {"draw", "render"} /\ forced > 0
    \/ pc = "plan" \/ Planned
    \/ pc = "drawn" /\ pending_cold_redraw

Unplanned == pc \in {"draw", "settle", "render", "plan"} \/ (pc = "drawn" /\ pending_cold_redraw)

(* An invalidation of everything sends all that is blitted in one frame.   *)
Settled ==
    \E S \in SUBSET Blits :
        /\ Earned(Cardinality(S))
        /\ Fits(S, Cardinality(S)) \/ (pc \in {"render", "plan"} /\ Registry!Transmitted = {})

Sent ==
    \E S \in SUBSET (Blits \ send) :
        /\ Earned(Cardinality(S) + Cardinality(send))
        /\ Fits(S \cup Marked, Cardinality(S) + Cardinality(Marked))

CatchUp ==
    /\ CatchUpBounded
    /\ Polling => forced = 0
    /\ Polling \/ pc \in {"draw", "render"} => ~pending_cold_redraw
    /\ Linked => last_layout_key = dark /\ ClampScroll(layout, scroll_y_px, Viewport) = scroll_y_px
    /\ Unplanned => Settled
    /\ Planned => Sent

CatchUpInv == failed_pages \subseteq Bad /\ (Roomy => CatchUp)

LEMMA CountPages ==
    ASSUME NEW S, S \subseteq Pages
    PROVE  IsFiniteSet(S) /\ Cardinality(S) \in Nat /\ Cardinality(S) <= NumPages
<1>1. IsFiniteSet(Pages) /\ Cardinality(Pages) = NumPages
  BY FS_Interval, DocumentAssumption DEF Pages
<1> QED
  BY <1>1, FS_Subset, FS_CardinalityType

LEMMA MoreBytes ==
    ASSUME NEW m \in Nat, NEW n \in Nat, m <= n
    PROVE  m * PageBytes \in Nat /\ m * PageBytes <= n * PageBytes
<1>1. PageBytes \in Nat
  BY StorageAssumption
<1>2. m * PageBytes \in Nat /\ n * PageBytes \in Nat /\ (n - m) * PageBytes \in Nat
  BY <1>1, Product
<1> QED
  BY <1>1, <1>2

(* What the registry's calls do to the snapshots.                          *)
LEMMA BuildSnap ==
    ASSUME RegistryInv, NEW p, NEW f, Registry!BuildTransmit(p, f)
    PROVE  /\ transmitted_bytes_cumulative' = transmitted_bytes_cumulative
           /\ \A q \in Registry!Resident :
                 q \in Registry!Resident' /\ pages'[q].print = pages[q].print
                 /\ pages'[q].snap = pages[q].snap
<1> USE DEF RegistryInv, Registry!TypeOK, Registry!PageEntry
<1>1. pages' = Registry!WithEntry(p,
                 IF p \in Registry!Resident
                 THEN [pages[p] EXCEPT !.payload = f]
                 ELSE [print |-> None, payload |-> f, snap |-> 0])
  BY DEF Registry!BuildTransmit
<1>2. /\ Registry!Resident' = Registry!Resident \cup {p}
      /\ \A q \in Registry!Resident \ {p} : pages'[q] = pages[q]
      /\ p \in Registry!Resident => pages'[p] = [pages[p] EXCEPT !.payload = f]
  BY <1>1 DEF Registry!WithEntry, Registry!Resident
<1> QED
  BY <1>2 DEF Registry!BuildTransmit

LEMMA MarkSnap ==
    ASSUME NEW p, NEW f \in Prints, Registry!MarkTransmitted(p, f)
    PROVE  /\ pages'[p].snap = transmitted_bytes_cumulative
           /\ transmitted_bytes_cumulative' = transmitted_bytes_cumulative + PageBytes
BY DEF Registry!MarkTransmitted, Registry!WithEntry, Registry!Resident

(* Pages whose entries keep print and snapshot go on to fit.               *)
LEMMA FitsStay ==
    ASSUME NEW S, NEW n, Fits(S, n),
           UNCHANGED <<dark, revision, transmitted_bytes_cumulative>>,
           \A p \in S : p \in Registry!Resident /\ p \in Registry!Resident' =>
                          pages'[p].print = pages[p].print /\ pages'[p].snap = pages[p].snap,
           \A p \in S : p \in Registry!Resident => p \in Registry!Resident'
    PROVE  Fits(S, n)'
BY DEF Fits, Registry!IsFresh, PrintOf

(* A frame puts off what cannot be done at once, and does two pages then.  *)
LEMMA SendsTwo ==
    ASSUME Base, Deferred # {}
    PROVE  Cardinality(Needed \ Deferred) >= 2
<1> DEFINE prior == {p \in Blits : Registry!HasPriorTransmit(p)}
<1>1. Needed \subseteq Pages /\ Needed \subseteq Int /\ IsFiniteSet(Needed)
  <2>1. Needed \subseteq Pages
    BY BlitsAreVisible DEF Needed
  <2>2. Needed \subseteq Int
    BY <2>1 DEF Pages
  <2> HIDE DEF prior
  <2> QED
    BY <2>1, <2>2, CountPages
<1>2. CurrentPage \in Int
  <2>1. \E p \in Pages : CurrentPage = p
    BY PageAtIsPage DEF Base, TypeInv, CurrentPage
  <2> QED
    BY <2>1 DEF Pages
<1> HIDE DEF prior
<1>3. Deferred = TransmitDeferrals(Needed, prior, CurrentPage)
  BY DEF Deferred, prior
<1>4. Cardinality(Needed \ Deferred)
        = IF Cardinality(Needed \ prior) > MaxTransmits THEN Cardinality(Needed \ prior)
          ELSE Lesser(Cardinality(Needed), MaxTransmits)
  BY <1>1, <1>2, <1>3, DeferralsAre
<1>5. ~ (Cardinality(Needed) <= MaxTransmits)
  BY <1>3 DEF TransmitDeferrals
<1>6. Cardinality(Needed) \in Nat /\ Cardinality(Needed \ prior) \in Nat
  <2>1. Needed \ prior \subseteq Pages
    BY <1>1
  <2> QED
    BY <1>1, <2>1, CountPages
<1> QED
  BY <1>4, <1>5, <1>6 DEF Lesser, MaxTransmits

(* A frame that puts off renders has rendered a page; in a catch-up it     *)
(* loses none.                                                             *)
LEMMA RenderGrows ==
    ASSUME Base, RenderPages, failed_pages \subseteq Bad
    PROVE  /\ failed_pages' \subseteq Bad
           /\ Bad = {} /\ pending_cold_redraw' => Blits' # {}
           /\ last_layout_key = dark /\ ClampScroll(layout, scroll_y_px, Viewport) = scroll_y_px =>
                /\ Blits \subseteq Blits'
                /\ Bad = {} /\ pending_cold_redraw' => Blits' \ Blits # {}
<1> DEFINE rebuilt == last_layout_key # dark
           at == IF rebuilt THEN RestoredScroll(layout, layout, scroll_y_px, Viewport)
                 ELSE ClampScroll(layout, scroll_y_px, Viewport)
           cached == SurvivingBitmaps(rebuilt)
           failed == IF rebuilt THEN {} ELSE failed_pages
           cold == Placeable(at) \ cached
           attempted(rapid) == ColdAttempts(cold, rapid) \ failed
           rendered(rapid) == {p \in attempted(rapid) : Stored(p) \/ p \notin Bad}
<1>1. PICK rapid \in RapidChoices :
        /\ pending_cold_redraw' = PutOffByBudget(cold, rapid)
        /\ failed_pages' = failed \cup (attempted(rapid) \ rendered(rapid))
        /\ \E kept \in Trimmed(cached \cup rendered(rapid), LayoutVisible(at)) :
             page_cache' = [p \in kept |->
                   IF p \in rendered(rapid) THEN [dark |-> dark, sharp |-> Stored(p)]
                   ELSE page_cache[p]]
  BY Zenon DEF RenderPages
<1>2. PICK kept \in Trimmed(cached \cup rendered(rapid), LayoutVisible(at)) :
        page_cache' = [p \in kept |->
              IF p \in rendered(rapid) THEN [dark |-> dark, sharp |-> Stored(p)]
              ELSE page_cache[p]]
  BY <1>1
<1>3. scroll_y_px' = at
  BY DEF RenderPages
<1>4. failed_pages' \subseteq Bad
  <2> HIDE DEF cold
  <2> QED
    BY <1>1
<1> DEFINE done == rendered(rapid)
<1>5. done \subseteq cold
  BY DEF ColdAttempts
<1>6. Bad = {} /\ pending_cold_redraw' => done # {}
  <2> SUFFICES ASSUME Bad = {}, pending_cold_redraw' PROVE done # {}
    OBVIOUS
  <2>1. cold \subseteq Pages
    BY VisibleArePages
  <2> HIDE DEF cold
  <2>2. ~rapid /\ cold # ColdAttempts(cold, FALSE)
    <3>1. PutOffByBudget(cold, rapid) /\ rapid \in BOOLEAN
      BY <1>1 DEF RapidChoices
    <3> QED
      BY <3>1 DEF PutOffByBudget
  <2>3. cold # {}
    BY <2>2 DEF ColdAttempts
  <2>4. PICK p \in cold : \A q \in cold : p <= q
    BY <2>1, <2>3, FirstOfPages
  <2>5. {q \in cold : q < p} = {}
    <3>1. cold \subseteq Int
      BY <2>1 DEF Pages
    <3>2. \A q \in cold : ~ (q < p)
      <4> TAKE q \in cold
      <4>1. p \in Int /\ q \in Int /\ p <= q
        BY <2>4, <3>1
      <4> QED
        BY <4>1
    <3> QED
      BY <3>2
  <2>6. Rank(p, cold) = 0
    BY <2>5, FS_EmptySet DEF Rank
  <2>7. p \in ColdAttempts(cold, rapid)
    BY <2>2, <2>4, <2>6 DEF ColdAttempts, MaxColdRenders
  <2>8. failed = {}
    OBVIOUS
  <2> HIDE DEF failed
  <2> QED
    BY <2>7, <2>8
<1> HIDE DEF rebuilt, at, cached, done, cold
<1>7. LayoutVisible(at) \cap (cached \cup done) \subseteq kept
  <2>1. LayoutVisible(at) \subseteq NearWindow(LayoutVisible(at))
    <3> SUFFICES ASSUME NEW p \in LayoutVisible(at) PROVE p \in NearWindow(LayoutVisible(at))
      OBVIOUS
    <3>1. p \in Pages /\ p \in Int
      BY VisibleArePages DEF Pages
    <3>2. Distance(p, p) <= Margin
      BY <3>1, StorageAssumption DEF Distance
    <3> QED
      BY <3>1, <3>2 DEF NearWindow
  <2> QED
    BY <1>2, <2>1 DEF Trimmed, done
<1>8. Blits' = Placeable(at) \cap Cached' /\ Cached' = kept
  BY <1>2, <1>3 DEF Blits, Cached
<1>9. Placeable(at) \cap (cached \cup done) \subseteq Blits'
  BY <1>7, <1>8, VisibleArePages
<1>10. done \subseteq Placeable(at) /\ done \cap cached = {}
  BY <1>5 DEF cold
<1>11. ASSUME last_layout_key = dark, ClampScroll(layout, scroll_y_px, Viewport) = scroll_y_px
       PROVE  cached = Cached /\ at = scroll_y_px
  BY <1>11 DEF cached, at, rebuilt, SurvivingBitmaps
<1>12. Blits = Placeable(scroll_y_px) \cap Cached
  BY DEF Blits
<1>13. Bad = {} /\ pending_cold_redraw' => Blits' # {}
  BY <1>6, <1>9, <1>10
<1>14. ASSUME last_layout_key = dark, ClampScroll(layout, scroll_y_px, Viewport) = scroll_y_px
       PROVE  /\ Blits \subseteq Blits'
              /\ Bad = {} /\ pending_cold_redraw' => Blits' \ Blits # {}
  BY <1>6, <1>9, <1>10, <1>11, <1>12, <1>14
<1> QED
  BY <1>4, <1>13, <1>14

(* The lemma that follows is used in the state after a step, too.          *)
LEMMA BlitsArePages == Blits \subseteq Pages
BY BlitsAreVisible

(* Between two catch-ups nothing is owed.                                  *)
LEMMA NothingOwed ==
    forced = 0 /\ ~pending_cold_redraw => Settled
<1> SUFFICES ASSUME forced = 0, ~pending_cold_redraw PROVE Settled
  OBVIOUS
<1>1. Cardinality(Blits) \in Nat /\ Cardinality({}) = 0
  BY BlitsAreVisible, CountPages, FS_EmptySet
<1>2. Earned(Cardinality({})) /\ Fits({}, Cardinality({}))
  BY <1>1 DEF Earned, Spent, Fits
<1> QED
  BY <1>2 DEF Settled

LEMMA AtRest ==
    /\ failed_pages \subseteq Bad
    /\ ~pending_cold_redraw
    /\ pc \in {"draw", "drawn"} \/ Polling
    /\ forced = 0 \/ (pc = "drawn" /\ (Roomy => CatchUpBounded))
    => CatchUpInv
<1> SUFFICES ASSUME failed_pages \subseteq Bad, ~pending_cold_redraw,
                    pc \in {"draw", "drawn"} \/ Polling,
                    forced = 0 \/ (pc = "drawn" /\ (Roomy => CatchUpBounded))
             PROVE  CatchUpInv
  OBVIOUS
<1>1. ~Planned /\ (pc = "drawn" => ~Polling /\ ~Unplanned /\ ~Linked)
  BY DEF Polling, Planned, Unplanned, Linked
<1>2. CASE forced = 0
  <2>1. ~Linked
    BY <1>1, <1>2 DEF Polling, Linked
  <2>2. CatchUpBounded
    BY <1>2, CatchUpFramesAre DEF CatchUpBounded
  <2> QED
    BY <1>1, <1>2, <2>1, <2>2, NothingOwed DEF CatchUpInv, CatchUp
<1>3. CASE pc = "drawn" /\ (Roomy => CatchUpBounded)
  BY <1>1, <1>3 DEF CatchUpInv, CatchUp
<1> QED
  BY <1>2, <1>3

(* CatchUpInv, step by step: what happens between two frames,              *)
LEMMA CatchUpIdles ==
    ASSUME Base, CatchUpInv, BatchDone \/ SettleTimeout \/ Input \/ Idle
    PROVE  CatchUpInv'
<1>1. Polling /\ (Polling' \/ pc' = "draw") /\ UNCHANGED <<forced, pending_cold_redraw>>
  BY DEF BatchDone, SettleTimeout, Input, Idle, IdleStart, WarmRender, WarmBuild, WarmWrite,
         WarmWriteFails, UpgradeVisible, WarmEnds, Polling, planVars, loopVars
<1>2. failed_pages' \subseteq Bad
  BY DEF CatchUpInv, BatchDone, SettleTimeout, Input, Idle, IdleStart, WarmRender, WarmBuild,
         WarmWrite, WarmWriteFails, UpgradeVisible, bitmapVars
<1>3. CASE ~Roomy
  BY <1>2, <1>3 DEF CatchUpInv, Roomy
<1>4. CASE Roomy
  <2>1. forced' = 0 /\ ~pending_cold_redraw'
    BY <1>1, <1>4 DEF CatchUpInv, CatchUp
  <2>2. AtRest'
    BY AtRest, PTL
  <2> QED
    BY <1>1, <1>2, <2>1, <2>2
<1> QED
  BY <1>3, <1>4

(* the end of a frame,                                                     *)
LEMMA CatchUpAfterDraw ==
    ASSUME Base, CatchUpInv, AfterDraw
    PROVE  CatchUpInv'
<1>1. /\ pc = "drawn" /\ pending_cold_redraw' = FALSE
      /\ UNCHANGED <<registryVars, contentVars, bitmapVars>>
      /\ pending_cold_redraw => pc' = "draw" /\ forced' = Lesser(forced + 1, CatchUpFrames + 1)
      /\ ~pending_cold_redraw => pc' = "poll" /\ forced' = 0
  BY DEF AfterDraw
<1>2. failed_pages' \subseteq Bad
  BY <1>1 DEF CatchUpInv, bitmapVars
<1>3. CASE ~Roomy
  BY <1>2, <1>3 DEF CatchUpInv, Roomy
<1>4. CASE Roomy /\ ~pending_cold_redraw
  <2>1. AtRest'
    BY AtRest, PTL
  <2> QED
    BY <1>1, <1>2, <1>4, <2>1 DEF Polling
<1>5. CASE Roomy /\ pending_cold_redraw
  <2>1. CatchUp /\ Unplanned /\ Linked
    BY <1>1, <1>5 DEF CatchUpInv, Unplanned, Linked
  <2>2. PICK S \in SUBSET Blits : Earned(Cardinality(S)) /\ Fits(S, Cardinality(S))
    BY <1>1, <2>1 DEF CatchUp, Settled
  <2>3. /\ Cardinality(S) \in Nat /\ Cardinality(S) <= NumPages
        /\ Cardinality(Blits) \in Nat /\ Cardinality(Blits) <= NumPages
    <3>1. S \subseteq Pages /\ Blits \subseteq Pages
      BY BlitsAreVisible
    <3> QED
      BY <3>1, CountPages
  <2>4. forced \in Nat /\ 2 * (forced + 1) <= 2 * Cardinality(Blits) + Cardinality(S)
    BY <1>5, <2>2 DEF Earned, Spent, Base, TypeInv
  <2>5. forced + 1 \in Nat /\ 2 * (forced + 1) <= 3 * NumPages
    BY <2>3, <2>4, DocumentAssumption
  <2>6. forced + 1 <= CatchUpFrames
    BY <2>5, CatchUpFramesAre
  <2>7. forced' = forced + 1 /\ pc' = "draw"
    BY <1>1, <1>5, <2>5, <2>6, CatchUpFramesAre DEF Lesser
  <2>8. Blits' = Blits /\ \A p : PrintOf(p)' = PrintOf(p)
    BY <1>1, SameFrame DEF bitmapVars
  <2>9. Earned(Cardinality(S))' /\ Fits(S, Cardinality(S))'
    <3>1. Earned(Cardinality(S))'
      BY <1>1, <2>4, <2>7, <2>8 DEF Earned, Spent
    <3>2. Fits(S, Cardinality(S))'
      BY <1>1, <2>2, <2>8 DEF Fits, Registry!IsFresh, Registry!Resident, registryVars
    <3> QED
      BY <3>1, <3>2
  <2>10. Settled'
    BY <2>8, <2>9 DEF Settled
  <2>11. last_layout_key' = dark' /\ ClampScroll(layout, scroll_y_px', Viewport) = scroll_y_px'
    BY <1>1, <2>1 DEF CatchUp, bitmapVars, contentVars
  <2>12. CatchUpBounded'
    BY <2>6, <2>7 DEF CatchUpBounded, CatchUpFrames
  <2> QED
    BY <1>1, <1>2, <2>7, <2>10, <2>11, <2>12 DEF CatchUpInv, CatchUp, Polling, Linked, Planned
<1> QED
  BY <1>3, <1>4, <1>5

(* a frame with a popup,                                                   *)
LEMMA CatchUpPopup ==
    ASSUME CatchUpInv, DrawPopup, UNCHANGED loopVars
    PROVE  CatchUpInv'
<1>1. /\ pc \in {"draw", "settle"} /\ pc' = "drawn"
      /\ UNCHANGED <<failed_pages, pending_cold_redraw, forced>>
  BY DEF DrawPopup, bitmapVars, planVars, loopVars
<1>2. CASE ~Roomy
  BY <1>1, <1>2 DEF CatchUpInv, Roomy
<1>3. CASE Roomy
  <2>1. ~pending_cold_redraw /\ CatchUpBounded
    BY <1>1, <1>3 DEF CatchUpInv, CatchUp, Polling
  <2>2. CatchUpBounded'
    BY <1>1, <2>1 DEF CatchUpBounded, CatchUpFrames
  <2>3. AtRest'
    BY AtRest, PTL
  <2> QED
    BY <1>1, <2>1, <2>2, <2>3 DEF CatchUpInv
<1> QED
  BY <1>2, <1>3

(* the triggers, which may invalidate every transmit,                      *)
LEMMA CatchUpTriggers ==
    ASSUME Base, CatchUpInv, CheckTriggers, UNCHANGED loopVars
    PROVE  CatchUpInv'
<1>1. /\ pc \in {"draw", "settle"} /\ pc' = "render"
      /\ UNCHANGED <<contentVars, bitmapVars, planVars, forced>>
      /\ Registry!InvalidateAllTransmits \/ UNCHANGED registryVars
  BY DEF CheckTriggers, loopVars
<1>2. failed_pages' \subseteq Bad
  BY <1>1 DEF CatchUpInv, bitmapVars
<1>3. CASE ~Roomy
  BY <1>2, <1>3 DEF CatchUpInv, Roomy
<1>4. CASE Roomy
  <2>1. CatchUp /\ Unplanned
    BY <1>1, <1>4 DEF CatchUpInv, Unplanned
  <2>2. PICK S \in SUBSET Blits : Earned(Cardinality(S)) /\ Fits(S, Cardinality(S))
    BY <1>1, <2>1 DEF CatchUp, Settled
  <2>3. Blits' = Blits /\ \A p : PrintOf(p)' = PrintOf(p)
    BY <1>1, SameFrame DEF bitmapVars
  <2>4. Earned(Cardinality(S))'
    BY <1>1, <2>2, <2>3 DEF Earned, Spent, planVars
  <2>5. Fits(S, Cardinality(S))' \/ Registry!Transmitted' = {}
    <3>1. CASE Registry!InvalidateAllTransmits
      BY <3>1, InvalidateAllEffect DEF Base
    <3>2. CASE UNCHANGED registryVars
      BY <2>2, <2>3, <3>2 DEF Fits, Registry!IsFresh, Registry!Resident, registryVars
    <3> QED
      BY <1>1, <3>1, <3>2
  <2>6. Settled'
    BY <1>1, <2>3, <2>4, <2>5 DEF Settled
  <2>7. forced' > 0 => Linked
    BY <1>1, <2>1 DEF CatchUp, Linked, Polling
  <2>8. Linked' => /\ last_layout_key' = dark'
                   /\ ClampScroll(layout, scroll_y_px', Viewport) = scroll_y_px'
    BY <1>1, <2>1, <2>7 DEF CatchUp, Linked, Planned, bitmapVars, contentVars
  <2>9. CatchUpBounded' /\ ~pending_cold_redraw'
    BY <1>1, <2>1 DEF CatchUp, CatchUpBounded, CatchUpFrames, Polling, planVars
  <2> QED
    BY <1>1, <1>2, <2>6, <2>8, <2>9 DEF CatchUpInv, CatchUp, Polling, Planned
<1> QED
  BY <1>3, <1>4

(* the renders,                                                            *)
LEMMA CatchUpRenders ==
    ASSUME Base, CatchUpInv, RenderPages, UNCHANGED loopVars
    PROVE  CatchUpInv'
<1>1. /\ pc = "render" /\ pc' = "plan" /\ last_layout_key' = dark'
      /\ UNCHANGED <<registryVars, dark, revision, forced>>
  BY DEF RenderPages, loopVars
<1>2. failed_pages' \subseteq Bad
  BY RenderGrows DEF CatchUpInv
<1>3. CASE ~Roomy
  BY <1>2, <1>3 DEF CatchUpInv, Roomy
<1>4. CASE Roomy
  <2>1. CatchUp /\ ~pending_cold_redraw /\ Bad = {} /\ forced \in Nat
    BY <1>1, <1>4 DEF CatchUpInv, CatchUp, Roomy, Base, TypeInv
  <2>2. pending_cold_redraw' \in BOOLEAN
    BY DEF RenderPages, PutOffByBudget, RapidChoices
  <2>3. /\ Cardinality(Blits') \in Nat /\ Cardinality(Blits) \in Nat
        /\ IsFiniteSet(Blits') /\ IsFiniteSet(Blits)
    <3>1. BlitsArePages'
      BY BlitsArePages, PTL
    <3>2. Blits' \subseteq Pages /\ Blits \subseteq Pages
      BY <3>1, BlitsArePages
    <3> QED
      BY <3>2, CountPages
  <2>4. Settled'
    <3>1. CASE forced = 0
      <4>1. pending_cold_redraw' => Cardinality(Blits') # 0
        BY <2>1, <2>3, RenderGrows, FS_EmptySet DEF CatchUpInv
      <4>2. Cardinality({}) = 0
        BY FS_EmptySet
      <4>3. Earned(Cardinality({}))'
        BY <1>1, <2>3, <3>1, <4>1, <4>2 DEF Earned, Spent
      <4> QED
        BY <4>3 DEF Settled, Fits
    <3>2. CASE forced # 0
      <4>1. Linked /\ Unplanned
        BY <1>1, <2>1, <3>2 DEF Linked, Unplanned
      <4>2. /\ Blits \subseteq Blits'
            /\ pending_cold_redraw' => Blits' \ Blits # {}
        BY <2>1, <4>1, RenderGrows DEF CatchUpInv, CatchUp
      <4>3. Cardinality(Blits) + (IF pending_cold_redraw' THEN 1 ELSE 0) <= Cardinality(Blits')
        <5>1. Cardinality(Blits) <= Cardinality(Blits')
          BY <2>3, <4>2, FS_Subset
        <5>2. pending_cold_redraw' => Cardinality(Blits) # Cardinality(Blits')
          BY <2>3, <4>2, FS_Subset
        <5> QED
          BY <2>3, <5>1, <5>2
      <4>4. PICK S \in SUBSET Blits :
               /\ Earned(Cardinality(S))
               /\ Fits(S, Cardinality(S)) \/ Registry!Transmitted = {}
        BY <2>1, <4>1 DEF CatchUp, Settled
      <4>5. Cardinality(S) \in Nat
        <5>1. S \subseteq Pages
          BY BlitsAreVisible
        <5> QED
          BY <5>1, CountPages
      <4>6. Earned(Cardinality(S))'
        <5>1. 2 * forced <= 2 * Cardinality(Blits) + Cardinality(S)
          BY <2>1, <4>4 DEF Earned, Spent
        <5>2. 2 * (forced + (IF pending_cold_redraw' THEN 1 ELSE 0))
                <= 2 * Cardinality(Blits') + Cardinality(S)
          BY <2>1, <2>2, <2>3, <4>3, <4>5, <5>1
        <5> QED
          BY <1>1, <5>2 DEF Earned, Spent
      <4>7. Fits(S, Cardinality(S))' \/ Registry!Transmitted' = {}
        BY <1>1, <4>4 DEF Fits, Registry!IsFresh, Registry!Resident, Registry!Transmitted,
                          PrintOf, registryVars
      <4> QED
        BY <1>1, <4>2, <4>4, <4>6, <4>7 DEF Settled
    <3> QED
      BY <3>1, <3>2
  <2>5. CatchUpBounded'
    BY <1>1, <2>1 DEF CatchUp, CatchUpBounded, CatchUpFrames
  <2>6. ClampScroll(layout, scroll_y_px', Viewport) = scroll_y_px'
    BY RenderClamps
  <2> QED
    BY <1>1, <1>2, <2>4, <2>5, <2>6 DEF CatchUpInv, CatchUp, Polling, Planned
<1> QED
  BY <1>3, <1>4

(* What a frame under way has to show.                                     *)
LEMMA StillPlanned ==
    ASSUME CatchUpInv, pc = "plan" \/ Planned, Planned',
           UNCHANGED <<contentVars, bitmapVars, forced>>, Roomy => Sent'
    PROVE  CatchUpInv'
<1>1. failed_pages' \subseteq Bad
  BY DEF CatchUpInv, bitmapVars
<1>2. CASE ~Roomy
  BY <1>1, <1>2 DEF CatchUpInv, Roomy
<1>3. CASE Roomy
  <2>1. CatchUp /\ Linked
    BY <1>3 DEF CatchUpInv, Linked
  <2>2. CatchUpBounded'
    BY <2>1 DEF CatchUp, CatchUpBounded, CatchUpFrames
  <2>3. last_layout_key' = dark' /\ ClampScroll(layout, scroll_y_px', Viewport) = scroll_y_px'
    BY <2>1 DEF CatchUp, bitmapVars, contentVars
  <2>4. pc' \in {"build", "put_back", "mark", "flush"}
    BY DEF Planned
  <2> QED
    BY <1>1, <1>3, <2>2, <2>3, <2>4 DEF CatchUpInv, CatchUp, Polling, Unplanned, Planned
<1> QED
  BY <1>2, <1>3

(* Pages that fit are not sent again.                                      *)
LEMMA FitsIsFresh ==
    ASSUME Base, Roomy, NEW S, S \subseteq Pages, Fits(S, Cardinality(S))
    PROVE  S \cap Needed = {}
<1>1. Cardinality(S) \in Nat /\ Cardinality(S) <= NumPages
  BY CountPages
<1> DEFINE n == Cardinality(S)
<1>2. n * PageBytes \in Nat /\ n * PageBytes <= NumPages * PageBytes
  BY <1>1, DocumentAssumption, MoreBytes
<1> HIDE DEF n
<1>3. n * PageBytes < GhosttyBudget /\ GhosttyBudget \in Nat
  <2>1. NumPages * PageBytes \in Nat
    BY DocumentAssumption, StorageAssumption, Product
  <2> QED
    BY <1>2, <2>1, StorageAssumption DEF Roomy
<1> SUFFICES ASSUME NEW p \in S PROVE p \notin Needed
  OBVIOUS
<1>4. /\ Registry!IsFresh(p, PrintOf(p))
      /\ transmitted_bytes_cumulative - pages[p].snap <= n * PageBytes
  BY DEF Fits, n
<1>5. transmitted_bytes_cumulative \in Nat /\ pages[p].snap \in Nat
  BY <1>4 DEF Base, RegistryInv, Registry!TypeOK, Registry!PageEntry, Registry!IsFresh
<1>6. ~Registry!IsEvictionAtRisk(p, GhosttyBudget)
  BY <1>2, <1>3, <1>4, <1>5 DEF Registry!IsEvictionAtRisk, Registry!SaturatingSub
<1> QED
  BY <1>4, <1>6 DEF Needed

(* the plan,                                                               *)
LEMMA CatchUpPlans ==
    ASSUME Base, CatchUpInv, PlanFrame, UNCHANGED loopVars
    PROVE  CatchUpInv'
<1>1. /\ pc = "plan" /\ pc' = "build" /\ send' = Needed \ Deferred
      /\ pending_cold_redraw' = (pending_cold_redraw \/ Deferred # {})
      /\ UNCHANGED <<registryVars, contentVars, bitmapVars, forced>>
  BY DEF PlanFrame, loopVars
<1>2. ASSUME Roomy PROVE Sent'
  <2>1. CatchUp /\ Unplanned
    BY <1>1, <1>2 DEF CatchUpInv, Unplanned
  <2>2. PICK S \in SUBSET Blits :
           /\ Earned(Cardinality(S))
           /\ Fits(S, Cardinality(S)) \/ Registry!Transmitted = {}
    BY <2>1 DEF CatchUp, Settled
  <2>3. Blits' = Blits /\ \A p : PrintOf(p)' = PrintOf(p)
    BY <1>1, SameFrame DEF bitmapVars
  <2>4. Marked' = {} /\ Cardinality({}) = 0
    BY <1>1, FS_EmptySet DEF Marked, Sending
  <2>5. send' \subseteq Blits /\ Needed \subseteq Blits
    BY <1>1 DEF Needed
  <2>6. /\ Cardinality(Blits) \in Nat /\ Cardinality(S) \in Nat /\ Cardinality(send') \in Nat
        /\ IsFiniteSet(Blits)
    <3>1. Blits \subseteq Pages /\ S \subseteq Pages /\ send' \subseteq Pages
      BY <2>5, BlitsArePages
    <3> QED
      BY <3>1, CountPages
  <2>7. forced \in Nat /\ pending_cold_redraw \in BOOLEAN
    BY DEF Base, TypeInv
  <2>8. CASE Fits(S, Cardinality(S))
    <3>1. S \cap send' = {}
      <4>1. S \subseteq Pages
        BY BlitsArePages
      <4> QED
        BY <1>1, <1>2, <2>8, <4>1, FitsIsFresh
    <3>2. Fits(S, Cardinality(S))'
      BY <1>1, <2>3, <2>8 DEF Fits, Registry!IsFresh, Registry!Resident, registryVars
    <3>3. Fits(S \cup Marked, Cardinality(S) + Cardinality(Marked))'
      <4>1. S \cup Marked' = S /\ Cardinality(S) + Cardinality(Marked') = Cardinality(S)
        BY <2>4, <2>6
      <4>2. Fits(S \cup Marked, Cardinality(S) + Cardinality(Marked))' <=> Fits(S, Cardinality(S))'
        BY <4>1 DEF Fits
      <4> QED
        BY <3>2, <4>2
    <3>4. Deferred # {} => Cardinality(send') >= 2
      BY <1>1, SendsTwo
    <3>5. 2 * (forced + (IF pending_cold_redraw THEN 1 ELSE 0))
            <= 2 * Cardinality(Blits) + Cardinality(S)
      BY <2>2 DEF Earned, Spent
    <3>6. 2 * (forced + (IF pending_cold_redraw' THEN 1 ELSE 0))
            <= 2 * Cardinality(Blits) + (Cardinality(S) + Cardinality(send'))
      BY <1>1, <2>6, <2>7, <3>4, <3>5
    <3>7. Earned(Cardinality(S) + Cardinality(send))'
      BY <1>1, <2>3, <3>6 DEF Earned, Spent
    <3> QED
      BY <2>3, <3>1, <3>3, <3>7 DEF Sent
  <2>9. CASE Registry!Transmitted = {}
    <3>1. Needed = Blits
      <4> SUFFICES ASSUME NEW p \in Blits PROVE ~Registry!IsFresh(p, PrintOf(p))
        BY DEF Needed
      <4>1. PrintOf(p) # None
        BY BlitsArePages, PrintsAreNotNone
      <4> QED
        BY <2>9, <4>1 DEF Registry!IsFresh, Registry!Transmitted
    <3>2. Deferred = {}
      BY <2>9 DEF Deferred, TransmitDeferrals, Registry!HasPriorTransmit
    <3>3. send' = Blits /\ pending_cold_redraw' = pending_cold_redraw
      BY <1>1, <2>7, <3>1, <3>2
    <3>4. Cardinality(S) <= Cardinality(Blits)
      BY <2>6, FS_Subset
    <3>5. 2 * (forced + (IF pending_cold_redraw THEN 1 ELSE 0))
            <= 2 * Cardinality(Blits) + Cardinality(S)
      BY <2>2 DEF Earned, Spent
    <3>6. 2 * (forced + (IF pending_cold_redraw THEN 1 ELSE 0))
            <= 2 * Cardinality(Blits) + (Cardinality({}) + Cardinality(send'))
      <4>1. Cardinality(send') = Cardinality(Blits)
        BY <3>3
      <4> QED
        BY <2>4, <2>6, <2>7, <3>4, <3>5, <4>1
    <3>7. Earned(Cardinality({}) + Cardinality(send))'
      BY <1>1, <2>3, <3>3, <3>6 DEF Earned, Spent
    <3>8. Fits({} \cup Marked, Cardinality({}) + Cardinality(Marked))'
      BY <2>4 DEF Fits
    <3> QED
      BY <3>7, <3>8 DEF Sent
  <2> QED
    BY <2>2, <2>8, <2>9
<1>3. Planned'
  BY <1>1 DEF Planned
<1> QED
  BY <1>1, <1>2, <1>3, StillPlanned

(* the payloads, the deletes and the eviction, which take nothing from     *)
(* what was sent,                                                          *)
LEMMA CatchUpKeeps ==
    ASSUME CatchUpInv, Planned, Planned',
           UNCHANGED <<contentVars, bitmapVars, planVars, send, forced, Marked,
                       transmitted_bytes_cumulative>>,
           \A q \in Registry!Resident \cap Blits :
              q \in Registry!Resident' /\ pages'[q].print = pages[q].print
              /\ pages'[q].snap = pages[q].snap,
           Marked \subseteq Blits
    PROVE  CatchUpInv'
<1>1. ASSUME Roomy PROVE Sent'
  <2>1. PICK S \in SUBSET (Blits \ send) :
           /\ Earned(Cardinality(S) + Cardinality(send))
           /\ Fits(S \cup Marked, Cardinality(S) + Cardinality(Marked))
    BY <1>1 DEF CatchUpInv, CatchUp, Sent
  <2>2. Blits' = Blits /\ \A p : PrintOf(p)' = PrintOf(p)
    BY SameFrame DEF bitmapVars
  <2>3. Earned(Cardinality(S) + Cardinality(send))'
    BY <2>1, <2>2 DEF Earned, Spent, planVars
  <2>4. \A p \in S \cup Marked :
           /\ p \in Registry!Resident' /\ pages'[p].print = PrintOf(p)'
           /\ transmitted_bytes_cumulative' - pages'[p].snap
                <= (Cardinality(S) + Cardinality(Marked)) * PageBytes
    BY <2>1, <2>2 DEF Fits, Registry!IsFresh
  <2>5. Fits(S \cup Marked, Cardinality(S) + Cardinality(Marked))'
    BY <2>4 DEF Fits, Registry!IsFresh
  <2> QED
    BY <2>1, <2>2, <2>3, <2>5 DEF Sent
<1> QED
  BY <1>1, StillPlanned DEF planVars

LEMMA CatchUpBuilds ==
    ASSUME Base, FrameInv, CatchUpInv, BuildNext \/ BuildDone \/ PutBack \/ EvictRegistry,
           UNCHANGED loopVars
    PROVE  CatchUpInv'
<1>1. /\ Planned /\ Planned' /\ UNCHANGED <<contentVars, bitmapVars, planVars, send, forced>>
      /\ ~BuildNext => pc' # "build"
      /\ pc' = "build" => pc = "build"
  BY DEF BuildNext, BuildDone, PutBack, EvictRegistry, Planned, frameVars, loopVars
<1>2. Marked' = Marked /\ Marked \subseteq Blits
  <2>1. send \subseteq Blits
    BY <1>1 DEF FrameInv, FramePlan
  <2>2. CASE BuildNext
    BY <2>2 DEF BuildNext, Marked, Sending
  <2>3. CASE BuildDone
    BY <2>3 DEF BuildDone, Marked, Sending
  <2>4. CASE PutBack
    <3>1. pc = "put_back" /\ pc' = "mark" /\ send' = send /\ send = {}
      BY <2>4 DEF PutBack, FrameInv, FramePlan, frameVars
    <3> QED
      BY <3>1 DEF Marked, Sending
  <2>5. CASE EvictRegistry
    BY <2>1, <2>5 DEF EvictRegistry, Marked, Sending, frameVars
  <2> QED
    BY <2>2, <2>3, <2>4, <2>5
<1>3. /\ transmitted_bytes_cumulative' = transmitted_bytes_cumulative
      /\ \A q \in Registry!Resident \cap Blits :
            q \in Registry!Resident' /\ pages'[q].print = pages[q].print
            /\ pages'[q].snap = pages[q].snap
  <2>1. CASE BuildNext
    BY <2>1, BuildSnap DEF BuildNext, Base
  <2>2. CASE BuildDone \/ PutBack
    BY <2>2 DEF BuildDone, PutBack, Registry!TakePendingDeletes, Registry!PutBackPendingDeletes,
                Registry!Resident, registryVars
  <2>3. CASE EvictRegistry
    <3>1. /\ Registry!EvictToBudget(LayoutVisible(scroll_y_px))
          /\ transmitted_bytes_cumulative' = transmitted_bytes_cumulative
      BY <2>3 DEF EvictRegistry, Registry!EvictToBudget
    <3>2. PICK V : /\ V \subseteq Registry!Resident \ LayoutVisible(scroll_y_px)
                   /\ Registry!Resident' = Registry!Resident \ V
                   /\ \A q \in Registry!Resident' : pages'[q] = pages[q]
      BY <3>1, EvictEffect, Zenon DEF Base
    <3> QED
      BY <3>1, <3>2, BlitsAreVisible
  <2> QED
    BY <2>1, <2>2, <2>3
<1> QED
  BY <1>1, <1>2, <1>3, CatchUpKeeps

(* the marks, each of which ages all that was sent by one page,            *)
LEMMA CatchUpMarks ==
    ASSUME Base, FrameInv, CatchUpInv, MarkNext, UNCHANGED loopVars
    PROVE  CatchUpInv'
<1> DEFINE p == First(todo)
<1>1. /\ UNCHANGED <<contentVars, bitmapVars, planVars, send, forced>>
      /\ pc = "mark" /\ pc' = "mark" /\ Registry!MarkTransmitted(p, PrintOf(p))
  BY DEF MarkNext, loopVars
<1>2. p \in todo /\ Marked' = Marked \cup {p}
  BY FrameMarks
<1> HIDE DEF p
<1>3. /\ p \in send /\ todo \subseteq send /\ send \subseteq Blits
      /\ p \notin Marked /\ Marked \subseteq send
  BY <1>1, <1>2 DEF FrameInv, FramePlan, Planned, Marked, Sending
<1>4. PrintOf(p) \in Prints /\ PrintOf(p) # None
  BY <1>3, BlitsArePages, PrintsAreNotNone
<1>5. /\ Registry!Resident' = Registry!Resident \cup {p}
      /\ \A q \in Registry!Resident \ {p} : pages'[q] = pages[q]
      /\ pages'[p].print = PrintOf(p)
  BY <1>1, <1>4, MarkEffect
<1>6. /\ pages'[p].snap = transmitted_bytes_cumulative
      /\ transmitted_bytes_cumulative' = transmitted_bytes_cumulative + PageBytes
  BY <1>1, <1>4, MarkSnap
<1>7. transmitted_bytes_cumulative \in Nat /\ PageBytes \in Nat
  BY StorageAssumption DEF Base, RegistryInv, Registry!TypeOK
<1>8. ASSUME Roomy PROVE Sent'
  <2>1. PICK S \in SUBSET (Blits \ send) :
           /\ Earned(Cardinality(S) + Cardinality(send))
           /\ Fits(S \cup Marked, Cardinality(S) + Cardinality(Marked))
    BY <1>1, <1>8 DEF CatchUpInv, CatchUp, Sent, Planned
  <2>2. Blits' = Blits /\ \A q : PrintOf(q)' = PrintOf(q)
    BY <1>1, SameFrame DEF bitmapVars
  <2>3. Earned(Cardinality(S) + Cardinality(send))'
    BY <1>1, <2>1, <2>2 DEF Earned, Spent, planVars
  <2>4. /\ Cardinality(S) \in Nat /\ Cardinality(Marked) \in Nat
        /\ Cardinality(Marked') = Cardinality(Marked) + 1
    <3>1. S \subseteq Pages /\ Marked \subseteq Pages
      BY <1>3, BlitsArePages
    <3>2. IsFiniteSet(Marked) /\ Cardinality(S) \in Nat /\ Cardinality(Marked) \in Nat
      BY <3>1, CountPages
    <3> QED
      BY <1>2, <1>3, <3>2, FS_AddElement
  <2> DEFINE n == Cardinality(S) + Cardinality(Marked)
  <2>5. n \in Nat /\ Cardinality(S) + Cardinality(Marked') = n + 1
    BY <2>4
  <2>6. Fits(S \cup Marked, n)
    BY <2>1
  <2> HIDE DEF n
  <2>7. (n + 1) * PageBytes = n * PageBytes + PageBytes /\ n * PageBytes \in Nat
    BY <1>7, <2>5, Product
  <2>8. \A q \in S \cup Marked' :
           /\ q \in Registry!Resident' /\ pages'[q].print = PrintOf(q)'
           /\ transmitted_bytes_cumulative' - pages'[q].snap <= (n + 1) * PageBytes
    <3> SUFFICES ASSUME NEW q \in S \cup Marked'
                 PROVE  /\ q \in Registry!Resident' /\ pages'[q].print = PrintOf(q)
                        /\ transmitted_bytes_cumulative' - pages'[q].snap <= (n + 1) * PageBytes
      BY <2>2
    <3>1. CASE q = p
      BY <1>5, <1>6, <1>7, <2>7, <3>1
    <3>2. CASE q # p
      <4>1. q \in S \cup Marked
        BY <1>2, <3>2
      <4>2. /\ q \in Registry!Resident /\ pages[q].print = PrintOf(q)
            /\ transmitted_bytes_cumulative - pages[q].snap <= n * PageBytes
        BY <2>6, <4>1 DEF Fits, Registry!IsFresh
      <4>3. pages[q].snap \in Nat /\ pages'[q] = pages[q] /\ q \in Registry!Resident'
        BY <1>5, <3>2, <4>2 DEF Base, RegistryInv, Registry!TypeOK, Registry!PageEntry
      <4> QED
        BY <1>6, <1>7, <2>7, <4>2, <4>3
    <3> QED
      BY <3>1, <3>2
  <2>9. Fits(S \cup Marked, Cardinality(S) + Cardinality(Marked))'
    BY <2>5, <2>8 DEF Fits, Registry!IsFresh
  <2> QED
    BY <1>1, <2>1, <2>2, <2>3, <2>9 DEF Sent
<1>9. Planned /\ Planned' /\ UNCHANGED <<contentVars, bitmapVars, forced>>
  BY <1>1 DEF Planned
<1> QED
  BY <1>8, <1>9, StillPlanned

(* the flush,                                                              *)
LEMMA CatchUpFlushes ==
    ASSUME Base, FrameInv, CatchUpInv, FlushFrame, UNCHANGED loopVars
    PROVE  CatchUpInv'
<1>1. /\ UNCHANGED <<contentVars, bitmapVars, planVars, forced, pages,
                     transmitted_bytes_cumulative>>
      /\ pc = "flush" /\ pc' = "drawn"
  BY DEF FlushFrame, Registry!ShipDeletes, loopVars
<1>2. Marked = send /\ send \subseteq Blits
  BY <1>1 DEF FrameInv, FramePlan, Planned, Marked, Sending
<1>3. failed_pages' \subseteq Bad
  BY <1>1 DEF CatchUpInv, bitmapVars
<1>4. CASE ~Roomy
  BY <1>3, <1>4 DEF CatchUpInv, Roomy
<1>5. CASE Roomy
  <2>1. CatchUp /\ Planned /\ Linked
    BY <1>1, <1>5 DEF CatchUpInv, Planned, Linked
  <2>2. PICK S \in SUBSET (Blits \ send) :
           /\ Earned(Cardinality(S) + Cardinality(send))
           /\ Fits(S \cup send, Cardinality(S) + Cardinality(send))
    BY <1>2, <2>1 DEF CatchUp, Sent
  <2>3. Blits' = Blits /\ \A p : PrintOf(p)' = PrintOf(p)
    BY <1>1, SameFrame DEF bitmapVars
  <2>4. Cardinality(S \cup send) = Cardinality(S) + Cardinality(send)
    <3>1. S \subseteq Pages /\ send \subseteq Pages /\ S \cap send = {}
      BY <1>2, BlitsArePages
    <3>2. IsFiniteSet(S) /\ IsFiniteSet(send) /\ Cardinality(S) \in Nat /\ Cardinality(send) \in Nat
      BY <3>1, CountPages
    <3>3. Cardinality(S \cup send) = Cardinality(S) + Cardinality(send) - Cardinality(S \cap send)
      BY <3>2, FS_Union
    <3>4. Cardinality(S \cap send) = 0
      BY <3>1, FS_EmptySet
    <3> QED
      BY <3>2, <3>3, <3>4
  <2>5. Earned(Cardinality(S \cup send)) /\ Fits(S \cup send, Cardinality(S \cup send))
    BY <2>2, <2>4
  <2>6. PICK T \in SUBSET Blits : Earned(Cardinality(T)) /\ Fits(T, Cardinality(T))
    BY <1>2, <2>5
  <2>7. Earned(Cardinality(T))'
    BY <1>1, <2>3, <2>6 DEF Earned, Spent, planVars
  <2>8. Fits(T, Cardinality(T))'
    BY <1>1, <2>3, <2>6 DEF Fits, Registry!IsFresh, Registry!Resident
  <2>9. Settled'
    BY <2>3, <2>6, <2>7, <2>8 DEF Settled
  <2>10. CatchUpBounded'
    BY <1>1, <2>1 DEF CatchUp, CatchUpBounded, CatchUpFrames
  <2>11. last_layout_key' = dark' /\ ClampScroll(layout, scroll_y_px', Viewport) = scroll_y_px'
    BY <1>1, <2>1 DEF CatchUp, bitmapVars, contentVars
  <2> QED
    BY <1>1, <1>3, <2>9, <2>10, <2>11 DEF CatchUpInv, CatchUp, Polling, Planned
<1> QED
  BY <1>4, <1>5

(* and what the terminal does, or nobody.                                  *)
LEMMA CatchUpStutters ==
    ASSUME CatchUpInv, TerminalEvicts \/ UNCHANGED vars
    PROVE  CatchUpInv'
<1>1. UNCHANGED <<registryVars, contentVars, bitmapVars, planVars, pc, send, todo, forced>>
  BY DEF TerminalEvicts, vars, drawVars, frameVars, loopVars
<1>2. /\ Blits' = Blits /\ \A p : PrintOf(p)' = PrintOf(p)
  BY <1>1, SameFrame DEF bitmapVars
<1>3. /\ Registry!Transmitted' = Registry!Transmitted /\ Marked' = Marked
      /\ (Polling' <=> Polling) /\ (Planned' <=> Planned)
      /\ (Linked' <=> Linked) /\ (Unplanned' <=> Unplanned)
  BY <1>1 DEF Registry!Transmitted, Registry!Resident, Marked, Sending, Polling, Planned,
     Linked, Unplanned, registryVars, planVars
<1>4. \A S, n : Fits(S, n)' <=> Fits(S, n)
  BY <1>1, <1>2 DEF Fits, Registry!IsFresh, Registry!Resident, registryVars
<1>5. \A n : Earned(n)' <=> Earned(n)
  BY <1>1, <1>2 DEF Earned, Spent, planVars
<1>6. Settled => Settled'
  BY <1>1, <1>2, <1>3, <1>4, <1>5 DEF Settled
<1>7. Sent => Sent'
  BY <1>1, <1>2, <1>3, <1>4, <1>5 DEF Sent
<1> QED
  BY <1>1, <1>3, <1>6, <1>7 DEF CatchUpInv, CatchUp, CatchUpBounded, CatchUpFrames, Roomy,
     planVars, bitmapVars, contentVars

(* CatchUpInv holds after every step.                                      *)
LEMMA CatchUpStep == Base /\ FrameInv /\ CatchUpInv /\ [Next]_vars => CatchUpInv'
<1> SUFFICES ASSUME Base, FrameInv, CatchUpInv, [Next]_vars PROVE CatchUpInv'
  OBVIOUS
<1>1. CASE DrawStep
  <2>1. UNCHANGED loopVars
    BY <1>1 DEF DrawStep
  <2> QED
    BY <1>1, <2>1, CatchUpPopup, CatchUpTriggers, CatchUpRenders, CatchUpPlans, CatchUpBuilds,
       CatchUpMarks, CatchUpFlushes
    DEF DrawStep, Draw
<1>2. CASE AfterDraw
  BY <1>2, CatchUpAfterDraw
<1>3. CASE BatchDone \/ SettleTimeout \/ Input \/ Idle
  BY <1>3, CatchUpIdles
<1>4. CASE TerminalEvicts \/ UNCHANGED vars
  BY <1>4, CatchUpStutters
<1> QED
  BY <1>1, <1>2, <1>3, <1>4 DEF Next, System

(* ... and at first.                                                       *)
LEMMA CatchUpInit == Init => CatchUpInv
<1> SUFFICES ASSUME Init PROVE CatchUpInv
  OBVIOUS
<1>1. pc = "draw" /\ forced = 0 /\ pending_cold_redraw = FALSE /\ failed_pages = {}
  BY DEF Init
<1> QED
  BY <1>1, AtRest

(* Where every page can be rendered and all of them fit the storage, the   *)
(* frames that are drawn without a poll in between end, whatever the jump  *)
(* or toggle they follow and whenever the post-scroll invalidation falls:  *)
(* each of them renders a page for good or sends two.                      *)
THEOREM CatchUpEnds == Spec => [](Roomy => CatchUpBounded)
<1>1. CatchUpInv => (Roomy => CatchUpBounded)
  BY DEF CatchUpInv, CatchUp
<1> QED
  BY <1>1, BaseInit, BaseStep, TerminalInit, FrameStep, CatchUpInit, CatchUpStep, PTL DEF Spec

=============================================================================
