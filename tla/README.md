# A TLA+ verification of termpdf-rs

termpdf-rs shows PDF documents in a terminal. Three of its parts are hard. It
keeps a remote image store, the terminal's, in step with a local one that changes
under scrolling, colour changes, highlights and memory budgets; the terminal
confirms nothing, drops images by itself, and is reached through a diff that drops
what it believes is already there. It keeps files that other processes and crashes
may meet at any moment: a cache of bitmaps, the highlights in the PDF itself, a
text index, a session. And it has one event loop for keys in five modes and a
mouse that works in all of them. This project models the three.

Contents: [inventory](#inventory), [modules](#modules), [runs](#runs-and-bounds),
[fairness](#fairness), [proofs](#proofs),
[findings](#where-the-code-and-its-comments-disagree),
[observations](#observations-without-a-run), [not modelled](#not-modelled),
[plan](#plan).

## Inventory

| component | state | operations | what makes it correct | modelled |
|---|---|---|---|---|
| kitty image registry, `kitty_pages.rs` | `pages` (fingerprint, payload, transmit snapshot per page), `lru`, `pending_deletes`, two byte counters | build, mark, invalidate one / all, evict to two budgets, take / put back deletes | map and deque agree; the counters are exact; no delete for a live image; eviction in LRU order, bounded, never of pinned pages; no image leaked | whole |
| image ids, `app.rs`, `kitty_pages.rs` | none | `stable_kitty_id`, `id_for` | injective, never 0 | whole |
| page layout, `layout.rs` | page offsets of one zoom level | `build`, `visible_pages`, `page_at`, `clamp_scroll` | the binary searches return what the offsets say | whole |
| frame plan, `ui.rs` | none | `plan_cold_render`, `plan_transmit_deferrals`, `is_long_jump` | budgets used, right pages deferred | whole |
| kitty draw path, `ui.rs` | the App's caches, `DrawScratch`, what the last frame left | `draw`, `draw_pages_kitty_inner` | what is on screen has an image, with the right pixels | frame at one zoom level |
| run loop and idle work, `main.rs` | dirty / settle flags, burst count, scroll direction | poll, batch, settle, prefetch, upgrade | converges when input stops; always polls again | yes, without quitting and text indexing |
| page cache and overlay tiers, `app.rs`, `ui.rs` | `page_cache`, `overlay_cache`, `highlights_baked_cache`, Fast marks | render, trim by distance and by bytes, rebuild by layout key | no stale or foreign bitmap, Fast marks exact | bitmaps and marks, not the overlay tiers |
| disk cache, `disk_cache.rs` | one directory of files per PDF, touched by detached threads and other processes | load, store, evict | what is loaded is whole and of this document; the sweep reaches its budget, oldest first; no litter | whole |
| placement and clearing, `kitty_pages.rs`, `ui.rs` | `last_placed`; ratatui's buffer, the terminal's grid | place, clear page area, paint loading labels | the grid shows the frame, no stale cell remains | whole |
| delete escapes, `kitty_pages.rs` | none | serialize, parse | round trip | no |
| canvas draw path, `compose.rs`, `ui.rs` | recompute keys | `ensure_image` | a key change recomputes | no |
| navigation, jump list, marks, `app.rs` | scroll, layout key, jump list and index, marks | scroll, pages, sections, links, back, forward, zoom | back and forward return to the places that were left | without horizontal panning |
| key dispatch and modes, `keys.rs`, `main.rs` | mode, pending chord, awaited answer, panel, hints, help | one handler per mode, the mouse in all | modes agree, Esc leaves them one by one | all modes and keys but panning and colours of highlights |
| visual selection, `app.rs`, `textlayout.rs`, `ui.rs` | anchor and head over cached page texts | motions, text objects, drag, yank | what is painted, yanked and saved agree; nothing is left out of a yank | whole |
| links and hints, `links.rs`, `app.rs` | labels, typed prefix, the click noted at button down | resolve, hit test, narrow, follow | every label can be typed and picks its link | whole |
| table of contents, `outline.rs`, `app.rs`, `ui.rs` | cursor, filter, scroll, whether open | keys, wheel, click, drawing | the cursor is drawn after a key; a click takes the row that is drawn | whole |
| search and text index, `search.rs`, `search_index.rs`, `main.rs` | hits and current hit; indexed text, page starts, the file | search, index a page, persist, load | no page with a match is withheld; the file is the whole document; indexing ends | pdfium's search is an input |
| highlights, `highlight.rs`, `pdfhighlights.rs`, `app.rs` | store, groups, revision, the document's annotations, the PDF | yank, delete with a prompt, save, load | a crash loses at most the action in progress; others' annotations stay | whole |
| session file, `session.rs` | position, marks, zoom, colour | save at exit, load | restores where the user was | content and time of saving |
| terminal setup, teardown, signals, `main.rs` | raw mode, keyboard protocol stack | enter, leave, panic, signal | left as it was found | no |
| render worker, `render_worker.rs` | none (a stub that never answers) | | | no: callers fall back |
| PDF rendering, dark mode, `pdf.rs`, `dark.rs` | none | | | a render succeeds or fails |
| command mode, `cmd.rs` | none of its own | a line to a command, its effect | | the effects |
| command line, clipboard, logging | none to speak of | | | no |

How they meet: `run_loop` is the only thread that draws. It calls `draw`, which
calls the registry; idle work between two polls calls the same registry and the
same caches, and writes to the terminal directly; key handlers change what a
frame should show and may invalidate every transmit. Key handlers and frames meet
in the `App`: a frame lays out anew, moves the scroll position and drops page texts
that the next key may need. All of it is sequential, so the interleavings that
matter are between *steps of different handlers*: what a frame put off, what an
idle tick did before the next frame, which input of a batch came first, and what
the terminal did meanwhile. Real concurrency exists in two places, both on files:
the detached threads that evict the bitmap cache and write the text index, and
other viewers of the same PDF.

The hard behaviours, with their lines, are listed under `hazards` in
`PROJECT.json`.

## Modules

| module | models | EXTENDS |
|---|---|---|
| `KittyRegistry` | the image registry: one action per method, any caller | community modules |
| `KittyRegistryProofs` | its theorems | `KittyRegistry`, `TLAPS`, instance of `LayoutProofs` |
| `MCKittyRegistry` | TLC instances of it | |
| `Layout` | offsets, visible range, page owner, scroll clamp, as definitions | |
| `LayoutSearch` | the loops that compute them, one action per probe or exit | `Layout` |
| `LayoutProofs` | lemmas that several proofs share: induction over `Nat`, least and greatest elements, orderings, recursive functions and folds, `Build`, the deferrals | `Layout`, `DrawPlan`, `TLAPS` |
| `DrawPlan` | the pure decisions of a frame, on page sets | |
| `ImageId` | ids with a symbolic width | |
| `TextLayout` | the text of a page: lines, motions, text objects, bands, extraction | community modules |
| `Links` | link actions, hit test, hint labels and their matching | |
| `SearchIndex` | the text index, its search, its file over sessions | |
| `Placement` | where pages go in the image area, and what reaches the terminal's grid | `Layout`, community modules |
| `MCAlgorithms` | TLC instance of `LayoutSearch`, `DrawPlan`, `ImageId`, `TextLayout`, `Links`, `SearchIndex`, `Placement`, one part each | |
| `AlgorithmProofs` | theorems about all of these parts but the index | `MCAlgorithms`, `LayoutProofs` |
| `SearchIndexProofs` | theorems about the index | `SearchIndex`, `LayoutProofs` |
| `DrawFrame` | a frame, call by call, and what the terminal makes of it | `Layout`, `DrawPlan`, instance of `KittyRegistry` |
| `RunLoop` | the loop, inputs, idle work; the invariants and liveness of the whole | `DrawFrame` |
| `RunLoopProofs` | theorems, in four parts: that the loop implements `KittyRegistry`; the terminal and leaks; bitmaps; the length of a catch-up | `RunLoop`, `LayoutProofs`, instance of `KittyRegistryProofs` |
| `RunLoopClaims` | promises of comments that the code does not keep | `RunLoop` |
| `MCRunLoop` | TLC instances of it | |
| `DiskCache` | the bitmap cache, one step per system call, viewers and sweeps | community modules |
| `Highlights` | store, document, file; saving, crashes, restarts; when the session is written | community modules |
| `DiskCacheProofs`, `HighlightsProofs` | their theorems | `DiskCache` / `Highlights`, `TLAPS`, instance of `LayoutProofs` |
| `MCStores` | TLC instance of both | |
| `Navigation` | where the reader is, the jump list, marks, what a session keeps, as operators on a record | `Layout` |
| `Toc` | the outline panel, as operators on a record | |
| `Input` | every key and mouse event, and frames, over the whole of the interface | `Navigation`, `Toc`, `Links`, `TextLayout` |
| `InputProofs` | theorems about it | `Input`, `LayoutProofs` |
| `MCInput` | TLC instance of it, in three parts | |

**KittyRegistry.** `pages` is the map of `KittyPageRegistry`; an entry holds the
fingerprint it was transmitted with (`print`, `NoPrint` when it is not), the
fingerprint its cached payload was built for and the cumulative snapshot. A
fingerprint stands for the layout key and the page revision together, with the
decoded size `DecodedBytes` gives it. `lru` is the deque, as the set of pages
used less recently than each resident page: the order is all its callers see.
`drained` holds the deletes between `take_pending_deletes` and either the write
or `put_back_pending_deletes`. Every subtraction saturates, as every one of
`kitty_pages.rs` does; `SubtractionsNeverClip` proves that none has to.

**LayoutSearch.** `search` names the loop that runs, `lo` and `hi` its bracket;
`Past` is the comparison of each loop. The result is compared with the
definitions of `Layout`, which say directly which pages meet a window.

**DrawFrame.** `pc` walks the frame: triggers (popup closed, long jump, settle after
scrolling), `ensure_layout`, cold renders under their budget, cache trimming,
the transmit plan, one build per page, the ride-along of the deletes in front of
the first transmit, marks, eviction, flush. Marks come *before* the flush, as in
the code. The terminal is external: `held` maps a page's id to the image stored
(fingerprint and bitmap), `screen` is what is placed, `top_cell` is the content
of the topmost page's first cell. The transmit bytes ride in that cell, so
ratatui's diff drops them when cell and bytes equal the last frame's.

**RunLoop.** `poll` is the wait for an event; an input moves to `batch`, where more
inputs may follow before the frame; a quiet poll gives the settle frame and
later ones idle work: prefetch ahead in the scroll direction
(`warm_next_uncached`, in three steps, as build, write and mark can be separated
by a failed write), then `upgrade_one_visible_to_sharp`. A frame that puts work
off is followed by another frame without a poll (`AfterDraw`). `forced`, `inputs`,
`faults` and `lost_writes` are history and bounds.

**TextLayout.** A page's text is the sequence of its characters in pdfium's order
with the line each belongs to; `ClusterLines` is the code's grouping by the median
height. In the code a line keeps its smallest and largest index; the operators take
the set of its characters where the code filters by line and the interval where it
does not, which differ on a page of two columns. Coordinates are integers. A character for
which pdfium has no unicode value (`CharCell.ch` is `None`) is `NoChar`: it counts as a
blank, can be painted as selected, and `Extract` leaves it out, as `extract` does.

**Links.** A link's action is a record; `PrefixCount`, `GenHints` and `HintMatches` follow
`gen_hints` and `hint_keystroke`.

**SearchIndex.** The index is the concatenated text and the byte offset of each
page, as in the code. A character has a width, so that byte and character offsets
differ, and a lower case. The detached writer is the set of the indexes still to be
written: write, failure and restart may come at any time after.

**Placement.** A frame (`ShowFrame`) is any scroll position, pan and set of pages that have
a placement. `Drawn` is the buffer it leaves: `ClearPageArea`, then `PlacePage` per
page, then the loading labels of pages without a placement. Cells are numbered along
the rows. A row of a page is one symbol in its first cell, and the cells it
paints are marked skip. `last_placed` is the code's. External are the buffer ratatui
hands out (reset for every frame), its diff (`Written`: skip cells and the cell
after a wide symbol are left out, and a wide symbol, old or new, makes the cells
after it count as changed) and `grid`, what the terminal shows. The transmit that may
ride in a symbol is left out; it is `DrawFrame`'s.

**DiskCache.** Pixels are a pair of the PDF's version and the bitmap's name, so that a wrong
file shows as a wrong pair. A store is four steps (directory, temporary file,
write, rename) and a sweep is one per directory, one for the total, one per removal
and one for the empty directories. Two viewers take these in any order, may die
before any of them, and the PDF may change. A temporary file is `old` once an hour
has passed. The files a sweep found are sorted by age (`ByAge`, ties in any order) into a
`queue`, which the deletion loop goes through from the front, passing over what it cannot
remove. `taken` and `orphans` of a sweep are history for the properties.

**Highlights.** `pdf`, `docAnnots` and `store` are the file, pdfium's document and the
program's list. A save is a step per page, then the rename, and the process may die
between any two. An annotation is one of four kinds: `ours`; `unplaced`, ours but without
readable, finite bounds, which a load skips and a save deletes (`IsOurs`, `Placed`); `foreign`;
and `untagged`, made by us but never given its Contents, which the code takes for
another tool's ever after. On a page pdfium may refuse deletions and `set_contents`, which
the code ignores (`ApplyBadly`), or to open the page, create an annotation or set its bounds,
which ends the save and leaves in the document what was done so far, an untagged annotation
included (`ApplyFails`); a later save may write that to the file. `SaveFails` is the
temporary file. An annotation's `id` is the yank that made it, which the code
does not know: `DeleteTakesOneYank` compares groups with it. A crash is the death of the
process: what was renamed stays. A power loss is not in the model, see the observations.

**Navigation, Toc, Input.** `Input` has one record `app` with the fields of `App` that events
change, and one action per group of keys of a handler in `keys.rs` (`PageKey`,
`ChordKey`, `VisualKey`, ...), per mouse event, and `Frame`. The operators on `app`
have the names of the methods. A key that `note_scroll_attempt` may swallow has both
outcomes. `Frame` is what `draw` does to this state: layout, the panel's scroll, and
the page texts that are dropped, by distance or by any choice of the byte budget.
`Resize` changes the image area at once and the layout at the next frame. `effect`
tells the properties what the last event yanked or followed.

**Refinement.** `RefinesRegistry` is `KittyRegistry!Spec` under the identity mapping of
the registry's variables: draw path, idle work and key handlers make no change
to the registry that its own specification does not allow. What is proved of
`KittyRegistry` therefore holds of the program wherever the refinement does.

## Runs and bounds

| run | asks | bounds and why they suffice |
|---|---|---|
| `registry` | deque, counters, delete queue, epochs, eviction order | 3 pages and a cap of 2, so that an eviction has a choice of victims, pinned or not; fingerprints of size 1 and 2 and a budget of 2, so that a page can be re-marked with another size and one page can fill the budget; 3 bytes per epoch (`MaxCumulative`), enough for every overlap of two intervals; pages are symmetric |
| `algorithms` | the pure algorithms, each over all small inputs | searches: every document of up to 4 pages of heights 0 to 2 with gap 0 or 1, every position from before to after it, three window heights; deferrals: every frame of 5 pages with a budget of 2; ids of 3 bits instead of 32; text: every page of 6 characters in 2 or 3 lines of letters, blanks (and stops), raised and lowered, and of 4 in one line with characters without ink and without a box, and pages of two columns; hints: up to 11 links over 3 letters, past the 9 labels there are; index: documents of up to 3 pages of up to 2 characters of two widths and cases, two sessions, a lost write, an unreadable page; cells: an area of 3 rows and 5 columns over documents of two or three pages, as wide as the area, narrower and centred, and wider and with more rows than can be addressed; seven scroll positions, so that pages are whole, cut off, meet in a row or are clipped to nothing; every pan, set of pages placed and eviction, and popups |
| `loop_spread` | what the program believes of the terminal, what is on screen | 4 pages of height 3, a window of 6, cells of 2: windows meet two or three pages, so that three can need a transmit and one waits; 3 inputs of scroll, jump, edit, search, colours, refresh |
| `loop_jump` | leaks, Fast marks, refinement | 5 pages as high as the window: long jumps, evictions on both sides (2 registry slots, 2 cache slots), a page that cannot be rendered, one that cannot be sharpened, one failed write, one image dropped by the terminal, popups |
| `loop_live` | convergence, sharpening, polling | as `loop_spread` with the last page not renderable, 2 inputs |
| `stores` | the files that survive crashes | two viewers (symmetric), each with its sweep, one page in two colours of sizes 1 and 2 and a budget of 1, so that a sweep has to choose and may remove all; every population and order of age at the start; two starts, one store and one edit of the PDF: enough for two processes to write, read and sweep one directory. Two documents of two pages, each with a foreign annotation: one with an annotation of ours whose bounds cannot be read, one with one of ours in a group and, on the other page, one without; two yanks, one failure per session, one restart |
| `input` | modes, selections, jumps under every order of events | a document of 4 pages in two layouts, three pages with text, two with links; a jump list of 2, one digit 3 as the count, filters and counts of one key. Split in `MCInput`: `travel` (positions and jumps in both layouts), `panels` (all modes, the selection not extended), `select` (selections by keys and mouse, chords
and placing with no button held, with frames that drop texts). Together they fire every action |
| five claim runs | one comment each | the smallest instance that shows the disagreement |

Constants that are smaller than the program's: page slots (code 32, clamped to
4..256), storage budget (768 MB, clamped to 32..4096 MB), burst of rapid input 2
(code 3), prefetch depth 2 (code 8), eviction margin 1 (code 3), two warms per
idle tick. `MaxColdRenders`, `MaxTransmits` and `JumpViewports` are the code's.
`MaxInputs`, `MaxFaults`, `MaxLostWrites` and `MaxCumulative` bound behaviours;
everything else is finite by itself.

In `input`, scrolling moves by a page of the larger layout or two of the smaller; pages are
4 and 2 high with a gap of 2 and a cell is 2, so that windows meet page edges, gaps
and middles. Fractions of a page are quarters, as fine as the pixels of the larger layout:
the run meets a view whose top is on the current page and one whose top is above it.
That the top is in the gap below the current page needs a view of less than two gaps; only
the theorem covers it.

Deadlock is checked in every run but `algorithms` and `stores`, where a behaviour ends with
its search or with its last start.

In `stores`, a save in which pdfium refuses something has `MaxFailures` per session, and in
each at most `MaxRefused` deletions and Contents of one page: one of them shows what a
leftover does, and more add only more of the same. `revision` is 0 or 1, as all the code
asks of `highlight_revision` here is whether it has left 0 (app.rs:3027).

What the properties of the newer modules say, beyond their names: `ShownIsTaken`, that the
characters in the yanked text, and in the text that `:export` later finds under the
saved rectangles, are those under the painted bands that have a unicode value, and no
others (characters with ink, on pages `InReadingOrder`: "Stream order is usually close to
reading order for body text", textlayout.rs:646); `MotionsAgree`, that `w` visits every word in order, `b`
undoes it, and `e`, `iw`, `is` agree; `FilterIsExact`, that the index never hides a page
from pdfium's search and, once complete, sends it to no page in vain;
`SweepReachesBudget`, that a sweep which leaves files untried has brought what it found
down to the budget, whoever else removed files meanwhile; `SweepTakesOldest`, that it has
tried every file older than one it took, and that without the last one it took, what it
found would still be over the budget; `SavedIsStore`, that in a session in which pdfium and
the disk did what they were asked to, the file holds the store of a moment ago, wherever
the process dies; `ForeignKept`, that other tools' annotations stay in the file on their
page and in their order, through saves in which deletions, `set_bounds`, `set_contents` or
whole pages fail; `InputSound`, that a
selection exists exactly in Visual mode, that modes which take the next key exclude
each other, that Esc always leaves one of them, and that the panel's cursor and clicks
mean what is drawn; `YankCoversSelection`, that no readable page of the selection is left
out of a yank whatever frames dropped; `JumpsReturn`, that from every reachable state
a recorded move, Ctrl-O, Ctrl-I and Ctrl-O lead there, back, there and back (the last
two if the move led to another point at all: see the observation on `G`). `Regains` says
what back means: the very scroll position, up to a pixel that rounding takes, if the
view's top was on the current page, the page in the middle of the view. If it was above
that page, back is that page's top and not where the reader was, see the observations;
`GridShowsFrame`, that after every frame each cell of the grid shows what the frame means
it to show, whatever earlier frames wrote and although only differences are written.

## Fairness

`RunLoop!Spec` has weak fairness of `System`, the disjunction of everything the
loop itself does: the loop never stops by itself, `event::poll` has a timeout, and no
call in it waits for another thread. Input and the terminal's own evictions may
come or not. `LayoutSearch` has weak fairness of its next step: the search is a
loop of one thread. `SearchIndex` has weak fairness of indexing a page (the idle path
returns as long as the index is incomplete) and of the write (a spawned thread
runs); a page's text becoming readable again, failures and restarts may or may not
happen. `DiskCache`, `Highlights`, `Placement` and `Input` state safety only.

In `SettleTimeout` the burst count becomes 0 because the code sets it: the settle
branch calls `clear_input_burst` (main.rs:1054). Time alone would not do, since the settle
poll waits 120 ms and inputs count as rapid for `RAPID_SCROLL_THRESHOLD_MS`, 250 ms
(350 by the comment at app.rs:1141); the mutant `SettleInBurst` leaves the call out, and
`Converges` fails.

## Proofs

Every theorem is of the specification a run checks, with nothing replaced, and for all
values of the constants that satisfy the named assumptions. The bounds of the runs
(`MaxInputs`, `MaxFaults`, `MaxYanks`, ...) are constants without an upper limit here.
Every invariant and every action property of a passing run is proved, a few under the
hypotheses the table names; liveness is left to TLC.

| module | theorem | says |
|---|---|---|
| `KittyRegistryProofs` | `RegistryInvariant`; `TypeCorrect`, `LruMirrorsPagesAlways`, `ByteAccountingExact`, `LiveImagesSafe`, `EpochIntervalsAlways` | the registry's five invariants, under any order of its calls |
| | `SubtractionsNeverClip` | no saturating subtraction of the registry ever saturates |
| | `EvictionQueuesDeletes` | the action property `EvictedAreQueued` |
| | `EvictionPolicyHolds` | the action property `EvictionPolicy` |
| `RunLoopProofs` | `TypesHold` | types of the loop, the frame and the terminal |
| | `ImplementsRegistry` | `RefinesRegistry`: every step of the program is a call the registry allows, or none |
| | `RegistryInvariantInUse` | the registry's invariant, in the program |
| | `BeliefHolds`, `ScreenStaysHeld` | while `Calm`: what is believed transmitted is held, and nothing blank is on screen |
| | `ImagesAreNotOrphaned` | with one failed idle write at most: no image leaks |
| | `QualityHolds` | the Fast marks are exact |
| | `PixelsStayTrue` | while `Plain`: no image has the colours of another layout |
| | `FreshStaysCurrent` | while `Sharpening` and `Calm`: a fresh page shows the quality that is cached |
| | `CatchUpEnds` | where `Roomy`: a catch-up takes no more frames than the work there can be |
| `AlgorithmProofs` | `SearchInvariant`; `BracketAlways`, `SearchesCorrect` | the binary searches, for every document, window and position |
| | `BuildOrders` | `build` makes only layouts the searches may be given |
| | `IdsAlwaysDistinct` | image ids are injective and not 0, for every width |
| | `DeferralsAlwaysRight` | the transmits a frame puts off, for any number of pages in view |
| | `HintsAlwaysChoosable` | hint labels, for every alphabet and number of links |
| | `MotionsAlwaysAgree` | caret motions and text objects, on every page `load` makes |
| | `ShownIsAlwaysTaken` | yanked, saved and exported text are what is shown of the characters with a unicode value, on every page read line by line |
| | `GridAlwaysShowsFrame` | the terminal's grid, for every document, area and sequence of frames |
| `SearchIndexProofs` | `IndexInvariant`; `FileAlwaysWholeDocument` | the file, and what is about to be written to it, is the whole document |
| | `FilterAlwaysExact` | while `EqualWidths`: the index hides no page with a match |
| `InputProofs` | `InputInvariant`; `InputStaysSound` | modes, carets, panel, for every order of events |
| | `YanksCoverSelection` | nothing is left out of a yank, whatever frames dropped |
| | `JumpsAlwaysReturn` | back and forward, to the position or to the page's top (`Regains`), for every jump list and layout |
| `DiskCacheProofs` | `DiskInvariant`; `HitsAreRight`, `WholeOrNothing`, `SweepFreesEnough` | what is loaded is right, files are whole, sweeps reach the budget |
| | `NoMoreThanNeeded` | a sweep takes the oldest, and no more than it needs |
| `HighlightsProofs` | `HighlightsInvariant`; `ForeignStays`, `FileIsStore` | other tools' annotations stay in the file whatever fails; where nothing failed, the file has the store's highlights |
| | `DeleteIsOneYank` | the action property `DeleteTakesOneYank` |

### Assumptions on the constants

They are as weak as the proofs allow. Sets of pages, bitmaps and fingerprints are
finite where the code has a finite number of them; sizes, heights, gaps and budgets are
natural numbers; fillers (`None`, `NoPrint`) are no values of the sets they stand
beside. These say more:

* `PlaceableAssumption` (`DrawFrame`): wherever the view is clamped to, some page shows
  by a whole cell. Frames that show none end early in the code and change nothing.
* `RevisionsAssumption`: there are two revisions at least, so that an edit changes one.
* `LayoutsAssumption`: pages follow each other downwards. `BuildOrders` proves it of
  whatever `build` returns. `NavigationAssumption`: each layout key has one that `build`
  makes, of the same number of pages, at least one.
* `HalfAssumption`: an id has two bits at least (the code's have 32).
  `AlphabetAssumption`: there are two hint letters at least (the code has 23).
* `TextLayoutAssumption`: no blank is a full stop. `IsRawText` and `IsPageText` say what
  pdfium lists and what `load` makes of it; that the second follows from the first
  is proved (`LoadedPageIs`) for `AlgorithmProofs` and assumed of the pages of `Input`.
* `NavigationAssumption` also has a page's height below `FracScale`: a jump point's fraction is
  an f32, whose 24 bits tell more places of a page apart than it has pixels. The
  model's fraction is rounded down to one of these places, and back, and may lose a pixel, as
  the code's truncation to i64 may.
* `SearchIndexAssumption`: a line break has no other case, and a query none in it.
* `InputAssumption`: links and hits of a search lie on pages of the document.
* `PlacementAssumption`, `ZoomsAssumption`: what is put in the cell after a wide symbol
  does not reach the terminal; the documents that put something there are left out,
  and are observations below.
* `HighlightsAssumption`: in a PDF that is opened, highlights of ours in one group are
  of one yank. The group is all that is stored; the `id` is the model's name of the
  yank, so this says which yanks the groups of a file stand for. A file merged by another
  tool from two of ours, whose groups overlap, is outside.

`nextGroup` is a natural number without a limit; the code's u64 begins anew at 1 when a
file holds the group `u64::MAX` (app.rs:645). That case is not modelled.

### The registry

None of the invariants is inductive alone: that an eviction keeps the byte total
needs the deque to hold the map's pages, and a mark keeps the intervals only if
snapshots never exceed the cumulative count. `RegistryInvariant` proves their
conjunction. From it follows `SubtractionsNeverClip`: the code's `saturating_sub`
hides no miscount, since what mark, invalidate and evict take from the byte total is
part of it, and no snapshot exceeds the cumulative count. Sums over pages
are written with a fold over a set; the lemmas before the main theorem say how such
a sum changes when one page changes or leaves.

`EvictionPolicy` compares what an eviction takes with what the two budgets ask. A page is
evicted unless those before it in the queue cover both deficits. What covers them grows with
the set of pages (`CoverGrows`), so the victims are an initial run of the pages that may
go; the front one of those that are left (`FrontOf`) shows that the run covers
the deficits, and the last victim that a shorter one does not.

`ImplementsRegistry` goes action by action (`RegistryStep`): each step of `Next` makes one
of `Registry!Next` or leaves its variables alone, from types alone. What is
proved of the registry is then carried over: `SameSpec` shows that the operators of the
two instances are the same, and `RegistryInv` is the registry's invariant in the loop's
variables. From here on `Base == TypeInv /\ RegistryInv` is known of every state.

### The terminal

The marks of a frame are made before its bytes are out, deletes ride in front of the
first transmit, and the diff may drop the cell both ride in. What holds at which step of
a frame is `FrameInv`, in four parts: what is still to be sent (`FramePlan`), that what is
sent was encoded for the print it is sent under (`FramePayloads`), that the deletes in hand
are for no image the frame keeps (`FrameDeletes`), and that the cell of the last frame is
one of the scroll position it was drawn at (`FrameCells`). On it rest, each
proved step by step:

* `BeliefInv`. The belief is true of all pages but those this frame has marked. That
  the diff dropping a cell does no harm needs one fact more: the image in the last
  frame's top cell is the one the terminal still holds. `Calm` is in it because the
  code cannot know of an image the terminal drops, and a failed idle write leaves the
  last cell out of step with the terminal; the runs have both, for other properties.
* `DeletesInv` and `LateDeletesInv`. While no idle write has failed, the last top
  cell's deletes are queued no more, so that a cell with deletes in it is new to the diff
  and written. A failed write of a page the terminal received all the same leaves an
  image the registry has not marked; then only deletes of pages that are still held are
  constrained. One failed write is as far as it goes: two of the same page can lose an
  image, see the observations.
* `ColourInv`. Cached bitmaps have the colours of `last_layout_key`, payloads and
  held images those of their print; `KeyInv` says at which steps the key is the current
  one. `Plain` (no popups) is needed: see the observation on colours and popups below.
* `SharpInv`. A fingerprint does not tell Fast from Sharp, so the quality of a cached
  bitmap, a payload and an image is tied to the one thing that decides what a render
  yields, the files on disk: each is Sharp exactly when the Sharp render is stored, but for pages
  whose image this frame, the next forced one or the idle warm will look at (`Owed`).
  Hence `Sharpening`, which is `Plain` with a disk cache. Without one the property does
  not hold: a page that was sharpened, dropped from the page cache and rendered anew is
  Fast there while the terminal still shows it Sharp.

`QualityTracked` is inductive as it stands.

`CatchUpBounded` counts frames that follow each other without a poll, each of which has
put work off. Under `Roomy` (every page can be rendered, the storage exceeds the document:
otherwise the code may go round for ever, see `failed_page` and the hazard at
ui.rs:807) each of them adds a page to the cached ones in view, or sends two for good.
`CatchUpInv` says that twice the frames so far are at most twice the pages that can be
blitted plus the pages that were sent in this catch-up (`Earned`), that these
are fresh and so recent that they cannot be at risk (`Fits`), and that layout and
scroll position stay as they are (`Linked`). While a frame is between plan and marks, the
pages in hand count too (`Sent`). The settle invalidation that may fall in the middle
discards what was sent, but a frame after it sends all that can be blitted.

### The files

`DiskInv` says what each name and temporary file may contain. Ids of temporary files
are not given twice; a viewer's directory is that of the edition it has open
(`Editions`, if the PDF does not change while it is being opened: `HitsAreRight` has
`EditWhileOpening` as its hypothesis, see the observation below); what is under a name
shows that name's bitmap (`Contents`); an orphan stays where it was until its directory is
swept (`Orphans`); and during the deletion loop, what is found and not yet removed
amounts to at most what is still to be freed plus the budget (`Freed`), where a
file that another process replaced or removed counts for the sweep as its entry
says; and the files taken, those to be tried and what is still to be freed fit each other
(`Taken`): no file taken is younger than one to be tried, and before the youngest of them
was taken not enough was free. Sizes are counted byte by byte, as the cardinality of a
set, so that a total over names needs no recursion.

`HlInv` has three parts beside the types. `ForeignInv`: the others' annotations are,
in order, those of the original file, in document and file. That a botched page keeps it
rests on lemmas about picking from a sequence: `Kept` drops nothing foreign (`KindOfPicked`),
and what is appended, tagged or not, is not foreign either. `SavedInv`: between
actions file, document and store agree on every page, and the pages to walk next time
are the store's (`Synced`); during a save the pages walked are as in the new store and
the rest as before the action (`InBetween`), hence a page that is not walked must be the
same in both, which is why the candidates are the pages of both stores. A failed save is
excluded until the next session, as in the property. `GroupInv`: over store,
document and file together a group belongs to one yank, and the next group is past
them all. It has to speak of the document too: a failed save leaves
annotations in it that no store has, and a later save writes them.

### The algorithms

`PastMonotonic` says that each comparison holds of an initial run of pages; with it a
probe that cuts off the page it looked at cuts off only pages of which the comparison
is known. `SearchInvariant` joins that bracket with what the first loop of
`visible_pages` leaves for the second, which `ResultMatches` alone does not carry over.
Ids: the base stays in the lower half of u32, so that the sum of base and page never
wraps and the folded branch of `id_for` is never taken.

Hint labels: `GenHints` gives single letters while they last and then prefixes with a second
letter. `PrefixCount` is the least number of prefixes that makes room for all links, so
that a prefix is no label, and letter and remainder of a label determine its link.

Text: `cluster_lines` is a fold over the characters from top to bottom. Each joins the last
line or opens the next one, hence lines are numbered without a gap (`LoadedPageIs`). The words
of a page are ordered by line and place; the least one after a word is where `w`
goes, and of that the greatest one before is where it came from. What a selection has on
a line is an interval of the line's characters: on a page that is read line by line, the
lines ascend with the stream, so the rectangle around those with ink contains the middles of
exactly these. With columns it does not (see the observations), which is
why `InReadingOrder` is a hypothesis of the property.

Cells: `Framed` says what any buffer of a frame looks like, around its wide symbols above all.
A flush writes the cells that differ, less those the diff leaves out. That the grid
then shows the new buffer if it showed the old one is proved of any two `Framed`
buffers, in three parts that need each other: plain cells (`ShowsCells`), the blank after a wide
symbol (`ShowsGaps`), and the cells a row of a page paints (`ShowsRows`, where
a label may be left). Apart from it, `Laid` follows the placement of pages one by one
and `DrawnBuffer` adds the labels: the buffer of a frame is `Framed` and means the frame
(`Means`). `PlaceInv` joins the two.

### The text index

`IndexInv` is short: the index is that of the first k pages (`PrefixIndex`), the file and the
copies of the writers that of all pages. `FilterIsExact` follows from it without any
further step of the system, by lemmas about the search that follow the code. The scan takes
non-overlapping matches from left to right, and one it skips lies in the page of one it
takes, since no match spans the line break between two pages. Byte offsets grow with
places. The forward cursor stops at the page that owns an offset (`Owns`), so that each
page with a match is listed once, in order. The offsets are those of the lower case
copy: `EqualWidths`, that a letter and its lower case are encoded in as many bytes, is a
hypothesis the code needs and does not check (see the observations).

### The interface

`InputInv` has a part for each module. `NavInv`: layout keys, scroll and jump list are of the
document, the index lies in the list, which exceeds its limit by one entry only while
the index is before its end, and the scroll position is one the layout and the
viewport allow. `TocInv`: the cursor is on an entry of the outline and, of
a list that is shown, in it. `ModesInv`: `ModesAgree`, and that no key of a chord is
pending in a mode that types text, where an Esc would uncover it. `AppInv`: carets, links,
hints, results and the noted click name things the document has. `Covers`: of what was
yanked last. First the operators on `nav` and `toc`, then the methods on `app`, then one lemma per
action. `JumpsReturn` and `EscapeLeaves` look ahead: they apply the operators to
a state, and so follow from the invariant by what the operators do. For `JumpsReturn` that is
`PointRegains`: to a fraction and back loses a pixel at most (`FractionLoss`), and as the place
was in the scroll range, the clamp of the way back changes nothing.

### Induction

The library's induction theorems take an operator and cannot be used with the installed
provers. Where a proof needs induction over natural numbers it takes the least
counterexample instead (`NatLeast`: a non-empty set of naturals has a least element,
which follows from finite intervals; `Climb`, from it). That a recursive
function on `0 .. n` exists and satisfies its equation is shown by the same
argument (`Iterates`), and from it that the folds of the community modules go through
the elements of their set one by one (`FoldExists`). What such a function computes is then
proved of the values one after the other, by `Climb`. Sorting is replaced by counting:
in a finite linear order the number of elements before one is a bijection (`Ranked`),
whose inverse lists the elements (`Ordering`). On it rest the order in which characters
become lines and links get labels.

For this, the models write the recursions of the code as such functions and its sorts
as orders by rank (`InOrder`): the provers know nothing of the sorting and filtering
operators of the community modules.

### Model-checked only

Liveness, which is out of the prover's reach: `Converges`, `EventuallySharp`, `KeepsPolling`,
`Terminates` and `EventuallyComplete`. Of the claims that do not hold, TLC's
counterexample is the evidence.

Outside the hypotheses of the theorems nothing is claimed, and most of it fails: belief
after a fault (the code cannot know), leaks after two failed idle writes, colours with
popups, quality without a disk cache, long catch-ups with pages that cannot be rendered
or a storage below the document, the index where lower case is longer or shorter, pages
of several columns (see above and the observations).

## Where the code and its comments disagree

Each item is a run that TLC finds violated.

* `failed_page`: a page whose render failed takes the frame's only cold render, in
  every frame, and is then not rendered. A cold page below it is put off each
  time; a frame that put work off is followed by another one without a poll, so
  the program redraws for ever and reads no key. `loop_live` has its failing page
  last, where nothing is below it.
* `forced`: two invalidations in a row with nothing else changed produce the same
  first cell twice. The diff drops it, the page is marked as transmitted, and an
  image the terminal has lost stays lost.
* `staged_delete`: `x` asks before it deletes the last highlight of the page; the wheel
  works while the question is open, and `y` deletes on the page that is current by
  then, not what was asked about.
* `twitch`: a drag within two cells leaves the click on a link pending, as its comment
  says, but also moves the head of the selection that the button began. The release
  then yanks and saves a highlight and follows the link.
* `preserved`: the cells of a page that stays in the layout's view, but by less than a
  cell, are left alone when the area is cleared, so that its placeholders keep the
  terminal from dropping its image. But the buffer was reset before the frame, so what
  is left alone is blank: the diff writes spaces over the placeholders. The test of this
  calls the function twice on one buffer, which ratatui never does.

## Observations without a run

Met while modelling, each kept in the model as the code has it:

* `upgrade_one_visible_to_sharp` returns what the first Fast page yields, so that a page
  whose sharp render fails keeps the ones below it Fast (`SharpBad`).
* An idle upgrade invalidates the page's transmit but asks for no frame (main.rs:1165).
* Colours switched and a popup opened in one batch: frames under a popup skip
  `ensure_layout`, idle work fills the cache with bitmaps of the new colours under the
  old layout key, and switched back they count as right (app.rs:1378).
* After `invalidate_all_transmits` every page in view is sent in one frame, whatever the
  cap (ui.rs:247); and two pages without a prior transmit make the current page wait
  although ui.rs:211 says it never does.
* A page's own bytes count as having flowed since its transmit (kitty_pages.rs:758).
* The byte budget drops the text of a selected page that is out of view; nothing
  loads it when the page comes back, so that its band is not painted (app.rs:1026,
  ui.rs:1981). A yank loads it again, which `YankCoversSelection` shows.
* On a page of several columns the bands of a selection take in characters between
  two stretches of a line that are not in the yanked text; `ShownIsTaken` is stated
  for pages `InReadingOrder`. TLC confirms that all pages of the run but those of two
  columns are.
* A character without a unicode value is painted as selected and lies in the saved
  rectangle, but is not in the yanked text (textlayout.rs:632). The status line says so only if
  a whole selection yields nothing. `ShownIsTaken` speaks of the others.
* Two failed idle writes of one page can lose an image. The page is evicted (its delete is
  queued), warmed again, and the first write fails: the page is resident, unmarked and its
  delete still queued. A frame sends that delete in its top cell and evicts the page once
  more. Warmed a second time, the write fails although the terminal has received it; the
  page is evicted again, and a frame whose top cell is the one of before puts the same
  delete in it. The diff drops the cell, and the image stays, neither resident nor
  queued. TLC finds this in 87 steps with 3 pages, a window of one, one slot in the page
  cache, a storage of two pages and Ctrl-L as the only input. It is why
  `ImagesAreNotOrphaned` allows one failed write.
* A catch-up may take more frames than the document has pages: the settle invalidation can
  fall in the middle of it and has pages sent again. `CatchUpFrames` is the bound that holds.
* Where the last pages fit one window, `G` at the end of the document moves nothing but notes
  the place all the same (app.rs:1365), so that the next Ctrl-O steps in place;
  `JumpsReturn` asks for the way forth only of moves that lead to another point.
* The text index finds matches in a lower case copy and uses their byte offsets in the
  page starts of the original. Letters whose lower case has another length (the Kelvin
  sign: three bytes and one) shift what follows, and a match is looked for on the wrong
  page (search_index.rs:215 and 246, search.rs:144). `EqualWidths` excludes them.
* The release of a button over the panel is swallowed: the click noted at button down
  stays pending and is followed by the next release elsewhere (keys.rs:656).
* `activate_link` notes the place unless the link leads to the current page, where
  its comment says every link click does (app.rs:1933).
* A PDF that changes between being opened and having its metadata read gives the old
  edition's renders to the new one's directory (`EditWhileOpening`).
* A save walks the pages of the store and of the last successful save; after a failed
  save, annotations already created in the document on a page that is in neither
  stay (`SavedIsStore` is about sessions without a failure).
* app.rs:1744 has a save per yank so that "a panic / SIGKILL / power loss" loses one yank
  at most, and pdfhighlights.rs:339 that the bytes are "durably on disk". `save_atomic` calls
  `flush` on the file, ignoring its result, and renames; neither file nor directory is
  synced. What a power loss leaves, be it an empty file under the PDF's name, is up to the file
  system. `SavedIsStore` is about panic and kill. A save that fails also leaves its temporary
  file.
* A highlight of ours with unreadable or non-finite bounds is skipped at load
  (pdfhighlights.rs:88 to 102) and deleted by the next save that walks its page, although the
  comment at pdfhighlights.rs:213 wants the predicate of the save to "mirror the load predicate
  exactly" (`Placed`). The comment at pdfhighlights.rs:44 says that what is skipped is logged: it
  is not. A page that cannot be opened at load has nothing loaded from it.
* A highlight whose bounds or Contents cannot be set stays in the document without our
  prefix (pdfhighlights.rs:270 and 281). A later save writes it; from then on it is painted but
  no session can load or delete it. A deletion that pdfium refuses (pdfhighlights.rs:240) leaves the
  old annotation beside its new copy.
* Two sweeps at once each free what they need to free, so that together they may take up to
  twice as much. A sweep removes by name, so that a file stored anew under the name since
  the walk goes too, whatever its age (disk_cache.rs:366).
* `jump_back` appends the place it leaves without the trim, so that the list may have
  one entry more than `MAX_JUMPS`.
* More links in view than labels of two letters: the rest get empty labels.
* app.rs:136 says of a jump point that "`<C-o>` returns the user to the EXACT scroll
  position they were at". The point is the page in the middle of the view and how far the
  view's top is below that page's (app.rs:3230). When the page begins further down that is
  negative and clamped to zero, and Ctrl-O leads to that page's top, up to half a view
  from where the reader was. `Regains` states both cases. The session file keeps
  the same point, and the next start is at that page's top (app.rs:3086).
* A loading label painted over a row that another page covers stays on the screen when it
  goes: its cells are marked skip again and only that row's symbol writes them.
  `GridShowsFrame` excepts such cells (`LabelLeft`).
* The diff leaves out the cell after a wide symbol. Documents that put something
  there, which then does not reach the terminal, are excluded by `ZoomsAssumption`. A page
  centred one cell from the left edge has the first cell of its rows after the clearing
  symbol of column 0. A loading label that fills its page is there in the model, which
  leaves out the space the code puts before it. A page wider than the area that is panned to its last numbered
  column has rows of one cell, and the column beside them keeps what was there
  before. An area of one column is left out with them.
* Rows and columns past the 297 that diacritics can address: the placement begins at the
  last one and is one cell high or wide.

## Abstractions

* A page has one fingerprint (colours, revision); the tiers that compute its
  pixels are left out. A render is atomic and succeeds or fails by page.
* One zoom level and one window size; a window that meets no page by a whole cell
  is excluded by `PlaceableAssumption` (the code ends such a frame early).
* The watchdog that skips a frame while input is queued only merges batches; a
  longer batch covers it. Coalescing within a batch is left out, as a batch is any
  sequence.
* The order in which the page cache drops equally distant bitmaps is left open.
* Clock readings (burst, settle delay) are nondeterministic choices.
* `clear` and `pre_encode` of the registry have no caller outside tests. Link
  hints and text indexing draw nothing these properties see.
* Quitting is left out: it can only cut a behaviour short.
* Key repeats are key presses, a paste is typed letters, and a run of wheel or drag
  events is its net effect or its last event; the loop merges them the same way.
* f32 positions are exact integers or fractions; of their rounding only that of a jump
  point's fraction is modelled, downwards.
* The hashes that name cache directories and files are injective.

## Not modelled

* The signal thread, panic hook and teardown: bytes of two threads on one file
  descriptor.
* The canvas draw path for other protocols, the escapes' syntax, the overlay tiers, the
  labels of link hints: drawing of pixels and cells.
* Horizontal panning, the status line, the hover preview, colours of highlights, the
  export of notes, the reports of `:info` and `:diag`.
* pdfium, its search, dark-mode arithmetic, the render worker (a stub), argument parsing,
  the clipboard, logging.

## Plan

1. `Overlays`: the tiers of bitmaps above the page cache and their keys (selection,
   search, highlights), the band that is skipped when a page's text is missing, byte
   sizes in 32 bits.
2. `DeleteBlob`: the round trip of delete escapes. Horizontal panning in `Navigation`.
3. Idle quiet: when the terminal's budget is below window plus prefetch, idle work and
   frames undo each other's work for ever.
4. Theorems: every safety property that a run checks is proved. What could still be
   won is in their hypotheses: `PixelsMatchLayout` with popups once the code switches layout
   keys under them, `FilterIsExact` for all letters once the index counts offsets in the
   text it searches, `CatchUpBounded` with pages that fail to render once a failed page
   no longer takes a cold render (`failed_page`).
