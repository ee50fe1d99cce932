------------------------------- MODULE Input -------------------------------
(***************************************************************************)
(* Keys and mouse (keys.rs, cmd.rs, app.rs): the modes of the interface,   *)
(* the text selection, link hints, the outline panel, search, marks, and   *)
(* what each event does to them.  Events arrive in any order, at any time  *)
(* between two frames: mouse events in every mode, and a mouse button that *)
(* is held while keys are pressed.                                         *)
(*                                                                         *)
(* The record `app` has those fields of App that events change:            *)
(*   nav, toc    as in Navigation and Toc                                  *)
(*   area        rows of the image area; a resize and a frame under a      *)
(*               popup change this one and not nav.rows                    *)
(*   mode, help  mode, show_help                                           *)
(*   pending     the keys of an unfinished chord or count                  *)
(*   awaiting    what the next key answers: "set" and "jump" a mark,       *)
(*               "delete" the question of `x`                              *)
(*   hints, typed   in link-hint mode, what the links do; hint_filter      *)
(*   sel         the selection [anchor, head, kind], {} without one, over  *)
(*               carets [page, idx]                                        *)
(*   dragging, placing   mouse_dragging, selection_placement               *)
(*   texts       pages of text_cache                                       *)
(*   click       pending_link_click                                        *)
(*   search, query   the results [hits, current] and last_query            *)
(* Horizontal panning, the status line and the hover preview are left out. *)
(***************************************************************************)
EXTENDS Navigation, Toc, Links, TextLayout

CONSTANTS
    Areas,           \* rows that the image area may have
    Steps,           \* what scrolling keys and the wheel move by, in px
    Columns,         \* columns of the image area, which the pages fill
    PanelColumn,     \* the first one that the outline panel covers
    PageTexts,       \* the text of the pages that have a readable one
    PageLinks,       \* the links of each page: [x, y, w, h, action]
    QueryHits,       \* the hits of each query
    FarMargin,       \* MARGIN of evict_far_pages
    DragSlop,        \* LINK_DRAG_SLOP
    DigitValue,      \* of the digit keys
    Letters,         \* that are typed into the filter and searched for
    MaxTyped         \* bound: keys of a count or a filter

LinkActions == [kind : {"goto"}, page : Nat] \cup [kind : {"url"}]
LinkBoxes == [x : Int, y : Int, w : Nat, h : Nat, action : LinkActions]

ASSUME InputAssumption ==
    /\ Areas \subseteq Nat \ {0} /\ Steps \subseteq Nat
    /\ {Columns, FarMargin, DragSlop, MaxTyped} \subseteq Nat /\ PanelColumn \in 0 .. Columns
    /\ DOMAIN PageTexts \subseteq NavPages
    /\ \A p \in DOMAIN PageTexts : IsPageText(PageTexts[p])
    /\ DOMAIN PageLinks = NavPages
    /\ \A p \in NavPages : PageLinks[p] \in Seq(LinkBoxes)
    /\ \A q \in DOMAIN QueryHits : QueryHits[q] \in Seq(JumpPoints)
    /\ DigitValue \in [DOMAIN DigitValue -> 0 .. 9]

VARIABLES
    app,
    effect     \* of the last event, for the properties: what it yanked, {} or
               \* [lo, hi, parts], and the link it followed by a click

inputVars == <<app, effect>>

NoEffect == [yank |-> {}, link |-> {}]
Do(a) == app' = a /\ effect' = NoEffect

NoAnswer == "none"

FreshApp(n) ==
    [nav |-> n, area |-> n.rows, mode |-> "normal", help |-> FALSE, toc |-> NoToc,
     pending |-> <<>>, awaiting |-> NoAnswer, hints |-> <<>>, typed |-> <<>>,
     sel |-> {}, dragging |-> FALSE, placing |-> FALSE, texts |-> {}, click |-> {},
     search |-> {}, query |-> {}]

InputInit == \E rows \in Areas : app = FreshApp(StartFrom(NoSession, rows)) /\ effect = NoEffect

Move(a, n) == [a EXCEPT !.nav = n]
Unpend(a) == [a EXCEPT !.pending = <<>>]

(* Mutant: link-hint mode goes on.                                         *)
ClearPendingOnly(a) ==
    [a EXCEPT !.pending = <<>>, !.awaiting = NoAnswer, !.toc.editing = FALSE]

ClearChordState(a) ==
    [a EXCEPT !.pending = <<>>, !.awaiting = NoAnswer, !.hints = <<>>, !.typed = <<>>,
              !.toc.editing = FALSE]

----------------------------------------------------------------------------
(* The selection                                                           *)

HasText(p) == p \in DOMAIN PageTexts /\ Carets(PageTexts[p]) # {}
Load(a, pages) == [a EXCEPT !.texts = @ \cup (pages \cap DOMAIN PageTexts)]

Before(c, d) == c.page < d.page \/ (c.page = d.page /\ c.idx <= d.idx)
Lo(s) == IF Before(s.anchor, s.head) THEN s.anchor ELSE s.head
Hi(s) == IF Before(s.anchor, s.head) THEN s.head ELSE s.anchor
Span(s) == Lo(s).page .. Hi(s).page

Begin(a, caret) ==
    ClearChordState([a EXCEPT !.sel = {[anchor |-> caret, head |-> caret, kind |-> "char"]},
                              !.mode = "visual", !.placing = FALSE])

(* enter_visual: at the first character in view of the current page        *)
EnterVisual(a) ==
    LET p == CurrentPage(a.nav)
        h == Greater(Laid(a.nav).h[p], 1)
        top == -(((Laid(a.nav).y[p] - a.nav.scroll) * PageHeight) \div h)
    IN  IF HasText(p)
          THEN Begin(Load(a, {p}), [page |-> p, idx |-> FirstVisible(PageTexts[p], top)])
          ELSE Load(a, {p})

ExitVisual(a) ==
    ClearChordState([a EXCEPT !.sel = {}, !.dragging = FALSE, !.placing = FALSE, !.mode = "normal"])

(* sync_anchor_to_head_if_placing, after scroll_to_head_if_offscreen,      *)
(* which keeps a row between the caret and the edge                        *)
ScrollToHead(a, head) ==
    LET c == PageTexts[head.page].chars[head.idx]
        At(y) == Laid(a.nav).y[head.page] + (y * Greater(Laid(a.nav).h[head.page], 1)) \div PageHeight
        target == IF At(c.y) < a.nav.scroll + CellPx THEN At(c.y) - CellPx
                  ELSE IF At(c.y + c.h) > a.nav.scroll + ViewportOf(a.nav) - CellPx
                    THEN At(c.y + c.h) - ViewportOf(a.nav) + CellPx
                  ELSE a.nav.scroll
    IN  IF head.page \notin a.texts \/ ViewportOf(a.nav) = 0 \/ target = a.nav.scroll THEN a
        ELSE [a EXCEPT !.nav.scroll = NavClamp(a.nav, target)]

Selected(a, s) ==
    LET t == IF a.placing THEN [s EXCEPT !.anchor = s.head] ELSE s
    IN  ScrollToHead([a EXCEPT !.sel = {t}], t.head)

(* A motion to the character `idx` of the head's page, once its text is at *)
(* hand                                                                    *)
MoveHead(a, idx) ==
    LET s == CHOOSE s \in a.sel : TRUE
    IN  Selected(a, IF s.head.page \in a.texts THEN [s EXCEPT !.head.idx = idx] ELSE s)

Motions(pt, i) ==
    {MoveChars(pt, i, 1), MoveChars(pt, i, -1), MoveLines(pt, i, 1), MoveLines(pt, i, -1),
     NextWordStart(pt, i), PrevWordStart(pt, i), EndOfWord(pt, i), LineStart(pt, pt.line[i]),
     FirstNonBlank(pt, pt.line[i]), LineEnd(pt, pt.line[i]), LastCaret(pt)}

(* select_inner_word, _sentence, _paragraph: {} leaves the selection alone *)
SelectInner(a, range) ==
    LET s == CHOOSE s \in a.sel : TRUE
        taken == IF range = {} \/ s.head.page \notin a.texts THEN s
                 ELSE LET r == CHOOSE r \in range : TRUE
                      IN  [s EXCEPT !.anchor = [page |-> s.head.page, idx |-> r[1]],
                                    !.head.idx = r[2]]
    IN  Selected([a EXCEPT !.placing = FALSE], taken)

(* The characters of page p that are shown as selected and are yanked      *)
PageRange(s, p) ==
    LET pt == PageTexts[p]
        from == IF p = Lo(s).page THEN Lo(s).idx ELSE 1
        to == IF p = Hi(s).page THEN Hi(s).idx ELSE LastCaret(pt)
    IN  IF s.kind = "line" /\ HasText(p) THEN Linewise(pt, from, to) ELSE <<from, to>>

(* Mutant: only what is at hand is yanked.                                 *)
WithTextAtHand(a, s) == a

(* ensure_selection_text_loaded                                            *)
WithText(a, s) == Load(a, Span(s))

(* yank_selection, yank_selection_as_markdown: what they leave and take    *)
AfterYank(a) ==
    LET s == CHOOSE s \in a.sel : TRUE
    IN  [WithText(a, s) EXCEPT !.sel = {}, !.dragging = FALSE, !.mode = "normal"]

Taken(a) ==
    {[lo |-> Lo(s), hi |-> Hi(s),
      parts |-> [p \in Span(s) \cap WithText(a, s).texts |-> PageRange(s, p)]] : s \in a.sel}

Yank(a) == app' = AfterYank(a) /\ effect' = [NoEffect EXCEPT !.yank = Taken(a)]

----------------------------------------------------------------------------
(* What several handlers call                                              *)

(* run_search: a query without hits drops the results; an empty one runs   *)
(* the last again.                                                         *)
RunSearch(a, q) ==
    LET used == IF q = {} THEN a.query ELSE q
        hits == IF used = {} THEN <<>> ELSE QueryHits[CHOOSE u \in used : TRUE]
    IN  IF hits = <<>> THEN [a EXCEPT !.search = {}]
        ELSE [a EXCEPT !.search = {[hits |-> hits, current |-> 1]}, !.query = used,
                       !.nav = ScrollToHit(@, hits[1])]

(* advance_search                                                          *)
Advance(a, dir) ==
    LET s == CHOOSE s \in a.search : TRUE
        next == ((s.current - 1 + dir) % Len(s.hits)) + 1
    IN  IF a.search = {} THEN a
        ELSE [a EXCEPT !.search = {[s EXCEPT !.current = next]},
                       !.nav = ScrollToHit(@, s.hits[next])]

(* enter_link_hint_mode: the links in view from the top down               *)
Above(p, i, j) ==
    LET b == PageLinks[p][i]
        c == PageLinks[p][j]
    IN  b.y < c.y \/ (b.y = c.y /\ (b.x < c.x \/ (b.x = c.x /\ i < j)))

LinksAbove(p, j) == {i \in DOMAIN PageLinks[p] : Above(p, i, j)}

ActionsOf(p) ==
    [k \in DOMAIN PageLinks[p] |->
       PageLinks[p][CHOOSE j \in DOMAIN PageLinks[p] : Cardinality(LinksAbove(p, j)) = k - 1].action]

EnterHintMode(a) ==
    LET seen == VisiblePages(Laid(a.nav), a.nav.scroll, ViewportOf(a.nav))
        upTo[n \in 0 .. LastPage + 1] ==
            IF n = 0 THEN <<>>
            ELSE IF n - 1 \in seen THEN upTo[n - 1] \o ActionsOf(n - 1) ELSE upTo[n - 1]
    IN  [ClearChordState(a) EXCEPT !.hints = upTo[LastPage + 1]]

ExitHintMode(a) == [a EXCEPT !.hints = <<>>, !.typed = <<>>]

(* hint_keystroke and follow_link_action                                   *)
HintKeystroke(a, letter) ==
    LET typed == Append(a.typed, letter)
        left == HintMatches(HintLabels(Len(a.hints)), typed)
        action == a.hints[Min(left)]
        out == ExitHintMode(a)
    IN  IF Cardinality(left) > 1 THEN [a EXCEPT !.typed = typed]
        ELSE IF left # {} /\ action.kind = "goto" THEN Move(out, GotoPage(a.nav, action.page))
        ELSE out

(* The Esc key, wherever it goes                                           *)
Escape(a) ==
    IF a.help THEN [a EXCEPT !.help = FALSE]
    ELSE IF a.hints # <<>> THEN ExitHintMode(a)
    ELSE IF a.toc.editing THEN [a EXCEPT !.toc = FilterFinish(FilterClear(@))]
    ELSE IF a.toc.open THEN [a EXCEPT !.toc = ToggleToc(@)]
    ELSE IF a.mode = "visual" THEN ExitVisual(a)
    ELSE IF a.mode # "normal" THEN [a EXCEPT !.mode = "normal"]
    ELSE IF a.awaiting # NoAnswer THEN [a EXCEPT !.awaiting = NoAnswer]
    ELSE ClearChordState(a)

----------------------------------------------------------------------------
(* Keys of Normal mode                                                     *)

KeysFree == ~app.help /\ app.hints = <<>> /\ ~app.toc.open
InNormal == KeysFree /\ app.mode = "normal"
Ready == InNormal /\ app.awaiting = NoAnswer
InVisual == KeysFree /\ app.mode = "visual"

(* parse_count: the digits among the pending keys                          *)
Count ==
    LET number[i \in 0 .. Len(app.pending)] ==
            IF i = 0 THEN 0
            ELSE IF app.pending[i] \in DOMAIN DigitValue
              THEN 10 * number[i - 1] + DigitValue[app.pending[i]] ELSE number[i - 1]
    IN  IF \A i \in DOMAIN app.pending : app.pending[i] \notin DOMAIN DigitValue THEN {}
        ELSE {number[Len(app.pending)]}
CountOrOne == IF Count = {} THEN 1 ELSE CHOOSE n \in Count : TRUE

(* A key that note_scroll_attempt gates may come too soon after another;   *)
(* with a count it is not gated.                                           *)
Gated(n) == IF Count = {} THEN {n, app.nav} ELSE {n}

PageKey ==      \* j, k
    /\ Ready
    /\ \E n \in Gated(NextPage(app.nav, CountOrOne)) \cup Gated(PrevPage(app.nav, CountOrOne)) :
         Do(Unpend(Move(app, n)))

ScreenKey ==    \* space with its count, and b
    /\ Ready
    /\ \E px \in Steps :
         LET down[i \in 0 .. Greater(CountOrOne, 1)] ==
                 IF i = 0 THEN app.nav ELSE ScrollByPx(down[i - 1], px)
         IN  \E n \in Gated(down[Greater(CountOrOne, 1)])
                        \cup {app.nav, ScrollByPx(app.nav, -px)} : Do(Unpend(Move(app, n)))

ScrollKey ==    \* the arrows, Ctrl-d, Ctrl-u: a count stays
    /\ Ready
    /\ \E px \in Steps : \E n \in {ScrollByPx(app.nav, px), ScrollByPx(app.nav, -px)} :
         Do(Move(app, n))

HistoryKey ==   \* Ctrl-o, Ctrl-i
    /\ Ready
    /\ \E n \in {JumpBack(app.nav), JumpForward(app.nav)} : Do(Move(app, n))

ViewKey ==      \* +, =, -, d, and 0 where no count is typed
    /\ Ready
    /\ \E k \in LayoutKeys : Do(Move(app, ChangeKey(app.nav, k)))

Chords == {"g", "]", "["}
ChordKey ==
    /\ Ready
    /\ \E k \in Chords :
         IF app.pending = <<k>>
           THEN Do(Unpend(Move(app, CASE k = "g" -> FirstPage(app.nav)
                                      [] k = "]" -> JumpSection(app.nav, TRUE)
                                      [] k = "[" -> JumpSection(app.nav, FALSE))))
           ELSE /\ Len(app.pending) < MaxTyped
                /\ Do([app EXCEPT !.pending = Append(@, k)])

DigitKey ==
    /\ Ready
    /\ Len(app.pending) < MaxTyped
    /\ \E k \in DOMAIN DigitValue :
         /\ DigitValue[k] # 0 \/ app.pending # <<>>
         /\ Do([app EXCEPT !.pending = Append(@, k)])

LastOrCountedPageKey ==    \* G
    /\ Ready
    /\ Do(Unpend(Move(app, GotoPage(app.nav,
         IF Count = {} THEN LastPage ELSE Greater(CountOrOne - 1, 0)))))

SearchStepKey ==    \* n, N
    /\ Ready
    /\ \E dir \in {1, -1} : Do(Advance(app, dir))

(* x asks first, if the page has a highlight.                              *)
DeleteKey ==
    /\ Ready
    /\ \E asks \in {NoAnswer, "delete"} : Do([Unpend(app) EXCEPT !.awaiting = asks])

MarkKey ==      \* m, '
    /\ Ready
    /\ \E asks \in {"set", "jump"} : Do([Unpend(app) EXCEPT !.awaiting = asks])

(* The key after x, m or ': Highlights has what `y` deletes.               *)
AnswerKey ==
    /\ InNormal
    /\ LET answered == [app EXCEPT !.awaiting = NoAnswer]
       IN  \/ app.awaiting \in {"set", "jump", "delete"} /\ Do(answered)
           \/ app.awaiting = "set" /\ \E m \in MarkNames : Do(Move(answered, SetMark(app.nav, m)))
           \/ app.awaiting = "jump" /\ \E m \in MarkNames : Do(Move(answered, JumpToMark(app.nav, m)))

ModeKey ==      \* :, /, v, o, f, ?
    /\ Ready
    /\ \/ \E mode \in {"command", "search"} : Do([ClearChordState(app) EXCEPT !.mode = mode])
       \/ Do(EnterVisual(Unpend(app)))
       \/ Do([Unpend(app) EXCEPT !.toc = ToggleToc(@)])
       \/ Do(EnterHintMode(app))
       \/ Do([app EXCEPT !.help = TRUE])

(* q, `:q`, and Ctrl-C in Visual mode as well: the session is written, and *)
(* read by the next start.                                                 *)
Reopened(a) == FreshApp(StartFrom(Persisted(a.nav), a.nav.rows))
QuitKey == (Ready \/ (InVisual /\ app.pending = <<>>)) /\ Do(Reopened(app))

----------------------------------------------------------------------------
(* Keys of the other modes                                                 *)

EscapeKey == Do(Escape(app))

HintKey ==
    /\ ~app.help
    /\ app.hints # <<>>
    /\ \E letter \in 1 .. AlphabetSize : Do(HintKeystroke(app, letter))

PanelKey ==
    /\ ~app.help
    /\ app.hints = <<>>
    /\ app.toc.open
    /\ IF app.toc.editing
         THEN \E t \in {FilterClear(app.toc), FilterFinish(app.toc), FilterPop(app.toc)}
                        \cup {FilterPush(app.toc, c) : c \in Letters} :
                /\ Len(t.filter) <= MaxTyped
                /\ Do([app EXCEPT !.toc = t])
         ELSE \/ \E t \in {TocMove(app.toc, 1, app.area), TocMove(app.toc, -1, app.area),
                           TocTop(app.toc), TocBottom(app.toc, app.area), FilterStart(app.toc)} :
                   Do([app EXCEPT !.toc = t])
              \/ Do([app EXCEPT !.toc = Activated(@), !.nav = JumpTo(@, TocTarget(app.toc))])

(* cmd::execute: what a command may make of the state                      *)
Executed(a) ==
    {Move(a, GotoPage(a.nav, p)) : p \in 0 .. LastPage + 1}
      \cup {Move(a, ChangeKey(a.nav, k)) : k \in LayoutKeys}
      \cup {Move(a, JumpToReferences(a.nav)), Reopened(a),
            [a EXCEPT !.toc = ToggleToc(@)], [a EXCEPT !.help = TRUE], [a EXCEPT !.search = {}]}

CommandKey ==
    /\ KeysFree
    /\ app.mode = "command"
    /\ \E done \in Executed([app EXCEPT !.mode = "normal"]) : Do(done)

SearchKey ==
    /\ KeysFree
    /\ app.mode = "search"
    /\ LET done == [app EXCEPT !.mode = "normal"]
       IN  \/ \E q \in {{}} \cup {{q} : q \in DOMAIN QueryHits} : Do(RunSearch(done, q))
           \/ Do(done)     \* pdfium fails

VisualChordKey ==
    /\ InVisual
    /\ IF app.pending = <<>>
         THEN \E k \in {"g", "f", "F", "i"} : Do([app EXCEPT !.pending = <<k>>])
         ELSE LET a == Unpend(app)
                  s == CHOOSE s \in app.sel : TRUE
                  pt == PageTexts[s.head.page]
                  i == s.head.idx
              IN  \/ Do(IF app.pending = <<"i">> THEN ScrollToHead(a, s.head) ELSE a)
                  \/ /\ app.pending \in {<<"f">>, <<"F">>}
                     /\ \E ch \in Letters :
                          Do(MoveHead(a, FindChar(pt, i, ch, app.pending = <<"f">>)))
                  \/ /\ app.pending = <<"i">>
                     /\ \E range \in {WordAround(pt, i), SentenceAround(pt, i), ParagraphAround(pt, i)} :
                          Do(SelectInner(a, range))
                  \/ app.pending = <<"g">> /\ Do(MoveHead(a, 1))
                  \/ app.pending = <<"g">> /\ Yank(a)

VisualKey ==
    /\ InVisual
    /\ app.pending = <<>>
    /\ LET s == CHOOSE s \in app.sel : TRUE
           Toggled(kind) == [s EXCEPT !.kind = IF @ = kind THEN "char" ELSE kind]
       IN  \/ \E idx \in Motions(PageTexts[s.head.page], s.head.idx) : Do(MoveHead(app, idx))
           \/ \E kind \in {"line", "block"} :
                Do([app EXCEPT !.sel = {Toggled(kind)}, !.placing = FALSE])
           \/ Do([app EXCEPT !.placing = ~@])
           \/ Yank(app)

----------------------------------------------------------------------------
(* The mouse (dispatch_mouse), on cells [col, row] of the image area       *)

Cells == [col : 0 .. Columns - 1, row : 0 .. app.area - 1]

OnPanel(cell) == app.toc.open /\ cell.col >= PanelColumn

(* cell_to_page_coord, in the units of the page's text; {} in a gap        *)
PointAt(a, cell) ==
    LET l == Laid(a.nav)
        at == a.nav.scroll + cell.row * CellPx
        p == PageAt(l, at)
    IN  IF at - l.y[p] \in 0 .. l.h[p] - 1
          THEN {[page |-> p, x |-> (cell.col * PageWidth) \div Columns,
                 y |-> ((at - l.y[p]) * PageHeight) \div l.h[p]]}
          ELSE {}

(* link_at_screen: half a cell counts as part of the link.                 *)
LinkUnder(a, points) ==
    UNION {{[page |-> pt.page, link |-> i] :
              i \in LinkAt(PageLinks[pt.page], pt.x, pt.y, PageWidth \div (2 * Columns),
                           (CellPx * PageHeight) \div (2 * Laid(a.nav).h[pt.page]))} :
             pt \in points}

CaretUnder(points) ==
    {[page |-> pt.page, idx |-> CharAtPoint(PageTexts[pt.page], pt.x, pt.y)] :
       pt \in {q \in points : HasText(q.page)}}

Touched(a, points) == Load(a, {pt.page : pt \in points})

(* A click on a row of the panel; else the link under it is noted and a    *)
(* selection begins.                                                       *)
MouseDown ==
    \E cell \in Cells :
      LET clicked == ClickRow(app.toc, cell.row, app.area)
          points == PointAt(app, cell)
          hit == LinkUnder(app, points)
          carets == CaretUnder(points)
          noted == IF hit = {} THEN app
                   ELSE [app EXCEPT !.click = {[at |-> l, cell |-> cell] : l \in hit}]
      IN  IF OnPanel(cell)
            THEN Do(IF RowToIndex(app.toc, cell.row, app.area) = {} THEN app
                    ELSE [app EXCEPT !.toc = Activated(clicked),
                                     !.nav = JumpTo(@, TocTarget(clicked))])
          ELSE IF carets = {} THEN Do(Touched(noted, points))
          ELSE \E c \in carets : Do([Begin(Touched(noted, points), c) EXCEPT !.dragging = TRUE])

(* Several drags at once count as the last.                                *)
MouseDrag ==
    \E cell \in Cells :
      LET near == {c \in app.click : /\ AbsDiff(cell.col, c.cell.col) <= DragSlop
                                     /\ AbsDiff(cell.row, c.cell.row) <= DragSlop}
          points == PointAt(app, cell)
          a == Touched([app EXCEPT !.click = near], points)
      IN  IF OnPanel(cell) THEN Do(app)
          ELSE IF ~app.dragging THEN Do([app EXCEPT !.click = near])
          ELSE IF CaretUnder(points) = {} THEN Do(a)
          ELSE \E c \in CaretUnder(points), s \in app.sel :
                 LET t == [s EXCEPT !.head = c]
                 IN  Do(WithText([a EXCEPT !.sel = {t}], t))

(* activate_link: of the click that was noted, once the selection is done  *)
Followed(a, clicks) ==
    LET c == CHOOSE c \in clicks : TRUE
        action == PageLinks[c.at.page][c.at.link].action
    IN  IF clicks = {} \/ action.kind # "goto" THEN a
        ELSE Move(a, ActivateLink(a.nav, action.page))

(* mouse_drag_end: a range that was dragged over is yanked.                *)
RangeDragged(a) == a.dragging /\ \E s \in a.sel : s.anchor # s.head
DragEnd(a) == IF RangeDragged(a) THEN AfterYank(a) ELSE IF a.dragging THEN ExitVisual(a) ELSE a

(* The release ends the drag, then follows the link.                       *)
MouseUp ==
    \/ (\E cell \in Cells : OnPanel(cell)) /\ Do(app)
    \/ /\ \E cell \in Cells : ~OnPanel(cell)
       /\ app' = Followed([DragEnd(app) EXCEPT !.click = {}], app.click)
       /\ effect' = [link |-> {c.at : c \in app.click},
                     yank |-> IF RangeDragged(app) THEN Taken(app) ELSE {}]

Wheel ==
    \/ \E px \in Steps : \E n \in {ScrollByPx(app.nav, px), ScrollByPx(app.nav, -px)} :
         Do(Move(app, n))
    \/ /\ app.toc.open
       /\ \E t \in {TocWheel(app.toc, WheelRows, app.area), TocWheel(app.toc, -WheelRows, app.area)} :
            Do([app EXCEPT !.toc = t])

(* Event::Resize: hit tests use the new size at once, the layout does from *)
(* the next frame on.                                                      *)
Resize == \E rows \in Areas : Do([app EXCEPT !.area = rows])

----------------------------------------------------------------------------
(* A frame: under a popup only the panel is laid out.  Text far from the   *)
(* window goes unless it is of the selection, and the byte budget takes    *)
(* that of any page that is not in view with its bitmap.                   *)
Frame ==
    \E rows \in Areas :
      LET popup == app.help \/ app.toc.open
          a == [app EXCEPT !.area = rows, !.toc = DrawnToc(@, rows)]
          n == Relaid(app.nav, rows)
          seen == VisiblePages(Laid(n), n.scroll, ViewportOf(n))
          near == {p \in NavPages : \E q \in seen : AbsDiff(p, q) <= FarMargin}
          kept == app.texts \cap (near \cup UNION {Span(s) : s \in app.sel})
      IN  IF popup THEN Do(a)
          ELSE \E shed \in SUBSET (kept \ seen) : Do([a EXCEPT !.nav = n, !.texts = kept \ shed])

InputNext ==
    \/ PageKey \/ ScreenKey \/ ScrollKey \/ HistoryKey \/ ViewKey \/ ChordKey \/ DigitKey
    \/ LastOrCountedPageKey \/ SearchStepKey \/ DeleteKey \/ MarkKey \/ AnswerKey \/ ModeKey
    \/ QuitKey \/ EscapeKey \/ HintKey \/ PanelKey \/ CommandKey \/ SearchKey
    \/ VisualChordKey \/ VisualKey
    \/ MouseDown \/ MouseDrag \/ MouseUp \/ Wheel \/ Resize \/ Frame

InputSpec == InputInit /\ [][InputNext]_inputVars

----------------------------------------------------------------------------
(* Properties                                                              *)

(* The modes agree: a selection exists exactly in Visual mode, a button is *)
(* held over a selection only there, the modes that take the next key are  *)
(* one at a time and only in Normal mode, and carets are on characters.    *)
ModesAgree ==
    /\ (app.sel # {}) <=> (app.mode = "visual")
    /\ app.dragging => app.mode = "visual"
    /\ app.hints # <<>> \/ app.awaiting # NoAnswer => app.mode = "normal"
    /\ app.awaiting # NoAnswer => app.hints = <<>> /\ app.pending = <<>> /\ ~app.toc.open
    /\ app.toc.editing => app.toc.open
    /\ \A s \in app.sel : \A c \in {s.anchor, s.head} : 
         HasText(c.page) /\ c.idx \in Carets(PageTexts[c.page])

(* "the user gets the expected one-keystroke exit": each Esc leaves one of *)
(* the modes that hold the keyboard, until plain Normal mode.              *)
Layers(a) ==
    {layer \in {"help", "hints", "filter", "panel", "mode", "key"} :
       \/ layer = "help" /\ a.help
       \/ layer = "hints" /\ a.hints # <<>>
       \/ layer = "filter" /\ a.toc.editing
       \/ layer = "panel" /\ a.toc.open
       \/ layer = "mode" /\ a.mode # "normal"
       \/ layer = "key" /\ a.mode = "normal" /\ (a.awaiting # NoAnswer \/ a.pending # <<>>)}

EscapeLeaves == Layers(app) # {} => Cardinality(Layers(Escape(app))) < Cardinality(Layers(app))

InputSound == ModesAgree /\ EscapeLeaves /\ PanelSound(app.toc, app.area)

(* "Load any missing page text up-front so the yank loop below doesn't     *)
(* quietly omit pages" (app.rs:1626): whatever the frames took from the    *)
(* cache meanwhile, every readable page of the selection is yanked, from   *)
(* its first selected character to its last.                               *)
YankCoversSelection ==
    \A y \in effect.yank :
      /\ DOMAIN y.parts = (y.lo.page .. y.hi.page) \cap DOMAIN PageTexts
      /\ y.parts[y.lo.page][1] <= y.lo.idx /\ y.parts[y.hi.page][2] >= y.hi.idx

JumpsReturn == JumpsRoundTrip(app.nav)

(* "a tiny hand twitch during a click doesn't accidentally start a         *)
(* highlight drag" (app.rs:111): a release that follows a link saves no    *)
(* highlight.                                                              *)
ClickIsNoHighlight == effect.link = {} \/ effect.yank = {}

=============================================================================
