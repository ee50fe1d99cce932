---------------------------- MODULE SearchIndex ----------------------------
(***************************************************************************)
(* search_index.rs, the idle indexing of main.rs and the page filter of    *)
(* search.rs: the text of the pages is appended to one long string, one    *)
(* page per idle tick, and a search asks pdfium only for the pages whose   *)
(* text the string says match, and for the pages not indexed yet.  A       *)
(* complete index is written to a file by a detached thread and read back  *)
(* by the next session.                                                    *)
(*                                                                         *)
(* A text is a sequence of characters; its offsets count bytes, Width[c]   *)
(* of them for character c.  Lower[c] is the character's lower case, which *)
(* may be encoded in another number of bytes.                              *)
(***************************************************************************)
EXTENDS Integers, Sequences, SequencesExt

CONSTANTS Chars, Width, Lower,   \* the alphabet
          Newline,               \* the sentinel between pages
          Documents,             \* Documents[d][p + 1]: the text of page p
          Queries,               \* what is searched for
          MaxSessions, MaxLost   \* bounds: restarts, failed writes

ASSUME SearchIndexAssumption ==
    /\ Newline \in Chars
    /\ Width \in [Chars -> Nat \ {0}]
    /\ Lower \in [Chars -> Chars]
    /\ \A c \in Chars : Lower[c] = Newline <=> c = Newline
    /\ \A d \in Documents : d \in Seq(Seq(Chars)) /\ d # <<>>
    /\ \A q \in Queries : q \in Seq(Chars \ {Newline}) /\ q # <<>>

VARIABLES
    texts,    \* the texts of the open PDF's pages
    unreadable,  \* pages whose text pdfium cannot extract at the moment
    docIndex,    \* [text, pageStarts]; the indexed pages have a start
    persisted,   \* index_persisted
    writer,      \* the indexes that detached threads are about to write
    disk,        \* the finished index.bin, if any
    sessions, lost

indexVars == <<texts, unreadable, docIndex, persisted, writer, disk, sessions, lost>>

NotIndexed == 0 - 1
Pages == 0 .. Len(texts) - 1

ByteLen(text) ==
    LET upTo[i \in 0 .. Len(text)] == IF i = 0 THEN 0 ELSE upTo[i - 1] + Width[text[i]]
    IN  upTo[Len(text)]

ToLower(text) == [i \in DOMAIN text |-> Lower[text[i]]]

(* DocIndex::new                                                           *)
EmptyIndex(n) == [text |-> <<>>, pageStarts |-> [p \in 0 .. n - 1 |-> NotIndexed]]

Indexed(ix) == {p \in DOMAIN ix.pageStarts : ix.pageStarts[p] # NotIndexed}
IsComplete(ix) == Indexed(ix) = DOMAIN ix.pageStarts

(* Mutant: without the sentinel.                                           *)
AddPageJoined(ix, p, text) ==
    IF p \in Indexed(ix) THEN ix
    ELSE [text |-> ix.text \o text,
          pageStarts |-> [ix.pageStarts EXCEPT ![p] = ByteLen(ix.text)]]

(* Mutant: a page without text gets no entry.                              *)
AddPageWithText(ix, p, text) ==
    IF p \in Indexed(ix) \/ text = <<>> THEN ix
    ELSE [text |-> ix.text \o text \o <<Newline>>,
          pageStarts |-> [ix.pageStarts EXCEPT ![p] = ByteLen(ix.text)]]

(* add_page                                                                *)
AddPage(ix, p, text) ==
    IF p \in Indexed(ix) THEN ix
    ELSE [text |-> ix.text \o text \o <<Newline>>,
          pageStarts |-> [ix.pageStarts EXCEPT ![p] = ByteLen(ix.text)]]

(* next_page_to_index, of an incomplete index                              *)
NextPageToIndex(ix) ==
    LET todo == DOMAIN ix.pageStarts \ Indexed(ix)
    IN  CHOOSE p \in todo : \A o \in todo : p <= o

----------------------------------------------------------------------------
(* The search                                                              *)

OccursAt(q, text, i) ==
    i + Len(q) - 1 <= Len(text) /\ SubSeq(text, i, i + Len(q) - 1) = q

Occurs(q, text) == \E i \in DOMAIN text : OccursAt(q, text, i)

(* Where the matches begin, left to right and not overlapping.             *)
MatchStarts(needle, hay) ==
    LET scan[i \in 0 .. Len(hay)] ==
            IF i = 0 THEN [at |-> <<>>, from |-> 1]
            ELSE LET m == scan[i - 1]
                 IN  IF i >= m.from /\ OccursAt(needle, hay, i)
                       THEN [at |-> Append(m.at, i), from |-> i + Len(needle)] ELSE m
    IN  scan[Len(hay)].at

(* match_offsets: the byte offsets of the matches.  Without regard to case *)
(* they are offsets into the lower case copy of the text.                  *)
MatchOffsets(ix, q, caseSensitive) ==
    LET hay == IF caseSensitive THEN ix.text ELSE ToLower(ix.text)
        needle == IF caseSensitive THEN q ELSE ToLower(q)
        at == MatchStarts(needle, hay)
    IN  [j \in DOMAIN at |-> ByteLen(SubSeq(hay, 1, at[j] - 1))]

(* The forward cursor of pages_matching: past every page that starts at or *)
(* before the offset, up to the first that is not indexed.                 *)
Advance(ix, cursor, offset) ==
    LET Passed(c) == \A p \in cursor + 1 .. c :
            ix.pageStarts[p] # NotIndexed /\ ix.pageStarts[p] <= offset
    IN  CHOOSE c \in {d \in DOMAIN ix.pageStarts : d >= cursor /\ Passed(d)} :
            \A d \in DOMAIN ix.pageStarts : d >= cursor /\ Passed(d) => d <= c

(* pages_matching                                                          *)
PagesMatching(ix, q, caseSensitive) ==
    LET offsets == MatchOffsets(ix, q, caseSensitive)
        walk[j \in 0 .. Len(offsets)] ==
            IF j = 0 THEN [cursor |-> 0, out |-> <<>>]
            ELSE LET m == walk[j - 1]
                     cursor == Advance(ix, m.cursor, offsets[j])
                     start == ix.pageStarts[cursor]
                 IN  [cursor |-> cursor,
                      out |-> IF /\ start # NotIndexed /\ start <= offsets[j]
                                 /\ m.out = <<>> \/ m.out[Len(m.out)] # cursor
                                THEN Append(m.out, cursor) ELSE m.out]
    IN  walk[Len(offsets)].out

(* sort_unstable and dedup of a list of pages below n.                     *)
Ascending(pages, n) ==
    LET upTo[p \in 0 .. n] ==
            IF p = 0 THEN <<>>
            ELSE IF p - 1 \in pages THEN Append(upTo[p - 1], p - 1) ELSE upTo[p - 1]
    IN  upTo[n]

(* run_search: the pages that pdfium is asked about.                       *)
Candidates(ix, q, caseSensitive) ==
    LET hitPages == PagesMatching(ix, q, caseSensitive)
    IN  IF IsComplete(ix) THEN hitPages
        ELSE Ascending(ToSet(hitPages) \cup (DOMAIN ix.pageStarts \ Indexed(ix)), Len(texts))

----------------------------------------------------------------------------
(* The index over the sessions                                             *)

(* load: a file for another number of pages counts as none.                *)
LoadIndex(files, n) ==
    {ix \in files : DOMAIN ix.pageStarts = 0 .. n - 1}

(* App::new                                                                *)
StartWith(files, n) ==
    LET found == LoadIndex(files, n)
        ix == IF found = {} THEN EmptyIndex(n) ELSE CHOOSE i \in found : TRUE
    IN  docIndex' = ix /\ persisted' = IsComplete(ix)

IndexInit ==
    /\ texts \in Documents
    /\ unreadable \in {{}} \cup {{p} : p \in Pages}
    /\ docIndex = EmptyIndex(Len(texts))
    /\ persisted = FALSE
    /\ writer = {} /\ disk = {}
    /\ sessions = 1 /\ lost = 0

(* Mutant: a page that cannot be read is indexed without text.             *)
IndexEmptyOnError ==
    /\ ~IsComplete(docIndex)
    /\ LET p == NextPageToIndex(docIndex)
           ix == AddPage(docIndex, p, IF p \in unreadable THEN <<>> ELSE texts[p + 1])
           save == IsComplete(ix) /\ ~persisted
       IN  /\ docIndex' = ix
           /\ writer' = IF save THEN writer \cup {ix} ELSE writer
           /\ persisted' = (persisted \/ save)
    /\ UNCHANGED <<texts, unreadable, disk, sessions, lost>>

(* index_one_page_text: the lowest page that is missing.  When its text    *)
(* cannot be had the tick is over.  The tick that completes the index      *)
(* hands a copy to a detached thread, once per session.                    *)
IndexOnePageText ==
    /\ ~IsComplete(docIndex)
    /\ LET p == NextPageToIndex(docIndex)
           ix == AddPage(docIndex, p, texts[p + 1])
           save == IsComplete(ix) /\ ~persisted
       IN  /\ p \notin unreadable
           /\ docIndex' = ix
           /\ writer' = IF save THEN writer \cup {ix} ELSE writer
           /\ persisted' = (persisted \/ save)
    /\ UNCHANGED <<texts, unreadable, disk, sessions, lost>>

(* write_serialized: temporary file and rename, so the file changes at     *)
(* once or, on any error, not at all.                                      *)
WriteSerialized ==
    /\ \E ix \in writer : writer' = writer \ {ix} /\ disk' = {ix}
    /\ UNCHANGED <<texts, unreadable, docIndex, persisted, sessions, lost>>

WriteFails ==
    /\ lost < MaxLost
    /\ \E ix \in writer : writer' = writer \ {ix}
    /\ lost' = lost + 1
    /\ UNCHANGED <<texts, unreadable, docIndex, persisted, disk, sessions>>

(* The program ends and is started again on the same PDF: the thread dies  *)
(* with it.                                                                *)
Restart ==
    /\ sessions < MaxSessions
    /\ sessions' = sessions + 1
    /\ StartWith(disk, Len(texts))
    /\ writer' = {}
    /\ UNCHANGED <<texts, unreadable, disk, lost>>

(* A page's text is unavailable for a while, then available again.         *)
Recover ==
    /\ unreadable # {}
    /\ unreadable' = {}
    /\ UNCHANGED <<texts, docIndex, persisted, writer, disk, sessions, lost>>

IndexNext ==
    \/ IndexOnePageText \/ WriteSerialized \/ WriteFails \/ Restart \/ Recover

(* The text of the first n pages, each followed by the sentinel.           *)
Joined(n) ==
    LET upTo[p \in 0 .. n] ==
            IF p = 0 THEN <<>> ELSE upTo[p - 1] \o texts[p] \o <<Newline>>
    IN  upTo[n]

(* The idle path comes back as long as the index is incomplete, and a      *)
(* spawned thread runs.                                                    *)
IndexFairness == WF_indexVars(IndexOnePageText) /\ WF_indexVars(WriteSerialized)

IndexSpec == IndexInit /\ [][IndexNext]_indexVars /\ IndexFairness

----------------------------------------------------------------------------
(* Properties                                                              *)

HasMatch(p, q, caseSensitive) ==
    IF caseSensitive THEN Occurs(q, texts[p + 1])
    ELSE Occurs(ToLower(q), ToLower(texts[p + 1]))

(* "Pages that contain `query`" (search_index.rs:197): whatever part of    *)
(* the document is indexed, and whether it was indexed now or read from    *)
(* the file, no page that contains the query is withheld from pdfium, and  *)
(* the pages ascend (the ranges of hits per page that the overlay uses     *)
(* assume page order).  With a complete index the filter is exact: pdfium  *)
(* is asked about no page without a match, so no match spans two pages.    *)
(* Without regard to case this needs lower case letters that are encoded   *)
(* in as many bytes as the letters themselves: the offsets are those of    *)
(* the lower case copy, the starts those of the text.                      *)
FilterIsExact ==
    \A q \in Queries, cs \in BOOLEAN :
        LET c == Candidates(docIndex, q, cs)
        IN  /\ \A p \in Pages : HasMatch(p, q, cs) => p \in ToSet(c)
            /\ \A i \in 1 .. Len(c) - 1 : c[i] < c[i + 1]
            /\ IsComplete(docIndex) => \A p \in ToSet(c) : HasMatch(p, q, cs)

(* What is on disk, and what a thread is about to put there, is the        *)
(* complete text of this document: a page that could not be read is never  *)
(* baked into the sessions to come.                                        *)
FileIsWholeDocument ==
    \A ix \in disk \cup writer :
        /\ IsComplete(ix)
        /\ ix.text = Joined(Len(texts))

(* A lost write costs the next session its head start and nothing else:    *)
(* once every page can be read the index is completed again.               *)
EventuallyComplete == (unreadable = {}) ~> IsComplete(docIndex)

=============================================================================
