--------------------------- MODULE KittyRegistry ---------------------------
(***************************************************************************)
(* KittyPageRegistry (src/kitty_pages.rs): what the program believes the   *)
(* terminal's image store holds.  One action per method that changes       *)
(* state; the read-only methods are operators.  The callers (the draw      *)
(* path, the idle prefetch, the key handlers) are unconstrained here:      *)
(* RunLoop composes the same actions in the order the program calls them.  *)
(*                                                                         *)
(* An image id is id_for(page), which ImageId shows to be injective, so a  *)
(* page stands for its id.  A print stands for the fingerprint (layout     *)
(* key, revision, bitmap dimensions) a transmit is compared by.            *)
(***************************************************************************)
EXTENDS Integers, FiniteSets

CONSTANTS
    Pages,            \* page indices of the document
    Prints,           \* fingerprints a bitmap can be transmitted under
    NoPrint,          \* transmitted_layout = None, or cached_payload = None
    DecodedBytes,     \* entry_bytes of a bitmap with that fingerprint
    MaxCachedPages,   \* max_cached_pages()
    GhosttyBudget     \* ghostty_budget_bytes()

ASSUME PagesAssumption == IsFiniteSet(Pages)
ASSUME PrintsAssumption == NoPrint \notin Prints
ASSUME BytesAssumption == DecodedBytes \in [Prints -> Nat]
ASSUME BudgetAssumption == MaxCachedPages \in Nat /\ GhosttyBudget \in Nat

VARIABLES
    pages,            \* HashMap<usize, PageEntry>: a function on the resident pages
    lru,              \* the deque, as the set of pages in front of each page
    pending_deletes,  \* ids queued for deletion (the blob is sorted and deduplicated)
    transmitted_bytes,
    transmitted_bytes_cumulative,
    drained           \* ids a caller holds between take and the write or put back

vars == <<pages, lru, pending_deletes, transmitted_bytes,
          transmitted_bytes_cumulative, drained>>

PageEntry ==
    [print   : Prints \cup {NoPrint},   \* transmitted_layout and transmitted_revision
     payload : Prints \cup {NoPrint},   \* fingerprint of cached_payload
     snap    : Nat]                     \* bytes_cumulative_at_my_transmit

Resident == DOMAIN pages
Transmitted == {p \in Resident : pages[p].print # NoPrint}

SaturatingSub(a, b) == IF a > b THEN a - b ELSE 0

(***************************************************************************)
(* Bytes are counted as a set of <<page, byte number>> pairs, so that the  *)
(* total over a set S of pages of a map m is a cardinality.                *)
(***************************************************************************)
BytesOf(f) == IF f = NoPrint THEN {} ELSE 1 .. DecodedBytes[f]
PageUnits(m, p) == {p} \X BytesOf(m[p].print)
ByteUnits(m, S) == UNION {PageUnits(m, p) : p \in S}
TransmittedSize(m, S) == Cardinality(ByteUnits(m, S))

-----------------------------------------------------------------------------
(* Read-only methods.                                                      *)

HasPriorTransmit(p) == p \in Transmitted

IsFresh(p, f) == p \in Resident /\ pages[p].print = f

IsEvictionAtRisk(p, threshold) ==
    /\ p \in Transmitted
    /\ SaturatingSub(transmitted_bytes_cumulative, pages[p].snap) >= threshold

-----------------------------------------------------------------------------
(* Mutants, here and below: a definition with a slip that a property has   *)
(* to notice.  This one pushes the page without removing it first.         *)
TouchKeepsOld(p) ==
    lru' = [q \in DOMAIN lru \cup {p} |-> IF q = p THEN DOMAIN lru \ {p} ELSE lru[q]]

(* Moving a page to the back of the deque: every other resident page is    *)
(* then in front of it, and it is in front of none.                        *)
Touch(p) ==
    lru' = [q \in DOMAIN lru \cup {p} |->
              IF q = p THEN DOMAIN lru \ {p} ELSE lru[q] \ {p}]

WithEntry(p, e) ==
    [q \in Resident \cup {p} |-> IF q = p THEN e ELSE pages[q]]

(* build_transmit: encodes unless the payload has the fingerprint already. *)
BuildTransmit(p, f) ==
    /\ pages' = WithEntry(p,
                  IF p \in Resident
                  THEN [pages[p] EXCEPT !.payload = f]
                  ELSE [print |-> NoPrint, payload |-> f, snap |-> 0])
    /\ Touch(p)
    /\ UNCHANGED <<pending_deletes, transmitted_bytes,
                   transmitted_bytes_cumulative, drained>>

(* Mutant: the delete stays queued.                                        *)
KeepPendingDelete(p) == UNCHANGED pending_deletes

(* drop_pending_delete: a delete still queued for an id that is sent again *)
(* would free the image that has just arrived.                             *)
DropPendingDelete(p) == pending_deletes' = pending_deletes \ {p}

(* mark_transmitted                                                        *)
MarkTransmitted(p, f) ==
    LET prev == IF p \in Transmitted THEN DecodedBytes[pages[p].print] ELSE 0
    IN  /\ DropPendingDelete(p)
        /\ pages' = WithEntry(p,
                      [print   |-> f,
                       payload |-> IF p \in Resident THEN pages[p].payload ELSE NoPrint,
                       snap    |-> transmitted_bytes_cumulative])
        /\ transmitted_bytes' =
              SaturatingSub(transmitted_bytes, prev) + DecodedBytes[f]
        /\ transmitted_bytes_cumulative' =
              transmitted_bytes_cumulative + DecodedBytes[f]
        /\ Touch(p)
        /\ UNCHANGED drained

(* Mutant: the bytes of a page that was only built are taken off as well.  *)
InvalidateUntransmitted(p) ==
    /\ p \in Resident
    /\ transmitted_bytes' =
          IF pages[p].payload # NoPrint
          THEN transmitted_bytes - DecodedBytes[pages[p].payload]
          ELSE transmitted_bytes
    /\ pages' = [pages EXCEPT ![p].print = NoPrint, ![p].payload = NoPrint]
    /\ UNCHANGED <<lru, pending_deletes, transmitted_bytes_cumulative, drained>>

(* Mutant: the payload of the old pixels is kept.                          *)
InvalidateKeepsPayload(p) ==
    /\ p \in Resident
    /\ transmitted_bytes' =
          IF p \in Transmitted
          THEN SaturatingSub(transmitted_bytes, DecodedBytes[pages[p].print])
          ELSE transmitted_bytes
    /\ pages' = [pages EXCEPT ![p].print = NoPrint]
    /\ UNCHANGED <<lru, pending_deletes, transmitted_bytes_cumulative, drained>>

(* invalidate_transmit: the Fast to Sharp upgrade of one page.             *)
InvalidateTransmit(p) ==
    /\ p \in Resident
    /\ transmitted_bytes' =
          IF p \in Transmitted
          THEN SaturatingSub(transmitted_bytes, DecodedBytes[pages[p].print])
          ELSE transmitted_bytes
    /\ pages' = [pages EXCEPT ![p].print = NoPrint, ![p].payload = NoPrint]
    /\ UNCHANGED <<lru, pending_deletes, transmitted_bytes_cumulative, drained>>

(* Mutant: the counters restart but the pages stay transmitted.            *)
RestartCounters ==
    /\ transmitted_bytes' = 0
    /\ transmitted_bytes_cumulative' = 0
    /\ UNCHANGED <<pages, lru, pending_deletes, drained>>

(* invalidate_all_transmits: payloads and snapshots are left as they are.  *)
InvalidateAllTransmits ==
    /\ pages' = [p \in Resident |-> [pages[p] EXCEPT !.print = NoPrint]]
    /\ transmitted_bytes' = 0
    /\ transmitted_bytes_cumulative' = 0
    /\ UNCHANGED <<lru, pending_deletes, drained>>

(***************************************************************************)
(* evict_to_budget walks the deque from the front, skips the pinned pages  *)
(* and stops as soon as the victims collected so far cover both deficits:  *)
(* a page is a victim unless the unpinned pages in front of it do.         *)
(***************************************************************************)
OverPages == SaturatingSub(Cardinality(Resident), MaxCachedPages)
OverBytes == SaturatingSub(transmitted_bytes, GhosttyBudget)

(* Mutant: the byte budget is forgotten.                                   *)
CoversPageDeficit(S) == Cardinality(S) >= OverPages

CoversDeficit(S) == Cardinality(S) >= OverPages /\ TransmittedSize(pages, S) >= OverBytes

Victims(pinned) ==
    {p \in DOMAIN lru \ pinned : ~CoversDeficit(lru[p] \ pinned)}

(* Mutant: no delete for a page that is invalidated at the moment.         *)
QueueTransmitted(ids) == pending_deletes' = pending_deletes \cup (ids \cap Transmitted)

(* queue_deletes                                                           *)
QueueDeletes(ids) == pending_deletes' = pending_deletes \cup ids

EvictToBudget(pinned) ==
    LET victims == Victims(pinned)
    IN  /\ pages' = [p \in Resident \ victims |-> pages[p]]
        /\ lru' = [p \in DOMAIN lru \ victims |-> lru[p] \ victims]
        /\ transmitted_bytes' =
              SaturatingSub(transmitted_bytes, TransmittedSize(pages, victims))
        /\ QueueDeletes(victims)
        /\ UNCHANGED <<transmitted_bytes_cumulative, drained>>

(* take_pending_deletes hands the queue to the caller, who either writes   *)
(* the blob or gives it back; ids resident by then are filtered out.       *)
TakePendingDeletes ==
    /\ drained = {}
    /\ pending_deletes # {}
    /\ drained' = pending_deletes
    /\ pending_deletes' = {}
    /\ UNCHANGED <<pages, lru, transmitted_bytes, transmitted_bytes_cumulative>>

PutBackPendingDeletes ==
    /\ drained # {}
    /\ pending_deletes' = (drained \ Resident) \cup pending_deletes
    /\ drained' = {}
    /\ UNCHANGED <<pages, lru, transmitted_bytes, transmitted_bytes_cumulative>>

(* The caller has written the blob in front of a transmit.                 *)
ShipDeletes ==
    /\ drained' = {}
    /\ UNCHANGED <<pages, lru, pending_deletes, transmitted_bytes,
                   transmitted_bytes_cumulative>>

-----------------------------------------------------------------------------
Init ==
    /\ pages = << >>
    /\ lru = << >>
    /\ pending_deletes = {}
    /\ transmitted_bytes = 0
    /\ transmitted_bytes_cumulative = 0
    /\ drained = {}

Next ==
    \/ \E p \in Pages, f \in Prints : BuildTransmit(p, f)
    \/ \E p \in Pages, f \in Prints : MarkTransmitted(p, f)
    \/ \E p \in Pages : InvalidateTransmit(p)
    \/ InvalidateAllTransmits
    \/ \E pinned \in SUBSET Pages : EvictToBudget(pinned)
    \/ TakePendingDeletes
    \/ PutBackPendingDeletes
    \/ ShipDeletes

Spec == Init /\ [][Next]_vars

-----------------------------------------------------------------------------
(* Type invariant of the registry's state (struct KittyPageRegistry).      *)
TypeOK ==
    /\ Resident \subseteq Pages
    /\ pages \in [Resident -> PageEntry]
    /\ DOMAIN lru \subseteq Pages
    /\ lru \in [DOMAIN lru -> SUBSET Pages]
    /\ pending_deletes \subseteq Pages
    /\ drained \subseteq Pages
    /\ transmitted_bytes \in Nat
    /\ transmitted_bytes_cumulative \in Nat

(* I1 and I5 of registry_proptests: the deque holds exactly the resident   *)
(* pages, each once, in one total order.  Build, mark and evict update the *)
(* map and the deque separately.                                           *)
LruMirrorsPages ==
    /\ DOMAIN lru = Resident
    /\ \A p \in Resident : lru[p] \subseteq Resident \ {p}
    /\ \A p, q \in Resident : p # q => (p \in lru[q] <=> q \notin lru[p])
    /\ \A p, q \in Resident : p \in lru[q] => lru[p] \subseteq lru[q]

(* The debug_assert of evict_to_budget: the running total is the sum over  *)
(* the transmitted pages, whatever interleaving of marks, re-marks with    *)
(* other dimensions, invalidations and evictions led here.                 *)
TransmittedBytesExact == transmitted_bytes = TransmittedSize(pages, Resident)

(* I4: no delete is queued for an image the terminal is believed to hold.  *)
(* A resident page that is only built may still have one queued, until it  *)
(* is marked.                                                              *)
NoLiveDeleteQueued == pending_deletes \cap Transmitted = {}

(* Within an epoch every transmit occupies its own interval of the         *)
(* cumulative byte count, which is what makes the distance from a page's   *)
(* snapshot the bytes that have flowed since.                              *)
EpochIntervals ==
    /\ \A p \in Transmitted :
          pages[p].snap + DecodedBytes[pages[p].print] <= transmitted_bytes_cumulative
    /\ \A p, q \in Transmitted :
          p # q => \/ pages[p].snap + DecodedBytes[pages[p].print] <= pages[q].snap
                   \/ pages[q].snap + DecodedBytes[pages[q].print] <= pages[p].snap

(* What eviction leaves: pinned pages stay (I6); no survivor that could    *)
(* have gone was used less recently than a victim; the page cap (I2) and   *)
(* the byte budget hold unless only pinned pages are left; and no victim   *)
(* was taken once both held.                                               *)
EvictionPolicy ==
    [][\A pinned \in SUBSET Pages : EvictToBudget(pinned) =>
         LET victims == Resident \ Resident'
             needed(S) == \/ Cardinality(Resident \ S) > MaxCachedPages
                          \/ transmitted_bytes - TransmittedSize(pages, S) > GhosttyBudget
         IN  /\ victims \cap pinned = {}
             /\ \A v \in victims, s \in Resident' \ pinned : v \in lru[s]
             /\ needed(victims) => Resident' \subseteq pinned
             /\ \A v \in victims : needed(victims \cap lru[v])]_vars

(* A page leaves the registry only with a delete for its image queued:     *)
(* otherwise the terminal keeps a bitmap nobody will ever free.            *)
EvictedAreQueued ==
    [][Resident \ Resident' \subseteq pending_deletes']_vars

=============================================================================
