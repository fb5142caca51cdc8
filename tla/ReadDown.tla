------------------------------ MODULE ReadDown -------------------------------
(***************************************************************************)
(* The catalogue a till reads down (ReadDownService).  Triggers append a    *)
(* row to catalog_change_log for every change of a product or of a store's  *)
(* override; its identity column is drawn by the writer and becomes visible *)
(* when the writer commits.  A till pages through a snapshot of what its    *)
(* store can sell, and then asks for the changes after a cursor, which is a *)
(* sequence of that log.                                                    *)
(*                                                                         *)
(* A page is a READ COMMITTED transaction of several statements, so writers *)
(* commit between them, and between the pages.  The till belongs to the     *)
(* client: it stages the pages of a snapshot, applies what a page says, and *)
(* keeps one of the cursors it was given; a snapshot's pages give different *)
(* ones.  Writers run at the same time, and commit in any order.            *)
(***************************************************************************)
EXTENDS Integers, FiniteSetsExt, SequencesExt

CONSTANTS
    Shelf,          \* the tenant's products: 1..n, in the order of their ids
    BaseRows,       \* values tenant_products rows take: [price, active, retired]
    OverrideRows,   \* values store_product_overrides rows take: [price, active]
    Representable,  \* prices with no more digits than their currency has
    Writers,
    Limit,          \* page size
    MaxEdits,       \* bound: catalogue changes
    Null            \* NULL

ASSUME ReadDownAssumption ==
    /\ IsFiniteSet(Shelf) /\ Shelf # {} /\ Shelf = 1..Cardinality(Shelf)
    /\ \A row \in BaseRows : row.active \in BOOLEAN /\ row.retired \in BOOLEAN
    /\ \A row \in OverrideRows : row.active \in BOOLEAN \cup {Null}
    /\ Null \notin BaseRows \cup OverrideRows \cup Nat
    /\ Limit \in Nat \ {0}
    /\ MaxEdits \in Nat

VARIABLES
    base,           \* [Shelf -> tenant_products row, Null before its INSERT]
    over,           \* [Shelf -> this store's override, Null without one]
    log,            \* committed rows of catalog_change_log
    pruned,         \* the newest sequence removed from it
    drawn,          \* sequences drawn so far
    pend,           \* [Writers -> its uncommitted change, Null]
    mirror,         \* the till's catalogue, a function on what it sells
    cursor,         \* the cursor the till keeps, Null before its first snapshot
    unread,         \* history: products the last snapshot ended before
    missed,         \* history: products changed at a sequence the till is past
    stmt,           \* next statement of the page being served, "idle"
    page            \* what the page's statements have read

readDownVars == <<base, over, log, pruned, drawn, pend, mirror, cursor, unread, missed, stmt, page>>
catalogue == <<base, over, log, pruned, drawn, pend>>
till == <<mirror, cursor, unread, stmt, page>>

-----------------------------------------------------------------------------
(* The change log.                                                           *)

\* A row of catalog_change_log: a product, for one store or for every store.
ChangeLogRow == [seq : Nat \ {0}, mine : BOOLEAN, product : Shelf]

Seqs(rows) == {r.seq : r \in rows}
LogHead == IF log = {} THEN 0 ELSE Max(Seqs(log))

\* The trigger on tenant_products does not log the INSERT of a product that
\* cannot be sold; the one on the overrides logs every change.
BaseSellable(row) == ~row.retired /\ row.active /\ row.price # Null
Logged(old, row) == old # Null \/ BaseSellable(row)

Free(part, p) == \A w \in Writers : pend[w] # Null => <<pend[w].part, pend[w].p>> # <<part, p>>

Draw(w, part, p, value, logged) ==
    /\ pend[w] = Null /\ drawn < MaxEdits
    /\ Free(part, p)
    /\ drawn' = drawn + 1
    /\ pend' = [pend EXCEPT ![w] = [part |-> part, p |-> p, value |-> value,
                                    seq |-> IF logged THEN drawn + 1 ELSE 0]]
    /\ UNCHANGED <<base, over, log, pruned, till, missed>>

\* TenantCatalogService.create, and later changes of the row.
EditProduct(w) ==
    \E p \in Shelf, row \in BaseRows :
        row # base[p] /\ Draw(w, "base", p, row, Logged(base[p], row))

\* StoreOverrideService.create, and later changes of the row.  The probe finds
\* only a committed product.
EditOverride(w) ==
    \E p \in Shelf, row \in OverrideRows \cup {Null} :
        base[p] # Null /\ row # over[p] /\ Draw(w, "over", p, row, TRUE)

\* A store's override at another store moves the log, not this till.
EditElsewhere(w) == Draw(w, "other", 1, Null, TRUE)

\* The cursor after a page of deltas.
NextCursor == IF page.rows = {} THEN page.head ELSE Max(Seqs(page.rows))

\* A till that has read the product will not look for a change of it at this
\* sequence: the cursor it has, or will have, is not before it.
Passed(p, seq) ==
    \/ stmt = "deltaRows" /\ seq <= NextCursor
    \/ stmt \in {"snapshotHead", "snapshotRows"} /\ p <= page.after /\ seq <= page.first
    \/ stmt \in {"idle", "deltaHorizon", "deltaHead", "deltaChanges"}
       /\ cursor # Null /\ seq <= cursor

\* COMMIT: the change and its row of the log become visible, whatever has been
\* committed since the row's sequence was drawn.
CommitEdit(w) ==
    /\ pend[w] # Null
    /\ base' = IF pend[w].part = "base" THEN [base EXCEPT ![pend[w].p] = pend[w].value] ELSE base
    /\ over' = IF pend[w].part = "over" THEN [over EXCEPT ![pend[w].p] = pend[w].value] ELSE over
    /\ log' = IF pend[w].seq = 0 THEN log
              ELSE log \cup {[seq |-> pend[w].seq, mine |-> pend[w].part # "other",
                              product |-> pend[w].p]}
    /\ missed' = missed \cup {p \in {pend[w].p} : /\ pend[w].seq # 0 /\ pend[w].part # "other"
                                                /\ Passed(p, pend[w].seq)}
    /\ pend' = [pend EXCEPT ![w] = Null]
    /\ UNCHANGED <<pruned, drawn, till>>

\* A rolled-back change leaves a gap in the sequence.
RollBack(w) ==
    /\ pend[w] # Null
    /\ pend' = [pend EXCEPT ![w] = Null]
    /\ UNCHANGED <<base, over, log, pruned, drawn, till, missed>>

\* Old rows of the log are removed between the till's requests, none that is
\* later than an open change; the newest one stays.
Prune ==
    /\ stmt = "idle"
    /\ Cardinality(log) > 1
    /\ \A w \in Writers : pend[w] # Null /\ pend[w].seq # 0 => Min(Seqs(log)) < pend[w].seq
    /\ pruned' = Min(Seqs(log))
    /\ log' = {r \in log : r.seq > Min(Seqs(log))}
    /\ UNCHANGED <<base, over, drawn, pend, till, missed>>

-----------------------------------------------------------------------------
(* Resolution: the override over the base, field by field.                   *)

Coalesce(a, b) == IF a # Null THEN a ELSE b

\* resolveProducts, for one product: COALESCE over the LEFT JOIN.
Resolved(p) ==
    LET o == IF over[p] = Null THEN [price |-> Null, active |-> Null] ELSE over[p]
    IN  [price |-> Coalesce(o.price, base[p].price),
         active |-> Coalesce(o.active, base[p].active),
         retired |-> base[p].retired]

\* isRepresentable: an amount with more digits than the currency is excluded.
IsRepresentable(price) == price \in Representable

\* classifySellable.
Sellable(p) ==
    /\ base[p] # Null
    /\ Resolved(p).price # Null
    /\ IsRepresentable(Resolved(p).price)
    /\ Resolved(p).active /\ ~Resolved(p).retired

\* toSellableRow.
Row(p) == Resolved(p).price

-----------------------------------------------------------------------------
(* Pages.                                                                    *)

Page(after, staged, first, head, rows) ==
    [after |-> after, staged |-> staged, first |-> first, head |-> head, rows |-> rows]
NoPage == Page(0, <<>>, Null, 0, {})
Serve(step, p) == stmt' = step /\ page' = p

ReadDownInit ==
    /\ base = [p \in Shelf |-> Null]
    /\ over = [p \in Shelf |-> Null]
    /\ log = {}
    /\ pruned = 0
    /\ drawn = 0
    /\ pend = [w \in Writers |-> Null]
    /\ mirror = <<>>
    /\ cursor = Null
    /\ unread = {}
    /\ missed = {}
    /\ stmt = "idle"
    /\ page = NoPage

\* The first request of a snapshot: nothing staged, no page token.
GetSnapshot ==
    /\ stmt = "idle" /\ cursor = Null
    /\ Serve("snapshotHead", NoPage)
    /\ missed' = {}
    /\ UNCHANGED <<catalogue, mirror, cursor, unread>>

\* getSnapshot's first statement: the head of the log is the page's cursor.
\* The controller passes no cursor token, so every page computes its own.
SnapshotHead ==
    /\ stmt = "snapshotHead"
    /\ Serve("snapshotRows",
             Page(page.after, page.staged,
                  IF page.first = Null THEN LogHead ELSE page.first, LogHead, {}))
    /\ UNCHANGED <<catalogue, mirror, cursor, unread, missed>>

\* The products after the page token, and the page's: one more than the limit.
Remaining(after) == {p \in Shelf : p > after /\ base[p] # Null}

Fetched(after) ==
    {p \in Remaining(after) : Cardinality({q \in Remaining(after) : q < p}) < Limit + 1}

\* The sellable ones among them, up to the limit.
Emitted(fetched) ==
    LET some == {p \in fetched : Sellable(p)}
    IN  {p \in some : Cardinality({q \in some : q < p}) < Limit}

\* hasMore && lastProductId: the last emitted product is the next token, if
\* the query returned a product beyond it.
NextToken(fetched, emitted) ==
    IF emitted # {} /\ \E p \in fetched : p > Max(emitted) THEN Max(emitted) ELSE Null

\* What is held, with the current rows of some products over it.
Upserted(ps, held) ==
    [p \in ps \cup DOMAIN held |-> IF p \in ps THEN Row(p) ELSE held[p]]

\* Products that were staged before they changed, at a sequence up to a cursor.
ChangedSince(p, first, kept) ==
    \E r \in log : r.mine /\ r.product = p /\ r.seq > first /\ r.seq <= kept

\* The page without a token is the last one: the till replaces what it had and
\* keeps the cursor of the first page or of this one.  Products that are not
\* sellable use up the query's limit, so this page need not have come to the end
\* of the catalogue.
SnapshotRows ==
    /\ stmt = "snapshotRows"
    /\ LET fetched == Fetched(page.after)
           emitted == Emitted(fetched)
           staged == Upserted(emitted, page.staged)
           token == NextToken(fetched, emitted)
       IN  IF token = Null
           THEN /\ mirror' = staged
                /\ \E kept \in {page.first, page.head} :
                       /\ cursor' = kept
                       /\ missed' = missed \cup
                              {p \in Shelf : p <= page.after /\ ChangedSince(p, page.first, kept)}
                /\ unread' = Remaining(page.after) \ fetched
                /\ Serve("idle", NoPage)
           ELSE /\ Serve("snapshotHead", Page(token, staged, page.first, 0, {}))
                /\ UNCHANGED <<mirror, cursor, unread, missed>>
    /\ UNCHANGED catalogue

\* The till asks for the changes after its cursor.
GetDeltas ==
    /\ stmt = "idle" /\ cursor # Null
    /\ Serve("deltaHorizon", NoPage)
    /\ UNCHANGED <<catalogue, mirror, cursor, unread, missed>>

\* Variant of BeyondHorizon: the horizon is taken too low.
BeyondHorizonLate(since) == log # {} /\ since < Min(Seqs(log)) - 2

\* getDeltas, the horizon check: a cursor older than the log needs a snapshot.
BeyondHorizon(since) == log # {} /\ since < Min(Seqs(log)) - 1

DeltaHorizon ==
    /\ stmt = "deltaHorizon"
    /\ IF BeyondHorizon(cursor)
       THEN cursor' = Null /\ Serve("idle", NoPage)
       ELSE Serve("deltaHead", NoPage) /\ UNCHANGED cursor
    /\ UNCHANGED <<catalogue, mirror, unread, missed>>

\* The head is read before the changes: an empty page advances to it.
DeltaHead ==
    /\ stmt = "deltaHead"
    /\ Serve("deltaChanges", Page(0, <<>>, Null, IF log = {} THEN cursor ELSE LogHead, {}))
    /\ UNCHANGED <<catalogue, mirror, cursor, unread, missed>>

\* SELECT product_id, max(sequence) ... GROUP BY product_id ORDER BY
\* max(sequence) LIMIT: the newest change of each product since the cursor.
Changes(since) ==
    LET rows == {r \in log : r.mine /\ r.seq > since}
        newest == {r \in rows : \A q \in rows : q.product = r.product => q.seq <= r.seq}
    IN  {r \in newest : Cardinality({q \in newest : q.seq < r.seq}) < Limit}

DeltaChanges ==
    /\ stmt = "deltaChanges"
    /\ Serve("deltaRows", Page(0, <<>>, Null, page.head, Changes(cursor)))
    /\ UNCHANGED <<catalogue, mirror, cursor, unread, missed>>

\* An upsert carries the row as it resolves now, whatever the log said; a
\* product that is not sellable now is removed.
Applied(named) ==
    Upserted({p \in named : Sellable(p)}, [p \in (DOMAIN mirror) \ named |-> mirror[p]])

\* Variant of DeltaRows: the cursor goes to the log's head, past the changes
\* that the page left out.
DeltaRowsToHead ==
    /\ stmt = "deltaRows"
    /\ LET named == {r.product : r \in page.rows}
       IN  mirror' = Applied(named) /\ unread' = unread \ named /\ missed' = missed \ named
    /\ cursor' = page.head
    /\ Serve("idle", NoPage)
    /\ UNCHANGED catalogue

DeltaRows ==
    /\ stmt = "deltaRows"
    /\ LET named == {r.product : r \in page.rows}
       IN  mirror' = Applied(named) /\ unread' = unread \ named /\ missed' = missed \ named
    /\ cursor' = NextCursor
    /\ Serve("idle", NoPage)
    /\ UNCHANGED catalogue

Write(w) == EditProduct(w) \/ EditOverride(w) \/ EditElsewhere(w) \/ CommitEdit(w) \/ RollBack(w)
Till == GetSnapshot \/ SnapshotHead \/ SnapshotRows \/ GetDeltas \/ DeltaHorizon \/ DeltaHead
        \/ DeltaChanges \/ DeltaRows

ReadDownNext == (\E w \in Writers : Write(w)) \/ Prune \/ Till

ReadDownSpec == ReadDownInit /\ [][ReadDownNext]_readDownVars

\* The till keeps asking, and a writer ends its transaction.
Fairness == WF_readDownVars(Till) /\ \A w \in Writers : WF_readDownVars(CommitEdit(w) \/ RollBack(w))

LiveSpec == ReadDownSpec /\ Fairness

-----------------------------------------------------------------------------
(* Properties.                                                               *)

\* The rows, the till's catalogue and its cursor are of their kinds.
ReadDownTypeOK ==
    /\ \A p \in Shelf : base[p] \in BaseRows \cup {Null} /\ over[p] \in OverrideRows \cup {Null}
    /\ log \subseteq ChangeLogRow
    /\ DOMAIN mirror \subseteq Shelf
    /\ cursor \in Nat \cup {Null}

\* What is held of a product is what the store sells now.
Agrees(p, held) ==
    /\ p \in DOMAIN held <=> Sellable(p)
    /\ Sellable(p) => held[p] = Row(p)
Shown(p) == Agrees(p, mirror)

\* A change of it that a cursor has not passed.
AnnouncedSince(p, since) == \E r \in log : r.mine /\ r.product = p /\ r.seq > since
Announced(p) == AnnouncedSince(p, cursor)

\* Nothing the till holds is stale and unannounced, but for two causes: between
\* pages, a product the till shows differently from what the store sells now has
\* a change the till's cursor has not passed, or the till is about to be told to
\* start over.  The exceptions are products that the last snapshot ended before,
\* and products whose change committed at a sequence the till was already past,
\* because a later one had committed first or because the till kept a cursor
\* that is later than the page the product was on.
StaleIsAnnounced ==
    /\ ReadDownTypeOK
    /\ stmt = "idle" /\ cursor # Null =>
        \A p \in Shelf \ (unread \cup missed) : Shown(p) \/ Announced(p) \/ BeyondHorizon(cursor)

\* FR-022: a consumer applying deltas in order reaches the current resolved
\* state.  A product that the till shows differently from what the store sells
\* has a change to come.
NothingMissed ==
    stmt = "idle" /\ cursor # Null =>
        \A p \in Shelf \ unread : Shown(p) \/ Announced(p) \/ BeyondHorizon(cursor)

\* FR-010: the snapshot is the full sellable catalogue.  A product that the
\* store sells and the till does not show has a change to come.
SnapshotIsFull ==
    stmt = "idle" /\ cursor # Null =>
        \A p \in Shelf : Sellable(p) => p \in DOMAIN mirror \/ Announced(p) \/ BeyondHorizon(cursor)

\* Once the catalogue stops changing, the till comes to show what the store
\* sells and stays with it, but for products its last snapshot ended before and
\* for changes that committed at a sequence it was past.
EventuallyMirrors == <>[](\A p \in Shelf \ (unread \cup missed) : Shown(p))

-----------------------------------------------------------------------------
(* The inductive invariant behind StaleIsAnnounced.                          *)

\* Rows are rows; an override is of a product that exists.
CatalogueHolds ==
    /\ base \in [Shelf -> BaseRows \cup {Null}]
    /\ over \in [Shelf -> OverrideRows \cup {Null}]
    /\ \A p \in Shelf : base[p] = Null => over[p] = Null

\* A sequence names one change of the log, was drawn, and not removed; the log
\* is not emptied.
LogHolds ==
    /\ drawn \in Nat /\ pruned \in Nat
    /\ log \subseteq ChangeLogRow /\ IsFiniteSet(log)
    /\ \A r \in log : pruned < r.seq /\ r.seq <= drawn
    /\ log = {} => pruned = 0
    /\ \A r, s \in log : r.seq = s.seq => r = s

\* An open change is later than every one removed, and its sequence no other's;
\* one that the trigger does not log is the INSERT of a product that nobody
\* could sell.
ChangeHolds(e) ==
    /\ e.part \in {"base", "over", "other"}
    /\ e.p \in Shelf
    /\ e.part = "base" => e.value \in BaseRows
    /\ e.part = "over" => e.value \in OverrideRows \cup {Null} /\ base[e.p] # Null
    /\ e.seq \in Nat /\ e.seq <= drawn
    /\ e.seq # 0 => pruned < e.seq /\ \A r \in log : r.seq # e.seq
    /\ e.seq = 0 => e.part = "base" /\ base[e.p] = Null /\ ~BaseSellable(e.value)
PendHolds ==
    /\ pend = [w \in Writers |-> pend[w]]
    /\ \A w \in Writers : pend[w] # Null => ChangeHolds(pend[w])
    /\ \A v, w \in Writers : pend[v] # Null /\ pend[w] # Null /\ v # w =>
           /\ pend[v].seq = pend[w].seq => pend[v].seq = 0
           /\ <<pend[v].part, pend[v].p>> # <<pend[w].part, pend[w].p>>

\* The till's cursor is a sequence; it has none while it takes a snapshot.
CursorsHold ==
    /\ cursor # Null => cursor \in Nat
    /\ stmt \in {"idle", "snapshotHead", "snapshotRows",
                "deltaHorizon", "deltaHead", "deltaChanges", "deltaRows"}
    /\ stmt \in {"snapshotHead", "snapshotRows"} => cursor = Null
    /\ stmt \in {"deltaHorizon", "deltaHead", "deltaChanges", "deltaRows"} => cursor # Null
    /\ DOMAIN mirror \subseteq Shelf

\* A snapshot has staged the products up to its token as they are now, but for
\* changes later than its first cursor and for those that it is past.
SnapshotHolds ==
    stmt \in {"snapshotHead", "snapshotRows"} =>
        /\ page.after \in Nat
        /\ DOMAIN page.staged \subseteq {p \in Shelf : p <= page.after}
        /\ page.first = Null => page.after = 0 /\ stmt = "snapshotHead"
        /\ page.first # Null => page.first \in Nat
        /\ stmt = "snapshotRows" => page.head \in Nat
        /\ \A p \in Shelf \ missed : p <= page.after =>
               Agrees(p, page.staged) \/ AnnouncedSince(p, page.first)

\* What is stale is named by the page of deltas, or announced after the cursor
\* that it gives.
Named == {r.product : r \in page.rows}
LeftOut(p) == AnnouncedSince(p, NextCursor)
DeltaHolds ==
    /\ stmt \in {"deltaChanges", "deltaRows"} => page.head \in Nat
    /\ stmt = "deltaRows" =>
        /\ page.rows \subseteq ChangeLogRow /\ NextCursor \in Nat
        /\ \A p \in Shelf \ (unread \cup missed) : Shown(p) \/ p \in Named \/ LeftOut(p)

\* Before that, it is announced, once the horizon is checked.
TillHolds ==
    cursor # Null /\ stmt # "deltaRows" =>
        \A p \in Shelf \ (unread \cup missed) :
            \/ Shown(p)
            \/ Announced(p)
            \/ stmt \in {"idle", "deltaHorizon"} /\ cursor < pruned

ReadDownInvariant ==
    /\ CatalogueHolds
    /\ LogHolds
    /\ PendHolds
    /\ CursorsHold
    /\ SnapshotHolds
    /\ DeltaHolds
    /\ TillHolds
=============================================================================
