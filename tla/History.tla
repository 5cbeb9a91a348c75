------------------------------ MODULE History ------------------------------
(***************************************************************************)
(* GET /wallet/transactions (app/services/wallet_service.py:               *)
(* get_transactions) read page by page, as the web client reads it, while  *)
(* payments commit and deposits settle.                                    *)
(*                                                                         *)
(* A page takes two queries, COUNT and then SELECT ... OFFSET ... LIMIT,   *)
(* and under READ COMMITTED each sees what is committed when it runs.      *)
(* Rows are numbered by created_at, PostgreSQL's now(): the start of the   *)
(* payment's transaction, not its commit, so a row may appear below newer  *)
(* ones.                                                                   *)
(*                                                                         *)
(* While a page loads, the client keeps the last one on the screen with    *)
(* its buttons (placeholderData), so that a reader may click again before  *)
(* the page asked for is shown: that page is given up for the next.        *)
(*                                                                         *)
(* The date filters select rows by a column that never changes and are     *)
(* left out: the rows are those between the two dates.                     *)
(***************************************************************************)
EXTENDS Integers, FiniteSets

CONSTANTS
    MaxRows,   \* bound: payments of the wallet begun in one behaviour
    PageSize,  \* page_size, 1 to 100 in the code
    MaxSkips   \* bound: pages of one walk given up before they were shown

ASSUME RowsAssumption == MaxRows \in Nat /\ PageSize \in Nat \ {0} /\ MaxSkips \in Nat

VARIABLES
    row,      \* each payment's row: not there, uncommitted, or its status
    begun,    \* payments begun
    filter,   \* the status asked for, or "any"
    page,     \* the page asked for
    total,    \* what COUNT returned
    step,     \* where the reader is
    onscreen, \* page and total of the pagination on the screen; 0, 0: none yet
    seen,     \* auxiliary: rows shown on the pages of this walk
    repeats,  \* auxiliary: rows shown once more
    skipped,  \* auxiliary: pages of this walk given up before they were shown
    steady,   \* auxiliary: rows that matched the filter all along the walk
    entered,  \* auxiliary: rows that came to match it on the way
    left,     \* auxiliary: rows that ceased to match it on the way
    slipped   \* auxiliary: rows of `entered' that came after this page's COUNT

table == <<row, begun>>
reader == <<filter, page, total, step, onscreen, seen, repeats, skipped>>
walk == <<steady, entered, left, slipped>>
vars == <<table, reader, walk>>

-----------------------------------------------------------------------------

Id == 1 .. MaxRows
Status == {"PENDING", "COMPLETED", "FAILED"}

\* The rows that satisfy the WHERE clause, when the table is t and the filter f.
Matching(t, f) == {n \in Id : t[n] \in Status /\ f \in {"any", t[n]}}

\* Faults: pages counted from 0; pages that overlap by one row.
OffsetFromZero(p) == p * PageSize
OffsetShort(p) == (p - 1) * (PageSize - 1)

\* OFFSET of page p.
Offset(p) == (p - 1) * PageSize

\* The rows of page p, newest first.
PageOf(p) ==
    LET matching == Matching(row, filter)
        Rank(n) == Cardinality({m \in matching : m >= n})
    IN {n \in matching : Rank(n) \in Offset(p) + 1 .. Offset(p) + PageSize}

\* Fault: a full last page is taken for one with a successor.
HasNextAtLeast == onscreen.page <= onscreen.total \div PageSize

\* pagination.has_next: the page is not the last of ceil(total / page_size).
HasNext == onscreen.page < (onscreen.total + PageSize - 1) \div PageSize

-----------------------------------------------------------------------------
(* Payments and the workers.                                               *)

\* Row n becomes s; the walk under way notes, in the model only, what that
\* does to the rows it is about.
Becomes(n, s) ==
    LET after == [row EXCEPT ![n] = s]
        matched == Matching(row, filter)
        matching == Matching(after, filter)
    IN /\ row' = after
       /\ steady' = steady \cap matching
       /\ left' = left \cup (matched \ matching)
       /\ entered' = entered \cup (matching \ matched)
       /\ slipped' = IF step = "fetch" THEN slipped \cup (matching \ matched)
                                       ELSE slipped
       /\ UNCHANGED reader

\* The transaction of a payment begins: created_at is settled.
Begin ==
    /\ begun < MaxRows
    /\ begun' = begun + 1
    /\ row' = [row EXCEPT ![begun + 1] = "uncommitted"]
    /\ UNCHANGED <<reader, walk>>

\* A deposit's row is committed PENDING, a transfer's COMPLETED.
Commit(n) ==
    /\ row[n] = "uncommitted"
    /\ Becomes(n, "PENDING") \/ Becomes(n, "COMPLETED")
    /\ UNCHANGED begun

RollBack(n) ==
    /\ row[n] = "uncommitted"
    /\ Becomes(n, "none")
    /\ UNCHANGED begun

\* The webhook task or the sweep settles a deposit.
Settle(n) ==
    /\ row[n] = "PENDING"
    /\ Becomes(n, "COMPLETED") \/ Becomes(n, "FAILED")
    /\ UNCHANGED begun

-----------------------------------------------------------------------------
(* The reader.                                                             *)

\* The page opens, or the user picks a filter, whatever is loading: page 1 of
\* another walk, the old one's page still on the screen.
StartWalk(f) ==
    /\ filter' = f /\ page' = 1 /\ step' = "count" /\ total' = 0
    /\ seen' = {} /\ repeats' = 0 /\ skipped' = 0
    /\ steady' = Matching(row, f)
    /\ entered' = {} /\ left' = {} /\ slipped' = {}
    /\ UNCHANGED <<table, onscreen>>

\* SELECT count(*).
CountRows ==
    /\ step = "count"
    /\ total' = Cardinality(Matching(row, filter))
    /\ step' = "fetch"
    /\ slipped' = {}
    /\ UNCHANGED <<table, filter, page, onscreen, seen, repeats, skipped>>
    /\ UNCHANGED <<steady, entered, left>>

\* SELECT ... ORDER BY created_at DESC OFFSET ... LIMIT ..., and the answer.
FetchPage ==
    /\ step = "fetch"
    /\ step' = "shown"
    /\ onscreen' = [page |-> page, total |-> total]
    /\ seen' = seen \cup PageOf(page)
    /\ repeats' = repeats + Cardinality(PageOf(page) \cap seen)
    /\ UNCHANGED <<table, filter, page, total, skipped, walk>>

\* The Next button, disabled only unless has_next of the page on the screen:
\* that page may be an earlier one, and the page asked for is then given up.
NextPage ==
    /\ HasNext
    /\ \/ step = "shown" /\ UNCHANGED skipped
       \/ step # "shown" /\ skipped < MaxSkips /\ skipped' = skipped + 1
    /\ page' = page + 1
    /\ step' = "count"
    /\ UNCHANGED <<table, filter, total, onscreen, seen, repeats, walk>>

-----------------------------------------------------------------------------

Init ==
    /\ row = [n \in Id |-> "none"] /\ begun = 0
    /\ filter = "any" /\ page = 1 /\ total = 0 /\ step = "idle"
    /\ onscreen = [page |-> 0, total |-> 0]
    /\ seen = {} /\ repeats = 0 /\ skipped = 0
    /\ steady = {} /\ entered = {} /\ left = {} /\ slipped = {}

Next ==
    \/ Begin
    \/ \E n \in Id : Commit(n) \/ RollBack(n) \/ Settle(n)
    \/ \E f \in {"any"} \cup Status : StartWalk(f)
    \/ CountRows \/ FetchPage \/ NextPage

Spec == Init /\ [][Next]_vars

-----------------------------------------------------------------------------
(* Correctness.                                                            *)

\* Types; a reader who follows has_next asks for pages the table could not have
\* only by clicking on while a page loads, one page too far at most for each
\* click.
TypeOK ==
    /\ row \in [Id -> Status \cup {"none", "uncommitted"}]
    /\ begun \in 0 .. MaxRows
    /\ filter \in {"any"} \cup Status
    /\ page \in Nat \ {0} /\ skipped \in 0 .. MaxSkips
    /\ page - skipped \in {1} \cup 1 .. (MaxRows + PageSize - 1) \div PageSize
    /\ total \in 0 .. MaxRows
    /\ onscreen \in [page : Nat, total : 0 .. MaxRows]
    /\ step \in {"idle", "count", "fetch", "shown"}
    /\ seen \subseteq Id /\ repeats \in Nat
    /\ steady \subseteq Id /\ entered \subseteq Id
    /\ left \subseteq Id /\ slipped \subseteq Id

\* A reader who has followed has_next to the end has been shown every row that
\* matched all along, but for at most one row for each that left the filter on
\* the way (what followed moved up a place, past the reader), one for each that
\* came between the COUNT and the SELECT of the last page, and a page for each
\* time the reader clicked on before the page asked for was shown.
MissedOnlyByOverlap ==
    step = "shown" /\ ~HasNext =>
        Cardinality(steady \ seen)
            <= Cardinality(left) + Cardinality(slipped) + PageSize * skipped

\* Rows are shown again only when others came in ahead of them, at most one
\* for each that came.
RepeatedOnlyByInsert == repeats <= Cardinality(entered)

=============================================================================
