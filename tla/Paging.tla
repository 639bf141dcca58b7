------------------------------- MODULE Paging -------------------------------
(***************************************************************************)
(* Listing lots page by page: Store.ListLots of internal/storage/sqlite    *)
(* with pagination.Normalize, for one tenant and no filter.  Every page is *)
(* a statement of its own and lots are taken in between.  Pages are in the *)
(* order of received_at, the latest first; it is compared as text, in      *)
(* which a later instant may come first (00.5Z before 00Z), so a new lot   *)
(* may come in anywhere.  The text has no tie-breaker: lots with the same  *)
(* text come in the order SQLite finds them, which is taken to be the same *)
(* for every page; ListLots does not ask for it.  The COUNT that precedes  *)
(* each SELECT is not used by the clients modelled here.                   *)
(***************************************************************************)
EXTENDS Integers, Sequences, SequencesExt

CONSTANTS
  Row,          \* the lots that are taken in
  Reader,       \* the clients
  Asked,        \* the limits they ask for
  MaxLimit,     \* the largest limit, 100
  DefaultLimit  \* the limit for all others, 25

VARIABLES
  rows, \* the ids of lots in the order of pages
  walk  \* walk[r]: the walk of client r over the pages

vars == <<rows, walk>>

Idle == [reading |-> FALSE, limit |-> 1, offset |-> 0, seen |-> {}, due |-> {}]

\* Normalize.
Limit(asked) == IF asked <= 0 \/ asked > MaxLimit THEN DefaultLimit ELSE asked

----------------------------------------------------------------------------
\* A lot is taken in, by Intake.
InsertLot(id, i) ==
  /\ id \notin ToSet(rows)
  /\ rows' = InsertAt(rows, i, id)
  /\ UNCHANGED walk

\* A client starts to read all pages; due are the lots it should see.
Begin(r, asked) ==
  /\ ~walk[r].reading
  /\ walk' = [walk EXCEPT ![r] =
       [Idle EXCEPT !.reading = TRUE, !.limit = Limit(asked), !.due = ToSet(rows)]]
  /\ UNCHANGED rows

LastRow(limit, offset) == IF offset + limit < Len(rows) THEN offset + limit ELSE Len(rows)

\* A mutant of Page: the offset is the first row, not the rows before it.
PageLate(limit, offset) == SubSeq(rows, offset + 2, LastRow(limit, offset + 1))

\* SELECT ... ORDER BY received_at DESC LIMIT ? OFFSET ?
Page(limit, offset) == SubSeq(rows, offset + 1, LastRow(limit, offset))

\* ListLots; the client asks for the next page unless this one is empty.
ListLots(r) ==
  LET page == Page(walk[r].limit, walk[r].offset)
  IN  /\ walk[r].reading
      /\ walk' = [walk EXCEPT ![r].reading = page # <<>>,
                              ![r].offset = @ + walk[r].limit,
                              ![r].seen = @ \cup ToSet(page)]
      /\ UNCHANGED rows

----------------------------------------------------------------------------
Init == rows = <<>> /\ walk = [r \in Reader |-> Idle]

Next ==
  \/ \E id \in Row, i \in 1..Len(rows) + 1 : InsertLot(id, i)
  \/ \E r \in Reader : (\E asked \in Asked : Begin(r, asked)) \/ ListLots(r)

----------------------------------------------------------------------------
(* Properties *)

\* A client that walks over the pages until one is empty sees every lot there was
\* when it began, although lots come in between and push the others on.
WalkMissesNothing ==
  \A r \in Reader : ~walk[r].reading => walk[r].due \subseteq walk[r].seen
============================================================================
