-------------------------------- MODULE Pages --------------------------------
(***************************************************************************)
(* The client's walk over a paginated listing (ListAllProviders,           *)
(* ListProxyProviders, ListGroups), one request per page, while others     *)
(* create and delete what is listed.                                       *)
(***************************************************************************)
EXTENDS Naturals, FiniteSets, SequencesExt

CONSTANTS
  Rows,      \* what may ever be listed; no row comes back
  PageSize   \* 100 in the code

ASSUME PageSizeAssumption == PageSize \in Nat \ {0}
ASSUME RowsAssumption == IsFiniteSet(Rows)

VARIABLES
  list,      \* the server's rows, in the order it lists them
  fresh,     \* the rows that were never in it
  walk,      \* "idle", "walking", "done", "refused" (404) or "failed"
  page,      \* the page to ask for next
  got,       \* the rows of the pages so far
  standing,  \* the rows that have been in the list since the walk began
  removed,   \* how many were deleted from the pages it has read
  shrunk     \* a row has been deleted since it began

server == <<list, fresh>>
client == <<walk, page, got>>
vars == <<server, client, standing, removed, shrunk>>

Init ==
  /\ \E there \in SUBSET Rows :
       /\ list \in SetToSeqs(there)
       /\ fresh = Rows \ there
  /\ walk = "idle"
  /\ page = 1
  /\ got = {}
  /\ standing = {}
  /\ removed = 0
  /\ shrunk = FALSE

-----------------------------------------------------------------------------
\* The server, in whatever order it lists, and the others.

Create(row, i) ==
  /\ row \in fresh
  /\ fresh' = fresh \ {row}
  /\ list' = InsertAt(list, i, row)
  /\ UNCHANGED <<client, standing, removed, shrunk>>

Read(i) == walk = "walking" /\ i <= (page - 1) * PageSize

Delete(i) ==
  /\ list' = RemoveAt(list, i)
  /\ standing' = standing \ {list[i]}
  /\ removed' = IF Read(i) THEN removed + 1 ELSE removed
  /\ shrunk' = (shrunk \/ walk = "walking")
  /\ UNCHANGED <<fresh, client>>

\* A page after the last one is not found, nor is page 0; page 1 is there when nothing
\* else is.
Found(p) == p = 1 \/ (p > 1 /\ (p - 1) * PageSize < Len(list))
Results(p) == {list[i] : i \in {j \in DOMAIN list : (j - 1) \div PageSize = p - 1}}

\* The number of the next page, 0 on the last one.
NextPage(p) == IF p * PageSize < Len(list) THEN p + 1 ELSE 0

-----------------------------------------------------------------------------
\* The client.

BeginWalk ==
  /\ walk = "idle"
  /\ walk' = "walking"
  /\ standing' = ToSet(list)
  /\ UNCHANGED <<server, page, got, removed, shrunk>>

\* A walk that takes page 0 for one that is still to come.
FetchUntilNone ==
  /\ walk = "walking"
  /\ Found(page)
  /\ got' = got \cup Results(page)
  /\ page' = NextPage(page)
  /\ UNCHANGED <<server, walk, standing, removed, shrunk>>

\* A walk that forgets to turn the page.
FetchWithoutAdvance ==
  /\ walk = "walking"
  /\ Found(page)
  /\ got' = got \cup Results(page)
  /\ walk' = IF NextPage(page) <= page THEN "done" ELSE walk
  /\ UNCHANGED <<server, page, standing, removed, shrunk>>

\* listPage, and the next page unless it is none beyond this one.
Fetch ==
  /\ walk = "walking"
  /\ Found(page)
  /\ got' = got \cup Results(page)
  /\ IF NextPage(page) <= page
       THEN walk' = "done" /\ UNCHANGED page
       ELSE page' = NextPage(page) /\ UNCHANGED walk
  /\ UNCHANGED <<server, standing, removed, shrunk>>

\* An error on any page is the walk's, and nothing is returned.
Drop(why) ==
  /\ walk' = why
  /\ got' = {}
  /\ UNCHANGED <<server, page, standing, removed, shrunk>>

FetchNotFound == walk = "walking" /\ ~Found(page) /\ Drop("refused")
FetchFails == walk = "walking" /\ Drop("failed")

Step == Fetch \/ FetchNotFound

Next ==
  \/ \E row \in fresh, i \in 1..(Len(list) + 1) : Create(row, i)
  \/ \E i \in DOMAIN list : Delete(i)
  \/ BeginWalk
  \/ Step
  \/ FetchFails

\* The client asks for the next page as soon as it has one.
Spec == Init /\ [][Next]_vars /\ WF_vars(Step)

-----------------------------------------------------------------------------
\* "Returns every provider" (ListAllProviders), on which the collision check and the
\* orphan scan rely: what was listed all along is missing from a walk's result only if
\* something was deleted from a page it had read, one row for each, as the rows behind
\* it move up across the page's end; and a page is refused only to a list that shrank.
MissedByDeletionOnly ==
  /\ walk = "done" => Cardinality(standing \ got) <= removed
  /\ walk = "refused" => shrunk

\* "The walk stops unless Next names a page strictly beyond the current one"
\* (ListAllProviders): it ends, with a result or an error, whatever comes and goes.
WalkEnds == walk = "walking" ~> walk \in {"done", "refused", "failed"}
=============================================================================
