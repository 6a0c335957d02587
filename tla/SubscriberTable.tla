-------------------------- MODULE SubscriberTable --------------------------
(***************************************************************************)
(* The admin's table of subscribers (suscriptores/page.tsx with             *)
(* subscriber-filters.tsx, subscriber-columns.tsx and                       *)
(* subscriber-bulk-actions.tsx): filtered by status and plan before the     *)
(* table library sees the data, then searched, sorted and paged by it.      *)
(* Ticks and expansions are kept under the library's row ids, which are     *)
(* positions in the filtered data.  What changes the data, refetches and    *)
(* optimistic rows, is modelled in SubscriberCache.                         *)
(***************************************************************************)
EXTENDS Integers, SequencesExt

CONSTANTS
    Subscriber,     \* numbers, in the order of the subscribers' names
    PlanOf,         \* the plan of each
    PageSize,
    Still           \* data and filters change only while no row is ticked or expanded

TableAssumption ==
    Subscriber \subseteq Nat /\ IsFiniteSet(Subscriber) /\ PageSize \in Nat \ {0} /\ Still \in BOOLEAN

VARIABLES
    subscribers,    \* the query's data, empty before it is loaded
    statusOf,
    statusFilter, planFilter,
    globalFilter,   \* the subscribers the search text matches
    sorting,
    pageIndex,
    rowSelection, expanded,     \* row ids
    ticked, opened              \* history: the subscribers the owner ticked, and expanded

filterVars == <<statusFilter, planFilter>>
dataVars == <<subscribers, statusOf>>
viewVars == <<globalFilter, sorting, pageIndex>>
tickVars == <<rowSelection, ticked>>
openVars == <<expanded, opened>>
vars == <<dataVars, filterVars, viewVars, tickVars, openVars>>

Status == {"active", "expired"}
Plan == {PlanOf[s] : s \in Subscriber}

\* What the query may bring: some of them, in any order.
Data == UNION {SetToSeqs(S) : S \in SUBSET Subscriber}

\* The members of a set by their keys, the smallest first.
InOrder(S, key) ==
    [n \in 1..Cardinality(S) |-> CHOOSE s \in S : Cardinality({t \in S : key[t] < key[s]}) = n - 1]

FilteredData ==
    LET Matches(s) == statusFilter \in {"all", statusOf[s]} /\ planFilter \in {"all", PlanOf[s]}
        places == {i \in DOMAIN subscribers : Matches(subscribers[i])}
        place == InOrder(places, [i \in places |-> i])
    IN  [i \in DOMAIN place |-> subscribers[place[i]]]

RowIds == DOMAIN FilteredData

\* The ids of the rows that the search leaves, in the order they are shown.
Displayed ==
    LET rows == FilteredData
        hits == {i \in DOMAIN rows : rows[i] \in globalFilter}
    IN  InOrder(hits, [i \in hits |-> CASE sorting = "none" -> i
                                        [] sorting = "asc"  -> rows[i]
                                        [] sorting = "desc" -> 0 - rows[i]])

PageCount == (Len(Displayed) + PageSize - 1) \div PageSize

\* getRowModel: the ids of the rows on the page.
Page ==
    LET shown == Displayed
    IN  {shown[i] : i \in {j \in DOMAIN shown : (j - 1) \div PageSize = pageIndex}}

\* A row known by its place on the page.
RowIdByPlace(i) == IF Contains(Displayed, i) THEN CHOOSE j \in DOMAIN Displayed : Displayed[j] = i ELSE 0

\* row.id: no getRowId is given.
RowId(i) == i

\* What WhatsApp and the CSV are made for: rows of every page, hidden by the search or not.
SelectedSubscribers ==
    LET rows == FilteredData
    IN  {rows[i] : i \in {j \in DOMAIN rows : RowId(j) \in rowSelection}}

\* The bar and its number of "seleccionados".
BulkActions == [shown |-> SelectedSubscribers # {}, selectedCount |-> Cardinality(SelectedSubscribers)]

\* The rows whose wash history is shown when they are on the page.
ExpandedSubscribers ==
    LET rows == FilteredData
    IN  {rows[i] : i \in {j \in DOMAIN rows : RowId(j) \in expanded}}

MayMove == Still => rowSelection = {} /\ expanded = {}

Init ==
    /\ subscribers = <<>>
    /\ statusOf \in [Subscriber -> Status]
    /\ statusFilter = "all" /\ planFilter = "all"
    /\ globalFilter = Subscriber
    /\ sorting = "none"
    /\ pageIndex = 0
    /\ rowSelection = {} /\ expanded = {}
    /\ ticked = {} /\ opened = {}

-----------------------------------------------------------------------------
\* autoResetPageIndex: other rows bring the first page.
ResetPage == pageIndex' = 0

\* The query brings other data.
Refetch(data, status) ==
    /\ <<data, status>> # dataVars
    /\ subscribers' = data /\ statusOf' = status
    /\ ResetPage
    /\ UNCHANGED <<filterVars, globalFilter, sorting, tickVars, openVars>>

\* One of the two selects, or "Limpiar", which clears both.
SetFilters(status, plan) ==
    /\ <<status, plan>> # filterVars
    /\ status = statusFilter \/ plan = planFilter \/ <<status, plan>> = <<"all", "all">>
    /\ statusFilter' = status /\ planFilter' = plan
    /\ ResetPage
    /\ UNCHANGED <<dataVars, globalFilter, sorting, tickVars, openVars>>

Search(hits) ==
    /\ globalFilter # hits
    /\ globalFilter' = hits
    /\ ResetPage
    /\ UNCHANGED <<dataVars, filterVars, sorting, tickVars, openVars>>

\* The header's button never goes back to the unsorted table.
ToggleSorting ==
    /\ sorting' = IF sorting = "asc" THEN "desc" ELSE "asc"
    /\ ResetPage
    /\ UNCHANGED <<dataVars, filterVars, globalFilter, tickVars, openVars>>

TurnPage(i) ==
    /\ i \in {pageIndex - 1, pageIndex + 1} /\ i >= 0 /\ i < PageCount
    /\ pageIndex' = i
    /\ UNCHANGED <<dataVars, filterVars, globalFilter, sorting, tickVars, openVars>>

\* A row's box.
ToggleSelected(i) ==
    /\ IF RowId(i) \in rowSelection
       THEN rowSelection' = rowSelection \ {RowId(i)} /\ ticked' = ticked \ {FilteredData[i]}
       ELSE rowSelection' = rowSelection \cup {RowId(i)} /\ ticked' = ticked \cup {FilteredData[i]}
    /\ UNCHANGED <<dataVars, filterVars, viewVars, openVars>>

\* The box in the header.
ToggleAllPageRowsSelected ==
    LET page == Page
        ids == {RowId(i) : i \in page}
        their == {FilteredData[i] : i \in page}
    IN
    /\ page # {}
    /\ IF ids \subseteq rowSelection
       THEN rowSelection' = rowSelection \ ids /\ ticked' = ticked \ their
       ELSE rowSelection' = rowSelection \cup ids /\ ticked' = ticked \cup their
    /\ UNCHANGED <<dataVars, filterVars, viewVars, openVars>>

ToggleExpanded(i) ==
    /\ IF RowId(i) \in expanded
       THEN expanded' = expanded \ {RowId(i)} /\ opened' = opened \ {FilteredData[i]}
       ELSE expanded' = expanded \cup {RowId(i)} /\ opened' = opened \cup {FilteredData[i]}
    /\ UNCHANGED <<dataVars, filterVars, viewVars, tickVars>>

Next ==
    \/ MayMove /\ \E data \in Data, status \in [Subscriber -> Status] : Refetch(data, status)
    \/ MayMove /\ \E status \in Status \cup {"all"}, plan \in Plan \cup {"all"} : SetFilters(status, plan)
    \/ \E hits \in SUBSET Subscriber : Search(hits)
    \/ \E i \in 0..PageCount : TurnPage(i)
    \/ ToggleSorting
    \/ \E i \in Page : ToggleSelected(i) \/ ToggleExpanded(i)
    \/ ToggleAllPageRowsSelected

Spec == Init /\ [][Next]_vars

-----------------------------------------------------------------------------
\* A bulk action reaches exactly those the owner ticked, none of them for nothing, and the
\* open rows are those he opened, however the table is searched, sorted and paged.  It takes
\* Still: the keys are positions, and name other subscribers as soon as rows come or go.
KeysFollowRows ==
    /\ SelectedSubscribers = ticked
    /\ BulkActions.selectedCount = Cardinality(rowSelection)
    /\ ExpandedSubscribers = opened

\* The page exists: a table with rows never shows the empty state, or a page 3 of 2.
PageExists == pageIndex = 0 \/ pageIndex < PageCount

\* Inductive, with Still.
IInv ==
    /\ subscribers \in Data
    /\ sorting \in {"none", "asc", "desc"} /\ pageIndex \in Nat
    /\ rowSelection \subseteq RowIds /\ SelectedSubscribers = ticked
    /\ expanded \subseteq RowIds /\ ExpandedSubscribers = opened
    /\ PageExists
=============================================================================
