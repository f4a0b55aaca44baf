----------------------------- MODULE ReadPages -----------------------------
(***************************************************************************)
(* The pages that only read: the administrator's order list, dashboard,    *)
(* analytics and exports, and a customer's own orders and order.  One page *)
(* is open at a time.  A page asks for one or several sections at once and *)
(* goes on when all of them are answered; what it asked for may have been  *)
(* superseded by then, and the service's data grow meanwhile.              *)
(***************************************************************************)
EXTENDS AdminApi, Integers

CONSTANTS
    Contexts,       \* what a report or list may be asked for: period, currency, filters
    HomeSections,   \* the three sections of the dashboard
    SalesSections,  \* the four sections of the analytics page
    ExportKinds,    \* the three CSV exports
    ReadLimit,      \* rows of one list page
    MaxBatches,     \* bound: loads begun
    MaxSales,       \* bound: orders of the service
    Nowhere         \* no context: an invalid draft, nothing applied

ASSUME ReadBounds ==
    /\ ReadLimit \in Nat \ {0} /\ MaxBatches \in Nat /\ MaxSales \in Nat
    /\ Nowhere \notin Contexts

VARIABLES
    sales,    \* the orders of the service, counted: its data at one time
    view,     \* the open page
    batches   \* loads in progress: those of the open page, and superseded ones

readVars == <<sales, view, batches>>

-----------------------------------------------------------------------------
ListPages == {"orders", "account"}
ReadKinds == ListPages \cup {"home", "analytics", "exports", "account-order"}

Sections(name) ==
    CASE name = "home" -> HomeSections
      [] name = "analytics" -> SalesSections
      [] name = "exports" -> ExportKinds
      [] OTHER -> {"rows"}

AllSections == HomeSections \cup SalesSections \cup ExportKinds \cup {"rows"}

\* What a section shows: for which context, rows from where, of the service's data when.
Nothing == [known |-> FALSE, context |-> Nowhere, from |-> 0, at |-> 0]

\* Lists and reports are accepted only for the offset, period and limit they were asked for.
Answer(context, from) == [known |-> TRUE, context |-> context, from |-> from, at |-> sales]

RowsShown(data) == IF data.at - data.from <= ReadLimit THEN data.at - data.from ELSE ReadLimit
HasNext(data) == data.known /\ data.from + RowsShown(data) < data.at
HasPrevious(data) == data.known /\ data.from > 0

\* What came of one section's request, for a page that shows its failure.
Results == {"unanswered", "data", "failed", "refused", "401", "403", "404"}
Unanswered == [kind |-> "unanswered", data |-> Nothing]

\* "origin" is the page visit and load that the batch belongs to (generationRef).
NewBatch(context, from, mode, asked, atomic) ==
    [origin |-> view.generation + 1, context |-> context, from |-> from, mode |-> mode,
     atomic |-> atomic, judged |-> FALSE, results |-> [s \in asked |-> Unanswered]]

\* Mutant: every answer is heard.
AlwaysCurrent(b) == b.origin <= view.generation

Current(b) == b.origin = view.generation
OwnBatches == IF view.page = "exports" THEN {b \in batches : b.origin > view.opened}
              ELSE {b \in batches : Current(b)}

Settled(b) == \A s \in DOMAIN b.results : b.results[s].kind # "unanswered"
Has(b, kind) == \E s \in DOMAIN b.results : b.results[s].kind = kind
AllData(b) == \A s \in DOMAIN b.results : b.results[s].kind = "data"

-----------------------------------------------------------------------------
(* A page that is opened asks at once, except for the exports.             *)

ClosedView == [page |-> "none", generation |-> 0, opened |-> 0, draft |-> Nowhere, query |-> Nowhere,
               offset |-> 0, applied |-> Nowhere, loading |-> {}, errors |-> {},
               data |-> [s \in {"rows"} |-> Nothing], notApplied |-> FALSE, gone |-> FALSE]

Opened(name, context) ==
    [ClosedView EXCEPT !.page = name, !.generation = view.generation, !.opened = view.generation,
                       !.draft = context, !.query = context,
                       !.data = [s \in Sections(name) |-> Nothing]]

\* A load takes the place of the one before it.
Start(v, b) ==
    /\ b.origin <= MaxBatches
    /\ view' = [v EXCEPT !.generation = b.origin, !.loading = @ \cup DOMAIN b.results]
    /\ batches' = batches \cup {b}
    /\ UNCHANGED sales

ReadInit ==
    /\ sales = 0
    /\ view = ClosedView
    /\ batches = {}

VisitPage ==
    /\ view.page = "none" /\ view.generation < MaxBatches
    /\ \E name \in ReadKinds, c \in Contexts :
        IF name = "exports"
        THEN view' = Opened(name, c) /\ UNCHANGED <<sales, batches>>
        ELSE Start(Opened(name, c), NewBatch(c, 0, "initial", Sections(name), FALSE))

\* Unmounting, by navigation or because the session ended: the loads are superseded.
Closing == view' = [ClosedView EXCEPT !.generation = view.generation + 1]

LeavePage ==
    /\ view.page # "none"
    /\ Closing
    /\ UNCHANGED <<sales, batches>>

-----------------------------------------------------------------------------
(* AdminOrdersPage: the query is in the address; AccountOrdersPage: the     *)
(* offset is its only query and the rows of the last page stay meanwhile.  *)

Rows == view.data["rows"]
Waiting == view.loading # {}

\* Filters may change at any time; Previous and Next only while nothing is loading.
ChangeFilter ==
    /\ view.page = "orders"
    /\ \E c \in Contexts \ {view.query} :
        Start([view EXCEPT !.query = c, !.offset = 0, !.data["rows"] = Nothing, !.errors = {}],
              NewBatch(c, 0, "replace", {"rows"}, FALSE))

TurnPage ==
    /\ view.page \in ListPages /\ ~Waiting
    /\ view.page = "account" => view.errors = {}
    /\ \E o \in {p \in {view.offset - ReadLimit} : HasPrevious(Rows)}
              \cup {p \in {view.offset + ReadLimit} : HasNext(Rows)} :
        LET to == IF o < 0 THEN 0 ELSE o
        IN  Start([view EXCEPT !.offset = to, !.errors = {},
                               !.data["rows"] = IF view.page = "orders" THEN Nothing ELSE @],
                  NewBatch(view.query, to, "replace", {"rows"}, FALSE))

\* Refresh drops an error notice, Retry on the order list keeps it until the answer.
RefreshList ==
    /\ view.page = "orders" /\ ~Waiting
    /\ Start([view EXCEPT !.errors = {}], NewBatch(view.query, view.offset, "refresh", {"rows"}, FALSE))

RetryList ==
    /\ view.page \in ListPages \cup {"account-order"} /\ ~Waiting /\ view.errors # {} /\ ~view.gone
    /\ Start([view EXCEPT !.errors = IF view.page = "orders" THEN @ ELSE {}],
             NewBatch(view.query, view.offset, "retry", {"rows"}, FALSE))

-----------------------------------------------------------------------------
(* AdminHomePage: a section that failed is asked for again on its own.     *)

RetrySection ==
    /\ view.page = "home" /\ ~Waiting
    /\ \E s \in view.errors : Start(view, NewBatch(view.query, 0, "retry", {s}, FALSE))

-----------------------------------------------------------------------------
(* AdminAnalyticsPage and AdminExportsPage: a draft, and requests that keep *)
(* the draft they were started with.                                       *)

TypeDraft ==
    /\ view.page \in {"analytics", "exports"}
    /\ \E c \in (Contexts \cup {Nowhere}) \ {view.draft} : view' = [view EXCEPT !.draft = c]
    /\ UNCHANGED <<sales, batches>>

\* Other filters than the applied ones take effect only when every section has come.
ApplyFilters ==
    /\ view.page = "analytics" /\ ~Waiting /\ view.draft # Nowhere
    /\ Start([view EXCEPT !.notApplied = FALSE],
             NewBatch(view.draft, 0, "apply", SalesSections,
                      view.applied # Nowhere /\ view.applied # view.draft))

RefreshReports ==
    /\ view.page = "analytics" /\ ~Waiting /\ view.applied # Nowhere
    /\ Start([view EXCEPT !.notApplied = FALSE],
             NewBatch(view.applied, 0, "refresh", SalesSections, FALSE))

\* startExport: each kind has its own request; one at a time of each.
StartExport ==
    /\ view.page = "exports" /\ view.draft # Nowhere
    /\ \E k \in ExportKinds \ view.loading :
        Start([view EXCEPT !.errors = @ \ {k}, !.data[k] = [Nothing EXCEPT !.context = view.draft]],
              NewBatch(view.draft, 0, "export", {k}, FALSE))

-----------------------------------------------------------------------------
(* The service answers section by section; the page goes on when all of    *)
(* them have been answered.                                                *)

\* The failures that pages tell apart: an order is asked for again only after some of them.
AsResult(outcome) ==
    IF outcome \in {"401", "403", "404"} THEN outcome
    ELSE IF outcome \in {"network", "timeout", "5xx"} THEN "failed" ELSE "refused"

AnswerSection ==
    \E b \in batches, s \in AllSections :
        /\ s \in DOMAIN b.results /\ b.results[s] = Unanswered
        /\ \E kind \in {"data"} \cup {AsResult(o) : o \in Failures} :
            batches' = (batches \ {b}) \cup
                {[b EXCEPT !.results[s] = [kind |-> kind,
                      data |-> IF kind = "data" THEN Answer(b.context, b.from) ELSE Nothing]]}
        /\ UNCHANGED <<sales, view>>

\* A superseded load ends unheard.
DropSuperseded ==
    \E b \in batches :
        /\ Settled(b) /\ b \notin OwnBatches
        /\ batches' = batches \ {b}
        /\ UNCHANGED <<sales, view>>

Failed(b) == {s \in DOMAIN b.results : b.results[s].kind # "data"}

\* Mutant: a section that failed goes on loading.
CompletedIfData(b) ==
    [view EXCEPT !.loading = @ \ (DOMAIN b.results \ Failed(b)),
                 !.errors = (@ \ DOMAIN b.results) \cup Failed(b),
                 !.data = [s \in DOMAIN view.data |->
                              IF s \in DOMAIN b.results \ Failed(b) THEN b.results[s].data ELSE view.data[s]]]

\* completeSection: a section that failed keeps what it showed.
Completed(b) ==
    [view EXCEPT !.loading = @ \ DOMAIN b.results,
                 !.errors = (@ \ DOMAIN b.results) \cup Failed(b),
                 !.data = [s \in DOMAIN view.data |->
                              IF s \in DOMAIN b.results \ Failed(b) THEN b.results[s].data ELSE view.data[s]]]

\* preserveSectionAfterFailedApply: every section keeps what it showed.
Preserved(b) ==
    [view EXCEPT !.loading = {}, !.errors = @ \cup Failed(b), !.notApplied = TRUE]

\* Mutant: other filters are applied section by section.
AnalyticsSectionwise(b) ==
    [Completed(b) EXCEPT
         !.applied = IF Failed(b) # DOMAIN b.results THEN b.context ELSE @,
         !.notApplied = b.mode = "apply" /\ Failed(b) = DOMAIN b.results]

AnalyticsAfter(b) ==
    IF b.atomic /\ ~AllData(b) THEN Preserved(b)
    ELSE [Completed(b) EXCEPT
             !.applied = IF Failed(b) # DOMAIN b.results THEN b.context ELSE @,
             !.notApplied = b.mode = "apply" /\ Failed(b) = DOMAIN b.results]

\* AccountOrderDetailPage: an order that was not found or not readable offers no retry.
OrderAfter(b) == [Completed(b) EXCEPT !.gone = Failed(b) # {} /\ ~Has(b, "failed")]

After(b) ==
    CASE view.page = "analytics" -> AnalyticsAfter(b)
      [] view.page = "account-order" -> OrderAfter(b)
      [] OTHER -> Completed(b)

\* The customer's pages do not tell 403 from other failures.
Doubtful(b) == view.page \notin {"account", "account-order"} /\ Has(b, "403") /\ ~b.judged

PageGoesOn ==
    \E b \in OwnBatches :
        /\ Settled(b)
        /\ UNCHANGED sales
        /\ IF Has(b, "401") THEN Closing /\ batches' = batches \ {b}
           ELSE IF Doubtful(b)
           THEN \* refreshCurrentUser: the page goes with the session or the role, or goes on.
                \/ Closing /\ batches' = batches \ {b}
                \/ batches' = (batches \ {b}) \cup {[b EXCEPT !.judged = TRUE]} /\ UNCHANGED view
           ELSE view' = After(b) /\ batches' = batches \ {b}

Sale ==
    /\ sales < MaxSales
    /\ sales' = sales + 1
    /\ UNCHANGED <<view, batches>>

ReadNext ==
    \/ VisitPage \/ LeavePage \/ ChangeFilter \/ TurnPage \/ RefreshList \/ RetryList
    \/ RetrySection \/ TypeDraft \/ ApplyFilters \/ RefreshReports \/ StartExport
    \/ AnswerSection \/ DropSuperseded \/ PageGoesOn \/ Sale

ReadSpec == ReadInit /\ [][ReadNext]_readVars

-----------------------------------------------------------------------------
SectionData == [known : BOOLEAN, context : Contexts \cup {Nowhere}, from : Nat, at : Nat]

OpenPages(sections) ==
    [page : ReadKinds \cup {"none"}, generation : Nat, opened : Nat, offset : Nat,
     draft : Contexts \cup {Nowhere}, query : Contexts \cup {Nowhere}, applied : Contexts \cup {Nowhere},
     loading : SUBSET sections, errors : SUBSET sections, data : [sections -> SectionData],
     notApplied : BOOLEAN, gone : BOOLEAN]
Batches(sections) ==
    [origin : Nat, context : Contexts, from : Nat, atomic : BOOLEAN, judged : BOOLEAN,
     mode : {"initial", "replace", "refresh", "retry", "apply", "export"},
     results : [sections -> [kind : Results, data : SectionData]]]

WaitsForSomething == \A s \in view.loading : \E b \in OwnBatches : s \in DOMAIN b.results

\* Besides the types: a page shows its own sections, and one that says it is loading waits
\* for a load in progress that will tell it the end.
ReadTypeOK ==
    /\ sales \in 0..MaxSales
    /\ view \in OpenPages(Sections(view.page))
    /\ \A b \in batches : DOMAIN b.results \subseteq AllSections /\ b \in Batches(DOMAIN b.results)
    /\ WaitsForSomething

\* A page says what its figures are of: every section of the analytics page is of the
\* applied filters, and a list of the query and offset in use, unless a customer is told
\* that another page of it is loading or has failed.
FiguresMatchTheirContext ==
    /\ view.page = "analytics" => \A s \in SalesSections : view.data[s].known => view.data[s].context = view.applied
    /\ view.page \in ListPages /\ Rows.known =>
         Rows.context = view.query /\ (Rows.from = view.offset \/ (view.page = "account" /\ (Waiting \/ view.errors # {})))

\* A page never goes back to older figures: a superseded load is not heard.
NoOlderFigures ==
    [][\A s \in DOMAIN view.data \cap DOMAIN view'.data :
         view.page # "none" /\ view'.page = view.page /\ view'.opened = view.opened
         /\ view.data[s].known /\ view'.data[s].known
         => view'.data[s].at >= view.data[s].at]_readVars
=============================================================================
