------------------------------ MODULE OrderList ------------------------------
(***************************************************************************)
(* The screen of the local sales (pages/CommandesPage.vue) and the two     *)
(* handlers that answer it, list and stats of OrderLocalApiController.     *)
(*                                                                         *)
(* fetchOrders numbers its requests: an answer is used only if no later    *)
(* request was made.  It asks for the list and then, if the list was       *)
(* reset, for the statistics.  A tab or a date filters at once; the search *)
(* text filters after a pause (400 ms).  Answers come in any order, or not *)
(* at all, while other tills make sales and this screen cancels one.       *)
(*                                                                         *)
(* Abstracted: a tab and dates are one filter, a text is the set of the    *)
(* orders it finds; amounts are left out.                                  *)
(***************************************************************************)
EXTENDS Naturals, Sequences, FiniteSets, SequencesExt

CONSTANTS
  Orders,            \* sales, the later ones having the higher number
  Made,              \* those made at first
  InitialStatus,     \* their status
  Tabs,              \* values of selectedStatus, "all" among them
  Texts,             \* search texts
  Found,             \* the orders each text finds
  Viewed,            \* bound: the sales opened in the modal
  Unwanted,          \* bound: those that this screen may cancel
  PageSize,          \* PAGE_SIZE
  MaxRequests,       \* bound: requests of fetchOrders
  MaxTyped           \* bound: changes of the search text

ASSUME OrderListAssumption ==
  /\ Orders \subseteq Nat /\ IsFiniteSet(Orders) /\ Made \subseteq Orders
  /\ InitialStatus \in [Orders -> STRING]
  /\ "all" \in Tabs
  /\ Found \in [Texts -> SUBSET Orders] /\ \E t \in Texts : Found[t] = Orders
  /\ PageSize \in Nat \ {0} /\ MaxRequests \in Nat /\ MaxTyped \in Nat

VARIABLES
  made, status,                          \* the server
  orders, total, summary,                \* what the screen shows
  selectedStatus, searchQuery, typed,    \* the filters; typed counts the changes
  debounce,                              \* is the pause of the search running?
  currentPage, hasMore, loading, loadingMore, requestSequence,
  request,                               \* the requests, by number
  selected,                              \* selectedOrder: the sale in the modal
  cancel,                                \* the cancellation under way
  tidy, resetFailed, statsFailed,        \* history: see the properties
  told                                   \* history: cancellations shown

server == <<made, status>>
filters == <<selectedStatus, searchQuery, typed, debounce>>
paging == <<currentPage, hasMore, loading, loadingMore, requestSequence>>
shown == <<orders, total, summary>>
history == <<tidy, resetFailed, statsFailed, told>>
modal == <<selected, cancel>>
listVars == <<server, filters, paging, shown, request, modal, history>>

Numbers == 1..MaxRequests

Current == <<selectedStatus, searchQuery>>

NoFilter == <<"all", CHOOSE t \in Texts : Found[t] = Orders>>

Unsent == [stage |-> "none", append |-> FALSE, for |-> NoFilter, page |-> 0,
           rows |-> <<>>, total |-> 0, clean |-> TRUE, paused |-> FALSE]

\* The modal holds the row it was opened from, until the list is loaded anew.
Closed == [nid |-> 0, status |-> "closed", row |-> 0]

NoCancel == [order |-> 0, stage |-> "none", early |-> FALSE]

ListInit ==
  /\ made = Made /\ status = InitialStatus
  /\ orders = <<>> /\ total = 0 /\ summary = NoFilter
  /\ selectedStatus = NoFilter[1] /\ searchQuery = NoFilter[2]
  /\ typed = 0 /\ debounce = FALSE
  /\ currentPage = 0 /\ hasMore = TRUE /\ loading = FALSE /\ loadingMore = FALSE
  /\ requestSequence = 0
  /\ request = [q \in Numbers |-> Unsent]
  /\ selected = Closed /\ cancel = NoCancel
  /\ tidy = FALSE /\ resetFailed = FALSE /\ statsFailed = FALSE /\ told = {}

-----------------------------------------------------------------------------
(* The server: applyListConditions, sorted by creation, the latest first.  *)

Latest1st(S) ==
  [i \in 1..Cardinality(S) |-> CHOOSE o \in S : Cardinality({p \in S : p > o}) = i - 1]

Matching(f) ==
  Latest1st({o \in made : f[1] \in {"all", status[o]} /\ o \in Found[f[2]]})

Page(s, page) ==
  LET last == (page + 1) * PageSize
  IN SubSeq(s, page * PageSize + 1, IF last < Len(s) THEN last ELSE Len(s))

AnswerList(q) ==
  LET r == request[q]  all == Matching(r.for)  page == Page(all, r.page) IN
  /\ r.stage = "list"
  /\ request' = [request EXCEPT ![q] = [r EXCEPT
       !.stage = "answered", !.total = Len(all), !.clean = TRUE,
       !.rows = [i \in DOMAIN page |->
                   [nid |-> page[i], status |-> status[page[i]], for |-> r.for]]]]
  /\ UNCHANGED <<server, filters, paging, shown, modal, history>>

Disturbed == [q \in Numbers |-> [request[q] EXCEPT !.clean = FALSE]]

(* Another till makes a sale.                                              *)
NewSale ==
  /\ \E o \in Orders \ made :
       /\ \A m \in made : m < o
       /\ made' = made \cup {o}
  /\ request' = Disturbed /\ tidy' = FALSE
  /\ UNCHANGED <<status, filters, paging, shown, modal, resetFailed, statsFailed, told>>

-----------------------------------------------------------------------------
(* fetchOrders, up to its first await.                                     *)

FetchOrders(append, tab, text, page) ==
  /\ requestSequence < MaxRequests
  /\ requestSequence' = requestSequence + 1
  /\ IF append
     THEN /\ loadingMore' = TRUE /\ currentPage' = page
          /\ UNCHANGED <<hasMore, loading>>
     ELSE /\ loading' = TRUE /\ currentPage' = 0 /\ hasMore' = TRUE
          /\ UNCHANGED loadingMore
  /\ request' = [request EXCEPT ![requestSequence'] =
       [Unsent EXCEPT !.stage = "list", !.append = append, !.for = <<tab, text>>,
                      !.page = currentPage', !.paused = append /\ debounce]]

Mount ==
  /\ requestSequence = 0
  /\ FetchOrders(FALSE, selectedStatus, searchQuery, 0)
  /\ UNCHANGED <<server, filters, shown, modal, history>>

(* The button "Actualiser", or the end of an edit of a line.               *)
Refresh ==
  /\ requestSequence > 0
  /\ FetchOrders(FALSE, selectedStatus, searchQuery, 0)
  /\ UNCHANGED <<server, filters, shown, modal, history>>

SelectStatus(tab) ==
  /\ requestSequence > 0 /\ tab # selectedStatus
  /\ selectedStatus' = tab
  /\ FetchOrders(FALSE, tab, searchQuery, 0)
  /\ UNCHANGED <<server, searchQuery, typed, debounce, shown, modal, history>>

TypeSearch(text) ==
  /\ requestSequence > 0 /\ typed < MaxTyped /\ text # searchQuery
  /\ searchQuery' = text /\ typed' = typed + 1 /\ debounce' = TRUE
  /\ UNCHANGED <<server, selectedStatus, paging, shown, request, modal, history>>

DebounceFires ==
  /\ debounce /\ debounce' = FALSE
  /\ FetchOrders(FALSE, selectedStatus, searchQuery, 0)
  /\ UNCHANGED <<server, selectedStatus, searchQuery, typed, shown, modal, history>>

\* A mutant: the observer does not wait for the reset of the list.
NotLoadingMore == hasMore /\ ~loadingMore

MayLoadMore == hasMore /\ ~loadingMore /\ ~loading

(* The end of the list comes into view.  The page is counted at once.      *)
LoadMore ==
  /\ requestSequence > 0 /\ MayLoadMore
  /\ FetchOrders(TRUE, selectedStatus, searchQuery, currentPage + 1)
  /\ UNCHANGED <<server, filters, shown, modal, history>>

-----------------------------------------------------------------------------
(* fetchOrders, after an await.                                            *)

\* A mutant: no comparison with requestSequence after the list.
Always(q) == TRUE

Latest(q) == q = requestSequence

Ended(q) == request' = [request EXCEPT ![q] = Unsent]

\* A mutant: the flag of the reset only is cleared.
StillLoadingMore == loadingMore

LoadingMoreAfter == FALSE

Finally == loading' = FALSE /\ loadingMore' = LoadingMoreAfter

ReceiveList(q) ==
  LET r == request[q] IN
  /\ r.stage = "answered" /\ Latest(q)
  /\ orders' = IF r.append THEN orders \o r.rows ELSE r.rows
  /\ total' = r.total
  /\ hasMore' = (Len(orders') < total')
  /\ tidy' = (r.clean /\ (r.append => tidy /\ ~r.paused))
  /\ resetFailed' = (r.append /\ resetFailed)
  /\ IF r.append
     THEN Ended(q) /\ Finally
     ELSE /\ request' = [request EXCEPT ![q] = [Unsent EXCEPT !.stage = "stats", !.for = Current]]
          /\ UNCHANGED <<loading, loadingMore>>
  /\ selected' = IF r.append THEN selected ELSE [selected EXCEPT !.row = 0]
  /\ UNCHANGED <<server, filters, summary, currentPage, requestSequence, cancel,
                 statsFailed, told>>

ReceiveStats(q) ==
  /\ request[q].stage = "stats" /\ Ended(q)
  /\ IF Latest(q)
     THEN /\ summary' = request[q].for /\ statsFailed' = FALSE /\ Finally
     ELSE UNCHANGED <<summary, statsFailed, loading, loadingMore>>
  /\ UNCHANGED <<server, filters, orders, total, currentPage, hasMore, requestSequence,
                 modal, tidy, resetFailed, told>>

(* An answer that comes too late.                                          *)
Discard(q) ==
  /\ request[q].stage = "answered" /\ ~Latest(q)
  /\ Ended(q)
  /\ UNCHANGED <<server, filters, paging, shown, modal, history>>

(* A request fails: catch and finally.                                     *)
RequestFails(q) ==
  LET r == request[q] IN
  /\ r.stage # "none" /\ Ended(q)
  /\ IF q = requestSequence
     THEN /\ Finally
          /\ tidy' = (tidy /\ r.stage = "stats")
          /\ resetFailed' = (resetFailed \/ (~r.append /\ r.stage # "stats"))
          /\ statsFailed' = (statsFailed \/ ~r.append)
     ELSE UNCHANGED <<loading, loadingMore, tidy, resetFailed, statsFailed>>
  /\ UNCHANGED <<server, filters, currentPage, hasMore, requestSequence, shown, modal, told>>

-----------------------------------------------------------------------------
(* The modal, and cancelOrder: a sale that the screen shows.               *)

AnswerUnderWay == \E q \in Numbers : request[q].stage = "answered"

(* viewOrderDetails.  The modal covers the list until it is closed.        *)
OpenOrder(i) ==
  /\ selected = Closed /\ orders[i].nid \in Viewed
  /\ selected' = [nid |-> orders[i].nid, status |-> orders[i].status, row |-> i]
  /\ UNCHANGED <<server, filters, paging, shown, request, cancel, history>>

CloseOrder ==
  /\ selected # Closed /\ selected' = Closed
  /\ UNCHANGED <<server, filters, paging, shown, request, cancel, history>>

CancelOrder ==
  /\ cancel = NoCancel
  /\ selected.nid \in Unwanted /\ selected.status \notin {"annuler", "closed"}
  /\ cancel' = [NoCancel EXCEPT !.order = selected.nid, !.stage = "sent"]
  /\ UNCHANGED <<server, filters, paging, shown, request, selected, history>>

HandleCancel ==
  /\ cancel.stage = "sent"
  /\ status' = [status EXCEPT ![cancel.order] = "annuler"]
  /\ cancel' = [cancel EXCEPT !.stage = "answered", !.early = AnswerUnderWay]
  /\ request' = Disturbed /\ tidy' = FALSE
  /\ UNCHANGED <<made, filters, paging, shown, selected, resetFailed, statsFailed, told>>

FirstRow(i) == \A j \in 1..(i - 1) : orders[j].nid # orders[i].nid

\* A mutant: the row is left to the next load.
NotPatched(order) == orders

\* The first row of the sale in the modal, and the row the modal holds.
Patched(order) ==
  [i \in DOMAIN orders |->
     IF orders[i].nid = order.nid /\ (FirstRow(i) \/ i = order.row)
     THEN [orders[i] EXCEPT !.status = "annuler"] ELSE orders[i]]

\* What is patched is the sale in the modal by now, whichever was cancelled;
\* with the modal closed the code throws.
ReceiveCancel ==
  /\ cancel.stage = "answered" /\ cancel' = NoCancel
  /\ IF selected = Closed
     THEN UNCHANGED <<orders, selected, told>>
     ELSE /\ orders' = Patched(selected)
          /\ selected' = [selected EXCEPT !.status = "annuler"]
          /\ told' = IF cancel.early \/ selected.nid # cancel.order
                     THEN told ELSE told \cup {cancel.order}
  /\ UNCHANGED <<server, filters, paging, total, summary, request, tidy,
                 resetFailed, statsFailed>>

CancelFails ==
  /\ cancel # NoCancel /\ cancel' = NoCancel
  /\ UNCHANGED <<server, filters, paging, shown, request, selected, history>>

Progress(q) ==
  AnswerList(q) \/ ReceiveList(q) \/ ReceiveStats(q) \/ Discard(q) \/ RequestFails(q)

ListNext ==
  \/ Mount \/ Refresh \/ DebounceFires \/ LoadMore \/ NewSale
  \/ \E tab \in Tabs : SelectStatus(tab)
  \/ \E text \in Texts : TypeSearch(text)
  \/ \E q \in Numbers : Progress(q)
  \/ \E i \in DOMAIN orders : OpenOrder(i)
  \/ CloseOrder \/ CancelOrder \/ HandleCancel \/ ReceiveCancel \/ CancelFails

ListSpec == ListInit /\ [][ListNext]_listVars

(* As long as a request is under way, one is answered or fails, and the    *)
(* browser goes on after it.                                               *)
ListFairness == WF_listVars(\E q \in Numbers : Progress(q))

ListFairSpec == ListSpec /\ ListFairness

-----------------------------------------------------------------------------
Settled == ~debounce /\ \A q \in Numbers : q = requestSequence => request[q].stage = "none"

(* When the pause is over and the last request is done, every row shown    *)
(* was loaded for the filters chosen, and the statistics are of the same   *)
(* filters, whatever order the answers came in; unless the reset, or the   *)
(* request of the statistics, failed.                                      *)
ShowsTheFilters ==
  Settled /\ requestSequence > 0 =>
    /\ ~resetFailed => \A i \in DOMAIN orders : orders[i].for = Current
    /\ ~statsFailed => summary = Current

(* The list holds the first pages of what it was loaded for, without a gap *)
(* or a repetition; unless an order was made or cancelled since, a page    *)
(* was asked for during the pause of the search, or a request failed.      *)
(* (currentPage counts a page before it is there: one that fails is never  *)
(* asked for again.)                                                       *)
ListInOrder ==
  tidy /\ orders # <<>> =>
    LET all == Matching(orders[1].for) IN
    /\ IsPrefix([i \in DOMAIN orders |-> orders[i].nid], all)
    /\ ~loading => (hasMore <=> Len(orders) < Len(all))

(* A sale that the screen was told is cancelled, while its modal was open, *)
(* is shown as cancelled in its first row for good; unless the answer of a *)
(* list was under way when the server cancelled it.                        *)
CancelShown ==
  \A i \in DOMAIN orders :
    orders[i].nid \in told /\ FirstRow(i) => orders[i].status = "annuler"

(* The spinners stop at last.                                              *)
SpinnersEnd == (loading \/ loadingMore) ~> ~(loading \/ loadingMore)
==============================================================================
