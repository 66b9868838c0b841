----------------------------- MODULE ProductStore -----------------------------
(***************************************************************************)
(* The store of products that the screens of the Vue application share     *)
(* (stores/useProductStore.js): one list, loaded page by page, and one     *)
(* flag, `loading', that every action of the store sets and clears.        *)
(*                                                                         *)
(* An action that calls the server goes on when the answer comes: other    *)
(* actions, of this screen or of another one the user has gone to, run in  *)
(* between.  A call is sent, handled by the server, and received; it may   *)
(* be lost before or after the server has handled it.                      *)
(*                                                                         *)
(* Abstracted: the fields of a product are a version number, which every   *)
(* change on the server increases; categories and searches are filters.    *)
(***************************************************************************)
EXTENDS Naturals, Sequences, FiniteSets, SequencesExt

CONSTANTS
  Calls,             \* calls that may be under way together
  Nids,              \* products, existing or to be created
  Existing,          \* those that exist at first
  Category,          \* the category of each product
  All,               \* the empty filter
  ItemsPerPage,      \* itemsPerPage
  MaxCalls,          \* bound: calls made
  CanFail            \* may a call be lost?

ASSUME StoreAssumption ==
  /\ Nids \subseteq Nat /\ IsFiniteSet(Nids)
  /\ Existing \subseteq Nids
  /\ ItemsPerPage \in Nat \ {0}
  /\ CanFail \in BOOLEAN

VARIABLES
  listed,            \* the server: the products that exist
  version,           \* the server: the version of each
  storeProducts,     \* the store: the rows shown
  currentPage, hasMore, loading,
  screen,            \* the screen the user is at
  filter,            \* the filter of the list screen
  call,              \* the calls under way
  made,              \* how many were made
  listFilter,        \* history: the filter the list was last reset with
  tidy               \* history: nothing disturbed the list since

server == <<listed, version>>
list == <<storeProducts, currentPage, hasMore>>
history == <<listFilter, tidy>>
storeVars == <<server, list, loading, screen, filter, call, made, history>>

Filters == {All} \cup {Category[n] : n \in Nids}

Free == [kind |-> "none", stage |-> "none", append |-> FALSE, filters |-> All,
         page |-> 0, rows |-> <<>>, nid |-> 0, answer |-> 0]

StoreInit ==
  /\ listed = Existing
  /\ version = [n \in Nids |-> 1]
  /\ storeProducts = <<>>
  /\ currentPage = 0 /\ hasMore = TRUE /\ loading = FALSE
  /\ screen = "orders" /\ filter = All
  /\ call = [k \in Calls |-> Free]
  /\ made = 0
  /\ listFilter = All /\ tidy = FALSE

-----------------------------------------------------------------------------
(* The server: rows sorted by nid, the highest first, a page at a time.    *)

Descending(S) ==
  [i \in 1..Cardinality(S) |-> CHOOSE n \in S : Cardinality({m \in S : m > n}) = i - 1]

Matching(f) == Descending({n \in listed : f \in {All, Category[n]}})

PageRows(f, page) ==
  LET nids == Matching(f)
      last == (page + 1) * ItemsPerPage
      page_nids == SubSeq(nids, page * ItemsPerPage + 1,
                          IF last < Len(nids) THEN last ELSE Len(nids))
  IN [i \in DOMAIN page_nids |-> [nid |-> page_nids[i], version |-> version[page_nids[i]]]]

Sent(kind, n) == [Free EXCEPT !.kind = kind, !.stage = "sent", !.nid = n]

CanCall(k) == call[k] = Free /\ made < MaxCalls

Makes(k, c) == call' = [call EXCEPT ![k] = c] /\ made' = made + 1

FetchOf(c) == c.kind = "fetch"

OtherFetch(k) == \E j \in Calls \ {k} : FetchOf(call[j])

-----------------------------------------------------------------------------
(* fetchProducts: a call under way makes it return at once.                *)

Refused(append) == loading \/ (append /\ ~hasMore)

\* A mutant: the page is not reset.
SamePage(append) == currentPage

PageAsked(append) == IF append THEN currentPage ELSE 0

FetchStoreProducts(k, append, f) ==
  IF Refused(append)
  THEN /\ call' = [call EXCEPT ![k] = Free]
       /\ UNCHANGED <<list, loading, listFilter, tidy>>
  ELSE /\ currentPage' = PageAsked(append)
       /\ hasMore' = (append => hasMore)
       /\ loading' = TRUE
       /\ call' = [call EXCEPT ![k] = [Sent("fetch", 0) EXCEPT
                     !.append = append, !.filters = f, !.page = currentPage']]
       /\ listFilter' = IF append THEN listFilter ELSE f
       /\ tidy' = (~OtherFetch(k) /\ (append => tidy /\ f = listFilter))
       /\ UNCHANGED storeProducts

(* The list screen is opened: its filters are new and it loads.            *)
OpenList(k) ==
  /\ CanCall(k) /\ made' = made + 1
  /\ screen' = "list" /\ filter' = All
  /\ FetchStoreProducts(k, FALSE, All)
  /\ UNCHANGED server

(* The watches on the category and the search of the list screen.          *)
ChangeFilter(k) ==
  /\ screen = "list"
  /\ CanCall(k) /\ made' = made + 1
  /\ \E f \in Filters \ {filter} : filter' = f /\ FetchStoreProducts(k, FALSE, f)
  /\ UNCHANGED <<server, screen>>

(* The end of the list comes into view.                                    *)
LoadMore(k) ==
  /\ screen = "list" /\ ~loading /\ hasMore
  /\ CanCall(k) /\ made' = made + 1
  /\ FetchStoreProducts(k, TRUE, filter)
  /\ UNCHANGED <<server, screen, filter>>

Leave ==
  /\ screen # "orders" /\ screen' = "orders"
  /\ UNCHANGED <<server, list, loading, filter, call, made, history>>

InStore(n) == \E i \in DOMAIN storeProducts : storeProducts[i].nid = n

(* The product screen: getProductById, else fetchProductDetail.            *)
OpenDetail ==
  /\ \E n \in Nids : InStore(n)
  /\ screen # "detail" /\ screen' = "detail"
  /\ UNCHANGED <<server, list, loading, filter, call, made, history>>

FetchProductDetail(k, n) ==
  /\ n \in listed /\ ~InStore(n)
  /\ CanCall(k) /\ Makes(k, Sent("detail", n))
  /\ screen' = "detail" /\ loading' = TRUE
  /\ UNCHANGED <<server, list, filter, history>>

UpdateProduct(k, n) ==
  /\ screen = "detail" /\ n \in listed
  /\ CanCall(k) /\ Makes(k, Sent("update", n))
  /\ loading' = TRUE
  /\ UNCHANGED <<server, list, screen, filter, history>>

(* createProduct: search for the title, save, record the first stock.      *)
CreateProduct(k, n) ==
  /\ n \notin listed /\ \A j \in Calls : call[j].nid # n
  /\ CanCall(k) /\ Makes(k, Sent("check", n))
  /\ screen' = "create" /\ loading' = TRUE
  /\ UNCHANGED <<server, list, filter, history>>

(* cancelOrder of the orders screen, for a sale of product n.              *)
CancelOrder(k, n) ==
  /\ screen = "orders" /\ n \in listed
  /\ \A j \in Calls : call[j].kind # "cancel"
  /\ CanCall(k) /\ Makes(k, Sent("cancel", n))
  /\ UNCHANGED <<server, list, loading, screen, filter, history>>

-----------------------------------------------------------------------------
(* The server handles a call, which may be lost before or after.           *)

Handle(k) ==
  LET c == call[k]  n == c.nid IN
  /\ c.stage = "sent"
  /\ listed' = IF c.kind = "save" THEN listed \cup {n} ELSE listed
  /\ version' = IF c.kind \in {"update", "cancel", "stock"}
                THEN [version EXCEPT ![n] = @ + 1] ELSE version
  /\ call' = [call EXCEPT ![k].stage = "answered",
                          ![k].rows = IF FetchOf(c) THEN PageRows(c.filters, c.page)
                                      ELSE @,
                          ![k].answer = IF n \in Nids THEN version'[n] ELSE 0]
  /\ tidy' = (tidy /\ c.kind # "save")
  /\ UNCHANGED <<list, loading, screen, filter, made, listFilter>>

Lose(k) ==
  /\ CanFail /\ call[k].stage \in {"sent", "answered"}
  /\ call' = [call EXCEPT ![k].stage = "failed"]
  /\ UNCHANGED <<server, list, loading, screen, filter, made, history>>

-----------------------------------------------------------------------------
(* The answer is received.                                                 *)

Done(k) == call' = [call EXCEPT ![k] = Free]

StoreAnswered(k, kind) == call[k].kind = kind /\ call[k].stage = "answered"

FullPage(rows) == Len(rows) >= ItemsPerPage

PageAfter(rows) == IF FullPage(rows) THEN currentPage + 1 ELSE currentPage

ShownRows(c) == IF c.append THEN storeProducts \o c.rows ELSE c.rows

ReceiveRows(k) ==
  LET rows == call[k].rows IN
  /\ StoreAnswered(k, "fetch")
  /\ storeProducts' = ShownRows(call[k])
  /\ hasMore' = (FullPage(rows) /\ hasMore)
  /\ currentPage' = PageAfter(rows)
  /\ loading' = FALSE
  /\ Done(k)
  /\ UNCHANGED <<server, screen, filter, made, history>>

ReceiveDetail(k) ==
  /\ StoreAnswered(k, "detail")
  /\ loading' = FALSE
  /\ Done(k)
  /\ UNCHANGED <<server, list, screen, filter, made, history>>

(* updateProduct asks for the list again, with `loading' set by itself     *)
(* unless another action has cleared it; then clears it.                   *)
ReceiveUpdate(k) ==
  /\ StoreAnswered(k, "update")
  /\ IF loading
     THEN /\ loading' = FALSE /\ Done(k)
          /\ UNCHANGED <<list, listFilter, tidy>>
     ELSE FetchStoreProducts(k, FALSE, All)
  /\ UNCHANGED <<server, screen, filter, made>>

AfterCheck(c) == Sent("save", c.nid)

(* The next call of createProduct; the check may find the title in use.    *)
ReceiveCheck(k) ==
  /\ StoreAnswered(k, "check")
  /\ \/ loading' = FALSE /\ Done(k)
     \/ /\ call' = [call EXCEPT ![k] = AfterCheck(@)]
        /\ UNCHANGED loading
  /\ UNCHANGED <<server, list, screen, filter, made, history>>

(* products.unshift.                                                       *)
ShowNew(k) ==
  /\ storeProducts' = <<[nid |-> call[k].nid, version |-> call[k].answer]>> \o storeProducts
  /\ loading' = FALSE
  /\ tidy' = FALSE
  /\ Done(k)
  /\ UNCHANGED <<server, currentPage, hasMore, screen, filter, made, listFilter>>

(* A product without stock is shown, one with stock gets its movement.     *)
ReceiveSave(k) ==
  /\ StoreAnswered(k, "save")
  /\ \/ ShowNew(k)
     \/ /\ call' = [call EXCEPT ![k] = Sent("stock", @.nid)]
        /\ UNCHANGED <<server, list, loading, screen, filter, made, history>>

(* recordStockMovement catches its errors: the product is shown anyway.    *)
ReceiveStock(k) ==
  /\ call[k].kind = "stock" /\ call[k].stage \in {"answered", "failed"}
  /\ ShowNew(k)

(* The refresh is dropped while another action has `loading' set.          *)
ReceiveCancel(k) ==
  /\ StoreAnswered(k, "cancel")
  /\ FetchStoreProducts(k, FALSE, All)
  /\ UNCHANGED <<server, screen, filter, made>>

\* A mutant: `loading' is cleared after an answer only.
KeepsLoading(c) == loading

LoadingAfterError(c) == IF c.kind = "cancel" THEN loading ELSE FALSE

(* catch and finally.                                                      *)
ReceiveError(k) ==
  /\ call[k].stage = "failed" /\ call[k].kind # "stock"
  /\ loading' = LoadingAfterError(call[k])
  /\ tidy' = (tidy /\ (FetchOf(call[k]) => call[k].append))
  /\ Done(k)
  /\ UNCHANGED <<server, list, screen, filter, made, listFilter>>

Receive(k) ==
  \/ ReceiveRows(k) \/ ReceiveDetail(k) \/ ReceiveUpdate(k) \/ ReceiveCheck(k)
  \/ ReceiveSave(k) \/ ReceiveStock(k) \/ ReceiveCancel(k) \/ ReceiveError(k)

User(k) ==
  \/ OpenList(k) \/ ChangeFilter(k) \/ LoadMore(k)
  \/ \E n \in Nids : \/ FetchProductDetail(k, n) \/ UpdateProduct(k, n)
                     \/ CreateProduct(k, n) \/ CancelOrder(k, n)

StoreNext == Leave \/ OpenDetail \/ \E k \in Calls : User(k) \/ Handle(k) \/ Lose(k) \/ Receive(k)

StoreSpec == StoreInit /\ [][StoreNext]_storeVars

(* A call is handled or lost, and its answer or its loss is received.      *)
StoreFairness == \A k \in Calls : WF_storeVars(Handle(k) \/ Lose(k)) /\ WF_storeVars(Receive(k))

StoreFairSpec == StoreSpec /\ StoreFairness

-----------------------------------------------------------------------------
NidsShown == [i \in DOMAIN storeProducts |-> storeProducts[i].nid]

FetchUnderWay == \E k \in Calls : FetchOf(call[k])

(* The list holds the first pages of its filter, without a gap or a        *)
(* repetition, and the next page asked for is the first one missing;       *)
(* unless, since the list was last reset, two loads ran together (which    *)
(* `loading' prevents but for actions that clear it for one another), the  *)
(* filter changed while a load ran, or a product was added.  A page that   *)
(* could not be loaded is asked for again.                                 *)
PagesInOrder ==
  tidy /\ ~FetchUnderWay =>
    LET all == Matching(listFilter) IN
    /\ IsPrefix(NidsShown, all)
    /\ IF hasMore THEN Len(storeProducts) = currentPage * ItemsPerPage
                  ELSE Len(storeProducts) = Len(all)

(* `loading' is cleared at last whatever happens to the calls: the screens *)
(* wait for it before they load anything more.                             *)
LoadingEnds == loading ~> ~loading

===============================================================================
