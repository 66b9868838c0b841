# Verification of the eroso shop

TLA+ models of the shop's own code: the Drupal modules under `src/modules/custom`
and `src/modules` that the site's team wrote, and the Vue application they serve.
Drupal core, the vendored libraries and the contributed themes are not modelled;
what the own code relies on in core (the static entity cache, one transaction per
entity save) is taken from core's source.

## The system

A shop sells from its stock (`order_local`, lines in `cart`, stock in `product`),
takes orders for goods that have to be bought first (`order_commande`, lines in
`cart_commande`, goods in `product_commande`) and moves those goods into the shop
once they have arrived.  The Vue application (`src/themes/custom/eroso_mobile/vue-app`)
calls JSON endpoints of `mz_eroso_v2`; every endpoint runs in a PHP process of its
own, and nothing but the database is shared.

| Part | State | Operations | What is hard |
|---|---|---|---|
| Local sales (`OrderLocalController`) | `order_local`, `cart`, `stock`, `product` nodes | sale, status, cancel, price, purchase price, quantity, delete a line | a handler is a series of saves, each a transaction of its own; it can stop between two of them, and other handlers run in between |
| Stock hook (`mz_eroso_v2.module`) | `field_quantite_disponible`, `field_prix_vente` of a product | on insertion of a `stock` node | adds to the value the request holds in its static cache |
| Sales on order and transfer (`OrderCommandeApiController`) | `order_commande`, `cart_commande`, `product_commande`, `product` | sale on order, transfer of lines to the shop | look-up and creation of a product, errors caught line by line, deletion of emptied nodes |
| Shop import (`ErosoStoreCommands`, `ProductStoreImportController`) | `product_store` nodes | the drush command, the endpoint | retries, pages of a list that changes meanwhile, a killed command that is started again, look-up by SKU |
| Product store of the app (`useProductStore.js`) | rows, page, `hasMore`, `loading`, shared by all screens | load, load more, detail, create, update, stock movement | every action sets and clears one flag; calls of several screens overlap |
| Local sales screen (`CommandesPage.vue`, `OrderLocalApiController`) | rows, total, statistics, filters, page, spinners | load, load more, tab, search, cancel | answers in any order, a pause before a search, sales of other tills |
| Cash screen (`CaisseLocalePage.vue`) | list, results of a photo, basket, local record, three calls | load, photo search, pieces in and out, sale, confirmation | the basket and the list change while the sale is being saved; copies of one product of different age |
| Screens of the sales on order (`OrderDetailCommande.vue`, `OrderCommandeLivraisonPage.vue`) | the order shown, selection, quantities chosen, three flags | load, status, mark as paid or cancelled, transfer | the workflow is checked by the screen only, against a view that may be old; overlapping calls |
| Login and tokens (`mz_crud_new`) | one token per user in `mz_crud_tokens`, the cookie of a browser | login, register, change and edit of the account, logout, check, cron clean-up | delete and insert in two statements; late answers set or clear the cookie |
| SMS (`mz_sms_notification`) | status of an `sms` node, cached access token and its expiry | dispatch on insertion, resend | sent inside a transaction, timeouts after acceptance, two entries read and written one by one |
| Listings, image search, messages, helpers, page builder, mail transports, Stripe | none that two requests share, or a counter or log | read, format, forward | |

A save of a node is one transaction with the hooks it runs.  So the insertion of
a `stock` node and the update of its product stand or fall together, while the
cart, the movement and the order of one sale do not.  A node that a request has
loaded stays in the request's static cache until the request saves it
(`EntityStorageBase::doPostSave`): what the hook reads is what the request read
at its beginning, unless an earlier movement of the same request reset it.

What makes the parts correct:

* sales: a product's quantity is the initial one plus its movements; nothing is
  sold that is not there; the movements of a sale add up to its lines, and to
  nothing once it is cancelled; orders refer to lines that exist and are theirs;
* prices: the total of an order is the sum of its lines, a line's total goes with
  its price and quantity, and an edit changes what it is about only;
* transfers: every piece ordered is either still on its line or in the shop, once;
  an order lists its open lines; a SKU has one product;
* import: the command gives no SKU a second node however often it is started again,
  brings everything that was asked for when nothing disturbs it, and ends;
* lists of the app: pages follow each other without a gap or a repetition, rows
  and statistics belong to the filters chosen, spinners stop, and what a
  cancellation has told the screen stays visible;
* cash screen: what is rung up is sold once and recorded, and what the screen lets
  in is refused only if the stock has moved;
* screens of sales on order: the status takes steps of the workflow, a transfer asks
  for no more than is shown, a screen reads its own saves, its controls come back;
* sessions: the last session a browser opened stays good as long as its cookie, and
  a new password ends the older ones;
* messages: a node says what became of its last message, and one goes out unless the
  node is sent again or an answer is lost.

## The modules

Modules of the server follow its handlers save by save.  In those of the orders,
`Requests` are PHP processes; `pc[r]` is the save a request does next, `job[r]` what
it has validated and is writing.  Validation is one step (the reads before the first
save), then each save is one, so that other requests and failures come between saves
exactly where they can in the code.  Orders and lines are nids, given in any order;
`field_carts` is a set.  Modules of screens cut a function at its `await`s: a call is
made, handled by the server (or lost before or after) and received, and between
these the user goes on.

* `LocalSale`: the seven handlers of `OrderLocalController` that write an
  `order_local`, for what they do to stock, lines and the two status fields.
  `SaveOrderLocal`, `UpdateStatusLocal`, ... are the validations, `CancelLoad`,
  `SaveCart`, `SaveMovement` (with the hook), `SaveOrder`, `DropCart` the steps
  after.  `seen[r]` is the static cache of a request; `moved`, `sold` and `torn`
  are history: the sum of a product's stock nodes, the pieces out of stock for a
  line, and the orders a request of which stopped half-way.
* `StockLedger`: what the sales promise about the stock, without their requests, orders
  or caches: pieces leave and come back one movement at a time, quantity, book and
  pieces of a line change together, and no movement takes more than there is.
  `LocalSale!Ledger` is the refinement (`held` is `sold`, `Unguarded` are the
  products that a sale may name twice).
* `OrderTotals`: the same handlers for prices and totals, with the loop of
  `updateCartQuantity` that recomputes and saves every line of the order.  These saves of
  other lines change neither stock nor pieces and are left out of `LocalSale`.
* `TransferBoutique`: `saveOrderCommande` and `transferCartLinesToBoutique`.
  `LineError` is the `catch` of the loop, `Crash` a killed process.  `ordered`
  and `received` are history.  A request names a line once.  `Trimmed` is `trim()` of a SKU:
  a product is looked up by the trimmed SKU and created with the SKU as it is.
* `StoreImport`: the command, request by request while it reads and product by
  product while it writes; `Kill` may end it anywhere.  `page` holds the nids of a
  page whose details are still to be read, `details` the items to be written;
  `NextOffset` is the choice of the next page with the optional fields (`Formats`)
  servers answer with.  `ImportEndpoint` runs beside it, `RemoteChange` is the shop
  the list comes from.  `at`, `asOf` and `disturbed` are history.  `memory` is the cache of
  nodes of the process: what is saved is the copy loaded at the look-up, into which the
  image fields of the payload were written before any download (`Payload` says what they
  hold); a save that fails leaves its copy behind, changed, and the end of a batch empties
  the cache (at any look-up, because the batches are not counted).
* `ProductStore`: the calls of the store while the user goes from screen to screen.
  `listFilter`, `tidy` and `promised` are history.
* `OrderList`: the requests of `fetchOrders` by number, with the list and the
  statistics one after the other.  The debounce timer is a flag, and may fire at
  any time after it was set; `Refresh` is a reset with the filters as they are, at any
  time.  `selected` is the sale in the modal: `cancelOrder` reads it again after the
  answer, when it may be closed or another sale, and changes it together with the row that
  it was opened from, as long as no reset has replaced the rows.  The count, the rows of a page and
  their nodes are read at one moment here, and no two sales are made in the same second;
  in the code they are three queries, without a second key for the order.
  `tidy`, `resetFailed`, `statsFailed`, `told` are history.
* `CashScreen`: several tills at one stock.  A basket is a function from products to
  items; an item knows whether it shares its copy of the product with the list
  (`shared`), because a load then leaves it behind.  `sale`, `load` and `search` are
  the calls of a till; a sale is one step of the server here.  `rung`, `touched`,
  `adrift` and `behind` are history.
* `CommandeScreens`: one order as several screens work on it.  `canApplyStatusTransition`
  is the screen's check of the workflow; `HandleSave` is the generic save, which
  checks nothing; `BeginTransfer`, `TransferLine`, `EndTransfer` are the transfer as
  seen by the order, with its last save of the whole order as it was read.  `then` is
  the call whose flag a load clears when it ends.  The search of the list of deliveries
  loads while another load is under way; the order is taken to be among the rows it
  finds.  `version`, `written`, `tidy` and `crossed` are history.
* `AuthTokens`: every request of `ApiController` that reads or writes the tokens,
  statement by statement: `Save` (the account), `Forget` (the end of old sessions),
  `Delete` and `Insert` (the two statements of `generateBearerToken`).  `Receive` sets
  or clears the cookie whenever the answer comes; `Lose` is a lost call or a killed
  process; `Cron` and `Tick` are the rest.  `newest`, `ended` and `loose` are history.
* `SmsDispatch`: processes that send the messages of `sms` nodes, from the insertion
  hook (inside its transaction: `End` and `Abort`) or by a resend.  `ReadToken`,
  `ReadExpires`, `ReceiveToken`, `WriteToken`, `WriteExpires` are the steps of
  `getAccessToken`, `Provide` the provider taking a message, `SaveResult` the write to
  the node.  A process that has written an entry of the state in its transaction
  holds its row (`Locked`).  A resend looks at no status; a success may come without a
  reference (an answer that is no JSON), and the node then keeps the one it had.  A message
  whose call timed out may still be taken (`late`, `TakeLate`).  `accepted`, `again`, `last`,
  `writers` and `unsure` are history.
* `*_proofs`: theorems about the module of that name.  Two extend a pair of modules:
  `ShopScreens_proofs` the screens that show products, `CashScreen` and `ProductStore`, and
  `SalesNotices_proofs` what tells the shop of its sales, `SmsDispatch` and `OrderList`.
  Where the two of a pair would share a name, the definitions of `ProductStore` and `OrderList`
  have a prefix (`StoreInit`, `listVars`); `storeProducts` and `FetchStoreProducts` are
  `products` and `fetchProducts` of `useProductStore.js`.
* `MC_*`: values for the constants, and the symmetry of what is interchangeable.

In the modules of the orders, the role checks and `authenticateRequest` at the head of
every handler are left out: a request in a model is one that passed them.  Fields no property
speaks of (titles, revision messages, dates, reasons, `field_etat_commande`) are left
out too.  Amounts are natural numbers; the code's are floats, and rounding is not modelled.
The application itself logs in with the external `api_solutions`; `AuthTokens` is the
module `mz_crud_new` of this repository (of which the repository holds three copies).

## The runs

All runs set `CHECK_DEADLOCK FALSE`: `MaxRequests`, `MaxCalls`, `MaxStarts`, `MaxSales` and
`MaxSends` bound how many requests, calls, commands, sales and messages start, and a
system with none left to start is at rest.

| Run | Shows |
|---|---|
| `sale_serial` | one request at a time, any of which may stop between two saves; any status change: `TypeOK`, `CancelledIsClosed`, and `KeepsLedger`, the refinement of `StockLedger`, which says of these sales that the stock agrees with its movements and is never oversold |
| `sale_parallel` | two requests at a time, order `o1` open to both: `SalesSettled` for the order only one request works on at a time, `LinesExist`, `StatusesAgree`, `CartsNotShared` |
| `sale_lostupdate` | violation of `LedgerAgrees`: two sales of one product at the same time lose a movement |
| `totals_edits` | two requests at a time, order `o1` open to both: `TotalsAgree`, `LinePriced`, `OtherLinesKept` |
| `transfer_transfers` | two requests at a time on different orders, with exceptions and killed processes: `PiecesConserved`, `OpenLinesListed`, `FewProductsPerSku` |
| `import_import` | one command at a time, started up to twice with any of three options and killed anywhere, three kinds of server, products with and without image fields, one change of the remote list, one call of the endpoint: `OneNodePerSku`, `CompleteImport`, `NeverGoesBack`, `PicturesKept`, `ImportEnds` |
| `store_pages` | three calls, two under way at once, any of them lost: `PagesInOrder`, `LoadingEnds` |
| `screen_screen` | three requests of the screen, one search, a modal over two sales, cancellations of one of them, one sale of another till: `ShowsTheFilters`, `ListInOrder`, `CancelShown`, `SpinnersEnd` |
| `cash_tills` | two tills at two products, with two sales, three loads or searches and three pieces between them: `PiecesAccounted`, `SalesRecorded`, `ListReadsOwnSales`, `RefusedOnlyIfMoved` |
| `order_order` | an administrator's detail screen and an editor's list of deliveries at one order in delivery, three calls, two under way at once, any of them lost: `ReadsOwnWrites`, `AsksNoMoreThanShown`, `FlagsHeld`, `WorkflowFollowed`, `CancelledStaysHere` |
| `auth_sessions` | two users, one without an account, two browsers, two requests at a time: `SessionKept`, `FailsOnlyTogether`, `NoFormerSession` |
| `sms_messages` | two processes, two messages, three dispatches, of which any may be a resend of a message that was sent: `SentWasAccepted`, `TwiceOnlyWhenAsked`, `ResultKept`, `PairedTokenGood` |

**Bounds.**

* Orders: two products (one of which sales may name twice), three lines, two
  orders, quantities up to two out of a stock of two, and three or four requests:
  enough for a sale that uses up the stock, an order of two lines with a line edited
  and a line deleted, a cancellation of both lines, a second order that competes for
  the same product, and a failure at any save with another request after it.
  `StatusSteps` says which status changes clients ask for: all of them in
  `sale_serial`; in `sale_parallel` none that leads to or from `annuler`, because a
  cancellation by status moves no stock (see below).  Where two transfers compete,
  a third product is there for one to create too many.
* Transfers: two `product_commande` nodes whose SKUs differ by blanks only, so that the second is
  found under the product of the first, or not, as the order of the transfers has it (1.1
  million states).
* Import and lists: a page holds two rows and there are three or four of them,
  so that there are full, short and empty pages and a last page that is full; the
  import tries each request twice, so that it succeeds at once, at the second
  attempt, or fails; three calls are enough for two that overlap and one made after
  them, which is what it takes for an old answer to arrive after a new one or for a
  load to be refused.  `Overlapping = FALSE` in the import: two commands at once can
  create a SKU twice (they look it up before either saves), and
  `OneNodePerSku`, `NeverGoesBack` and `PicturesKept` claim nothing for them.  Of the
  products one has a picture to download and no image fields, two have image fields (the
  remote site's ids, or none it can map), one has nothing (1.3 million states).
  The list of local sales has a row to a page: two sales and one made later, so that a page
  asked for after it repeats a row, and a search or a tab that finds the first sale
  only; two sales can be in the modal, and one of them can be cancelled (0.6 million states).
* Tills: stocks of two and one, so that a basket can be refused on the screen and at the
  server; two sales let one till's stock be taken by the other, and one till sell again
  after a lost answer; with three loads, lists and photo results of different age meet
  in one basket (2.4 million states).
* Order screens: one line of two pieces, so that a transfer can take part of it; three
  calls let a save of one screen, a transfer of the other and a third call overlap.  The
  order starts in delivery, where both screens have something to do with it and all
  directions of the workflow are open (1.1 million states).
* Sessions: a token of two units of time, a cookie of one, a request of at most one, for
  thirty days, an hour and a time limit of minutes; four requests are a registration, a
  login, a change and a logout, two at a time for every interleaving of two statements
  each; three units of time let a token expire and cron remove it (3.6 million states).
* Messages: a token of two units, believed to last three, a margin of two, a timeout of one,
  and three units of time: a token read near its end, a wait for a locked row, a timeout and a
  message taken late all fit; three dispatches are both messages and a resend of one, or one
  message sent again and again.

**What the models show to be wrong.**  `sale_lostupdate` is one of several; changing a
constant or dropping an exemption that a property names shows the others.

* Sales.  With `SharedOrders = {o1}` and `o1` not exempted, `SalesSettled` fails for two
  cancellations at the same time, and `TotalsAgree` for two price edits.  With
  `CanFail`, orders in `torn` may have pieces returned twice, or, in
  `TransferBoutique`, received twice.  With `annuler` among the targets in
  `StatusSteps`, an order can be cancelled by `updateStatusLocal` without its pieces
  coming back (the screens use `cancelOrderLocal`), and a cancelled sale that is given a
  live status again and cancelled again returns its pieces twice
  (`OrderLocalController.php:322`).  With `RepeatProducts` a product named in two items
  of a sale can go below zero (the cash screen merges such items).
* Prices.  The unit price zero is replaced by the product's price when the order is
  summed up (`OrderLocalController.php:1180`), because the line that was just given its
  price is recognised by comparing an integer with a string.
* Transfers.  With two requests, two products can be created for one SKU.  A
  product whose SKU has blanks around it is created again by every transfer, since the
  trimmed SKU never finds it (`FewProductsPerSku` leaves such SKUs out).  A
  `product_commande` is deleted with its last piece
  (`OrderCommandeApiController.php:386`): another line that still refers to it cannot be
  transferred any more.
* Product store.  The refresh after a cancellation is dropped while another load is
  under way (`useProductStore.js:17`): the list keeps what it showed.
* Import.  Image fields of the payload are written over the product's own before any picture is
  downloaded (`applyFieldMappings`; only `medias` is ignored): when the downloads then
  fail, the product is left with the remote site's ids, or with nothing.  A copy so changed
  stays in the cache of the process when its save fails, and is saved with the next item of that
  SKU, even one without image fields (`PicturesKept` exempts both, `WritesPayload`).
* Local sales.  When the answer to a cancellation comes and the modal has been closed, `cancelOrder`
  throws and the row stays as it was; when another sale has been opened by then, that
  one is shown as cancelled, in the modal and in the list (`CommandesPage.vue:1137`).  A sale
  shown twice, because one was made between two pages, is patched in its first row.
* Cash screen.  The basket stays after a lost answer, so that sending it again is a second
  sale.  Pieces added while a sale is being saved are written to the local record, are
  not sold, and are cleared with the window of confirmation.  The copies of a photo search
  never get the stock a sale has left.  A photo chosen while another is searched is
  not searched, and the results of the older one are shown for it.
* Order screens.  A screen that is behind can give a cancelled order a live status.
  The last save of a transfer writes the whole order as it was read, over a status saved
  meanwhile (`OrderCommandeApiController.php:458`, `crossed`).  A partial transfer
  whose answer is lost and that is sent again transfers twice.  The comment at
  `orderCommandeShared.js:88` says that a cancellation takes the role of an administrator;
  `canApplyStatusTransition` (and its own comment at line 122) opens it to every user.  The
  notice of a successful transfer is cleared by the load that follows it, and
  `applyCartLineStatus` is called by no control.
* Sessions.  A change of another field of the account saves the password as it was
  loaded, and can undo a change of the password made meanwhile (`loose`).  `user_edit`
  makes a new token that it gives to nobody.  A late answer of a refused request clears the
  cookie of a newer session.  An administrator who changes the password of another
  user leaves that user's session (not modelled; read in the code).
* Messages.  A process can read the token of one process with the expiry of another
  (`paired`), and present it after its end; so can one that waits for a row of the state
  between being issued a token and writing it.  An `expires_in` under 60 seconds is taken as
  60.  `sender_address` does not fall back to the configuration when it is empty, only when
  it is missing (`OrangeMadagascarGateway.php:82`).  The message of an insertion that is
  undone has been sent.  A resend does not look at the status (`ResendController.php:30`): two
  administrators who both saw `failed`, or a second visit of the page's address, make a
  second message of a node that says `sent`, and when the provider refuses that one, `failed`
  is written over `sent` (`again`, `last`).  `request_timeout` can be set up to 120 seconds,
  while the margin is 30: a token can then end while the message is on its way.

**Fairness.**  The specifications of the order handlers, tokens and messages state none,
and no liveness is claimed for them: a request may stop at any save, and a PHP process is
not restarted.  `CommandeScreens` and `CashScreen` state none either: what
could be stuck is said as an invariant, that a flag is set only while the call that
clears it is under way (`FlagsHeld`).  `StoreImport`, `ProductStore` and `OrderList` have
fairness for the steps the code takes by itself only: a command that has been started goes
on (each request has a timeout, so that it is answered or fails; `WF(Step(c))`), a call of the
browser is handled or lost (`WF(Handle \/ Lose)`), and its answer or its loss is received
(the event loop runs every settled promise; `WF(Receive)`; in `OrderList` one fairness for
all of its requests, that some `Progress` is made).  None
says that a call succeeds, that a user does anything, or that a killed command is
started again.

## The proofs

All theorems hold for every value of the constants that satisfies the named
assumption of the module.

`LocalSale_proofs` (`ConstantsAssumption`).  The proofs treat the start of a request once
(`ReceiveStarts`: every handler starts a valid job) and then each save.

* `TypeCorrect`: `TypeOK` and `RequestsOK`, the state of a running request (it is
  at a line when its step needs one, and that line has a product);
* `StatusesAgreeAlways`: the two status fields agree on cancellation, so handlers
  that check one refuse what handlers that check both refuse; whatever requests
  interleave or stop;
* `CartsNeverShared`: no two orders share a line.  The invariant behind it is
  `LinesOwned`: lines of orders, and of the orders that running requests are about
  to save, are nids handed out once;
* `LedgerAgreesSerially`: assuming `Serial` (one request process), the stock is the
  initial stock plus the movements.  The invariant is `CacheFresh`: what a request
  holds of a product is what the database has;
* `NeverOversoldSerially`: assuming `Serial`, a product that no sale names twice
  does not go below zero.  The invariant adds `RequestsCovered`: the pieces a
  request has still to take are there, line by line;
* `LedgerKeptSerially`: assuming `Serial`, `LocalSale` implements `StockLedger`.  With
  `CacheAlwaysFresh`, a `SaveMovement` is a `Move` of its line and product
  (`MovementIsMove`), guarded because the request's pieces are there; every other step
  leaves the three variables of the ledger alone (`OtherStepHolds`).

`sale_lostupdate` shows that `Serial` cannot be dropped.

Three theorems there are about any number of requests at a time, each of which may stop at
any step:

* `LinesAlwaysExist`: an order that is not shared refers to saved lines only;
* `CancelledStaysClosed`: assuming `SharedOrders = {}`, nothing edits an order, its lines or
  their pieces while it stays cancelled, although no save looks at the status again;
* `SalesAlwaysSettled`: assuming `NoStatusCancels` (`StatusSteps` neither leads to nor
  from `annuler`), every order at rest that no request left half-way has its pieces.

The first two rest on `LinesInv`: a request is at a step of its operation (`Shape`), writes lines
of its own order only, which exist unless it has still to create them (`Own`), shares none
with a request at another order (`Apart`), and, at an order that is not shared, still
finds the order as it has read it (`Follows`).  The third adds `PiecesInv`: for each
operation and each line, what the line holds while the request goes through the lines
(`Pieces`), so that the last save, or the stop, leaves the order `Settled` or in `torn`
(`EndSettles`).  What every handler has checked when it starts is stated once (`Fits`).

`TransferBoutique_proofs` (`TransferAssumption`), about any number of orders, lines and
requests at a time, with lines that fail and requests that are killed:

* `TransferTypeCorrect`, the types;
* `PiecesNeverLost` and `OpenLinesStayListed`: at an order that is not shared and that no
  request left half-way, the pieces of every line are in the shop or still on the line,
  and the lines listed are those with pieces left;
* `FewProductsForASku`: assuming that `Requests` and `Products` are finite and that no SKU
  has more products than there are requests to begin with, none without blanks ever has.

`LinesInv` is as above (`Shape`, `Own`, `Apart`): every step of a running request goes
`Onward`, with lines it had already.  `PiecesInv` says of a request at such an order that
its copy has the lines of the saved order until it changes one (`Listed`), that the lines
it is not at are as at rest (`Settled`, `Good`), and how far the line it is at has come: its
pieces not yet in the shop, in the shop and not yet off the line, or all gone (`AtHand`).
`FewProductsForASku` counts the products of a SKU together with the requests about to create one
(`FewOf`): a request joins them only when there is no product, and leaves them by
creating one.

`OrderTotals_proofs` (`TotalsAssumption`, of which finitely many carts is what sums need):

* `LineStaysPriced`, also for orders two requests work on.  The invariant is `LineOK` (the
  total of a line with a price goes with it) of every saved line and of every line in
  the copy a request is working on: two edits overwrite each other, but each saves a line
  that is consistent in itself;
* `TotalsAlwaysAgree` and `OtherLinesStay`, from `TotalsInv`.  What an order lists and what a
  request at work on it has in hand (`Hand`) are the claims of the order (`Claims`); those of
  two orders are apart (`Owned`), and a step writes lines its request has in hand only
  (`Touches`), so it disturbs no other sum.  A sale has the total of the lines it writes
  (`SaleSum`), a request that does not add up the total it read (`CopySum`), and an edit the sum
  of the lines it has passed (`EditSum`); `Knows` says that a line about to be saved again
  has changed in its total only.  The sum itself is a fold that takes the lines in an
  order `CHOOSE` gives; that the order does not matter is shown by counting pairs of a line and
  a unit of its total (`CountsAdd`), with an induction over subsets (`SetInduction`).

`AuthTokens_proofs` (`AuthTokensAssumption`, of which `CookieLife + RequestTime <= TokenLife`
is what `SessionsAreKept` needs, and `SomebodyAssumption`): `TokensTypeCorrect`,
`SessionsAreKept`, `FailuresAreShared`, `FormerSessionsEnd` share one inductive invariant.
`Typed` and `Accounts` are the types; `Fresh` says that the number of a request that still
works has not been handed out as a token; `Timely` that a request ends within its time, and
the row it will insert expires a token's life after its beginning; `Sessions` that a cookie,
stored or still on its way, that holds the last session asked for has its row in the
table, which outlives it; `Crowding` that a request that is alone finds no row when it
inserts; `Knows` and `Rows` follow the password from the account through the request to the row.

`StoreImport_proofs` (`ImportAssumption`), about any catalogue, any changes of it and any answers
of the shop, with commands killed at any step and calls of the endpoint at any moment:

* `ImportTypeCorrect`, the types;
* `OneNodeForASku`: assuming `~Overlapping`.  A node is added only for a SKU that had none at
  the look-up, which is a step of its own; the invariant `Serial` says why that is still so
  at the save: commands run alone (`Alone`), and what came in between is counted in
  `posts` (`RightNode`);
* `PicturesStay`: assuming `~Overlapping`.  The invariant `Remembered` says that only a command that
  writes holds nodes, and that a copy which no image fields were put into has the pictures
  of its node (`Truthful`): a node changes only by the save of the command that holds it,
  which drops the copy, because commands run alone;
* `NothingPutBack`: assuming `~Overlapping`.  The invariant `Forward` says that what was read
  is no newer than the shop (`NodesCurrent`, `Current`), that a product read twice was read
  in order (`Ordered`), and that no node of the command is newer than an item still to
  write (`Behind`), at first because the items are read after the command before has ended;
* `ImportsAreComplete`: assuming `~Overlapping`, and that no two products of the shop share a
  SKU (`DistinctSkus`).  While a command reads a list nobody disturbs, what it has read
  follows the list page by page (`InOrder`, from `Follows` and `Reached`), so that at the
  end it has read all of it (`AllRead`, `KeepsOrder`).  Each product it wants is then held
  for a write or has its node (`Sound`), and keeps it: what other commands write comes
  from a later read (`Elders`), and a node is replaced only by its own product.

`CommandeScreens_proofs` (`CommandeScreensAssumption`), about any number of screens of both
kinds, lines and calls:

* `ScreensTypeCorrect`, `NeverAsksForMore`, `FlagsAreHeld`, `CancelledStays`.  The invariant adds
  to the types (`Typed`, and `CallOK` of the calls under way) that a quantity chosen is
  within the line shown (`Chosen`: every load drops or cuts what was chosen), that no
  transfer runs at a cancelled order unless a status was saved during it (`Uncrossed`),
  and that flags and calls under way correspond (`Held`);
* `OwnWritesAreShown` and `WorkflowIsFollowed`, from `Fresher`.  Every save of the order has a
  number, its version, and what a screen shows or a call has read has the version it
  was read at.  `ScreenFresh` says that a screen has its own last save, unless the load
  that follows a status or a transfer is under way (`Following`), and that it shows the
  status of its version unless it was patched with one it saved; `CallFresh` says the same of the
  answer of a load that is alone, and that a status sent from a view of the present
  version is a step of the workflow.  `Apart` keeps the silent loads of the list of deliveries
  apart from its changes of status, and `Restores` says that a transfer no status was saved during
  saves the order with the status it has.

`SalesNotices_proofs`: the messages (`SmsAssumption`), about any number of processes and messages:

* `SmsTypeCorrect`, `SentIsTrue`, `NotSentUnasked`, `ResultIsKept`.  The invariant says where a
  process and the presence of its node stand (`Typed`, `Placed`), that two processes at
  one node make it unsure (`Apart`), that a message taken is known to the process that
  waits for the answer or to save it, and that until then the messages taken are no more than
  the resends (`Followed`), and that a node nobody is at shows what became of its last
  message (`Kept`, `Shows`).  The steps at the cached token change none of it (`Onward`);
* `PairedTokensAreGood`, from `Lasting`.  Every dispatch has a number (`Numbered`, `Distinct`),
  and what one has not written nobody has (`Unread`).  A token lasts as long as the time of
  expiry written, or still to be written, by the dispatch that wrote it, less the `Shortfall` of
  a token shorter than the least life (`Good`), for the token in the cache and for one a
  process has read before it reads the time (`ReadersGood`); a token just issued lasts longer
  than the margin (`OwnToken`), which is where `Margin < MinLife` is needed (30 and 60
  seconds in the code).  Nothing is assumed of `Timeout`: the theorem speaks of the time
  since the look at the cache, and a call that lasts longer than the margin is
  outside it.  With the default of 15 seconds one call is within it, a call for a token and
  one for the message are not always.

`ShopScreens_proofs`: the cash screen (`CashScreenAssumption`), about any number of tills, products, sales and
attempts, with answers lost, submissions repeated and lists reloaded at any moment:

* `RungUpSoldOnce`: the stock of a product and the pieces of the orders add up to
  what there was, and no basket makes two orders.  The pieces of an order are a sum
  over its lines, `SumTo`;
* `SalesAlwaysRecorded`: a basket confirmed to the cashier is an order with its lines;
* `ListsShowOwnSales`: a list loaded after a till's own sales shows what they left;
* `RefusalsAreDue`: an order is refused only for a product that another till has sold
  since the list was read.

`SaleInv` follows a basket from the call (`SentAsShown`) through its lines (`ItemsTold`,
`SaleTold`) to its order (`DoneIsOrder`, `RecordsAreOrders`, `OrdersRecorded`), and gives each
the stock it took (`StockLedger`, `PiecesKept`); `ListInv` says which sales of its own a list, or
the answer of a load, has seen (`LoadsReadOwnSales`, `ListsReadOwnSales`).  That sums over
longer sequences extend those over shorter ones is shown by induction, from the least number
at which it would fail (`LeastNumber`, `AddsUp`).

`SalesNotices_proofs`: the screen of the local sales (`OrderListAssumption`: among the texts there is the empty one,
which finds every order), about any number of requests, answered in any order, orders and
pages of any length: `ListTypeCorrect` and

* `ListShowsTheFilters`, from `FilterInv`.  A request has the filters it was made for, and so
  have the rows of its answer (`RowsAreFor`); the last request has the filters chosen
  (`LastIsForCurrent`), except during the pause of a search.  That an answer is used only if
  its number is the last one is what keeps this at `ReceiveList`;
* `ListShowsCancelled`, from `CancelInv`, and `ModalTyped`, which says that the modal holds a row of its
  own sale or none: when the screen is told of a cancellation no answer
  that shows the sale as anything else is left (`KnownCancelled`), which is where an answer
  that was made before the cancellation has to be excepted (`early`); it speaks of the first row of
  the sale, which is the one the code looks for (`FirstIn`);
* `ListStaysInOrder`, from `PageInv`.  An answer nobody disturbed is a page of the sales as they
  are (`CleanPages`), and a tidy list holds the pages up to the one the screen is at, or to
  the one before while the next is on its way (`Holds`).  `LastIsFlagged` says that a spinner
  turns while the last request runs; so no page is asked for twice.

`ShopScreens_proofs`: the store of products (`StoreAssumption`), about any number of calls, products and pages of any
length, with calls lost: `StoreTypeCorrect` and

* `StorePagesInOrder`, from `PagesInv`: on a tidy list one load runs at a time (`OneFetch`), it
  asks for the page the store is at, and its answer is that page of the products as they are
  (`FetchesNextPage`); the pages before it are in the list (`ListComplete`).  The actions of
  the store are few kinds of steps for the list (`StoreSteps`): all but `fetchProducts` and a
  new product leave it alone (`PagesKept`).

The last two rest on `RankedIsDescending`: sorting a finite set of numbers by how many are higher
gives each of them one place, the highest first (`RankIsOneToOne`, `RankIsOnto`).

**Model-checked only.**  Every invariant and action property of a passing run is a theorem.
Liveness (`ImportEnds`, `LoadingEnds`, `SpinnersEnd`) and `ENABLED` are outside what the proof
system does and stay with TLC.  The induction theorems of the library take an operator and cannot be used
either; where a proof needs an induction, it is made from the least counterexample.

## Not modelled

* Nearly all of the 35,000 files of the repository: Drupal core, contributed modules and
  themes, and vendored libraries (the editor under `libraries/ace` alone is some
  hundred thousand lines).  They are third-party code, and the models cover the own code of
  the shop only, a small part of the lines of the repository.
* `OrderLocalApiController` other than list conditions and pages, the public
  catalogue, stock statistics: they read and format.  `README_RAPPORT.md` describes
  report nodes that hooks write; no code in the modules does.
* Of the screens of sales on order: the form of `CaisseCommandePage.vue`, notes (`saveNotes`),
  pictures, and the paging of the lists.  What the form sends is modelled as the input of
  `saveOrderCommande` in `TransferBoutique`.
* Of the local sales screen: the other edits of `CommandesPage.vue` (status, prices, quantity,
  delivery), which patch a row as the cancellation does (the reload after an edit of a line
  is `Refresh`), its date filters, which act like a tab, and the loading of pictures.
* In the product store: categories, uploads, searches and movement lists, which
  return values without touching the shared state.  In the cash screen: sub-totals,
  notices, categories.
* In `mz_crud_new`: requests refused for their form, which change nothing, edits of another
  user's account by an administrator, the deletion of accounts.
* In `mz_sms_notification`: the check of numbers, the settings form and the wording.  Its
  README says that any code that saves an `sms` node triggers a message; the hook is that
  of an insertion, and the module is disabled by default.
* Image search, AI settings and usage, mail, Stripe, page builder, CRUD helpers,
  entity parser: conversions and calls of external services without state that two
  requests share, beyond counters and logs.
* The service `api_solutions`, whose source is not in the repository: modelled as
  the screens use it (a paged list, sorted by nid, and a save).

## Plan

Done: sales, totals, transfers, import, sessions, messages, and the five screens that write
something; the refinement of the stock ledger; a theorem for every invariant and action property
that a run checks.

What could follow: the other edits of `CommandesPage.vue` with the lines they patch, the form of
`CaisseCommandePage.vue`, and the reports of `OrderLocalApiController` as operators over
the orders, checked against the totals of `OrderTotals`.
