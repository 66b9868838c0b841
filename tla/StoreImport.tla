----------------------------- MODULE StoreImport -----------------------------
(***************************************************************************)
(* The import of the catalogue of the public shop into `product_store'     *)
(* nodes: the drush command eroso-store:import-products                    *)
(* (eroso_store/src/Commands/ErosoStoreCommands.php) and the endpoint      *)
(* /api/v2/eroso_store/product_store/import (ProductStoreImportController).*)
(*                                                                         *)
(* The command first reads everything: the list page by page and the       *)
(* detail of every product of a page, each request tried Retries + 1 times *)
(* (a page that cannot be read ends the command, a detail that cannot be   *)
(* read is skipped).  Then it writes the products one by one, looking each *)
(* up by its SKU, and saves the node as it was when it was loaded.  The    *)
(* remote shop may change, the command may be killed and started again,    *)
(* and the endpoint may be called at any moment.                           *)
(*                                                                         *)
(* Abstracted: a product is its remote nid, a SKU and a version that       *)
(* stands for the content of all its fields but those of its pictures,     *)
(* which are one.  A batch is logged and empties the cache of nodes.       *)
(***************************************************************************)
EXTENDS Integers, Sequences, FiniteSets

CONSTANTS
  Commands,          \* processes that may run the drush command
  Nids,              \* products of the remote shop
  SkuOf,             \* the SKU of each of them
  NoSku,             \* the SKU of a product that has none ('')
  Listed,            \* the remote list at first
  PageLimit,         \* --api-page-limit
  Retries,           \* --retries
  Options,           \* the other options a command is started with
  Formats,           \* the optional fields the remote list may answer with
  Payload,           \* what the image fields of each product are written as
  Pictured,          \* the products that have a picture to download
  Pushed,            \* the products the endpoint is called with
  MaxStarts,         \* bound: starts of the command
  MaxChanges,        \* bound: changes of the remote shop
  MaxPosts,          \* bound: calls of the endpoint
  Overlapping        \* may a command start while another runs?

ASSUME ImportAssumption ==
  /\ PageLimit \in Nat \ {0}
  /\ Retries \in Nat
  /\ Options \subseteq [limit : Nat, offset : Nat, update : BOOLEAN, dry : BOOLEAN]
  /\ Formats \subseteq SUBSET {"nids", "has_next", "next_offset", "total"}
  /\ Payload \in [Nids -> {"absent", "none", "remote"}]
  /\ Listed \in Seq(Nids) /\ Pushed \subseteq Nids
  /\ Overlapping \in BOOLEAN

VARIABLES
  catalogue,         \* the remote list, in its order
  version,           \* the version of each remote product
  format,            \* the optional fields of this server's answers
  nodes,             \* the product_store nodes, by order of creation
  run,               \* the state of each command
  memory,            \* the nodes it holds, which it has not saved since
  starts, changes, posts

vars == <<catalogue, version, format, nodes, run, memory, starts, changes, posts>>

None == -1           \* PHP's NULL, for a number
Stop == -2           \* no further page

Reading == {"list", "detail"}
Active == Reading \cup {"lookup", "save"}

\* Pictures downloaded here, or the remote site's ids of its own.
Pictures == {"none", "own", "remote"}

Idle == [pc |-> "idle", opt |-> CHOOSE o \in Options : TRUE, offset |-> 0,
         next |-> Stop, total |-> None, page |-> <<>>, attempt |-> 1,
         details |-> <<>>, node |-> 0, at |-> <<>>, asOf |-> [n \in Nids |-> 0],
         disturbed |-> FALSE]

Init ==
  /\ catalogue = Listed
  /\ version = [n \in Nids |-> 1]
  /\ format \in Formats
  /\ nodes = <<>>
  /\ run = [c \in Commands |-> Idle]
  /\ memory = [c \in Commands |-> {}]
  /\ starts = 0 /\ changes = 0 /\ posts = [s \in {SkuOf[n] : n \in Nids} |-> 0]

-----------------------------------------------------------------------------
(* The remote shop.                                                        *)

Slice(s, from, count) ==
  SubSeq(s, from + 1, IF from + count < Len(s) THEN from + count ELSE Len(s))

Item(n) == [source |-> n, version |-> version[n]]

Items(nids) == [i \in DOMAIN nids |-> Item(nids[i])]

Has(field) == field \in format

(* A page of the list: what extractItems, extractNidsFromItems and         *)
(* extractTotal find in the answer.  Rows without a nid are whole items.   *)
ListPage(offset) ==
  LET rows == Slice(catalogue, offset, PageLimit)
      more == offset + PageLimit < Len(catalogue)
  IN [rows  |-> rows,
      last  |-> Has("has_next") /\ ~more,
      next  |-> IF Has("next_offset") /\ more THEN offset + PageLimit ELSE None,
      total |-> IF Has("total") THEN Len(catalogue) ELSE None]

Disturb(r) == [c \in Commands |-> [r[c] EXCEPT !.disturbed = @ \/ r[c].pc \in Reading]]

Without(i) == SubSeq(catalogue, 1, i - 1) \o SubSeq(catalogue, i + 1, Len(catalogue))

Relist(new) ==
  /\ catalogue' = new
  /\ run' = Disturb(run)

(* A product appears at an end of the list, is withdrawn, or is edited,    *)
(* which may move it if the list is sorted by date of change.              *)
RemoteChange ==
  /\ changes < MaxChanges
  /\ changes' = changes + 1
  /\ \/ /\ \E n \in Nids : /\ \A i \in DOMAIN catalogue : catalogue[i] # n
                           /\ Relist(<<n>> \o catalogue) \/ Relist(Append(catalogue, n))
        /\ UNCHANGED version
     \/ /\ \E i \in DOMAIN catalogue : Relist(Without(i))
        /\ UNCHANGED version
     \/ \E i \in DOMAIN catalogue :
          /\ version' = [version EXCEPT ![catalogue[i]] = @ + 1]
          /\ \/ UNCHANGED <<catalogue, run>>
             \/ Relist(<<catalogue[i]>> \o Without(i))
             \/ Relist(Append(Without(i), catalogue[i]))
  /\ UNCHANGED <<format, nodes, memory, starts, posts>>

-----------------------------------------------------------------------------
(* The command: reading.                                                   *)

Goes(c, r) == run' = [run EXCEPT ![c] = r]

OnlyReads == UNCHANGED <<catalogue, version, format, nodes, starts, changes, posts>>

StartState(o) ==
  [Idle EXCEPT !.pc = "list", !.opt = o, !.offset = o.offset,
                !.at = catalogue, !.asOf = version]

CanStart(c) ==
  /\ starts < MaxStarts
  /\ run[c].pc \notin Active
  /\ Overlapping \/ \A d \in Commands : run[d].pc \notin Active

Start(c) ==
  /\ CanStart(c)
  /\ \E o \in Options : Goes(c, StartState(o))
  /\ starts' = starts + 1
  /\ UNCHANGED <<catalogue, version, format, nodes, memory, changes, posts>>

Wanted(s, o) == Slice(s, o.offset, IF o.limit > 0 THEN o.limit ELSE Len(s))

(* --input-file: the items are read at once, from an earlier export.       *)
StartFromFile(c) ==
  /\ CanStart(c)
  /\ \E o \in Options :
       Goes(c, [StartState(o) EXCEPT !.pc = "lookup",
                  !.details = Items(Wanted(catalogue, o))])
  /\ starts' = starts + 1
  /\ UNCHANGED <<catalogue, version, format, nodes, memory, changes, posts>>

FullUp(r) == r.opt.limit > 0 /\ Len(r.details) >= r.opt.limit

\* A mutant: array_unshift for $all_details[].
CollectedFirst(r, items) ==
  Slice(items \o r.details, 0, IF r.opt.limit > 0 THEN r.opt.limit
                               ELSE Len(r.details) + Len(items))

(* $all_details[] = $detail, up to the limit.                              *)
Collected(r, items) ==
  Slice(r.details \o items, 0, IF r.opt.limit > 0 THEN r.opt.limit
                               ELSE Len(r.details) + Len(items))


\* A mutant: count($nids) <= $pageLimit.
NextOffsetUnlessFull(p, offset, total) ==
  LET after == IF p.next # None THEN p.next ELSE offset + PageLimit
      short == Has("nids") /\ Len(p.rows) > 0 /\ Len(p.rows) <= PageLimit
  IN IF p.last \/ short \/ (total # None /\ after >= total) THEN Stop ELSE after

(* Where the next page starts, from the answer of this one.                *)
NextOffset(p, offset, total) ==
  LET after == IF p.next # None THEN p.next ELSE offset + PageLimit
      short == Has("nids") /\ Len(p.rows) > 0 /\ Len(p.rows) < PageLimit
  IN IF p.last \/ short \/ (total # None /\ after >= total) THEN Stop ELSE after

(* The end of a page: the limit, the last page, or the next one.           *)
TurnPage(r) ==
  IF FullUp(r) \/ r.next = Stop
  THEN [r EXCEPT !.pc = "lookup", !.page = <<>>, !.attempt = 1]
  ELSE [r EXCEPT !.pc = "list", !.page = <<>>, !.attempt = 1, !.offset = r.next]

ReadPage(c) ==
  LET r == run[c]
      p == ListPage(r.offset)
      total == IF r.total = None THEN p.total ELSE r.total
      known == [r EXCEPT !.total = total, !.attempt = 1,
                         !.next = NextOffset(p, r.offset, total)]
  IN /\ r.pc = "list"
     /\ Goes(c, CASE p.rows = <<>> -> [r EXCEPT !.pc = "lookup", !.total = total, !.attempt = 1]
                  [] p.rows # <<>> /\ Has("nids") ->
                       [known EXCEPT !.pc = "detail", !.page = p.rows]
                  [] OTHER ->
                       TurnPage([known EXCEPT !.details = Collected(r, Items(p.rows))]))
     /\ OnlyReads /\ UNCHANGED memory

PageRead(r) == IF Len(r.page) = 0 THEN TurnPage(r) ELSE r

ReadDetail(c) ==
  LET r == run[c] IN
  /\ r.pc = "detail"
  /\ \E i \in DOMAIN catalogue : catalogue[i] = Head(r.page)
  /\ Goes(c, PageRead([r EXCEPT !.details = Collected(r, <<Item(Head(r.page))>>),
                                !.page = Tail(@), !.attempt = 1]))
  /\ OnlyReads /\ UNCHANGED memory

MoreAttempts(r) == r.attempt < Retries + 1

\* A mutant: the attempts are not counted.
SameAttempt(r) == r

NextAttempt(r) == [r EXCEPT !.attempt = @ + 1]

(* An attempt fails: no answer in time, a status that is not 2xx, or a     *)
(* body that is not JSON.  fetchJson tries again until max_attempts.       *)
AttemptFails(c) ==
  LET r == run[c] IN
  /\ r.pc \in Reading
  /\ Goes(c, CASE MoreAttempts(r) -> NextAttempt(r)
               [] ~MoreAttempts(r) /\ r.pc = "list" -> [r EXCEPT !.pc = "aborted"]
               [] OTHER -> PageRead([r EXCEPT !.page = Tail(@), !.attempt = 1,
                                              !.disturbed = TRUE]))
  /\ OnlyReads /\ UNCHANGED memory

-----------------------------------------------------------------------------
(* The command: writing, importSingleItem for each detail.                 *)

WithSku(sku) == {i \in DOMAIN nodes : nodes[i].sku = sku}

\* A mutant: range(1, 1), which misses the first node of a SKU.
LoadSecondBySku(sku) ==
  IF sku = NoSku \/ Cardinality(WithSku(sku)) < 2 THEN {0} ELSE WithSku(sku)

(* loadBySku: some node of that SKU, none for an empty SKU.                *)
LoadBySku(sku) ==
  IF sku = NoSku \/ WithSku(sku) = {} THEN {0} ELSE WithSku(sku)

NextItem(r) == [r EXCEPT !.pc = "lookup", !.details = Tail(@), !.node = 0]

Remembers(c, held) == memory' = [memory EXCEPT ![c] = held]

\* Node i as the command holds it, node 0 being a new one.
Copies(c, i) == {m \in memory[c] : m.node = i}

\* Node::load: the copy in the cache, if there is one, or else the node.
Loaded(held, i) ==
  IF \E m \in held : m.node = i THEN held
  ELSE held \cup {[node |-> i, replaced |-> FALSE,
                   pictures |-> IF i = 0 THEN "none" ELSE nodes[i].pictures]}

(* A batch that ends before this item empties the cache.                   *)
Lookup(c) ==
  LET r == run[c] IN
  /\ r.pc = "lookup" /\ r.details # <<>>
  /\ \E i \in LoadBySku(SkuOf[Head(r.details).source]), held \in {memory[c], {}} :
       IF r.opt.dry \/ (i # 0 /\ ~r.opt.update)
       THEN Goes(c, NextItem(r)) /\ Remembers(c, held)
       ELSE Goes(c, [r EXCEPT !.pc = "save", !.node = i]) /\ Remembers(c, Loaded(held, i))
  /\ OnlyReads

(* applyFieldMappings: the image fields of the item, if it has any.        *)
Mapped(had, item) ==
  IF Payload[item.source] = "absent" THEN had ELSE Payload[item.source]

\* A mutant: the guard on $fids dropped.
PicturesDownloaded(had, downloaded) == IF downloaded THEN "own" ELSE "none"

(* attachImages: nothing is replaced when no picture could be downloaded.  *)
PicturesAfter(had, downloaded) == IF downloaded THEN "own" ELSE had

Downloads(item) == IF item.source \in Pictured THEN BOOLEAN ELSE {FALSE}

\* The pictures that the item may give the copy m.
Given(m, item) == {PicturesAfter(Mapped(m.pictures, item), k) : k \in Downloads(item)}

Node(item, pictures, by) ==
  [source |-> item.source, sku |-> SkuOf[item.source], version |-> item.version,
   pictures |-> pictures, by |-> by]

Save(c) ==
  LET r == run[c]  item == Head(r.details) IN
  /\ r.pc = "save"
  /\ \E m \in Copies(c, r.node) : \E p \in Given(m, item) :
       nodes' = IF r.node = 0 THEN Append(nodes, Node(item, p, "command"))
                ELSE [nodes EXCEPT ![r.node] = Node(item, p, "command")]
  /\ Remembers(c, memory[c] \ Copies(c, r.node))
  /\ Goes(c, NextItem(r))
  /\ UNCHANGED <<catalogue, version, format, starts, changes, posts>>

(* A step before the save, or the save, throws: the item counts as failed  *)
(* and the command goes on.  The copy stays in the cache as it is by then. *)
SaveFails(c) ==
  LET r == run[c]  item == Head(r.details)  others == memory[c] \ Copies(c, r.node) IN
  /\ r.pc = "save"
  /\ \E m \in Copies(c, r.node) : \E p \in {m.pictures} \cup Given(m, item) :
       Remembers(c, IF r.node = 0 THEN others
                    ELSE others \cup {[node |-> r.node, pictures |-> p,
                           replaced |-> m.replaced \/ Payload[item.source] # "absent"]})
  /\ Goes(c, [NextItem(r) EXCEPT !.disturbed = TRUE])
  /\ OnlyReads

Finish(c) ==
  /\ run[c].pc = "lookup" /\ run[c].details = <<>>
  /\ Goes(c, [run[c] EXCEPT !.pc = "done", !.offset = 0, !.next = Stop, !.total = None])
  /\ OnlyReads /\ Remembers(c, {})

Kill(c) ==
  /\ run[c].pc \in Active
  /\ Goes(c, Idle)
  /\ OnlyReads /\ Remembers(c, {})

(* ProductStoreImportController::import: always a new node.                *)
ImportEndpoint(n) ==
  /\ posts[SkuOf[n]] < MaxPosts
  /\ nodes' = Append(nodes, Node(Item(n), "none", "endpoint"))
  /\ posts' = [posts EXCEPT ![SkuOf[n]] = @ + 1]
  /\ UNCHANGED <<catalogue, version, format, run, memory, starts, changes>>

Step(c) ==
  \/ ReadPage(c) \/ ReadDetail(c) \/ AttemptFails(c)
  \/ Lookup(c) \/ Save(c) \/ SaveFails(c) \/ Finish(c)

Next ==
  \/ \E c \in Commands : Start(c) \/ StartFromFile(c) \/ Step(c) \/ Kill(c)
  \/ \E n \in Pushed : ImportEndpoint(n)
  \/ RemoteChange

Spec == Init /\ [][Next]_vars

(* A started command runs on: a request is answered or times out.          *)
Fairness == \A c \in Commands : WF_vars(Step(c))

FairSpec == Spec /\ Fairness

-----------------------------------------------------------------------------
(* The command never makes a second node for a SKU, however often it is    *)
(* killed and started again: beside one, only the calls of the endpoint    *)
(* add nodes (loadBySku in importSingleItem).                              *)
OneNodePerSku ==
  ~Overlapping => \A s \in DOMAIN posts \ {NoSku} : Cardinality(WithSku(s)) <= 1 + posts[s]

Present(n, least) ==
  \E i \in DOMAIN nodes : nodes[i].source = n /\ nodes[i].version >= least

(* A command that ended, while the remote list kept its order and no       *)
(* detail or save failed, has imported every product its offset and limit  *)
(* asked for, in a version no older than when it started: no page is       *)
(* skipped or left unread, whatever optional fields the server answers.    *)
CompleteImport ==
  \A c \in Commands :
    LET r == run[c]  wanted == Wanted(r.at, r.opt) IN
    r.pc = "done" /\ ~r.disturbed /\ r.opt.update /\ ~r.opt.dry
      => \A i \in DOMAIN wanted : Present(wanted[i], r.asOf[wanted[i]])

(* A node the command wrote is never put back to an older version of the   *)
(* same product by the command, even if a shift of the list made it read   *)
(* the product twice.                                                      *)
NeverGoesBack ==
  [][~Overlapping => \A i \in DOMAIN nodes :
       nodes[i].by = "command" /\ nodes'[i].source = nodes[i].source
         => nodes'[i].version >= nodes[i].version]_vars

\* Does the command write image fields of the remote shop to node i, those of
\* its item or of one whose save failed?
WritesPayload(c, i) ==
  /\ run[c].pc = "save" /\ run[c].node = i
  /\ \/ Payload[Head(run[c].details).source] # "absent"
     \/ \E m \in Copies(c, i) : m.replaced

(* A node keeps the pictures downloaded for it when the downloads of a     *)
(* later import fail, whatever the command had in its cache and however    *)
(* often it was killed; unless the remote shop sends image fields, which   *)
(* are written over them.                                                  *)
PicturesKept ==
  [][~Overlapping => \A i \in DOMAIN nodes :
       nodes[i].pictures = "own" /\ (\A c \in Commands : ~WritesPayload(c, i))
         => nodes'[i].pictures = "own"]_vars

(* A started command ends: the pages run out and the attempts are bounded. *)
ImportEnds ==
  \A c \in Commands : run[c].pc \in Active ~> run[c].pc \notin Active
=============================================================================
