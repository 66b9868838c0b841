--------------------------- MODULE CommandeScreens ---------------------------
(***************************************************************************)
(* One sale on order (order_commande) as several screens work on it: the   *)
(* detail screen (eroso_commande/OrderDetailCommande.vue) and the list of  *)
(* deliveries (OrderCommandeLivraisonPage.vue).                            *)
(*                                                                         *)
(* The status workflow is checked by the screen, against the status it     *)
(* shows; the save of a field is the generic one, which checks nothing.    *)
(* Only a transfer to the shop is checked by the server, which ends it by  *)
(* saving the order as it was when the transfer began.  Calls of a screen  *)
(* overlap, each guarded by a flag of its own, and answers come in any     *)
(* order or not at all.                                                    *)
(*                                                                         *)
(* Abstracted: the saves of one line of a transfer are one step (they are  *)
(* one by one in TransferBoutique).  The notes, the statuses of single     *)
(* lines, which no control of the screen changes, and the paging of the    *)
(* list of deliveries are left out.                                        *)
(***************************************************************************)
EXTENDS Naturals, Sequences, FiniteSets, SequencesExt

CONSTANTS
  Details,          \* detail screens open on the order
  Deliveries,       \* lists of deliveries that may show the order
  Admins,           \* screens of an administrator
  Editors,          \* screens of a content_editor
  Lines,            \* its lines (cart_commande)
  InitialStatus,    \* field_status_commande at first
  InitialQuantity,  \* field_quantite of each line at first
  Slots,            \* bound: calls under way at a time
  MaxCalls          \* bound: calls the users make

Screens == Details \cup Deliveries

STATUS_WORKFLOW ==
  <<"draft", "avance_payer", "process_achat", "transport_vers_mada",
    "recue_a_mada", "en_livraison", "payer_recue">>

Statuses == ToSet(STATUS_WORKFLOW) \cup {"annuler"}

ASSUME CommandeScreensAssumption ==
  /\ Details \cap Deliveries = {}
  /\ Admins \subseteq Screens /\ Editors \subseteq Screens
  /\ InitialStatus \in Statuses
  /\ InitialQuantity \in [Lines -> Nat]
  /\ Slots \in Nat /\ MaxCalls \in Nat

VARIABLES
  status, quantity,        \* the order in the database
  order,                   \* order[s]: the order as screen s shows it
  loading, saving,         \* flags of each screen
  transferring,
  selected,                \* selectedCartNids of each screen
  transferQuantities,      \* quantities chosen, zero for none
  call,                    \* the calls under way
  made,                    \* number of calls the users have made
  version,                 \* history: saves of the order and its lines
  written,                 \* history: version of the last save s was told of
  tidy,                    \* history: no two loads of s have overlapped
  crossed                  \* history: a status was saved during a transfer

database == <<status, quantity>>
flags == <<loading, saving, transferring>>
choice == <<selected, transferQuantities>>
vars == <<database, order, flags, choice, call, made, version, written,
          tidy, crossed>>
history == <<version, written, tidy, crossed>>

Numbers == 1..Slots

Kinds == {"load", "status", "transfer"}
Stages == {"none", "sent", "running", "done", "refused", "failed"}

Nothing == [l \in Lines |-> 0]

View == [status : Statuses \cup {"none"}, quantity : [Lines -> Nat],
         asOf : Nat]

\* order.value before a load, after a failed one, or a row that was removed.
NoView == [status |-> "none"]

\* A call: the field and value to save or the pieces to transfer, the version
\* shown when it was sent, then the copy a transfer has read or the answer.
\* A load is `alone' if no other call that it could overtake was under way.
\* `then' is the call whose flag a load clears when it ends.
Unsent == [stage |-> "none", screen |-> CHOOSE s \in Screens : TRUE,
           kind |-> "load", then |-> "load", to |-> "none", ask |-> Nothing,
           asOf |-> 0, read |-> NoView, moved |-> {}, alone |-> TRUE]

Stored == [status |-> status, quantity |-> quantity, asOf |-> version]

\* The order has just been opened in each of the screens.
Init ==
  /\ status = InitialStatus /\ quantity = InitialQuantity
  /\ order = [s \in Screens |->
       IF s \in Deliveries /\ InitialStatus # "en_livraison" THEN NoView
       ELSE [status |-> InitialStatus, quantity |-> InitialQuantity,
             asOf |-> 0]]
  /\ loading = [s \in Screens |-> FALSE]
  /\ saving = [s \in Screens |-> FALSE]
  /\ transferring = [s \in Screens |-> FALSE]
  /\ selected = [s \in Screens |-> {}]
  /\ transferQuantities = [s \in Screens |-> IF s \in Details THEN InitialQuantity
                                             ELSE Nothing]
  /\ call = [k \in Numbers |-> Unsent]
  /\ made = 0
  /\ version = 0
  /\ written = [s \in Screens |-> 0]
  /\ tidy = [s \in Screens |-> TRUE]
  /\ crossed = FALSE

-----------------------------------------------------------------------------
(* orderCommandeShared.js                                                  *)

workflowIndex(s) == SelectInSeq(STATUS_WORKFLOW, LAMBDA t : t = s)

\* A mutant: steps of the workflow may be skipped.
AnyStepForward(current, next) ==
  \/ next \in {"annuler", "en_livraison"} /\ current # next
  \/ workflowIndex(next) > workflowIndex(current)

isStatusTransitionAllowed(current, next) ==
  CASE next = "annuler"      -> current # "annuler"
    [] next = "en_livraison" -> current \notin {"en_livraison", "annuler"}
    [] OTHER -> /\ workflowIndex(current) > 0
                /\ workflowIndex(next) = workflowIndex(current) + 1

canApplyStatusTransition(current, next, isAdmin) ==
  CASE next = "draft"       -> isAdmin /\ current # "draft"
    [] next = "payer_recue" -> isAdmin /\ isStatusTransitionAllowed(current, next)
    [] OTHER                -> isStatusTransitionAllowed(current, next)

-----------------------------------------------------------------------------
(* Calls.                                                                  *)

Unused == {k \in Numbers : call[k].stage = "none"}
Free == CHOOSE k \in Unused : TRUE

Under(s, kind) ==
  {k \in Numbers : /\ call[k].screen = s /\ call[k].kind = kind
                   /\ call[k].stage # "none"}

\* A call to load the order, or the list of deliveries; its answer is used
\* whenever it comes.
Load(s, then) ==
  [Unsent EXCEPT !.stage = "sent", !.screen = s, !.then = then,
                 !.alone = Under(s, "load") = {}
                           /\ (s \in Deliveries => Under(s, "status") = {})]

\* The calls once s makes another one that their answers could overtake.
Overlapped(s) ==
  [k \in Numbers |->
     IF k \in Under(s, "load") THEN [call[k] EXCEPT !.alone = FALSE] ELSE call[k]]

Send(s, kind, to, ask) ==
  /\ Unused # {} /\ made < MaxCalls
  /\ made' = made + 1
  /\ call' = [IF s \in Deliveries THEN Overlapped(s) ELSE call EXCEPT ![Free] =
       [Unsent EXCEPT !.stage = "sent", !.screen = s, !.kind = kind, !.to = to,
                      !.ask = ask, !.asOf = order[s].asOf]]

Close(k) == call' = [call EXCEPT ![k] = Unsent]

\* loadOrder up to its await: what the user has selected is dropped.  The list
\* of deliveries has nothing of the kind.
StartLoad(s) ==
  /\ loading' = [loading EXCEPT ![s] = TRUE]
  /\ selected' = [selected EXCEPT ![s] = {}]
  /\ transferQuantities' = [transferQuantities EXCEPT ![s] = Nothing]
  /\ tidy' = [tidy EXCEPT ![s] = @ /\ Under(s, "load") = {}]

\* onMounted, and the button of the header, which a load disables; the search
\* in a list of deliveries looks at no flag.
LoadOrder(s) ==
  /\ ~loading[s] \/ s \in Deliveries
  /\ Unused # {} /\ made < MaxCalls
  /\ made' = made + 1
  /\ call' = [Overlapped(s) EXCEPT ![Free] = Load(s, "load")]
  /\ StartLoad(s)
  /\ UNCHANGED <<database, order, saving, transferring, version,
                 written, crossed>>

\* The call k has been answered and the screen goes on to loadOrder.
ThenLoad(k, s) ==
  /\ call' = [Overlapped(s) EXCEPT ![k] = Load(s, call[k].kind)]
  /\ StartLoad(s)

-----------------------------------------------------------------------------
(* What the user does: every control is guarded by the order shown and by  *)
(* one flag.                                                               *)

Shown(s) == order[s] # NoView

ApplyStatus(s, next) ==
  /\ s \in Details /\ Shown(s) /\ ~saving[s]
  /\ order[s].status \in ToSet(STATUS_WORKFLOW)    \* showMainOrderWorkflow
  /\ canApplyStatusTransition(order[s].status, next, s \in Admins)
  /\ next # order[s].status
  /\ Send(s, "status", next, Nothing)
  /\ saving' = [saving EXCEPT ![s] = TRUE]
  /\ UNCHANGED <<database, order, loading, transferring, choice,
                 history>>

\* markStatus: the buttons of a delivery, the first for administrators.
MarkStatus(s, next) ==
  /\ s \in Deliveries /\ Shown(s) /\ ~saving[s]
  /\ s \in Admins \cup Editors
  /\ next \in {"payer_recue", "annuler"}
  /\ canApplyStatusTransition(order[s].status, next, s \in Admins)
  /\ Send(s, "status", next, Nothing)
  /\ saving' = [saving EXCEPT ![s] = TRUE]
  /\ tidy' = [tidy EXCEPT ![s] = @ /\ Under(s, "load") = {}]
  /\ UNCHANGED <<database, order, loading, transferring, choice,
                 version, written, crossed>>

\* canTransferToBoutique
CanTransfer(s) ==
  /\ s \in Details /\ Shown(s)
  /\ order[s].status # "annuler"
  /\ s \in Admins \cup Editors

\* isLineTransferable, of the lines shown
Transferable(s) == {l \in Lines : Shown(s) /\ order[s].quantity[l] > 0}

getTransferQty(s, l) ==
  IF transferQuantities[s][l] > 0 THEN transferQuantities[s][l]
  ELSE order[s].quantity[l]

\* toggleLineSelection; selectAllTransferableLines is several of these.
ToggleLine(s, l) ==
  /\ CanTransfer(s) /\ l \in Transferable(s)
  /\ IF l \in selected[s]
     THEN /\ selected' = [selected EXCEPT ![s] = @ \ {l}]
          /\ UNCHANGED transferQuantities
     ELSE /\ selected' = [selected EXCEPT ![s] = @ \cup {l}]
          /\ transferQuantities' = [transferQuantities EXCEPT ![s][l] = getTransferQty(s, l)]
  /\ UNCHANGED <<database, order, flags, call, made, history>>

\* The field of a line takes what is typed, between one and what is shown.
SetTransferQty(s, l) ==
  /\ CanTransfer(s) /\ l \in Transferable(s)
  /\ \E n \in 1..order[s].quantity[l] :
       transferQuantities' = [transferQuantities EXCEPT ![s][l] = n]
  /\ UNCHANGED <<database, order, flags, selected, call, made, history>>

\* A selected line that is not shown any more is sent with the quantity one.
Asked(s) ==
  [l \in Lines |-> IF l \notin selected[s] THEN 0
                   ELSE IF l \in Transferable(s) THEN getTransferQty(s, l)
                   ELSE 1]

TransferSelected(s) ==
  /\ CanTransfer(s) /\ ~transferring[s]
  /\ selected[s] # {}
  /\ Send(s, "transfer", "none", Asked(s))
  /\ transferring' = [transferring EXCEPT ![s] = TRUE]
  /\ UNCHANGED <<database, order, loading, saving, choice,
                 history>>

-----------------------------------------------------------------------------
(* The server.                                                             *)

Running == {k \in Numbers : call[k].stage = "running"}

\* A list of deliveries shows the order while it is in delivery.
HandleLoad(k) ==
  /\ call[k].stage = "sent" /\ call[k].kind = "load"
  /\ call' = [call EXCEPT ![k].stage = "done", ![k].read =
       IF call[k].screen \in Deliveries /\ status # "en_livraison" THEN NoView
       ELSE Stored]
  /\ UNCHANGED <<made, database, order, flags, choice,
                 history>>

\* The generic save sets the field it is given.
HandleSave(k) ==
  /\ call[k].stage = "sent" /\ call[k].kind = "status"
  /\ status' = call[k].to
  /\ version' = version + 1
  /\ crossed' = (crossed \/ Running # {})
  /\ call' = [call EXCEPT ![k].stage = "done", ![k].read = [Stored EXCEPT !.asOf = version']]
  /\ UNCHANGED <<made, quantity, order, flags, choice, written, tidy>>

\* A mutant: the status of the order is not looked at.
AnyOrder == TRUE

\* A cancelled order is refused.
MayTransfer == status # "annuler"

\* transferCartLinesToBoutique up to its loop
BeginTransfer(k) ==
  /\ call[k].stage = "sent" /\ call[k].kind = "transfer"
  /\ call' = [call EXCEPT ![k].stage = IF MayTransfer THEN "running" ELSE "refused",
                          ![k].read = Stored]
  /\ UNCHANGED <<made, database, order, flags, choice,
                 history>>

Enough(k, l) == call[k].ask[l] \in 1..quantity[l]

\* A line of the request; the others are refused one by one.
TransferLine(k, l) ==
  /\ call[k].stage = "running" /\ l \notin call[k].moved
  /\ Enough(k, l)
  /\ quantity' = [quantity EXCEPT ![l] = @ - call[k].ask[l]]
  /\ version' = version + 1
  /\ call' = [call EXCEPT ![k].moved = @ \cup {l}]
  /\ UNCHANGED <<made, status, order, flags, choice, written, tidy, crossed>>

\* The order is saved with every field as it was read at the beginning.
EndTransfer(k) ==
  /\ call[k].stage = "running"
  /\ \A l \in Lines \ call[k].moved : ~Enough(k, l)
  /\ IF call[k].moved = {}
     THEN /\ call' = [call EXCEPT ![k].stage = "refused"]
          /\ UNCHANGED <<status, version>>
     ELSE /\ status' = call[k].read.status
          /\ version' = version + 1
          /\ call' = [call EXCEPT ![k].stage = "done", ![k].read.asOf = version']
  /\ UNCHANGED <<made, quantity, order, flags, choice, written, tidy, crossed>>

\* The network loses a request, or the answer of one that was handled; the
\* process of a transfer is killed.
Lose(k) ==
  /\ call[k].stage \in {"sent", "running", "done"}
  /\ call' = [call EXCEPT ![k].stage = "failed"]
  /\ UNCHANGED <<made, database, order, flags, choice,
                 history>>

-----------------------------------------------------------------------------
(* Answers.                                                                *)

\* { ...order.value, status: nextStatus }, even where order.value is null.
Patched(k, s) ==
  LET base  == IF Shown(s) THEN order[s]
               ELSE [status |-> "none", quantity |-> Nothing, asOf |-> 0]
      saved == call[k].read.asOf
  IN [base EXCEPT !.status = call[k].to, !.asOf = IF saved = @ + 1 THEN saved ELSE @]

\* A mutant: quantities are filled in where there is none, and kept otherwise.
FilledIn(s, view) ==
  [l \in Lines |->
     IF transferQuantities[s][l] = 0 THEN view.quantity[l] ELSE transferQuantities[s][l]]

\* syncTransferQuantitiesFromOrder
Synced(s, view) ==
  [l \in Lines |->
     LET shown == view.quantity[l]  chosen == transferQuantities[s][l] IN
     IF shown > 0 /\ (chosen = 0 \/ chosen > shown) THEN shown ELSE chosen]

\* A mutant: the end of any load clears all flags.
EndsAll(k, kind) == TRUE

\* Is the load k the last part of a call of this kind?
Ends(k, kind) == call[k].then = kind

\* The flag of the call a load was part of is cleared when the load ends.
AfterLoad(k, s) ==
  /\ loading' = [loading EXCEPT ![s] = FALSE]
  /\ saving' = [saving EXCEPT ![s] = @ /\ ~Ends(k, "status")]
  /\ transferring' = [transferring EXCEPT ![s] = @ /\ ~Ends(k, "transfer")]
  /\ Close(k)
  /\ UNCHANGED <<made, database, selected, version, written, crossed>>

ReceiveLoad(k) ==
  LET s == call[k].screen  view == call[k].read IN
  /\ call[k].stage = "done" /\ call[k].kind = "load"
  /\ order' = [order EXCEPT ![s] = view]
  /\ transferQuantities' = IF view = NoView THEN transferQuantities
                           ELSE [transferQuantities EXCEPT ![s] = Synced(s, view)]
  /\ tidy' = [tidy EXCEPT ![s] = call[k].alone]
  /\ AfterLoad(k, s)

LoadFails(k) ==
  LET s == call[k].screen IN
  /\ call[k].stage = "failed" /\ call[k].kind = "load"
  /\ order' = [order EXCEPT ![s] = NoView]
  /\ AfterLoad(k, s)
  /\ UNCHANGED <<transferQuantities, tidy>>

Told(k, s) == written' = [written EXCEPT ![s] = call[k].read.asOf]

\* applyStatus goes on to load the order; markStatus removes the row.
ReceiveStatus(k) ==
  LET s == call[k].screen IN
  /\ call[k].stage = "done" /\ call[k].kind = "status"
  /\ Told(k, s)
  /\ IF s \in Details
     THEN /\ order' = [order EXCEPT ![s] = Patched(k, s)]
          /\ ThenLoad(k, s)
          /\ UNCHANGED saving
     ELSE /\ order' = [order EXCEPT ![s] = NoView]
          /\ saving' = [saving EXCEPT ![s] = FALSE]
          /\ Close(k)
          /\ UNCHANGED <<loading, choice, tidy>>
  /\ UNCHANGED <<made, database, transferring, version, crossed>>

ReceiveTransfer(k) ==
  LET s == call[k].screen IN
  /\ call[k].stage = "done" /\ call[k].kind = "transfer"
  /\ Told(k, s)
  /\ ThenLoad(k, s)
  /\ UNCHANGED <<made, database, order, saving, transferring, version, crossed>>

\* An error is shown, and the flag of the call is cleared.
CallFails(k) ==
  LET s == call[k].screen IN
  /\ call[k].stage \in {"failed", "refused"} /\ call[k].kind # "load"
  /\ saving' = [saving EXCEPT ![s] = @ /\ call[k].kind # "status"]
  /\ transferring' = [transferring EXCEPT ![s] = @ /\ call[k].kind # "transfer"]
  /\ Close(k)
  /\ UNCHANGED <<made, database, order, loading, choice,
                 history>>

-----------------------------------------------------------------------------

User(s) ==
  \/ LoadOrder(s)
  \/ \E next \in Statuses : ApplyStatus(s, next) \/ MarkStatus(s, next)
  \/ \E l \in Lines : ToggleLine(s, l) \/ SetTransferQty(s, l)
  \/ TransferSelected(s)

Handle(k) ==
  \/ HandleLoad(k) \/ HandleSave(k) \/ BeginTransfer(k) \/ EndTransfer(k)
  \/ \E l \in Lines : TransferLine(k, l)

Receive(k) ==
  \/ ReceiveLoad(k) \/ LoadFails(k) \/ ReceiveStatus(k)
  \/ ReceiveTransfer(k) \/ CallFails(k)

Next ==
  \/ \E s \in Screens : User(s)
  \/ \E k \in Numbers : Handle(k) \/ Lose(k) \/ Receive(k)

Spec == Init /\ [][Next]_vars

-----------------------------------------------------------------------------
(* Properties.                                                             *)

\* The order, the screens and the calls stay well formed.
ScreensTypeOK ==
  /\ status \in Statuses
  /\ quantity \in [Lines -> Nat]
  /\ order \in [Screens -> View \cup {NoView}]
  /\ \A f \in {loading, saving, transferring, tidy} :
       f \in [Screens -> BOOLEAN]
  /\ selected \in [Screens -> SUBSET Lines]
  /\ transferQuantities \in [Screens -> [Lines -> Nat]]
  /\ \A k \in Numbers : call[k].stage \in Stages /\ call[k].kind \in Kinds
  /\ made \in 0..MaxCalls /\ version \in Nat /\ written \in [Screens -> Nat]
  /\ crossed \in BOOLEAN

\* The workflow the team describes: one step further, into delivery from
\* anywhere, back to the draft, out by a cancellation; and nothing after one.
WorkflowStep(from, next) ==
  /\ from # "annuler"
  /\ \/ next \in {"annuler", "en_livraison", "draft"}
     \/ \E i \in 1..Len(STATUS_WORKFLOW) - 1 :
          from = STATUS_WORKFLOW[i] /\ next = STATUS_WORKFLOW[i + 1]

\* The order only takes steps of the workflow, although no server checks it:
\* except where a screen acts on a view that another save has made old, or
\* where a transfer saves the order over a field saved meanwhile.
WorkflowFollowed ==
  [][status' # status =>
       \/ WorkflowStep(status, status')
       \/ \E k \in Numbers :
            /\ call[k].stage = "sent" /\ call'[k].stage = "done"
            /\ call[k].asOf < version
       \/ crossed /\ \E k \in Running : call'[k].stage = "done"]_vars

\* No piece of a cancelled order goes to the shop, even for a screen that has
\* not heard of the cancellation: except in a transfer that had begun.
CancelledStaysHere ==
  [][status = "annuler" /\ ~crossed => quantity' = quantity]_vars

\* When a screen lets its user go on after a save or a transfer, it shows the
\* order as that save left it, or later: the next status, or the quantities of
\* the next transfer, are not chosen on what the screen itself has changed.
\* Two loads that overlap can be received in the wrong order.
ReadsOwnWrites ==
  \A s \in Screens :
    Shown(s) /\ order[s].status # "none" /\ tidy[s] /\ ~saving[s] /\ ~transferring[s] =>
      order[s].asOf >= written[s]

\* What a transfer would ask for is never more than the line has on the screen,
\* also when the line has lost pieces between the choice and the transfer.
AsksNoMoreThanShown ==
  \A s \in Screens : Shown(s) =>
    \A l \in Transferable(s) : Asked(s)[l] <= order[s].quantity[l]

\* A flag is set only as long as a call that will clear it is under way, so
\* that no control stays disabled; and a screen has one change of status and
\* one transfer under way at most, the load that follows it included.
ChangeUnder(s, kind) ==
  {k \in Numbers : /\ call[k].stage # "none" /\ call[k].screen = s
                   /\ kind \in {call[k].kind, call[k].then}}

FlagsHeld ==
  \A s \in Screens :
    /\ loading[s] => Under(s, "load") # {}
    /\ Cardinality(ChangeUnder(s, "status")) = IF saving[s] THEN 1 ELSE 0
    /\ Cardinality(ChangeUnder(s, "transfer")) = IF transferring[s] THEN 1 ELSE 0
=============================================================================
