------------------------- MODULE CommandeScreens_proofs -------------------------
(* Theorems about CommandeScreens, for any number of screens, lines and    *)
(* calls, and any order they are open on.                                  *)
EXTENDS CommandeScreens, FiniteSetTheorems, TLAPS

\* The screen of a call that was never made is any one.
AnyScreen == CHOOSE s \in Screens : TRUE

Call == [stage : Stages, screen : Screens \cup {AnyScreen}, kind : Kinds, then : Kinds,
         to : Statuses \cup {"none"}, ask : [Lines -> Nat], asOf : Nat,
         read : View \cup {NoView}, moved : SUBSET Lines, alone : BOOLEAN]

\* A call that was made has its screen, a save has its status, and what a save
\* or a transfer answers has the version it left.
CallOK(c) ==
  c.stage # "none" =>
    /\ c.screen \in Screens
    /\ c.kind = "status" => c.to \in Statuses
    /\ c.kind # "load" => c.then = "load"
    /\ c.kind # "load" /\ c.stage \in {"running", "done"} => c.read \in View
    /\ c.stage = "running" => c.kind = "transfer" /\ c.read.status \in Statuses

Typed ==
  /\ status \in Statuses /\ quantity \in [Lines -> Nat]
  /\ order \in [Screens -> View \cup {NoView}]
  /\ loading \in [Screens -> BOOLEAN] /\ saving \in [Screens -> BOOLEAN]
  /\ transferring \in [Screens -> BOOLEAN] /\ tidy \in [Screens -> BOOLEAN]
  /\ selected \in [Screens -> SUBSET Lines]
  /\ transferQuantities \in [Screens -> [Lines -> Nat]]
  /\ call \in [Numbers -> Call]
  /\ made \in 0..MaxCalls /\ version \in Nat /\ written \in [Screens -> Nat]
  /\ crossed \in BOOLEAN

\* Nothing is chosen beyond what is shown.
Chosen(s) ==
  order[s] \in View =>
    \A l \in Lines : order[s].quantity[l] > 0 =>
      transferQuantities[s][l] <= order[s].quantity[l]

\* A transfer that runs has not been crossed began on an order not cancelled,
\* and none runs after a cancellation unless it was crossed.
Uncrossed ==
  ~crossed => /\ \A k \in Running : call[k].read.status # "annuler"
              /\ status = "annuler" => Running = {}

\* A flag is set for one call, which holds it.
Holds(s, kind, flag) ==
  IF flag THEN \E k \in Numbers : ChangeUnder(s, kind) = {k}
          ELSE ChangeUnder(s, kind) = {}

Held(s) ==
  /\ loading[s] => Under(s, "load") # {}
  /\ Holds(s, "status", saving[s])
  /\ Holds(s, "transfer", transferring[s])

Inv ==
  /\ Typed
  /\ \A k \in Numbers : CallOK(call[k])
  /\ \A s \in Screens : Chosen(s)
  /\ Uncrossed
  /\ \A s \in Screens : Held(s)

-----------------------------------------------------------------------------
(* The operators.                                                          *)

LEMMA Statuses8 ==
  Statuses = {"draft", "avance_payer", "process_achat", "transport_vers_mada",
              "recue_a_mada", "en_livraison", "payer_recue", "annuler"}
BY DEF Statuses, STATUS_WORKFLOW, ToSet

LEMMA StoredView == ASSUME Typed PROVE Stored \in View
BY DEF Typed, Stored, View

LEMMA ShownView == ASSUME Typed, NEW s \in Screens, Shown(s) PROVE order[s] \in View
BY DEF Typed, Shown

LEMMA UnsentCall == Unsent \in Call /\ Unsent.stage = "none"
<1>1. NoView \in View \cup {NoView}
  OBVIOUS
<1> HIDE DEF NoView
<1> QED BY <1>1 DEF Unsent, Call, AnyScreen, Stages, Kinds, Nothing

LEMMA FreeUnused == ASSUME Unused # {} PROVE Free \in Numbers /\ call[Free].stage = "none"
BY DEF Free, Unused

\* A load that is sent for s.
LEMMA LoadCall ==
  ASSUME NEW s \in Screens, NEW kind \in Kinds
  PROVE  /\ Load(s, kind) \in Call /\ CallOK(Load(s, kind))
         /\ Load(s, kind).stage = "sent" /\ Load(s, kind).screen = s
         /\ Load(s, kind).kind = "load" /\ Load(s, kind).then = kind
<1> DEFINE alone == Under(s, "load") = {} /\ (s \in Deliveries => Under(s, "status") = {})
           c == [Unsent EXCEPT !.stage = "sent", !.screen = s, !.then = kind, !.alone = alone]
<1>1. alone \in BOOLEAN /\ Unsent \in Call /\ Unsent.kind = "load"
  BY UnsentCall DEF Unsent
<1>2. c \in Call /\ c.stage = "sent" /\ c.screen = s /\ c.kind = "load" /\ c.then = kind
  <2> HIDE DEF alone
  <2> QED BY <1>1 DEF Call, Stages
<1>3. Load(s, kind) = c
  BY DEF Load
<1> HIDE DEF c
<1> QED BY <1>2, <1>3 DEF CallOK

\* A call but for the field `alone', which another one may take from it.
SameCall(b, c) ==
  /\ b \in Call /\ b.stage = c.stage /\ b.screen = c.screen /\ b.kind = c.kind
  /\ b.then = c.then /\ b.to = c.to /\ b.ask = c.ask /\ b.asOf = c.asOf
  /\ b.read = c.read /\ b.moved = c.moved

LEMMA OverlappedCalls ==
  ASSUME Typed, NEW s \in Screens
  PROVE  /\ Overlapped(s) \in [Numbers -> Call]
         /\ \A k \in Numbers : SameCall(Overlapped(s)[k], call[k])
<1>1. ASSUME NEW k \in Numbers PROVE SameCall(Overlapped(s)[k], call[k])
  <2> DEFINE never == FALSE
             c == [call[k] EXCEPT !.alone = never]
  <2>1. call[k] \in Call /\ never \in BOOLEAN
    BY DEF Typed
  <2>2. SameCall(c, call[k])
    <3> HIDE DEF never
    <3> QED BY <2>1 DEF SameCall, Call
  <2>3. SameCall(call[k], call[k])
    BY <2>1 DEF SameCall
  <2>4. Overlapped(s)[k] = IF k \in Under(s, "load") THEN c ELSE call[k]
    BY DEF Overlapped
  <2> HIDE DEF c
  <2> QED BY <2>2, <2>3, <2>4
<1>2. \A k \in Numbers : Overlapped(s)[k] \in Call
  BY <1>1 DEF SameCall
<1>3. Overlapped(s) = [k \in Numbers |-> Overlapped(s)[k]]
  BY DEF Overlapped
<1> QED BY <1>1, <1>2, <1>3

-----------------------------------------------------------------------------
(* One call changes.                                                       *)

\* The call k is now c.
Becomes(k, c) ==
  /\ call' \in [Numbers -> Call]
  /\ SameCall(call'[k], c)
  /\ \A j \in Numbers \ {k} : SameCall(call'[j], call[j])

LEMMA Replaced ==
  ASSUME Typed, NEW k \in Numbers, NEW c \in Call, call' = [call EXCEPT ![k] = c]
  PROVE  Becomes(k, c)
BY DEF Typed, Becomes, SameCall

LEMMA ReplacedOverlapped ==
  ASSUME Typed, NEW s \in Screens, NEW k \in Numbers, NEW c \in Call,
         call' = [Overlapped(s) EXCEPT ![k] = c]
  PROVE  Becomes(k, c)
BY OverlappedCalls DEF Becomes, SameCall

LEMMA CallsKept ==
  ASSUME Inv, NEW k \in Numbers, NEW c, CallOK(c), Becomes(k, c)
  PROVE  \A j \in Numbers : CallOK(call'[j])
BY DEF Inv, Becomes, SameCall, CallOK

LEMMA UnderBecomes ==
  ASSUME NEW k \in Numbers, NEW c, Becomes(k, c), NEW s, NEW kind
  PROVE  /\ Under(s, kind)' = (Under(s, kind) \ {k})
              \cup (IF c.stage # "none" /\ c.screen = s /\ c.kind = kind THEN {k} ELSE {})
         /\ ChangeUnder(s, kind)' = (ChangeUnder(s, kind) \ {k})
              \cup (IF c.stage # "none" /\ c.screen = s /\ kind \in {c.kind, c.then}
                    THEN {k} ELSE {})
BY DEF Becomes, SameCall, Under, ChangeUnder

LEMMA UnderSame ==
  ASSUME NEW k \in Numbers, NEW c, Becomes(k, c), NEW s, NEW kind
  PROVE  /\ k \notin Under(s, kind) /\ ~(c.stage # "none" /\ c.screen = s /\ c.kind = kind) =>
              Under(s, kind)' = Under(s, kind)
         /\ k \notin ChangeUnder(s, kind)
              /\ ~(c.stage # "none" /\ c.screen = s /\ kind \in {c.kind, c.then}) =>
              ChangeUnder(s, kind)' = ChangeUnder(s, kind)
BY UnderBecomes

LEMMA RunningBecomes ==
  ASSUME NEW k \in Numbers, NEW c, Becomes(k, c)
  PROVE  /\ Running' = (Running \ {k}) \cup (IF c.stage = "running" THEN {k} ELSE {})
         /\ call'[k].read = c.read
         /\ \A j \in Running \ {k} : call'[j].read = call[j].read
BY DEF Becomes, SameCall, Running

\* While no transfer begins, and the status is kept.
LEMMA StaysUncrossed ==
  ASSUME Inv, NEW k \in Numbers, NEW c, Becomes(k, c), c.stage # "running",
         status' = status, crossed' = crossed
  PROVE  Uncrossed'
BY RunningBecomes DEF Inv, Uncrossed

-----------------------------------------------------------------------------
(* The server.                                                             *)

\* A call is handled or lost: what screens show and hold is the same.
LEMMA HandledKeeps ==
  ASSUME Inv, NEW k \in Numbers, NEW c \in Call, CallOK(c),
         call[k].stage # "none", c.stage # "none", c.screen = call[k].screen,
         c.kind = call[k].kind, c.then = call[k].then,
         call' = [call EXCEPT ![k] = c],
         UNCHANGED <<made, order, flags, choice, written, tidy>>,
         status' \in Statuses, quantity' \in [Lines -> Nat], version' \in Nat,
         crossed' \in BOOLEAN, Uncrossed'
  PROVE  Inv'
<1>1. Becomes(k, c)
  BY Replaced DEF Inv
<1>2. Typed'
  BY <1>1 DEF Inv, Typed, Becomes, flags, choice
<1>3. \A s \in Screens : Chosen(s)'
  BY DEF Inv, Chosen, choice
<1>4. ASSUME NEW s \in Screens PROVE Held(s)'
  <2>1. ASSUME NEW kind
        PROVE  Under(s, kind)' = Under(s, kind) /\ ChangeUnder(s, kind)' = ChangeUnder(s, kind)
    BY <1>1, UnderBecomes DEF Under, ChangeUnder
  <2> QED BY <2>1 DEF Inv, Held, Holds, flags
<1> QED BY <1>1, <1>2, <1>3, <1>4, CallsKept DEF Inv

LEMMA HandleLoadKeeps ==
  ASSUME Inv, NEW k \in Numbers, HandleLoad(k)
  PROVE  Inv'
<1> DEFINE view == IF call[k].screen \in Deliveries /\ status # "en_livraison"
                   THEN NoView ELSE Stored
           c == [call[k] EXCEPT !.stage = "done", !.read = view]
<1>1. view \in View \cup {NoView}
  BY StoredView DEF Inv
<1>2. /\ call[k].stage = "sent" /\ call[k].kind = "load" /\ call' = [call EXCEPT ![k] = c]
      /\ UNCHANGED <<made, database, order, flags, choice, history>>
  BY DEF HandleLoad
<1>3. call[k] \in Call /\ CallOK(call[k])
  BY DEF Inv, Typed
<1>4. /\ c \in Call /\ c.stage = "done" /\ c.screen = call[k].screen
      /\ c.kind = call[k].kind /\ c.then = call[k].then /\ c.to = call[k].to
  <2> HIDE DEF view
  <2> QED BY <1>1, <1>3 DEF Call, Stages
<1> HIDE DEF c
<1>5. CallOK(c)
  BY <1>2, <1>3, <1>4 DEF CallOK
<1>6. Uncrossed'
  BY <1>2, <1>4, Replaced, StaysUncrossed DEF Inv, database, history
<1> QED BY <1>2, <1>4, <1>5, <1>6, HandledKeeps DEF Inv, Typed, database, history

LEMMA HandleSaveKeeps ==
  ASSUME Inv, NEW k \in Numbers, HandleSave(k)
  PROVE  Inv'
<1> DEFINE view == [Stored EXCEPT !.asOf = version']
           c == [call[k] EXCEPT !.stage = "done", !.read = view]
<1>1. /\ call[k].stage = "sent" /\ call[k].kind = "status" /\ call' = [call EXCEPT ![k] = c]
      /\ status' = call[k].to /\ version' = version + 1
      /\ crossed' = (crossed \/ Running # {})
      /\ UNCHANGED <<made, quantity, order, flags, choice, written, tidy>>
  BY DEF HandleSave
<1>2. version' \in Nat /\ view \in View
  <2>1. version' \in Nat
    BY <1>1 DEF Inv, Typed
  <2>2. Stored \in View
    BY StoredView DEF Inv
  <2> QED BY <2>1, <2>2 DEF View
<1>3. call[k] \in Call /\ CallOK(call[k])
  BY DEF Inv, Typed
<1>4. /\ c \in Call /\ c.stage = "done" /\ c.screen = call[k].screen /\ c.read = view
      /\ c.kind = call[k].kind /\ c.then = call[k].then /\ c.to = call[k].to
  <2> HIDE DEF view
  <2> QED BY <1>2, <1>3 DEF Call, Stages
<1> HIDE DEF c, view
<1>5. CallOK(c) /\ status' \in Statuses
  BY <1>1, <1>2, <1>3, <1>4 DEF CallOK
<1>6. Uncrossed'
  <2>1. k \notin Running
    BY <1>1 DEF Running
  <2>2. Becomes(k, c)
    BY <1>1, <1>4, Replaced DEF Inv
  <2>3. Running' = Running
    BY <1>4, <2>1, <2>2, RunningBecomes
  <2> QED BY <1>1, <2>3 DEF Uncrossed
<1>7. crossed' \in BOOLEAN /\ quantity' \in [Lines -> Nat]
  BY <1>1 DEF Inv, Typed
<1> QED BY <1>1, <1>2, <1>4, <1>5, <1>6, <1>7, HandledKeeps

LEMMA BeginTransferKeeps ==
  ASSUME Inv, NEW k \in Numbers, BeginTransfer(k)
  PROVE  Inv'
<1> DEFINE stage == IF MayTransfer THEN "running" ELSE "refused"
           view == Stored
           c == [call[k] EXCEPT !.stage = stage, !.read = view]
<1>1. /\ call[k].stage = "sent" /\ call[k].kind = "transfer"
      /\ call' = [call EXCEPT ![k] = c]
      /\ UNCHANGED <<made, database, order, flags, choice, history>>
  BY DEF BeginTransfer
<1>2. /\ view \in View /\ view.status = status /\ stage \in {"running", "refused"}
      /\ (stage = "running" => status # "annuler") /\ status \in Statuses
  BY StoredView DEF Inv, Typed, Stored, MayTransfer
<1>3. call[k] \in Call /\ CallOK(call[k])
  BY DEF Inv, Typed
<1>4. /\ c \in Call /\ c.stage = stage /\ c.screen = call[k].screen /\ c.read = view
      /\ c.kind = call[k].kind /\ c.then = call[k].then /\ c.to = call[k].to
  <2> HIDE DEF view, stage
  <2> QED BY <1>2, <1>3 DEF Call, Stages
<1> HIDE DEF c, view, stage
<1>5. CallOK(c)
  BY <1>1, <1>2, <1>3, <1>4 DEF CallOK
<1>6. Uncrossed'
  <2>1. Becomes(k, c)
    BY <1>1, <1>4, Replaced DEF Inv
  <2> QED BY <1>1, <1>2, <1>4, <2>1, RunningBecomes DEF Inv, Uncrossed, database, history
<1> QED BY <1>1, <1>2, <1>4, <1>5, <1>6, HandledKeeps DEF Inv, Typed, database, history

LEMMA TransferLineKeeps ==
  ASSUME Inv, NEW k \in Numbers, NEW l \in Lines, TransferLine(k, l)
  PROVE  Inv'
<1> DEFINE c == [call[k] EXCEPT !.moved = @ \cup {l}]
<1>1. /\ call[k].stage = "running" /\ call' = [call EXCEPT ![k] = c]
      /\ call[k].ask[l] \in 1..quantity[l]
      /\ quantity' = [quantity EXCEPT ![l] = @ - call[k].ask[l]]
      /\ version' = version + 1
      /\ UNCHANGED <<made, status, order, flags, choice, written, tidy, crossed>>
  BY DEF TransferLine, Enough
<1>2. call[k] \in Call /\ CallOK(call[k])
  BY DEF Inv, Typed
<1>3. quantity' \in [Lines -> Nat] /\ version' \in Nat
  <2>1. quantity[l] \in Nat /\ call[k].ask[l] \in Nat
    BY <1>2 DEF Inv, Typed, Call
  <2>2. quantity[l] - call[k].ask[l] \in Nat
    BY <1>1, <2>1
  <2> QED BY <1>1, <2>2 DEF Inv, Typed
<1>4. /\ c \in Call /\ c.stage = call[k].stage /\ c.screen = call[k].screen
      /\ c.read = call[k].read /\ c.kind = call[k].kind /\ c.then = call[k].then
      /\ c.to = call[k].to
  BY <1>2 DEF Call
<1> HIDE DEF c
<1>5. CallOK(c)
  BY <1>2, <1>4 DEF CallOK
<1>6. Uncrossed'
  <2>1. Becomes(k, c) /\ k \in Running
    BY <1>1, <1>4, Replaced DEF Inv, Running
  <2> QED BY <1>1, <1>4, <2>1, RunningBecomes DEF Inv, Uncrossed
<1> QED BY <1>1, <1>3, <1>4, <1>5, <1>6, HandledKeeps DEF Inv, Typed

LEMMA EndTransferKeeps ==
  ASSUME Inv, NEW k \in Numbers, EndTransfer(k)
  PROVE  Inv'
<1>1. call[k].stage = "running" /\ k \in Running
      /\ UNCHANGED <<made, quantity, order, flags, choice, written, tidy, crossed>>
  BY DEF EndTransfer, Running
<1>2. call[k] \in Call /\ CallOK(call[k]) /\ call[k].read \in View /\ call[k].kind = "transfer"
  BY <1>1 DEF Inv, Typed, CallOK
<1>3. CASE call[k].moved = {}
  <2> DEFINE c == [call[k] EXCEPT !.stage = "refused"]
  <2>1. call' = [call EXCEPT ![k] = c] /\ status' = status /\ version' = version
    BY <1>3 DEF EndTransfer
  <2>2. /\ c \in Call /\ c.stage = "refused" /\ c.screen = call[k].screen
        /\ c.kind = call[k].kind /\ c.then = call[k].then /\ c.to = call[k].to
    BY <1>2 DEF Call, Stages
  <2> HIDE DEF c
  <2>3. CallOK(c)
    BY <1>1, <1>2, <2>2 DEF CallOK
  <2>4. Uncrossed'
    BY <1>1, <2>1, <2>2, Replaced, StaysUncrossed DEF Inv
  <2> QED BY <1>1, <2>1, <2>2, <2>3, <2>4, HandledKeeps DEF Inv, Typed
<1>4. CASE call[k].moved # {}
  <2> DEFINE view == [call[k].read EXCEPT !.asOf = version']
             c == [call[k] EXCEPT !.stage = "done", !.read = view]
  <2>0. /\ call' = [call EXCEPT ![k].stage = "done", ![k].read.asOf = version']
        /\ status' = call[k].read.status /\ version' = version + 1
    BY <1>4 DEF EndTransfer
  <2>1. call' = [call EXCEPT ![k] = c]
    BY <2>0
  <2>2. version' \in Nat /\ status' \in Statuses /\ view \in View
    <3>1. version' \in Nat
      BY <2>0 DEF Inv, Typed
    <3>2. status' \in Statuses
      BY <1>1, <1>2, <2>0 DEF CallOK
    <3> QED BY <1>2, <3>1, <3>2 DEF View
  <2>3. /\ c \in Call /\ c.stage = "done" /\ c.screen = call[k].screen /\ c.read = view
        /\ c.kind = call[k].kind /\ c.then = call[k].then /\ c.to = call[k].to
    <3> HIDE DEF view
    <3> QED BY <1>2, <2>2 DEF Call, Stages
  <2> HIDE DEF c, view
  <2>4. CallOK(c)
    BY <1>1, <1>2, <2>2, <2>3 DEF CallOK
  <2>5. Uncrossed'
    <3>1. Becomes(k, c)
      BY <2>1, <2>3, Replaced DEF Inv
    <3>2. Running' = Running \ {k} /\ \A j \in Running' : call'[j].read = call[j].read
      BY <2>3, <3>1, RunningBecomes
    <3>3. ASSUME ~crossed' PROVE status' # "annuler"
      BY <1>1, <2>0, <3>3 DEF Inv, Uncrossed
    <3> QED BY <1>1, <3>2, <3>3 DEF Inv, Uncrossed
  <2> QED BY <1>1, <2>1, <2>2, <2>3, <2>4, <2>5, HandledKeeps DEF Inv, Typed
<1> QED BY <1>3, <1>4

LEMMA LoseKeeps ==
  ASSUME Inv, NEW k \in Numbers, Lose(k)
  PROVE  Inv'
<1> DEFINE c == [call[k] EXCEPT !.stage = "failed"]
<1>1. /\ call[k].stage \in {"sent", "running", "done"} /\ call' = [call EXCEPT ![k] = c]
      /\ UNCHANGED <<made, database, order, flags, choice, history>>
  BY DEF Lose
<1>2. call[k] \in Call /\ CallOK(call[k])
  BY DEF Inv, Typed
<1>3. /\ c \in Call /\ c.stage = "failed" /\ c.screen = call[k].screen
      /\ c.kind = call[k].kind /\ c.then = call[k].then /\ c.to = call[k].to
  BY <1>2 DEF Call, Stages
<1> HIDE DEF c
<1>4. CallOK(c)
  BY <1>1, <1>2, <1>3 DEF CallOK
<1>5. Uncrossed'
  BY <1>1, <1>3, Replaced, StaysUncrossed DEF Inv, database, history
<1> QED BY <1>1, <1>3, <1>4, <1>5, HandledKeeps DEF Inv, Typed, database, history

-----------------------------------------------------------------------------
(* The screens.                                                            *)

\* What a screen shows and holds is well formed.
ScreensTyped ==
  /\ order \in [Screens -> View \cup {NoView}]
  /\ loading \in [Screens -> BOOLEAN] /\ saving \in [Screens -> BOOLEAN]
  /\ transferring \in [Screens -> BOOLEAN] /\ tidy \in [Screens -> BOOLEAN]
  /\ selected \in [Screens -> SUBSET Lines]
  /\ transferQuantities \in [Screens -> [Lines -> Nat]]
  /\ written \in [Screens -> Nat]

\* The screen s makes, goes on with or ends the call k.
LEMMA ScreenKeeps ==
  ASSUME Inv, NEW s \in Screens, NEW k \in Numbers, NEW c, CallOK(c), Becomes(k, c),
         call[k].stage # "none" => call[k].screen = s,
         c.stage # "none" => c.screen = s,
         c.stage # "running", UNCHANGED <<database, version, crossed>>,
         made' \in 0..MaxCalls, ScreensTyped', \A t \in Screens : Chosen(t)',
         \A t \in Screens \ {s} : /\ loading'[t] = loading[t] /\ saving'[t] = saving[t]
                                  /\ transferring'[t] = transferring[t],
         Held(s)'
  PROVE  Inv'
<1>1. Typed'
  BY DEF Inv, Typed, ScreensTyped, Becomes, database
<1>2. ASSUME NEW t \in Screens, t # s PROVE Held(t)'
  <2>1. ASSUME NEW kind
        PROVE  Under(t, kind)' = Under(t, kind) /\ ChangeUnder(t, kind)' = ChangeUnder(t, kind)
    <3>1. k \notin Under(t, kind) /\ k \notin ChangeUnder(t, kind)
      BY <1>2 DEF Under, ChangeUnder
    <3> QED BY <1>2, <3>1, UnderSame
  <2> QED BY <1>2, <2>1 DEF Inv, Held, Holds
<1>3. Uncrossed'
  BY StaysUncrossed DEF database
<1> QED BY <1>1, <1>2, <1>3, CallsKept DEF Inv

LEMMA StartLoadFacts ==
  ASSUME Typed, NEW s \in Screens, StartLoad(s)
  PROVE  /\ loading' \in [Screens -> BOOLEAN] /\ tidy' \in [Screens -> BOOLEAN]
         /\ selected' \in [Screens -> SUBSET Lines]
         /\ transferQuantities' \in [Screens -> [Lines -> Nat]]
         /\ loading'[s] /\ transferQuantities'[s] = Nothing
         /\ \A t \in Screens \ {s} : /\ loading'[t] = loading[t]
                                     /\ transferQuantities'[t] = transferQuantities[t]
<1> DEFINE still == tidy[s] /\ Under(s, "load") = {}
           on == TRUE
<1>1. tidy' = [tidy EXCEPT ![s] = still] /\ loading' = [loading EXCEPT ![s] = on]
  BY DEF StartLoad
<1>2. still \in BOOLEAN /\ on \in BOOLEAN /\ Nothing \in [Lines -> Nat]
  BY DEF Nothing
<1>3. tidy' \in [Screens -> BOOLEAN] /\ loading' \in [Screens -> BOOLEAN] /\ loading'[s] = on
      /\ \A t \in Screens \ {s} : loading'[t] = loading[t]
  <2> HIDE DEF still, on
  <2> QED BY <1>1, <1>2 DEF Typed
<1>4. /\ selected' \in [Screens -> SUBSET Lines]
      /\ transferQuantities' \in [Screens -> [Lines -> Nat]]
      /\ transferQuantities'[s] = Nothing
      /\ \A t \in Screens \ {s} : transferQuantities'[t] = transferQuantities[t]
  <2> HIDE DEF still, on
  <2> QED BY <1>2 DEF Typed, StartLoad
<1> QED BY <1>3, <1>4

LEMMA LoadOrderKeeps ==
  ASSUME Inv, NEW s \in Screens, LoadOrder(s)
  PROVE  Inv'
<1>1. PICK k \in Numbers : k = Free /\ call[k].stage = "none"
  BY FreeUnused DEF LoadOrder
<1>2. PICK c \in Call : /\ c = Load(s, "load") /\ CallOK(c) /\ c.stage = "sent"
                        /\ c.screen = s /\ c.kind = "load" /\ c.then = "load"
  BY LoadCall DEF Kinds
<1>3. /\ Becomes(k, c) /\ StartLoad(s) /\ made < MaxCalls /\ made' = made + 1
      /\ UNCHANGED <<database, order, saving, transferring, version, written, crossed>>
  BY <1>1, <1>2, ReplacedOverlapped DEF LoadOrder, Inv
<1>4. made' \in 0..MaxCalls
  BY <1>3, CommandeScreensAssumption DEF Inv, Typed
<1>5. ScreensTyped'
  <2>1. Typed
    BY DEF Inv
  <2>2. /\ loading' \in [Screens -> BOOLEAN] /\ tidy' \in [Screens -> BOOLEAN]
        /\ selected' \in [Screens -> SUBSET Lines]
        /\ transferQuantities' \in [Screens -> [Lines -> Nat]]
    BY <1>3, <2>1, StartLoadFacts
  <2> QED BY <1>3, <2>1, <2>2 DEF Typed, ScreensTyped
<1>6. ASSUME NEW t \in Screens PROVE Chosen(t)'
  <2>1. Chosen(t) /\ order'[t] = order[t]
    BY <1>3 DEF Inv
  <2>2. CASE t = s
    BY <1>3, <2>1, <2>2, StartLoadFacts DEF Inv, Chosen, Nothing, View
  <2>3. CASE t # s
    BY <1>3, <2>1, <2>3, StartLoadFacts DEF Inv, Chosen
  <2> QED BY <2>2, <2>3
<1>7. Held(s)'
  <2>1. k \in Under(s, "load")'
    BY <1>2, <1>3, UnderBecomes
  <2>2. ASSUME NEW kind \in {"status", "transfer"}
        PROVE  ChangeUnder(s, kind)' = ChangeUnder(s, kind)
    <3>1. k \notin ChangeUnder(s, kind) /\ kind \notin {c.kind, c.then}
      BY <1>1, <1>2 DEF ChangeUnder
    <3> QED BY <1>3, <3>1, UnderSame
  <2> QED BY <2>1, <2>2, <1>3 DEF Inv, Held, Holds
<1> QED BY <1>1, <1>2, <1>3, <1>4, <1>5, <1>6, <1>7, StartLoadFacts, ScreenKeeps DEF Inv

\* A change of the status, or a transfer, is sent.
LEMMA SendKeeps ==
  ASSUME Inv, NEW s \in Screens, NEW kind \in {"status", "transfer"},
         NEW to \in Statuses \cup {"none"}, NEW ask \in [Lines -> Nat],
         kind = "status" => to \in Statuses,
         Shown(s), Send(s, kind, to, ask),
         IF kind = "status"
         THEN ~saving[s] /\ saving' = [saving EXCEPT ![s] = TRUE] /\ transferring' = transferring
         ELSE /\ ~transferring[s] /\ transferring' = [transferring EXCEPT ![s] = TRUE]
              /\ saving' = saving,
         tidy' \in [Screens -> BOOLEAN],
         UNCHANGED <<database, order, loading, choice, version, written, crossed>>
  PROVE  Inv'
<1> DEFINE view == order[s].asOf
           c == [Unsent EXCEPT !.stage = "sent", !.screen = s, !.kind = kind, !.to = to,
                               !.ask = ask, !.asOf = view]
<1>1. PICK k \in Numbers : k = Free /\ call[k].stage = "none"
  BY FreeUnused DEF Send
<1>2. /\ c \in Call /\ c.stage = "sent" /\ c.screen = s /\ c.kind = kind /\ c.then = "load"
      /\ c.to = to
  <2>1. view \in Nat
    BY ShownView DEF Inv, View
  <2>2. Unsent \in Call /\ Unsent.then = "load"
    BY UnsentCall DEF Unsent
  <2> HIDE DEF view
  <2> QED BY <2>1, <2>2 DEF Call, Stages, Kinds
<1>3. /\ call' = [IF s \in Deliveries THEN Overlapped(s) ELSE call EXCEPT ![k] = c]
      /\ made < MaxCalls /\ made' = made + 1
  BY <1>1 DEF Send
<1> HIDE DEF c
<1>4. Becomes(k, c)
  BY <1>2, <1>3, Replaced, ReplacedOverlapped DEF Inv
<1>5. CallOK(c)
  BY <1>2 DEF CallOK
<1>6. made' \in 0..MaxCalls
  BY <1>3, CommandeScreensAssumption DEF Inv, Typed
<1>7. ScreensTyped'
  BY DEF Inv, Typed, ScreensTyped, choice
<1>8. \A t \in Screens : Chosen(t)'
  BY DEF Inv, Chosen, choice
<1>9. Held(s)'
  <2>1. Under(s, "load")' = Under(s, "load")
    <3>1. k \notin Under(s, "load") /\ c.kind # "load"
      BY <1>1, <1>2 DEF Under
    <3> QED BY <1>4, <3>1, UnderSame
  <2>2. ChangeUnder(s, kind) = {} /\ ChangeUnder(s, kind)' = {k}
    <3>1. ChangeUnder(s, kind) = {}
      BY DEF Inv, Held, Holds
    <3> QED BY <3>1, <1>2, <1>4, UnderBecomes
  <2>3. ASSUME NEW other \in {"status", "transfer"}, other # kind
        PROVE  ChangeUnder(s, other)' = ChangeUnder(s, other)
    <3>1. k \notin ChangeUnder(s, other) /\ other \notin {c.kind, c.then}
      BY <1>1, <1>2, <2>3 DEF ChangeUnder
    <3> QED BY <1>4, <3>1, UnderSame
  <2>4. CASE kind = "status"
    <3>1. saving'[s] /\ transferring'[s] = transferring[s]
      BY <2>4 DEF Inv, Typed
    <3> QED BY <3>1, <2>1, <2>2, <2>3, <2>4 DEF Inv, Held, Holds
  <2>5. CASE kind = "transfer"
    <3>1. transferring'[s] /\ saving'[s] = saving[s]
      BY <2>5 DEF Inv, Typed
    <3> QED BY <3>1, <2>1, <2>2, <2>3, <2>5 DEF Inv, Held, Holds
  <2> QED BY <2>4, <2>5
<1>10. \A t \in Screens \ {s} : /\ loading'[t] = loading[t] /\ saving'[t] = saving[t]
                                /\ transferring'[t] = transferring[t]
  BY DEF Inv, Typed
<1> QED BY <1>1, <1>2, <1>4, <1>5, <1>6, <1>7, <1>8, <1>9, <1>10, ScreenKeeps

\* What the user chooses for a transfer.
LEMMA ChoiceKeeps ==
  ASSUME Inv, NEW s \in Screens, NEW l \in Lines, ToggleLine(s, l) \/ SetTransferQty(s, l)
  PROVE  Inv'
<1>1. UNCHANGED <<database, order, flags, call, made, history>>
  BY DEF ToggleLine, SetTransferQty
<1>2. /\ order[s] \in View /\ order[s].quantity \in [Lines -> Nat] /\ order[s].quantity[l] > 0
  BY ShownView DEF Inv, ToggleLine, SetTransferQty, CanTransfer, Transferable, View
<1>3. transferQuantities[s] \in [Lines -> Nat] /\ Chosen(s)
  BY DEF Inv, Typed
<1>4. /\ selected' \in [Screens -> SUBSET Lines]
      /\ \/ transferQuantities' = transferQuantities
         \/ \E n \in Nat : /\ n <= order[s].quantity[l]
                           /\ transferQuantities' = [transferQuantities EXCEPT ![s][l] = n]
  <2>1. CASE ToggleLine(s, l)
    <3>1. getTransferQty(s, l) \in Nat /\ getTransferQty(s, l) <= order[s].quantity[l]
      BY <1>2, <1>3 DEF getTransferQty, Chosen
    <3>2. selected' \in [Screens -> SUBSET Lines]
      BY <2>1 DEF ToggleLine, Inv, Typed
    <3> QED BY <2>1, <3>1, <3>2 DEF ToggleLine
  <2>2. CASE SetTransferQty(s, l)
    <3>1. PICK n \in 1..order[s].quantity[l] :
            transferQuantities' = [transferQuantities EXCEPT ![s][l] = n]
      BY <2>2 DEF SetTransferQty
    <3>2. n \in Nat /\ n <= order[s].quantity[l]
      BY <1>2, <3>1
    <3> QED BY <2>2, <3>1, <3>2 DEF SetTransferQty, Inv, Typed
  <2> QED BY <2>1, <2>2
<1>5. transferQuantities' \in [Screens -> [Lines -> Nat]] /\ \A t \in Screens : Chosen(t)'
  <2>1. CASE transferQuantities' = transferQuantities
    BY <1>1, <2>1 DEF Inv, Typed, Chosen
  <2>2. ASSUME NEW n \in Nat, n <= order[s].quantity[l],
               transferQuantities' = [transferQuantities EXCEPT ![s][l] = n]
        PROVE  transferQuantities' \in [Screens -> [Lines -> Nat]]
               /\ \A t \in Screens : Chosen(t)'
    <3>1. transferQuantities' \in [Screens -> [Lines -> Nat]]
      BY <2>2 DEF Inv, Typed
    <3>2. /\ transferQuantities'[s][l] = n
          /\ \A m \in Lines \ {l} : transferQuantities'[s][m] = transferQuantities[s][m]
          /\ \A t \in Screens \ {s} : transferQuantities'[t] = transferQuantities[t]
      BY <2>2 DEF Inv, Typed
    <3>3. Chosen(s)'
      BY <1>1, <1>3, <2>2, <3>2 DEF Chosen
    <3>4. \A t \in Screens \ {s} : Chosen(t)'
      BY <1>1, <3>2 DEF Inv, Chosen
    <3> QED BY <3>1, <3>3, <3>4
  <2> QED BY <1>4, <2>1, <2>2
<1>6. Typed'
  BY <1>1, <1>4, <1>5 DEF Inv, Typed, database, flags, history
<1>7. /\ \A k \in Numbers : CallOK(call[k])'
      /\ \A t \in Screens : Held(t)'
      /\ Uncrossed'
  BY <1>1 DEF Inv, CallOK, Held, Holds, Under, ChangeUnder, Uncrossed, Running,
              database, flags, history
<1> QED BY <1>5, <1>6, <1>7 DEF Inv

LEMMA UserKeeps ==
  ASSUME Inv, NEW s \in Screens, User(s)
  PROVE  Inv'
<1>1. CASE LoadOrder(s)
  BY <1>1, LoadOrderKeeps
<1>2. ASSUME NEW next \in Statuses, ApplyStatus(s, next) PROVE Inv'
  <2>1. /\ Shown(s) /\ ~saving[s] /\ Send(s, "status", next, Nothing)
        /\ saving' = [saving EXCEPT ![s] = TRUE] /\ tidy' = tidy
        /\ UNCHANGED <<database, order, loading, transferring, choice, version, written, crossed>>
    BY <1>2 DEF ApplyStatus, history
  <2>2. Nothing \in [Lines -> Nat] /\ tidy' \in [Screens -> BOOLEAN]
    BY <2>1 DEF Nothing, Inv, Typed
  <2> QED BY <2>1, <2>2, SendKeeps
<1>3. ASSUME NEW next \in Statuses, MarkStatus(s, next) PROVE Inv'
  <2> DEFINE still == tidy[s] /\ Under(s, "load") = {}
  <2>1. /\ Shown(s) /\ ~saving[s] /\ Send(s, "status", next, Nothing)
        /\ saving' = [saving EXCEPT ![s] = TRUE] /\ tidy' = [tidy EXCEPT ![s] = still]
        /\ UNCHANGED <<database, order, loading, transferring, choice, version, written, crossed>>
    BY <1>3 DEF MarkStatus
  <2>2. Nothing \in [Lines -> Nat]
    BY DEF Nothing
  <2>3. still \in BOOLEAN
    OBVIOUS
  <2> HIDE DEF still
  <2>4. tidy' \in [Screens -> BOOLEAN]
    BY <2>1, <2>3 DEF Inv, Typed
  <2> QED BY <2>1, <2>2, <2>4, SendKeeps
<1>4. CASE TransferSelected(s)
  <2>1. /\ Shown(s) /\ ~transferring[s] /\ Send(s, "transfer", "none", Asked(s))
        /\ transferring' = [transferring EXCEPT ![s] = TRUE] /\ tidy' = tidy
        /\ UNCHANGED <<database, order, loading, saving, choice, version, written, crossed>>
    BY <1>4 DEF TransferSelected, CanTransfer, history
  <2>2. order[s] \in View
    BY <2>1, ShownView DEF Inv
  <2>3. ASSUME NEW l \in Lines PROVE getTransferQty(s, l) \in Nat
    BY <2>2 DEF getTransferQty, View, Inv, Typed
  <2>4. Asked(s) \in [Lines -> Nat] /\ tidy' \in [Screens -> BOOLEAN]
    BY <2>1, <2>3 DEF Asked, Inv, Typed
  <2> QED BY <2>1, <2>4, SendKeeps
<1> QED BY <1>1, <1>2, <1>3, <1>4, ChoiceKeeps DEF User

-----------------------------------------------------------------------------
(* The answers.                                                            *)

LEMMA Ended ==
  ASSUME Typed, NEW k \in Numbers, Close(k)
  PROVE  /\ Becomes(k, Unsent) /\ CallOK(Unsent) /\ Unsent.stage = "none"
         /\ Unsent.stage # "running"
BY UnsentCall, Replaced DEF Close, CallOK

\* Of a call that a screen has made, its flag of that kind is set for it alone.
LEMMA FlagOf ==
  ASSUME Inv, NEW s \in Screens, NEW k \in Numbers, call[k].screen = s,
         call[k].stage # "none"
  PROVE  /\ "status" \in {call[k].kind, call[k].then} =>
              saving[s] /\ ChangeUnder(s, "status") = {k}
         /\ "transfer" \in {call[k].kind, call[k].then} =>
              transferring[s] /\ ChangeUnder(s, "transfer") = {k}
<1>1. ASSUME NEW kind \in {"status", "transfer"}, kind \in {call[k].kind, call[k].then}
      PROVE  k \in ChangeUnder(s, kind)
  BY <1>1 DEF ChangeUnder
<1> QED BY <1>1 DEF Inv, Held, Holds

\* A call that ends clears the flag it was made for.
LEMMA EndedHeld ==
  ASSUME Inv, NEW s \in Screens, NEW k \in Numbers, call[k].screen = s,
         call[k].stage # "none", Close(k),
         saving'[s] = (saving[s] /\ "status" \notin {call[k].kind, call[k].then}),
         transferring'[s] = (transferring[s] /\ "transfer" \notin {call[k].kind, call[k].then}),
         IF call[k].kind = "load" THEN ~loading'[s] ELSE loading'[s] = loading[s]
  PROVE  Held(s)'
<1>1. Becomes(k, Unsent) /\ Unsent.stage = "none"
  BY Ended DEF Inv
<1>2. ASSUME NEW kind
      PROVE  /\ ChangeUnder(s, kind)' = ChangeUnder(s, kind) \ {k}
             /\ kind \notin {call[k].kind, call[k].then} => k \notin ChangeUnder(s, kind)
             /\ Under(s, kind)' = Under(s, kind) \ {k}
             /\ call[k].kind # kind => k \notin Under(s, kind)
  <2>1. kind \notin {call[k].kind, call[k].then} => k \notin ChangeUnder(s, kind)
    BY DEF ChangeUnder
  <2>2. call[k].kind # kind => k \notin Under(s, kind)
    BY DEF Under
  <2> QED BY <1>1, <2>1, <2>2, UnderBecomes
<1>3. ASSUME NEW kind \in {"status", "transfer"}, NEW old \in BOOLEAN, NEW new,
             Holds(s, kind, old), new = (old /\ kind \notin {call[k].kind, call[k].then}),
             kind \in {call[k].kind, call[k].then} => ChangeUnder(s, kind) = {k}
      PROVE  IF new THEN \E j \in Numbers : ChangeUnder(s, kind)' = {j}
                    ELSE ChangeUnder(s, kind)' = {}
  <2>1. CASE kind \in {call[k].kind, call[k].then}
    <3>1. ChangeUnder(s, kind)' = {} /\ ~new
      BY <1>2, <1>3, <2>1
    <3> QED BY <3>1
  <2>2. CASE kind \notin {call[k].kind, call[k].then}
    <3>1. ChangeUnder(s, kind)' = ChangeUnder(s, kind) /\ new = old
      BY <1>2, <1>3, <2>2
    <3> QED BY <1>3, <3>1 DEF Holds
  <2> QED BY <2>1, <2>2
<1>4. Holds(s, "status", saving[s])'
  <2>1. Holds(s, "status", saving[s]) /\ saving[s] \in BOOLEAN
    BY DEF Inv, Held, Typed
  <2> QED BY <1>3, <2>1, FlagOf DEF Holds
<1>5. Holds(s, "transfer", transferring[s])'
  <2>1. Holds(s, "transfer", transferring[s]) /\ transferring[s] \in BOOLEAN
    BY DEF Inv, Held, Typed
  <2> QED BY <1>3, <2>1, FlagOf DEF Holds
<1>6. loading'[s] => Under(s, "load")' # {}
  <2>1. CASE call[k].kind = "load"
    BY <2>1
  <2>2. CASE call[k].kind # "load"
    <3>1. Under(s, "load")' = Under(s, "load")
      BY <1>2, <2>2
    <3> QED BY <2>2, <3>1 DEF Inv, Held
  <2> QED BY <2>1, <2>2
<1> QED BY <1>4, <1>5, <1>6 DEF Held

\* A call that goes on to a load keeps the flag it was made for.
LEMMA ThenLoadHeld ==
  ASSUME Inv, NEW s \in Screens, NEW k \in Numbers, call[k].screen = s,
         call[k].stage # "none", call[k].kind \in {"status", "transfer"},
         NEW c, c.stage = "sent", c.screen = s, c.kind = "load", c.then = call[k].kind,
         Becomes(k, c), loading'[s], saving'[s] = saving[s],
         transferring'[s] = transferring[s]
  PROVE  Held(s)'
<1>1. call[k].then = "load"
  BY DEF Inv, CallOK
<1>2. k \in Under(s, "load")'
  BY UnderBecomes
<1>3. ASSUME NEW kind \in {"status", "transfer"}
      PROVE  ChangeUnder(s, kind)' = ChangeUnder(s, kind)
  <2>1. k \in ChangeUnder(s, kind) <=> kind = call[k].kind
    BY <1>1 DEF ChangeUnder
  <2>2. ChangeUnder(s, kind)' = (ChangeUnder(s, kind) \ {k})
           \cup (IF kind \in {c.kind, c.then} THEN {k} ELSE {})
    BY UnderBecomes
  <2> QED BY <2>1, <2>2
<1> QED BY <1>2, <1>3 DEF Inv, Held, Holds

LEMMA SyncedFits ==
  ASSUME Typed, NEW s \in Screens, NEW view \in View
  PROVE  /\ Synced(s, view) \in [Lines -> Nat]
         /\ \A l \in Lines : view.quantity[l] > 0 => Synced(s, view)[l] <= view.quantity[l]
BY DEF Typed, View, Synced

LEMMA LoadEnds ==
  ASSUME Inv, NEW k \in Numbers, ReceiveLoad(k) \/ LoadFails(k)
  PROVE  Inv'
<1>1. PICK s \in Screens : s = call[k].screen
  BY DEF Inv, CallOK, ReceiveLoad, LoadFails
<1> DEFINE saves == saving[s] /\ ~Ends(k, "status")
           transfers == transferring[s] /\ ~Ends(k, "transfer")
           off == FALSE
<1>2. /\ call[k].stage # "none" /\ call[k].stage # "running" /\ call[k].kind = "load"
      /\ loading' = [loading EXCEPT ![s] = off]
      /\ saving' = [saving EXCEPT ![s] = saves]
      /\ transferring' = [transferring EXCEPT ![s] = transfers]
      /\ Close(k) /\ UNCHANGED <<made, database, selected, version, written, crossed>>
  BY <1>1 DEF ReceiveLoad, LoadFails, AfterLoad
<1>3. call[k] \in Call
  BY DEF Inv, Typed
<1>4. saves \in BOOLEAN /\ transfers \in BOOLEAN /\ off \in BOOLEAN
  OBVIOUS
<1>5. /\ saves = (saving[s] /\ "status" \notin {call[k].kind, call[k].then})
      /\ transfers = (transferring[s] /\ "transfer" \notin {call[k].kind, call[k].then})
  BY <1>2 DEF Ends
<1>6. ~off
  OBVIOUS
<1> HIDE DEF saves, transfers, off
<1>7. /\ loading' \in [Screens -> BOOLEAN] /\ saving' \in [Screens -> BOOLEAN]
      /\ transferring' \in [Screens -> BOOLEAN]
      /\ loading'[s] = off /\ saving'[s] = saves /\ transferring'[s] = transfers
      /\ \A t \in Screens \ {s} : /\ loading'[t] = loading[t] /\ saving'[t] = saving[t]
                                  /\ transferring'[t] = transferring[t]
  BY <1>2, <1>4 DEF Inv, Typed
<1>8. PICK view \in View \cup {NoView} :
        /\ order' = [order EXCEPT ![s] = view]
        /\ transferQuantities' = IF view = NoView THEN transferQuantities
                                 ELSE [transferQuantities EXCEPT ![s] = Synced(s, view)]
  <2>1. CASE ReceiveLoad(k)
    BY <1>1, <1>3, <2>1 DEF ReceiveLoad, Call
  <2>2. CASE LoadFails(k)
    BY <1>1, <2>2 DEF LoadFails
  <2> QED BY <2>1, <2>2
<1>9. tidy' \in [Screens -> BOOLEAN]
  <2>1. CASE ReceiveLoad(k)
    BY <1>3, <2>1 DEF ReceiveLoad, Call, Inv, Typed
  <2>2. CASE LoadFails(k)
    BY <2>2 DEF LoadFails, Inv, Typed
  <2> QED BY <2>1, <2>2
<1>10. /\ order' \in [Screens -> View \cup {NoView}] /\ order'[s] = view
       /\ \A t \in Screens \ {s} : order'[t] = order[t]
  <2> HIDE DEF View, NoView
  <2> QED BY <1>8 DEF Inv, Typed
<1>11. /\ transferQuantities' \in [Screens -> [Lines -> Nat]]
       /\ \A t \in Screens \ {s} : transferQuantities'[t] = transferQuantities[t]
       /\ view \in View /\ view # NoView => transferQuantities'[s] = Synced(s, view)
  BY <1>8, SyncedFits DEF Inv, Typed
<1>12. ASSUME NEW t \in Screens PROVE Chosen(t)'
  <2>1. CASE t = s
    <3>1. NoView \notin View
      BY DEF View, NoView
    <3> QED BY <1>10, <1>11, <2>1, <3>1, SyncedFits DEF Inv, Chosen
  <2>2. CASE t # s
    BY <1>10, <1>11, <2>2 DEF Inv, Chosen
  <2> QED BY <2>1, <2>2
<1>13. Held(s)'
  BY <1>1, <1>2, <1>5, <1>6, <1>7, EndedHeld
<1>14. ScreensTyped' /\ made' \in 0..MaxCalls
  BY <1>2, <1>7, <1>9, <1>10, <1>11 DEF Inv, Typed, ScreensTyped
<1>15. Becomes(k, Unsent) /\ CallOK(Unsent) /\ Unsent.stage = "none"
  BY <1>2, Ended DEF Inv
<1> QED BY <1>1, <1>2, <1>7, <1>12, <1>13, <1>14, <1>15, ScreenKeeps

LEMMA PatchedView ==
  ASSUME Typed, NEW k \in Numbers, NEW s \in Screens, call[k].read \in View,
         call[k].to \in Statuses
  PROVE  Patched(k, s) \in View
<1> DEFINE base == IF Shown(s) THEN order[s]
                   ELSE [status |-> "none", quantity |-> Nothing, asOf |-> 0]
           told == IF call[k].read.asOf = base.asOf + 1 THEN call[k].read.asOf ELSE base.asOf
           to == call[k].to
<1>1. base \in View
  BY ShownView DEF View, Nothing
<1>2. told \in Nat /\ to \in Statuses
  BY <1>1 DEF View
<1>3. Patched(k, s) = [base EXCEPT !.status = to, !.asOf = told]
  BY DEF Patched
<1> HIDE DEF base, told, to
<1> QED BY <1>1, <1>2, <1>3 DEF View

LEMMA AnswerKeeps ==
  ASSUME Inv, NEW k \in Numbers, ReceiveStatus(k) \/ ReceiveTransfer(k)
  PROVE  Inv'
<1>1. PICK s \in Screens : s = call[k].screen
  BY DEF Inv, CallOK, ReceiveStatus, ReceiveTransfer
<1>2. /\ call[k].stage = "done" /\ call[k].kind \in {"status", "transfer"}
      /\ written' = [written EXCEPT ![s] = call[k].read.asOf]
      /\ UNCHANGED <<made, database, transferring, version, crossed>>
  BY <1>1 DEF ReceiveStatus, ReceiveTransfer, Told
<1>3. call[k] \in Call /\ call[k].read \in View /\ CallOK(call[k])
      /\ written' \in [Screens -> Nat] /\ made' \in 0..MaxCalls
  <2>1. call[k] \in Call /\ CallOK(call[k])
    BY DEF Inv, Typed
  <2>2. call[k].read \in View
    BY <2>1, <1>2 DEF CallOK
  <2>3. call[k].read.asOf \in Nat
    BY <2>2 DEF View
  <2> QED BY <1>2, <2>1, <2>2, <2>3 DEF Inv, Typed
<1>4. CASE /\ ThenLoad(k, s) /\ saving' = saving
           /\ \/ order' = order
              \/ /\ call[k].kind = "status"
                 /\ order' = [order EXCEPT ![s] = Patched(k, s)]
  <2>1. PICK c \in Call : /\ c = Load(s, call[k].kind) /\ CallOK(c) /\ c.stage = "sent"
                          /\ c.screen = s /\ c.kind = "load" /\ c.then = call[k].kind
    BY <1>2, LoadCall DEF Kinds
  <2>2. Becomes(k, c) /\ StartLoad(s)
    BY <1>4, <2>1, ReplacedOverlapped DEF ThenLoad, Inv
  <2>3. /\ order' \in [Screens -> View \cup {NoView}]
        /\ \A t \in Screens \ {s} : order'[t] = order[t]
    <3>1. CASE order' = order
      BY <3>1 DEF Inv, Typed
    <3>2. CASE call[k].kind = "status" /\ order' = [order EXCEPT ![s] = Patched(k, s)]
      <4>1. Patched(k, s) \in View
        BY <1>2, <1>3, <3>2, PatchedView DEF Inv, CallOK
      <4> QED BY <3>2, <4>1 DEF Inv, Typed
    <3> QED BY <1>4, <3>1, <3>2
  <2>4. /\ loading' \in [Screens -> BOOLEAN] /\ tidy' \in [Screens -> BOOLEAN]
        /\ selected' \in [Screens -> SUBSET Lines]
        /\ transferQuantities' \in [Screens -> [Lines -> Nat]]
        /\ loading'[s] /\ transferQuantities'[s] = Nothing
        /\ \A t \in Screens \ {s} : /\ loading'[t] = loading[t]
                                    /\ transferQuantities'[t] = transferQuantities[t]
    BY <2>2, StartLoadFacts DEF Inv
  <2>5. ScreensTyped'
    BY <1>2, <1>3, <1>4, <2>3, <2>4 DEF Inv, Typed, ScreensTyped
  <2>6. ASSUME NEW t \in Screens PROVE Chosen(t)'
    <3>1. CASE t = s
      BY <2>3, <2>4, <3>1 DEF Chosen, Nothing, View
    <3>2. CASE t # s
      BY <2>3, <2>4, <3>2 DEF Inv, Chosen
    <3> QED BY <3>1, <3>2
  <2>7. Held(s)'
    BY <1>1, <1>2, <1>4, <2>1, <2>2, <2>4, ThenLoadHeld
  <2> QED BY <1>1, <1>2, <1>3, <1>4, <2>1, <2>2, <2>4, <2>5, <2>6, <2>7, ScreenKeeps
<1>5. CASE /\ call[k].kind = "status" /\ order' = [order EXCEPT ![s] = NoView]
           /\ saving' = [saving EXCEPT ![s] = FALSE] /\ Close(k)
           /\ UNCHANGED <<loading, choice, tidy>>
  <2> DEFINE off == FALSE
  <2>1. saving' = [saving EXCEPT ![s] = off] /\ off \in BOOLEAN /\ ~off
    BY <1>5
  <2> HIDE DEF off
  <2>2. saving' \in [Screens -> BOOLEAN] /\ saving'[s] = off
        /\ \A t \in Screens \ {s} : saving'[t] = saving[t]
    BY <2>1 DEF Inv, Typed
  <2>3. /\ order' \in [Screens -> View \cup {NoView}] /\ order'[s] = NoView
        /\ \A t \in Screens \ {s} : order'[t] = order[t]
    <3> HIDE DEF View, NoView
    <3> QED BY <1>5 DEF Inv, Typed
  <2>4. ScreensTyped'
    BY <1>2, <1>3, <1>5, <2>2, <2>3 DEF Inv, Typed, ScreensTyped, choice
  <2>5. ASSUME NEW t \in Screens PROVE Chosen(t)'
    <3>1. NoView \notin View
      BY DEF View, NoView
    <3> QED BY <1>5, <2>3, <3>1 DEF Inv, Chosen, choice
  <2>6. call[k].then = "load"
    BY <1>2, <1>3 DEF CallOK
  <2>7. Held(s)'
    <3>1. /\ saving'[s] = (saving[s] /\ "status" \notin {call[k].kind, call[k].then})
          /\ transferring'[s] = (transferring[s]
                                 /\ "transfer" \notin {call[k].kind, call[k].then})
      BY <1>2, <1>5, <2>1, <2>2, <2>6 DEF Inv, Typed
    <3> QED BY <1>1, <1>2, <1>5, <3>1, EndedHeld
  <2>8. Becomes(k, Unsent) /\ CallOK(Unsent) /\ Unsent.stage = "none"
    BY <1>5, Ended DEF Inv
  <2> QED BY <1>1, <1>2, <1>3, <1>5, <2>2, <2>4, <2>5, <2>7, <2>8, ScreenKeeps
<1>6. CASE ReceiveTransfer(k)
  <2>1. ThenLoad(k, s) /\ order' = order /\ saving' = saving
    BY <1>1, <1>6 DEF ReceiveTransfer
  <2> QED BY <1>4, <2>1
<1>7. CASE ReceiveStatus(k) /\ s \in Details
  BY <1>1, <1>4, <1>7 DEF ReceiveStatus
<1>8. CASE ReceiveStatus(k) /\ s \notin Details
  BY <1>1, <1>5, <1>8 DEF ReceiveStatus
<1> QED BY <1>6, <1>7, <1>8

LEMMA CallFailsKeeps ==
  ASSUME Inv, NEW k \in Numbers, CallFails(k)
  PROVE  Inv'
<1>1. PICK s \in Screens : s = call[k].screen
  BY DEF Inv, CallOK, CallFails
<1> DEFINE saves == saving[s] /\ call[k].kind # "status"
           transfers == transferring[s] /\ call[k].kind # "transfer"
<1>2. /\ call[k].stage # "none" /\ call[k].stage # "running" /\ call[k].kind # "load"
      /\ saving' = [saving EXCEPT ![s] = saves]
      /\ transferring' = [transferring EXCEPT ![s] = transfers]
      /\ Close(k) /\ UNCHANGED <<made, database, order, loading, choice, history>>
  BY <1>1 DEF CallFails
<1>3. call[k].then = "load"
  BY <1>2 DEF Inv, CallOK
<1>4. /\ saves \in BOOLEAN /\ transfers \in BOOLEAN
      /\ saves = (saving[s] /\ "status" \notin {call[k].kind, call[k].then})
      /\ transfers = (transferring[s] /\ "transfer" \notin {call[k].kind, call[k].then})
  BY <1>3
<1> HIDE DEF saves, transfers
<1>5. /\ saving' \in [Screens -> BOOLEAN] /\ transferring' \in [Screens -> BOOLEAN]
      /\ saving'[s] = saves /\ transferring'[s] = transfers
      /\ \A t \in Screens \ {s} : saving'[t] = saving[t] /\ transferring'[t] = transferring[t]
  BY <1>2, <1>4 DEF Inv, Typed
<1>6. ScreensTyped' /\ made' \in 0..MaxCalls /\ \A t \in Screens : Chosen(t)'
  BY <1>2, <1>5 DEF Inv, Typed, ScreensTyped, Chosen, choice, history
<1>7. Held(s)'
  BY <1>1, <1>2, <1>4, <1>5, EndedHeld
<1>8. Becomes(k, Unsent) /\ CallOK(Unsent) /\ Unsent.stage = "none"
  BY <1>2, Ended DEF Inv
<1> QED BY <1>1, <1>2, <1>5, <1>6, <1>7, <1>8, ScreenKeeps DEF history

-----------------------------------------------------------------------------

LEMMA InitInv == Init => Inv
<1> SUFFICES ASSUME Init PROVE Inv
  OBVIOUS
<1> DEFINE first == [status |-> InitialStatus, quantity |-> InitialQuantity, asOf |-> 0]
<1>1. first \in View
  BY CommandeScreensAssumption DEF View
<1>2. order = [s \in Screens |-> IF s \in Deliveries /\ InitialStatus # "en_livraison"
                                 THEN NoView ELSE first]
  BY DEF Init
<1>3. order \in [Screens -> View \cup {NoView}]
  <2> HIDE DEF first, View, NoView
  <2> QED BY <1>1, <1>2
<1>4. transferQuantities \in [Screens -> [Lines -> Nat]]
  BY CommandeScreensAssumption DEF Init, Nothing
<1>5. call \in [Numbers -> Call] /\ \A k \in Numbers : call[k].stage = "none"
  BY UnsentCall DEF Init
<1>6. Typed
  <2>1. /\ loading \in [Screens -> BOOLEAN] /\ saving \in [Screens -> BOOLEAN]
        /\ transferring \in [Screens -> BOOLEAN] /\ tidy \in [Screens -> BOOLEAN]
        /\ crossed \in BOOLEAN
    BY DEF Init
  <2>2. /\ selected \in [Screens -> SUBSET Lines] /\ written \in [Screens -> Nat]
        /\ made \in 0..MaxCalls /\ version \in Nat
    BY CommandeScreensAssumption DEF Init
  <2>3. status \in Statuses /\ quantity \in [Lines -> Nat]
    BY CommandeScreensAssumption DEF Init
  <2> QED BY <1>3, <1>4, <1>5, <2>1, <2>2, <2>3 DEF Typed
<1>7. \A s \in Screens : Chosen(s)
  <2>1. ASSUME NEW s \in Screens, order[s] \in View PROVE order[s].quantity = InitialQuantity
    <3>1. NoView \notin View
      BY DEF View, NoView
    <3> QED BY <1>2, <2>1, <3>1
  <2>2. ASSUME NEW s \in Screens, NEW l \in Lines
        PROVE  transferQuantities[s][l] <= InitialQuantity[l]
    <3>1. InitialQuantity[l] \in Nat
      BY CommandeScreensAssumption
    <3> QED BY <3>1 DEF Init, Nothing
  <2> QED BY <2>1, <2>2 DEF Chosen
<1>8. Uncrossed /\ \A k \in Numbers : CallOK(call[k])
  BY <1>5 DEF Uncrossed, Running, CallOK
<1>9. ASSUME NEW s \in Screens PROVE Held(s)
  <2>1. \A kind : Under(s, kind) = {} /\ ChangeUnder(s, kind) = {}
    BY <1>5 DEF Under, ChangeUnder
  <2>2. ~loading[s] /\ ~saving[s] /\ ~transferring[s]
    BY DEF Init
  <2> QED BY <2>1, <2>2 DEF Held, Holds
<1> QED BY <1>6, <1>7, <1>8, <1>9 DEF Inv

LEMMA NextKeepsInv ==
  ASSUME Inv, [Next]_vars
  PROVE  Inv'
<1>1. CASE UNCHANGED vars
  <2>1. /\ UNCHANGED <<status, quantity, order, loading, saving, transferring, selected>>
        /\ UNCHANGED <<transferQuantities, call, made, version, written, tidy, crossed>>
    BY <1>1 DEF vars, database, flags, choice
  <2>2. Typed' /\ Uncrossed' /\ \A k \in Numbers : CallOK(call[k])'
    BY <2>1 DEF Inv, Typed, Uncrossed, Running, CallOK
  <2>3. \A s \in Screens : Chosen(s)' /\ Held(s)'
    BY <2>1 DEF Inv, Chosen, Held, Holds, Under, ChangeUnder
  <2> QED BY <2>2, <2>3 DEF Inv
<1>2. ASSUME NEW s \in Screens, User(s) PROVE Inv'
  BY <1>2, UserKeeps
<1>3. ASSUME NEW k \in Numbers, Handle(k) PROVE Inv'
  BY <1>3, HandleLoadKeeps, HandleSaveKeeps, BeginTransferKeeps, EndTransferKeeps,
     TransferLineKeeps DEF Handle
<1>4. ASSUME NEW k \in Numbers, Lose(k) PROVE Inv'
  BY <1>4, LoseKeeps
<1>5. ASSUME NEW k \in Numbers, Receive(k) PROVE Inv'
  BY <1>5, LoadEnds, AnswerKeeps, CallFailsKeeps DEF Receive
<1> QED BY <1>1, <1>2, <1>3, <1>4, <1>5 DEF Next

LEMMA SpecInv == Spec => []Inv
<1> QED BY InitInv, NextKeepsInv, PTL DEF Spec

-----------------------------------------------------------------------------
(* The version a call or a view goes back to.                              *)

\* The order as it is, or as it was.
Fresh(v) == v # NoView /\ v.asOf = version => v.status = status

Known(v) == v # NoView => v.asOf <= version

\* The load k is the last part of a change of the kind `then'.
Follows(k, s, then) ==
  /\ call[k].stage # "none" /\ call[k].screen = s
  /\ call[k].kind = "load" /\ call[k].then = then

Following(s, then) == \E k \in Numbers : Follows(k, s, then)

\* A save that is sent on the order as it is takes a step of the workflow; a
\* load that no other call of the screen overlaps reads what it has written.
CallFresh(c) ==
  c.stage # "none" =>
    /\ c.asOf <= version
    /\ Known(c.read)
    /\ c.kind = "load" => Fresh(c.read)
    /\ c.kind = "load" /\ c.stage = "done" /\ c.alone /\ c.read # NoView =>
         c.read.asOf >= written[c.screen]
    /\ c.kind = "status" /\ c.stage = "sent" /\ c.asOf = version =>
         WorkflowStep(status, c.to)

\* What a screen shows is fresh unless it has been patched with a status saved,
\* and it has what the screen has written unless the load after it is under way.
ScreenFresh(s) ==
  /\ written[s] <= version
  /\ Known(order[s])
  /\ Fresh(order[s]) \/ Following(s, "status")
  /\ order[s] # NoView /\ tidy[s] =>
       \/ order[s].asOf >= written[s]
       \/ Following(s, "status") \/ Following(s, "transfer")

\* In a list of deliveries no load and change of status are alone.
Apart(s) ==
  s \in Deliveries /\ Under(s, "status") # {} =>
    \A k \in Under(s, "load") : ~call[k].alone

\* A transfer that runs has read the status the order has.
Restores == ~crossed => \A k \in Running : call[k].read.status = status

Fresher ==
  /\ \A k \in Numbers : CallFresh(call[k])
  /\ \A s \in Screens : ScreenFresh(s) /\ Apart(s)
  /\ Restores

LEMMA Indexed ==
  ASSUME NEW s
  PROVE  /\ workflowIndex(s) \in 0..7
         /\ workflowIndex(s) > 0 => STATUS_WORKFLOW[workflowIndex(s)] = s
<1> DEFINE I == {i \in 1..7 : STATUS_WORKFLOW[i] = s}
<1>1. workflowIndex(s) = IF I # {} THEN CHOOSE x \in I : \A y \in I : x <= y ELSE 0
  <2>1. Len(STATUS_WORKFLOW) = 7
    BY DEF STATUS_WORKFLOW
  <2> QED BY <2>1 DEF workflowIndex, SelectInSeq, Min
<1>2. ASSUME I # {} PROVE \E x \in I : \A y \in I : x <= y
  BY <1>2
<1> HIDE DEF I
<1>3. CASE I = {}
  BY <1>1, <1>3
<1>4. CASE I # {}
  <2>1. workflowIndex(s) \in I
    BY <1>1, <1>2, <1>4
  <2> QED BY <2>1 DEF I
<1> QED BY <1>3, <1>4

\* What a screen lets its user choose is a step of the workflow.
LEMMA AllowedStep ==
  ASSUME NEW current, NEW next \in Statuses, NEW isAdmin,
         canApplyStatusTransition(current, next, isAdmin),
         next = "draft" => current # "annuler"
  PROVE  WorkflowStep(current, next)
<1>1. CASE next \in {"annuler", "draft", "en_livraison"}
  BY <1>1 DEF canApplyStatusTransition, isStatusTransitionAllowed, WorkflowStep
<1>2. CASE next \notin {"annuler", "draft", "en_livraison"}
  <2>1. /\ workflowIndex(current) > 0
        /\ workflowIndex(next) = workflowIndex(current) + 1
    BY <1>2 DEF canApplyStatusTransition, isStatusTransitionAllowed
  <2> DEFINE i == workflowIndex(current)
  <2>2. i \in 1..6 /\ STATUS_WORKFLOW[i] = current /\ STATUS_WORKFLOW[i + 1] = next
    BY <2>1, Indexed
  <2>3. Len(STATUS_WORKFLOW) = 7 /\ current # "annuler"
    BY <2>2 DEF STATUS_WORKFLOW
  <2> QED BY <2>2, <2>3 DEF WorkflowStep
<1> QED BY <1>1, <1>2

\* The field `alone' of the calls when k is now c, and of the loads of s that
\* the call overtakes.
Alone(k, c) ==
  /\ call'[k].alone = c.alone
  /\ \A j \in Numbers \ {k} : call'[j].alone => call[j].alone

Overtaken(k, s) == \A j \in Under(s, "load") \ {k} : ~call'[j].alone

LEMMA ReplacedAlone ==
  ASSUME Typed, NEW k \in Numbers, NEW c, call' = [call EXCEPT ![k] = c]
  PROVE  Alone(k, c)
BY DEF Typed, Alone

LEMMA OverlappedAlone ==
  ASSUME Typed, NEW s \in Screens, NEW k \in Numbers, NEW c,
         call' = [Overlapped(s) EXCEPT ![k] = c]
  PROVE  Alone(k, c) /\ Overtaken(k, s)
<1>1. ASSUME NEW j \in Numbers
      PROVE  IF j \in Under(s, "load") THEN ~Overlapped(s)[j].alone
                                       ELSE Overlapped(s)[j] = call[j]
  <2>1. call[j] \in Call
    BY DEF Typed
  <2> DEFINE never == FALSE
  <2>2. [call[j] EXCEPT !.alone = never].alone = never
    BY <2>1 DEF Call
  <2> QED BY <2>2 DEF Overlapped
<1>2. call'[k] = c /\ \A j \in Numbers \ {k} : call'[j] = Overlapped(s)[j]
  <2>1. Overlapped(s) \in [Numbers -> Call]
    BY OverlappedCalls
  <2> QED BY <2>1
<1>3. Under(s, "load") \subseteq Numbers
  BY DEF Under
<1> QED BY <1>1, <1>2, <1>3 DEF Alone, Overtaken

-----------------------------------------------------------------------------
(* What is kept.                                                           *)

\* A call is made, goes on or ends.
LEMMA CallsFresh ==
  ASSUME Inv, Fresher, NEW k \in Numbers, NEW c, Becomes(k, c), Alone(k, c),
         status' = status, version' = version, NEW s \in Screens,
         \A t \in Screens \ {s} : written'[t] = written[t],
         written'[s] = written[s] \/ Overtaken(k, s),
         CallFresh(c)'
  PROVE  \A j \in Numbers : CallFresh(call[j])'
<1>1. CallFresh(call[k])'
  BY DEF Becomes, SameCall, Alone, CallFresh, Known, Fresh
<1>2. ASSUME NEW j \in Numbers \ {k} PROVE CallFresh(call[j])'
  <2>1. CallFresh(call[j]) /\ CallOK(call[j]) /\ SameCall(call'[j], call[j])
    BY DEF Fresher, Inv, Becomes
  <2> QED BY <2>1 DEF SameCall, CallFresh, CallOK, Known, Fresh, Overtaken, Under, Alone
<1> QED BY <1>1, <1>2

LEMMA FollowsBecomes ==
  ASSUME NEW k \in Numbers, NEW c, Becomes(k, c), NEW s, NEW then
  PROVE  /\ \A j \in Numbers \ {k} : Follows(j, s, then)' <=> Follows(j, s, then)
         /\ Follows(k, s, then)' <=> /\ c.stage # "none" /\ c.screen = s
                                     /\ c.kind = "load" /\ c.then = then
BY DEF Becomes, SameCall, Follows

\* The other screens.
LEMMA OtherScreens ==
  ASSUME Inv, Fresher, NEW k \in Numbers, NEW c, Becomes(k, c), Alone(k, c),
         status' = status, version' = version, NEW s \in Screens,
         call[k].stage # "none" => call[k].screen = s,
         c.stage # "none" => c.screen = s,
         NEW t \in Screens \ {s}, order'[t] = order[t], tidy'[t] = tidy[t],
         written'[t] = written[t]
  PROVE  ScreenFresh(t)' /\ Apart(t)'
<1>1. ASSUME NEW then PROVE Following(t, then)' <=> Following(t, then)
  <2>1. ~Follows(k, t, then) /\ ~Follows(k, t, then)'
    BY FollowsBecomes DEF Follows
  <2> QED BY <2>1, FollowsBecomes DEF Following
<1>2. ScreenFresh(t)'
  BY <1>1 DEF Fresher, ScreenFresh, Known, Fresh
<1>3. ASSUME NEW kind PROVE Under(t, kind)' = Under(t, kind) /\ k \notin Under(t, kind)
  <2>1. k \notin Under(t, kind)
    BY DEF Under
  <2>2. ~(c.stage # "none" /\ c.screen = t /\ c.kind = kind)
    OBVIOUS
  <2> QED BY <2>1, <2>2, UnderSame
<1>4. Apart(t)'
  <2>1. Under(t, "load") \subseteq Numbers
    BY DEF Under
  <2> QED BY <1>3, <2>1 DEF Fresher, Apart, Alone
<1> QED BY <1>2, <1>4

LEMMA RestoresStays ==
  ASSUME Fresher, NEW k \in Numbers, NEW c, Becomes(k, c), c.stage # "running",
         status' = status, crossed' = crossed
  PROVE  Restores'
BY RunningBecomes DEF Fresher, Restores

\* The screen s makes the call k, goes on or ends with it.
LEMMA ScreenMoves ==
  ASSUME Inv, Fresher, NEW k \in Numbers, NEW c, Becomes(k, c), Alone(k, c),
         NEW s \in Screens,
         call[k].stage # "none" => call[k].screen = s,
         c.stage # "none" => c.screen = s,
         c.stage # "running", UNCHANGED <<status, version, crossed>>,
         \A t \in Screens \ {s} : /\ order'[t] = order[t] /\ tidy'[t] = tidy[t]
                                  /\ written'[t] = written[t],
         written'[s] = written[s] \/ Overtaken(k, s),
         CallFresh(c)', ScreenFresh(s)', Apart(s)'
  PROVE  Fresher'
<1>1. \A j \in Numbers : CallFresh(call[j])'
  BY CallsFresh
<1>2. \A t \in Screens : ScreenFresh(t)' /\ Apart(t)'
  BY OtherScreens
<1> QED BY <1>1, <1>2, RestoresStays DEF Fresher

\* A call is handled or lost.
LEMMA HandledFresh ==
  ASSUME Inv, Fresher, NEW k \in Numbers, NEW c,
         call[k].stage # "none", c.stage # "none", c.screen = call[k].screen,
         c.kind = call[k].kind, c.then = call[k].then, c.alone = call[k].alone,
         Becomes(k, c), Alone(k, c),
         UNCHANGED <<order, written, tidy>>,
         version' \in Nat,
         \/ version' = version /\ status' = status
         \/ version' > version,
         CallFresh(c)', Restores'
  PROVE  Fresher'
<1>1. \A v \in View \cup {NoView} : Known(v) => Known(v)' /\ (Fresh(v) => Fresh(v)')
  BY DEF Known, Fresh, Inv, Typed, View, NoView
<1>2. ASSUME NEW j \in Numbers PROVE CallFresh(call[j])'
  <2>1. CASE j = k
    BY <2>1 DEF Becomes, SameCall, Alone, CallFresh, Known, Fresh
  <2>2. CASE j # k
    <3>1. CallFresh(call[j]) /\ SameCall(call'[j], call[j]) /\ call[j] \in Call
          /\ (call'[j].alone => call[j].alone)
      BY <2>2 DEF Fresher, Becomes, Alone, Inv, Typed
    <3> PICK b : b = call[j]
      OBVIOUS
    <3> PICK d : d = call'[j]
      OBVIOUS
    <3>2. CallFresh(b) /\ SameCall(d, b) /\ b \in Call /\ (d.alone => b.alone)
      BY <3>1
    <3>3. b.read \in View \cup {NoView} /\ b.asOf \in Nat /\ version \in Nat /\ d.read = b.read
      BY <3>2 DEF Call, Inv, Typed, SameCall
    <3>4. CallFresh(d)'
      <4>1. CASE b.stage = "none"
        BY <3>2, <4>1 DEF SameCall, CallFresh
      <4>2. CASE b.stage # "none"
        <5>1. Known(b.read) /\ (b.kind = "load" => Fresh(b.read))
          BY <3>2, <4>2 DEF CallFresh
        <5> QED BY <1>1, <3>2, <3>3, <5>1 DEF SameCall, CallFresh
      <4> QED BY <4>1, <4>2
    <3> QED BY <3>4 DEF CallFresh, Fresh, Known
  <2> QED BY <2>1, <2>2
<1>3. ASSUME NEW s, NEW then PROVE Following(s, then)' <=> Following(s, then)
  <2>1. Follows(k, s, then)' <=> Follows(k, s, then)
    BY FollowsBecomes DEF Follows
  <2> QED BY <2>1, FollowsBecomes DEF Following
<1>4. ASSUME NEW s \in Screens PROVE ScreenFresh(s)'
  <2>1. ScreenFresh(s) /\ order[s] \in View \cup {NoView} /\ order'[s] = order[s]
        /\ written'[s] = written[s] /\ written[s] \in Nat /\ version \in Nat
    BY DEF Fresher, Inv, Typed
  <2> PICK v : v = order[s]
    OBVIOUS
  <2>2. v \in View \cup {NoView} /\ Known(v) /\ (Fresh(v) \/ Following(s, "status"))
    BY <2>1 DEF ScreenFresh
  <2>3. Known(v)' /\ (Fresh(v)' \/ Following(s, "status")')
    BY <1>1, <1>3, <2>2
  <2>4. Known(order[s])' /\ (Fresh(order[s])' \/ Following(s, "status")')
    BY <2>1, <2>3 DEF Known, Fresh
  <2>5. written'[s] <= version'
    BY <2>1 DEF ScreenFresh
  <2> QED BY <1>3, <2>1, <2>4, <2>5 DEF ScreenFresh
<1>5. ASSUME NEW s \in Screens PROVE Apart(s)'
  <2>1. ASSUME NEW kind PROVE Under(s, kind)' = Under(s, kind)
    <3>1. k \in Under(s, kind) <=> c.screen = s /\ c.kind = kind
      BY DEF Under
    <3>2. Under(s, kind)' = (Under(s, kind) \ {k})
             \cup (IF c.stage # "none" /\ c.screen = s /\ c.kind = kind THEN {k} ELSE {})
      BY UnderBecomes
    <3> QED BY <3>1, <3>2
  <2>2. \A j \in Numbers : call'[j].alone => call[j].alone
    BY DEF Alone
  <2>3. Under(s, "load") \subseteq Numbers
    BY DEF Under
  <2> QED BY <2>1, <2>2, <2>3 DEF Fresher, Apart
<1> QED BY <1>2, <1>4, <1>5 DEF Fresher

-----------------------------------------------------------------------------
(* The server.                                                             *)

LEMMA HandleLoadFresh ==
  ASSUME Inv, Fresher, NEW k \in Numbers, HandleLoad(k)
  PROVE  Fresher'
<1>a. PICK view : view = IF call[k].screen \in Deliveries /\ status # "en_livraison"
                        THEN NoView ELSE Stored
  OBVIOUS
<1>b. PICK c : c = [call[k] EXCEPT !.stage = "done", !.read = view]
  OBVIOUS
<1>1. /\ call[k].stage = "sent" /\ call[k].kind = "load" /\ call' = [call EXCEPT ![k] = c]
      /\ UNCHANGED <<status, version, crossed, order, written, tidy>>
  BY <1>a, <1>b DEF HandleLoad, history, database
<1>2. /\ call[k] \in Call /\ CallFresh(call[k]) /\ CallOK(call[k])
      /\ view \in View \cup {NoView} /\ version \in Nat
      /\ written[call[k].screen] <= version
  BY <1>1, <1>a, StoredView DEF Inv, Typed, CallOK, Fresher, ScreenFresh
<1>3. (view # NoView => view.asOf = version /\ view.status = status)
  BY <1>a DEF Stored
<1>4. /\ c \in Call /\ c.stage = "done" /\ c.screen = call[k].screen
      /\ c.kind = call[k].kind /\ c.then = call[k].then /\ c.alone = call[k].alone
      /\ c.asOf = call[k].asOf /\ c.read = view
  BY <1>b, <1>2 DEF Call, Stages
<1>5. Becomes(k, c) /\ Alone(k, c)
  BY <1>1, <1>4, Replaced, ReplacedAlone DEF Inv
<1>6. CallFresh(c)'
  <2>1. c.asOf <= version
    BY <1>1, <1>2, <1>4 DEF CallFresh
  <2>2. Known(view)' /\ Fresh(view)'
    BY <1>1, <1>2, <1>3 DEF Known, Fresh
  <2> QED BY <1>1, <1>2, <1>3, <1>4, <2>1, <2>2 DEF CallFresh
<1>7. Restores'
  BY <1>1, <1>4, <1>5, RestoresStays
<1> QED BY <1>1, <1>2, <1>4, <1>5, <1>6, <1>7, HandledFresh

LEMMA HandleSaveFresh ==
  ASSUME Inv, Fresher, NEW k \in Numbers, HandleSave(k)
  PROVE  Fresher'
<1>a. PICK view : view = [Stored EXCEPT !.asOf = version']
  OBVIOUS
<1>b. PICK c : c = [call[k] EXCEPT !.stage = "done", !.read = view]
  OBVIOUS
<1>1. /\ call[k].stage = "sent" /\ call[k].kind = "status" /\ call' = [call EXCEPT ![k] = c]
      /\ version' = version + 1 /\ crossed' = (crossed \/ Running # {})
      /\ UNCHANGED <<order, written, tidy>>
  BY <1>a, <1>b DEF HandleSave
<1>2. /\ call[k] \in Call /\ CallFresh(call[k]) /\ version \in Nat /\ version' \in Nat
      /\ version' > version
  BY <1>1 DEF Inv, Typed, Fresher
<1>3. view \in View /\ view.asOf = version'
  BY <1>a, <1>2, StoredView DEF Inv, View
<1>4. /\ c \in Call /\ c.stage = "done" /\ c.screen = call[k].screen
      /\ c.kind = call[k].kind /\ c.then = call[k].then /\ c.alone = call[k].alone
      /\ c.asOf = call[k].asOf /\ c.read = view
  BY <1>b, <1>2, <1>3 DEF Call, Stages
<1>5. Becomes(k, c) /\ Alone(k, c)
  BY <1>1, <1>4, Replaced, ReplacedAlone DEF Inv
<1>6. CallFresh(c)'
  <2>1. c.asOf <= version' /\ c.asOf \in Nat
    BY <1>1, <1>2, <1>4 DEF CallFresh, Call
  <2>2. Known(view)'
    BY <1>2, <1>3 DEF Known
  <2> QED BY <1>1, <1>4, <2>1, <2>2 DEF CallFresh
<1>7. Restores'
  <2>1. Running' = Running
    BY <1>1, <1>4, <1>5, RunningBecomes DEF Running
  <2> QED BY <1>1, <2>1 DEF Restores
<1> QED BY <1>1, <1>2, <1>4, <1>5, <1>6, <1>7, HandledFresh

LEMMA BeginTransferFresh ==
  ASSUME Inv, Fresher, NEW k \in Numbers, BeginTransfer(k)
  PROVE  Fresher'
<1>0. PICK stage : stage = IF MayTransfer THEN "running" ELSE "refused"
  OBVIOUS
<1>a. PICK view : view = Stored
  OBVIOUS
<1>b. PICK c : c = [call[k] EXCEPT !.stage = stage, !.read = view]
  OBVIOUS
<1>1. /\ call[k].stage = "sent" /\ call[k].kind = "transfer" /\ call' = [call EXCEPT ![k] = c]
      /\ UNCHANGED <<status, version, crossed, order, written, tidy>>
  BY <1>0, <1>a, <1>b DEF BeginTransfer, history, database
<1>2. /\ call[k] \in Call /\ CallFresh(call[k]) /\ version \in Nat
      /\ stage \in {"running", "refused"}
  BY <1>0, <1>1 DEF Inv, Typed, Fresher
<1>3. view \in View /\ view.asOf = version /\ view.status = status
  BY <1>a, StoredView DEF Inv, Stored
<1>4. /\ c \in Call /\ c.stage = stage /\ c.screen = call[k].screen
      /\ c.kind = call[k].kind /\ c.then = call[k].then /\ c.alone = call[k].alone
      /\ c.asOf = call[k].asOf /\ c.read = view
  BY <1>b, <1>2, <1>3 DEF Call, Stages
<1>5. Becomes(k, c) /\ Alone(k, c)
  BY <1>1, <1>4, Replaced, ReplacedAlone DEF Inv
<1>6. CallFresh(c)'
  <2>1. c.asOf <= version
    BY <1>1, <1>2, <1>4 DEF CallFresh
  <2>2. Known(view)'
    BY <1>1, <1>2, <1>3 DEF Known
  <2> QED BY <1>1, <1>2, <1>4, <2>1, <2>2 DEF CallFresh
<1>7. Restores'
  BY <1>1, <1>3, <1>4, <1>5, RunningBecomes DEF Fresher, Restores
<1> QED BY <1>1, <1>2, <1>4, <1>5, <1>6, <1>7, HandledFresh DEF Inv, Typed

LEMMA TransferLineFresh ==
  ASSUME Inv, Fresher, NEW k \in Numbers, NEW l \in Lines, TransferLine(k, l)
  PROVE  Fresher'
<1>b. PICK c : c = [call[k] EXCEPT !.moved = @ \cup {l}]
  OBVIOUS
<1>1. /\ call[k].stage = "running" /\ call' = [call EXCEPT ![k] = c]
      /\ version' = version + 1
      /\ UNCHANGED <<status, order, written, tidy, crossed>>
  BY <1>b DEF TransferLine
<1>2. /\ call[k] \in Call /\ CallFresh(call[k]) /\ CallOK(call[k])
      /\ version \in Nat /\ version' \in Nat /\ version' > version
  BY <1>1 DEF Inv, Typed, Fresher
<1>4. /\ c \in Call /\ c.stage = call[k].stage /\ c.screen = call[k].screen
      /\ c.kind = call[k].kind /\ c.then = call[k].then /\ c.alone = call[k].alone
      /\ c.asOf = call[k].asOf /\ c.read = call[k].read
  BY <1>b, <1>2 DEF Call
<1>5. Becomes(k, c) /\ Alone(k, c)
  BY <1>1, <1>4, Replaced, ReplacedAlone DEF Inv
<1>6. CallFresh(c)'
  <2>1. c.asOf \in Nat /\ c.read \in View /\ c.asOf <= version /\ Known(c.read)
        /\ c.kind = "transfer" /\ c.stage = "running"
    BY <1>1, <1>2, <1>4 DEF CallFresh, Call, CallOK
  <2>2. c.asOf <= version' /\ Known(c.read)'
    BY <1>2, <2>1 DEF Known, View
  <2> QED BY <2>1, <2>2 DEF CallFresh
<1>7. Restores'
  <2>1. k \in Running
    BY <1>1 DEF Running
  <2> QED BY <1>1, <1>4, <1>5, <2>1, RunningBecomes DEF Fresher, Restores
<1> QED BY <1>1, <1>2, <1>4, <1>5, <1>6, <1>7, HandledFresh

LEMMA EndTransferFresh ==
  ASSUME Inv, Fresher, NEW k \in Numbers, EndTransfer(k)
  PROVE  Fresher'
<1>1. call[k].stage = "running" /\ k \in Running /\ UNCHANGED <<order, written, tidy, crossed>>
  BY DEF EndTransfer, Running
<1>2. /\ call[k] \in Call /\ CallOK(call[k]) /\ call[k].read \in View
      /\ call[k].kind = "transfer" /\ CallFresh(call[k]) /\ version \in Nat
  BY <1>1 DEF Inv, Typed, CallOK, Fresher
<1>3. CASE call[k].moved = {}
  <2>1. PICK c : c = [call[k] EXCEPT !.stage = "refused"]
    OBVIOUS
  <2>2. call' = [call EXCEPT ![k] = c] /\ status' = status /\ version' = version
    BY <1>3, <2>1 DEF EndTransfer
  <2>3. /\ c \in Call /\ c.stage = "refused" /\ c.screen = call[k].screen
        /\ c.kind = call[k].kind /\ c.then = call[k].then /\ c.alone = call[k].alone
        /\ c.asOf = call[k].asOf /\ c.read = call[k].read
    BY <1>2, <2>1 DEF Call, Stages
  <2>4. Becomes(k, c) /\ Alone(k, c)
    BY <2>2, <2>3, Replaced, ReplacedAlone DEF Inv
  <2>5. CallFresh(c)'
    BY <1>1, <1>2, <2>2, <2>3 DEF CallFresh, Known
  <2>6. Restores'
    BY <1>1, <2>2, <2>3, <2>4, RestoresStays
  <2> QED BY <1>1, <1>2, <2>2, <2>3, <2>4, <2>5, <2>6, HandledFresh
<1>4. CASE call[k].moved # {}
  <2>0. /\ call' = [call EXCEPT ![k].stage = "done", ![k].read.asOf = version']
        /\ status' = call[k].read.status /\ version' = version + 1
    BY <1>4 DEF EndTransfer
  <2>1. PICK view : view = [call[k].read EXCEPT !.asOf = version']
    OBVIOUS
  <2>2. PICK c : c = [call[k] EXCEPT !.stage = "done", !.read = view]
    OBVIOUS
  <2>3. view \in View /\ view.asOf = version' /\ version' \in Nat /\ version' > version
    BY <1>2, <2>0, <2>1 DEF View
  <2>4. call' = [call EXCEPT ![k] = c]
    BY <1>2, <2>0, <2>1, <2>2 DEF Call, Inv, Typed
  <2>5. /\ c \in Call /\ c.stage = "done" /\ c.screen = call[k].screen
        /\ c.kind = call[k].kind /\ c.then = call[k].then /\ c.alone = call[k].alone
        /\ c.asOf = call[k].asOf /\ c.read = view
    BY <1>2, <2>2, <2>3 DEF Call, Stages
  <2>6. Becomes(k, c) /\ Alone(k, c)
    BY <2>4, <2>5, Replaced, ReplacedAlone DEF Inv
  <2>7. CallFresh(c)'
    <3>1. c.asOf <= version' /\ Known(view)' /\ c.kind = "transfer"
      BY <1>1, <1>2, <2>3, <2>5 DEF CallFresh, Call, Known
    <3> QED BY <2>5, <3>1 DEF CallFresh
  <2>8. Restores'
    <3>1. Running' \subseteq Running
          /\ \A j \in Running' : call'[j].read = call[j].read
      BY <2>5, <2>6, RunningBecomes
    <3>2. ~crossed => call[k].read.status = status
      BY <1>1 DEF Fresher, Restores
    <3> QED BY <1>1, <2>0, <3>1, <3>2 DEF Fresher, Restores
  <2> QED BY <1>1, <1>2, <2>3, <2>5, <2>6, <2>7, <2>8, HandledFresh
<1> QED BY <1>3, <1>4

LEMMA LoseFresh ==
  ASSUME Inv, Fresher, NEW k \in Numbers, Lose(k)
  PROVE  Fresher'
<1>1. PICK c : c = [call[k] EXCEPT !.stage = "failed"]
  OBVIOUS
<1>2. /\ call[k].stage \in {"sent", "running", "done"} /\ call' = [call EXCEPT ![k] = c]
      /\ UNCHANGED <<status, version, order, written, tidy, crossed>>
  BY <1>1 DEF Lose, history, database
<1>3. call[k] \in Call /\ CallFresh(call[k]) /\ version \in Nat
  BY DEF Inv, Typed, Fresher
<1>4. /\ c \in Call /\ c.stage = "failed" /\ c.screen = call[k].screen
      /\ c.kind = call[k].kind /\ c.then = call[k].then /\ c.alone = call[k].alone
      /\ c.asOf = call[k].asOf /\ c.read = call[k].read
  BY <1>1, <1>3 DEF Call, Stages
<1>5. Becomes(k, c) /\ Alone(k, c)
  BY <1>2, <1>4, Replaced, ReplacedAlone DEF Inv
<1>6. CallFresh(c)'
  BY <1>2, <1>3, <1>4 DEF CallFresh, Known, Fresh
<1>7. Restores'
  BY <1>2, <1>4, <1>5, RestoresStays
<1> QED BY <1>2, <1>3, <1>4, <1>5, <1>6, <1>7, HandledFresh

-----------------------------------------------------------------------------
(* The user.                                                               *)

LEMMA LoadFields ==
  ASSUME NEW s \in Screens, NEW kind \in Kinds
  PROVE  /\ Load(s, kind).asOf = 0 /\ Load(s, kind).read = NoView
         /\ Load(s, kind).alone => (s \in Deliveries => Under(s, "status") = {})
<1>1. PICK alone : alone = (Under(s, "load") = {} /\ (s \in Deliveries => Under(s, "status") = {}))
  OBVIOUS
<1>2. Load(s, kind) = [Unsent EXCEPT !.stage = "sent", !.screen = s, !.then = kind,
                                     !.alone = alone]
  BY <1>1 DEF Load
<1>3. Load(s, kind).asOf = 0 /\ Load(s, kind).read = NoView /\ Load(s, kind).alone = alone
  <2> HIDE DEF NoView
  <2> QED BY <1>2 DEF Unsent
<1> QED BY <1>1, <1>3

\* A load that s sends.
LEMMA LoadMoves ==
  ASSUME Inv, NEW k \in Numbers, NEW s \in Screens, NEW kind \in Kinds,
         NEW c, c = Load(s, kind), call' = [Overlapped(s) EXCEPT ![k] = c]
  PROVE  /\ Becomes(k, c) /\ Alone(k, c) /\ Overtaken(k, s)
         /\ Apart(s)' /\ (version' = version => CallFresh(c)')
         /\ Following(s, kind)'
<1>1. /\ c \in Call /\ c.stage = "sent" /\ c.screen = s /\ c.kind = "load" /\ c.then = kind
      /\ c.asOf = 0 /\ c.read = NoView
      /\ c.alone => (s \in Deliveries => Under(s, "status") = {})
  BY LoadCall, LoadFields
<1>2. Becomes(k, c) /\ Alone(k, c) /\ Overtaken(k, s)
  BY <1>1, ReplacedOverlapped, OverlappedAlone DEF Inv
<1>3. Apart(s)'
  <2>1. Under(s, "status")' \subseteq Under(s, "status")
    BY <1>1, <1>2, UnderBecomes
  <2>2. Under(s, "load")' \subseteq Under(s, "load") \cup {k}
    BY <1>1, <1>2, UnderBecomes
  <2> QED BY <1>1, <1>2, <2>1, <2>2 DEF Apart, Alone, Overtaken
<1>4. version' = version => CallFresh(c)'
  BY <1>1 DEF CallFresh, Known, Fresh, Inv, Typed
<1>5. Following(s, kind)'
  BY <1>1, <1>2, FollowsBecomes DEF Following
<1> QED BY <1>1, <1>2, <1>3, <1>4, <1>5

LEMMA FollowingGrows ==
  ASSUME NEW k \in Numbers, NEW c, Becomes(k, c),
         call[k].stage = "none" \/ call[k].kind # "load", NEW s, NEW then,
         Following(s, then)
  PROVE  Following(s, then)'
<1>1. PICK j \in Numbers : Follows(j, s, then)
  BY DEF Following
<1>2. j # k
  BY <1>1 DEF Follows
<1> QED BY <1>1, <1>2, FollowsBecomes DEF Following

\* The screen shows what it did.
LEMMA ShownStays ==
  ASSUME Inv, Fresher, NEW k \in Numbers, NEW c, Becomes(k, c), NEW s \in Screens,
         call[k].stage = "none" \/ call[k].kind # "load",
         order'[s] = order[s], tidy'[s] => tidy[s],
         written'[s] = written[s], version' = version, status' = status
  PROVE  ScreenFresh(s)'
<1>1. ASSUME NEW then, Following(s, then) PROVE Following(s, then)'
  BY <1>1, FollowingGrows
<1> QED BY <1>1 DEF Fresher, ScreenFresh, Known, Fresh

LEMMA StartTidy ==
  ASSUME Typed, NEW s \in Screens, StartLoad(s)
  PROVE  (tidy'[s] => tidy[s]) /\ \A t \in Screens \ {s} : tidy'[t] = tidy[t]
<1>1. PICK still : still = (tidy[s] /\ Under(s, "load") = {})
  OBVIOUS
<1>2. tidy' = [tidy EXCEPT ![s] = still]
  BY <1>1 DEF StartLoad
<1> QED BY <1>1, <1>2 DEF Typed

LEMMA LoadOrderFresh ==
  ASSUME Inv, Fresher, NEW s \in Screens, LoadOrder(s)
  PROVE  Fresher'
<1>1. PICK k \in Numbers : k = Free /\ call[k].stage = "none"
  BY FreeUnused DEF LoadOrder
<1>2. PICK c : c = Load(s, "load")
  OBVIOUS
<1>3. /\ call' = [Overlapped(s) EXCEPT ![k] = c] /\ StartLoad(s)
      /\ UNCHANGED <<status, order, version, written, crossed>>
  BY <1>1, <1>2 DEF LoadOrder, database
<1>4. /\ Becomes(k, c) /\ Alone(k, c) /\ c.stage = "sent" /\ c.screen = s
      /\ Apart(s)' /\ CallFresh(c)'
  <2>1. "load" \in Kinds /\ version' = version
    BY <1>3 DEF Kinds
  <2>2. c.stage = "sent" /\ c.screen = s
    BY <1>2, <2>1, LoadCall
  <2>3. Becomes(k, c) /\ Alone(k, c) /\ Apart(s)' /\ CallFresh(c)'
    BY <1>2, <1>3, <2>1, LoadMoves
  <2> QED BY <2>2, <2>3
<1>5. ScreenFresh(s)'
  BY <1>1, <1>3, <1>4, StartTidy, ShownStays DEF Inv
<1> QED BY <1>1, <1>3, <1>4, <1>5, StartTidy, ScreenMoves DEF Inv

\* A change of the status, or a transfer, is sent.
LEMMA SendFresh ==
  ASSUME Inv, Fresher, NEW s \in Screens, NEW kind \in {"status", "transfer"},
         NEW to \in Statuses \cup {"none"}, NEW ask \in [Lines -> Nat],
         Shown(s), Send(s, kind, to, ask),
         kind = "status" => ~saving[s] /\ WorkflowStep(order[s].status, to),
         tidy'[s] => tidy[s], \A t \in Screens \ {s} : tidy'[t] = tidy[t],
         UNCHANGED <<status, order, version, written, crossed>>
  PROVE  Fresher'
<1>1. PICK k \in Numbers : k = Free /\ call[k].stage = "none"
  BY FreeUnused DEF Send
<1>2. PICK view : view = order[s].asOf
  OBVIOUS
<1>3. PICK c : c = [Unsent EXCEPT !.stage = "sent", !.screen = s, !.kind = kind, !.to = to,
                                  !.ask = ask, !.asOf = view]
  OBVIOUS
<1>4. call' = [IF s \in Deliveries THEN Overlapped(s) ELSE call EXCEPT ![k] = c]
  BY <1>1, <1>2, <1>3 DEF Send
<1>5. order[s] \in View /\ view \in Nat
  BY <1>2, ShownView DEF Inv, View
<1>6. /\ c \in Call /\ c.stage = "sent" /\ c.screen = s /\ c.kind = kind
      /\ c.to = to /\ c.asOf = view /\ c.read = NoView
  <2>1. Unsent \in Call /\ Unsent.read = NoView
    BY UnsentCall DEF Unsent
  <2> HIDE DEF NoView
  <2> QED BY <1>3, <1>5, <2>1 DEF Call, Stages, Kinds
<1>7. Becomes(k, c) /\ Alone(k, c) /\ (s \in Deliveries => Overtaken(k, s))
  BY <1>4, <1>6, Replaced, ReplacedOverlapped, ReplacedAlone, OverlappedAlone DEF Inv
<1>8. CallFresh(c)'
  <2>1. view <= version
    BY <1>2, <1>5 DEF Fresher, ScreenFresh, Known, Shown
  <2>2. ASSUME kind = "status", view = version PROVE WorkflowStep(status, to)
    <3>1. ~Following(s, "status")
      <4>1. ChangeUnder(s, "status") = {}
        BY <2>2 DEF Inv, Held, Holds
      <4> QED BY <4>1 DEF Following, Follows, ChangeUnder
    <3>2. order[s].status = status
      BY <1>2, <2>2, <3>1 DEF Fresher, ScreenFresh, Fresh, Shown
    <3> QED BY <2>2, <3>2
  <2> QED BY <1>6, <2>1, <2>2 DEF CallFresh, Known, WorkflowStep
<1>9. ScreenFresh(s)'
  BY <1>1, <1>7, ShownStays
<1>10. Apart(s)'
  <2>1. Under(s, "load")' \subseteq Under(s, "load") \ {k}
    BY <1>6, <1>7, UnderBecomes
  <2> QED BY <1>7, <2>1 DEF Apart, Overtaken
<1> QED BY <1>1, <1>6, <1>7, <1>8, <1>9, <1>10, ScreenMoves

LEMMA UserFresh ==
  ASSUME Inv, Fresher, NEW s \in Screens, User(s)
  PROVE  Fresher'
<1>0. Nothing \in [Lines -> Nat]
  BY DEF Nothing
<1>1. ASSUME NEW next \in Statuses, ApplyStatus(s, next) PROVE Fresher'
  <2>1. /\ Shown(s) /\ ~saving[s] /\ Send(s, "status", next, Nothing)
        /\ UNCHANGED <<status, order, version, written, crossed, tidy>>
        /\ canApplyStatusTransition(order[s].status, next, s \in Admins)
        /\ order[s].status \in ToSet(STATUS_WORKFLOW)
    BY <1>1 DEF ApplyStatus, history, database
  <2>2. order[s].status # "annuler"
    BY <2>1 DEF ToSet, STATUS_WORKFLOW
  <2>3. WorkflowStep(order[s].status, next)
    BY <2>1, <2>2, AllowedStep
  <2> QED BY <1>0, <2>1, <2>3, SendFresh
<1>2. ASSUME NEW next \in Statuses, MarkStatus(s, next) PROVE Fresher'
  <2>1. PICK still : still = (tidy[s] /\ Under(s, "load") = {})
    OBVIOUS
  <2>2. /\ Shown(s) /\ ~saving[s] /\ Send(s, "status", next, Nothing)
        /\ tidy' = [tidy EXCEPT ![s] = still]
        /\ UNCHANGED <<status, order, version, written, crossed>>
        /\ canApplyStatusTransition(order[s].status, next, s \in Admins)
        /\ next \in {"payer_recue", "annuler"}
    BY <1>2, <2>1 DEF MarkStatus, database
  <2>3. WorkflowStep(order[s].status, next)
    BY <2>2, AllowedStep
  <2>4. (tidy'[s] => tidy[s]) /\ \A t \in Screens \ {s} : tidy'[t] = tidy[t]
    BY <2>1, <2>2 DEF Inv, Typed
  <2> QED BY <1>0, <2>2, <2>3, <2>4, SendFresh
<1>3. CASE TransferSelected(s)
  <2>1. /\ Shown(s) /\ Send(s, "transfer", "none", Asked(s))
        /\ UNCHANGED <<status, order, version, written, crossed, tidy>>
    BY <1>3 DEF TransferSelected, CanTransfer, history, database
  <2>2. order[s] \in View
    BY <2>1, ShownView DEF Inv
  <2>3. ASSUME NEW l \in Lines PROVE getTransferQty(s, l) \in Nat
    BY <2>2 DEF getTransferQty, View, Inv, Typed
  <2>4. Asked(s) \in [Lines -> Nat]
    BY <2>1, <2>3 DEF Asked
  <2> QED BY <2>1, <2>4, SendFresh
<1>4. ASSUME NEW l \in Lines, ToggleLine(s, l) \/ SetTransferQty(s, l) PROVE Fresher'
  <2>1. UNCHANGED <<status, order, call, version, written, tidy, crossed>>
    BY <1>4 DEF ToggleLine, SetTransferQty, history, database
  <2> QED BY <2>1 DEF Fresher, CallFresh, ScreenFresh, Known, Fresh, Following, Follows,
                      Apart, Under, Restores, Running
<1> QED BY <1>1, <1>2, <1>3, <1>4, LoadOrderFresh DEF User

-----------------------------------------------------------------------------
(* The answers.                                                            *)

\* A call that ends.
LEMMA EndMoves ==
  ASSUME Inv, Fresher, NEW k \in Numbers, NEW s \in Screens, Close(k)
  PROVE  /\ Becomes(k, Unsent) /\ Alone(k, Unsent) /\ Unsent.stage = "none"
         /\ CallFresh(Unsent)' /\ Apart(s)'
<1>1. Becomes(k, Unsent) /\ Alone(k, Unsent) /\ Unsent.stage = "none"
  BY Ended, ReplacedAlone DEF Inv, Close
<1>2. CallFresh(Unsent)'
  BY <1>1 DEF CallFresh
<1>3. Apart(s)'
  <2>1. Under(s, "load")' \subseteq Under(s, "load") \ {k}
        /\ Under(s, "status")' \subseteq Under(s, "status")
    BY <1>1, UnderBecomes
  <2>2. Under(s, "load") \subseteq Numbers
    BY DEF Under
  <2> QED BY <1>1, <2>1, <2>2 DEF Fresher, Apart, Alone
<1> QED BY <1>1, <1>2, <1>3

LEMMA LoadEndsFresh ==
  ASSUME Inv, Fresher, NEW k \in Numbers, ReceiveLoad(k) \/ LoadFails(k)
  PROVE  Fresher'
<1>1. PICK s \in Screens : s = call[k].screen
  BY DEF Inv, CallOK, ReceiveLoad, LoadFails
<1>2. /\ call[k].stage # "none" /\ Close(k)
      /\ UNCHANGED <<status, version, written, crossed>>
  BY DEF ReceiveLoad, LoadFails, AfterLoad, database
<1>3. /\ Becomes(k, Unsent) /\ Alone(k, Unsent) /\ Unsent.stage = "none"
      /\ CallFresh(Unsent)' /\ Apart(s)'
  BY <1>2, EndMoves
<1>4. /\ \A t \in Screens \ {s} : order'[t] = order[t] /\ tidy'[t] = tidy[t]
      /\ ScreenFresh(s)'
  <2>1. CASE ReceiveLoad(k)
    <3>1. PICK view : view = call[k].read
      OBVIOUS
    <3>2. PICK alone : alone = call[k].alone
      OBVIOUS
    <3>3. /\ order' = [order EXCEPT ![s] = view] /\ tidy' = [tidy EXCEPT ![s] = alone]
          /\ call[k].stage = "done" /\ call[k].kind = "load"
      BY <1>1, <2>1, <3>1, <3>2 DEF ReceiveLoad
    <3>4. /\ order'[s] = view /\ tidy'[s] = alone
          /\ \A t \in Screens \ {s} : order'[t] = order[t] /\ tidy'[t] = tidy[t]
      BY <3>3 DEF Inv, Typed
    <3>5. /\ Known(view) /\ Fresh(view)
          /\ (alone /\ view # NoView => view.asOf >= written[s])
      BY <1>1, <3>1, <3>2, <3>3 DEF Fresher, CallFresh
    <3>6. Known(order[s])' /\ Fresh(order[s])'
      BY <1>2, <3>4, <3>5 DEF Known, Fresh
    <3>7. written'[s] <= version'
      BY <1>2 DEF Fresher, ScreenFresh
    <3> QED BY <1>2, <3>4, <3>5, <3>6, <3>7 DEF ScreenFresh
  <2>2. CASE LoadFails(k)
    <3>1. order' = [order EXCEPT ![s] = NoView] /\ tidy' = tidy
      BY <1>1, <2>2 DEF LoadFails
    <3>2. order'[s] = NoView /\ \A t \in Screens \ {s} : order'[t] = order[t]
      <4> HIDE DEF NoView
      <4> QED BY <3>1 DEF Inv, Typed
    <3>3. written'[s] <= version'
      BY <1>2 DEF Fresher, ScreenFresh
    <3> QED BY <3>1, <3>2, <3>3 DEF ScreenFresh, Known, Fresh
  <2> QED BY <2>1, <2>2
<1> QED BY <1>1, <1>2, <1>3, <1>4, ScreenMoves

LEMMA CallFailsFresh ==
  ASSUME Inv, Fresher, NEW k \in Numbers, CallFails(k)
  PROVE  Fresher'
<1>1. PICK s \in Screens : s = call[k].screen
  BY DEF Inv, CallOK, CallFails
<1>2. /\ call[k].stage # "none" /\ call[k].kind # "load" /\ Close(k)
      /\ UNCHANGED <<status, version, written, crossed, order, tidy>>
  BY DEF CallFails, database, history
<1>3. /\ Becomes(k, Unsent) /\ Alone(k, Unsent) /\ Unsent.stage = "none"
      /\ CallFresh(Unsent)' /\ Apart(s)'
  BY <1>2, EndMoves
<1>4. ScreenFresh(s)'
  BY <1>2, <1>3, ShownStays
<1> QED BY <1>1, <1>2, <1>3, <1>4, ScreenMoves

\* What a screen shows of its own change of the status is not newer than the
\* order.
LEMMA PatchedKnown ==
  ASSUME Inv, Fresher, NEW k \in Numbers, NEW s \in Screens, call[k].read \in View,
         call[k].to \in Statuses, call[k].stage # "none"
  PROVE  Known(Patched(k, s))
<1>1. PICK base : base = IF Shown(s) THEN order[s]
                         ELSE [status |-> "none", quantity |-> Nothing, asOf |-> 0]
  OBVIOUS
<1>2. PICK told : told = IF call[k].read.asOf = base.asOf + 1 THEN call[k].read.asOf
                         ELSE base.asOf
  OBVIOUS
<1>3. PICK to : to = call[k].to
  OBVIOUS
<1>4. Patched(k, s) = [base EXCEPT !.status = to, !.asOf = told]
  BY <1>1, <1>2, <1>3 DEF Patched
<1>5. base \in View
  BY <1>1, ShownView DEF View, Nothing, Inv
<1>6. base.asOf <= version
  BY <1>1 DEF Fresher, ScreenFresh, Known, Shown, Inv, Typed
<1>7. call[k].read.asOf <= version
  <2>1. call[k].read # NoView
    BY DEF View, NoView
  <2> QED BY <2>1 DEF Fresher, CallFresh, Known
<1>8. Patched(k, s).asOf = told
  BY <1>4, <1>5 DEF View
<1> QED BY <1>2, <1>6, <1>7, <1>8 DEF Known

LEMMA AnswerFresh ==
  ASSUME Inv, Fresher, NEW k \in Numbers, ReceiveStatus(k) \/ ReceiveTransfer(k)
  PROVE  Fresher'
<1>1. PICK s \in Screens : s = call[k].screen
  BY DEF Inv, CallOK, ReceiveStatus, ReceiveTransfer
<1>2. PICK told : told = call[k].read.asOf
  OBVIOUS
<1>3. /\ call[k].stage = "done" /\ call[k].kind \in {"status", "transfer"}
      /\ written' = [written EXCEPT ![s] = told]
      /\ UNCHANGED <<status, version, crossed>>
  BY <1>1, <1>2 DEF ReceiveStatus, ReceiveTransfer, Told, database
<1>4. /\ call[k].read \in View /\ CallFresh(call[k])
      /\ call[k].kind = "status" => call[k].to \in Statuses
  BY <1>3 DEF Inv, CallOK, Fresher
<1>5. /\ written'[s] = told /\ told <= version
      /\ \A t \in Screens \ {s} : written'[t] = written[t]
  <2>1. call[k].read # NoView
    BY <1>4 DEF View, NoView
  <2> QED BY <1>2, <1>3, <1>4, <2>1 DEF CallFresh, Known, Inv, Typed
<1>6. CASE /\ ThenLoad(k, s)
           /\ \/ order' = order
              \/ /\ call[k].kind = "status"
                 /\ order' = [order EXCEPT ![s] = Patched(k, s)]
  <2>1. PICK kind \in {"status", "transfer"} : kind = call[k].kind
    BY <1>3
  <2>2. PICK c : c = Load(s, kind)
    OBVIOUS
  <2>3. call' = [Overlapped(s) EXCEPT ![k] = c] /\ StartLoad(s) /\ kind \in Kinds
        /\ version' = version
    BY <1>3, <1>6, <2>1, <2>2 DEF ThenLoad, Kinds
  <2>4. /\ Becomes(k, c) /\ Alone(k, c) /\ Overtaken(k, s) /\ c.stage = "sent" /\ c.screen = s
        /\ Apart(s)' /\ CallFresh(c)' /\ Following(s, kind)'
    <3>1. c.stage = "sent" /\ c.screen = s
      BY <2>2, <2>3, LoadCall
    <3>2. /\ Becomes(k, c) /\ Alone(k, c) /\ Overtaken(k, s)
          /\ Apart(s)' /\ CallFresh(c)' /\ Following(s, kind)'
      BY <2>2, <2>3, LoadMoves
    <3> QED BY <3>1, <3>2
  <2>5. /\ Known(order'[s]) /\ (Fresh(order'[s]) \/ Following(s, "status")')
        /\ \A t \in Screens \ {s} : order'[t] = order[t]
    <3>1. CASE order' = order
      <4>1. Following(s, "status") => Following(s, "status")'
        BY <1>3, <2>4, FollowingGrows
      <4> QED BY <3>1, <4>1 DEF Fresher, ScreenFresh
    <3>2. CASE call[k].kind = "status" /\ order' = [order EXCEPT ![s] = Patched(k, s)]
      <4>1. PICK view : view = Patched(k, s)
        OBVIOUS
      <4>2. Known(view)
        BY <1>3, <1>4, <3>2, <4>1, PatchedKnown
      <4>3. order'[s] = view /\ \A t \in Screens \ {s} : order'[t] = order[t]
        BY <3>2, <4>1 DEF Inv, Typed
      <4> QED BY <2>1, <2>4, <3>2, <4>2, <4>3
    <3> QED BY <1>6, <3>1, <3>2
  <2>6. Known(order[s])' /\ (Fresh(order[s])' \/ Following(s, "status")')
    BY <1>3, <2>5 DEF Known, Fresh
  <2>7. Following(s, "status")' \/ Following(s, "transfer")'
    BY <2>1, <2>4
  <2>8. ScreenFresh(s)'
    BY <1>3, <1>5, <2>6, <2>7 DEF ScreenFresh
  <2>9. \A t \in Screens \ {s} : tidy'[t] = tidy[t]
    BY <2>3, StartTidy DEF Inv
  <2> QED BY <1>1, <1>3, <1>5, <2>4, <2>5, <2>8, <2>9, ScreenMoves
<1>7. CASE /\ call[k].kind = "status" /\ s \in Deliveries
           /\ order' = [order EXCEPT ![s] = NoView] /\ Close(k) /\ tidy' = tidy
  <2>1. /\ Becomes(k, Unsent) /\ Alone(k, Unsent) /\ Unsent.stage = "none"
        /\ CallFresh(Unsent)' /\ Apart(s)'
    BY <1>7, EndMoves
  <2>2. Overtaken(k, s)
    <3>1. k \in Under(s, "status")
      BY <1>1, <1>3, <1>7 DEF Under
    <3>2. \A j \in Under(s, "load") : ~call[j].alone
      BY <1>7, <3>1 DEF Fresher, Apart
    <3>3. Under(s, "load") \subseteq Numbers
      BY DEF Under
    <3> QED BY <2>1, <3>2, <3>3 DEF Overtaken, Alone
  <2>3. order'[s] = NoView /\ \A t \in Screens \ {s} : order'[t] = order[t]
    <3> HIDE DEF NoView
    <3> QED BY <1>7 DEF Inv, Typed
  <2>4. ScreenFresh(s)'
    BY <1>3, <1>5, <2>3 DEF ScreenFresh, Known, Fresh
  <2> QED BY <1>1, <1>3, <1>5, <1>7, <2>1, <2>2, <2>3, <2>4, ScreenMoves
<1>8. CASE ReceiveTransfer(k)
  BY <1>1, <1>6, <1>8 DEF ReceiveTransfer
<1>9. CASE ReceiveStatus(k)
  BY <1>1, <1>3, <1>6, <1>7, <1>9 DEF ReceiveStatus, Screens
<1> QED BY <1>8, <1>9

LEMMA InitFresh == Init => Fresher
<1> SUFFICES ASSUME Init PROVE Fresher
  OBVIOUS
<1>1. \A k \in Numbers : call[k].stage = "none"
  BY UnsentCall DEF Init
<1>2. ASSUME NEW s \in Screens PROVE ScreenFresh(s) /\ Apart(s)
  <2>1. written[s] = 0 /\ version = 0 /\ status = InitialStatus
    BY DEF Init
  <2>2. order[s] # NoView => order[s].asOf = 0 /\ order[s].status = InitialStatus
    <3>1. PICK first : first = [status |-> InitialStatus, quantity |-> InitialQuantity,
                                asOf |-> 0]
      OBVIOUS
    <3>2. order[s] = NoView \/ order[s] = first
      <4> HIDE DEF NoView
      <4> QED BY <3>1 DEF Init
    <3> QED BY <3>1, <3>2
  <2>3. Known(order[s]) /\ Fresh(order[s])
    BY <2>1, <2>2 DEF Known, Fresh
  <2>4. order[s] # NoView => order[s].asOf >= written[s]
    BY <2>1, <2>2
  <2> QED BY <1>1, <2>1, <2>3, <2>4 DEF ScreenFresh, Apart, Under
<1> QED BY <1>1, <1>2 DEF Fresher, CallFresh, Restores, Running

LEMMA NextKeepsFresher ==
  ASSUME Inv, Fresher, [Next]_vars
  PROVE  Fresher'
<1>1. CASE UNCHANGED vars
  <2>1. UNCHANGED <<status, order, call, version, written, tidy, crossed>>
    BY <1>1 DEF vars, database
  <2> QED BY <2>1 DEF Fresher, CallFresh, ScreenFresh, Known, Fresh, Following, Follows,
                      Apart, Under, Restores, Running
<1>2. ASSUME NEW s \in Screens, User(s) PROVE Fresher'
  BY <1>2, UserFresh
<1>3. ASSUME NEW k \in Numbers, Handle(k) PROVE Fresher'
  BY <1>3, HandleLoadFresh, HandleSaveFresh, BeginTransferFresh, EndTransferFresh,
     TransferLineFresh DEF Handle
<1>4. ASSUME NEW k \in Numbers, Lose(k) PROVE Fresher'
  BY <1>4, LoseFresh
<1>5. ASSUME NEW k \in Numbers, Receive(k) PROVE Fresher'
  BY <1>5, LoadEndsFresh, AnswerFresh, CallFailsFresh DEF Receive
<1> QED BY <1>1, <1>2, <1>3, <1>4, <1>5 DEF Next

LEMMA SpecFresher == Spec => []Fresher
<1> QED BY SpecInv, InitFresh, NextKeepsFresher, PTL DEF Spec

-----------------------------------------------------------------------------
(* The theorems.                                                           *)

\* The order, the screens and the calls stay well formed.
THEOREM ScreensTypeCorrect == Spec => []ScreensTypeOK
<1>1. Inv => ScreensTypeOK
  BY DEF Inv, Typed, ScreensTypeOK, Call
<1> QED BY <1>1, SpecInv, PTL

\* A transfer never asks for more of a line than the screen shows of it,
\* however many loads, transfers and failures the choice has outlived
\* (syncTransferQuantitiesFromOrder, getTransferQty).
THEOREM NeverAsksForMore == Spec => []AsksNoMoreThanShown
<1>1. Inv => AsksNoMoreThanShown
  <2> SUFFICES ASSUME Inv, NEW s \in Screens, Shown(s), NEW l \in Transferable(s)
               PROVE  Asked(s)[l] <= order[s].quantity[l]
    BY DEF AsksNoMoreThanShown
  <2>1. /\ l \in Lines /\ order[s] \in View /\ order[s].quantity[l] > 0
        /\ order[s].quantity[l] \in Nat
    BY ShownView DEF Inv, Transferable, View
  <2>2. transferQuantities[s][l] <= order[s].quantity[l]
    BY <2>1 DEF Inv, Chosen
  <2> QED BY <2>1, <2>2 DEF Asked, getTransferQty
<1> QED BY <1>1, SpecInv, PTL

\* No control of a screen stays disabled without a call that will enable it
\* again, and a screen has one change of status and one transfer under way at
\* most (loading, saving and transferring of OrderDetailCommande.vue).
THEOREM FlagsAreHeld == Spec => []FlagsHeld
<1>1. Inv => FlagsHeld
  <2>1. ASSUME Inv, NEW s \in Screens, NEW kind, NEW flag, Holds(s, kind, flag)
        PROVE  Cardinality(ChangeUnder(s, kind)) = IF flag THEN 1 ELSE 0
    BY <2>1, FS_EmptySet, FS_Singleton DEF Holds
  <2> QED BY <2>1 DEF Inv, Held, FlagsHeld
<1> QED BY <1>1, SpecInv, PTL

\* No piece of a cancelled order goes to the shop, unless a status was saved
\* during a transfer (transferCartLinesToBoutique).
THEOREM CancelledStays == Spec => CancelledStaysHere
<1> DEFINE Kept == status = "annuler" /\ ~crossed => quantity' = quantity
<1>1. ASSUME Inv, [Next]_vars PROVE [Kept]_vars
  <2>1. ASSUME NEW k \in Numbers, NEW l \in Lines, TransferLine(k, l) PROVE Kept
    <3>1. k \in Running
      BY <2>1 DEF TransferLine, Running
    <3> QED BY <1>1, <3>1 DEF Inv, Uncrossed
  <2>2. ASSUME NEW s \in Screens, User(s) PROVE quantity' = quantity
    BY <2>2 DEF User, LoadOrder, ApplyStatus, MarkStatus, ToggleLine, SetTransferQty,
                TransferSelected, database
  <2>3. ASSUME NEW k \in Numbers,
               \/ HandleLoad(k) \/ HandleSave(k) \/ BeginTransfer(k) \/ EndTransfer(k)
               \/ Lose(k)
        PROVE  quantity' = quantity
    BY <2>3 DEF HandleLoad, HandleSave, BeginTransfer, EndTransfer, Lose, database
  <2>4. ASSUME NEW k \in Numbers, Receive(k) PROVE quantity' = quantity
    BY <2>4 DEF Receive, ReceiveLoad, LoadFails, AfterLoad, ReceiveStatus,
                ReceiveTransfer, CallFails, database
  <2> QED BY <1>1, <2>1, <2>2, <2>3, <2>4 DEF Next, Handle
<1> QED BY <1>1, SpecInv, PTL DEF Spec, CancelledStaysHere

\* A screen that lets its user go on, after a save or a transfer of its own,
\* shows the order as that save left it or later, however its calls have
\* overlapped those of others and however many have failed (applyStatus and
\* transferSelectedToBoutique go on to loadOrder before they clear their flag); except
\* where two loads of the screen have overlapped.
THEOREM OwnWritesAreShown == Spec => []ReadsOwnWrites
<1>1. Inv /\ Fresher => ReadsOwnWrites
  <2> SUFFICES ASSUME Inv, Fresher, NEW s \in Screens, Shown(s), tidy[s], ~saving[s],
                      ~transferring[s]
               PROVE  order[s].asOf >= written[s]
    BY DEF ReadsOwnWrites
  <2>1. ChangeUnder(s, "status") = {} /\ ChangeUnder(s, "transfer") = {}
    BY DEF Inv, Held, Holds
  <2>2. ~Following(s, "status") /\ ~Following(s, "transfer")
    BY <2>1 DEF Following, Follows, ChangeUnder
  <2> QED BY <2>2 DEF Fresher, ScreenFresh, Shown
<1> QED BY <1>1, SpecInv, SpecFresher, PTL

\* The order only takes steps of the workflow (canApplyStatusTransition), though
\* the generic save of field_status_commande checks none; except where the
\* screen acts on a view that another save has made old, or where a transfer
\* saves the order over a status saved meanwhile.
THEOREM WorkflowIsFollowed == Spec => WorkflowFollowed
<1> DEFINE Excused ==
      \/ WorkflowStep(status, status')
      \/ \E k \in Numbers : /\ call[k].stage = "sent" /\ call'[k].stage = "done"
                            /\ call[k].asOf < version
      \/ crossed /\ \E k \in Running : call'[k].stage = "done"
    Followed == status' # status => Excused
<1>1. ASSUME Inv, Fresher, [Next]_vars PROVE [Followed]_vars
  <2>1. ASSUME NEW k \in Numbers, HandleSave(k) PROVE Followed
    <3>1. /\ call[k].stage = "sent" /\ call[k].kind = "status" /\ status' = call[k].to
          /\ CallFresh(call[k]) /\ call[k].asOf \in Nat /\ version \in Nat
      BY <1>1, <2>1 DEF HandleSave, Fresher, Inv, Typed, Call
    <3>2. CASE call[k].asOf = version
      <4>1. WorkflowStep(status, status')
        BY <3>1, <3>2 DEF CallFresh
      <4> QED BY <4>1
    <3>3. CASE call[k].asOf # version
      <4>1. call[k].asOf < version
        BY <3>1, <3>3 DEF CallFresh
      <4>2. call'[k].stage = "done"
        <5>1. PICK view : view = [Stored EXCEPT !.asOf = version']
          OBVIOUS
        <5>2. call' = [call EXCEPT ![k].stage = "done", ![k].read = view]
          BY <2>1, <5>1 DEF HandleSave
        <5>3. call \in [Numbers -> Call] /\ call[k] \in Call
          BY <1>1 DEF Inv, Typed
        <5> QED BY <5>2, <5>3 DEF Call
      <4> QED BY <3>1, <4>1, <4>2
    <3> QED BY <3>2, <3>3
  <2>2. ASSUME NEW k \in Numbers, EndTransfer(k), status' # status PROVE Excused
    <3>1. k \in Running /\ status' = call[k].read.status
          /\ call' = [call EXCEPT ![k].stage = "done", ![k].read.asOf = version']
      BY <2>2 DEF EndTransfer, Running
    <3>2. crossed
      BY <1>1, <2>2, <3>1 DEF Fresher, Restores, Inv, Typed
    <3>3. call'[k].stage = "done"
      <4>1. call \in [Numbers -> Call] /\ call[k] \in Call
        BY <1>1 DEF Inv, Typed
      <4> QED BY <3>1, <4>1 DEF Call
    <3> QED BY <3>1, <3>2, <3>3
  <2>3. ASSUME NEW s \in Screens, User(s) PROVE status' = status
    BY <2>3 DEF User, LoadOrder, ApplyStatus, MarkStatus, ToggleLine, SetTransferQty,
                TransferSelected, database
  <2>4. ASSUME NEW k \in Numbers,
               \/ HandleLoad(k) \/ BeginTransfer(k) \/ Lose(k)
               \/ \E l \in Lines : TransferLine(k, l)
        PROVE  status' = status
    BY <2>4 DEF HandleLoad, BeginTransfer, TransferLine, Lose, database
  <2>5. ASSUME NEW k \in Numbers, Receive(k) PROVE status' = status
    BY <2>5 DEF Receive, ReceiveLoad, LoadFails, AfterLoad, ReceiveStatus,
                ReceiveTransfer, CallFails, database
  <2>6. CASE UNCHANGED vars
    BY <2>6
  <2> HIDE DEF Excused
  <2> QED BY <1>1, <2>1, <2>2, <2>3, <2>4, <2>5, <2>6 DEF Next, Handle
<1> QED BY <1>1, SpecInv, SpecFresher, PTL DEF Spec, WorkflowFollowed
=============================================================================
