----------------------------- MODULE SmsDispatch -----------------------------
(***************************************************************************)
(* Text messages (module mz_sms_notification): a node of bundle sms is     *)
(* sent by the hook of its insertion, or again by an administrator, and    *)
(* what came of it is written back to the node.                            *)
(*                                                                         *)
(* Several processes send at the same time.  They share the access token   *)
(* of the provider, cached in two entries of the state (the token and when *)
(* it expires), which are read one after the other and written one after   *)
(* the other.  The hook runs inside the transaction of the insertion: the  *)
(* node, the result and a new token are seen by others when it commits,    *)
(* and are undone together when it does not, the message is not.           *)
(*                                                                         *)
(* Time passes while a process waits for the provider, for at most the     *)
(* timeout, or for a row another transaction holds.  A token is known by   *)
(* the time at which the provider ceases to take it.                       *)
(***************************************************************************)
EXTENDS Naturals, FiniteSets

CONSTANTS
  Nodes,       \* sms nodes
  Workers,     \* processes
  TokenLife,   \* how long the provider takes a token
  MinLife,     \* the shortest expires_in believed (60 seconds)
  Margin,      \* a token this near its end is not used (30 seconds)
  Timeout,     \* request_timeout, any number of seconds
  MaxTime,     \* bound: the clock
  MaxSends     \* bound: messages dispatched

ASSUME SmsAssumption ==
  /\ TokenLife \in Nat /\ MinLife \in Nat /\ Margin \in Nat /\ Timeout \in Nat
  /\ Margin < MinLife
  /\ MaxTime \in Nat /\ MaxSends \in Nat

VARIABLES
  now,         \* the clock
  cache,       \* the state: [token, expires], zero for none
  node,        \* the sms nodes
  pc, work,    \* the processes
  sends,       \* number of messages dispatched
  late,        \* messages given up for lost that the provider may still take
  accepted,    \* history: messages of each node the provider has taken
  again,       \* history: resends begun of each node while it said "sent"
  last,        \* history: whether the provider took the last message of each
               \* node that got as far as an answer or an error
  writers,     \* history: who has last written each entry of the cache
  unsure       \* history: nodes of which a result never came or was not kept,
               \* or that two processes sent at a time

messages == <<late, accepted, again, last>>

vars == <<now, cache, node, pc, work, sends, messages, writers, unsure>>

\* "unset": no status yet.
Statuses == {"unset", "sent", "failed", "skipped"}
Presence == {"none", "open", "there", "undone"}

\* Where a process is: at the cache, waiting for a token, at the cache again,
\* waiting for the provider to take the message, and at the node.
Steps == {"idle", "readToken", "readExpires", "ask", "issued", "writeToken",
          "writeExpires", "post", "accepted", "rejected", "save", "end"}

SmsNode == [presence : Presence, status : Statuses, ref : BOOLEAN]

Idle == [nid |-> "none", inserts |-> FALSE, ref |-> FALSE, start |-> 0,
         token |-> 0, deadline |-> 0, result |-> FALSE, holds |-> FALSE,
         id |-> 0, writer |-> 0, paired |-> TRUE]

Init ==
  /\ now = 0
  /\ cache = [token |-> 0, expires |-> 0]
  /\ node = [n \in Nodes |-> [presence |-> "none", status |-> "unset", ref |-> FALSE]]
  /\ pc = [w \in Workers |-> "idle"]
  /\ work = [w \in Workers |-> Idle]
  /\ sends = 0
  /\ late = {}
  /\ accepted = [n \in Nodes |-> 0]
  /\ again = [n \in Nodes |-> 0]
  /\ last = [n \in Nodes |-> FALSE]
  /\ writers = [token |-> 0, expires |-> 0]
  /\ unsure = {}

Goto(w, step) == pc' = [pc EXCEPT ![w] = step]

-----------------------------------------------------------------------------
(* The start of a dispatch.                                                *)

\* Statuses with which a node is not sent when it is inserted.
TerminalStatuses == {"sent", "skipped", "failed"}

\* mz_sms_notification_node_insert, in the transaction of the insertion.
Insert(w, n, status) ==
  /\ pc[w] = "idle"
  /\ node[n].presence = "none"
  /\ sends < MaxSends /\ sends' = sends + 1
  /\ node' = [node EXCEPT ![n] =
                [presence |-> "open", status |-> status, ref |-> FALSE]]
  /\ work' = [work EXCEPT ![w] = [Idle EXCEPT !.nid = n,
                             !.inserts = TRUE, !.id = sends + 1]]
  /\ Goto(w, IF status \in TerminalStatuses THEN "end" ELSE "readToken")
  /\ UNCHANGED <<now, cache, messages, writers, unsure>>

\* ResendController::resend sends any sms node, whatever its status.
Resend(w, n) ==
  /\ pc[w] = "idle"
  /\ node[n].presence = "there"
  /\ sends < MaxSends /\ sends' = sends + 1
  /\ work' = [work EXCEPT ![w] = [Idle EXCEPT !.nid = n,
                             !.ref = node[n].ref, !.id = sends + 1]]
  /\ Goto(w, "readToken")
  /\ unsure' = IF \E v \in Workers : pc[v] # "idle" /\ work[v].nid = n
               THEN unsure \cup {n} ELSE unsure
  /\ again' = IF node[n].status = "sent" THEN [again EXCEPT ![n] = @ + 1] ELSE again
  /\ UNCHANGED <<now, cache, node, late, accepted, last, writers>>

\* sendRaw and send refuse a number, a body or settings that are no good.
Unsendable(w) ==
  /\ pc[w] = "readToken"
  /\ Goto(w, "save")
  /\ last' = [last EXCEPT ![work[w].nid] = FALSE]
  /\ UNCHANGED <<now, cache, node, work, sends, late, accepted, again, writers, unsure>>

-----------------------------------------------------------------------------
(* getAccessToken.                                                         *)

\* A mutant: a token is used until its last second.
NoMargin(expires, time) == expires > time

Fresh(expires, time) == expires > time + Margin

\* The cached token if it is good for long enough, or else a new one.
Choose(w, job, expires) ==
  LET cached == job.token # 0 /\ Fresh(expires, job.start)
  IN  /\ work' = [work EXCEPT ![w] = [job EXCEPT !.deadline = now + Timeout,
                    !.paired = cached => @]]
      /\ Goto(w, IF cached THEN "post" ELSE "ask")

\* The transaction of an insertion reads both entries of one snapshot.
ReadToken(w) ==
  LET job == [work[w] EXCEPT !.start = now, !.token = cache.token,
                !.writer = writers.token]
  IN  /\ pc[w] = "readToken"
      /\ IF job.inserts
         THEN Choose(w, [job EXCEPT !.paired = writers.token = writers.expires],
                     cache.expires)
         ELSE work' = [work EXCEPT ![w] = job] /\ Goto(w, "readExpires")
      /\ UNCHANGED <<now, cache, node, sends, messages, writers, unsure>>

ReadExpires(w) ==
  /\ pc[w] = "readExpires"
  /\ Choose(w, [work[w] EXCEPT !.paired = @ /\ work[w].writer = writers.expires],
            cache.expires)
  /\ UNCHANGED <<now, cache, node, sends, messages, writers, unsure>>

\* The provider issues a token.
Issue(w) ==
  /\ pc[w] = "ask"
  /\ work' = [work EXCEPT ![w].token = now + TokenLife]
  /\ Goto(w, "issued")
  /\ UNCHANGED <<now, cache, node, sends, messages, writers, unsure>>

\* Its answer comes; an insertion keeps what it writes to itself for now.
ReceiveToken(w) ==
  /\ pc[w] = "issued"
  /\ Goto(w, "writeToken")
  /\ UNCHANGED <<now, cache, node, work, sends, messages, writers, unsure>>

Max2(a, b) == IF a > b THEN a ELSE b

\* The time is the one at which the process looked at the cache.
ExpiresAt(job) == job.start + Max2(TokenLife, MinLife)

\* Rows written by a transaction that is not over yet are locked.
Locked == \E w \in Workers : work[w].holds

ReadyToPost(job) == [job EXCEPT !.deadline = now + Timeout]

WriteToken(w) ==
  /\ pc[w] = "writeToken" /\ ~Locked
  /\ IF work[w].inserts
     THEN /\ work' = [work EXCEPT ![w] = [ReadyToPost(@) EXCEPT !.holds = TRUE]]
          /\ Goto(w, "post")
          /\ UNCHANGED <<cache, writers>>
     ELSE /\ cache' = [cache EXCEPT !.token = work[w].token]
          /\ writers' = [writers EXCEPT !.token = work[w].id]
          /\ Goto(w, "writeExpires")
          /\ UNCHANGED work
  /\ UNCHANGED <<now, node, sends, messages, unsure>>

WriteExpires(w) ==
  /\ pc[w] = "writeExpires" /\ ~Locked
  /\ cache' = [cache EXCEPT !.expires = ExpiresAt(work[w])]
  /\ writers' = [writers EXCEPT !.expires = work[w].id]
  /\ work' = [work EXCEPT ![w] = ReadyToPost(@)]
  /\ Goto(w, "post")
  /\ UNCHANGED <<now, node, sends, messages, unsure>>

-----------------------------------------------------------------------------
(* The message.                                                            *)

\* The provider takes a message with a good token, or refuses one for any
\* reason of its own.
Provide(w) ==
  /\ pc[w] = "post"
  /\ \/ /\ work[w].token > now
        /\ accepted' = [accepted EXCEPT ![work[w].nid] = @ + 1]
        /\ last' = [last EXCEPT ![work[w].nid] = TRUE]
        /\ Goto(w, "accepted")
     \/ /\ last' = [last EXCEPT ![work[w].nid] = FALSE]
        /\ Goto(w, "rejected")
        /\ UNCHANGED accepted
  /\ UNCHANGED <<now, cache, node, work, sends, late, again, writers, unsure>>

\* A mutant: any answer is taken for a success.
AnyAnswer(w) == TRUE

IsSuccess(w) == pc[w] = "accepted"

\* A success has a reference only when its body is JSON; without a new one the
\* node keeps the one it was loaded with.
Answer(w) ==
  /\ pc[w] \in {"accepted", "rejected"}
  /\ \E given \in BOOLEAN :
       work' = [work EXCEPT ![w].result = IsSuccess(w),
                            ![w].ref = @ \/ (IsSuccess(w) /\ given)]
  /\ Goto(w, "save")
  /\ UNCHANGED <<now, cache, node, sends, messages, writers, unsure>>

\* The message of a call that is given up was never sent, or is on its way.
Leave(w) ==
  \/ UNCHANGED late
  \/ /\ pc[w] = "post"
     /\ late' = late \cup {[nid |-> work[w].nid, token |-> work[w].token,
                            id |-> work[w].id]}

\* A timeout or a lost connection is a failure, whatever the provider did or is
\* still to do.
CallFails(w) ==
  /\ pc[w] \in {"ask", "issued", "post", "accepted", "rejected"}
  /\ Goto(w, "save")
  /\ Leave(w)
  /\ last' = [last EXCEPT ![work[w].nid] = FALSE]
  /\ unsure' = IF pc[w] = "accepted" THEN unsure \cup {work[w].nid} ELSE unsure
  /\ UNCHANGED <<now, cache, node, work, sends, accepted, again, writers>>

\* The provider takes a message whose sender no longer waits for the answer.
TakeLate(m) ==
  /\ m.token > now
  /\ late' = late \ {m}
  /\ accepted' = [accepted EXCEPT ![m.nid] = @ + 1]
  /\ unsure' = unsure \cup {m.nid}
  /\ UNCHANGED <<now, cache, node, pc, work, sends, again, last, writers>>

-----------------------------------------------------------------------------
(* The node.                                                               *)

\* A mutant: the result of a message sent again is not written.
OnlyAtFirst(w) ==
  IF work[w].inserts THEN IF work[w].result THEN "sent" ELSE "failed"
                     ELSE node[work[w].nid].status

\* A mutant: a failure leaves the status.
OnlySuccess(w) == IF work[w].result THEN "sent" ELSE node[work[w].nid].status

StatusOf(w) == IF work[w].result THEN "sent" ELSE "failed"

\* applyResultToNode: the whole node is saved, with the reference of the
\* provider: a new one, or the one it was loaded with.
SaveResult(w) ==
  LET n == work[w].nid
  IN  /\ pc[w] = "save"
      /\ node' = [node EXCEPT ![n] = [@ EXCEPT !.status = StatusOf(w),
                    !.ref = work[w].ref]]
      /\ Goto(w, "end")
      /\ UNCHANGED <<now, cache, work, sends, messages, writers, unsure>>

\* An exception of the save is caught.
SaveFails(w) ==
  /\ pc[w] = "save"
  /\ unsure' = unsure \cup {work[w].nid}
  /\ Goto(w, "end")
  /\ UNCHANGED <<now, cache, node, work, sends, messages, writers>>

\* The end of the process; that of an insertion commits.
End(w) ==
  LET job == work[w]
  IN  /\ pc[w] = "end"
      /\ node' = IF job.inserts THEN [node EXCEPT ![job.nid].presence = "there"]
                                ELSE node
      /\ IF job.holds
         THEN /\ cache' = [token |-> job.token, expires |-> ExpiresAt(job)]
              /\ writers' = [token |-> job.id, expires |-> job.id]
         ELSE UNCHANGED <<cache, writers>>
      /\ work' = [work EXCEPT ![w] = Idle]
      /\ Goto(w, "idle")
      /\ UNCHANGED <<now, sends, messages, unsure>>

\* The process is killed, or a hook that runs later fails: an insertion is
\* undone.
Abort(w) ==
  LET n == work[w].nid
  IN  /\ pc[w] # "idle"
      /\ node' = IF work[w].inserts
                 THEN [node EXCEPT ![n] = [presence |-> "undone", status |-> "unset",
                                           ref |-> FALSE]]
                 ELSE node
      /\ Leave(w)
      /\ unsure' = IF pc[w] \in {"accepted", "rejected", "save"}
                   THEN unsure \cup {n} ELSE unsure
      /\ work' = [work EXCEPT ![w] = Idle]
      /\ Goto(w, "idle")
      /\ UNCHANGED <<now, cache, sends, accepted, again, last, writers>>

\* Time passes only while every process waits.
Waits(w) ==
  \/ pc[w] = "idle"
  \/ pc[w] \in {"ask", "issued", "post", "accepted", "rejected"} /\ now < work[w].deadline
  \/ pc[w] \in {"writeToken", "writeExpires"} /\ Locked

Tick ==
  /\ now < MaxTime
  /\ \A w \in Workers : Waits(w)
  /\ now' = now + 1
  /\ UNCHANGED <<cache, node, pc, work, sends, messages, writers, unsure>>

Dispatch(w) ==
  \/ \E n \in Nodes : \/ \E s \in {"unset", "skipped"} : Insert(w, n, s)
                      \/ Resend(w, n)
  \/ Unsendable(w)
  \/ ReadToken(w) \/ ReadExpires(w) \/ Issue(w) \/ ReceiveToken(w)
  \/ WriteToken(w) \/ WriteExpires(w)
  \/ Provide(w) \/ Answer(w) \/ CallFails(w)
  \/ SaveResult(w) \/ SaveFails(w) \/ End(w) \/ Abort(w)

Next ==
  \/ Tick
  \/ \E w \in Workers : Dispatch(w)
  \/ \E m \in late : TakeLate(m)

Spec == Init /\ [][Next]_vars

-----------------------------------------------------------------------------
(* Properties.                                                             *)

\* Nodes and processes stay well formed: a process at work has its node, one
\* that inserts has it open, and nothing waits past its deadline.
SmsTypeOK ==
  /\ node \in [Nodes -> SmsNode]
  /\ pc \in [Workers -> Steps]
  /\ \A w \in Workers : pc[w] # "idle" =>
       /\ work[w].nid \in Nodes
       /\ node[work[w].nid].presence = IF work[w].inserts THEN "open" ELSE "there"
       /\ pc[w] \in {"ask", "issued", "post", "accepted", "rejected"} =>
            now <= work[w].deadline

\* A node says "sent", or shows a reference of the provider, only when the
\* provider has taken a message of it.
SentWasAccepted ==
  \A n \in Nodes : node[n].status = "sent" \/ node[n].ref => accepted[n] > 0

\* The provider takes one message of a node, and one more for each time it was
\* sent again while it said "sent"; unless it took one whose answer was lost,
\* a result was not kept, or two processes were at the node.
TwiceOnlyWhenAsked ==
  \A n \in Nodes \ unsure : accepted[n] <= 1 + again[n]

\* Once nothing is at a node that is there, the node shows what became of the
\* last message of it: "sent" when the provider took it, and else that it was
\* skipped or failed, even if one was taken before; unless an answer or a
\* result was lost.
ResultKept ==
  \A n \in Nodes \ unsure :
    node[n].presence = "there" /\ (\A w \in Workers : work[w].nid # n) =>
      /\ node[n].status # "unset"
      /\ node[n].status = "sent" <=> last[n]

\* How much longer a token is believed to last than it does.
Shortfall == Max2(TokenLife, MinLife) - TokenLife

\* A process that posts with a token and an expiry as one process wrote them, or
\* with a token it was issued, has a token the provider takes for as long after
\* it looked at the cache as the margin, less what a short token is believed to
\* last too long.
PairedTokenGood ==
  \A w \in Workers :
    pc[w] = "post" /\ work[w].paired /\ now + Shortfall <= work[w].start + Margin =>
      work[w].token > now
=============================================================================
