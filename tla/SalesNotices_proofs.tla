------------------------- MODULE SalesNotices_proofs -------------------------
(* Theorems about what tells the shop of its sales: the text messages      *)
(* (SmsDispatch), for any number of nodes and processes and every life of  *)
(* a token and time-out, and the list of the local sales (OrderList), for  *)
(* any sales, filters and requests.                                        *)
EXTENDS SmsDispatch, OrderList, SequenceTheorems, FiniteSetTheorems, TLAPS


Job == [nid : Nodes \cup {"none"}, inserts : BOOLEAN, ref : BOOLEAN, start : Nat,
        token : Nat, deadline : Nat, result : BOOLEAN, holds : BOOLEAN,
        id : Nat, writer : Nat, paired : BOOLEAN]

Pair == [token : Nat, expires : Nat]

Message == [nid : Nodes, token : Nat, id : Nat]

Typed ==
  /\ now \in Nat /\ sends \in Nat
  /\ cache \in Pair /\ writers \in Pair
  /\ node \in [Nodes -> SmsNode]
  /\ pc \in [Workers -> Steps]
  /\ work \in [Workers -> Job]
  /\ late \subseteq Message
  /\ accepted \in [Nodes -> Nat] /\ again \in [Nodes -> Nat]
  /\ last \in [Nodes -> BOOLEAN]
  /\ unsure \subseteq Nodes

\* Steps at which a process waits for the provider, those before the provider
\* has answered the message, and those at which it has not taken it.
Calling == {"ask", "issued", "post", "accepted", "rejected"}
Unposted == {"readToken", "readExpires", "ask", "issued", "writeToken",
           "writeExpires", "post"}
Before == Unposted \cup {"rejected"}

At(w, n) == pc[w] # "idle" /\ work[w].nid = n

\* A process at work has its node, and nothing waits past its deadline.
Placed(w) ==
  pc[w] # "idle" =>
    /\ work[w].nid \in Nodes
    /\ node[work[w].nid].presence = IF work[w].inserts THEN "open" ELSE "there"
    /\ pc[w] \in Calling => now <= work[w].deadline

\* Two processes at one node both send it again, and the node is unsure.
Apart(v, w) ==
  v # w /\ pc[v] # "idle" /\ pc[w] # "idle" /\ work[v].nid = work[w].nid =>
    ~work[v].inserts /\ ~work[w].inserts /\ work[v].nid \in unsure

\* The node n says what became of its last message; and when that was not taken,
\* each message taken before was followed by a resend.
Shows(n) ==
  /\ node[n].status # "unset"
  /\ node[n].status = "sent" <=> last[n]
  /\ node[n].status # "sent" => accepted[n] <= again[n]

\* How far the message of a process has got.
Followed(w) ==
  pc[w] # "idle" =>
    /\ pc[w] \in Before \cup {"accepted"} => ~work[w].result
    /\ pc[w] = "accepted" \/ work[w].result \/ work[w].ref => accepted[work[w].nid] > 0
    /\ work[w].nid \notin unsure =>
         /\ pc[w] \in Before => accepted[work[w].nid] <= again[work[w].nid]
         /\ pc[w] \in Unposted /\ ~work[w].inserts => Shows(work[w].nid)
         /\ pc[w] = "accepted" => last[work[w].nid]
         /\ pc[w] = "rejected" => ~last[work[w].nid]
         /\ pc[w] = "save" =>
              /\ last[work[w].nid] <=> work[w].result
              /\ ~work[w].result => accepted[work[w].nid] <= again[work[w].nid]
         /\ pc[w] = "end" => Shows(work[w].nid)

\* What is known of a node whoever is at it.
Kept(n) ==
  /\ node[n].presence = "none" =>
       accepted[n] = 0 /\ ~last[n] /\ \A m \in late : m.nid # n
  /\ node[n].status = "sent" \/ node[n].ref => accepted[n] > 0
  /\ n \notin unsure =>
       /\ accepted[n] <= 1 + again[n]
       /\ node[n].presence = "there" /\ (\A w \in Workers : ~At(w, n)) => Shows(n)

Inv ==
  /\ Typed
  /\ \A w \in Workers : Placed(w)
  /\ \A v, w \in Workers : Apart(v, w)
  /\ \A w \in Workers : Followed(w)
  /\ \A n \in Nodes : Kept(n)

-----------------------------------------------------------------------------
(* The actions that leave the nodes alone.                                 *)

\* The process w goes on with the same message, not taken so far.
Onward(w, j, step) ==
  /\ pc[w] \in Unposted
  /\ work' = [work EXCEPT ![w] = j]
  /\ pc' = [pc EXCEPT ![w] = step]
  /\ j.nid = work[w].nid /\ j.inserts = work[w].inserts
  /\ j.result = work[w].result /\ j.ref = work[w].ref
  /\ step \in Calling => now <= j.deadline
  /\ cache' \in Pair /\ writers' \in Pair
  /\ UNCHANGED <<now, node, sends, late, accepted, again, last, unsure>>

GoesOn(w) == \E j \in Job, step \in Unposted : Onward(w, j, step)

LEMMA OnwardKeeps ==
  ASSUME Inv, NEW w \in Workers, GoesOn(w)
  PROVE  Inv'
<1>1. PICK j \in Job, step \in Unposted : Onward(w, j, step)
  BY DEF GoesOn
<1>2. Typed'
  BY <1>1 DEF Inv, Onward, Typed, Steps, Unposted
<1>3. /\ pc'[w] = step /\ work'[w] = j
      /\ \A v \in Workers \ {w} : pc'[v] = pc[v] /\ work'[v] = work[v]
  BY <1>1 DEF Inv, Onward, Typed
<1>4. /\ pc[w] # "idle" /\ step # "idle" /\ step # "accepted" /\ step # "end"
      /\ step # "save" /\ step # "rejected" /\ pc[w] \in Before /\ step \in Before
  BY <1>1 DEF Onward, Before, Unposted
<1>5. UNCHANGED <<now, node, late, accepted, again, last, unsure>>
  BY <1>1 DEF Onward
<1>6. \A v \in Workers : Placed(v)'
  BY <1>1, <1>3, <1>4, <1>5 DEF Inv, Onward, Placed, Calling
<1>7. \A u, v \in Workers : Apart(u, v)'
  BY <1>1, <1>3, <1>4, <1>5 DEF Inv, Onward, Apart
<1>8. Followed(w)'
  <2>1. Followed(w) /\ ~work[w].result /\ j.nid = work[w].nid
        /\ j.inserts = work[w].inserts /\ j.result = work[w].result
        /\ j.ref = work[w].ref /\ pc[w] \in Unposted
    BY <1>1, <1>4 DEF Inv, Followed, Onward
  <2> QED BY <2>1, <1>3, <1>4, <1>5 DEF Followed, Shows
<1>9. ASSUME NEW v \in Workers, v # w PROVE Followed(v)'
  <2>1. Followed(v) /\ pc'[v] = pc[v] /\ work'[v] = work[v]
    BY <1>3, <1>9 DEF Inv
  <2> QED BY <2>1, <1>5 DEF Followed, Shows
<1>10. ASSUME NEW n \in Nodes PROVE Kept(n)'
  <2>1. ASSUME NEW v \in Workers PROVE At(v, n)' <=> At(v, n)
    BY <1>1, <1>3, <1>4 DEF At, Onward
  <2>2. Kept(n)
    BY DEF Inv
  <2> QED BY <2>1, <2>2, <1>5 DEF Kept, Shows
<1> QED BY <1>2, <1>6, <1>7, <1>8, <1>9, <1>10 DEF Inv

\* getAccessToken's choice, as a record and a step.
LEMMA ChoiceMade ==
  ASSUME Typed, NEW w \in Workers, NEW job \in Job, NEW expires \in Nat,
         Choose(w, job, expires)
  PROVE  \E j \in Job, step \in {"ask", "post"} :
           /\ work' = [work EXCEPT ![w] = j] /\ pc' = [pc EXCEPT ![w] = step]
           /\ j.nid = job.nid /\ j.inserts = job.inserts /\ j.result = job.result
           /\ j.ref = job.ref /\ now <= j.deadline
<1> DEFINE cached == job.token # 0 /\ Fresh(expires, job.start)
           still == cached => job.paired
           j == [job EXCEPT !.deadline = now + Timeout, !.paired = still]
<1>1. work' = [work EXCEPT ![w] = j] /\ pc' = [pc EXCEPT ![w] = IF cached THEN "post" ELSE "ask"]
  BY DEF Choose, Goto
<1>2. still \in BOOLEAN /\ now + Timeout \in Nat
  BY SmsAssumption DEF Typed
<1>3. j \in Job /\ j.nid = job.nid /\ j.inserts = job.inserts /\ j.result = job.result
      /\ j.deadline = now + Timeout /\ j.ref = job.ref
  <2> HIDE DEF still
  <2> QED BY <1>2 DEF Job
<1>4. now <= j.deadline
  BY <1>3, SmsAssumption DEF Typed
<1> HIDE DEF j, cached
<1> QED BY <1>1, <1>3, <1>4

LEMMA TokenStepsGoOn ==
  ASSUME Inv, NEW w \in Workers,
         \/ ReadToken(w) \/ ReadExpires(w) \/ Issue(w) \/ ReceiveToken(w)
         \/ WriteToken(w) \/ WriteExpires(w)
  PROVE  GoesOn(w)
<1> DEFINE own == work[w]
<1>1. own \in Job /\ pc[w] \in Steps /\ now \in Nat /\ cache \in Pair /\ writers \in Pair
  BY DEF Inv, Typed
<1>2. pc[w] \in Calling => now <= own.deadline
  BY <1>1 DEF Inv, Placed, Calling
<1>4. CASE ReadToken(w)
  <2> DEFINE job == [own EXCEPT !.start = now, !.token = cache.token, !.writer = writers.token]
             same == writers.token = writers.expires
             both == [job EXCEPT !.paired = same]
  <2>1. /\ job \in Job /\ job.nid = own.nid /\ job.inserts = own.inserts
        /\ job.result = own.result /\ job.ref = own.ref
    BY <1>1 DEF Job, Pair
  <2>2. /\ both \in Job /\ both.nid = own.nid /\ both.inserts = own.inserts
        /\ both.result = own.result /\ both.ref = own.ref
    <3>1. same \in BOOLEAN
      OBVIOUS
    <3> HIDE DEF same, job
    <3> QED BY <2>1, <3>1 DEF Job
  <2>3. pc[w] \in Unposted /\ UNCHANGED <<now, cache, node, sends, messages, unsure, writers>>
    BY <1>4 DEF ReadToken, Unposted
  <2>4. CASE own.inserts
    <3>1. Choose(w, both, cache.expires)
      BY <1>4, <2>4, <2>1 DEF ReadToken
    <3>2. cache.expires \in Nat
      BY <1>1 DEF Pair
    <3> HIDE DEF both, job, own
    <3>3. PICK j \in Job, step \in {"ask", "post"} :
           /\ work' = [work EXCEPT ![w] = j] /\ pc' = [pc EXCEPT ![w] = step]
           /\ j.nid = both.nid /\ j.inserts = both.inserts /\ j.result = both.result
           /\ j.ref = both.ref /\ now <= j.deadline
      BY <3>1, <3>2, <2>2, ChoiceMade DEF Inv
    <3>4. Onward(w, j, step)
      BY <3>3, <2>2, <2>3, <1>1 DEF Onward, messages, own
    <3> QED BY <3>4 DEF GoesOn, Unposted
  <2>5. CASE ~own.inserts
    <3>1. Onward(w, job, "readExpires")
      BY <1>4, <2>5, <2>1, <2>3, <1>1 DEF ReadToken, Onward, messages, Goto, Calling
    <3> QED BY <3>1, <2>1 DEF GoesOn, Unposted
  <2> QED BY <2>4, <2>5
<1>5. CASE ReadExpires(w)
  <2> DEFINE job == [own EXCEPT !.paired = @ /\ own.writer = writers.expires]
  <2>1. /\ job \in Job /\ job.nid = own.nid /\ job.inserts = own.inserts
        /\ job.result = own.result /\ job.ref = own.ref /\ cache.expires \in Nat
    BY <1>1 DEF Job, Pair
  <2>2. pc[w] \in Unposted /\ UNCHANGED <<now, cache, node, sends, messages, unsure, writers>>
    BY <1>5 DEF ReadExpires, Unposted
  <2>3. Choose(w, job, cache.expires)
    BY <1>5 DEF ReadExpires
  <2> HIDE DEF job, own
  <2>4. PICK j \in Job, step \in {"ask", "post"} :
         /\ work' = [work EXCEPT ![w] = j] /\ pc' = [pc EXCEPT ![w] = step]
         /\ j.nid = job.nid /\ j.inserts = job.inserts /\ j.result = job.result
         /\ j.ref = job.ref /\ now <= j.deadline
    BY <2>1, <2>3, ChoiceMade DEF Inv
  <2>5. Onward(w, j, step)
    BY <2>4, <2>1, <2>2, <1>1 DEF Onward, messages, own
  <2> QED BY <2>5 DEF GoesOn, Unposted
<1>6. CASE Issue(w)
  <2> DEFINE j == [own EXCEPT !.token = now + TokenLife]
  <2>1. /\ j \in Job /\ j.nid = own.nid /\ j.inserts = own.inserts
        /\ j.result = own.result /\ j.ref = own.ref /\ j.deadline = own.deadline
    BY <1>1, SmsAssumption DEF Job
  <2>2. work' = [work EXCEPT ![w] = j]
    BY <1>6 DEF Issue
  <2>3. /\ pc[w] \in Unposted /\ now <= own.deadline /\ pc' = [pc EXCEPT ![w] = "issued"]
        /\ UNCHANGED <<now, cache, node, sends, messages, unsure, writers>>
    BY <1>6, <1>2 DEF Issue, Goto, Unposted, Calling
  <2> HIDE DEF j, own
  <2>4. Onward(w, j, "issued")
    BY <2>1, <2>2, <2>3, <1>1 DEF Onward, messages, own
  <2> QED BY <2>4, <2>1 DEF GoesOn, Unposted
<1>7. CASE ReceiveToken(w)
  <2>1. Onward(w, own, "writeToken")
    BY <1>7, <1>1 DEF ReceiveToken, Onward, messages, Goto, Unposted, Calling, Inv, Typed
  <2> QED BY <2>1, <1>1 DEF GoesOn, Unposted
<1>8. CASE WriteToken(w) \/ WriteExpires(w)
  <2> DEFINE ready == [own EXCEPT !.deadline = now + Timeout]
             held == [ready EXCEPT !.holds = TRUE]
  <2>0. now + Timeout \in Nat /\ now <= now + Timeout
    BY <1>1, SmsAssumption
  <2>1. /\ ready \in Job /\ ready.nid = own.nid /\ ready.inserts = own.inserts
        /\ ready.result = own.result /\ ready.ref = own.ref /\ now <= ready.deadline
    BY <2>0, <1>1 DEF Job
  <2>2. /\ held \in Job /\ held.nid = own.nid /\ held.inserts = own.inserts
        /\ held.result = own.result /\ held.ref = own.ref /\ now <= held.deadline
    BY <2>1 DEF Job
  <2>3. pc[w] \in Unposted /\ UNCHANGED <<now, node, sends, messages, unsure>>
    BY <1>8 DEF WriteToken, WriteExpires, Unposted
  <2>4. own.token \in Nat /\ own.id \in Nat /\ ExpiresAt(own) \in Nat
    BY <1>1, SmsAssumption DEF Job, ExpiresAt, Max2
  <2>5. cache' \in Pair /\ writers' \in Pair
    BY <1>8, <1>1, <2>4 DEF WriteToken, WriteExpires, Pair
  <2>6. CASE WriteToken(w) /\ own.inserts
    <3>1. Onward(w, held, "post")
      BY <2>6, <2>2, <2>3, <2>5 DEF WriteToken, ReadyToPost, Onward, messages, Goto
    <3> QED BY <3>1, <2>2 DEF GoesOn, Unposted
  <2>7. CASE WriteToken(w) /\ ~own.inserts
    <3>1. Onward(w, own, "writeExpires")
      BY <2>7, <2>3, <2>5, <1>1 DEF WriteToken, Onward, messages, Goto, Calling, Inv, Typed
    <3> QED BY <3>1, <1>1 DEF GoesOn, Unposted
  <2>8. CASE WriteExpires(w)
    <3>1. Onward(w, ready, "post")
      BY <2>8, <2>1, <2>3, <2>5 DEF WriteExpires, ReadyToPost, Onward, messages, Goto
    <3> QED BY <3>1, <2>1 DEF GoesOn, Unposted
  <2> QED BY <1>8, <2>6, <2>7, <2>8
<1> QED BY <1>4, <1>5, <1>6, <1>7, <1>8

-----------------------------------------------------------------------------
(* The other actions.                                                      *)

\* A process goes on at its node m, and touches no other.
LEMMA StepKeeps ==
  ASSUME Inv, Typed', NEW w \in Workers, NEW j \in Job, NEW step \in Steps \ {"idle"},
         NEW m, m = work[w].nid,
         pc[w] # "idle",
         work' = [work EXCEPT ![w] = j], pc' = [pc EXCEPT ![w] = step],
         now' = now, j.nid = m, j.inserts = work[w].inserts,
         \A n \in Nodes : node'[n].presence = node[n].presence,
         \A n \in Nodes \ {m} : /\ node'[n] = node[n] /\ accepted'[n] = accepted[n]
                               /\ again'[n] = again[n] /\ last'[n] = last[n],
         \A x \in late' : x \in late \/ x.nid = m,
         \A n \in Nodes : accepted[n] > 0 => accepted'[n] > 0,
         unsure' = unsure \/ unsure' = unsure \cup {m},
         step \in Calling => now <= j.deadline,
         Followed(w)', Kept(m)'
  PROVE  Inv'
<1>1. /\ pc'[w] = step /\ work'[w] = j
      /\ \A v \in Workers \ {w} : pc'[v] = pc[v] /\ work'[v] = work[v]
  BY DEF Inv, Typed
<1>2. \A v \in Workers : Placed(v)'
  BY <1>1 DEF Inv, Placed
<1>3. \A u, v \in Workers : Apart(u, v)'
  BY <1>1 DEF Inv, Apart
<1>4. ASSUME NEW v \in Workers, v # w PROVE Followed(v)'
  <2>1. Followed(v) /\ pc'[v] = pc[v] /\ work'[v] = work[v] /\ Apart(v, w) /\ Placed(v)
    BY <1>1, <1>4 DEF Inv
  <2>2. CASE pc[v] = "idle"
    BY <2>1, <2>2 DEF Followed
  <2>3. CASE pc[v] # "idle" /\ work[v].nid = m
    <3>1. m \in unsure'
      BY <1>4, <2>1, <2>3 DEF Apart
    <3> QED BY <3>1, <2>1, <2>3 DEF Followed, Placed
  <2>4. CASE pc[v] # "idle" /\ work[v].nid # m
    <3> DEFINE n == work[v].nid
    <3>1. /\ n \in Nodes /\ node'[n] = node[n] /\ accepted'[n] = accepted[n]
          /\ again'[n] = again[n] /\ last'[n] = last[n]
          /\ n \in unsure' <=> n \in unsure
      BY <2>1, <2>4 DEF Placed
    <3> QED BY <3>1, <2>1, <2>4 DEF Followed, Shows
  <2> QED BY <2>2, <2>3, <2>4
<1>5. ASSUME NEW n \in Nodes, n # m PROVE Kept(n)'
  <2>1. ASSUME NEW v \in Workers PROVE At(v, n)' <=> At(v, n)
    BY <1>1, <1>5 DEF At
  <2>2. /\ Kept(n) /\ node'[n] = node[n] /\ accepted'[n] = accepted[n]
        /\ again'[n] = again[n] /\ last'[n] = last[n]
        /\ n \in unsure' <=> n \in unsure
        /\ \A x \in late' : x.nid = n => x \in late
    BY <1>5 DEF Inv
  <2> QED BY <2>1, <2>2 DEF Kept, Shows
<1> QED BY <1>2, <1>3, <1>4, <1>5 DEF Inv

\* A process leaves its node m.
LEMMA LeaveKeeps ==
  ASSUME Inv, Typed', NEW w \in Workers, NEW m, m = work[w].nid,
         pc[w] # "idle",
         work' = [work EXCEPT ![w] = Idle], pc' = [pc EXCEPT ![w] = "idle"],
         now' = now, UNCHANGED <<accepted, again, last>>,
         \A x \in late' : x \in late \/ x.nid = m,
         ~work[w].inserts => node' = node,
         \A n \in Nodes \ {m} : node'[n] = node[n],
         unsure' = unsure \/ unsure' = unsure \cup {m},
         Kept(m)'
  PROVE  Inv'
<1>1. /\ pc'[w] = "idle" /\ work'[w] = Idle
      /\ \A v \in Workers \ {w} : pc'[v] = pc[v] /\ work'[v] = work[v]
  BY DEF Inv, Typed
<1>2. ASSUME NEW v \in Workers, v # w, pc[v] # "idle"
      PROVE  /\ work[v].nid \in Nodes
             /\ node'[work[v].nid] = node[work[v].nid]
             /\ work[v].nid \in unsure' <=> work[v].nid \in unsure
  <2>1. Apart(v, w) /\ Placed(v)
    BY <1>2 DEF Inv
  <2> QED BY <1>2, <2>1 DEF Apart, Placed
<1>3. \A v \in Workers : Placed(v)'
  BY <1>1, <1>2 DEF Inv, Placed
<1>4. \A u, v \in Workers : Apart(u, v)'
  BY <1>1 DEF Inv, Apart
<1>5. ASSUME NEW v \in Workers PROVE Followed(v)'
  <2>1. CASE v = w \/ pc[v] = "idle"
    BY <1>1, <2>1 DEF Followed
  <2>2. CASE v # w /\ pc[v] # "idle"
    <3>1. Followed(v) /\ pc'[v] = pc[v] /\ work'[v] = work[v]
      BY <1>1, <2>2 DEF Inv
    <3> QED BY <3>1, <2>2, <1>2 DEF Followed, Shows
  <2> QED BY <2>1, <2>2
<1>6. ASSUME NEW n \in Nodes, n # m PROVE Kept(n)'
  <2>1. ASSUME NEW v \in Workers PROVE At(v, n)' <=> At(v, n)
    BY <1>1, <1>6 DEF At
  <2>2. /\ Kept(n) /\ node'[n] = node[n] /\ (n \in unsure' <=> n \in unsure)
        /\ \A x \in late' : x.nid = n => x \in late
    BY <1>6 DEF Inv
  <2> QED BY <2>1, <2>2 DEF Kept, Shows
<1> QED BY <1>3, <1>4, <1>5, <1>6 DEF Inv

LEMMA InsertKeeps ==
  ASSUME Inv, NEW w \in Workers, NEW m \in Nodes, NEW s \in {"unset", "skipped"},
         Insert(w, m, s)
  PROVE  Inv'
<1> DEFINE j == [Idle EXCEPT !.nid = m, !.inserts = TRUE, !.id = sends + 1]
           step == IF s \in TerminalStatuses THEN "end" ELSE "readToken"
           new == [presence |-> "open", status |-> s, ref |-> FALSE]
<1>1. /\ pc[w] = "idle" /\ node[m].presence = "none" /\ accepted[m] = 0
      /\ node' = [node EXCEPT ![m] = new]
      /\ work' = [work EXCEPT ![w] = j] /\ pc' = [pc EXCEPT ![w] = step]
      /\ sends' = sends + 1 /\ UNCHANGED <<now, cache, writers, unsure>>
      /\ UNCHANGED <<late, accepted, again, last>> /\ ~last[m] /\ \A x \in late : x.nid # m
  BY DEF Insert, Goto, Inv, Kept, messages
<1>2. /\ j \in Job /\ j.nid = m /\ j.inserts = TRUE /\ j.result = FALSE /\ j.ref = FALSE
  <2> DEFINE yes == TRUE
             named == [Idle EXCEPT !.nid = m, !.inserts = yes, !.id = sends + 1]
  <2>1. sends + 1 \in Nat /\ yes \in BOOLEAN
    BY DEF Inv, Typed
  <2>2. /\ named \in Job /\ named.nid = m /\ named.inserts = yes
        /\ named.result = FALSE /\ named.ref = FALSE
    <3> HIDE DEF yes
    <3> QED BY <2>1 DEF Job, Idle
  <2> QED BY <2>2
<1>3. step \in {"end", "readToken"} /\ (step = "end" => s = "skipped")
  BY DEF TerminalStatuses
<1>4. /\ new \in SmsNode /\ new.presence = "open" /\ new.status = s /\ s # "sent"
      /\ new.ref = FALSE
  BY DEF SmsNode, Presence, Statuses
<1> HIDE DEF j, step, new
<1>5. /\ pc'[w] = step /\ work'[w] = j /\ node'[m] = new
      /\ \A v \in Workers \ {w} : pc'[v] = pc[v] /\ work'[v] = work[v]
      /\ \A n \in Nodes \ {m} : node'[n] = node[n]
  BY <1>1 DEF Inv, Typed
<1>6. Typed'
  BY <1>1, <1>2, <1>3, <1>4 DEF Inv, Typed, Steps
<1>7. ASSUME NEW v \in Workers, pc[v] # "idle" PROVE work[v].nid \in Nodes /\ work[v].nid # m
  BY <1>1, <1>7 DEF Inv, Placed
<1>8. \A v \in Workers : Placed(v)'
  BY <1>1, <1>2, <1>3, <1>4, <1>5, <1>7 DEF Inv, Placed, Calling
<1>9. \A u, v \in Workers : Apart(u, v)'
  BY <1>1, <1>2, <1>5, <1>7 DEF Inv, Apart
<1>10. Followed(w)'
  <2>1. again[m] \in Nat
    BY DEF Inv, Typed
  <2> QED BY <2>1, <1>1, <1>2, <1>3, <1>4, <1>5 DEF Followed, Before, Unposted, Shows
<1>11. ASSUME NEW v \in Workers, v # w PROVE Followed(v)'
  BY <1>1, <1>5, <1>7, <1>11 DEF Inv, Followed, Shows
<1>12. Kept(m)'
  <2>1. again[m] \in Nat
    BY DEF Inv, Typed
  <2> QED BY <2>1, <1>1, <1>4, <1>5 DEF Kept, Shows
<1>13. ASSUME NEW n \in Nodes, n # m PROVE Kept(n)'
  <2>1. ASSUME NEW v \in Workers PROVE At(v, n)' <=> At(v, n)
    BY <1>1, <1>2, <1>5, <1>13 DEF At
  <2>2. Kept(n) /\ node'[n] = node[n]
    BY <1>5, <1>13 DEF Inv
  <2> QED BY <1>1, <2>1, <2>2 DEF Kept, Shows
<1> QED BY <1>6, <1>8, <1>9, <1>10, <1>11, <1>12, <1>13 DEF Inv

LEMMA ResendKeeps ==
  ASSUME Inv, NEW w \in Workers, NEW m \in Nodes, Resend(w, m)
  PROVE  Inv'
<1> DEFINE j == [Idle EXCEPT !.nid = m, !.ref = node[m].ref, !.id = sends + 1]
<1>1. /\ pc[w] = "idle" /\ node[m].presence = "there"
      /\ work' = [work EXCEPT ![w] = j] /\ pc' = [pc EXCEPT ![w] = "readToken"]
      /\ sends' = sends + 1 /\ UNCHANGED <<now, cache, node, late, accepted, last, writers>>
      /\ again' = IF node[m].status = "sent" THEN [again EXCEPT ![m] = @ + 1] ELSE again
      /\ unsure' = IF \E v \in Workers : pc[v] # "idle" /\ work[v].nid = m
                   THEN unsure \cup {m} ELSE unsure
  BY DEF Resend, Goto
<1>2. /\ j \in Job /\ j.nid = m /\ j.inserts = FALSE /\ j.result = FALSE
      /\ j.ref = node[m].ref
  <2>1. sends + 1 \in Nat /\ node[m].ref \in BOOLEAN
    BY DEF Inv, Typed, SmsNode
  <2> QED BY <2>1 DEF Job, Idle
<1> HIDE DEF j
<1>3. /\ pc'[w] = "readToken" /\ work'[w] = j
      /\ \A v \in Workers \ {w} : pc'[v] = pc[v] /\ work'[v] = work[v]
  BY <1>1 DEF Inv, Typed
<1>4. /\ again[m] \in Nat /\ accepted[m] \in Nat
      /\ again'[m] = again[m] + (IF node[m].status = "sent" THEN 1 ELSE 0)
      /\ \A n \in Nodes \ {m} : again'[n] = again[n]
  BY <1>1 DEF Inv, Typed
<1>5. Typed'
  <2>1. again' \in [Nodes -> Nat]
    BY <1>1 DEF Inv, Typed
  <2> QED BY <2>1, <1>1, <1>2 DEF Inv, Typed, Steps
<1>6. \A v \in Workers : Placed(v)'
  BY <1>1, <1>2, <1>3 DEF Inv, Placed, Calling
<1>7. ASSUME NEW v \in Workers, v # w, pc[v] # "idle", work[v].nid = m
      PROVE  ~work[v].inserts /\ m \in unsure'
  BY <1>1, <1>7 DEF Inv, Placed
<1>8. \A u, v \in Workers : Apart(u, v)'
  BY <1>1, <1>2, <1>3, <1>7 DEF Inv, Apart
<1>9. Kept(m)
  BY DEF Inv
<1>10. ASSUME m \notin unsure' PROVE Shows(m)' /\ accepted[m] <= again'[m]
  <2>1. m \notin unsure /\ \A v \in Workers : ~At(v, m)
    BY <1>1, <1>10 DEF At
  <2>2. Shows(m) /\ accepted[m] <= 1 + again[m]
    BY <2>1, <1>1, <1>9 DEF Kept
  <2> QED BY <2>2, <1>1, <1>4 DEF Shows
<1>11. Followed(w)'
  BY <1>1, <1>2, <1>3, <1>9, <1>10 DEF Followed, Before, Unposted, Kept
<1>12. ASSUME NEW v \in Workers, v # w PROVE Followed(v)'
  <2>1. /\ Followed(v) /\ Placed(v) /\ pc'[v] = pc[v] /\ work'[v] = work[v]
        /\ unsure \subseteq unsure'
    BY <1>1, <1>3, <1>12 DEF Inv
  <2>2. CASE pc[v] # "idle" /\ work[v].nid = m
    BY <2>1, <2>2, <1>1, <1>7, <1>12 DEF Followed
  <2>3. CASE pc[v] # "idle" /\ work[v].nid # m
    BY <2>1, <2>3, <1>1, <1>4 DEF Followed, Shows, Placed
  <2>4. CASE pc[v] = "idle"
    BY <2>1, <2>4 DEF Followed
  <2> QED BY <2>2, <2>3, <2>4
<1>13. Kept(m)'
  BY <1>1, <1>4, <1>9, <1>10 DEF Kept
<1>14. ASSUME NEW n \in Nodes, n # m PROVE Kept(n)'
  <2>1. ASSUME NEW v \in Workers PROVE At(v, n)' <=> At(v, n)
    BY <1>1, <1>2, <1>3, <1>14 DEF At
  <2>2. Kept(n) /\ (n \in unsure' <=> n \in unsure) /\ again'[n] = again[n]
    BY <1>1, <1>4, <1>14 DEF Inv
  <2> QED BY <1>1, <2>1, <2>2 DEF Kept, Shows
<1> QED BY <1>5, <1>6, <1>8, <1>11, <1>12, <1>13, <1>14 DEF Inv

\* A process that keeps its record, at its node m.
LEMMA SameJobKeeps ==
  ASSUME Inv, Typed', NEW w \in Workers, NEW step \in Steps \ {"idle"},
         NEW m, m = work[w].nid, pc[w] # "idle",
         work' = work, pc' = [pc EXCEPT ![w] = step], now' = now, node' = node,
         again' = again,
         \A n \in Nodes \ {m} : accepted'[n] = accepted[n] /\ last'[n] = last[n],
         \A x \in late' : x \in late \/ x.nid = m,
         \A n \in Nodes : accepted[n] > 0 => accepted'[n] > 0,
         unsure' = unsure \/ unsure' = unsure \cup {m},
         step \in Calling => now <= work[w].deadline,
         Followed(w)', Kept(m)'
  PROVE  Inv'
<1>1. work' = [work EXCEPT ![w] = work[w]] /\ work[w] \in Job
  BY DEF Inv, Typed
<1>2. PICK j \in Job : j = work[w]
  BY <1>1
<1>3. work' = [work EXCEPT ![w] = j]
  BY <1>1, <1>2
<1> QED BY <1>2, <1>3, StepKeeps

LEMMA CallsKeep ==
  ASSUME Inv, NEW w \in Workers, Unsendable(w) \/ Provide(w) \/ Answer(w) \/ CallFails(w)
  PROVE  Inv'
<1> DEFINE job == work[w]
<1>1. /\ pc[w] \in Calling \cup {"readToken"} /\ pc[w] # "idle" /\ again' = again
      /\ UNCHANGED <<now, cache, node, sends, writers>>
  BY DEF Unsendable, Provide, Answer, CallFails, Calling, messages
<1>0. PICK m \in Nodes : m = job.nid
  BY <1>1 DEF Inv, Placed, Calling
<1>2. /\ job \in Job /\ m = job.nid /\ (pc[w] \in Calling => now <= job.deadline)
      /\ Followed(w) /\ Kept(m) /\ accepted[m] \in Nat /\ again[m] \in Nat
      /\ node[m].presence # "none"
  BY <1>1, <1>0 DEF Inv, Typed, Placed
<1>3. "save" \in Steps \ {"idle"} /\ "save" \notin Calling
  BY DEF Steps, Calling
<1>4. CASE Unsendable(w)
  <2>1. /\ pc[w] = "readToken" /\ pc' = [pc EXCEPT ![w] = "save"]
        /\ last' = [last EXCEPT ![m] = FALSE] /\ UNCHANGED <<work, late, accepted, unsure>>
    BY <1>0, <1>4 DEF Unsendable, Goto
  <2>2. /\ pc'[w] = "save" /\ work'[w] = job /\ ~last'[m]
        /\ \A n \in Nodes \ {m} : last'[n] = last[n]
    BY <2>1 DEF Inv, Typed
  <2>3. Typed'
    BY <2>1, <1>1, <1>3 DEF Inv, Typed
  <2>4. Followed(w)'
    BY <2>1, <2>2, <1>1, <1>2 DEF Followed, Before, Unposted
  <2>5. Kept(m)'
    BY <2>1, <2>2, <1>1, <1>2 DEF Kept, At
  <2> HIDE DEF job
  <2> QED BY <2>1, <2>2, <2>3, <2>4, <2>5, <1>1, <1>2, <1>3, SameJobKeeps DEF job
<1>5. CASE Provide(w)
  <2>1. /\ UNCHANGED <<work, late, unsure>> /\ pc[w] = "post"
        /\ ~job.result /\ (m \notin unsure => accepted[m] <= again[m])
    BY <1>2, <1>5 DEF Provide, Followed, Before, Unposted
  <2>2. PICK step \in {"accepted", "rejected"} :
          /\ pc' = [pc EXCEPT ![w] = step]
          /\ accepted' = IF step = "accepted" THEN [accepted EXCEPT ![m] = @ + 1]
                                              ELSE accepted
          /\ last' = [last EXCEPT ![m] = (step = "accepted")]
    BY <1>0, <1>5 DEF Provide, Goto
  <2>3. /\ pc'[w] = step /\ work'[w] = job /\ last'[m] = (step = "accepted")
        /\ accepted'[m] = accepted[m] + (IF step = "accepted" THEN 1 ELSE 0)
        /\ \A n \in Nodes \ {m} : accepted'[n] = accepted[n] /\ last'[n] = last[n]
    BY <2>1, <2>2, <1>2 DEF Inv, Typed
  <2>4. Typed'
    BY <2>1, <2>2, <1>1, <1>2 DEF Inv, Typed, Steps
  <2>5. Followed(w)'
    <3>1. /\ pc'[w] = step /\ work'[w].nid = m /\ ~work'[w].result /\ unsure' = unsure
          /\ work'[w].ref = job.ref
      BY <2>1, <2>3, <1>2
    <3>2. job.ref \/ step = "accepted" => accepted'[m] > 0
      BY <2>1, <2>3, <1>1, <1>2 DEF Followed
    <3>3. step = "rejected" /\ m \notin unsure => accepted'[m] <= again'[m]
      BY <2>1, <2>3, <1>1, <1>2
    <3>4. (step = "accepted" => last'[m]) /\ (step = "rejected" => ~last'[m])
      BY <2>2, <2>3
    <3>5. step \notin Unposted /\ step # "idle"
      BY DEF Unposted
    <3>6. step \in {"accepted", "rejected"} /\ step # "save" /\ step # "end"
      OBVIOUS
    <3> HIDE DEF job
    <3> QED BY <3>1, <3>2, <3>3, <3>4, <3>5, <3>6 DEF Followed, Before
  <2>6. Kept(m)'
    <3>1. At(w, m)'
      BY <1>0, <1>1, <2>3 DEF At
    <3> QED BY <3>1, <2>1, <2>3, <1>1, <1>2 DEF Kept
  <2>7. \A n \in Nodes : accepted[n] > 0 => accepted'[n] > 0
    BY <2>3, <1>2
  <2>8. step \in Steps \ {"idle"} /\ now <= job.deadline
    BY <2>1, <1>2 DEF Steps, Calling
  <2> HIDE DEF job
  <2> QED BY <2>1, <2>2, <2>3, <2>4, <2>5, <2>6, <2>7, <2>8, <1>1, <1>2, SameJobKeeps
          DEF job
<1>6. CASE Answer(w)
  <2> DEFINE got == IsSuccess(w)
  <2>1. got \in BOOLEAN /\ (got <=> pc[w] = "accepted") /\ pc[w] \in {"accepted", "rejected"}
    BY <1>6 DEF IsSuccess, Answer
  <2>2. PICK given \in BOOLEAN :
          /\ work' = [work EXCEPT ![w].result = got, ![w].ref = @ \/ (got /\ given)]
          /\ pc' = [pc EXCEPT ![w] = "save"]
          /\ UNCHANGED <<late, accepted, last, unsure>>
    BY <1>6 DEF Answer, Goto, messages
  <2> DEFINE ref == job.ref \/ (got /\ given)
             j == [job EXCEPT !.result = got, !.ref = ref]
  <2>3. ref \in BOOLEAN /\ work' = [work EXCEPT ![w] = j]
    BY <2>1, <2>2, <1>2 DEF Job
  <2>4. j \in Job /\ j.nid = m /\ j.inserts = job.inserts /\ j.result = got /\ j.ref = ref
    <3> HIDE DEF got, job, ref
    <3> QED BY <2>1, <2>3, <1>2 DEF Job
  <2>5. ref => job.ref \/ pc[w] = "accepted"
    BY <2>1
  <2> HIDE DEF j, got, ref
  <2>6. pc'[w] = "save" /\ work'[w] = j
    BY <2>2, <2>3 DEF Inv, Typed
  <2>7. Typed'
    BY <2>2, <2>3, <2>4, <1>1, <1>3 DEF Inv, Typed
  <2>8. Followed(w)'
    BY <2>1, <2>2, <2>4, <2>5, <2>6, <1>1, <1>2 DEF Followed, Before, Unposted
  <2>9. Kept(m)'
    BY <2>2, <2>4, <2>6, <1>1, <1>2 DEF Kept, At
  <2> HIDE DEF job
  <2> QED BY <2>2, <2>3, <2>4, <2>7, <2>8, <2>9, <1>1, <1>2, <1>3, StepKeeps DEF job
<1>7. CASE CallFails(w)
  <2>1. /\ pc' = [pc EXCEPT ![w] = "save"] /\ UNCHANGED <<work, accepted>>
        /\ last' = [last EXCEPT ![m] = FALSE]
        /\ unsure' = IF pc[w] = "accepted" THEN unsure \cup {m} ELSE unsure
    BY <1>0, <1>7 DEF CallFails, Goto
  <2>2. late' \subseteq Message /\ \A x \in late' : x \in late \/ x.nid = m
    <3>1. late \subseteq Message /\ [nid |-> m, token |-> job.token, id |-> job.id] \in Message
      BY <1>2 DEF Inv, Typed, Job, Message
    <3> QED BY <3>1, <1>0, <1>7 DEF CallFails, Leave
  <2>3. /\ pc'[w] = "save" /\ work'[w] = job /\ ~last'[m]
        /\ \A n \in Nodes \ {m} : last'[n] = last[n]
    BY <2>1 DEF Inv, Typed
  <2>4. Typed'
    BY <2>1, <2>2, <1>1, <1>2, <1>3 DEF Inv, Typed
  <2>5. pc[w] # "accepted" => pc[w] \in Before
    BY <1>1 DEF Calling, Before, Unposted
  <2>6. Followed(w)'
    BY <2>1, <2>3, <2>5, <1>1, <1>2 DEF Followed, Before, Unposted
  <2>7. Kept(m)'
    BY <2>1, <2>3, <1>1, <1>2 DEF Kept, At
  <2> HIDE DEF job
  <2> QED BY <2>1, <2>2, <2>3, <2>4, <2>6, <2>7, <1>1, <1>2, <1>3, SameJobKeeps DEF job
<1> QED BY <1>4, <1>5, <1>6, <1>7

LEMMA SavesKeep ==
  ASSUME Inv, NEW w \in Workers, SaveResult(w) \/ SaveFails(w)
  PROVE  Inv'
<1> DEFINE job == work[w]
<1>1. /\ pc[w] = "save" /\ work' = work /\ pc' = [pc EXCEPT ![w] = "end"]
      /\ UNCHANGED <<now, cache, sends, late, accepted, again, last, writers>>
  BY DEF SaveResult, SaveFails, Goto, messages
<1>0. PICK m \in Nodes : m = job.nid
  BY <1>1 DEF Inv, Placed
<1>2. /\ job \in Job /\ m = job.nid /\ Followed(w) /\ Kept(m) /\ node[m] \in SmsNode
  BY <1>1, <1>0 DEF Inv, Typed, Placed
<1>3. pc'[w] = "end" /\ work'[w] = job /\ work' = [work EXCEPT ![w] = job]
  BY <1>1 DEF Inv, Typed
<1>4. "end" \in Steps \ {"idle"} /\ "end" \notin Calling
  BY DEF Steps, Calling
<1>5. CASE SaveResult(w)
  <2> DEFINE outcome == StatusOf(w)
             ref == job.ref
             new == [node[m] EXCEPT !.status = outcome, !.ref = ref]
  <2>1. node' = [node EXCEPT ![m] = new] /\ unsure' = unsure
    BY <1>0, <1>5 DEF SaveResult
  <2>2. /\ ref \in BOOLEAN /\ outcome \in {"sent", "failed"} /\ (outcome = "sent" <=> job.result)
        /\ (ref => accepted[m] > 0) /\ (job.result => accepted[m] > 0)
    BY <1>1, <1>2 DEF StatusOf, Job, Followed
  <2>3. new \in SmsNode /\ new.status = outcome /\ new.ref = ref
        /\ new.presence = node[m].presence
    <3> HIDE DEF outcome, ref
    <3> QED BY <2>2, <1>2 DEF SmsNode, Statuses
  <2> HIDE DEF new, outcome, ref
  <2>4. node'[m] = new /\ \A n \in Nodes \ {m} : node'[n] = node[n]
    BY <2>1, <1>2 DEF Inv, Typed
  <2>5. Typed'
    BY <2>1, <2>3, <1>1 DEF Inv, Typed, Steps
  <2>6. m \notin unsure => Shows(m)'
    BY <2>2, <2>3, <2>4, <1>1, <1>2 DEF Followed, Shows
  <2>7. Followed(w)'
    BY <2>1, <2>6, <1>1, <1>2, <1>3 DEF Followed, Before, Unposted, Shows
  <2>8. Kept(m)'
    BY <2>1, <2>2, <2>3, <2>4, <2>6, <1>1, <1>2 DEF Kept, Followed
  <2>9. \A n \in Nodes : node'[n].presence = node[n].presence
    BY <2>3, <2>4
  <2> HIDE DEF job
  <2> QED BY <2>1, <2>4, <2>5, <2>7, <2>8, <2>9, <1>1, <1>2, <1>3, <1>4, StepKeeps DEF job
<1>6. CASE SaveFails(w)
  <2>1. node' = node /\ unsure' = unsure \cup {m}
    BY <1>0, <1>6 DEF SaveFails
  <2>2. Typed'
    BY <2>1, <1>1, <1>2 DEF Inv, Typed, Steps
  <2>3. Followed(w)' /\ Kept(m)'
    BY <2>1, <1>1, <1>2, <1>3 DEF Followed, Kept, Before, Unposted
  <2> HIDE DEF job
  <2> QED BY <2>1, <2>2, <2>3, <1>1, <1>2, <1>3, <1>4, StepKeeps DEF job
<1> QED BY <1>5, <1>6

LEMMA EndsKeep ==
  ASSUME Inv, NEW w \in Workers, End(w) \/ Abort(w)
  PROVE  Inv'
<1> DEFINE job == work[w]
<1>1. /\ pc[w] # "idle" /\ work' = [work EXCEPT ![w] = Idle]
      /\ pc' = [pc EXCEPT ![w] = "idle"]
      /\ now' = now /\ sends' = sends /\ UNCHANGED <<accepted, again, last>>
  BY DEF End, Abort, Goto, messages
<1>0. PICK m \in Nodes : m = job.nid
  BY <1>1 DEF Inv, Placed
<1>2. /\ job \in Job /\ m = job.nid /\ Followed(w) /\ Kept(m) /\ node[m] \in SmsNode
      /\ node[m].presence \in {"open", "there"}
  BY <1>1, <1>0 DEF Inv, Typed, Placed
<1>3. Idle \in Job
  BY DEF Idle, Job
<1>4. \A v \in Workers : At(v, m)' <=> At(v, m) /\ v # w
  BY <1>1 DEF At, Inv, Typed
<1>5. CASE End(w)
  <2> DEFINE new == [node[m] EXCEPT !.presence = "there"]
  <2>1. /\ pc[w] = "end" /\ unsure' = unsure /\ late' = late
        /\ node' = IF job.inserts THEN [node EXCEPT ![m] = new] ELSE node
    BY <1>0, <1>5 DEF End, messages
  <2>2. cache' \in Pair /\ writers' \in Pair
    <3>1. job.token \in Nat /\ job.id \in Nat /\ ExpiresAt(job) \in Nat
      BY <1>2, SmsAssumption DEF Job, ExpiresAt, Max2
    <3> QED BY <1>5, <3>1 DEF End, Pair, Inv, Typed
  <2>3. /\ new \in SmsNode /\ new.status = node[m].status /\ new.ref = node[m].ref
        /\ new.presence = "there"
    BY <1>2 DEF SmsNode, Presence
  <2> HIDE DEF new
  <2>4. /\ \A n \in Nodes \ {m} : node'[n] = node[n]
        /\ node'[m].status = node[m].status /\ node'[m].ref = node[m].ref
        /\ node'[m].presence # "none"
    BY <2>1, <2>3, <1>2 DEF Inv, Typed
  <2>5. Typed'
    BY <2>1, <2>2, <2>3, <1>1, <1>2, <1>3 DEF Inv, Typed, Steps
  <2>6. m \notin unsure => Shows(m)
    BY <2>1, <1>2 DEF Followed
  <2>7. Kept(m)'
    BY <2>1, <2>4, <2>6, <1>1, <1>2 DEF Kept, Shows
  <2> HIDE DEF job
  <2> QED BY <2>1, <2>4, <2>5, <2>7, <1>1, <1>2, LeaveKeeps DEF job
<1>6. CASE Abort(w)
  <2> DEFINE new == [presence |-> "undone", status |-> "unset", ref |-> FALSE]
  <2>0. late' \subseteq Message /\ \A x \in late' : x \in late \/ x.nid = m
    <3>1. late \subseteq Message /\ [nid |-> m, token |-> job.token, id |-> job.id] \in Message
      BY <1>2 DEF Inv, Typed, Job, Message
    <3> QED BY <3>1, <1>0, <1>6 DEF Abort, Leave
  <2>1. /\ unsure' = IF pc[w] \in {"accepted", "rejected", "save"} THEN unsure \cup {m}
                                                                 ELSE unsure
        /\ node' = IF job.inserts THEN [node EXCEPT ![m] = new] ELSE node
        /\ cache' = cache /\ writers' = writers
    BY <1>0, <1>6 DEF Abort
  <2>2. /\ new \in SmsNode /\ new.status = "unset" /\ new.presence = "undone" /\ ~new.ref
    BY DEF SmsNode, Presence, Statuses
  <2> HIDE DEF new
  <2>3. /\ \A n \in Nodes \ {m} : node'[n] = node[n]
        /\ job.inserts => node'[m] = new
        /\ ~job.inserts => node'[m] = node[m]
    BY <2>1, <1>2 DEF Inv, Typed
  <2>4. Typed'
    BY <2>0, <2>1, <2>2, <1>1, <1>2, <1>3 DEF Inv, Typed, Steps
  <2>5. m \notin unsure' /\ ~job.inserts => Shows(m)
    <3>1. pc[w] \notin {"accepted", "rejected", "save"} => pc[w] \in Unposted \cup {"end"}
      BY <1>1 DEF Unposted, Steps, Inv, Typed
    <3> QED BY <3>1, <2>1, <1>1, <1>2 DEF Followed, Shows
  <2>6. Kept(m)'
    <3>1. CASE job.inserts
      BY <3>1, <2>1, <2>2, <2>3, <1>1, <1>2 DEF Kept
    <3>2. CASE ~job.inserts
      BY <3>2, <2>1, <2>3, <2>5, <1>1, <1>2 DEF Kept, Shows
    <3> QED BY <3>1, <3>2
  <2> HIDE DEF job
  <2> QED BY <2>0, <2>1, <2>3, <2>4, <2>6, <1>1, <1>2, LeaveKeeps DEF job
<1> QED BY <1>5, <1>6

LEMMA TickKeeps ==
  ASSUME Inv, Tick
  PROVE  Inv'
<1>1. /\ now' = now + 1
      /\ UNCHANGED <<cache, node, pc, work, sends, late, accepted, again, last, writers, unsure>>
  BY DEF Tick, messages
<1>2. Typed'
  BY <1>1 DEF Inv, Typed
<1>3. ASSUME NEW w \in Workers PROVE Placed(w)'
  <2>1. Waits(w) /\ Placed(w) /\ now \in Nat /\ work[w].deadline \in Nat
    BY DEF Tick, Inv, Typed, Job
  <2> QED BY <1>1, <2>1 DEF Waits, Placed, Calling
<1>4. \A v, w \in Workers : Apart(v, w)'
  BY <1>1 DEF Inv, Apart
<1>5. \A w \in Workers : Followed(w)'
  BY <1>1 DEF Inv, Followed, Shows
<1>6. \A n \in Nodes : Kept(n)'
  BY <1>1 DEF Inv, Kept, Shows, At
<1> QED BY <1>2, <1>3, <1>4, <1>5, <1>6 DEF Inv

LEMMA TakeLateKeeps ==
  ASSUME Inv, NEW m \in late, TakeLate(m)
  PROVE  Inv'
<1>1. PICK n \in Nodes : n = m.nid
  BY DEF Inv, Typed, Message
<1>2. /\ accepted' = [accepted EXCEPT ![n] = @ + 1] /\ unsure' = unsure \cup {n}
      /\ late' \subseteq late
      /\ UNCHANGED <<now, cache, node, pc, work, sends, again, last, writers>>
  BY <1>1 DEF TakeLate
<1>3. /\ accepted[n] \in Nat /\ accepted'[n] = accepted[n] + 1
      /\ \A x \in Nodes \ {n} : accepted'[x] = accepted[x]
  BY <1>2 DEF Inv, Typed
<1>4. Typed'
  BY <1>2 DEF Inv, Typed
<1>5. \A w \in Workers : Placed(w)'
  BY <1>2 DEF Inv, Placed
<1>6. \A v, w \in Workers : Apart(v, w)'
  BY <1>2 DEF Inv, Apart
<1>7. ASSUME NEW w \in Workers PROVE Followed(w)'
  <2>1. Followed(w) /\ Placed(w)
    BY DEF Inv
  <2>2. CASE pc[w] # "idle" /\ work[w].nid = n
    BY <2>1, <2>2, <1>2, <1>3 DEF Followed
  <2>3. CASE pc[w] # "idle" /\ work[w].nid # n
    BY <2>1, <2>3, <1>2, <1>3 DEF Followed, Shows, Placed
  <2>4. CASE pc[w] = "idle"
    BY <2>4, <1>2 DEF Followed
  <2> QED BY <2>2, <2>3, <2>4
<1>8. Kept(n)'
  <2>1. Kept(n) /\ node[n].presence # "none"
    BY <1>1 DEF Inv, Kept
  <2> QED BY <2>1, <1>2, <1>3 DEF Kept
<1>9. ASSUME NEW x \in Nodes, x # n PROVE Kept(x)'
  <2>1. Kept(x) /\ accepted'[x] = accepted[x] /\ (x \in unsure' <=> x \in unsure)
    BY <1>2, <1>3, <1>9 DEF Inv
  <2> QED BY <2>1, <1>2 DEF Kept, Shows, At
<1> QED BY <1>4, <1>5, <1>6, <1>7, <1>8, <1>9 DEF Inv

LEMMA InitInv == Init => Inv
<1> SUFFICES ASSUME Init PROVE Inv
  OBVIOUS
<1>1. Typed
  BY DEF Init, Typed, Pair, Job, Idle, SmsNode, Presence, Statuses, Steps, Message
<1>2. /\ \A w \in Workers : pc[w] = "idle"
      /\ \A n \in Nodes : node[n].presence = "none" /\ node[n].status = "unset"
                          /\ accepted[n] = 0 /\ again[n] = 0 /\ ~last[n]
                          /\ ~node[n].ref
      /\ late = {}
  BY DEF Init
<1> QED BY <1>1, <1>2 DEF Inv, Placed, Apart, Followed, Kept

LEMMA NextKeepsInv ==
  ASSUME Inv, [Next]_vars
  PROVE  Inv'
<1>1. CASE UNCHANGED vars
  <2>1. /\ UNCHANGED <<now, cache, node, pc, work, sends, writers, unsure>>
        /\ UNCHANGED <<late, accepted, again, last>>
    BY <1>1 DEF vars, messages
  <2> QED BY <2>1 DEF Inv, Typed, Placed, Apart, Followed, Kept, Shows, At
<1>2. CASE Tick
  BY <1>2, TickKeeps
<1>3. ASSUME NEW w \in Workers, Dispatch(w) PROVE Inv'
  <2>1. CASE \/ ReadToken(w) \/ ReadExpires(w) \/ Issue(w) \/ ReceiveToken(w)
             \/ WriteToken(w) \/ WriteExpires(w)
    BY <2>1, TokenStepsGoOn, OnwardKeeps
  <2>2. CASE Unsendable(w) \/ Provide(w) \/ Answer(w) \/ CallFails(w)
    BY <2>2, CallsKeep
  <2>3. CASE SaveResult(w) \/ SaveFails(w)
    BY <2>3, SavesKeep
  <2>4. CASE End(w) \/ Abort(w)
    BY <2>4, EndsKeep
  <2>5. ASSUME NEW n \in Nodes, NEW s \in {"unset", "skipped"}, Insert(w, n, s)
        PROVE  Inv'
    BY <2>5, InsertKeeps
  <2>6. ASSUME NEW n \in Nodes, Resend(w, n) PROVE Inv'
    BY <2>6, ResendKeeps
  <2> QED BY <1>3, <2>1, <2>2, <2>3, <2>4, <2>5, <2>6 DEF Dispatch
<1>4. ASSUME NEW m \in late, TakeLate(m) PROVE Inv'
  BY <1>4, TakeLateKeeps
<1> QED BY <1>1, <1>2, <1>3, <1>4 DEF Next

LEMMA SpecInv == Spec => []Inv
<1> QED BY InitInv, NextKeepsInv, PTL DEF Spec

-----------------------------------------------------------------------------
(* The invariant behind the paired tokens: what the entries of the cache   *)
(* and the processes between them promise of the life of a token.          *)

\* Steps at which the process has written neither entry of the cache, and those
\* after it has.
Unwritten == {"readToken", "readExpires", "ask", "issued", "writeToken"}
Onto == {"post", "accepted", "rejected", "save", "end"}

Active(w) == pc[w] # "idle"

\* Every dispatch has a number of its own; an insertion holds what it wrote
\* until its end.
Numbered(w) ==
  Active(w) => /\ work[w].id \in 1..sends /\ work[w].writer <= sends
               /\ work[w].start <= now
               /\ work[w].holds => pc[w] \in Onto

Distinct(v, w) == v # w /\ Active(v) /\ Active(w) => work[v].id # work[w].id

\* A token issued to a process lasts as long as the process says, but for what a
\* short one falls short; one it posts with lasts as long as the margin.
OwnToken(w) ==
  /\ pc[w] \in {"issued", "writeToken", "writeExpires"} \/ (Active(w) /\ work[w].holds) =>
       ExpiresAt(work[w]) <= work[w].token + Shortfall
  /\ pc[w] = "readExpires" => work[w].start = now
  /\ pc[w] = "post" /\ work[w].paired =>
       work[w].start + Margin < work[w].token + Shortfall

\* Nobody has what the process v has not written.
Unread(v) ==
  /\ pc[v] \in Unwritten \/ (Active(v) /\ work[v].holds) =>
       /\ writers.token # work[v].id /\ writers.expires # work[v].id
       /\ \A w \in Workers : pc[w] = "readExpires" => work[w].writer # work[v].id
  /\ pc[v] = "writeExpires" => writers.expires # work[v].id

\* A token and a time written, or to be written, by one process: the token
\* lasts as long, but for the shortfall.
Good(token, writer) ==
  /\ writer = writers.expires => cache.expires <= token + Shortfall
  /\ \A v \in Workers : pc[v] = "writeExpires" /\ work[v].id = writer =>
       ExpiresAt(work[v]) <= token + Shortfall

ReadersGood ==
  \A w \in Workers : pc[w] = "readExpires" => Good(work[w].token, work[w].writer)

Lasting ==
  /\ writers.token <= sends /\ writers.expires <= sends
  /\ Good(cache.token, writers.token)
  /\ ReadersGood
  /\ \A w \in Workers : Numbered(w) /\ OwnToken(w) /\ Unread(w)
  /\ \A v, w \in Workers : Distinct(v, w)

\* The process w goes on, or begins or ends a dispatch.
Moves(w, j, step) ==
  /\ work' = [work EXCEPT ![w] = j] /\ pc' = [pc EXCEPT ![w] = step] /\ now' = now
  /\ \/ sends' = sends /\ Active(w) /\ (step # "idle" => j.id = work[w].id)
     \/ /\ sends' = sends + 1 /\ j.id = sends + 1 /\ pc[w] = "idle"
        /\ UNCHANGED <<cache, writers>>

LEMMA MovesTo ==
  ASSUME Typed, NEW w \in Workers, NEW j, NEW step, Moves(w, j, step)
  PROVE  /\ work'[w] = j /\ pc'[w] = step
         /\ \A v \in Workers \ {w} : work'[v] = work[v] /\ pc'[v] = pc[v]
BY DEF Typed, Moves

\* A step at the cache leaves the other processes what they know.
LEMMA OthersLast ==
  ASSUME Inv, Lasting, NEW w \in Workers, NEW j \in Job, NEW step \in Steps,
         Moves(w, j, step),
         writers'.token = writers.token \/ (Active(w) /\ writers'.token = work[w].id),
         writers'.expires = writers.expires \/ (Active(w) /\ writers'.expires = work[w].id),
         step = "readExpires" => j.writer = writers.token,
         Numbered(w)', OwnToken(w)', Unread(w)',
         Good(cache.token, writers.token)', ReadersGood'
  PROVE  Lasting'
<1>1. /\ work'[w] = j /\ pc'[w] = step
      /\ \A v \in Workers \ {w} : work'[v] = work[v] /\ pc'[v] = pc[v]
  BY MovesTo DEF Inv
<1>2. /\ now' = now /\ sends \in Nat /\ sends' \in Nat /\ sends <= sends'
      /\ writers.token \in Nat /\ writers.expires \in Nat
      /\ writers.token <= sends /\ writers.expires <= sends
  BY DEF Inv, Typed, Pair, Moves, Lasting
<1>3. Active(w) => work[w].id \in 1..sends
  BY DEF Lasting, Numbered
<1>4. writers'.token <= sends' /\ writers'.expires <= sends'
  BY <1>2, <1>3
<1>5. ASSUME NEW v \in Workers, v # w PROVE Numbered(v)' /\ OwnToken(v)' /\ Unread(v)'
  <2>1. /\ Numbered(v) /\ OwnToken(v) /\ Unread(v) /\ work'[v] = work[v] /\ pc'[v] = pc[v]
        /\ Distinct(v, w)
    BY <1>1, <1>5 DEF Lasting
  <2>2. Numbered(v)'
    <3>1. work[v] \in Job
      BY DEF Inv, Typed
    <3> QED BY <2>1, <3>1, <1>2 DEF Numbered, Active, Job
  <2>3. OwnToken(v)'
    BY <2>1, <1>2 DEF OwnToken, ExpiresAt, Active
  <2>4. Active(v) => writers'.token # work[v].id \/ writers'.token = writers.token
    BY <1>5, <2>1 DEF Distinct
  <2>5. Active(v) => writers'.expires # work[v].id \/ writers'.expires = writers.expires
    BY <1>5, <2>1 DEF Distinct
  <2>6. Unread(v)'
    <3>1. CASE pc[v] \in Unwritten \/ (Active(v) /\ work[v].holds)
      <4>1. /\ Active(v) /\ writers.token # work[v].id /\ writers.expires # work[v].id
            /\ \A r \in Workers : pc[r] = "readExpires" => work[r].writer # work[v].id
        BY <2>1, <3>1 DEF Unread, Unwritten, Active
      <4>2. /\ writers'.token # work[v].id /\ writers'.expires # work[v].id
        BY <2>4, <2>5, <4>1
      <4>3. \A r \in Workers : pc'[r] = "readExpires" => work'[r].writer # work[v].id
        BY <1>1, <4>1
      <4> QED BY <2>1, <4>2, <4>3 DEF Unread
    <3>2. CASE ~(pc[v] \in Unwritten \/ (Active(v) /\ work[v].holds))
      <4>1. pc[v] = "writeExpires" => writers'.expires # work[v].id
        BY <2>1, <2>5 DEF Unread, Active
      <4> QED BY <2>1, <3>2, <4>1 DEF Unread, Active
    <3> QED BY <3>1, <3>2
  <2> QED BY <2>2, <2>3, <2>6
<1>6. ASSUME NEW u \in Workers, NEW v \in Workers PROVE Distinct(u, v)'
  <2>1. Distinct(u, v)
    BY DEF Lasting
  <2>2. ASSUME NEW x \in Workers, x # w, Active(x) PROVE work[x].id \in 1..sends
    BY <2>2 DEF Lasting, Numbered
  <2>3. CASE u # w /\ v # w
    BY <1>1, <2>1, <2>3 DEF Distinct, Active
  <2>4. CASE u = w \/ v = w
    <3>1. ASSUME NEW x \in Workers, x # w, Active(x), step # "idle" PROVE work[x].id # j.id
      <4>1. CASE Active(w) /\ j.id = work[w].id
        BY <3>1, <4>1 DEF Lasting, Distinct
      <4>2. CASE j.id = sends + 1
        BY <2>2, <3>1, <4>2, <1>2
      <4> QED BY <3>1, <4>1, <4>2 DEF Moves
    <3> QED BY <1>1, <2>4, <3>1 DEF Distinct, Active
  <2> QED BY <2>3, <2>4
<1> QED BY <1>4, <1>5, <1>6 DEF Lasting

\* While the cache is as it was, and nothing is about to be written to it.
LEMMA QuietLast ==
  ASSUME Inv, Lasting, NEW w \in Workers, NEW j \in Job, NEW step \in Steps,
         Moves(w, j, step), UNCHANGED <<cache, writers>>,
         step # "writeExpires",
         step = "readExpires" => j.token = cache.token /\ j.writer = writers.token,
         step # "idle" => /\ j.writer <= sends /\ j.start <= now
                          /\ j.holds => step \in Onto,
         sends' = sends /\ (step \in Unwritten \/ (step # "idle" /\ j.holds)) =>
           pc[w] \in Unwritten \/ (Active(w) /\ work[w].holds),
         OwnToken(w)'
  PROVE  Lasting'
<1>1. /\ work'[w] = j /\ pc'[w] = step
      /\ \A v \in Workers \ {w} : work'[v] = work[v] /\ pc'[v] = pc[v]
  BY MovesTo DEF Inv
<1>2. /\ now' = now /\ sends \in Nat /\ sends' \in Nat /\ sends <= sends'
      /\ j.writer \in Nat /\ writers.token <= sends /\ writers.expires <= sends
      /\ writers.token \in Nat /\ writers.expires \in Nat
  BY DEF Inv, Typed, Pair, Moves, Lasting, Job
<1>3. Numbered(w)'
  <2>1. step # "idle" => j.id \in 1..sends'
    BY <1>2 DEF Moves, Lasting, Numbered, Active
  <2> QED BY <1>1, <1>2, <2>1 DEF Numbered, Active
<1>4. ASSUME NEW T, NEW i, Good(T, i) PROVE Good(T, i)'
  <2>1. \A v \in Workers : pc'[v] = "writeExpires" => work'[v] = work[v] /\ pc[v] = "writeExpires"
    BY <1>1
  <2> QED BY <1>4, <2>1 DEF Good, ExpiresAt
<1>5. Good(cache.token, writers.token)'
  <2>1. PICK T, i : T = cache.token /\ i = writers.token
    OBVIOUS
  <2>2. Good(T, i)'
    BY <1>4, <2>1 DEF Lasting
  <2> QED BY <2>1, <2>2 DEF Good
<1>6. ReadersGood'
  <2> SUFFICES ASSUME NEW r \in Workers, pc'[r] = "readExpires"
               PROVE  Good(work[r].token, work[r].writer)'
    BY DEF ReadersGood
  <2>1. PICK T, i : T = work'[r].token /\ i = work'[r].writer
    OBVIOUS
  <2>2. Good(T, i)
    BY <1>1, <2>1 DEF Lasting, ReadersGood
  <2>3. Good(T, i)'
    BY <1>4, <2>2
  <2> QED BY <2>1, <2>3 DEF Good
<1>7. Unread(w)'
  <2>1. CASE step \in Unwritten \/ (step # "idle" /\ j.holds)
    <3>1. PICK id : id = j.id
      OBVIOUS
    <3>2. /\ writers.token # id /\ writers.expires # id
          /\ \A r \in Workers : pc[r] = "readExpires" => work[r].writer # id
      <4>1. CASE sends' = sends
        <5>1. Active(w) /\ j.id = work[w].id
          BY <2>1, <4>1, <1>2 DEF Moves, Unwritten
        <5> QED BY <2>1, <3>1, <4>1, <5>1 DEF Lasting, Unread
      <4>2. CASE sends' # sends
        <5>1. id = sends + 1
          BY <3>1, <4>2 DEF Moves
        <5>2. \A r \in Workers : pc[r] = "readExpires" =>
                work[r].writer <= sends /\ work[r].writer \in Nat
          BY DEF Lasting, Numbered, Active, Inv, Typed, Job
        <5> QED BY <5>1, <5>2, <1>2
      <4> QED BY <4>1, <4>2
    <3>3. \A r \in Workers : pc'[r] = "readExpires" => work'[r].writer # id
      BY <1>1, <3>2
    <3> QED BY <1>1, <3>1, <3>2, <3>3 DEF Unread
  <2>2. CASE ~(step \in Unwritten \/ (step # "idle" /\ j.holds))
    BY <1>1, <2>2 DEF Unread, Active
  <2> QED BY <2>1, <2>2
<1> QED BY <1>3, <1>5, <1>6, <1>7, OthersLast

LEMMA LifeIsLonger ==
  ASSUME NEW j \in Job
  PROVE  /\ ExpiresAt(j) = j.start + TokenLife + Shortfall /\ ExpiresAt(j) \in Nat
         /\ Shortfall \in Nat /\ Margin < TokenLife + Shortfall
BY SmsAssumption DEF ExpiresAt, Max2, Job, Shortfall

LEMMA BeginsLast ==
  ASSUME Inv, Lasting, NEW w \in Workers, NEW n \in Nodes,
         (\E s \in {"unset", "skipped"} : Insert(w, n, s)) \/ Resend(w, n)
  PROVE  Lasting'
<1>0. /\ Idle \in Job /\ Idle.writer = 0 /\ Idle.start = 0 /\ ~Idle.holds
      /\ sends \in Nat /\ now \in Nat /\ sends + 1 \in Nat
  BY DEF Idle, Job, Inv, Typed
<1>1. PICK j \in Job, step \in {"end", "readToken"} :
        /\ work' = [work EXCEPT ![w] = j] /\ pc' = [pc EXCEPT ![w] = step]
        /\ j.id = sends + 1 /\ j.writer = 0 /\ j.start = 0 /\ ~j.holds
  <2>1. CASE \E s \in {"unset", "skipped"} : Insert(w, n, s)
    <3>1. PICK s : Insert(w, n, s)
      BY <2>1
    <3>2. PICK inserts \in BOOLEAN : inserts = TRUE
      OBVIOUS
    <3>3. PICK j : j = [Idle EXCEPT !.nid = n, !.inserts = inserts, !.id = sends + 1]
      OBVIOUS
    <3>4. j \in Job /\ j.id = sends + 1 /\ j.writer = 0 /\ j.start = 0 /\ ~j.holds
      BY <1>0, <3>3 DEF Job
    <3>5. work' = [work EXCEPT ![w] = j]
      BY <3>1, <3>2, <3>3 DEF Insert
    <3>6. PICK step \in {"end", "readToken"} :
            step = IF s \in TerminalStatuses THEN "end" ELSE "readToken"
      OBVIOUS
    <3>7. pc' = [pc EXCEPT ![w] = step]
      BY <3>1, <3>6 DEF Insert, Goto
    <3> QED BY <3>4, <3>5, <3>7
  <2>2. CASE Resend(w, n)
    <3>1. node[n].ref \in BOOLEAN
      BY DEF Inv, Typed, SmsNode
    <3>2. PICK ref \in BOOLEAN : ref = node[n].ref
      BY <3>1
    <3>3. PICK j : j = [Idle EXCEPT !.nid = n, !.ref = ref, !.id = sends + 1]
      OBVIOUS
    <3>4. j \in Job /\ j.id = sends + 1 /\ j.writer = 0 /\ j.start = 0 /\ ~j.holds
      BY <1>0, <3>3 DEF Job
    <3>5. work' = [work EXCEPT ![w] = j] /\ pc' = [pc EXCEPT ![w] = "readToken"]
      BY <2>2, <3>2, <3>3 DEF Resend, Goto
    <3> QED BY <3>4, <3>5
  <2> QED BY <2>1, <2>2
<1>2. pc[w] = "idle" /\ sends' = sends + 1 /\ UNCHANGED <<now, cache, writers>>
  BY DEF Insert, Resend
<1>4. Moves(w, j, step)
  BY <1>1, <1>2 DEF Moves
<1>5. OwnToken(w)'
  <2>1. work'[w] = j /\ pc'[w] = step
    BY <1>4, MovesTo DEF Inv
  <2> QED BY <1>1, <2>1 DEF OwnToken
<1>6. step \in Steps /\ step # "writeExpires" /\ step # "readExpires"
  BY DEF Steps
<1>7. j.writer <= sends /\ j.start <= now /\ sends' # sends
  BY <1>0, <1>1, <1>2
<1> QED BY <1>1, <1>2, <1>4, <1>5, <1>6, <1>7, QuietLast

\* The message of a process goes on.
LEMMA MessageLast ==
  ASSUME Inv, Lasting, NEW w \in Workers, NEW j \in Job, NEW step \in Steps,
         work' = [work EXCEPT ![w] = j], pc' = [pc EXCEPT ![w] = step],
         UNCHANGED <<now, cache, sends, writers>>, pc[w] # "idle",
         j.id = work[w].id, j.token = work[w].token, j.start = work[w].start,
         j.holds = work[w].holds, j.writer = work[w].writer,
         \/ step \in Onto \ {"post"}
         \/ pc[w] = "issued" /\ step = "writeToken"
  PROVE  Lasting'
<1>1. Moves(w, j, step) /\ Active(w) /\ work[w] \in Job
  BY DEF Moves, Active, Inv, Typed
<1>2. work'[w] = j /\ pc'[w] = step /\ now' = now
  BY <1>1, MovesTo DEF Inv
<1>3. ExpiresAt(j) = ExpiresAt(work[w])
  BY DEF ExpiresAt
<1>4. Numbered(w) /\ OwnToken(w)
  BY DEF Lasting
<1>5. OwnToken(w)'
  BY <1>1, <1>2, <1>3, <1>4 DEF OwnToken, Active, Onto
<1>6. /\ step # "writeExpires" /\ step # "readExpires"
      /\ step \in Unwritten => pc[w] \in Unwritten
  BY DEF Onto, Unwritten
<1>7. j.writer <= sends /\ j.start <= now /\ (j.holds => step \in Onto)
  <2>1. work[w].holds => pc[w] \in Onto
    BY <1>1, <1>4 DEF Numbered
  <2> QED BY <1>1, <1>4, <2>1 DEF Numbered, Onto
<1> QED BY <1>1, <1>5, <1>6, <1>7, QuietLast

\* getAccessToken's choice: a cached token lasts as long as the margin, if it
\* lasts as long as the time read with it.
LEMMA ChoiceLasts ==
  ASSUME Typed, NEW w \in Workers, NEW job \in Job, NEW expires \in Nat,
         Choose(w, job, expires), job.start = now,
         job.paired => expires <= job.token + Shortfall
  PROVE  \E j \in Job, step \in {"ask", "post"} :
           /\ work' = [work EXCEPT ![w] = j] /\ pc' = [pc EXCEPT ![w] = step]
           /\ j.id = job.id /\ j.token = job.token /\ j.start = now /\ j.holds = job.holds
           /\ j.writer = job.writer
           /\ step = "post" /\ j.paired => now + Margin < j.token + Shortfall
<1>1. PICK cached \in BOOLEAN : cached = (job.token # 0 /\ Fresh(expires, job.start))
  OBVIOUS
<1>2. PICK still \in BOOLEAN : still = (cached => job.paired)
  OBVIOUS
<1>3. PICK j : j = [job EXCEPT !.deadline = now + Timeout, !.paired = still]
  OBVIOUS
<1>4. PICK step \in {"ask", "post"} : step = IF cached THEN "post" ELSE "ask"
  OBVIOUS
<1>5. work' = [work EXCEPT ![w] = j] /\ pc' = [pc EXCEPT ![w] = step]
  BY <1>1, <1>2, <1>3, <1>4 DEF Choose, Goto
<1>6. now + Timeout \in Nat /\ now \in Nat
  BY SmsAssumption DEF Typed
<1>7. /\ j \in Job /\ j.id = job.id /\ j.token = job.token /\ j.start = job.start
      /\ j.holds = job.holds /\ j.writer = job.writer /\ j.paired = still
  BY <1>3, <1>6 DEF Job
<1>8. step = "post" /\ still => now + Margin < job.token + Shortfall
  <2>1. step = "post" /\ still => expires > now + Margin /\ expires <= job.token + Shortfall
    BY <1>1, <1>2, <1>4 DEF Fresh
  <2>2. Shortfall \in Nat /\ job.token \in Nat
    BY LifeIsLonger DEF Job
  <2> QED BY <2>1, <2>2, <1>6, SmsAssumption
<1> QED BY <1>5, <1>7, <1>8

LEMMA ReadTokenLast ==
  ASSUME Inv, Lasting, NEW w \in Workers, ReadToken(w)
  PROVE  Lasting'
<1>1. PICK own : own = work[w]
  OBVIOUS
<1>2. /\ own \in Job /\ now \in Nat /\ cache \in Pair /\ writers \in Pair /\ Typed
      /\ pc[w] = "readToken" /\ UNCHANGED <<now, cache, sends, writers>>
  BY <1>1 DEF Inv, Typed, ReadToken
<1>3. ~own.holds /\ Active(w) /\ writers.token <= sends
  BY <1>1, <1>2 DEF Lasting, Numbered, Active, Onto
<1>4. PICK job : job = [own EXCEPT !.start = now, !.token = cache.token,
                                   !.writer = writers.token]
  OBVIOUS
<1>5. /\ job \in Job /\ job.id = own.id /\ job.token = cache.token /\ job.start = now
      /\ job.holds = own.holds /\ job.writer = writers.token
  BY <1>2, <1>4 DEF Job, Pair
<1>6. CASE own.inserts
  <2>1. PICK same \in BOOLEAN : same = (writers.token = writers.expires)
    OBVIOUS
  <2>2. PICK both : both = [job EXCEPT !.paired = same]
    OBVIOUS
  <2>3. Choose(w, both, cache.expires)
    BY <1>1, <1>4, <1>6, <2>1, <2>2 DEF ReadToken
  <2>4. /\ both \in Job /\ both.id = own.id /\ both.token = cache.token /\ both.start = now
        /\ both.holds = own.holds /\ both.writer = writers.token /\ both.paired = same
    BY <1>5, <2>2 DEF Job
  <2>5. both.paired => cache.expires <= both.token + Shortfall
    BY <2>1, <2>4 DEF Lasting, Good
  <2>6. cache.expires \in Nat
    BY <1>2 DEF Pair
  <2>7. PICK j \in Job, step \in {"ask", "post"} :
          /\ work' = [work EXCEPT ![w] = j] /\ pc' = [pc EXCEPT ![w] = step]
          /\ j.id = both.id /\ j.token = both.token /\ j.start = now /\ j.holds = both.holds
          /\ j.writer = both.writer
          /\ step = "post" /\ j.paired => now + Margin < j.token + Shortfall
    BY <1>2, <2>3, <2>4, <2>5, <2>6, ChoiceLasts
  <2>8. Moves(w, j, step) /\ step \in Steps
    BY <1>1, <1>2, <1>3, <2>4, <2>7 DEF Moves, Steps
  <2>9. OwnToken(w)'
    <3>1. work'[w] = j /\ pc'[w] = step
      BY <2>8, MovesTo, <1>2
    <3> QED BY <3>1, <1>2, <1>3, <2>4, <2>7 DEF OwnToken
  <2>10. j.writer <= sends /\ j.start <= now /\ ~j.holds
    BY <1>2, <1>3, <2>4, <2>7
  <2>11. pc[w] \in Unwritten
    BY <1>2 DEF Unwritten
  <2> QED BY <1>2, <2>7, <2>8, <2>9, <2>10, <2>11, QuietLast
<1>7. CASE ~own.inserts
  <2>1. work' = [work EXCEPT ![w] = job] /\ pc' = [pc EXCEPT ![w] = "readExpires"]
    BY <1>1, <1>4, <1>7 DEF ReadToken, Goto
  <2>2. Moves(w, job, "readExpires") /\ "readExpires" \in Steps
    BY <1>1, <1>2, <1>3, <1>5, <2>1 DEF Moves, Steps
  <2>3. OwnToken(w)'
    <3>1. work'[w] = job /\ pc'[w] = "readExpires"
      BY <2>2, MovesTo, <1>2
    <3> QED BY <3>1, <1>2, <1>3, <1>5 DEF OwnToken
  <2>4. job.writer <= sends /\ job.start <= now /\ ~job.holds
    BY <1>2, <1>3, <1>5
  <2>5. pc[w] \in Unwritten
    BY <1>2 DEF Unwritten
  <2> QED BY <1>2, <1>5, <2>2, <2>3, <2>4, <2>5, QuietLast
<1> QED BY <1>6, <1>7

LEMMA ReadExpiresLast ==
  ASSUME Inv, Lasting, NEW w \in Workers, ReadExpires(w)
  PROVE  Lasting'
<1>1. PICK own : own = work[w]
  OBVIOUS
<1>2. /\ own \in Job /\ now \in Nat /\ cache \in Pair /\ writers \in Pair /\ Typed
      /\ pc[w] = "readExpires" /\ UNCHANGED <<now, cache, sends, writers>>
  BY <1>1 DEF Inv, Typed, ReadExpires
<1>3. /\ ~own.holds /\ Active(w) /\ own.writer <= sends /\ own.start = now
      /\ Good(own.token, own.writer)
  BY <1>1, <1>2 DEF Lasting, Numbered, OwnToken, ReadersGood, Active, Onto
<1>4. PICK still \in BOOLEAN : still = (own.paired /\ own.writer = writers.expires)
  BY <1>2 DEF Job
<1>5. PICK job : job = [own EXCEPT !.paired = still]
  OBVIOUS
<1>6. Choose(w, job, cache.expires)
  BY <1>1, <1>4, <1>5 DEF ReadExpires
<1>7. /\ job \in Job /\ job.id = own.id /\ job.token = own.token /\ job.start = own.start
      /\ job.holds = own.holds /\ job.writer = own.writer /\ job.paired = still
  BY <1>2, <1>5 DEF Job
<1>8. job.paired => cache.expires <= job.token + Shortfall
  BY <1>3, <1>4, <1>7 DEF Good
<1>9. cache.expires \in Nat
  BY <1>2 DEF Pair
<1>10. PICK j \in Job, step \in {"ask", "post"} :
         /\ work' = [work EXCEPT ![w] = j] /\ pc' = [pc EXCEPT ![w] = step]
         /\ j.id = job.id /\ j.token = job.token /\ j.start = now /\ j.holds = job.holds
         /\ j.writer = job.writer
         /\ step = "post" /\ j.paired => now + Margin < j.token + Shortfall
  BY <1>2, <1>3, <1>6, <1>7, <1>8, <1>9, ChoiceLasts
<1>11. Moves(w, j, step) /\ step \in Steps
  BY <1>1, <1>2, <1>3, <1>7, <1>10 DEF Moves, Steps
<1>12. OwnToken(w)'
  <2>1. work'[w] = j /\ pc'[w] = step
    BY <1>11, MovesTo, <1>2
  <2> QED BY <2>1, <1>2, <1>3, <1>7, <1>10 DEF OwnToken
<1>13. j.writer <= sends /\ j.start <= now /\ ~j.holds
  BY <1>2, <1>3, <1>7, <1>10
<1>14. pc[w] \in Unwritten
  BY <1>2 DEF Unwritten
<1> QED BY <1>2, <1>10, <1>11, <1>12, <1>13, <1>14, QuietLast

LEMMA IssueLast ==
  ASSUME Inv, Lasting, NEW w \in Workers, Issue(w)
  PROVE  Lasting'
<1>1. PICK own : own = work[w]
  OBVIOUS
<1>2. /\ own \in Job /\ now \in Nat /\ now + TokenLife \in Nat /\ Typed
      /\ pc[w] = "ask" /\ UNCHANGED <<now, cache, sends, writers>>
  BY <1>1, SmsAssumption DEF Inv, Typed, Issue
<1>3. ~own.holds /\ Active(w) /\ own.writer <= sends /\ own.start <= now
  BY <1>1, <1>2 DEF Lasting, Numbered, OwnToken, Active, Onto
<1>4. PICK j : j = [own EXCEPT !.token = now + TokenLife]
  OBVIOUS
<1>5. /\ j \in Job /\ j.id = own.id /\ j.token = now + TokenLife /\ j.start = own.start
      /\ j.holds = own.holds /\ j.writer = own.writer
  BY <1>2, <1>4 DEF Job
<1>6. work' = [work EXCEPT ![w] = j] /\ pc' = [pc EXCEPT ![w] = "issued"]
  BY <1>1, <1>4 DEF Issue, Goto
<1>7. Moves(w, j, "issued") /\ "issued" \in Steps
  BY <1>1, <1>2, <1>3, <1>5, <1>6 DEF Moves, Steps
<1>8. OwnToken(w)'
  <2>1. work'[w] = j /\ pc'[w] = "issued"
    BY <1>7, MovesTo, <1>2
  <2>2. ExpiresAt(j) <= j.token + Shortfall
    BY <1>2, <1>3, <1>5, LifeIsLonger, SmsAssumption DEF Job
  <2>3. ExpiresAt(work[w])' = ExpiresAt(j)
    BY <2>1 DEF ExpiresAt
  <2> QED BY <2>1, <2>2, <2>3, <1>3, <1>5 DEF OwnToken
<1>9. j.writer <= sends /\ j.start <= now /\ ~j.holds /\ pc[w] \in Unwritten
  BY <1>2, <1>3, <1>5 DEF Unwritten
<1> QED BY <1>2, <1>5, <1>7, <1>8, <1>9, QuietLast

\* A token that was issued lasts as long as the margin.
LEMMA ReadyLasts ==
  ASSUME Inv, Lasting, NEW w \in Workers, pc[w] \in {"writeToken", "writeExpires"}
  PROVE  \E j \in Job :
           /\ j = ReadyToPost(work[w])
           /\ j.id = work[w].id /\ j.token = work[w].token /\ j.start = work[w].start
           /\ j.holds = work[w].holds /\ j.writer = work[w].writer
           /\ j.start + Margin < j.token + Shortfall
<1>1. PICK own : own = work[w]
  OBVIOUS
<1>2. own \in Job /\ now \in Nat /\ now + Timeout \in Nat
  BY <1>1, SmsAssumption DEF Inv, Typed
<1>3. ExpiresAt(own) <= own.token + Shortfall
  BY <1>1 DEF Lasting, OwnToken
<1>4. PICK j : j = [own EXCEPT !.deadline = now + Timeout]
  OBVIOUS
<1>5. j = ReadyToPost(work[w])
  BY <1>1, <1>4 DEF ReadyToPost
<1>6. /\ j \in Job /\ j.id = own.id /\ j.token = own.token /\ j.start = own.start
      /\ j.holds = own.holds /\ j.writer = own.writer
  BY <1>2, <1>4 DEF Job
<1>7. own.start + Margin < own.token + Shortfall
  <2>1. own.start \in Nat /\ own.token \in Nat
    BY <1>2 DEF Job
  <2>2. /\ own.start + TokenLife + Shortfall <= own.token + Shortfall
        /\ Shortfall \in Nat /\ Margin < TokenLife + Shortfall
    BY <1>2, <1>3, LifeIsLonger
  <2> QED BY <2>1, <2>2, SmsAssumption
<1> QED BY <1>1, <1>5, <1>6, <1>7

LEMMA WriteTokenLast ==
  ASSUME Inv, Lasting, NEW w \in Workers, WriteToken(w)
  PROVE  Lasting'
<1>1. PICK own : own = work[w]
  OBVIOUS
<1>2. /\ own \in Job /\ now \in Nat /\ Typed /\ cache \in Pair /\ writers \in Pair
      /\ pc[w] = "writeToken" /\ UNCHANGED <<now, sends>>
  BY <1>1 DEF Inv, Typed, WriteToken
<1>3. /\ ~own.holds /\ Active(w) /\ own.writer <= sends /\ own.start <= now
      /\ ExpiresAt(own) <= own.token + Shortfall
      /\ Numbered(w) /\ Unread(w)
  BY <1>1, <1>2 DEF Lasting, Numbered, OwnToken, Active, Onto
<1>4. CASE own.inserts
  <2>1. PICK k \in Job :
           /\ k = ReadyToPost(work[w])
           /\ k.id = own.id /\ k.token = own.token /\ k.start = own.start
           /\ k.holds = own.holds /\ k.writer = own.writer
           /\ k.start + Margin < k.token + Shortfall
    BY <1>1, <1>2, ReadyLasts
  <2>2. PICK on \in BOOLEAN : on = TRUE
    OBVIOUS
  <2>3. PICK j : j = [k EXCEPT !.holds = on]
    OBVIOUS
  <2>4. /\ j \in Job /\ j.id = k.id /\ j.token = k.token /\ j.start = k.start
        /\ j.holds /\ j.writer = k.writer
    BY <2>2, <2>3 DEF Job
  <2>5. /\ work' = [work EXCEPT ![w] = j] /\ pc' = [pc EXCEPT ![w] = "post"]
        /\ UNCHANGED <<cache, writers>>
    BY <1>1, <1>4, <2>1, <2>2, <2>3 DEF WriteToken, Goto
  <2>6. Moves(w, j, "post") /\ "post" \in Steps /\ "post" \in Onto /\ "post" \notin Unwritten
    BY <1>1, <1>2, <1>3, <2>1, <2>4, <2>5 DEF Moves, Steps, Onto, Unwritten
  <2>7. OwnToken(w)'
    <3>1. work'[w] = j /\ pc'[w] = "post"
      BY <2>6, MovesTo, <1>2
    <3>2. ExpiresAt(work[w])' <= j.token + Shortfall
      BY <1>3, <2>1, <2>4, <3>1 DEF ExpiresAt
    <3> QED BY <3>1, <3>2, <2>1, <2>4 DEF OwnToken
  <2>8. j.writer <= sends /\ j.start <= now /\ pc[w] \in Unwritten
    BY <1>2, <1>3, <2>1, <2>4 DEF Unwritten
  <2> QED BY <1>2, <2>4, <2>5, <2>6, <2>7, <2>8, QuietLast
<1>5. CASE ~own.inserts
  <2>1. /\ cache' = [cache EXCEPT !.token = own.token]
        /\ writers' = [writers EXCEPT !.token = own.id]
        /\ work' = work /\ pc' = [pc EXCEPT ![w] = "writeExpires"]
    BY <1>1, <1>5 DEF WriteToken, Goto
  <2>2. /\ cache'.token = own.token /\ cache'.expires = cache.expires
        /\ writers'.token = own.id /\ writers'.expires = writers.expires
    BY <1>2, <2>1 DEF Pair
  <2>3. work' = [work EXCEPT ![w] = own]
    BY <1>1, <2>1 DEF Inv, Typed
  <2>4. Moves(w, own, "writeExpires") /\ "writeExpires" \in Steps
    BY <1>1, <1>2, <1>3, <2>1, <2>3 DEF Moves, Steps
  <2>5. /\ work'[w] = own /\ pc'[w] = "writeExpires"
        /\ \A v \in Workers \ {w} : work'[v] = work[v] /\ pc'[v] = pc[v]
    BY <2>4, MovesTo, <1>2
  <2>6. Numbered(w)'
    BY <1>1, <1>2, <1>3, <2>5 DEF Numbered, Active
  <2>7. OwnToken(w)'
    <3>1. ExpiresAt(work[w])' <= own.token + Shortfall
      BY <1>3, <2>5 DEF ExpiresAt
    <3> QED BY <3>1, <1>3, <2>5 DEF OwnToken
  <2>8. /\ writers.token # own.id /\ writers.expires # own.id
        /\ \A r \in Workers : pc[r] = "readExpires" => work[r].writer # own.id
    BY <1>1, <1>2, <1>3 DEF Unread, Unwritten
  <2>9. Unread(w)'
    BY <1>3, <2>2, <2>5, <2>8 DEF Unread, Unwritten
  <2>10. ASSUME NEW v \in Workers, pc'[v] = "writeExpires", work'[v].id = own.id
         PROVE  v = w
    <3>1. Distinct(v, w)
      BY DEF Lasting
    <3> QED BY <1>1, <1>3, <2>5, <2>10, <3>1 DEF Distinct, Active
  <2>11. Good(cache.token, writers.token)'
    <3>1. ASSUME NEW v \in Workers, pc'[v] = "writeExpires", work'[v].id = own.id
          PROVE  ExpiresAt(work[v])' <= own.token + Shortfall
      <4>1. v = w
        BY <2>10, <3>1
      <4> QED BY <4>1, <1>3, <2>5 DEF ExpiresAt
    <3> QED BY <2>2, <2>8, <3>1 DEF Good
  <2>12. ASSUME NEW r \in Workers, pc'[r] = "readExpires"
         PROVE  Good(work[r].token, work[r].writer)'
    <3>1. /\ r # w /\ work'[r] = work[r] /\ Good(work[r].token, work[r].writer)
          /\ work[r].writer # own.id
      BY <2>5, <2>8, <2>12 DEF Lasting, ReadersGood
    <3>2. ASSUME NEW v \in Workers, pc'[v] = "writeExpires", work'[v].id = work[r].writer
          PROVE  ExpiresAt(work[v])' <= work[r].token + Shortfall
      <4>1. v # w
        BY <2>5, <3>1, <3>2
      <4> QED BY <4>1, <2>5, <3>1, <3>2 DEF Good, ExpiresAt
    <3> QED BY <2>2, <3>1, <3>2 DEF Good
  <2>13. ReadersGood'
    BY <2>12 DEF ReadersGood
  <2> QED BY <1>1, <1>2, <1>3, <2>2, <2>4, <2>6, <2>7, <2>9, <2>11, <2>13, OthersLast
<1> QED BY <1>4, <1>5

LEMMA WriteExpiresLast ==
  ASSUME Inv, Lasting, NEW w \in Workers, WriteExpires(w)
  PROVE  Lasting'
<1>1. PICK own : own = work[w]
  OBVIOUS
<1>2. /\ own \in Job /\ now \in Nat /\ Typed /\ cache \in Pair /\ writers \in Pair
      /\ pc[w] = "writeExpires" /\ UNCHANGED <<now, sends>>
  BY <1>1 DEF Inv, Typed, WriteExpires
<1>3. ~own.holds /\ Active(w) /\ own.writer <= sends /\ own.start <= now /\ Numbered(w)
  BY <1>1, <1>2 DEF Lasting, Numbered, Active, Onto
<1>4. PICK j \in Job :
         /\ j = ReadyToPost(work[w])
         /\ j.id = own.id /\ j.token = own.token /\ j.start = own.start
         /\ j.holds = own.holds /\ j.writer = own.writer
         /\ j.start + Margin < j.token + Shortfall
  BY <1>1, <1>2, ReadyLasts
<1>5. PICK e : e = ExpiresAt(own)
  OBVIOUS
<1>6. /\ cache' = [cache EXCEPT !.expires = e]
      /\ writers' = [writers EXCEPT !.expires = own.id]
      /\ work' = [work EXCEPT ![w] = j] /\ pc' = [pc EXCEPT ![w] = "post"]
  BY <1>1, <1>4, <1>5 DEF WriteExpires, Goto
<1>7. /\ cache'.token = cache.token /\ cache'.expires = e
      /\ writers'.token = writers.token /\ writers'.expires = own.id
  BY <1>2, <1>6 DEF Pair
<1>8. Moves(w, j, "post") /\ "post" \in Steps
  BY <1>1, <1>2, <1>3, <1>4, <1>6 DEF Moves, Steps
<1>9. /\ work'[w] = j /\ pc'[w] = "post"
      /\ \A v \in Workers \ {w} : work'[v] = work[v] /\ pc'[v] = pc[v]
  BY <1>8, MovesTo, <1>2
<1>10. Numbered(w)' /\ OwnToken(w)' /\ Unread(w)'
  <2>1. Numbered(w)'
    BY <1>1, <1>2, <1>3, <1>4, <1>9 DEF Numbered, Active
  <2>2. OwnToken(w)'
    BY <1>3, <1>4, <1>9 DEF OwnToken
  <2>3. Unread(w)'
    BY <1>3, <1>4, <1>9 DEF Unread, Unwritten
  <2> QED BY <2>1, <2>2, <2>3
<1>11. ASSUME NEW T, NEW i, Good(T, i) PROVE Good(T, i)'
  <2>1. i = own.id => e <= T + Shortfall
    BY <1>1, <1>2, <1>5, <1>11 DEF Good
  <2>2. \A v \in Workers : pc'[v] = "writeExpires" => work'[v] = work[v] /\ pc[v] = "writeExpires"
    BY <1>9
  <2> QED BY <1>7, <1>11, <2>1, <2>2 DEF Good, ExpiresAt
<1>12. Good(cache.token, writers.token)'
  <2>1. PICK T, i : T = cache.token /\ i = writers.token
    OBVIOUS
  <2>2. Good(T, i)'
    BY <1>11, <2>1 DEF Lasting
  <2> QED BY <1>7, <2>1, <2>2 DEF Good
<1>13. ReadersGood'
  <2> SUFFICES ASSUME NEW r \in Workers, pc'[r] = "readExpires"
               PROVE  Good(work[r].token, work[r].writer)'
    BY DEF ReadersGood
  <2>1. PICK T, i : T = work[r].token /\ i = work[r].writer
    OBVIOUS
  <2>2. r # w
    BY <1>9
  <2>3. Good(T, i)' /\ work'[r] = work[r]
    BY <1>9, <1>11, <2>1, <2>2 DEF Lasting, ReadersGood
  <2> QED BY <2>1, <2>3 DEF Good
<1> QED BY <1>1, <1>3, <1>7, <1>8, <1>10, <1>12, <1>13, OthersLast

LEMMA CallsLast ==
  ASSUME Inv, Lasting, NEW w \in Workers,
         \/ Unsendable(w) \/ ReceiveToken(w) \/ Provide(w) \/ Answer(w)
         \/ CallFails(w) \/ SaveResult(w) \/ SaveFails(w)
  PROVE  Lasting'
<1>1. PICK own : own = work[w]
  OBVIOUS
<1>2. own \in Job /\ pc[w] # "idle" /\ UNCHANGED <<now, cache, sends, writers>>
  BY <1>1 DEF Inv, Typed, Unsendable, ReceiveToken, Provide, Answer, CallFails,
              SaveResult, SaveFails
<1>3. CASE Answer(w)
  <2>0. PICK given \in BOOLEAN : work' = [work EXCEPT ![w].result = IsSuccess(w),
                            ![w].ref = @ \/ (IsSuccess(w) /\ given)]
    BY <1>3 DEF Answer
  <2>1. PICK got \in BOOLEAN : got = IsSuccess(w)
    BY DEF IsSuccess
  <2>6. PICK named \in BOOLEAN : named = (own.ref \/ (got /\ given))
    BY <1>2 DEF Job
  <2>2. PICK j : j = [own EXCEPT !.result = got, !.ref = named]
    OBVIOUS
  <2>3. /\ j \in Job /\ j.id = own.id /\ j.token = own.token /\ j.start = own.start
        /\ j.holds = own.holds /\ j.writer = own.writer
    BY <1>2, <2>2 DEF Job
  <2>4. work' = [work EXCEPT ![w] = j] /\ pc' = [pc EXCEPT ![w] = "save"]
    BY <1>1, <1>3, <2>0, <2>1, <2>2, <2>6 DEF Answer, Goto
  <2>5. "save" \in Steps /\ "save" \in Onto \ {"post"}
    BY DEF Steps, Onto
  <2> QED BY <1>1, <1>2, <2>3, <2>4, <2>5, MessageLast
<1>4. CASE ~Answer(w)
  <2>1. work' = [work EXCEPT ![w] = own]
    <3>1. work' = work
      BY <1>4 DEF Unsendable, ReceiveToken, Provide, CallFails, SaveResult, SaveFails
    <3> QED BY <1>1, <3>1 DEF Inv, Typed
  <2>2. PICK step \in Steps :
          /\ pc' = [pc EXCEPT ![w] = step]
          /\ step \in Onto \ {"post"} \/ (pc[w] = "issued" /\ step = "writeToken")
    BY <1>4 DEF Unsendable, ReceiveToken, Provide, CallFails, SaveResult, SaveFails,
                Goto, Steps, Onto
  <2> QED BY <1>1, <1>2, <2>1, <2>2, MessageLast
<1> QED BY <1>3, <1>4

LEMMA EndsLast ==
  ASSUME Inv, Lasting, NEW w \in Workers, End(w) \/ Abort(w)
  PROVE  Lasting'
<1>1. PICK own : own = work[w]
  OBVIOUS
<1>2. /\ own \in Job /\ Typed /\ Idle \in Job /\ ~Idle.holds /\ "idle" \in Steps
      /\ UNCHANGED <<now, sends>>
  BY <1>1 DEF Inv, Typed, End, Abort, Idle, Job, Steps
<1>3. Moves(w, Idle, "idle")
  BY <1>2 DEF Moves, Active, End, Abort, Goto
<1>4. /\ work'[w] = Idle /\ pc'[w] = "idle"
      /\ \A v \in Workers \ {w} : work'[v] = work[v] /\ pc'[v] = pc[v]
  BY <1>2, <1>3, MovesTo
<1>5. Numbered(w)' /\ OwnToken(w)' /\ Unread(w)'
  BY <1>4 DEF Numbered, OwnToken, Unread, Active, Unwritten
<1>6. CASE UNCHANGED <<cache, writers>>
  <2>1. "idle" \notin Unwritten
    BY DEF Unwritten
  <2> QED BY <1>2, <1>3, <1>5, <1>6, <2>1, QuietLast
<1>7. CASE End(w) /\ own.holds
  <2>1. PICK e : e = ExpiresAt(own)
    OBVIOUS
  <2>2. /\ cache'.token = own.token /\ cache'.expires = e
        /\ writers'.token = own.id /\ writers'.expires = own.id
    BY <1>1, <1>7, <2>1 DEF End
  <2>3. Active(w) /\ pc[w] = "end"
    BY <1>7 DEF End, Active
  <2>4. e <= own.token + Shortfall
    BY <1>1, <1>7, <2>1, <2>3 DEF Lasting, OwnToken
  <2>5. \A r \in Workers : pc[r] = "readExpires" => work[r].writer # own.id
    BY <1>1, <1>7, <2>3 DEF Lasting, Unread
  <2>6. Good(cache.token, writers.token)'
    <3>1. ASSUME NEW v \in Workers, pc'[v] = "writeExpires" PROVE work'[v].id # own.id
      <4>1. v # w /\ work'[v] = work[v] /\ pc[v] = "writeExpires" /\ Distinct(v, w)
        BY <1>4, <3>1 DEF Lasting
      <4> QED BY <1>1, <2>3, <4>1 DEF Distinct, Active
    <3> QED BY <2>2, <2>4, <3>1 DEF Good
  <2>7. ASSUME NEW r \in Workers, pc'[r] = "readExpires"
        PROVE  Good(work[r].token, work[r].writer)'
    <3>1. /\ work'[r] = work[r] /\ Good(work[r].token, work[r].writer)
          /\ work[r].writer # own.id
      BY <1>4, <2>5, <2>7 DEF Lasting, ReadersGood
    <3>2. ASSUME NEW v \in Workers, pc'[v] = "writeExpires", work'[v].id = work[r].writer
          PROVE  ExpiresAt(work[v])' <= work[r].token + Shortfall
      <4>1. v # w
        BY <1>4, <3>2
      <4> QED BY <4>1, <1>4, <3>1, <3>2 DEF Good, ExpiresAt
    <3> QED BY <2>2, <3>1, <3>2 DEF Good
  <2>8. ReadersGood'
    BY <2>7 DEF ReadersGood
  <2> QED BY <1>1, <1>2, <1>3, <1>5, <2>2, <2>3, <2>6, <2>8, OthersLast
<1>8. (End(w) /\ ~own.holds) \/ Abort(w) => UNCHANGED <<cache, writers>>
  BY <1>1 DEF End, Abort
<1> QED BY <1>6, <1>7, <1>8

\* Time passes while nobody is between the two entries of the cache.
LEMMA TickLast ==
  ASSUME Inv, Lasting, Tick
  PROVE  Lasting'
<1>1. now' = now + 1 /\ now \in Nat /\ UNCHANGED <<cache, pc, work, sends, writers>>
  BY DEF Tick, Inv, Typed
<1>2. ASSUME NEW w \in Workers PROVE pc[w] # "readExpires"
  BY DEF Tick, Waits
<1>3. ASSUME NEW w \in Workers PROVE Numbered(w)' /\ OwnToken(w)' /\ Unread(w)'
  <2>1. Numbered(w) /\ OwnToken(w) /\ Unread(w) /\ work[w].start \in Nat
    BY DEF Lasting, Inv, Typed, Job
  <2>2. Numbered(w)'
    BY <1>1, <2>1 DEF Numbered, Active
  <2>3. OwnToken(w)'
    BY <1>1, <1>2, <2>1 DEF OwnToken, ExpiresAt, Active
  <2>4. Unread(w)'
    BY <1>1, <2>1 DEF Unread, Active
  <2> QED BY <2>2, <2>3, <2>4
<1>4. Good(cache.token, writers.token)' /\ ReadersGood'
  BY <1>1, <1>2 DEF Lasting, ReadersGood, Good, ExpiresAt
<1>5. \A v, w \in Workers : Distinct(v, w)'
  BY <1>1 DEF Lasting, Distinct, Active
<1> QED BY <1>1, <1>3, <1>4, <1>5 DEF Lasting

LEMMA InitLast == Init => Lasting
<1> SUFFICES ASSUME Init PROVE Lasting
  OBVIOUS
<1>1. /\ \A w \in Workers : pc[w] = "idle"
      /\ sends = 0 /\ cache.token = 0 /\ cache.expires = 0
      /\ writers.token = 0 /\ writers.expires = 0
  BY DEF Init
<1>2. Shortfall \in Nat
  BY LifeIsLonger, SmsAssumption DEF Shortfall, Max2
<1>3. Good(cache.token, writers.token) /\ ReadersGood
  BY <1>1, <1>2 DEF Good, ReadersGood
<1> QED BY <1>1, <1>3 DEF Lasting, Numbered, OwnToken, Unread, Distinct, Active, Unwritten

LEMMA NextKeepsLast ==
  ASSUME Inv, Lasting, [Next]_vars
  PROVE  Lasting'
<1>1. CASE UNCHANGED vars
  <2>1. UNCHANGED <<now, cache, pc, work, sends, writers>>
    BY <1>1 DEF vars
  <2> QED BY <2>1 DEF Lasting, Numbered, OwnToken, Unread, Distinct, Good, ReadersGood,
                      Active, ExpiresAt
<1>2. CASE Tick
  BY <1>2, TickLast
<1>3. ASSUME NEW w \in Workers, Dispatch(w) PROVE Lasting'
  <2>1. CASE \/ Unsendable(w) \/ ReceiveToken(w) \/ Provide(w) \/ Answer(w)
             \/ CallFails(w) \/ SaveResult(w) \/ SaveFails(w)
    BY <2>1, CallsLast
  <2>2. CASE ReadToken(w)
    BY <2>2, ReadTokenLast
  <2>3. CASE ReadExpires(w)
    BY <2>3, ReadExpiresLast
  <2>4. CASE Issue(w)
    BY <2>4, IssueLast
  <2>5. CASE WriteToken(w)
    BY <2>5, WriteTokenLast
  <2>6. CASE WriteExpires(w)
    BY <2>6, WriteExpiresLast
  <2>7. CASE End(w) \/ Abort(w)
    BY <2>7, EndsLast
  <2>8. ASSUME NEW n \in Nodes, (\E s \in {"unset", "skipped"} : Insert(w, n, s)) \/ Resend(w, n)
        PROVE  Lasting'
    BY <2>8, BeginsLast
  <2> QED BY <1>3, <2>1, <2>2, <2>3, <2>4, <2>5, <2>6, <2>7, <2>8 DEF Dispatch
<1>4. ASSUME NEW m \in late, TakeLate(m) PROVE Lasting'
  <2>1. UNCHANGED <<now, cache, pc, work, sends, writers>>
    BY <1>4 DEF TakeLate
  <2> QED BY <2>1 DEF Lasting, Numbered, OwnToken, Unread, Distinct, Good, ReadersGood,
                      Active, ExpiresAt
<1> QED BY <1>1, <1>2, <1>3, <1>4 DEF Next

LEMMA SpecLasting == Spec => []Lasting
<1> QED BY SpecInv, InitLast, NextKeepsLast, PTL DEF Spec

-----------------------------------------------------------------------------
(* The theorems.                                                           *)

\* Nodes and processes stay well formed: a process at work has its node, an
\* insertion has it to itself, and no call outlives its deadline.
THEOREM SmsTypeCorrect == Spec => []SmsTypeOK
<1>1. Inv => SmsTypeOK
  BY DEF Inv, Typed, Placed, SmsTypeOK, Calling
<1> QED BY <1>1, SpecInv, PTL

\* A node says "sent", or shows a reference of the provider, only after the
\* provider has taken a message of it, whatever calls are lost, saves fail and
\* processes are killed, and for answers with and without a reference
\* (applyResultToNode).
THEOREM SentIsTrue == Spec => []SentWasAccepted
<1>1. Inv => SentWasAccepted
  BY DEF Inv, Kept, SentWasAccepted
<1> QED BY <1>1, SpecInv, PTL

\* The messages of a node the provider takes are one, and one for each resend of
\* the node while it said "sent", unless an answer to a taken message was lost, a
\* result was not kept, or two processes sent one node at a time
\* (mz_sms_notification_node_insert, ResendController::resend).
THEOREM NotSentUnasked == Spec => []TwiceOnlyWhenAsked
<1>1. Inv => TwiceOnlyWhenAsked
  BY DEF Inv, Kept, TwiceOnlyWhenAsked
<1> QED BY <1>1, SpecInv, PTL

\* A node nobody is at tells what became of its last message, unless an answer
\* or a result was lost.
THEOREM ResultIsKept == Spec => []ResultKept
<1>1. Inv => ResultKept
  <2> SUFFICES ASSUME Inv, NEW n \in Nodes \ unsure, node[n].presence = "there",
                      \A w \in Workers : work[w].nid # n
               PROVE  Shows(n)
    BY DEF ResultKept, Shows
  <2> QED BY DEF Inv, Kept, At
<1> QED BY <1>1, SpecInv, PTL

\* A process that read the two entries of the token as one process wrote them,
\* or was issued a token, has a token the provider takes for the margin after it
\* looked at the cache, less the shortfall of a token of less than 60 seconds;
\* whatever the time-out, and whichever processes write the cache between
\* (getAccessToken).
THEOREM PairedTokensAreGood == Spec => []PairedTokenGood
<1>1. Inv /\ Lasting => PairedTokenGood
  <2> SUFFICES ASSUME Inv, Lasting, NEW w \in Workers, pc[w] = "post", work[w].paired,
                      now + Shortfall <= work[w].start + Margin
               PROVE  work[w].token > now
    BY DEF PairedTokenGood
  <2>1. work[w].start + Margin < work[w].token + Shortfall
    BY DEF Lasting, OwnToken
  <2>2. /\ now \in Nat /\ work[w].start \in Nat /\ work[w].token \in Nat
        /\ Shortfall \in Nat /\ Margin \in Nat
    BY LifeIsLonger, SmsAssumption DEF Inv, Typed, Job
  <2> QED BY <2>1, <2>2
<1> QED BY <1>1, SpecInv, SpecLasting, PTL

-----------------------------------------------------------------------------
(* Numbers, the highest first, and rows that show them.                    *)

\* The numbers of S, the highest first.
Ranked(S) ==
  [i \in 1..Cardinality(S) |-> CHOOSE o \in S : Cardinality({p \in S : p > o}) = i - 1]

LEMMA RankIsOneToOne ==
  ASSUME NEW S \in SUBSET Nat, IsFiniteSet(S),
         NEW a \in S, NEW b \in S, a < b
  PROVE  Cardinality({p \in S : p > b}) < Cardinality({p \in S : p > a})
<1> DEFINE A == {p \in S : p > a}
           B == {p \in S : p > b}
<1>1. a \in Nat /\ b \in Nat
  OBVIOUS
<1>2. B \in SUBSET A /\ A \in SUBSET S
  <2>1. \A p \in S : p > b => p > a
    BY <1>1
  <2>2. A \subseteq S
    OBVIOUS
  <2>3. B \subseteq A
    BY <2>1
  <2> QED BY <2>2, <2>3
<1>3. b \in A /\ b \notin B
  BY <1>1
<1>4. IsFiniteSet(A) /\ IsFiniteSet(B)
  <2>1. A \in SUBSET S /\ B \in SUBSET S
    BY <1>2
  <2> QED BY <2>1, FS_Subset
<1>5. Cardinality(A) \in Nat /\ Cardinality(B) \in Nat
  BY <1>4, FS_CardinalityType
<1>6. Cardinality(B) <= Cardinality(A) /\ (Cardinality(A) = Cardinality(B) => A = B)
  BY <1>2, <1>4, FS_Subset
<1>7. A # B
  BY <1>3
<1> HIDE DEF A, B
<1>8. Cardinality(B) < Cardinality(A)
  BY <1>5, <1>6, <1>7
<1> QED BY <1>8 DEF A, B

LEMMA RankIsOnto ==
  ASSUME NEW S \in SUBSET Nat, IsFiniteSet(S), NEW i \in 1..Cardinality(S)
  PROVE  \E o \in S : Cardinality({p \in S : p > o}) = i - 1
<1> DEFINE n == Cardinality(S)
           R == [o \in S |-> Cardinality({p \in S : p > o})]
<1>1. n \in Nat
  BY FS_CardinalityType
<1>2. ASSUME NEW o \in S PROVE R[o] \in 0..(n - 1)
  <2> DEFINE A == {p \in S : p > o}
  <2>1. A \in SUBSET S /\ o \notin A
    OBVIOUS
  <2>2. IsFiniteSet(A) /\ Cardinality(A) <= n /\ (n = Cardinality(A) => S = A)
    BY <2>1, FS_Subset
  <2>3. Cardinality(A) \in Nat
    BY <2>2, FS_CardinalityType
  <2>4. S # A
    BY <2>1
  <2>5. R[o] = Cardinality(A)
    OBVIOUS
  <2> HIDE DEF A, R, n
  <2> QED BY <1>1, <2>2, <2>3, <2>4, <2>5
<1>3. ASSUME NEW a \in S, NEW b \in S, R[a] = R[b] PROVE a = b
  <2>1. R[a] \in 0..(n - 1) /\ R[b] \in 0..(n - 1)
    BY <1>2
  <2>2. a < b => R[b] < R[a]
    BY RankIsOneToOne
  <2>3. b < a => R[a] < R[b]
    BY RankIsOneToOne
  <2>4. a \in Nat /\ b \in Nat
    OBVIOUS
  <2> HIDE DEF R, n
  <2> QED BY <1>1, <1>3, <2>1, <2>2, <2>3, <2>4
<1>4. R \in [S -> 0..(n - 1)]
  BY <1>2
<1>5. R \in Injection(S, 0..(n - 1))
  BY <1>3, <1>4 DEF Injection, IsInjective
<1>6. IsFiniteSet(0..(n - 1)) /\ Cardinality(0..(n - 1)) = n
  <2>1. 0 \in Int /\ n - 1 \in Int
    BY <1>1
  <2>2. IsFiniteSet(0..(n - 1)) /\ Cardinality(0..(n - 1)) = IF 0 > n - 1 THEN 0 ELSE n - 1 - 0 + 1
    BY <2>1, FS_Interval
  <2> HIDE DEF n
  <2> QED BY <1>1, <2>2
<1>7. R \in Surjection(S, 0..(n - 1))
  BY <1>5, <1>6, FS_Injection
<1>8. i - 1 \in 0..(n - 1)
  BY <1>1
<1>9. \E o \in S : R[o] = i - 1
  BY <1>7, <1>8 DEF Surjection
<1> QED BY <1>9

LEMMA RankedIsDescending ==
  ASSUME NEW S \in SUBSET Nat, IsFiniteSet(S)
  PROVE  /\ Ranked(S) \in Seq(S)
         /\ Len(Ranked(S)) = Cardinality(S)
         /\ \A i, j \in 1..Cardinality(S) : i < j => Ranked(S)[i] > Ranked(S)[j]
         /\ \A o \in S : \E i \in 1..Cardinality(S) : Ranked(S)[i] = o
<1> DEFINE n == Cardinality(S)
           rank(o) == Cardinality({p \in S : p > o})
<1>1. n \in Nat
  BY FS_CardinalityType
<1>2. ASSUME NEW i \in 1..n PROVE Ranked(S)[i] \in S /\ rank(Ranked(S)[i]) = i - 1
  <2>1. Ranked(S)[i] = CHOOSE o \in S : Cardinality({p \in S : p > o}) = i - 1
    BY DEF Ranked
  <2>2. \E o \in S : Cardinality({p \in S : p > o}) = i - 1
    BY RankIsOnto
  <2> QED BY <2>1, <2>2
<1>3. Ranked(S) \in Seq(S) /\ Len(Ranked(S)) = n
  <2>1. PICK s : s = Ranked(S)
    OBVIOUS
  <2>2. \A i \in 1..n : s[i] \in S
    BY <1>2, <2>1
  <2>3. PICK t : t = [i \in 1..n |-> s[i]]
    OBVIOUS
  <2>4. t \in [1..n -> S]
    BY <2>2, <2>3
  <2>5. s = t
    <3>1. \A i \in 1..n : s[i] = CHOOSE o \in S : Cardinality({p \in S : p > o}) = i - 1
      BY <2>1 DEF Ranked
    <3>2. t = [i \in 1..n |-> CHOOSE o \in S : Cardinality({p \in S : p > o}) = i - 1]
      BY <2>3, <3>1
    <3> QED BY <2>1, <3>2 DEF Ranked
  <2> HIDE DEF n
  <2>6. s \in Seq(S) /\ Len(s) = n
    BY <1>1, <2>4, <2>5
  <2> QED BY <2>1, <2>6
<1>4. ASSUME NEW a \in S, NEW b \in S, a < b PROVE rank(b) < rank(a)
  BY <1>4, RankIsOneToOne
<1>5. ASSUME NEW i \in 1..n, NEW j \in 1..n, i < j PROVE Ranked(S)[i] > Ranked(S)[j]
  <2>1. PICK a, b : a = Ranked(S)[i] /\ b = Ranked(S)[j]
    OBVIOUS
  <2>2. a \in S /\ b \in S /\ rank(a) = i - 1 /\ rank(b) = j - 1
    BY <1>2, <2>1
  <2>3. a \in Nat /\ b \in Nat
    BY <2>2
  <2>4. a < b => rank(b) < rank(a)
    BY <1>4, <2>2
  <2>5. a = b => rank(a) = rank(b)
    OBVIOUS
  <2> HIDE DEF rank, n
  <2>6. ~ (a < b) /\ a # b
    BY <1>1, <1>5, <2>2, <2>4, <2>5
  <2> QED BY <2>1, <2>3, <2>6
<1>6. ASSUME NEW o \in S PROVE \E i \in 1..n : Ranked(S)[i] = o
  <2> DEFINE A == {p \in S : p > o}
  <2>1. A \in SUBSET S /\ o \notin A
    OBVIOUS
  <2>2. IsFiniteSet(A) /\ Cardinality(A) <= n /\ (n = Cardinality(A) => S = A)
    BY <2>1, FS_Subset
  <2>3. Cardinality(A) \in Nat
    BY <2>2, FS_CardinalityType
  <2>4. S # A
    BY <2>1
  <2>5. rank(o) = Cardinality(A)
    OBVIOUS
  <2>6. PICK i : i = rank(o) + 1
    OBVIOUS
  <2> HIDE DEF A, n
  <2>7. i \in 1..n /\ i - 1 = rank(o)
    BY <1>1, <2>2, <2>3, <2>4, <2>5, <2>6
  <2>8. PICK a : a = Ranked(S)[i]
    OBVIOUS
  <2>9. a \in S /\ rank(a) = rank(o)
    BY <1>2, <2>7, <2>8
  <2>10. a < o => rank(o) < rank(a)
    BY <1>4, <2>9
  <2>11. o < a => rank(a) < rank(o)
    BY <1>4, <2>9
  <2>12. a \in Nat /\ o \in Nat
    BY <2>9
  <2>13. rank(o) \in Nat
    BY <2>3, <2>5
  <2> HIDE DEF rank
  <2>14. a = o
    BY <2>9, <2>10, <2>11, <2>12, <2>13
  <2> QED BY <2>7, <2>8, <2>14
<1> QED BY <1>3, <1>5, <1>6

NidsIn(rows, all) ==
  Len(rows) <= Len(all) /\ \A i \in 1..Len(rows) : rows[i].nid = all[i]

SameNids(rows, nids) ==
  Len(rows) = Len(nids) /\ \A i \in 1..Len(rows) : rows[i].nid = nids[i]

LEMMA ProductOfNaturals ==
  ASSUME NEW a \in Nat, NEW b \in Nat
  PROVE  a * b \in Nat /\ (a + 1) * b = a * b + b
OBVIOUS

-----------------------------------------------------------------------------
(* The screen of the local sales (OrderList): types.                       *)

ChosenFilters == Tabs \X Texts

SaleStatuses == {InitialStatus[o] : o \in Orders} \cup {"annuler"}

Row == [nid : Orders, status : SaleStatuses, for : ChosenFilters]

Request ==
  [stage : {"none", "list", "answered", "stats"}, append : BOOLEAN, for : ChosenFilters,
   page : Nat, rows : Seq(Row), total : Nat, clean : BOOLEAN, paused : BOOLEAN]

Cancellation ==
  [order : Orders \cup {0}, stage : {"none", "sent", "answered"}, early : BOOLEAN]

(* Types of the screen, the requests and the cancellation.                 *)
ScreenTyped ==
  /\ made \in SUBSET Orders /\ status \in [Orders -> SaleStatuses]
  /\ orders \in Seq(Row) /\ total \in Nat /\ summary \in ChosenFilters
  /\ selectedStatus \in Tabs /\ searchQuery \in Texts /\ debounce \in BOOLEAN
  /\ currentPage \in Nat /\ hasMore \in BOOLEAN
  /\ loading \in BOOLEAN /\ loadingMore \in BOOLEAN
  /\ requestSequence \in 0..MaxRequests
  /\ request \in [Numbers -> Request]
  /\ cancel \in Cancellation /\ (cancel.stage # "none" => cancel.order \in Orders)
  /\ tidy \in BOOLEAN /\ resetFailed \in BOOLEAN /\ statsFailed \in BOOLEAN
  /\ told \in SUBSET Orders

(* The sale in the modal is one of the sales.                              *)
ModalTyped ==
  /\ selected \in [nid : Orders \cup {0}, status : SaleStatuses \cup {"closed"}, row : Nat]
  /\ selected = Closed \/ selected.nid \in Orders

LEMMA NoFilterIsChosen ==
  NoFilter \in ChosenFilters /\ NoFilter[1] \in Tabs /\ NoFilter[2] \in Texts
<1>1. (CHOOSE t \in Texts : Found[t] = Orders) \in Texts
  BY OrderListAssumption
<1>2. "all" \in Tabs
  BY OrderListAssumption
<1>3. PICK text : text = CHOOSE t \in Texts : Found[t] = Orders
  OBVIOUS
<1>4. NoFilter = <<"all", text>>
  BY <1>3 DEF NoFilter
<1>5. text \in Texts
  BY <1>1, <1>3
<1>6. NoFilter \in Tabs \X Texts /\ NoFilter[1] = "all" /\ NoFilter[2] = text
  BY <1>2, <1>4, <1>5
<1> QED BY <1>2, <1>5, <1>6 DEF ChosenFilters

LEMMA UnsentIsARequest ==
  /\ Unsent \in Request /\ Unsent.stage = "none" /\ ~Unsent.append
  /\ Unsent.page = 0 /\ Unsent.rows = <<>>
<1>1. <<>> \in Seq(Row)
  OBVIOUS
<1> QED BY <1>1, NoFilterIsChosen DEF Unsent, Request

\* Latest1st orders a set of sales by their numbers, each one once.
LEMMA LatestFirst ==
  ASSUME NEW S \in SUBSET Orders
  PROVE  /\ Latest1st(S) \in Seq(S) /\ Latest1st(S) \in Seq(Orders)
         /\ Len(Latest1st(S)) = Cardinality(S)
         /\ \A i, j \in 1..Cardinality(S) : i < j => Latest1st(S)[i] > Latest1st(S)[j]
         /\ \A o \in S : \E i \in 1..Cardinality(S) : Latest1st(S)[i] = o
<1>1. Orders \in SUBSET Nat /\ IsFiniteSet(Orders)
  BY OrderListAssumption
<1>2. S \in SUBSET Nat /\ IsFiniteSet(S)
  <2>1. IsFiniteSet(S)
    BY <1>1, FS_Subset
  <2> QED BY <1>1, <2>1
<1>3. Latest1st(S) = Ranked(S)
  BY DEF Latest1st, Ranked
<1>4. Ranked(S) \in Seq(S)
  BY <1>2, RankedIsDescending
<1>5. Ranked(S) \in Seq(Orders)
  BY <1>4, SeqMonotonic
<1> QED BY <1>2, <1>3, <1>4, <1>5, RankedIsDescending

LEMMA PageOf ==
  ASSUME NEW s \in Seq(Orders), NEW page \in Nat
  PROVE  /\ page * PageSize \in Nat
         /\ (page + 1) * PageSize = page * PageSize + PageSize
         /\ Page(s, page) \in Seq(Orders)
         /\ Len(Page(s, page)) = IF page * PageSize + PageSize < Len(s) THEN PageSize
                            ELSE IF page * PageSize < Len(s) THEN Len(s) - page * PageSize
                            ELSE 0
         /\ \A i \in 1..Len(Page(s, page)) :
              /\ page * PageSize + i \in 1..Len(s)
              /\ Page(s, page)[i] = s[page * PageSize + i]
<1>1. PageSize \in Nat \ {0}
  BY OrderListAssumption
<1>2. page * PageSize \in Nat /\ (page + 1) * PageSize = page * PageSize + PageSize
  BY <1>1, ProductOfNaturals
<1>3. PICK m : m = page * PageSize
  OBVIOUS
<1>4. PICK final : final = IF m + PageSize < Len(s) THEN m + PageSize ELSE Len(s)
  OBVIOUS
<1>5. Page(s, page) = SubSeq(s, m + 1, final)
  BY <1>2, <1>3, <1>4 DEF Page
<1>6. m \in Nat /\ final \in Nat /\ final <= Len(s) /\ Len(s) \in Nat
  BY <1>1, <1>2, <1>3, <1>4
<1>7. \A i \in (m + 1)..final : s[i] \in Orders
  BY <1>6
<1>8. /\ SubSeq(s, m + 1, final) \in Seq(Orders)
      /\ Len(SubSeq(s, m + 1, final)) = IF m + 1 <= final THEN final - (m + 1) + 1 ELSE 0
      /\ \A i \in 1..(final - (m + 1) + 1) : SubSeq(s, m + 1, final)[i] = s[m + 1 + i - 1]
  <2>1. m + 1 \in Int /\ final \in Int
    BY <1>6
  <2> QED BY <1>7, <2>1, SubSeqProperties
<1>9. Len(Page(s, page)) = IF m + PageSize < Len(s) THEN PageSize
                      ELSE IF m < Len(s) THEN Len(s) - m ELSE 0
  BY <1>1, <1>4, <1>5, <1>6, <1>8
<1>10. ASSUME NEW i \in 1..Len(Page(s, page))
       PROVE  m + i \in 1..Len(s) /\ Page(s, page)[i] = s[m + i]
  <2> DEFINE n == Len(Page(s, page))
  <2>1. n = IF m + 1 <= final THEN final - (m + 1) + 1 ELSE 0
    BY <1>5, <1>8
  <2>2. i \in 1..n
    OBVIOUS
  <2> HIDE DEF n
  <2>3. i \in 1..(final - (m + 1) + 1) /\ m + i \in 1..Len(s) /\ m + 1 + i - 1 = m + i
    BY <1>6, <2>1, <2>2
  <2> QED BY <1>5, <1>8, <2>3
<1> QED BY <1>2, <1>3, <1>5, <1>8, <1>9, <1>10

-----------------------------------------------------------------------------
(* The screen of the local sales: the inductive invariant.                 *)

IsReset(r) == r.stage \in {"list", "answered"} /\ ~r.append

AllFor(rows, f) == \A i \in 1..Len(rows) : rows[i].for = f

(* A request not yet made is at no stage, and one that loads a further     *)
(* page is at the list: only a reset goes on to the statistics.            *)
RequestsNumbered ==
  \A q \in Numbers : /\ q > requestSequence => request[q].stage = "none"
                     /\ request[q].append => request[q].stage \in {"list", "answered"}

(* While the last request runs, one of the two spinners says so.           *)
LastIsFlagged ==
  requestSequence > 0 /\ request[requestSequence].stage # "none" =>
    IF request[requestSequence].append THEN loadingMore ELSE loading

RowsAreFor ==
  \A q \in Numbers : request[q].stage = "answered" => AllFor(request[q].rows, request[q].for)

(* The last request is for the filters chosen, unless the pause of a       *)
(* search is running; what it has brought already is for them too, unless  *)
(* it failed.                                                              *)
LastIsForCurrent ==
  requestSequence > 0 /\ ~debounce =>
    /\ request[requestSequence].stage # "none" => request[requestSequence].for = Current
    /\ ~IsReset(request[requestSequence]) /\ ~resetFailed => AllFor(orders, Current)
    /\ request[requestSequence].stage = "none" \/ request[requestSequence].append =>
         (~statsFailed => summary = Current)

FilterInv == RequestsNumbered /\ LastIsFlagged /\ RowsAreFor /\ LastIsForCurrent

(* Rows that show sale o as cancelled, if they show it.                    *)
CancelledIn(rows, o) == \A i \in 1..Len(rows) : rows[i].nid = o => rows[i].status = "annuler"

FirstIn(rows, i) == \A j \in 1..(i - 1) : rows[j].nid # rows[i].nid

(* The same of the first row of sale o only.                               *)
CancelledAtFirst(rows, o) ==
  \A i \in 1..Len(rows) :
    rows[i].nid = o /\ FirstIn(rows, i) => rows[i].status = "annuler"

(* No answer that is still to come can show sale o as anything else.       *)
KnownCancelled(o) ==
  /\ status[o] = "annuler"
  /\ \A q \in Numbers : request[q].stage = "answered" => CancelledIn(request[q].rows, o)

CancelInv ==
  /\ \A o \in told : KnownCancelled(o) /\ CancelledAtFirst(orders, o)
  /\ cancel.stage = "answered" => status[cancel.order] = "annuler"
  /\ cancel.stage = "answered" /\ ~cancel.early => KnownCancelled(cancel.order)

(* A reset asks for the first page, and the screen is at it meanwhile.     *)
ResetsAskPage0 ==
  /\ \A q \in Numbers : IsReset(request[q]) => request[q].page = 0
  /\ requestSequence > 0 /\ IsReset(request[requestSequence]) => currentPage = 0

(* An answer that no sale and no cancellation came after holds the page it *)
(* was asked for of the sales as they are.                                 *)
CleanPages ==
  \A q \in Numbers : request[q].stage = "answered" /\ request[q].clean =>
    /\ request[q].total = Len(Matching(request[q].for))
    /\ SameNids(request[q].rows, Page(Matching(request[q].for), request[q].page))

\* What the list holds of the sales that match f, as the last request stands.
Holds(f) ==
  /\ AllFor(orders, f) /\ NidsIn(orders, Matching(f))
  /\ ~IsReset(request[requestSequence]) => (hasMore <=> Len(orders) < Len(Matching(f)))
  /\ request[requestSequence].append =>
       /\ hasMore /\ currentPage > 0 /\ request[requestSequence].page = currentPage
       /\ Len(orders) = currentPage * PageSize
       /\ ~request[requestSequence].paused => request[requestSequence].for = f
  /\ hasMore /\ ~request[requestSequence].append /\ ~IsReset(request[requestSequence]) =>
       Len(orders) = (currentPage + 1) * PageSize

(* A list that nothing disturbed holds the first pages for some filters.   *)
TidyList == tidy => /\ ~resetFailed /\ requestSequence > 0
                    /\ \E f \in ChosenFilters : Holds(f)

PageInv == ResetsAskPage0 /\ CleanPages /\ TidyList

-----------------------------------------------------------------------------
(* The screen of the local sales: requests that are sent.                  *)

\* What the step does, in the words of the proofs.
ResetSent ==
  \E r \in Request :
    /\ r.stage = "list" /\ ~r.append /\ r.page = 0 /\ r.for = Current'
    /\ requestSequence' = requestSequence + 1 /\ requestSequence' \in Numbers
    /\ request' = [request EXCEPT ![requestSequence'] = r]
    /\ currentPage' = 0 /\ hasMore' = TRUE /\ loading' = TRUE /\ loadingMore' = loadingMore
    /\ selectedStatus' \in Tabs /\ searchQuery' \in Texts /\ debounce' \in BOOLEAN
    /\ UNCHANGED <<made, status, orders, total, summary, cancel, tidy, resetFailed,
                   statsFailed, told>>

AppendSent ==
  \E r \in Request :
    /\ r.stage = "list" /\ r.append /\ r.page = currentPage' /\ r.for = Current
    /\ r.paused = debounce
    /\ requestSequence > 0 /\ hasMore /\ ~loadingMore /\ ~loading
    /\ requestSequence' = requestSequence + 1 /\ requestSequence' \in Numbers
    /\ request' = [request EXCEPT ![requestSequence'] = r]
    /\ currentPage' = currentPage + 1 /\ hasMore' = hasMore
    /\ loading' = loading /\ loadingMore' = TRUE
    /\ UNCHANGED <<made, status, orders, total, summary, cancel, tidy, resetFailed,
                   statsFailed, told, selectedStatus, searchQuery, debounce>>

LEMMA RequestChange ==
  ASSUME ScreenTyped, NEW q \in Numbers, NEW r \in Request,
         request' = [request EXCEPT ![q] = r]
  PROVE  /\ request' \in [Numbers -> Request]
         /\ request'[q] = r
         /\ \A p \in Numbers : p # q => request'[p] = request[p]
BY DEF ScreenTyped

LEMMA FetchOrdersResets ==
  ASSUME ScreenTyped, NEW tab \in Tabs, NEW text \in Texts,
         FetchOrders(FALSE, tab, text, 0)
  PROVE  \E r \in Request :
           /\ r.stage = "list" /\ ~r.append /\ r.for = <<tab, text>> /\ r.page = 0
           /\ requestSequence' = requestSequence + 1 /\ requestSequence' \in Numbers
           /\ request' = [request EXCEPT ![requestSequence'] = r]
           /\ currentPage' = 0 /\ hasMore' = TRUE /\ loading' = TRUE
           /\ loadingMore' = loadingMore
<1>1. PICK b \in BOOLEAN : b = FALSE
  OBVIOUS
<1>2. PICK r \in Request :
        /\ r = [Unsent EXCEPT !.stage = "list", !.append = b, !.for = <<tab, text>>,
                              !.page = 0, !.paused = b]
        /\ r.stage = "list" /\ r.append = b /\ r.for = <<tab, text>>
        /\ r.page = 0 /\ r.paused = b
  <2>1. <<tab, text>> \in ChosenFilters
    BY DEF ChosenFilters
  <2>2. PICK r : r = [Unsent EXCEPT !.stage = "list", !.append = b, !.for = <<tab, text>>,
                                    !.page = 0, !.paused = b]
    OBVIOUS
  <2>3. /\ r \in Request /\ r.stage = "list" /\ r.append = b /\ r.for = <<tab, text>>
        /\ r.page = 0 /\ r.paused = b
    BY <2>1, <2>2, UnsentIsARequest DEF Request
  <2> QED BY <2>2, <2>3
<1>3. requestSequence' = requestSequence + 1 /\ requestSequence' \in Numbers
  BY OrderListAssumption DEF FetchOrders, ScreenTyped, Numbers
<1>4. request' = [request EXCEPT ![requestSequence'] = r]
  BY <1>1, <1>2 DEF FetchOrders
<1> QED BY <1>1, <1>2, <1>3, <1>4 DEF FetchOrders

LEMMA FetchOrdersAppends ==
  ASSUME ScreenTyped, NEW tab \in Tabs, NEW text \in Texts,
         FetchOrders(TRUE, tab, text, currentPage + 1)
  PROVE  \E r \in Request :
           /\ r.stage = "list" /\ r.append /\ r.for = <<tab, text>> /\ r.page = currentPage + 1
           /\ r.paused = debounce
           /\ requestSequence' = requestSequence + 1 /\ requestSequence' \in Numbers
           /\ request' = [request EXCEPT ![requestSequence'] = r]
           /\ currentPage' = currentPage + 1 /\ hasMore' = hasMore /\ loading' = loading
           /\ loadingMore' = TRUE
<1>1. PICK a \in BOOLEAN, b \in BOOLEAN : a = TRUE /\ b = debounce
  BY DEF ScreenTyped
<1>2. PICK r \in Request :
        /\ r = [Unsent EXCEPT !.stage = "list", !.append = a, !.for = <<tab, text>>,
                              !.page = currentPage + 1, !.paused = b]
        /\ r.stage = "list" /\ r.append = a /\ r.for = <<tab, text>>
        /\ r.page = currentPage + 1 /\ r.paused = b
  <2>1. <<tab, text>> \in ChosenFilters /\ currentPage + 1 \in Nat
    BY DEF ChosenFilters, ScreenTyped
  <2>2. PICK r : r = [Unsent EXCEPT !.stage = "list", !.append = a, !.for = <<tab, text>>,
                                    !.page = currentPage + 1, !.paused = b]
    OBVIOUS
  <2>3. /\ r \in Request /\ r.stage = "list" /\ r.append = a /\ r.for = <<tab, text>>
        /\ r.page = currentPage + 1 /\ r.paused = b
    BY <2>1, <2>2, UnsentIsARequest DEF Request
  <2> QED BY <2>2, <2>3
<1>3. requestSequence' = requestSequence + 1 /\ requestSequence' \in Numbers
  BY OrderListAssumption DEF FetchOrders, ScreenTyped, Numbers
<1>4. b = (TRUE /\ debounce)
  BY <1>1
<1>5. currentPage' = currentPage + 1
  BY DEF FetchOrders
<1>6. request' = [request EXCEPT ![requestSequence'] = r]
  BY <1>1, <1>2, <1>4, <1>5 DEF FetchOrders
<1> QED BY <1>1, <1>2, <1>3, <1>6 DEF FetchOrders

LEMMA ResetsSend ==
  ASSUME ScreenTyped,
         \/ Mount \/ Refresh \/ DebounceFires
         \/ \E tab \in Tabs : SelectStatus(tab)
  PROVE  ResetSent
<1>1. PICK tab \in Tabs, text \in Texts :
        /\ FetchOrders(FALSE, tab, text, 0)
        /\ selectedStatus' = tab /\ searchQuery' = text /\ debounce' \in BOOLEAN
        /\ UNCHANGED <<made, status, orders, total, summary, cancel, tidy, resetFailed,
                       statsFailed, told>>
  <2>1. selectedStatus \in Tabs /\ searchQuery \in Texts /\ debounce \in BOOLEAN
    BY DEF ScreenTyped
  <2>2. CASE Mount
    BY <2>1, <2>2 DEF Mount, server, filters, shown, modal, history
  <2>3. CASE Refresh
    BY <2>1, <2>3 DEF Refresh, server, filters, shown, modal, history
  <2>4. CASE DebounceFires
    BY <2>1, <2>4 DEF DebounceFires, server, shown, modal, history
  <2>5. ASSUME NEW tab \in Tabs, SelectStatus(tab)
        PROVE  /\ FetchOrders(FALSE, tab, searchQuery, 0)
               /\ selectedStatus' = tab /\ searchQuery' = searchQuery /\ debounce' \in BOOLEAN
               /\ UNCHANGED <<made, status, orders, total, summary, cancel, tidy, resetFailed,
                              statsFailed, told>>
    BY <2>1, <2>5 DEF SelectStatus, server, shown, modal, history
  <2> QED BY <2>1, <2>2, <2>3, <2>4, <2>5
<1>2. PICK r \in Request :
        /\ r.stage = "list" /\ ~r.append /\ r.for = <<tab, text>> /\ r.page = 0
        /\ requestSequence' = requestSequence + 1 /\ requestSequence' \in Numbers
        /\ request' = [request EXCEPT ![requestSequence'] = r]
        /\ currentPage' = 0 /\ hasMore' = TRUE /\ loading' = TRUE
        /\ loadingMore' = loadingMore
  BY <1>1, FetchOrdersResets
<1> QED BY <1>1, <1>2 DEF ResetSent, Current

LEMMA LoadMoreSends ==
  ASSUME ScreenTyped, LoadMore
  PROVE  AppendSent
<1>1. selectedStatus \in Tabs /\ searchQuery \in Texts /\ currentPage + 1 \in Nat
  BY DEF ScreenTyped
<1>2. /\ FetchOrders(TRUE, selectedStatus, searchQuery, currentPage + 1)
      /\ requestSequence > 0 /\ hasMore /\ ~loadingMore /\ ~loading
      /\ UNCHANGED <<made, status, orders, total, summary, cancel, tidy, resetFailed,
                     statsFailed, told, selectedStatus, searchQuery, debounce>>
  BY DEF LoadMore, MayLoadMore, server, filters, shown, modal, history
<1>3. PICK r \in Request :
        /\ r.stage = "list" /\ r.append /\ r.for = <<selectedStatus, searchQuery>>
        /\ r.page = currentPage + 1 /\ r.paused = debounce
        /\ requestSequence' = requestSequence + 1 /\ requestSequence' \in Numbers
        /\ request' = [request EXCEPT ![requestSequence'] = r]
        /\ currentPage' = currentPage + 1 /\ hasMore' = hasMore /\ loading' = loading
        /\ loadingMore' = TRUE
  BY <1>1, <1>2, FetchOrdersAppends
<1> QED BY <1>2, <1>3 DEF AppendSent, Current

-----------------------------------------------------------------------------
(* The screen of the local sales: answers.                                 *)

LEMMA MatchingIsASeq ==
  ASSUME ScreenTyped, NEW f \in ChosenFilters
  PROVE  Matching(f) \in Seq(Orders)
<1>1. {o \in made : f[1] \in {"all", status[o]} /\ o \in Found[f[2]]} \in SUBSET Orders
  BY DEF ScreenTyped
<1> QED BY <1>1, LatestFirst DEF Matching

\* The answer to request q holds the rows of a page.
PageAnswered(q) ==
  \E r \in Request :
    /\ request' = [request EXCEPT ![q] = r]
    /\ r.stage = "answered" /\ r.append = request[q].append /\ r.for = request[q].for
    /\ r.page = request[q].page /\ r.paused = request[q].paused
    /\ r.total = Len(Matching(r.for))
    /\ SameNids(r.rows, Page(Matching(r.for), r.page))
    /\ AllFor(r.rows, r.for)
    /\ \A i \in 1..Len(r.rows) : r.rows[i].status = status[r.rows[i].nid]

LEMMA AnswerListAnswers ==
  ASSUME ScreenTyped, NEW q \in Numbers, AnswerList(q)
  PROVE  PageAnswered(q)
<1>1. PICK s : s = request[q]
  OBVIOUS
<1>2. s \in Request /\ s.for \in ChosenFilters /\ s.page \in Nat
  BY <1>1 DEF ScreenTyped, Request
<1>3. PICK all : all = Matching(s.for)
  OBVIOUS
<1>4. all \in Seq(Orders)
  BY <1>2, <1>3, MatchingIsASeq
<1>5. PICK page : page = Page(all, s.page)
  OBVIOUS
<1>6. page \in Seq(Orders)
  BY <1>2, <1>4, <1>5, PageOf
<1>7. PICK n : n = Len(page)
  OBVIOUS
<1>8. n \in Nat /\ DOMAIN page = 1..n /\ \A i \in 1..n : page[i] \in Orders
  BY <1>6, <1>7
<1>9. PICK rows : rows = [i \in 1..n |-> [nid |-> page[i], status |-> status[page[i]],
                                          for |-> s.for]]
  OBVIOUS
<1>10. \A i \in 1..n : /\ rows[i] \in Row
                       /\ rows[i].nid = page[i] /\ rows[i].status = status[page[i]]
                       /\ rows[i].for = s.for
  <2>1. status \in [Orders -> SaleStatuses]
    BY DEF ScreenTyped
  <2> QED BY <1>2, <1>8, <1>9, <2>1 DEF Row
<1>11. rows \in Seq(Row) /\ Len(rows) = n
  <2>1. rows \in [1..n -> Row]
    <3>1. rows = [i \in 1..n |-> rows[i]]
      BY <1>9
    <3> QED BY <1>10, <3>1
  <2> QED BY <1>8, <2>1
<1>12. PICK r : r = [s EXCEPT !.stage = "answered", !.total = Len(all), !.clean = TRUE,
                              !.rows = rows]
  OBVIOUS
<1>13. Len(all) \in Nat
  BY <1>4
<1>14. /\ r \in Request /\ r.stage = "answered" /\ r.append = s.append /\ r.for = s.for
       /\ r.page = s.page /\ r.paused = s.paused /\ r.total = Len(all) /\ r.rows = rows
  BY <1>2, <1>11, <1>12, <1>13 DEF Request
<1>15. request' = [request EXCEPT ![q] = r]
  <2>1. request' = [request EXCEPT ![q] = [s EXCEPT
           !.stage = "answered", !.total = Len(all), !.clean = TRUE,
           !.rows = [i \in DOMAIN page |->
                       [nid |-> page[i], status |-> status[page[i]], for |-> s.for]]]]
    BY <1>1, <1>3, <1>5 DEF AnswerList
  <2> QED BY <1>8, <1>9, <1>12, <2>1
<1>16. SameNids(rows, page) /\ AllFor(rows, s.for)
  BY <1>7, <1>10, <1>11 DEF SameNids, AllFor
<1>17. \A i \in 1..Len(rows) : rows[i].status = status[rows[i].nid]
  BY <1>10, <1>11
<1>18. /\ r.total = Len(Matching(r.for))
       /\ SameNids(r.rows, Page(Matching(r.for), r.page))
  BY <1>3, <1>5, <1>14, <1>16
<1>19. AllFor(r.rows, r.for) /\ \A i \in 1..Len(r.rows) : r.rows[i].status = status[r.rows[i].nid]
  BY <1>14, <1>16, <1>17
<1> QED BY <1>1, <1>14, <1>15, <1>18, <1>19 DEF PageAnswered

LEMMA RowsConcatenated ==
  ASSUME NEW s \in Seq(Row), NEW t \in Seq(Row)
  PROVE  s \o t \in Seq(Row)
OBVIOUS

LEMMA RowsJoined ==
  ASSUME NEW s \in Seq(Row), NEW t \in Seq(Row)
  PROVE  /\ Len(s \o t) = Len(s) + Len(t)
         /\ \A i \in 1..(Len(s) + Len(t)) :
              (s \o t)[i] = IF i <= Len(s) THEN s[i] ELSE t[i - Len(s)]
OBVIOUS

\* What holds of the rows shown and of those received holds of them all.
LEMMA RowsJoinedFor ==
  ASSUME NEW s \in Seq(Row), NEW t \in Seq(Row), NEW f, AllFor(s, f), AllFor(t, f)
  PROVE  AllFor(s \o t, f)
BY DEF AllFor

LEMMA RowsJoinedCancelled ==
  ASSUME NEW s \in Seq(Row), NEW t \in Seq(Row), NEW o,
         CancelledAtFirst(s, o), CancelledIn(t, o)
  PROVE  CancelledAtFirst(s \o t, o)
<1>1. PICK u : u = s \o t
  OBVIOUS
<1>2. /\ Len(u) = Len(s) + Len(t) /\ Len(s) \in Nat /\ Len(t) \in Nat
      /\ \A i \in 1..(Len(s) + Len(t)) : u[i] = IF i <= Len(s) THEN s[i] ELSE t[i - Len(s)]
  BY <1>1, RowsJoined
<1>3. ASSUME NEW i \in 1..Len(u), u[i].nid = o, FirstIn(u, i) PROVE u[i].status = "annuler"
  <2>1. CASE i <= Len(s)
    <3>1. i \in 1..Len(s) /\ u[i] = s[i]
      BY <1>2, <2>1
    <3>2. \A j \in 1..(i - 1) : u[j] = s[j]
      BY <1>2, <2>1
    <3>3. FirstIn(s, i)
      BY <1>3, <3>1, <3>2 DEF FirstIn
    <3> QED BY <1>3, <3>1, <3>3 DEF CancelledAtFirst
  <2>2. CASE i > Len(s)
    <3>1. i - Len(s) \in 1..Len(t) /\ u[i] = t[i - Len(s)]
      BY <1>2, <2>2
    <3> QED BY <1>3, <3>1 DEF CancelledIn
  <2> QED BY <1>2, <2>1, <2>2
<1> QED BY <1>1, <1>3 DEF CancelledAtFirst

\* A patch makes the first row of the sale in the modal cancelled, and another
\* row, if any, cancelled too.
LEMMA PatchedRows ==
  ASSUME ScreenTyped, NEW order
  PROVE  /\ Patched(order) \in Seq(Row) /\ Len(Patched(order)) = Len(orders)
         /\ \A i \in 1..Len(orders) :
              /\ Patched(order)[i].nid = orders[i].nid
              /\ Patched(order)[i].for = orders[i].for
              /\ Patched(order)[i].status \in {"annuler", orders[i].status}
              /\ orders[i].nid = order.nid /\ FirstIn(orders, i) =>
                   Patched(order)[i].status = "annuler"
<1> DEFINE Hit(i) == orders[i].nid = order.nid /\ (FirstRow(i) \/ i = order.row)
<1>1. PICK n : n = Len(orders)
  OBVIOUS
<1>2. n \in Nat /\ DOMAIN orders = 1..n /\ \A i \in 1..n : orders[i] \in Row
  BY <1>1 DEF ScreenTyped
<1>3. PICK p : p = [i \in 1..n |-> IF Hit(i) THEN [orders[i] EXCEPT !.status = "annuler"]
                                   ELSE orders[i]]
  OBVIOUS
<1>4. Patched(order) = p
  BY <1>2, <1>3 DEF Patched
<1>5. \A i \in 1..n : FirstIn(orders, i) /\ orders[i].nid = order.nid => Hit(i)
  BY DEF FirstIn, FirstRow
<1> HIDE DEF Hit
<1>6. \A i \in 1..n : /\ p[i] \in Row
                      /\ p[i].nid = orders[i].nid /\ p[i].for = orders[i].for
                      /\ p[i].status = IF Hit(i) THEN "annuler" ELSE orders[i].status
  <2>1. SUFFICES ASSUME NEW i \in 1..n
        PROVE  /\ p[i] \in Row
               /\ p[i].nid = orders[i].nid /\ p[i].for = orders[i].for
               /\ p[i].status = IF Hit(i) THEN "annuler" ELSE orders[i].status
    OBVIOUS
  <2>2. orders[i] \in Row
    BY <1>2
  <2>3. CASE Hit(i)
    <3>1. p[i] = [orders[i] EXCEPT !.status = "annuler"]
      BY <1>3, <2>3
    <3>2. PICK x : x = orders[i]
      OBVIOUS
    <3>3. x \in Row
      BY <2>2, <3>2
    <3>4. PICK y : y = [x EXCEPT !.status = "annuler"]
      OBVIOUS
    <3>5. y \in Row /\ y.nid = x.nid /\ y.for = x.for /\ y.status = "annuler"
      <4>1. "annuler" \in SaleStatuses
        BY DEF SaleStatuses
      <4>2. y.nid = x.nid /\ y.for = x.for /\ y.status = "annuler"
        BY <3>3, <3>4 DEF Row
      <4>3. y \in Row
        BY <3>3, <3>4, <4>1 DEF Row
      <4> QED BY <4>2, <4>3
    <3> QED BY <2>3, <3>1, <3>2, <3>4, <3>5
  <2>4. CASE ~Hit(i)
    <3>1. p[i] = orders[i]
      BY <1>3, <2>4
    <3> QED BY <2>2, <2>4, <3>1
  <2> QED BY <2>3, <2>4
<1>7. p \in Seq(Row) /\ Len(p) = n
  <2>1. p \in [1..n -> Row]
    <3>1. p = [i \in 1..n |-> p[i]]
      BY <1>3
    <3> QED BY <1>6, <3>1
  <2> QED BY <1>2, <2>1
<1> QED BY <1>1, <1>4, <1>5, <1>6, <1>7

-----------------------------------------------------------------------------
(* The screen of the local sales: the steps.                               *)

LEMMA RequestEnds ==
  ASSUME ScreenTyped, NEW q \in Numbers, Ended(q)
  PROVE  /\ request' \in [Numbers -> Request]
         /\ request'[q].stage = "none" /\ ~request'[q].append
         /\ \A p \in Numbers : p # q => request'[p] = request[p]
<1>1. PICK r : r = Unsent
  OBVIOUS
<1>2. request' = [request EXCEPT ![q] = r]
  BY <1>1 DEF Ended
<1>3. r \in Request /\ r.stage = "none" /\ ~r.append
  BY <1>1, UnsentIsARequest
<1> QED BY <1>2, <1>3, RequestChange

LEMMA StatsAsked ==
  ASSUME ScreenTyped, NEW q \in Numbers,
         request' = [request EXCEPT ![q] =
                       [Unsent EXCEPT !.stage = "stats", !.for = Current]]
  PROVE  /\ request' \in [Numbers -> Request]
         /\ request'[q].stage = "stats" /\ ~request'[q].append /\ request'[q].for = Current
         /\ \A p \in Numbers : p # q => request'[p] = request[p]
<1>1. Current \in ChosenFilters
  BY DEF Current, ChosenFilters, ScreenTyped
<1>2. PICK r : r = [Unsent EXCEPT !.stage = "stats", !.for = Current]
  OBVIOUS
<1>3. r \in Request /\ r.stage = "stats" /\ ~r.append /\ r.for = Current
  BY <1>1, <1>2, UnsentIsARequest DEF Request
<1>4. request' = [request EXCEPT ![q] = r]
  BY <1>2
<1> QED BY <1>3, <1>4, RequestChange

LEMMA AllDisturbed ==
  ASSUME ScreenTyped, request' = Disturbed
  PROVE  /\ request' \in [Numbers -> Request]
         /\ \A p \in Numbers :
              /\ request'[p].stage = request[p].stage /\ request'[p].append = request[p].append
              /\ request'[p].for = request[p].for /\ request'[p].page = request[p].page
              /\ request'[p].rows = request[p].rows /\ ~request'[p].clean
<1>1. ASSUME NEW p \in Numbers
      PROVE  /\ request'[p] \in Request
             /\ request'[p].stage = request[p].stage /\ request'[p].append = request[p].append
             /\ request'[p].for = request[p].for /\ request'[p].page = request[p].page
             /\ request'[p].rows = request[p].rows /\ ~request'[p].clean
  <2>1. PICK s : s = request[p]
    OBVIOUS
  <2>2. s \in Request
    BY <2>1 DEF ScreenTyped
  <2>3. PICK r : r = [s EXCEPT !.clean = FALSE]
    OBVIOUS
  <2>4. /\ r \in Request /\ r.stage = s.stage /\ r.append = s.append /\ r.for = s.for
        /\ r.page = s.page /\ r.rows = s.rows /\ ~r.clean
    BY <2>2, <2>3 DEF Request
  <2>5. request'[p] = r
    BY <2>1, <2>3 DEF Disturbed
  <2> QED BY <2>1, <2>4, <2>5
<1>2. request' \in [Numbers -> Request]
  BY <1>1 DEF Disturbed
<1> QED BY <1>1, <1>2

\* The steps, in the words of the proofs.
LEMMA ScreenSteps ==
  ASSUME ScreenTyped, ListNext
  PROVE  \/ ResetSent \/ AppendSent \/ NewSale \/ (\E text \in Texts : TypeSearch(text))
         \/ (\E q \in Numbers : AnswerList(q) /\ PageAnswered(q))
         \/ (\E q \in Numbers : ReceiveList(q))
         \/ (\E q \in Numbers : ReceiveStats(q))
         \/ (\E q \in Numbers : Discard(q))
         \/ (\E q \in Numbers : RequestFails(q))
         \/ (\E i \in DOMAIN orders : OpenOrder(i)) \/ CloseOrder
         \/ CancelOrder \/ HandleCancel \/ ReceiveCancel \/ CancelFails
<1>1. CASE \/ Mount \/ Refresh \/ DebounceFires
           \/ \E tab \in Tabs : SelectStatus(tab)
  BY <1>1, ResetsSend
<1>2. CASE LoadMore
  BY <1>2, LoadMoreSends
<1>3. ASSUME NEW q \in Numbers, AnswerList(q) PROVE PageAnswered(q)
  BY <1>3, AnswerListAnswers
<1> QED BY <1>1, <1>2, <1>3 DEF ListNext, Progress

LEMMA ScreenTypedInit ==
  ASSUME ListInit
  PROVE  ScreenTyped
<1>1. made \in SUBSET Orders /\ status \in [Orders -> SaleStatuses]
  <2>1. InitialStatus \in [Orders -> STRING]
    BY OrderListAssumption
  <2>2. \A o \in Orders : InitialStatus[o] \in SaleStatuses
    BY DEF SaleStatuses
  <2>3. InitialStatus \in [Orders -> SaleStatuses]
    BY <2>1, <2>2
  <2> QED BY <2>3, OrderListAssumption DEF ListInit
<1>2. orders \in Seq(Row) /\ total \in Nat /\ summary \in ChosenFilters
  BY NoFilterIsChosen DEF ListInit
<1>3. request \in [Numbers -> Request]
  BY UnsentIsARequest DEF ListInit
<1>4. NoCancel \in Cancellation /\ NoCancel.stage = "none"
  BY DEF NoCancel, Cancellation
<1>5. requestSequence \in 0..MaxRequests
  BY OrderListAssumption DEF ListInit
<1> QED BY <1>1, <1>2, <1>3, <1>4, <1>5, NoFilterIsChosen DEF ListInit, ScreenTyped

LEMMA ScreenTypedStep ==
  ASSUME ScreenTyped, ModalTyped, [ListNext]_listVars
  PROVE  ScreenTyped'
<1> USE DEF ScreenTyped
<1>1. CASE ResetSent
  <2>1. PICK r \in Request :
          /\ requestSequence' = requestSequence + 1 /\ requestSequence' \in Numbers
          /\ request' = [request EXCEPT ![requestSequence'] = r]
          /\ currentPage' = 0 /\ hasMore' = TRUE /\ loading' = TRUE /\ loadingMore' = loadingMore
          /\ selectedStatus' \in Tabs /\ searchQuery' \in Texts /\ debounce' \in BOOLEAN
          /\ UNCHANGED <<made, status, orders, total, summary, cancel, tidy, resetFailed,
                         statsFailed, told>>
    BY <1>1 DEF ResetSent
  <2>2. request' \in [Numbers -> Request]
    BY <2>1, RequestChange
  <2> QED BY <2>1, <2>2 DEF Numbers
<1>2. CASE AppendSent
  <2>1. PICK r \in Request :
          /\ requestSequence' = requestSequence + 1 /\ requestSequence' \in Numbers
          /\ request' = [request EXCEPT ![requestSequence'] = r]
          /\ currentPage' = currentPage + 1 /\ hasMore' = hasMore
          /\ loading' = loading /\ loadingMore' = TRUE
          /\ UNCHANGED <<made, status, orders, total, summary, cancel, tidy, resetFailed,
                         statsFailed, told, selectedStatus, searchQuery, debounce>>
    BY <1>2 DEF AppendSent
  <2>2. request' \in [Numbers -> Request]
    BY <2>1, RequestChange
  <2> QED BY <2>1, <2>2 DEF Numbers
<1>3. CASE NewSale
  <2>1. request' \in [Numbers -> Request]
    BY <1>3, AllDisturbed DEF NewSale
  <2>2. made' \in SUBSET Orders
    BY <1>3 DEF NewSale
  <2>3. /\ tidy' = FALSE
        /\ UNCHANGED <<status, orders, total, summary, selectedStatus, searchQuery, debounce,
                       currentPage, hasMore, loading, loadingMore, requestSequence, cancel,
                       resetFailed, statsFailed, told>>
    BY <1>3 DEF NewSale, filters, paging, shown, modal
  <2> QED BY <2>1, <2>2, <2>3
<1>4. CASE \E text \in Texts : TypeSearch(text)
  BY <1>4 DEF TypeSearch, server, paging, shown, modal, history
<1>5. CASE \E q \in Numbers : AnswerList(q) /\ PageAnswered(q)
  <2>1. PICK q \in Numbers : AnswerList(q) /\ PageAnswered(q)
    BY <1>5
  <2>2. request' \in [Numbers -> Request]
    BY <2>1, RequestChange DEF PageAnswered
  <2> QED BY <2>1, <2>2 DEF AnswerList, server, filters, paging, shown,
                            modal, history
<1>6. CASE \E q \in Numbers : ReceiveList(q)
  <2>1. PICK q \in Numbers : ReceiveList(q)
    BY <1>6
  <2>2. PICK r : r = request[q]
    OBVIOUS
  <2>3. r \in Request /\ r.rows \in Seq(Row) /\ r.total \in Nat
    BY <2>2 DEF Request
  <2>4. orders' \in Seq(Row)
    BY <2>1, <2>2, <2>3, RowsConcatenated DEF ReceiveList
  <2>5. total' \in Nat
    BY <2>1, <2>2, <2>3 DEF ReceiveList
  <2>6. hasMore' \in BOOLEAN /\ tidy' \in BOOLEAN /\ resetFailed' \in BOOLEAN
    BY <2>1 DEF ReceiveList
  <2>7. request' \in [Numbers -> Request]
    BY <2>1, RequestEnds, StatsAsked DEF ReceiveList
  <2>8. loading' \in BOOLEAN /\ loadingMore' \in BOOLEAN
    BY <2>1 DEF ReceiveList, Finally, LoadingMoreAfter
  <2>9. UNCHANGED <<made, status, selectedStatus, searchQuery, debounce, summary, currentPage,
                    requestSequence, cancel, statsFailed, told>>
    BY <2>1 DEF ReceiveList, server, filters
  <2> QED BY <2>4, <2>5, <2>6, <2>7, <2>8, <2>9
<1>7. CASE \E q \in Numbers : ReceiveStats(q)
  <2>1. PICK q \in Numbers : ReceiveStats(q)
    BY <1>7
  <2>2. request' \in [Numbers -> Request]
    BY <2>1, RequestEnds DEF ReceiveStats
  <2>3. summary' \in ChosenFilters /\ statsFailed' \in BOOLEAN
    <3>1. request[q].for \in ChosenFilters
      BY DEF Request
    <3> QED BY <2>1, <3>1 DEF ReceiveStats
  <2>4. loading' \in BOOLEAN /\ loadingMore' \in BOOLEAN
    BY <2>1 DEF ReceiveStats, Finally, LoadingMoreAfter
  <2>5. UNCHANGED <<made, status, selectedStatus, searchQuery, debounce, orders, total,
                    currentPage, hasMore, requestSequence, cancel, tidy, resetFailed, told>>
    BY <2>1 DEF ReceiveStats, server, filters, modal
  <2> QED BY <2>2, <2>3, <2>4, <2>5
<1>8. CASE \E q \in Numbers : Discard(q)
  <2>1. PICK q \in Numbers : Discard(q)
    BY <1>8
  <2>2. request' \in [Numbers -> Request]
    BY <2>1, RequestEnds DEF Discard
  <2> QED BY <2>1, <2>2 DEF Discard, server, filters, paging, shown,
                            modal, history
<1>9. CASE \E q \in Numbers : RequestFails(q)
  <2>1. PICK q \in Numbers : RequestFails(q)
    BY <1>9
  <2>2. request' \in [Numbers -> Request]
    BY <2>1, RequestEnds DEF RequestFails
  <2>3. /\ loading' \in BOOLEAN /\ loadingMore' \in BOOLEAN
        /\ tidy' \in BOOLEAN /\ resetFailed' \in BOOLEAN /\ statsFailed' \in BOOLEAN
    BY <2>1 DEF RequestFails, Finally, LoadingMoreAfter
  <2>4. UNCHANGED <<made, status, selectedStatus, searchQuery, debounce, orders, total, summary,
                    currentPage, hasMore, requestSequence, cancel, told>>
    BY <2>1 DEF RequestFails, server, filters, shown, modal
  <2> QED BY <2>2, <2>3, <2>4
<1>10. CASE CancelOrder
  <2>1. /\ selected # Closed
        /\ cancel' = [NoCancel EXCEPT !.order = selected.nid, !.stage = "sent"]
    BY <1>10 DEF CancelOrder, Closed
  <2>2. selected.nid \in Orders
    BY <2>1 DEF ModalTyped
  <2>3. cancel' \in Cancellation /\ cancel'.order \in Orders
    BY <2>1, <2>2 DEF NoCancel, Cancellation
  <2> QED BY <1>10, <2>3 DEF CancelOrder, server, filters, paging, shown,
                             history
<1>11. CASE HandleCancel
  <2>1. cancel.order \in Orders
    BY <1>11 DEF HandleCancel
  <2>2. status' \in [Orders -> SaleStatuses]
    BY <1>11, <2>1 DEF HandleCancel, SaleStatuses
  <2>3. PICK b \in BOOLEAN : b = AnswerUnderWay
    BY DEF AnswerUnderWay
  <2>4. cancel' = [cancel EXCEPT !.stage = "answered", !.early = b]
    BY <1>11, <2>3 DEF HandleCancel
  <2>5. cancel' \in Cancellation /\ cancel'.order = cancel.order
    BY <2>4 DEF Cancellation
  <2>6. request' \in [Numbers -> Request]
    BY <1>11, AllDisturbed DEF HandleCancel
  <2> QED BY <1>11, <2>1, <2>2, <2>5, <2>6 DEF HandleCancel, filters, paging,
                                               shown
<1>12. CASE ReceiveCancel
  <2>1. orders' \in Seq(Row)
    BY <1>12, PatchedRows DEF ReceiveCancel
  <2>2. cancel.order \in Orders
    BY <1>12 DEF ReceiveCancel
  <2>3. told' \in SUBSET Orders
    BY <1>12, <2>2 DEF ReceiveCancel
  <2>4. cancel' \in Cancellation /\ cancel'.stage = "none"
    BY <1>12 DEF ReceiveCancel, NoCancel, Cancellation
  <2> QED BY <1>12, <2>1, <2>3, <2>4 DEF ReceiveCancel, server, filters, paging
<1>13. CASE CancelFails
  <2>1. cancel' \in Cancellation /\ cancel'.stage = "none"
    BY <1>13 DEF CancelFails, NoCancel, Cancellation
  <2> QED BY <1>13, <2>1 DEF CancelFails, server, filters, paging, shown,
                             history
<1>14. CASE (\E i \in DOMAIN orders : OpenOrder(i)) \/ CloseOrder
  BY <1>14 DEF OpenOrder, CloseOrder, server, filters, paging, shown, history
<1>15. CASE UNCHANGED listVars
  BY <1>15 DEF listVars, server, filters, paging, shown, modal, history
<1> QED BY <1>1, <1>2, <1>3, <1>4, <1>5, <1>6, <1>7, <1>8, <1>9, <1>10, <1>11, <1>12, <1>13,
           <1>14, <1>15, ScreenSteps

LEMMA ModalInit ==
  ASSUME ListInit
  PROVE  ModalTyped
BY DEF ListInit, ModalTyped, Closed

LEMMA ModalStep ==
  ASSUME ScreenTyped, ModalTyped, [ListNext]_listVars
  PROVE  ModalTyped'
<1>1. ASSUME UNCHANGED selected PROVE ModalTyped'
  BY <1>1 DEF ModalTyped, Closed
<1>2. ASSUME NEW x \in SaleStatuses, selected # Closed,
             selected' = [selected EXCEPT !.status = x]
      PROVE  ModalTyped'
  BY <1>2 DEF ModalTyped
<1>3. CASE \E q \in Numbers : ReceiveList(q)
  <2>1. selected' = selected \/ selected' = [selected EXCEPT !.row = 0]
    BY <1>3 DEF ReceiveList
  <2>2. CASE selected' = [selected EXCEPT !.row = 0]
    <3>1. CASE selected = Closed
      <4>1. selected' = Closed
        BY <2>2, <3>1 DEF Closed
      <4> QED BY <1>1, <3>1, <4>1
    <3>2. CASE selected.nid \in Orders
      BY <2>2, <3>2 DEF ModalTyped
    <3> QED BY <3>1, <3>2 DEF ModalTyped
  <2> QED BY <1>1, <2>1, <2>2
<1>4. CASE \E i \in DOMAIN orders : OpenOrder(i)
  <2>1. PICK i \in DOMAIN orders : OpenOrder(i)
    BY <1>4
  <2>2. orders[i] \in Row /\ i \in Nat
    BY <2>1 DEF ScreenTyped
  <2>3. orders[i].nid \in Orders /\ orders[i].status \in SaleStatuses
    BY <2>2 DEF Row
  <2> QED BY <2>1, <2>2, <2>3 DEF OpenOrder, ModalTyped
<1>5. CASE CloseOrder
  BY <1>5 DEF CloseOrder, ModalTyped, Closed
<1>6. CASE ReceiveCancel
  <2>1. "annuler" \in SaleStatuses
    BY DEF SaleStatuses
  <2> QED BY <1>1, <1>2, <1>6, <2>1 DEF ReceiveCancel
<1>7. CASE \E q \in Numbers :
             AnswerList(q) \/ ReceiveStats(q) \/ Discard(q) \/ RequestFails(q)
  BY <1>1, <1>7 DEF AnswerList, ReceiveStats, Discard, RequestFails, modal
<1>8. CASE \/ Mount \/ Refresh \/ DebounceFires \/ LoadMore \/ NewSale
           \/ \E tab \in Tabs : SelectStatus(tab)
           \/ \E text \in Texts : TypeSearch(text)
  BY <1>1, <1>8 DEF Mount, Refresh, DebounceFires, LoadMore, NewSale, SelectStatus,
                    TypeSearch, modal
<1>9. CASE CancelOrder \/ HandleCancel \/ CancelFails
  BY <1>1, <1>9 DEF CancelOrder, HandleCancel, CancelFails
<1>10. CASE UNCHANGED listVars
  BY <1>1, <1>10 DEF listVars, modal
<1> QED BY <1>3, <1>4, <1>5, <1>6, <1>7, <1>8, <1>9, <1>10 DEF ListNext, Progress

-----------------------------------------------------------------------------
(* The screen of the local sales: filters.                                 *)

LEMMA FilterInit ==
  ASSUME ListInit
  PROVE  FilterInv
<1>1. requestSequence = 0 /\ \A q \in Numbers : request[q] = Unsent
  BY DEF ListInit
<1>2. \A q \in Numbers : request[q].stage = "none" /\ ~request[q].append
  BY <1>1, UnsentIsARequest
<1> QED BY <1>1, <1>2 DEF FilterInv, RequestsNumbered, LastIsFlagged, RowsAreFor, LastIsForCurrent

\* The requests, but for request q, are as they were, and so is the rest.
LEMMA RequestDropped ==
  ASSUME ScreenTyped, FilterInv, NEW q \in Numbers,
         Ended(q), requestSequence' = requestSequence
  PROVE  RequestsNumbered' /\ RowsAreFor'
<1>1. /\ request'[q].stage = "none" /\ ~request'[q].append
      /\ \A p \in Numbers : p # q => request'[p] = request[p]
  BY RequestEnds
<1> QED BY <1>1 DEF FilterInv, RequestsNumbered, RowsAreFor

LEMMA FilterStep ==
  ASSUME ScreenTyped, FilterInv, [ListNext]_listVars
  PROVE  FilterInv'
<1>0. requestSequence \in Nat /\ (requestSequence > 0 => requestSequence \in Numbers)
  BY DEF ScreenTyped, Numbers
<1>1. CASE ResetSent
  <2>1. PICK r \in Request :
          /\ r.stage = "list" /\ ~r.append /\ r.for = Current'
          /\ requestSequence' = requestSequence + 1 /\ requestSequence' \in Numbers
          /\ request' = [request EXCEPT ![requestSequence'] = r]
          /\ loading' = TRUE
    BY <1>1 DEF ResetSent
  <2>2. /\ request'[requestSequence'] = r
        /\ \A p \in Numbers : p # requestSequence' => request'[p] = request[p]
    BY <2>1, RequestChange
  <2>3. RequestsNumbered'
    BY <1>0, <2>1, <2>2 DEF FilterInv, RequestsNumbered, Numbers
  <2>4. RowsAreFor'
    BY <2>1, <2>2 DEF FilterInv, RowsAreFor
  <2>5. LastIsFlagged' /\ LastIsForCurrent'
    BY <2>1, <2>2 DEF LastIsFlagged, LastIsForCurrent, IsReset
  <2> QED BY <2>3, <2>4, <2>5 DEF FilterInv
<1>2. CASE AppendSent
  <2>1. PICK r \in Request :
          /\ r.stage = "list" /\ r.append /\ r.for = Current
          /\ requestSequence > 0 /\ ~loadingMore /\ ~loading
          /\ requestSequence' = requestSequence + 1 /\ requestSequence' \in Numbers
          /\ request' = [request EXCEPT ![requestSequence'] = r]
          /\ loadingMore' = TRUE
          /\ UNCHANGED <<orders, summary, resetFailed, statsFailed, selectedStatus,
                         searchQuery, debounce>>
    BY <1>2 DEF AppendSent
  <2>2. /\ request'[requestSequence'] = r
        /\ \A p \in Numbers : p # requestSequence' => request'[p] = request[p]
    BY <2>1, RequestChange
  <2>3. RequestsNumbered'
    BY <1>0, <2>1, <2>2 DEF FilterInv, RequestsNumbered, Numbers
  <2>4. RowsAreFor'
    BY <2>1, <2>2 DEF FilterInv, RowsAreFor
  <2>5. request[requestSequence].stage = "none"
    BY <2>1 DEF FilterInv, LastIsFlagged
  <2>6. ~debounce => /\ ~resetFailed => AllFor(orders, Current)
                     /\ ~statsFailed => summary = Current
    BY <2>1, <2>5 DEF FilterInv, LastIsForCurrent, IsReset
  <2>7. Current' = Current
    BY <2>1 DEF Current
  <2>8. LastIsForCurrent'
    BY <2>1, <2>2, <2>6, <2>7 DEF LastIsForCurrent, AllFor
  <2>9. LastIsFlagged'
    BY <2>1, <2>2 DEF LastIsFlagged
  <2> QED BY <2>3, <2>4, <2>8, <2>9 DEF FilterInv
<1>3. ASSUME request' = Disturbed,
             UNCHANGED <<orders, summary, selectedStatus, searchQuery, debounce, loading,
                         loadingMore, requestSequence, resetFailed, statsFailed>>
      PROVE  FilterInv'
  <2>1. \A p \in Numbers :
          /\ request'[p].stage = request[p].stage /\ request'[p].append = request[p].append
          /\ request'[p].for = request[p].for /\ request'[p].rows = request[p].rows
    BY <1>3, AllDisturbed
  <2>2. RequestsNumbered' /\ RowsAreFor'
    BY <1>3, <2>1 DEF FilterInv, RequestsNumbered, RowsAreFor
  <2>3. LastIsFlagged'
    BY <1>0, <1>3, <2>1 DEF FilterInv, LastIsFlagged
  <2>4. LastIsForCurrent'
    BY <1>0, <1>3, <2>1 DEF FilterInv, LastIsForCurrent, IsReset, AllFor, Current
  <2> QED BY <2>2, <2>3, <2>4 DEF FilterInv
<1>4. CASE NewSale
  BY <1>3, <1>4 DEF NewSale, filters, paging, shown
<1>5. CASE \E text \in Texts : TypeSearch(text)
  <2>1. /\ debounce' = TRUE
        /\ UNCHANGED <<loading, loadingMore, requestSequence, request>>
    BY <1>5 DEF TypeSearch, paging
  <2> QED BY <2>1 DEF FilterInv, RequestsNumbered, LastIsFlagged, RowsAreFor, LastIsForCurrent
<1>6. CASE \E q \in Numbers : AnswerList(q) /\ PageAnswered(q)
  <2>1. PICK q \in Numbers : AnswerList(q) /\ PageAnswered(q)
    BY <1>6
  <2>2. PICK r \in Request :
          /\ request' = [request EXCEPT ![q] = r]
          /\ r.stage = "answered" /\ r.append = request[q].append /\ r.for = request[q].for
          /\ AllFor(r.rows, r.for)
    BY <2>1 DEF PageAnswered
  <2>3. request'[q] = r /\ \A p \in Numbers : p # q => request'[p] = request[p]
    BY <2>2, RequestChange
  <2>4. /\ request[q].stage = "list"
        /\ UNCHANGED <<orders, summary, selectedStatus, searchQuery, debounce, loading,
                       loadingMore, requestSequence, resetFailed, statsFailed>>
    BY <2>1 DEF AnswerList, filters, paging, shown, history
  <2>5. RequestsNumbered' /\ RowsAreFor'
    BY <2>2, <2>3, <2>4 DEF FilterInv, RequestsNumbered, RowsAreFor
  <2>6. LastIsFlagged'
    BY <1>0, <2>2, <2>3, <2>4 DEF FilterInv, LastIsFlagged
  <2>7. LastIsForCurrent'
    BY <1>0, <2>2, <2>3, <2>4 DEF FilterInv, LastIsForCurrent, IsReset, AllFor, Current
  <2> QED BY <2>5, <2>6, <2>7 DEF FilterInv
<1>7. CASE \E q \in Numbers : ReceiveList(q)
  <2>1. PICK q \in Numbers : ReceiveList(q)
    BY <1>7
  <2>2. /\ request[q].stage = "answered" /\ q = requestSequence /\ requestSequence > 0
        /\ UNCHANGED <<summary, selectedStatus, searchQuery, debounce, requestSequence,
                       statsFailed>>
    BY <1>0, <2>1 DEF ReceiveList, Latest, filters, Numbers
  <2>3. AllFor(request[q].rows, request[q].for)
    BY <2>2 DEF FilterInv, RowsAreFor
  <2>4. ~debounce => request[q].for = Current
    BY <2>2 DEF FilterInv, LastIsForCurrent
  <2>5. Current' = Current
    BY <2>2 DEF Current
  <2>6. CASE request[q].append
    <3>1. Ended(q) /\ orders' = orders \o request[q].rows /\ resetFailed' = resetFailed
      BY <2>1, <2>6 DEF ReceiveList, ScreenTyped
    <3>2. RequestsNumbered' /\ RowsAreFor'
      BY <2>2, <3>1, RequestDropped
    <3>3. request'[q].stage = "none" /\ ~request'[q].append
      BY <3>1, RequestEnds
    <3>4. ~debounce => /\ ~resetFailed => AllFor(orders, Current)
                       /\ ~statsFailed => summary = Current
      BY <2>2, <2>6 DEF FilterInv, LastIsForCurrent, IsReset
    <3>5. ~debounce /\ ~resetFailed => AllFor(orders', Current)
      <4>1. orders \in Seq(Row) /\ request[q].rows \in Seq(Row)
        BY DEF ScreenTyped, Request
      <4>2. SUFFICES ASSUME ~debounce, ~resetFailed PROVE AllFor(orders', Current)
        OBVIOUS
      <4>3. /\ AllFor(orders, Current)
            /\ AllFor(request[q].rows, Current)
        BY <2>3, <2>4, <3>4, <4>2
      <4> QED BY <3>1, <4>1, <4>3, RowsJoinedFor
    <3>6. LastIsForCurrent'
      BY <2>2, <2>5, <3>1, <3>3, <3>4, <3>5 DEF LastIsForCurrent, IsReset
    <3>7. LastIsFlagged'
      BY <2>2, <3>3 DEF LastIsFlagged
    <3> QED BY <3>2, <3>6, <3>7 DEF FilterInv
  <2>7. CASE ~request[q].append
    <3>1. /\ orders' = request[q].rows /\ loading' = loading
          /\ request' = [request EXCEPT ![q] =
                           [Unsent EXCEPT !.stage = "stats", !.for = Current]]
      BY <2>1, <2>7 DEF ReceiveList
    <3>2. /\ request'[q].stage = "stats" /\ ~request'[q].append /\ request'[q].for = Current
          /\ \A p \in Numbers : p # q => request'[p] = request[p]
      BY <3>1, StatsAsked
    <3>3. RequestsNumbered' /\ RowsAreFor'
      BY <1>0, <2>2, <3>2 DEF FilterInv, RequestsNumbered, RowsAreFor
    <3>4. loading
      BY <2>2, <2>7 DEF FilterInv, LastIsFlagged
    <3>5. LastIsFlagged'
      BY <2>2, <3>1, <3>2, <3>4 DEF LastIsFlagged
    <3>6. LastIsForCurrent'
      BY <2>2, <2>3, <2>4, <2>5, <3>1, <3>2 DEF LastIsForCurrent, IsReset
    <3> QED BY <3>3, <3>5, <3>6 DEF FilterInv
  <2> QED BY <2>6, <2>7
<1>8. ASSUME NEW q \in Numbers, Ended(q), q # requestSequence,
             UNCHANGED <<orders, summary, selectedStatus, searchQuery, debounce, loading,
                         loadingMore, requestSequence, resetFailed, statsFailed>>
      PROVE  FilterInv'
  <2>1. RequestsNumbered' /\ RowsAreFor'
    BY <1>8, RequestDropped
  <2>2. requestSequence > 0 => request'[requestSequence] = request[requestSequence]
    BY <1>0, <1>8, RequestEnds
  <2>3. LastIsFlagged'
    BY <1>8, <2>2 DEF FilterInv, LastIsFlagged
  <2>4. LastIsForCurrent'
    BY <1>8, <2>2 DEF FilterInv, LastIsForCurrent, IsReset, AllFor, Current
  <2> QED BY <2>1, <2>3, <2>4 DEF FilterInv
<1>9. CASE \E q \in Numbers : ReceiveStats(q)
  <2>1. PICK q \in Numbers : ReceiveStats(q)
    BY <1>9
  <2>2. /\ request[q].stage = "stats" /\ Ended(q)
        /\ UNCHANGED <<orders, selectedStatus, searchQuery, debounce, requestSequence,
                       resetFailed>>
    BY <2>1 DEF ReceiveStats, filters
  <2>3. CASE q # requestSequence
    BY <1>8, <2>1, <2>2, <2>3 DEF ReceiveStats, Latest
  <2>4. CASE q = requestSequence
    <3>1. summary' = request[q].for /\ statsFailed' = FALSE
      BY <2>1, <2>4 DEF ReceiveStats, Latest
    <3>2. RequestsNumbered' /\ RowsAreFor'
      BY <2>2, RequestDropped
    <3>3. request'[q].stage = "none" /\ ~request'[q].append
      BY <2>2, RequestEnds
    <3>4. LastIsFlagged'
      BY <2>2, <2>4, <3>3 DEF LastIsFlagged
    <3>5. requestSequence > 0
      BY <1>0, <2>4 DEF Numbers
    <3>6. ~debounce => /\ request[q].for = Current
                       /\ ~resetFailed => AllFor(orders, Current)
      BY <2>2, <2>4, <3>5 DEF FilterInv, LastIsForCurrent, IsReset
    <3>7. Current' = Current
      BY <2>2 DEF Current
    <3>8. LastIsForCurrent'
      BY <2>2, <2>4, <3>1, <3>3, <3>6, <3>7 DEF LastIsForCurrent, AllFor
    <3> QED BY <3>2, <3>4, <3>8 DEF FilterInv
  <2> QED BY <2>3, <2>4
<1>10. CASE \E q \in Numbers : Discard(q)
  BY <1>8, <1>10 DEF Discard, Latest, filters, paging, shown, history
<1>11. CASE \E q \in Numbers : RequestFails(q)
  <2>1. PICK q \in Numbers : RequestFails(q)
    BY <1>11
  <2>2. /\ request[q].stage # "none" /\ Ended(q)
        /\ UNCHANGED <<orders, summary, selectedStatus, searchQuery, debounce, requestSequence>>
    BY <2>1 DEF RequestFails, filters, shown
  <2>3. CASE q # requestSequence
    BY <1>8, <2>1, <2>2, <2>3 DEF RequestFails
  <2>4. CASE q = requestSequence
    <3>1. /\ resetFailed' = (resetFailed \/ (~request[q].append /\ request[q].stage # "stats"))
          /\ statsFailed' = (statsFailed \/ ~request[q].append)
      BY <2>1, <2>4 DEF RequestFails
    <3>2. RequestsNumbered' /\ RowsAreFor'
      BY <2>2, RequestDropped
    <3>3. request'[q].stage = "none" /\ ~request'[q].append
      BY <2>2, RequestEnds
    <3>4. LastIsFlagged'
      BY <2>2, <2>4, <3>3 DEF LastIsFlagged
    <3>5. requestSequence > 0
      BY <1>0, <2>4 DEF Numbers
    <3>6. request[q].stage \in {"none", "list", "answered", "stats"}
      BY DEF ScreenTyped, Request
    <3>7. ~debounce => /\ ~resetFailed' => AllFor(orders, Current)
                       /\ ~statsFailed' => summary = Current
      BY <2>2, <2>4, <3>1, <3>5, <3>6 DEF FilterInv, LastIsForCurrent, IsReset
    <3>8. Current' = Current
      BY <2>2 DEF Current
    <3>9. LastIsForCurrent'
      BY <2>2, <2>4, <3>3, <3>7, <3>8 DEF LastIsForCurrent, AllFor
    <3> QED BY <3>2, <3>4, <3>9 DEF FilterInv
  <2> QED BY <2>3, <2>4
<1>12. ASSUME request' = request, \A f : AllFor(orders, f) => AllFor(orders', f),
              UNCHANGED <<summary, selectedStatus, searchQuery, debounce, loading,
                          loadingMore, requestSequence, resetFailed, statsFailed>>
       PROVE  FilterInv'
  <2>1. RequestsNumbered' /\ RowsAreFor' /\ LastIsFlagged'
    BY <1>12 DEF FilterInv, RequestsNumbered, RowsAreFor, LastIsFlagged
  <2>2. Current' = Current
    BY <1>12 DEF Current
  <2>3. LastIsForCurrent'
    BY <1>12, <2>2 DEF FilterInv, LastIsForCurrent, IsReset
  <2> QED BY <2>1, <2>3 DEF FilterInv
<1>13. CASE CancelOrder
  BY <1>12, <1>13 DEF CancelOrder, filters, paging, shown, history, AllFor
<1>14. CASE HandleCancel
  BY <1>3, <1>14 DEF HandleCancel, filters, paging, shown
<1>15. CASE ReceiveCancel
  <2>1. PICK p : p = Patched(selected)
    OBVIOUS
  <2>2. Len(p) = Len(orders) /\ \A i \in 1..Len(orders) : p[i].for = orders[i].for
    BY <2>1, PatchedRows
  <2>3. orders' = p \/ orders' = orders
    BY <1>15, <2>1 DEF ReceiveCancel
  <2>4. \A f : AllFor(orders, f) => AllFor(orders', f)
    BY <2>2, <2>3 DEF AllFor
  <2> QED BY <1>12, <1>15, <2>4 DEF ReceiveCancel, filters, paging
<1>16. CASE CancelFails
  BY <1>12, <1>16 DEF CancelFails, filters, paging, shown, history, AllFor
<1>17. CASE (\E i \in DOMAIN orders : OpenOrder(i)) \/ CloseOrder
  BY <1>12, <1>17 DEF OpenOrder, CloseOrder, filters, paging, shown, history, AllFor
<1>18. CASE UNCHANGED listVars
  BY <1>12, <1>18 DEF listVars, filters, paging, shown, history, AllFor
<1> QED BY <1>1, <1>2, <1>4, <1>5, <1>6, <1>7, <1>9, <1>10, <1>11, <1>13, <1>14, <1>15, <1>16,
           <1>17, <1>18, ScreenSteps

-----------------------------------------------------------------------------
(* The screen of the local sales: cancellations.                           *)

LEMMA CancelInit ==
  ASSUME ListInit
  PROVE  CancelInv
BY DEF ListInit, CancelInv, NoCancel

\* A step that answers no list, cancels no sale and shows no other rows.
LEMMA CancelKept ==
  ASSUME ScreenTyped, CancelInv, UNCHANGED <<status, orders, told>>,
         \A p \in Numbers : request'[p].stage = "answered" =>
           request[p].stage = "answered" /\ request'[p].rows = request[p].rows,
         cancel' = cancel \/ cancel'.stage # "answered"
  PROVE  CancelInv'
<1>1. ASSUME NEW o, KnownCancelled(o) PROVE KnownCancelled(o)'
  BY <1>1 DEF KnownCancelled, CancelledIn
<1>2. \A o \in told' : KnownCancelled(o)' /\ CancelledAtFirst(orders, o)'
  BY <1>1 DEF CancelInv, CancelledAtFirst, FirstIn
<1>3. cancel'.stage = "answered" => cancel' = cancel /\ status' = status
  OBVIOUS
<1>4. (cancel.stage = "answered" /\ ~cancel.early => KnownCancelled(cancel.order))'
  <2>1. PICK o : o = cancel.order
    OBVIOUS
  <2>2. cancel.stage = "answered" /\ ~cancel.early => KnownCancelled(o)'
    BY <1>1, <2>1 DEF CancelInv
  <2> QED BY <1>3, <2>1, <2>2 DEF KnownCancelled
<1>5. cancel'.stage = "answered" => status'[cancel'.order] = "annuler"
  BY <1>3 DEF CancelInv
<1> QED BY <1>2, <1>4, <1>5 DEF CancelInv, KnownCancelled

LEMMA CancelStep ==
  ASSUME ScreenTyped, CancelInv, [ListNext]_listVars
  PROVE  CancelInv'
<1>1. CASE ResetSent \/ AppendSent
  <2>1. PICK r \in Request :
          /\ r.stage = "list" /\ requestSequence' \in Numbers
          /\ request' = [request EXCEPT ![requestSequence'] = r]
          /\ UNCHANGED <<status, orders, cancel, told>>
    BY <1>1 DEF ResetSent, AppendSent
  <2>2. /\ request'[requestSequence'] = r
        /\ \A p \in Numbers : p # requestSequence' => request'[p] = request[p]
    BY <2>1, RequestChange
  <2> QED BY <2>1, <2>2, CancelKept
<1>2. CASE NewSale
  BY <1>2, AllDisturbed, CancelKept DEF NewSale, shown, modal
<1>3. CASE \E text \in Texts : TypeSearch(text)
  BY <1>3, CancelKept DEF TypeSearch, server, shown, modal, history
<1>4. CASE \E q \in Numbers : AnswerList(q) /\ PageAnswered(q)
  <2>1. PICK q \in Numbers : AnswerList(q) /\ PageAnswered(q)
    BY <1>4
  <2>2. PICK r \in Request :
          /\ request' = [request EXCEPT ![q] = r]
          /\ \A i \in 1..Len(r.rows) : r.rows[i].status = status[r.rows[i].nid]
    BY <2>1 DEF PageAnswered
  <2>3. request'[q] = r /\ \A p \in Numbers : p # q => request'[p] = request[p]
    BY <2>2, RequestChange
  <2>4. UNCHANGED <<status, orders, cancel, told>>
    BY <2>1 DEF AnswerList, server, shown, modal, history
  <2>5. ASSUME NEW o, KnownCancelled(o) PROVE KnownCancelled(o)'
    <3>1. CancelledIn(r.rows, o)
      BY <2>2, <2>5 DEF KnownCancelled, CancelledIn
    <3>2. \A p \in Numbers : request'[p].stage = "answered" => CancelledIn(request'[p].rows, o)
      BY <2>3, <2>5, <3>1 DEF KnownCancelled
    <3> QED BY <2>4, <2>5, <3>2 DEF KnownCancelled, CancelledIn
  <2>6. \A o \in told' : KnownCancelled(o)' /\ CancelledAtFirst(orders, o)'
    BY <2>4, <2>5 DEF CancelInv, CancelledAtFirst, FirstIn
  <2>7. cancel'.stage = "answered" => status'[cancel'.order] = "annuler"
    BY <2>4 DEF CancelInv
  <2>8. (cancel.stage = "answered" /\ ~cancel.early => KnownCancelled(cancel.order))'
    <3>1. PICK o : o = cancel.order
      OBVIOUS
    <3>2. cancel.stage = "answered" /\ ~cancel.early => KnownCancelled(o)'
      BY <2>5, <3>1 DEF CancelInv
    <3> QED BY <2>4, <3>1, <3>2 DEF KnownCancelled
  <2> QED BY <2>6, <2>7, <2>8 DEF CancelInv, KnownCancelled
<1>5. CASE \E q \in Numbers : ReceiveList(q)
  <2>1. PICK q \in Numbers : ReceiveList(q)
    BY <1>5
  <2>2. /\ request[q].stage = "answered"
        /\ orders' = IF request[q].append THEN orders \o request[q].rows
                     ELSE request[q].rows
        /\ UNCHANGED <<status, cancel, told>>
    BY <2>1 DEF ReceiveList, server
  <2>3. orders \in Seq(Row) /\ request[q].rows \in Seq(Row)
    BY DEF ScreenTyped, Request
  <2>4. /\ request'[q].stage # "answered"
        /\ \A p \in Numbers : p # q => request'[p] = request[p]
    BY <2>1, RequestEnds, StatsAsked DEF ReceiveList
  <2>5. ASSUME NEW o, KnownCancelled(o) PROVE KnownCancelled(o)'
    BY <2>2, <2>4, <2>5 DEF KnownCancelled, CancelledIn
  <2>6. ASSUME NEW o \in told PROVE CancelledAtFirst(orders', o)
    <3>1. CancelledAtFirst(orders, o) /\ CancelledIn(request[q].rows, o)
      BY <2>2 DEF CancelInv, KnownCancelled
    <3>2. CancelledAtFirst(request[q].rows, o)
      BY <3>1 DEF CancelledIn, CancelledAtFirst
    <3> QED BY <2>2, <2>3, <3>1, <3>2, RowsJoinedCancelled
  <2>7. \A o \in told' : KnownCancelled(o)' /\ CancelledAtFirst(orders, o)'
    BY <2>2, <2>5, <2>6 DEF CancelInv, CancelledAtFirst, FirstIn
  <2>8. cancel'.stage = "answered" => status'[cancel'.order] = "annuler"
    BY <2>2 DEF CancelInv
  <2>9. (cancel.stage = "answered" /\ ~cancel.early => KnownCancelled(cancel.order))'
    <3>1. PICK o : o = cancel.order
      OBVIOUS
    <3>2. cancel.stage = "answered" /\ ~cancel.early => KnownCancelled(o)'
      BY <2>5, <3>1 DEF CancelInv
    <3> QED BY <2>2, <3>1, <3>2 DEF KnownCancelled
  <2> QED BY <2>7, <2>8, <2>9 DEF CancelInv, KnownCancelled
<1>6. ASSUME NEW q \in Numbers, Ended(q), UNCHANGED <<status, orders, cancel, told>>
      PROVE  CancelInv'
  BY <1>6, RequestEnds, CancelKept
<1>7. CASE \E q \in Numbers : ReceiveStats(q)
  BY <1>6, <1>7 DEF ReceiveStats, server, modal
<1>8. CASE \E q \in Numbers : Discard(q)
  BY <1>6, <1>8 DEF Discard, server, shown, modal, history
<1>9. CASE \E q \in Numbers : RequestFails(q)
  BY <1>6, <1>9 DEF RequestFails, server, shown, modal
<1>10. CASE CancelOrder
  <2>1. cancel'.stage # "answered"
    BY <1>10 DEF CancelOrder, NoCancel
  <2> QED BY <1>10, <2>1, CancelKept DEF CancelOrder, server, shown, history
<1>11. CASE HandleCancel
  <2>1. /\ cancel.order \in Orders /\ status \in [Orders -> SaleStatuses]
        /\ status' = [status EXCEPT ![cancel.order] = "annuler"]
        /\ request' = Disturbed /\ UNCHANGED <<orders, told>>
    BY <1>11 DEF HandleCancel, ScreenTyped, shown
  <2>2. PICK b \in BOOLEAN : b = AnswerUnderWay
    BY DEF AnswerUnderWay
  <2>3. cancel' = [cancel EXCEPT !.stage = "answered", !.early = b]
    BY <1>11, <2>2 DEF HandleCancel
  <2>4. cancel'.order = cancel.order /\ cancel'.early = b
    BY <2>3 DEF ScreenTyped, Cancellation
  <2>5. \A p \in Numbers :
          request'[p].stage = request[p].stage /\ request'[p].rows = request[p].rows
    BY <2>1, AllDisturbed
  <2>6. \A o : status[o] = "annuler" => status'[o] = "annuler"
    BY <2>1
  <2>7. status'[cancel.order] = "annuler"
    BY <2>1
  <2>8. ASSUME NEW o, KnownCancelled(o) PROVE KnownCancelled(o)'
    BY <2>5, <2>6, <2>8 DEF KnownCancelled, CancelledIn
  <2>9. (~cancel.early => KnownCancelled(cancel.order))'
    BY <2>2, <2>4, <2>5, <2>7 DEF KnownCancelled, AnswerUnderWay
  <2>10. \A o \in told' : KnownCancelled(o)' /\ CancelledAtFirst(orders, o)'
    BY <2>1, <2>8 DEF CancelInv, CancelledAtFirst, FirstIn
  <2> QED BY <2>4, <2>7, <2>9, <2>10 DEF CancelInv, KnownCancelled
<1>12. CASE ReceiveCancel
  <2>1. cancel.stage = "answered" /\ cancel'.stage = "none" /\ UNCHANGED <<status, request>>
    BY <1>12 DEF ReceiveCancel, NoCancel, server
  <2>2. CASE selected = Closed
    <3>1. UNCHANGED <<orders, told>>
      BY <1>12, <2>2 DEF ReceiveCancel
    <3> QED BY <2>1, <3>1, CancelKept
  <2>3. CASE selected # Closed
    <3>1. PICK o : o = selected.nid
      OBVIOUS
    <3>2. PICK s : s = Patched(selected)
      OBVIOUS
    <3>3. /\ orders' = s
          /\ \/ told' = told
             \/ ~cancel.early /\ o = cancel.order /\ told' = told \cup {o}
      BY <1>12, <2>3, <3>1, <3>2 DEF ReceiveCancel
    <3>4. /\ Len(s) = Len(orders)
          /\ \A i \in 1..Len(orders) :
               /\ s[i].nid = orders[i].nid
               /\ s[i].status \in {"annuler", orders[i].status}
               /\ orders[i].nid = o /\ FirstIn(orders, i) => s[i].status = "annuler"
      BY <3>1, <3>2, PatchedRows
    <3>5. \A i \in 1..Len(orders) : FirstIn(s, i) <=> FirstIn(orders, i)
      <4>1. SUFFICES ASSUME NEW i \in 1..Len(orders)
            PROVE  FirstIn(s, i) <=> FirstIn(orders, i)
        OBVIOUS
      <4>2. \A j \in 1..(i - 1) : j \in 1..Len(orders)
        BY DEF ScreenTyped
      <4> QED BY <3>4, <4>2 DEF FirstIn
    <3>6. CancelledAtFirst(s, o)
          /\ \A p : CancelledAtFirst(orders, p) => CancelledAtFirst(s, p)
      BY <3>4, <3>5 DEF CancelledAtFirst
    <3>7. ASSUME NEW p, KnownCancelled(p) PROVE KnownCancelled(p)'
      BY <2>1, <3>7 DEF KnownCancelled, CancelledIn
    <3>8. ~cancel.early /\ o = cancel.order => KnownCancelled(o)
      BY <2>1 DEF CancelInv
    <3>9. \A p \in told' : KnownCancelled(p)' /\ CancelledAtFirst(orders', p)
      BY <3>3, <3>6, <3>7, <3>8 DEF CancelInv
    <3> QED BY <2>1, <3>9 DEF CancelInv, KnownCancelled, CancelledAtFirst, FirstIn
  <2> QED BY <2>2, <2>3
<1>13. CASE CancelFails
  <2>1. cancel'.stage # "answered"
    BY <1>13 DEF CancelFails, NoCancel
  <2> QED BY <1>13, <2>1, CancelKept DEF CancelFails, server, shown, history
<1>14. CASE (\E i \in DOMAIN orders : OpenOrder(i)) \/ CloseOrder
  BY <1>14, CancelKept DEF OpenOrder, CloseOrder, server, shown, history
<1>15. CASE UNCHANGED listVars
  BY <1>15, CancelKept DEF listVars, server, shown, modal, history
<1> QED BY <1>1, <1>2, <1>3, <1>4, <1>5, <1>7, <1>8, <1>9, <1>10, <1>11, <1>12, <1>13, <1>14,
           <1>15, ScreenSteps

-----------------------------------------------------------------------------
(* The screen of the local sales: pages.                                   *)

LEMMA MatchingKept ==
  ASSUME UNCHANGED <<made, status>>
  PROVE  \A f : Matching(f)' = Matching(f)
BY DEF Matching

LEMMA PageInit ==
  ASSUME ListInit
  PROVE  PageInv
<1>1. \A q \in Numbers : request[q].stage = "none"
  BY UnsentIsARequest DEF ListInit
<1> QED BY <1>1 DEF ListInit, PageInv, ResetsAskPage0, CleanPages, TidyList, IsReset

\* A step that leaves the rows and the last request as they were, but that it may
\* be a request of the statistics that ends.
LEMMA PageKept ==
  ASSUME ScreenTyped, FilterInv, PageInv,
         UNCHANGED <<made, status, hasMore, currentPage, requestSequence>>,
         Len(orders') = Len(orders),
         \A i \in 1..Len(orders) :
           orders'[i].nid = orders[i].nid /\ orders'[i].for = orders[i].for,
         tidy' => tidy /\ resetFailed' = resetFailed,
         \A p \in Numbers : \/ request'[p] = request[p]
                            \/ /\ request'[p].stage = "none" /\ ~request'[p].append
                               /\ p = requestSequence /\ tidy' => request[p].stage = "stats"
  PROVE  PageInv'
<1>1. \A f : Matching(f)' = Matching(f)
  BY MatchingKept
<1>2. ResetsAskPage0'
  BY DEF PageInv, ResetsAskPage0, IsReset, ScreenTyped, Numbers
<1>3. CleanPages'
  BY <1>1 DEF PageInv, CleanPages
<1>4. ASSUME tidy' PROVE ~resetFailed' /\ requestSequence' > 0
  BY <1>4 DEF PageInv, TidyList
<1>5. ASSUME tidy' PROVE \E f \in ChosenFilters : Holds(f)'
  <2>1. PICK f \in ChosenFilters : Holds(f)
    BY <1>5 DEF PageInv, TidyList
  <2>2. AllFor(orders', f) /\ NidsIn(orders', Matching(f))
    BY <2>1 DEF Holds, AllFor, NidsIn
  <2>3. requestSequence \in Numbers
    BY <1>4, <1>5 DEF ScreenTyped, Numbers
  <2>4. CASE request'[requestSequence] = request[requestSequence]
    <3>1. Holds(f)'
      BY <1>1, <2>1, <2>2, <2>4 DEF Holds, AllFor, NidsIn, IsReset
    <3> QED BY <3>1
  <2>5. CASE /\ request'[requestSequence].stage = "none"
             /\ ~request'[requestSequence].append
             /\ request[requestSequence].stage = "stats"
    <3>1. ~request[requestSequence].append /\ ~IsReset(request[requestSequence])
      BY <2>3, <2>5 DEF FilterInv, RequestsNumbered, IsReset
    <3>2. Holds(f)'
      BY <1>1, <2>1, <2>2, <2>5, <3>1 DEF Holds, AllFor, NidsIn, IsReset
    <3> QED BY <3>2
  <2> QED BY <1>5, <2>3, <2>4, <2>5
<1>6. TidyList'
  BY <1>4, <1>5 DEF TidyList
<1> QED BY <1>2, <1>3, <1>6 DEF PageInv

\* What is known of the rows of a page that the last request brings.
LEMMA FirstPage ==
  ASSUME NEW all \in Seq(Orders), NEW rows \in Seq(Row),
         SameNids(rows, Page(all, 0))
  PROVE  /\ NidsIn(rows, all)
         /\ Len(rows) < Len(all) => Len(rows) = (0 + 1) * PageSize
<1>1. PICK p : p = Page(all, 0)
  OBVIOUS
<1>2. PageSize \in Nat /\ 0 * PageSize = 0 /\ (0 + 1) * PageSize = PageSize
  BY OrderListAssumption
<1>3. 0 \in Nat
  OBVIOUS
<1>4. Len(Page(all, 0)) = IF 0 * PageSize + PageSize < Len(all) THEN PageSize
                     ELSE IF 0 * PageSize < Len(all) THEN Len(all) - 0 * PageSize ELSE 0
  BY <1>3, PageOf
<1>5. \A i \in 1..Len(Page(all, 0)) :
        /\ 0 * PageSize + i \in 1..Len(all)
        /\ Page(all, 0)[i] = all[0 * PageSize + i]
  BY <1>3, PageOf
<1>6. Len(p) = IF PageSize < Len(all) THEN PageSize ELSE Len(all)
  BY <1>1, <1>2, <1>4
<1>7. \A i \in 1..Len(p) : i \in 1..Len(all) /\ p[i] = all[i]
  BY <1>1, <1>2, <1>5
<1>8. Len(rows) = Len(p) /\ \A i \in 1..Len(rows) : rows[i].nid = p[i]
  BY <1>1 DEF SameNids
<1>9. NidsIn(rows, all)
  BY <1>2, <1>6, <1>7, <1>8 DEF NidsIn
<1> QED BY <1>2, <1>6, <1>8, <1>9

LEMMA NextPage ==
  ASSUME NEW all \in Seq(Orders), NEW rows \in Seq(Row),
         NEW shownRows \in Seq(Row), NEW page \in Nat,
         SameNids(rows, Page(all, page)), NidsIn(shownRows, all),
         Len(shownRows) = page * PageSize, Len(shownRows) < Len(all)
  PROVE  /\ NidsIn(shownRows \o rows, all)
         /\ Len(shownRows \o rows) < Len(all) =>
              Len(shownRows \o rows) = (page + 1) * PageSize
<1>1. PICK p : p = Page(all, page)
  OBVIOUS
<1>2. PICK m : m = page * PageSize
  OBVIOUS
<1>3. PageSize \in Nat /\ m \in Nat /\ (page + 1) * PageSize = m + PageSize
  BY <1>2, PageOf, OrderListAssumption
<1>4. Len(p) = IF m + PageSize < Len(all) THEN PageSize
               ELSE IF m < Len(all) THEN Len(all) - m ELSE 0
  BY <1>1, <1>2, PageOf
<1>5. \A i \in 1..Len(p) : m + i \in 1..Len(all) /\ p[i] = all[m + i]
  BY <1>1, <1>2, PageOf
<1>6. Len(rows) = Len(p) /\ \A i \in 1..Len(rows) : rows[i].nid = p[i]
  BY <1>1 DEF SameNids
<1>7. PICK s : s = shownRows \o rows
  OBVIOUS
<1>8. /\ Len(s) = m + Len(rows) /\ Len(shownRows) = m
      /\ \A i \in 1..(m + Len(rows)) :
           s[i] = IF i <= m THEN shownRows[i] ELSE rows[i - m]
  <2>1. Len(shownRows) = m /\ Len(rows) \in Nat
    BY <1>2
  <2>2. /\ Len(s) = Len(shownRows) + Len(rows)
        /\ \A i \in 1..(Len(shownRows) + Len(rows)) :
             s[i] = IF i <= Len(shownRows) THEN shownRows[i] ELSE rows[i - Len(shownRows)]
    <3>1. /\ Len(shownRows \o rows) = Len(shownRows) + Len(rows)
          /\ \A i \in 1..(Len(shownRows) + Len(rows)) :
               (shownRows \o rows)[i] = IF i <= Len(shownRows) THEN shownRows[i]
                                        ELSE rows[i - Len(shownRows)]
      BY RowsJoined
    <3> QED BY <1>7, <3>1
  <2> QED BY <2>1, <2>2
<1>9. ASSUME NEW i \in 1..Len(s) PROVE s[i].nid = all[i]
  <2>1. CASE i <= m
    BY <1>3, <1>8, <2>1 DEF NidsIn
  <2>2. CASE i > m
    <3>1. i - m \in 1..Len(rows) /\ m + (i - m) = i
      BY <1>3, <1>8, <2>2
    <3>2. s[i] = rows[i - m]
      BY <1>3, <1>8, <2>2
    <3>3. rows[i - m].nid = p[i - m]
      BY <1>6, <3>1
    <3>4. p[i - m] = all[i]
      BY <1>5, <1>6, <3>1
    <3> QED BY <3>2, <3>3, <3>4
  <2> QED BY <1>3, <1>8, <2>1, <2>2
<1>10. Len(s) <= Len(all) /\ (Len(s) < Len(all) => Len(s) = m + PageSize)
  <2>1. m < Len(all) /\ Len(all) \in Nat
    BY <1>2
  <2>2. Len(s) = m + Len(p)
    BY <1>6, <1>8
  <2> QED BY <1>3, <1>4, <2>1, <2>2
<1> QED BY <1>3, <1>7, <1>9, <1>10 DEF NidsIn

LEMMA PageStep ==
  ASSUME ScreenTyped, FilterInv, PageInv, [ListNext]_listVars
  PROVE  PageInv'
<1>0. requestSequence \in Nat /\ (requestSequence > 0 => requestSequence \in Numbers)
  BY DEF ScreenTyped, Numbers
<1>1. CASE ResetSent
  <2>1. PICK r \in Request :
          /\ r.stage = "list" /\ ~r.append /\ r.page = 0
          /\ requestSequence' = requestSequence + 1 /\ requestSequence' \in Numbers
          /\ request' = [request EXCEPT ![requestSequence'] = r]
          /\ currentPage' = 0
          /\ UNCHANGED <<made, status, orders, tidy, resetFailed>>
    BY <1>1 DEF ResetSent
  <2>2. /\ request'[requestSequence'] = r
        /\ \A p \in Numbers : p # requestSequence' => request'[p] = request[p]
    BY <2>1, RequestChange
  <2>3. \A f : Matching(f)' = Matching(f)
    BY <2>1, MatchingKept
  <2>4. ResetsAskPage0'
    BY <2>1, <2>2 DEF PageInv, ResetsAskPage0, IsReset
  <2>5. CleanPages'
    BY <2>1, <2>2, <2>3 DEF PageInv, CleanPages
  <2>6. ASSUME tidy' PROVE \E f \in ChosenFilters : Holds(f)'
    <3>1. PICK f \in ChosenFilters : Holds(f)
      BY <2>1, <2>6 DEF PageInv, TidyList
    <3>2. AllFor(orders', f) /\ NidsIn(orders', Matching(f)')
      BY <2>1, <2>3, <3>1 DEF Holds, AllFor, NidsIn
    <3>3. Holds(f)'
      BY <2>1, <2>2, <3>2 DEF Holds, IsReset, AllFor, NidsIn
    <3> QED BY <3>3
  <2>7. TidyList'
    BY <1>0, <2>1, <2>6 DEF PageInv, TidyList
  <2> QED BY <2>4, <2>5, <2>7 DEF PageInv
<1>2. CASE AppendSent
  <2>1. PICK r \in Request :
          /\ r.stage = "list" /\ r.append /\ r.page = currentPage' /\ r.for = Current
          /\ r.paused = debounce
          /\ requestSequence > 0 /\ hasMore /\ ~loadingMore /\ ~loading
          /\ requestSequence' = requestSequence + 1 /\ requestSequence' \in Numbers
          /\ request' = [request EXCEPT ![requestSequence'] = r]
          /\ currentPage' = currentPage + 1 /\ hasMore' = hasMore
          /\ UNCHANGED <<made, status, orders, tidy, resetFailed>>
    BY <1>2 DEF AppendSent
  <2>2. /\ request'[requestSequence'] = r
        /\ \A p \in Numbers : p # requestSequence' => request'[p] = request[p]
    BY <2>1, RequestChange
  <2>3. \A f : Matching(f)' = Matching(f)
    BY <2>1, MatchingKept
  <2>4. ResetsAskPage0'
    BY <2>1, <2>2 DEF PageInv, ResetsAskPage0, IsReset
  <2>5. CleanPages'
    BY <2>1, <2>2, <2>3 DEF PageInv, CleanPages
  <2>6. request[requestSequence].stage = "none"
    BY <2>1 DEF FilterInv, LastIsFlagged
  <2>7. ~request[requestSequence].append /\ ~IsReset(request[requestSequence])
    BY <1>0, <2>1, <2>6 DEF FilterInv, RequestsNumbered, IsReset
  <2>8. ASSUME tidy' PROVE \E f \in ChosenFilters : Holds(f)'
    <3>1. PICK f \in ChosenFilters : Holds(f)
      BY <2>1, <2>8 DEF PageInv, TidyList
    <3>2. ~resetFailed
      BY <2>1, <2>8 DEF PageInv, TidyList
    <3>3. /\ AllFor(orders, f) /\ NidsIn(orders, Matching(f))
          /\ hasMore <=> Len(orders) < Len(Matching(f))
          /\ Len(orders) = (currentPage + 1) * PageSize
      BY <2>1, <2>7, <3>1 DEF Holds
    <3>4. Len(orders) # 0
      <4>1. currentPage \in Nat /\ PageSize \in Nat \ {0}
        BY OrderListAssumption DEF ScreenTyped
      <4>2. /\ currentPage * PageSize \in Nat
            /\ (currentPage + 1) * PageSize = currentPage * PageSize + PageSize
        BY <4>1, ProductOfNaturals
      <4> QED BY <3>3, <4>1, <4>2
    <3>5. ~debounce => Current = f
      <4>1. 1 \in 1..Len(orders)
        <5>1. Len(orders) \in Nat
          BY DEF ScreenTyped
        <5> QED BY <3>4, <5>1
      <4>2. ~debounce => AllFor(orders, Current)
        BY <2>1, <2>7, <3>2 DEF FilterInv, LastIsForCurrent
      <4> QED BY <3>3, <4>1, <4>2 DEF AllFor
    <3>6. currentPage' > 0
      BY <2>1 DEF ScreenTyped
    <3>7. AllFor(orders', f) /\ NidsIn(orders', Matching(f)')
      BY <2>1, <2>3, <3>3 DEF AllFor, NidsIn
    <3>8. hasMore' <=> Len(orders') < Len(Matching(f)')
      BY <2>1, <2>3, <3>3
    <3>9. Len(orders') = currentPage' * PageSize
      BY <2>1, <3>3
    <3>10. r.append /\ r.page = currentPage' /\ (~r.paused => r.for = f) /\ hasMore'
      BY <2>1, <3>5
    <3>11. Holds(f)'
      BY <2>2, <3>6, <3>7, <3>8, <3>9, <3>10 DEF Holds, AllFor, NidsIn
    <3> QED BY <3>11
  <2>9. TidyList'
    BY <1>0, <2>1, <2>8 DEF PageInv, TidyList
  <2> QED BY <2>4, <2>5, <2>9 DEF PageInv
<1>3. ASSUME request' = Disturbed, tidy' = FALSE, UNCHANGED <<requestSequence, currentPage>>
      PROVE  PageInv'
  <2>1. \A p \in Numbers :
          /\ request'[p].stage = request[p].stage /\ request'[p].append = request[p].append
          /\ request'[p].page = request[p].page /\ ~request'[p].clean
    BY <1>3, AllDisturbed
  <2>2. ResetsAskPage0'
    BY <1>0, <1>3, <2>1 DEF PageInv, ResetsAskPage0, IsReset
  <2> QED BY <1>3, <2>1, <2>2 DEF PageInv, CleanPages, TidyList
<1>4. CASE NewSale
  BY <1>3, <1>4 DEF NewSale, paging
<1>5. CASE HandleCancel
  BY <1>3, <1>5 DEF HandleCancel, paging
<1>6. CASE \E q \in Numbers : AnswerList(q) /\ PageAnswered(q)
  <2>1. PICK q \in Numbers : AnswerList(q) /\ PageAnswered(q)
    BY <1>6
  <2>2. PICK r \in Request :
          /\ request' = [request EXCEPT ![q] = r]
          /\ r.stage = "answered" /\ r.append = request[q].append /\ r.for = request[q].for
          /\ r.page = request[q].page /\ r.paused = request[q].paused
          /\ r.total = Len(Matching(r.for))
          /\ SameNids(r.rows, Page(Matching(r.for), r.page))
    BY <2>1 DEF PageAnswered
  <2>3. request'[q] = r /\ \A p \in Numbers : p # q => request'[p] = request[p]
    BY <2>2, RequestChange
  <2>4. /\ request[q].stage = "list"
        /\ UNCHANGED <<made, status, orders, hasMore, currentPage, requestSequence, tidy,
                       resetFailed>>
    BY <2>1 DEF AnswerList, server, paging, shown, history
  <2>5. \A f : Matching(f)' = Matching(f)
    BY <2>4, MatchingKept
  <2>6. ResetsAskPage0'
    BY <1>0, <2>2, <2>3, <2>4 DEF PageInv, ResetsAskPage0, IsReset
  <2>7. CleanPages'
    BY <2>2, <2>3, <2>4, <2>5 DEF PageInv, CleanPages
  <2>8. ASSUME tidy' PROVE \E f \in ChosenFilters : Holds(f)'
    <3>1. PICK f \in ChosenFilters : Holds(f)
      BY <2>4, <2>8 DEF PageInv, TidyList
    <3>2. requestSequence \in Numbers
      BY <1>0, <2>4, <2>8 DEF PageInv, TidyList
    <3>3. /\ request'[requestSequence].append = request[requestSequence].append
          /\ request'[requestSequence].page = request[requestSequence].page
          /\ request'[requestSequence].paused = request[requestSequence].paused
          /\ request'[requestSequence].for = request[requestSequence].for
          /\ IsReset(request'[requestSequence]) <=> IsReset(request[requestSequence])
      BY <2>2, <2>3, <2>4, <3>2 DEF IsReset
    <3>4. Holds(f)'
      BY <2>4, <2>5, <3>1, <3>3 DEF Holds, AllFor, NidsIn, IsReset
    <3> QED BY <3>4
  <2>9. TidyList'
    BY <2>4, <2>8 DEF PageInv, TidyList
  <2> QED BY <2>6, <2>7, <2>9 DEF PageInv
<1>7. CASE \E q \in Numbers : ReceiveList(q)
  <2>1. PICK q \in Numbers : ReceiveList(q)
    BY <1>7
  <2>2. PICK r : r = request[q]
    OBVIOUS
  <2>3. /\ r \in Request /\ r.rows \in Seq(Row) /\ r.for \in ChosenFilters /\ r.page \in Nat
        /\ orders \in Seq(Row) /\ currentPage \in Nat
    BY <2>2 DEF ScreenTyped, Request
  <2>4. /\ r.stage = "answered" /\ q = requestSequence /\ requestSequence > 0
        /\ orders' = IF r.append THEN orders \o r.rows ELSE r.rows
        /\ hasMore' = (Len(orders') < r.total)
        /\ tidy' = (r.clean /\ (r.append => tidy /\ ~r.paused))
        /\ resetFailed' = (r.append /\ resetFailed)
        /\ UNCHANGED <<made, status, currentPage, requestSequence>>
    BY <1>0, <2>1, <2>2 DEF ReceiveList, Latest, server, Numbers
  <2>5. /\ request'[q].stage \in {"none", "stats"} /\ ~request'[q].append
        /\ \A p \in Numbers : p # q => request'[p] = request[p]
    BY <2>1, RequestEnds, StatsAsked DEF ReceiveList
  <2>6. \A f : Matching(f)' = Matching(f)
    BY <2>4, MatchingKept
  <2>7. ResetsAskPage0'
    BY <2>4, <2>5 DEF PageInv, ResetsAskPage0, IsReset
  <2>8. CleanPages'
    BY <2>5, <2>6 DEF PageInv, CleanPages
  <2>9. ASSUME tidy' PROVE ~resetFailed'
    BY <2>4, <2>9 DEF PageInv, TidyList
  <2>10. PICK all : all = Matching(r.for)
    OBVIOUS
  <2>11. all \in Seq(Orders)
    BY <2>3, <2>10, MatchingIsASeq
  <2>12. AllFor(r.rows, r.for)
    BY <2>2, <2>4 DEF FilterInv, RowsAreFor
  <2>13. ASSUME tidy' PROVE r.total = Len(all) /\ SameNids(r.rows, Page(all, r.page))
    BY <2>2, <2>4, <2>10, <2>13 DEF PageInv, CleanPages
  <2>14. ASSUME tidy'
         PROVE  /\ AllFor(orders', r.for) /\ NidsIn(orders', all)
                /\ Len(orders') < Len(all) => Len(orders') = (currentPage + 1) * PageSize
    <3>1. CASE ~r.append
      <4>1. r.page = 0 /\ currentPage = 0
        BY <2>2, <2>4, <3>1 DEF PageInv, ResetsAskPage0, IsReset
      <4>2. SameNids(r.rows, Page(all, 0))
        BY <2>13, <2>14, <4>1
      <4>3. /\ NidsIn(r.rows, all)
            /\ Len(r.rows) < Len(all) => Len(r.rows) = (0 + 1) * PageSize
        BY <2>3, <2>11, <4>2, FirstPage
      <4>4. orders' = r.rows
        BY <2>4, <3>1
      <4> QED BY <2>12, <4>1, <4>3, <4>4
    <3>2. CASE r.append
      <4>1. tidy /\ ~r.paused
        BY <2>4, <2>14, <3>2
      <4>2. PICK f \in ChosenFilters : Holds(f)
        BY <4>1 DEF PageInv, TidyList
      <4>3. /\ AllFor(orders, f) /\ NidsIn(orders, Matching(f))
            /\ hasMore /\ r.page = currentPage /\ r.for = f
            /\ Len(orders) = currentPage * PageSize
            /\ Len(orders) < Len(Matching(f))
        BY <2>2, <2>4, <3>2, <4>1, <4>2 DEF Holds, IsReset
      <4>4. Matching(f) = all
        BY <2>10, <4>3
      <4>5. /\ SameNids(r.rows, Page(all, currentPage)) /\ NidsIn(orders, all)
            /\ Len(orders) = currentPage * PageSize /\ Len(orders) < Len(all)
        BY <2>13, <2>14, <4>3, <4>4
      <4>6. /\ NidsIn(orders \o r.rows, all)
            /\ Len(orders \o r.rows) < Len(all) =>
                 Len(orders \o r.rows) = (currentPage + 1) * PageSize
        BY <2>3, <2>11, <4>5, NextPage
      <4>7. orders' = orders \o r.rows
        BY <2>4, <3>2
      <4>8. AllFor(orders, r.for)
        BY <4>3
      <4>9. AllFor(orders \o r.rows, r.for)
        BY <2>3, <2>12, <4>8, RowsJoinedFor
      <4> QED BY <4>6, <4>7, <4>9
    <3> QED BY <3>1, <3>2
  <2>15. ASSUME tidy' PROVE Holds(r.for)'
    <3>1. ~IsReset(request'[requestSequence']) /\ ~request'[requestSequence'].append
      BY <2>4, <2>5 DEF IsReset
    <3>2. hasMore' <=> Len(orders') < Len(Matching(r.for)')
      BY <2>4, <2>6, <2>10, <2>13, <2>15
    <3>3. AllFor(orders', r.for) /\ NidsIn(orders', Matching(r.for)')
      BY <2>6, <2>10, <2>14, <2>15
    <3>4. hasMore' => Len(orders') = (currentPage' + 1) * PageSize
      BY <2>4, <2>6, <2>10, <2>14, <2>15, <3>2
    <3> QED BY <3>1, <3>2, <3>3, <3>4 DEF Holds, AllFor, NidsIn, IsReset
  <2>16. TidyList'
    BY <2>3, <2>4, <2>9, <2>15 DEF TidyList
  <2> QED BY <2>7, <2>8, <2>16 DEF PageInv
<1>8. ASSUME NEW q \in Numbers, Ended(q), q # requestSequence,
             UNCHANGED <<made, status, orders, hasMore, currentPage, requestSequence, tidy,
                         resetFailed>>
      PROVE  PageInv'
  <2>1. request'[q].stage = "none" /\ \A p \in Numbers : p # q => request'[p] = request[p]
    BY <1>8, RequestEnds
  <2>2. \A f : Matching(f)' = Matching(f)
    BY <1>8, MatchingKept
  <2>3. ResetsAskPage0'
    BY <1>0, <1>8, <2>1 DEF PageInv, ResetsAskPage0, IsReset
  <2>4. CleanPages'
    BY <2>1, <2>2 DEF PageInv, CleanPages
  <2>5. ASSUME tidy' PROVE \E f \in ChosenFilters : Holds(f)'
    <3>1. PICK f \in ChosenFilters : Holds(f)
      BY <1>8, <2>5 DEF PageInv, TidyList
    <3>2. request'[requestSequence] = request[requestSequence]
      BY <1>0, <1>8, <2>1, <2>5 DEF PageInv, TidyList
    <3>3. Holds(f)'
      BY <1>8, <2>2, <3>1, <3>2 DEF Holds, AllFor, NidsIn, IsReset
    <3> QED BY <3>3
  <2>6. TidyList'
    BY <1>8, <2>5 DEF PageInv, TidyList
  <2> QED BY <2>3, <2>4, <2>6 DEF PageInv
<1>9. ASSUME NEW q \in Numbers, Ended(q), q = requestSequence,
             UNCHANGED <<made, status, orders, hasMore, currentPage, requestSequence>>,
             tidy' => tidy /\ resetFailed' = resetFailed /\ request[q].stage = "stats"
      PROVE  PageInv'
  <2>1. /\ request'[q].stage = "none" /\ ~request'[q].append
        /\ \A p \in Numbers : p # q => request'[p] = request[p]
    BY <1>9, RequestEnds
  <2> QED BY <1>9, <2>1, PageKept
<1>10. CASE \E q \in Numbers : ReceiveStats(q)
  <2>1. PICK q \in Numbers : ReceiveStats(q)
    BY <1>10
  <2>2. /\ request[q].stage = "stats" /\ Ended(q)
        /\ UNCHANGED <<made, status, orders, hasMore, currentPage, requestSequence, tidy,
                       resetFailed>>
    BY <2>1 DEF ReceiveStats, server
  <2> QED BY <1>8, <1>9, <2>2
<1>11. CASE \E q \in Numbers : Discard(q)
  BY <1>8, <1>11 DEF Discard, Latest, server, paging, shown, history
<1>12. CASE \E q \in Numbers : RequestFails(q)
  <2>1. PICK q \in Numbers : RequestFails(q)
    BY <1>12
  <2>2. Ended(q) /\ UNCHANGED <<made, status, orders, hasMore, currentPage,
                                requestSequence>>
    BY <2>1 DEF RequestFails, server, shown
  <2>3. CASE q # requestSequence
    BY <1>8, <2>1, <2>2, <2>3 DEF RequestFails
  <2>4. CASE q = requestSequence
    <3>1. tidy' => tidy /\ resetFailed' = resetFailed /\ request[q].stage = "stats"
      BY <2>1, <2>4 DEF RequestFails, ScreenTyped
    <3> QED BY <1>9, <2>2, <2>4, <3>1
  <2> QED BY <2>3, <2>4
<1>13. ASSUME UNCHANGED <<made, status, hasMore, currentPage, requestSequence, request, tidy,
                          resetFailed>>,
              Len(orders') = Len(orders),
              \A i \in 1..Len(orders) :
                orders'[i].nid = orders[i].nid /\ orders'[i].for = orders[i].for
       PROVE  PageInv'
  BY <1>13, PageKept
<1>14. CASE \E text \in Texts : TypeSearch(text)
  BY <1>13, <1>14 DEF TypeSearch, server, paging, shown, history
<1>15. CASE CancelOrder
  BY <1>13, <1>15 DEF CancelOrder, server, paging, shown, history
<1>16. CASE ReceiveCancel
  <2>1. PICK p : p = Patched(selected)
    OBVIOUS
  <2>2. /\ Len(p) = Len(orders)
        /\ \A i \in 1..Len(orders) :
             p[i].nid = orders[i].nid /\ p[i].for = orders[i].for
    BY <2>1, PatchedRows
  <2>3. orders' = p \/ orders' = orders
    BY <1>16, <2>1 DEF ReceiveCancel
  <2> QED BY <1>13, <1>16, <2>2, <2>3 DEF ReceiveCancel, server, paging
<1>17. CASE CancelFails
  BY <1>13, <1>17 DEF CancelFails, server, paging, shown, history
<1>18. CASE (\E i \in DOMAIN orders : OpenOrder(i)) \/ CloseOrder
  BY <1>13, <1>18 DEF OpenOrder, CloseOrder, server, paging, shown, history
<1>19. CASE UNCHANGED listVars
  BY <1>13, <1>19 DEF listVars, server, paging, shown, history
<1> QED BY <1>1, <1>2, <1>4, <1>5, <1>6, <1>7, <1>10, <1>11, <1>12, <1>14, <1>15, <1>16, <1>17,
           <1>18, <1>19, ScreenSteps

-----------------------------------------------------------------------------
(* The screen of the local sales: the theorems.                            *)

OrderListInv == ScreenTyped /\ ModalTyped /\ FilterInv /\ CancelInv /\ PageInv

LEMMA OrderListInvHolds ==
  ListSpec => []OrderListInv
<1>1. ListInit => OrderListInv
  BY ScreenTypedInit, ModalInit, FilterInit, CancelInit, PageInit DEF OrderListInv
<1>2. OrderListInv /\ [ListNext]_listVars => OrderListInv'
  BY ScreenTypedStep, ModalStep, FilterStep, CancelStep, PageStep DEF OrderListInv
<1> QED BY <1>1, <1>2, PTL DEF ListSpec

LEMMA PrefixOf ==
  ASSUME NEW s \in Seq(Orders), NEW t \in Seq(Orders), Len(s) <= Len(t),
         \A i \in 1..Len(s) : s[i] = t[i]
  PROVE  IsPrefix(s, t)
<1>1. PICK n : n = Len(s)
  OBVIOUS
<1>2. n \in Nat /\ n <= Len(t) /\ Len(t) \in Nat
  BY <1>1
<1>3. SubSeq(s, 1, n) = [i \in 1..n |-> s[i]] /\ SubSeq(t, 1, n) = [i \in 1..n |-> t[i]]
  BY <1>1, <1>2
<1>4. SubSeq(s, 1, n) = SubSeq(t, 1, n)
  BY <1>1, <1>3
<1> QED BY <1>1, <1>4 DEF IsPrefix

(* The list of local sales, its filters, page and spinners, and what       *)
(* fetchOrders and cancelOrder of CommandesPage.vue are waiting for keep   *)
(* their types, whatever order the answers come in.                        *)
THEOREM ListTypeCorrect ==
  ListSpec => []ScreenTyped
<1>1. OrderListInv => ScreenTyped
  BY DEF OrderListInv
<1> QED BY <1>1, OrderListInvHolds, PTL

(* requestSequence of fetchOrders: when the pause of the search is over    *)
(* and the last request is done, the rows and the statistics are of the    *)
(* filters chosen, unless that request failed; for any number of requests  *)
(* under way, answered in any order or not at all.                         *)
THEOREM ListShowsTheFilters ==
  ListSpec => []ShowsTheFilters
<1>1. OrderListInv => ShowsTheFilters
  <2>1. SUFFICES ASSUME OrderListInv, Settled, requestSequence > 0
                 PROVE  /\ ~resetFailed =>
                             \A i \in DOMAIN orders : orders[i].for = Current
                        /\ ~statsFailed => summary = Current
    BY DEF ShowsTheFilters
  <2>2. requestSequence \in Numbers
    BY <2>1 DEF OrderListInv, ScreenTyped, Numbers
  <2>3. ~debounce /\ request[requestSequence].stage = "none"
    BY <2>1, <2>2 DEF Settled
  <2>4. DOMAIN orders = 1..Len(orders)
    BY <2>1 DEF OrderListInv, ScreenTyped
  <2> QED BY <2>1, <2>3, <2>4 DEF OrderListInv, FilterInv, LastIsForCurrent, IsReset, AllFor
<1> QED BY <1>1, OrderListInvHolds, PTL

(* loadMore and fetchOrders: the rows are the first of the sales their     *)
(* filters find, none left out and none twice, and hasMore says whether    *)
(* there are others, as long as no sale and no cancellation came in        *)
(* between, no page was asked for in the pause of a search, and no load    *)
(* failed.                                                                 *)
THEOREM ListStaysInOrder ==
  ListSpec => []ListInOrder
<1>1. OrderListInv => ListInOrder
  <2>1. SUFFICES ASSUME OrderListInv, tidy, orders # <<>>
                 PROVE  /\ IsPrefix([i \in DOMAIN orders |-> orders[i].nid],
                                    Matching(orders[1].for))
                        /\ ~loading =>
                             (hasMore <=>
                                Len(orders) < Len(Matching(orders[1].for)))
    BY DEF ListInOrder
  <2>2. PICK f \in ChosenFilters : Holds(f)
    BY <2>1 DEF OrderListInv, PageInv, TidyList
  <2>3. orders \in Seq(Row) /\ ScreenTyped
    BY <2>1 DEF OrderListInv, ScreenTyped
  <2>4. DOMAIN orders = 1..Len(orders) /\ 1 \in 1..Len(orders)
    BY <2>1, <2>3
  <2>5. orders[1].for = f
    BY <2>2, <2>4 DEF Holds, AllFor
  <2>6. PICK all : all = Matching(f)
    OBVIOUS
  <2>7. all \in Seq(Orders)
    BY <2>3, <2>6, MatchingIsASeq
  <2>8. PICK nids : nids = [i \in 1..Len(orders) |-> orders[i].nid]
    OBVIOUS
  <2>9. \A i \in 1..Len(orders) : orders[i].nid \in Orders
    <3>1. \A i \in 1..Len(orders) : orders[i] \in Row
      BY <2>3
    <3> QED BY <3>1 DEF Row
  <2>10. nids \in Seq(Orders) /\ Len(nids) = Len(orders)
    BY <2>3, <2>8, <2>9
  <2>11. Len(nids) <= Len(all) /\ \A i \in 1..Len(nids) : nids[i] = all[i]
    BY <2>2, <2>6, <2>8, <2>10 DEF Holds, NidsIn
  <2>12. IsPrefix(nids, all)
    BY <2>7, <2>10, <2>11, PrefixOf
  <2>13. ~loading => ~IsReset(request[requestSequence])
    <3>1. requestSequence > 0
      BY <2>1 DEF OrderListInv, PageInv, TidyList
    <3> QED BY <2>1, <3>1 DEF OrderListInv, FilterInv, LastIsFlagged, IsReset
  <2>14. ~loading => (hasMore <=> Len(orders) < Len(all))
    BY <2>2, <2>6, <2>13 DEF Holds
  <2> QED BY <2>4, <2>5, <2>6, <2>8, <2>12, <2>14
<1> QED BY <1>1, OrderListInvHolds, PTL

(* cancelOrder: a sale that the screen was told is cancelled, its modal     *)
(* still open, is never again shown as anything else in its first row,     *)
(* although older requests may still be answered and the answer of another *)
(* cancellation may patch the wrong row, unless the answer to a list was   *)
(* on its way when the server cancelled it.                                *)
THEOREM ListShowsCancelled ==
  ListSpec => []CancelShown
<1>1. OrderListInv => CancelShown
  <2>1. SUFFICES ASSUME OrderListInv PROVE CancelShown
    OBVIOUS
  <2>2. DOMAIN orders = 1..Len(orders)
    BY <2>1 DEF OrderListInv, ScreenTyped
  <2>3. \A i \in DOMAIN orders : FirstRow(i) => FirstIn(orders, i)
    BY DEF FirstRow, FirstIn
  <2>4. \A o \in told : CancelledAtFirst(orders, o)
    BY <2>1 DEF OrderListInv, CancelInv
  <2> QED BY <2>2, <2>3, <2>4 DEF CancelledAtFirst, CancelShown
<1> QED BY <1>1, OrderListInvHolds, PTL
=============================================================================
