-------------------------- MODULE StoreImport_proofs --------------------------
(* Theorems about StoreImport, for any catalogue, any answers of the       *)
(* remote shop, and any number of commands that are killed at any step.    *)
EXTENDS StoreImport, SequenceTheorems, FiniteSetTheorems, TLAPS

Skus == {SkuOf[n] : n \in Nids}

ItemRecord == [source : Nids, version : Nat]

NodeRecord == [source : Nids, sku : Skus, version : Nat, pictures : Pictures,
               by : {"command", "endpoint"}]

\* A node in the cache of a command.
CopyRecord == [node : Nat, pictures : Pictures, replaced : BOOLEAN]

MemoryTyped == memory \in [Commands -> SUBSET CopyRecord]

Steps == Active \cup {"idle", "done", "aborted"}

RunRecord == [pc : Steps, opt : Options \cup {Idle.opt}, offset : Nat, next : Nat \cup {Stop},
              total : Nat \cup {None}, page : Seq(Nids), attempt : Nat,
              details : Seq(ItemRecord), node : Nat, at : Seq(Nids), asOf : [Nids -> Nat],
              disturbed : BOOLEAN]

\* A command under way has its options, and what its next step takes.
RunOK(r) ==
  /\ r \in RunRecord
  /\ r.pc \in Active => r.opt \in Options
  /\ r.pc = "detail" => r.page # <<>>
  /\ r.pc = "save" => r.details # <<>>

Typed ==
  /\ catalogue \in Seq(Nids)
  /\ version \in [Nids -> Nat]
  /\ nodes \in Seq(NodeRecord)
  /\ run \in [Commands -> RunRecord]
  /\ posts \in [Skus -> Nat]
  /\ \A c \in Commands : RunOK(run[c])
  /\ \A c \in Commands : run[c].pc = "save" => run[c].node \in 0..Len(nodes)
  /\ MemoryTyped

\* new is old with items read now behind it.
Grown(old, new) ==
  /\ new \in Seq(ItemRecord)
  /\ \A i \in 1..Len(new) : \/ i <= Len(old) /\ new[i] = old[i]
                            \/ i > Len(old) /\ new[i].version = version[new[i].source]

-----------------------------------------------------------------------------
(* Sequences of the reading steps.                                         *)

LEMMA SliceOf ==
  ASSUME NEW S, NEW s \in Seq(S), NEW from \in Nat, NEW count \in Nat
  PROVE  /\ Slice(s, from, count) \in Seq(S)
         /\ \A i \in 1..Len(Slice(s, from, count)) :
              from + i \in 1..Len(s) /\ Slice(s, from, count)[i] = s[from + i]
<1> DEFINE m == from + 1
           n == IF from + count < Len(s) THEN from + count ELSE Len(s)
<1>1. Len(s) \in Nat /\ m \in Int /\ n \in Int /\ n <= Len(s) /\ m >= 1
  BY LenProperties
<1>2. Slice(s, from, count) = SubSeq(s, m, n)
  BY DEF Slice
<1> HIDE DEF n
<1>3. \A i \in m..n : s[i] \in S
  BY <1>1, ElementOfSeq
<1>4. /\ SubSeq(s, m, n) \in Seq(S)
      /\ Len(SubSeq(s, m, n)) = IF m <= n THEN n - m + 1 ELSE 0
      /\ \A i \in 1..n - m + 1 : SubSeq(s, m, n)[i] = s[m + i - 1]
  BY <1>1, <1>3, SubSeqProperties
<1>5. ASSUME NEW i \in 1..Len(SubSeq(s, m, n))
      PROVE  from + i \in 1..Len(s) /\ SubSeq(s, m, n)[i] = s[from + i]
  <2>1. i \in 1..n - m + 1 /\ i \in Nat /\ m + i - 1 = from + i /\ from + i <= n
    BY <1>1, <1>4
  <2> QED BY <1>1, <1>4, <2>1
<1> QED BY <1>2, <1>4, <1>5

LEMMA ItemsOf ==
  ASSUME version \in [Nids -> Nat], NEW nids \in Seq(Nids)
  PROVE  /\ Items(nids) \in Seq(ItemRecord) /\ Len(Items(nids)) = Len(nids)
         /\ \A i \in 1..Len(nids) : Items(nids)[i] = Item(nids[i])
<1>1. /\ Len(nids) \in Nat /\ DOMAIN nids = 1..Len(nids)
      /\ \A i \in 1..Len(nids) : nids[i] \in Nids
  BY LenProperties, ElementOfSeq
<1>2. \A i \in 1..Len(nids) : Item(nids[i]) \in ItemRecord
  BY <1>1 DEF Item, ItemRecord
<1>3. Items(nids) \in [1..Len(nids) -> ItemRecord]
      /\ \A i \in 1..Len(nids) : Items(nids)[i] = Item(nids[i])
  BY <1>1, <1>2 DEF Items
<1>4. Items(nids) \in Seq(ItemRecord)
  BY <1>1, <1>3, SeqDef
<1>5. Len(Items(nids)) = Len(nids)
  BY <1>1, <1>3, <1>4, LenProperties
<1> QED BY <1>3, <1>4, <1>5

LEMMA CollectedGrows ==
  ASSUME Typed, NEW r \in RunRecord, r.opt \in Options, NEW items \in Seq(ItemRecord),
         \A i \in 1..Len(items) : items[i].version = version[items[i].source]
  PROVE  Grown(r.details, Collected(r, items))
<1> DEFINE old == r.details
           all == old \o items
           count == IF r.opt.limit > 0 THEN r.opt.limit ELSE Len(old) + Len(items)
<1>1. /\ old \in Seq(ItemRecord) /\ r.opt.limit \in Nat
      /\ Len(old) \in Nat /\ Len(items) \in Nat
  BY ImportAssumption, LenProperties DEF RunRecord
<1>2. /\ all \in Seq(ItemRecord) /\ Len(all) = Len(old) + Len(items) /\ count \in Nat
      /\ \A i \in 1..Len(old) + Len(items) :
           all[i] = IF i <= Len(old) THEN old[i] ELSE items[i - Len(old)]
  BY <1>1, ConcatProperties
<1>3. Collected(r, items) = Slice(all, 0, count)
  BY DEF Collected
<1> HIDE DEF all, count
<1>4. /\ Slice(all, 0, count) \in Seq(ItemRecord)
      /\ \A i \in 1..Len(Slice(all, 0, count)) :
           0 + i \in 1..Len(all) /\ Slice(all, 0, count)[i] = all[0 + i]
  <2>1. all \in Seq(ItemRecord) /\ count \in Nat /\ 0 \in Nat
    BY <1>2
  <2> QED BY <2>1, SliceOf, Zenon
<1>5. ASSUME NEW i \in 1..Len(Slice(all, 0, count))
      PROVE  \/ i <= Len(old) /\ Slice(all, 0, count)[i] = old[i]
             \/ /\ i > Len(old)
                /\ Slice(all, 0, count)[i].version = version[Slice(all, 0, count)[i].source]
  <2>1. i \in 1..Len(old) + Len(items) /\ Slice(all, 0, count)[i] = all[i]
    BY <1>1, <1>2, <1>4
  <2>2. CASE i <= Len(old)
    BY <1>2, <2>1, <2>2
  <2>3. CASE i > Len(old)
    <3>1. all[i] = items[i - Len(old)] /\ i - Len(old) \in 1..Len(items)
      BY <1>1, <1>2, <2>1, <2>3
    <3> QED BY <2>1, <2>3, <3>1
  <2> QED BY <1>1, <2>1, <2>2, <2>3
<1> QED BY <1>3, <1>4, <1>5 DEF Grown

-----------------------------------------------------------------------------
(* The steps of a command keep its types.                                  *)

LEMMA IdleTyped == Idle \in RunRecord /\ Idle.pc = "idle" /\ Idle.details = <<>>
  BY DEF Idle, RunRecord, Steps, Active, Reading, Stop, None, ItemRecord

LEMMA ListPageTyped ==
  ASSUME Typed, NEW offset \in Nat
  PROVE  /\ ListPage(offset).rows \in Seq(Nids)
         /\ ListPage(offset).next \in Nat \cup {None}
         /\ ListPage(offset).total \in Nat \cup {None}
<1>1. catalogue \in Seq(Nids) /\ Len(catalogue) \in Nat /\ PageLimit \in Nat
  BY ImportAssumption, LenProperties DEF Typed
<1>2. Slice(catalogue, offset, PageLimit) \in Seq(Nids)
  BY <1>1, SliceOf
<1> QED BY <1>1, <1>2 DEF ListPage

LEMMA NextOffsetTyped ==
  ASSUME NEW p, p.next \in Nat \cup {None}, NEW offset \in Nat, NEW total
  PROVE  NextOffset(p, offset, total) \in Nat \cup {Stop}
  BY ImportAssumption DEF NextOffset, None, Stop

\* What a step of the reading leaves of the command r, its details apart.
ReadOn(r, s) == RunOK(s) /\ s.opt = r.opt /\ s.pc \in Reading \cup {"lookup", "aborted"}

LEMMA TurnPageTyped ==
  ASSUME NEW r \in RunRecord, r.opt \in Options
  PROVE  ReadOn(r, TurnPage(r)) /\ TurnPage(r).details = r.details
<1>1. r.next = Stop \/ r.next \in Nat
  BY DEF RunRecord
<1>2. CASE FullUp(r) \/ r.next = Stop
  <2> DEFINE s == [r EXCEPT !.pc = "lookup", !.page = <<>>, !.attempt = 1]
  <2>1. TurnPage(r) = s
    BY <1>2 DEF TurnPage
  <2>2. s \in RunRecord
    BY EmptySeq DEF RunRecord, Steps, Active, Reading
  <2>3. s.pc = "lookup" /\ s.opt = r.opt /\ s.details = r.details
    BY DEF RunRecord
  <2> HIDE DEF s
  <2> QED BY <2>1, <2>2, <2>3 DEF ReadOn, RunOK, Reading
<1>3. CASE ~(FullUp(r) \/ r.next = Stop)
  <2> DEFINE s == [r EXCEPT !.pc = "list", !.page = <<>>, !.attempt = 1, !.offset = r.next]
  <2>1. TurnPage(r) = s /\ r.next \in Nat
    BY <1>1, <1>3 DEF TurnPage
  <2>2. s \in RunRecord
    BY <2>1, EmptySeq DEF RunRecord, Steps, Active, Reading
  <2>3. s.pc = "list" /\ s.opt = r.opt /\ s.details = r.details
    BY DEF RunRecord
  <2> HIDE DEF s
  <2> QED BY <2>1, <2>2, <2>3 DEF ReadOn, RunOK, Reading
<1> QED BY <1>2, <1>3

LEMMA PageReadTyped ==
  ASSUME NEW r \in RunRecord, r.opt \in Options, r.pc = "detail"
  PROVE  ReadOn(r, PageRead(r)) /\ PageRead(r).details = r.details
<1>1. CASE Len(r.page) = 0
  BY <1>1, TurnPageTyped DEF PageRead
<1>2. CASE Len(r.page) # 0
  <2>1. PageRead(r) = r /\ r.page # <<>>
    BY <1>2 DEF PageRead
  <2> QED BY <2>1 DEF ReadOn, RunOK, Reading
<1> QED BY <1>1, <1>2

LEMMA GrownSame ==
  ASSUME NEW d \in Seq(ItemRecord)
  PROVE  Grown(d, d)
  BY LenProperties DEF Grown

\* A step of the reading, of the state r of its command.
ReadStep(c, r) ==
  \E s : Goes(c, s) /\ ReadOn(r, s) /\ Grown(r.details, s.details) /\ OnlyReads

LEMMA ItemsRead ==
  ASSUME Typed, NEW nids \in Seq(Nids)
  PROVE  /\ Items(nids) \in Seq(ItemRecord)
         /\ \A i \in 1..Len(Items(nids)) :
              Items(nids)[i].version = version[Items(nids)[i].source]
<1>1. /\ Items(nids) \in Seq(ItemRecord) /\ Len(Items(nids)) = Len(nids)
      /\ \A i \in 1..Len(nids) : Items(nids)[i] = Item(nids[i])
  BY ItemsOf DEF Typed
<1>2. ASSUME NEW i \in 1..Len(nids)
      PROVE  Item(nids[i]).version = version[Item(nids[i]).source]
  BY DEF Item
<1> QED BY <1>1, <1>2

LEMMA ReadPageReads ==
  ASSUME Typed, NEW c \in Commands, ReadPage(c)
  PROVE  run[c].pc = "list" /\ ReadStep(c, run[c])
<1> DEFINE r == run[c]
           p == ListPage(r.offset)
           total == IF r.total = None THEN p.total ELSE r.total
           next == NextOffset(p, r.offset, total)
           known == [r EXCEPT !.total = total, !.attempt = 1, !.next = next]
           empty == [r EXCEPT !.pc = "lookup", !.total = total, !.attempt = 1]
           nids == [known EXCEPT !.pc = "detail", !.page = p.rows]
           read == [known EXCEPT !.details = Collected(r, Items(p.rows))]
<1>1. /\ r \in RunRecord /\ r.pc = "list" /\ r.opt \in Options /\ r.offset \in Nat
      /\ r.total \in Nat \cup {None} /\ r.details \in Seq(ItemRecord)
  BY DEF Typed, RunOK, ReadPage, RunRecord, Active, Reading
<1>2. /\ p.rows \in Seq(Nids) /\ p.next \in Nat \cup {None} /\ p.total \in Nat \cup {None}
  BY <1>1, ListPageTyped
<1>3. next \in Nat \cup {Stop} /\ total \in Nat \cup {None}
  BY <1>1, <1>2, NextOffsetTyped
<1>4. /\ OnlyReads
      /\ \/ p.rows = <<>> /\ Goes(c, empty)
         \/ p.rows # <<>> /\ Goes(c, nids)
         \/ Goes(c, TurnPage(read))
  BY DEF ReadPage
<1>5. Grown(r.details, r.details) /\ Grown(r.details, Collected(r, Items(p.rows)))
  BY <1>1, <1>2, GrownSame, ItemsRead, CollectedGrows
<1> HIDE DEF p, total, next
<1>6. known \in RunRecord
  BY <1>1, <1>3 DEF RunRecord
<1>7. CASE p.rows = <<>> /\ Goes(c, empty)
  <2>1. empty \in RunRecord
    BY <1>1, <1>3 DEF RunRecord, Steps, Active
  <2>2. empty.pc = "lookup" /\ empty.opt = r.opt /\ empty.details = r.details
    BY <1>1 DEF RunRecord
  <2>3. ReadOn(r, empty) /\ Grown(r.details, empty.details)
    BY <1>1, <1>5, <2>1, <2>2 DEF ReadOn, RunOK, Reading
  <2> QED BY <1>1, <1>4, <1>7, <2>3 DEF ReadStep
<1>8. CASE p.rows # <<>> /\ Goes(c, nids)
  <2>1. nids \in RunRecord
    BY <1>2, <1>6 DEF RunRecord, Steps, Active, Reading
  <2>2. nids.pc = "detail" /\ nids.opt = r.opt /\ nids.details = r.details /\ nids.page = p.rows
    BY <1>1 DEF RunRecord
  <2>3. ReadOn(r, nids) /\ Grown(r.details, nids.details)
    BY <1>1, <1>5, <1>8, <2>1, <2>2 DEF ReadOn, RunOK, Reading
  <2> QED BY <1>1, <1>4, <1>8, <2>3 DEF ReadStep
<1>9. CASE Goes(c, TurnPage(read))
  <2>1. Collected(r, Items(p.rows)) \in Seq(ItemRecord)
    BY <1>5 DEF Grown
  <2>2. read \in RunRecord
    BY <1>6, <2>1 DEF RunRecord
  <2>3. read.opt = r.opt /\ read.details = Collected(r, Items(p.rows))
    BY <1>1 DEF RunRecord
  <2> HIDE DEF read
  <2>4. ReadOn(read, TurnPage(read)) /\ TurnPage(read).details = read.details
    BY <1>1, <2>2, <2>3, TurnPageTyped
  <2>5. ReadOn(r, TurnPage(read)) /\ Grown(r.details, TurnPage(read).details)
    BY <1>5, <2>3, <2>4 DEF ReadOn
  <2> QED BY <1>1, <1>4, <1>9, <2>5 DEF ReadStep
<1> QED BY <1>1, <1>4, <1>7, <1>8, <1>9

LEMMA ReadDetailReads ==
  ASSUME Typed, NEW c \in Commands, ReadDetail(c)
  PROVE  run[c].pc = "detail" /\ ReadStep(c, run[c])
<1> DEFINE r == run[c]
           items == <<Item(Head(r.page))>>
           read == [r EXCEPT !.details = Collected(r, items), !.page = Tail(@), !.attempt = 1]
<1>1. /\ r \in RunRecord /\ r.pc = "detail" /\ r.opt \in Options
      /\ r.page \in Seq(Nids) /\ r.page # <<>> /\ r.details \in Seq(ItemRecord)
  BY DEF Typed, RunOK, ReadDetail, RunRecord, Active, Reading
<1>2. Head(r.page) \in Nids /\ Tail(r.page) \in Seq(Nids)
  BY <1>1, HeadTailProperties
<1>3. Item(Head(r.page)) \in ItemRecord
  BY <1>2 DEF Item, ItemRecord, Typed
<1>4. /\ items \in Seq(ItemRecord)
      /\ \A i \in 1..Len(items) : items[i].version = version[items[i].source]
  BY <1>3 DEF Item
<1>5. Grown(r.details, Collected(r, items))
  BY <1>1, <1>4, CollectedGrows
<1>6. Goes(c, PageRead(read)) /\ OnlyReads
  BY DEF ReadDetail
<1> HIDE DEF items
<1>7. read \in RunRecord /\ read.opt = r.opt /\ read.pc = r.pc /\ read.details = Collected(r, items)
  BY <1>1, <1>2, <1>5 DEF RunRecord, Grown
<1> HIDE DEF read
<1>8. ReadOn(read, PageRead(read)) /\ PageRead(read).details = read.details
  BY <1>1, <1>7, PageReadTyped
<1>9. ReadOn(r, PageRead(read)) /\ Grown(r.details, PageRead(read).details)
  BY <1>5, <1>7, <1>8 DEF ReadOn
<1> QED BY <1>1, <1>6, <1>9 DEF ReadStep

LEMMA AttemptFailsReads ==
  ASSUME Typed, NEW c \in Commands, AttemptFails(c)
  PROVE  run[c].pc \in Reading /\ ReadStep(c, run[c])
<1> DEFINE r == run[c]
           skip == [r EXCEPT !.page = Tail(@), !.attempt = 1, !.disturbed = TRUE]
           stop == [r EXCEPT !.pc = "aborted"]
<1>1. /\ r \in RunRecord /\ r.pc \in Reading /\ r.opt \in Options /\ r.attempt \in Nat
      /\ r.page \in Seq(Nids) /\ r.details \in Seq(ItemRecord)
      /\ r.pc = "detail" => r.page # <<>>
  BY DEF Typed, RunOK, AttemptFails, RunRecord, Active
<1>2. /\ OnlyReads
      /\ \/ Goes(c, NextAttempt(r))
         \/ Goes(c, stop)
         \/ r.pc = "detail" /\ Goes(c, PageRead(skip))
  BY <1>1 DEF AttemptFails, Reading
<1>3. Grown(r.details, r.details)
  BY <1>1, GrownSame
<1>4. CASE Goes(c, NextAttempt(r))
  <2> DEFINE s == NextAttempt(r)
  <2>1. s = [r EXCEPT !.attempt = r.attempt + 1] /\ r.attempt + 1 \in Nat
    <3>1. s = [r EXCEPT !.attempt = r.attempt + 1]
      BY DEF NextAttempt
    <3> QED BY <1>1, <3>1
  <2>2. ASSUME NEW k \in Nat
        PROVE  LET t == [r EXCEPT !.attempt = k]
               IN  /\ t \in RunRecord /\ t.pc = r.pc /\ t.opt = r.opt
                   /\ t.details = r.details /\ t.page = r.page
    BY <1>1 DEF RunRecord
  <2>3. /\ s \in RunRecord /\ s.pc = r.pc /\ s.opt = r.opt
        /\ s.details = r.details /\ s.page = r.page
    BY <2>1, <2>2, Zenon
  <2> HIDE DEF s
  <2>4. ReadOn(r, s)
    BY <1>1, <2>3 DEF ReadOn, RunOK, Reading
  <2> QED BY <1>1, <1>2, <1>3, <1>4, <2>3, <2>4 DEF ReadStep, s
<1>5. CASE Goes(c, stop)
  <2>1. stop \in RunRecord /\ stop.pc = "aborted" /\ stop.opt = r.opt /\ stop.details = r.details
    BY <1>1 DEF RunRecord, Steps
  <2> HIDE DEF stop
  <2>2. ReadOn(r, stop)
    BY <1>1, <2>1 DEF ReadOn, RunOK, Reading, Active
  <2> QED BY <1>1, <1>2, <1>3, <1>5, <2>1, <2>2 DEF ReadStep
<1>6. CASE r.pc = "detail" /\ Goes(c, PageRead(skip))
  <2>1. Tail(r.page) \in Seq(Nids)
    BY <1>1, <1>6, HeadTailProperties
  <2>2. skip \in RunRecord /\ skip.pc = r.pc /\ skip.opt = r.opt /\ skip.details = r.details
    BY <1>1, <2>1 DEF RunRecord
  <2> HIDE DEF skip
  <2>3. ReadOn(skip, PageRead(skip)) /\ PageRead(skip).details = skip.details
    BY <1>1, <1>6, <2>2, PageReadTyped
  <2>4. ReadOn(r, PageRead(skip)) /\ Grown(r.details, PageRead(skip).details)
    BY <1>3, <2>2, <2>3 DEF ReadOn
  <2> QED BY <1>1, <1>2, <1>6, <2>4 DEF ReadStep
<1> QED BY <1>1, <1>2, <1>4, <1>5, <1>6

-----------------------------------------------------------------------------
(* A start, and a change of the remote shop.                               *)

LEMMA StartReads ==
  ASSUME Typed, NEW c \in Commands, Start(c) \/ StartFromFile(c)
  PROVE  /\ CanStart(c) /\ UNCHANGED <<catalogue, version, nodes, posts>>
         /\ \E s : /\ Goes(c, s) /\ RunOK(s) /\ s.pc \in {"list", "lookup"}
                   /\ Grown(<<>>, s.details)
<1>1. CanStart(c) /\ UNCHANGED <<catalogue, version, nodes, posts>>
  BY DEF Start, StartFromFile
<1>2. catalogue \in Seq(Nids) /\ version \in [Nids -> Nat] /\ Len(catalogue) \in Nat
  BY LenProperties DEF Typed
<1>3. ASSUME NEW o \in Options
      PROVE  /\ StartState(o) \in RunRecord /\ StartState(o).pc = "list"
             /\ StartState(o).opt = o /\ StartState(o).details = <<>>
  <2>1. o.offset \in Nat
    BY ImportAssumption
  <2> QED BY <1>2, <2>1, IdleTyped DEF StartState, RunRecord, Steps, Active, Reading
<1>4. CASE Start(c)
  <2>1. PICK o \in Options : Goes(c, StartState(o))
    BY <1>4 DEF Start
  <2>2. Grown(<<>>, <<>>)
    <3>1. <<>> \in Seq(ItemRecord)
      OBVIOUS
    <3> QED BY <3>1, GrownSame
  <2>3. RunOK(StartState(o))
    BY <1>3 DEF RunOK
  <2> QED BY <1>1, <1>3, <2>1, <2>2, <2>3
<1>5. CASE StartFromFile(c)
  <2>1. PICK o \in Options : Goes(c, [StartState(o) EXCEPT !.pc = "lookup",
                                        !.details = Items(Wanted(catalogue, o))])
    BY <1>5 DEF StartFromFile
  <2> DEFINE items == Items(Wanted(catalogue, o))
             s == [StartState(o) EXCEPT !.pc = "lookup", !.details = items]
  <2>2. o.offset \in Nat /\ o.limit \in Nat
    BY ImportAssumption
  <2>3. (IF o.limit > 0 THEN o.limit ELSE Len(catalogue)) \in Nat
    BY <1>2, <2>2
  <2>4. Wanted(catalogue, o) \in Seq(Nids)
    BY <1>2, <2>2, <2>3, SliceOf DEF Wanted
  <2>5. /\ items \in Seq(ItemRecord)
        /\ \A i \in 1..Len(items) : items[i].version = version[items[i].source]
    BY <2>4, ItemsRead
  <2> HIDE DEF items
  <2>6. s \in RunRecord /\ s.pc = "lookup" /\ s.opt = o /\ s.details = items
    <3>1. ASSUME NEW t \in RunRecord, NEW d \in Seq(ItemRecord)
          PROVE  LET u == [t EXCEPT !.pc = "lookup", !.details = d]
                 IN  u \in RunRecord /\ u.pc = "lookup" /\ u.opt = t.opt /\ u.details = d
      BY DEF RunRecord, Steps, Active
    <3>2. StartState(o) \in RunRecord /\ StartState(o).opt = o
      BY <1>3
    <3>3. items \in Seq(ItemRecord)
      BY <2>5
    <3> QED BY <3>1, <3>2, <3>3, Zenon
  <2>7. Len(items) \in Nat /\ Len(<<>>) = 0
    BY <2>5, LenProperties
  <2>8. Grown(<<>>, items)
    BY <2>5, <2>7 DEF Grown
  <2>9. Goes(c, s)
    BY <2>1 DEF items
  <2> HIDE DEF s
  <2>10. RunOK(s)
    BY <2>6 DEF RunOK
  <2> QED BY <1>1, <2>6, <2>8, <2>9, <2>10
<1> QED BY <1>4, <1>5

LEMMA PieceOf ==
  ASSUME NEW S, NEW s \in Seq(S), NEW m \in Nat \ {0}, NEW n \in Int, n <= Len(s)
  PROVE  SubSeq(s, m, n) \in Seq(S)
<1>1. Len(s) \in Nat /\ \A i \in m..n : s[i] \in S
  BY LenProperties, ElementOfSeq
<1> QED BY <1>1, SubSeqProperties

\* The same command, perhaps disturbed.
SameRun(r, s) ==
  /\ RunOK(s)
  /\ s.pc = r.pc /\ s.opt = r.opt /\ s.details = r.details /\ s.node = r.node

LEMMA DisturbTyped ==
  ASSUME Typed
  PROVE  /\ Disturb(run) \in [Commands -> RunRecord]
         /\ \A c \in Commands : SameRun(run[c], Disturb(run)[c])
<1>1. ASSUME NEW c \in Commands
      PROVE  Disturb(run)[c] \in RunRecord /\ SameRun(run[c], Disturb(run)[c])
  <2> DEFINE r == run[c]
             flag == r.disturbed \/ r.pc \in Reading
             s == [r EXCEPT !.disturbed = flag]
  <2>1. r \in RunRecord /\ RunOK(r)
    BY DEF Typed
  <2>2. Disturb(run)[c] = s /\ flag \in BOOLEAN
    BY DEF Disturb
  <2> HIDE DEF flag
  <2>3. /\ s \in RunRecord /\ s.pc = r.pc /\ s.opt = r.opt
        /\ s.details = r.details /\ s.node = r.node /\ s.page = r.page
    BY <2>1, <2>2 DEF RunRecord
  <2> HIDE DEF s
  <2> QED BY <2>1, <2>2, <2>3 DEF SameRun, RunOK
<1> QED BY <1>1 DEF Disturb

LEMMA RemoteChanges ==
  ASSUME Typed, RemoteChange
  PROVE  /\ nodes' = nodes /\ posts' = posts
         /\ catalogue' \in Seq(Nids) /\ version' \in [Nids -> Nat]
         /\ \A n \in Nids : version'[n] >= version[n]
         /\ run' \in [Commands -> RunRecord]
         /\ \A c \in Commands : SameRun(run[c], run'[c])
<1>1. /\ catalogue \in Seq(Nids) /\ version \in [Nids -> Nat] /\ Len(catalogue) \in Nat
      /\ run \in [Commands -> RunRecord]
      /\ \A i \in DOMAIN catalogue : i \in 1..Len(catalogue) /\ catalogue[i] \in Nids
  BY LenProperties, ElementOfSeq DEF Typed
<1>2. /\ Disturb(run) \in [Commands -> RunRecord]
      /\ \A c \in Commands : SameRun(run[c], Disturb(run)[c])
      /\ \A c \in Commands : SameRun(run[c], run[c])
  BY DisturbTyped DEF SameRun, Typed
<1>3. ASSUME NEW i \in DOMAIN catalogue
      PROVE  Without(i) \in Seq(Nids)
  <2>1. /\ i \in 1..Len(catalogue) /\ i - 1 \in Int /\ i - 1 <= Len(catalogue)
        /\ i + 1 \in Nat \ {0}
    BY <1>1
  <2>2. SubSeq(catalogue, 1, i - 1) \in Seq(Nids)
    BY <1>1, <2>1, PieceOf
  <2>3. SubSeq(catalogue, i + 1, Len(catalogue)) \in Seq(Nids)
    BY <1>1, <2>1, PieceOf
  <2> QED BY <2>2, <2>3, ConcatProperties DEF Without
<1>4. ASSUME NEW n \in Nids, NEW s \in Seq(Nids)
      PROVE  <<n>> \o s \in Seq(Nids) /\ Append(s, n) \in Seq(Nids)
  BY ConcatProperties, AppendProperties
<1>5. ASSUME NEW new \in Seq(Nids), Relist(new)
      PROVE  /\ catalogue' \in Seq(Nids) /\ run' \in [Commands -> RunRecord]
             /\ \A c \in Commands : SameRun(run[c], run'[c])
  BY <1>2, <1>5 DEF Relist
<1>6. nodes' = nodes /\ posts' = posts
  BY DEF RemoteChange
<1> DEFINE Newer == \A m \in Nids : version'[m] >= version[m]
<1>0. ASSUME version' = version PROVE Newer
  BY <1>0, <1>1
<1> HIDE DEF Newer
<1>7. ASSUME NEW n \in Nids, version' = version,
             Relist(<<n>> \o catalogue) \/ Relist(Append(catalogue, n))
      PROVE  /\ catalogue' \in Seq(Nids) /\ run' \in [Commands -> RunRecord]
             /\ \A c \in Commands : SameRun(run[c], run'[c])
             /\ version' \in [Nids -> Nat] /\ Newer
  BY <1>0, <1>1, <1>4, <1>5, <1>7
<1>8. ASSUME NEW i \in DOMAIN catalogue, Relist(Without(i)), version' = version
      PROVE  /\ catalogue' \in Seq(Nids) /\ run' \in [Commands -> RunRecord]
             /\ \A c \in Commands : SameRun(run[c], run'[c])
             /\ version' \in [Nids -> Nat] /\ Newer
  BY <1>0, <1>1, <1>3, <1>5, <1>8
<1>9. ASSUME NEW i \in DOMAIN catalogue, version' = [version EXCEPT ![catalogue[i]] = @ + 1],
             \/ UNCHANGED <<catalogue, run>>
             \/ Relist(<<catalogue[i]>> \o Without(i))
             \/ Relist(Append(Without(i), catalogue[i]))
      PROVE  /\ catalogue' \in Seq(Nids) /\ run' \in [Commands -> RunRecord]
             /\ \A c \in Commands : SameRun(run[c], run'[c])
             /\ version' \in [Nids -> Nat] /\ Newer
  <2>1. version' \in [Nids -> Nat] /\ Newer
    BY <1>1, <1>9 DEF Newer
  <2>2. /\ <<catalogue[i]>> \o Without(i) \in Seq(Nids)
        /\ Append(Without(i), catalogue[i]) \in Seq(Nids)
    BY <1>1, <1>3, <1>4
  <2> QED BY <1>1, <1>2, <1>5, <1>9, <2>1, <2>2
<1> QED BY <1>6, <1>7, <1>8, <1>9 DEF RemoteChange, Newer

-----------------------------------------------------------------------------
(* The steps that write, and what any step makes of the nodes.             *)

LEMMA GoesTyped ==
  ASSUME Typed, NEW c \in Commands, NEW s, RunOK(s), Goes(c, s)
  PROVE  /\ run' \in [Commands -> RunRecord] /\ run'[c] = s
         /\ \A d \in Commands : d # c => run'[d] = run[d]
         /\ \A d \in Commands : RunOK(run'[d])
  BY DEF Goes, Typed, RunOK

LEMMA NextItemTyped ==
  ASSUME NEW r, RunOK(r), r.details # <<>>, r.pc \in Active
  PROVE  /\ RunOK(NextItem(r)) /\ NextItem(r).pc = "lookup"
         /\ NextItem(r).details = Tail(r.details)
         /\ RunOK([NextItem(r) EXCEPT !.disturbed = TRUE])
         /\ [NextItem(r) EXCEPT !.disturbed = TRUE].pc = "lookup"
         /\ [NextItem(r) EXCEPT !.disturbed = TRUE].details = Tail(r.details)
<1>1. r \in RunRecord /\ r.opt \in Options /\ Tail(r.details) \in Seq(ItemRecord)
  <2>1. r \in RunRecord /\ r.opt \in Options
    BY DEF RunOK
  <2>2. r.details \in Seq(ItemRecord)
    BY <2>1 DEF RunRecord
  <2> QED BY <2>1, <2>2, HeadTailProperties
<1> DEFINE s == NextItem(r)
<1>2. s \in RunRecord /\ s.pc = "lookup" /\ s.opt = r.opt /\ s.details = Tail(r.details)
  BY <1>1 DEF NextItem, RunRecord, Steps, Active
<1> HIDE DEF s
<1> DEFINE t == [s EXCEPT !.disturbed = TRUE]
<1>3. t \in RunRecord /\ t.pc = s.pc /\ t.opt = s.opt /\ t.details = s.details
  BY <1>2 DEF RunRecord
<1> HIDE DEF t
<1>4. RunOK(s) /\ RunOK(t)
  BY <1>1, <1>2, <1>3 DEF RunOK
<1> QED BY <1>2, <1>3, <1>4 DEF s, t

LEMMA HeadOf ==
  ASSUME NEW r, RunOK(r), r.details # <<>>
  PROVE  /\ r \in RunRecord /\ r.details \in Seq(ItemRecord) /\ Head(r.details) \in ItemRecord
         /\ Head(r.details).source \in Nids /\ Head(r.details).version \in Nat
         /\ SkuOf[Head(r.details).source] \in Skus
<1>1. r \in RunRecord /\ r.details \in Seq(ItemRecord)
  BY DEF RunOK, RunRecord
<1>2. Head(r.details) \in ItemRecord
  BY <1>1, HeadTailProperties
<1> QED BY <1>1, <1>2 DEF ItemRecord, Skus

LEMMA LookupFinds ==
  ASSUME Typed, NEW c \in Commands, Lookup(c)
  PROVE  LET r == run[c]  sku == SkuOf[Head(run[c].details).source] IN
         /\ OnlyReads /\ r.pc = "lookup" /\ r.details # <<>>
         /\ \/ Goes(c, NextItem(r))
            \/ \E i \in LoadBySku(sku) : \E s :
                 /\ Goes(c, s) /\ RunOK(s) /\ s.pc = "save" /\ s.node = i
                 /\ s.details = r.details /\ i \in 0..Len(nodes)
<1> DEFINE r == run[c]
           sku == SkuOf[Head(r.details).source]
<1>1. OnlyReads /\ r.pc = "lookup" /\ r.details # <<>> /\ r \in RunRecord /\ r.opt \in Options
  BY DEF Lookup, Typed, RunOK, Active
<1>2. PICK i \in LoadBySku(sku) : \/ Goes(c, NextItem(r))
                                  \/ Goes(c, [r EXCEPT !.pc = "save", !.node = i])
  BY DEF Lookup
<1>3. i \in 0..Len(nodes)
  <2>1. DOMAIN nodes = 1..Len(nodes) /\ Len(nodes) \in Nat
    BY LenProperties DEF Typed
  <2> QED BY <2>1 DEF LoadBySku, WithSku
<1> DEFINE s == [r EXCEPT !.pc = "save", !.node = i]
<1>4. i \in Nat
  <2>1. Len(nodes) \in Nat
    BY LenProperties DEF Typed
  <2> QED BY <1>3, <2>1
<1>5. s \in RunRecord /\ s.pc = "save" /\ s.node = i /\ s.details = r.details /\ s.opt = r.opt
  BY <1>1, <1>4 DEF RunRecord, Steps, Active
<1> HIDE DEF s
<1>6. RunOK(s)
  BY <1>1, <1>5 DEF RunOK
<1>7. CASE Goes(c, NextItem(r))
  BY <1>1, <1>7
<1>8. CASE Goes(c, s)
  BY <1>1, <1>3, <1>5, <1>6, <1>8
<1> QED BY <1>2, <1>7, <1>8 DEF s

\* What a save makes of the nodes: x is the node of the item.
Wrote(r, x) ==
  /\ x \in NodeRecord /\ x.source = Head(r.details).source
  /\ x.sku = SkuOf[Head(r.details).source] /\ x.version = Head(r.details).version
  /\ x.by = "command"
  /\ \/ r.node = 0 /\ nodes' = Append(nodes, x)
     \/ r.node \in 1..Len(nodes) /\ nodes' = [nodes EXCEPT ![r.node] = x]

\* The pictures of a node keep those of the copy, unless the item has its own.
Kept(c, x) ==
  \E m \in Copies(c, run[c].node) :
    m.pictures = "own" /\ Payload[x.source] = "absent" => x.pictures = "own"

LEMMA GivenPictures ==
  ASSUME NEW m \in CopyRecord, NEW item, item.source \in Nids, NEW p \in Given(m, item)
  PROVE  /\ p \in Pictures
         /\ m.pictures = "own" /\ Payload[item.source] = "absent" => p = "own"
<1>1. Payload[item.source] \in {"absent", "none", "remote"} /\ m.pictures \in Pictures
  BY ImportAssumption DEF CopyRecord
<1>2. PICK k \in Downloads(item) : p = PicturesAfter(Mapped(m.pictures, item), k)
  BY DEF Given
<1>3. k \in BOOLEAN
  BY DEF Downloads
<1> QED BY <1>1, <1>2, <1>3 DEF PicturesAfter, Mapped, Pictures

LEMMA SaveWrites ==
  ASSUME Typed, NEW c \in Commands, Save(c)
  PROVE  /\ run[c].pc = "save" /\ run[c].details # <<>> /\ Goes(c, NextItem(run[c]))
         /\ UNCHANGED <<catalogue, version, posts>>
         /\ \E x : Wrote(run[c], x) /\ Kept(c, x)
<1> DEFINE r == run[c]
           item == Head(r.details)
<1>1. /\ r.pc = "save" /\ r.details # <<>> /\ Goes(c, NextItem(r))
      /\ UNCHANGED <<catalogue, version, posts>> /\ RunOK(r) /\ r.node \in 0..Len(nodes)
  BY DEF Save, Typed, RunOK
<1>2. /\ item \in ItemRecord /\ item.source \in Nids /\ item.version \in Nat
      /\ SkuOf[item.source] \in Skus
  BY <1>1, HeadOf
<1>3. PICK m \in Copies(c, r.node) : \E p \in Given(m, item) :
        nodes' = IF r.node = 0 THEN Append(nodes, Node(item, p, "command"))
                 ELSE [nodes EXCEPT ![r.node] = Node(item, p, "command")]
  BY DEF Save, item
<1>4. Len(nodes) \in Nat
  BY LenProperties DEF Typed
<1>5. PICK p \in Given(m, item) :
         nodes' = IF r.node = 0 THEN Append(nodes, Node(item, p, "command"))
                  ELSE [nodes EXCEPT ![r.node] = Node(item, p, "command")]
  BY <1>3
<1>6. m \in CopyRecord
  BY <1>3 DEF Copies, Typed, MemoryTyped
<1>7. /\ p \in Pictures
      /\ m.pictures = "own" /\ Payload[item.source] = "absent" => p = "own"
  BY <1>2, <1>5, <1>6, GivenPictures
<1> HIDE DEF item
<1> DEFINE x == Node(item, p, "command")
<1>8. /\ x \in NodeRecord /\ x.source = item.source /\ x.sku = SkuOf[item.source]
      /\ x.version = item.version /\ x.by = "command" /\ x.pictures = p
  BY <1>2, <1>7 DEF Node, NodeRecord
<1>9. nodes' = IF r.node = 0 THEN Append(nodes, x) ELSE [nodes EXCEPT ![r.node] = x]
  BY <1>5
<1> HIDE DEF x
<1>10. Kept(c, x)
  BY <1>3, <1>7, <1>8 DEF Kept
<1>11. r.node = 0 \/ r.node \in 1..Len(nodes)
  BY <1>1, <1>4
<1>12. Wrote(r, x)
  BY <1>8, <1>9, <1>11 DEF Wrote, item
<1> QED BY <1>1, <1>10, <1>12

LEMMA EndsTyped ==
  ASSUME Typed, NEW c \in Commands, Finish(c) \/ Kill(c)
  PROVE  /\ OnlyReads
         /\ \E s : Goes(c, s) /\ RunOK(s) /\ s.pc \notin Active
<1>1. CASE Finish(c)
  <2> DEFINE r == run[c]
             s == [r EXCEPT !.pc = "done", !.offset = 0, !.next = Stop, !.total = None]
  <2>1. r \in RunRecord
    BY DEF Typed
  <2>2. s \in RunRecord /\ s.pc = "done"
    BY <2>1 DEF RunRecord, Steps
  <2>3. Goes(c, s) /\ OnlyReads
    BY <1>1 DEF Finish
  <2> HIDE DEF s
  <2>4. RunOK(s) /\ s.pc \notin Active
    BY <2>2 DEF RunOK, Active, Reading
  <2> QED BY <2>3, <2>4
<1>2. CASE Kill(c)
  <2>1. RunOK(Idle) /\ Idle.pc \notin Active
    BY IdleTyped DEF RunOK, Active, Reading
  <2> QED BY <1>2, <2>1 DEF Kill
<1> QED BY <1>1, <1>2

LEMMA EndpointAppends ==
  ASSUME Typed, NEW n \in Nids, ImportEndpoint(n)
  PROVE  /\ UNCHANGED <<catalogue, version, run>>
         /\ posts' = [posts EXCEPT ![SkuOf[n]] = @ + 1] /\ posts' \in [Skus -> Nat]
         /\ \E x \in NodeRecord : /\ nodes' = Append(nodes, x) /\ x.by = "endpoint"
                                  /\ x.source = n /\ x.sku = SkuOf[n] /\ x.version = version[n]
<1>1. SkuOf[n] \in Skus /\ version[n] \in Nat
  BY DEF Skus, Typed
<1> DEFINE x == Node(Item(n), "none", "endpoint")
<1>2. /\ x \in NodeRecord /\ x.by = "endpoint" /\ x.source = n
      /\ x.sku = SkuOf[n] /\ x.version = version[n]
  BY <1>1 DEF Node, Item, NodeRecord, Pictures
<1>3. /\ nodes' = Append(nodes, x) /\ UNCHANGED <<catalogue, version, run>>
      /\ posts' = [posts EXCEPT ![SkuOf[n]] = @ + 1]
  BY DEF ImportEndpoint
<1>4. posts' \in [Skus -> Nat]
  BY <1>1, <1>3 DEF Typed
<1> HIDE DEF x
<1> QED BY <1>2, <1>3, <1>4

LEMMA Appended ==
  ASSUME Typed, NEW x \in NodeRecord, nodes' = Append(nodes, x)
  PROVE  /\ nodes' \in Seq(NodeRecord) /\ Len(nodes) \in Nat /\ Len(nodes') = Len(nodes) + 1
         /\ \A i \in 1..Len(nodes') :
              nodes'[i] = IF i = Len(nodes) + 1 THEN x ELSE nodes[i]
         /\ \A i \in 1..Len(nodes) : i \in 1..Len(nodes') /\ nodes'[i] = nodes[i]
<1>1. nodes \in Seq(NodeRecord) /\ Len(nodes) \in Nat
  BY LenProperties DEF Typed
<1>2. /\ Append(nodes, x) \in Seq(NodeRecord) /\ Len(Append(nodes, x)) = Len(nodes) + 1
      /\ \A i \in 1..Len(nodes) : Append(nodes, x)[i] = nodes[i]
      /\ Append(nodes, x)[Len(nodes) + 1] = x
  BY <1>1, AppendProperties
<1> QED BY <1>1, <1>2

LEMMA Replaced ==
  ASSUME Typed, NEW x \in NodeRecord, NEW k \in 1..Len(nodes), nodes' = [nodes EXCEPT ![k] = x]
  PROVE  /\ nodes' \in Seq(NodeRecord) /\ Len(nodes) \in Nat /\ Len(nodes') = Len(nodes)
         /\ \A i \in 1..Len(nodes) : nodes'[i] = IF i = k THEN x ELSE nodes[i]
<1>1. nodes \in Seq(NodeRecord) /\ Len(nodes) \in Nat /\ DOMAIN nodes = 1..Len(nodes)
  BY LenProperties DEF Typed
<1>2. /\ [nodes EXCEPT ![k] = x] \in Seq(NodeRecord)
      /\ Len([nodes EXCEPT ![k] = x]) = Len(nodes)
      /\ \A i \in 1..Len(nodes) : [nodes EXCEPT ![k] = x][i] = IF i = k THEN x ELSE nodes[i]
  BY <1>1, ExceptSeq
<1> QED BY <1>1, <1>2

LEMMA NodesTyped ==
  ASSUME Typed, NEW r, NEW x, Wrote(r, x)
  PROVE  /\ nodes' \in Seq(NodeRecord) /\ Len(nodes) \in Nat /\ Len(nodes') \in Nat
         /\ Len(nodes') >= Len(nodes)
<1>1. CASE nodes' = Append(nodes, x)
  BY <1>1, Appended DEF Wrote
<1>2. CASE r.node \in 1..Len(nodes) /\ nodes' = [nodes EXCEPT ![r.node] = x]
  <2>1. nodes' \in Seq(NodeRecord) /\ Len(nodes) \in Nat /\ Len(nodes') = Len(nodes)
    BY <1>2, Replaced DEF Wrote
  <2> QED BY <2>1
<1> QED BY <1>1, <1>2 DEF Wrote

-----------------------------------------------------------------------------
(* The types.                                                              *)

LEMMA GoesKeepsTypes ==
  ASSUME Typed, NEW c \in Commands, NEW s, RunOK(s), Goes(c, s),
         s.pc = "save" => s.node \in 0..Len(nodes),
         UNCHANGED <<catalogue, version, posts>>,
         nodes' \in Seq(NodeRecord), Len(nodes') >= Len(nodes), MemoryTyped'
  PROVE  Typed'
<1>1. /\ run' \in [Commands -> RunRecord] /\ run'[c] = s
      /\ \A d \in Commands : d # c => run'[d] = run[d]
      /\ \A d \in Commands : RunOK(run'[d])
  BY GoesTyped
<1>2. Len(nodes) \in Nat /\ Len(nodes') \in Nat
  BY LenProperties DEF Typed
<1>3. ASSUME NEW d \in Commands, run'[d].pc = "save"
      PROVE  run'[d].node \in 0..Len(nodes')
  <2>1. run'[d].node \in 0..Len(nodes)
    BY <1>1, <1>3 DEF Typed
  <2> QED BY <1>2, <2>1
<1>4. catalogue' \in Seq(Nids) /\ version' \in [Nids -> Nat] /\ posts' \in [Skus -> Nat]
  BY DEF Typed
<1> QED BY <1>1, <1>3, <1>4 DEF Typed

LEMMA MemoryStep ==
  ASSUME Typed, [Next]_vars
  PROVE  MemoryTyped'
<1>1. ASSUME NEW c \in Commands, NEW held \in SUBSET CopyRecord, Remembers(c, held)
      PROVE  MemoryTyped'
  BY <1>1 DEF Remembers, Typed, MemoryTyped
<1>2. \A c \in Commands : memory[c] \subseteq CopyRecord
  BY DEF Typed, MemoryTyped
<1>3. ASSUME memory' = memory PROVE MemoryTyped'
  BY <1>3 DEF Typed, MemoryTyped
<1>4. ASSUME NEW c \in Commands, Lookup(c) PROVE MemoryTyped'
  <2>1. run[c].pc = "lookup" /\ run[c].details # <<>> /\ RunOK(run[c])
    BY <1>4 DEF Lookup, Typed
  <2>2. PICK i \in LoadBySku(SkuOf[Head(run[c].details).source]), held \in {memory[c], {}} :
          Remembers(c, held) \/ Remembers(c, Loaded(held, i))
    BY <1>4 DEF Lookup
  <2>3. held \subseteq CopyRecord
    BY <1>2, <2>2
  <2>4. Loaded(held, i) \subseteq CopyRecord
    <3>1. i = 0 \/ i \in 1..Len(nodes)
      <4>1. DOMAIN nodes = 1..Len(nodes)
        BY LenProperties DEF Typed
      <4> QED BY <4>1 DEF LoadBySku, WithSku
    <3>2. i \in Nat /\ (i # 0 => nodes[i] \in NodeRecord)
      <4>1. nodes \in Seq(NodeRecord) /\ Len(nodes) \in Nat
        BY LenProperties DEF Typed
      <4> QED BY <3>1, <4>1, ElementOfSeq
    <3>3. (IF i = 0 THEN "none" ELSE nodes[i].pictures) \in Pictures
      BY <3>2 DEF NodeRecord, Pictures
    <3>4. [node |-> i, replaced |-> FALSE,
           pictures |-> IF i = 0 THEN "none" ELSE nodes[i].pictures] \in CopyRecord
      BY <3>2, <3>3 DEF CopyRecord
    <3> QED BY <2>3, <3>4 DEF Loaded
  <2> QED BY <1>1, <2>2, <2>3, <2>4
<1>5. ASSUME NEW c \in Commands, Save(c) PROVE MemoryTyped'
  <2>1. memory[c] \ Copies(c, run[c].node) \in SUBSET CopyRecord
    BY <1>2
  <2> QED BY <1>1, <1>5, <2>1 DEF Save
<1>6. ASSUME NEW c \in Commands, SaveFails(c) PROVE MemoryTyped'
  <2> DEFINE r == run[c]
             item == Head(r.details)
             others == memory[c] \ Copies(c, r.node)
             copy(m, p) == [node |-> r.node, pictures |-> p,
                            replaced |-> m.replaced \/ Payload[item.source] # "absent"]
  <2>1. r.pc = "save" /\ r.node \in Nat /\ r.details # <<>> /\ RunOK(r)
    BY <1>6 DEF SaveFails, Typed, RunOK, RunRecord
  <2>2. item.source \in Nids
    BY <2>1, HeadOf
  <2>3. PICK m \in Copies(c, r.node) : \E p \in {m.pictures} \cup Given(m, item) :
          Remembers(c, IF r.node = 0 THEN others ELSE others \cup {copy(m, p)})
    BY <1>6 DEF SaveFails
  <2>4. PICK p \in {m.pictures} \cup Given(m, item) :
          Remembers(c, IF r.node = 0 THEN others ELSE others \cup {copy(m, p)})
    BY <2>3
  <2>5. m \in CopyRecord /\ others \subseteq CopyRecord
    BY <1>2, <2>3 DEF Copies
  <2>6. p \in Pictures /\ m.replaced \in BOOLEAN
    BY <2>2, <2>4, <2>5, GivenPictures DEF CopyRecord
  <2>7. copy(m, p) \in CopyRecord
    BY <2>1, <2>6 DEF CopyRecord
  <2> HIDE DEF copy, others
  <2>8. (IF r.node = 0 THEN others ELSE others \cup {copy(m, p)}) \in SUBSET CopyRecord
    BY <2>5, <2>7
  <2> QED BY <1>1, <2>4, <2>8
<1>7. ASSUME NEW c \in Commands, Finish(c) \/ Kill(c) PROVE MemoryTyped'
  BY <1>1, <1>7 DEF Finish, Kill
<1>8. ASSUME NEW c \in Commands, Start(c) \/ StartFromFile(c) \/ ReadPage(c)
                                 \/ ReadDetail(c) \/ AttemptFails(c)
      PROVE  MemoryTyped'
  BY <1>3, <1>8 DEF Start, StartFromFile, ReadPage, ReadDetail, AttemptFails
<1>9. ASSUME NEW n \in Pushed, ImportEndpoint(n) PROVE MemoryTyped'
  BY <1>3, <1>9 DEF ImportEndpoint
<1>10. CASE RemoteChange
  BY <1>3, <1>10 DEF RemoteChange
<1>11. CASE vars' = vars
  BY <1>3, <1>11 DEF vars
<1> QED BY <1>4, <1>5, <1>6, <1>7, <1>8, <1>9, <1>10, <1>11 DEF Next, Step

LEMMA TypedStep ==
  ASSUME Typed, [Next]_vars
  PROVE  Typed'
<1>0. MemoryTyped'
  BY MemoryStep
<1>1. nodes \in Seq(NodeRecord) /\ Len(nodes) \in Nat /\ Len(nodes) >= Len(nodes)
  <2>1. nodes \in Seq(NodeRecord) /\ Len(nodes) \in Nat
    BY LenProperties DEF Typed
  <2> QED BY <2>1
<1>2. CASE vars' = vars
  BY <1>0, <1>2 DEF vars, Typed
<1>3. CASE RemoteChange
  <2>1. /\ nodes' = nodes /\ posts' = posts
        /\ catalogue' \in Seq(Nids) /\ version' \in [Nids -> Nat]
        /\ run' \in [Commands -> RunRecord]
        /\ \A c \in Commands : SameRun(run[c], run'[c])
    BY <1>3, RemoteChanges
  <2>2. \A c \in Commands : RunOK(run'[c]) /\ run'[c].pc = run[c].pc /\ run'[c].node = run[c].node
    BY <2>1 DEF SameRun
  <2> QED BY <1>0, <2>1, <2>2 DEF Typed
<1>4. ASSUME NEW n \in Pushed, ImportEndpoint(n)
      PROVE  Typed'
  <2>1. n \in Nids
    BY ImportAssumption
  <2>2. /\ UNCHANGED <<catalogue, version, run>> /\ posts' \in [Skus -> Nat]
        /\ \E x \in NodeRecord : nodes' = Append(nodes, x)
    BY <1>4, <2>1, EndpointAppends
  <2>3. nodes' \in Seq(NodeRecord) /\ Len(nodes') = Len(nodes) + 1
    BY <2>2, Appended
  <2>4. ASSUME NEW d \in Commands, run[d].pc = "save"
        PROVE  run[d].node \in 0..Len(nodes')
    <3>1. run[d].node \in 0..Len(nodes)
      BY <2>4 DEF Typed
    <3> QED BY <1>1, <2>3, <3>1
  <2> QED BY <1>0, <2>2, <2>3, <2>4 DEF Typed
<1>5. ASSUME NEW c \in Commands, Start(c) \/ StartFromFile(c)
      PROVE  Typed'
  <2>1. UNCHANGED <<catalogue, version, nodes, posts>>
    BY <1>5, StartReads
  <2>2. PICK s : Goes(c, s) /\ RunOK(s) /\ s.pc \in {"list", "lookup"}
    BY <1>5, StartReads
  <2> QED BY <1>0, <1>1, <2>1, <2>2, GoesKeepsTypes
<1>6. ASSUME NEW c \in Commands, ReadPage(c) \/ ReadDetail(c) \/ AttemptFails(c)
      PROVE  Typed'
  <2>1. ReadStep(c, run[c])
    BY <1>6, ReadPageReads, ReadDetailReads, AttemptFailsReads
  <2>2. PICK s : Goes(c, s) /\ ReadOn(run[c], s) /\ OnlyReads
    BY <2>1 DEF ReadStep
  <2>3. RunOK(s) /\ s.pc # "save" /\ UNCHANGED <<catalogue, version, nodes, posts>>
    BY <2>2 DEF ReadOn, Reading, OnlyReads
  <2> QED BY <1>0, <1>1, <2>2, <2>3, GoesKeepsTypes
<1>7. ASSUME NEW c \in Commands, Lookup(c)
      PROVE  Typed'
  <2>1. /\ OnlyReads /\ run[c].pc = "lookup" /\ run[c].details # <<>>
        /\ \/ Goes(c, NextItem(run[c]))
           \/ \E i, s : /\ Goes(c, s) /\ RunOK(s) /\ s.pc = "save" /\ s.node = i
                        /\ i \in 0..Len(nodes)
    BY <1>7, LookupFinds
  <2>2. UNCHANGED <<catalogue, version, nodes, posts>>
    BY <2>1 DEF OnlyReads
  <2>3. RunOK(NextItem(run[c])) /\ NextItem(run[c]).pc = "lookup"
    BY <2>1, NextItemTyped DEF Typed, Active
  <2> QED BY <1>0, <1>1, <2>1, <2>2, <2>3, GoesKeepsTypes
<1>8. ASSUME NEW c \in Commands, Save(c)
      PROVE  Typed'
  <2>1. /\ run[c].pc = "save" /\ run[c].details # <<>> /\ Goes(c, NextItem(run[c]))
        /\ UNCHANGED <<catalogue, version, posts>> /\ \E x : Wrote(run[c], x)
    BY <1>8, SaveWrites
  <2>2. nodes' \in Seq(NodeRecord) /\ Len(nodes') >= Len(nodes)
    BY <2>1, NodesTyped
  <2>3. RunOK(NextItem(run[c])) /\ NextItem(run[c]).pc = "lookup"
    BY <2>1, NextItemTyped DEF Typed, Active
  <2> QED BY <1>0, <2>1, <2>2, <2>3, GoesKeepsTypes
<1>9. ASSUME NEW c \in Commands, SaveFails(c)
      PROVE  Typed'
  <2> DEFINE s == [NextItem(run[c]) EXCEPT !.disturbed = TRUE]
  <2>1. run[c].pc = "save" /\ Goes(c, s) /\ OnlyReads
    BY <1>9 DEF SaveFails
  <2>2. RunOK(run[c]) /\ run[c].details # <<>> /\ run[c].pc \in Active
    BY <2>1 DEF Typed, RunOK, Active
  <2>3. RunOK(s) /\ s.pc = "lookup"
    BY <2>2, NextItemTyped
  <2>4. UNCHANGED <<catalogue, version, nodes, posts>>
    BY <2>1 DEF OnlyReads
  <2> HIDE DEF s
  <2> QED BY <1>0, <1>1, <2>1, <2>3, <2>4, GoesKeepsTypes
<1>10. ASSUME NEW c \in Commands, Finish(c) \/ Kill(c)
       PROVE  Typed'
  <2>1. OnlyReads /\ \E s : Goes(c, s) /\ RunOK(s) /\ s.pc \notin Active
    BY <1>10, EndsTyped
  <2>2. UNCHANGED <<catalogue, version, nodes, posts>> /\ "save" \in Active
    BY <2>1 DEF OnlyReads, Active
  <2> QED BY <1>0, <1>1, <2>1, <2>2, GoesKeepsTypes
<1> QED BY <1>2, <1>3, <1>4, <1>5, <1>6, <1>7, <1>8, <1>9, <1>10 DEF Next, Step

LEMMA TypedInit == Init => Typed
<1> SUFFICES ASSUME Init PROVE Typed
  OBVIOUS
<1>1. catalogue \in Seq(Nids) /\ version \in [Nids -> Nat] /\ nodes \in Seq(NodeRecord)
      /\ posts \in [Skus -> Nat] /\ run = [c \in Commands |-> Idle]
  BY ImportAssumption, EmptySeq DEF Init, Skus
<1>2. Idle \in RunRecord /\ RunOK(Idle) /\ Idle.pc # "save"
  BY IdleTyped DEF RunOK, Active, Reading
<1>3. MemoryTyped
  BY DEF Init, MemoryTyped
<1> HIDE DEF Idle
<1> QED BY <1>1, <1>2, <1>3 DEF Typed

(* The catalogue, the nodes and every command keep their types, and a      *)
(* command under way always has what its next step takes: a detail to      *)
(* fetch, or an item to save and a node there is (importProducts).         *)
THEOREM ImportTypeCorrect == Spec => []Typed
<1>1. Typed /\ [Next]_vars => Typed'
  BY TypedStep
<1> QED BY TypedInit, <1>1, PTL DEF Spec

-----------------------------------------------------------------------------
(* What writes the nodes.                                                  *)

LEMMA NodesOnly ==
  ASSUME Typed, [Next]_vars
  PROVE  \/ nodes' = nodes
         \/ \E x \in NodeRecord : nodes' = Append(nodes, x)
         \/ \E c \in Commands : \E x : Save(c) /\ Wrote(run[c], x) /\ Kept(c, x)
<1>1. CASE vars' = vars
  BY <1>1 DEF vars
<1>2. CASE RemoteChange
  BY <1>2 DEF RemoteChange
<1>3. ASSUME NEW n \in Pushed, ImportEndpoint(n)
      PROVE  \E x \in NodeRecord : nodes' = Append(nodes, x)
  BY <1>3, EndpointAppends, ImportAssumption
<1>4. ASSUME NEW c \in Commands, Start(c) \/ StartFromFile(c) \/ ReadPage(c) \/ ReadDetail(c)
                                 \/ AttemptFails(c) \/ Lookup(c) \/ SaveFails(c)
                                 \/ Finish(c) \/ Kill(c)
      PROVE  nodes' = nodes
  BY <1>4 DEF Start, StartFromFile, ReadPage, ReadDetail, AttemptFails, Lookup, SaveFails,
              Finish, Kill, OnlyReads
<1>5. ASSUME NEW c \in Commands, Save(c)
      PROVE  \E d \in Commands : \E x : Save(d) /\ Wrote(run[d], x) /\ Kept(d, x)
  BY <1>5, SaveWrites
<1> QED BY <1>1, <1>2, <1>3, <1>4, <1>5 DEF Next, Step

-----------------------------------------------------------------------------
(* One node for a SKU.                                                     *)

LEMMA SkuCounted ==
  ASSUME Typed, NEW s
  PROVE  /\ IsFiniteSet(WithSku(s)) /\ Cardinality(WithSku(s)) \in Nat
         /\ WithSku(s) \subseteq 1..Len(nodes)
         /\ WithSku(s) = {} => Cardinality(WithSku(s)) = 0
<1>1. Len(nodes) \in Nat /\ WithSku(s) \subseteq 1..Len(nodes)
  BY LenProperties DEF Typed, WithSku
<1>2. IsFiniteSet(WithSku(s))
  <2>1. IsFiniteSet(1..Len(nodes))
    BY <1>1, FS_Interval
  <2> QED BY <1>1, <2>1, FS_Subset
<1> QED BY <1>1, <1>2, FS_CardinalityType, FS_EmptySet

LEMMA SkuAppended ==
  ASSUME Typed, NEW x \in NodeRecord, nodes' = Append(nodes, x), NEW s
  PROVE  Cardinality(WithSku(s)') = Cardinality(WithSku(s)) + IF x.sku = s THEN 1 ELSE 0
<1>1. /\ nodes' \in Seq(NodeRecord) /\ Len(nodes) \in Nat /\ Len(nodes') = Len(nodes) + 1
      /\ \A i \in 1..Len(nodes') : nodes'[i] = IF i = Len(nodes) + 1 THEN x ELSE nodes[i]
  BY Appended
<1>2. DOMAIN nodes = 1..Len(nodes) /\ DOMAIN nodes' = 1..Len(nodes) + 1
  BY <1>1, LenProperties DEF Typed
<1>3. /\ IsFiniteSet(WithSku(s)) /\ Cardinality(WithSku(s)) \in Nat
      /\ WithSku(s) \subseteq 1..Len(nodes)
  BY SkuCounted
<1>4. CASE x.sku = s
  <2>1. WithSku(s)' = WithSku(s) \cup {Len(nodes) + 1}
    BY <1>1, <1>2, <1>4 DEF WithSku
  <2>2. Len(nodes) + 1 \notin WithSku(s)
    BY <1>1, <1>3
  <2> QED BY <1>3, <1>4, <2>1, <2>2, FS_AddElement
<1>5. CASE x.sku # s
  <2>1. WithSku(s)' = WithSku(s)
    BY <1>1, <1>2, <1>5 DEF WithSku
  <2> QED BY <1>3, <1>5, <2>1
<1> QED BY <1>4, <1>5

LEMMA SkuReplaced ==
  ASSUME Typed, NEW x \in NodeRecord, NEW k \in 1..Len(nodes), nodes' = [nodes EXCEPT ![k] = x],
         nodes[k].sku = x.sku, NEW s
  PROVE  WithSku(s)' = WithSku(s)
<1>1. /\ nodes' \in Seq(NodeRecord) /\ Len(nodes) \in Nat /\ Len(nodes') = Len(nodes)
      /\ \A i \in 1..Len(nodes) : nodes'[i] = IF i = k THEN x ELSE nodes[i]
  BY Replaced
<1>2. DOMAIN nodes = 1..Len(nodes) /\ DOMAIN nodes' = 1..Len(nodes)
  BY <1>1, LenProperties DEF Typed
<1>3. \A i \in 1..Len(nodes) : nodes'[i].sku = nodes[i].sku
  BY <1>1
<1> QED BY <1>2, <1>3 DEF WithSku

Alone ==
  \A c, d \in Commands : run[c].pc \in Active /\ run[d].pc \in Active => c = d

NodesCounted == \A s \in Skus \ {NoSku} : Cardinality(WithSku(s)) <= 1 + posts[s]

\* The node found by the lookup of the item is still the right one.
RightNode(r) ==
  LET sku == SkuOf[Head(r.details).source] IN
  IF r.node = 0 THEN sku = NoSku \/ Cardinality(WithSku(sku)) <= posts[sku]
                ELSE nodes[r.node].sku = sku

SavesRight == \A c \in Commands : run[c].pc = "save" => RightNode(run[c])

Serial == ~Overlapping => Alone /\ NodesCounted /\ SavesRight

LEMMA GoesAlone ==
  ASSUME Typed, NEW c \in Commands, NEW s, RunOK(s), Goes(c, s), Alone,
         \/ run[c].pc \in Active
         \/ s.pc \notin Active
         \/ \A d \in Commands : run[d].pc \notin Active
  PROVE  Alone'
<1>1. run'[c] = s /\ \A d \in Commands : d # c => run'[d] = run[d]
  BY GoesTyped
<1> QED BY <1>1 DEF Alone

LEMMA GoesSerial ==
  ASSUME Typed, Alone, NodesCounted, SavesRight, NEW c \in Commands, NEW s, RunOK(s), Goes(c, s),
         UNCHANGED <<nodes, posts>>, s.pc # "save" \/ RightNode(s)
  PROVE  NodesCounted' /\ SavesRight'
<1>1. run'[c] = s /\ \A d \in Commands : d # c => run'[d] = run[d]
  BY GoesTyped
<1>2. NodesCounted'
  BY DEF NodesCounted, WithSku
<1>3. ASSUME NEW r, RightNode(r)
      PROVE  RightNode(r)'
  BY <1>3 DEF RightNode, WithSku
<1>4. ASSUME NEW d \in Commands, run'[d].pc = "save"
      PROVE  RightNode(run[d]') /\ (d = c => RightNode(s)) /\ (d # c => RightNode(run[d]))
  BY <1>1, <1>4 DEF SavesRight
<1> QED BY <1>1, <1>2, <1>3, <1>4 DEF SavesRight

LEMMA AppendCounted ==
  ASSUME Typed, NEW x \in NodeRecord, nodes' = Append(nodes, x), NodesCounted,
         \/ posts' = [posts EXCEPT ![x.sku] = @ + 1]
         \/ posts' = posts /\ (x.sku = NoSku \/ Cardinality(WithSku(x.sku)) <= posts[x.sku])
  PROVE  NodesCounted'
<1>1. ASSUME NEW s \in Skus \ {NoSku}
      PROVE  Cardinality(WithSku(s)') <= 1 + posts'[s]
  <2>1. /\ Cardinality(WithSku(s)) \in Nat /\ posts[s] \in Nat /\ DOMAIN posts = Skus
        /\ Cardinality(WithSku(s)) <= 1 + posts[s]
        /\ Cardinality(WithSku(s)') = Cardinality(WithSku(s)) + IF x.sku = s THEN 1 ELSE 0
    BY SkuCounted, SkuAppended DEF Typed, NodesCounted
  <2>2. CASE posts' = [posts EXCEPT ![x.sku] = @ + 1]
    <3>1. posts'[s] = posts[s] + IF x.sku = s THEN 1 ELSE 0
      BY <2>1, <2>2
    <3> QED BY <2>1, <3>1
  <2>3. CASE posts' = posts /\ (x.sku = NoSku \/ Cardinality(WithSku(x.sku)) <= posts[x.sku])
    BY <2>1, <2>3
  <2> QED BY <2>2, <2>3
<1> QED BY <1>1 DEF NodesCounted

LEMMA SaveSerial ==
  ASSUME Typed, Alone, NodesCounted, SavesRight, NEW c \in Commands, Save(c)
  PROVE  Alone' /\ NodesCounted' /\ SavesRight'
<1>1. /\ run[c].pc = "save" /\ run[c].details # <<>> /\ Goes(c, NextItem(run[c]))
      /\ posts' = posts
  BY SaveWrites
<1>2. PICK x : Wrote(run[c], x)
  BY SaveWrites
<1>3. RunOK(NextItem(run[c])) /\ NextItem(run[c]).pc = "lookup" /\ run[c].pc \in Active
  BY <1>1, NextItemTyped DEF Typed, Active
<1>4. Alone'
  BY <1>1, <1>3, GoesAlone
<1>5. ASSUME NEW d \in Commands
      PROVE  run'[d].pc # "save"
  <2>1. run'[c] = NextItem(run[c]) /\ (d # c => run'[d] = run[d])
    BY <1>1, <1>3, GoesTyped
  <2> QED BY <1>3, <2>1 DEF Alone, Active
<1>6. x \in NodeRecord /\ RightNode(run[c]) /\ x.sku = SkuOf[Head(run[c].details).source]
  BY <1>1, <1>2 DEF Wrote, SavesRight
<1>7. CASE run[c].node = 0 /\ nodes' = Append(nodes, x)
  <2>1. x.sku = NoSku \/ Cardinality(WithSku(x.sku)) <= posts[x.sku]
    BY <1>6, <1>7 DEF RightNode
  <2>2. NodesCounted'
    BY <1>1, <1>6, <1>7, <2>1, AppendCounted
  <2> QED BY <1>4, <1>5, <2>2 DEF SavesRight
<1>8. CASE run[c].node \in 1..Len(nodes) /\ nodes' = [nodes EXCEPT ![run[c].node] = x]
  <2>1. Len(nodes) \in Nat
    BY LenProperties DEF Typed
  <2>2. nodes[run[c].node].sku = x.sku
    BY <1>6, <1>8, <2>1 DEF RightNode
  <2>3. \A s : WithSku(s)' = WithSku(s)
    BY <1>6, <1>8, <2>2, SkuReplaced
  <2>4. NodesCounted'
    BY <1>1, <2>3 DEF NodesCounted
  <2> QED BY <1>4, <1>5, <2>4 DEF SavesRight
<1> QED BY <1>2, <1>7, <1>8 DEF Wrote

LEMMA EndpointSerial ==
  ASSUME Typed, Alone, NodesCounted, SavesRight, NEW n \in Nids, ImportEndpoint(n)
  PROVE  Alone' /\ NodesCounted' /\ SavesRight'
<1>1. /\ run' = run /\ posts' = [posts EXCEPT ![SkuOf[n]] = @ + 1] /\ posts \in [Skus -> Nat]
      /\ SkuOf[n] \in Skus
  BY EndpointAppends DEF Typed, Skus
<1>2. PICK x \in NodeRecord : nodes' = Append(nodes, x) /\ x.sku = SkuOf[n]
  BY EndpointAppends
<1>3. NodesCounted'
  BY <1>1, <1>2, AppendCounted
<1>4. ASSUME NEW d \in Commands, run[d].pc = "save"
      PROVE  RightNode(run[d])'
  <2>1. RunOK(run[d]) /\ run[d].details # <<>> /\ run[d].node \in 0..Len(nodes) /\ RightNode(run[d])
    BY <1>4 DEF Typed, RunOK, SavesRight
  <2>2. PICK sku \in Skus : sku = SkuOf[Head(run[d].details).source]
    BY <2>1, HeadOf
  <2>3. CASE run[d].node = 0
    <3>1. /\ Cardinality(WithSku(sku)) \in Nat
          /\ Cardinality(WithSku(sku)') = Cardinality(WithSku(sku)) + IF x.sku = sku THEN 1 ELSE 0
      BY <1>2, SkuCounted, SkuAppended
    <3>2. posts'[sku] = posts[sku] + IF x.sku = sku THEN 1 ELSE 0
      BY <1>1, <1>2, <2>2
    <3>3. posts[sku] \in Nat /\ (sku = NoSku \/ Cardinality(WithSku(sku)) <= posts[sku])
      BY <1>1, <2>1, <2>2, <2>3 DEF RightNode
    <3>4. sku = NoSku \/ Cardinality(WithSku(sku)') <= posts'[sku]
      BY <3>1, <3>2, <3>3
    <3> QED BY <1>1, <2>2, <2>3, <3>4 DEF RightNode
  <2>4. CASE run[d].node # 0
    <3>1. run[d].node \in 1..Len(nodes) /\ nodes[run[d].node].sku = sku
      BY <2>1, <2>2, <2>4, LenProperties DEF RightNode, Typed
    <3>2. nodes'[run[d].node] = nodes[run[d].node]
      BY <1>2, <3>1, Appended
    <3> QED BY <1>1, <2>2, <2>4, <3>1, <3>2 DEF RightNode
  <2> QED BY <2>3, <2>4
<1>5. Alone' /\ SavesRight'
  BY <1>1, <1>4 DEF Alone, SavesRight
<1> QED BY <1>3, <1>5

LEMMA SerialStep ==
  ASSUME Typed, Alone, NodesCounted, SavesRight, ~Overlapping, [Next]_vars
  PROVE  Alone' /\ NodesCounted' /\ SavesRight'
<1>1. CASE vars' = vars
  BY <1>1 DEF vars, Alone, NodesCounted, SavesRight, RightNode, WithSku
<1>2. CASE RemoteChange
  <2>1. /\ nodes' = nodes /\ posts' = posts
        /\ \A c \in Commands : SameRun(run[c], run'[c])
    BY <1>2, RemoteChanges
  <2>2. \A c \in Commands : /\ run'[c].pc = run[c].pc /\ run'[c].node = run[c].node
                            /\ run'[c].details = run[c].details
    BY <2>1 DEF SameRun
  <2>3. Alone' /\ NodesCounted'
    BY <2>1, <2>2 DEF Alone, NodesCounted, WithSku
  <2>4. ASSUME NEW c \in Commands, run'[c].pc = "save"
        PROVE  RightNode(run[c])'
    <3>1. /\ RightNode(run[c]) /\ run'[c].node = run[c].node
          /\ run'[c].details = run[c].details
      BY <2>2, <2>4 DEF SavesRight
    <3> QED BY <2>1, <3>1 DEF RightNode, WithSku
  <2> QED BY <2>3, <2>4 DEF SavesRight
<1>3. ASSUME NEW n \in Pushed, ImportEndpoint(n)
      PROVE  Alone' /\ NodesCounted' /\ SavesRight'
  BY <1>3, EndpointSerial, ImportAssumption
<1>4. ASSUME NEW c \in Commands, NEW s, Goes(c, s), RunOK(s), UNCHANGED <<nodes, posts>>,
             s.pc # "save" \/ RightNode(s),
             \/ run[c].pc \in Active
             \/ s.pc \notin Active
             \/ \A d \in Commands : run[d].pc \notin Active
      PROVE  Alone' /\ NodesCounted' /\ SavesRight'
  BY <1>4, GoesAlone, GoesSerial
<1>5. ASSUME NEW c \in Commands, Start(c) \/ StartFromFile(c)
      PROVE  Alone' /\ NodesCounted' /\ SavesRight'
  <2>1. CanStart(c) /\ UNCHANGED <<catalogue, version, nodes, posts>>
    BY <1>5, StartReads
  <2>2. PICK s : Goes(c, s) /\ RunOK(s) /\ s.pc \in {"list", "lookup"}
    BY <1>5, StartReads
  <2>3. \A d \in Commands : run[d].pc \notin Active
    BY <2>1 DEF CanStart
  <2> QED BY <1>4, <2>1, <2>2, <2>3
<1>6. ASSUME NEW c \in Commands, ReadPage(c) \/ ReadDetail(c) \/ AttemptFails(c)
      PROVE  Alone' /\ NodesCounted' /\ SavesRight'
  <2>1. ReadStep(c, run[c]) /\ run[c].pc \in Active
    BY <1>6, ReadPageReads, ReadDetailReads, AttemptFailsReads DEF Active, Reading
  <2>2. PICK s : Goes(c, s) /\ ReadOn(run[c], s) /\ OnlyReads
    BY <2>1 DEF ReadStep
  <2>3. RunOK(s) /\ s.pc # "save" /\ UNCHANGED <<nodes, posts>>
    BY <2>2 DEF ReadOn, Reading, OnlyReads
  <2> QED BY <1>4, <2>1, <2>2, <2>3
<1>7. ASSUME NEW c \in Commands, Lookup(c)
      PROVE  Alone' /\ NodesCounted' /\ SavesRight'
  <2>1. /\ OnlyReads /\ run[c].pc = "lookup" /\ run[c].details # <<>>
        /\ \/ Goes(c, NextItem(run[c]))
           \/ \E i \in LoadBySku(SkuOf[Head(run[c].details).source]) : \E s :
                /\ Goes(c, s) /\ RunOK(s) /\ s.pc = "save" /\ s.node = i
                /\ s.details = run[c].details /\ i \in 0..Len(nodes)
    BY <1>7, LookupFinds
  <2>2. UNCHANGED <<nodes, posts>> /\ run[c].pc \in Active /\ RunOK(run[c])
    BY <2>1 DEF OnlyReads, Active, Typed
  <2>3. RunOK(NextItem(run[c])) /\ NextItem(run[c]).pc = "lookup"
    BY <2>1, <2>2, NextItemTyped
  <2>4. CASE Goes(c, NextItem(run[c]))
    BY <1>4, <2>2, <2>3, <2>4
  <2>5. ASSUME NEW i \in LoadBySku(SkuOf[Head(run[c].details).source]), NEW s,
               Goes(c, s), RunOK(s), s.node = i, s.details = run[c].details
        PROVE  Alone' /\ NodesCounted' /\ SavesRight'
    <3>1. PICK sku \in Skus : sku = SkuOf[Head(run[c].details).source]
      BY <2>1, <2>2, HeadOf
    <3>2. /\ Cardinality(WithSku(sku)) \in Nat /\ posts[sku] \in Nat
          /\ WithSku(sku) \subseteq 1..Len(nodes)
          /\ WithSku(sku) = {} => Cardinality(WithSku(sku)) = 0
      BY SkuCounted DEF Typed
    <3>3. RightNode(s)
      <4>1. CASE i = 0
        <5>1. sku = NoSku \/ WithSku(sku) = {}
          BY <2>5, <3>1, <3>2, <4>1 DEF LoadBySku
        <5>2. sku = NoSku \/ Cardinality(WithSku(sku)) <= posts[sku]
          BY <3>2, <5>1
        <5> QED BY <2>5, <3>1, <4>1, <5>2 DEF RightNode
      <4>2. CASE i # 0
        <5>1. i \in WithSku(sku)
          BY <2>5, <3>1, <4>2 DEF LoadBySku
        <5>2. nodes[i].sku = sku
          BY <5>1 DEF WithSku
        <5> QED BY <2>5, <3>1, <4>2, <5>2 DEF RightNode
      <4> QED BY <4>1, <4>2
    <3> QED BY <1>4, <2>2, <2>5, <3>3
  <2> QED BY <2>1, <2>4, <2>5
<1>8. ASSUME NEW c \in Commands, Save(c)
      PROVE  Alone' /\ NodesCounted' /\ SavesRight'
  BY <1>8, SaveSerial
<1>9. ASSUME NEW c \in Commands, SaveFails(c)
      PROVE  Alone' /\ NodesCounted' /\ SavesRight'
  <2> DEFINE s == [NextItem(run[c]) EXCEPT !.disturbed = TRUE]
  <2>1. run[c].pc = "save" /\ Goes(c, s) /\ OnlyReads
    BY <1>9 DEF SaveFails
  <2>2. RunOK(run[c]) /\ run[c].details # <<>> /\ run[c].pc \in Active
    BY <2>1 DEF Typed, RunOK, Active
  <2>3. RunOK(s) /\ s.pc = "lookup"
    BY <2>2, NextItemTyped
  <2>4. UNCHANGED <<nodes, posts>>
    BY <2>1 DEF OnlyReads
  <2> HIDE DEF s
  <2> QED BY <1>4, <2>1, <2>2, <2>3, <2>4
<1>10. ASSUME NEW c \in Commands, Finish(c) \/ Kill(c)
       PROVE  Alone' /\ NodesCounted' /\ SavesRight'
  <2>1. OnlyReads /\ \E s : Goes(c, s) /\ RunOK(s) /\ s.pc \notin Active
    BY <1>10, EndsTyped
  <2>2. UNCHANGED <<nodes, posts>> /\ "save" \in Active
    BY <2>1 DEF OnlyReads, Active
  <2> QED BY <1>4, <2>1, <2>2
<1> QED BY <1>1, <1>2, <1>3, <1>5, <1>6, <1>7, <1>8, <1>9, <1>10 DEF Next, Step

LEMMA SerialInit == Init => Serial
<1> SUFFICES ASSUME Init PROVE Serial
  OBVIOUS
<1>1. \A c \in Commands : run[c] = Idle
  BY DEF Init
<1>2. Idle.pc \notin Active /\ Idle.pc # "save"
  BY IdleTyped DEF Active, Reading
<1>3. Alone /\ SavesRight
  BY <1>1, <1>2 DEF Alone, SavesRight
<1>4. ASSUME NEW s \in Skus
      PROVE  Cardinality(WithSku(s)) <= 1 + posts[s]
  <2>1. nodes = <<>> /\ posts[s] = 0
    BY <1>4 DEF Init, Skus
  <2>2. WithSku(s) = {}
    BY <2>1 DEF WithSku
  <2> QED BY <2>1, <2>2, FS_EmptySet
<1> QED BY <1>3, <1>4 DEF Serial, NodesCounted

LEMMA AlwaysSerial == Spec => []Serial
<1>1. Typed /\ Serial /\ [Next]_vars => Serial'
  BY SerialStep DEF Serial
<1> QED BY SerialInit, ImportTypeCorrect, <1>1, PTL DEF Spec

(* As long as no two commands run at once, there is at most one node for a *)
(* SKU beside those the endpoint added, for any catalogue, however often   *)
(* the command is killed, started again, or fails halfway (loadBySku).     *)
THEOREM OneNodeForASku == Spec => []OneNodePerSku
<1>1. Typed /\ Serial => OneNodePerSku
  BY DEF Typed, Serial, NodesCounted, OneNodePerSku
<1> QED BY ImportTypeCorrect, AlwaysSerial, <1>1, PTL

-----------------------------------------------------------------------------
(* The pictures.                                                           *)

\* A copy has the pictures of its node, unless image fields were put into it.
Truthful(m, list) ==
  /\ m.node \in 0..Len(list)
  /\ ~m.replaced /\ m.node # 0 /\ list[m.node].pictures = "own" => m.pictures = "own"

Writing(c) == run[c].pc \in {"lookup", "save"}

MemoryHolds ==
  \A c \in Commands :
    /\ memory[c] # {} => Writing(c)
    /\ \A m \in memory[c] : Truthful(m, nodes)

Remembered == ~Overlapping => MemoryHolds

LEMMA HeldOn ==
  ASSUME Typed, MemoryHolds, NEW c \in Commands, NEW held, Remembers(c, held), nodes' = nodes,
         \A d \in Commands \ {c} : run'[d] = run[d],
         held # {} => Writing(c)', \A m \in held : Truthful(m, nodes)
  PROVE  MemoryHolds'
<1>1. memory'[c] = held /\ \A d \in Commands \ {c} : memory'[d] = memory[d]
  BY DEF Remembers, Typed, MemoryTyped
<1>2. ASSUME NEW d \in Commands
      PROVE  (memory'[d] # {} => Writing(d)') /\ \A m \in memory'[d] : Truthful(m, nodes')
  <2>1. CASE d = c
    BY <1>1, <2>1
  <2>2. CASE d # c
    BY <1>1, <2>2 DEF MemoryHolds, Writing
  <2> QED BY <2>1, <2>2
<1> QED BY <1>2 DEF MemoryHolds

LEMMA HeldAsWas ==
  ASSUME MemoryHolds, memory' = memory, nodes' = nodes,
         \A c \in Commands : Writing(c) => memory[c] = {} \/ Writing(c)'
  PROVE  MemoryHolds'
BY DEF MemoryHolds, Writing

LEMMA LookupHolds ==
  ASSUME Typed, MemoryHolds, NEW c \in Commands, Lookup(c)
  PROVE  MemoryHolds'
<1>1. run[c].pc = "lookup" /\ run[c].details # <<>> /\ nodes' = nodes
  BY DEF Lookup, OnlyReads
<1>2. PICK i \in LoadBySku(SkuOf[Head(run[c].details).source]), held \in {memory[c], {}} :
        Remembers(c, held) \/ Remembers(c, Loaded(held, i))
  BY DEF Lookup
<1>3. Writing(c)' /\ \A d \in Commands \ {c} : run'[d] = run[d]
  <2>1. \E s : Goes(c, s) /\ RunOK(s) /\ s.pc \in {"lookup", "save"}
    <3>1. \/ Goes(c, NextItem(run[c]))
          \/ \E j, s : Goes(c, s) /\ RunOK(s) /\ s.pc = "save" /\ s.node = j
      BY LookupFinds
    <3>2. RunOK(NextItem(run[c])) /\ NextItem(run[c]).pc = "lookup"
      BY <1>1, NextItemTyped DEF Typed, Active
    <3> QED BY <3>1, <3>2
  <2>2. PICK s : Goes(c, s) /\ RunOK(s) /\ s.pc \in {"lookup", "save"}
    BY <2>1
  <2>3. run'[c] = s /\ \A d \in Commands : d # c => run'[d] = run[d]
    BY <2>2, GoesTyped
  <2> QED BY <2>2, <2>3 DEF Writing
<1>4. \A m \in held : Truthful(m, nodes)
  BY <1>2 DEF MemoryHolds
<1>5. \A m \in Loaded(held, i) : Truthful(m, nodes)
  <2>1. i = 0 \/ i \in 1..Len(nodes)
    BY LenProperties DEF LoadBySku, WithSku, Typed
  <2>2. Len(nodes) \in Nat
    BY LenProperties DEF Typed
  <2> DEFINE new == [node |-> i, replaced |-> FALSE,
                     pictures |-> IF i = 0 THEN "none" ELSE nodes[i].pictures]
  <2>3. new.node = i /\ (i # 0 => new.pictures = nodes[i].pictures)
    OBVIOUS
  <2>4. Truthful(new, nodes)
    BY <2>1, <2>2, <2>3 DEF Truthful
  <2> QED BY <1>4, <2>4 DEF Loaded
<1> QED BY <1>1, <1>2, <1>3, <1>4, <1>5, HeldOn

\* What a step may put into the copy it saves.
LEMMA CopyGiven ==
  ASSUME Typed, NEW c \in Commands, run[c].pc = "save",
         NEW m \in Copies(c, run[c].node), Truthful(m, nodes),
         NEW p \in {m.pictures} \cup Given(m, Head(run[c].details)),
         ~(m.replaced \/ Payload[Head(run[c].details).source] # "absent")
  PROVE  run[c].node # 0 /\ nodes[run[c].node].pictures = "own" => p = "own"
<1>1. m \in CopyRecord /\ m.node = run[c].node
  BY DEF Copies, Typed, MemoryTyped
<1>2. RunOK(run[c]) /\ run[c].details # <<>>
  BY DEF Typed, RunOK
<1>3. Head(run[c].details).source \in Nids
  BY <1>2, HeadOf
<1>4. m.pictures = "own" => p = "own"
  BY <1>1, <1>3, GivenPictures
<1> QED BY <1>1, <1>4 DEF Truthful

LEMMA SaveFailsHolds ==
  ASSUME Typed, MemoryHolds, NEW c \in Commands, SaveFails(c)
  PROVE  MemoryHolds'
<1> DEFINE r == run[c]
           item == Head(r.details)
           others == memory[c] \ Copies(c, r.node)
           copy(m, p) == [node |-> r.node, pictures |-> p,
                          replaced |-> m.replaced \/ Payload[item.source] # "absent"]
           s == [NextItem(r) EXCEPT !.disturbed = TRUE]
<1>1. r.pc = "save" /\ Goes(c, s) /\ nodes' = nodes /\ RunOK(r) /\ r.details # <<>>
      /\ r.node \in 0..Len(nodes)
  BY DEF SaveFails, OnlyReads, Typed, RunOK
<1>2. RunOK(s) /\ s.pc = "lookup"
  BY <1>1, NextItemTyped DEF Active
<1>3. Writing(c)' /\ \A d \in Commands \ {c} : run'[d] = run[d]
  <2>1. run'[c] = s /\ \A d \in Commands : d # c => run'[d] = run[d]
    BY <1>1, <1>2, GoesTyped
  <2> QED BY <1>2, <2>1 DEF Writing
<1>4. PICK m \in Copies(c, r.node) : \E p \in {m.pictures} \cup Given(m, item) :
        Remembers(c, IF r.node = 0 THEN others ELSE others \cup {copy(m, p)})
  BY DEF SaveFails
<1>5. PICK p \in {m.pictures} \cup Given(m, item) :
        Remembers(c, IF r.node = 0 THEN others ELSE others \cup {copy(m, p)})
  BY <1>4
<1>6. \A o \in others : Truthful(o, nodes)
  BY DEF MemoryHolds
<1>7. Truthful(m, nodes)
  BY <1>4 DEF MemoryHolds, Copies
<1>8. Truthful(copy(m, p), nodes)
  <2>1. copy(m, p).node = r.node /\ copy(m, p).pictures = p
        /\ (copy(m, p).replaced <=> m.replaced \/ Payload[item.source] # "absent")
    OBVIOUS
  <2>2. ~(m.replaced \/ Payload[item.source] # "absent")
           => (r.node # 0 /\ nodes[r.node].pictures = "own" => p = "own")
    BY <1>1, <1>4, <1>5, <1>7, CopyGiven
  <2> QED BY <1>1, <2>1, <2>2 DEF Truthful
<1> HIDE DEF copy, others, s
<1>9. \A o \in (IF r.node = 0 THEN others ELSE others \cup {copy(m, p)}) : Truthful(o, nodes)
  BY <1>6, <1>8
<1> QED BY <1>1, <1>3, <1>5, <1>9, HeldOn

LEMMA SaveHolds ==
  ASSUME Typed, Alone, MemoryHolds, NEW c \in Commands, Save(c)
  PROVE  MemoryHolds'
<1> DEFINE others == memory[c] \ Copies(c, run[c].node)
<1>1. /\ run[c].pc = "save" /\ run[c].details # <<>> /\ Goes(c, NextItem(run[c]))
      /\ Remembers(c, others)
  BY SaveWrites DEF Save
<1>2. PICK x : Wrote(run[c], x)
  BY SaveWrites
<1>3. RunOK(NextItem(run[c])) /\ NextItem(run[c]).pc = "lookup" /\ run[c].pc \in Active
  BY <1>1, NextItemTyped DEF Typed, Active
<1>4. run'[c].pc = "lookup"
  BY <1>1, <1>3, GoesTyped
<1>5. memory'[c] = others /\ \A d \in Commands \ {c} : memory'[d] = memory[d]
  BY <1>1 DEF Remembers, Typed, MemoryTyped
<1>6. \A d \in Commands \ {c} : memory[d] = {}
  BY <1>3 DEF MemoryHolds, Alone, Writing, Active
<1>7. ASSUME NEW o \in others
      PROVE  Truthful(o, nodes')
  <2>1. o \in CopyRecord /\ Truthful(o, nodes) /\ o.node # run[c].node
    BY DEF MemoryHolds, Copies, Typed, MemoryTyped
  <2>2. o.node \in Nat /\ Len(nodes) \in Nat
    BY <2>1, LenProperties DEF CopyRecord, Typed
  <2>3. CASE nodes' = Append(nodes, x)
    <3>1. Len(nodes') = Len(nodes) + 1 /\ \A i \in 1..Len(nodes) : nodes'[i] = nodes[i]
      BY <1>2, <2>3, Appended DEF Wrote
    <3> QED BY <2>1, <2>2, <3>1 DEF Truthful
  <2>4. CASE run[c].node \in 1..Len(nodes) /\ nodes' = [nodes EXCEPT ![run[c].node] = x]
    <3>1. /\ Len(nodes') = Len(nodes)
          /\ \A i \in 1..Len(nodes) : nodes'[i] = IF i = run[c].node THEN x ELSE nodes[i]
      BY <1>2, <2>4, Replaced DEF Wrote
    <3> QED BY <2>1, <2>2, <3>1 DEF Truthful
  <2> QED BY <1>2, <2>3, <2>4 DEF Wrote
<1> HIDE DEF others
<1>8. ASSUME NEW d \in Commands
      PROVE  (memory'[d] # {} => Writing(d)') /\ \A m \in memory'[d] : Truthful(m, nodes')
  BY <1>4, <1>5, <1>6, <1>7 DEF Writing
<1> QED BY <1>8 DEF MemoryHolds

LEMMA HeldStep ==
  ASSUME Typed, Alone, MemoryHolds, [Next]_vars
  PROVE  MemoryHolds'
<1>1. CASE vars' = vars
  <2>1. memory' = memory /\ nodes' = nodes /\ run' = run
    BY <1>1 DEF vars
  <2> QED BY <2>1 DEF MemoryHolds, Writing
<1>2. CASE RemoteChange
  <2>1. nodes' = nodes /\ \A c \in Commands : SameRun(run[c], run'[c])
    BY <1>2, RemoteChanges
  <2>2. memory' = memory
    BY <1>2 DEF RemoteChange
  <2>3. \A c \in Commands : run'[c].pc = run[c].pc
    BY <2>1 DEF SameRun
  <2> QED BY <2>1, <2>2, <2>3, HeldAsWas DEF Writing
<1>3. ASSUME NEW n \in Pushed, ImportEndpoint(n)
      PROVE  MemoryHolds'
  <2>1. n \in Nids /\ memory' = memory
    BY <1>3, ImportAssumption DEF ImportEndpoint
  <2>2. run' = run /\ \E x \in NodeRecord : nodes' = Append(nodes, x)
    BY <1>3, <2>1, EndpointAppends
  <2>3. /\ Len(nodes) \in Nat /\ Len(nodes') = Len(nodes) + 1
        /\ \A i \in 1..Len(nodes) : nodes'[i] = nodes[i]
    BY <2>2, Appended
  <2>4. ASSUME NEW m \in CopyRecord, Truthful(m, nodes)
        PROVE  Truthful(m, nodes')
    <3>1. m.node \in Nat
      BY DEF CopyRecord
    <3> QED BY <2>3, <2>4, <3>1 DEF Truthful
  <2>5. \A c \in Commands : memory[c] \subseteq CopyRecord
    BY DEF Typed, MemoryTyped
  <2> QED BY <2>1, <2>2, <2>4, <2>5 DEF MemoryHolds, Writing
<1>4. ASSUME NEW c \in Commands, Start(c) \/ StartFromFile(c)
      PROVE  MemoryHolds'
  <2>1. CanStart(c) /\ nodes' = nodes
    BY <1>4, StartReads
  <2>2. PICK s : Goes(c, s) /\ RunOK(s)
    BY <1>4, StartReads
  <2>3. \A d \in Commands : d # c => run'[d] = run[d]
    BY <2>2, GoesTyped
  <2>4. memory' = memory
    BY <1>4 DEF Start, StartFromFile
  <2>5. ~Writing(c)
    BY <2>1 DEF CanStart, Writing, Active
  <2> QED BY <2>1, <2>3, <2>4, <2>5, HeldAsWas DEF Writing
<1>5. ASSUME NEW c \in Commands, ReadPage(c) \/ ReadDetail(c) \/ AttemptFails(c)
      PROVE  MemoryHolds'
  <2>1. ReadStep(c, run[c]) /\ run[c].pc \in Reading
    BY <1>5, ReadPageReads, ReadDetailReads, AttemptFailsReads DEF Reading
  <2>2. PICK s : Goes(c, s) /\ ReadOn(run[c], s) /\ OnlyReads
    BY <2>1 DEF ReadStep
  <2>3. \A d \in Commands : d # c => run'[d] = run[d]
    BY <2>2, GoesTyped DEF ReadOn
  <2>4. memory' = memory /\ nodes' = nodes
    BY <1>5, <2>2 DEF ReadPage, ReadDetail, AttemptFails, OnlyReads
  <2>5. ~Writing(c)
    BY <2>1 DEF Writing, Reading
  <2> QED BY <2>3, <2>4, <2>5, HeldAsWas DEF Writing
<1>6. ASSUME NEW c \in Commands, Finish(c) \/ Kill(c)
      PROVE  MemoryHolds'
  <2>1. OnlyReads /\ \E s : Goes(c, s) /\ RunOK(s) /\ s.pc \notin Active
    BY <1>6, EndsTyped
  <2>2. nodes' = nodes /\ \A d \in Commands \ {c} : run'[d] = run[d]
    BY <2>1, GoesTyped DEF OnlyReads
  <2>3. Remembers(c, {})
    BY <1>6 DEF Finish, Kill
  <2> QED BY <2>2, <2>3, HeldOn
<1> QED BY <1>1, <1>2, <1>3, <1>4, <1>5, <1>6, LookupHolds, SaveHolds, SaveFailsHolds
        DEF Next, Step

LEMMA AlwaysRemembered == Spec => []Remembered
<1>1. Init => Remembered
  <2> SUFFICES ASSUME Init PROVE MemoryHolds
    BY DEF Remembered
  <2>1. \A c \in Commands : memory[c] = {}
    BY DEF Init
  <2> QED BY <2>1 DEF MemoryHolds
<1>2. Typed /\ Serial /\ Remembered /\ [Next]_vars => Remembered'
  BY HeldStep DEF Serial, Remembered
<1> QED BY <1>1, <1>2, ImportTypeCorrect, AlwaysSerial, PTL DEF Spec

(* As long as no two commands run at once, a node keeps the pictures       *)
(* downloaded for it when later downloads fail, or saves before, unless    *)
(* image fields of the remote shop are written to it: the copy a command   *)
(* saves has the pictures of the node (loadBySku, attachImages).           *)
THEOREM PicturesStay == Spec => PicturesKept
<1> DEFINE Kind == ~Overlapping =>
             \A i \in DOMAIN nodes :
               nodes[i].pictures = "own" /\ (\A c \in Commands : ~WritesPayload(c, i))
                 => nodes'[i].pictures = "own"
<1>1. ASSUME Typed, MemoryHolds, [Next]_vars, NEW i \in DOMAIN nodes,
             nodes[i].pictures = "own", \A c \in Commands : ~WritesPayload(c, i)
      PROVE  nodes'[i].pictures = "own"
  <2>1. i \in 1..Len(nodes)
    BY <1>1, LenProperties DEF Typed
  <2>2. CASE nodes' = nodes
    BY <1>1, <2>2
  <2>3. ASSUME NEW x \in NodeRecord, nodes' = Append(nodes, x)
        PROVE  nodes'[i].pictures = "own"
    <3>1. nodes'[i] = nodes[i]
      BY <1>1, <2>1, <2>3, Appended
    <3> QED BY <1>1, <3>1
  <2>4. ASSUME NEW c \in Commands, NEW x, Save(c), Wrote(run[c], x), Kept(c, x)
        PROVE  nodes'[i].pictures = "own"
    <3>1. CASE nodes' = Append(nodes, x)
      BY <2>3, <2>4, <3>1 DEF Wrote
    <3>2. CASE run[c].node \in 1..Len(nodes) /\ nodes' = [nodes EXCEPT ![run[c].node] = x]
      <4>1. nodes'[i] = IF i = run[c].node THEN x ELSE nodes[i]
        BY <1>1, <2>1, <2>4, <3>2, Replaced DEF Wrote
      <4>2. CASE i = run[c].node
        <5>1. PICK m \in Copies(c, i) :
                m.pictures = "own" /\ Payload[x.source] = "absent" => x.pictures = "own"
          BY <2>4, <4>2 DEF Kept
        <5>2. run[c].pc = "save" /\ x.source = Head(run[c].details).source
          BY <2>4 DEF Save, Wrote
        <5>3. Payload[x.source] = "absent" /\ ~m.replaced
          BY <1>1, <4>2, <5>1, <5>2 DEF WritesPayload
        <5>4. m.node = i /\ Truthful(m, nodes)
          BY <1>1, <5>1 DEF Copies, MemoryHolds
        <5>5. i # 0
          BY <2>1
        <5>6. m.pictures = "own"
          BY <1>1, <5>3, <5>4, <5>5 DEF Truthful
        <5> QED BY <4>1, <4>2, <5>1, <5>3, <5>6
      <4> QED BY <1>1, <4>1, <4>2
    <3> QED BY <2>4, <3>1, <3>2 DEF Wrote
  <2> QED BY <1>1, <2>2, <2>3, <2>4, NodesOnly
<1>2. Typed /\ Remembered /\ [Next]_vars => [Kind]_vars
  BY <1>1 DEF Remembered
<1> QED BY <1>2, ImportTypeCorrect, AlwaysRemembered, PTL DEF Spec, PicturesKept

-----------------------------------------------------------------------------
(* The versions.                                                           *)

Current(d) == \A j \in 1..Len(d) : d[j].version <= version[d[j].source]

\* Read again, a product is read no older.
Ordered(d) ==
  \A i, j \in 1..Len(d) : i < j /\ d[i].source = d[j].source => d[i].version <= d[j].version

\* No node of the command is newer than an item still to write.
Behind(d) ==
  \A i \in 1..Len(nodes), j \in 1..Len(d) :
    nodes[i].by = "command" /\ nodes[i].source = d[j].source => nodes[i].version <= d[j].version

NodesCurrent == \A i \in 1..Len(nodes) : nodes[i].version <= version[nodes[i].source]

ItemsCurrent == \A c \in Commands : Current(run[c].details) /\ Ordered(run[c].details)

WritesForward ==
  ~Overlapping => \A c \in Commands : run[c].pc \in Active => Behind(run[c].details)

ItemFacts(d) == Current(d) /\ Ordered(d)

LEMMA ItemAt ==
  ASSUME NEW d \in Seq(ItemRecord), NEW j \in 1..Len(d)
  PROVE  d[j].version \in Nat /\ d[j].source \in Nids /\ Len(d) \in Nat
<1>1. d[j] \in ItemRecord /\ Len(d) \in Nat
  BY LenProperties, ElementOfSeq
<1> QED BY <1>1 DEF ItemRecord

LEMMA NodeAt ==
  ASSUME Typed, NEW i \in 1..Len(nodes)
  PROVE  nodes[i].version \in Nat /\ nodes[i].source \in Nids /\ Len(nodes) \in Nat
<1>1. nodes[i] \in NodeRecord /\ Len(nodes) \in Nat
  BY LenProperties, ElementOfSeq DEF Typed
<1> QED BY <1>1 DEF NodeRecord

LEMMA GrownKeeps ==
  ASSUME Typed, NEW old \in Seq(ItemRecord), NEW new, Grown(old, new), Current(old), Ordered(old)
  PROVE  /\ Current(new) /\ Ordered(new)
         /\ NodesCurrent /\ Behind(old) => Behind(new)
<1>1. new \in Seq(ItemRecord) /\ Len(old) \in Nat /\ Len(new) \in Nat
  BY LenProperties DEF Grown
<1>2. \A j \in 1..Len(new) : new[j].version \in Nat /\ new[j].source \in Nids
  BY <1>1, ItemAt
<1>3. \A j \in 1..Len(new) : \/ j \in 1..Len(old) /\ new[j] = old[j]
                             \/ j > Len(old) /\ new[j].version = version[new[j].source]
  BY <1>1 DEF Grown
<1>4. ASSUME NEW j \in 1..Len(new)
      PROVE  version[new[j].source] \in Nat /\ new[j].version <= version[new[j].source]
  <2>1. version[new[j].source] \in Nat
    BY <1>2 DEF Typed
  <2>2. CASE j \in 1..Len(old) /\ new[j] = old[j]
    BY <2>1, <2>2 DEF Current
  <2>3. CASE new[j].version = version[new[j].source]
    BY <2>1, <2>3
  <2> QED BY <1>3, <2>1, <2>2, <2>3
<1>5. Current(new)
  BY <1>4 DEF Current
<1>6. ASSUME NEW i \in 1..Len(new), NEW j \in 1..Len(new), i < j, new[i].source = new[j].source
      PROVE  new[i].version <= new[j].version
  <2>1. CASE j > Len(old) /\ new[j].version = version[new[j].source]
    BY <1>4, <1>6, <2>1
  <2>2. CASE j \in 1..Len(old) /\ new[j] = old[j]
    <3>1. i \in 1..Len(old) /\ new[i] = old[i]
      BY <1>1, <1>3, <1>6, <2>2
    <3> QED BY <1>6, <2>2, <3>1 DEF Ordered
  <2> QED BY <1>3, <2>1, <2>2
<1>7. ASSUME NodesCurrent, Behind(old), NEW i \in 1..Len(nodes), NEW j \in 1..Len(new),
             nodes[i].by = "command", nodes[i].source = new[j].source
      PROVE  nodes[i].version <= new[j].version
  <2>1. CASE j > Len(old) /\ new[j].version = version[new[j].source]
    BY <1>7, <2>1 DEF NodesCurrent
  <2>2. CASE j \in 1..Len(old) /\ new[j] = old[j]
    BY <1>7, <2>2 DEF Behind
  <2> QED BY <1>3, <2>1, <2>2
<1> QED BY <1>5, <1>6, <1>7 DEF Ordered, Behind

LEMMA TailKeeps ==
  ASSUME NEW d \in Seq(ItemRecord), d # <<>>, Current(d), Ordered(d)
  PROVE  /\ Current(Tail(d)) /\ Ordered(Tail(d))
         /\ Behind(d) => Behind(Tail(d))
<1>1. /\ Tail(d) \in Seq(ItemRecord) /\ Len(Tail(d)) = Len(d) - 1 /\ Len(d) \in Nat
      /\ \A j \in 1..Len(Tail(d)) : Tail(d)[j] = d[j + 1]
  BY HeadTailProperties, LenProperties
<1>2. \A j \in 1..Len(Tail(d)) : j + 1 \in 1..Len(d) /\ Tail(d)[j] = d[j + 1]
  BY <1>1
<1>3. Current(Tail(d))
  BY <1>2 DEF Current
<1>4. ASSUME NEW i \in 1..Len(Tail(d)), NEW j \in 1..Len(Tail(d)), i < j,
             Tail(d)[i].source = Tail(d)[j].source
      PROVE  Tail(d)[i].version <= Tail(d)[j].version
  <2>1. i + 1 < j + 1
    BY <1>1, <1>4
  <2> QED BY <1>2, <1>4, <2>1 DEF Ordered
<1>5. ASSUME Behind(d) PROVE Behind(Tail(d))
  BY <1>2, <1>5 DEF Behind
<1> QED BY <1>3, <1>4, <1>5 DEF Ordered

\* A command goes on, and no node changes.
LEMMA GoesForward ==
  ASSUME Typed, NodesCurrent, ItemsCurrent, WritesForward, NEW c \in Commands, NEW s,
         Goes(c, s), RunOK(s), UNCHANGED <<version, nodes>>, ItemFacts(s.details),
         s.pc \in Active /\ ~Overlapping => Behind(s.details)
  PROVE  NodesCurrent' /\ ItemsCurrent' /\ WritesForward'
<1>1. run'[c] = s /\ \A d \in Commands : d # c => run'[d] = run[d]
  BY GoesTyped
<1>2. NodesCurrent'
  BY DEF NodesCurrent
<1>3. \A d : (Current(d) => Current(d)') /\ (Behind(d) => Behind(d)')
  BY DEF Current, Behind
<1>4. ASSUME NEW d \in Commands
      PROVE  Current(run'[d].details) /\ Ordered(run'[d].details)
  BY <1>1 DEF ItemsCurrent, ItemFacts
<1>5. ASSUME NEW d \in Commands, ~Overlapping, run'[d].pc \in Active
      PROVE  Behind(run'[d].details)
  BY <1>1, <1>5 DEF WritesForward
<1>6. ItemsCurrent'
  BY <1>3, <1>4 DEF ItemsCurrent, Current
<1>7. WritesForward'
  BY <1>3, <1>5 DEF WritesForward, Behind
<1> QED BY <1>2, <1>6, <1>7

LEMMA SaveForward ==
  ASSUME Typed, NodesCurrent, ItemsCurrent, WritesForward, ~Overlapping => Alone,
         NEW c \in Commands, Save(c)
  PROVE  NodesCurrent' /\ ItemsCurrent' /\ WritesForward'
<1>1. /\ run[c].pc = "save" /\ run[c].details # <<>> /\ Goes(c, NextItem(run[c]))
      /\ version' = version
  BY SaveWrites
<1>2. PICK x : Wrote(run[c], x)
  BY SaveWrites
<1>3. PICK d \in Seq(ItemRecord) :
        d = run[c].details /\ d # <<>> /\ Head(d) = d[1] /\ 1 \in 1..Len(d)
  <2>1. run[c].details \in Seq(ItemRecord)
    BY <1>1, HeadOf DEF Typed
  <2>2. Len(run[c].details) \in Nat /\ Len(run[c].details) # 0
    BY <1>1, <2>1, EmptySeq, LenProperties
  <2> QED BY <1>1, <2>1, <2>2
<1>4. /\ x \in NodeRecord /\ x.version = d[1].version /\ x.source = d[1].source
      /\ x.version \in Nat /\ x.source \in Nids
      /\ \/ nodes' = Append(nodes, x)
         \/ run[c].node \in 1..Len(nodes) /\ nodes' = [nodes EXCEPT ![run[c].node] = x]
  BY <1>2, <1>3, ItemAt DEF Wrote
<1>5. Current(d) /\ Ordered(d) /\ Current(Tail(d)) /\ Ordered(Tail(d))
  BY <1>3, TailKeeps DEF ItemsCurrent
<1>6. \A i \in 1..Len(nodes') : nodes'[i] = x \/ (i \in 1..Len(nodes) /\ nodes'[i] = nodes[i])
  <2>1. Len(nodes) \in Nat
    BY LenProperties DEF Typed
  <2>2. CASE nodes' = Append(nodes, x)
    BY <1>4, <2>1, <2>2, Appended
  <2>3. CASE run[c].node \in 1..Len(nodes) /\ nodes' = [nodes EXCEPT ![run[c].node] = x]
    BY <1>4, <2>1, <2>3, Replaced
  <2> QED BY <1>4, <2>2, <2>3
<1>7. NodesCurrent'
  BY <1>1, <1>3, <1>4, <1>5, <1>6 DEF NodesCurrent, Current
<1>8. RunOK(NextItem(run[c])) /\ NextItem(run[c]).details = Tail(d)
  BY <1>1, <1>3, NextItemTyped DEF Typed, Active
<1>9. /\ run'[c] = NextItem(run[c])
      /\ \A e \in Commands : e # c => run'[e] = run[e]
  BY <1>1, <1>8, GoesTyped
<1>10. ItemsCurrent'
  <2>1. ASSUME NEW e \in Commands
        PROVE  Current(run'[e].details) /\ Ordered(run'[e].details)
    BY <1>5, <1>8, <1>9 DEF ItemsCurrent
  <2> QED BY <1>1, <2>1 DEF ItemsCurrent, Current
<1>11. ASSUME Behind(d), NEW i \in 1..Len(nodes'), NEW j \in 1..Len(Tail(d)),
              nodes'[i].by = "command", nodes'[i].source = Tail(d)[j].source
       PROVE  nodes'[i].version <= Tail(d)[j].version
  <2>1. j + 1 \in 1..Len(d) /\ Tail(d)[j] = d[j + 1] /\ 1 < j + 1
    BY <1>3, <1>11, HeadTailProperties, LenProperties
  <2>2. CASE nodes'[i] = x
    BY <1>3, <1>4, <1>5, <1>11, <2>1, <2>2 DEF Ordered
  <2>3. CASE i \in 1..Len(nodes) /\ nodes'[i] = nodes[i]
    BY <1>11, <2>1, <2>3 DEF Behind
  <2> QED BY <1>6, <2>2, <2>3
<1>12. ASSUME ~Overlapping, NEW e \in Commands, run'[e].pc \in Active
       PROVE  Behind(run[e].details)'
  <2>1. e = c
    BY <1>1, <1>9, <1>12 DEF Alone, Active
  <2>2. Behind(d)
    BY <1>1, <1>3, <1>12 DEF WritesForward, Active
  <2>3. run'[e].details = Tail(d)
    BY <1>8, <1>9, <2>1
  <2>4. Behind(Tail(d))'
    BY <1>11, <2>2 DEF Behind
  <2> QED BY <2>3, <2>4 DEF Behind
<1> QED BY <1>7, <1>10, <1>12 DEF WritesForward

LEMMA EndpointForward ==
  ASSUME Typed, NodesCurrent, ItemsCurrent, WritesForward, NEW n \in Nids, ImportEndpoint(n)
  PROVE  NodesCurrent' /\ ItemsCurrent' /\ WritesForward'
<1>1. UNCHANGED <<version, run>>
  BY EndpointAppends
<1>2. PICK x \in NodeRecord : /\ nodes' = Append(nodes, x) /\ x.by = "endpoint"
                              /\ x.source = n /\ x.version = version[n]
  BY EndpointAppends
<1>3. \A i \in 1..Len(nodes') : nodes'[i] = x \/ (i \in 1..Len(nodes) /\ nodes'[i] = nodes[i])
  <2>1. Len(nodes) \in Nat
    BY LenProperties DEF Typed
  <2> QED BY <1>2, <2>1, Appended
<1>4. x.version <= version[x.source]
  <2>1. version[n] \in Nat
    BY DEF Typed
  <2> QED BY <1>2, <2>1
<1>5. NodesCurrent'
  BY <1>1, <1>3, <1>4 DEF NodesCurrent
<1>6. ItemsCurrent'
  BY <1>1 DEF ItemsCurrent, Current
<1>7. ASSUME NEW d, Behind(d)
      PROVE  Behind(d)'
  BY <1>2, <1>3, <1>7 DEF Behind
<1>8. ASSUME ~Overlapping, NEW c \in Commands, run'[c].pc \in Active
      PROVE  Behind(run[c].details)'
  <2>1. Behind(run[c].details) /\ run'[c] = run[c]
    BY <1>1, <1>8 DEF WritesForward
  <2>2. PICK d : d = run[c].details
    OBVIOUS
  <2> QED BY <1>7, <2>1, <2>2 DEF Behind
<1> QED BY <1>5, <1>6, <1>8 DEF WritesForward

LEMMA RemoteForward ==
  ASSUME Typed, NodesCurrent, ItemsCurrent, WritesForward, RemoteChange
  PROVE  NodesCurrent' /\ ItemsCurrent' /\ WritesForward'
<1>1. /\ nodes' = nodes /\ version' \in [Nids -> Nat] /\ version \in [Nids -> Nat]
      /\ \A n \in Nids : version'[n] >= version[n]
      /\ \A c \in Commands : SameRun(run[c], run'[c])
  BY RemoteChanges DEF Typed
<1>2. \A c \in Commands : run'[c].pc = run[c].pc /\ run'[c].details = run[c].details
  BY <1>1 DEF SameRun
<1>3. ASSUME NEW i \in 1..Len(nodes)
      PROVE  nodes[i].version <= version'[nodes[i].source]
  <2>1. /\ nodes[i].version \in Nat /\ version[nodes[i].source] \in Nat
        /\ version'[nodes[i].source] \in Nat
        /\ version'[nodes[i].source] >= version[nodes[i].source]
    BY <1>1, NodeAt
  <2>2. nodes[i].version <= version[nodes[i].source]
    BY DEF NodesCurrent
  <2> QED BY <2>1, <2>2
<1>4. NodesCurrent'
  BY <1>1, <1>3 DEF NodesCurrent
<1>5. ASSUME NEW d \in Seq(ItemRecord), Current(d), NEW j \in 1..Len(d)
      PROVE  d[j].version <= version'[d[j].source]
  <2>1. /\ d[j].version \in Nat /\ version[d[j].source] \in Nat
        /\ version'[d[j].source] \in Nat
        /\ version'[d[j].source] >= version[d[j].source]
    BY <1>1, ItemAt
  <2>2. d[j].version <= version[d[j].source]
    BY <1>5 DEF Current
  <2> QED BY <2>1, <2>2
<1>6. ItemsCurrent'
  <2>1. ASSUME NEW c \in Commands
        PROVE  Current(run[c].details)' /\ Ordered(run[c].details)'
    <3>1. run[c].details \in Seq(ItemRecord)
      BY DEF Typed, RunRecord
    <3>2. Current(run[c].details) /\ Ordered(run[c].details)
      BY DEF ItemsCurrent
    <3> QED BY <1>2, <1>5, <3>1, <3>2 DEF Current
  <2> QED BY <2>1 DEF ItemsCurrent
<1>7. WritesForward'
  BY <1>1, <1>2 DEF WritesForward, Behind
<1> QED BY <1>4, <1>6, <1>7

LEMMA ForwardStep ==
  ASSUME Typed, NodesCurrent, ItemsCurrent, WritesForward, ~Overlapping => Alone, [Next]_vars
  PROVE  NodesCurrent' /\ ItemsCurrent' /\ WritesForward'
<1>1. CASE vars' = vars
  BY <1>1 DEF vars, NodesCurrent, ItemsCurrent, WritesForward, Current, Behind
<1>2. CASE RemoteChange
  BY <1>2, RemoteForward
<1>3. ASSUME NEW n \in Pushed, ImportEndpoint(n)
      PROVE  NodesCurrent' /\ ItemsCurrent' /\ WritesForward'
  BY <1>3, EndpointForward, ImportAssumption
<1>4. \A c \in Commands : /\ run[c].details \in Seq(ItemRecord)
                          /\ Current(run[c].details) /\ Ordered(run[c].details)
                          /\ run[c].pc \in Active /\ ~Overlapping => Behind(run[c].details)
  BY DEF Typed, RunRecord, ItemsCurrent, WritesForward
<1>5. ASSUME NEW c \in Commands, NEW s, Goes(c, s), RunOK(s), UNCHANGED <<version, nodes>>,
             s.pc \in Active => run[c].pc \in Active, Grown(run[c].details, s.details)
      PROVE  NodesCurrent' /\ ItemsCurrent' /\ WritesForward'
  <2>1. ItemFacts(s.details) /\ (Behind(run[c].details) => Behind(s.details))
    BY <1>4, <1>5, GrownKeeps DEF ItemFacts
  <2> QED BY <1>4, <1>5, <2>1, GoesForward
<1>6. ASSUME NEW c \in Commands, NEW s, Goes(c, s), RunOK(s), UNCHANGED <<version, nodes>>,
             run[c].pc \in Active, run[c].details # <<>>, s.details = Tail(run[c].details)
      PROVE  NodesCurrent' /\ ItemsCurrent' /\ WritesForward'
  <2>1. ItemFacts(s.details) /\ (Behind(run[c].details) => Behind(s.details))
    BY <1>4, <1>6, TailKeeps DEF ItemFacts
  <2> QED BY <1>4, <1>6, <2>1, GoesForward
<1>7. ASSUME NEW c \in Commands, Start(c) \/ StartFromFile(c)
      PROVE  NodesCurrent' /\ ItemsCurrent' /\ WritesForward'
  <2>1. UNCHANGED <<catalogue, version, nodes, posts>>
    BY <1>7, StartReads
  <2>2. PICK s : Goes(c, s) /\ RunOK(s) /\ Grown(<<>>, s.details)
    BY <1>7, StartReads
  <2>3. <<>> \in Seq(ItemRecord) /\ Len(<<>>) = 0
    OBVIOUS
  <2>4. Current(<<>>) /\ Ordered(<<>>) /\ Behind(<<>>)
    BY <2>3 DEF Current, Ordered, Behind
  <2>5. ItemFacts(s.details) /\ Behind(s.details)
    BY <2>2, <2>3, <2>4, GrownKeeps DEF ItemFacts
  <2> QED BY <2>1, <2>2, <2>5, GoesForward
<1>8. ASSUME NEW c \in Commands, ReadPage(c) \/ ReadDetail(c) \/ AttemptFails(c)
      PROVE  NodesCurrent' /\ ItemsCurrent' /\ WritesForward'
  <2>1. ReadStep(c, run[c]) /\ run[c].pc \in Active
    BY <1>8, ReadPageReads, ReadDetailReads, AttemptFailsReads DEF Active, Reading
  <2>2. PICK s : Goes(c, s) /\ ReadOn(run[c], s) /\ Grown(run[c].details, s.details) /\ OnlyReads
    BY <2>1 DEF ReadStep
  <2>3. RunOK(s) /\ UNCHANGED <<version, nodes>>
    BY <2>2 DEF ReadOn, OnlyReads
  <2> QED BY <1>5, <2>1, <2>2, <2>3
<1>9. ASSUME NEW c \in Commands, Lookup(c)
      PROVE  NodesCurrent' /\ ItemsCurrent' /\ WritesForward'
  <2>1. /\ OnlyReads /\ run[c].pc = "lookup" /\ run[c].details # <<>>
        /\ \/ Goes(c, NextItem(run[c]))
           \/ \E s : Goes(c, s) /\ RunOK(s) /\ s.details = run[c].details
    BY <1>9, LookupFinds
  <2>2. UNCHANGED <<version, nodes>> /\ run[c].pc \in Active /\ RunOK(run[c])
    BY <2>1 DEF OnlyReads, Active, Typed
  <2>3. RunOK(NextItem(run[c])) /\ NextItem(run[c]).details = Tail(run[c].details)
    BY <2>1, <2>2, NextItemTyped
  <2>4. CASE Goes(c, NextItem(run[c]))
    BY <1>6, <2>1, <2>2, <2>3, <2>4
  <2>5. ASSUME NEW s, Goes(c, s), RunOK(s), s.details = run[c].details
        PROVE  NodesCurrent' /\ ItemsCurrent' /\ WritesForward'
    <3>1. Grown(run[c].details, s.details)
      BY <1>4, <2>5, GrownSame
    <3> QED BY <1>5, <2>2, <2>5, <3>1
  <2> QED BY <2>1, <2>4, <2>5
<1>10. ASSUME NEW c \in Commands, Save(c)
       PROVE  NodesCurrent' /\ ItemsCurrent' /\ WritesForward'
  BY <1>10, SaveForward
<1>11. ASSUME NEW c \in Commands, SaveFails(c)
       PROVE  NodesCurrent' /\ ItemsCurrent' /\ WritesForward'
  <2> DEFINE s == [NextItem(run[c]) EXCEPT !.disturbed = TRUE]
  <2>1. run[c].pc = "save" /\ Goes(c, s) /\ OnlyReads
    BY <1>11 DEF SaveFails
  <2>2. RunOK(run[c]) /\ run[c].details # <<>> /\ run[c].pc \in Active
    BY <2>1 DEF Typed, RunOK, Active
  <2>3. RunOK(s) /\ s.details = Tail(run[c].details)
    BY <2>2, NextItemTyped
  <2>4. UNCHANGED <<version, nodes>>
    BY <2>1 DEF OnlyReads
  <2> HIDE DEF s
  <2> QED BY <1>6, <2>1, <2>2, <2>3, <2>4
<1>12. ASSUME NEW c \in Commands, Finish(c)
       PROVE  NodesCurrent' /\ ItemsCurrent' /\ WritesForward'
  <2> DEFINE s == [run[c] EXCEPT !.pc = "done", !.offset = 0, !.next = Stop, !.total = None]
  <2>1. run[c].pc = "lookup" /\ Goes(c, s) /\ OnlyReads /\ run[c] \in RunRecord
    BY <1>12 DEF Finish, Typed
  <2>2. s \in RunRecord /\ s.pc = "done" /\ s.details = run[c].details
    BY <2>1 DEF RunRecord, Steps
  <2> HIDE DEF s
  <2>3. RunOK(s) /\ s.pc \notin Active
    BY <2>2 DEF RunOK, Active, Reading
  <2>4. Grown(run[c].details, s.details) /\ UNCHANGED <<version, nodes>>
    BY <1>4, <2>1, <2>2, GrownSame DEF OnlyReads
  <2> QED BY <1>5, <2>1, <2>3, <2>4
<1>13. ASSUME NEW c \in Commands, Kill(c)
       PROVE  NodesCurrent' /\ ItemsCurrent' /\ WritesForward'
  <2>1. Goes(c, Idle) /\ UNCHANGED <<version, nodes>>
    BY <1>13 DEF Kill, OnlyReads
  <2>2. RunOK(Idle) /\ Idle.pc \notin Active /\ Idle.details = <<>>
    BY IdleTyped DEF RunOK, Active, Reading
  <2>3. ItemFacts(Idle.details)
    <3>1. Len(<<>>) = 0
      OBVIOUS
    <3> QED BY <2>2, <3>1 DEF ItemFacts, Current, Ordered
  <2> QED BY <2>1, <2>2, <2>3, GoesForward
<1> QED BY <1>1, <1>2, <1>3, <1>7, <1>8, <1>9, <1>10, <1>11, <1>12, <1>13 DEF Next, Step

Forward == NodesCurrent /\ ItemsCurrent /\ WritesForward

LEMMA ForwardInit == Init => Forward
<1> SUFFICES ASSUME Init PROVE Forward
  OBVIOUS
<1>1. nodes = <<>> /\ Len(<<>>) = 0 /\ \A c \in Commands : run[c] = Idle
  BY DEF Init
<1>2. Idle.pc \notin Active /\ Idle.details = <<>>
  BY IdleTyped DEF Active, Reading
<1>3. NodesCurrent
  BY <1>1 DEF NodesCurrent
<1>4. ItemsCurrent /\ WritesForward
  BY <1>1, <1>2 DEF ItemsCurrent, WritesForward, Current, Ordered
<1> QED BY <1>3, <1>4 DEF Forward

LEMMA AlwaysForward == Spec => []Forward
<1>1. Typed /\ Serial /\ Forward /\ [Next]_vars => Forward'
  BY ForwardStep DEF Serial, Forward
<1> QED BY ForwardInit, ImportTypeCorrect, AlwaysSerial, <1>1, PTL DEF Spec

(* As long as no two commands run at once, the command never puts a node   *)
(* it wrote back to an older version of its product, whatever shifts of    *)
(* the list made it read the product twice: what it reads of a product is  *)
(* read in order and written in that order, and nothing older is left from *)
(* a command that was killed.                                              *)
THEOREM NothingPutBack == Spec => NeverGoesBack
<1>1. ASSUME Typed, WritesForward, [Next]_vars, ~Overlapping, NEW i \in DOMAIN nodes,
             nodes[i].by = "command", nodes'[i].source = nodes[i].source
      PROVE  nodes'[i].version >= nodes[i].version
  <2>1. i \in 1..Len(nodes) /\ nodes[i].version \in Nat
    BY <1>1, NodeAt, LenProperties DEF Typed
  <2>2. CASE nodes'[i] = nodes[i]
    BY <2>1, <2>2
  <2>3. ASSUME NEW x \in NodeRecord, nodes' = Append(nodes, x)
        PROVE  nodes'[i] = nodes[i]
    BY <1>1, <2>1, <2>3, Appended
  <2>4. ASSUME NEW c \in Commands, NEW x, Save(c), Wrote(run[c], x)
        PROVE  nodes'[i].version >= nodes[i].version
    <3>1. CASE nodes' = Append(nodes, x)
      BY <2>2, <2>3, <2>4, <3>1 DEF Wrote
    <3>2. CASE run[c].node \in 1..Len(nodes) /\ nodes' = [nodes EXCEPT ![run[c].node] = x]
      <4>1. nodes'[i] = IF i = run[c].node THEN x ELSE nodes[i]
        BY <1>1, <2>1, <2>4, <3>2, Replaced DEF Wrote
      <4>2. CASE i = run[c].node
        <5>1. run[c].pc = "save" /\ run[c].details # <<>>
          BY <1>1, <2>4, SaveWrites
        <5>2. Behind(run[c].details) /\ run[c].details \in Seq(ItemRecord)
          BY <1>1, <5>1 DEF WritesForward, Active, Typed, RunRecord
        <5>3. /\ Len(run[c].details) \in Nat /\ Len(run[c].details) # 0
              /\ Head(run[c].details) = run[c].details[1]
          BY <5>1, <5>2, EmptySeq, LenProperties
        <5>4. 1 \in 1..Len(run[c].details) /\ run[c].details[1].version \in Nat
          BY <5>2, <5>3, ItemAt
        <5>5. x.version = run[c].details[1].version /\ x.source = run[c].details[1].source
          BY <2>4, <5>3 DEF Wrote
        <5>6. nodes[i].version <= run[c].details[1].version
          BY <1>1, <2>1, <4>1, <4>2, <5>2, <5>4, <5>5 DEF Behind
        <5> QED BY <2>1, <4>1, <4>2, <5>4, <5>5, <5>6
      <4> QED BY <2>2, <4>1, <4>2
    <3> QED BY <2>4, <3>1, <3>2 DEF Wrote
  <2> QED BY <1>1, <2>2, <2>3, <2>4, NodesOnly
<1>2. Typed /\ WritesForward /\ [Next]_vars
        => [~Overlapping => \A i \in DOMAIN nodes :
              nodes[i].by = "command" /\ nodes'[i].source = nodes[i].source
                => nodes'[i].version >= nodes[i].version]_vars
  BY <1>1
<1>3. Forward => WritesForward
  BY DEF Forward
<1> QED BY <1>2, <1>3, ImportTypeCorrect, AlwaysForward, PTL DEF Spec, NeverGoesBack

-----------------------------------------------------------------------------
(* What a command reads and writes is complete.                            *)

LEMMA SliceLength ==
  ASSUME NEW S, NEW s \in Seq(S), NEW from \in Nat, NEW count \in Nat
  PROVE  LET n == Len(Slice(s, from, count)) IN
         /\ n \in Nat /\ Len(s) \in Nat /\ n <= count
         /\ from <= Len(s) => from + n <= Len(s)
         /\ from > Len(s) => n = 0
         /\ n = count \/ from + n >= Len(s)
<1> DEFINE m == from + 1
           n == IF from + count < Len(s) THEN from + count ELSE Len(s)
<1>1. Len(s) \in Nat /\ m \in Int /\ n \in Int /\ n <= Len(s) /\ m >= 1
      /\ n <= from + count /\ (n = from + count \/ n = Len(s))
  BY LenProperties
<1>2. Slice(s, from, count) = SubSeq(s, m, n)
  BY DEF Slice
<1> HIDE DEF n
<1>3. \A i \in m..n : s[i] \in S
  BY <1>1, ElementOfSeq
<1>4. Len(SubSeq(s, m, n)) = IF m <= n THEN n - m + 1 ELSE 0
  BY <1>1, <1>3, SubSeqProperties
<1> QED BY <1>1, <1>2, <1>4

\* How far into the remote list the command has read.
ReadTo(r) == r.opt.offset + Len(r.details)

\* What has been read is the list, from the offset on.
Follows(r) ==
  \A i \in 1..Len(r.details) :
    r.opt.offset + i \in 1..Len(r.at) /\ r.details[i].source = r.at[r.opt.offset + i]

\* The next page starts at k, once u products of the list are passed.
Reached(list, u, k) ==
  IF k = Stop THEN u >= Len(list) ELSE k = u \/ (k >= Len(list) /\ u >= Len(list))

\* The rest of the page is what the list goes on with.
PageFollows(r) ==
  /\ \A i \in 1..Len(r.page) :
       ReadTo(r) + i \in 1..Len(r.at) /\ r.page[i] = r.at[ReadTo(r) + i]
  /\ Reached(r.at, ReadTo(r) + Len(r.page), r.next)

\* A command at its reading has missed nothing so far.
InOrder(r) ==
  /\ r.at = catalogue /\ r.total \in {None, Len(r.at)} /\ Follows(r)
  /\ r.pc = "list" => ~FullUp(r) /\ Reached(r.at, ReadTo(r), r.offset)
  /\ r.pc = "detail" => FullUp(r) \/ PageFollows(r)

\* The list is read as far as the command wants it.
AllRead(r) == Follows(r) /\ (FullUp(r) \/ ReadTo(r) >= Len(r.at))

LEMMA NumbersOf ==
  ASSUME NEW r \in RunRecord, r.opt \in Options
  PROVE  /\ r.opt.limit \in Nat /\ r.opt.offset \in Nat /\ Len(r.details) \in Nat
         /\ Len(r.page) \in Nat /\ Len(r.at) \in Nat /\ ReadTo(r) \in Nat
         /\ r.details \in Seq(ItemRecord) /\ r.page \in Seq(Nids) /\ r.at \in Seq(Nids)
<1>1. /\ r.details \in Seq(ItemRecord) /\ r.page \in Seq(Nids) /\ r.at \in Seq(Nids)
      /\ r.opt.limit \in Nat /\ r.opt.offset \in Nat
  BY ImportAssumption DEF RunRecord
<1> QED BY <1>1, LenProperties DEF ReadTo

\* The items carry the list on from where the command has read to.
Continue(r, items) ==
  \A k \in 1..Len(items) :
    ReadTo(r) + k \in 1..Len(r.at) /\ items[k].source = r.at[ReadTo(r) + k]

LEMMA CollectedFollows ==
  ASSUME NEW r \in RunRecord, r.opt \in Options, NEW items \in Seq(ItemRecord),
         Follows(r), FullUp(r) \/ Continue(r, items),
         NEW s, s.opt = r.opt, s.at = r.at, s.details = Collected(r, items)
  PROVE  /\ Follows(s)
         /\ FullUp(r) => FullUp(s)
         /\ FullUp(s) \/ ReadTo(s) = ReadTo(r) + Len(items)
<1> DEFINE old == r.details
           all == old \o items
           limit == r.opt.limit
           count == IF limit > 0 THEN limit ELSE Len(old) + Len(items)
           new == Collected(r, items)
<1>1. /\ old \in Seq(ItemRecord) /\ limit \in Nat /\ r.opt.offset \in Nat
      /\ Len(old) \in Nat /\ Len(items) \in Nat /\ Len(r.at) \in Nat
  BY NumbersOf, LenProperties
<1>2. /\ all \in Seq(ItemRecord) /\ Len(all) = Len(old) + Len(items) /\ count \in Nat
      /\ \A i \in 1..Len(old) + Len(items) :
           all[i] = IF i <= Len(old) THEN old[i] ELSE items[i - Len(old)]
  BY <1>1, ConcatProperties
<1>3. new = Slice(all, 0, count) /\ (limit > 0 => count = limit)
      /\ (limit = 0 => count = Len(old) + Len(items))
  BY <1>1 DEF Collected
<1> HIDE DEF all, count, new
<1>4. \A i \in 1..Len(new) : 0 + i \in 1..Len(all) /\ new[i] = all[0 + i]
  <2>1. all \in Seq(ItemRecord) /\ count \in Nat /\ 0 \in Nat
    BY <1>2
  <2> QED BY <1>3, <2>1, SliceOf, Zenon
<1>5. /\ Len(new) \in Nat /\ Len(new) <= count
      /\ Len(new) <= Len(all) /\ (Len(new) = count \/ Len(new) >= Len(all))
  <2>1. all \in Seq(ItemRecord) /\ count \in Nat /\ 0 \in Nat
    BY <1>2
  <2>2. LET n == Len(new) IN
         /\ n \in Nat /\ Len(all) \in Nat /\ n <= count
         /\ 0 <= Len(all) => 0 + n <= Len(all)
         /\ n = count \/ 0 + n >= Len(all)
    BY <1>3, <2>1, SliceLength, Zenon
  <2> QED BY <2>2
<1>6. \A i \in 1..Len(new) : /\ i \in 1..Len(old) + Len(items)
                             /\ new[i] = IF i <= Len(old) THEN old[i] ELSE items[i - Len(old)]
  BY <1>1, <1>2, <1>4, <1>5
<1>7. FullUp(r) => Len(new) <= Len(old)
  BY <1>1, <1>3, <1>5 DEF FullUp
<1>8. ASSUME NEW i \in 1..Len(new)
      PROVE  r.opt.offset + i \in 1..Len(r.at) /\ new[i].source = r.at[r.opt.offset + i]
  <2>1. CASE i <= Len(old)
    <3>1. i \in 1..Len(old) /\ new[i] = old[i]
      BY <1>1, <1>5, <1>6, <2>1
    <3> QED BY <3>1 DEF Follows
  <2>2. CASE i > Len(old)
    <3>1. new[i] = items[i - Len(old)] /\ i - Len(old) \in 1..Len(items)
      BY <1>1, <1>5, <1>6, <2>2
    <3>2. Continue(r, items)
      BY <1>1, <1>5, <1>7, <2>2
    <3>3. ReadTo(r) + (i - Len(old)) = r.opt.offset + i
      BY <1>1, <1>5, <2>2 DEF ReadTo
    <3> QED BY <3>1, <3>2, <3>3 DEF Continue
  <2> QED BY <1>1, <1>5, <2>1, <2>2
<1>9. s.details = new
  BY DEF new
<1>10. Follows(s)
  BY <1>8, <1>9 DEF Follows
<1>11. /\ FullUp(s) <=> limit > 0 /\ Len(new) >= limit
       /\ FullUp(r) <=> limit > 0 /\ Len(old) >= limit
       /\ ReadTo(s) = r.opt.offset + Len(new) /\ ReadTo(r) = r.opt.offset + Len(old)
  BY <1>9 DEF FullUp, ReadTo
<1> HIDE DEF old, limit
<1>12. Len(all) = Len(old) + Len(items) /\ Len(all) \in Nat
  BY <1>1, <1>2
<1>15. Len(new) <= Len(old) + Len(items)
  BY <1>5, <1>12
<1>16. Len(new) = count \/ Len(new) >= Len(old) + Len(items)
  BY <1>5, <1>12
<1>17. Len(new) = limit \/ Len(new) = Len(old) + Len(items)
  BY <1>1, <1>3, <1>5, <1>15, <1>16
<1>18. limit > 0 \/ Len(new) = Len(old) + Len(items)
  BY <1>1, <1>3, <1>5, <1>15, <1>16
<1>13. FullUp(r) => FullUp(s)
  BY <1>1, <1>5, <1>11, <1>15, <1>17, <1>18
<1>14. FullUp(s) \/ ReadTo(s) = ReadTo(r) + Len(items)
  <2>1. CASE Len(new) = limit /\ limit > 0
    <3>1. FullUp(s)
      BY <1>1, <1>11, <2>1
    <3> QED BY <3>1
  <2>2. CASE Len(new) = Len(old) + Len(items)
    <3>1. ReadTo(s) = r.opt.offset + Len(new) /\ ReadTo(r) = r.opt.offset + Len(old)
      BY <1>11
    <3> QED BY <1>1, <2>2, <3>1
  <2> QED BY <1>17, <1>18, <2>1, <2>2
<1> QED BY <1>10, <1>13, <1>14

\* What a step of the reading leaves of the command r.
KeepsOrder(r, s) ==
  /\ s.opt = r.opt /\ s.at = r.at /\ s.asOf = r.asOf
  /\ ~s.disturbed => ~r.disturbed
  /\ ~s.disturbed /\ InOrder(r) =>
       /\ s.pc \in Reading => InOrder(s)
       /\ s.pc = "lookup" => AllRead(s)

LEMMA TurnPageOrder ==
  ASSUME NEW r \in RunRecord, r.opt \in Options, r.at = catalogue,
         r.total \in {None, Len(r.at)}, Follows(r),
         FullUp(r) \/ Reached(r.at, ReadTo(r), r.next)
  PROVE  LET s == TurnPage(r) IN
         /\ s.pc \in Reading => InOrder(s)
         /\ s.pc = "lookup" => AllRead(s)
<1>1. CASE FullUp(r) \/ r.next = Stop
  <2> DEFINE s == [r EXCEPT !.pc = "lookup", !.page = <<>>, !.attempt = 1]
  <2>1. TurnPage(r) = s
    BY <1>1 DEF TurnPage
  <2>2. s.pc = "lookup" /\ s.opt = r.opt /\ s.at = r.at /\ s.details = r.details
    BY DEF RunRecord
  <2> HIDE DEF s
  <2>3. FullUp(r) \/ ReadTo(r) >= Len(r.at)
    BY <1>1 DEF Reached
  <2>4. AllRead(s)
    BY <2>2, <2>3 DEF AllRead, Follows, FullUp, ReadTo
  <2> QED BY <2>1, <2>2, <2>4 DEF Reading
<1>2. CASE ~(FullUp(r) \/ r.next = Stop)
  <2> DEFINE s == [r EXCEPT !.pc = "list", !.page = <<>>, !.attempt = 1, !.offset = r.next]
  <2>1. TurnPage(r) = s
    BY <1>2 DEF TurnPage
  <2>2. /\ s.pc = "list" /\ s.opt = r.opt /\ s.at = r.at /\ s.details = r.details
        /\ s.offset = r.next /\ s.total = r.total
    BY DEF RunRecord
  <2> HIDE DEF s
  <2>3. Follows(s) /\ ~FullUp(s) /\ Reached(s.at, ReadTo(s), s.offset)
    BY <1>2, <2>2 DEF Follows, FullUp, ReadTo
  <2>4. InOrder(s)
    BY <2>2, <2>3 DEF InOrder
  <2> QED BY <2>1, <2>2, <2>4
<1> QED BY <1>1, <1>2

LEMMA TurnPageSame ==
  ASSUME NEW r \in RunRecord
  PROVE  LET s == TurnPage(r) IN
         s.opt = r.opt /\ s.at = r.at /\ s.asOf = r.asOf /\ s.disturbed = r.disturbed
<1>1. LET s == [r EXCEPT !.pc = "lookup", !.page = <<>>, !.attempt = 1] IN
      s.opt = r.opt /\ s.at = r.at /\ s.asOf = r.asOf /\ s.disturbed = r.disturbed
  BY DEF RunRecord
<1>2. LET s == [r EXCEPT !.pc = "list", !.page = <<>>, !.attempt = 1, !.offset = r.next] IN
      s.opt = r.opt /\ s.at = r.at /\ s.asOf = r.asOf /\ s.disturbed = r.disturbed
  BY DEF RunRecord
<1> QED BY <1>1, <1>2 DEF TurnPage

LEMMA PageReadOrder ==
  ASSUME NEW r \in RunRecord, r.opt \in Options, r.pc = "detail"
  PROVE  LET s == PageRead(r) IN
         /\ s.opt = r.opt /\ s.at = r.at /\ s.asOf = r.asOf /\ s.disturbed = r.disturbed
         /\ InOrder(r) => /\ s.pc \in Reading => InOrder(s)
                          /\ s.pc = "lookup" => AllRead(s)
<1>1. CASE Len(r.page) = 0
  <2>1. PageRead(r) = TurnPage(r)
    BY <1>1 DEF PageRead
  <2>2. ReadTo(r) \in Nat
    BY NumbersOf
  <2>3. ASSUME InOrder(r)
        PROVE  /\ r.at = catalogue /\ r.total \in {None, Len(r.at)} /\ Follows(r)
               /\ FullUp(r) \/ Reached(r.at, ReadTo(r), r.next)
    <3>1. ReadTo(r) + Len(r.page) = ReadTo(r)
      BY <1>1, <2>2
    <3> QED BY <2>3, <3>1 DEF InOrder, PageFollows
  <2> QED BY <2>1, <2>3, TurnPageOrder, TurnPageSame
<1>2. CASE Len(r.page) # 0
  <2>1. PageRead(r) = r
    BY <1>2 DEF PageRead
  <2> QED BY <2>1
<1> QED BY <1>1, <1>2

LEMMA NextReached ==
  ASSUME Typed, NEW offset \in Nat, NEW total \in {None, Len(catalogue)}
  PROVE  LET p == ListPage(offset) IN
         /\ p.rows \in Seq(Nids) /\ Len(p.rows) \in Nat
         /\ p.total \in {None, Len(catalogue)}
         /\ \A i \in 1..Len(p.rows) :
              offset + i \in 1..Len(catalogue) /\ p.rows[i] = catalogue[offset + i]
         /\ offset < Len(catalogue) =>
              Reached(catalogue, offset + Len(p.rows), NextOffset(p, offset, total))
         /\ p.rows = <<>> => offset >= Len(catalogue)
<1> DEFINE p == ListPage(offset)
           n == Len(p.rows)
<1>1. catalogue \in Seq(Nids) /\ Len(catalogue) \in Nat /\ PageLimit \in Nat /\ PageLimit > 0
  BY ImportAssumption, LenProperties DEF Typed
<1> DEFINE rows == Slice(catalogue, offset, PageLimit)
           more == offset + PageLimit < Len(catalogue)
<1>2. /\ p.rows = rows
      /\ p.last = (Has("has_next") /\ ~more)
      /\ p.next = IF Has("next_offset") /\ more THEN offset + PageLimit ELSE None
      /\ p.total = IF Has("total") THEN Len(catalogue) ELSE None
  BY DEF ListPage
<1> HIDE DEF p
<1>3. /\ p.rows \in Seq(Nids)
      /\ \A i \in 1..Len(p.rows) :
           offset + i \in 1..Len(catalogue) /\ p.rows[i] = catalogue[offset + i]
  <2>1. /\ rows \in Seq(Nids)
        /\ \A i \in 1..Len(rows) :
             offset + i \in 1..Len(catalogue) /\ rows[i] = catalogue[offset + i]
    BY <1>1, SliceOf, Zenon
  <2> QED BY <1>2, <2>1, Zenon
<1>4. /\ n \in Nat /\ n <= PageLimit
      /\ offset <= Len(catalogue) => offset + n <= Len(catalogue)
      /\ n = PageLimit \/ offset + n >= Len(catalogue)
  <2>1. LET m == Len(rows) IN
         /\ m \in Nat /\ Len(catalogue) \in Nat /\ m <= PageLimit
         /\ offset <= Len(catalogue) => offset + m <= Len(catalogue)
         /\ m = PageLimit \/ offset + m >= Len(catalogue)
    BY <1>1, SliceLength, Zenon
  <2>2. n = Len(rows)
    BY <1>2
  <2> QED BY <2>1, <2>2, Zenon
<1> HIDE DEF rows
<1>5. /\ p.total \in {None, Len(catalogue)}
      /\ p.next \in {None, offset + PageLimit}
      /\ p.last => offset + PageLimit >= Len(catalogue)
  <2>1. p.total \in {None, Len(catalogue)} /\ p.next \in {None, offset + PageLimit}
    BY <1>2
  <2>2. ASSUME p.last PROVE ~more
    BY <1>2, <2>2
  <2>3. ~more => offset + PageLimit >= Len(catalogue)
    BY <1>1
  <2> QED BY <2>1, <2>2, <2>3
<1> DEFINE after == IF p.next # None THEN p.next ELSE offset + PageLimit
           short == Has("nids") /\ n > 0 /\ n < PageLimit
           stops == p.last \/ short \/ (total # None /\ after >= total)
<1>6. after = offset + PageLimit
  BY <1>5
<1>7. NextOffset(p, offset, total) = IF stops THEN Stop ELSE after
  BY DEF NextOffset
<1> HIDE DEF after
<1>8. stops => offset + n >= Len(catalogue)
  <2>1. CASE p.last
    BY <1>1, <1>4, <1>5, <2>1
  <2>2. CASE short
    BY <1>1, <1>4, <2>2
  <2>3. CASE total # None /\ after >= total
    <3>1. total = Len(catalogue) /\ offset + PageLimit >= Len(catalogue)
      BY <1>1, <1>6, <2>3
    <3> QED BY <1>1, <1>4, <3>1
  <2> QED BY <2>1, <2>2, <2>3
<1> HIDE DEF stops
<1>9. Reached(catalogue, offset + n, NextOffset(p, offset, total))
  <2>1. CASE stops
    BY <1>7, <1>8, <2>1 DEF Reached
  <2>2. CASE ~stops
    <3>1. NextOffset(p, offset, total) = offset + PageLimit /\ offset + PageLimit # Stop
      BY <1>1, <1>6, <1>7, <2>2 DEF Stop
    <3>2. CASE n = PageLimit
      BY <3>1, <3>2 DEF Reached
    <3>3. CASE offset + n >= Len(catalogue)
      <4>1. offset + PageLimit >= Len(catalogue)
        BY <1>1, <1>4, <3>3
      <4> QED BY <3>1, <3>3, <4>1 DEF Reached
    <3> QED BY <1>4, <3>2, <3>3
  <2> QED BY <2>1, <2>2
<1>10. p.rows = <<>> => offset >= Len(catalogue)
  <2>1. ASSUME p.rows = <<>> PROVE n = 0
    BY <2>1
  <2> QED BY <1>1, <1>4, <2>1
<1> QED BY <1>3, <1>4, <1>5, <1>9, <1>10 DEF p

LEMMA ReadPageOrder ==
  ASSUME Typed, NEW c \in Commands, ReadPage(c)
  PROVE  KeepsOrder(run[c], run'[c])
<1> DEFINE r == run[c]
           p == ListPage(r.offset)
           total == IF r.total = None THEN p.total ELSE r.total
           next == NextOffset(p, r.offset, total)
           known == [r EXCEPT !.total = total, !.attempt = 1, !.next = next]
           empty == [r EXCEPT !.pc = "lookup", !.total = total, !.attempt = 1]
           nids == [known EXCEPT !.pc = "detail", !.page = p.rows]
           new == Collected(r, Items(p.rows))
           read == [known EXCEPT !.details = new]
<1>1. /\ r \in RunRecord /\ r.pc = "list" /\ r.opt \in Options /\ r.offset \in Nat
      /\ r.total \in Nat \cup {None} /\ run \in [Commands -> RunRecord]
  BY DEF Typed, RunOK, ReadPage, RunRecord, Active, Reading
<1>2. /\ p.rows \in Seq(Nids) /\ Len(p.rows) \in Nat
      /\ p.next \in Nat \cup {None} /\ p.total \in Nat \cup {None}
  BY <1>1, ListPageTyped, LenProperties
<1>3. next \in Nat \cup {Stop} /\ total \in Nat \cup {None}
  BY <1>1, <1>2, NextOffsetTyped
<1>4. \/ p.rows = <<>> /\ Goes(c, empty)
      \/ p.rows # <<>> /\ Goes(c, nids)
      \/ p.rows # <<>> /\ Goes(c, TurnPage(read))
  BY DEF ReadPage
<1>5. ASSUME NEW s, Goes(c, s)
      PROVE  run'[c] = s
  BY <1>1, <1>5 DEF Goes
<1>6. ASSUME InOrder(r)
      PROVE  /\ r.at = catalogue /\ total \in {None, Len(r.at)} /\ Follows(r) /\ ~FullUp(r)
             /\ p.rows = <<>> => ReadTo(r) >= Len(r.at)
             /\ p.rows # <<>> => /\ Reached(r.at, ReadTo(r) + Len(p.rows), next)
                                 /\ \A i \in 1..Len(p.rows) :
                                      /\ ReadTo(r) + i \in 1..Len(r.at)
                                      /\ p.rows[i] = r.at[ReadTo(r) + i]
  <2>1. /\ r.at = catalogue /\ r.total \in {None, Len(catalogue)} /\ Follows(r) /\ ~FullUp(r)
        /\ Reached(catalogue, ReadTo(r), r.offset)
    BY <1>1, <1>6 DEF InOrder
  <2>2. Len(catalogue) \in Nat /\ ReadTo(r) \in Nat
    BY <1>1, <2>1, NumbersOf
  <2>3. total \in {None, Len(catalogue)}
    <3>1. p.total \in {None, Len(catalogue)}
      BY <1>1, NextReached
    <3> QED BY <2>1, <3>1
  <2>4. /\ \A i \in 1..Len(p.rows) :
             r.offset + i \in 1..Len(catalogue) /\ p.rows[i] = catalogue[r.offset + i]
        /\ r.offset < Len(catalogue) => Reached(catalogue, r.offset + Len(p.rows), next)
        /\ p.rows = <<>> => r.offset >= Len(catalogue)
    BY <1>1, <2>3, NextReached
  <2>5. r.offset = ReadTo(r) \/ (r.offset >= Len(catalogue) /\ ReadTo(r) >= Len(catalogue))
    BY <1>1, <2>1 DEF Reached, Stop
  <2>6. CASE p.rows = <<>>
    BY <1>1, <2>1, <2>2, <2>3, <2>4, <2>5, <2>6
  <2>7. CASE p.rows # <<>>
    <3>1. Len(p.rows) > 0
      BY <1>2, <2>7, EmptySeq
    <3>2. r.offset < Len(catalogue)
      <4>1. r.offset + 1 \in 1..Len(catalogue)
        BY <1>2, <2>4, <3>1
      <4> QED BY <1>1, <2>2, <4>1
    <3>3. r.offset = ReadTo(r)
      BY <1>1, <2>2, <2>5, <3>2
    <3> QED BY <2>1, <2>3, <2>4, <2>7, <3>2, <3>3
  <2> QED BY <2>6, <2>7
<1> HIDE DEF p, total, next
<1>7. CASE p.rows = <<>> /\ Goes(c, empty)
  <2>1. /\ empty.pc = "lookup" /\ empty.opt = r.opt /\ empty.at = r.at /\ empty.asOf = r.asOf
        /\ empty.details = r.details /\ empty.disturbed = r.disturbed
    BY <1>1 DEF RunRecord
  <2>2. run'[c] = empty
    BY <1>5, <1>7
  <2> HIDE DEF empty
  <2>3. InOrder(r) => AllRead(empty)
    BY <1>6, <1>7, <2>1 DEF AllRead, Follows, ReadTo
  <2> QED BY <2>1, <2>2, <2>3 DEF KeepsOrder, Reading
<1>8. CASE p.rows # <<>> /\ Goes(c, nids)
  <2>1. /\ nids.pc = "detail" /\ nids.opt = r.opt /\ nids.at = r.at /\ nids.asOf = r.asOf
        /\ nids.details = r.details /\ nids.disturbed = r.disturbed
        /\ nids.page = p.rows /\ nids.next = next /\ nids.total = total
    BY <1>1 DEF RunRecord
  <2>2. run'[c] = nids
    BY <1>5, <1>8
  <2> HIDE DEF nids
  <2>3. ReadTo(nids) = ReadTo(r)
    BY <2>1 DEF ReadTo
  <2>4. ASSUME InOrder(r)
        PROVE  InOrder(nids)
    <3>1. PageFollows(nids)
      BY <1>6, <1>8, <2>1, <2>3, <2>4 DEF PageFollows
    <3>2. Follows(nids)
      BY <1>6, <2>1, <2>4 DEF Follows
    <3> QED BY <1>6, <2>1, <2>4, <3>1, <3>2 DEF InOrder
  <2> QED BY <2>1, <2>2, <2>4 DEF KeepsOrder, Reading
<1>9. CASE p.rows # <<>> /\ Goes(c, TurnPage(read))
  <2>1. /\ Items(p.rows) \in Seq(ItemRecord) /\ Len(Items(p.rows)) = Len(p.rows)
        /\ \A i \in 1..Len(p.rows) : Items(p.rows)[i] = Item(p.rows[i])
    BY <1>2, ItemsOf DEF Typed
  <2>2. new \in Seq(ItemRecord)
    BY <1>1, <1>2, ItemsRead, CollectedGrows DEF Grown
  <2> HIDE DEF new
  <2>3. known \in RunRecord
    BY <1>1, <1>3 DEF RunRecord
  <2>4. read \in RunRecord
    BY <2>2, <2>3 DEF RunRecord
  <2>5. /\ read.opt = r.opt /\ read.at = r.at /\ read.asOf = r.asOf /\ read.details = new
        /\ read.disturbed = r.disturbed /\ read.next = next /\ read.total = total
    BY <1>1 DEF RunRecord
  <2>6. run'[c] = TurnPage(read)
    BY <1>5, <1>9
  <2> HIDE DEF read
  <2>7. /\ TurnPage(read).opt = r.opt /\ TurnPage(read).at = r.at
        /\ TurnPage(read).asOf = r.asOf /\ TurnPage(read).disturbed = r.disturbed
    BY <2>4, <2>5, TurnPageSame
  <2>8. ASSUME InOrder(r)
        PROVE  /\ TurnPage(read).pc \in Reading => InOrder(TurnPage(read))
               /\ TurnPage(read).pc = "lookup" => AllRead(TurnPage(read))
    <3>1. Continue(r, Items(p.rows))
      <4>1. ASSUME NEW i \in 1..Len(p.rows)
            PROVE  Items(p.rows)[i].source = p.rows[i]
        <5>1. Items(p.rows)[i] = Item(p.rows[i])
          BY <2>1
        <5>2. Item(p.rows[i]).source = p.rows[i]
          BY DEF Item
        <5> QED BY <5>1, <5>2
      <4>2. \A i \in 1..Len(p.rows) :
              ReadTo(r) + i \in 1..Len(r.at) /\ p.rows[i] = r.at[ReadTo(r) + i]
        BY <1>6, <1>9, <2>8
      <4> QED BY <2>1, <4>1, <4>2 DEF Continue
    <3>2. Follows(read) /\ (FullUp(read) \/ ReadTo(read) = ReadTo(r) + Len(p.rows))
      <4>1. read.details = Collected(r, Items(p.rows))
        BY <2>5 DEF new
      <4> QED BY <1>1, <1>6, <2>1, <2>5, <2>8, <3>1, <4>1, CollectedFollows
    <3>3. FullUp(read) \/ Reached(read.at, ReadTo(read), read.next)
      BY <1>6, <1>9, <2>5, <2>8, <3>2
    <3>4. read.opt \in Options /\ read.at = catalogue /\ read.total \in {None, Len(read.at)}
      BY <1>1, <1>6, <2>5, <2>8
    <3> QED BY <2>4, <3>2, <3>3, <3>4, TurnPageOrder
  <2> QED BY <2>6, <2>7, <2>8 DEF KeepsOrder
<1> QED BY <1>4, <1>7, <1>8, <1>9

LEMMA ReadDetailOrder ==
  ASSUME Typed, NEW c \in Commands, ReadDetail(c)
  PROVE  KeepsOrder(run[c], run'[c])
<1> DEFINE r == run[c]
           items == <<Item(Head(r.page))>>
           new == Collected(r, items)
           rest == Tail(r.page)
           read == [r EXCEPT !.details = new, !.page = rest, !.attempt = 1]
<1>1. /\ r \in RunRecord /\ r.pc = "detail" /\ r.opt \in Options
      /\ r.page \in Seq(Nids) /\ r.page # <<>> /\ run \in [Commands -> RunRecord]
  BY DEF Typed, RunOK, ReadDetail, RunRecord, Active, Reading
<1>2. /\ Head(r.page) \in Nids /\ rest \in Seq(Nids) /\ Len(r.page) \in Nat /\ Len(r.page) > 0
      /\ Head(r.page) = r.page[1] /\ Len(rest) = Len(r.page) - 1
      /\ \A i \in 1..Len(rest) : rest[i] = r.page[i + 1]
  <2>1. Len(r.page) \in Nat /\ Len(r.page) > 0 /\ Head(r.page) = r.page[1]
    BY <1>1, EmptySeq, LenProperties
  <2> QED BY <1>1, <2>1, HeadTailProperties
<1>3. Item(Head(r.page)) \in ItemRecord /\ Item(Head(r.page)).source = r.page[1]
  BY <1>2 DEF Item, ItemRecord, Typed
<1>4. /\ items \in Seq(ItemRecord) /\ Len(items) = 1 /\ items[1].source = r.page[1]
      /\ \A i \in 1..Len(items) : items[i].version = version[items[i].source]
  BY <1>3 DEF Item
<1> HIDE DEF items
<1>5. new \in Seq(ItemRecord)
  BY <1>1, <1>4, CollectedGrows DEF Grown
<1>6. Goes(c, PageRead(read))
  BY DEF ReadDetail, items
<1>7. run'[c] = PageRead(read)
  BY <1>1, <1>6 DEF Goes
<1> HIDE DEF new, rest
<1>8. /\ read \in RunRecord /\ read.opt = r.opt /\ read.pc = r.pc /\ read.details = new
      /\ read.at = r.at /\ read.asOf = r.asOf /\ read.disturbed = r.disturbed
      /\ read.total = r.total /\ read.next = r.next /\ read.page = rest
  BY <1>1, <1>2, <1>5 DEF RunRecord
<1> HIDE DEF read
<1>9. ASSUME InOrder(r)
      PROVE  InOrder(read)
  <2>1. /\ r.at = catalogue /\ r.total \in {None, Len(r.at)} /\ Follows(r)
        /\ FullUp(r) \/ PageFollows(r)
    BY <1>1, <1>9 DEF InOrder
  <2>2. ReadTo(r) \in Nat
    BY <1>1, NumbersOf
  <2>3. ASSUME ~FullUp(r)
        PROVE  Continue(r, items)
    <3>1. ReadTo(r) + 1 \in 1..Len(r.at) /\ r.page[1] = r.at[ReadTo(r) + 1]
      BY <1>2, <2>1, <2>3 DEF PageFollows
    <3> QED BY <1>4, <3>1 DEF Continue
  <2>4. /\ Follows(read) /\ (FullUp(r) => FullUp(read))
        /\ FullUp(read) \/ ReadTo(read) = ReadTo(r) + Len(items)
    <3>1. read.details = Collected(r, items)
      BY <1>8 DEF new
    <3> QED BY <1>1, <1>4, <1>8, <2>1, <2>3, <3>1, CollectedFollows
  <2>5. ASSUME ~FullUp(read)
        PROVE  PageFollows(read)
    <3>1. ReadTo(read) = ReadTo(r) + 1 /\ PageFollows(r)
      BY <1>4, <2>1, <2>4, <2>5
    <3>2. ReadTo(read) + Len(rest) = ReadTo(r) + Len(r.page)
      BY <1>2, <2>2, <3>1
    <3>3. ASSUME NEW i \in 1..Len(rest)
          PROVE  ReadTo(read) + i \in 1..Len(r.at) /\ rest[i] = r.at[ReadTo(read) + i]
      <4>1. /\ i + 1 \in 1..Len(r.page) /\ rest[i] = r.page[i + 1]
            /\ ReadTo(read) + i = ReadTo(r) + (i + 1)
        <5>1. i + 1 \in 1..Len(r.page) /\ i \in Nat
          BY <1>2
        <5>2. rest[i] = r.page[i + 1]
          BY <1>2
        <5>3. ReadTo(read) + i = ReadTo(r) + (i + 1)
          BY <2>2, <3>1, <5>1
        <5> QED BY <5>1, <5>2, <5>3
      <4> QED BY <3>1, <4>1 DEF PageFollows
    <3>4. Reached(r.at, ReadTo(read) + Len(rest), r.next)
      BY <3>1, <3>2 DEF PageFollows
    <3> QED BY <1>8, <3>3, <3>4 DEF PageFollows
  <2> QED BY <1>1, <1>8, <2>1, <2>4, <2>5 DEF InOrder
<1>10. /\ PageRead(read).opt = r.opt /\ PageRead(read).at = r.at
       /\ PageRead(read).asOf = r.asOf /\ PageRead(read).disturbed = r.disturbed
  BY <1>1, <1>8, PageReadOrder
<1>11. InOrder(read) => /\ PageRead(read).pc \in Reading => InOrder(PageRead(read))
                        /\ PageRead(read).pc = "lookup" => AllRead(PageRead(read))
  BY <1>1, <1>8, PageReadOrder
<1> QED BY <1>7, <1>9, <1>10, <1>11 DEF KeepsOrder

LEMMA AttemptFailsOrder ==
  ASSUME Typed, NEW c \in Commands, AttemptFails(c)
  PROVE  KeepsOrder(run[c], run'[c])
<1> DEFINE r == run[c]
           skip == [r EXCEPT !.page = Tail(@), !.attempt = 1, !.disturbed = TRUE]
           stop == [r EXCEPT !.pc = "aborted"]
<1>1. /\ r \in RunRecord /\ r.pc \in Reading /\ r.opt \in Options
      /\ r.page \in Seq(Nids) /\ run \in [Commands -> RunRecord]
      /\ r.pc = "detail" => r.page # <<>>
  BY DEF Typed, RunOK, AttemptFails, RunRecord, Active
<1>2. \/ Goes(c, NextAttempt(r))
      \/ Goes(c, stop)
      \/ r.pc = "detail" /\ Goes(c, PageRead(skip))
  BY <1>1 DEF AttemptFails, Reading
<1>3. ASSUME NEW s, Goes(c, s)
      PROVE  run'[c] = s
  BY <1>1, <1>3 DEF Goes
<1>4. CASE Goes(c, NextAttempt(r))
  <2> DEFINE s == NextAttempt(r)
  <2>1. /\ s.pc = r.pc /\ s.opt = r.opt /\ s.at = r.at /\ s.asOf = r.asOf
        /\ s.disturbed = r.disturbed /\ s.details = r.details /\ s.page = r.page
        /\ s.offset = r.offset /\ s.next = r.next /\ s.total = r.total
    BY <1>1 DEF NextAttempt, RunRecord
  <2>2. run'[c] = s
    BY <1>3, <1>4
  <2> HIDE DEF s
  <2>3. ReadTo(s) = ReadTo(r) /\ (FullUp(s) <=> FullUp(r)) /\ (Follows(r) => Follows(s))
    BY <2>1 DEF ReadTo, FullUp, Follows
  <2>4. PageFollows(r) => PageFollows(s)
    BY <2>1, <2>3 DEF PageFollows
  <2>5. InOrder(r) => InOrder(s)
    BY <2>1, <2>3, <2>4 DEF InOrder
  <2> QED BY <1>1, <2>1, <2>2, <2>5 DEF KeepsOrder, Reading
<1>5. CASE Goes(c, stop)
  <2>1. /\ stop.pc = "aborted" /\ stop.opt = r.opt /\ stop.at = r.at /\ stop.asOf = r.asOf
        /\ stop.disturbed = r.disturbed
    BY <1>1 DEF RunRecord
  <2>2. run'[c] = stop
    BY <1>3, <1>5
  <2> HIDE DEF stop
  <2> QED BY <2>1, <2>2 DEF KeepsOrder, Reading
<1>6. CASE r.pc = "detail" /\ Goes(c, PageRead(skip))
  <2>1. Tail(r.page) \in Seq(Nids)
    BY <1>1, <1>6, HeadTailProperties
  <2>2. /\ skip \in RunRecord /\ skip.pc = r.pc /\ skip.opt = r.opt /\ skip.at = r.at
        /\ skip.asOf = r.asOf /\ skip.disturbed = TRUE
    BY <1>1, <2>1 DEF RunRecord
  <2> HIDE DEF skip
  <2>3. /\ PageRead(skip).opt = r.opt /\ PageRead(skip).at = r.at
        /\ PageRead(skip).asOf = r.asOf /\ PageRead(skip).disturbed = TRUE
    BY <1>1, <1>6, <2>2, PageReadOrder
  <2>4. run'[c] = PageRead(skip)
    BY <1>3, <1>6
  <2> QED BY <2>3, <2>4 DEF KeepsOrder
<1> QED BY <1>2, <1>4, <1>5, <1>6

-----------------------------------------------------------------------------
(* What has been read is written, and stays.                               *)

\* No two products of the shop share a SKU.
DistinctSkus == \A m, n \in Nids : SkuOf[m] = SkuOf[n] /\ SkuOf[m] # NoSku => m = n

\* The products the command was asked for, and those it holds.
Wants(r, n) == \E i \in DOMAIN Wanted(r.at, r.opt) : Wanted(r.at, r.opt)[i] = n

Held(r, n) == \E i \in 1..Len(r.details) : r.details[i].source = n

\* What a command holds is no older than its start, which is past.
Recent(r) == \A i \in 1..Len(r.details) : r.details[i].version >= r.asOf[r.details[i].source]

Since(r) == \A n \in Nids : r.asOf[n] <= version[n]

\* The command has read everything and writes what it has read.
Writes(r) ==
  r.pc \in {"lookup", "save", "done"} /\ ~r.disturbed /\ r.opt.update /\ ~r.opt.dry

\* The command has missed nothing, neither of what it reads nor of what it writes.
Sound(r) ==
  /\ r.pc \in Reading /\ ~r.disturbed => InOrder(r)
  /\ r.pc \in Active => Recent(r)
  /\ r.pc \in Active \cup {"done"} => Since(r)
  /\ Writes(r) => \A n \in Nids : Wants(r, n) => Held(r, n) \/ Present(n, r.asOf[n])
  /\ r.pc = "done" => r.details = <<>> /\ r.opt \in Options
  /\ r.pc = "save" /\ r.node # 0 => nodes[r.node].source = Head(r.details).source

\* A command that has ended started before one under way.
Elders ==
  \A c, d \in Commands :
    run[c].pc \in Active /\ run[d].pc = "done" => \A n \in Nids : run[d].asOf[n] <= run[c].asOf[n]

NodesNamed == \A i \in 1..Len(nodes) : nodes[i].sku = SkuOf[nodes[i].source]

Imports == NodesNamed /\ Elders /\ \A c \in Commands : Sound(run[c])

LEMMA AllReadHeld ==
  ASSUME NEW r \in RunRecord, r.opt \in Options, AllRead(r), NEW n, Wants(r, n)
  PROVE  Held(r, n)
<1> DEFINE count == IF r.opt.limit > 0 THEN r.opt.limit ELSE Len(r.at)
           wanted == Slice(r.at, r.opt.offset, count)
<1>1. /\ r.opt.limit \in Nat /\ r.opt.offset \in Nat /\ Len(r.details) \in Nat
      /\ Len(r.at) \in Nat /\ r.at \in Seq(Nids) /\ count \in Nat
  BY NumbersOf
<1>2. Wanted(r.at, r.opt) = wanted
  BY DEF Wanted
<1>3. /\ wanted \in Seq(Nids)
      /\ \A i \in 1..Len(wanted) :
           r.opt.offset + i \in 1..Len(r.at) /\ wanted[i] = r.at[r.opt.offset + i]
  <2>1. r.at \in Seq(Nids) /\ r.opt.offset \in Nat /\ count \in Nat
    BY <1>1
  <2> HIDE DEF count
  <2> QED BY <2>1, SliceOf
<1>4. Len(wanted) \in Nat /\ Len(wanted) <= count
  <2>1. LET k == Len(wanted) IN
         /\ k \in Nat /\ Len(r.at) \in Nat /\ k <= count
    BY <1>1, SliceLength, Zenon
  <2> QED BY <2>1
<1>5. DOMAIN wanted = 1..Len(wanted)
  BY <1>3, LenProperties
<1>6. PICK i \in 1..Len(wanted) : wanted[i] = n
  BY <1>2, <1>5 DEF Wants
<1> HIDE DEF wanted
<1>7. i \in 1..Len(r.details)
  <2>1. i \in Nat /\ i >= 1 /\ i <= count /\ r.opt.offset + i <= Len(r.at)
    BY <1>1, <1>3, <1>4
  <2>2. CASE FullUp(r)
    BY <1>1, <2>1, <2>2 DEF FullUp
  <2>3. CASE ReadTo(r) >= Len(r.at)
    BY <1>1, <2>1, <2>3 DEF ReadTo
  <2> QED BY <2>2, <2>3 DEF AllRead
<1>8. r.details[i].source = n
  BY <1>3, <1>6, <1>7 DEF AllRead, Follows
<1> QED BY <1>7, <1>8 DEF Held

LEMMA FileHeld ==
  ASSUME Typed, NEW o \in Options, NEW s, s.at = catalogue, s.opt = o,
         s.details = Items(Wanted(catalogue, o)), NEW n, Wants(s, n)
  PROVE  Held(s, n)
<1> DEFINE wanted == Wanted(catalogue, o)
<1>1. wanted \in Seq(Nids)
  <2> DEFINE count == IF o.limit > 0 THEN o.limit ELSE Len(catalogue)
  <2>1. catalogue \in Seq(Nids) /\ o.offset \in Nat /\ count \in Nat
    BY ImportAssumption, LenProperties DEF Typed
  <2>2. Slice(catalogue, o.offset, count) \in Seq(Nids)
    BY <2>1, SliceOf, Zenon
  <2> QED BY <2>2 DEF Wanted
<1>2. PICK i \in DOMAIN wanted : wanted[i] = n
  BY DEF Wants
<1> HIDE DEF wanted
<1>3. /\ Len(Items(wanted)) = Len(wanted) /\ DOMAIN wanted = 1..Len(wanted)
      /\ \A j \in 1..Len(wanted) : Items(wanted)[j] = Item(wanted[j])
  BY <1>1, ItemsOf, LenProperties DEF Typed
<1>4. s.details[i].source = n /\ i \in 1..Len(s.details)
  <2>1. Items(wanted)[i] = Item(wanted[i]) /\ i \in 1..Len(Items(wanted))
    BY <1>2, <1>3
  <2>2. Item(wanted[i]).source = wanted[i]
    BY DEF Item
  <2> QED BY <1>2, <2>1, <2>2 DEF wanted
<1> QED BY <1>4 DEF Held

LEMMA GoesImports ==
  ASSUME Typed, Imports, NEW c \in Commands, NEW s, Goes(c, s), RunOK(s), Sound(s),
         UNCHANGED <<catalogue, version, nodes>>,
         s.pc \in Active => \/ run[c].pc \in Active /\ s.asOf = run[c].asOf
                            \/ s.asOf = version,
         s.pc = "done" => \A d \in Commands : d # c => run[d].pc \notin Active
  PROVE  Imports'
<1>1. run'[c] = s /\ \A d \in Commands : d # c => run'[d] = run[d]
  BY GoesTyped
<1>2. NodesNamed'
  BY DEF Imports, NodesNamed
<1>3. ASSUME NEW r, Sound(r)
      PROVE  Sound(r)'
  BY <1>3 DEF Sound, InOrder, Since, Present
<1>4. ASSUME NEW d \in Commands
      PROVE  Sound(run[d])'
  <2>1. CASE d = c
    <3>1. Sound(s)'
      BY <1>3
    <3> QED BY <1>1, <2>1, <3>1
  <2>2. CASE d # c
    <3>1. PICK r : r = run[d]
      OBVIOUS
    <3>2. Sound(r)' /\ run'[d] = r
      BY <1>1, <1>3, <2>2, <3>1 DEF Imports
    <3> QED BY <3>2
  <2> QED BY <2>1, <2>2
<1>5. ASSUME NEW e \in Commands, NEW d \in Commands, run'[e].pc \in Active,
             run'[d].pc = "done", NEW n \in Nids
      PROVE  run'[d].asOf[n] <= run'[e].asOf[n]
  <2>0. e # d
    BY <1>5 DEF Active, Reading
  <2>1. CASE e = c
    <3>1. run'[d] = run[d] /\ run[d].pc = "done" /\ Since(run[d])
      BY <1>1, <1>5, <2>0, <2>1 DEF Imports, Sound
    <3>2. CASE run[c].pc \in Active /\ s.asOf = run[c].asOf
      BY <1>1, <2>1, <3>1, <3>2 DEF Imports, Elders
    <3>3. CASE s.asOf = version
      BY <1>1, <2>1, <3>1, <3>3 DEF Since
    <3> QED BY <1>1, <1>5, <2>1, <3>2, <3>3
  <2>2. CASE d = c
    BY <1>1, <1>5, <2>0, <2>2
  <2>3. CASE e # c /\ d # c
    BY <1>1, <1>5, <2>3 DEF Imports, Elders
  <2> QED BY <2>1, <2>2, <2>3
<1>6. Elders'
  BY <1>5 DEF Elders
<1> QED BY <1>2, <1>4, <1>6 DEF Imports

LEMMA GrownRecent ==
  ASSUME Typed, NEW r, RunOK(r), Recent(r), Since(r), NEW s, s.asOf = r.asOf,
         Grown(r.details, s.details)
  PROVE  Recent(s)
<1>1. /\ r.details \in Seq(ItemRecord) /\ r.asOf \in [Nids -> Nat]
      /\ s.details \in Seq(ItemRecord)
  BY DEF RunOK, RunRecord, Grown
<1>2. ASSUME NEW i \in 1..Len(s.details)
      PROVE  s.details[i].version >= r.asOf[s.details[i].source]
  <2>1. /\ s.details[i].version \in Nat /\ s.details[i].source \in Nids
        /\ Len(s.details) \in Nat /\ Len(r.details) \in Nat
    BY <1>1, ItemAt, LenProperties
  <2>2. CASE i <= Len(r.details) /\ s.details[i] = r.details[i]
    <3>1. i \in 1..Len(r.details)
      BY <2>1, <2>2
    <3> QED BY <2>2, <3>1 DEF Recent
  <2>3. CASE s.details[i].version = version[s.details[i].source]
    <3>1. r.asOf[s.details[i].source] <= version[s.details[i].source]
      BY <2>1 DEF Since
    <3>2. r.asOf[s.details[i].source] \in Nat
      BY <1>1, <2>1
    <3> QED BY <2>1, <2>3, <3>1, <3>2
  <2> QED BY <2>2, <2>3 DEF Grown
<1> QED BY <1>2 DEF Recent

LEMMA ReadingImports ==
  ASSUME Typed, Imports, NEW c \in Commands, ReadPage(c) \/ ReadDetail(c) \/ AttemptFails(c)
  PROVE  Imports'
<1>1. run[c].pc \in Reading /\ ReadStep(c, run[c]) /\ KeepsOrder(run[c], run'[c])
  BY ReadPageReads, ReadDetailReads, AttemptFailsReads, ReadPageOrder, ReadDetailOrder,
     AttemptFailsOrder DEF Reading
<1>2. PICK s : /\ Goes(c, s) /\ ReadOn(run[c], s) /\ Grown(run[c].details, s.details)
               /\ OnlyReads
  BY <1>1 DEF ReadStep
<1>3. RunOK(s) /\ UNCHANGED <<catalogue, version, nodes>>
  BY <1>2 DEF ReadOn, OnlyReads
<1>4. KeepsOrder(run[c], s)
  <2>1. run'[c] = s
    BY <1>2, <1>3, GoesTyped
  <2> QED BY <1>1, <2>1
<1>5. /\ RunOK(run[c]) /\ Recent(run[c]) /\ Since(run[c]) /\ run[c].pc \in Active
      /\ ~run[c].disturbed => InOrder(run[c])
  BY <1>1 DEF Typed, Imports, Sound, Active
<1>6. s.pc \in Reading \cup {"lookup", "aborted"} /\ s.asOf = run[c].asOf /\ s.opt \in Options
  BY <1>2, <1>4, <1>5 DEF ReadOn, KeepsOrder, RunOK
<1>7. Recent(s) /\ Since(s)
  BY <1>2, <1>5, <1>6, GrownRecent DEF Since
<1>8. /\ s.pc \in Reading /\ ~s.disturbed => InOrder(s)
      /\ s.pc = "lookup" /\ ~s.disturbed => AllRead(s)
  BY <1>4, <1>5 DEF KeepsOrder
<1>9. ASSUME Writes(s), NEW n \in Nids, Wants(s, n)
      PROVE  Held(s, n)
  <2>1. AllRead(s) /\ s \in RunRecord
    BY <1>3, <1>6, <1>8, <1>9 DEF Writes, Reading, RunOK
  <2> QED BY <1>6, <1>9, <2>1, AllReadHeld
<1>10. Sound(s)
  BY <1>6, <1>7, <1>8, <1>9 DEF Sound, Reading
<1>11. s.pc # "done"
  BY <1>6 DEF Reading
<1> QED BY <1>2, <1>3, <1>5, <1>6, <1>10, <1>11, GoesImports

LEMMA StartImports ==
  ASSUME Typed, Imports, NEW c \in Commands, Start(c) \/ StartFromFile(c)
  PROVE  Imports'
<1>1. UNCHANGED <<catalogue, version, nodes>>
  BY StartReads
<1>2. catalogue \in Seq(Nids) /\ version \in [Nids -> Nat] /\ Len(catalogue) \in Nat
  BY LenProperties DEF Typed
<1>3. ASSUME NEW o \in Options
      PROVE  LET s == StartState(o) IN
             /\ s \in RunRecord /\ s.pc = "list" /\ s.opt = o /\ s.details = <<>>
             /\ s.at = catalogue /\ s.asOf = version /\ s.total = None
             /\ s.offset = o.offset /\ s.disturbed = FALSE
  <2>1. o.offset \in Nat /\ Idle.total = None /\ Idle.disturbed = FALSE
    BY ImportAssumption DEF Idle
  <2> QED BY <1>2, <2>1, IdleTyped DEF StartState, RunRecord, Steps, Active, Reading
<1>4. \A n \in Nids : version[n] <= version[n]
  BY <1>2
<1>5. CASE Start(c)
  <2>1. PICK o \in Options : Goes(c, StartState(o))
    BY <1>5 DEF Start
  <2>2. PICK s : s = StartState(o)
    OBVIOUS
  <2>3. /\ s \in RunRecord /\ s.pc = "list" /\ s.opt = o /\ s.details = <<>>
        /\ s.at = catalogue /\ s.asOf = version /\ s.total = None /\ s.offset = o.offset
        /\ s.disturbed = FALSE /\ o.offset \in Nat /\ o.limit \in Nat /\ Len(s.details) = 0
    <3>1. o.offset \in Nat /\ o.limit \in Nat
      BY ImportAssumption
    <3>2. /\ s \in RunRecord /\ s.pc = "list" /\ s.opt = o /\ s.details = <<>>
          /\ s.at = catalogue /\ s.asOf = version /\ s.total = None /\ s.offset = o.offset
          /\ s.disturbed = FALSE
      BY <1>3, <2>2, Zenon
    <3> QED BY <3>1, <3>2
  <2>4. RunOK(s) /\ Goes(c, s)
    BY <2>1, <2>2, <2>3 DEF RunOK
  <2>5. Follows(s) /\ ~FullUp(s) /\ ReadTo(s) = s.offset
    BY <2>3 DEF Follows, FullUp, ReadTo
  <2>6. Reached(s.at, ReadTo(s), s.offset)
    BY <2>3, <2>5 DEF Reached, Stop
  <2>7. InOrder(s)
    BY <2>3, <2>5, <2>6 DEF InOrder
  <2>8. Recent(s) /\ Since(s)
    BY <1>4, <2>3 DEF Recent, Since
  <2>9. Sound(s)
    BY <2>3, <2>7, <2>8 DEF Sound, Writes
  <2> QED BY <1>1, <2>3, <2>4, <2>9, GoesImports
<1>6. CASE StartFromFile(c)
  <2>1. PICK o \in Options : Goes(c, [StartState(o) EXCEPT !.pc = "lookup",
                                        !.details = Items(Wanted(catalogue, o))])
    BY <1>6 DEF StartFromFile
  <2> DEFINE items == Items(Wanted(catalogue, o))
  <2>2. PICK s : s = [StartState(o) EXCEPT !.pc = "lookup", !.details = items]
    OBVIOUS
  <2>3. PICK t : t = StartState(o)
    OBVIOUS
  <2>4. /\ t \in RunRecord /\ t.opt = o /\ t.at = catalogue /\ t.asOf = version
    BY <1>3, <2>3
  <2>5. s = [t EXCEPT !.pc = "lookup", !.details = items]
    BY <2>2, <2>3
  <2>6. /\ items \in Seq(ItemRecord)
        /\ \A i \in 1..Len(items) : items[i].version = version[items[i].source]
    <3> DEFINE count == IF o.limit > 0 THEN o.limit ELSE Len(catalogue)
    <3>1. catalogue \in Seq(Nids) /\ o.offset \in Nat /\ count \in Nat
      BY <1>2, ImportAssumption
    <3>2. Slice(catalogue, o.offset, count) \in Seq(Nids)
      BY <3>1, SliceOf, Zenon
    <3> QED BY <3>2, ItemsRead DEF Wanted
  <2> HIDE DEF items
  <2>7. /\ s \in RunRecord /\ s.pc = "lookup" /\ s.opt = o /\ s.details = items
        /\ s.at = catalogue /\ s.asOf = version
    BY <2>4, <2>5, <2>6 DEF RunRecord, Steps, Active
  <2>8. RunOK(s) /\ Goes(c, s)
    BY <2>1, <2>2, <2>7 DEF RunOK, items
  <2>9. \A i \in 1..Len(items) : version[items[i].source] \in Nat
    BY <1>2, <2>6, ItemAt
  <2>10. Recent(s) /\ Since(s)
    BY <1>4, <2>6, <2>7, <2>9 DEF Recent, Since
  <2>11. \A n \in Nids : Wants(s, n) => Held(s, n)
    BY <2>7, FileHeld DEF items
  <2>12. Sound(s)
    BY <2>7, <2>10, <2>11 DEF Sound, Reading
  <2> QED BY <1>1, <2>7, <2>8, <2>12, GoesImports
<1> QED BY <1>5, <1>6

\* The command without the first of its items.
Shorter(r, s) ==
  s.opt = r.opt /\ s.at = r.at /\ s.asOf = r.asOf /\ s.details = Tail(r.details)

LEMMA ShorterHolds ==
  ASSUME NEW r \in RunRecord, r.details # <<>>, NEW s, Shorter(r, s)
  PROVE  /\ Recent(r) => Recent(s)
         /\ Since(r) => Since(s)
         /\ \A n : Wants(s, n) => Wants(r, n)
         /\ \A n : Held(r, n) => n = Head(r.details).source \/ Held(s, n)
<1>1. r.details \in Seq(ItemRecord)
  BY DEF RunRecord
<1>2. /\ Len(r.details) \in Nat /\ Len(r.details) > 0 /\ Head(r.details) = r.details[1]
      /\ Len(s.details) = Len(r.details) - 1
      /\ \A i \in 1..Len(s.details) : s.details[i] = r.details[i + 1]
  <2>1. Len(r.details) \in Nat /\ Len(r.details) > 0 /\ Head(r.details) = r.details[1]
    BY <1>1, EmptySeq, LenProperties
  <2> QED BY <1>1, <2>1, HeadTailProperties DEF Shorter
<1>3. ASSUME Recent(r)
      PROVE  Recent(s)
  <2>1. ASSUME NEW i \in 1..Len(s.details)
        PROVE  s.details[i].version >= s.asOf[s.details[i].source]
    <3>1. i + 1 \in 1..Len(r.details) /\ s.details[i] = r.details[i + 1] /\ s.asOf = r.asOf
      BY <1>2 DEF Shorter
    <3> QED BY <1>3, <3>1 DEF Recent
  <2> QED BY <2>1 DEF Recent
<1>4. ASSUME NEW n, Held(r, n), n # Head(r.details).source
      PROVE  Held(s, n)
  <2>1. PICK i \in 1..Len(r.details) : r.details[i].source = n
    BY <1>4 DEF Held
  <2>2. i # 1
    BY <1>2, <1>4, <2>1
  <2>3. i - 1 \in 1..Len(s.details) /\ (i - 1) + 1 = i
    BY <1>2, <2>2
  <2>4. s.details[i - 1] = r.details[i]
    BY <1>2, <2>3
  <2> QED BY <2>1, <2>3, <2>4 DEF Held
<1> QED BY <1>3, <1>4 DEF Shorter, Since, Wants

LEMMA NextItemShorter ==
  ASSUME NEW r \in RunRecord
  PROVE  /\ Shorter(r, NextItem(r)) /\ NextItem(r).disturbed = r.disturbed
         /\ Shorter(r, [NextItem(r) EXCEPT !.disturbed = TRUE])
         /\ [NextItem(r) EXCEPT !.disturbed = TRUE].disturbed = TRUE
  BY DEF NextItem, Shorter, RunRecord

LEMMA LookupImports ==
  ASSUME Typed, Imports, DistinctSkus, NEW c \in Commands, Lookup(c)
  PROVE  Imports'
<1> DEFINE r == run[c]
           sku == SkuOf[Head(r.details).source]
<1>1. /\ r.pc = "lookup" /\ r.details # <<>> /\ r \in RunRecord /\ r.opt \in Options
      /\ RunOK(r) /\ r.pc \in Active /\ Sound(r) /\ UNCHANGED <<catalogue, version, nodes>>
  BY DEF Lookup, OnlyReads, Typed, RunOK, Active, Imports
<1>2. PICK i \in LoadBySku(sku) :
        Goes(c, IF r.opt.dry \/ (i # 0 /\ ~r.opt.update)
                THEN NextItem(r) ELSE [r EXCEPT !.pc = "save", !.node = i])
  BY DEF Lookup
<1>3. CASE r.opt.dry \/ (i # 0 /\ ~r.opt.update)
  <2>1. PICK s : s = NextItem(r)
    OBVIOUS
  <2>2. /\ Goes(c, s) /\ RunOK(s) /\ s.pc = "lookup" /\ Shorter(r, s)
        /\ s.opt = r.opt /\ s.asOf = r.asOf
    BY <1>1, <1>2, <1>3, <2>1, NextItemTyped, NextItemShorter DEF Shorter
  <2>3. Recent(s) /\ Since(s)
    BY <1>1, <2>2, ShorterHolds DEF Sound
  <2>4. ~Writes(s)
    BY <1>3, <2>2 DEF Writes
  <2>5. Sound(s)
    BY <2>2, <2>3, <2>4 DEF Sound, Reading
  <2> QED BY <1>1, <2>2, <2>5, GoesImports
<1>4. CASE ~(r.opt.dry \/ (i # 0 /\ ~r.opt.update))
  <2>1. PICK s : s = [r EXCEPT !.pc = "save", !.node = i]
    OBVIOUS
  <2>2. Len(nodes) \in Nat /\ DOMAIN nodes = 1..Len(nodes)
    BY LenProperties DEF Typed
  <2>3. i \in Nat /\ (i # 0 => i \in 1..Len(nodes) /\ nodes[i].sku = sku /\ sku # NoSku)
    BY <2>2 DEF LoadBySku, WithSku
  <2>4. /\ s \in RunRecord /\ s.pc = "save" /\ s.node = i /\ s.details = r.details
        /\ s.opt = r.opt /\ s.at = r.at /\ s.asOf = r.asOf /\ s.disturbed = r.disturbed
    BY <1>1, <2>1, <2>3 DEF RunRecord, Steps, Active
  <2>5. RunOK(s) /\ Goes(c, s)
    BY <1>1, <1>2, <1>4, <2>1, <2>4 DEF RunOK
  <2>6. Recent(s) /\ Since(s)
    BY <1>1, <2>4 DEF Sound, Recent, Since
  <2>7. ASSUME Writes(s), NEW n \in Nids, Wants(s, n)
        PROVE  Held(s, n) \/ Present(n, s.asOf[n])
    <3>1. Writes(r) /\ Wants(r, n)
      BY <1>1, <2>4, <2>7 DEF Writes, Wants
    <3>2. Held(r, n) \/ Present(n, r.asOf[n])
      BY <1>1, <3>1 DEF Sound
    <3> QED BY <2>4, <3>2 DEF Held
  <2>8. ASSUME i # 0
        PROVE  nodes[i].source = Head(r.details).source
    <3>1. Head(r.details).source \in Nids /\ nodes[i].source \in Nids
      BY <1>1, <2>3, <2>8, HeadOf, NodeAt
    <3>2. SkuOf[nodes[i].source] = SkuOf[Head(r.details).source] /\ SkuOf[nodes[i].source] # NoSku
      BY <2>3, <2>8 DEF Imports, NodesNamed
    <3> QED BY <3>1, <3>2 DEF DistinctSkus
  <2>9. Sound(s)
    BY <2>4, <2>6, <2>7, <2>8 DEF Sound, Reading
  <2> QED BY <1>1, <2>4, <2>5, <2>9, GoesImports
<1> QED BY <1>3, <1>4

LEMMA EndImports ==
  ASSUME Typed, Imports, Alone, NEW c \in Commands, SaveFails(c) \/ Finish(c) \/ Kill(c)
  PROVE  Imports'
<1> DEFINE r == run[c]
<1>1. /\ r \in RunRecord /\ RunOK(r) /\ Sound(r)
      /\ UNCHANGED <<catalogue, version, nodes>>
  BY DEF SaveFails, Finish, Kill, OnlyReads, Typed, Imports
<1>2. CASE SaveFails(c)
  <2>1. PICK s : s = [NextItem(r) EXCEPT !.disturbed = TRUE]
    OBVIOUS
  <2>2. r.pc = "save" /\ Goes(c, s) /\ r.details # <<>> /\ r.pc \in Active
    BY <1>1, <1>2, <2>1 DEF SaveFails, RunOK, Active
  <2>3. /\ RunOK(s) /\ s.pc = "lookup" /\ Shorter(r, s) /\ s.disturbed = TRUE
        /\ s.asOf = r.asOf
    BY <1>1, <2>1, <2>2, NextItemTyped, NextItemShorter DEF Shorter
  <2>4. Recent(s) /\ Since(s)
    BY <1>1, <2>2, <2>3, ShorterHolds DEF Sound
  <2>5. Sound(s)
    BY <2>3, <2>4 DEF Sound, Reading, Writes
  <2> QED BY <1>1, <2>2, <2>3, <2>5, GoesImports
<1>3. CASE Finish(c)
  <2>1. PICK s : s = [r EXCEPT !.pc = "done", !.offset = 0, !.next = Stop, !.total = None]
    OBVIOUS
  <2>2. r.pc = "lookup" /\ r.details = <<>> /\ Goes(c, s) /\ r.pc \in Active
    BY <1>3, <2>1 DEF Finish, Active
  <2>3. /\ s \in RunRecord /\ s.pc = "done" /\ s.details = <<>> /\ s.opt = r.opt
        /\ s.at = r.at /\ s.asOf = r.asOf /\ s.disturbed = r.disturbed
    BY <1>1, <2>1, <2>2 DEF RunRecord, Steps
  <2>4. RunOK(s) /\ s.pc \notin Active
    BY <2>3 DEF RunOK, Active, Reading
  <2>5. Since(s)
    BY <1>1, <2>2, <2>3 DEF Sound, Since
  <2>6. ASSUME Writes(s), NEW n \in Nids, Wants(s, n)
        PROVE  Held(s, n) \/ Present(n, s.asOf[n])
    <3>1. Writes(r) /\ Wants(r, n)
      BY <2>2, <2>3, <2>6 DEF Writes, Wants
    <3>2. Held(r, n) \/ Present(n, r.asOf[n])
      BY <1>1, <3>1 DEF Sound
    <3> QED BY <2>2, <2>3, <3>2 DEF Held
  <2>7. Sound(s)
    <3>1. s.opt \in Options
      BY <1>1, <2>2, <2>3 DEF RunOK
    <3> QED BY <2>3, <2>4, <2>5, <2>6, <3>1 DEF Sound, Active
  <2>8. \A d \in Commands : d # c => run[d].pc \notin Active
    BY <2>2 DEF Alone
  <2> QED BY <1>1, <2>2, <2>4, <2>7, <2>8, GoesImports
<1>4. CASE Kill(c)
  <2>1. PICK s : s = Idle
    OBVIOUS
  <2>2. Goes(c, s) /\ s.pc = "idle" /\ s \in RunRecord
    BY <1>4, <2>1, IdleTyped DEF Kill
  <2>3. RunOK(s) /\ Sound(s) /\ s.pc \notin Active
    BY <2>2 DEF RunOK, Sound, Active, Reading, Writes
  <2> QED BY <1>1, <2>2, <2>3, GoesImports
<1> QED BY <1>2, <1>3, <1>4

LEMMA PresentWith ==
  ASSUME NEW n, NEW least,
         \A i \in DOMAIN nodes :
           nodes[i].source = n /\ nodes[i].version >= least =>
             i \in DOMAIN nodes' /\ nodes'[i].source = n /\ nodes'[i].version >= least
  PROVE  Present(n, least) => Present(n, least)'
  BY DEF Present

LEMMA EndpointImports ==
  ASSUME Typed, Imports, NEW n \in Nids, ImportEndpoint(n)
  PROVE  Imports'
<1>1. UNCHANGED <<catalogue, version, run>>
  BY EndpointAppends
<1>2. PICK x \in NodeRecord : nodes' = Append(nodes, x) /\ x.source = n /\ x.sku = SkuOf[n]
  BY EndpointAppends
<1>3. /\ nodes' \in Seq(NodeRecord) /\ Len(nodes) \in Nat /\ Len(nodes') = Len(nodes) + 1
      /\ \A i \in 1..Len(nodes') : nodes'[i] = IF i = Len(nodes) + 1 THEN x ELSE nodes[i]
      /\ \A i \in 1..Len(nodes) : i \in 1..Len(nodes') /\ nodes'[i] = nodes[i]
  BY <1>2, Appended
<1>4. DOMAIN nodes = 1..Len(nodes) /\ DOMAIN nodes' = 1..Len(nodes')
  BY <1>3, LenProperties DEF Typed
<1>5. NodesNamed'
  <2>1. ASSUME NEW i \in 1..Len(nodes')
        PROVE  nodes'[i].sku = SkuOf[nodes'[i].source]
    <3>1. CASE i = Len(nodes) + 1
      BY <1>2, <1>3, <3>1
    <3>2. CASE i \in 1..Len(nodes)
      BY <1>3, <3>2 DEF Imports, NodesNamed
    <3> QED BY <1>3, <3>1, <3>2
  <2> QED BY <2>1 DEF NodesNamed
<1>6. ASSUME NEW m, NEW least, Present(m, least)
      PROVE  Present(m, least)'
  BY <1>3, <1>4, <1>6, PresentWith
<1>7. ASSUME NEW r, Sound(r), r.pc = "save" => r.node \in 0..Len(nodes)
      PROVE  Sound(r)'
  <2>1. r.pc = "save" /\ r.node # 0 => nodes'[r.node].source = Head(r.details).source
    <3>1. ASSUME r.pc = "save", r.node # 0
          PROVE  r.node \in 1..Len(nodes)
      BY <1>3, <1>7, <3>1
    <3> QED BY <1>3, <1>7, <3>1 DEF Sound
  <2>2. Writes(r) => \A m \in Nids : Wants(r, m) => Held(r, m) \/ Present(m, r.asOf[m])'
    BY <1>6, <1>7 DEF Sound
  <2> QED BY <1>1, <1>7, <2>1, <2>2 DEF Sound, InOrder, Since
<1>8. ASSUME NEW d \in Commands
      PROVE  Sound(run[d])'
  <2>1. PICK r : r = run[d]
    OBVIOUS
  <2>2. Sound(r)' /\ run'[d] = r
    BY <1>1, <1>7, <2>1 DEF Imports, Typed
  <2> QED BY <2>2
<1>9. Elders'
  BY <1>1 DEF Imports, Elders
<1> QED BY <1>5, <1>8, <1>9 DEF Imports

LEMMA RemoteImports ==
  ASSUME Typed, Imports, RemoteChange
  PROVE  Imports'
<1>1. /\ nodes' = nodes /\ version' \in [Nids -> Nat] /\ version \in [Nids -> Nat]
      /\ \A n \in Nids : version'[n] >= version[n]
  BY RemoteChanges DEF Typed
<1>2. UNCHANGED <<catalogue, run>> \/ run' = Disturb(run)
  BY DEF RemoteChange, Relist
<1>3. ASSUME NEW c \in Commands, NEW r, r = run[c]
      PROVE  LET s == [r EXCEPT !.disturbed = @ \/ r.pc \in Reading] IN
             /\ s.pc = r.pc /\ s.opt = r.opt /\ s.details = r.details /\ s.node = r.node
             /\ s.at = r.at /\ s.asOf = r.asOf
             /\ ~s.disturbed => ~r.disturbed /\ r.pc \notin Reading
  <2>1. r \in RunRecord
    BY <1>3 DEF Typed
  <2> DEFINE flag == r.disturbed \/ r.pc \in Reading
             s == [r EXCEPT !.disturbed = flag]
  <2>2. /\ s.pc = r.pc /\ s.opt = r.opt /\ s.details = r.details /\ s.node = r.node
        /\ s.at = r.at /\ s.asOf = r.asOf /\ s.disturbed = flag
    BY <2>1 DEF RunRecord
  <2> QED BY <2>2
<1>4. ASSUME NEW c \in Commands
      PROVE  LET r == run[c]  s == run'[c] IN
             /\ s.pc = r.pc /\ s.opt = r.opt /\ s.details = r.details /\ s.node = r.node
             /\ s.at = r.at /\ s.asOf = r.asOf
             /\ ~s.disturbed => /\ ~r.disturbed
                                /\ r.pc \in Reading => s = r /\ catalogue' = catalogue
  <2>1. CASE UNCHANGED <<catalogue, run>>
    BY <2>1
  <2>2. CASE run' = Disturb(run)
    <3>1. PICK r : r = run[c]
      OBVIOUS
    <3>2. run'[c] = [r EXCEPT !.disturbed = @ \/ r.pc \in Reading]
      BY <2>2, <3>1 DEF Disturb
    <3> QED BY <1>3, <3>1, <3>2
  <2> QED BY <1>2, <2>1, <2>2
<1>5. ASSUME NEW r, r.asOf \in [Nids -> Nat], Since(r)
      PROVE  Since(r)'
  <2>1. ASSUME NEW n \in Nids
        PROVE  r.asOf[n] <= version'[n]
    <3>1. r.asOf[n] \in Nat /\ version[n] \in Nat /\ version'[n] \in Nat
      BY <1>1, <1>5
    <3>2. r.asOf[n] <= version[n] /\ version'[n] >= version[n]
      BY <1>1, <1>5 DEF Since
    <3> QED BY <3>1, <3>2
  <2> QED BY <2>1 DEF Since
<1>6. ASSUME NEW r, NEW s, Sound(r), r.asOf \in [Nids -> Nat],
             s.pc = r.pc, s.opt = r.opt, s.details = r.details, s.node = r.node,
             s.at = r.at, s.asOf = r.asOf,
             ~s.disturbed => /\ ~r.disturbed
                             /\ r.pc \in Reading => s = r /\ catalogue' = catalogue
      PROVE  Sound(s)'
  <2>1. s.pc \in Reading /\ ~s.disturbed => InOrder(s)'
    <3>1. ASSUME s.pc \in Reading, ~s.disturbed
          PROVE  InOrder(s)'
      <4>1. InOrder(s) /\ catalogue' = catalogue
        BY <1>6, <3>1 DEF Sound
      <4> QED BY <4>1 DEF InOrder
    <3> QED BY <3>1
  <2>2. s.pc \in Active => Recent(s)
    BY <1>6 DEF Sound, Recent
  <2>3. s.pc \in Active \cup {"done"} => Since(s)'
    <3>1. s.pc \in Active \cup {"done"} => Since(r)'
      BY <1>5, <1>6 DEF Sound
    <3> QED BY <1>6, <3>1 DEF Since
  <2>4. Writes(s) => \A n \in Nids : Wants(s, n) => Held(s, n) \/ Present(n, s.asOf[n])'
    <3>1. ASSUME Writes(s), NEW n \in Nids, Wants(s, n)
          PROVE  Held(s, n) \/ Present(n, s.asOf[n])'
      <4>1. Writes(r) /\ Wants(r, n)
        BY <1>6, <3>1 DEF Writes, Wants
      <4>2. Held(r, n) \/ Present(n, r.asOf[n])
        BY <1>6, <4>1 DEF Sound
      <4>3. Present(n, r.asOf[n]) => Present(n, s.asOf[n])'
        BY <1>1, <1>6 DEF Present
      <4> QED BY <1>6, <4>2, <4>3 DEF Held
    <3> QED BY <3>1
  <2>5. /\ s.pc = "done" => s.details = <<>> /\ s.opt \in Options
        /\ s.pc = "save" /\ s.node # 0 => nodes'[s.node].source = Head(s.details).source
    BY <1>1, <1>6 DEF Sound
  <2> QED BY <2>1, <2>2, <2>3, <2>4, <2>5 DEF Sound
<1>7. ASSUME NEW c \in Commands
      PROVE  Sound(run[c])'
  <2>1. PICK r, s : r = run[c] /\ s = run'[c]
    OBVIOUS
  <2>2. r.asOf \in [Nids -> Nat] /\ Sound(r)
    BY <2>1 DEF Typed, RunRecord, Imports
  <2>3. Sound(s)'
    BY <1>4, <1>6, <2>1, <2>2
  <2> QED BY <2>1, <2>3
<1>8. Elders'
  BY <1>4 DEF Imports, Elders
<1>9. NodesNamed'
  BY <1>1 DEF Imports, NodesNamed
<1> QED BY <1>7, <1>8, <1>9 DEF Imports

LEMMA SaveImports ==
  ASSUME Typed, Imports, Alone, NEW c \in Commands, Save(c)
  PROVE  Imports'
<1> DEFINE r == run[c]
           item == Head(r.details)
<1>1. /\ r.pc = "save" /\ r.details # <<>> /\ Goes(c, NextItem(r)) /\ r.pc \in Active
      /\ UNCHANGED <<catalogue, version>> /\ r \in RunRecord /\ RunOK(r) /\ Sound(r)
  BY SaveWrites DEF Typed, Imports, Active
<1>2. PICK x : Wrote(r, x)
  BY SaveWrites
<1>3. item.source \in Nids /\ item.version \in Nat /\ r.asOf \in [Nids -> Nat]
  BY <1>1, HeadOf DEF RunRecord
<1>4. /\ item.version >= r.asOf[item.source] /\ Recent(r) /\ Since(r)
      /\ r.node # 0 => nodes[r.node].source = item.source
  <2>1. Recent(r) /\ Since(r) /\ (r.node # 0 => nodes[r.node].source = item.source)
    BY <1>1 DEF Sound
  <2>2. Len(r.details) \in Nat /\ Len(r.details) > 0 /\ item = r.details[1]
    <3>1. r.details \in Seq(ItemRecord)
      BY <1>1 DEF RunRecord
    <3> QED BY <1>1, <3>1, EmptySeq, LenProperties
  <2>3. 1 \in 1..Len(r.details)
    BY <2>2
  <2> QED BY <2>1, <2>2, <2>3 DEF Recent
<1>5. /\ x \in NodeRecord /\ x.source = item.source /\ x.sku = SkuOf[item.source]
      /\ x.version = item.version
      /\ \/ nodes' = Append(nodes, x)
         \/ r.node \in 1..Len(nodes) /\ nodes' = [nodes EXCEPT ![r.node] = x]
  BY <1>2 DEF Wrote
<1> HIDE DEF item
<1>6. /\ nodes' \in Seq(NodeRecord)
      /\ \A i \in 1..Len(nodes') : nodes'[i] = x \/ (i \in 1..Len(nodes) /\ nodes'[i] = nodes[i])
      /\ \E i \in 1..Len(nodes') : nodes'[i] = x
      /\ \A i \in 1..Len(nodes) :
           i \in 1..Len(nodes') /\ (nodes'[i] = nodes[i] \/ (nodes'[i] = x /\ i = r.node /\ i # 0))
  <2>1. Len(nodes) \in Nat
    BY LenProperties DEF Typed
  <2>2. CASE nodes' = Append(nodes, x)
    <3>1. /\ nodes' \in Seq(NodeRecord) /\ Len(nodes') = Len(nodes) + 1
          /\ \A i \in 1..Len(nodes') : nodes'[i] = IF i = Len(nodes) + 1 THEN x ELSE nodes[i]
          /\ \A i \in 1..Len(nodes) : i \in 1..Len(nodes') /\ nodes'[i] = nodes[i]
      BY <1>5, <2>2, Appended
    <3>2. Len(nodes) + 1 \in 1..Len(nodes') /\ nodes'[Len(nodes) + 1] = x
      BY <2>1, <3>1
    <3> QED BY <2>1, <3>1, <3>2
  <2>3. CASE r.node \in 1..Len(nodes) /\ nodes' = [nodes EXCEPT ![r.node] = x]
    <3>1. /\ nodes' \in Seq(NodeRecord) /\ Len(nodes') = Len(nodes)
          /\ \A i \in 1..Len(nodes) : nodes'[i] = IF i = r.node THEN x ELSE nodes[i]
      BY <1>5, <2>3, Replaced
    <3>2. r.node # 0
      BY <2>1, <2>3
    <3> QED BY <2>1, <2>3, <3>1, <3>2
  <2> QED BY <1>5, <2>2, <2>3
<1>7. DOMAIN nodes = 1..Len(nodes) /\ DOMAIN nodes' = 1..Len(nodes')
  BY <1>6, LenProperties DEF Typed
<1>8. NodesNamed'
  BY <1>5, <1>6 DEF Imports, NodesNamed
<1>9. ASSUME NEW n, NEW least, Present(n, least), n = item.source => item.version >= least
      PROVE  Present(n, least)'
  <2>1. PICK i \in 1..Len(nodes) : nodes[i].source = n /\ nodes[i].version >= least
    BY <1>7, <1>9 DEF Present
  <2>2. i \in 1..Len(nodes') /\ (nodes'[i] = nodes[i] \/ (nodes'[i] = x /\ i = r.node /\ i # 0))
    BY <1>6
  <2>3. nodes'[i].source = n /\ nodes'[i].version >= least
    BY <1>4, <1>5, <1>9, <2>1, <2>2
  <2> QED BY <1>7, <2>2, <2>3 DEF Present
<1>10. PICK s : s = NextItem(r)
  OBVIOUS
<1>11. /\ RunOK(s) /\ s.pc = "lookup" /\ Shorter(r, s) /\ s.disturbed = r.disturbed
       /\ s.opt = r.opt /\ s.asOf = r.asOf
  BY <1>1, <1>10, NextItemTyped, NextItemShorter DEF Shorter
<1>12. run'[c] = s /\ \A d \in Commands : d # c => run'[d] = run[d]
  BY <1>1, <1>10, <1>11, GoesTyped
<1>13. Sound(s)'
  <2>1. Recent(s) /\ Since(s)
    BY <1>1, <1>4, <1>11, ShorterHolds
  <2>2. Since(s)'
    BY <1>1, <2>1 DEF Since
  <2>3. ASSUME Writes(s), NEW n \in Nids, Wants(s, n)
        PROVE  Held(s, n) \/ Present(n, s.asOf[n])'
    <3>1. Writes(r)
      BY <1>1, <1>11, <2>3 DEF Writes
    <3>2. Wants(r, n) /\ (Held(r, n) => n = item.source \/ Held(s, n))
      BY <1>1, <1>11, <2>3, ShorterHolds DEF item
    <3>3. Held(r, n) \/ Present(n, r.asOf[n])
      BY <1>1, <3>1, <3>2 DEF Sound
    <3>4. CASE n = item.source
      <4>1. PICK i \in 1..Len(nodes') : nodes'[i] = x
        BY <1>6
      <4>2. nodes'[i].source = n /\ nodes'[i].version >= s.asOf[n]
        BY <1>4, <1>5, <1>11, <3>4, <4>1
      <4> QED BY <1>7, <4>1, <4>2 DEF Present
    <3>5. CASE n # item.source /\ Present(n, r.asOf[n])
      <4>1. PICK least : least = r.asOf[n]
        OBVIOUS
      <4>2. Present(n, least)'
        BY <1>9, <3>5, <4>1
      <4>3. least = s.asOf[n]
        BY <1>11, <4>1
      <4> QED BY <4>2, <4>3
    <3> QED BY <3>2, <3>3, <3>4, <3>5
  <2> QED BY <1>11, <2>1, <2>2, <2>3 DEF Sound, Reading
<1>14. ASSUME NEW d \in Commands, d # c
       PROVE  Sound(run[d])'
  <2>1. PICK t : t = run[d]
    OBVIOUS
  <2>2. run'[d] = t /\ t.pc \notin Active /\ Sound(t)
    BY <1>1, <1>12, <1>14, <2>1 DEF Alone, Imports
  <2>3. ASSUME Writes(t), NEW n \in Nids, Wants(t, n)
        PROVE  Held(t, n) \/ Present(n, t.asOf[n])'
    <3>1. t.pc = "done" /\ Present(n, t.asOf[n])
      <4>1. t.pc = "done" /\ t.details = <<>>
        BY <2>2, <2>3 DEF Sound, Writes, Active
      <4>2. ~Held(t, n)
        BY <4>1 DEF Held
      <4> QED BY <2>2, <2>3, <4>1, <4>2 DEF Sound
    <3>2. PICK least : least = t.asOf[n]
      OBVIOUS
    <3>3. ASSUME t.pc = "done", n = item.source
          PROVE  item.version >= least
      <4>1. t.asOf[n] <= r.asOf[n]
        BY <1>1, <2>1, <3>3 DEF Imports, Elders
      <4>2. t.asOf[n] \in Nat /\ r.asOf[n] \in Nat
        BY <1>3, <2>1 DEF Typed, RunRecord
      <4> QED BY <1>3, <1>4, <3>2, <3>3, <4>1, <4>2
    <3>4. CASE t.pc = "done" /\ Present(n, t.asOf[n])
      <4>1. Present(n, least)'
        BY <1>9, <3>2, <3>3, <3>4
      <4> QED BY <3>2, <4>1
    <3> QED BY <3>1, <3>4
  <2>4. t.pc \in Active \cup {"done"} => Since(t)'
    BY <1>1, <2>2 DEF Sound, Since
  <2>5. Sound(t)'
    BY <2>2, <2>3, <2>4 DEF Sound, Active
  <2> QED BY <2>2, <2>5
<1>15. Elders'
  <2>1. ASSUME NEW e \in Commands, NEW d \in Commands, run'[e].pc \in Active,
               run'[d].pc = "done", NEW n \in Nids
        PROVE  run'[d].asOf[n] <= run'[e].asOf[n]
    <3>1. d # c /\ run'[d] = run[d]
      BY <1>11, <1>12, <2>1
    <3>2. run[e].pc \in Active /\ run'[e].asOf = run[e].asOf
      BY <1>1, <1>11, <1>12, <2>1
    <3> QED BY <2>1, <3>1, <3>2 DEF Imports, Elders
  <2> QED BY <2>1 DEF Elders
<1>16. ASSUME NEW d \in Commands
       PROVE  Sound(run[d])'
  <2>1. CASE d = c
    BY <1>12, <1>13, <2>1
  <2>2. CASE d # c
    BY <1>14, <2>2
  <2> QED BY <2>1, <2>2
<1> QED BY <1>8, <1>15, <1>16 DEF Imports

LEMMA WantedTyped ==
  ASSUME NEW r \in RunRecord, r.opt \in Options, NEW i \in DOMAIN Wanted(r.at, r.opt)
  PROVE  Wanted(r.at, r.opt)[i] \in Nids
<1> DEFINE count == IF r.opt.limit > 0 THEN r.opt.limit ELSE Len(r.at)
           wanted == Slice(r.at, r.opt.offset, count)
<1>1. r.at \in Seq(Nids) /\ r.opt.offset \in Nat /\ count \in Nat
  BY NumbersOf
<1>2. Wanted(r.at, r.opt) = wanted
  BY DEF Wanted
<1> HIDE DEF count
<1>3. wanted \in Seq(Nids)
  BY <1>1, SliceOf
<1> HIDE DEF wanted
<1>4. i \in 1..Len(wanted)
  BY <1>2, <1>3, LenProperties
<1> QED BY <1>2, <1>3, <1>4, ElementOfSeq

LEMMA ImportsInit == Init => Imports
<1> SUFFICES ASSUME Init PROVE Imports
  OBVIOUS
<1>1. nodes = <<>> /\ Len(<<>>) = 0 /\ \A c \in Commands : run[c] = Idle
  BY DEF Init
<1>2. Idle.pc = "idle"
  BY DEF Idle
<1>3. Sound(Idle)
  BY <1>2 DEF Sound, Active, Reading, Writes
<1> QED BY <1>1, <1>2, <1>3 DEF Imports, NodesNamed, Elders

LEMMA ImportsStep ==
  ASSUME Typed, Imports, Alone, DistinctSkus, [Next]_vars
  PROVE  Imports'
<1>1. CASE vars' = vars
  <2>1. UNCHANGED <<catalogue, version, nodes, run>>
    BY <1>1 DEF vars
  <2>2. ASSUME NEW r, Sound(r)
        PROVE  Sound(r)'
    BY <2>1, <2>2 DEF Sound, InOrder, Since, Present
  <2>3. ASSUME NEW c \in Commands
        PROVE  Sound(run[c])'
    <3>1. PICK r : r = run[c]
      OBVIOUS
    <3>2. Sound(r)' /\ run'[c] = r
      BY <2>1, <2>2, <3>1 DEF Imports
    <3> QED BY <3>2
  <2>4. NodesNamed' /\ Elders'
    BY <2>1 DEF Imports, NodesNamed, Elders
  <2> QED BY <2>3, <2>4 DEF Imports
<1>2. CASE RemoteChange
  BY <1>2, RemoteImports
<1>3. ASSUME NEW n \in Pushed, ImportEndpoint(n)
      PROVE  Imports'
  BY <1>3, EndpointImports, ImportAssumption
<1>4. ASSUME NEW c \in Commands, Start(c) \/ StartFromFile(c)
      PROVE  Imports'
  BY <1>4, StartImports
<1>5. ASSUME NEW c \in Commands, ReadPage(c) \/ ReadDetail(c) \/ AttemptFails(c)
      PROVE  Imports'
  BY <1>5, ReadingImports
<1>6. ASSUME NEW c \in Commands, Lookup(c)
      PROVE  Imports'
  BY <1>6, LookupImports
<1>7. ASSUME NEW c \in Commands, Save(c)
      PROVE  Imports'
  BY <1>7, SaveImports
<1>8. ASSUME NEW c \in Commands, SaveFails(c) \/ Finish(c) \/ Kill(c)
      PROVE  Imports'
  BY <1>8, EndImports
<1> QED BY <1>1, <1>2, <1>3, <1>4, <1>5, <1>6, <1>7, <1>8 DEF Next, Step

LEMMA AlwaysImports ==
  ASSUME ~Overlapping, DistinctSkus
  PROVE  Spec => []Imports
<1>1. Typed /\ Serial /\ Imports /\ [Next]_vars => Imports'
  BY ImportsStep DEF Serial
<1> QED BY ImportsInit, ImportTypeCorrect, AlwaysSerial, <1>1, PTL DEF Spec

(* If no two commands run at once and no two products share a SKU, a       *)
(* command that ended, that lost no detail and no save and read a list     *)
(* that kept its order, has imported all its offset and limit asked for,   *)
(* whatever optional fields the answers had (fetchJson, has_next), and     *)
(* nothing that came after has taken any of it back.                       *)
THEOREM ImportsAreComplete ==
  ASSUME ~Overlapping, DistinctSkus
  PROVE  Spec => []CompleteImport
<1>1. ASSUME Imports, NEW c \in Commands, NEW r, r = run[c], r.pc = "done", ~r.disturbed,
             r.opt.update, ~r.opt.dry, NEW i \in DOMAIN Wanted(r.at, r.opt), Typed
      PROVE  Present(Wanted(r.at, r.opt)[i], r.asOf[Wanted(r.at, r.opt)[i]])
  <2>1. PICK n : n = Wanted(r.at, r.opt)[i]
    OBVIOUS
  <2>2. Sound(r) /\ Writes(r) /\ Wants(r, n)
    BY <1>1, <2>1 DEF Imports, Writes, Wants
  <2>3. ~Held(r, n)
    <3>1. r.details = <<>>
      BY <1>1, <2>2 DEF Sound
    <3> QED BY <3>1 DEF Held
  <2>4. n \in Nids
    <3>1. r \in RunRecord /\ r.opt \in Options
      BY <1>1, <2>2 DEF Typed, Sound
    <3> QED BY <1>1, <2>1, <3>1, WantedTyped
  <2>5. Present(n, r.asOf[n])
    BY <2>2, <2>3, <2>4 DEF Sound
  <2> QED BY <2>1, <2>5
<1>2. Typed /\ Imports => CompleteImport
  BY <1>1 DEF CompleteImport
<1> QED BY <1>2, ImportTypeCorrect, AlwaysImports, PTL
=============================================================================
