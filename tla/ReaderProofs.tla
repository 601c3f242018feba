---------------------------- MODULE ReaderProofs ----------------------------
(***************************************************************************)
(* What holds of the readers, for all statements, in this order: of the     *)
(* requests that queue a statement and stream its rows (SubmitStream); of   *)
(* the withdrawals that the v2 TikTok reader returns (TiktokFunding); of    *)
(* the rows that the v1 readers hand to the importer (StatementReaders):    *)
(* the withdrawal they are handed under, their order, and the balances that *)
(* the withdrawals are handed with.                                         *)
(***************************************************************************)
EXTENDS SubmitStream, TiktokFunding, Sums, SequenceTheorems

-----------------------------------------------------------------------------
(* The stream: its inductive invariant.                                      *)

\* The row at which a request tells of key: a TikTok workbook is read on into
\* its sheet when its orders are read.
Place(key) == IF key[1] = "fund" /\ file.market = "tiktok" THEN key[2] + Len(Rows) ELSE key[2]

\* A request that has its task and is not at its end.
Running == pc \in {"queued", "orders", "open", "rows"}

\* Why a request may tell a row: each row it has still to come to has been
\* told less often than there are tasks, its own among them.
Ahead == Running => \A key \in DOMAIN told : Place(key) >= pos => told[key] < tasks

\* Who reads, and at which row.
Reads ==
    /\ file \in Uploads
    /\ pos \in Nat \ {0}
    /\ got \in Seq(Range(got))
    /\ pc \in {"asked", "queued"} => pos = 1
    /\ pc = "orders" => file.market = "tiktok"
    /\ pc \in {"open", "rows"} => file.market # "tiktok"
    /\ Running => tasks > 0

StreamInv ==
    /\ by \in {"import", "stream"}
    /\ tasks \in Nat
    /\ told \in [DOMAIN told -> Nat]
    /\ \A key \in DOMAIN told : key[2] \in Nat
    /\ by = "import" => told = EmptyBag
    /\ by = "stream" => Reads
    /\ by = "stream" => Ahead
    /\ ToldIsQueued

-----------------------------------------------------------------------------
(* What a step hands, and what it tells.                                     *)

\* The handler has taken all the items or those before the one it failed at.
LEMMA HandsTaken ==
    ASSUME got \in Seq(Range(got)),
           NEW items, items \in Seq(Range(items)), NEW label, Hand(items, label)
    PROVE  /\ got' \in Seq(Range(got'))
           /\ \E k \in 0..Len(items) :
                /\ Len(got') = Len(got) + k
                /\ \A i \in 1..k : got'[Len(got) + i] = items[i]
                /\ \/ pc' = label /\ k = Len(items)
                   \/ pc' = "failed" /\ k < Len(items)
           /\ \A i \in DOMAIN got : got'[i] = got[i]
<1> DEFINE T == Range(got) \cup Range(items)
           Taken(taken) == /\ got' = got \o taken
                           /\ Len(taken) \in 0..Len(items)
                           /\ \A i \in 1..Len(taken) : taken[i] = items[i]
                           /\ \/ pc' = label /\ Len(taken) = Len(items)
                              \/ pc' = "failed" /\ Len(taken) < Len(items)
<1>1. got \in Seq(T) /\ items \in Seq(T)
  BY SeqMonotonic
<1>2. PICK taken \in Seq(T) : Taken(taken)
  <2>1. CASE got' = got \o items /\ pc' = label
    <3>1. Taken(items)
      BY <1>1, <2>1, LenProperties
    <3> QED
      BY <1>1, <3>1
  <2>2. ASSUME NEW n \in DOMAIN items,
               got' = got \o SubSeq(items, 1, n - 1) /\ pc' = "failed"
        PROVE  \E taken \in Seq(T) : Taken(taken)
    <3> DEFINE taken == SubSeq(items, 1, n - 1)
    <3>1. n \in 1..Len(items)
      BY <1>1, <2>2, LenProperties
    <3>2. /\ taken \in Seq(T) /\ Len(taken) = n - 1
          /\ \A i \in 1..(n - 1) : taken[i] = items[i]
      <4>1. 1 \in Int /\ n - 1 \in Int /\ \A i \in 1..(n - 1) : items[i] \in T
        BY <1>1, <3>1, LenProperties
      <4>2. /\ taken \in Seq(T)
            /\ Len(taken) = IF 1 <= n - 1 THEN (n - 1) - 1 + 1 ELSE 0
            /\ \A i \in 1..((n - 1) - 1 + 1) : taken[i] = items[1 + i - 1]
        BY <4>1, SubSeqProperties
      <4> QED
        BY <3>1, <4>2
    <3>3. got' = got \o taken /\ pc' = "failed"
      BY <2>2
    <3>4. /\ Len(taken) \in 0..Len(items) /\ Len(taken) < Len(items)
          /\ \A i \in 1..Len(taken) : taken[i] = items[i]
      BY <1>1, <3>1, <3>2, LenProperties
    <3> HIDE DEF taken, T
    <3> QED
      BY <3>2, <3>3, <3>4
  <2> QED
    BY <2>1, <2>2 DEF Hand
<1>3. /\ got' \in Seq(T) /\ Len(got') = Len(got) + Len(taken)
      /\ \A i \in 1..Len(taken) : got'[Len(got) + i] = taken[i]
      /\ \A i \in DOMAIN got : got'[i] = got[i]
  BY <1>1, <1>2, ConcatProperties, LenProperties
<1>4. got' \in Seq(Range(got'))
  BY <1>3, SeqOfRange
<1> QED
  BY <1>2, <1>3, <1>4

\* What it has taken is the end of what it has been called with.
LEMMA HandsPrefix ==
    ASSUME got \in Seq(Range(got)),
           NEW items, items \in Seq(Range(items)), NEW label, Hand(items, label)
    PROVE  /\ got' \in Seq(Range(got'))
           /\ \E k \in 0..Len(items) :
                LET now == SubSeq(got', Len(got) + 1, Len(got')) IN
                /\ DOMAIN now = 1..k
                /\ \A i \in 1..k : now[i] = items[i]
           /\ pc' \in {label, "failed"}
<1>1. /\ got' \in Seq(Range(got')) /\ pc' \in {label, "failed"}
      /\ Len(got) \in Nat /\ Len(items) \in Nat
  BY HandsTaken, LenProperties
<1>2. PICK k \in 0..Len(items) : /\ Len(got') = Len(got) + k
                                 /\ \A i \in 1..k : got'[Len(got) + i] = items[i]
  BY HandsTaken
<1> DEFINE now == SubSeq(got', Len(got) + 1, Len(got'))
<1>3. DOMAIN now = 1..k /\ \A i \in 1..k : now[i] = items[i]
  BY <1>1, <1>2, LenProperties, SubSeqProperties
<1> QED
  BY <1>1, <1>3

\* Of distinct items every one makes at most one event.
LEMMA DistinctEvents ==
    ASSUME NEW items,
           \A m, n \in DOMAIN items : Key(items[m]) = Key(items[n]) => m = n
    PROVE  \A key \in DOMAIN Events(items) :
               /\ \E n \in DOMAIN items : key = Key(items[n])
               /\ Events(items)[key] = 1
<1> SUFFICES ASSUME NEW key \in DOMAIN Events(items)
             PROVE  /\ \E n \in DOMAIN items : key = Key(items[n])
                    /\ Events(items)[key] = 1
  OBVIOUS
<1>1. PICK n \in Sent(items) : key = Key(items[n])
  BY DEF Events
<1>2. {m \in Sent(items) : Key(items[m]) = key} = {n}
  BY <1>1 DEF Sent
<1>3. Events(items)[key] = 1
  BY <1>1, <1>2, FS_Singleton DEF Events
<1> QED
  BY <1>1, <1>3 DEF Sent

\* The step: a request that goes on tells each row that it reads at most once.
LEMMA TellsOnce ==
    ASSUME StreamInv, by = "stream", Running, NEW items, NEW q \in Nat, q >= pos,
           \A m, n \in DOMAIN items : Key(items[m]) = Key(items[n]) => m = n,
           \A n \in DOMAIN items :
               /\ Key(items[n])[2] \in Nat
               /\ Place(Key(items[n])) = pos
               /\ q > pos,
           told' = told (+) Events(items)
    PROVE  /\ told' \in [DOMAIN told' -> Nat]
           /\ \A key \in DOMAIN told' : key[2] \in Nat
           /\ \A key \in DOMAIN told' : told'[key] <= tasks
           /\ \A key \in DOMAIN told' : Place(key) >= q => told'[key] < tasks
<1> DEFINE new == Events(items)
<1>1. \A key \in DOMAIN new :
         key[2] \in Nat /\ Place(key) = pos /\ q > pos /\ new[key] = 1
  BY DistinctEvents
<1>2. told' = [key \in DOMAIN told \cup DOMAIN new |->
                  (IF key \in DOMAIN told THEN told[key] ELSE 0)
                + (IF key \in DOMAIN new THEN new[key] ELSE 0)]
  BY DEF (+)
<1> HIDE DEF new
<1>3. tasks \in Nat /\ tasks > 0 /\ pos \in Nat
  BY DEF StreamInv, Reads
<1>4. \A key \in DOMAIN told : /\ told[key] \in Nat /\ key[2] \in Nat
                               /\ told[key] <= tasks
                               /\ Place(key) >= pos => told[key] < tasks
  BY DEF StreamInv, Ahead, ToldIsQueued, BagToSet
<1>5. \A key \in DOMAIN told' :
        /\ key[2] \in Nat
        /\ told'[key] \in Nat
        /\ told'[key] <= tasks
        /\ Place(key) >= q => told'[key] < tasks
  <2> SUFFICES ASSUME NEW key \in DOMAIN told'
               PROVE  /\ key[2] \in Nat
                      /\ told'[key] \in Nat
                      /\ told'[key] <= tasks
                      /\ Place(key) >= q => told'[key] < tasks
    OBVIOUS
  <2>1. Place(key) \in Nat
    BY <1>1, <1>2, <1>4, UploadsAssumption, LenProperties DEF Place, StreamInv, Reads, Rows, TwoSheets
  <2> HIDE DEF Place
  <2>2. CASE key \in DOMAIN new
    BY <1>1, <1>2, <1>3, <1>4, <2>1, <2>2
  <2>3. CASE key \notin DOMAIN new
    BY <1>2, <1>3, <1>4, <2>1, <2>3
  <2> QED
    BY <2>2, <2>3
<1> QED
  BY <1>2, <1>5

-----------------------------------------------------------------------------
(* Every step keeps the invariant.                                           *)

\* A request that has its task goes on or comes to its end.
LEMMA GoesOn ==
    ASSUME StreamInv, by = "stream", Running,
           by' = by, file' = file, tasks' = tasks,
           got' \in Seq(Range(got')),
           pos' \in {pos, pos + 1},
           pc' \notin {"asked", "queued"},
           pc' = "orders" => file.market = "tiktok",
           pc' \in {"open", "rows"} => file.market # "tiktok",
           NEW items,
           \A m, n \in DOMAIN items : Key(items[m]) = Key(items[n]) => m = n,
           \A n \in DOMAIN items :
               /\ Key(items[n])[2] \in Nat
               /\ Place(Key(items[n])) = pos
               /\ pos' = pos + 1,
           told' = told (+) Events(items)
    PROVE  StreamInv'
<1>1. pos \in Nat \ {0} /\ file \in Uploads /\ tasks \in Nat \ {0}
  BY DEF StreamInv, Reads
<1>2. pos' \in Nat \ {0} /\ pos' >= pos
  BY <1>1
<1>3. \A n \in DOMAIN items :
         Key(items[n])[2] \in Nat /\ Place(Key(items[n])) = pos /\ pos' > pos
  BY <1>1
<1>4. PICK q \in Nat : q = pos'
  BY <1>2
<1>5. q >= pos /\ \A n \in DOMAIN items :
         Key(items[n])[2] \in Nat /\ Place(Key(items[n])) = pos /\ q > pos
  BY <1>2, <1>3, <1>4
<1>6. /\ told' \in [DOMAIN told' -> Nat]
      /\ \A key \in DOMAIN told' : key[2] \in Nat
      /\ \A key \in DOMAIN told' : told'[key] <= tasks
      /\ \A key \in DOMAIN told' : Place(key) >= q => told'[key] < tasks
  BY <1>5, TellsOnce
<1>7. Reads'
  BY <1>1, <1>2 DEF Reads, Running
<1>8. Ahead'
  BY <1>4, <1>6 DEF Ahead, Place, Rows
<1>9. ToldIsQueued'
  BY <1>6 DEF ToldIsQueued, BagToSet
<1> QED
  BY <1>1, <1>6, <1>7, <1>8, <1>9 DEF StreamInv

\* A step that hands nothing.
LEMMA HandsNothing ==
    ASSUME StreamInv, by = "stream", Running,
           by' = by, file' = file, tasks' = tasks, got' = got, Tell,
           pos' \in {pos, pos + 1},
           pc' \notin {"asked", "queued"},
           pc' = "orders" => file.market = "tiktok",
           pc' \in {"open", "rows"} => file.market # "tiktok"
    PROVE  StreamInv'
<1> DEFINE now == SubSeq(got', Len(got) + 1, Len(got'))
<1>1. got \in Seq(Range(got))
  BY DEF StreamInv, Reads
<1>2. DOMAIN now = {}
  BY <1>1, LenProperties, SubSeqEmpty
<1>3. told' = told (+) Events(now)
  BY DEF Tell
<1> HIDE DEF now
<1> QED
  BY <1>1, <1>2, <1>3, GoesOn

\* A step that hands the items of its row.
LEMMA HandsRow ==
    ASSUME StreamInv, by = "stream", Running,
           by' = by, file' = file, tasks' = tasks, Tell,
           NEW items, items \in Seq(Range(items)), NEW label, Hand(items, label),
           \A m, n \in DOMAIN items : Key(items[m]) = Key(items[n]) => m = n,
           \A n \in DOMAIN items :
               Key(items[n])[2] \in Nat /\ Place(Key(items[n])) = pos,
           pos' = pos + 1,
           label \in {"orders", "rows", "done"},
           label = "orders" => file.market = "tiktok",
           label = "rows" => file.market # "tiktok"
    PROVE  StreamInv'
<1> DEFINE now == SubSeq(got', Len(got) + 1, Len(got'))
<1>1. got \in Seq(Range(got))
  BY DEF StreamInv, Reads
<1>2. /\ got' \in Seq(Range(got'))
      /\ \E k \in 0..Len(items) : DOMAIN now = 1..k /\ \A i \in 1..k : now[i] = items[i]
      /\ pc' \in {label, "failed"}
  BY <1>1, HandsPrefix
<1>3. told' = told (+) Events(now)
  BY DEF Tell
<1> HIDE DEF now
<1>4. \A n \in DOMAIN now : n \in DOMAIN items /\ now[n] = items[n]
  BY <1>2, LenProperties
<1>5. \A m, n \in DOMAIN now : Key(now[m]) = Key(now[n]) => m = n
  BY <1>4
<1>6. \A n \in DOMAIN now : Key(now[n])[2] \in Nat /\ Place(Key(now[n])) = pos /\ pos' = pos + 1
  BY <1>4
<1> QED
  BY <1>2, <1>3, <1>5, <1>6, GoesOn

\* A row is handed as one item or as two of different types.
LEMMA HandsOne ==
    ASSUME StreamInv, by = "stream", Running,
           by' = by, file' = file, tasks' = tasks, Tell, pos' = pos + 1,
           NEW i, NEW label, Hand(<<i>>, label),
           Key(i)[2] \in Nat, Place(Key(i)) = pos,
           label \in {"orders", "rows", "done"},
           label = "orders" => file.market = "tiktok",
           label = "rows" => file.market # "tiktok"
    PROVE  StreamInv'
<1> DEFINE items == <<i>>
<1>1. /\ items \in Seq(Range(items))
      /\ \A m, n \in DOMAIN items : Key(items[m]) = Key(items[n]) => m = n
      /\ \A n \in DOMAIN items : items[n] = i
  BY DEF Range
<1>2. Hand(items, label)
  OBVIOUS
<1> HIDE DEF items
<1>3. \A n \in DOMAIN items : Key(items[n])[2] \in Nat /\ Place(Key(items[n])) = pos
  BY <1>1
<1> QED
  BY <1>1, <1>2, <1>3, HandsRow

\* The same for two rows handed at once.
LEMMA HandsTwo ==
    ASSUME StreamInv, by = "stream", Running,
           by' = by, file' = file, tasks' = tasks, Tell, pos' = pos + 1,
           NEW i, NEW j, NEW label, Hand(<<i, j>>, label), Key(i) # Key(j),
           Key(i)[2] \in Nat, Place(Key(i)) = pos,
           Key(j)[2] \in Nat, Place(Key(j)) = pos,
           label \in {"rows", "done"}, file.market # "tiktok"
    PROVE  StreamInv'
<1> DEFINE items == <<i, j>>
<1>1. /\ items \in Seq(Range(items))
      /\ DOMAIN items = 1..2 /\ items[1] = i /\ items[2] = j
  BY DEF Range
<1>2. Hand(items, label)
  OBVIOUS
<1> HIDE DEF items
<1>3. \A m, n \in DOMAIN items : Key(items[m]) = Key(items[n]) => m = n
  BY <1>1
<1>4. \A n \in DOMAIN items : Key(items[n])[2] \in Nat /\ Place(Key(items[n])) = pos
  BY <1>1
<1> QED
  BY <1>1, <1>2, <1>3, <1>4, HandsRow

-----------------------------------------------------------------------------
\* The invariant holds when a request begins.
LEMMA StreamInvInit == StreamInit => StreamInv
<1> SUFFICES ASSUME StreamInit PROVE StreamInv
  OBVIOUS
<1>1. told = EmptyBag /\ DOMAIN told = {} /\ tasks = 0
  BY DEF StreamInit, EmptyBag, SetToBag
<1>2. by \in {"import", "stream"}
  BY DEF StreamInit, Init
<1>3. by = "stream" => Reads
  BY DEF StreamInit, Init, Reads, Running, Range
<1> QED
  BY <1>1, <1>2, <1>3 DEF StreamInv, Ahead, ToldIsQueued, BagToSet

\* Every step of a request keeps it.
LEMMA StreamInvStep == StreamInv /\ [StreamNext]_svars => StreamInv'
<1> SUFFICES ASSUME StreamInv, [StreamNext]_svars PROVE StreamInv'
  OBVIOUS
<1>1. CASE QueueTask
  <2>1. CASE by = "stream"
    BY <1>1, <2>1 DEF QueueTask, Queued, StreamInv, Reads, Running, Ahead, ToldIsQueued,
                      BagToSet, Place, Rows
  <2>2. CASE by = "import"
    BY <1>1, <2>2 DEF QueueTask, Queued, StreamInv, ToldIsQueued, BagToSet, EmptyBag, SetToBag
  <2> QED
    BY <2>1, <2>2 DEF StreamInv
<1>2. CASE CheckShop
  BY <1>2 DEF CheckShop, StreamInv, Reads, Running, Ahead, ToldIsQueued, BagToSet, Place, Rows
<1>3. CASE StreamRow
  <2>1. /\ by = "stream" /\ Tell /\ tasks' = tasks
        /\ Reads /\ pos \in Nat
    BY <1>3 DEF StreamRow, StreamInv, Reads
  <2>2. CASE OldReader /\ ~ShopeeRow /\ ~MengantarRow
    BY <2>1, <2>2, HandsNothing
       DEF OldReader, OpenReport, ShopeeInProcess, ShopeeSkip, CloseReport, OpenCsv,
           Refuse, Skip, Reading, Running
  <2>3. CASE ShopeeRow
    <3> DEFINE item == [RowItem(pos, ShopeeType(Rows[pos]), OrderOf(Rows[pos]))
                          EXCEPT !.after = Rows[pos].balance]
    <3>1. /\ Running /\ file.market = "shopee" /\ by' = by /\ file' = file
          /\ pos' = pos + 1 /\ Hand(<<item>>, "rows")
      BY <2>3 DEF ShopeeRow, Reading, Running
    <3>2. Key(item)[2] = pos
      BY DEF Key, RowItem
    <3>3. Place(Key(item)) = pos
      BY <3>1, <3>2 DEF Place
    <3> HIDE DEF item
    <3> QED
      BY <2>1, <3>1, <3>2, <3>3, HandsOne
  <2>4. CASE MengantarRow
    <3> DEFINE item == RowItem(pos, "order_fund", Rows[pos].order)
               fund == [item EXCEPT !.type = "fund", !.order = NoOrder]
               label == IF pos = Parsed THEN "done" ELSE "rows"
    <3>1. /\ Running /\ file.market = "mengantar" /\ by' = by /\ file' = file
          /\ pos' = pos + 1 /\ Hand(<<fund, item>>, label)
      BY <2>4 DEF MengantarRow, Reading, Running
    <3>2. Key(item) = <<"order_fund", pos>> /\ Key(fund) = <<"fund", pos>>
      BY DEF Key, RowItem
    <3>3. Place(Key(item)) = pos /\ Place(Key(fund)) = pos
      BY <3>1, <3>2 DEF Place
    <3> HIDE DEF item, fund
    <3>4. label \in {"done", "rows"}
      OBVIOUS
    <3> HIDE DEF label
    <3> QED
      BY <2>1, <3>1, <3>2, <3>3, <3>4, HandsTwo
  <2>5. CASE OrderRow
    <3> DEFINE item == RowItem(pos, TiktokType(Rows[pos]), Rows[pos].order)
    <3>1. Running /\ file.market = "tiktok"
      BY <2>1, <2>5 DEF OrderRow, ReadingOrders, Reads, Running
    <3>2. CASE Rows[pos].amount = 0
      BY <2>1, <2>5, <3>1, <3>2, HandsNothing DEF OrderRow, Skip, ReadingOrders
    <3>3. CASE Rows[pos].amount # 0
      <4>1. /\ by' = by /\ file' = file /\ pos' = pos + 1 /\ Hand(<<item>>, "orders")
        BY <2>5, <3>3 DEF OrderRow
      <4>2. Key(item)[1] # "fund" /\ Key(item)[2] = pos
        BY DEF Key, RowItem, TiktokType
      <4>3. Place(Key(item)) = pos
        BY <4>2 DEF Place
      <4> HIDE DEF item
      <4> QED
        BY <2>1, <3>1, <4>1, <4>2, <4>3, HandsOne
    <3> QED
      BY <3>2, <3>3
  <2>6. CASE WithdrawalRow
    <3> DEFINE item == [WdItem(At) EXCEPT !.after = 0]
    <3>1. Running /\ file.market = "tiktok"
      BY <2>1, <2>6 DEF WithdrawalRow, ReadingSheet, Reads, Running
    <3>2. Len(Rows) \in Nat /\ At \in Nat
      <4>1. Rows \in Seq(Range(Rows)) /\ Sheet \in Seq(Range(Sheet))
        BY <2>1, <3>1, UploadsAssumption DEF Reads, Rows, Sheet, TwoSheets
      <4>2. At \in DOMAIN Sheet
        BY <2>6 DEF WithdrawalRow, ReadingSheet
      <4> QED
        BY <4>1, <4>2, LenProperties
    <3>3. CASE Refuse \/ Skip
      BY <2>1, <2>6, <3>1, <3>3, HandsNothing DEF Refuse, Skip, WithdrawalRow, ReadingSheet
    <3>4. CASE ~(Refuse \/ Skip)
      <4>1. /\ by' = by /\ file' = file /\ pos' = pos + 1 /\ Hand(<<item>>, "orders")
        BY <2>6, <3>4 DEF WithdrawalRow
      <4>2. Key(item)[1] = "fund" /\ Key(item)[2] = At
        BY DEF Key, WdItem
      <4>3. Place(Key(item)) = pos
        BY <2>1, <3>1, <3>2, <4>2 DEF Place, At
      <4> HIDE DEF item
      <4> QED
        BY <2>1, <3>1, <3>2, <4>1, <4>2, <4>3, HandsOne
    <3> QED
      BY <3>3, <3>4
  <2>7. CASE SheetEnd
    BY <2>1, <2>7, HandsNothing DEF SheetEnd, Running
  <2> QED
    BY <1>3, <2>2, <2>3, <2>4, <2>5, <2>6, <2>7 DEF StreamRow, OldReader
<1>4. CASE Close
  BY <1>4 DEF Close, StreamInv, Reads, Running, Ahead, ToldIsQueued, BagToSet, Place, Rows
<1>5. CASE AskAgain
  BY <1>5 DEF AskAgain, StreamInv, Reads, Running, Ahead, ToldIsQueued, BagToSet, Place, Rows, Range
<1>6. CASE Import
  <2>1. by = "import" /\ UNCHANGED <<tasks, told>>
    BY <1>6 DEF Import
  <2>2. by' = by
    BY <1>6 DEF Import, Next, Unsupported, MapSheet, TiktokSkip, TiktokStray, TiktokPanic,
                TiktokRow, TiktokRest, OpenReport, ShopeeInProcess, ShopeeSkip, ShopeeRow,
                CloseReport, OpenCsv, MengantarRow, Refuse, Skip
  <2> QED
    BY <2>1, <2>2 DEF StreamInv, ToldIsQueued, BagToSet
<1>7. CASE UNCHANGED svars
  BY <1>7 DEF svars, vars, StreamInv, Reads, Running, Ahead, ToldIsQueued, BagToSet, Place, Rows
<1> QED
  BY <1>1, <1>2, <1>3, <1>4, <1>5, <1>6, <1>7 DEF StreamNext

-----------------------------------------------------------------------------
(* Theorems.                                                                 *)

\* A request has its task before it tells anything, and of the rows ahead of it
\* fewer have been told than there are tasks, so each row it tells is covered
\* (QueueTask before the stream, in SubmitWithdrawal).
THEOREM StreamInvariant == StreamSpec => []StreamInv
BY StreamInvInit, StreamInvStep, PTL DEF StreamSpec

\* However many requests fail, and wherever, revenue is never told of a row
\* more often than there are tasks that import it: SubmitWithdrawal queues the
\* v1 task before it streams, and reads every row once.
THEOREM EventsHaveTasks == StreamSpec => []ToldIsQueued
<1>1. StreamInv => ToldIsQueued
  BY DEF StreamInv
<1> QED
  BY <1>1, StreamInvariant, PTL
-----------------------------------------------------------------------------
(* The withdrawals of the TikTok reader.                                    *)

-----------------------------------------------------------------------------
(* Amounts.                                                                 *)

DetailWeight == [d \in DOMAIN Details |-> Details[d].amount]
EarningWeight == [r \in Lines |-> DetailAmount(invos[r])]

\* What the sums of the model are sums of.
LEMMA DetailSum ==
  ASSUME DetailWeight \in [DOMAIN Details -> Int],
         NEW S \in SUBSET DOMAIN Details, IsFiniteSet(S)
  PROVE  DetailAmount(S) = SumFunctionOnSet(DetailWeight, S)
<1> DEFINE Eq(h) == h = [s \in SUBSET S |-> IF s = {} THEN 0
                                            ELSE Details[Pick(s)].amount + h[s \ {Pick(s)}]]
           it == CHOOSE h : Eq(h)
<1>1. PICK h : IntegerFold(DetailWeight, S, h)
  BY FoldsExist
<1>2. \A s \in SUBSET S : s # {} => DetailWeight[Pick(s)] = Details[Pick(s)].amount
  BY DEF Pick, DetailWeight
<1>3. Eq(h)
  BY <1>1, <1>2 DEF IntegerFold, FoldsTo
<1>4. Eq(it)
  <2> HIDE DEF Eq
  <2> QED
    BY <1>3
<1>5. FoldsTo(DetailWeight, S, it)
  <2> HIDE DEF it
  <2> QED
    BY <1>2, <1>4 DEF FoldsTo
<1>6. DetailAmount(S) = it[S]
  BY DEF DetailAmount, MapThenSumSet, MapThenFoldSet, Pick
<1> QED
  <2> HIDE DEF it
  <2> QED
    BY <1>5, <1>6, SumFolds

\* The same for the amount of some earnings.
LEMMA EarningSum ==
  ASSUME EarningWeight \in [Lines -> Int], NEW S \in SUBSET Lines, IsFiniteSet(S)
  PROVE  GetAmount(S) = SumFunctionOnSet(EarningWeight, S)
<1> DEFINE Eq(h) == h = [s \in SUBSET S |-> IF s = {} THEN 0
                                            ELSE DetailAmount(invos[Pick(s)]) + h[s \ {Pick(s)}]]
           it == CHOOSE h : Eq(h)
<1>1. PICK h : IntegerFold(EarningWeight, S, h)
  BY FoldsExist
<1>2. \A s \in SUBSET S : s # {} => EarningWeight[Pick(s)] = DetailAmount(invos[Pick(s)])
  BY DEF Pick, EarningWeight
<1>3. Eq(h)
  BY <1>1, <1>2 DEF IntegerFold, FoldsTo
<1>4. Eq(it)
  <2> HIDE DEF Eq
  <2> QED
    BY <1>3
<1>5. FoldsTo(EarningWeight, S, it)
  <2> HIDE DEF it
  <2> QED
    BY <1>2, <1>4 DEF FoldsTo
<1>6. GetAmount(S) = it[S]
  BY DEF GetAmount, MapThenSumSet, MapThenFoldSet, Pick
<1> QED
  <2> HIDE DEF it
  <2> QED
    BY <1>5, <1>6, SumFolds

\* Lists of details for the rows of the sheet, no detail in two of them.
Lists == invos \in [Lines -> SUBSET DOMAIN Details]
Apart(S) == \A r, s \in S : r # s => invos[r] \cap invos[s] = {}

\* The book of the state is one of the workbooks.
LEMMA BookType ==
  ASSUME book \in Books
  PROVE  /\ Len(Records) \in Nat /\ Lines = 1..Len(Records) /\ IsFiniteSet(Lines)
         /\ IsFiniteSet(DOMAIN Details)
         /\ \A r \in Lines : Records[r] \in Record
         /\ DetailWeight \in [DOMAIN Details -> Int]
<1>1. Records \in Seq(Record) /\ Details \in Seq(Detail)
  BY BooksAssumption DEF Records, Details
<1>2. /\ Len(Records) \in Nat /\ DOMAIN Records = 1..Len(Records)
      /\ Len(Details) \in Nat /\ DOMAIN Details = 1..Len(Details)
  BY <1>1
<1>3. IsFiniteSet(1..Len(Records)) /\ IsFiniteSet(1..Len(Details))
  BY <1>2, FS_Interval
<1>4. \A d \in DOMAIN Details : Details[d] \in Detail
  BY <1>1
<1>5. DetailWeight \in [DOMAIN Details -> Int]
  BY <1>4 DEF DetailWeight, Detail
<1> QED
  BY <1>1, <1>2, <1>3, <1>5 DEF Lines

\* Amounts are whole numbers.
LEMMA AmountTypes ==
  ASSUME book \in Books, Lists
  PROVE  /\ \A S \in SUBSET DOMAIN Details : IsFiniteSet(S) /\ DetailAmount(S) \in Int
         /\ EarningWeight \in [Lines -> Int]
         /\ \A S \in SUBSET Lines : IsFiniteSet(S) /\ GetAmount(S) \in Int
<1>1. ASSUME NEW S \in SUBSET DOMAIN Details PROVE IsFiniteSet(S) /\ DetailAmount(S) \in Int
  <2>1. IsFiniteSet(S)
    BY BookType, FS_Subset
  <2>2. DetailAmount(S) = SumFunctionOnSet(DetailWeight, S)
    BY <2>1, BookType, DetailSum
  <2>3. SumFunctionOnSet(DetailWeight, S) \in Int
    BY <2>1, BookType, SumSteps
  <2> QED
    BY <2>1, <2>2, <2>3
<1>2. EarningWeight \in [Lines -> Int]
  BY <1>1 DEF EarningWeight, Lists
<1>3. ASSUME NEW S \in SUBSET Lines PROVE IsFiniteSet(S) /\ GetAmount(S) \in Int
  <2>1. IsFiniteSet(S)
    BY BookType, FS_Subset
  <2>2. GetAmount(S) = SumFunctionOnSet(EarningWeight, S)
    BY <1>2, <2>1, EarningSum
  <2>3. SumFunctionOnSet(EarningWeight, S) \in Int
    BY <1>2, <2>1, SumSteps
  <2> QED
    BY <2>1, <2>2, <2>3
<1> QED
  BY <1>1, <1>2, <1>3

\* What sets of earnings with nothing in common have is what they have together.
LEMMA EarningsAdd ==
  ASSUME book \in Books, Lists, NEW A \in SUBSET Lines, NEW B \in SUBSET Lines, A \cap B = {}
  PROVE  GetAmount(A \cup B) = GetAmount(A) + GetAmount(B)
<1>1. /\ EarningWeight \in [Lines -> Int] /\ IsFiniteSet(A) /\ IsFiniteSet(B)
      /\ A \cup B \in SUBSET Lines /\ IsFiniteSet(A \cup B)
  BY AmountTypes
<1> QED
  BY <1>1, EarningSum, SumOfUnion

\* The amount of a list of earnings is that of all of their details.
LEMMA AmountOfDetails ==
  ASSUME book \in Books, Lists, NEW S \in SUBSET Lines, Apart(S)
  PROVE  DetailAmount(UNION {invos[r] : r \in S}) = GetAmount(S)
<1> DEFINE D(A) == UNION {invos[r] : r \in A}
           T == {A \in SUBSET S : DetailAmount(D(A)) # GetAmount(A)}
<1>1. SUFFICES ASSUME T # {} PROVE FALSE
  OBVIOUS
<1>2. PICK A \in T : \A U \in T : U \subseteq A => U = A
  <2>1. T \in SUBSET (SUBSET S) /\ IsFiniteSet(S)
    BY AmountTypes
  <2> HIDE DEF T
  <2> QED
    BY <1>1, <2>1, SmallestSet
<1>3. A \in SUBSET Lines /\ IsFiniteSet(A) /\ EarningWeight \in [Lines -> Int]
  BY AmountTypes
<1>4. \A U \in SUBSET Lines : D(U) \in SUBSET DOMAIN Details /\ IsFiniteSet(D(U)) /\ DetailAmount(D(U)) \in Int
  <2>1. \A U \in SUBSET Lines : D(U) \in SUBSET DOMAIN Details
    BY DEF Lists
  <2> HIDE DEF D
  <2> QED
    BY <2>1, AmountTypes
<1>5. A # {}
  <2> SUFFICES ASSUME A = {} PROVE FALSE
    OBVIOUS
  <2>1. D(A) = {}
    OBVIOUS
  <2>2. DetailAmount({}) = SumFunctionOnSet(DetailWeight, {})
    BY BookType, DetailSum, FS_EmptySet
  <2>3. GetAmount({}) = SumFunctionOnSet(EarningWeight, {})
    BY <1>3, EarningSum, FS_EmptySet
  <2>4. SumFunctionOnSet(DetailWeight, {}) = 0 /\ SumFunctionOnSet(EarningWeight, {}) = 0
    BY <1>3, BookType, SumSteps, FS_EmptySet
  <2> HIDE DEF D
  <2> QED
    BY <2>1, <2>2, <2>3, <2>4
<1>6. PICK x \in A : TRUE
  BY <1>5
<1> DEFINE r == A \ {x}
<1>7. r \in SUBSET S /\ r \in SUBSET Lines /\ r \cup {x} = A /\ x \in Lines /\ r # A /\ {x} \in SUBSET Lines
  BY <1>3, <1>6
<1>8. DetailAmount(D(r)) = GetAmount(r)
  BY <1>2, <1>7
<1>9. D(A) = D(r) \cup invos[x] /\ D(r) \cap invos[x] = {}
  <2>1. D(A) = D(r) \cup invos[x]
    BY <1>7
  <2>2. \A y \in r : invos[y] \cap invos[x] = {}
    BY <1>6, <1>7 DEF Apart
  <2> QED
    BY <2>1, <2>2
<1> HIDE DEF D, r, T
<1>10. invos[x] \in SUBSET DOMAIN Details /\ D(r) \in SUBSET DOMAIN Details
  BY <1>4, <1>7 DEF Lists
<1>11. DetailAmount(D(A)) = DetailAmount(D(r)) + DetailAmount(invos[x])
  <2>1. IsFiniteSet(invos[x]) /\ IsFiniteSet(D(r)) /\ IsFiniteSet(D(r) \cup invos[x])
    BY <1>10, AmountTypes
  <2>2. SumFunctionOnSet(DetailWeight, D(r) \cup invos[x])
          = SumFunctionOnSet(DetailWeight, D(r)) + SumFunctionOnSet(DetailWeight, invos[x])
    <3> DEFINE P == D(r)
               Q == invos[x]
    <3>1. /\ DetailWeight \in [DOMAIN Details -> Int] /\ IsFiniteSet(P) /\ IsFiniteSet(Q)
          /\ P \in SUBSET DOMAIN Details /\ Q \in SUBSET DOMAIN Details /\ P \cap Q = {}
      BY <1>9, <1>10, <2>1, BookType
    <3> HIDE DEF P, Q
    <3>2. SumFunctionOnSet(DetailWeight, P \cup Q)
            = SumFunctionOnSet(DetailWeight, P) + SumFunctionOnSet(DetailWeight, Q)
      BY <3>1, SumOfUnion
    <3> QED
      BY <3>2 DEF P, Q
  <2> QED
    BY <1>9, <1>10, <2>1, <2>2, BookType, DetailSum
<1>12. GetAmount(A) = GetAmount(r) + DetailAmount(invos[x])
  <2>1. x \notin r /\ IsFiniteSet(r)
    BY <1>7, AmountTypes DEF r
  <2>2. SumFunctionOnSet(EarningWeight, r \cup {x}) = SumFunctionOnSet(EarningWeight, r) + EarningWeight[x]
    BY <1>3, <1>7, <2>1, SumAdds
  <2>3. EarningWeight[x] = DetailAmount(invos[x])
    BY <1>7 DEF EarningWeight
  <2> QED
    BY <1>3, <1>7, <2>1, <2>2, <2>3, EarningSum
<1> QED
  BY <1>2, <1>8, <1>11, <1>12 DEF T

-----------------------------------------------------------------------------
(* FundedEarning.                                                           *)

\* What FundedEarning lets a withdrawal have of its own earnings, and what it
\* misses; and its outcome, which may depend on that of the withdrawal before.
List(k) == IF GetAmount(Earning(k)) = Amount(k) THEN Earning(k) ELSE Oldest(Earning(k), Amount(k))
Need(k) == Amount(k) - GetAmount(List(k))
Left(k) == Newest(Earning(k + 1), Need(k))
Outcome(k, before) ==
    IF Need(k) = 0 THEN Traced(List(k), Earning(k) \ List(k))
    ELSE IF List(k) # Earning(k) \/ k = Len(wds) THEN Error
    ELSE IF IsLast(k + 1)
         THEN IF Need(k) >= 0 /\ GetAmount(Left(k)) = Need(k)
              THEN Traced(Left(k) \cup List(k), Earning(k) \ List(k)) ELSE Error
    ELSE IF before.ok /\ GetAmount(before.not) = Need(k)
         THEN Traced(before.not \cup List(k), Earning(k) \ List(k)) ELSE Error

\* The outcomes of the withdrawals from the m-th to the oldest.
Solves(g, m) == g = [k \in m..Len(wds) |-> Outcome(k, g[k + 1])]

\* There are such outcomes: the oldest withdrawal looks at no other, and each of
\* the others at the one before it.
LEMMA OutcomesExist ==
  ASSUME Len(wds) \in Nat
  PROVE  \A m \in 1..Len(wds) : \E g : Solves(g, m)
<1> DEFINE N == Len(wds)
           S == {i \in 1..N : ~ \E g : Solves(g, N + 1 - i)}
<1>1. SUFFICES ASSUME S # {} PROVE FALSE
  <2>1. \A m \in 1..N : N + 1 - m \in 1..N /\ N + 1 - (N + 1 - m) = m
    OBVIOUS
  <2>2. \A i \in 1..N : \E g : Solves(g, N + 1 - i)
    BY <1>1
  <2> HIDE DEF S
  <2> QED
    BY <2>1, <2>2
<1>2. PICK i \in S : \A j \in S : i <= j
  <2>1. S \in SUBSET (1..N) /\ N \in Nat
    OBVIOUS
  <2> HIDE DEF S, N
  <2> QED
    BY <1>1, <2>1, MinIsThere
<1> DEFINE m == N + 1 - i
<1>3. m \in 1..N /\ i \in 1..N
  BY <1>2
<1>4. \A x, y : Outcome(N, x) = Outcome(N, y)
  BY DEF Outcome
<1>5. PICK g : m < N => Solves(g, m + 1)
  <2>1. CASE m < N
    <3>1. i - 1 \in 1..N /\ i - 1 < i /\ N + 1 - (i - 1) = m + 1
      BY <1>3, <2>1
    <3>2. i - 1 \notin S
      BY <1>2, <1>3, <3>1
    <3> QED
      BY <3>1, <3>2
  <2>2. CASE ~(m < N)
    BY <2>2
  <2> QED
    BY <2>1, <2>2
<1> DEFINE h == [k \in m..N |-> IF k = m THEN Outcome(m, g[m + 1]) ELSE g[k]]
<1>6. \A k \in m..N : h[k] = Outcome(k, h[k + 1])
  <2> SUFFICES ASSUME NEW k \in m..N PROVE h[k] = Outcome(k, h[k + 1])
    OBVIOUS
  <2>1. k \in 1..N /\ (k = N \/ k + 1 \in (m + 1)..N)
    BY <1>3
  <2>2. h[k] = Outcome(k, g[k + 1])
    <3>1. CASE k = m
      BY <3>1
    <3>2. CASE k # m
      <4>1. m < N /\ k \in (m + 1)..N
        BY <1>3, <2>1, <3>2
      <4>2. g[k] = Outcome(k, g[k + 1])
        BY <1>5, <4>1 DEF Solves
      <4> QED
        BY <3>2, <4>2
    <3> QED
      BY <3>1, <3>2
  <2>3. k # N => h[k + 1] = g[k + 1]
    <3>1. k # N => k + 1 \in m..N /\ k + 1 # m
      BY <1>3, <2>1
    <3> QED
      BY <3>1
  <2> HIDE DEF h, N
  <2>4. CASE k = N
    BY <1>4, <2>2, <2>4
  <2>5. CASE k # N
    BY <2>2, <2>3, <2>5
  <2> QED
    BY <2>4, <2>5
<1>7. Solves(h, m)
  <2>1. h = [k \in m..N |-> h[k]]
    OBVIOUS
  <2> HIDE DEF h
  <2> QED
    BY <1>6, <2>1 DEF Solves
<1>8. i \notin S
  <2> HIDE DEF h
  <2> QED
    BY <1>7
<1> QED
  BY <1>2, <1>8

\* So FundedEarning tells them.
LEMMA FundedEarningIs ==
  ASSUME Len(wds) \in Nat, DOMAIN wds = 1..Len(wds), NEW k \in DOMAIN wds
  PROVE  FundedEarning[k] = Outcome(k, FundedEarning[k + 1])
<1>1. PICK g : Solves(g, 1)
  BY OutcomesExist
<1> DEFINE Eq(f) == f = [n \in DOMAIN wds |-> Outcome(n, f[n + 1])]
           it == CHOOSE f : Eq(f)
<1>2. Eq(it)
  <2>1. Eq(g)
    BY <1>1 DEF Solves
  <2> HIDE DEF Eq
  <2> QED
    BY <2>1
<1>3. FundedEarning = it
  BY DEF FundedEarning, Outcome, List, Need, Left
<1> QED
  <2>1. it[k] = Outcome(k, it[k + 1])
    <3> HIDE DEF it
    <3> QED
      BY <1>2
  <2> QED
    BY <1>3, <2>1

\* They do not change while nothing is read.
LEMMA FundedEarningKept ==
  ASSUME UNCHANGED <<book, wds, invos>>
  PROVE  FundedEarning' = FundedEarning
<1>1. UNCHANGED <<Records, Details, Lines>>
  BY DEF Records, Details, Lines
<1>2. \A k : Earning(k)' = Earning(k) /\ Amount(k)' = Amount(k) /\ IsLast(k)' = IsLast(k)
  BY <1>1 DEF Earning, Amount, IsLast
<1>3. \A S : GetAmount(S)' = GetAmount(S)
  <2>1. \A S : DetailAmount(S)' = DetailAmount(S)
    BY <1>1 DEF DetailAmount, MapThenSumSet, MapThenFoldSet
  <2> QED
    BY <2>1 DEF GetAmount, MapThenSumSet, MapThenFoldSet
<1>4. \A S : SheetAmount(S)' = SheetAmount(S)
  BY <1>1 DEF SheetAmount, MapThenSumSet, MapThenFoldSet
<1>5. \A S, n : Oldest(S, n)' = Oldest(S, n) /\ Newest(S, n)' = Newest(S, n)
  BY <1>4 DEF Oldest, Newest
<1>6. ASSUME NEW k PROVE List(k)' = List(k) /\ Need(k)' = Need(k) /\ Left(k)' = Left(k)
  <2>1. List(k)' = List(k)
    BY <1>2, <1>3, <1>5 DEF List
  <2>2. Need(k)' = Need(k)
    BY <1>2, <1>3, <2>1 DEF Need
  <2>3. Left(k)' = Left(k)
    BY <1>2, <1>5, <2>2 DEF Left
  <2> QED
    BY <2>1, <2>2, <2>3
<1>7. ASSUME NEW k, NEW b PROVE Outcome(k, b)' = Outcome(k, b)
  <2>1. IsLast(k + 1)' = IsLast(k + 1) /\ Earning(k)' = Earning(k) /\ Len(wds)' = Len(wds)
    BY <1>2
  <2>2. List(k)' = List(k) /\ Need(k)' = Need(k) /\ Left(k)' = Left(k)
    BY <1>6
  <2>3. GetAmount(Left(k))' = GetAmount(Left(k)) /\ GetAmount(b.not)' = GetAmount(b.not)
    BY <1>3, <2>2
  <2> QED
    BY <2>1, <2>2, <2>3, Zenon DEF Outcome
<1> DEFINE Eq(f) == f = [n \in DOMAIN wds |-> Outcome(n, f[n + 1])]
<1>8. \A f : Eq(f)' <=> Eq(f)
  BY <1>7
<1>9. (CHOOSE f : Eq(f))' = CHOOSE f : Eq(f)
  <2> HIDE DEF Eq
  <2> QED
    BY <1>8
<1>10. FundedEarning = CHOOSE f : Eq(f)
  BY DEF FundedEarning, Outcome, List, Need, Left
<1>11. FundedEarning' = (CHOOSE f : Eq(f))'
  BY DEF FundedEarning, Outcome, List, Need, Left
<1> QED
  BY <1>9, <1>10, <1>11

-----------------------------------------------------------------------------
(* What has been read.                                                      *)

\* The withdrawals met are rows above the next one, newest first.
Met ==
    /\ book \in Books /\ row \in 1..(Len(Records) + 1)
    /\ Len(wds) \in Nat /\ DOMAIN wds = 1..Len(wds)
    /\ \A k \in DOMAIN wds : wds[k] \in 1..(row - 1)
    /\ \A k, l \in DOMAIN wds : k < l => wds[k] < wds[l]

\* What each row has got: earnings the orders of their day, deductions ads
\* payments no other deduction has got.
Gathered ==
    /\ Lists /\ getted \subseteq DOMAIN Details
    /\ \A r \in Lines : invos[r] # {} => r < row /\ Records[r].type \in {"Earnings", "GMV"}
    /\ \A r \in Lines : Records[r].type = "Earnings" => invos[r] \subseteq OrderEarning(Records[r].date)
    /\ \A r \in Lines : Records[r].type = "GMV" =>
           /\ invos[r] \subseteq getted
           /\ \A d \in invos[r] : Details[d].kind = "ads"
           /\ \A s \in Lines : Records[s].type = "GMV" /\ r # s => invos[r] \cap invos[s] = {}

\* What has been returned is what FundedEarning says.
Returned ==
    /\ DOMAIN funded = 1..Len(funded) /\ Len(funded) \in Nat /\ next = Len(funded) + 1
    /\ \A k \in DOMAIN funded : /\ k \in DOMAIN wds
                                /\ FundedEarning[k].ok /\ funded[k] = FundedEarning[k].funded
    /\ phase = "records" => funded = <<>>

FundInv == Met /\ Gathered /\ Returned

\* All this holds before the first row is read.
LEMMA FundStarts == FundInit => FundInv
<1> SUFFICES ASSUME FundInit PROVE FundInv
  OBVIOUS
<1>1. book \in Books /\ row = 1 /\ wds = <<>> /\ getted = {} /\ next = 1 /\ funded = <<>>
      /\ invos = [r \in Lines |-> {}]
  BY DEF FundInit
<1>2. Met
  <2>1. Len(Records) \in Nat
    BY <1>1, BookType
  <2>2. row \in 1..(Len(Records) + 1)
    BY <1>1, <2>1
  <2>3. Len(wds) = 0 /\ DOMAIN wds = {}
    BY <1>1
  <2> QED
    BY <1>1, <2>2, <2>3 DEF Met
<1>3. Gathered
  BY <1>1 DEF Gathered, Lists
<1>4. Returned
  BY <1>1 DEF Returned
<1> QED
  BY <1>2, <1>3, <1>4 DEF FundInv

\* A row that gets a list no other has keeps the lists in order.
LEMMA GatheredKept ==
  ASSUME Met, Gathered, UNCHANGED book, row' = row + 1, row \in Lines,
         Records[row].type \in {"Earnings", "GMV"},
         NEW S \in SUBSET DOMAIN Details, Attach(S),
         getted \subseteq getted', getted' \subseteq DOMAIN Details,
         Records[row].type = "Earnings" => S \subseteq OrderEarning(Records[row].date),
         Records[row].type = "GMV" =>
             /\ S \subseteq getted' /\ S \cap getted = {}
             /\ \A d \in S : Details[d].kind = "ads"
  PROVE  Gathered'
<1>1. UNCHANGED <<Records, Details, Lines>>
  BY DEF Records, Details, Lines
<1>2. /\ DOMAIN invos = Lines
      /\ \A r \in Lines : r # row => invos'[r] = invos[r]
      /\ invos'[row] = S \/ invos'[row] = invos[row]
      /\ Lists'
  BY <1>1 DEF Attach, Gathered, Lists
<1>3. \A d : OrderEarning(d)' = OrderEarning(d)
  BY <1>1 DEF OrderEarning
<1>4. row \in Nat /\ \A r \in Lines : r \in Nat
  BY BookType DEF Met
<1>5. \A r \in Lines : invos'[r] # {} => r < row + 1 /\ Records[r].type \in {"Earnings", "GMV"}
  BY <1>2, <1>4 DEF Gathered
<1>6. \A r \in Lines : Records[r].type = "Earnings" => invos'[r] \subseteq OrderEarning(Records[r].date)
  BY <1>2 DEF Gathered
<1>7. ASSUME NEW r \in Lines, Records[r].type = "GMV"
      PROVE  /\ invos'[r] \subseteq getted' /\ \A d \in invos'[r] : Details[d].kind = "ads"
             /\ \A s \in Lines : Records[s].type = "GMV" /\ r # s => invos'[r] \cap invos'[s] = {}
  <2>1. invos[r] \subseteq getted /\ \A s \in Lines : Records[s].type = "GMV" => invos[s] \subseteq getted
    BY <1>7 DEF Gathered
  <2>2. CASE r = row
    BY <1>2, <1>7, <2>1, <2>2 DEF Gathered
  <2>3. CASE r # row
    <3>1. invos'[r] = invos[r] /\ \A d \in invos[r] : Details[d].kind = "ads"
      BY <1>2, <1>7, <2>3 DEF Gathered
    <3>2. ASSUME NEW s \in Lines, Records[s].type = "GMV", r # s PROVE invos[r] \cap invos'[s] = {}
      <4>1. invos[r] \cap invos[s] = {}
        BY <1>7, <3>2 DEF Gathered
      <4>2. CASE invos'[s] = invos[s]
        BY <4>1, <4>2
      <4>3. CASE s = row /\ invos'[s] = S
        BY <2>1, <3>2, <4>3
      <4> QED
        BY <1>2, <4>2, <4>3
    <3> QED
      BY <2>1, <3>1, <3>2
  <2> QED
    BY <2>2, <2>3
<1> QED
  BY <1>1, <1>2, <1>3, <1>5, <1>6, <1>7 DEF Gathered

\* Every step keeps it.
LEMMA FundSteps == FundInv /\ [FundNext]_fvars => FundInv'
<1> SUFFICES ASSUME FundInv, [FundNext]_fvars PROVE FundInv'
  OBVIOUS
<1> USE DEF FundInv
<1>1. UNCHANGED book /\ UNCHANGED <<Records, Details, Lines>>
  BY DEF FundNext, ReadRecord, EndOfRecords, ValidWithdrawal, EndOfWithdrawals, fvars, Records, Details, Lines
<1>2. Len(Records) \in Nat /\ Lines = 1..Len(Records) /\ row \in Nat
  BY BookType DEF Met
<1>3. CASE ReadRecord
  <2> USE <1>3 DEF ReadRecord
  <2>1. row \in Lines /\ funded = <<>> /\ UNCHANGED <<next, funded>> /\ phase = "records"
    BY DEF Returned
  <2>2. Returned'
    BY <2>1 DEF Returned
  <2>3. CASE ReadEarnings
    <3>1. UNCHANGED <<wds, getted>> /\ row' = row + 1
      BY <2>3 DEF ReadEarnings, NextRow
    <3>2. Met'
      BY <1>1, <1>2, <2>1, <3>1 DEF Met
    <3>3. OrderEarning(Records[row].date) \in SUBSET DOMAIN Details
      BY DEF OrderEarning
    <3>4. Gathered'
      BY <1>1, <2>1, <2>3, <3>1, <3>3, GatheredKept DEF ReadEarnings, Gathered
    <3> QED
      BY <2>2, <3>2, <3>4
  <2>4. CASE ReadDeduction
    <3> DEFINE S == GmvDeduction(Records[row].date, Records[row].amount)
    <3>1. /\ S \in SUBSET DOMAIN Details /\ S \cap getted = {}
          /\ \A d \in S : Details[d].kind = "ads"
      BY DEF GmvDeduction, Free
    <3>2. getted' = getted \cup S /\ UNCHANGED wds /\ Records[row].type = "GMV"
      BY <2>4 DEF ReadDeduction
    <3>3. CASE UNCHANGED <<invos, row>>
      <4>1. Met'
        BY <1>1, <3>2, <3>3 DEF Met
      <4>2. \A d : OrderEarning(d)' = OrderEarning(d)
        BY <1>1 DEF OrderEarning
      <4>3. Gathered'
        BY <1>1, <3>1, <3>2, <3>3, <4>2 DEF Gathered, Lists
      <4> QED
        BY <2>2, <4>1, <4>3
    <3>4. CASE Attach(S) /\ row' = row + 1
      <4>1. Met'
        BY <1>1, <1>2, <2>1, <3>2, <3>4 DEF Met
      <4>2. getted \subseteq getted' /\ getted' \subseteq DOMAIN Details
        BY <3>1, <3>2 DEF Gathered
      <4>3. Gathered'
        <5> HIDE DEF S
        <5> QED
          BY <1>1, <2>1, <3>1, <3>2, <3>4, <4>2, GatheredKept
      <4> QED
        BY <2>2, <4>1, <4>3
    <3> QED
      BY <2>4, <3>3, <3>4 DEF ReadDeduction, NextRow
  <2>5. CASE ReadWithdrawal \/ ReadInProcess \/ SkipRow
    <3>1. /\ UNCHANGED <<invos, getted>> /\ row' \in {row, row + 1}
          /\ UNCHANGED wds \/ (wds' = Append(wds, row) /\ row' = row + 1)
      BY <2>5 DEF ReadWithdrawal, ReadInProcess, SkipRow, NextRow
    <3>2. Met'
      <4>1. CASE UNCHANGED wds
        BY <1>1, <1>2, <2>1, <3>1, <4>1 DEF Met
      <4>2. CASE wds' = Append(wds, row) /\ row' = row + 1
        <5>1. /\ Len(wds') = Len(wds) + 1 /\ DOMAIN wds' = 1..(Len(wds) + 1)
              /\ \A k \in 1..Len(wds) : wds'[k] = wds[k]
              /\ wds'[Len(wds) + 1] = row
          BY <4>2 DEF Met
        <5>2. \A k \in DOMAIN wds' : wds'[k] \in 1..row
          BY <1>2, <2>1, <5>1 DEF Met
        <5>3. \A k, l \in DOMAIN wds' : k < l => wds'[k] < wds'[l]
          BY <1>2, <2>1, <5>1 DEF Met
        <5> QED
          BY <1>1, <1>2, <2>1, <4>2, <5>1, <5>2, <5>3 DEF Met
      <4> QED
        BY <3>1, <4>1, <4>2
    <3>3. \A d : OrderEarning(d)' = OrderEarning(d)
      BY <1>1 DEF OrderEarning
    <3>4. \A r \in Lines : r \in Nat
      BY <1>2
    <3>5. Gathered'
      BY <1>1, <1>2, <3>1, <3>3, <3>4 DEF Gathered, Lists
    <3> QED
      BY <2>2, <3>2, <3>5
  <2> QED
    BY <2>3, <2>4, <2>5
<1>4. CASE EndOfRecords \/ EndOfWithdrawals \/ ValidWithdrawal \/ UNCHANGED fvars
  <2>1. /\ UNCHANGED <<row, wds, invos, getted>>
        /\ phase # "records" => phase' # "records"
    BY <1>4 DEF EndOfRecords, EndOfWithdrawals, ValidWithdrawal, Keep, GiveUp, fvars
  <2>2. Met'
    BY <1>1, <2>1 DEF Met
  <2>3. Gathered'
    <3>1. \A d : OrderEarning(d)' = OrderEarning(d)
      BY <1>1 DEF OrderEarning
    <3> QED
      BY <1>1, <2>1, <3>1 DEF Gathered, Lists
  <2>4. FundedEarning' = FundedEarning
    BY <1>1, <2>1, FundedEarningKept
  <2>5. CASE UNCHANGED <<next, funded>>
    <3>1. phase' = "records" => phase = "records"
      BY <1>4 DEF EndOfRecords, EndOfWithdrawals, ValidWithdrawal, Keep, GiveUp, fvars
    <3>2. Returned'
      BY <2>1, <2>4, <2>5, <3>1 DEF Returned
    <3> QED
      BY <2>2, <2>3, <3>2
  <2>6. CASE ValidWithdrawal /\ Keep
    <3>1. /\ next <= Len(wds) /\ phase' # "records" /\ next' = next + 1
          /\ FundedEarning[next].ok /\ funded' = Append(funded, FundedEarning[next].funded)
      BY <2>6 DEF ValidWithdrawal, Keep, Result
    <3>2. /\ Len(funded') = Len(funded) + 1 /\ DOMAIN funded' = 1..(Len(funded) + 1)
          /\ \A k \in 1..Len(funded) : funded'[k] = funded[k]
          /\ funded'[Len(funded) + 1] = FundedEarning[next].funded
      BY <3>1 DEF Returned
    <3>3. next \in DOMAIN wds
      BY <3>1 DEF Returned, Met
    <3>4. Returned'
      BY <2>1, <2>4, <3>1, <3>2, <3>3 DEF Returned
    <3> QED
      BY <2>2, <2>3, <3>4
  <2> QED
    BY <1>4, <2>5, <2>6 DEF EndOfRecords, EndOfWithdrawals, ValidWithdrawal, GiveUp, fvars
<1> QED
  BY <1>3, <1>4 DEF FundNext

-----------------------------------------------------------------------------
(* What is returned.                                                        *)

\* The earnings of two withdrawals are different rows, and what the tracing
\* takes and leaves are parts of them.
LEMMA EarningSets ==
  ASSUME Met
  PROVE  /\ \A k \in DOMAIN wds : /\ Earning(k) \in SUBSET Lines /\ List(k) \in SUBSET Earning(k)
                                  /\ Left(k) \in SUBSET Earning(k + 1)
         /\ \A k, l \in DOMAIN wds : k < l => Earning(k) \cap Earning(l) = {}
<1>1. \A k : Earning(k) \in SUBSET Lines
  BY DEF Earning
<1>2. \A S, n : Oldest(S, n) \subseteq S /\ Newest(S, n) \subseteq S
  BY DEF Oldest, Newest
<1>3. \A k : List(k) \in SUBSET Earning(k) /\ Left(k) \in SUBSET Earning(k + 1)
  BY <1>2 DEF List, Left
<1>4. ASSUME NEW k \in DOMAIN wds, NEW l \in DOMAIN wds, k < l, NEW r \in Earning(k), r \in Earning(l)
      PROVE  FALSE
  <2>1. k \in 1..Len(wds) /\ l \in 1..Len(wds) /\ Len(wds) \in Nat /\ k + 1 \in DOMAIN wds
    BY <1>4 DEF Met
  <2>2. wds[k + 1] \in Int /\ wds[l] \in Int /\ wds[k + 1] <= wds[l]
    <3>1. \A n \in DOMAIN wds : wds[n] \in Int
      BY BookType DEF Met
    <3>2. k + 1 = l \/ wds[k + 1] < wds[l]
      BY <1>4, <2>1 DEF Met
    <3> QED
      BY <1>4, <2>1, <3>1, <3>2
  <2>3. r \in Int /\ r < wds[k + 1] /\ r > wds[l]
    BY <1>4, <2>1, BookType DEF Earning, Met
  <2> QED
    BY <2>2, <2>3
<1> QED
  BY <1>1, <1>3, <1>4

\* What a traced withdrawal has is the part of its own earnings that it lets
\* itself have, and what the withdrawal before it leaves.
Rest(k) ==
    IF Need(k) = 0 THEN {}
    ELSE IF IsLast(k + 1) THEN Left(k) ELSE Earning(k + 1) \ List(k + 1)

\* A withdrawal that FundedEarning traces has its list and that rest, and leaves
\* behind its other earnings.
LEMMA TracedIs ==
  ASSUME Met, NEW k \in DOMAIN wds, FundedEarning[k].ok
  PROVE  /\ FundedEarning[k].funded = Rest(k) \cup List(k)
         /\ FundedEarning[k].not = Earning(k) \ List(k)
         /\ Rest(k) # {} => k < Len(wds)
         /\ Need(k) # 0 => k < Len(wds) /\ GetAmount(Rest(k)) = Need(k)
<1>1. /\ Len(wds) \in Nat /\ DOMAIN wds = 1..Len(wds) /\ k \in 1..Len(wds)
      /\ \A n \in DOMAIN wds : FundedEarning[n] = Outcome(n, FundedEarning[n + 1])
  BY FundedEarningIs DEF Met
<1>2. ~Error.ok /\ \A S, T : Traced(S, T).ok /\ Traced(S, T).funded = S /\ Traced(S, T).not = T
  BY DEF Error, Traced
<1>3. ASSUME NEW n \in DOMAIN wds, FundedEarning[n].ok
      PROVE  FundedEarning[n].not = Earning(n) \ List(n)
  <2>1. Outcome(n, FundedEarning[n + 1]).ok
    BY <1>1, <1>3
  <2>2. \A b : Outcome(n, b) = Error \/ \E S : Outcome(n, b) = Traced(S, Earning(n) \ List(n))
    BY DEF Outcome
  <2> QED
    BY <1>1, <1>2, <2>1, <2>2
<1>4. CASE Need(k) = 0
  <2>1. FundedEarning[k] = Traced(List(k), Earning(k) \ List(k)) /\ Rest(k) = {}
    BY <1>1, <1>4 DEF Outcome, Rest
  <2> QED
    BY <1>2, <1>4, <2>1
<1>5. CASE Need(k) # 0
  <2>0. FundedEarning[k] = Outcome(k, FundedEarning[k + 1]) /\ FundedEarning[k] # Error
    BY <1>1, <1>2
  <2>1. k # Len(wds) /\ k + 1 \in DOMAIN wds
    <3>1. k # Len(wds)
      BY <1>5, <2>0 DEF Outcome
    <3> QED
      BY <1>1, <3>1
  <2>2. CASE IsLast(k + 1)
    <3>1. GetAmount(Left(k)) = Need(k) /\ FundedEarning[k] = Traced(Left(k) \cup List(k), Earning(k) \ List(k))
      BY <1>5, <2>0, <2>2 DEF Outcome
    <3> QED
      BY <1>1, <1>2, <1>5, <2>1, <2>2, <3>1 DEF Rest
  <2>3. CASE ~IsLast(k + 1)
    <3> DEFINE b == FundedEarning[k + 1]
    <3>1. b.ok /\ GetAmount(b.not) = Need(k) /\ FundedEarning[k] = Traced(b.not \cup List(k), Earning(k) \ List(k))
      BY <1>5, <2>0, <2>3 DEF Outcome
    <3>2. b.not = Earning(k + 1) \ List(k + 1)
      BY <1>3, <2>1, <3>1
    <3> HIDE DEF b
    <3> QED
      BY <1>1, <1>2, <1>5, <2>1, <2>3, <3>1, <3>2 DEF Rest
  <2> QED
    BY <2>2, <2>3
<1> QED
  BY <1>4, <1>5

\* Whatever is traced has the amount of its withdrawal.
LEMMA TracedAddsUp ==
  ASSUME Met, Lists, NEW k \in DOMAIN wds, FundedEarning[k].ok
  PROVE  /\ FundedEarning[k].funded \in SUBSET Lines
         /\ GetAmount(FundedEarning[k].funded) = Amount(k)
<1>1. book \in Books /\ Len(wds) \in Nat /\ DOMAIN wds = 1..Len(wds) /\ k \in 1..Len(wds)
  BY DEF Met
<1>2. List(k) \in SUBSET Earning(k) /\ List(k) \in SUBSET Lines
  BY EarningSets
<1>3. Amount(k) \in Int
  <2>1. wds[k] \in Lines
    BY BookType DEF Met
  <2>2. Records[wds[k]].amount \in Int
    BY <1>1, <2>1, BookType DEF Record
  <2> QED
    BY <2>2 DEF Amount, Abs
<1>4. GetAmount(List(k)) \in Int
  BY <1>1, <1>2, AmountTypes
<1>5. CASE Need(k) = 0
  <2>1. FundedEarning[k].funded = List(k)
    BY <1>5, TracedIs DEF Rest
  <2> QED
    BY <1>2, <1>3, <1>4, <1>5, <2>1 DEF Need
<1>6. CASE Need(k) # 0
  <2>1. k + 1 \in DOMAIN wds /\ GetAmount(Rest(k)) = Need(k)
        /\ FundedEarning[k].funded = Rest(k) \cup List(k)
    BY <1>1, <1>6, TracedIs
  <2>2. Rest(k) \in SUBSET Earning(k + 1) /\ Earning(k + 1) \in SUBSET Lines
        /\ Earning(k) \cap Earning(k + 1) = {}
    BY <1>1, <2>1, EarningSets DEF Rest
  <2>3. Rest(k) \in SUBSET Lines /\ Rest(k) \cap List(k) = {}
    BY <1>2, <2>2
  <2>4. GetAmount(Rest(k) \cup List(k)) = GetAmount(Rest(k)) + GetAmount(List(k))
    BY <1>1, <1>2, <2>3, EarningsAdd
  <2> QED
    BY <1>2, <1>3, <1>4, <2>1, <2>3, <2>4 DEF Need
<1> QED
  BY <1>5, <1>6

\* If no day's earnings are split, no detail is in the lists of two rows.
LEMMA ListsApart ==
  ASSUME Met, Gathered, OneRowADay
  PROVE  Apart(Lines)
<1> SUFFICES ASSUME NEW r \in Lines, NEW s \in Lines, r # s, NEW d \in invos[r], d \in invos[s] PROVE FALSE
  BY DEF Apart
<1>1. Records[r].type \in {"Earnings", "GMV"} /\ Records[s].type \in {"Earnings", "GMV"}
  BY DEF Gathered
<1>2. \A q \in Lines : Records[q].type = "Earnings" /\ d \in invos[q] =>
          Details[d].date = Records[q].date /\ Details[d].kind # "ads"
  BY DEF Gathered, OrderEarning
<1>3. \A q \in Lines : Records[q].type = "GMV" /\ d \in invos[q] => Details[d].kind = "ads"
  BY DEF Gathered
<1>4. CASE Records[r].type = "Earnings" /\ Records[s].type = "Earnings"
  BY <1>2, <1>4 DEF OneRowADay
<1>5. CASE Records[r].type = "GMV" /\ Records[s].type = "GMV"
  BY <1>5 DEF Gathered
<1> QED
  BY <1>1, <1>2, <1>3, <1>4, <1>5

\* IterateWithdrawal has given every row details of its own day and kind, and
\* IterateValidWithdrawal has returned what FundedEarning traced.
THEOREM FundInvariant == FundSpec => []FundInv
<1>1. FundInit => FundInv
  BY FundStarts
<1>2. FundInv /\ [FundNext]_fvars => FundInv'
  BY FundSteps
<1> QED
  BY <1>1, <1>2, PTL DEF FundSpec

\* The earnings that IterateValidWithdrawal returns for a withdrawal add up to
\* it, detail by detail: FundedEarning compares day totals, and no detail is
\* counted in two of them.
THEOREM EarningsAddUp == FundSpec => []AddsUp
<1>1. FundInv => AddsUp
  <2> SUFFICES ASSUME FundInv, OneRowADay, NEW k \in DOMAIN funded
               PROVE  DetailAmount(PaidOut(k)) = Amount(k)
    BY DEF AddsUp
  <2>1. Met /\ Gathered /\ Lists /\ book \in Books
    BY DEF FundInv, Gathered, Met
  <2>2. k \in DOMAIN wds /\ FundedEarning[k].ok /\ funded[k] = FundedEarning[k].funded
    BY DEF FundInv, Returned
  <2>3. funded[k] \in SUBSET Lines /\ GetAmount(funded[k]) = Amount(k)
    BY <2>1, <2>2, TracedAddsUp
  <2>4. Apart(funded[k])
    BY <2>1, <2>3, ListsApart DEF Apart
  <2> QED
    BY <2>1, <2>3, <2>4, AmountOfDetails DEF PaidOut
<1> QED
  BY <1>1, FundInvariant, PTL

\* The first half of PaidOnce: no detail is paid out by two withdrawals, the
\* oldest of the workbook left aside.
InsidePaidOnce ==
    OneRowADay => \A k, l \in DOMAIN funded :
        k < l /\ l < Len(wds) => PaidOut(k) \cap PaidOut(l) = {}

\* What a withdrawal takes of the one before it, that one has left.
LEMMA InsideOnce == FundInv => InsidePaidOnce
<1> SUFFICES ASSUME FundInv, OneRowADay, NEW k \in DOMAIN funded, NEW l \in DOMAIN funded,
                    k < l, l < Len(wds)
             PROVE  PaidOut(k) \cap PaidOut(l) = {}
  BY DEF InsidePaidOnce
<1>1. Met /\ Gathered
  BY DEF FundInv
<1>2. /\ k \in DOMAIN wds /\ FundedEarning[k].ok /\ funded[k] = FundedEarning[k].funded
      /\ l \in DOMAIN wds /\ FundedEarning[l].ok /\ funded[l] = FundedEarning[l].funded
      /\ k \in 1..Len(wds) /\ l \in 1..Len(wds) /\ Len(wds) \in Nat /\ DOMAIN wds = 1..Len(wds)
  BY <1>1 DEF FundInv, Returned, Met
<1>3. funded[k] = Rest(k) \cup List(k) /\ funded[l] = Rest(l) \cup List(l)
  BY <1>1, <1>2, TracedIs
<1>4. k + 1 \in DOMAIN wds /\ l + 1 \in DOMAIN wds /\ k + 1 <= l
  BY <1>2
<1>5. Rest(k) \subseteq Earning(k + 1) \ List(k + 1) /\ Rest(l) \subseteq Earning(l + 1)
  <2>1. ~IsLast(k + 1)
    BY <1>2, <1>4 DEF IsLast
  <2> QED
    BY <1>1, <1>2, <1>4, <2>1, EarningSets DEF Rest
<1>6. List(k) \subseteq Earning(k) /\ List(l) \subseteq Earning(l) /\ funded[k] \subseteq Lines
      /\ funded[l] \subseteq Lines
  BY <1>1, <1>2, <1>3, <1>4, <1>5, EarningSets
<1>7. \A m, n \in DOMAIN wds : m < n => Earning(m) \cap Earning(n) = {}
  BY <1>1, EarningSets
<1>8. funded[k] \cap funded[l] = {}
  <2>1. List(k) \cap List(l) = {} /\ List(k) \cap Rest(l) = {}
    BY <1>2, <1>4, <1>5, <1>6, <1>7
  <2>2. Rest(k) \cap Rest(l) = {}
    BY <1>2, <1>4, <1>5, <1>7
  <2>3. Rest(k) \cap List(l) = {}
    <3>1. CASE l = k + 1
      BY <1>5, <3>1
    <3>2. CASE k + 1 < l
      BY <1>2, <1>4, <1>5, <1>6, <1>7, <3>2
    <3> QED
      BY <1>2, <1>4, <3>1, <3>2
  <2> QED
    BY <1>3, <2>1, <2>2, <2>3
<1>9. Apart(Lines)
  BY <1>1, ListsApart
<1> QED
  BY <1>6, <1>8, <1>9 DEF Apart, PaidOut

-----------------------------------------------------------------------------
(* What the rows of the sheet are worth.                                    *)

SheetWeight == [r \in Lines |-> Records[r].amount]

\* The amount of some rows of the sheet is a sum.
LEMMA SheetSum ==
  ASSUME SheetWeight \in [Lines -> Int], NEW S \in SUBSET Lines, IsFiniteSet(S)
  PROVE  SheetAmount(S) = SumFunctionOnSet(SheetWeight, S)
<1> DEFINE Eq(h) == h = [s \in SUBSET S |-> IF s = {} THEN 0
                                            ELSE Records[Pick(s)].amount + h[s \ {Pick(s)}]]
           it == CHOOSE h : Eq(h)
<1>1. PICK h : IntegerFold(SheetWeight, S, h)
  BY FoldsExist
<1>2. \A s \in SUBSET S : s # {} => SheetWeight[Pick(s)] = Records[Pick(s)].amount
  BY DEF Pick, SheetWeight
<1>3. Eq(h)
  BY <1>1, <1>2 DEF IntegerFold, FoldsTo
<1>4. Eq(it)
  <2> HIDE DEF Eq
  <2> QED
    BY <1>3
<1>5. FoldsTo(SheetWeight, S, it)
  <2> HIDE DEF it
  <2> QED
    BY <1>2, <1>4 DEF FoldsTo
<1>6. SheetAmount(S) = it[S]
  BY DEF SheetAmount, MapThenSumSet, MapThenFoldSet, Pick
<1> QED
  <2> HIDE DEF it
  <2> QED
    BY <1>5, <1>6, SumFolds

\* It is a whole number.
LEMMA SheetTypes ==
  ASSUME book \in Books
  PROVE  /\ SheetWeight \in [Lines -> Int]
         /\ \A r \in Lines : SheetWeight[r] = Records[r].amount /\ Records[r].amount \in Int
         /\ \A S \in SUBSET Lines : /\ IsFiniteSet(S) /\ SheetAmount(S) \in Int
                                    /\ SheetAmount(S) = SumFunctionOnSet(SheetWeight, S)
<1>1. \A r \in Lines : Records[r].amount \in Int
  BY BookType DEF Record
<1>2. SheetWeight \in [Lines -> Int] /\ \A r \in Lines : SheetWeight[r] = Records[r].amount
  BY <1>1 DEF SheetWeight
<1>3. ASSUME NEW S \in SUBSET Lines
      PROVE  /\ IsFiniteSet(S) /\ SheetAmount(S) \in Int
             /\ SheetAmount(S) = SumFunctionOnSet(SheetWeight, S)
  <2>1. IsFiniteSet(S)
    BY BookType, FS_Subset
  <2>2. SheetAmount(S) = SumFunctionOnSet(SheetWeight, S)
    BY <1>2, <2>1, SheetSum
  <2>3. SumFunctionOnSet(SheetWeight, S) \in Int
    BY <1>2, <2>1, SumSteps
  <2> QED
    BY <2>1, <2>2, <2>3
<1> QED
  BY <1>1, <1>2, <1>3

\* Rows with nothing in common, and rows of which some are left out.
LEMMA SheetAdds ==
  ASSUME book \in Books, NEW A \in SUBSET Lines, NEW B \in SUBSET Lines, A \cap B = {}
  PROVE  SheetAmount(A \cup B) = SheetAmount(A) + SheetAmount(B)
<1>1. SheetWeight \in [Lines -> Int] /\ IsFiniteSet(A) /\ IsFiniteSet(B) /\ A \cup B \in SUBSET Lines
  BY SheetTypes
<1>2. SumFunctionOnSet(SheetWeight, A \cup B)
        = SumFunctionOnSet(SheetWeight, A) + SumFunctionOnSet(SheetWeight, B)
  BY <1>1, SumOfUnion
<1> QED
  BY <1>1, <1>2, SheetTypes

\* A row can be taken out of the sum first.
LEMMA SheetWithout ==
  ASSUME book \in Books, NEW A \in SUBSET Lines, NEW r \in A
  PROVE  SheetAmount(A) = Records[r].amount + SheetAmount(A \ {r})
<1>1. SheetWeight \in [Lines -> Int] /\ IsFiniteSet(A) /\ A \ {r} \in SUBSET Lines
      /\ SheetWeight[r] = Records[r].amount
  BY SheetTypes
<1>2. SumFunctionOnSet(SheetWeight, A) = SheetWeight[r] + SumFunctionOnSet(SheetWeight, A \ {r})
  BY <1>1, SumWithout
<1> QED
  BY <1>1, <1>2, SheetTypes

\* No rows, no amount.
LEMMA SheetNone ==
  ASSUME book \in Books
  PROVE  SheetAmount({}) = 0
<1> DEFINE none == {}
<1>1. SheetWeight \in [Lines -> Int] /\ none \in SUBSET Lines /\ IsFiniteSet(none)
      /\ SheetAmount(none) = SumFunctionOnSet(SheetWeight, none)
  BY SheetTypes
<1>2. none = {}
  OBVIOUS
<1> HIDE DEF none
<1>3. SumFunctionOnSet(SheetWeight, none) = 0
  BY <1>1, <1>2, SumSteps
<1> QED
  BY <1>1, <1>2, <1>3

\* More rows that bring money bring more.
LEMMA SheetMore ==
  ASSUME book \in Books, NEW B \in SUBSET Lines, NEW A \in SUBSET B,
         \A r \in B \ A : Records[r].amount > 0
  PROVE  /\ SheetAmount(A) \in Int /\ SheetAmount(B) \in Int
         /\ SheetAmount(A) <= SheetAmount(B)
         /\ B # A => SheetAmount(A) < SheetAmount(B)
<1>1. SheetWeight \in [Lines -> Int] /\ IsFiniteSet(B) /\ A \in SUBSET Lines
      /\ \A r \in Lines : SheetWeight[r] = Records[r].amount /\ Records[r].amount \in Int
  BY SheetTypes
<1>2. \A r \in B \ A : SheetWeight[r] >= 0
  BY <1>1
<1>3. /\ SumFunctionOnSet(SheetWeight, A) \in Int /\ SumFunctionOnSet(SheetWeight, B) \in Int
      /\ SumFunctionOnSet(SheetWeight, A) <= SumFunctionOnSet(SheetWeight, B)
      /\ \A r \in B \ A : SumFunctionOnSet(SheetWeight, A) + SheetWeight[r] <= SumFunctionOnSet(SheetWeight, B)
  BY <1>1, <1>2, SumOfMore
<1>4. SheetAmount(A) = SumFunctionOnSet(SheetWeight, A) /\ SheetAmount(B) = SumFunctionOnSet(SheetWeight, B)
  BY <1>1, SheetTypes
<1>5. ASSUME B # A PROVE SheetAmount(A) < SheetAmount(B)
  <2>1. PICK r \in B \ A : TRUE
    BY <1>5
  <2>2. SumFunctionOnSet(SheetWeight, A) + SheetWeight[r] <= SumFunctionOnSet(SheetWeight, B)
    BY <1>3, <2>1
  <2>3. SheetWeight[r] \in Int /\ SheetWeight[r] > 0
    BY <1>1, <2>1
  <2> QED
    BY <1>3, <1>4, <2>2, <2>3
<1> QED
  BY <1>3, <1>4, <1>5

-----------------------------------------------------------------------------
(* What a deduction gets.                                                   *)

PaymentWeight == [d \in DOMAIN Details |-> Abs(Details[d].amount)]
Payments(S) == MapThenSumSet(LAMBDA e : Abs(Details[e].amount), S)

\* What GetGmvDeduction adds up is a sum, too.
LEMMA PaymentSum ==
  ASSUME PaymentWeight \in [DOMAIN Details -> Int],
         NEW S \in SUBSET DOMAIN Details, IsFiniteSet(S)
  PROVE  Payments(S) = SumFunctionOnSet(PaymentWeight, S)
<1> DEFINE Eq(h) == h = [s \in SUBSET S |-> IF s = {} THEN 0
                                            ELSE Abs(Details[Pick(s)].amount) + h[s \ {Pick(s)}]]
           it == CHOOSE h : Eq(h)
<1>1. PICK h : IntegerFold(PaymentWeight, S, h)
  BY FoldsExist
<1>2. \A s \in SUBSET S : s # {} => PaymentWeight[Pick(s)] = Abs(Details[Pick(s)].amount)
  BY DEF Pick, PaymentWeight
<1>3. Eq(h)
  BY <1>1, <1>2 DEF IntegerFold, FoldsTo
<1>4. Eq(it)
  <2> HIDE DEF Eq
  <2> QED
    BY <1>3
<1>5. FoldsTo(PaymentWeight, S, it)
  <2> HIDE DEF it
  <2> QED
    BY <1>2, <1>4 DEF FoldsTo
<1>6. Payments(S) = it[S]
  BY DEF Payments, MapThenSumSet, MapThenFoldSet, Pick
<1> QED
  <2> HIDE DEF it
  <2> QED
    BY <1>5, <1>6, SumFolds

\* The ads payments of the rows above.
Spent == {d \in DOMAIN Details : Details[d].kind = "ads" /\ book.of[d] < row}

\* A deduction gets its own payments: those above have been given, and with one
\* of those below they would be more than the deduction.
LEMMA Deducts ==
  ASSUME book \in Books, Itemised, getted = Spent, row \in Lines, Records[row].type = "GMV"
  PROVE  GmvDeduction(Records[row].date, Records[row].amount) = PartsOf(row)
<1> DEFINE F == Free(Records[row].date)
           P == PartsOf(row)
<1>1. /\ IsFiniteSet(DOMAIN Details) /\ row \in Nat
      /\ DetailWeight \in [DOMAIN Details -> Int]
      /\ \A d \in DOMAIN Details : Details[d].amount \in Int /\ DetailWeight[d] = Details[d].amount
      /\ \A d \in DOMAIN Details : book.of[d] \in Lines /\ book.of[d] \in Nat /\ d \in Nat
  <2>1. IsFiniteSet(DOMAIN Details) /\ Lines = 1..Len(Records) /\ DetailWeight \in [DOMAIN Details -> Int]
    BY BookType
  <2>2. \A d \in DOMAIN Details : DetailWeight[d] = Details[d].amount
    BY DEF DetailWeight
  <2>3. \A d \in DOMAIN Details : book.of[d] \in Lines
    BY DEF Itemised, AllEarnings
  <2>4. \A d \in DOMAIN Details : d \in Nat
    <3>1. Details \in Seq(Detail)
      BY BooksAssumption DEF Details
    <3> QED
      BY <3>1
  <2> QED
    BY <2>1, <2>2, <2>3, <2>4
<1>2. row \in AllEarnings
  BY DEF AllEarnings
<1>3. F \in SUBSET DOMAIN Details /\ P \in SUBSET F
      /\ \A d \in F : /\ Details[d].kind = "ads" /\ Details[d].amount < 0 /\ book.of[d] >= row
                      /\ \A e \in F : e < d => book.of[e] <= book.of[d]
  <2>1. F \in SUBSET DOMAIN Details /\ \A d \in F : Details[d].kind = "ads" /\ d \notin getted
    BY DEF Free
  <2>2. \A d \in F : Details[d].amount < 0 /\ book.of[d] >= row
    BY <1>1, <2>1 DEF Itemised, Spent
  <2>3. \A d, e \in F : e < d => book.of[e] <= book.of[d]
    BY <1>1, <2>1 DEF Itemised
  <2>4. P \subseteq F
    <3> SUFFICES ASSUME NEW d \in P PROVE d \in F
      OBVIOUS
    <3>1. d \in DOMAIN Details /\ book.of[d] = row
      BY DEF PartsOf
    <3>2. Details[d].date = Records[row].date /\ Details[d].kind = "ads"
      BY <3>1 DEF Itemised
    <3>3. d \notin getted
      BY <1>1, <3>1 DEF Spent
    <3> QED
      BY <3>1, <3>2, <3>3 DEF Free
  <2> QED
    BY <2>1, <2>2, <2>3, <2>4
<1>4. /\ PaymentWeight \in [DOMAIN Details -> Int]
      /\ \A d \in DOMAIN Details : PaymentWeight[d] >= 0
      /\ \A d \in F : PaymentWeight[d] > 0 /\ PaymentWeight[d] + DetailWeight[d] = 0
  <2>1. \A d \in DOMAIN Details : PaymentWeight[d] = Abs(Details[d].amount) /\ Details[d].amount \in Int
    BY <1>1 DEF PaymentWeight
  <2>2. \A n \in Int : Abs(n) \in Int /\ Abs(n) >= 0 /\ (n < 0 => Abs(n) > 0 /\ Abs(n) + n = 0)
    BY DEF Abs
  <2>3. PaymentWeight \in [DOMAIN Details -> Int]
    BY <1>1, <2>2 DEF PaymentWeight
  <2> QED
    BY <1>1, <1>3, <2>1, <2>2, <2>3
<1>5. \A S \in SUBSET DOMAIN Details : /\ IsFiniteSet(S) /\ Payments(S) = SumFunctionOnSet(PaymentWeight, S)
                                       /\ Payments(S) \in Int
  <2> SUFFICES ASSUME NEW S \in SUBSET DOMAIN Details
               PROVE  /\ IsFiniteSet(S) /\ Payments(S) = SumFunctionOnSet(PaymentWeight, S)
                      /\ Payments(S) \in Int
    OBVIOUS
  <2>1. IsFiniteSet(S)
    BY <1>1, FS_Subset
  <2> HIDE DEF F, P
  <2> QED
    <3>1. PaymentWeight \in [DOMAIN Details -> Int]
      BY <1>4
    <3>2. Payments(S) = SumFunctionOnSet(PaymentWeight, S)
      BY <2>1, <3>1, PaymentSum
    <3>3. SumFunctionOnSet(PaymentWeight, S) \in Int
      BY <2>1, <3>1, SumSteps
    <3> QED
      BY <2>1, <3>2, <3>3
<1>6. Records[row].amount \in Int /\ Abs(Records[row].amount) = Payments(P)
  <2>1. P \in SUBSET DOMAIN Details /\ IsFiniteSet(P)
    BY <1>3, <1>5
  <2>2. \A d \in P : PaymentWeight[d] + DetailWeight[d] = 0
    BY <1>3, <1>4
  <2>3. Records[row].amount = DetailAmount(P)
    BY <1>2 DEF Itemised
  <2> HIDE DEF F, P
  <2>4. DetailAmount(P) = SumFunctionOnSet(DetailWeight, P)
    BY <1>1, <2>1, DetailSum
  <2>5. SumFunctionOnSet(PaymentWeight, P) + SumFunctionOnSet(DetailWeight, P) = 0
    BY <1>1, <1>4, <2>1, <2>2, SumOfOpposite
  <2>6. Payments(P) = SumFunctionOnSet(PaymentWeight, P) /\ Payments(P) \in Int
        /\ SumFunctionOnSet(DetailWeight, P) \in Int /\ Payments(P) >= 0
    <3>1. SumFunctionOnSet(PaymentWeight, P) >= 0
      BY <1>4, <2>1, SumNotNegative
    <3>2. SumFunctionOnSet(DetailWeight, P) \in Int
      BY <1>1, <2>1, SumSteps
    <3> QED
      BY <1>5, <2>1, <3>1, <3>2
  <2>7. Records[row].amount \in Int
    BY <2>3, <2>4, <2>6
  <2> QED
    BY <2>3, <2>4, <2>5, <2>6, <2>7 DEF Abs
<1> DEFINE Upto(d) == {e \in F : e <= d}
<1>7. GmvDeduction(Records[row].date, Records[row].amount)
        = {d \in F : Payments(Upto(d)) <= Abs(Records[row].amount)}
  BY DEF GmvDeduction, Payments
<1>8. ASSUME NEW d \in P PROVE Payments(Upto(d)) <= Abs(Records[row].amount)
  <2>1. Upto(d) \in SUBSET P
    <3> SUFFICES ASSUME NEW e \in F, e <= d PROVE e \in P
      OBVIOUS
    <3>1. d \in F /\ book.of[d] = row
      BY <1>3 DEF PartsOf
    <3>2. book.of[e] >= row /\ (e = d \/ book.of[e] <= book.of[d])
      BY <1>1, <1>3, <3>1
    <3>3. book.of[e] = row
      <4>1. book.of[e] \in Nat /\ book.of[d] \in Nat
        BY <1>1, <1>3, <3>1
      <4> QED
        BY <1>1, <3>1, <3>2, <4>1
    <3>4. e \in DOMAIN Details
      BY <1>3
    <3> QED
      BY <3>3, <3>4 DEF PartsOf
  <2>2. P \in SUBSET DOMAIN Details /\ IsFiniteSet(P) /\ Upto(d) \in SUBSET DOMAIN Details
        /\ \A e \in P \ Upto(d) : PaymentWeight[e] >= 0
    BY <1>3, <1>4, <1>5, <2>1
  <2> HIDE DEF F, P, Upto
  <2>3. SumFunctionOnSet(PaymentWeight, Upto(d)) <= SumFunctionOnSet(PaymentWeight, P)
    BY <1>4, <2>1, <2>2, SumOfMore
  <2>4. /\ Payments(Upto(d)) = SumFunctionOnSet(PaymentWeight, Upto(d))
        /\ Payments(P) = SumFunctionOnSet(PaymentWeight, P)
    BY <1>5, <2>2
  <2> QED
    BY <1>6, <2>3, <2>4
<1>9. ASSUME NEW d \in F, d \notin P PROVE ~(Payments(Upto(d)) <= Abs(Records[row].amount))
  <2>0. d \in DOMAIN Details /\ d \in Nat /\ book.of[d] \in Nat /\ book.of[d] > row
    <3>1. d \in DOMAIN Details /\ d \in Nat /\ book.of[d] \in Nat /\ book.of[d] >= row
      BY <1>1, <1>3
    <3>2. book.of[d] # row
      BY <1>9, <3>1 DEF PartsOf
    <3> QED
      BY <1>1, <3>1, <3>2
  <2>1. P \in SUBSET Upto(d) /\ d \in Upto(d) \ P
    <3>1. ASSUME NEW e \in P PROVE e <= d
      <4>1. e \in F /\ book.of[e] = row /\ e \in Nat
        BY <1>1, <1>3 DEF PartsOf
      <4>2. ~(d < e)
        BY <1>1, <1>3, <2>0, <4>1
      <4> QED
        BY <2>0, <4>1, <4>2
    <3>2. d <= d
      BY <2>0
    <3> QED
      BY <1>3, <1>9, <3>1, <3>2
  <2>2. Upto(d) \in SUBSET DOMAIN Details /\ IsFiniteSet(Upto(d)) /\ P \in SUBSET DOMAIN Details
        /\ \A e \in Upto(d) \ P : PaymentWeight[e] >= 0
    <3>1. Upto(d) \in SUBSET DOMAIN Details /\ P \in SUBSET DOMAIN Details
      BY <1>3
    <3> HIDE DEF Upto, F, P
    <3> QED
      BY <1>4, <1>5, <3>1
  <2>3. PaymentWeight[d] \in Int /\ PaymentWeight[d] > 0
    BY <1>4, <2>0
  <2> HIDE DEF F, P, Upto
  <2>4. SumFunctionOnSet(PaymentWeight, P) + PaymentWeight[d] <= SumFunctionOnSet(PaymentWeight, Upto(d))
    BY <1>4, <2>1, <2>2, SumOfMore
  <2> QED
    BY <1>5, <1>6, <2>2, <2>3, <2>4
<1>10. {d \in F : Payments(Upto(d)) <= Abs(Records[row].amount)} = P
  <2> HIDE DEF F, P, Upto
  <2> QED
    BY <1>3, <1>8, <1>9
<1> QED
  BY <1>7, <1>10

-----------------------------------------------------------------------------
(* Every row that is read has its own details.                              *)

\* The withdrawals above the row read next have been met, and of an itemised
\* workbook each earning below one of them has got its own details.
Filed ==
    /\ \A k \in DOMAIN wds : wds[k] \in Withdrawals
    /\ \A w \in Withdrawals : w < row => \E k \in DOMAIN wds : wds[k] = w
    /\ phase \in {"funding", "done"} \/ funded # <<>> => row \notin Lines
    /\ Itemised => /\ getted = Spent
                   /\ \A r \in AllEarnings :
                        r < row /\ (\E k \in DOMAIN wds : wds[k] < r) => invos[r] = PartsOf(r)

\* All this holds before the first row is read.
LEMMA FiledStarts == FundInit => Filed
<1> SUFFICES ASSUME FundInit PROVE Filed
  OBVIOUS
<1>1. /\ book \in Books /\ phase = "records" /\ row = 1 /\ wds = <<>> /\ getted = {} /\ funded = <<>>
      /\ DOMAIN wds = {}
  BY DEF FundInit
<1>2. \A r \in Lines : ~(r < 1)
  BY <1>1, BookType
<1>3. Withdrawals \subseteq Lines /\ AllEarnings \subseteq Lines
  BY DEF Withdrawals, AllEarnings
<1>4. Itemised => Spent = {}
  BY <1>1, <1>2, <1>3 DEF Itemised, Spent
<1> QED
  BY <1>1, <1>2, <1>3, <1>4 DEF Filed

\* What is known of the workbook does not change, and it is itemised or not.
LEMMA SameRecords ==
  ASSUME UNCHANGED book
  PROVE  /\ UNCHANGED <<Records, Details, Lines, Withdrawals, AllEarnings>>
         /\ (Itemised' <=> Itemised)
         /\ \A r : PartsOf(r)' = PartsOf(r)
         /\ \A r : TrueEarnings(r)' = TrueEarnings(r)
         /\ (row' = row => Spent' = Spent)
<1>1. UNCHANGED <<Records, Details, Lines>>
  BY DEF Records, Details, Lines
<1>2. UNCHANGED <<Withdrawals, AllEarnings>>
  BY <1>1 DEF Withdrawals, AllEarnings
<1>3. \A r : PartsOf(r)' = PartsOf(r)
  BY <1>1, <1>2 DEF PartsOf
<1>4. \A r : TrueEarnings(r)' = TrueEarnings(r)
  BY <1>1, <1>2 DEF TrueEarnings
<1>5. \A S : DetailAmount(S)' = DetailAmount(S)
  BY <1>1 DEF DetailAmount, MapThenSumSet, MapThenFoldSet
<1>6. OneRowADay' <=> OneRowADay
  BY <1>1 DEF OneRowADay
<1>7. \A r : DetailAmount(PartsOf(r))' = DetailAmount(PartsOf(r))
  BY <1>3, <1>5
<1>8. Itemised' <=> Itemised
  BY <1>1, <1>2, <1>6, <1>7 DEF Itemised
<1>9. row' = row => Spent' = Spent
  BY <1>1 DEF Spent
<1> QED
  BY <1>1, <1>2, <1>3, <1>4, <1>8, <1>9

\* A row of earnings gets its own details.
LEMMA OrdersAreParts ==
  ASSUME Itemised, NEW r \in Lines, Records[r].type = "Earnings"
  PROVE  OrderEarning(Records[r].date) = PartsOf(r)
<1>1. r \in AllEarnings
  BY DEF AllEarnings
<1>2. ASSUME NEW d \in OrderEarning(Records[r].date) PROVE d \in PartsOf(r)
  <2>1. d \in DOMAIN Details /\ Details[d].date = Records[r].date /\ Details[d].kind # "ads"
    BY DEF OrderEarning
  <2>2. book.of[d] \in Lines /\ Records[book.of[d]].type = "Earnings"
        /\ Records[book.of[d]].date = Records[r].date
    BY <2>1 DEF Itemised, AllEarnings
  <2>3. book.of[d] = r
    BY <2>2 DEF Itemised, OneRowADay
  <2> QED
    BY <2>1, <2>3 DEF PartsOf
<1>3. ASSUME NEW d \in PartsOf(r) PROVE d \in OrderEarning(Records[r].date)
  BY DEF PartsOf, Itemised, OrderEarning
<1> QED
  BY <1>2, <1>3

\* A row that is read files what belongs to it.
LEMMA RowIsFiled ==
  ASSUME Met, Gathered, Filed, UNCHANGED book, UNCHANGED wds, UNCHANGED funded,
         phase' = "records", row \in Lines, row' = row + 1, row \notin Withdrawals,
         Itemised => /\ getted' = getted \cup {d \in PartsOf(row) : Details[d].kind = "ads"}
                     /\ row \in AllEarnings => Attach(PartsOf(row))
                     /\ row \notin AllEarnings => UNCHANGED invos,
         funded = <<>>
  PROVE  Filed'
<1>1. UNCHANGED <<Records, Details, Lines, Withdrawals, AllEarnings>> /\ (Itemised' <=> Itemised)
      /\ \A r : PartsOf(r)' = PartsOf(r)
  BY SameRecords
<1>2. row \in Nat /\ (\A r \in Lines : r \in Nat) /\ Withdrawals \subseteq Lines /\ AllEarnings \subseteq Lines
  BY BookType DEF Met, Withdrawals, AllEarnings
<1>3. \A w \in Withdrawals : w < row + 1 => w < row
  <2>1. \A w \in Withdrawals : w \in Nat /\ w # row
    BY <1>2
  <2> QED
    BY <1>2, <2>1
<1>4. ASSUME Itemised PROVE getted' = Spent'
  <2>1. Spent' = {d \in DOMAIN Details : Details[d].kind = "ads" /\ book.of[d] < row + 1}
    BY <1>1 DEF Spent
  <2>2. \A d \in DOMAIN Details : book.of[d] \in Nat
    BY <1>2, <1>4 DEF Itemised
  <2>3. \A d \in DOMAIN Details : book.of[d] < row + 1 <=> book.of[d] < row \/ book.of[d] = row
    BY <1>2, <2>2
  <2>4. getted = Spent
    BY <1>4 DEF Filed
  <2> QED
    BY <1>4, <2>1, <2>3, <2>4 DEF PartsOf, Spent
<1>5. ASSUME Itemised, NEW r \in AllEarnings, r < row + 1, NEW k \in DOMAIN wds, wds[k] < r
      PROVE  invos'[r] = PartsOf(r)
  <2>1. DOMAIN invos = Lines /\ wds # <<>>
    BY <1>5 DEF Gathered, Lists
  <2>2. CASE r = row
    <3>1. invos' = [invos EXCEPT ![row] = PartsOf(row)]
      BY <1>5, <2>1, <2>2 DEF Attach
    <3> QED
      BY <2>1, <2>2, <3>1
  <2>3. CASE r # row
    <3>1. r < row /\ r \in Lines
      BY <1>2, <1>5, <2>3
    <3>2. invos[r] = PartsOf(r)
      BY <1>5, <3>1 DEF Filed
    <3>3. invos'[r] = invos[r]
      <4>1. CASE row \in AllEarnings
        BY <1>5, <2>1, <2>3, <3>1, <4>1 DEF Attach
      <4>2. CASE row \notin AllEarnings
        BY <1>5, <4>2
      <4> QED
        BY <4>1, <4>2
    <3> QED
      BY <3>2, <3>3
  <2> QED
    BY <2>2, <2>3
<1>6. (\A k \in DOMAIN wds : wds[k] \in Withdrawals)
      /\ (\A w \in Withdrawals : w < row => \E k \in DOMAIN wds : wds[k] = w)
  BY DEF Filed
<1>7. \A r \in AllEarnings' : Itemised' /\ r < row' /\ (\E k \in DOMAIN wds' : wds'[k] < r) => invos'[r] = PartsOf(r)'
  BY <1>1, <1>5
<1> QED
  BY <1>1, <1>3, <1>4, <1>6, <1>7 DEF Filed

\* Every step keeps it.
LEMMA FiledSteps == FundInv /\ Filed /\ [FundNext]_fvars => Filed'
<1> SUFFICES ASSUME FundInv, Filed, [FundNext]_fvars PROVE Filed'
  OBVIOUS
<1>0. Met /\ Gathered /\ Returned
  BY DEF FundInv
<1>1. UNCHANGED book
  BY DEF FundNext, ReadRecord, EndOfRecords, ValidWithdrawal, EndOfWithdrawals, fvars
<1>2. UNCHANGED <<Records, Details, Lines, Withdrawals, AllEarnings>> /\ (Itemised' <=> Itemised)
      /\ (\A r : PartsOf(r)' = PartsOf(r)) /\ (row' = row => Spent' = Spent)
  BY <1>1, SameRecords
<1>3. row \in Nat /\ (\A r \in Lines : r \in Nat) /\ Withdrawals \subseteq Lines /\ AllEarnings \subseteq Lines
  BY <1>0, BookType DEF Met, Withdrawals, AllEarnings
<1>4. CASE ReadRecord
  <2> USE <1>4 DEF ReadRecord
  <2>1. row \in Lines /\ funded = <<>> /\ UNCHANGED funded /\ phase = "records"
    BY <1>0 DEF Returned
  <2>2. CASE ReadEarnings
    <3>1. /\ Records[row].type = "Earnings" /\ Attach(OrderEarning(Records[row].date))
          /\ row' = row + 1 /\ UNCHANGED <<phase, wds, getted>>
      BY <2>2 DEF ReadEarnings, NextRow
    <3>2. row \in AllEarnings /\ row \notin Withdrawals
      BY <2>1, <3>1 DEF AllEarnings, Withdrawals
    <3>3. Itemised => OrderEarning(Records[row].date) = PartsOf(row)
      BY <2>1, <3>1, OrdersAreParts
    <3>4. Itemised => {d \in PartsOf(row) : Details[d].kind = "ads"} = {}
      BY <3>1 DEF Itemised, PartsOf
    <3> QED
      BY <1>0, <1>1, <2>1, <3>1, <3>2, <3>3, <3>4, RowIsFiled
  <2>3. CASE ReadDeduction
    <3> DEFINE S == GmvDeduction(Records[row].date, Records[row].amount)
    <3>1. /\ Records[row].type = "GMV" /\ getted' = getted \cup S /\ UNCHANGED wds
          /\ IF DetailAmount(S) # Records[row].amount
             THEN phase' = "error" /\ UNCHANGED <<invos, row>>
             ELSE Attach(S) /\ row' = row + 1 /\ UNCHANGED phase
      BY <2>3 DEF ReadDeduction, NextRow
    <3>2. row \in AllEarnings /\ row \notin Withdrawals
      BY <2>1, <3>1 DEF AllEarnings, Withdrawals
    <3>3. Itemised => S = PartsOf(row) /\ DetailAmount(S) = Records[row].amount
      <4>1. Itemised => S = PartsOf(row)
        BY <1>0, <2>1, <3>1, Deducts DEF Met, Filed
      <4> HIDE DEF S
      <4> QED
        BY <3>2, <4>1 DEF Itemised
    <3>4. Itemised => {d \in PartsOf(row) : Details[d].kind = "ads"} = PartsOf(row)
      BY <3>1 DEF Itemised, PartsOf
    <3> HIDE DEF S
    <3>5. CASE DetailAmount(S) = Records[row].amount
      <4>1. Attach(S) /\ row' = row + 1 /\ phase' = "records"
        BY <2>1, <3>1, <3>5
      <4> QED
        BY <1>0, <1>1, <2>1, <3>1, <3>2, <3>3, <3>4, <4>1, RowIsFiled
    <3>6. CASE DetailAmount(S) # Records[row].amount
      <4>1. ~Itemised /\ phase' = "error" /\ row' = row
        BY <3>1, <3>3, <3>6
      <4> QED
        BY <1>2, <2>1, <3>1, <4>1 DEF Filed
    <3> QED
      BY <3>5, <3>6
  <2>4. CASE ReadWithdrawal
    <3>1. /\ Records[row].type = "Withdrawal" /\ wds' = Append(wds, row) /\ row' = row + 1
          /\ UNCHANGED <<phase, invos, getted>>
      BY <2>4 DEF ReadWithdrawal, NextRow
    <3>2. row \in Withdrawals /\ row \notin AllEarnings
      BY <2>1, <3>1 DEF AllEarnings, Withdrawals
    <3>3. /\ DOMAIN wds' = 1..(Len(wds) + 1) /\ DOMAIN wds = 1..Len(wds) /\ Len(wds) \in Nat
          /\ \A k \in 1..Len(wds) : wds'[k] = wds[k]
          /\ wds'[Len(wds) + 1] = row
      BY <1>0, <3>1 DEF Met
    <3>4. \A k \in DOMAIN wds' : wds'[k] \in Withdrawals
      BY <3>2, <3>3 DEF Filed
    <3>5. ASSUME NEW w \in Withdrawals, w < row + 1 PROVE \E k \in DOMAIN wds' : wds'[k] = w
      <4>1. CASE w = row
        BY <3>3, <4>1
      <4>2. CASE w # row
        <5>1. PICK k \in DOMAIN wds : wds[k] = w
          BY <1>3, <3>5, <4>2 DEF Filed
        <5> QED
          BY <3>3, <5>1
      <4> QED
        BY <4>1, <4>2
    <3>6. ASSUME Itemised PROVE getted' = Spent'
      <4>1. \A d \in DOMAIN Details : book.of[d] \in Nat /\ book.of[d] # row
        BY <1>3, <3>2, <3>6 DEF Itemised
      <4>2. \A d \in DOMAIN Details : book.of[d] < row + 1 <=> book.of[d] < row
        BY <1>3, <4>1
      <4>3. Spent' = {d \in DOMAIN Details : Details[d].kind = "ads" /\ book.of[d] < row + 1}
        BY <1>1, <1>2, <3>1 DEF Spent
      <4> QED
        BY <3>1, <3>6, <4>2, <4>3 DEF Filed, Spent
    <3>7. ASSUME Itemised, NEW r \in AllEarnings, r < row + 1, NEW k \in DOMAIN wds', wds'[k] < r
          PROVE  invos'[r] = PartsOf(r)
      <4>1. r < row
        BY <1>3, <3>2, <3>7
      <4>2. k \in DOMAIN wds /\ wds[k] < r
        <5>1. k # Len(wds) + 1
          BY <1>3, <3>3, <3>7, <4>1
        <5>2. k \in 1..Len(wds)
          BY <3>3, <5>1
        <5> QED
          BY <3>3, <3>7, <5>2
      <4> QED
        BY <3>1, <3>7, <4>1, <4>2 DEF Filed
    <3>8. \A r \in AllEarnings' : Itemised' /\ r < row' /\ (\E k \in DOMAIN wds' : wds'[k] < r) => invos'[r] = PartsOf(r)'
      BY <1>2, <3>1, <3>7
    <3> QED
      BY <1>2, <2>1, <3>1, <3>4, <3>5, <3>6, <3>8 DEF Filed
  <2>5. CASE ReadInProcess
    <3>1. phase' = "error" /\ UNCHANGED <<row, wds, invos, getted>>
      BY <2>5 DEF ReadInProcess
    <3> QED
      BY <1>2, <2>1, <3>1 DEF Filed
  <2>6. CASE SkipRow
    <3>1. /\ Records[row].type \in {"Failed", "Other"} /\ row' = row + 1
          /\ UNCHANGED <<phase, wds, invos, getted>>
      BY <2>6 DEF SkipRow, NextRow
    <3>2. row \notin AllEarnings /\ row \notin Withdrawals
      BY <2>1, <3>1 DEF AllEarnings, Withdrawals
    <3>3. Itemised => PartsOf(row) = {}
      BY <3>2 DEF Itemised, PartsOf
    <3> QED
      BY <1>0, <1>1, <2>1, <3>1, <3>2, <3>3, RowIsFiled
  <2> QED
    BY <2>2, <2>3, <2>4, <2>5, <2>6
<1>5. CASE EndOfRecords \/ EndOfWithdrawals \/ ValidWithdrawal \/ UNCHANGED fvars
  <2>1. UNCHANGED <<row, wds, invos, getted>>
    BY <1>5 DEF EndOfRecords, EndOfWithdrawals, ValidWithdrawal, fvars
  <2>2. phase' \in {"funding", "done"} \/ funded' # <<>> => row \notin Lines
    BY <1>5 DEF EndOfRecords, EndOfWithdrawals, ValidWithdrawal, Keep, GiveUp, fvars, Filed
  <2> QED
    BY <1>2, <2>1, <2>2 DEF Filed
<1> QED
  BY <1>4, <1>5 DEF FundNext

-----------------------------------------------------------------------------
(* A workbook whose records have been read.                                 *)

AllRead == Met /\ Gathered /\ Filed /\ row \notin Lines

\* The withdrawals are those of the sheet, in its order.
LEMMA AllMet ==
  ASSUME AllRead
  PROVE  /\ book \in Books /\ Len(wds) \in Nat /\ DOMAIN wds = 1..Len(wds)
         /\ \A k \in DOMAIN wds : wds[k] \in Withdrawals /\ wds[k] \in Nat \ {0}
         /\ \A k, l \in DOMAIN wds : k < l => wds[k] < wds[l]
         /\ \A k, l \in DOMAIN wds : wds[k] < wds[l] => k < l
         /\ \A w \in Withdrawals : \E k \in DOMAIN wds : wds[k] = w
         /\ \A r \in Lines : r \in Nat \ {0} /\ r < row
         /\ Withdrawals \subseteq Lines /\ AllEarnings \subseteq Lines
         /\ Withdrawals \cap AllEarnings = {}
<1> USE DEF AllRead
<1>1. /\ book \in Books /\ Len(wds) \in Nat /\ DOMAIN wds = 1..Len(wds)
      /\ \A k, l \in DOMAIN wds : k < l => wds[k] < wds[l]
  BY DEF Met
<1>2. Withdrawals \subseteq Lines /\ AllEarnings \subseteq Lines /\ Withdrawals \cap AllEarnings = {}
  BY DEF Withdrawals, AllEarnings
<1>3. \A r \in Lines : r \in Nat \ {0} /\ r < row
  <2>1. Lines = 1..Len(Records) /\ Len(Records) \in Nat /\ row \in 1..(Len(Records) + 1)
    BY <1>1, BookType DEF Met
  <2> QED
    BY <2>1
<1>4. \A k \in DOMAIN wds : wds[k] \in Withdrawals /\ wds[k] \in Nat \ {0}
  BY <1>2, <1>3 DEF Filed
<1>5. \A k, l \in DOMAIN wds : wds[k] < wds[l] => k < l
  BY <1>1, <1>4
<1>6. \A w \in Withdrawals : \E k \in DOMAIN wds : wds[k] = w
  BY <1>2, <1>3 DEF Filed
<1> QED
  BY <1>1, <1>2, <1>3, <1>4, <1>5, <1>6

\* An earning below a withdrawal is one of the last withdrawal above it.
LEMMA EarningIs ==
  ASSUME AllRead
  PROVE  /\ \A k \in DOMAIN wds : \A r \in Earning(k) :
              /\ r \in AllEarnings /\ r > wds[k]
              /\ \A l \in DOMAIN wds : wds[l] < r <=> l <= k
         /\ \A r \in AllEarnings : \A j \in DOMAIN wds : wds[j] < r =>
              \E k \in DOMAIN wds : j <= k /\ r \in Earning(k)
<1>1. /\ Len(wds) \in Nat /\ DOMAIN wds = 1..Len(wds)
      /\ \A k \in DOMAIN wds : wds[k] \in Withdrawals /\ wds[k] \in Nat \ {0}
      /\ \A k, l \in DOMAIN wds : k < l => wds[k] < wds[l]
      /\ \A r \in Lines : r \in Nat \ {0}
      /\ Withdrawals \subseteq Lines /\ AllEarnings \subseteq Lines
      /\ Withdrawals \cap AllEarnings = {}
  BY AllMet
<1>2. ASSUME NEW k \in DOMAIN wds, NEW r \in Earning(k)
      PROVE  /\ r \in AllEarnings /\ r > wds[k]
             /\ \A l \in DOMAIN wds : wds[l] < r <=> l <= k
  <2>1. r \in AllEarnings /\ r > wds[k] /\ (k < Len(wds) => r < wds[k + 1]) /\ r \in Nat
    BY <1>1 DEF Earning, AllEarnings
  <2>2. ASSUME NEW l \in DOMAIN wds, l <= k PROVE wds[l] < r
    BY <1>1, <2>1, <2>2
  <2>3. ASSUME NEW l \in DOMAIN wds, ~(l <= k) PROVE ~(wds[l] < r)
    <3>1. k < Len(wds) /\ k + 1 \in DOMAIN wds /\ (k + 1 = l \/ k + 1 < l)
      BY <1>1, <2>3
    <3>2. wds[k + 1] <= wds[l]
      BY <1>1, <3>1
    <3> QED
      BY <1>1, <2>1, <3>1, <3>2
  <2> QED
    BY <2>1, <2>2, <2>3
<1>3. ASSUME NEW r \in AllEarnings, NEW j \in DOMAIN wds, wds[j] < r
      PROVE  \E k \in DOMAIN wds : j <= k /\ r \in Earning(k)
  <2> DEFINE S == {l \in DOMAIN wds : wds[l] < r}
             k == Max(S)
  <2>1. S \in SUBSET (1..Len(wds)) /\ S # {}
    BY <1>1, <1>3
  <2>2. k \in S /\ \A m \in S : m <= k
    <3> HIDE DEF S
    <3> QED
      BY <1>1, <2>1, MaxIsThere
  <2>3. j <= k /\ k \in DOMAIN wds /\ wds[k] < r
    BY <1>3, <2>2
  <2>4. k < Len(wds) => r < wds[k + 1]
    <3> SUFFICES ASSUME k < Len(wds) PROVE r < wds[k + 1]
      OBVIOUS
    <3> HIDE DEF k
    <3>1. k + 1 \in DOMAIN wds /\ ~(k + 1 <= k) /\ k + 1 \notin S
      BY <1>1, <2>2, <2>3
    <3>2. ~(wds[k + 1] < r) /\ wds[k + 1] # r /\ r \in Nat /\ wds[k + 1] \in Nat
      BY <1>1, <3>1
    <3> QED
      BY <3>2
  <2> HIDE DEF k
  <2> QED
    BY <1>1, <2>3, <2>4 DEF Earning, AllEarnings
<1> QED
  BY <1>2, <1>3

\* What an earning has is what the sheet says of it.
LEMMA EarningsWeigh ==
  ASSUME AllRead, Itemised,
         NEW S \in SUBSET AllEarnings, \A r \in S : \E k \in DOMAIN wds : wds[k] < r
  PROVE  GetAmount(S) = SheetAmount(S)
<1>1. book \in Books /\ S \in SUBSET Lines /\ Lists /\ \A r \in Lines : r < row
  BY AllMet DEF AllRead, Gathered
<1>2. EarningWeight \in [Lines -> Int] /\ SheetWeight \in [Lines -> Int] /\ IsFiniteSet(S)
      /\ SheetAmount(S) = SumFunctionOnSet(SheetWeight, S)
  BY <1>1, AmountTypes, SheetTypes
<1>3. ASSUME NEW r \in S PROVE EarningWeight[r] = SheetWeight[r]
  <2>1. r \in AllEarnings /\ r < row /\ \E k \in DOMAIN wds : wds[k] < r
    BY <1>1
  <2>2. invos[r] = PartsOf(r)
    BY <2>1 DEF AllRead, Filed
  <2>3. Records[r].amount = DetailAmount(PartsOf(r))
    BY <2>1 DEF Itemised
  <2> QED
    BY <1>1, <2>2, <2>3 DEF EarningWeight, SheetWeight
<1>4. SumFunctionOnSet(EarningWeight, S) = SumFunctionOnSet(SheetWeight, S)
  <2>1. S \in SUBSET Lines /\ \A r \in S : EarningWeight[r] = SheetWeight[r]
    BY <1>1, <1>3
  <2> QED
    BY <1>2, <2>1, SumOfSame
<1>5. GetAmount(S) = SumFunctionOnSet(EarningWeight, S)
  BY <1>1, <1>2, EarningSum
<1> QED
  BY <1>2, <1>4, <1>5

-----------------------------------------------------------------------------
(* A complete workbook.                                                     *)

\* What the k-th withdrawal has left behind.
Lagging(k) == LeftBy(wds[k])

\* It has left behind those of its own earnings that another withdrawal paid out,
\* and no deduction.
LEMMA LaggingIs ==
  ASSUME AllRead, Complete, NEW k \in DOMAIN wds
  PROVE  /\ Lagging(k) = {r \in Earning(k) : book.payer[r] # wds[k]}
         /\ Lagging(k) \subseteq Earning(k)
         /\ \A r \in Lagging(k) : Records[r].type = "Earnings" /\ Records[r].amount > 0
<1>1. /\ DOMAIN wds = 1..Len(wds) /\ Len(wds) \in Nat
      /\ \A l \in DOMAIN wds : wds[l] \in Withdrawals /\ wds[l] \in Nat \ {0}
      /\ \A w \in Withdrawals : \E l \in DOMAIN wds : wds[l] = w
      /\ \A l, m \in DOMAIN wds : l < m => wds[l] < wds[m]
      /\ AllEarnings \subseteq Lines /\ \A r \in Lines : r \in Nat
  BY AllMet
<1>2. ASSUME NEW r \in Earning(k), book.payer[r] # wds[k] PROVE r \in Lagging(k)
  <2>1. r \in AllEarnings /\ r > wds[k] /\ \A l \in DOMAIN wds : wds[l] < r <=> l <= k
    BY EarningIs
  <2>2. ASSUME NEW v \in Withdrawals, v < r PROVE v <= wds[k]
    <3>1. PICK l \in DOMAIN wds : wds[l] = v
      BY <1>1
    <3>2. l <= k
      BY <2>1, <2>2, <3>1
    <3> QED
      BY <1>1, <3>1, <3>2
  <2> QED
    BY <1>2, <1>1, <2>1, <2>2 DEF Lagging, LeftBy
<1>3. ASSUME NEW r \in Lagging(k) PROVE r \in Earning(k) /\ book.payer[r] # wds[k]
  <2>1. r \in AllEarnings /\ wds[k] < r /\ book.payer[r] # wds[k]
        /\ \A v \in Withdrawals : v < r => v <= wds[k]
    BY DEF Lagging, LeftBy
  <2>2. PICK l \in DOMAIN wds : k <= l /\ r \in Earning(l)
    BY <2>1, EarningIs
  <2>3. wds[l] < r
    BY <2>2, EarningIs
  <2>4. wds[l] <= wds[k]
    BY <1>1, <2>1, <2>3
  <2>5. l = k
    BY <1>1, <2>2, <2>4
  <2> QED
    BY <2>1, <2>2, <2>5
<1>4. ASSUME NEW r \in Lagging(k) PROVE Records[r].type = "Earnings" /\ Records[r].amount > 0
  <2>1. r \in AllEarnings /\ wds[k] < r /\ book.payer[r] # wds[k]
        /\ \A v \in Withdrawals : v < r => v <= wds[k]
    BY DEF Lagging, LeftBy
  <2>2. ASSUME Records[r].type = "GMV" PROVE FALSE
    <3>1. book.payer[r] >= wds[k] /\ book.payer[r] \in Withdrawals \cup {0} /\ book.payer[r] < r
      BY <1>1, <2>1, <2>2 DEF Complete
    <3>2. book.payer[r] \in Withdrawals
      BY <1>1, <3>1
    <3>3. book.payer[r] <= wds[k] /\ book.payer[r] \in Nat
      BY <1>1, <2>1, <3>1, <3>2
    <3> QED
      BY <1>1, <2>1, <3>1, <3>3
  <2>3. Records[r].type = "Earnings"
    BY <2>1, <2>2 DEF AllEarnings
  <2> QED
    BY <2>1, <2>3 DEF Complete, Itemised
<1> QED
  BY <1>2, <1>3, <1>4

\* A withdrawal has paid out what is below it but for what it has left behind,
\* and what the one before it had left behind.
Caught(k) == IF k < Len(wds) THEN Lagging(k + 1) ELSE {}
LEMMA TruePaid ==
  ASSUME AllRead, Complete, NEW k \in DOMAIN wds
  PROVE  TrueEarnings(wds[k]) = (Earning(k) \ Lagging(k)) \cup Caught(k)
<1>1. /\ DOMAIN wds = 1..Len(wds) /\ Len(wds) \in Nat
      /\ \A l \in DOMAIN wds : wds[l] \in Withdrawals /\ wds[l] \in Nat \ {0}
      /\ \A w \in Withdrawals : \E l \in DOMAIN wds : wds[l] = w
      /\ \A l, m \in DOMAIN wds : l < m => wds[l] < wds[m]
      /\ \A l, m \in DOMAIN wds : wds[l] < wds[m] => l < m
      /\ AllEarnings \subseteq Lines /\ \A r \in Lines : r \in Nat
  BY AllMet
<1>2. \A l \in DOMAIN wds : Lagging(l) = {r \in Earning(l) : book.payer[r] # wds[l]}
  BY LaggingIs
<1>3. ASSUME NEW r \in TrueEarnings(wds[k]) PROVE r \in (Earning(k) \ Lagging(k)) \cup Caught(k)
  <2>1. r \in AllEarnings /\ book.payer[r] = wds[k] /\ wds[k] < r
    BY DEF TrueEarnings, Complete
  <2>2. PICK m \in DOMAIN wds : k <= m /\ r \in Earning(m)
    BY <2>1, EarningIs
  <2>3. CASE m = k
    BY <1>2, <2>1, <2>2, <2>3
  <2>4. CASE m # k
    <3>1. k < m /\ m - 1 \in DOMAIN wds /\ wds[m - 1] < wds[m] /\ wds[m] < r
      <4>1. k < m /\ m - 1 \in DOMAIN wds /\ m - 1 < m
        BY <1>1, <2>2, <2>4
      <4>2. wds[m] < r
        BY <2>2, EarningIs
      <4> QED
        BY <1>1, <4>1, <4>2
    <3>2. book.payer[r] >= wds[m - 1]
      BY <1>1, <2>1, <3>1 DEF Complete
    <3>3. ~(k < m - 1)
      BY <1>1, <2>1, <3>1, <3>2
    <3>4. m = k + 1 /\ k < Len(wds) /\ wds[k] # wds[m]
      BY <1>1, <2>4, <3>1, <3>3
    <3> QED
      BY <1>2, <2>1, <2>2, <3>4 DEF Caught
  <2> QED
    BY <2>3, <2>4
<1>4. ASSUME NEW r \in Earning(k), r \notin Lagging(k) PROVE r \in TrueEarnings(wds[k])
  <2>1. r \in AllEarnings /\ book.payer[r] = wds[k]
    BY <1>2, <1>4, EarningIs
  <2> QED
    BY <2>1 DEF TrueEarnings
<1>5. ASSUME NEW r \in Caught(k) PROVE r \in TrueEarnings(wds[k])
  <2>1. k + 1 \in DOMAIN wds /\ r \in Lagging(k + 1) /\ k < k + 1
    BY <1>1 DEF Caught
  <2>2. r \in Earning(k + 1) /\ book.payer[r] # wds[k + 1]
    BY <1>2, <2>1
  <2>3. r \in AllEarnings /\ \A l \in DOMAIN wds : wds[l] < r <=> l <= k + 1
    BY <2>1, <2>2, EarningIs
  <2>4. wds[k] < wds[k + 1] /\ wds[k + 1] < r
    BY <1>1, <2>1, <2>3
  <2>5. book.payer[r] >= wds[k] /\ book.payer[r] \in Withdrawals \cup {0} /\ book.payer[r] < r
    BY <1>1, <2>1, <2>3, <2>4 DEF Complete
  <2>6. PICK l \in DOMAIN wds : wds[l] = book.payer[r]
    BY <1>1, <2>5
  <2>7. l <= k + 1 /\ l # k + 1 /\ ~(l < k)
    BY <1>1, <2>2, <2>3, <2>5, <2>6
  <2>8. l = k
    BY <1>1, <2>7
  <2> QED
    BY <2>3, <2>6, <2>8 DEF TrueEarnings
<1> QED
  BY <1>3, <1>4, <1>5

\* So its amount is that of its own earnings, without what it has left behind,
\* and with what the one before it had.
LEMMA TrueAmounts ==
  ASSUME AllRead, Complete, NEW k \in DOMAIN wds
  PROVE  /\ Amount(k) \in Int /\ Amount(k) > 0 /\ Amount(k) = SheetAmount(TrueEarnings(wds[k]))
         /\ SheetAmount(Earning(k)) \in Int /\ SheetAmount(Lagging(k)) \in Int /\ SheetAmount(Caught(k)) \in Int
         /\ Amount(k) = SheetAmount(Earning(k)) - SheetAmount(Lagging(k)) + SheetAmount(Caught(k))
<1>1. /\ DOMAIN wds = 1..Len(wds) /\ Len(wds) \in Nat /\ book \in Books
      /\ wds[k] \in Withdrawals /\ Withdrawals \subseteq Lines /\ AllEarnings \subseteq Lines
  BY AllMet
<1>2. TrueEarnings(wds[k]) \in SUBSET Lines
  BY <1>1 DEF TrueEarnings
<1>3. Records[wds[k]].amount < 0 /\ Records[wds[k]].amount = -SheetAmount(TrueEarnings(wds[k]))
      /\ SheetAmount(TrueEarnings(wds[k])) \in Int
  BY <1>1, <1>2, SheetTypes DEF Complete
<1>4. Amount(k) \in Int /\ Amount(k) > 0 /\ Amount(k) = SheetAmount(TrueEarnings(wds[k]))
  BY <1>3 DEF Amount, Abs
<1>5. /\ Lagging(k) \subseteq Earning(k) /\ Earning(k) \in SUBSET Lines
      /\ Caught(k) \in SUBSET Lines /\ Caught(k) \cap Earning(k) = {}
  <2>1. Lagging(k) \subseteq Earning(k) /\ Earning(k) \in SUBSET Lines
    BY LaggingIs DEF Earning
  <2>2. CASE k < Len(wds)
    <3>1. k + 1 \in DOMAIN wds /\ k < k + 1
      BY <1>1, <2>2
    <3>2. Lagging(k + 1) \subseteq Earning(k + 1) /\ Earning(k + 1) \in SUBSET Lines
      BY <3>1, LaggingIs DEF Earning
    <3>3. Earning(k) \cap Earning(k + 1) = {}
      BY <3>1, EarningSets DEF AllRead
    <3> QED
      BY <2>1, <2>2, <3>2, <3>3 DEF Caught
  <2>3. CASE ~(k < Len(wds))
    BY <2>1, <2>3 DEF Caught
  <2> QED
    BY <2>2, <2>3
<1> DEFINE O == Earning(k) \ Lagging(k)
<1>6. O \in SUBSET Lines /\ O \cap Caught(k) = {} /\ O \cap Lagging(k) = {} /\ O \cup Lagging(k) = Earning(k)
      /\ Lagging(k) \in SUBSET Lines /\ TrueEarnings(wds[k]) = O \cup Caught(k)
  BY <1>5, TruePaid
<1> HIDE DEF O
<1>7. SheetAmount(O \cup Caught(k)) = SheetAmount(O) + SheetAmount(Caught(k))
  BY <1>1, <1>5, <1>6, SheetAdds
<1>8. SheetAmount(O \cup Lagging(k)) = SheetAmount(O) + SheetAmount(Lagging(k))
  BY <1>1, <1>6, SheetAdds
<1>9. SheetAmount(O) \in Int /\ SheetAmount(Lagging(k)) \in Int /\ SheetAmount(Caught(k)) \in Int
      /\ SheetAmount(Earning(k)) \in Int
  BY <1>1, <1>5, <1>6, SheetTypes
<1>10. Amount(k) = SheetAmount(O) + SheetAmount(Caught(k))
  BY <1>4, <1>6, <1>7
<1>11. SheetAmount(Earning(k)) = SheetAmount(O) + SheetAmount(Lagging(k))
  BY <1>6, <1>8
<1>12. Amount(k) = SheetAmount(Earning(k)) - SheetAmount(Lagging(k)) + SheetAmount(Caught(k))
  BY <1>9, <1>10, <1>11
<1> QED
  BY <1>4, <1>9, <1>12

-----------------------------------------------------------------------------
(* What is added up from the oldest and from the newest.                    *)

\* The rows from t down, what their sum exceeds the limit A by, and the rows from t
\* down to r that do not fit.
Down(E, t) == {s \in E : s >= t}
Over(E, A, t) == IF SheetAmount(Down(E, t)) > A THEN SheetAmount(Down(E, t)) - A ELSE 0
Holes(E, A, t, r) == {s \in E : t <= s /\ s < r /\ SheetAmount(Down(E, s)) > A}

\* Going up from r to t, the sum comes to exceed the limit by no more than the rows
\* that do not fit bring: by induction, one row at a time.
LEMMA HolesSum ==
  ASSUME book \in Books, NEW E \in SUBSET Lines, NEW A \in Int, NEW r \in Nat
  PROVE  \A t \in 1..r : SheetAmount(Holes(E, A, t, r)) + Over(E, A, r) >= Over(E, A, t)
<1> DEFINE C(t) == SheetAmount(Holes(E, A, t, r)) + Over(E, A, r) >= Over(E, A, t)
           S == {i \in 1..r : ~C(r + 1 - i)}
<1>0. /\ \A t : Down(E, t) \in SUBSET Lines /\ SheetAmount(Down(E, t)) \in Int
      /\ \A t, u : Holes(E, A, t, u) \in SUBSET Lines /\ SheetAmount(Holes(E, A, t, u)) \in Int
      /\ \A t : Over(E, A, t) \in Int
      /\ \A s \in E : s \in Nat /\ Records[s].amount \in Int
  <2>1. \A t : Down(E, t) \in SUBSET Lines
    BY DEF Down
  <2>2. \A t, u : Holes(E, A, t, u) \in SUBSET Lines
    BY DEF Holes
  <2>3. (\A t : SheetAmount(Down(E, t)) \in Int) /\ \A t, u : SheetAmount(Holes(E, A, t, u)) \in Int
    BY <2>1, <2>2, SheetTypes
  <2>4. \A t : Over(E, A, t) \in Int
    BY <2>3 DEF Over
  <2>5. \A s \in E : s \in Nat /\ Records[s].amount \in Int
    BY BookType, SheetTypes
  <2> QED
    BY <2>1, <2>2, <2>3, <2>4, <2>5
<1>1. SUFFICES ASSUME S # {} PROVE FALSE
  <2> SUFFICES ASSUME NEW t \in 1..r PROVE C(t)
    OBVIOUS
  <2>1. r + 1 - t \in 1..r /\ r + 1 - (r + 1 - t) = t
    OBVIOUS
  <2>2. r + 1 - t \notin S
    BY <1>1
  <2> HIDE DEF C
  <2> QED
    BY <2>1, <2>2
<1>2. PICK i \in S : \A j \in S : i <= j
  <2>1. S \in SUBSET (1..r)
    OBVIOUS
  <2> HIDE DEF S
  <2> QED
    BY <1>1, <2>1, MinIsThere
<1> DEFINE t == r + 1 - i
<1>3. i \in 1..r /\ t \in 1..r /\ t \in Nat /\ ~C(t)
  <2>1. i \in 1..r /\ ~C(r + 1 - i)
    BY <1>2
  <2> HIDE DEF C
  <2> QED
    BY <2>1
<1>4. t # r
  <2> SUFFICES ASSUME t = r PROVE FALSE
    OBVIOUS
  <2>1. Holes(E, A, r, r) = {}
    BY <1>0 DEF Holes
  <2>2. SheetAmount(Holes(E, A, r, r)) = 0
    BY <2>1, SheetNone
  <2>3. C(r)
    BY <1>0, <2>2
  <2> HIDE DEF C, t
  <2> QED
    BY <1>3, <2>3
<1>5. C(t + 1)
  <2>1. i - 1 \in 1..r /\ i - 1 < i /\ r + 1 - (i - 1) = t + 1
    BY <1>3, <1>4
  <2>2. i - 1 \notin S
    <3> HIDE DEF S
    <3> QED
      BY <1>2, <1>3, <2>1
  <2> HIDE DEF C, t
  <2> QED
    BY <2>1, <2>2
<1> HIDE DEF t, S
<1>6. CASE t \notin E
  <2>1. Down(E, t) = Down(E, t + 1)
    BY <1>0, <1>3, <1>6 DEF Down
  <2>2. Holes(E, A, t, r) = Holes(E, A, t + 1, r)
    BY <1>0, <1>3, <1>6 DEF Holes
  <2>3. Over(E, A, t) = Over(E, A, t + 1)
    BY <2>1 DEF Over
  <2> QED
    BY <1>3, <1>5, <2>2, <2>3
<1>7. CASE t \in E
  <2>0. /\ t <= t /\ ~(t + 1 <= t)
        /\ \A s \in E : s \in Nat /\ (t <= s <=> s = t \/ t + 1 <= s) /\ (s >= t <=> t <= s)
                         /\ (s >= t + 1 <=> t + 1 <= s)
    BY <1>0, <1>3
  <2>1. t \in Down(E, t) /\ Down(E, t) \ {t} = Down(E, t + 1)
    BY <1>7, <2>0 DEF Down
  <2>2. SheetAmount(Down(E, t)) = Records[t].amount + SheetAmount(Down(E, t + 1))
    BY <1>0, <2>1, SheetWithout
  <2>3. CASE SheetAmount(Down(E, t)) > A
    <3>1. t \in Holes(E, A, t, r) /\ Holes(E, A, t, r) \ {t} = Holes(E, A, t + 1, r)
      <4>1. t < r
        BY <1>3, <1>4
      <4> QED
        BY <1>7, <2>0, <2>3, <4>1 DEF Holes
    <3>2. SheetAmount(Holes(E, A, t, r)) = Records[t].amount + SheetAmount(Holes(E, A, t + 1, r))
      BY <1>0, <3>1, SheetWithout
    <3>3. Over(E, A, t) = SheetAmount(Down(E, t)) - A
      BY <2>3 DEF Over
    <3>4. Over(E, A, t + 1) >= SheetAmount(Down(E, t + 1)) - A
      BY <1>0 DEF Over
    <3>5. C(t)
      <4> DEFINE a == Records[t].amount
                 b == SheetAmount(Down(E, t + 1))
                 h == SheetAmount(Holes(E, A, t + 1, r))
                 o == Over(E, A, t + 1)
                 q == Over(E, A, r)
                 x == SheetAmount(Down(E, t))
      <4>1. a \in Int /\ b \in Int /\ h \in Int /\ o \in Int /\ q \in Int
        BY <1>0, <1>7
      <4>2. h + q >= o /\ o >= b - A
        BY <1>5, <3>4
      <4>3. SheetAmount(Holes(E, A, t, r)) = a + h
        BY <3>2
      <4>5. Over(E, A, t) = x - A
        BY <3>3
      <4>6. x = a + b
        BY <2>2
      <4> HIDE DEF a, b, h, o, x
      <4>4. a + h + q >= x - A
        <5> HIDE DEF q
        <5> QED
          BY <4>1, <4>2, <4>6
      <4> QED
        BY <4>3, <4>4, <4>5
    <3> QED
      BY <1>3, <3>5
  <2>4. CASE ~(SheetAmount(Down(E, t)) > A)
    <3>1. Holes(E, A, t, r) = Holes(E, A, t + 1, r)
      BY <1>0, <1>3, <2>4 DEF Holes
    <3>2. Over(E, A, t) = 0 /\ Over(E, A, t + 1) >= 0
      BY <1>0, <2>4 DEF Over
    <3>3. C(t)
      BY <1>0, <1>5, <3>1, <3>2
    <3> QED
      BY <1>3, <3>3
  <2> QED
    BY <2>3, <2>4
<1> QED
  BY <1>6, <1>7

\* If the rows that fit from the oldest up have the amount exactly, then no row
\* of them fits, from the newest down, in what the others have.
LEMMA NeverBoth ==
  ASSUME book \in Books, NEW E \in SUBSET Lines, NEW A \in Int, A > 0, NEW need \in Int,
         SheetAmount(E) > A, need <= SheetAmount(E) - A, SheetAmount(Oldest(E, A)) = A,
         \A s \in E : Records[s].amount # 0,
         NEW r \in Oldest(E, A), r \in Newest(E, need)
  PROVE  FALSE
<1> DEFINE T == SheetAmount(E)
           N == Len(Records)
           a == Records[r].amount
           Up == {s \in E : s < r}
<1>1. /\ r \in E /\ SheetAmount(Down(E, r)) <= A
      /\ \A s \in E : s <= r => SheetAmount({u \in E : u <= s}) <= need
  BY DEF Oldest, Newest, Down
<1>2. /\ \A s \in E : s \in Nat \ {0} /\ s <= N /\ Records[s].amount \in Int
      /\ \A S \in SUBSET E : SheetAmount(S) \in Int
      /\ N \in Nat /\ a \in Int /\ T \in Int
  <2>1. \A s \in E : s \in Nat \ {0} /\ s <= N /\ Records[s].amount \in Int
    BY BookType, SheetTypes
  <2>2. \A S \in SUBSET E : SheetAmount(S) \in Int
    BY SheetTypes
  <2> QED
    BY <1>1, <2>1, <2>2, BookType
<1>3. /\ \A t : Down(E, t) \in SUBSET E /\ SheetAmount(Down(E, t)) \in Int
      /\ Up \in SUBSET E /\ SheetAmount(Up) \in Int
  BY <1>2 DEF Down
<1>4. T = SheetAmount(Up) + SheetAmount(Down(E, r))
  <2>1. Up \cap Down(E, r) = {} /\ Up \cup Down(E, r) = E /\ Up \in SUBSET Lines /\ Down(E, r) \in SUBSET Lines
    BY <1>1, <1>2 DEF Down
  <2> HIDE DEF Up
  <2> QED
    BY <2>1, SheetAdds
<1>5. SheetAmount(Up) <= need
  <2>1. CASE Up = {}
    <3>1. SheetAmount(Up) = 0
      BY <2>1, SheetNone
    <3> QED
      BY <1>1, <1>3, <1>4, <3>1
  <2>2. CASE Up # {}
    <3>1. PICK s \in Up : \A u \in Up : u <= s
      <4>1. Up \in SUBSET (1..N)
        BY <1>2
      <4> HIDE DEF Up, N
      <4> QED
        BY <1>2, <2>2, <4>1, MaxIsThere
    <3>2. {u \in E : u <= s} = Up
      BY <1>1, <1>2, <3>1
    <3>3. s \in E /\ s <= r
      BY <1>1, <1>2
    <3> QED
      BY <1>1, <3>2, <3>3
  <2> QED
    BY <2>1, <2>2
<1>6. SheetAmount(Down(E, r)) = A
  BY <1>1, <1>2, <1>3, <1>4, <1>5
<1>7. SheetAmount(Down(E, r)) = a + SheetAmount(Down(E, r + 1))
  <2>1. r \in Down(E, r) /\ Down(E, r) \ {r} = Down(E, r + 1) /\ Down(E, r) \in SUBSET Lines
    BY <1>1, <1>2 DEF Down
  <2> QED
    BY <2>1, SheetWithout
<1>8. a < 0
  <2>1. {u \in E : u <= r} \ {r} = Up /\ r \in {u \in E : u <= r} /\ {u \in E : u <= r} \in SUBSET Lines
    BY <1>1, <1>2
  <2>2. SheetAmount({u \in E : u <= r}) = a + SheetAmount(Up)
    <3> DEFINE U == {u \in E : u <= r}
    <3>1. U \in SUBSET Lines /\ r \in U /\ U \ {r} = Up
      BY <2>1
    <3> HIDE DEF U, Up
    <3>2. SheetAmount(U) = a + SheetAmount(Up)
      BY <3>1, SheetWithout
    <3> QED
      BY <3>2 DEF U
  <2>3. r <= r
    BY <1>1, <1>2
  <2>4. a + SheetAmount(Up) <= need
    BY <1>1, <2>2, <2>3
  <2>5. a # 0
    BY <1>1
  <2>6. SheetAmount(Up) = T - A
    BY <1>2, <1>3, <1>4, <1>6
  <2> HIDE DEF a, T, Up
  <2> QED
    BY <1>2, <1>3, <2>4, <2>5, <2>6 DEF T
<1> DEFINE H1 == Holes(E, A, 1, r)
           H2 == Holes(E, A, r + 1, N + 1)
<1>9. SheetAmount(H1) >= T - A
  <2>1. SheetAmount(H1) + Over(E, A, r) >= Over(E, A, 1)
    BY <1>1, <1>2, HolesSum
  <2>2. Over(E, A, r) = 0
    BY <1>2, <1>6 DEF Over
  <2>3. Down(E, 1) = E
    BY <1>2 DEF Down
  <2>4. Over(E, A, 1) = T - A
    BY <2>3 DEF Over
  <2>5. H1 \in SUBSET E
    BY DEF Holes
  <2>6. SheetAmount(H1) \in Int
    BY <1>2, <2>5
  <2> HIDE DEF H1, T
  <2> QED
    BY <1>2, <2>1, <2>2, <2>4, <2>6
<1>10. SheetAmount(H2) > 0
  <2>1. r + 1 \in 1..(N + 1) /\ N + 1 \in Nat
    BY <1>1, <1>2
  <2>2. SheetAmount(H2) + Over(E, A, N + 1) >= Over(E, A, r + 1)
    <3> HIDE DEF N
    <3> QED
      BY <2>1, HolesSum
  <2>3. Over(E, A, N + 1) = 0
    <3>1. Down(E, N + 1) = {}
      BY <1>2 DEF Down
    <3>2. SheetAmount(Down(E, N + 1)) = 0
      BY <3>1, SheetNone
    <3> QED
      BY <3>2 DEF Over
  <2>4. Over(E, A, r + 1) > 0
    <3>1. SheetAmount(Down(E, r + 1)) > A
      BY <1>2, <1>3, <1>6, <1>7, <1>8
    <3> QED
      BY <1>3, <3>1 DEF Over
  <2>5. H2 \in SUBSET E /\ Over(E, A, r + 1) \in Int
    BY <1>3 DEF Holes, Over
  <2>6. SheetAmount(H2) \in Int
    BY <1>2, <2>5
  <2> HIDE DEF H2
  <2> QED
    BY <2>2, <2>3, <2>4, <2>5, <2>6
<1>11. SheetAmount(H1) + SheetAmount(H2) = T - A
  <2>1. H1 \in SUBSET Lines /\ H2 \in SUBSET Lines /\ H1 \cap H2 = {}
    BY <1>1, <1>2 DEF Holes
  <2>2. H1 \cup H2 = E \ Oldest(E, A)
    <3>1. Oldest(E, A) = {s \in E : SheetAmount(Down(E, s)) <= A}
      BY DEF Oldest, Down
    <3>2. \A s \in E : ~(SheetAmount(Down(E, s)) <= A) <=> SheetAmount(Down(E, s)) > A
      BY <1>3
    <3>3. \A s \in E : 1 <= s /\ s < N + 1 /\ (s < r \/ r + 1 <= s \/ s = r)
      BY <1>1, <1>2
    <3>4. ~(SheetAmount(Down(E, r)) > A)
      BY <1>6
    <3> QED
      BY <3>1, <3>2, <3>3, <3>4 DEF Holes
  <2>3. SheetAmount(H1 \cup H2) = SheetAmount(H1) + SheetAmount(H2)
    <3> HIDE DEF H1, H2
    <3> QED
      BY <2>1, SheetAdds
  <2> DEFINE O == Oldest(E, A)
             X == E \ O
  <2>4. O \in SUBSET Lines /\ X \in SUBSET Lines /\ O \cap X = {} /\ O \cup X = E
    BY DEF Oldest
  <2>5. SheetAmount(E) = SheetAmount(O) + SheetAmount(X)
    <3> HIDE DEF O, X
    <3> QED
      BY <2>4, SheetAdds
  <2>6. SheetAmount(X) \in Int
    BY <2>4, SheetTypes
  <2>7. SheetAmount(X) = SheetAmount(H1) + SheetAmount(H2)
    BY <2>2, <2>3
  <2> HIDE DEF X, H1, H2
  <2> QED
    BY <1>2, <2>5, <2>6, <2>7
<1>12. SheetAmount(H1) \in Int /\ SheetAmount(H2) \in Int
  <2>1. H1 \in SUBSET E /\ H2 \in SUBSET E
    BY DEF Holes
  <2> QED
    BY <1>2, <2>1
<1> HIDE DEF H1, H2, T
<1> QED
  BY <1>2, <1>9, <1>10, <1>11, <1>12

\* Of rows that all bring money, of which the newest are left behind, the rest
\* is found from the oldest up by its amount, and what is left from the newest
\* down.
LEMMA SplitIsFound ==
  ASSUME book \in Books, NEW E \in SUBSET Lines, NEW B \in SUBSET E,
         \A r \in E : Records[r].amount > 0,
         \A b \in B : \A r \in E \ B : b < r
  PROVE  /\ Oldest(E, SheetAmount(E \ B)) = E \ B
         /\ Newest(E, SheetAmount(B)) = B
<1> DEFINE K == E \ B
<1>1. K \in SUBSET E /\ (\A r \in E : r \in Nat) /\ (\A r \in E : r \notin K => r \in B)
      /\ E \in SUBSET Lines /\ K \in SUBSET Lines /\ B \in SUBSET Lines
  BY BookType
<1>2. \A S \in SUBSET E : \A U \in SUBSET S :
        /\ SheetAmount(U) \in Int /\ SheetAmount(S) \in Int
        /\ SheetAmount(U) <= SheetAmount(S) /\ (S # U => SheetAmount(U) < SheetAmount(S))
  <2> SUFFICES ASSUME NEW S \in SUBSET E, NEW U \in SUBSET S
               PROVE  /\ SheetAmount(U) \in Int /\ SheetAmount(S) \in Int
                      /\ SheetAmount(U) <= SheetAmount(S) /\ (S # U => SheetAmount(U) < SheetAmount(S))
    OBVIOUS
  <2>1. S \in SUBSET Lines /\ \A r \in S \ U : Records[r].amount > 0
    OBVIOUS
  <2> QED
    BY <2>1, SheetMore
<1>3. ASSUME NEW r \in K PROVE SheetAmount({s \in E : s >= r}) <= SheetAmount(K)
  <2>1. {s \in E : s >= r} \in SUBSET K
    BY <1>1
  <2> HIDE DEF K
  <2> QED
    BY <1>1, <1>2, <2>1
<1>4. ASSUME NEW r \in B PROVE ~(SheetAmount({s \in E : s >= r}) <= SheetAmount(K))
  <2> DEFINE S == {s \in E : s >= r}
  <2>1. K \in SUBSET S /\ S \in SUBSET E /\ S # K
    <3>1. \A s \in K : s >= r
      BY <1>1
    <3>2. r \in S /\ r \notin K
      BY <1>1
    <3> QED
      BY <3>1, <3>2
  <2> HIDE DEF S, K
  <2>2. SheetAmount(K) < SheetAmount(S) /\ SheetAmount(K) \in Int /\ SheetAmount(S) \in Int
    BY <1>2, <2>1
  <2>3. ~(SheetAmount(S) <= SheetAmount(K))
    BY <2>2
  <2> QED
    BY <2>3 DEF S
<1>5. Oldest(E, SheetAmount(K)) = K
  <2> HIDE DEF K
  <2> QED
    BY <1>1, <1>3, <1>4 DEF Oldest
<1>6. ASSUME NEW r \in B, NEW s \in E, s <= r PROVE SheetAmount({u \in E : u <= s}) <= SheetAmount(B)
  <2>1. {u \in E : u <= s} \in SUBSET B
    <3> SUFFICES ASSUME NEW u \in E, u <= s PROVE u \in B
      OBVIOUS
    <3>1. u <= r /\ ~(r < u)
      BY <1>1, <1>6
    <3> QED
      BY <3>1
  <2> QED
    BY <1>1, <1>2, <2>1
<1>7. ASSUME NEW r \in K PROVE r \in E /\ r <= r /\ ~(SheetAmount({u \in E : u <= r}) <= SheetAmount(B))
  <2> DEFINE S == {s \in E : s <= r}
  <2>1. B \in SUBSET S /\ S \in SUBSET E /\ S # B
    <3>1. \A s \in B : s <= r
      BY <1>1
    <3>2. r \in S /\ r \notin B
      BY <1>1
    <3> QED
      BY <3>1, <3>2
  <2> HIDE DEF S
  <2>2. SheetAmount(B) < SheetAmount(S) /\ SheetAmount(B) \in Int /\ SheetAmount(S) \in Int
    BY <1>2, <2>1
  <2>3. ~(SheetAmount(S) <= SheetAmount(B))
    BY <2>2
  <2>4. r \in E /\ r <= r
    BY <1>1
  <2> QED
    BY <2>3, <2>4 DEF S
<1>8. Newest(E, SheetAmount(B)) = B
  <2> HIDE DEF K
  <2> QED
    BY <1>1, <1>6, <1>7 DEF Newest
<1> QED
  BY <1>5, <1>8

-----------------------------------------------------------------------------
(* What two withdrawals have in common.                                      *)

\* A traced withdrawal that misses something has all of its own earnings.
LEMMA TracedNeeds ==
  ASSUME Met, NEW k \in DOMAIN wds, FundedEarning[k].ok, Need(k) # 0
  PROVE  List(k) = Earning(k) /\ (IsLast(k + 1) => Need(k) >= 0)
<1>1. FundedEarning[k] = Outcome(k, FundedEarning[k + 1]) /\ ~Error.ok
  BY FundedEarningIs DEF Met, Error
<1> QED
  BY <1>1 DEF Outcome

\* What withdrawals leave behind is worth something.
LEMMA LaggingIsWorth ==
  ASSUME AllRead, Complete, NEW k \in DOMAIN wds
  PROVE  SheetAmount(Lagging(k)) \in Int /\ SheetAmount(Lagging(k)) >= 0
         /\ (Lagging(k) # {} => SheetAmount(Lagging(k)) > 0)
<1> DEFINE L == Lagging(k)
           none == L \cap {}
<1>1. book \in Books /\ L \in SUBSET Lines /\ \A r \in L : Records[r].amount > 0
  BY LaggingIs, AllMet DEF Earning
<1>2. none = {} /\ none \in SUBSET L /\ \A r \in L \ none : Records[r].amount > 0
  BY <1>1
<1>3. SheetAmount(none) = 0
  BY <1>1, <1>2, SheetNone
<1> HIDE DEF L, none
<1>4. SheetAmount(L) \in Int /\ SheetAmount(none) <= SheetAmount(L)
      /\ (L # none => SheetAmount(none) < SheetAmount(L))
  BY <1>1, <1>2, SheetMore
<1> QED
  BY <1>2, <1>3, <1>4 DEF L

\* The earnings of a withdrawal, and any of them, weigh what the sheet says.
LEMMA OwnWeighs ==
  ASSUME AllRead, Itemised, NEW k \in DOMAIN wds, NEW S \in SUBSET Earning(k)
  PROVE  GetAmount(S) = SheetAmount(S)
<1>1. \A r \in S : r \in AllEarnings /\ wds[k] < r
  BY EarningIs, AllMet
<1> QED
  BY <1>1, EarningsWeigh

\* In a complete workbook the two oldest withdrawals have no earning in common.
LEMMA OldestApart ==
  ASSUME AllRead, Complete, NEW k \in DOMAIN wds, k + 1 = Len(wds), k + 1 \in DOMAIN wds,
         FundedEarning[k].ok, FundedEarning[k + 1].ok
  PROVE  Rest(k) \cap List(k + 1) = {}
<1> DEFINE n == k + 1
           E == Earning(n)
           T == SheetAmount(E)
           A == Amount(n)
<1>1. /\ book \in Books /\ Met /\ Itemised /\ Len(wds) \in Nat /\ DOMAIN wds = 1..Len(wds)
      /\ k < Len(wds) /\ n = Len(wds) /\ n \in DOMAIN wds
  BY AllMet DEF AllRead, Complete
<1>2. SUFFICES ASSUME NEW r \in Rest(k), r \in List(n) PROVE FALSE
  OBVIOUS
<1>3. Need(k) # 0 /\ IsLast(n) /\ Rest(k) = Newest(E, Need(k))
  BY <1>1 DEF Rest, Left, IsLast
<1>4. List(k) = Earning(k) /\ Need(k) >= 0
  BY <1>1, <1>3, TracedNeeds
<1>5. Need(n) = 0
  BY <1>1, TracedIs
<1>6. /\ Amount(k) \in Int /\ SheetAmount(Earning(k)) \in Int /\ SheetAmount(Lagging(k)) \in Int
      /\ Amount(k) = SheetAmount(Earning(k)) - SheetAmount(Lagging(k)) + SheetAmount(Lagging(n))
  BY <1>1, TrueAmounts DEF Caught
<1>7. /\ A \in Int /\ A > 0 /\ T \in Int /\ SheetAmount(Lagging(n)) \in Int
      /\ A = T - SheetAmount(Lagging(n))
  <2>1. Caught(n) = {}
    BY <1>1 DEF Caught
  <2>2. SheetAmount(Caught(n)) = 0
    BY <1>1, <2>1, SheetNone
  <2> QED
    BY <1>1, <2>2, TrueAmounts
<1>8. Need(k) = SheetAmount(Lagging(n)) - SheetAmount(Lagging(k)) /\ Need(k) \in Int
  <2>1. GetAmount(Earning(k)) = SheetAmount(Earning(k))
    BY <1>1, OwnWeighs
  <2>2. Need(k) = Amount(k) - SheetAmount(Earning(k))
    BY <1>4, <2>1 DEF Need
  <2> QED
    BY <1>6, <1>7, <2>2
<1>9. SheetAmount(Lagging(k)) >= 0 /\ SheetAmount(Lagging(n)) >= 0
  BY <1>1, LaggingIsWorth
<1>10. List(n) \in SUBSET E /\ E \in SUBSET Lines
  BY <1>1, EarningSets
<1>11. GetAmount(E) = T /\ GetAmount(List(n)) = SheetAmount(List(n)) /\ SheetAmount(List(n)) \in Int
  BY <1>1, <1>10, OwnWeighs, SheetTypes
<1>12. SheetAmount(List(n)) = A
  BY <1>5, <1>7, <1>11 DEF Need
<1>13. T # A
  <2> SUFFICES ASSUME T = A PROVE FALSE
    OBVIOUS
  <2> HIDE DEF T, A
  <2> QED
    BY <1>3, <1>4, <1>6, <1>7, <1>8, <1>9
<1>14. List(n) = Oldest(E, A)
  BY <1>11, <1>13 DEF List
<1>15. T > A /\ Need(k) <= T - A
  <2> HIDE DEF T, A
  <2> QED
    BY <1>6, <1>7, <1>8, <1>9, <1>13
<1>16. \A s \in E : Records[s].amount # 0
  <2>1. \A s \in E : s \in AllEarnings /\ Records[s].amount \in Int
    BY <1>1, <1>10, EarningIs, SheetTypes
  <2> QED
    BY <1>1, <2>1 DEF Itemised
<1>17. r \in Oldest(E, A) /\ r \in Newest(E, Need(k)) /\ SheetAmount(Oldest(E, A)) = A
  BY <1>2, <1>3, <1>12, <1>14
<1> HIDE DEF E, A, n
<1> QED
  BY <1>1, <1>7, <1>8, <1>10, <1>15, <1>16, <1>17, NeverBoth DEF T

\* So no detail is paid out twice.
LEMMA PaidApart == FundInv /\ Filed => PaidOnce
<1> SUFFICES ASSUME FundInv, Filed, OneRowADay,
                    NEW k \in DOMAIN funded, NEW l \in DOMAIN funded,
                    k < l, Complete \/ l < Len(wds)
             PROVE  PaidOut(k) \cap PaidOut(l) = {}
  BY DEF PaidOnce
<1>1. CASE l < Len(wds)
  BY <1>1, InsideOnce DEF InsidePaidOnce
<1>2. CASE ~(l < Len(wds))
  <2>1. Met /\ Gathered /\ Complete /\ AllRead
    <3>1. funded # <<>>
      OBVIOUS
    <3> QED
      BY <1>2, <3>1 DEF FundInv, Filed, AllRead
  <2>2. /\ k \in DOMAIN wds /\ FundedEarning[k].ok /\ funded[k] = FundedEarning[k].funded
        /\ l \in DOMAIN wds /\ FundedEarning[l].ok /\ funded[l] = FundedEarning[l].funded
        /\ k \in 1..Len(wds) /\ l \in 1..Len(wds) /\ Len(wds) \in Nat /\ DOMAIN wds = 1..Len(wds)
    BY <2>1 DEF FundInv, Returned, Met
  <2>3. funded[k] = Rest(k) \cup List(k) /\ funded[l] = Rest(l) \cup List(l) /\ (Rest(l) # {} => l < Len(wds))
    BY <2>1, <2>2, TracedIs
  <2>4. k + 1 \in DOMAIN wds /\ k + 1 <= l /\ l = Len(wds) /\ Rest(l) = {}
    BY <1>2, <2>2, <2>3
  <2>5. /\ List(k) \subseteq Earning(k) /\ List(l) \subseteq Earning(l)
        /\ Rest(k) \subseteq Earning(k + 1)
        /\ Earning(k) \subseteq Lines /\ Earning(k + 1) \subseteq Lines /\ Earning(l) \subseteq Lines
        /\ \A m, n \in DOMAIN wds : m < n => Earning(m) \cap Earning(n) = {}
    <3>1. Rest(k) \subseteq Earning(k + 1)
      BY <2>1, <2>2, EarningSets DEF Rest
    <3> QED
      BY <2>1, <2>2, <2>4, <3>1, EarningSets
  <2>6. Rest(k) \cap List(l) = {}
    <3>1. CASE k + 1 = l
      BY <2>1, <2>2, <2>4, <3>1, OldestApart
    <3>2. CASE k + 1 < l
      BY <2>2, <2>4, <2>5, <3>2
    <3> QED
      BY <2>2, <2>4, <3>1, <3>2
  <2>7. List(k) \cap List(l) = {}
    BY <2>2, <2>5
  <2>8. funded[k] \cap funded[l] = {} /\ funded[k] \subseteq Lines /\ funded[l] \subseteq Lines
    BY <2>3, <2>4, <2>5, <2>6, <2>7
  <2>9. Apart(Lines)
    BY <2>1, ListsApart
  <2> QED
    BY <2>8, <2>9 DEF Apart, PaidOut
<1> QED
  BY <1>1, <1>2

-----------------------------------------------------------------------------
(* A workbook that can be traced.                                           *)

\* A withdrawal that leaves something behind is traced by itself: the rest of
\* its earnings, from the oldest up, is its amount.
LEMMA LeaverIsTraced ==
  ASSUME AllRead, Traceable, NEW k \in DOMAIN wds, Lagging(k) # {}
  PROVE  /\ FundedEarning[k] = Traced(TrueEarnings(wds[k]), Lagging(k))
         /\ Newest(Earning(k), SheetAmount(Lagging(k))) = Lagging(k)
<1> DEFINE E == Earning(k)
           L == Lagging(k)
           A == Amount(k)
<1>1. /\ book \in Books /\ Met /\ Complete /\ Itemised /\ Len(wds) \in Nat /\ DOMAIN wds = 1..Len(wds)
      /\ \A l \in DOMAIN wds : wds[l] \in Withdrawals /\ wds[l] \in Nat
      /\ \A l, m \in DOMAIN wds : l < m => wds[l] < wds[m]
      /\ \A l, m \in DOMAIN wds : wds[l] < wds[m] => l < m
      /\ \A w \in Withdrawals : \E l \in DOMAIN wds : wds[l] = w
      /\ \A r \in Lines : r \in Nat
      /\ AllEarnings \subseteq Lines
  BY AllMet DEF AllRead, Traceable, Complete
<1>2. \A r \in Lines : Records[r].type # "GMV"
  BY <1>1 DEF Traceable, Lagging
<1>3. Caught(k) = {}
  <2> SUFFICES ASSUME k < Len(wds) PROVE Lagging(k + 1) = {}
    BY DEF Caught
  <2>1. k + 1 \in DOMAIN wds /\ wds[k] < wds[k + 1]
    BY <1>1
  <2>2. ASSUME NEW u \in Withdrawals, wds[k] < u, u < wds[k + 1] PROVE FALSE
    <3>1. PICK l \in DOMAIN wds : wds[l] = u
      BY <1>1
    <3>2. k < l /\ l < k + 1
      BY <1>1, <2>1, <2>2, <3>1
    <3> QED
      BY <1>1, <3>2
  <2> QED
    BY <1>1, <2>1, <2>2 DEF Traceable, Lagging
<1>4. L = {r \in E : book.payer[r] # wds[k]} /\ L \in SUBSET E /\ E \in SUBSET Lines
      /\ \A r \in E : r \in AllEarnings /\ r > wds[k]
  BY <1>1, LaggingIs, EarningIs DEF Earning
<1>5. \A r \in E : Records[r].type = "Earnings" /\ Records[r].amount > 0
  BY <1>1, <1>2, <1>4 DEF AllEarnings, Itemised
<1>6. ASSUME NEW b \in L, NEW r \in E \ L PROVE b < r
  <2>1. book.payer[r] = wds[k] /\ book.payer[b] # wds[k] /\ b \in AllEarnings /\ r \in AllEarnings
        /\ b \in Nat /\ r \in Nat
    BY <1>1, <1>4
  <2>2. \A v \in Withdrawals : v < b => v <= wds[k]
    BY DEF Lagging, LeftBy
  <2>3. book.payer[b] \in Withdrawals \cup {0} /\ book.payer[b] < b
    BY <1>1, <2>1 DEF Complete
  <2>4. book.payer[b] < wds[k]
    <3>1. wds[k] \in Nat \ {0} /\ \A w \in Withdrawals : w \in Nat
      BY AllMet
    <3> QED
      BY <2>1, <2>2, <2>3, <3>1
  <2>5. ~(r < b)
    <3> SUFFICES ASSUME r < b PROVE FALSE
      OBVIOUS
    <3>1. book.payer[r] <= book.payer[b]
      BY <1>1, <1>4, <1>5, <2>1 DEF Complete
    <3>2. book.payer[b] \in Nat
      BY <1>1, <2>3
    <3> QED
      BY <1>1, <2>1, <2>4, <3>1, <3>2
  <2> QED
    BY <2>1, <2>5
<1>7. TrueEarnings(wds[k]) = E \ L /\ A = SheetAmount(E \ L) /\ A \in Int
  <2>1. TrueEarnings(wds[k]) = (E \ L) \cup Caught(k) /\ A = SheetAmount(TrueEarnings(wds[k])) /\ A \in Int
    BY <1>1, TruePaid, TrueAmounts
  <2> HIDE DEF E, L, A
  <2> QED
    BY <1>3, <2>1
<1>8. Oldest(E, A) = E \ L /\ Newest(E, SheetAmount(L)) = L
  <2> HIDE DEF E, L, A
  <2> QED
    BY <1>1, <1>4, <1>5, <1>6, <1>7, SplitIsFound
<1>9. GetAmount(E) = SheetAmount(E) /\ GetAmount(E \ L) = A
  <2>1. E \in SUBSET Earning(k) /\ E \ L \in SUBSET Earning(k)
    OBVIOUS
  <2>2. GetAmount(E) = SheetAmount(E) /\ GetAmount(E \ L) = SheetAmount(E \ L)
    BY <1>1, <2>1, OwnWeighs
  <2> QED
    BY <1>7, <2>2
<1>10. SheetAmount(E) # A
  <2> DEFINE K == E \ L
  <2>1. K \in SUBSET E /\ E # K /\ \A r \in E \ K : Records[r].amount > 0
    BY <1>4, <1>5
  <2> HIDE DEF K
  <2>2. SheetAmount(K) < SheetAmount(E) /\ SheetAmount(K) \in Int /\ SheetAmount(E) \in Int
    BY <1>1, <1>4, <2>1, SheetMore
  <2>3. SheetAmount(K) # SheetAmount(E)
    BY <2>2
  <2> QED
    BY <1>7, <2>3 DEF K
<1>11. List(k) = E \ L
  BY <1>8, <1>9, <1>10 DEF List
<1>12. Need(k) = 0
  BY <1>7, <1>9, <1>11 DEF Need
<1>13. Outcome(k, FundedEarning[k + 1]) = Traced(E \ L, E \ (E \ L))
  BY <1>11, <1>12 DEF Outcome
<1>14. E \ (E \ L) = L
  BY <1>4
<1> QED
  BY <1>1, <1>7, <1>8, <1>13, <1>14, FundedEarningIs

\* Every other has all of its own, and what the one before it has left behind.
LEMMA AllAreTraced ==
  ASSUME AllRead, Traceable, NEW k \in DOMAIN wds
  PROVE  FundedEarning[k] = Traced(TrueEarnings(wds[k]), Lagging(k)) /\ TrueEarnings(wds[k]) # {}
<1> DEFINE E == Earning(k)
           A == Amount(k)
           C == Caught(k)
<1>1. /\ book \in Books /\ Met /\ Complete /\ Itemised /\ Len(wds) \in Nat /\ DOMAIN wds = 1..Len(wds)
      /\ E \in SUBSET Lines
  BY AllMet DEF AllRead, Traceable, Complete, Earning
<1>2. TrueEarnings(wds[k]) # {}
  <2>1. SheetAmount(TrueEarnings(wds[k])) > 0
    BY <1>1, TrueAmounts
  <2>2. SheetAmount({}) = 0
    BY <1>1, SheetNone
  <2> QED
    BY <2>1, <2>2
<1>3. CASE Lagging(k) # {}
  BY <1>2, <1>3, LeaverIsTraced
<1>4. CASE Lagging(k) = {}
  <2>1. TrueEarnings(wds[k]) = E \cup C
    BY <1>1, <1>4, TruePaid
  <2>2. A \in Int /\ SheetAmount(E) \in Int /\ SheetAmount(C) \in Int /\ A = SheetAmount(E) + SheetAmount(C)
    <3>1. SheetAmount(Lagging(k)) = 0
      BY <1>1, <1>4, SheetNone
    <3>2. /\ A \in Int /\ SheetAmount(E) \in Int /\ SheetAmount(C) \in Int
          /\ A = SheetAmount(E) - SheetAmount(Lagging(k)) + SheetAmount(C)
      BY <1>1, TrueAmounts
    <3> HIDE DEF A, E, C
    <3> QED
      BY <3>1, <3>2
  <2>3. GetAmount(E) = SheetAmount(E)
    BY <1>1, OwnWeighs
  <2>4. FundedEarning[k] = Outcome(k, FundedEarning[k + 1])
    BY <1>1, FundedEarningIs
  <2>5. CASE C = {}
    <3>1. SheetAmount(C) = 0
      BY <1>1, <2>5, SheetNone
    <3>2. GetAmount(E) = A
      BY <2>2, <2>3, <3>1
    <3>3. List(k) = E /\ Need(k) = 0
      BY <2>2, <3>2 DEF List, Need
    <3>4. Outcome(k, FundedEarning[k + 1]) = Traced(E, E \ E)
      BY <3>3 DEF Outcome
    <3>5. E \ E = Lagging(k) /\ TrueEarnings(wds[k]) = E
      BY <1>4, <2>1, <2>5
    <3> QED
      BY <1>2, <2>4, <3>4, <3>5
  <2>6. CASE C # {}
    <3>1. k < Len(wds) /\ k + 1 \in DOMAIN wds /\ C = Lagging(k + 1) /\ k # Len(wds)
      BY <1>1, <2>6 DEF Caught
    <3>2. /\ FundedEarning[k + 1] = Traced(TrueEarnings(wds[k + 1]), C)
          /\ Newest(Earning(k + 1), SheetAmount(C)) = C
      BY <2>6, <3>1, LeaverIsTraced
    <3>3. SheetAmount(C) > 0
      BY <1>1, <2>6, <3>1, LaggingIsWorth
    <3>4. GetAmount(C) = SheetAmount(C)
      <4>1. C \in SUBSET Earning(k + 1)
        BY <1>1, <3>1, LaggingIs
      <4> QED
        BY <1>1, <3>1, <4>1, OwnWeighs
    <3>5. GetAmount(E) # A
      <4> HIDE DEF E, A, C
      <4> QED
        BY <2>2, <2>3, <3>3
    <3>6. Oldest(E, A) = E
      <4>1. \A r \in Lines : Records[r].type # "GMV"
        <5>1. wds[k + 1] \in Withdrawals /\ LeftBy(wds[k + 1]) # {}
          BY <2>6, <3>1, AllMet DEF Lagging
        <5> QED
          BY <5>1 DEF Traceable
      <4>2. \A r \in E : Records[r].amount > 0
        BY <1>1, <4>1 DEF Earning, Itemised, AllEarnings
      <4>3. ASSUME NEW r \in E PROVE SheetAmount({s \in E : s >= r}) <= A
        <5> DEFINE S == {s \in E : s >= r}
        <5>1. S \in SUBSET E /\ \A s \in E \ S : Records[s].amount > 0
          BY <4>2
        <5> HIDE DEF S, E
        <5>2. SheetAmount(S) <= SheetAmount(E) /\ SheetAmount(S) \in Int
          BY <1>1, <5>1, SheetMore
        <5> HIDE DEF C, A
        <5>3. SheetAmount(S) <= A
          BY <2>2, <3>3, <5>2
        <5> QED
          BY <5>3 DEF S
      <4> HIDE DEF E, A
      <4> QED
        BY <4>3 DEF Oldest
    <3>7. List(k) = E
      BY <3>5, <3>6 DEF List
    <3>8. Need(k) = SheetAmount(C)
      <4>1. Need(k) = A - SheetAmount(E)
        BY <2>3, <3>7 DEF Need
      <4> HIDE DEF A, E, C
      <4> QED
        BY <2>2, <4>1
    <3>9. Left(k) = C
      BY <3>2, <3>8 DEF Left
    <3>10. Need(k) # 0 /\ Need(k) >= 0
      <4> HIDE DEF C
      <4> QED
        BY <2>2, <3>3, <3>8
    <3>11. FundedEarning[k + 1].ok /\ FundedEarning[k + 1].not = C
      BY <3>2 DEF Traced
    <3>12. Outcome(k, FundedEarning[k + 1]) = Traced(C \cup E, E \ E)
      <4> HIDE DEF C, E
      <4>1. CASE IsLast(k + 1)
        BY <3>1, <3>4, <3>7, <3>8, <3>9, <3>10, <4>1 DEF Outcome, E
      <4>2. CASE ~IsLast(k + 1)
        BY <3>1, <3>4, <3>7, <3>8, <3>10, <3>11, <4>2 DEF Outcome, E
      <4> QED
        BY <4>1, <4>2
    <3>13. E \ E = Lagging(k) /\ TrueEarnings(wds[k]) = C \cup E
      BY <1>4, <2>1
    <3> QED
      BY <1>2, <2>4, <3>12, <3>13
  <2> QED
    BY <2>5, <2>6
<1> QED
  BY <1>3, <1>4

-----------------------------------------------------------------------------
(* Its reading.                                                             *)

\* Nothing goes wrong, and the last withdrawal is reached.
Smooth == Traceable => /\ phase \notin {"error", "panic"}
                       /\ phase = "done" => next > Len(wds)

\* What really happened does not change while the workbook is read.
LEMMA SameTruth ==
  ASSUME UNCHANGED book
  PROVE  Traceable' <=> Traceable
<1>1. /\ UNCHANGED <<Records, Details, Lines, Withdrawals, AllEarnings>>
      /\ (Itemised' <=> Itemised)
  BY SameRecords
<1>2. \A w : SheetAmount(TrueEarnings(w))' = SheetAmount(TrueEarnings(w))
  <2>1. \A r : TrueEarnings(r)' = TrueEarnings(r)
    BY SameRecords
  <2>2. \A S : SheetAmount(S)' = SheetAmount(S)
    BY <1>1 DEF SheetAmount, MapThenSumSet, MapThenFoldSet
  <2> QED
    BY <2>1, <2>2
<1>3. \A w : LeftBy(w)' = LeftBy(w)
  BY <1>1 DEF LeftBy
<1>4. Complete' <=> Complete
  BY <1>1, <1>2 DEF Complete
<1> QED
  BY <1>1, <1>3, <1>4 DEF Traceable

\* Every step keeps that: no deduction misses a payment, no withdrawal is
\* untraceable.
LEMMA SmoothSteps == FundInv /\ Filed /\ Smooth /\ [FundNext]_fvars => Smooth'
<1> SUFFICES ASSUME FundInv, Filed, Smooth, [FundNext]_fvars PROVE Smooth'
  OBVIOUS
<1>1. UNCHANGED book
  BY DEF FundNext, ReadRecord, EndOfRecords, ValidWithdrawal, EndOfWithdrawals, fvars
<1>2. Traceable' <=> Traceable
  BY <1>1, SameTruth
<1> SUFFICES ASSUME Traceable
             PROVE  /\ phase' \notin {"error", "panic"}
                    /\ phase' = "done" => next' > Len(wds')
  BY <1>2 DEF Smooth
<1>3. /\ phase \notin {"error", "panic"} /\ (phase = "done" => next > Len(wds))
      /\ Met /\ Gathered /\ Itemised /\ \A r \in Lines : Records[r].type # "InProcess"
  BY DEF Smooth, FundInv, Traceable, Complete
<1>4. CASE ReadRecord
  <2>1. phase = "records" /\ row \in Lines
    BY <1>4 DEF ReadRecord
  <2>2. ~ReadInProcess
    BY <1>3, <2>1 DEF ReadInProcess
  <2>3. ReadDeduction => phase' = "records"
    <3> SUFFICES ASSUME ReadDeduction PROVE phase' = "records"
      OBVIOUS
    <3>1. Records[row].type = "GMV" /\ row \in AllEarnings
      BY <2>1 DEF ReadDeduction, AllEarnings
    <3>2. GmvDeduction(Records[row].date, Records[row].amount) = PartsOf(row)
      BY <1>3, <2>1, <3>1, Deducts DEF Met, Filed
    <3>3. DetailAmount(PartsOf(row)) = Records[row].amount
      BY <1>3, <3>1 DEF Itemised
    <3> QED
      BY <2>1, <3>2, <3>3 DEF ReadDeduction
  <2>4. phase' = "records"
    BY <1>4, <2>1, <2>2, <2>3 DEF ReadRecord, ReadEarnings, ReadWithdrawal, SkipRow
  <2> QED
    BY <2>4
<1>5. CASE EndOfRecords
  BY <1>5 DEF EndOfRecords
<1>6. CASE EndOfWithdrawals
  BY <1>6 DEF EndOfWithdrawals
<1>7. CASE ValidWithdrawal
  <2>1. phase = "funding" /\ next <= Len(wds) /\ AllRead /\ next \in DOMAIN wds
    <3>1. phase = "funding" /\ next <= Len(wds)
      BY <1>7 DEF ValidWithdrawal
    <3>2. AllRead
      BY <1>3, <3>1 DEF AllRead, Filed
    <3>3. next \in DOMAIN wds
      BY <1>3, <3>1 DEF FundInv, Returned, Met
    <3> QED
      BY <3>1, <3>2, <3>3
  <2>2. FundedEarning[next] = Traced(TrueEarnings(wds[next]), Lagging(next)) /\ TrueEarnings(wds[next]) # {}
    BY <2>1, AllAreTraced
  <2>3. Result.ok /\ Result.funded # {}
    BY <2>2 DEF Result, Traced
  <2> QED
    BY <1>7, <2>1, <2>3 DEF ValidWithdrawal, Keep, GiveUp
<1>8. CASE UNCHANGED fvars
  BY <1>3, <1>8 DEF fvars
<1> QED
  BY <1>4, <1>5, <1>6, <1>7, <1>8 DEF FundNext

\* So what is returned is what has happened.
LEMMA FundingIsTrue == FundInv /\ Filed /\ Smooth => TrueFunding
<1> SUFFICES ASSUME FundInv, Filed, Smooth, Traceable
             PROVE  /\ phase \notin {"error", "panic"}
                    /\ phase = "done" => Len(funded) = Len(wds)
                    /\ \A k \in DOMAIN funded : funded[k] = TrueEarnings(wds[k])
  BY DEF TrueFunding
<1>1. /\ Met /\ Gathered /\ Len(wds) \in Nat /\ DOMAIN wds = 1..Len(wds)
      /\ DOMAIN funded = 1..Len(funded) /\ Len(funded) \in Nat /\ next = Len(funded) + 1
      /\ \A k \in DOMAIN funded : /\ k \in DOMAIN wds
                                  /\ FundedEarning[k].ok /\ funded[k] = FundedEarning[k].funded
  BY DEF FundInv, Returned, Met
<1>2. ASSUME phase = "done" PROVE Len(funded) = Len(wds)
  <2>1. next > Len(wds)
    BY <1>2 DEF Smooth
  <2>2. Len(funded) # 0 => Len(funded) \in DOMAIN wds
    <3> SUFFICES ASSUME Len(funded) # 0 PROVE Len(funded) \in DOMAIN wds
      OBVIOUS
    <3>1. Len(funded) \in DOMAIN funded
      BY <1>1
    <3> QED
      BY <1>1, <3>1
  <2>3. Len(funded) <= Len(wds)
    BY <1>1, <2>2
  <2>4. \A n, m \in Nat : n <= m /\ n + 1 > m => n = m
    OBVIOUS
  <2>5. Len(funded) + 1 > Len(wds)
    BY <1>1, <2>1
  <2> QED
    BY <1>1, <2>3, <2>4, <2>5
<1>3. ASSUME NEW k \in DOMAIN funded PROVE funded[k] = TrueEarnings(wds[k])
  <2>1. AllRead
    <3>1. funded # <<>>
      OBVIOUS
    <3> QED
      BY <1>1, <3>1 DEF Filed, AllRead
  <2>2. FundedEarning[k] = Traced(TrueEarnings(wds[k]), Lagging(k))
    BY <1>1, <2>1, AllAreTraced
  <2> QED
    BY <1>1, <2>2 DEF Traced
<1> QED
  BY <1>2, <1>3 DEF Smooth

\* Everything that is read of a workbook has its place, and of one that can be
\* traced all of it.
THEOREM TracingInvariant == FundSpec => [](FundInv /\ Filed /\ Smooth)
<1>1. FundInit => FundInv /\ Filed /\ Smooth
  BY FundStarts, FiledStarts DEF Smooth, FundInit
<1>2. FundInv /\ Filed /\ Smooth /\ [FundNext]_fvars => (FundInv /\ Filed /\ Smooth)'
  BY FundSteps, FiledSteps, SmoothSteps
<1> QED
  BY <1>1, <1>2, PTL DEF FundSpec

\* A workbook that can be traced is read without an error, all its withdrawals
\* are returned, and each with just the earnings it has paid out: what
\* FundedEarning works out from the sums of the sheet is what has happened.
THEOREM TracedIsTrue == FundSpec => []TrueFunding
  BY FundingIsTrue, TracingInvariant, PTL

\* No row of "Order details" is paid out by two withdrawals, if every day's
\* earnings are one row and the workbook goes back to the first earning; if it
\* does not, the oldest withdrawal is left aside.
THEOREM NothingIsPaidTwice == FundSpec => []PaidOnce
  BY PaidApart, TracingInvariant, PTL

-----------------------------------------------------------------------------
(* The v1 TikTok reader: how far it has counted the sheet down.              *)

\* The row of the sheet on top, one beyond the last when all are used up.
Top == IF top <= Cardinality(Earnings) THEN Data(top) ELSE Len(Sheet) + 1

\* The rows of the sheet that are known to count down.
Tracked(e) == SplitDay(e) \/ AllCountDown

\* How far the sheet is counted down.
Counted ==
    /\ \A e \in Earnings : e < Top /\ Tracked(e) => \A k \in Handed(e) : k < pos
    /\ \A e \in Earnings : e > Top => left[e] = Sheet[e].amount
    /\ top <= Cardinality(Earnings) /\ Tracked(Top) =>
          /\ left[Top] = Sheet[Top].amount - Brought({k \in Handed(Top) : k < pos})
          /\ \E k \in Handed(Top) : k >= pos

Cursor ==
    /\ file \in Workbooks
    /\ pos \in Nat \ {0}
    /\ top \in 1..(Cardinality(Earnings) + 1)
    /\ left \in [DOMAIN Sheet -> Int]

\* The types of a workbook's sheets.
LEMMA BookIs ==
  ASSUME file \in Workbooks
  PROVE  /\ file.market = "tiktok"
         /\ Len(Sheet) \in Nat /\ DOMAIN Sheet = 1..Len(Sheet)
         /\ Len(Rows) \in Nat /\ DOMAIN Rows = 1..Len(Rows)
         /\ Earnings \in SUBSET (1..Len(Sheet)) /\ KeptWds \in SUBSET (1..Len(Sheet))
         /\ \A e \in Earnings \cup KeptWds : e \in 1..Len(Sheet)
         /\ \A n \in DOMAIN Sheet : Sheet[n].amount \in Int /\ Sheet[n].day \in Nat
         /\ \A n \in DOMAIN Rows : /\ Rows[n].amount \in Int
                                   /\ file.earned[n] \in Earnings
                                   /\ Rows[n].day = Sheet[file.earned[n]].day
         /\ \A m, n \in DOMAIN Rows : m < n => file.earned[m] <= file.earned[n]
         /\ \A m, n \in DOMAIN Sheet : m < n => Sheet[m].day >= Sheet[n].day
<1>1. TwoSheets(file) /\ NewestFirst(file) /\ Attributed(file)
  BY StatementsAssumption
<1>2. Sheet \in Seq(Range(Sheet)) /\ Rows \in Seq(Range(Rows))
  BY <1>1 DEF TwoSheets, Sheet, Rows
<1>3. /\ Len(Sheet) \in Nat /\ DOMAIN Sheet = 1..Len(Sheet)
      /\ Len(Rows) \in Nat /\ DOMAIN Rows = 1..Len(Rows)
  BY <1>2, LenProperties
<1>4. /\ Earnings \in SUBSET (1..Len(Sheet)) /\ KeptWds \in SUBSET (1..Len(Sheet))
      /\ \A e \in Earnings \cup KeptWds : e \in 1..Len(Sheet)
  BY <1>3 DEF Earnings, KeptWds
<1>5. /\ file.market = "tiktok"
      /\ \A n \in DOMAIN Sheet : Sheet[n].amount \in Int /\ Sheet[n].day \in Nat
      /\ \A m, n \in DOMAIN Sheet : m < n => Sheet[m].day >= Sheet[n].day
  BY <1>1 DEF TwoSheets, NewestFirst, Sheet
<1>6. /\ \A n \in DOMAIN Rows : /\ file.earned[n] \in Earnings
                                /\ Rows[n].day = Sheet[file.earned[n]].day
      /\ \A m, n \in DOMAIN Rows : m < n => file.earned[m] <= file.earned[n]
  BY <1>1 DEF Attributed, Sheet, Rows, Earnings
<1>7. \A n \in DOMAIN Rows : Rows[n].amount \in Int
  BY <1>1 DEF TwoSheets, Rows
<1> QED
  BY <1>3, <1>4, <1>5, <1>6, <1>7

\* A row of earnings that is not the last of its day splits the day.
LEMMA SplitIs ==
  ASSUME file \in Workbooks, NEW e \in Earnings, NEW f \in Earnings, e < f,
         Sheet[e].day = Sheet[f].day
  PROVE  Tracked(e)
<1> DEFINE S == {g \in Earnings : e < g}
<1>1. Len(Sheet) \in Nat /\ S \in SUBSET (1..Len(Sheet)) /\ S # {}
  BY BookIs
<1>2. PICK g \in S : \A h \in S : g <= h
  <2> HIDE DEF S
  <2> QED
    BY <1>1, MinIsThere
<1>3. g \in Earnings /\ e < g /\ \A h \in Earnings : ~(e < h /\ h < g)
  BY <1>1, <1>2
<1>4. e \in DOMAIN Sheet /\ f \in DOMAIN Sheet /\ g \in DOMAIN Sheet /\ g <= f
  BY <1>2 DEF Earnings
<1>5. Sheet[e].day >= Sheet[g].day /\ Sheet[g].day >= Sheet[f].day
  BY <1>3, <1>4, BookIs
<1>6. Sheet[e].day = Sheet[g].day
  BY <1>4, <1>5, BookIs
<1> QED
  BY <1>3, <1>6 DEF SplitDay, Tracked

\* The row on top, the one before and the one after.
LEMMA TopIs ==
  ASSUME Cursor
  PROVE  /\ Cardinality(Earnings) \in Nat /\ Top \in 1..(Len(Sheet) + 1)
         /\ top <= Cardinality(Earnings) =>
               /\ Top = Data(top) /\ Top \in Earnings
               /\ top > 1 => /\ Data(top - 1) \in Earnings /\ Data(top - 1) < Top
                             /\ \A e \in Earnings : e < Top => e <= Data(top - 1)
<1>1. Len(Sheet) \in Nat /\ Earnings \in SUBSET (1..Len(Sheet))
  BY BookIs DEF Cursor
<1>2. Cardinality(Earnings) \in Nat
  <2>1. IsFiniteSet(1..Len(Sheet))
    BY <1>1, FS_Interval
  <2>2. IsFiniteSet(Earnings)
    BY <1>1, <2>1, FS_Subset
  <2> QED
    BY <2>2, FS_CardinalityType
<1>3. ASSUME top <= Cardinality(Earnings)
      PROVE  /\ Top = Data(top) /\ Top \in Earnings
             /\ top > 1 => /\ Data(top - 1) \in Earnings /\ Data(top - 1) < Top
                           /\ \A e \in Earnings : e < Top => e <= Data(top - 1)
  <2>1. top \in 1..Cardinality(Earnings)
    BY <1>2, <1>3 DEF Cursor
  <2>2. Top = Data(top)
    BY <1>3 DEF Top
  <2>3. Top \in Earnings
    BY <1>1, <2>1, <2>2, NthIsThere DEF Data
  <2>4. \A e \in Earnings : e < Top => e <= Data(top - 1)
    BY <1>1, <2>1, <2>2, NthNext DEF Data
  <2>5. ASSUME top > 1 PROVE Data(top - 1) \in Earnings /\ Data(top - 1) < Top
    <3> DEFINE n == top - 1
    <3>1. n \in 1..Cardinality(Earnings) /\ n + 1 = top
      BY <1>2, <2>1, <2>5
    <3> HIDE DEF n
    <3>2. Data(n) \in Earnings /\ Data(n) < Data(n + 1)
      BY <1>1, <2>1, <3>1, NthIsThere, NthNext DEF Data
    <3> QED
      BY <2>2, <3>1, <3>2 DEF n
  <2> QED
    BY <2>2, <2>3, <2>4, <2>5
<1>4. Top \in 1..(Len(Sheet) + 1)
  <2>1. CASE top <= Cardinality(Earnings)
    <3>1. Top \in 1..Len(Sheet)
      BY <1>1, <1>3, <2>1
    <3> QED
      BY <1>1, <3>1
  <2>2. CASE ~(top <= Cardinality(Earnings))
    BY <1>1, <2>2 DEF Top
  <2> QED
    BY <2>1, <2>2
<1> QED
  BY <1>2, <1>3, <1>4

TopThere == Cursor => /\ Cardinality(Earnings) \in Nat /\ Top \in 1..(Len(Sheet) + 1)
                      /\ top <= Cardinality(Earnings) => Top \in Earnings
\* The row on top is one of the sheet's.
LEMMA TopIsThere == TopThere
  BY TopIs DEF TopThere
\* It is so after a step.
LEMMA TopThereNext == TopThere'
  BY TopIsThere, PTL

\* What comes on top next.
LEMMA TopMoves ==
  ASSUME Cursor, top <= Cardinality(Earnings), file' = file, top' = top + 1
  PROVE  /\ top' \in 1..(Cardinality(Earnings) + 1)
         /\ Top < Top'
         /\ \A e \in Earnings : e < Top' => e <= Top
<1>1. /\ Len(Sheet) \in Nat /\ Earnings \in SUBSET (1..Len(Sheet)) /\ Cardinality(Earnings) \in Nat
      /\ \A e \in Earnings : e \in 1..Len(Sheet)
  BY BookIs, TopIs DEF Cursor
<1>2. top \in 1..Cardinality(Earnings) /\ Top = Data(top) /\ Top \in Earnings
  BY <1>1, TopIs DEF Cursor
<1>3. Top' = IF top + 1 <= Cardinality(Earnings) THEN Data(top + 1) ELSE Len(Sheet) + 1
  BY DEF Top, Data, Earnings, Sheet
<1> DEFINE n == top + 1
           N == Cardinality(Earnings)
<1>4. Top' = IF n \in 1..N THEN Data(n) ELSE Len(Sheet) + 1
  BY <1>1, <1>2, <1>3
<1>5. /\ n \in 1..N => Data(n) \in Earnings /\ Top < Data(n)
      /\ \A e \in Earnings : e > Top => n \in 1..N /\ e >= Data(n)
  <2>1. n \in 1..N => Data(n) \in Earnings
    BY <1>1, NthIsThere DEF Data
  <2>2. n \in 1..N => Data(top) < Data(n)
    BY <1>1, <1>2, NthNext DEF Data
  <2>3. \A e \in Earnings : e > Data(top) => n \in 1..N /\ e >= Data(n)
    BY <1>1, <1>2, NthNext DEF Data
  <2> QED
    BY <1>2, <2>1, <2>2, <2>3
<1>6. top' = n /\ n \in 1..(N + 1)
  BY <1>1, <1>2
<1> HIDE DEF n, N
<1>7. Top < Top'
  BY <1>1, <1>2, <1>4, <1>5
<1>8. \A e \in Earnings : e < Top' => e <= Top
  <2> SUFFICES ASSUME NEW e \in Earnings, e < Top', ~(e <= Top) PROVE FALSE
    OBVIOUS
  <2>1. e > Top
    BY <1>1, <1>2
  <2>2. e < Data(n) /\ e >= Data(n) /\ Data(n) \in Earnings
    BY <1>4, <1>5, <2>1
  <2>3. e \in 1..Len(Sheet) /\ Data(n) \in 1..Len(Sheet)
    BY <1>1, <2>2
  <2> HIDE DEF Data
  <2> QED
    BY <1>1, <2>2, <2>3
<1> QED
  BY <1>6, <1>7, <1>8 DEF N

\* The withdrawal of a row of earnings is the last one above it.
LEMMA HeadIs ==
  ASSUME file \in Workbooks, NEW m \in Nat, NEW n \in Nat
  PROVE  /\ Head1(n) \in {0} \cup KeptWds /\ Head1(n) \in Nat
         /\ m <= n => Head1(m) <= Head1(n)
<1>1. Len(Sheet) \in Nat /\ \A w \in KeptWds : w \in 1..Len(Sheet)
  BY BookIs
<1> DEFINE Above(k) == {w \in KeptWds : w < k}
<1>2. ASSUME NEW k \in Nat
      PROVE  /\ Head1(k) \in {0} \cup Above(k)
             /\ \A w \in {0} \cup Above(k) : w <= Head1(k)
  <2> DEFINE S == Above(k)
  <2>1. S \in SUBSET (1..Len(Sheet)) /\ Head1(k) = Max({0} \cup S)
    BY <1>1 DEF Head1
  <2> HIDE DEF S
  <2>2. Head1(k) \in {0} \cup S /\ \A w \in {0} \cup S : w <= Head1(k)
    BY <1>1, <2>1, MaxWithZero
  <2> QED
    BY <2>2 DEF S
<1>3. ASSUME m <= n PROVE Head1(m) <= Head1(n)
  <2>1. Head1(m) \in {0} \cup Above(m) /\ Head1(n) \in {0} \cup Above(n)
    BY <1>2
  <2>2. Head1(m) \in {0} \cup Above(n)
    BY <1>1, <1>3, <2>1
  <2> QED
    BY <1>2, <2>2
<1> QED
  BY <1>1, <1>2, <1>3

\* The orders of a row of earnings that are handed.
LEMMA HandedIs ==
  ASSUME NEW e
  PROVE  /\ Handed(e) \in SUBSET DOMAIN Rows
         /\ \A n \in DOMAIN Rows :
              n \in Handed(e) <=> /\ file.earned[n] = e
                                  /\ ~(Rows[n].kind = "Order" /\ Rows[n].amount = 0)
  BY DEF Handed, OrdersOf

\* What rows brought: a row more brings its amount.
LEMMA BroughtIs ==
  ASSUME file \in Workbooks, NEW S \in SUBSET DOMAIN Rows
  PROVE  /\ Brought(S) \in Int /\ Brought({}) = 0
         /\ \A n \in S : Brought(S) = Rows[n].amount + Brought(S \ {n})
<1> DEFINE w == [n \in DOMAIN Rows |-> Rows[n].amount]
<1>1. DOMAIN Rows = 1..Len(Rows) /\ Len(Rows) \in Nat /\ w \in [DOMAIN Rows -> Int]
  BY BookIs
<1>2. \A T \in SUBSET DOMAIN Rows : IsFiniteSet(T)
  <2>1. IsFiniteSet(1..Len(Rows))
    BY <1>1, FS_Interval
  <2> QED
    BY <1>1, <2>1, FS_Subset
<1>3. ASSUME NEW T \in SUBSET DOMAIN Rows PROVE Brought(T) = SumFunctionOnSet(w, T)
  BY DEF Brought, MapThenSumSet, MapThenFoldSet, SumFunctionOnSet, FoldFunctionOnSet
<1> DEFINE D == DOMAIN Rows
<1>4. \A n \in D : w[n] = Rows[n].amount
  OBVIOUS
<1> HIDE DEF w, D
<1>5. Brought(S) \in Int /\ Brought({}) = 0
  <2>1. /\ S \in SUBSET D /\ IsFiniteSet(S) /\ w \in [D -> Int]
        /\ {} \in SUBSET D /\ IsFiniteSet({})
    BY <1>1, <1>2 DEF D
  <2>2. SumFunctionOnSet(w, S) \in Int /\ SumFunctionOnSet(w, {}) = 0
    BY <2>1, SumSteps
  <2> QED
    BY <1>3, <2>1, <2>2 DEF D
<1>7. ASSUME NEW n \in S PROVE Brought(S) = Rows[n].amount + Brought(S \ {n})
  <2>1. S \in SUBSET D /\ IsFiniteSet(S) /\ w \in [D -> Int] /\ S \ {n} \in SUBSET D
    BY <1>1, <1>2 DEF D
  <2>2. SumFunctionOnSet(w, S) = w[n] + SumFunctionOnSet(w, S \ {n})
    BY <2>1, SumWithout
  <2> QED
    BY <1>3, <1>4, <2>1, <2>2 DEF D
<1> QED
  BY <1>5, <1>7

-----------------------------------------------------------------------------
\* A row of earnings that counts down has a last order that is handed.
LEMMA LastHanded ==
  ASSUME file \in Workbooks, NEW e, Handed(e) # {}
  PROVE  /\ Max(Handed(e)) \in Handed(e)
         /\ \A k \in Handed(e) : k <= Max(Handed(e))
<1>1. Len(Rows) \in Nat /\ Handed(e) \in SUBSET (1..Len(Rows))
  BY BookIs, HandedIs
<1> DEFINE S == Handed(e)
<1> HIDE DEF S
<1>2. S \in SUBSET (1..Len(Rows)) /\ S # {}
  BY <1>1 DEF S
<1>3. Max(S) \in S /\ \A k \in S : k <= Max(S)
  BY <1>1, <1>2, MaxIsThere
<1> QED
  BY <1>3 DEF S

\* The reader takes an order for one of the row of earnings that it belongs to.
LEMMA StackIsOwn ==
  ASSUME Cursor, Counted, Reading("tiktok"), ~ZeroOrder, Stack(Rows[pos]) # 0
  PROVE  /\ Stack(Rows[pos]) = file.earned[pos]
         /\ OnTop(Rows[pos]) => Top = file.earned[pos]
         /\ ~OnTop(Rows[pos]) => Top # file.earned[pos] \/ ~(top <= Cardinality(Earnings))
<1> DEFINE r == Rows[pos]
           e == file.earned[pos]
           s == Stack(r)
<1>1. pos \in DOMAIN Rows /\ file \in Workbooks
  BY BookIs DEF Cursor, Reading
<1>2. e \in Earnings /\ Sheet[e].day = r.day
  BY <1>1, BookIs
<1>3. pos \in Handed(e)
  BY <1>1, HandedIs DEF ZeroOrder
<1>4. /\ Len(Sheet) \in Nat /\ \A g \in Earnings : g \in 1..Len(Sheet)
      /\ \A g \in Earnings : Sheet[g].day \in Nat
      /\ \A m, n \in DOMAIN Sheet : m < n => Sheet[m].day >= Sheet[n].day
      /\ \A g \in Earnings : g \in DOMAIN Sheet
  BY <1>1, BookIs
<1>5. top <= Cardinality(Earnings)
  BY DEF Stack, OnTop, Behind
<1>6. Top = Data(top) /\ Top \in Earnings
  BY <1>5, TopIs
<1>7. ~(e < Top /\ Tracked(e))
  <2> SUFFICES ASSUME e < Top, Tracked(e) PROVE FALSE
    OBVIOUS
  <2>1. pos < pos
    BY <1>2, <1>3 DEF Counted
  <2> QED
    BY <2>1 DEF Cursor
<1>8. CASE OnTop(r)
  <2>1. s = Top /\ Sheet[Top].day = r.day
    BY <1>6, <1>8 DEF Stack, OnTop
  <2>2. ~(Top < e)
    <3> SUFFICES ASSUME Top < e PROVE FALSE
      OBVIOUS
    <3>1. Tracked(Top)
      BY <1>1, <1>2, <1>6, <2>1, SplitIs
    <3>2. PICK k \in Handed(Top) : k >= pos
      BY <1>5, <3>1 DEF Counted
    <3>3. k \in DOMAIN Rows /\ file.earned[k] = Top
      BY <1>1, <3>2, HandedIs
    <3>4. k \in Nat /\ pos \in Nat
      BY <1>1, <3>3, BookIs
    <3>5. CASE k = pos
      BY <1>2, <1>4, <1>6, <3>3, <3>5
    <3>6. CASE pos < k
      <4>1. e <= Top
        BY <1>1, <3>3, <3>6, BookIs
      <4> QED
        BY <1>2, <1>4, <1>6, <4>1
    <3> QED
      BY <3>2, <3>4, <3>5, <3>6
  <2>3. ~(e < Top)
    <3> SUFFICES ASSUME e < Top PROVE FALSE
      OBVIOUS
    <3>1. Tracked(e)
      BY <1>1, <1>2, <1>6, <2>1, SplitIs
    <3> QED
      BY <1>7, <3>1
  <2>4. Top = e
    BY <1>2, <1>4, <1>6, <2>2, <2>3
  <2> QED
    BY <1>8, <2>1, <2>4
<1>9. CASE ~OnTop(r)
  <2> DEFINE b == Data(top - 1)
  <2>1. /\ top > 1 /\ Sheet[b].day = r.day /\ s = b /\ Sheet[Top].day # r.day
    BY <1>5, <1>6, <1>9 DEF Stack, OnTop
  <2>2. /\ b \in Earnings /\ b < Top
        /\ \A g \in Earnings : g < Top => g <= b
    BY <1>5, <2>1, TopIs
  <2> HIDE DEF b
  <2>3. Top # e
    BY <1>2, <2>1
  <2>4. ~(e > Top)
    <3> SUFFICES ASSUME e > Top PROVE FALSE
      OBVIOUS
    <3>1. Sheet[b].day >= Sheet[Top].day /\ Sheet[Top].day >= Sheet[e].day
      BY <1>2, <1>4, <1>6, <2>2
    <3>2. Sheet[Top].day = r.day
      BY <1>2, <1>4, <1>6, <2>1, <2>2, <3>1
    <3> QED
      BY <2>1, <3>2
  <2>5. e <= b
    BY <1>2, <1>4, <1>6, <2>2, <2>3, <2>4
  <2>6. ~(e < b)
    <3> SUFFICES ASSUME e < b PROVE FALSE
      OBVIOUS
    <3>1. Tracked(e)
      BY <1>1, <1>2, <2>1, <2>2, SplitIs
    <3>2. e < Top
      BY <1>2, <1>4, <1>6, <2>2
    <3> QED
      BY <1>7, <3>1, <3>2
  <2>7. e = b
    BY <1>2, <1>4, <2>2, <2>5, <2>6
  <2> QED
    BY <1>9, <2>1, <2>3, <2>7
<1> QED
  BY <1>8, <1>9

\* What an order leaves of the row on top is what the orders up to it leave.
LEMMA RestIs ==
  ASSUME Cursor, Counted, top <= Cardinality(Earnings), Tracked(Top), pos \in Handed(Top)
  PROVE  LET after == {k \in Handed(Top) : k <= pos} IN
         /\ left[Top] - Rows[pos].amount = Sheet[Top].amount - Brought(after)
         /\ left[Top] \in Int /\ Rows[pos].amount \in Int
         /\ Sheet[Top].amount \in Int /\ Brought(after) \in Int
<1> DEFINE H == Handed(Top)
           before == {k \in H : k < pos}
           after == {k \in H : k <= pos}
<1>1. /\ file \in Workbooks /\ H \in SUBSET DOMAIN Rows /\ DOMAIN Rows = 1..Len(Rows)
      /\ Len(Rows) \in Nat
  BY BookIs, HandedIs DEF Cursor
<1>2. Top \in Earnings /\ left[Top] = Sheet[Top].amount - Brought(before)
  BY TopIs DEF Counted
<1>3. /\ pos \in after /\ after \ {pos} = before
      /\ after \in SUBSET DOMAIN Rows /\ before \in SUBSET DOMAIN Rows
  BY <1>1
<1>4. Sheet[Top].amount \in Int /\ Rows[pos].amount \in Int
  <2>1. Top \in DOMAIN Sheet /\ pos \in DOMAIN Rows
    BY <1>1, <1>2 DEF Earnings
  <2> QED
    BY <1>1, <2>1, BookIs
<1> HIDE DEF before, after
<1>5. Brought(after) = Rows[pos].amount + Brought(before)
  <2>1. Brought(after) = Rows[pos].amount + Brought(after \ {pos})
    BY <1>1, <1>3, BroughtIs
  <2> QED
    BY <1>3, <2>1
<1>6. Brought(after) \in Int /\ Brought(before) \in Int
  BY <1>1, <1>3, BroughtIs
<1>7. left[Top] - Rows[pos].amount = Sheet[Top].amount - Brought(after) /\ left[Top] \in Int
  BY <1>2, <1>4, <1>5, <1>6
<1> QED
  BY <1>4, <1>6, <1>7 DEF after

\* Of what a statement says nothing changes while it is read.
LEMMA SameBook ==
  ASSUME file' = file
  PROVE  /\ Earnings' = Earnings /\ KeptWds' = KeptWds /\ Sheet' = Sheet /\ Rows' = Rows
         /\ \A g : Tracked(g)' <=> Tracked(g)
         /\ AllCountDown' <=> AllCountDown
         /\ \A g : Handed(g)' = Handed(g)
         /\ \A S : Brought(S)' = Brought(S)
         /\ \A n : Head1(n)' = Head1(n)
         /\ DistinctDays' <=> DistinctDays
         /\ SplitsCountDown' <=> SplitsCountDown
<1>1. Earnings' = Earnings /\ KeptWds' = KeptWds /\ Sheet' = Sheet /\ Rows' = Rows
  BY DEF Earnings, KeptWds, Sheet, Rows, Settled
<1>2. /\ \A g : SplitDay(g)' <=> SplitDay(g)
      /\ \A g : Handed(g)' = Handed(g)
  BY <1>1 DEF SplitDay, Handed, OrdersOf
<1>3. \A S : Brought(S)' = Brought(S)
  BY <1>1 DEF Brought, MapThenSumSet, MapThenFoldSet
<1>4. \A n : Head1(n)' = Head1(n)
  BY <1>1 DEF Head1
<1>5. \A g : CountsDown(g)' <=> CountsDown(g)
  BY <1>1, <1>2, <1>3 DEF CountsDown
<1>6. DistinctDays' <=> DistinctDays
  BY <1>1 DEF DistinctDays
<1>7. SplitsCountDown' <=> SplitsCountDown
  BY <1>1, <1>2, <1>5 DEF SplitsCountDown
<1>8. /\ AllCountDown' <=> AllCountDown
      /\ \A g : Tracked(g)' <=> Tracked(g)
  BY <1>1, <1>2, <1>5 DEF AllCountDown, Tracked
<1> QED
  BY <1>1, <1>2, <1>3, <1>4, <1>6, <1>7, <1>8

\* A row is passed or read, and the row of the sheet on top stays.
LEMMA StaysOnTop ==
  ASSUME Cursor, Counted, pos \in DOMAIN Rows,
         file' = file, pos' = pos + 1, top' = top,
         left' \in [DOMAIN Sheet -> Int],
         \A g \in DOMAIN Sheet : g # Top => left'[g] = left[g],
         top <= Cardinality(Earnings) =>
            /\ pos \in Handed(Top) /\ Tracked(Top) =>
                  /\ left'[Top] = left[Top] - Rows[pos].amount
                  /\ pos # Max(Handed(Top))
            /\ pos \notin Handed(Top) => left'[Top] = left[Top]
  PROVE  (Cursor /\ Counted)'
<1>1. /\ Len(Sheet) \in Nat /\ DOMAIN Sheet = 1..Len(Sheet) /\ DOMAIN Rows = 1..Len(Rows)
      /\ Len(Rows) \in Nat
      /\ \A g \in Earnings : g \in 1..Len(Sheet)
      /\ \A n \in DOMAIN Rows : Rows[n].amount \in Int
      /\ \A n \in DOMAIN Sheet : Sheet[n].amount \in Int
  BY BookIs DEF Cursor
<1>2. /\ Earnings' = Earnings /\ Sheet' = Sheet /\ Rows' = Rows /\ Top' = Top
      /\ \A g : Tracked(g)' <=> Tracked(g)
      /\ \A g : Handed(g)' = Handed(g)
      /\ \A S : Brought(S)' = Brought(S)
  <2>1. Top' = Top
    BY SameBook DEF Top, Data
  <2> QED
    BY <2>1, SameBook
<1>3. Cursor'
  BY <1>1, <1>2 DEF Cursor
<1>4. ASSUME NEW g \in Earnings, g < Top, Tracked(g), NEW k \in Handed(g) PROVE k < pos + 1
  <2>1. k < pos /\ k \in DOMAIN Rows
    BY <1>4, HandedIs DEF Counted, Cursor
  <2> QED
    BY <1>1, <2>1
<1>5. ASSUME NEW g \in Earnings, g > Top PROVE left'[g] = Sheet[g].amount
  <2>1. g # Top
    BY <1>1, <1>5, TopIs
  <2> QED
    BY <1>1, <1>5, <2>1 DEF Counted
<1>6. ASSUME top <= Cardinality(Earnings), Tracked(Top)
      PROVE  /\ left'[Top] = Sheet[Top].amount - Brought({k \in Handed(Top) : k < pos + 1})
             /\ \E k \in Handed(Top) : k >= pos + 1
  <2> DEFINE H == Handed(Top)
             before == {k \in H : k < pos}
             after == {k \in H : k < pos + 1}
  <2>1. H \in SUBSET DOMAIN Rows
    BY HandedIs DEF Cursor
  <2>2. left[Top] = Sheet[Top].amount - Brought(before) /\ \E k \in H : k >= pos
    BY <1>6 DEF Counted
  <2>3. Top \in Earnings /\ Top \in DOMAIN Sheet /\ left[Top] \in Int
    BY <1>1, <1>6, TopIs DEF Cursor
  <2>4. CASE pos \notin H
    <3>1. after = before
      BY <1>1, <2>1, <2>4
    <3>2. left'[Top] = left[Top]
      BY <1>6, <2>4
    <3>3. PICK k \in H : k >= pos
      BY <2>2
    <3>4. k >= pos + 1
      BY <1>1, <2>1, <2>4, <3>3
    <3> QED
      BY <2>2, <3>1, <3>2, <3>4
  <2>5. CASE pos \in H
    <3>1. left'[Top] = left[Top] - Rows[pos].amount /\ pos # Max(H)
      BY <1>6, <2>5
    <3>2. after = {k \in H : k <= pos}
      BY <1>1, <2>1
    <3>3. left'[Top] = Sheet[Top].amount - Brought(after)
      <4> HIDE DEF after
      <4>1. LET upto == {k \in H : k <= pos} IN
            left[Top] - Rows[pos].amount = Sheet[Top].amount - Brought(upto)
        BY <1>6, <2>5, RestIs
      <4> QED
        BY <3>1, <3>2, <4>1
    <3>4. Max(H) \in H /\ pos <= Max(H)
      BY <2>5, LastHanded DEF Cursor
    <3>5. Max(H) >= pos + 1
      BY <1>1, <2>1, <3>1, <3>4
    <3> QED
      BY <3>3, <3>4, <3>5
  <2> QED
    BY <2>4, <2>5
<1>7. Counted'
  BY <1>2, <1>4, <1>5, <1>6 DEF Counted
<1> QED
  BY <1>3, <1>7

\* An order uses up what is left of the row on top, and the next comes up.
LEMMA NextOnTop ==
  ASSUME Cursor, Counted, SplitsCountDown, pos \in DOMAIN Rows, top <= Cardinality(Earnings),
         file' = file, pos' = pos + 1, top' = top + 1,
         pos \in Handed(Top), left[Top] = Rows[pos].amount,
         left' \in [DOMAIN Sheet -> Int],
         \A g \in DOMAIN Sheet : g # Top => left'[g] = left[g]
  PROVE  (Cursor /\ Counted)'
<1>1. /\ Len(Sheet) \in Nat /\ DOMAIN Sheet = 1..Len(Sheet) /\ DOMAIN Rows = 1..Len(Rows)
      /\ Len(Rows) \in Nat
      /\ \A g \in Earnings : g \in 1..Len(Sheet)
      /\ \A n \in DOMAIN Rows : Rows[n].amount \in Int
      /\ \A n \in DOMAIN Sheet : Sheet[n].amount \in Int
      /\ \A m, n \in DOMAIN Rows : m < n => file.earned[m] <= file.earned[n]
      /\ file \in Workbooks
  BY BookIs DEF Cursor
<1>2. /\ Earnings' = Earnings /\ Sheet' = Sheet /\ Rows' = Rows
      /\ \A g : Tracked(g)' <=> Tracked(g)
      /\ \A g : Handed(g)' = Handed(g)
      /\ \A S : Brought(S)' = Brought(S)
  BY SameBook
<1>3. /\ top' \in 1..(Cardinality(Earnings) + 1)
      /\ Top < Top'
      /\ \A g \in Earnings : g < Top' => g <= Top
      /\ Cursor
  BY TopMoves
<1>4. /\ Top \in Earnings /\ Top \in 1..Len(Sheet) /\ Cardinality(Earnings) \in Nat
      /\ Top' \in 1..(Len(Sheet) + 1)
      /\ top' <= Cardinality(Earnings) => Top' \in Earnings
  <2>1. Top \in Earnings /\ Top \in 1..Len(Sheet) /\ Cardinality(Earnings) \in Nat
    <3>1. Top \in Earnings /\ Cardinality(Earnings) \in Nat
      BY TopIs
    <3> QED
      BY <1>1, <3>1
  <2>2. Cursor'
    BY <1>1, <1>2, <1>3 DEF Cursor
  <2>3. Cursor' => (/\ Cardinality(Earnings) \in Nat /\ Top \in 1..(Len(Sheet) + 1)
                    /\ top <= Cardinality(Earnings) => Top \in Earnings)'
    BY TopThereNext DEF TopThere
  <2> QED
    BY <1>2, <2>1, <2>2, <2>3
<1>5. Cursor'
  BY <1>1, <1>2, <1>3 DEF Cursor
<1>6. ASSUME NEW g \in Earnings, g < Top', Tracked(g), NEW k \in Handed(g) PROVE k < pos + 1
  <2>1. k \in DOMAIN Rows
    BY <1>1, HandedIs
  <2>2. CASE g < Top
    <3>1. k < pos
      BY <1>6, <2>2 DEF Counted
    <3> QED
      BY <1>1, <2>1, <3>1
  <2>3. CASE g = Top
    <3> DEFINE H == Handed(Top)
               after == {j \in H : j <= pos}
    <3>1. H \in SUBSET DOMAIN Rows /\ pos \in H
      BY <1>1, HandedIs
    <3>2. Brought(after) = Sheet[Top].amount
      <4>1. /\ left[Top] - Rows[pos].amount = Sheet[Top].amount - Brought(after)
            /\ Rows[pos].amount \in Int /\ Sheet[Top].amount \in Int /\ Brought(after) \in Int
        BY <1>6, <2>3, RestIs
      <4> HIDE DEF after
      <4> QED
        BY <4>1
    <3>3. H # {} /\ CountsDown(Top)
      BY <1>4, <1>6, <2>3 DEF SplitsCountDown, Tracked, AllCountDown
    <3>4. pos = Max(H)
      BY <3>1, <3>2, <3>3 DEF CountsDown
    <3>5. k <= pos
      BY <1>1, <1>6, <2>3, <3>3, <3>4, LastHanded
    <3> QED
      BY <1>1, <2>1, <3>1, <3>5
  <2> QED
    BY <1>1, <1>3, <1>4, <1>6, <2>2, <2>3
<1>7. ASSUME NEW g \in Earnings, g > Top \/ g > Top' \/ g = Top'
      PROVE  left'[g] = Sheet[g].amount
  <2>1. g # Top /\ g > Top
    BY <1>1, <1>3, <1>4, <1>7
  <2> QED
    BY <1>1, <2>1 DEF Counted
<1>8. ASSUME top' <= Cardinality(Earnings), Tracked(Top')
      PROVE  /\ left'[Top'] = Sheet[Top'].amount - Brought({k \in Handed(Top') : k < pos + 1})
             /\ \E k \in Handed(Top') : k >= pos + 1
  <2> DEFINE t == Top'
  <2>1. t \in Earnings /\ t > Top /\ left'[t] = Sheet[t].amount /\ t \in 1..Len(Sheet)
    BY <1>1, <1>3, <1>4, <1>7, <1>8
  <2>2. Tracked(t)
    BY <1>8
  <2> HIDE DEF t
  <2>3. ASSUME NEW k \in Handed(t) PROVE k >= pos + 1 /\ k \in Int
    <3>1. k \in DOMAIN Rows /\ file.earned[k] = t /\ file.earned[pos] = Top
      BY <1>1, HandedIs
    <3>2. ~(k < pos) /\ k # pos
      BY <1>1, <1>4, <2>1, <3>1
    <3> QED
      BY <1>1, <3>1, <3>2
  <2>4. Handed(t) # {}
    BY <2>1, <2>2 DEF SplitsCountDown, Tracked, AllCountDown
  <2>5. {k \in Handed(t) : k < pos + 1} = {}
    BY <1>1, <2>3
  <2>6. Brought({}) = 0
    BY <1>1, BroughtIs
  <2>7. left'[t] = Sheet[t].amount - 0
    BY <1>1, <2>1
  <2>8. left'[t] = Sheet[t].amount - Brought({k \in Handed(t) : k < pos + 1})
    BY <2>5, <2>6, <2>7
  <2> QED
    BY <2>3, <2>4, <2>8 DEF t
<1>9. Counted'
  BY <1>2, <1>6, <1>7, <1>8 DEF Counted
<1> QED
  BY <1>5, <1>9

\* Before the first order is read, nothing is counted down.
LEMMA BookOpens ==
  ASSUME file \in Workbooks, SplitsCountDown, file' = file, pos' = 1, top' = 1,
         left' = [n \in DOMAIN Sheet |-> Sheet[n].amount]
  PROVE  (Cursor /\ Counted)'
<1>1. /\ Len(Sheet) \in Nat /\ DOMAIN Sheet = 1..Len(Sheet) /\ DOMAIN Rows = 1..Len(Rows)
      /\ Len(Rows) \in Nat
      /\ Earnings \in SUBSET (1..Len(Sheet))
      /\ \A g \in Earnings : g \in 1..Len(Sheet)
      /\ \A n \in DOMAIN Sheet : Sheet[n].amount \in Int
  BY BookIs
<1>2. /\ Earnings' = Earnings /\ Sheet' = Sheet /\ Rows' = Rows
      /\ \A g : Tracked(g)' <=> Tracked(g)
      /\ \A g : Handed(g)' = Handed(g)
      /\ \A S : Brought(S)' = Brought(S)
  BY SameBook
<1>3. Cardinality(Earnings) \in Nat /\ (Cardinality(Earnings) = 0 => Earnings = {})
  <2> DEFINE N == Len(Sheet)
  <2>0. N \in Nat
    BY <1>1
  <2> HIDE DEF N
  <2>1. IsFiniteSet(1..N)
    BY <2>0, FS_Interval
  <2>2. IsFiniteSet(Earnings)
    BY <1>1, <2>1, FS_Subset DEF N
  <2> QED
    BY <2>2, FS_CardinalityType, FS_EmptySet
<1>4. Cursor'
  BY <1>1, <1>2, <1>3 DEF Cursor
<1>5. ASSUME 1 <= Cardinality(Earnings)
      PROVE  /\ Top' = Data(1) /\ Data(1) \in Earnings
             /\ \A g \in Earnings : ~(g < Data(1))
  <2>1. 1 \in 1..Cardinality(Earnings) /\ 1 - 1 \notin 1..Cardinality(Earnings)
    BY <1>3, <1>5
  <2>2. Top' = Data(1)
    BY <1>2, <1>5 DEF Top, Data
  <2> QED
    BY <1>1, <2>1, <2>2, NthIsThere, NthNext DEF Data
<1>6. \A g \in Earnings : left'[g] = Sheet[g].amount /\ 1 <= Cardinality(Earnings)
  BY <1>1, <1>3
<1>7. ASSUME 1 <= Cardinality(Earnings), Tracked(Data(1))
      PROVE  /\ left'[Data(1)] = Sheet[Data(1)].amount - Brought({k \in Handed(Data(1)) : k < 1})
             /\ \E k \in Handed(Data(1)) : k >= 1
  <2> DEFINE t == Data(1)
  <2>1. t \in Earnings /\ Handed(t) # {} /\ t \in DOMAIN Sheet
    BY <1>1, <1>5, <1>7 DEF SplitsCountDown, Tracked, AllCountDown
  <2> HIDE DEF t
  <2>2. \A k \in Handed(t) : k \in 1..Len(Rows)
    BY <1>1, HandedIs
  <2>3. {k \in Handed(t) : k < 1} = {} /\ \E k \in Handed(t) : k >= 1
    BY <1>1, <2>1, <2>2
  <2>4. Brought({}) = 0
    BY BroughtIs
  <2>5. Brought({k \in Handed(t) : k < 1}) = 0
    BY <2>3, <2>4
  <2>6. left'[t] = Sheet[t].amount /\ Sheet[t].amount \in Int
    BY <1>1, <2>1
  <2>7. left'[t] = Sheet[t].amount - Brought({k \in Handed(t) : k < 1})
    BY <2>5, <2>6
  <2> QED
    BY <2>3, <2>7 DEF t
<1>8. Counted'
  BY <1>2, <1>5, <1>6, <1>7 DEF Counted
<1> QED
  BY <1>4, <1>8

\* A row is taken for one of its row of the sheet, and counted down from it.
LEMMA CountsOn ==
  ASSUME Cursor, Counted, SplitsCountDown, Reading("tiktok"), ~ZeroOrder,
         Stack(Rows[pos]) # 0, Drain(Rows[pos]), file' = file, pos' = pos + 1
  PROVE  (Cursor /\ Counted)'
<1> DEFINE r == Rows[pos]
           H == Handed(Top)
<1>1. /\ file \in Workbooks /\ pos \in DOMAIN Rows
      /\ \A g \in Earnings : g \in DOMAIN Sheet
      /\ r.amount \in Int
  <2>1. file \in Workbooks /\ pos \in DOMAIN Rows
    BY BookIs DEF Cursor, Reading
  <2> QED
    BY <2>1, BookIs
<1>2. /\ OnTop(r) => Top = file.earned[pos]
      /\ ~OnTop(r) => Top # file.earned[pos] \/ ~(top <= Cardinality(Earnings))
  BY StackIsOwn
<1>3. pos \in H <=> Top = file.earned[pos]
  BY <1>1, HandedIs DEF ZeroOrder
<1>4. left \in [DOMAIN Sheet -> Int]
  BY DEF Cursor
<1>5. CASE ~OnTop(r)
  <2>1. left' = left /\ top' = top
    BY <1>5 DEF Drain
  <2>2. top <= Cardinality(Earnings) => pos \notin H
    BY <1>2, <1>3, <1>5
  <2> QED
    BY <1>1, <1>4, <2>1, <2>2, StaysOnTop
<1>6. CASE OnTop(r)
  <2>1. /\ top <= Cardinality(Earnings) /\ Top = Data(top) /\ Top \in DOMAIN Sheet
        /\ Top \in Earnings /\ pos \in H
    BY <1>1, <1>2, <1>3, <1>6, TopIs DEF OnTop
  <2>2. Tracked(Top) => CountsDown(Top)
    BY <2>1 DEF SplitsCountDown, Tracked, AllCountDown
  <2>3. CASE r.amount = 0
    <3>1. left' = left /\ top' = top
      BY <2>3 DEF Drain
    <3>2. Tracked(Top) => pos # Max(H)
      BY <2>2, <2>3 DEF CountsDown
    <3>3. left[Top] = left[Top] - r.amount
      BY <1>4, <2>1, <2>3
    <3> QED
      BY <1>1, <1>4, <2>1, <3>1, <3>2, <3>3, StaysOnTop
  <2>4. CASE r.amount # 0
    <3> DEFINE rest == left[Top] - r.amount
    <3>1. /\ left' = [left EXCEPT ![Top] = rest]
          /\ top' = IF rest = 0 THEN top + 1 ELSE top
      BY <1>6, <2>1, <2>4 DEF Drain, Drained
    <3>2. rest \in Int /\ left[Top] \in Int
      BY <1>1, <1>4, <2>1
    <3>3. /\ left' \in [DOMAIN Sheet -> Int] /\ left'[Top] = rest
          /\ \A g \in DOMAIN Sheet : g # Top => left'[g] = left[g]
      BY <1>4, <2>1, <3>1, <3>2
    <3>4. CASE rest = 0
      <4>1. left[Top] = r.amount
        BY <1>1, <3>2, <3>4
      <4> QED
        BY <1>1, <2>1, <3>1, <3>3, <3>4, <4>1, NextOnTop
    <3>5. CASE rest # 0
      <4>1. ASSUME Tracked(Top) PROVE pos # Max(H)
        <5> SUFFICES ASSUME pos = Max(H) PROVE FALSE
          OBVIOUS
        <5> DEFINE after == {k \in H : k <= pos}
        <5>1. /\ rest = Sheet[Top].amount - Brought(after)
              /\ Sheet[Top].amount \in Int /\ Brought(after) \in Int
          BY <2>1, <4>1, RestIs
        <5>2. Brought(after) = Sheet[Top].amount
          BY <2>1, <2>2, <4>1 DEF CountsDown
        <5> HIDE DEF after, rest
        <5> QED
          BY <3>5, <5>1, <5>2
      <4> QED
        BY <1>1, <2>1, <3>1, <3>3, <3>5, <4>1, StaysOnTop
    <3> QED
      BY <3>4, <3>5
  <2> QED
    BY <2>3, <2>4
<1> QED
  BY <1>5, <1>6

-----------------------------------------------------------------------------
(* What is handed.                                                           *)

\* The withdrawals among items, and the one under which item n is.
Funds(items) == {n \in DOMAIN items : items[n].type = "fund"}
Under(items, n) == LET funds == {k \in 1..(n - 1) : items[k].type = "fund"}
                   IN IF funds = {} THEN 0 ELSE items[Max(funds)].src

\* The withdrawals that have been handed: each paid out a row that is read,
\* they come in the order of the sheet, and their days are those emitted.
Handing ==
    /\ \A n \in Funds(got) :
          /\ got[n].src \in KeptWds /\ Sheet[got[n].src].day \in emitted
          /\ \E q \in DOMAIN Rows : q < pos /\ got[n].src = Head1(file.earned[q])
    /\ \A m, n \in Funds(got) : m <= n => got[m].src <= got[n].src
    /\ \A d \in emitted : \E n \in Funds(got) : Sheet[got[n].src].day = d

RowsUnder == \A n \in DOMAIN got : got[n].type # "fund" =>
    Head1(file.earned[got[n].src]) = Under(got, n)

\* The last of the withdrawals before an item is the one it is under.
LEMMA UnderLast ==
  ASSUME NEW g, g \in Seq(Range(g)), NEW n \in DOMAIN g,
         NEW m \in Funds(g), m < n, \A k \in Funds(g) : k < n => k <= m
  PROVE  Under(g, n) = g[m].src
<1> DEFINE funds == {k \in 1..(n - 1) : g[k].type = "fund"}
<1>1. Len(g) \in Nat /\ DOMAIN g = 1..Len(g)
  BY LenProperties
<1>2. funds \in SUBSET (1..Len(g)) /\ m \in funds /\ \A k \in funds : k <= m
  BY <1>1 DEF Funds
<1> HIDE DEF funds
<1>3. Max(funds) \in funds /\ m <= Max(funds)
  BY <1>1, <1>2, MaxIsThere
<1>4. Max(funds) \in 1..Len(g) /\ m \in 1..Len(g) /\ Max(funds) <= m
  BY <1>2, <1>3
<1>5. Max(funds) = m
  BY <1>1, <1>3, <1>4
<1> QED
  BY <1>2, <1>5 DEF Under, funds

\* Before the first withdrawal that is handed, a row is handed under none.
LEMMA UnderNone ==
  ASSUME NEW g, g \in Seq(Range(g)), NEW n \in DOMAIN g, \A k \in Funds(g) : ~(k < n)
  PROVE  Under(g, n) = 0
<1>1. Len(g) \in Nat /\ DOMAIN g = 1..Len(g)
  BY LenProperties
<1>2. {k \in 1..(n - 1) : g[k].type = "fund"} = {}
  BY <1>1 DEF Funds
<1> QED
  BY <1>2 DEF Under

\* A longer list leaves an item under the same withdrawal.
LEMMA UnderKept ==
  ASSUME NEW g, g \in Seq(Range(g)), NEW h, \A i \in DOMAIN g : h[i] = g[i],
         NEW n \in DOMAIN g
  PROVE  Under(h, n) = Under(g, n)
<1> DEFINE funds == {k \in 1..(n - 1) : g[k].type = "fund"}
<1>1. Len(g) \in Nat /\ DOMAIN g = 1..Len(g)
  BY LenProperties
<1>2. {k \in 1..(n - 1) : h[k].type = "fund"} = funds
  <2>1. \A k \in 1..(n - 1) : h[k] = g[k]
    BY <1>1
  <2> QED
    BY <2>1
<1>3. funds # {} => Max(funds) \in DOMAIN g
  <2>1. funds \in SUBSET (1..Len(g))
    BY <1>1
  <2> HIDE DEF funds
  <2>2. funds # {} => Max(funds) \in funds
    BY <1>1, <2>1, MaxIsThere
  <2> QED
    BY <1>1, <2>1, <2>2
<1>4. Under(h, n) = IF funds = {} THEN 0 ELSE h[Max(funds)].src
  BY <1>2 DEF Under
<1>5. Under(g, n) = IF funds = {} THEN 0 ELSE g[Max(funds)].src
  BY DEF Under
<1> HIDE DEF funds
<1> QED
  BY <1>3, <1>4, <1>5

\* Items that are handed leave those before them under their withdrawals.
LEMMA RowsUnderKept ==
  ASSUME got \in Seq(Range(got)), got' \in Seq(Range(got')),
         \A i \in DOMAIN got : got'[i] = got[i], RowsUnder, file' = file,
         \A n \in DOMAIN got' : n > Len(got) /\ got'[n].type # "fund" =>
            Head1(file.earned[got'[n].src]) = Under(got', n)
  PROVE  RowsUnder'
<1>1. /\ Len(got) \in Nat /\ DOMAIN got = 1..Len(got)
      /\ Len(got') \in Nat /\ DOMAIN got' = 1..Len(got')
  BY LenProperties
<1>2. \A n : Head1(n)' = Head1(n)
  BY SameBook
<1>3. ASSUME NEW n \in DOMAIN got', got'[n].type # "fund"
      PROVE  Head1(file.earned[got'[n].src]) = Under(got', n)
  <2>1. CASE n \in DOMAIN got
    <3> DEFINE g == got  h == got'
    <3>1. g \in Seq(Range(g)) /\ n \in DOMAIN g /\ \A i \in DOMAIN g : h[i] = g[i]
      BY <2>1
    <3> HIDE DEF g, h
    <3>2. Under(h, n) = Under(g, n)
      BY <3>1, UnderKept
    <3>3. got[n].type # "fund"
      BY <1>3, <2>1
    <3>4. Head1(file.earned[got[n].src]) = Under(g, n)
      BY <2>1, <3>3 DEF RowsUnder, g
    <3> QED
      BY <2>1, <3>2, <3>4 DEF h
  <2>2. CASE n \notin DOMAIN got
    <3>1. n > Len(got)
      BY <1>1, <2>2
    <3> QED
      BY <1>3, <3>1
  <2> QED
    BY <2>1, <2>2
<1> QED
  BY <1>2, <1>3 DEF RowsUnder

\* A withdrawal has an index of the sheet, the item it becomes is a fund.
LEMMA FundIs ==
  ASSUME NEW w
  PROVE  WdItem(w).type = "fund" /\ WdItem(w).src = w
  BY DEF WdItem

\* The withdrawals handed so far paid out rows above; if the one of the next
\* row is not due, it is the last of them.
LEMMA FundsBefore ==
  ASSUME file \in Workbooks, Handing, got \in Seq(Range(got)), DistinctDays, pos \in DOMAIN Rows,
         NEW w, w = Head1(file.earned[pos])
  PROVE  /\ w \in {0} \cup KeptWds /\ w \in Nat
         /\ \A n \in Funds(got) : got[n].src \in Nat /\ got[n].src <= w
         /\ ~DueNow(w) => IF w = 0 THEN Funds(got) = {}
                          ELSE \E m \in Funds(got) : /\ \A k \in Funds(got) : k <= m
                                                     /\ got[m].src = w
<1>1. /\ DOMAIN Rows = 1..Len(Rows) /\ Len(Rows) \in Nat /\ Len(Sheet) \in Nat
      /\ \A q \in DOMAIN Rows : file.earned[q] \in Earnings
      /\ \A e \in Earnings \cup KeptWds : e \in 1..Len(Sheet)
      /\ \A m, n \in DOMAIN Rows : m < n => file.earned[m] <= file.earned[n]
  BY BookIs
<1>2. \A q \in DOMAIN Rows : file.earned[q] \in Nat
  BY <1>1
<1>3. w \in {0} \cup KeptWds /\ w \in Nat
  BY <1>2, HeadIs
<1>4. ASSUME NEW n \in Funds(got) PROVE got[n].src \in Nat \ {0} /\ got[n].src <= w
  <2>1. PICK q \in DOMAIN Rows : q < pos /\ got[n].src = Head1(file.earned[q])
    BY DEF Handing
  <2>2. file.earned[q] \in Nat /\ file.earned[pos] \in Nat /\ file.earned[q] <= file.earned[pos]
    BY <1>1, <1>2, <2>1
  <2>3. Head1(file.earned[q]) <= Head1(file.earned[pos])
    <3> DEFINE a == file.earned[q]  b == file.earned[pos]
    <3>1. a \in Nat /\ b \in Nat /\ a <= b
      BY <2>2
    <3> HIDE DEF a, b
    <3>2. Head1(a) <= Head1(b)
      BY <3>1, HeadIs
    <3> QED
      BY <3>2 DEF a, b
  <2>4. got[n].src \in KeptWds
    BY DEF Handing
  <2> QED
    BY <1>1, <2>1, <2>3, <2>4
<1>5. ASSUME ~DueNow(w), w = 0 PROVE Funds(got) = {}
  <2> SUFFICES ASSUME NEW n \in Funds(got) PROVE FALSE
    OBVIOUS
  <2>1. got[n].src \in Nat \ {0} /\ got[n].src <= 0
    BY <1>4, <1>5
  <2> QED
    BY <2>1
<1>6. ASSUME ~DueNow(w), w # 0
      PROVE  \E m \in Funds(got) : /\ \A k \in Funds(got) : k <= m
                                   /\ got[m].src = w
  <2> DEFINE S == Funds(got)
  <2>1. Sheet[w].day \in emitted /\ w \in KeptWds
    BY <1>3, <1>6 DEF DueNow
  <2>2. PICK n \in S : Sheet[got[n].src].day = Sheet[w].day
    BY <2>1 DEF Handing
  <2>3. got[n].src = w
    BY <2>1, <2>2 DEF Handing, DistinctDays
  <2>4. Len(got) \in Nat /\ S \in SUBSET (1..Len(got)) /\ S # {}
    BY <2>2, LenProperties DEF Funds
  <2> HIDE DEF S
  <2>5. Max(S) \in S /\ \A k \in S : k <= Max(S)
    BY <2>4, MaxIsThere
  <2>6. got[n].src <= got[Max(S)].src
    BY <2>2, <2>5 DEF Handing, S
  <2>7. got[Max(S)].src \in Nat /\ got[Max(S)].src <= w
    BY <1>4, <2>5 DEF S
  <2>8. got[Max(S)].src = w
    BY <1>3, <2>3, <2>6, <2>7
  <2> QED
    BY <2>5, <2>8 DEF S
<1> QED
  BY <1>3, <1>4, <1>5, <1>6

\* A row that is due its withdrawal is handed after it.
LEMMA HandsWithFund ==
  ASSUME file \in Workbooks, Handing, RowsUnder, got \in Seq(Range(got)), DistinctDays,
         pos \in DOMAIN Rows, file' = file, pos' = pos + 1,
         NEW item, item.type # "fund", item.src = pos,
         NEW w, w = Head1(file.earned[pos]), DueNow(w),
         emitted' = emitted \cup {Sheet[w].day},
         Hand(<<WdItem(w), item>>, "rows")
  PROVE  /\ got' \in Seq(Range(got')) /\ pc' \in {"rows", "failed"}
         /\ RowsUnder'
         /\ pc' = "rows" => Handing'
<1> DEFINE h == got'
           N == Len(got)
           f == WdItem(w)
           items == <<f, item>>
<1>1. items \in Seq(Range(items)) /\ Len(items) = 2 /\ items[1] = f /\ items[2] = item
  BY DEF Range
<1>2. Hand(items, "rows")
  OBVIOUS
<1> HIDE DEF items
<1>3. PICK k \in 0..Len(items) : /\ Len(got') = Len(got) + k
                                 /\ \A i \in 1..k : got'[Len(got) + i] = items[i]
                                 /\ \/ pc' = "rows" /\ k = Len(items)
                                    \/ pc' = "failed" /\ k < Len(items)
  BY <1>1, <1>2, HandsTaken
<1>4. h \in Seq(Range(h)) /\ \A i \in DOMAIN got : h[i] = got[i]
  BY <1>1, <1>2, HandsTaken
<1>5. /\ N \in Nat /\ DOMAIN got = 1..N /\ Len(h) = N + k /\ DOMAIN h = 1..(N + k)
      /\ k \in 0..2 /\ (pc' = "rows" => k = 2)
      /\ k >= 1 => h[N + 1] = f
      /\ k = 2 => h[N + 2] = item
  BY <1>1, <1>3, <1>4, LenProperties
<1>6. f.type = "fund" /\ f.src = w
  BY FundIs
<1>7. /\ w \in KeptWds /\ w \in Nat
      /\ \A n \in Funds(got) : got[n].src \in Nat /\ got[n].src <= w
  BY FundsBefore DEF DueNow
<1> HIDE DEF f, h, N
<1>8. \A n : n \in Funds(h) <=> n \in Funds(got) \/ (k >= 1 /\ n = N + 1)
  <2> SUFFICES ASSUME NEW n
               PROVE  n \in Funds(h) <=> n \in Funds(got) \/ (k >= 1 /\ n = N + 1)
    OBVIOUS
  <2>1. CASE n \in DOMAIN got
    <3>1. n \in DOMAIN h /\ h[n] = got[n] /\ n # N + 1
      BY <1>4, <1>5, <2>1
    <3> QED
      BY <2>1, <3>1 DEF Funds
  <2>2. CASE n \notin DOMAIN got
    <3>1. n \in DOMAIN h => (n = N + 1 /\ k >= 1) \/ (n = N + 2 /\ k = 2)
      BY <1>5, <2>2
    <3>2. k >= 1 => N + 1 \in DOMAIN h
      BY <1>5
    <3>3. k = 2 => N + 1 # N + 2
      BY <1>5
    <3> QED
      BY <1>5, <1>6, <2>2, <3>1, <3>2, <3>3 DEF Funds
  <2> QED
    BY <2>1, <2>2
<1>9. \A n \in Funds(got) : n \in 1..N /\ h[n] = got[n]
  BY <1>4, <1>5 DEF Funds
<1>10. ASSUME NEW n \in DOMAIN h, n > N, h[n].type # "fund"
       PROVE  Head1(file.earned[h[n].src]) = Under(h, n)
  <2>1. k = 2 /\ n = N + 2
    BY <1>5, <1>6, <1>10
  <2>2. h[n].src = pos
    BY <1>5, <2>1
  <2>3. N + 1 \in Funds(h) /\ N + 1 < n /\ \A j \in Funds(h) : j <= N + 1
    BY <1>5, <1>8, <1>9, <2>1
  <2>4. Under(h, n) = h[N + 1].src
    BY <1>4, <2>3, UnderLast
  <2> QED
    BY <1>5, <1>6, <2>1, <2>2, <2>4
<1>11. RowsUnder'
  BY <1>4, <1>10, RowsUnderKept DEF h, N
<1>12. ASSUME pc' = "rows" PROVE Handing'
  <2>1. k = 2 /\ Funds(h) = Funds(got) \cup {N + 1} /\ h[N + 1].src = w
    BY <1>5, <1>6, <1>8, <1>12
  <2>2. /\ KeptWds' = KeptWds /\ Sheet' = Sheet /\ Rows' = Rows
        /\ \A n : Head1(n)' = Head1(n)
    BY SameBook
  <2>3. DOMAIN Rows \subseteq Int
    BY BookIs
  <2>4. ASSUME NEW n \in Funds(h)
        PROVE  /\ h[n].src \in KeptWds /\ Sheet[h[n].src].day \in emitted'
               /\ \E q \in DOMAIN Rows : q < pos + 1 /\ h[n].src = Head1(file.earned[q])
    <3>1. CASE n \in Funds(got)
      <4>1. h[n] = got[n] /\ got[n].src \in KeptWds /\ Sheet[got[n].src].day \in emitted
        BY <1>9, <3>1 DEF Handing
      <4>2. PICK q \in DOMAIN Rows : q < pos /\ got[n].src = Head1(file.earned[q])
        BY <3>1 DEF Handing
      <4>3. q < pos + 1
        BY <2>3, <4>2
      <4> QED
        BY <4>1, <4>2, <4>3
    <3>2. CASE n = N + 1
      <4>1. pos \in DOMAIN Rows /\ pos < pos + 1 /\ h[n].src = Head1(file.earned[pos])
        BY <2>1, <2>3, <3>2
      <4> QED
        BY <1>7, <2>1, <3>2, <4>1
    <3> QED
      BY <2>1, <3>1, <3>2
  <2>5. ASSUME NEW m \in Funds(h), NEW n \in Funds(h), m <= n PROVE h[m].src <= h[n].src
    <3>1. CASE n \in Funds(got)
      <4>1. m \in Funds(got)
        BY <1>5, <1>9, <2>1, <2>5, <3>1
      <4> QED
        BY <1>9, <2>5, <3>1, <4>1 DEF Handing
    <3>2. CASE n = N + 1
      <4>1. h[m].src \in Nat /\ h[m].src <= w
        BY <1>7, <1>9, <2>1
      <4> QED
        BY <2>1, <3>2, <4>1
    <3> QED
      BY <2>1, <3>1, <3>2
  <2>6. ASSUME NEW d \in emitted' PROVE \E n \in Funds(h) : Sheet[h[n].src].day = d
    <3>1. CASE d \in emitted
      <4>1. PICK n \in Funds(got) : Sheet[got[n].src].day = d
        BY <3>1 DEF Handing
      <4> QED
        BY <1>9, <2>1, <4>1
    <3>2. CASE d = Sheet[w].day
      BY <2>1, <3>2
    <3> QED
      BY <3>1, <3>2
  <2> QED
    BY <2>2, <2>4, <2>5, <2>6 DEF Handing, h
<1> QED
  BY <1>3, <1>4, <1>11, <1>12 DEF h

\* Any other row is handed alone.
LEMMA HandsAlone ==
  ASSUME file \in Workbooks, Handing, RowsUnder, got \in Seq(Range(got)), DistinctDays,
         pos \in DOMAIN Rows, file' = file, pos' = pos + 1,
         NEW item, item.type # "fund", item.src = pos,
         NEW w, w = Head1(file.earned[pos]), ~DueNow(w),
         emitted' = emitted,
         Hand(<<item>>, "rows")
  PROVE  /\ got' \in Seq(Range(got')) /\ pc' \in {"rows", "failed"}
         /\ RowsUnder'
         /\ pc' = "rows" => Handing'
<1> DEFINE h == got'
           N == Len(got)
           items == <<item>>
<1>1. items \in Seq(Range(items)) /\ Len(items) = 1 /\ items[1] = item
  BY DEF Range
<1>2. Hand(items, "rows")
  OBVIOUS
<1> HIDE DEF items
<1>3. PICK k \in 0..Len(items) : /\ Len(got') = Len(got) + k
                                 /\ \A i \in 1..k : got'[Len(got) + i] = items[i]
                                 /\ \/ pc' = "rows" /\ k = Len(items)
                                    \/ pc' = "failed" /\ k < Len(items)
  BY <1>1, <1>2, HandsTaken
<1>4. h \in Seq(Range(h)) /\ \A i \in DOMAIN got : h[i] = got[i]
  BY <1>1, <1>2, HandsTaken
<1>5. /\ N \in Nat /\ DOMAIN got = 1..N /\ DOMAIN h = 1..(N + k)
      /\ k \in 0..1
      /\ k = 1 => h[N + 1] = item
  BY <1>1, <1>3, <1>4, LenProperties
<1>6. /\ w \in {0} \cup KeptWds /\ w \in Nat
      /\ IF w = 0 THEN Funds(got) = {}
         ELSE \E m \in Funds(got) : /\ \A j \in Funds(got) : j <= m
                                    /\ got[m].src = w
  BY FundsBefore
<1> HIDE DEF h, N
<1>7. Funds(h) = Funds(got) /\ \A n \in Funds(got) : n \in 1..N /\ h[n] = got[n]
  <2> SUFFICES ASSUME NEW n PROVE /\ n \in Funds(h) <=> n \in Funds(got)
                                  /\ n \in Funds(got) => n \in 1..N /\ h[n] = got[n]
    OBVIOUS
  <2>1. CASE n \in DOMAIN got
    <3>1. n \in DOMAIN h /\ h[n] = got[n]
      BY <1>4, <1>5, <2>1
    <3> QED
      BY <1>5, <2>1, <3>1 DEF Funds
  <2>2. CASE n \notin DOMAIN got
    <3>1. n \in DOMAIN h => n = N + 1 /\ k = 1
      BY <1>5, <2>2
    <3> QED
      BY <1>5, <2>2, <3>1 DEF Funds
  <2> QED
    BY <2>1, <2>2
<1>8. ASSUME NEW n \in DOMAIN h, n > N, h[n].type # "fund"
      PROVE  Head1(file.earned[h[n].src]) = Under(h, n)
  <2>1. n = N + 1 /\ h[n].src = pos
    BY <1>5, <1>8
  <2>2. \A m \in Funds(h) : m < n
    BY <1>5, <1>7, <2>1
  <2>3. CASE w = 0
    <3>1. Under(h, n) = 0
      BY <1>4, <1>6, <1>7, <2>3, UnderNone
    <3> QED
      BY <2>1, <2>3, <3>1
  <2>4. CASE w # 0
    <3>1. PICK m \in Funds(h) : (\A j \in Funds(h) : j <= m) /\ got[m].src = w
      BY <1>6, <1>7, <2>4
    <3>2. Under(h, n) = h[m].src
      BY <1>4, <2>2, <3>1, UnderLast
    <3> QED
      BY <1>7, <2>1, <3>1, <3>2
  <2> QED
    BY <2>3, <2>4
<1>9. RowsUnder'
  BY <1>4, <1>8, RowsUnderKept DEF h, N
<1>10. Handing'
  <2>1. /\ KeptWds' = KeptWds /\ Sheet' = Sheet /\ Rows' = Rows
        /\ \A n : Head1(n)' = Head1(n)
    BY SameBook
  <2>2. \A q \in DOMAIN Rows : q < pos => q < pos + 1
    BY BookIs
  <2>3. ASSUME NEW n \in Funds(h)
        PROVE  /\ h[n].src \in KeptWds /\ Sheet[h[n].src].day \in emitted
               /\ \E q \in DOMAIN Rows : q < pos + 1 /\ h[n].src = Head1(file.earned[q])
    BY <1>7, <2>2 DEF Handing
  <2>4. \A m, n \in Funds(h) : m <= n => h[m].src <= h[n].src
    BY <1>7 DEF Handing
  <2>5. \A d \in emitted : \E n \in Funds(h) : Sheet[h[n].src].day = d
    BY <1>7 DEF Handing
  <2> QED
    BY <2>1, <2>3, <2>4, <2>5 DEF Handing, h
<1> QED
  BY <1>1, <1>3, <1>4, <1>9, <1>10 DEF h

\* Withdrawals at the end leave the rows under theirs.
LEMMA HandsFunds ==
  ASSUME got \in Seq(Range(got)), RowsUnder, file' = file,
         NEW items, items \in Seq(Range(items)), \A i \in DOMAIN items : items[i].type = "fund",
         NEW label, Hand(items, label)
  PROVE  got' \in Seq(Range(got')) /\ pc' \in {label, "failed"} /\ RowsUnder'
<1>1. /\ got' \in Seq(Range(got')) /\ \A i \in DOMAIN got : got'[i] = got[i]
      /\ pc' \in {label, "failed"}
  BY HandsTaken
<1>2. PICK k \in 0..Len(items) : /\ Len(got') = Len(got) + k
                                 /\ \A i \in 1..k : got'[Len(got) + i] = items[i]
  BY HandsTaken
<1>3. ASSUME NEW n \in DOMAIN got', n > Len(got) PROVE got'[n].type = "fund"
  <2> DEFINE i == n - Len(got)
  <2>1. /\ Len(got) \in Nat /\ Len(items) \in Nat /\ DOMAIN items = 1..Len(items)
        /\ DOMAIN got' = 1..(Len(got) + k)
    BY <1>1, <1>2, LenProperties
  <2>2. i \in 1..k /\ i \in DOMAIN items /\ n = Len(got) + i
    BY <1>3, <2>1
  <2> HIDE DEF i
  <2>3. got'[n] = items[i]
    BY <1>2, <2>2
  <2> QED
    BY <2>2, <2>3
<1>4. RowsUnder'
  BY <1>1, <1>3, RowsUnderKept
<1> QED
  BY <1>1, <1>4

-----------------------------------------------------------------------------
(* The import: its inductive invariant.                                      *)

\* The cases in which the reader promises the rows to be in their place.
Promised == file.market = "tiktok" /\ DistinctDays /\ SplitsCountDown

Places ==
    /\ got \in Seq(Range(got))
    /\ pc = "open" => pos = 1 /\ top = 1 /\ got = <<>> /\ emitted = {}
    /\ pc = "rows" => Cursor /\ Counted /\ Handing
    /\ RowsUnder

Statements == Workbooks \cup Reports \cup Csvs \cup {[market |-> "other"]}
Stopped == {"refused", "failed", "panic", "done"}

ReaderInv ==
    by = "import" => /\ file \in Statements
                     /\ pc \in {"open", "rows"} \cup Stopped
                     /\ Promised => Places

\* A TikTok statement is a workbook.
LEMMA BookByMarket ==
  ASSUME file \in Statements, file.market = "tiktok"
  PROVE  file \in Workbooks
  BY StatementsAssumption DEF Statements, Listed

\* What the statement promises does not change while it is read.
LEMMA PromisedKept ==
  ASSUME file' = file
  PROVE  Promised' <=> Promised
  BY SameBook DEF Promised

\* A step that hands nothing and ends the reading.
LEMMA Stops ==
  ASSUME ReaderInv, by = "import", by' = by, file' = file, got' = got, pc' \in Stopped
  PROVE  ReaderInv'
<1>1. file \in Statements
  BY DEF ReaderInv
<1>2. Promised' => Places'
  <2> SUFFICES ASSUME Promised' PROVE Places'
    OBVIOUS
  <2>1. Places
    BY PromisedKept DEF ReaderInv
  <2>2. RowsUnder'
    BY <2>1, SameBook DEF Places, RowsUnder
  <2> QED
    BY <2>1, <2>2 DEF Places, Stopped
<1> QED
  BY <1>1, <1>2 DEF ReaderInv, Statements, Stopped

\* A step of a statement of another marketplace.
LEMMA OtherMarket ==
  ASSUME ReaderInv, by = "import", by' = by, file' = file, file.market # "tiktok",
         pc' \in {"open", "rows"} \cup Stopped
  PROVE  ReaderInv'
  BY DEF ReaderInv, Promised, Statements, Stopped

\* The invariant holds when a reader begins.
LEMMA ReaderStarts == StreamInit => ReaderInv
<1> SUFFICES ASSUME StreamInit, by = "import" PROVE ReaderInv
  BY DEF ReaderInv
<1>1. Init
  BY DEF StreamInit
<1>2. file \in Statements /\ pc = "open" /\ pos = 1 /\ top = 1 /\ emitted = {} /\ got = <<>>
  BY <1>1 DEF Init, Statements
<1>3. Places
  <2>1. got \in Seq(Range(got)) /\ DOMAIN got = {}
    BY <1>2
  <2> QED
    BY <1>2, <2>1 DEF Places, RowsUnder
<1> QED
  BY <1>2, <1>3 DEF ReaderInv

\* Reading the sheet of withdrawals keeps it.
LEMMA MapSheetKeeps == ReaderInv /\ by = "import" /\ MapSheet => ReaderInv'
<1> SUFFICES ASSUME ReaderInv, by = "import", MapSheet PROVE ReaderInv'
  OBVIOUS
<1>1. file \in Statements /\ file.market = "tiktok" /\ pc = "open" /\ file' = file /\ by' = by
  BY DEF ReaderInv, MapSheet, Refuse
<1>2. CASE Refuse
  BY <1>1, <1>2, Stops DEF Refuse, Stopped
<1>3. CASE ~Refuse
  <2>1. /\ pc' = "rows" /\ left' = [n \in DOMAIN Sheet |-> Sheet[n].amount]
        /\ pos' = pos /\ top' = top /\ emitted' = emitted /\ got' = got
    BY <1>3 DEF MapSheet
  <2>2. ASSUME Promised' PROVE Places'
    <3>1. Promised /\ file \in Workbooks
      BY <1>1, <2>2, PromisedKept, BookByMarket
    <3>2. Places
      BY <1>1, <3>1 DEF ReaderInv
    <3>3. pos' = 1 /\ top' = 1 /\ got' = <<>> /\ emitted' = {}
      BY <1>1, <2>1, <3>2 DEF Places
    <3>4. (Cursor /\ Counted)'
      BY <1>1, <2>1, <3>1, <3>3, BookOpens DEF Promised
    <3>5. Handing' /\ RowsUnder' /\ got' \in Seq(Range(got'))
      <4>1. got' \in Seq(Range(got')) /\ DOMAIN got' = {} /\ Funds(got') = {}
        BY <3>3 DEF Funds
      <4> QED
        BY <3>3, <4>1 DEF Handing, RowsUnder
    <3> QED
      BY <2>1, <3>4, <3>5 DEF Places
  <2> QED
    BY <1>1, <2>1, <2>2 DEF ReaderInv, Statements
<1> QED
  BY <1>2, <1>3

\* So does a row of orders that is left out.
LEMMA TiktokSkipKeeps == ReaderInv /\ by = "import" /\ TiktokSkip => ReaderInv'
<1> SUFFICES ASSUME ReaderInv, by = "import", TiktokSkip PROVE ReaderInv'
  OBVIOUS
<1>1. /\ pc = "rows" /\ file.market = "tiktok" /\ pos <= Len(Rows) /\ ZeroOrder
      /\ file' = file /\ by' = by /\ pc' = pc /\ pos' = pos + 1 /\ top' = top /\ left' = left
      /\ emitted' = emitted /\ got' = got
  BY DEF TiktokSkip, Reading, Skip
<1>2. file \in Statements /\ file \in Workbooks
  BY <1>1, BookByMarket DEF ReaderInv
<1>3. ASSUME Promised' PROVE Places'
  <2>1. Promised /\ Places /\ Cursor /\ Counted /\ Handing
    BY <1>1, <1>3, PromisedKept DEF ReaderInv, Places
  <2>2. pos \in DOMAIN Rows /\ DOMAIN Rows \subseteq Int
    BY <1>1, <1>2, <2>1, BookIs DEF Cursor
  <2>3. pos \notin Handed(Top)
    BY <1>1, <1>2, <2>2, HandedIs DEF ZeroOrder
  <2>4. (Cursor /\ Counted)'
    BY <1>1, <2>1, <2>2, <2>3, StaysOnTop DEF Cursor
  <2>5. Handing'
    <3>1. /\ KeptWds' = KeptWds /\ Sheet' = Sheet /\ Rows' = Rows
          /\ \A n : Head1(n)' = Head1(n)
      BY <1>1, SameBook
    <3>2. \A q \in DOMAIN Rows : q < pos => q < pos + 1
      BY <2>2
    <3> QED
      BY <1>1, <2>1, <3>1, <3>2 DEF Handing
  <2>6. RowsUnder'
    BY <1>1, <2>1, SameBook DEF Places, RowsUnder
  <2> QED
    BY <1>1, <2>1, <2>4, <2>5, <2>6 DEF Places
<1> QED
  BY <1>1, <1>2, <1>3 DEF ReaderInv, Statements

\* So does a row of orders, with the withdrawals it closes.
LEMMA TiktokRowKeeps == ReaderInv /\ by = "import" /\ TiktokRow => ReaderInv'
<1> SUFFICES ASSUME ReaderInv, by = "import", TiktokRow PROVE ReaderInv'
  OBVIOUS
<1> DEFINE r == Rows[pos]
           w == Head1(Stack(r))
           item == RowItem(pos, TiktokType(r), r.order)
<1>1. /\ Reading("tiktok") /\ ~ZeroOrder /\ Stack(r) # 0 /\ Drain(r)
      /\ emitted' = IF DueNow(w) THEN emitted \cup {Sheet[w].day} ELSE emitted
      /\ Hand(IF DueNow(w) THEN <<WdItem(w), item>> ELSE <<item>>, "rows")
      /\ pos' = pos + 1 /\ file' = file /\ by' = by
  BY DEF TiktokRow
<1>2. item.type # "fund" /\ item.src = pos
  BY DEF RowItem, TiktokType
<1>3. pc = "rows" /\ file.market = "tiktok" /\ file \in Statements /\ file \in Workbooks
  BY <1>1, BookByMarket DEF Reading, ReaderInv
<1>4. pc' \in {"rows", "failed"}
  BY <1>1 DEF Hand
<1> HIDE DEF item
<1>5. ASSUME Promised' PROVE Places'
  <2>1. Promised /\ Places /\ Cursor /\ Counted /\ Handing
    BY <1>1, <1>3, <1>5, PromisedKept DEF ReaderInv, Places
  <2>2. pos \in DOMAIN Rows
    BY <1>1, <1>3, <2>1, BookIs DEF Cursor, Reading
  <2>3. w = Head1(file.earned[pos])
    BY <1>1, <2>1, StackIsOwn
  <2>4. (Cursor /\ Counted)'
    BY <1>1, <2>1, CountsOn DEF Promised
  <2> HIDE DEF w
  <2>5. got' \in Seq(Range(got')) /\ RowsUnder' /\ (pc' = "rows" => Handing')
    <3>1. CASE DueNow(w)
      <4>1. emitted' = emitted \cup {Sheet[w].day} /\ Hand(<<WdItem(w), item>>, "rows")
        BY <1>1, <3>1
      <4> QED
        BY <1>1, <1>2, <1>3, <2>1, <2>2, <2>3, <3>1, <4>1, HandsWithFund DEF Places, Promised
    <3>2. CASE ~DueNow(w)
      <4>1. emitted' = emitted /\ Hand(<<item>>, "rows")
        BY <1>1, <3>2
      <4> QED
        BY <1>1, <1>2, <1>3, <2>1, <2>2, <2>3, <3>2, <4>1, HandsAlone DEF Places, Promised
    <3> QED
      BY <3>1, <3>2
  <2> QED
    BY <1>4, <2>4, <2>5 DEF Places
<1> QED
  BY <1>1, <1>3, <1>4, <1>5 DEF ReaderInv, Statements, Stopped

\* So does handing the withdrawals that are left.
LEMMA TiktokRestKeeps == ReaderInv /\ by = "import" /\ TiktokRest => ReaderInv'
<1> SUFFICES ASSUME ReaderInv, by = "import", TiktokRest PROVE ReaderInv'
  OBVIOUS
<1> DEFINE rest == {w \in KeptWds : Sheet[w].day \notin emitted}
           items == [n \in 1..Cardinality(rest) |-> WdItem(Nth(rest, n))]
<1>1. /\ pc = "rows" /\ file.market = "tiktok" /\ Hand(items, "done")
      /\ file' = file /\ by' = by
  BY DEF TiktokRest
<1>2. file \in Statements /\ file \in Workbooks
  BY <1>1, BookByMarket DEF ReaderInv
<1>3. items \in Seq(Range(items)) /\ \A i \in DOMAIN items : items[i].type = "fund"
  <2>1. KeptWds \in SUBSET (1..Len(Sheet)) /\ Len(Sheet) \in Nat
    BY <1>2, BookIs
  <2>2. IsFiniteSet(1..Len(Sheet))
    BY <2>1, FS_Interval
  <2>3. rest \in SUBSET (1..Len(Sheet))
    BY <2>1
  <2> HIDE DEF rest
  <2>4. IsFiniteSet(rest)
    BY <2>2, <2>3, FS_Subset
  <2>5. Cardinality(rest) \in Nat
    BY <2>4, FS_CardinalityType
  <2>6. \A i \in DOMAIN items : items[i].type = "fund"
    BY FundIs
  <2>7. items \in [1..Cardinality(rest) -> Range(items)]
    BY DEF Range
  <2> HIDE DEF items
  <2> QED
    BY <2>5, <2>6, <2>7
<1> HIDE DEF rest, items
<1>4. pc' \in {"done", "failed"}
  BY <1>1 DEF Hand
<1>5. ASSUME Promised' PROVE Places'
  <2>1. Places
    BY <1>1, <1>5, PromisedKept DEF ReaderInv
  <2>2. got' \in Seq(Range(got')) /\ RowsUnder'
    BY <1>1, <1>3, <2>1, HandsFunds DEF Places
  <2> QED
    BY <1>4, <2>2 DEF Places
<1> QED
  BY <1>1, <1>2, <1>4, <1>5 DEF ReaderInv, Statements, Stopped

\* So does every step.
LEMMA ReaderSteps == ReaderInv /\ [StreamNext]_svars => ReaderInv'
<1> SUFFICES ASSUME ReaderInv, [StreamNext]_svars PROVE ReaderInv'
  OBVIOUS
<1>1. CASE UNCHANGED svars
  <2>1. by' = by /\ file' = file /\ pc' = pc /\ pos' = pos /\ top' = top /\ left' = left
        /\ emitted' = emitted /\ got' = got
    BY <1>1 DEF svars, vars
  <2>2. /\ Earnings' = Earnings /\ KeptWds' = KeptWds /\ Sheet' = Sheet /\ Rows' = Rows
        /\ \A g : Tracked(g)' <=> Tracked(g)
        /\ \A g : Handed(g)' = Handed(g)
        /\ \A S : Brought(S)' = Brought(S)
        /\ \A n : Head1(n)' = Head1(n)
        /\ (Promised' <=> Promised)
    BY <2>1, SameBook, PromisedKept
  <2>3. Top' = Top
    BY <2>1, <2>2 DEF Top, Data
  <2>4. Cursor => Cursor'
    BY <2>1, <2>2 DEF Cursor
  <2>5. Counted => Counted'
    BY <2>1, <2>2, <2>3 DEF Counted
  <2>6. Handing => Handing'
    BY <2>1, <2>2 DEF Handing
  <2>7. RowsUnder => RowsUnder'
    BY <2>1, <2>2 DEF RowsUnder
  <2>8. Places => Places'
    BY <2>1, <2>4, <2>5, <2>6, <2>7 DEF Places
  <2> QED
    BY <2>1, <2>2, <2>8 DEF ReaderInv, Statements
<1>2. CASE by # "import"
  <2>1. by' = by
    <3>1. CASE StreamNext
      BY <1>2, <3>1 DEF StreamNext, QueueTask, Queued, CheckShop, StreamRow, Close, AskAgain, Import,
        OldReader, OrderRow, WithdrawalRow, SheetEnd, OpenReport, ShopeeInProcess,
        ShopeeSkip, ShopeeRow, CloseReport, OpenCsv, MengantarRow, Skip, Refuse
    <3> QED
      BY <3>1, <1>1 DEF svars, vars
  <2> QED
    BY <1>2, <2>1 DEF ReaderInv
<1>3. CASE by = "import" /\ StreamNext
  <2>1. Next
    <3>1. pc \in {"open", "rows"} \cup Stopped
      BY <1>3 DEF ReaderInv
    <3> QED
      BY <1>3, <3>1 DEF StreamNext, QueueTask, CheckShop, StreamRow, Close, AskAgain, Import, Stopped
  <2>2. CASE Unsupported \/ TiktokStray \/ TiktokPanic \/ ShopeeInProcess
    BY <1>3, <2>2, Stops DEF Unsupported, TiktokStray, TiktokPanic, ShopeeInProcess, Refuse, Stopped
  <2>3. CASE MapSheet
    BY <1>3, <2>3, MapSheetKeeps
  <2>4. CASE TiktokSkip
    BY <1>3, <2>4, TiktokSkipKeeps
  <2>5. CASE TiktokRow
    BY <1>3, <2>5, TiktokRowKeeps
  <2>6. CASE TiktokRest
    BY <1>3, <2>6, TiktokRestKeeps
  <2>7. CASE OpenReport \/ CloseReport
    BY <1>3, <2>7, OtherMarket DEF OpenReport, CloseReport, Stopped
  <2>8. CASE OpenCsv
    BY <1>3, <2>8, OtherMarket DEF OpenCsv, Stopped
  <2>9. CASE ShopeeSkip
    BY <1>3, <2>9, OtherMarket DEF ShopeeSkip, Reading, Skip, Stopped
  <2>10. CASE ShopeeRow
    BY <1>3, <2>10, OtherMarket DEF ShopeeRow, Reading, Hand, Stopped
  <2>11. CASE MengantarRow
    BY <1>3, <2>11, OtherMarket DEF MengantarRow, Reading, Hand, Stopped
  <2> QED
    BY <2>1, <2>2, <2>3, <2>4, <2>5, <2>6, <2>7, <2>8, <2>9, <2>10, <2>11 DEF Next
<1> QED
  BY <1>1, <1>2, <1>3

\* The inductive invariant of the import (Iterate of the v1 TikTok reader).
THEOREM ReaderInvariant == StreamSpec => []ReaderInv
<1>1. StreamInit => ReaderInv
  BY ReaderStarts
<1>2. ReaderInv /\ [StreamNext]_svars => ReaderInv'
  BY ReaderSteps
<1> QED
  BY <1>1, <1>2, PTL DEF StreamSpec

\* Whatever else is wrong with a TikTok workbook, no order of it is handed to
\* the importer under a withdrawal that did not pay it out.
THEOREM RowsGoUnder == StreamSpec => []RowsUnderTheirWithdrawal
<1>1. ReaderInv => RowsUnderTheirWithdrawal
  BY DEF ReaderInv, Promised, Places, RowsUnder, Under, RowsUnderTheirWithdrawal
<1> QED
  BY <1>1, ReaderInvariant, PTL

-----------------------------------------------------------------------------
(* What is handed of an orderly statement, and in which order.              *)

\* What has been handed, each where it belongs.
Keys(g) == {Key(g[n]) : n \in DOMAIN g}
Ordered(g) == \A n \in DOMAIN g :
    /\ Key(g[n]) \in Expected
    /\ {Key(g[k]) : k \in 1..(n - 1)} = {key \in Expected : Earlier(key, Key(g[n]))}

\* The file stays, and with it its order.
LEMMA SameOrder ==
  ASSUME file' = file
  PROVE  /\ Expected' = Expected /\ Real' = Real
         /\ \A a, b : Earlier(a, b)' <=> Earlier(a, b)
         /\ (Orderly' <=> Orderly)
<1>1. Rows' = Rows /\ Sheet' = Sheet /\ Real' = Real
  BY SameBook DEF Real
<1>2. Expected' = Expected
  BY <1>1, SameBook DEF Expected
<1>3. \A a, b : Earlier(a, b)' <=> Earlier(a, b)
  BY DEF Earlier, SheetRow
<1>4. Orderly' <=> Orderly
  BY <1>1, SameBook DEF Orderly
<1> QED
  BY <1>1, <1>2, <1>3, <1>4

\* Items that come next in the order of the statement.
InTurn(items) == \A n \in DOMAIN items :
    /\ Key(items[n]) \in Expected
    /\ {key \in Expected : Earlier(key, Key(items[n]))}
        = Keys(got) \cup {Key(items[k]) : k \in 1..(n - 1)}

\* Items that are in turn keep the order of what is handed.
LEMMA HandsInTurn ==
  ASSUME got \in Seq(Range(got)), Ordered(got), file' = file,
         NEW items, items \in Seq(Range(items)), InTurn(items), NEW label, Hand(items, label)
  PROVE  /\ got' \in Seq(Range(got')) /\ Ordered(got)'
         /\ \/ pc' = label /\ Keys(got)' = Keys(got) \cup Keys(items)
            \/ pc' = "failed"
<1>1. got' \in Seq(Range(got')) /\ \A i \in DOMAIN got : got'[i] = got[i]
  BY HandsTaken
<1>2. PICK taken \in 0..Len(items) : /\ Len(got') = Len(got) + taken
                                     /\ \A i \in 1..taken : got'[Len(got) + i] = items[i]
                                     /\ \/ pc' = label /\ taken = Len(items)
                                        \/ pc' = "failed" /\ taken < Len(items)
  BY HandsTaken
<1> DEFINE h == got'
           N == Len(got)
<1>3. /\ N \in Nat /\ DOMAIN got = 1..N /\ DOMAIN items = 1..Len(items) /\ Len(items) \in Nat
      /\ taken \in Nat /\ taken <= Len(items) /\ DOMAIN h = 1..(N + taken)
      /\ \A i \in 1..N : h[i] = got[i]
      /\ \A i \in 1..taken : h[N + i] = items[i]
  BY <1>1, <1>2, LenProperties
<1> HIDE DEF h, N
<1>4. ASSUME NEW n \in DOMAIN h
      PROVE  /\ Key(h[n]) \in Expected
             /\ {Key(h[k]) : k \in 1..(n - 1)} = {key \in Expected : Earlier(key, Key(h[n]))}
  <2>1. CASE n \in 1..N
    <3>1. h[n] = got[n] /\ \A k \in 1..(n - 1) : h[k] = got[k]
      BY <1>3, <2>1
    <3>2. {Key(h[k]) : k \in 1..(n - 1)} = {Key(got[k]) : k \in 1..(n - 1)}
      BY <3>1
    <3> QED
      BY <1>3, <2>1, <3>1, <3>2 DEF Ordered
  <2>2. CASE n \notin 1..N
    <3> DEFINE i == n - N
    <3>1. i \in 1..taken /\ n = N + i
      BY <1>3, <2>2
    <3> HIDE DEF i
    <3>2. h[n] = items[i] /\ i \in DOMAIN items
      BY <1>3, <3>1
    <3>3. {Key(h[k]) : k \in 1..(n - 1)} = Keys(got) \cup {Key(items[k]) : k \in 1..(i - 1)}
      <4>1. ASSUME NEW k \in 1..(n - 1)
            PROVE  Key(h[k]) \in Keys(got) \cup {Key(items[j]) : j \in 1..(i - 1)}
        <5>1. CASE k \in 1..N
          BY <1>3, <5>1 DEF Keys
        <5>2. CASE k \notin 1..N
          <6> DEFINE j == k - N
          <6>1. j \in 1..(i - 1) /\ k = N + j /\ j \in 1..taken
            BY <1>3, <3>1, <5>2
          <6> HIDE DEF j
          <6> QED
            BY <1>3, <6>1
        <5> QED
          BY <5>1, <5>2
      <4>2. ASSUME NEW key \in Keys(got) PROVE key \in {Key(h[k]) : k \in 1..(n - 1)}
        <5>1. PICK k \in 1..N : key = Key(got[k])
          BY <1>3 DEF Keys
        <5>2. k \in 1..(n - 1) /\ h[k] = got[k]
          BY <1>3, <3>1
        <5> QED
          BY <5>1, <5>2
      <4>3. ASSUME NEW j \in 1..(i - 1) PROVE Key(items[j]) \in {Key(h[k]) : k \in 1..(n - 1)}
        <5>1. N + j \in 1..(n - 1) /\ h[N + j] = items[j]
          BY <1>3, <3>1
        <5> QED
          BY <5>1
      <4> QED
        BY <4>1, <4>2, <4>3
    <3> QED
      BY <3>1, <3>2, <3>3 DEF InTurn
  <2> QED
    BY <2>1, <2>2
<1>5. Ordered(got)'
  BY <1>4, SameOrder DEF Ordered, h
<1>6. ASSUME taken = Len(items) PROVE Keys(h) = Keys(got) \cup Keys(items)
  <2>1. ASSUME NEW n \in DOMAIN h PROVE Key(h[n]) \in Keys(got) \cup Keys(items)
    <3>1. CASE n \in 1..N
      BY <1>3, <3>1 DEF Keys
    <3>2. CASE n \notin 1..N
      <4> DEFINE j == n - N
      <4>1. j \in 1..taken /\ n = N + j
        BY <1>3, <3>2
      <4> HIDE DEF j
      <4> QED
        BY <1>3, <1>6, <4>1 DEF Keys
    <3> QED
      BY <3>1, <3>2
  <2>2. ASSUME NEW n \in DOMAIN got PROVE Key(got[n]) \in Keys(h)
    <3>1. n \in DOMAIN h /\ h[n] = got[n]
      BY <1>3
    <3> QED
      BY <3>1 DEF Keys
  <2>3. ASSUME NEW j \in DOMAIN items PROVE Key(items[j]) \in Keys(h)
    <3>1. N + j \in DOMAIN h /\ h[N + j] = items[j]
      BY <1>3, <1>6
    <3> QED
      BY <3>1 DEF Keys
  <2> QED
    BY <2>1, <2>2, <2>3 DEF Keys
<1>7. Keys(got)' = Keys(h)
  BY DEF Keys, Key, h
<1> QED
  BY <1>1, <1>2, <1>5, <1>6, <1>7

\* One item, and two.
LEMMA OneInTurn ==
  ASSUME NEW i, Key(i) \in Expected, {key \in Expected : Earlier(key, Key(i))} = Keys(got)
  PROVE  /\ <<i>> \in Seq(Range(<<i>>)) /\ InTurn(<<i>>)
         /\ Keys(<<i>>) = {Key(i)}
<1> DEFINE items == <<i>>
<1>1. items \in Seq(Range(items)) /\ DOMAIN items = 1..1 /\ items[1] = i
  BY DEF Range
<1> HIDE DEF items
<1>2. \A n \in DOMAIN items : items[n] = i /\ {Key(items[k]) : k \in 1..(n - 1)} = {}
  BY <1>1
<1>3. InTurn(items) /\ Keys(items) = {Key(i)}
  BY <1>1, <1>2 DEF InTurn, Keys
<1> QED
  BY <1>1, <1>3 DEF items

\* Two items that are next in the order are handed in turn.
LEMMA TwoInTurn ==
  ASSUME NEW i, NEW j, Key(i) \in Expected, Key(j) \in Expected,
         {key \in Expected : Earlier(key, Key(i))} = Keys(got),
         {key \in Expected : Earlier(key, Key(j))} = Keys(got) \cup {Key(i)}
  PROVE  /\ <<i, j>> \in Seq(Range(<<i, j>>)) /\ InTurn(<<i, j>>)
         /\ Keys(<<i, j>>) = {Key(i), Key(j)}
<1> DEFINE items == <<i, j>>
<1>1. items \in Seq(Range(items)) /\ DOMAIN items = 1..2 /\ items[1] = i /\ items[2] = j
  BY DEF Range
<1> HIDE DEF items
<1>2. /\ {Key(items[k]) : k \in 1..(1 - 1)} = {}
      /\ {Key(items[k]) : k \in 1..(2 - 1)} = {Key(i)}
  <2>1. 1..(1 - 1) = {} /\ 1..(2 - 1) = {1}
    OBVIOUS
  <2> QED
    BY <1>1, <2>1
<1>3. InTurn(items)
  BY <1>1, <1>2 DEF InTurn
<1>4. Keys(items) = {Key(i), Key(j)}
  BY <1>1 DEF Keys
<1> QED
  BY <1>1, <1>3, <1>4 DEF items

\* An item has been handed when its row has been read, a withdrawal of a TikTok
\* workbook when a row that it paid out has.
Passed(key) ==
    IF key[1] = "fund" /\ file.market = "tiktok"
    THEN \E q \in DOMAIN Rows :
            q < pos /\ q \in Handed(file.earned[q]) /\ Head1(file.earned[q]) = key[2]
    ELSE key[2] < pos

\* What lastitem tells of a report: the last row that was handed, and the amount
\* of the row above when that is a withdrawal.
LastAt(item, n) ==
    /\ n > 1 /\ Rows[n - 1].kind = "fund" /\ ~Failed(Rows[n - 1])
        => item.kind = "fund" /\ item.amount = Rows[n - 1].amount
    /\ \/ item = NoRow /\ \A k \in Real : k >= n
       \/ \E m \in Real : /\ m < n /\ \A k \in Real : ~(m < k /\ k < n)
                          /\ item.kind = Rows[m].kind /\ item.amount = Rows[m].amount
LastIs == LastAt(last, pos)

Before == {"asked", "queued", "open"}
ReadInv ==
    Orderly /\ (file.market = "tiktok" => by = "import") =>
        /\ pc \in Before \cup {"rows", "done", "closed", "failed", "rejected"}
        /\ got \in Seq(Range(got)) /\ pos \in Nat \ {0}
        /\ Ordered(got)
        /\ pc \in Before => got = <<>> /\ pos = 1 /\ last = NoRow
        /\ pc = "rows" => /\ Keys(got) = {key \in Expected : Passed(key)}
                          /\ file.market = "shopee" => LastIs
        /\ pc \in {"done", "closed"} => Keys(got) = Expected

Kept == StreamInv /\ ReaderInv /\ ReadInv

\* The rows of a report or a file.
LEMMA ListIs ==
  ASSUME file \in Statements \cup Uploads, file.market \in {"shopee", "mengantar"}
  PROVE  /\ Len(Rows) \in Nat /\ DOMAIN Rows = 1..Len(Rows)
         /\ file.market = "shopee" =>
              /\ Real \in SUBSET (1..Len(Rows))
              /\ \A n \in DOMAIN Rows : Rows[n].copy =>
                    /\ n > 1 /\ n - 1 \in DOMAIN Rows
                    /\ Rows[n].kind = "fund" /\ ~Failed(Rows[n])
                    /\ Rows[n - 1].kind = "fund" /\ ~Failed(Rows[n - 1])
                    /\ Rows[n - 1].amount = Rows[n].amount
<1>1. /\ file.market = "shopee" => Listed(file)
      /\ file.market = "mengantar" => Rows \in Seq(Range(Rows))
  BY StatementsAssumption, UploadsAssumption DEF Statements, TwoSheets, Listed, Rows
<1>2. Rows \in Seq(Range(Rows))
  BY <1>1 DEF Listed, Rows
<1>3. Len(Rows) \in Nat /\ DOMAIN Rows = 1..Len(Rows)
  BY <1>2, LenProperties
<1>4. ASSUME file.market = "shopee", NEW n \in DOMAIN Rows, Rows[n].copy
      PROVE  /\ n > 1 /\ n - 1 \in DOMAIN Rows
             /\ Rows[n].kind = "fund" /\ ~Failed(Rows[n])
             /\ Rows[n - 1].kind = "fund" /\ ~Failed(Rows[n - 1])
             /\ Rows[n - 1].amount = Rows[n].amount
  <2>1. /\ n > 1
        /\ \A k \in {n - 1, n} : Rows[k].kind = "fund" /\ ~IsFailed(Rows[k])
        /\ Rows[n - 1].amount = Rows[n].amount
    BY <1>1, <1>4 DEF Listed, Rows
  <2>2. n - 1 \in DOMAIN Rows
    BY <1>3, <2>1
  <2> QED
    BY <2>1, <2>2 DEF Failed
<1> QED
  BY <1>3, <1>4 DEF Real

\* What is handed of a list, and in which order.
LEMMA ReportOrder ==
  ASSUME file \in Statements \cup Uploads, file.market = "shopee"
  PROVE  /\ \A key : key \in Expected <=> \E n \in Real : key = <<ShopeeType(Rows[n]), n>>
         /\ \A a, b \in Expected : Earlier(a, b) <=> a[2] < b[2]
<1>1. Expected = {<<ShopeeType(Rows[n]), n>> : n \in Real}
  BY DEF Expected
<1>2. ASSUME NEW m \in Real, NEW n \in Real, NEW a, NEW b,
             a = <<ShopeeType(Rows[m]), m>>, b = <<ShopeeType(Rows[n]), n>>
      PROVE  Earlier(a, b) <=> a[2] < b[2]
  <2>1. m \in Int /\ n \in Int
    BY ListIs
  <2>2. a[2] = m /\ b[2] = n /\ SheetRow(a) = m /\ SheetRow(b) = n
    BY <1>2 DEF SheetRow
  <2>3. m = n => a[1] = b[1]
    BY <1>2
  <2> QED
    BY <2>1, <2>2, <2>3 DEF Earlier
<1> QED
  BY <1>1, <1>2

\* Of a Mengantar file every row is handed twice, the withdrawal first.
LEMMA CsvOrder ==
  ASSUME file \in Statements \cup Uploads, file.market = "mengantar"
  PROVE  /\ \A key : key \in Expected <=>
              \E n \in DOMAIN Rows : key = <<"fund", n>> \/ key = <<"order_fund", n>>
         /\ \A a, b \in Expected : Earlier(a, b) <=>
              a[2] < b[2] \/ (a[2] = b[2] /\ a[1] = "fund" /\ b[1] = "order_fund")
<1>1. Expected = {Fund(n) : n \in DOMAIN Rows} \cup {<<"order_fund", n>> : n \in DOMAIN Rows}
  BY DEF Expected
<1>2. ASSUME NEW a \in Expected, NEW b \in Expected
      PROVE  Earlier(a, b) <=> a[2] < b[2] \/ (a[2] = b[2] /\ a[1] = "fund" /\ b[1] = "order_fund")
  <2>1. PICK m \in DOMAIN Rows : a = <<"fund", m>> \/ a = <<"order_fund", m>>
    BY <1>1 DEF Fund
  <2>2. PICK n \in DOMAIN Rows : b = <<"fund", n>> \/ b = <<"order_fund", n>>
    BY <1>1 DEF Fund
  <2>3. m \in Int /\ n \in Int
    BY ListIs
  <2>4. a[2] = m /\ b[2] = n /\ SheetRow(a) = m /\ SheetRow(b) = n
    BY <2>1, <2>2 DEF SheetRow
  <2>5. a[1] \in {"fund", "order_fund"} /\ b[1] \in {"fund", "order_fund"}
    BY <2>1, <2>2
  <2> QED
    BY <2>3, <2>4, <2>5 DEF Earlier
<1>3. \A key : key \in Expected <=>
              \E n \in DOMAIN Rows : key = <<"fund", n>> \/ key = <<"order_fund", n>>
  BY <1>1 DEF Fund
<1> QED
  BY <1>2, <1>3

\* Which rows of an orderly report are read as withdrawals that repeat.
LEMMA RepeatsIsCopy ==
  ASSUME file \in Statements \cup Uploads, file.market = "shopee", Orderly, LastIs,
         pos \in DOMAIN Rows, ~Failed(Rows[pos])
  PROVE  Repeats(Rows[pos]) <=> pos \notin Real
<1> DEFINE r == Rows[pos]
<1>1. /\ DOMAIN Rows = 1..Len(Rows) /\ Len(Rows) \in Nat /\ Real \in SUBSET (1..Len(Rows))
      /\ r.copy => /\ pos > 1 /\ pos - 1 \in DOMAIN Rows /\ r.kind = "fund"
                   /\ Rows[pos - 1].kind = "fund" /\ ~Failed(Rows[pos - 1])
                   /\ Rows[pos - 1].amount = r.amount
  BY ListIs
<1>2. pos \notin Real <=> r.copy
  BY DEF Real
<1>3. ASSUME r.copy PROVE Repeats(r)
  BY <1>1, <1>3 DEF LastIs, LastAt, Repeats
<1>4. ASSUME pos \in Real, Repeats(r) PROVE FALSE
  <2>1. last # NoRow
    BY <1>4 DEF Repeats, NoRow
  <2>2. PICK m \in Real : /\ m < pos /\ \A n \in Real : ~(m < n /\ n < pos)
                          /\ last.kind = Rows[m].kind /\ last.amount = Rows[m].amount
    BY <2>1 DEF LastIs, LastAt
  <2>3. \A k, n \in Real :
                /\ k < n /\ \A j \in Real : ~(k < j /\ j < n)
                /\ Rows[k].kind = "fund" /\ Rows[n].kind = "fund"
                => Rows[k].amount # Rows[n].amount
    BY DEF Orderly
  <2> QED
    BY <1>4, <2>2, <2>3 DEF Repeats
<1> QED
  BY <1>2, <1>3, <1>4

\* The step over a row of a report.
LEMMA LastMoves ==
  ASSUME file \in Statements \cup Uploads, file.market = "shopee", Orderly, LastIs,
         pos \in DOMAIN Rows, file' = file, pos' = pos + 1,
         last' = IF pos \in Real THEN [kind |-> Rows[pos].kind, amount |-> Rows[pos].amount]
                 ELSE last
  PROVE  LastIs'
<1>1. /\ DOMAIN Rows = 1..Len(Rows) /\ Len(Rows) \in Nat /\ Real \in SUBSET (1..Len(Rows))
      /\ Rows[pos].copy => /\ pos > 1 /\ Rows[pos].kind = "fund" /\ ~Failed(Rows[pos])
                           /\ Rows[pos - 1].kind = "fund" /\ ~Failed(Rows[pos - 1])
                           /\ Rows[pos - 1].amount = Rows[pos].amount
  BY ListIs
<1>2. Rows' = Rows /\ Real' = Real
  BY SameBook, SameOrder
<1>3. pos + 1 - 1 = pos /\ pos \in Int /\ \A n \in Real : n \in Int
  BY <1>1
<1>4. ASSUME Rows[pos].kind = "fund", ~Failed(Rows[pos])
      PROVE  last'.kind = "fund" /\ last'.amount = Rows[pos].amount
  <2>1. CASE pos \in Real
    BY <1>4, <2>1
  <2>2. CASE pos \notin Real
    <3>1. Rows[pos].copy
      BY <1>4, <2>2 DEF Real
    <3> QED
      BY <1>1, <2>2, <3>1 DEF LastIs, LastAt
  <2> QED
    BY <2>1, <2>2
<1>5. \/ last' = NoRow /\ \A n \in Real : n >= pos + 1
      \/ \E m \in Real : /\ m < pos + 1 /\ \A n \in Real : ~(m < n /\ n < pos + 1)
                         /\ last'.kind = Rows[m].kind /\ last'.amount = Rows[m].amount
  <2>1. CASE pos \in Real
    <3>1. /\ pos < pos + 1 /\ \A n \in Real : ~(pos < n /\ n < pos + 1)
          /\ last'.kind = Rows[pos].kind /\ last'.amount = Rows[pos].amount
      BY <1>3, <2>1
    <3> QED
      BY <2>1, <3>1
  <2>2. CASE pos \notin Real /\ last = NoRow /\ \A n \in Real : n >= pos
    BY <1>3, <2>2
  <2>3. ASSUME pos \notin Real, NEW m \in Real, m < pos, \A n \in Real : ~(m < n /\ n < pos),
               last.kind = Rows[m].kind /\ last.amount = Rows[m].amount
        PROVE  /\ m < pos + 1 /\ \A n \in Real : ~(m < n /\ n < pos + 1)
               /\ last'.kind = Rows[m].kind /\ last'.amount = Rows[m].amount
    BY <1>3, <2>3
  <2> QED
    BY <2>1, <2>2, <2>3 DEF LastIs, LastAt
<1> DEFINE p == pos + 1  item == last'
<1>7. LastAt(item, p)
  <2>1. /\ p > 1 /\ Rows[p - 1].kind = "fund" /\ ~Failed(Rows[p - 1])
            => item.kind = "fund" /\ item.amount = Rows[p - 1].amount
    <3>1. p - 1 = pos
      BY <1>3
    <3> HIDE DEF p
    <3> QED
      BY <1>4, <3>1
  <2>2. \/ item = NoRow /\ \A n \in Real : n >= p
        \/ \E m \in Real : /\ m < p /\ \A n \in Real : ~(m < n /\ n < p)
                           /\ item.kind = Rows[m].kind /\ item.amount = Rows[m].amount
    BY <1>5
  <2> HIDE DEF p, item
  <2> QED
    BY <2>1, <2>2 DEF LastAt
<1>8. LastIs' <=> LastAt(last', pos + 1)
  BY <1>2 DEF LastIs, LastAt, Failed, NoRow
<1> QED
  BY <1>7, <1>8

-----------------------------------------------------------------------------
(* A Shopee report and a Mengantar file keep the order.                     *)

\* The items of the rows before p.
Read(p) == {key \in Expected : key[2] < p}

\* A list is passed row by row.
LEMMA ReadByRow ==
  ASSUME file.market # "tiktok", file' = file
  PROVE  /\ {key \in Expected : Passed(key)} = Read(pos)
         /\ {key \in Expected : Passed(key)}' = Read(pos')
<1>1. \A key : (Passed(key) <=> key[2] < pos) /\ (Passed(key)' <=> key[2] < pos')
  BY DEF Passed
<1>2. Expected' = Expected
  BY SameOrder
<1> QED
  BY <1>1, <1>2 DEF Read

\* A statement that is not orderly, or not read by row, is of no concern.
\* What the order is promised of.
Concerned == Orderly /\ (file.market = "tiktok" => by = "import")
\* What the properties are about does not change.
LEMMA StaysConcerned ==
  ASSUME file' = file, by' = by
  PROVE  Concerned' <=> Concerned
  BY SameOrder DEF Concerned

\* What is read is a statement or an upload.
LEMMA SourceKnown ==
  ASSUME Kept, Concerned
  PROVE  file \in Statements \cup Uploads
  BY DEF Kept, StreamInv, Reads, ReaderInv

\* A step that hands nothing and comes to its end, or has not begun.
LEMMA StopsInOrder ==
  ASSUME Kept, Concerned, file' = file, by' = by, got' = got, pos' \in Nat \ {0},
         pc' \in {"closed", "failed", "rejected", "done"},
         pc' \in {"closed", "done"} => Keys(got) = Expected
  PROVE  ReadInv'
<1>1. got \in Seq(Range(got)) /\ Ordered(got)
  BY DEF Kept, ReadInv, Concerned
<1>2. Ordered(got)' /\ Expected' = Expected /\ Keys(got)' = Keys(got)
  BY <1>1, SameOrder DEF Ordered, Keys, Key
<1> QED
  BY <1>1, <1>2 DEF ReadInv, Before

\* A step before the first row.
LEMMA NotBegun ==
  ASSUME file' = file, by' = by, got' = <<>>, pos' = 1, last' = NoRow,
         pc' \in Before
  PROVE  ReadInv'
<1>1. DOMAIN got' = {} /\ got' \in Seq(Range(got')) /\ pos' \in Nat \ {0}
  OBVIOUS
<1>2. Ordered(got)'
  BY <1>1 DEF Ordered
<1>3. NoRow' = NoRow
  BY DEF NoRow
<1> QED
  BY <1>1, <1>2, <1>3 DEF ReadInv, Before

\* The steps of a report.
LEMMA OpenReportInOrder == Kept /\ Concerned /\ OpenReport => ReadInv'
<1> SUFFICES ASSUME Kept, Concerned, OpenReport PROVE ReadInv'
  OBVIOUS
<1>1. /\ file.market = "shopee" /\ file' = file /\ pc = "open" /\ pc' = "rows"
      /\ pos' = pos /\ last' = last /\ got' = got
  BY DEF OpenReport
<1>2. got = <<>> /\ pos = 1 /\ last = NoRow
  BY <1>1 DEF Kept, ReadInv, Concerned, Before
<1>3. got' \in Seq(Range(got')) /\ DOMAIN got' = {} /\ pos' \in Nat \ {0}
  BY <1>1, <1>2
<1>4. Ordered(got)' /\ Keys(got)' = {}
  BY <1>3 DEF Ordered, Keys
<1>5. file \in Statements \cup Uploads
  BY SourceKnown
<1>6. {key \in Expected : Passed(key)}' = {}
  <2>1. \A key \in Expected : ~(key[2] < 1)
    BY <1>1, <1>5, ReportOrder, ListIs
  <2> QED
    BY <1>1, <1>2, <2>1, ReadByRow DEF Read
<1>7. LastIs'
  <2>1. LastAt(last, 1)
    BY <1>1, <1>2, <1>5, ListIs DEF LastAt
  <2>2. LastIs' <=> LastAt(last', pos')
    BY <1>1, SameBook, SameOrder DEF LastIs, LastAt, Failed, NoRow
  <2> QED
    BY <1>1, <1>2, <2>1, <2>2
<1> QED
  BY <1>1, <1>3, <1>4, <1>6, <1>7 DEF ReadInv, Before

\* Rows of a report.
LEMMA AtRow ==
  ASSUME Kept, Concerned, Reading("shopee") \/ Reading("mengantar")
  PROVE  /\ file \in Statements \cup Uploads /\ pos \in DOMAIN Rows /\ pos \in Nat
         /\ got \in Seq(Range(got)) /\ Ordered(got) /\ Keys(got) = Read(pos)
         /\ file.market = "shopee" => LastIs
<1>1. pc = "rows" /\ file.market # "tiktok" /\ file.market \in {"shopee", "mengantar"} /\ pos <= Len(Rows)
  BY DEF Reading
<1>2. file \in Statements \cup Uploads
  BY SourceKnown
<1>3. /\ pos \in Nat \ {0} /\ got \in Seq(Range(got)) /\ Ordered(got)
      /\ Keys(got) = {key \in Expected : Passed(key)}
      /\ file.market = "shopee" => LastIs
  BY <1>1 DEF Kept, Concerned, ReadInv
<1>4. {key \in Expected : Passed(key)} = Read(pos)
  <2>1. \A key : Passed(key) <=> key[2] < pos
    BY <1>1 DEF Passed
  <2> QED
    BY <2>1 DEF Read
<1>5. pos \in DOMAIN Rows
  BY <1>1, <1>2, <1>3, ListIs
<1> QED
  BY <1>2, <1>3, <1>4, <1>5

\* A row of a report that is left out keeps the order.
LEMMA ShopeeSkipInOrder == Kept /\ Concerned /\ ShopeeSkip => ReadInv'
<1> SUFFICES ASSUME Kept, Concerned, ShopeeSkip PROVE ReadInv'
  OBVIOUS
<1>1. /\ Reading("shopee") /\ file' = file /\ pc' = "rows" /\ file.market = "shopee"
      /\ pos' = pos + 1 /\ last' = last /\ got' = got
      /\ Failed(Rows[pos]) \/ Repeats(Rows[pos])
  BY DEF ShopeeSkip, Skip, Reading
<1>2. /\ file \in Statements \cup Uploads /\ pos \in DOMAIN Rows /\ pos \in Nat
      /\ got \in Seq(Range(got)) /\ Ordered(got) /\ Keys(got) = Read(pos) /\ LastIs /\ Orderly
  BY <1>1, AtRow DEF Concerned
<1>3. pos \notin Real
  BY <1>1, <1>2, RepeatsIsCopy DEF Real
<1>4. LastIs'
  BY <1>1, <1>2, <1>3, LastMoves
<1>5. {key \in Expected : Passed(key)}' = Read(pos + 1)
  BY <1>1, ReadByRow
<1>6. Read(pos + 1) = Read(pos)
  <2>1. \A key \in Expected : key[2] \in Int /\ key[2] # pos
    BY <1>1, <1>2, <1>3, ReportOrder, ListIs
  <2> QED
    BY <1>2, <2>1 DEF Read
<1>7. Ordered(got)' /\ Keys(got)' = Keys(got)
  BY <1>1, <1>2, SameOrder DEF Ordered, Keys, Key
<1>8. pos' \in Nat \ {0}
  BY <1>1, <1>2
<1> QED
  BY <1>1, <1>2, <1>4, <1>5, <1>6, <1>7, <1>8 DEF ReadInv, Before

\* So does a row of a report that is handed.
LEMMA ShopeeRowInOrder == Kept /\ Concerned /\ ShopeeRow => ReadInv'
<1> SUFFICES ASSUME Kept, Concerned, ShopeeRow PROVE ReadInv'
  OBVIOUS
<1> DEFINE r == Rows[pos]
           item == [RowItem(pos, ShopeeType(r), OrderOf(r)) EXCEPT !.after = r.balance]
<1>1. /\ Reading("shopee") /\ file' = file /\ file.market = "shopee"
      /\ pos' = pos + 1 /\ last' = [kind |-> r.kind, amount |-> r.amount]
      /\ ~Failed(r) /\ ~Repeats(r) /\ Hand(<<item>>, "rows")
  BY DEF ShopeeRow, Reading
<1>2. /\ file \in Statements \cup Uploads /\ pos \in DOMAIN Rows /\ pos \in Nat
      /\ got \in Seq(Range(got)) /\ Ordered(got) /\ Keys(got) = Read(pos) /\ LastIs /\ Orderly
  BY <1>1, AtRow DEF Concerned
<1>3. pos \in Real
  BY <1>1, <1>2, RepeatsIsCopy
<1>4. LastIs'
  BY <1>1, <1>2, <1>3, LastMoves
<1> DEFINE new == <<ShopeeType(r), pos>>
<1>5. Key(item) = new
  BY DEF Key, RowItem
<1> HIDE DEF item
<1>6. new \in Expected /\ new[2] = pos
  BY <1>1, <1>2, <1>3, ReportOrder
<1>7. \A key \in Expected : key[2] \in Int /\ (key[2] = pos => key = new)
  BY <1>1, <1>2, <1>3, ReportOrder, ListIs
<1>8. {key \in Expected : Earlier(key, new)} = Read(pos)
  <2>1. \A key \in Expected : Earlier(key, new) <=> key[2] < new[2]
    BY <1>1, <1>2, <1>6, ReportOrder
  <2> HIDE DEF new
  <2> QED
    BY <1>6, <2>1 DEF Read
<1> HIDE DEF new
<1>9. <<item>> \in Seq(Range(<<item>>)) /\ InTurn(<<item>>) /\ Keys(<<item>>) = {new}
  BY <1>2, <1>5, <1>6, <1>8, OneInTurn
<1>10. /\ got' \in Seq(Range(got')) /\ Ordered(got)'
       /\ \/ pc' = "rows" /\ Keys(got)' = Keys(got) \cup {new}
          \/ pc' = "failed"
  BY <1>1, <1>2, <1>9, HandsInTurn
<1>11. Read(pos + 1) = Read(pos) \cup {new}
  BY <1>2, <1>6, <1>7 DEF Read
<1>12. {key \in Expected : Passed(key)}' = Read(pos + 1)
  BY <1>1, ReadByRow
<1>13. pos' \in Nat \ {0}
  BY <1>1, <1>2
<1> QED
  BY <1>2, <1>4, <1>10, <1>11, <1>12, <1>13 DEF ReadInv, Before

\* So does the end of a report.
LEMMA CloseReportInOrder == Kept /\ Concerned /\ CloseReport => ReadInv'
<1> SUFFICES ASSUME Kept, Concerned, CloseReport PROVE ReadInv'
  OBVIOUS
<1>1. /\ file.market = "shopee" /\ file' = file /\ by' = by /\ pc = "rows" /\ pc' = "done"
      /\ pos' = pos /\ got' = got /\ pos > Len(Rows)
  BY DEF CloseReport
<1>2. /\ pos \in Nat \ {0}
      /\ Keys(got) = {key \in Expected : Passed(key)}
  BY <1>1 DEF Kept, Concerned, ReadInv
<1>3. file \in Statements \cup Uploads
  BY SourceKnown
<1>4. \A key \in Expected : key[2] < pos
  BY <1>1, <1>2, <1>3, ReportOrder, ListIs
<1>5. Keys(got) = Expected
  BY <1>1, <1>2, <1>4 DEF Passed
<1> QED
  BY <1>1, <1>2, <1>5, StopsInOrder

\* An orderly file of Mengantar is parsed to its end.
LEMMA ParsedAll ==
  ASSUME file \in Statements \cup Uploads, file.market = "mengantar", Orderly, Rows # <<>>
  PROVE  Parsed = Len(Rows) /\ Len(Rows) > 0
<1>1. Len(Rows) \in Nat /\ Rows \in Seq(Range(Rows))
  BY StatementsAssumption, UploadsAssumption, ListIs DEF Statements, TwoSheets, Listed, Rows
<1>2. Len(Rows) > 0
  BY <1>1
<1>3. {n - 1 : n \in {k \in DOMAIN Rows : ~Rows[k].good}} = {}
  BY DEF Orderly
<1> DEFINE N == Len(Rows)
           S == {N} \cup {n - 1 : n \in {k \in DOMAIN Rows : ~Rows[k].good}}
<1>4. N \in Nat /\ S = {N} /\ S \in SUBSET (1..N) /\ S # {}
  BY <1>1, <1>2, <1>3
<1>5. Parsed = Min(S)
  BY DEF Parsed
<1> HIDE DEF N, S
<1>6. Min(S) \in S
  BY <1>4, MinIsThere
<1> QED
  BY <1>2, <1>4, <1>5, <1>6 DEF N

\* The steps of a Mengantar file.
LEMMA OpenCsvInOrder == Kept /\ Concerned /\ OpenCsv => ReadInv'
<1> SUFFICES ASSUME Kept, Concerned, OpenCsv PROVE ReadInv'
  OBVIOUS
<1>1. /\ file.market = "mengantar" /\ file' = file /\ by' = by /\ pc = "open"
      /\ pos' = pos /\ last' = last /\ got' = got
      /\ IF file.broken \/ Rows = <<>> THEN pc' = "done"
         ELSE pc' = IF Parsed = 0 THEN "refused" ELSE "rows"
  BY DEF OpenCsv
<1>2. got = <<>> /\ pos = 1 /\ last = NoRow /\ Orderly
  BY <1>1 DEF Kept, ReadInv, Concerned, Before
<1>3. got' \in Seq(Range(got')) /\ DOMAIN got' = {} /\ pos' \in Nat \ {0}
  BY <1>1, <1>2
<1>4. Ordered(got)' /\ Keys(got)' = {} /\ Keys(got) = {}
  BY <1>1, <1>3 DEF Ordered, Keys
<1>5. file \in Statements \cup Uploads
  BY SourceKnown
<1>6. ~file.broken
  BY <1>1, <1>2 DEF Orderly
<1>7. CASE Rows = <<>>
  <2>1. Expected = {}
    BY <1>1, <1>5, <1>7, CsvOrder
  <2> QED
    BY <1>1, <1>3, <1>4, <1>7, <2>1, StopsInOrder
<1>8. CASE Rows # <<>>
  <2>1. pc' = "rows"
    BY <1>1, <1>2, <1>5, <1>6, <1>8, ParsedAll
  <2>2. {key \in Expected : Passed(key)}' = {}
    <3>1. \A key \in Expected : ~(key[2] < 1)
      BY <1>1, <1>5, CsvOrder, ListIs
    <3> QED
      BY <1>1, <1>2, <3>1, ReadByRow DEF Read
  <2> QED
    BY <1>1, <1>3, <1>4, <2>1, <2>2 DEF ReadInv, Before
<1> QED
  BY <1>7, <1>8

\* So does a row of a Mengantar file.
LEMMA MengantarRowInOrder == Kept /\ Concerned /\ MengantarRow => ReadInv'
<1> SUFFICES ASSUME Kept, Concerned, MengantarRow PROVE ReadInv'
  OBVIOUS
<1> DEFINE item == RowItem(pos, "order_fund", Rows[pos].order)
           fund == [item EXCEPT !.type = "fund", !.order = NoOrder]
           label == IF pos = Parsed THEN "done" ELSE "rows"
           o == <<"order_fund", pos>>
           f == <<"fund", pos>>
<1>1. /\ Reading("mengantar") /\ file' = file /\ file.market = "mengantar"
      /\ pos' = pos + 1 /\ Hand(<<fund, item>>, label)
  BY DEF MengantarRow, Reading
<1>2. /\ file \in Statements \cup Uploads /\ pos \in DOMAIN Rows /\ pos \in Nat
      /\ got \in Seq(Range(got)) /\ Ordered(got) /\ Keys(got) = Read(pos) /\ Orderly
  BY <1>1, AtRow DEF Concerned
<1>3. Key(fund) = f /\ Key(item) = o
  BY DEF Key, RowItem
<1> HIDE DEF item, fund
<1>4. f \in Expected /\ o \in Expected
  BY <1>1, <1>2, CsvOrder
<1>5. \A key \in Expected : key[2] \in Int /\ (key[2] = pos => key \in {f, o})
  BY <1>1, <1>2, CsvOrder, ListIs
<1>6. /\ f[1] = "fund" /\ o[1] = "order_fund" /\ f[2] = pos /\ o[2] = pos
  OBVIOUS
<1> HIDE DEF f, o
<1>7. {key \in Expected : Earlier(key, f)} = Read(pos)
  <2>1. \A key \in Expected : Earlier(key, f) <=>
           key[2] < f[2] \/ (key[2] = f[2] /\ key[1] = "fund" /\ f[1] = "order_fund")
    BY <1>1, <1>2, <1>4, CsvOrder
  <2> QED
    BY <1>6, <2>1 DEF Read
<1>8. {key \in Expected : Earlier(key, o)} = Read(pos) \cup {f}
  <2>1. \A key \in Expected : Earlier(key, o) <=>
           key[2] < o[2] \/ (key[2] = o[2] /\ key[1] = "fund" /\ o[1] = "order_fund")
    BY <1>1, <1>2, <1>4, CsvOrder
  <2> QED
    BY <1>4, <1>5, <1>6, <2>1 DEF Read
<1>9. /\ <<fund, item>> \in Seq(Range(<<fund, item>>)) /\ InTurn(<<fund, item>>)
      /\ Keys(<<fund, item>>) = {f, o}
  BY <1>2, <1>3, <1>4, <1>7, <1>8, TwoInTurn
<1>10. /\ got' \in Seq(Range(got')) /\ Ordered(got)'
       /\ \/ pc' = label /\ Keys(got)' = Keys(got) \cup {f, o}
          \/ pc' = "failed"
  <2> HIDE DEF label
  <2> QED
    BY <1>1, <1>2, <1>9, HandsInTurn
<1>11. Read(pos + 1) = Read(pos) \cup {f, o}
  BY <1>2, <1>4, <1>5, <1>6 DEF Read
<1>12. {key \in Expected : Passed(key)}' = Read(pos + 1)
  BY <1>1, ReadByRow
<1>13. pos' \in Nat \ {0}
  BY <1>1, <1>2
<1>14. pos = Parsed => Read(pos + 1) = Expected
  <2> SUFFICES ASSUME pos = Parsed PROVE Read(pos + 1) = Expected
    OBVIOUS
  <2>1. Rows # <<>>
    BY <1>2
  <2>2. pos = Len(Rows)
    BY <1>1, <1>2, <2>1, ParsedAll
  <2>3. \A key \in Expected : key[2] < pos + 1
    BY <1>1, <1>2, <2>2, CsvOrder, ListIs
  <2> QED
    BY <2>3 DEF Read
<1>15. Expected' = Expected
  BY <1>1, SameOrder
<1>16. pc' \in {"rows", "done", "failed"}
  BY <1>10
<1>17. pc' = "rows" => Keys(got)' = {key \in Expected : Passed(key)}'
  BY <1>2, <1>10, <1>11, <1>12
<1>18. pc' = "done" => Keys(got)' = Expected'
  BY <1>2, <1>10, <1>11, <1>14, <1>15
<1> QED
  BY <1>1, <1>10, <1>13, <1>16, <1>17, <1>18 DEF ReadInv, Before

-----------------------------------------------------------------------------
(* A TikTok workbook keeps the order.                                       *)

\* What is handed of an orderly workbook.
LEMMA OrderlyBook ==
  ASSUME file \in Workbooks, Orderly
  PROVE  /\ DistinctDays /\ AllCountDown /\ SplitsCountDown
         /\ \A e \in Earnings : Tracked(e)
         /\ \A w \in KeptWds : \E q \in DOMAIN Rows :
               q \in Handed(file.earned[q]) /\ Head1(file.earned[q]) = w
         /\ \A n \in DOMAIN Sheet : Sheet[n].type = "Withdrawal" => Sheet[n].status # "In Process"
<1>1. file.market = "tiktok"
  BY BookIs
<1>2. /\ DistinctDays /\ AllCountDown
      /\ \A w \in KeptWds : \E e \in Earnings : Head1(e) = w
      /\ \A n \in DOMAIN Sheet : Sheet[n].type = "Withdrawal" => Sheet[n].status # "In Process"
  BY <1>1 DEF Orderly
<1>3. SplitsCountDown /\ \A e \in Earnings : Tracked(e)
  BY <1>2 DEF SplitsCountDown, AllCountDown, Tracked
<1>4. ASSUME NEW w \in KeptWds
      PROVE  \E q \in DOMAIN Rows : q \in Handed(file.earned[q]) /\ Head1(file.earned[q]) = w
  <2>1. PICK e \in Earnings : Head1(e) = w
    BY <1>2
  <2>2. PICK q \in Handed(e) : TRUE
    BY <1>2 DEF AllCountDown
  <2>3. q \in DOMAIN Rows /\ file.earned[q] = e
    BY HandedIs
  <2> QED
    BY <2>1, <2>2, <2>3
<1> QED
  BY <1>2, <1>3, <1>4

\* What is handed of a workbook: its withdrawals and the orders with an amount.
LEMMA BookOrder ==
  ASSUME file \in Workbooks \/ (file \in Uploads /\ file.market = "tiktok")
  PROVE  /\ \A key : key \in Expected <=>
              \/ \E w \in KeptWds : key = <<"fund", w>>
              \/ \E n \in DOMAIN Rows : n \in Handed(file.earned[n]) /\ key = <<TiktokType(Rows[n]), n>>
         /\ \A n : TiktokType(Rows[n]) # "fund"
         /\ \A w \in KeptWds : w \notin Earnings
<1>1. file.market = "tiktok" /\ \A n \in DOMAIN Rows : file.earned[n] \in Earnings
  BY BookIs, UploadsAssumption DEF Attributed, Earnings, Rows, Sheet
<1>2. Expected = {Fund(w) : w \in KeptWds}
                 \cup {<<TiktokType(Rows[n]), n>> : n \in UNION {Handed(e) : e \in Earnings}}
  BY <1>1 DEF Expected
<1>3. \A n : n \in UNION {Handed(e) : e \in Earnings} <=> n \in DOMAIN Rows /\ n \in Handed(file.earned[n])
  <2> SUFFICES ASSUME NEW n
               PROVE  n \in UNION {Handed(e) : e \in Earnings}
                        <=> n \in DOMAIN Rows /\ n \in Handed(file.earned[n])
    OBVIOUS
  <2>1. \A e \in Earnings : n \in Handed(e) => n \in DOMAIN Rows /\ file.earned[n] = e
    BY HandedIs
  <2> QED
    BY <1>1, <2>1
<1>4. \A key : key \in Expected <=>
         \/ \E w \in KeptWds : key = <<"fund", w>>
         \/ \E n \in DOMAIN Rows : n \in Handed(file.earned[n]) /\ key = <<TiktokType(Rows[n]), n>>
  BY <1>2, <1>3 DEF Fund
<1>5. \A n : TiktokType(Rows[n]) # "fund"
  BY DEF TiktokType
<1>6. \A w \in KeptWds : w \notin Earnings
  BY DEF KeptWds, Earnings
<1> QED
  BY <1>4, <1>5, <1>6

\* The head of a row of earnings is the last withdrawal above it.
LEMMA HeadIsAbove ==
  ASSUME file \in Workbooks, NEW e \in Earnings
  PROVE  /\ Head1(e) \in Nat /\ Head1(e) < e /\ e \in Nat
         /\ \A w \in KeptWds : w < e <=> w <= Head1(e)
<1>1. /\ Len(Sheet) \in Nat /\ \A w \in KeptWds : w \in 1..Len(Sheet)
      /\ e \in 1..Len(Sheet)
  BY BookIs
<1> DEFINE S == {w \in KeptWds : w < e}
<1>2. S \in SUBSET (1..Len(Sheet)) /\ Head1(e) = Max({0} \cup S)
  BY <1>1 DEF Head1
<1> HIDE DEF S
<1>3. Head1(e) \in {0} \cup S /\ \A w \in {0} \cup S : w <= Head1(e)
  BY <1>1, <1>2, MaxWithZero
<1>4. Head1(e) \in Nat /\ Head1(e) < e
  BY <1>1, <1>3 DEF S
<1> QED
  BY <1>1, <1>3, <1>4 DEF S

\* The rows of a workbook come in the order of their withdrawals.
LEMMA HeadsRise ==
  ASSUME file \in Workbooks, NEW m \in DOMAIN Rows, NEW n \in DOMAIN Rows, m <= n
  PROVE  /\ file.earned[m] <= file.earned[n]
         /\ Head1(file.earned[m]) <= Head1(file.earned[n])
<1>1. /\ file.earned[m] \in Earnings /\ file.earned[n] \in Earnings
      /\ m \in Nat /\ n \in Nat
      /\ m < n => file.earned[m] <= file.earned[n]
  BY BookIs
<1>2. file.earned[m] \in Nat /\ file.earned[n] \in Nat
  BY <1>1, BookIs
<1> DEFINE a == file.earned[m]  b == file.earned[n]
<1>3. a <= b /\ a \in Nat /\ b \in Nat
  BY <1>1, <1>2
<1> HIDE DEF a, b
<1>4. Head1(a) <= Head1(b)
  BY <1>3, HeadIs
<1> QED
  BY <1>3, <1>4 DEF a, b

\* Which items come before the one of the next row, and before its withdrawal.
LEMMA BeforeRow ==
  ASSUME file \in Workbooks, Orderly, pos \in DOMAIN Rows, pos \in Handed(file.earned[pos]),
         NEW w, w = Head1(file.earned[pos]),
         NEW new, new = <<TiktokType(Rows[pos]), pos>>
  PROVE  /\ new \in Expected
         /\ \A key \in Expected : Passed(key) => Earlier(key, new)
         /\ \A key \in Expected : Earlier(key, new) => Passed(key) \/ key = Fund(w)
         /\ w # 0 => Fund(w) \in Expected /\ Earlier(Fund(w), new)
         /\ w # 0 /\ ~Passed(Fund(w)) => /\ \A key \in Expected : Passed(key) => Earlier(key, Fund(w))
                                        /\ \A key \in Expected : Earlier(key, Fund(w)) => Passed(key)
<1> DEFINE e == file.earned[pos]
<1>1. /\ DOMAIN Rows = 1..Len(Rows) /\ Len(Rows) \in Nat /\ e \in Earnings
      /\ file.market = "tiktok"
      /\ \A k \in Earnings \cup KeptWds : k \in Nat \ {0}
      /\ \A q \in DOMAIN Rows : file.earned[q] \in Earnings
  BY BookIs
<1>2. /\ w \in {0} \cup KeptWds /\ w \in Nat /\ w < e /\ e \in Nat
      /\ \A v \in KeptWds : v < e <=> v <= w
  <2>1. e \in Nat
    BY <1>1
  <2>2. w \in {0} \cup KeptWds
    <3> HIDE DEF e
    <3> QED
      BY <2>1, HeadIs DEF e
  <2> QED
    BY <1>1, <2>2, HeadIsAbove
<1>3. new \in Expected
  BY BookOrder
<1>4. new[1] # "fund" /\ new[2] = pos /\ SheetRow(new) = e
  BY <1>1, BookOrder DEF SheetRow
<1> HIDE DEF e
\* A withdrawal of a handed row is among the rows passed when it is above w.
<1>5. ASSUME NEW v \in KeptWds, v < w PROVE Passed(<<"fund", v>>)
  <2>1. PICK q \in DOMAIN Rows : q \in Handed(file.earned[q]) /\ Head1(file.earned[q]) = v
    BY OrderlyBook
  <2>2. q < pos
    <3> SUFFICES ASSUME pos <= q PROVE FALSE
      BY <1>1
    <3>1. Head1(file.earned[pos]) <= Head1(file.earned[q])
      BY HeadsRise
    <3>2. w <= v /\ v \in Nat /\ w \in Nat
      BY <1>1, <1>2, <2>1, <3>1
    <3> QED
      BY <1>5, <3>2
  <2> QED
    BY <1>1, <2>1, <2>2 DEF Passed
<1>6. ASSUME NEW v \in KeptWds, Passed(<<"fund", v>>) PROVE v <= w
  <2>1. PICK q \in DOMAIN Rows : q < pos /\ q \in Handed(file.earned[q]) /\ Head1(file.earned[q]) = v
    BY <1>1, <1>6 DEF Passed
  <2>2. q <= pos
    BY <1>1, <2>1
  <2> QED
    BY <2>1, <2>2, HeadsRise
<1>7. ASSUME NEW n \in DOMAIN Rows, NEW key, key = <<TiktokType(Rows[n]), n>>
      PROVE  /\ Passed(key) <=> n < pos
             /\ SheetRow(key) = file.earned[n] /\ key[1] # "fund" /\ key[2] = n
             /\ Earlier(key, new) <=> n < pos
  <2>1. key[1] # "fund" /\ key[2] = n
    BY <1>7, BookOrder
  <2>2. Passed(key) <=> n < pos
    BY <2>1 DEF Passed
  <2>3. SheetRow(key) = file.earned[n]
    BY <1>1, <2>1 DEF SheetRow
  <2>4. file.earned[n] \in Nat
    BY <1>1
  <2>5. Earlier(key, new) <=> file.earned[n] < e \/ (file.earned[n] = e /\ n < pos)
    BY <1>4, <2>1, <2>3 DEF Earlier
  <2>6. n < pos => file.earned[n] <= e
    BY <1>1, HeadsRise DEF e
  <2>7. pos <= n => e <= file.earned[n]
    BY <1>1, HeadsRise DEF e
  <2> QED
    BY <1>1, <1>2, <2>1, <2>2, <2>3, <2>4, <2>5, <2>6, <2>7
<1>8. ASSUME NEW v \in KeptWds
      PROVE  /\ Earlier(<<"fund", v>>, new) <=> v <= w
             /\ SheetRow(<<"fund", v>>) = v
  <2>1. SheetRow(<<"fund", v>>) = v
    BY DEF SheetRow
  <2>2. v # e
    BY <1>1, BookOrder
  <2>3. Earlier(<<"fund", v>>, new) <=> v < e
    BY <1>4, <2>1, <2>2 DEF Earlier
  <2> QED
    BY <1>2, <2>1, <2>3
<1>9. ASSUME NEW key \in Expected
      PROVE  /\ Passed(key) => Earlier(key, new)
             /\ Earlier(key, new) => Passed(key) \/ key = Fund(w)
  <2>1. CASE \E v \in KeptWds : key = <<"fund", v>>
    <3>1. PICK v \in KeptWds : key = <<"fund", v>>
      BY <2>1
    <3>2. v \in Nat /\ (v < w => Passed(key)) /\ (Passed(key) => v <= w)
          /\ (Earlier(key, new) <=> v <= w)
      BY <1>1, <1>5, <1>6, <1>8, <3>1
    <3>3. v = w => key = Fund(w)
      BY <3>1 DEF Fund
    <3> QED
      BY <1>2, <3>2, <3>3
  <2>2. CASE \E n \in DOMAIN Rows : key = <<TiktokType(Rows[n]), n>>
    BY <1>7, <2>2
  <2> QED
    BY <2>1, <2>2, BookOrder
<1>10. ASSUME w # 0 PROVE w \in KeptWds /\ Fund(w) \in Expected /\ Earlier(Fund(w), new)
  <2>1. w \in KeptWds
    BY <1>2, <1>10
  <2>2. Fund(w) \in Expected
    BY <2>1, BookOrder DEF Fund
  <2>3. Earlier(<<"fund", w>>, new)
    BY <1>2, <1>8, <2>1
  <2> QED
    BY <2>1, <2>2, <2>3 DEF Fund
<1>11. ASSUME w # 0, ~Passed(Fund(w)), NEW key \in Expected
       PROVE  Earlier(key, Fund(w)) <=> Passed(key)
  <2> DEFINE f == <<"fund", w>>
  <2>1. w \in KeptWds /\ Fund(w) = f /\ SheetRow(f) = w /\ f[1] = "fund" /\ f[2] = w
    BY <1>8, <1>10, <1>11 DEF Fund
  <2> HIDE DEF f
  <2>2. Earlier(key, f) <=> SheetRow(key) < w
    BY <2>1 DEF Earlier
  <2>3. CASE \E v \in KeptWds : key = <<"fund", v>>
    <3>1. PICK v \in KeptWds : key = <<"fund", v>>
      BY <2>3
    <3>2. v \in Nat /\ (v < w => Passed(key)) /\ (Passed(key) => v <= w) /\ SheetRow(key) = v
      BY <1>1, <1>5, <1>6, <1>8, <3>1
    <3>3. v = w => ~Passed(key)
      BY <1>11, <3>1 DEF Fund
    <3> QED
      BY <1>2, <2>1, <2>2, <3>2, <3>3
  <2>4. ASSUME NEW n \in DOMAIN Rows, n \in Handed(file.earned[n]), key = <<TiktokType(Rows[n]), n>>
        PROVE  Earlier(key, f) <=> Passed(key)
    <3> DEFINE g == file.earned[n]
    <3>1. (Passed(key) <=> n < pos) /\ SheetRow(key) = g
      BY <1>7, <2>4
    <3>2. g \in Earnings /\ g \in Nat /\ g # w /\ (w < g <=> w <= Head1(g)) /\ Head1(g) \in Nat
      BY <1>1, <2>1, BookOrder, HeadIsAbove
    <3>3. ASSUME n < pos PROVE g < w
      <4>1. Head1(g) <= w
        BY <1>1, <3>3, HeadsRise
      <4>2. Head1(g) # w
        <5> SUFFICES ASSUME Head1(g) = w PROVE FALSE
          OBVIOUS
        <5>1. Passed(<<"fund", w>>)
          BY <1>1, <2>4, <3>3 DEF Passed
        <5> QED
          BY <1>11, <5>1 DEF Fund
      <4> QED
        BY <1>2, <3>2, <4>1, <4>2
    <3>4. ASSUME pos <= n PROVE ~(g < w)
      <4>1. e <= g
        BY <1>1, <3>4, HeadsRise DEF e
      <4> QED
        BY <1>2, <3>2, <4>1
    <3> HIDE DEF g
    <3> QED
      BY <1>1, <2>2, <3>1, <3>3, <3>4
  <2> QED
    BY <2>1, <2>3, <2>4, BookOrder
<1> QED
  BY <1>3, <1>9, <1>10, <1>11

\* The items that the reading of a row passes: the row itself and its
\* withdrawal.
LEMMA PassedMoves ==
  ASSUME file \in Workbooks, pos \in DOMAIN Rows, file' = file, pos' = pos + 1,
         NEW w, w = Head1(file.earned[pos]),
         NEW new, new = <<TiktokType(Rows[pos]), pos>>
  PROVE  {key \in Expected : Passed(key)}' =
            IF pos \in Handed(file.earned[pos])
            THEN {key \in Expected : Passed(key) \/ key = new \/ key = Fund(w)}
            ELSE {key \in Expected : Passed(key)}
<1>1. /\ DOMAIN Rows = 1..Len(Rows) /\ Len(Rows) \in Nat /\ file.market = "tiktok"
  BY BookIs
<1>2. /\ Rows' = Rows /\ Expected' = Expected /\ \A e : Handed(e)' = Handed(e)
      /\ \A n : Head1(n)' = Head1(n)
  BY SameBook, SameOrder
<1>3. \A key : Passed(key)' <=>
         IF key[1] = "fund"
         THEN \E q \in DOMAIN Rows :
                 q < pos + 1 /\ q \in Handed(file.earned[q]) /\ Head1(file.earned[q]) = key[2]
         ELSE key[2] < pos + 1
  BY <1>1, <1>2 DEF Passed
<1>4. ASSUME NEW v \in KeptWds, NEW key, key = <<"fund", v>>
      PROVE  Passed(key)' <=> Passed(key) \/ (pos \in Handed(file.earned[pos]) /\ key = Fund(w))
  <2>1. key = Fund(w) <=> w = v
    BY <1>4 DEF Fund
  <2>2. \A q \in DOMAIN Rows : q < pos + 1 <=> q < pos \/ q = pos
    BY <1>1
  <2>3. Passed(key) <=> \E q \in DOMAIN Rows :
            q < pos /\ q \in Handed(file.earned[q]) /\ Head1(file.earned[q]) = v
    BY <1>1, <1>4 DEF Passed
  <2>4. Passed(key)' <=> \E q \in DOMAIN Rows :
            q < pos + 1 /\ q \in Handed(file.earned[q]) /\ Head1(file.earned[q]) = v
    BY <1>3, <1>4
  <2> QED
    BY <2>1, <2>2, <2>3, <2>4
<1>5. ASSUME NEW n \in DOMAIN Rows, NEW key, key = <<TiktokType(Rows[n]), n>>
      PROVE  Passed(key)' <=> Passed(key) \/ key = new
  <2>1. key[1] # "fund" /\ key[2] = n
    BY <1>5, BookOrder
  <2>2. key = new <=> n = pos
    BY <1>5
  <2>3. (Passed(key) <=> n < pos) /\ (Passed(key)' <=> n < pos + 1)
    BY <1>3, <2>1 DEF Passed
  <2> QED
    BY <1>1, <2>2, <2>3
<1>6. \A v : <<"fund", v>> # new
  BY BookOrder
<1>7. \A n : <<TiktokType(Rows[n]), n>> # Fund(w)
  BY BookOrder DEF Fund
<1>8. ASSUME NEW key \in Expected
      PROVE  Passed(key)' <=> \/ Passed(key)
                              \/ /\ pos \in Handed(file.earned[pos])
                                 /\ key = new \/ key = Fund(w)
  <2>1. CASE \E v \in KeptWds : key = <<"fund", v>>
    BY <1>4, <1>6, <2>1
  <2>2. ASSUME NEW n \in DOMAIN Rows, n \in Handed(file.earned[n]), key = <<TiktokType(Rows[n]), n>>
        PROVE  Passed(key)' <=> \/ Passed(key)
                                \/ /\ pos \in Handed(file.earned[pos])
                                   /\ key = new \/ key = Fund(w)
    <3>1. Passed(key)' <=> Passed(key) \/ key = new
      BY <1>5, <2>2
    <3>2. key # Fund(w)
      BY <1>7, <2>2
    <3>3. key = new => n = pos
      BY <2>2
    <3> QED
      BY <2>2, <3>1, <3>2, <3>3
  <2> QED
    BY <2>1, <2>2, BookOrder
<1> QED
  BY <1>2, <1>8

\* A withdrawal has been handed if its day has been emitted.
LEMMA EmittedIsPassed ==
  ASSUME file \in Workbooks, Orderly, Handing, got \in Seq(Range(got)),
         Keys(got) = {key \in Expected : Passed(key)}, NEW w \in KeptWds
  PROVE  Sheet[w].day \in emitted <=> Passed(Fund(w))
<1>1. ASSUME Sheet[w].day \in emitted PROVE Passed(Fund(w))
  <2>1. PICK n \in Funds(got) : Sheet[got[n].src].day = Sheet[w].day
    BY <1>1 DEF Handing
  <2>2. got[n].src = w
    BY <2>1, OrderlyBook DEF Handing, DistinctDays
  <2>3. Key(got[n]) = Fund(w) /\ n \in DOMAIN got
    BY <2>2 DEF Key, Fund, Funds
  <2>4. Fund(w) \in Keys(got)
    BY <2>3 DEF Keys
  <2> QED
    BY <2>4
<1>2. ASSUME Passed(Fund(w)) PROVE Sheet[w].day \in emitted
  <2>1. Fund(w) \in Expected
    BY BookOrder DEF Fund
  <2>2. PICK n \in DOMAIN got : Key(got[n]) = Fund(w)
    BY <1>2, <2>1 DEF Keys
  <2>3. n \in Funds(got) /\ got[n].src = w
    BY <2>2 DEF Key, Fund, Funds
  <2> QED
    BY <2>3 DEF Handing
<1> QED
  BY <1>1, <1>2

\* While the orders are read.
LEMMA AtOrder ==
  ASSUME Kept, Concerned, pc = "rows", file.market = "tiktok"
  PROVE  /\ file \in Workbooks /\ by = "import" /\ Orderly
         /\ Cursor /\ Counted /\ Handing
         /\ got \in Seq(Range(got)) /\ Ordered(got) /\ Keys(got) = {key \in Expected : Passed(key)}
<1>1. by = "import" /\ Orderly
  BY DEF Concerned
<1>2. file \in Workbooks
  BY <1>1, BookByMarket DEF Kept, ReaderInv
<1>3. Promised
  BY <1>1, <1>2, OrderlyBook DEF Promised
<1>4. Cursor /\ Counted /\ Handing
  BY <1>1, <1>3 DEF Kept, ReaderInv, Places
<1> QED
  BY <1>1, <1>2, <1>4 DEF Kept, ReadInv, Concerned

\* Every order of an orderly workbook is one of the row on top.
LEMMA RowOnTop ==
  ASSUME file \in Workbooks, Orderly, Cursor, Counted, Reading("tiktok"), ~ZeroOrder
  PROVE  OnTop(Rows[pos]) /\ Stack(Rows[pos]) # 0
<1> DEFINE e == file.earned[pos]
<1>1. pos \in DOMAIN Rows /\ pos \in Nat /\ DOMAIN Rows = 1..Len(Rows) /\ Len(Rows) \in Nat
  BY BookIs DEF Cursor, Reading
<1>2. /\ e \in Earnings /\ Sheet[e].day = Rows[pos].day /\ Len(Sheet) \in Nat
      /\ \A g \in Earnings : g \in 1..Len(Sheet)
  BY <1>1, BookIs
<1>3. pos \in Handed(e)
  BY <1>1, HandedIs DEF ZeroOrder
<1>4. \A g \in Earnings : Tracked(g)
  BY OrderlyBook
<1> HIDE DEF e
<1>5. ~(e < Top)
  <2> SUFFICES ASSUME e < Top PROVE FALSE
    OBVIOUS
  <2>1. pos < pos
    BY <1>2, <1>3, <1>4 DEF Counted
  <2> QED
    BY <1>1, <2>1
<1>6. /\ Top \in 1..(Len(Sheet) + 1) /\ Cardinality(Earnings) \in Nat
      /\ top <= Cardinality(Earnings) => Top = Data(top) /\ Top \in Earnings
  BY TopIs
<1>7. top <= Cardinality(Earnings)
  <2> SUFFICES ASSUME ~(top <= Cardinality(Earnings)) PROVE FALSE
    OBVIOUS
  <2>1. Top = Len(Sheet) + 1
    BY DEF Top
  <2>2. e \in 1..Len(Sheet)
    BY <1>2
  <2> QED
    BY <1>2, <1>5, <2>1, <2>2
<1>8. ~(Top < e)
  <2> SUFFICES ASSUME Top < e PROVE FALSE
    OBVIOUS
  <2>1. PICK k \in Handed(Top) : k >= pos
    BY <1>4, <1>6, <1>7 DEF Counted
  <2>2. k \in DOMAIN Rows /\ file.earned[k] = Top
    BY <2>1, HandedIs
  <2>3. e <= Top
    BY <1>1, <2>1, <2>2, HeadsRise DEF e
  <2>4. e \in 1..Len(Sheet)
    BY <1>2
  <2> QED
    BY <1>6, <2>3, <2>4
<1>9. Top = e
  <2>1. e \in 1..Len(Sheet)
    BY <1>2
  <2> QED
    BY <1>2, <1>5, <1>6, <1>8, <2>1
<1>10. OnTop(Rows[pos])
  BY <1>2, <1>6, <1>7, <1>9 DEF OnTop
<1>11. Stack(Rows[pos]) = e
  BY <1>6, <1>7, <1>9, <1>10 DEF Stack
<1> QED
  BY <1>2, <1>10, <1>11

\* The steps of a workbook.
LEMMA MapSheetInOrder == Kept /\ Concerned /\ by = "import" /\ MapSheet => ReadInv'
<1> SUFFICES ASSUME Kept, Concerned, by = "import", MapSheet PROVE ReadInv'
  OBVIOUS
<1>1. file \in Statements /\ file.market = "tiktok" /\ pc = "open" /\ file' = file
  BY DEF Kept, ReaderInv, MapSheet, Refuse
<1>2. file \in Workbooks /\ Orderly /\ got = <<>> /\ pos = 1
  BY <1>1, BookByMarket DEF Kept, ReadInv, Concerned, Before
<1>3. pc' = "rows" /\ pos' = pos /\ got' = got
  BY <1>2, OrderlyBook DEF MapSheet
<1>4. got' \in Seq(Range(got')) /\ DOMAIN got' = {} /\ pos' \in Nat \ {0}
  BY <1>2, <1>3
<1>5. Ordered(got)' /\ Keys(got)' = {}
  BY <1>4 DEF Ordered, Keys
<1>6. {key \in Expected : Passed(key)}' = {}
  <2>1. DOMAIN Rows = 1..Len(Rows) /\ Len(Rows) \in Nat /\ Rows' = Rows /\ Expected' = Expected
    BY <1>1, <1>2, BookIs, SameBook, SameOrder
  <2>2. ASSUME NEW key \in Expected PROVE ~Passed(key)'
    <3>1. CASE key[1] = "fund"
      BY <1>1, <1>2, <1>3, <2>1, <3>1 DEF Passed
    <3>2. CASE key[1] # "fund"
      <4>1. PICK n \in DOMAIN Rows : key = <<TiktokType(Rows[n]), n>>
        BY <1>2, <3>2, BookOrder
      <4>2. Passed(key)' <=> n < 1
        BY <1>2, <1>3, <3>2, <4>1 DEF Passed
      <4> QED
        BY <2>1, <4>2
    <3> QED
      BY <3>1, <3>2
  <2> QED
    BY <2>1, <2>2
<1> QED
  BY <1>1, <1>3, <1>4, <1>5, <1>6 DEF ReadInv, Before

\* A row of orders that is left out keeps the order.
LEMMA TiktokSkipInOrder == Kept /\ Concerned /\ TiktokSkip => ReadInv'
<1> SUFFICES ASSUME Kept, Concerned, TiktokSkip PROVE ReadInv'
  OBVIOUS
<1>1. /\ pc = "rows" /\ file.market = "tiktok" /\ pos <= Len(Rows) /\ ZeroOrder
      /\ file' = file /\ pc' = pc /\ pos' = pos + 1 /\ got' = got
  BY DEF TiktokSkip, Reading, Skip
<1>2. /\ file \in Workbooks /\ Cursor /\ got \in Seq(Range(got)) /\ Ordered(got)
      /\ Keys(got) = {key \in Expected : Passed(key)}
  BY <1>1, AtOrder
<1>3. pos \in DOMAIN Rows /\ pos' \in Nat \ {0}
  BY <1>1, <1>2, BookIs DEF Cursor
<1>4. pos \notin Handed(file.earned[pos])
  BY <1>1, <1>2, <1>3, HandedIs DEF ZeroOrder
<1>5. {key \in Expected : Passed(key)}' = {key \in Expected : Passed(key)}
  BY <1>1, <1>2, <1>3, <1>4, PassedMoves
<1>6. Ordered(got)' /\ Keys(got)' = Keys(got)
  BY <1>1, <1>2, SameOrder DEF Ordered, Keys, Key
<1> QED
  BY <1>1, <1>2, <1>3, <1>5, <1>6 DEF ReadInv, Before

\* So does a row of orders, with the withdrawals it closes.
LEMMA TiktokRowInOrder == Kept /\ Concerned /\ TiktokRow => ReadInv'
<1> SUFFICES ASSUME Kept, Concerned, TiktokRow PROVE ReadInv'
  OBVIOUS
<1> DEFINE r == Rows[pos]
           w == Head1(Stack(r))
           item == RowItem(pos, TiktokType(r), r.order)
           new == <<TiktokType(r), pos>>
           passed == {key \in Expected : Passed(key)}
<1>1. /\ Reading("tiktok") /\ ~ZeroOrder /\ Stack(r) # 0
      /\ Hand(IF DueNow(w) THEN <<WdItem(w), item>> ELSE <<item>>, "rows")
      /\ pos' = pos + 1 /\ file' = file /\ pc = "rows" /\ file.market = "tiktok"
  BY DEF TiktokRow, Reading
<1>2. /\ file \in Workbooks /\ Orderly /\ Cursor /\ Counted /\ Handing
      /\ got \in Seq(Range(got)) /\ Ordered(got) /\ Keys(got) = passed
  BY <1>1, AtOrder
<1>3. pos \in DOMAIN Rows /\ pos' \in Nat \ {0}
  BY <1>1, <1>2, BookIs DEF Cursor, Reading
<1>4. w = Head1(file.earned[pos]) /\ pos \in Handed(file.earned[pos])
  BY <1>1, <1>2, <1>3, StackIsOwn, HandedIs DEF ZeroOrder
<1>5. Key(item) = new /\ \A v : Key(WdItem(v)) = Fund(v)
  BY DEF Key, RowItem, WdItem, Fund
<1> HIDE DEF w, item
<1>6. w \in {0} \cup KeptWds
  <2>1. file.earned[pos] \in Nat
    BY <1>2, <1>3, BookIs
  <2> DEFINE e == file.earned[pos]
  <2> HIDE DEF e
  <2>2. Head1(e) \in {0} \cup KeptWds
    BY <1>2, <2>1, HeadIs DEF e
  <2> QED
    BY <1>4, <2>2 DEF e
<1>7. DueNow(w) <=> w # 0 /\ ~Passed(Fund(w))
  BY <1>2, <1>6, EmittedIsPassed DEF DueNow
<1> HIDE DEF new
<1>8. /\ new \in Expected
      /\ \A key \in Expected : Passed(key) => Earlier(key, new)
      /\ \A key \in Expected : Earlier(key, new) => Passed(key) \/ key = Fund(w)
      /\ w # 0 => Fund(w) \in Expected /\ Earlier(Fund(w), new)
      /\ w # 0 /\ ~Passed(Fund(w)) => /\ \A key \in Expected : Passed(key) => Earlier(key, Fund(w))
                                     /\ \A key \in Expected : Earlier(key, Fund(w)) => Passed(key)
  BY <1>2, <1>3, <1>4, BeforeRow DEF new
<1>9. w = 0 => Fund(w) \notin Expected
  <2> SUFFICES ASSUME w = 0, Fund(w) \in Expected PROVE FALSE
    OBVIOUS
  <2>1. w \in KeptWds
    BY <1>2, BookOrder DEF Fund
  <2> QED
    BY <1>2, <2>1, BookIs
<1>10. {key \in Expected : Passed(key)}' = {key \in Expected : Passed(key) \/ key = new \/ key = Fund(w)}
  BY <1>1, <1>2, <1>3, <1>4, PassedMoves DEF new
<1>11. CASE DueNow(w)
  <2>1. Hand(<<WdItem(w), item>>, "rows") /\ w # 0 /\ ~Passed(Fund(w))
    BY <1>1, <1>7, <1>11
  <2>2. {key \in Expected : Earlier(key, Fund(w))} = Keys(got)
    BY <1>2, <1>8, <2>1
  <2>3. {key \in Expected : Earlier(key, new)} = Keys(got) \cup {Fund(w)}
    BY <1>2, <1>8, <2>1
  <2>4. /\ <<WdItem(w), item>> \in Seq(Range(<<WdItem(w), item>>)) /\ InTurn(<<WdItem(w), item>>)
        /\ Keys(<<WdItem(w), item>>) = {Fund(w), new}
    <3> DEFINE f == WdItem(w)
    <3>1. Key(f) = Fund(w)
      BY <1>5
    <3> HIDE DEF f
    <3>2. /\ <<f, item>> \in Seq(Range(<<f, item>>)) /\ InTurn(<<f, item>>)
          /\ Keys(<<f, item>>) = {Fund(w), new}
      BY <1>5, <1>8, <2>1, <2>2, <2>3, <3>1, TwoInTurn
    <3> QED
      BY <3>2 DEF f
  <2>5. /\ got' \in Seq(Range(got')) /\ Ordered(got)'
        /\ \/ pc' = "rows" /\ Keys(got)' = Keys(got) \cup {Fund(w), new}
           \/ pc' = "failed"
    BY <1>1, <1>2, <2>1, <2>4, HandsInTurn
  <2>6. {key \in Expected : Passed(key)}' = Keys(got) \cup {Fund(w), new}
    BY <1>2, <1>8, <1>10, <2>1
  <2> QED
    BY <1>1, <1>3, <2>5, <2>6 DEF ReadInv, Before
<1>12. CASE ~DueNow(w)
  <2>1. Hand(<<item>>, "rows") /\ (w = 0 \/ Passed(Fund(w)))
    BY <1>1, <1>7, <1>12
  <2>2. {key \in Expected : Earlier(key, new)} = Keys(got)
    BY <1>2, <1>8, <1>9, <2>1
  <2>3. <<item>> \in Seq(Range(<<item>>)) /\ InTurn(<<item>>) /\ Keys(<<item>>) = {new}
    BY <1>5, <1>8, <2>2, OneInTurn
  <2>4. /\ got' \in Seq(Range(got')) /\ Ordered(got)'
        /\ \/ pc' = "rows" /\ Keys(got)' = Keys(got) \cup {new}
           \/ pc' = "failed"
    BY <1>1, <1>2, <2>1, <2>3, HandsInTurn
  <2>5. {key \in Expected : Passed(key)}' = Keys(got) \cup {new}
    BY <1>2, <1>8, <1>9, <1>10, <2>1
  <2> QED
    BY <1>1, <1>3, <2>4, <2>5 DEF ReadInv, Before
<1> QED
  BY <1>11, <1>12

\* So does handing the withdrawals that are left.
LEMMA TiktokRestInOrder == Kept /\ Concerned /\ TiktokRest => ReadInv'
<1> SUFFICES ASSUME Kept, Concerned, TiktokRest PROVE ReadInv'
  OBVIOUS
<1> DEFINE rest == {w \in KeptWds : Sheet[w].day \notin emitted}
           items == [n \in 1..Cardinality(rest) |-> WdItem(Nth(rest, n))]
<1>1. /\ pc = "rows" /\ file.market = "tiktok" /\ pos > Len(Rows) /\ Hand(items, "done")
      /\ file' = file /\ by' = by /\ pos' = pos
  BY DEF TiktokRest
<1>2. /\ file \in Workbooks /\ Orderly /\ Cursor /\ Handing
      /\ got \in Seq(Range(got)) /\ Ordered(got)
      /\ Keys(got) = {key \in Expected : Passed(key)}
  BY <1>1, AtOrder
<1>3. /\ DOMAIN Rows = 1..Len(Rows) /\ Len(Rows) \in Nat /\ pos \in Nat \ {0}
  BY <1>2, BookIs DEF Cursor
<1>4. \A key \in Expected : Passed(key)
  <2>1. ASSUME NEW w \in KeptWds PROVE Passed(<<"fund", w>>)
    <3>1. PICK q \in DOMAIN Rows : q \in Handed(file.earned[q]) /\ Head1(file.earned[q]) = w
      BY <1>2, OrderlyBook
    <3>2. q < pos
      BY <1>1, <1>3
    <3> QED
      BY <1>1, <3>1, <3>2 DEF Passed
  <2>2. ASSUME NEW n \in DOMAIN Rows PROVE Passed(<<TiktokType(Rows[n]), n>>)
    <3>1. n < pos
      BY <1>1, <1>3
    <3> QED
      BY <1>2, <3>1, BookOrder DEF Passed
  <2> QED
    BY <1>2, <2>1, <2>2, BookOrder
<1>5. Keys(got) = Expected
  BY <1>2, <1>4
<1>6. rest = {}
  <2>1. ASSUME NEW w \in KeptWds PROVE Sheet[w].day \in emitted
    <3>1. Fund(w) \in Expected
      BY <1>2, BookOrder DEF Fund
    <3> QED
      BY <1>2, <1>4, <3>1, EmittedIsPassed
  <2> QED
    BY <2>1
<1> HIDE DEF rest
<1>7. items = <<>>
  <2>1. Cardinality(rest) = 0
    BY <1>6, FS_EmptySet
  <2> QED
    BY <2>1
<1> HIDE DEF items
<1>8. got' = got /\ pc' = "done"
  <2>1. DOMAIN items = {} /\ got \o items = got
    BY <1>2, <1>7, ConcatEmptySeq
  <2> QED
    BY <1>1, <2>1 DEF Hand
<1> QED
  BY <1>1, <1>2, <1>3, <1>5, <1>8, StopsInOrder

-----------------------------------------------------------------------------
(* The order: every step keeps it.                                          *)

\* No step changes the file or who reads it.
LEMMA SameSource ==
  ASSUME [StreamNext]_svars
  PROVE  file' = file /\ by' = by
BY DEF svars, vars, StreamNext, QueueTask, Queued, CheckShop, StreamRow, Close, AskAgain, Import,
       OldReader, OrderRow, WithdrawalRow, SheetEnd, Next, Unsupported, MapSheet, TiktokSkip,
       TiktokStray, TiktokPanic, TiktokRow, TiktokRest, OpenReport, ShopeeInProcess,
       ShopeeSkip, ShopeeRow, CloseReport, OpenCsv, MengantarRow, Skip, Refuse

\* Nothing has been handed when a reader begins.
LEMMA ReadStarts == StreamInit => ReadInv
<1> SUFFICES ASSUME StreamInit PROVE ReadInv
  OBVIOUS
<1>1. pc \in Before /\ got = <<>> /\ pos = 1 /\ last = NoRow
  BY DEF StreamInit, Init, Before
<1>2. got \in Seq(Range(got)) /\ DOMAIN got = {}
  BY <1>1
<1> QED
  BY <1>1, <1>2 DEF ReadInv, Ordered, Before

\* Nothing happens.
LEMMA ReadRests ==
  ASSUME ReadInv, UNCHANGED svars
  PROVE  ReadInv'
<1>1. /\ by' = by /\ file' = file /\ pc' = pc /\ pos' = pos /\ last' = last /\ got' = got
  BY DEF svars, vars
<1>2. /\ Rows' = Rows /\ Real' = Real /\ Expected' = Expected
      /\ \A a, b : Earlier(a, b)' <=> Earlier(a, b)
      /\ (Orderly' <=> Orderly)
      /\ \A e : Handed(e)' = Handed(e)
      /\ \A n : Head1(n)' = Head1(n)
  BY <1>1, SameBook, SameOrder
<1>3. Ordered(got) => Ordered(got)'
  BY <1>1, <1>2 DEF Ordered, Key
<1>4. LastIs => LastIs'
  BY <1>1, <1>2 DEF LastIs, LastAt, Failed, NoRow
<1>5. Keys(got)' = Keys(got)
  BY <1>1 DEF Keys, Key
<1>6. \A key : Passed(key)' <=> Passed(key)
  BY <1>1, <1>2 DEF Passed
<1>7. {key \in Expected : Passed(key)}' = {key \in Expected : Passed(key)}
  BY <1>2, <1>6
<1>8. NoRow' = NoRow
  BY DEF NoRow
<1> QED
  BY <1>1, <1>2, <1>3, <1>4, <1>5, <1>7, <1>8 DEF ReadInv, Before

\* Every step keeps the order.
LEMMA ReadSteps == Kept /\ [StreamNext]_svars => ReadInv'
<1> SUFFICES ASSUME Kept, [StreamNext]_svars, Concerned PROVE ReadInv'
  <2>1. Kept /\ [StreamNext]_svars => file' = file /\ by' = by
    BY SameSource
  <2>2. Kept /\ [StreamNext]_svars => (Concerned' <=> Concerned)
    BY <2>1, StaysConcerned
  <2>3. ~Concerned' => ReadInv'
    BY DEF ReadInv, Concerned
  <2> QED
    BY <2>2, <2>3
<1>1. /\ file' = file /\ by' = by /\ file \in Statements \cup Uploads /\ Orderly
      /\ file.market = "tiktok" => by = "import"
      /\ pos \in Nat \ {0}
      /\ pc \in Before => got = <<>> /\ pos = 1 /\ last = NoRow
      /\ pc \in {"done", "closed"} => Keys(got) = Expected
  BY SameSource, SourceKnown DEF Concerned, Kept, ReadInv
<1>2. by = "import" => pc \in {"open", "rows"} \cup Stopped
  BY DEF Kept, ReaderInv
<1>3. by = "stream" => pc # "orders"
  BY <1>1 DEF Kept, StreamInv, Reads
<1>4. by \in {"import", "stream"}
  BY DEF Kept, StreamInv
<1>5. CASE QueueTask
  <2>1. /\ pc = "asked" /\ pc' \in {"queued", "rejected"}
        /\ pos' = pos /\ last' = last /\ got' = got
    BY <1>5 DEF QueueTask, Queued
  <2> QED
    BY <1>1, <2>1, NotBegun, StopsInOrder DEF Before
<1>6. CASE CheckShop
  <2>1. /\ pc = "queued" /\ pc' \in {"orders", "open", "rejected"}
        /\ pc' = "orders" => file.market = "tiktok"
        /\ pos' = pos /\ last' = last /\ got' = got
    BY <1>6 DEF CheckShop
  <2>2. pc' # "orders"
    BY <1>1, <1>2, <2>1 DEF Stopped
  <2> QED
    BY <1>1, <2>1, <2>2, NotBegun, StopsInOrder DEF Before
<1>7. ASSUME ShopeeInProcess PROVE FALSE
  <2>1. Reading("shopee") /\ file.market = "shopee" /\ InProcess(Rows[pos])
    BY <1>7 DEF ShopeeInProcess, Reading
  <2>2. pos \in DOMAIN Rows
    BY <2>1, AtRow
  <2> QED
    BY <1>1, <2>1, <2>2 DEF Orderly
<1>8. CASE OpenReport \/ ShopeeSkip \/ ShopeeRow \/ CloseReport \/ OpenCsv \/ MengantarRow
  BY <1>8, OpenReportInOrder, ShopeeSkipInOrder, ShopeeRowInOrder, CloseReportInOrder,
     OpenCsvInOrder, MengantarRowInOrder
<1>9. CASE StreamRow
  <2>1. ~OrderRow /\ ~WithdrawalRow /\ ~SheetEnd
    BY <1>3, <1>9 DEF StreamRow, OrderRow, WithdrawalRow, SheetEnd, ReadingOrders, ReadingSheet
  <2> QED
    BY <1>7, <1>8, <1>9, <2>1 DEF StreamRow, OldReader
<1>10. CASE Close
  <2>1. pc = "done" /\ pc' \in {"closed", "failed"} /\ got' = got /\ pos' = pos
    BY <1>10 DEF Close
  <2> QED
    BY <1>1, <2>1, StopsInOrder
<1>11. CASE AskAgain
  <2>1. pc' = "asked" /\ got' = <<>> /\ pos' = 1 /\ last' = NoRow
    BY <1>11 DEF AskAgain
  <2> QED
    BY <1>1, <2>1, NotBegun DEF Before
<1>12. CASE Import
  <2>1. by = "import" /\ Next
    BY <1>12 DEF Import
  <2>2. ~Unsupported
    BY <1>1 DEF Unsupported, Orderly
  <2>3. ASSUME TiktokStray \/ TiktokPanic PROVE FALSE
    <3>1. /\ Reading("tiktok") /\ ~ZeroOrder
          /\ Stack(Rows[pos]) = 0 \/ Behind(Rows[pos])
          /\ pc = "rows" /\ file.market = "tiktok"
      BY <2>3 DEF TiktokStray, TiktokPanic, Reading
    <3>2. file \in Workbooks /\ Orderly /\ Cursor /\ Counted
      BY <3>1, AtOrder
    <3> QED
      BY <3>1, <3>2, RowOnTop DEF Behind
  <2> QED
    BY <1>7, <1>8, <2>1, <2>2, <2>3, MapSheetInOrder, TiktokSkipInOrder, TiktokRowInOrder,
       TiktokRestInOrder DEF Next
<1>13. CASE UNCHANGED svars
  BY <1>13, ReadRests DEF Kept
<1> QED
  BY <1>5, <1>6, <1>9, <1>10, <1>11, <1>12, <1>13 DEF StreamNext

\* The inductive invariant of what is read in order (Iterate of the v1 readers).
THEOREM ReadInvariant == StreamSpec => []ReadInv
<1>1. StreamInit => ReadInv
  BY ReadStarts
<1>2. StreamInv /\ ReaderInv /\ ReadInv /\ [StreamNext]_svars => ReadInv'
  BY ReadSteps DEF Kept
<1> QED
  BY <1>1, <1>2, StreamInvariant, ReaderInvariant, PTL DEF StreamSpec

\* An orderly statement is read without an error, in its order, nothing left
\* out and nothing twice (Iterate of the v1 readers).
THEOREM OrderlyIsReadInOrder == StreamSpec => []ReadInOrder
<1>1. ReadInv => ReadInOrder
  BY DEF ReadInv, ReadInOrder, Before, Ordered, Keys
<1> QED
  BY <1>1, ReadInvariant, PTL

-----------------------------------------------------------------------------
(* What the stream tells of an orderly statement.                            *)

\* The amount that a statement gives for an item, and the items that give what
\* the statement does.
Figure(key) == (IF key[1] = "fund" /\ file.market = "tiktok" THEN Sheet ELSE Rows)[key[2]].amount
Truthful(item) ==
    /\ item.amount = Figure(Key(item))
    /\ item.type = "order_fund" => item.order = Rows[item.src].order

\* How far a request has read a workbook: what it has handed lies behind it, and
\* what lies behind and has an amount it has handed.
BooksTold ==
    /\ \A m, n \in DOMAIN got : Key(got[m]) = Key(got[n]) => m = n
    /\ Keys(got) \subseteq Expected
    /\ pc = "orders" => /\ \A key \in Keys(got) : Place(key) < pos
                        /\ \A key \in Expected : Place(key) < pos /\ Figure(key) # 0 => key \in Keys(got)
    /\ pc \in {"done", "closed"} => \A key \in Expected : Figure(key) # 0 => key \in Keys(got)

TellInv == by = "stream" =>
    /\ \A n \in DOMAIN got : Truthful(got[n])
    /\ file.market = "tiktok" => BooksTold /\ (pc \in {"asked", "queued"} => got = <<>>)

\* A workbook that is uploaded.
LEMMA UploadIs ==
  ASSUME file \in Uploads, file.market = "tiktok"
  PROVE  /\ Len(Rows) \in Nat /\ DOMAIN Rows = 1..Len(Rows)
         /\ Len(Sheet) \in Nat /\ DOMAIN Sheet = 1..Len(Sheet)
         /\ \A key \in Expected :
              /\ Place(key) \in 1..(Len(Rows) + Len(Sheet))
              /\ Place(key) <= Len(Rows) =>
                    key = <<TiktokType(Rows[Place(key)]), Place(key)>>
              /\ Place(key) > Len(Rows) =>
                    /\ Place(key) - Len(Rows) \in KeptWds
                    /\ key = Fund(Place(key) - Len(Rows))
<1>1. Rows \in Seq(Range(Rows)) /\ Sheet \in Seq(Range(Sheet))
  BY UploadsAssumption DEF TwoSheets, Rows, Sheet
<1>2. /\ Len(Rows) \in Nat /\ DOMAIN Rows = 1..Len(Rows)
      /\ Len(Sheet) \in Nat /\ DOMAIN Sheet = 1..Len(Sheet)
  BY <1>1, LenProperties
<1> DEFINE P(key) == /\ Place(key) \in 1..(Len(Rows) + Len(Sheet))
                     /\ Place(key) <= Len(Rows) =>
                            key = <<TiktokType(Rows[Place(key)]), Place(key)>>
                     /\ Place(key) > Len(Rows) =>
                            /\ Place(key) - Len(Rows) \in KeptWds
                            /\ key = Fund(Place(key) - Len(Rows))
<1>3. ASSUME NEW w \in KeptWds, NEW key, key = <<"fund", w>> PROVE P(key)
  <2>1. w \in 1..Len(Sheet)
    BY <1>2 DEF KeptWds
  <2>2. Place(key) = w + Len(Rows)
    BY <1>3 DEF Place
  <2>3. Place(key) - Len(Rows) = w /\ Place(key) > Len(Rows) /\ Place(key) \in 1..(Len(Rows) + Len(Sheet))
    BY <1>2, <2>1, <2>2
  <2> QED
    BY <1>2, <1>3, <2>1, <2>2, <2>3 DEF Fund
<1>4. ASSUME NEW n \in DOMAIN Rows, NEW key, key = <<TiktokType(Rows[n]), n>> PROVE P(key)
  <2>1. Place(key) = n
    BY <1>4, BookOrder DEF Place
  <2>2. n \in 1..(Len(Rows) + Len(Sheet)) /\ n <= Len(Rows)
    BY <1>2
  <2> QED
    BY <1>2, <1>4, <2>1, <2>2
<1>5. \A key \in Expected : P(key)
  <2> HIDE DEF P
  <2> QED
    BY <1>3, <1>4, BookOrder
<1> QED
  BY <1>2, <1>5

\* The figures of a file do not change.
LEMMA SameFigures ==
  ASSUME file' = file
  PROVE  /\ \A key : Figure(key)' = Figure(key) /\ Place(key)' = Place(key)
         /\ \A item : Truthful(item)' <=> Truthful(item)
<1>1. Rows' = Rows /\ Sheet' = Sheet
  BY SameBook
<1>2. \A key : Figure(key)' = Figure(key) /\ Place(key)' = Place(key)
  BY <1>1 DEF Figure, Place
<1>3. \A item : Truthful(item)' <=> Truthful(item)
  BY <1>1, <1>2 DEF Truthful, Key
<1> QED
  BY <1>2, <1>3

\* A step that hands nothing.
LEMMA TellsNothing ==
  ASSUME TellInv, by' = by, file' = file, got' = got,
         pc' \notin {"asked", "queued", "orders", "done", "closed"}
            \/ (by = "stream" /\ file.market = "tiktok" => BooksTold' /\ (pc' \in {"asked", "queued"} => got = <<>>))
  PROVE  TellInv'
<1>1. ASSUME by = "stream", file.market = "tiktok", pc' \notin {"asked", "queued", "orders", "done", "closed"}
      PROVE  BooksTold'
  <2>1. BooksTold /\ Keys(got)' = Keys(got) /\ Expected' = Expected
    BY <1>1, SameOrder DEF TellInv, Keys, Key
  <2> QED
    BY <1>1, <2>1 DEF BooksTold, Key
<1> QED
  BY <1>1, SameFigures DEF TellInv

\* A step that hands items of a list.
LEMMA ListTells ==
  ASSUME TellInv, by' = by, file' = file, file.market # "tiktok", got \in Seq(Range(got)),
         NEW items, items \in Seq(Range(items)), NEW label, Hand(items, label),
         \A i \in DOMAIN items : Truthful(items[i])
  PROVE  TellInv'
<1>1. got' \in Seq(Range(got')) /\ \A i \in DOMAIN got : got'[i] = got[i]
  BY HandsTaken
<1>2. PICK k \in 0..Len(items) : /\ Len(got') = Len(got) + k
                                 /\ \A i \in 1..k : got'[Len(got) + i] = items[i]
  BY HandsTaken
<1>3. ASSUME by = "stream", NEW n \in DOMAIN got' PROVE Truthful(got'[n])
  <2>1. /\ Len(got) \in Nat /\ DOMAIN got = 1..Len(got) /\ Len(items) \in Nat
        /\ DOMAIN items = 1..Len(items) /\ DOMAIN got' = 1..(Len(got) + k)
    BY <1>1, <1>2, LenProperties
  <2>2. CASE n \in DOMAIN got
    BY <1>1, <1>3, <2>2 DEF TellInv
  <2>3. CASE n \notin DOMAIN got
    <3> DEFINE i == n - Len(got)
    <3>1. i \in 1..k /\ i \in DOMAIN items /\ n = Len(got) + i
      BY <2>1, <2>3
    <3> HIDE DEF i
    <3> QED
      BY <1>2, <3>1
  <2> QED
    BY <2>2, <2>3
<1> QED
  BY <1>3, SameFigures DEF TellInv

\* An order or a withdrawal of a workbook is handed, or there is none to hand.
LEMMA BookGoesOn ==
  ASSUME TellInv, by = "stream", file \in Uploads, file.market = "tiktok", pc = "orders",
         pos \in Nat, by' = by, file' = file, got' = got, pos' = pos + 1, pc' = "orders",
         \A key \in Expected : ~(Place(key) = pos /\ Figure(key) # 0)
  PROVE  TellInv'
<1>1. Keys(got)' = Keys(got) /\ Expected' = Expected /\ BooksTold
  BY SameOrder DEF Keys, Key, TellInv
<1>2. \A key \in Expected : Place(key) \in Int
  BY UploadIs
<1>3. \A key \in Expected : (Place(key) < pos + 1 /\ Figure(key) # 0) => Place(key) < pos
  BY <1>2
<1>4. \A key \in Keys(got) : Place(key) < pos + 1
  BY <1>1, <1>2 DEF BooksTold
<1>5. \A key \in Expected : (Place(key) < pos + 1 /\ Figure(key) # 0) => key \in Keys(got)
  BY <1>1, <1>3 DEF BooksTold
<1>6. BooksTold'
  BY <1>1, <1>4, <1>5, SameFigures DEF BooksTold, Key
<1> QED
  BY <1>6, TellsNothing

\* An order or a withdrawal of a workbook is handed.
LEMMA BookTells ==
  ASSUME TellInv, by = "stream", file \in Uploads, file.market = "tiktok", pc = "orders",
         pos \in Nat, got \in Seq(Range(got)), by' = by, file' = file, pos' = pos + 1,
         NEW item, Hand(<<item>>, "orders"), Truthful(item),
         Key(item) \in Expected, Place(Key(item)) = pos,
         \A key \in Expected : Place(key) = pos => key = Key(item)
  PROVE  TellInv'
<1> DEFINE N == Len(got)  h == got'  items == <<item>>  here == Key(item)
<1>1. items \in Seq(Range(items)) /\ Len(items) = 1 /\ items[1] = item
  BY DEF Range
<1>2. Hand(items, "orders")
  OBVIOUS
<1> HIDE DEF items
<1>3. PICK k \in 0..Len(items) : /\ Len(got') = Len(got) + k
                                 /\ \A i \in 1..k : got'[Len(got) + i] = items[i]
                                 /\ \/ pc' = "orders" /\ k = Len(items)
                                    \/ pc' = "failed" /\ k < Len(items)
  BY <1>1, <1>2, HandsTaken
<1>4. h \in Seq(Range(h)) /\ \A i \in DOMAIN got : h[i] = got[i]
  BY <1>1, <1>2, HandsTaken
<1>5. /\ N \in Nat /\ DOMAIN got = 1..N /\ DOMAIN h = 1..(N + k)
      /\ k \in 0..1 /\ \A i \in 1..N : h[i] = got[i]
      /\ k = 1 => h[N + 1] = item
      /\ \/ pc' = "orders" /\ k = 1
         \/ pc' = "failed"
  BY <1>1, <1>3, <1>4, LenProperties
<1>6. Keys(got)' = Keys(h) /\ Expected' = Expected /\ BooksTold
  BY SameOrder DEF Keys, Key, TellInv
<1> HIDE DEF N, h, here
<1>7. \A key \in Expected : Place(key) \in Int
  BY UploadIs
<1>8. /\ \A n \in 1..N : Key(got[n]) \in Expected /\ Key(got[n]) \in Keys(got)
      /\ \A key \in Keys(got) : key \in Expected /\ Place(key) < pos
  BY <1>5, <1>6 DEF BooksTold, Keys
<1>9. \A n \in 1..N : Key(got[n]) # here
  BY <1>8 DEF here
<1>10. \A m, n \in DOMAIN h : Key(h[m]) = Key(h[n]) => m = n
  <2> SUFFICES ASSUME NEW m \in DOMAIN h, NEW n \in DOMAIN h, Key(h[m]) = Key(h[n]) PROVE m = n
    OBVIOUS
  <2>1. \A i \in DOMAIN h : i \in 1..N \/ (i = N + 1 /\ k = 1)
    BY <1>5
  <2>2. CASE m \in 1..N /\ n \in 1..N
    BY <1>5, <1>6, <2>2 DEF BooksTold
  <2>3. CASE m = N + 1 /\ n = N + 1
    BY <2>3
  <2>4. k = 1 => Key(h[N + 1]) = here
    BY <1>5 DEF here
  <2> QED
    BY <1>5, <1>9, <2>1, <2>2, <2>3, <2>4
<1>11. Keys(h) = IF k = 1 THEN Keys(got) \cup {here} ELSE Keys(got)
  <2>1. ASSUME NEW n \in DOMAIN h PROVE Key(h[n]) \in Keys(got) \cup (IF k = 1 THEN {here} ELSE {})
    <3>1. n \in 1..N \/ (n = N + 1 /\ k = 1)
      BY <1>5
    <3> QED
      BY <1>5, <1>8, <3>1 DEF here
  <2>2. ASSUME NEW n \in DOMAIN got PROVE Key(got[n]) \in Keys(h)
    <3>1. n \in DOMAIN h /\ h[n] = got[n]
      BY <1>5
    <3> QED
      BY <3>1 DEF Keys
  <2>3. ASSUME k = 1 PROVE here \in Keys(h)
    <3>1. N + 1 \in DOMAIN h /\ h[N + 1] = item
      BY <1>5, <2>3
    <3> QED
      BY <3>1 DEF Keys, here
  <2> QED
    BY <2>1, <2>2, <2>3 DEF Keys
<1>12. Keys(h) \subseteq Expected
  BY <1>8, <1>11 DEF here
<1>13. ASSUME pc' = "orders"
       PROVE  /\ \A key \in Keys(h) : Place(key) < pos + 1
              /\ \A key \in Expected : (Place(key) < pos + 1 /\ Figure(key) # 0) => key \in Keys(h)
  <2>1. Keys(h) = Keys(got) \cup {here} /\ Place(here) = pos
    BY <1>5, <1>11, <1>13 DEF here
  <2>2. \A key \in Keys(h) : Place(key) < pos + 1
    BY <1>7, <1>8, <2>1
  <2>3. ASSUME NEW key \in Expected, Place(key) < pos + 1, Figure(key) # 0 PROVE key \in Keys(h)
    <3>1. Place(key) < pos \/ Place(key) = pos
      BY <1>7, <2>3
    <3>2. CASE Place(key) < pos
      BY <1>6, <2>1, <2>3, <3>2 DEF BooksTold
    <3>3. CASE Place(key) = pos
      BY <2>1, <3>3 DEF here
    <3> QED
      BY <3>1, <3>2, <3>3
  <2> QED
    BY <2>2, <2>3
<1>14. BooksTold'
  BY <1>5, <1>6, <1>10, <1>12, <1>13, SameFigures DEF BooksTold, h, Key
<1>15. ASSUME NEW n \in DOMAIN h PROVE Truthful(h[n])
  <2>1. n \in 1..N \/ (n = N + 1 /\ k = 1)
    BY <1>5
  <2> QED
    BY <1>5, <2>1 DEF TellInv
<1> QED
  BY <1>5, <1>14, <1>15, SameFigures DEF TellInv, h

\* No adjustment of a report is taken for an order.
LEMMA AdjustmentsAreNone ==
  ASSUME NEW note
  PROVE  AdjustmentType(note) # "order_fund"
<1> DEFINE hits == {n \in DOMAIN Phrases : Phrases[n][1] \in note}
<1>1. DOMAIN Phrases = 1..10
  BY DEF Phrases
<1>2. \A n \in 1..10 : Phrases[n][2] # "order_fund"
  <2>1. /\ Phrases[1][2] = "lost_compensation" /\ Phrases[2][2] = "compensation"
        /\ Phrases[3][2] = "commission" /\ Phrases[4][2] = "premi"
        /\ Phrases[5][2] = "packaging" /\ Phrases[6][2] = "return"
        /\ Phrases[7][2] = "return" /\ Phrases[8][2] = "shipping"
        /\ Phrases[9][2] = "lost_compensation" /\ Phrases[10][2] = "lost_compensation"
    BY DEF Phrases
  <2> QED
    BY <2>1
<1>3. AdjustmentType(note) = IF hits = {} THEN "unknown_adj" ELSE Phrases[Min(hits)][2]
  BY DEF AdjustmentType
<1>4. hits \in SUBSET (1..10)
  BY <1>1
<1> HIDE DEF hits
<1>5. hits # {} => Min(hits) \in 1..10
  BY <1>4, MinIsThere
<1> QED
  BY <1>2, <1>3, <1>5

\* Nothing has been told when a request begins.
LEMMA TellStarts == StreamInit => TellInv
BY DEF StreamInit, Init, TellInv, BooksTold, Keys

\* The rows of a list.
LEMMA ShopeeRowTells == TellInv /\ got \in Seq(Range(got)) /\ ShopeeRow => TellInv'
<1> SUFFICES ASSUME TellInv, got \in Seq(Range(got)), ShopeeRow PROVE TellInv'
  OBVIOUS
<1> DEFINE r == Rows[pos]
           item == [RowItem(pos, ShopeeType(r), OrderOf(r)) EXCEPT !.after = r.balance]
           items == <<item>>
<1>1. file.market = "shopee" /\ file' = file /\ by' = by /\ Hand(items, "rows")
  BY DEF ShopeeRow, Reading
<1>2. /\ item.amount = r.amount /\ item.type = ShopeeType(r) /\ item.src = pos
      /\ item.order = OrderOf(r) /\ Key(item) = <<ShopeeType(r), pos>>
  BY DEF RowItem, Key
<1>3. ShopeeType(r) = "order_fund" => r.kind = "order"
  BY AdjustmentsAreNone DEF ShopeeType
<1> HIDE DEF item
<1>4. Truthful(item)
  BY <1>1, <1>2, <1>3 DEF Truthful, Figure, OrderOf
<1>5. items \in Seq(Range(items)) /\ \A i \in DOMAIN items : items[i] = item
  BY DEF Range
<1> HIDE DEF items
<1> QED
  BY <1>1, <1>4, <1>5, ListTells

\* A row of a Mengantar file tells what is imported.
LEMMA MengantarRowTells == TellInv /\ got \in Seq(Range(got)) /\ MengantarRow => TellInv'
<1> SUFFICES ASSUME TellInv, got \in Seq(Range(got)), MengantarRow PROVE TellInv'
  OBVIOUS
<1> DEFINE item == RowItem(pos, "order_fund", Rows[pos].order)
           fund == [item EXCEPT !.type = "fund", !.order = NoOrder]
           label == IF pos = Parsed THEN "done" ELSE "rows"
           items == <<fund, item>>
<1>1. file.market = "mengantar" /\ file' = file /\ by' = by /\ Hand(items, label)
  BY DEF MengantarRow, Reading
<1>2. Truthful(item) /\ Truthful(fund)
  BY <1>1 DEF Truthful, Figure, RowItem, Key
<1> HIDE DEF item, fund
<1>3. items \in Seq(Range(items)) /\ \A i \in DOMAIN items : items[i] \in {fund, item}
  BY DEF Range
<1> HIDE DEF items, label
<1> QED
  BY <1>1, <1>2, <1>3, ListTells

\* The orders of a workbook, and then its withdrawals.
LEMMA OrderRowTells == StreamInv /\ TellInv /\ by = "stream" /\ OrderRow => TellInv'
<1> SUFFICES ASSUME StreamInv, TellInv, by = "stream", OrderRow PROVE TellInv'
  OBVIOUS
<1> DEFINE r == Rows[pos]
           item == RowItem(pos, TiktokType(r), r.order)
<1>1. /\ pc = "orders" /\ file \in Uploads /\ file.market = "tiktok"
      /\ pos \in Nat \ {0} /\ got \in Seq(Range(got)) /\ pos <= Len(Rows)
      /\ file' = file /\ by' = by
  BY DEF OrderRow, ReadingOrders, StreamInv, Reads, Skip
<1>2. /\ pos \in DOMAIN Rows
      /\ \A key \in Expected : Place(key) = pos => key = <<TiktokType(r), pos>>
  BY <1>1, UploadIs
<1>3. TiktokType(r) # "fund" /\ <<TiktokType(r), pos>>[1] = TiktokType(r) /\ <<TiktokType(r), pos>>[2] = pos
  BY DEF TiktokType
<1>4. CASE r.amount = 0
  <2>1. pc' = "orders" /\ pos' = pos + 1 /\ got' = got
    BY <1>1, <1>4 DEF OrderRow, Skip
  <2>2. Figure(<<TiktokType(r), pos>>) = 0
    BY <1>3, <1>4 DEF Figure
  <2> QED
    BY <1>1, <1>2, <2>1, <2>2, BookGoesOn
<1>5. CASE r.amount # 0
  <2>1. pos' = pos + 1 /\ Hand(<<item>>, "orders")
    BY <1>5 DEF OrderRow
  <2>2. /\ Key(item) = <<TiktokType(r), pos>> /\ item.amount = r.amount /\ item.order = r.order
        /\ item.src = pos
    BY DEF RowItem, Key
  <2> HIDE DEF item
  <2>3. Truthful(item) /\ Place(Key(item)) = pos
    BY <1>3, <2>2 DEF Truthful, Figure, Place
  <2>4. Key(item) \in Expected
    <3>1. pos \in Handed(file.earned[pos])
      BY <1>2, <1>5, HandedIs
    <3> QED
      BY <1>1, <1>2, <2>2, <3>1, BookOrder
  <2>5. \A key \in Expected : Place(key) = pos => key = Key(item)
    BY <1>2, <2>2
  <2>6. pos \in Nat
    BY <1>1
  <2> QED
    BY <1>1, <2>1, <2>3, <2>4, <2>5, <2>6, BookTells
<1> QED
  BY <1>4, <1>5

\* So does a row of a TikTok workbook's sheet.
LEMMA WithdrawalRowTells == StreamInv /\ TellInv /\ by = "stream" /\ WithdrawalRow => TellInv'
<1> SUFFICES ASSUME StreamInv, TellInv, by = "stream", WithdrawalRow PROVE TellInv'
  OBVIOUS
<1> DEFINE w == At
           r == Sheet[w]
           item == [WdItem(w) EXCEPT !.after = 0]
<1>1. /\ pc = "orders" /\ file \in Uploads /\ file.market = "tiktok"
      /\ pos \in Nat \ {0} /\ got \in Seq(Range(got)) /\ w \in DOMAIN Sheet
      /\ file' = file /\ by' = by
  BY DEF WithdrawalRow, ReadingSheet, StreamInv, Reads, Skip, Refuse
<1>2. /\ w = pos - Len(Rows) /\ Len(Rows) \in Nat /\ w \in Nat \ {0} /\ pos > Len(Rows)
      /\ \A key \in Expected : Place(key) = pos => w \in KeptWds /\ key = Fund(w)
  <2>1. w = pos - Len(Rows)
    BY DEF At
  <2>2. Len(Rows) \in Nat /\ w \in Nat \ {0}
    BY <1>1, UploadIs
  <2>3. pos > Len(Rows)
    BY <1>1, <2>1, <2>2
  <2>4. \A key \in Expected : Place(key) = pos => pos - Len(Rows) \in KeptWds /\ key = Fund(pos - Len(Rows))
    BY <1>1, <2>3, UploadIs
  <2> QED
    BY <2>1, <2>2, <2>3, <2>4
<1>3. Figure(Fund(w)) = r.amount /\ (w \in KeptWds <=> r.type = "Withdrawal" /\ Settled(r))
  BY <1>1 DEF Figure, Fund, KeptWds
<1> HIDE DEF w
<1>4. CASE r.type = "Withdrawal" /\ r.status = "In Process"
  <2>1. pc' = "refused" /\ got' = got
    BY <1>4 DEF WithdrawalRow, Refuse, w
  <2> QED
    BY <1>1, <2>1, TellsNothing
<1>5. CASE ~(r.type = "Withdrawal" /\ r.status = "In Process") /\ ~Paid(r)
  <2>1. pc' = "orders" /\ pos' = pos + 1 /\ got' = got
    BY <1>1, <1>5 DEF WithdrawalRow, Skip, w
  <2>2. w \in KeptWds => Figure(Fund(w)) = 0
    BY <1>3, <1>5 DEF Paid
  <2> QED
    BY <1>1, <1>2, <2>1, <2>2, BookGoesOn
<1>6. CASE ~(r.type = "Withdrawal" /\ r.status = "In Process") /\ Paid(r)
  <2>1. pos' = pos + 1 /\ Hand(<<item>>, "orders")
    BY <1>6 DEF WithdrawalRow, w
  <2>2. Key(item) = Fund(w) /\ item.amount = r.amount /\ item.type = "fund"
    BY DEF WdItem, Key, Fund
  <2> HIDE DEF item
  <2>3. Truthful(item)
    BY <1>3, <2>2 DEF Truthful
  <2>4. Place(Key(item)) = pos
    BY <1>1, <1>2, <2>2 DEF Place, Fund
  <2>5. w \in KeptWds
    BY <1>3, <1>6 DEF Paid
  <2>6. Key(item) \in Expected
    BY <1>1, <2>2, <2>5, BookOrder DEF Fund
  <2>7. pos \in Nat /\ \A key \in Expected : Place(key) = pos => key = Key(item)
    BY <1>1, <1>2, <2>2
  <2> QED
    BY <1>1, <2>1, <2>3, <2>4, <2>6, <2>7, BookTells
<1> QED
  BY <1>4, <1>5, <1>6

\* So does the end of that sheet.
LEMMA SheetEndTells == StreamInv /\ TellInv /\ by = "stream" /\ SheetEnd => TellInv'
<1> SUFFICES ASSUME StreamInv, TellInv, by = "stream", SheetEnd PROVE TellInv'
  OBVIOUS
<1>1. /\ pc = "orders" /\ file \in Uploads /\ file.market = "tiktok" /\ pos \in Nat \ {0}
      /\ pos - Len(Rows) > Len(Sheet) /\ pc' = "done"
      /\ file' = file /\ by' = by /\ got' = got
  BY DEF SheetEnd, StreamInv, Reads, At
<1>2. Len(Rows) \in Nat /\ Len(Sheet) \in Nat
      /\ \A key \in Expected : Place(key) \in 1..(Len(Rows) + Len(Sheet))
  BY <1>1, UploadIs
<1>3. \A key \in Expected : Place(key) < pos
  BY <1>1, <1>2
<1>4. BooksTold /\ Keys(got)' = Keys(got) /\ Expected' = Expected
  BY <1>1, SameOrder DEF TellInv, Keys, Key
<1>5. BooksTold'
  BY <1>1, <1>3, <1>4, SameFigures DEF BooksTold, Key
<1> QED
  BY <1>1, <1>5, TellsNothing

\* Every step keeps what is told.
LEMMA TellSteps == StreamInv /\ TellInv /\ [StreamNext]_svars => TellInv'
<1> SUFFICES ASSUME StreamInv, TellInv, [StreamNext]_svars, by = "stream" PROVE TellInv'
  <2>1. StreamInv /\ TellInv /\ [StreamNext]_svars => by' = by
    BY SameSource
  <2> QED
    BY <2>1 DEF TellInv
<1>1. file' = file /\ by' = by
  BY SameSource
<1>2. /\ got \in Seq(Range(got)) /\ pc = "orders" => file.market = "tiktok"
      /\ pc \in {"open", "rows"} => file.market # "tiktok"
  BY DEF StreamInv, Reads
<1>3. Keys(got)' = {Key(got'[n]) : n \in DOMAIN got'} /\ Expected' = Expected
  BY <1>1, SameOrder DEF Keys, Key
<1>4. CASE UNCHANGED svars
  <2>1. got' = got /\ pc' = pc /\ pos' = pos
    BY <1>4 DEF svars, vars
  <2>2. BooksTold => BooksTold'
    BY <1>1, <1>3, <2>1, SameFigures DEF BooksTold, Keys, Key
  <2> QED
    BY <1>1, <2>1, <2>2, SameFigures DEF TellInv
<1>5. CASE QueueTask \/ CheckShop
  <2>1. /\ got' = got /\ pos' = pos
        /\ pc \in {"asked", "queued"}
        /\ pc' \in {"queued", "rejected", "orders", "open"}
    BY <1>5 DEF QueueTask, Queued, CheckShop
  <2>2. ASSUME file.market = "tiktok" PROVE BooksTold' /\ got = <<>>
    <3>1. got = <<>> /\ file \in Uploads /\ pos = 1
      BY <2>1, <2>2 DEF TellInv, StreamInv, Reads
    <3>2. DOMAIN got' = {} /\ Keys(got)' = {}
      BY <1>3, <2>1, <3>1
    <3>3. \A key \in Expected : ~(Place(key) < 1)
      BY <2>2, <3>1, UploadIs
    <3> QED
      BY <1>1, <1>3, <2>1, <3>1, <3>2, <3>3, SameFigures DEF BooksTold
  <2> QED
    BY <1>1, <2>1, <2>2, TellsNothing
<1>6. CASE AskAgain
  <2>1. got' = <<>> /\ pc' = "asked"
    BY <1>6 DEF AskAgain
  <2>2. BooksTold'
    BY <1>3, <2>1 DEF BooksTold
  <2> QED
    BY <1>1, <2>1, <2>2 DEF TellInv
<1>7. CASE Close
  <2>1. got' = got /\ pos' = pos /\ pc = "done" /\ pc' \in {"closed", "failed"}
    BY <1>7 DEF Close
  <2>2. BooksTold => BooksTold'
    BY <1>1, <1>3, <2>1, SameFigures DEF BooksTold, Keys, Key
  <2> QED
    BY <1>1, <2>1, <2>2, TellsNothing DEF TellInv
<1>8. CASE StreamRow
  <2>1. CASE OpenReport \/ ShopeeInProcess \/ ShopeeSkip \/ CloseReport \/ OpenCsv
    <3>1. got' = got /\ file.market # "tiktok"
      BY <2>1 DEF OpenReport, ShopeeInProcess, ShopeeSkip, CloseReport, OpenCsv, Reading, Skip, Refuse
    <3> QED
      BY <1>1, <3>1, TellsNothing
  <2> QED
    BY <1>2, <1>8, <2>1, ShopeeRowTells, MengantarRowTells, OrderRowTells, WithdrawalRowTells,
       SheetEndTells DEF StreamRow, OldReader, StreamInv, Reads
<1>9. CASE Import
  BY <1>9 DEF Import
<1> QED
  BY <1>4, <1>5, <1>6, <1>7, <1>8, <1>9 DEF StreamNext

\* The inductive invariant of what a request tells (SubmitWithdrawal of v2).
THEOREM TellInvariant == StreamSpec => []TellInv
BY TellStarts, TellSteps, StreamInvariant, PTL DEF StreamSpec

\* What is earlier than itself: nothing.  So of items in order no two are one.
LEMMA OrderedAreDistinct ==
  ASSUME Ordered(got), got \in Seq(Range(got)), \A key \in Expected : ~Earlier(key, key)
  PROVE  \A m, n \in DOMAIN got : Key(got[m]) = Key(got[n]) => m = n
<1>1. DOMAIN got = 1..Len(got) /\ Len(got) \in Nat
  BY LenProperties
<1>2. ASSUME NEW m \in DOMAIN got, NEW n \in DOMAIN got, m < n, Key(got[m]) = Key(got[n])
      PROVE  FALSE
  <2>1. m \in 1..(n - 1)
    BY <1>1, <1>2
  <2>2. Key(got[m]) \in {Key(got[k]) : k \in 1..(n - 1)}
    BY <2>1
  <2>3. Earlier(Key(got[n]), Key(got[n])) /\ Key(got[n]) \in Expected
    BY <1>2, <2>2 DEF Ordered
  <2> QED
    BY <2>3
<1> QED
  BY <1>1, <1>2

\* What is told is what the import hands on.
LEMMA ToldAsImported == StreamInv /\ ReaderInv /\ ReadInv /\ TellInv => TellsWhatIsImported
<1> SUFFICES ASSUME StreamInv, ReaderInv, ReadInv, TellInv, by = "stream", Orderly
             PROVE  LET now == Events(got) IN
                    /\ \A key \in BagToSet(now) : now[key] = 1
                    /\ BagToSet(now) \subseteq Imported
                    /\ pc = "closed" => BagToSet(now) = Imported
  BY DEF TellsWhatIsImported
<1>1. file \in Uploads /\ got \in Seq(Range(got))
  BY DEF StreamInv, Reads
<1>2. /\ \A m, n \in DOMAIN got : Key(got[m]) = Key(got[n]) => m = n
      /\ Keys(got) \subseteq Expected
      /\ pc = "closed" => \A key \in Expected : Figure(key) # 0 => key \in Keys(got)
  <2>1. CASE file.market = "tiktok"
    BY <2>1 DEF TellInv, BooksTold
  <2>2. CASE file.market # "tiktok"
    <3>1. Ordered(got) /\ (pc = "closed" => Keys(got) = Expected)
      BY <2>2 DEF ReadInv
    <3>2. file.market \in {"shopee", "mengantar"}
      BY <2>2 DEF Orderly
    <3>3. \A key \in Expected : ~Earlier(key, key)
      <4>1. \A key \in Expected : key[2] \in Int
        BY <1>1, <3>2, ReportOrder, CsvOrder, ListIs
      <4>2. CASE file.market = "shopee"
        BY <1>1, <4>1, <4>2, ReportOrder
      <4>3. CASE file.market = "mengantar"
        BY <1>1, <4>1, <4>3, CsvOrder
      <4> QED
        BY <3>2, <4>2, <4>3
    <3> QED
      BY <1>1, <3>1, <3>3, OrderedAreDistinct DEF Ordered, Keys
  <2> QED
    BY <2>1, <2>2
<1> DEFINE Wanted(key) == /\ key[1] \in Cases
                          /\ Figure(key) # 0
                          /\ key[1] = "order_fund" => Rows[key[2]].order \in Known
<1>3. \A n \in DOMAIN got : HasEvent(got[n]) <=> Wanted(Key(got[n]))
  <2> SUFFICES ASSUME NEW n \in DOMAIN got PROVE HasEvent(got[n]) <=> Wanted(Key(got[n]))
    OBVIOUS
  <2>1. Truthful(got[n])
    BY DEF TellInv
  <2>2. Key(got[n])[1] = got[n].type /\ Key(got[n])[2] = got[n].src
    BY DEF Key
  <2> QED
    BY <2>1, <2>2 DEF HasEvent, Truthful
<1>4. \A key \in Expected : key = <<key[1], key[2]>>
  <2>1. CASE file.market = "tiktok"
    BY <1>1, <2>1, BookOrder
  <2>2. CASE file.market = "shopee"
    BY <1>1, <2>2, ReportOrder
  <2>3. CASE file.market = "mengantar"
    BY <1>1, <2>3, CsvOrder
  <2> QED
    BY <2>1, <2>2, <2>3 DEF Orderly
<1>5. Imported = {key \in Expected : Wanted(key)}
  <2>1. \A key \in Expected : Figure(key) =
          (IF key[1] = "fund" /\ file.market = "tiktok" THEN Sheet ELSE Rows)[key[2]].amount
    BY DEF Figure
  <2> QED
    BY <1>4, <2>1 DEF Imported
<1>6. BagToSet(Events(got)) = {key \in Keys(got) : Wanted(key)}
  <2>1. BagToSet(Events(got)) = {Key(got[n]) : n \in Sent(got)}
    BY DEF BagToSet, Events
  <2> HIDE DEF Wanted
  <2> QED
    BY <1>3, <2>1 DEF Keys, Sent
<1>7. \A key \in BagToSet(Events(got)) : Events(got)[key] = 1
  BY <1>2, DistinctEvents DEF BagToSet
<1>8. \A key : Wanted(key) => Figure(key) # 0
  OBVIOUS
<1> HIDE DEF Wanted
<1>9. BagToSet(Events(got)) \subseteq Imported
  BY <1>2, <1>5, <1>6
<1>10. pc = "closed" => BagToSet(Events(got)) = Imported
  BY <1>2, <1>5, <1>6, <1>8
<1> QED
  BY <1>7, <1>9, <1>10

\* Of an orderly statement a request tells each row at most once, no other than
\* the rows that the import will hand to its processor, and when it closes all
\* of them (SubmitWithdrawal of v2 beside the import that it queues).
THEOREM StreamTellsTheImport == StreamSpec => []TellsWhatIsImported
BY ToldAsImported, StreamInvariant, ReaderInvariant, ReadInvariant, TellInvariant, PTL

-----------------------------------------------------------------------------
(* What is told of balances: sums over the items and over the rows.          *)

\* What the items S of a sequence g bring.
Told(g, S) == MapThenSumSet(LAMBDA k : g[k].amount, S)

\* A sum over items, one item at a time.
LEMMA ToldIs ==
  ASSUME NEW g, NEW S, IsFiniteSet(S), \A k \in S : g[k].amount \in Int
  PROVE  /\ Told(g, S) \in Int /\ Told(g, {}) = 0
         /\ \A k \in S : Told(g, S) = g[k].amount + Told(g, S \ {k})
<1> DEFINE w == [k \in S |-> g[k].amount]
<1>1. w \in [S -> Int] /\ \A k \in S : w[k] = g[k].amount
  OBVIOUS
<1>2. ASSUME NEW T \in SUBSET S PROVE Told(g, T) = SumFunctionOnSet(w, T)
  BY DEF Told, MapThenSumSet, MapThenFoldSet, SumFunctionOnSet, FoldFunctionOnSet
<1> HIDE DEF w
<1>3. Told(g, S) \in Int /\ Told(g, {}) = 0
  <2>1. /\ S \in SUBSET S /\ {} \in SUBSET S /\ IsFiniteSet({})
    BY FS_EmptySet
  <2>2. SumFunctionOnSet(w, S) \in Int /\ SumFunctionOnSet(w, {}) = 0
    BY <1>1, <2>1, SumSteps
  <2> QED
    BY <1>2, <2>1, <2>2
<1>4. ASSUME NEW k \in S PROVE Told(g, S) = g[k].amount + Told(g, S \ {k})
  <2>1. S \in SUBSET S /\ S \ {k} \in SUBSET S
    OBVIOUS
  <2>2. SumFunctionOnSet(w, S) = w[k] + SumFunctionOnSet(w, S \ {k})
    BY <1>1, <2>1, SumWithout
  <2> QED
    BY <1>1, <1>2, <2>1, <2>2
<1> QED
  BY <1>3, <1>4

\* The same items bring the same.
LEMMA ToldAlike ==
  ASSUME NEW g, NEW h, NEW S, IsFiniteSet(S), \A k \in S : g[k].amount \in Int /\ h[k] = g[k]
  PROVE  Told(h, S) = Told(g, S)
<1> DEFINE Wrong == {T \in SUBSET S : Told(h, T) # Told(g, T)}
<1>1. SUFFICES ASSUME Wrong # {} PROVE FALSE
  <2>1. S \in SUBSET S
    OBVIOUS
  <2> QED
    BY <1>1, <2>1
<1>2. PICK T \in Wrong : \A U \in Wrong : U \subseteq T => U = T
  <2> HIDE DEF Wrong
  <2>1. Wrong \in SUBSET (SUBSET S)
    BY DEF Wrong
  <2> QED
    BY <1>1, <2>1, SmallestSet
<1>3. T \in SUBSET S /\ IsFiniteSet(T) /\ Told(h, T) # Told(g, T)
  <2>1. T \in SUBSET S /\ Told(h, T) # Told(g, T)
    BY <1>2
  <2> QED
    BY <2>1, FS_Subset
<1>4. \A k \in T : g[k].amount \in Int /\ h[k].amount = g[k].amount
  BY <1>3
<1>5. T # {}
  <2>1. Told(h, {}) = 0 /\ Told(g, {}) = 0
    BY FS_EmptySet, ToldIs
  <2> QED
    BY <1>3, <2>1
<1>6. PICK k \in T : TRUE
  BY <1>5
<1>7. Told(h, T \ {k}) = Told(g, T \ {k})
  <2>1. T \ {k} \in SUBSET S /\ T \ {k} # T /\ T \ {k} \subseteq T
    BY <1>3, <1>6
  <2> QED
    BY <1>2, <2>1
<1>8. Told(h, T) = h[k].amount + Told(h, T \ {k}) /\ Told(g, T) = g[k].amount + Told(g, T \ {k})
  BY <1>3, <1>4, <1>6, ToldIs
<1> QED
  BY <1>3, <1>4, <1>6, <1>7, <1>8

\* A statement whose rows are amounts.
Amounts == /\ Len(Rows) \in Nat /\ DOMAIN Rows = 1..Len(Rows)
           /\ \A n \in DOMAIN Rows : Rows[n].amount \in Int

\* A sum over rows, one row at a time.
LEMMA BringsIs ==
  ASSUME Amounts, NEW S \in SUBSET DOMAIN Rows
  PROVE  /\ IsFiniteSet(S) /\ Brought(S) \in Int /\ Brought({}) = 0
         /\ \A n \in S : Brought(S) = Rows[n].amount + Brought(S \ {n})
<1>1. IsFiniteSet(S)
  <2>1. Len(Rows) \in Nat /\ S \in SUBSET (1..Len(Rows))
    BY DEF Amounts
  <2>2. IsFiniteSet(1..Len(Rows))
    BY <2>1, FS_Interval
  <2> QED
    BY <2>1, <2>2, FS_Subset
<1>2. \A n \in S : Rows[n].amount \in Int
  BY DEF Amounts
<1>3. \A T : Brought(T) = Told(Rows, T)
  BY DEF Brought, Told
<1> QED
  BY <1>1, <1>2, <1>3, ToldIs

\* Items of different rows bring what the rows do.
LEMMA ToldIsBrought ==
  ASSUME Amounts, NEW g, NEW S, IsFiniteSet(S),
         \A k \in S : /\ g[k].src \in DOMAIN Rows /\ g[k].amount = Rows[g[k].src].amount
                      /\ \A l \in S : g[k].src = g[l].src => k = l
  PROVE  Told(g, S) = Brought({g[k].src : k \in S})
<1> DEFINE Of(T) == {g[k].src : k \in T}
           Wrong == {T \in SUBSET S : Told(g, T) # Brought(Of(T))}
<1>1. SUFFICES ASSUME Wrong # {} PROVE FALSE
  <2>1. S \in SUBSET S
    OBVIOUS
  <2> QED
    BY <1>1, <2>1
<1>2. PICK T \in Wrong : \A U \in Wrong : U \subseteq T => U = T
  <2> HIDE DEF Wrong
  <2>1. Wrong \in SUBSET (SUBSET S)
    BY DEF Wrong
  <2> QED
    BY <1>1, <2>1, SmallestSet
<1>3. T \in SUBSET S /\ IsFiniteSet(T) /\ Told(g, T) # Brought(Of(T))
  <2>1. T \in SUBSET S /\ Told(g, T) # Brought(Of(T))
    BY <1>2
  <2> QED
    BY <2>1, FS_Subset
<1>4. \A k \in T : g[k].amount \in Int /\ g[k].src \in DOMAIN Rows
  BY <1>3 DEF Amounts
<1>5. T # {}
  <2>1. Told(g, {}) = 0 /\ Brought({}) = 0 /\ Of({}) = {}
    BY FS_EmptySet, ToldIs, BringsIs
  <2> QED
    BY <1>3, <2>1
<1>6. PICK k \in T : TRUE
  BY <1>5
<1>7. Told(g, T \ {k}) = Brought(Of(T \ {k}))
  <2>1. T \ {k} \in SUBSET S /\ T \ {k} # T /\ T \ {k} \subseteq T
    BY <1>3, <1>6
  <2> QED
    BY <1>2, <2>1
<1>8. Of(T \ {k}) = Of(T) \ {g[k].src}
  BY <1>3, <1>6
<1>9. /\ Told(g, T) = g[k].amount + Told(g, T \ {k})
      /\ Brought(Of(T)) = Rows[g[k].src].amount + Brought(Of(T) \ {g[k].src})
  <2>1. Of(T) \in SUBSET DOMAIN Rows /\ g[k].src \in Of(T)
    BY <1>4, <1>6
  <2> HIDE DEF Of
  <2>2. Brought(Of(T)) = Rows[g[k].src].amount + Brought(Of(T) \ {g[k].src})
    BY <2>1, BringsIs
  <2>3. Told(g, T) = g[k].amount + Told(g, T \ {k})
    BY <1>3, <1>4, <1>6, ToldIs
  <2> QED
    BY <2>2, <2>3
<1>10. g[k].amount = Rows[g[k].src].amount
  BY <1>3, <1>6
<1> HIDE DEF Of
<1> QED
  BY <1>3, <1>7, <1>8, <1>9, <1>10

\* Rows that bring nothing may be left out.
LEMMA BroughtWithout ==
  ASSUME Amounts, NEW S \in SUBSET DOMAIN Rows, NEW T \in SUBSET S,
         \A n \in S \ T : Rows[n].amount = 0
  PROVE  Brought(S) = Brought(T)
<1> DEFINE Wrong == {U \in SUBSET S : T \subseteq U /\ Brought(U) # Brought(T)}
<1>1. SUFFICES ASSUME Wrong # {} PROVE FALSE
  <2>1. S \in SUBSET S
    OBVIOUS
  <2> QED
    BY <1>1, <2>1
<1>2. IsFiniteSet(S)
  BY BringsIs
<1>3. PICK U \in Wrong : \A V \in Wrong : V \subseteq U => V = U
  <2> HIDE DEF Wrong
  <2>1. Wrong \in SUBSET (SUBSET S)
    BY DEF Wrong
  <2> QED
    BY <1>1, <1>2, <2>1, SmallestSet
<1>4. U \in SUBSET S /\ T \subseteq U /\ Brought(U) # Brought(T)
  BY <1>3
<1>5. PICK n \in U : n \notin T
  BY <1>4
<1>6. Brought(U \ {n}) = Brought(T)
  <2>1. U \ {n} \in SUBSET S /\ T \subseteq U \ {n} /\ U \ {n} # U /\ U \ {n} \subseteq U
    BY <1>4, <1>5
  <2> QED
    BY <1>3, <2>1
<1>7. U \in SUBSET DOMAIN Rows /\ U \ {n} \in SUBSET DOMAIN Rows
  BY <1>4
<1>8. Brought(U) = Rows[n].amount + Brought(U \ {n}) /\ Rows[n].amount = 0 /\ Brought(U \ {n}) \in Int
  BY <1>4, <1>5, <1>7, BringsIs
<1> QED
  BY <1>4, <1>6, <1>8

\* Rows of two sets bring what each set does.
LEMMA BroughtUnion ==
  ASSUME Amounts, NEW A \in SUBSET DOMAIN Rows, NEW B \in SUBSET DOMAIN Rows, A \cap B = {}
  PROVE  Brought(A \cup B) = Brought(A) + Brought(B)
<1> DEFINE D == DOMAIN Rows
           w == [n \in D |-> Rows[n].amount]
<1>1. w \in [D -> Int]
  BY DEF Amounts
<1>2. ASSUME NEW T \in SUBSET D PROVE Brought(T) = SumFunctionOnSet(w, T)
  BY DEF Brought, MapThenSumSet, MapThenFoldSet, SumFunctionOnSet, FoldFunctionOnSet
<1>3. /\ IsFiniteSet(A) /\ IsFiniteSet(B) /\ A \in SUBSET D /\ B \in SUBSET D
      /\ A \cup B \in SUBSET D
  BY BringsIs
<1> HIDE DEF w, D
<1>4. SumFunctionOnSet(w, A \cup B) = SumFunctionOnSet(w, A) + SumFunctionOnSet(w, B)
  BY <1>1, <1>3, SumOfUnion
<1> QED
  BY <1>2, <1>3, <1>4

BookAmounts == file \in Workbooks => Amounts
\* The rows of a workbook have whole amounts.
LEMMA BookHasAmounts == BookAmounts
BY BookIs DEF BookAmounts, Amounts

\* Rows of earnings bring what their orders do.
RowsOf(E) == {q \in DOMAIN Rows : file.earned[q] \in E}
\* By induction over the earnings: each row has the amount of its orders.
LEMMA EarningsBring ==
  ASSUME file \in Workbooks, NEW E \in SUBSET Earnings
  PROVE  Told(Sheet, E) = Brought(RowsOf(E)) /\ Told(Sheet, E) \in Int
<1> DEFINE Wrong == {T \in SUBSET E : Told(Sheet, T) # Brought(RowsOf(T))}
<1>1. Amounts
  BY BookHasAmounts DEF BookAmounts
<1>2. /\ E \in SUBSET (1..Len(Sheet)) /\ Len(Sheet) \in Nat
      /\ \A e \in E : Sheet[e].amount \in Int
      /\ \A T : RowsOf(T) \in SUBSET DOMAIN Rows
  <2>1. \A e \in Earnings : e \in DOMAIN Sheet
    BY DEF Earnings
  <2> QED
    BY <2>1, BookIs DEF RowsOf
<1>3. IsFiniteSet(E)
  <2>1. IsFiniteSet(1..Len(Sheet))
    BY <1>2, FS_Interval
  <2> QED
    BY <1>2, <2>1, FS_Subset
<1>4. Told(Sheet, E) \in Int
  BY <1>2, <1>3, ToldIs
<1>5. SUFFICES ASSUME Wrong # {} PROVE FALSE
  <2>1. E \in SUBSET E
    OBVIOUS
  <2> QED
    BY <1>4, <1>5, <2>1
<1>6. PICK T \in Wrong : \A U \in Wrong : U \subseteq T => U = T
  <2> HIDE DEF Wrong
  <2>1. Wrong \in SUBSET (SUBSET E)
    BY DEF Wrong
  <2> QED
    BY <1>3, <1>5, <2>1, SmallestSet
<1>7. T \in SUBSET E /\ IsFiniteSet(T) /\ Told(Sheet, T) # Brought(RowsOf(T))
  <2>1. T \in SUBSET E /\ Told(Sheet, T) # Brought(RowsOf(T))
    BY <1>6
  <2> QED
    BY <1>3, <2>1, FS_Subset
<1>8. T # {}
  <2>1. Told(Sheet, {}) = 0 /\ Brought({}) = 0
    BY <1>1, FS_EmptySet, ToldIs, BringsIs
  <2>2. RowsOf({}) = {}
    BY DEF RowsOf
  <2> QED
    BY <1>7, <2>1, <2>2
<1>9. PICK e \in T : TRUE
  BY <1>8
<1>10. Told(Sheet, T \ {e}) = Brought(RowsOf(T \ {e}))
  <2>1. T \ {e} \in SUBSET E /\ T \ {e} # T /\ T \ {e} \subseteq T
    BY <1>7, <1>9
  <2> QED
    BY <1>6, <2>1
<1>11. Told(Sheet, T) = Sheet[e].amount + Told(Sheet, T \ {e})
  <2> DEFINE g == Sheet
  <2>1. e \in T /\ IsFiniteSet(T) /\ \A k \in T : g[k].amount \in Int
    BY <1>2, <1>7, <1>9
  <2> HIDE DEF g
  <2>2. Told(g, T) = g[e].amount + Told(g, T \ {e})
    BY <2>1, ToldIs
  <2> QED
    BY <2>2 DEF g
<1>12. Sheet[e].amount = Brought(OrdersOf(e))
  <2>1. e \in DOMAIN Sheet /\ Sheet[e].type = "Earnings"
    BY <1>7, <1>9 DEF Earnings
  <2>2. SheetAddsUp(file)
    BY FiguresAssumption
  <2> QED
    BY <2>1, <2>2 DEF SheetAddsUp, Sheet, Rows, Brought, OrdersOf
<1>13. Brought(RowsOf(T)) = Brought(OrdersOf(e)) + Brought(RowsOf(T \ {e}))
  <2>1. /\ RowsOf(T) = OrdersOf(e) \cup RowsOf(T \ {e})
        /\ OrdersOf(e) \cap RowsOf(T \ {e}) = {}
        /\ OrdersOf(e) \in SUBSET DOMAIN Rows /\ RowsOf(T \ {e}) \in SUBSET DOMAIN Rows
    BY <1>9 DEF RowsOf, OrdersOf
  <2> QED
    BY <1>1, <2>1, BroughtUnion
<1> QED
  BY <1>7, <1>10, <1>11, <1>12, <1>13

\* The rows that a withdrawal paid out, as far as they are handed.
PaidBy(v) == {q \in DOMAIN Rows : q \in Handed(file.earned[q]) /\ Head1(file.earned[q]) = v}

\* What a withdrawal and the earnings it paid out make together.
LEMMA DiffIs ==
  ASSUME file \in Workbooks, NEW v \in KeptWds
  PROVE  /\ Diff(v) = Sheet[v].amount + Brought(PaidBy(v))
         /\ Diff(v) \in Int /\ Sheet[v].amount \in Int /\ Brought(PaidBy(v)) \in Int
<1> DEFINE E == {n \in Earnings : Head1(n) = v}
<1>1. Amounts /\ \A q \in DOMAIN Rows : file.earned[q] \in Earnings
  BY BookHasAmounts, BookIs DEF BookAmounts
<1>2. Diff(v) = Sheet[v].amount + Told(Sheet, E)
  BY DEF Diff, Told
<1>3. Told(Sheet, E) = Brought(RowsOf(E)) /\ Told(Sheet, E) \in Int
  BY EarningsBring
<1>4. RowsOf(E) = {q \in DOMAIN Rows : Head1(file.earned[q]) = v}
  BY <1>1 DEF RowsOf
<1> HIDE DEF E
<1>5. Brought(RowsOf(E)) = Brought(PaidBy(v))
  <2>1. /\ RowsOf(E) \in SUBSET DOMAIN Rows /\ PaidBy(v) \in SUBSET RowsOf(E)
        /\ \A q \in RowsOf(E) \ PaidBy(v) : Rows[q].amount = 0
    BY <1>4, HandedIs DEF PaidBy
  <2> QED
    BY <1>1, <2>1, BroughtWithout
<1>6. Sheet[v].amount \in Int
  BY BookIs DEF KeptWds
<1> QED
  BY <1>2, <1>3, <1>5, <1>6

\* What an older withdrawal left.
LEMMA AfterIs ==
  ASSUME file \in Workbooks, NEW v \in KeptWds, NEW w \in KeptWds, v < w, Between(v, w, KeptWds) = {}
  PROVE  After(v) = After(w) + Sheet[v].amount + Brought(PaidBy(v))
<1> DEFINE d == [k \in KeptWds |-> Diff(k)]
           S == {k \in KeptWds : k < w}
           T == {k \in KeptWds : k < v}
<1>1. KeptWds \in SUBSET (1..Len(Sheet)) /\ Len(Sheet) \in Nat
  BY BookIs
<1>2. \A k \in KeptWds : IsFiniteSet({n \in KeptWds : n < k})
  <2>1. IsFiniteSet(1..Len(Sheet))
    BY <1>1, FS_Interval
  <2>2. \A k \in KeptWds : {n \in KeptWds : n < k} \in SUBSET (1..Len(Sheet))
    BY <1>1
  <2> QED
    BY <2>1, <2>2, FS_Subset
<1>3. d \in [KeptWds -> Int] /\ d[v] = Diff(v)
  BY DiffIs
<1>4. ASSUME NEW U \in SUBSET KeptWds PROVE MapThenSumSet(Diff, U) = SumFunctionOnSet(d, U)
  BY DEF MapThenSumSet, MapThenFoldSet, SumFunctionOnSet, FoldFunctionOnSet
<1>5. /\ v \in S /\ S \ {v} = T /\ S \in SUBSET KeptWds /\ T \in SUBSET KeptWds
      /\ IsFiniteSet(S) /\ IsFiniteSet(T)
  <2>1. \A k \in KeptWds : k \in Int /\ ~(v < k /\ k < w)
    BY <1>1 DEF Between
  <2>2. \A k \in KeptWds : (k < w /\ k # v) <=> k < v
    BY <2>1
  <2>3. v \in S /\ S \ {v} = T
    BY <2>1, <2>2
  <2> QED
    BY <1>2, <2>3
<1>6. After(w) = -SumFunctionOnSet(d, S) /\ After(v) = -SumFunctionOnSet(d, T)
  BY <1>4, <1>5 DEF After
<1> HIDE DEF d, S, T
<1>7. SumFunctionOnSet(d, S) = d[v] + SumFunctionOnSet(d, T)
  <2>1. SumFunctionOnSet(d, S) = d[v] + SumFunctionOnSet(d, S \ {v})
    BY <1>3, <1>5, SumWithout
  <2> QED
    BY <1>5, <2>1
<1>8. SumFunctionOnSet(d, T) \in Int
  BY <1>3, <1>5, SumSteps
<1>9. Diff(v) = Sheet[v].amount + Brought(PaidBy(v)) /\ Diff(v) \in Int /\ Sheet[v].amount \in Int /\ Brought(PaidBy(v)) \in Int
  BY DiffIs
<1> QED
  BY <1>3, <1>6, <1>7, <1>8, <1>9

-----------------------------------------------------------------------------
(* What the items of a TikTok workbook tell of balances.                     *)

\* The items g that have been handed when days are emitted and the rows before
\* p read: the withdrawals are those of the days, each before the rows that it
\* paid out and the rows of later ones; the other items are the rows.
Follows(g, days, p) ==
    /\ \A n \in Funds(g) :
        /\ g[n].src \in KeptWds /\ g[n] = WdItem(g[n].src)
        /\ Sheet[g[n].src].day \in days
        /\ \E q \in DOMAIN Rows : q < p /\ g[n].src = Head1(file.earned[q])
    /\ \A m, n \in Funds(g) : m <= n => g[m].src <= g[n].src
    /\ \A d \in days : \E n \in Funds(g) : Sheet[g[n].src].day = d
    /\ \A k \in DOMAIN g \ Funds(g) :
        /\ g[k].src \in DOMAIN Rows /\ g[k].src < p /\ g[k].src \in Handed(file.earned[g[k].src])
        /\ g[k].amount = Rows[g[k].src].amount
        /\ \A l \in DOMAIN g \ Funds(g) : g[k].src = g[l].src => k = l
        /\ \A m \in Funds(g) : m < k <=> g[m].src <= Head1(file.earned[g[k].src])
    /\ \A q \in DOMAIN Rows : q < p /\ q \in Handed(file.earned[q]) =>
        /\ \E k \in DOMAIN g \ Funds(g) : g[k].src = q
        /\ Head1(file.earned[q]) # 0 => Sheet[Head1(file.earned[q])].day \in days

\* Two withdrawals, one handed after the other, that follow each other in the
\* sheet, and what ToldBalances says of them.
Adjacent(g, m, n) ==
    /\ m < n /\ \A k \in Funds(g) : ~(m < k /\ k < n)
    /\ g[m].src < g[n].src /\ Between(g[m].src, g[n].src, KeptWds) = {}
Balance(g, m, n) == g[m].after = g[n].after + g[m].amount + Told(g, (m + 1)..(n - 1))
BooksBalance(g) == \A m, n \in Funds(g) : Adjacent(g, m, n) => Balance(g, m, n)

BookInv ==
    by = "import" /\ file.market = "tiktok" /\ SplitsCountDown =>
        /\ got \in Seq(Range(got))
        /\ pc = "open" => pos = 1 /\ top = 1 /\ got = <<>> /\ emitted = {}
        /\ pc = "rows" => Cursor /\ Counted /\ Follows(got, emitted, pos)
        /\ BooksBalance(got)

\* The difference of a withdrawal is such a sum, too.
EarnedBy(w) == {n \in Earnings : Head1(n) = w}
DiffsTold == \A w : Diff(w) = Sheet[w].amount + Told(Sheet, EarnedBy(w))
\* It is, by its definition.
LEMMA DiffsAreTold == DiffsTold
BY DEF DiffsTold, Diff, Told, EarnedBy
\* It is so after a step.
LEMMA DiffsAreToldNext == DiffsTold'
BY DiffsAreTold, PTL

\* Of what it says of its withdrawals nothing changes either.
LEMMA SameFunds ==
  ASSUME file' = file
  PROVE  /\ \A w : WdItem(w)' = WdItem(w)
         /\ \A v, w : Between(v, w, KeptWds)' = Between(v, w, KeptWds)
<1>1. Earnings' = Earnings /\ KeptWds' = KeptWds /\ Sheet' = Sheet /\ \A n : Head1(n)' = Head1(n)
  BY SameBook
<1>2. ASSUME NEW w PROVE Diff(w)' = Diff(w)
  <2>1. (Sheet[w].amount + Told(Sheet, EarnedBy(w)))' = Sheet[w].amount + Told(Sheet, EarnedBy(w))
    BY <1>1 DEF EarnedBy
  <2> QED
    BY <2>1, DiffsAreTold, DiffsAreToldNext DEF DiffsTold
<1>3. \A w : After(w)' = After(w)
  BY <1>1, <1>2 DEF After, MapThenSumSet, MapThenFoldSet
<1> QED
  BY <1>1, <1>3 DEF WdItem, Between

\* The heads of the rows.
LEMMA RowHeads ==
  ASSUME file \in Workbooks, NEW q \in DOMAIN Rows
  PROVE  /\ Head1(file.earned[q]) \in {0} \cup KeptWds /\ Head1(file.earned[q]) \in Nat
         /\ \A w \in KeptWds : w \in Nat \ {0} /\ w \in DOMAIN Sheet
<1>1. file.earned[q] \in Earnings /\ \A e \in Earnings \cup KeptWds : e \in Nat \ {0}
  BY BookIs
<1> DEFINE e == file.earned[q]
<1>2. e \in Nat
  BY <1>1
<1> HIDE DEF e
<1>3. Head1(e) \in {0} \cup KeptWds /\ Head1(e) \in Nat
  BY <1>2, HeadIs
<1> QED
  BY <1>1, <1>3 DEF e, KeptWds

\* The items are numbers.
LEMMA FollowsAmounts ==
  ASSUME file \in Workbooks, NEW g, NEW days, NEW p, Follows(g, days, p), NEW n \in DOMAIN g
  PROVE  g[n].amount \in Int
<1>1. CASE n \in Funds(g)
  <2>1. g[n].src \in KeptWds /\ g[n] = WdItem(g[n].src)
    BY <1>1 DEF Follows
  <2>2. g[n].amount = Sheet[g[n].src].amount
    BY <2>1 DEF WdItem
  <2> QED
    BY <2>1, <2>2, BookIs DEF KeptWds
<1>2. CASE n \notin Funds(g)
  <2>1. g[n].src \in DOMAIN Rows /\ g[n].amount = Rows[g[n].src].amount
    BY <1>2 DEF Follows
  <2> QED
    BY <2>1, BookIs
<1> QED
  BY <1>1, <1>2

\* A row is read that is not handed.
LEMMA FollowsSkipped ==
  ASSUME file \in Workbooks, NEW g, NEW days, NEW p \in DOMAIN Rows, Follows(g, days, p),
         p \notin Handed(file.earned[p])
  PROVE  Follows(g, days, p + 1)
<1>1. DOMAIN Rows \in SUBSET Int
  BY BookIs
<1>2. \A q \in DOMAIN Rows : /\ q < p => q < p + 1
                             /\ q < p + 1 => q < p \/ q = p
  BY <1>1
<1> QED
  BY <1>2 DEF Follows

\* A row is handed, and before it its withdrawal if that is due.
LEMMA FollowsHanded ==
  ASSUME file \in Workbooks, NEW g, g \in Seq(Range(g)), NEW days, NEW p \in DOMAIN Rows,
         Follows(g, days, p), p \in Handed(file.earned[p]),
         NEW w, w = Head1(file.earned[p]), NEW due \in BOOLEAN, due = (w # 0 /\ Sheet[w].day \notin days),
         NEW item, item.type # "fund", item.src = p, item.amount = Rows[p].amount,
         NEW h, h \in Seq(Range(h)), \A i \in DOMAIN g : h[i] = g[i],
         NEW last2, last2 = Len(g) + (IF due THEN 2 ELSE 1), Len(h) = last2, h[last2] = item,
         due => h[Len(g) + 1] = WdItem(w),
         NEW more, more = IF due THEN days \cup {Sheet[w].day} ELSE days
  PROVE  Follows(h, more, p + 1)
<1> DEFINE N == Len(g)
           F == Funds(g)
           G == DOMAIN g \ F
           hd(q) == Head1(file.earned[q])
<1>1. /\ N \in Nat /\ DOMAIN g = 1..N /\ DOMAIN h = 1..last2 /\ last2 \in Nat
      /\ last2 = (IF due THEN N + 2 ELSE N + 1)
  BY LenProperties
<1>2. \A i \in DOMAIN h : i \in DOMAIN g \/ i = last2 \/ (due /\ i = N + 1)
  BY <1>1
<1>3. Funds(h) = F \cup (IF due THEN {N + 1} ELSE {}) /\ DOMAIN h \ Funds(h) = G \cup {last2}
  <2>1. due => N + 1 \in DOMAIN h /\ h[N + 1].type = "fund"
    BY <1>1, FundIs
  <2>2. last2 \in DOMAIN h /\ last2 \notin DOMAIN g
    BY <1>1
  <2>3. \A i \in DOMAIN g : i \in DOMAIN h /\ (i \in F <=> h[i].type = "fund") /\ i # N + 1
    BY <1>1 DEF Funds
  <2> QED
    BY <1>2, <2>1, <2>2, <2>3 DEF Funds
<1>4. DOMAIN Rows \in SUBSET Nat
  BY BookIs
<1>5. \A q \in DOMAIN Rows : q < p + 1 <=> q < p \/ q = p
  BY <1>4
<1>6. /\ w \in {0} \cup KeptWds /\ w \in Nat /\ \A v \in KeptWds : v \in Nat \ {0}
      /\ \A q \in DOMAIN Rows : hd(q) \in {0} \cup KeptWds /\ hd(q) \in Nat
      /\ \A q \in DOMAIN Rows : q <= p => hd(q) <= w
  BY RowHeads, HeadsRise
<1>7. \A n \in F : g[n].src \in KeptWds /\ g[n].src \in Nat /\ g[n].src <= w /\ n \in 1..N
  <2> SUFFICES ASSUME NEW n \in F PROVE g[n].src \in KeptWds /\ g[n].src \in Nat /\ g[n].src <= w /\ n \in 1..N
    OBVIOUS
  <2>1. g[n].src \in KeptWds /\ \E q \in DOMAIN Rows : q < p /\ g[n].src = hd(q)
    BY DEF Follows
  <2>2. PICK q \in DOMAIN Rows : q < p /\ g[n].src = hd(q)
    BY <2>1
  <2>3. q <= p
    BY <1>4, <2>2
  <2> QED
    BY <1>1, <1>6, <2>1, <2>2, <2>3 DEF Funds
<1>8. \A k \in G : /\ g[k].src \in DOMAIN Rows /\ g[k].src < p /\ k \in 1..N
                   /\ hd(g[k].src) \in Nat /\ hd(g[k].src) <= w
                   /\ due => hd(g[k].src) < w
  <2> SUFFICES ASSUME NEW k \in G
               PROVE  /\ g[k].src \in DOMAIN Rows /\ g[k].src < p /\ k \in 1..N
                      /\ hd(g[k].src) \in Nat /\ hd(g[k].src) <= w
                      /\ due => hd(g[k].src) < w
    OBVIOUS
  <2>1. /\ g[k].src \in DOMAIN Rows /\ g[k].src < p /\ k \in 1..N
        /\ g[k].src \in Handed(file.earned[g[k].src])
    BY <1>1 DEF Follows
  <2>2. hd(g[k].src) \in Nat /\ hd(g[k].src) <= w
    BY <1>4, <1>6, <2>1
  <2>3. hd(g[k].src) # 0 => Sheet[hd(g[k].src)].day \in days
    BY <2>1 DEF Follows
  <2>4. due => hd(g[k].src) # w
    BY <2>3
  <2> QED
    BY <1>6, <2>1, <2>2, <2>4
<1>9. due => w \in KeptWds /\ WdItem(w).src = w /\ Sheet[w].day \in more
  BY <1>6, FundIs
<1>10. \A i \in DOMAIN g : h[i] = g[i] /\ i <= N /\ i \in Nat
  BY <1>1
<1>11. days \subseteq more
  OBVIOUS
<1>12. ASSUME NEW n \in Funds(h)
       PROVE  /\ h[n].src \in KeptWds /\ h[n] = WdItem(h[n].src)
              /\ Sheet[h[n].src].day \in more
              /\ \E q \in DOMAIN Rows : q < p + 1 /\ h[n].src = hd(q)
  <2>1. CASE n \in F
    <3>1. /\ g[n].src \in KeptWds /\ g[n] = WdItem(g[n].src) /\ Sheet[g[n].src].day \in days
          /\ \E q \in DOMAIN Rows : q < p /\ g[n].src = hd(q)
      BY <2>1 DEF Follows
    <3>2. h[n] = g[n]
      BY <1>10, <2>1 DEF Funds
    <3> QED
      BY <1>5, <1>11, <3>1, <3>2
  <2>2. CASE due /\ n = N + 1
    <3>1. h[n] = WdItem(w) /\ h[n].src = w
      BY <1>9, <2>2
    <3> QED
      BY <1>5, <1>9, <2>2, <3>1
  <2> QED
    BY <1>3, <2>1, <2>2
<1>13. ASSUME NEW m \in Funds(h), NEW n \in Funds(h), m <= n PROVE h[m].src <= h[n].src
  <2>1. CASE n \in F
    <3>1. m \in F
      BY <1>1, <1>3, <1>7, <1>13, <2>1
    <3>2. h[m] = g[m] /\ h[n] = g[n]
      BY <1>10, <2>1, <3>1 DEF Funds
    <3> QED
      BY <1>13, <2>1, <3>1, <3>2 DEF Follows
  <2>2. CASE due /\ n = N + 1
    <3>1. h[n].src = w
      BY <1>9, <2>2
    <3>2. CASE m \in F
      <4>1. h[m] = g[m]
        BY <1>10, <3>2 DEF Funds
      <4> QED
        BY <1>7, <3>1, <3>2, <4>1
    <3>3. CASE m = N + 1
      BY <1>6, <2>2, <3>1, <3>3
    <3> QED
      BY <1>3, <3>2, <3>3
  <2> QED
    BY <1>3, <2>1, <2>2
<1>14. ASSUME NEW d \in more PROVE \E n \in Funds(h) : Sheet[h[n].src].day = d
  <2>1. CASE d \in days
    <3>1. PICK n \in F : Sheet[g[n].src].day = d
      BY <2>1 DEF Follows
    <3>2. n \in Funds(h) /\ h[n] = g[n]
      BY <1>3, <1>10 DEF Funds
    <3> QED
      BY <3>1, <3>2
  <2>2. CASE due /\ d = Sheet[w].day
    <3>1. N + 1 \in Funds(h) /\ h[N + 1].src = w
      BY <1>3, <1>9, <2>2
    <3> QED
      BY <2>2, <3>1
  <2> QED
    BY <2>1, <2>2
<1>15. \A k \in G \cup {last2} : /\ k \in G => h[k].src = g[k].src /\ h[k].amount = g[k].amount
                                 /\ k = last2 => h[k].src = p /\ h[k].amount = Rows[p].amount
                                 /\ k \in G => k # last2
  BY <1>1, <1>10
<1>16. ASSUME NEW k \in G \cup {last2}
       PROVE  /\ h[k].src \in DOMAIN Rows /\ h[k].src < p + 1 /\ h[k].src \in Handed(file.earned[h[k].src])
              /\ h[k].amount = Rows[h[k].src].amount
              /\ \A l \in G \cup {last2} : h[k].src = h[l].src => k = l
              /\ \A m \in Funds(h) : m < k <=> h[m].src <= hd(h[k].src)
  <2>1. CASE k \in G
    <3>1. /\ g[k].src \in DOMAIN Rows /\ g[k].src < p /\ g[k].src \in Handed(file.earned[g[k].src])
          /\ g[k].amount = Rows[g[k].src].amount
          /\ \A l \in G : g[k].src = g[l].src => k = l
          /\ \A m \in F : m < k <=> g[m].src <= hd(g[k].src)
      BY <2>1 DEF Follows
    <3>2. h[k].src = g[k].src /\ h[k].amount = g[k].amount /\ g[k].src \in Nat /\ p \in Nat
      BY <1>4, <1>15, <2>1, <3>1
    <3>3. \A l \in G \cup {last2} : h[k].src = h[l].src => k = l
      BY <1>15, <3>1, <3>2
    <3>4. ASSUME NEW m \in Funds(h) PROVE m < k <=> h[m].src <= hd(h[k].src)
      <4>1. CASE m \in F
        <5>1. h[m] = g[m]
          BY <1>10, <4>1 DEF Funds
        <5> QED
          BY <3>1, <3>2, <4>1, <5>1
      <4>2. CASE due /\ m = N + 1
        <5>1. h[m].src = w /\ k \in 1..N
          BY <1>8, <1>9, <2>1, <4>2
        <5>2. ~(m < k)
          BY <1>1, <4>2, <5>1
        <5>3. hd(h[k].src) < w /\ hd(h[k].src) \in Nat
          BY <1>8, <2>1, <3>2, <4>2
        <5> QED
          BY <1>6, <5>1, <5>2, <5>3
      <4> QED
        BY <1>3, <4>1, <4>2
    <3> QED
      BY <1>5, <3>1, <3>2, <3>3, <3>4
  <2>2. CASE k = last2
    <3>1. h[k].src = p /\ h[k].amount = Rows[p].amount /\ hd(h[k].src) = w
      BY <1>15, <2>2
    <3>2. \A l \in G \cup {last2} : h[k].src = h[l].src => k = l
      <4>1. \A l \in G : h[l].src # p
        BY <1>4, <1>8, <1>15
      <4> QED
        BY <2>2, <3>1, <4>1
    <3>3. ASSUME NEW m \in Funds(h) PROVE m < k /\ h[m].src <= w
      <4>1. CASE m \in F
        <5>1. h[m] = g[m] /\ m \in 1..N
          BY <1>7, <1>10, <4>1 DEF Funds
        <5> QED
          BY <1>1, <1>7, <2>2, <4>1, <5>1
      <4>2. CASE due /\ m = N + 1
        BY <1>1, <1>6, <1>9, <2>2, <4>2
      <4> QED
        BY <1>3, <4>1, <4>2
    <3> QED
      BY <1>5, <3>1, <3>2, <3>3
  <2> QED
    BY <2>1, <2>2
<1>17. ASSUME NEW q \in DOMAIN Rows, q < p + 1, q \in Handed(file.earned[q])
       PROVE  /\ \E k \in G \cup {last2} : h[k].src = q
              /\ hd(q) # 0 => Sheet[hd(q)].day \in more
  <2>1. CASE q < p
    <3>1. /\ \E k \in G : g[k].src = q
          /\ hd(q) # 0 => Sheet[hd(q)].day \in days
      BY <1>17, <2>1 DEF Follows
    <3> QED
      BY <1>11, <1>15, <3>1
  <2>2. CASE q = p
    BY <1>15, <2>2
  <2> QED
    BY <1>5, <1>17, <2>1, <2>2
<1> HIDE DEF N, F, G
<1> QED
  BY <1>3, <1>12, <1>13, <1>14, <1>16, <1>17 DEF Follows

-----------------------------------------------------------------------------
(* Every withdrawal of a workbook that is handed is in balance.             *)

\* Two withdrawals of which nothing was handed in between but what the newer
\* paid out, and all of it.
LEMMA NewBalance ==
  ASSUME file \in Workbooks, NEW g, g \in Seq(Range(g)), NEW days, NEW p, Follows(g, days, p),
         NEW m \in Funds(g), \A k \in Funds(g) : k <= m,
         NEW w \in KeptWds, g[m].src < w, Between(g[m].src, w, KeptWds) = {},
         \A k \in DOMAIN g \ Funds(g) : m < k => Head1(file.earned[g[k].src]) < w,
         \A q \in PaidBy(g[m].src) : q < p,
         NEW h, \A i \in DOMAIN g : h[i] = g[i], h[Len(g) + 1] = WdItem(w)
  PROVE  Balance(h, m, Len(g) + 1)
<1> DEFINE N == Len(g)
           v == g[m].src
           S == (m + 1)..N
<1>1. N \in Nat /\ DOMAIN g = 1..N /\ m \in 1..N
  BY LenProperties DEF Funds
<1>2. v \in KeptWds /\ g[m] = WdItem(v)
  BY DEF Follows
<1>3. \A k \in S : k \in DOMAIN g \ Funds(g) /\ m < k
  BY <1>1
<1>4. \A u \in KeptWds : u \in Nat \ {0}
  BY BookIs
<1> HIDE DEF v
<1>5. \A k \in S : /\ g[k].src \in PaidBy(v) /\ g[k].src \in DOMAIN Rows
                   /\ g[k].amount = Rows[g[k].src].amount
                   /\ \A l \in S : g[k].src = g[l].src => k = l
  <2> SUFFICES ASSUME NEW k \in S
               PROVE  /\ g[k].src \in PaidBy(v) /\ g[k].src \in DOMAIN Rows
                      /\ g[k].amount = Rows[g[k].src].amount
                      /\ \A l \in S : g[k].src = g[l].src => k = l
    OBVIOUS
  <2>1. /\ g[k].src \in DOMAIN Rows /\ g[k].src \in Handed(file.earned[g[k].src])
        /\ g[k].amount = Rows[g[k].src].amount
        /\ \A l \in S : g[k].src = g[l].src => k = l
        /\ v <= Head1(file.earned[g[k].src])
    BY <1>3 DEF Follows, v
  <2>2. Head1(file.earned[g[k].src]) < w
    BY <1>3
  <2> DEFINE u == Head1(file.earned[g[k].src])
  <2>3. u \in {0} \cup KeptWds /\ u \in Nat
    BY <2>1, RowHeads
  <2>4. ~(v < u /\ u < w) \/ u \notin KeptWds
    BY DEF Between, v
  <2> HIDE DEF u
  <2>5. v <= u /\ u < w
    BY <2>1, <2>2 DEF u
  <2>6. u = v
    BY <1>2, <1>4, <2>3, <2>4, <2>5
  <2> QED
    BY <2>1, <2>6 DEF PaidBy, u
<1>6. ASSUME NEW q \in PaidBy(v) PROVE \E k \in S : g[k].src = q
  <2>1. q \in DOMAIN Rows /\ q < p /\ q \in Handed(file.earned[q]) /\ Head1(file.earned[q]) = v
    BY <1>6 DEF PaidBy, v
  <2>2. PICK k \in DOMAIN g \ Funds(g) : g[k].src = q
    BY <2>1 DEF Follows
  <2>3. m < k <=> v <= Head1(file.earned[q])
    BY <2>2 DEF Follows, v
  <2>4. m < k
    BY <1>2, <1>4, <2>1, <2>3
  <2> QED
    BY <1>1, <2>2, <2>4
<1>7. {g[k].src : k \in S} = PaidBy(v)
  BY <1>5, <1>6
<1>8. IsFiniteSet(S)
  <2>1. m + 1 \in Int /\ N \in Int
    BY <1>1
  <2> QED
    BY <2>1, FS_Interval
<1>9. Told(g, S) = Brought(PaidBy(v))
  <2>1. Amounts
    BY BookHasAmounts DEF BookAmounts
  <2> HIDE DEF S
  <2>2. Told(g, S) = Brought({g[k].src : k \in S})
    BY <1>5, <1>8, <2>1, ToldIsBrought
  <2> QED
    BY <1>7, <2>2
<1>10. Told(h, S) = Told(g, S)
  <2>1. \A k \in S : g[k].amount \in Int /\ h[k] = g[k]
    <3>1. \A k \in DOMAIN g : g[k].amount \in Int
      BY FollowsAmounts
    <3> QED
      BY <1>3, <3>1
  <2> HIDE DEF S
  <2> QED
    BY <1>8, <2>1, ToldAlike
<1>11. After(v) = After(w) + Sheet[v].amount + Brought(PaidBy(v))
  <2>1. v < w /\ Between(v, w, KeptWds) = {}
    BY DEF v
  <2> QED
    BY <1>2, <2>1, AfterIs
<1>12. h[m] = WdItem(v) /\ h[N + 1] = WdItem(w)
  BY <1>1, <1>2
<1>13. (m + 1)..((N + 1) - 1) = S
  <2>1. (N + 1) - 1 = N
    BY <1>1
  <2> QED
    BY <2>1
<1> HIDE DEF S, N
<1>14. /\ WdItem(v).after = After(v) /\ WdItem(v).amount = Sheet[v].amount
       /\ WdItem(w).after = After(w)
  BY DEF WdItem
<1>15. h[m].after = h[N + 1].after + h[m].amount + Told(h, S)
  BY <1>9, <1>10, <1>11, <1>12, <1>14
<1> QED
  BY <1>13, <1>15 DEF Balance, N

\* Two withdrawals without a row of their own, one after the other.
LEMMA RestBalance ==
  ASSUME file \in Workbooks, NEW v \in KeptWds, NEW w \in KeptWds, v < w, Between(v, w, KeptWds) = {},
         PaidBy(v) = {}, NEW h, NEW m \in Nat, h[m] = WdItem(v), h[m + 1] = WdItem(w)
  PROVE  Balance(h, m, m + 1)
<1>1. After(v) = After(w) + Sheet[v].amount + Brought({})
  BY AfterIs
<1>2. Brought({}) = 0 /\ Told(h, {}) = 0
  <2>1. Amounts
    BY BookHasAmounts DEF BookAmounts
  <2> QED
    BY <2>1, BringsIs, FS_EmptySet, ToldIs
<1>3. (m + 1)..((m + 1) - 1) = {}
  OBVIOUS
<1>4. /\ WdItem(v).after = After(v) /\ WdItem(v).amount = Sheet[v].amount
      /\ WdItem(w).after = After(w)
  BY DEF WdItem
<1>5. Told(h, (m + 1)..((m + 1) - 1)) = 0
  BY <1>2, <1>3

<1> QED
  BY <1>1, <1>2, <1>4, <1>5 DEF Balance

\* What has been handed stays in balance.
LEMMA BalancesKept ==
  ASSUME NEW g, g \in Seq(Range(g)), NEW h, h \in Seq(Range(h)),
         \A i \in DOMAIN g : h[i] = g[i] /\ g[i].amount \in Int, Len(h) >= Len(g),
         BooksBalance(g), \A m, n \in Funds(h) : n > Len(g) /\ Adjacent(h, m, n) => Balance(h, m, n)
  PROVE  BooksBalance(h)
<1>1. /\ Len(g) \in Nat /\ DOMAIN g = 1..Len(g) /\ Len(h) \in Nat /\ DOMAIN h = 1..Len(h)
  BY LenProperties
<1>2. \A i \in DOMAIN g : i \in Funds(h) <=> i \in Funds(g)
  BY <1>1 DEF Funds
<1>3. ASSUME NEW m \in Funds(h), NEW n \in Funds(h), n <= Len(g), Adjacent(h, m, n)
      PROVE  Balance(h, m, n)
  <2>1. m < n /\ m \in Nat /\ n \in Nat /\ m > 0
    BY <1>1, <1>3 DEF Adjacent, Funds
  <2>2. m \in DOMAIN g /\ n \in DOMAIN g
    BY <1>1, <1>3, <2>1
  <2>3. m \in Funds(g) /\ n \in Funds(g) /\ h[m] = g[m] /\ h[n] = g[n]
    BY <1>2, <2>2
  <2>4. Adjacent(g, m, n)
    <3>1. \A k \in Funds(g) : k \in Funds(h)
      BY <1>2 DEF Funds
    <3> QED
      BY <1>3, <2>3, <3>1 DEF Adjacent
  <2>5. Balance(g, m, n)
    BY <2>3, <2>4 DEF BooksBalance
  <2>6. Told(h, (m + 1)..(n - 1)) = Told(g, (m + 1)..(n - 1))
    <3> DEFINE S == (m + 1)..(n - 1)
    <3>1. S \in SUBSET DOMAIN g
      BY <1>1, <2>1, <2>2
    <3>2. IsFiniteSet(S)
      <4>1. m + 1 \in Int /\ n - 1 \in Int
        BY <2>1
      <4> QED
        BY <4>1, FS_Interval
    <3> HIDE DEF S
    <3>3. \A k \in S : g[k].amount \in Int /\ h[k] = g[k]
      BY <3>1
    <3>4. Told(h, S) = Told(g, S)
      BY <3>2, <3>3, ToldAlike
    <3> QED
      BY <3>4 DEF S
  <2> QED
    BY <2>3, <2>5, <2>6 DEF Balance
<1>4. \A n \in Funds(h) : n > Len(g) \/ n <= Len(g)
  BY <1>1 DEF Funds
<1> QED
  BY <1>3, <1>4 DEF BooksBalance

\* A withdrawal that is due is in balance with the one before it.
LEMMA RowBalance ==
  ASSUME file \in Workbooks, NEW g, g \in Seq(Range(g)), NEW days, NEW p \in DOMAIN Rows,
         Follows(g, days, p), NEW w, w = Head1(file.earned[p]), w # 0, Sheet[w].day \notin days,
         NEW h, h \in Seq(Range(h)), \A i \in DOMAIN g : h[i] = g[i],
         h[Len(g) + 1] = WdItem(w), Len(h) > Len(g),
         NEW m \in Funds(h), Adjacent(h, m, Len(g) + 1)
  PROVE  Balance(h, m, Len(g) + 1)
<1>1. /\ Len(g) \in Nat /\ DOMAIN g = 1..Len(g) /\ Len(h) \in Nat /\ DOMAIN h = 1..Len(h)
  BY LenProperties
<1>2. m \in Funds(g) /\ h[m] = g[m] /\ \A k \in Funds(g) : k <= m
  <2>1. m < Len(g) + 1 /\ m \in 1..Len(h)
    BY <1>1 DEF Adjacent, Funds
  <2>2. m \in DOMAIN g
    BY <1>1, <2>1
  <2>3. m \in Funds(g) /\ h[m] = g[m]
    BY <2>2 DEF Funds
  <2>4. \A k \in Funds(g) : k \in Funds(h) /\ k < Len(g) + 1 /\ k \in Nat
    BY <1>1 DEF Funds
  <2>5. \A k \in Funds(h) : ~(m < k /\ k < Len(g) + 1)
    BY DEF Adjacent
  <2>6. \A k \in Funds(g) : k <= m
    BY <2>1, <2>4, <2>5
  <2> QED
    BY <2>3, <2>6
<1>3. w \in KeptWds /\ h[Len(g) + 1].src = w /\ w \in Nat
  BY RowHeads, FundIs
<1> DEFINE v == g[m].src
<1>4. v < w /\ Between(v, w, KeptWds) = {} /\ v \in KeptWds /\ v \in Nat
  <2>1. v \in KeptWds
    BY <1>2 DEF Follows
  <2> QED
    BY <1>2, <1>3, <2>1, RowHeads DEF Adjacent
<1>5. DOMAIN Rows \in SUBSET Nat
  BY BookIs
<1>6. ASSUME NEW k \in DOMAIN g \ Funds(g) PROVE Head1(file.earned[g[k].src]) < w
  <2> DEFINE q == g[k].src
  <2>1. q \in DOMAIN Rows /\ q < p /\ q \in Handed(file.earned[q])
    BY DEF Follows
  <2>2. Head1(file.earned[q]) <= w /\ Head1(file.earned[q]) \in Nat
    BY <1>5, <2>1, HeadsRise, RowHeads
  <2>3. Head1(file.earned[q]) # 0 => Sheet[Head1(file.earned[q])].day \in days
    BY <2>1 DEF Follows
  <2> HIDE DEF q
  <2>4. Head1(file.earned[q]) # w
    BY <2>3
  <2>5. Head1(file.earned[q]) < w
    BY <1>3, <2>2, <2>4
  <2> QED
    BY <2>5 DEF q
<1>7. ASSUME NEW q \in PaidBy(v) PROVE q < p
  <2>1. q \in DOMAIN Rows /\ Head1(file.earned[q]) = v
    BY DEF PaidBy
  <2>2. ~(p <= q)
    <3> SUFFICES ASSUME p <= q PROVE FALSE
      OBVIOUS
    <3>1. w <= v
      BY <2>1, HeadsRise
    <3> QED
      BY <1>3, <1>4, <3>1
  <2> QED
    BY <1>5, <2>1, <2>2
<1> QED
  BY <1>2, <1>3, <1>4, <1>6, <1>7, NewBalance

\* The withdrawals that are left at the end are in balance, too.
LEMMA RestBalances ==
  ASSUME file \in Workbooks, NEW g, g \in Seq(Range(g)), NEW days, NEW p \in Nat, p > Len(Rows),
         Follows(g, days, p), NEW rest, rest = {w \in KeptWds : Sheet[w].day \notin days},
         NEW h, h \in Seq(Range(h)), \A i \in DOMAIN g : h[i] = g[i],
         NEW taken \in 0..Cardinality(rest), Len(h) = Len(g) + taken,
         \A i \in 1..taken : h[Len(g) + i] = WdItem(Nth(rest, i)),
         NEW m \in Funds(h), NEW n \in Funds(h), n > Len(g), Adjacent(h, m, n)
  PROVE  Balance(h, m, n)
<1> DEFINE N == Len(g)
           C == Cardinality(rest)
           i == n - N
           w == Nth(rest, i)
<1>1. /\ Len(Sheet) \in Nat /\ rest \in SUBSET (1..Len(Sheet))
      /\ \A a, b \in DOMAIN Sheet : a < b => Sheet[a].day >= Sheet[b].day
      /\ \A u \in KeptWds : u \in DOMAIN Sheet /\ u \in Nat \ {0} /\ Sheet[u].day \in Nat
      /\ DOMAIN Rows = 1..Len(Rows) /\ Len(Rows) \in Nat
  BY BookIs DEF KeptWds
<1>2. C \in Nat
  <2>1. IsFiniteSet(1..Len(Sheet))
    BY <1>1, FS_Interval
  <2>2. IsFiniteSet(rest)
    BY <1>1, <2>1, FS_Subset
  <2> QED
    BY <2>2, FS_CardinalityType
<1>3. N \in Nat /\ DOMAIN g = 1..N /\ DOMAIN h = 1..(N + taken) /\ taken \in Nat /\ taken <= C
  BY <1>2, LenProperties
<1>4. i \in 1..taken /\ n = N + i /\ i \in 1..C /\ n \in 1..(N + taken)
  <2>1. n \in 1..(N + taken) /\ n > N
    BY <1>3 DEF Funds
  <2> HIDE DEF C, N
  <2> QED
    BY <1>2, <1>3, <2>1
<1> HIDE DEF C, N, i
<1>5. h[N + i] = WdItem(w) /\ h[n] = WdItem(w)
  BY <1>4 DEF N
<1>6. w \in rest /\ w \in KeptWds /\ Sheet[w].day \notin days
  <2>1. w \in rest
    BY <1>1, <1>4, NthIsThere DEF C
  <2> QED
    BY <2>1
<1>7. \A q \in DOMAIN Rows : q < p
  BY <1>1
<1>8. /\ m < n /\ m \in 1..(N + taken) /\ \A k \in Funds(h) : ~(m < k /\ k < n)
      /\ h[m].src < h[n].src /\ Between(h[m].src, h[n].src, KeptWds) = {}
      /\ h[n].src = w
  BY <1>3, <1>5, FundIs DEF Adjacent, Funds
<1>9. \A j \in 1..taken : N + j \in Funds(h)
  <2>1. \A j \in 1..taken : N + j \in DOMAIN h
    BY <1>3
  <2>2. \A j \in 1..taken : h[N + j].type = "fund"
    BY FundIs DEF N
  <2> QED
    BY <2>1, <2>2 DEF Funds
<1>10. CASE i = 1
  <2> DEFINE v == g[m].src
  <2>1. n = N + 1 /\ m \in DOMAIN g /\ h[m] = g[m]
    BY <1>3, <1>4, <1>8, <1>10
  <2>2. m \in Funds(g)
    BY <2>1 DEF Funds
  <2>3. \A k \in Funds(g) : k \in Funds(h) /\ k < n /\ k \in Nat
    BY <1>3, <2>1 DEF Funds
  <2>4. \A k \in Funds(g) : k <= m
    BY <1>8, <2>3
  <2>5. v \in KeptWds /\ v < w /\ Between(v, w, KeptWds) = {}
    BY <1>8, <2>1, <2>2 DEF Follows
  <2>6. ASSUME NEW k \in DOMAIN g \ Funds(g) PROVE Head1(file.earned[g[k].src]) < w
    <3> DEFINE q == g[k].src
               u == Head1(file.earned[q])
    <3>1. q \in DOMAIN Rows /\ q < p /\ q \in Handed(file.earned[q])
      BY DEF Follows
    <3>2. u # 0 => Sheet[u].day \in days
      BY <3>1 DEF Follows
    <3>3. u \in {0} \cup KeptWds /\ u \in Nat
      BY <3>1, RowHeads
    <3> HIDE DEF q, u
    <3>4. SUFFICES ASSUME ~(u < w) PROVE FALSE
      BY DEF u, q
    <3>5. u \in KeptWds /\ w < u /\ Sheet[u].day \in days
      BY <1>1, <1>6, <3>2, <3>3, <3>4
    <3>6. PICK f \in Funds(g) : Sheet[g[f].src].day = Sheet[u].day
      BY <3>5 DEF Follows
    <3>7. f <= m
      BY <2>4
    <3>8. g[f].src <= v
      BY <2>2, <3>7 DEF Follows
    <3>9. g[f].src \in KeptWds /\ Sheet[g[f].src].day \in days
      BY DEF Follows
    <3> DEFINE e == g[f].src
    <3>10. e \in KeptWds /\ e <= v /\ Sheet[e].day = Sheet[u].day /\ Sheet[e].day \in days
      BY <3>6, <3>8, <3>9
    <3> HIDE DEF e, v
    <3>11. e < w
      BY <1>1, <1>6, <2>5, <3>10
    <3>12. Sheet[e].day >= Sheet[w].day /\ Sheet[w].day >= Sheet[u].day
      BY <1>1, <1>6, <3>5, <3>10, <3>11
    <3>13. Sheet[w].day = Sheet[e].day
      BY <1>1, <1>6, <3>5, <3>10, <3>12
    <3> QED
      BY <1>6, <3>10, <3>13
  <2>7. \A q \in PaidBy(v) : q < p
    BY <1>7 DEF PaidBy
  <2>8. h[Len(g) + 1] = WdItem(w)
    BY <1>5, <1>10 DEF N
  <2> HIDE DEF w
  <2>9. Balance(h, m, Len(g) + 1)
    BY <1>6, <2>2, <2>4, <2>5, <2>6, <2>7, <2>8, NewBalance
  <2> QED
    BY <2>1, <2>9 DEF N
<1>11. CASE i # 1
  <2> DEFINE j == i - 1
             v == Nth(rest, j)
  <2>1. j \in 1..taken /\ j \in 1..C /\ j + 1 = i /\ j + 1 \in 1..C /\ N + j \in Nat /\ N + j + 1 = n
    BY <1>2, <1>3, <1>4, <1>11
  <2> HIDE DEF j
  <2>2. h[N + j] = WdItem(v)
    BY <2>1 DEF N
  <2>3. v \in rest /\ v < w
    BY <1>1, <2>1, NthIsThere, NthNext DEF C
  <2>4. m = N + j
    <3>1. N + j \in Funds(h) /\ N + j < n
      BY <1>9, <2>1
    <3>2. ~(m < N + j)
      BY <1>8, <3>1
    <3> QED
      BY <1>3, <1>4, <1>8, <2>1, <3>2
  <2>5. h[m].src = v /\ v \in KeptWds /\ Sheet[v].day \notin days
    BY <2>2, <2>3, <2>4, FundIs
  <2>6. PaidBy(v) = {}
    <3> SUFFICES ASSUME NEW q \in PaidBy(v) PROVE FALSE
      OBVIOUS
    <3>1. q \in DOMAIN Rows /\ q < p /\ q \in Handed(file.earned[q]) /\ Head1(file.earned[q]) = v
      BY <1>7 DEF PaidBy
    <3>2. v # 0 => Sheet[v].day \in days
      BY <3>1 DEF Follows
    <3> QED
      BY <1>1, <2>5, <3>2
  <2>7. h[m + 1] = WdItem(w) /\ h[m] = WdItem(v) /\ m \in Nat /\ m + 1 = n
    BY <1>5, <2>1, <2>2, <2>4
  <2>8. Between(v, w, KeptWds) = {}
    BY <1>8, <2>5
  <2> HIDE DEF v, w
  <2>9. Balance(h, m, m + 1)
    BY <1>6, <2>3, <2>5, <2>6, <2>7, <2>8, RestBalance
  <2> QED
    BY <2>7, <2>9
<1> QED
  BY <1>10, <1>11

-----------------------------------------------------------------------------
(* Every step keeps the balances.                                           *)

\* What follows in the items of the next state, and their balance.
LEMMA FollowsNext ==
  ASSUME file' = file, NEW h, h = got', NEW more, more = emitted', NEW p, p = pos',
         Follows(h, more, p)
  PROVE  Follows(got, emitted, pos)'
<1>1. KeptWds' = KeptWds /\ Sheet' = Sheet /\ Rows' = Rows
  BY SameBook
<1>2. \A g : Handed(g)' = Handed(g)
  BY SameBook
<1>3. \A n : Head1(n)' = Head1(n)
  BY SameBook
<1>4. \A w : WdItem(w)' = WdItem(w)
  BY SameFunds
<1>5. Funds(got)' = Funds(h)
  BY DEF Funds
<1> QED
  BY <1>1, <1>2, <1>3, <1>4, <1>5 DEF Follows

\* What is in balance stays so while the workbook is the same.
LEMMA BalanceNext ==
  ASSUME file' = file, NEW h, h = got', BooksBalance(h)
  PROVE  BooksBalance(got)'
<1>1. Funds(got)' = Funds(h) /\ \A v, w : Between(v, w, KeptWds)' = Between(v, w, KeptWds)
  BY SameFunds DEF Funds
<1>2. \A m, n : Adjacent(got, m, n)' <=> Adjacent(h, m, n)
  BY <1>1 DEF Adjacent
<1>3. \A m, n : Balance(got, m, n)' <=> Balance(h, m, n)
  BY DEF Balance
<1> QED
  BY <1>1, <1>2, <1>3 DEF BooksBalance

\* The invariant holds when a reader begins.
LEMMA BookStarts == StreamInit => BookInv
<1> SUFFICES ASSUME StreamInit, by = "import" PROVE BookInv
  BY DEF BookInv
<1>1. pc = "open" /\ pos = 1 /\ top = 1 /\ emitted = {} /\ got = <<>>
  BY DEF StreamInit, Init
<1>2. got \in Seq(Range(got)) /\ Funds(got) = {}
  BY <1>1 DEF Funds
<1> QED
  BY <1>1, <1>2 DEF BookInv, BooksBalance

\* A step that hands nothing.
LEMMA BookRests ==
  ASSUME BookInv, by' = by, file' = file, got' = got, pc' # "open" \/ pc' = pc,
         pc' = "open" => pos' = pos /\ top' = top /\ emitted' = emitted,
         (by = "import" /\ file.market = "tiktok" /\ SplitsCountDown /\ pc' = "rows")
            => (Cursor /\ Counted)' /\ Follows(got, emitted, pos)'
  PROVE  BookInv'
<1>1. SplitsCountDown' <=> SplitsCountDown
  BY SameBook
<1>2. BooksBalance(got) => BooksBalance(got)'
  BY BalanceNext
<1> QED
  BY <1>1, <1>2 DEF BookInv

\* The steps of a workbook.
LEMMA MapSheetInBalance ==
  ReaderInv /\ BookInv /\ by = "import" /\ MapSheet => BookInv'
<1> SUFFICES ASSUME ReaderInv, BookInv, by = "import", MapSheet PROVE BookInv'
  OBVIOUS
<1>1. /\ file \in Statements /\ file.market = "tiktok" /\ pc = "open" /\ file' = file /\ by' = by
      /\ got' = got /\ pos' = pos /\ top' = top /\ emitted' = emitted /\ pc' \in {"refused", "rows"}
      /\ (pc' = "rows" => left' = [n \in DOMAIN Sheet |-> Sheet[n].amount])
  BY DEF ReaderInv, MapSheet, Refuse
<1>2. file \in Workbooks
  BY <1>1, BookByMarket
<1>3. ASSUME SplitsCountDown, pc' = "rows" PROVE (Cursor /\ Counted)' /\ Follows(got, emitted, pos)'
  <2>1. pos = 1 /\ top = 1 /\ got = <<>> /\ emitted = {}
    BY <1>1, <1>3 DEF BookInv
  <2>2. (Cursor /\ Counted)'
    BY <1>1, <1>2, <1>3, <2>1, BookOpens
  <2>3. Follows(<<>>, {}, 1)
    <3>1. DOMAIN <<>> = {} /\ Funds(<<>>) = {} /\ \A q \in DOMAIN Rows : ~(q < 1)
      BY <1>2, BookIs DEF Funds
    <3> QED
      BY <3>1 DEF Follows
  <2>4. Follows(got, emitted, pos)'
    BY <1>1, <2>1, <2>3, FollowsNext
  <2> QED
    BY <2>2, <2>4
<1> QED
  BY <1>1, <1>3, BookRests

\* A row of orders that is left out keeps the balances.
LEMMA TiktokSkipInBalance ==
  ReaderInv /\ BookInv /\ by = "import" /\ TiktokSkip => BookInv'
<1> SUFFICES ASSUME ReaderInv, BookInv, by = "import", TiktokSkip PROVE BookInv'
  OBVIOUS
<1>1. /\ pc = "rows" /\ file.market = "tiktok" /\ pos <= Len(Rows) /\ ZeroOrder
      /\ file' = file /\ by' = by /\ pc' = pc /\ pos' = pos + 1 /\ top' = top /\ left' = left
      /\ emitted' = emitted /\ got' = got /\ file \in Workbooks
  BY BookByMarket DEF TiktokSkip, Reading, Skip, ReaderInv
<1>2. ASSUME SplitsCountDown PROVE (Cursor /\ Counted)' /\ Follows(got, emitted, pos)'
  <2>1. Cursor /\ Counted /\ Follows(got, emitted, pos)
    BY <1>1, <1>2 DEF BookInv
  <2>2. pos \in DOMAIN Rows
    BY <1>1, <2>1, BookIs DEF Cursor
  <2>3. pos \notin Handed(Top) /\ pos \notin Handed(file.earned[pos])
    BY <1>1, <2>2, HandedIs DEF ZeroOrder
  <2>4. (Cursor /\ Counted)'
    BY <1>1, <2>1, <2>2, <2>3, StaysOnTop DEF Cursor
  <2>5. Follows(got, emitted, pos + 1)
    BY <1>1, <2>1, <2>2, <2>3, FollowsSkipped
  <2>6. Follows(got, emitted, pos)'
    BY <1>1, <2>5, FollowsNext
  <2> QED
    BY <2>4, <2>6
<1> QED
  BY <1>1, <1>2, BookRests

\* So does a row of orders, with the withdrawals it closes.
LEMMA TiktokRowInBalance ==
  ReaderInv /\ BookInv /\ by = "import" /\ TiktokRow => BookInv'
<1> SUFFICES ASSUME ReaderInv, BookInv, by = "import", TiktokRow, SplitsCountDown' PROVE BookInv'
  BY DEF BookInv
<1> DEFINE r == Rows[pos]
           w == Head1(Stack(r))
           item == RowItem(pos, TiktokType(r), r.order)
           N == Len(got)
           h == got'
           due == DueNow(w)
           items == IF due THEN <<WdItem(w), item>> ELSE <<item>>
           more == emitted'
           p == pos
           size == IF due THEN 2 ELSE 1
<1>1. /\ Reading("tiktok") /\ ~ZeroOrder /\ Stack(r) # 0 /\ Drain(r)
      /\ more = IF due THEN emitted \cup {Sheet[w].day} ELSE emitted
      /\ Hand(items, "rows")
      /\ pos' = p + 1 /\ file' = file /\ by' = by /\ pc = "rows" /\ file.market = "tiktok"
  BY DEF TiktokRow, Reading
<1>2. item.type # "fund" /\ item.src = p /\ item.amount = Rows[p].amount
  BY DEF RowItem, TiktokType
<1>3. file \in Workbooks /\ SplitsCountDown
  BY <1>1, BookByMarket, SameBook DEF ReaderInv
<1>4. Cursor /\ Counted /\ Follows(got, emitted, p) /\ got \in Seq(Range(got)) /\ BooksBalance(got)
  BY <1>1, <1>3 DEF BookInv
<1>5. p \in DOMAIN Rows
  BY <1>1, <1>3, <1>4, BookIs DEF Cursor, Reading
<1>6. w = Head1(file.earned[p]) /\ p \in Handed(file.earned[p])
  BY <1>1, <1>4, <1>5, StackIsOwn, HandedIs DEF ZeroOrder
<1>7. (Cursor /\ Counted)'
  BY <1>1, <1>3, <1>4, CountsOn
<1>8. /\ items \in Seq(Range(items)) /\ Len(items) = size /\ items[size] = item
      /\ (due => items[1] = WdItem(w))
  <2> DEFINE fund == WdItem(w)
  <2> HIDE DEF item
  <2>1. CASE due
    <3>1. items = <<fund, item>> /\ size = 2
      BY <2>1
    <3> HIDE DEF items, due, fund, size
    <3> QED
      BY <2>1, <3>1 DEF Range, fund
  <2>2. CASE ~due
    <3>1. items = <<item>> /\ size = 1
      BY <2>2
    <3> HIDE DEF items, due, fund, size
    <3> QED
      BY <2>2, <3>1 DEF Range
  <2> QED
    BY <2>1, <2>2
<1> HIDE DEF items, item
<1>9. PICK k \in 0..Len(items) : /\ Len(got') = Len(got) + k
                                 /\ \A i \in 1..k : got'[Len(got) + i] = items[i]
                                 /\ \/ pc' = "rows" /\ k = Len(items)
                                    \/ pc' = "failed" /\ k < Len(items)
  BY <1>1, <1>4, <1>8, HandsTaken
<1>10. h \in Seq(Range(h)) /\ \A i \in DOMAIN got : h[i] = got[i]
  BY <1>1, <1>4, <1>8, HandsTaken
<1>11. /\ due = (w # 0 /\ Sheet[w].day \notin emitted) /\ due \in BOOLEAN
  BY DEF DueNow
<1> HIDE DEF h, more, due, w
<1>12. /\ N \in Nat /\ DOMAIN got = 1..N /\ k \in 0..size /\ Len(h) = N + k
       /\ (k >= 1 /\ due => h[N + 1] = WdItem(w))
       /\ (k = size => h[N + size] = item)
       /\ (pc' = "rows" => k = size)
       /\ pc' \in {"rows", "failed"} /\ DOMAIN h = 1..(N + k)
  BY <1>4, <1>8, <1>9, <1>10, LenProperties DEF h
<1>13. ASSUME pc' = "rows" PROVE Follows(got, emitted, pos)'
  <2> DEFINE g == got  days == emitted
  <2>1. /\ Len(h) = Len(g) + size /\ h[Len(g) + size] = item /\ (due => h[Len(g) + 1] = WdItem(w))
        /\ g \in Seq(Range(g)) /\ Follows(g, days, p) /\ \A i \in DOMAIN g : h[i] = g[i]
        /\ due = (w # 0 /\ Sheet[w].day \notin days)
        /\ more = IF due THEN days \cup {Sheet[w].day} ELSE days
    BY <1>1, <1>4, <1>10, <1>11, <1>12, <1>13
  <2> DEFINE last2 == Len(g) + size
  <2>2. due \in BOOLEAN /\ w = Head1(file.earned[p]) /\ h \in Seq(Range(h)) /\ p \in DOMAIN Rows
        /\ p \in Handed(file.earned[p]) /\ last2 = Len(g) + (IF due THEN 2 ELSE 1)
    BY <1>5, <1>6, <1>10, <1>11
  <2>3. Len(h) = last2 /\ h[last2] = item
    BY <2>1
  <2> HIDE DEF g, days, p, r, N, size, last2
  <2>4. Follows(h, more, p + 1)
    <3>1. CASE due
      <4>1. /\ TRUE = (w # 0 /\ Sheet[w].day \notin days) /\ TRUE \in BOOLEAN
            /\ more = IF TRUE THEN days \cup {Sheet[w].day} ELSE days
            /\ last2 = Len(g) + (IF TRUE THEN 2 ELSE 1)
        BY <2>1, <2>2, <3>1
      <4>2. h[Len(g) + 1] = WdItem(w) /\ Follows(g, days, p) /\ g \in Seq(Range(g))
            /\ \A i \in DOMAIN g : h[i] = g[i]
        BY <2>1, <3>1
      <4> QED
        BY <1>2, <1>3, <2>2, <2>3, <4>1, <4>2, FollowsHanded, SMTT(60)
    <3>2. CASE ~due
      <4>1. FALSE = (w # 0 /\ Sheet[w].day \notin days) /\ more = days /\ last2 = Len(g) + 1
        BY <2>1, <2>2, <3>2
      <4> QED
        BY <1>2, <1>3, <2>1, <2>2, <2>3, <4>1, FollowsHanded
    <3> QED
      BY <3>1, <3>2
  <2> QED
    BY <1>1, <2>4, FollowsNext DEF h, more, p
<1>14. ASSUME NEW m \in Funds(h), NEW n \in Funds(h), n > Len(got), Adjacent(h, m, n)
       PROVE  Balance(h, m, n)
  <2>1. n = N + 1 /\ due /\ k >= 1
    <3>1. n \in 1..(N + k) /\ h[n].type = "fund" /\ n > N
      BY <1>12, <1>14 DEF Funds
    <3>2. n = N + size => k = size
      BY <1>12, <3>1
    <3>3. n # N + size
      BY <1>2, <1>12, <3>1, <3>2
    <3> QED
      BY <1>12, <3>1, <3>3
  <2> DEFINE g == got  days == emitted
  <2>2. /\ g \in Seq(Range(g)) /\ Follows(g, days, p) /\ \A i \in DOMAIN g : h[i] = g[i]
        /\ w # 0 /\ Sheet[w].day \notin days /\ n = Len(g) + 1 /\ h[Len(g) + 1] = WdItem(w)
        /\ Len(h) > Len(g)
    <3>1. g \in Seq(Range(g)) /\ Follows(g, days, p) /\ \A i \in DOMAIN g : h[i] = g[i]
      BY <1>4, <1>10
    <3>2. w # 0 /\ Sheet[w].day \notin days
      BY <1>11, <2>1
    <3>3. n = Len(g) + 1 /\ h[Len(g) + 1] = WdItem(w)
      BY <1>12, <2>1
    <3>4. Len(h) > Len(g)
      <4> DEFINE a == Len(h)
      <4>1. a = N + k /\ N \in Nat /\ k \in Int /\ k >= 1
        BY <1>12, <2>1
      <4> HIDE DEF a, N
      <4>2. a > N
        BY <4>1
      <4> QED
        BY <4>2 DEF a, N
    <3> QED
      BY <3>1, <3>2, <3>3, <3>4
  <2>3. Adjacent(h, m, Len(g) + 1)
    BY <1>14, <2>2
  <2> HIDE DEF g, days, p
  <2>4. Balance(h, m, Len(g) + 1)
    BY <1>3, <1>5, <1>6, <1>10, <2>2, <2>3, RowBalance
  <2> QED
    BY <2>2, <2>4
<1>15. BooksBalance(h)
  <2> DEFINE g == got
  <2>1. \A i \in DOMAIN g : h[i] = g[i] /\ g[i].amount \in Int
    BY <1>3, <1>4, <1>10, FollowsAmounts
  <2>2. Len(h) >= Len(g) /\ g \in Seq(Range(g)) /\ BooksBalance(g)
    BY <1>4, <1>12
  <2>3. \A m, n \in Funds(h) : n > Len(g) /\ Adjacent(h, m, n) => Balance(h, m, n)
    BY <1>14
  <2> HIDE DEF g
  <2> QED
    BY <1>10, <2>1, <2>2, <2>3, BalancesKept
<1>16. BooksBalance(got)'
  BY <1>1, <1>15, BalanceNext DEF h
<1> QED
  BY <1>1, <1>7, <1>10, <1>12, <1>13, <1>16 DEF BookInv, h

\* So does handing the withdrawals that are left.
LEMMA TiktokRestInBalance ==
  ReaderInv /\ BookInv /\ by = "import" /\ TiktokRest => BookInv'
<1> SUFFICES ASSUME ReaderInv, BookInv, by = "import", TiktokRest, SplitsCountDown' PROVE BookInv'
  BY DEF BookInv
<1> DEFINE rest == {w \in KeptWds : Sheet[w].day \notin emitted}
           C == Cardinality(rest)
           items == [n \in 1..C |-> WdItem(Nth(rest, n))]
           h == got'
<1>1. /\ pc = "rows" /\ file.market = "tiktok" /\ pos > Len(Rows) /\ Hand(items, "done")
      /\ file' = file /\ by' = by
  BY DEF TiktokRest
<1>2. file \in Workbooks /\ SplitsCountDown
  BY <1>1, BookByMarket, SameBook DEF ReaderInv
<1>3. Cursor /\ Follows(got, emitted, pos) /\ got \in Seq(Range(got)) /\ BooksBalance(got)
  BY <1>1, <1>2 DEF BookInv
<1>4. C \in Nat
  <2>1. KeptWds \in SUBSET (1..Len(Sheet)) /\ Len(Sheet) \in Nat
    BY <1>2, BookIs
  <2>2. rest \in SUBSET (1..Len(Sheet))
    BY <2>1
  <2> DEFINE R == rest
  <2>3. R \in SUBSET (1..Len(Sheet))
    BY <2>2
  <2> HIDE DEF R
  <2>4. IsFiniteSet(1..Len(Sheet))
    BY <2>1, FS_Interval
  <2>5. IsFiniteSet(R)
    BY <2>3, <2>4, FS_Subset
  <2>6. Cardinality(R) \in Nat
    BY <2>5, FS_CardinalityType
  <2> QED
    BY <2>6 DEF R
<1>5. items \in Seq(Range(items)) /\ Len(items) = C /\ \A i \in 1..C : items[i] = WdItem(Nth(rest, i))
  <2>1. items \in [1..C -> Range(items)] /\ \A i \in 1..C : items[i] = WdItem(Nth(rest, i))
    BY DEF Range
  <2> HIDE DEF items, C
  <2> QED
    BY <1>4, <2>1
<1> HIDE DEF items
<1>6. PICK k \in 0..Len(items) : /\ Len(got') = Len(got) + k
                                 /\ \A i \in 1..k : got'[Len(got) + i] = items[i]
                                 /\ \/ pc' = "done" /\ k = Len(items)
                                    \/ pc' = "failed" /\ k < Len(items)
  BY <1>1, <1>3, <1>5, HandsTaken
<1>7. h \in Seq(Range(h)) /\ \A i \in DOMAIN got : h[i] = got[i]
  BY <1>1, <1>3, <1>5, HandsTaken
<1> DEFINE g == got  days == emitted  p == pos
<1>8. /\ g \in Seq(Range(g)) /\ Follows(g, days, p) /\ BooksBalance(g)
      /\ p \in Nat /\ p > Len(Rows) /\ rest = {w \in KeptWds : Sheet[w].day \notin days}
      /\ h \in Seq(Range(h)) /\ \A i \in DOMAIN g : h[i] = g[i] /\ g[i].amount \in Int
      /\ Len(h) = Len(g) + k /\ k \in 0..Cardinality(rest)
      /\ \A i \in 1..k : h[Len(g) + i] = WdItem(Nth(rest, i))
  <2>1. \A i \in DOMAIN g : g[i].amount \in Int
    BY <1>2, <1>3, FollowsAmounts
  <2>2. \A i \in 1..k : h[Len(g) + i] = WdItem(Nth(rest, i))
    <3> HIDE DEF rest
    <3> QED
      BY <1>4, <1>5, <1>6
  <2> QED
    BY <1>1, <1>3, <1>5, <1>6, <1>7, <2>1, <2>2 DEF Cursor
<1> HIDE DEF g, days, p, h, rest
<1>9. ASSUME NEW m \in Funds(h), NEW n \in Funds(h), n > Len(g), Adjacent(h, m, n)
      PROVE  Balance(h, m, n)
  BY <1>2, <1>8, <1>9, RestBalances
<1>10. BooksBalance(h)
  <2>1. Len(h) >= Len(g)
    <3>1. Len(g) \in Nat /\ k \in Nat
      BY <1>4, <1>5, <1>8, LenProperties
    <3> QED
      BY <1>8, <3>1
  <2> QED
    BY <1>8, <1>9, <2>1, BalancesKept
<1>11. BooksBalance(got)'
  BY <1>1, <1>10, BalanceNext DEF h
<1> QED
  BY <1>1, <1>6, <1>8, <1>11 DEF BookInv, h

\* Every step keeps the balances of a workbook.
LEMMA BookSteps == ReaderInv /\ BookInv /\ [StreamNext]_svars => BookInv'
<1> SUFFICES ASSUME ReaderInv, BookInv, [StreamNext]_svars, by = "import", file.market = "tiktok"
             PROVE  BookInv'
  <2>1. ReaderInv /\ BookInv /\ [StreamNext]_svars => by' = by /\ file' = file
    BY SameSource
  <2> QED
    BY <2>1 DEF BookInv
<1>1. file' = file /\ by' = by
  BY SameSource
<1>2. CASE UNCHANGED svars
  <2>1. /\ pc' = pc /\ pos' = pos /\ top' = top /\ left' = left /\ emitted' = emitted /\ got' = got
    BY <1>2 DEF svars, vars
  <2>2. /\ Earnings' = Earnings /\ Sheet' = Sheet /\ Rows' = Rows
        /\ \A g : Tracked(g)' <=> Tracked(g)
        /\ \A g : Handed(g)' = Handed(g)
        /\ \A S : Brought(S)' = Brought(S)
    BY <1>1, SameBook
  <2>3. Top' = Top
    BY <2>1, <2>2 DEF Top, Data
  <2>4. Cursor => Cursor'
    BY <1>1, <2>1, <2>2 DEF Cursor
  <2>5. Counted => Counted'
    BY <1>1, <2>1, <2>2, <2>3 DEF Counted
  <2>6. Follows(got, emitted, pos) => Follows(got, emitted, pos)'
    BY <1>1, <2>1, FollowsNext
  <2> QED
    BY <1>1, <2>1, <2>4, <2>5, <2>6, BookRests DEF BookInv
<1>3. CASE StreamNext
  <2>1. Next
    <3>1. pc \in {"open", "rows"} \cup Stopped
      BY DEF ReaderInv
    <3> QED
      BY <1>3, <3>1 DEF StreamNext, QueueTask, CheckShop, StreamRow, Close, AskAgain, Import, Stopped
  <2>2. CASE Unsupported \/ TiktokStray \/ TiktokPanic
    BY <1>1, <2>2, BookRests DEF Unsupported, TiktokStray, TiktokPanic, Refuse
  <2>3. ~OpenReport /\ ~CloseReport /\ ~OpenCsv /\ ~ShopeeInProcess /\ ~ShopeeSkip /\ ~ShopeeRow /\ ~MengantarRow
    BY DEF OpenReport, CloseReport, OpenCsv, ShopeeInProcess, ShopeeSkip, ShopeeRow, MengantarRow, Reading
  <2> QED
    BY <2>1, <2>2, <2>3, MapSheetInBalance, TiktokSkipInBalance, TiktokRowInBalance,
       TiktokRestInBalance DEF Next
<1> QED
  BY <1>2, <1>3

\* The inductive invariant of the balances that a workbook is read with
\* (calculateAfterAmount, WdEmitted and WdNotEmitted of the v1 TikTok reader).
THEOREM BookInvariant == StreamSpec => []BookInv
<1>1. StreamInit => BookInv
  BY BookStarts
<1>2. ReaderInv /\ BookInv /\ [StreamNext]_svars => BookInv'
  BY BookSteps
<1> QED
  BY <1>1, <1>2, ReaderInvariant, PTL DEF StreamSpec

-----------------------------------------------------------------------------
(* What the items of a Shopee report tell of balances.                       *)

\* Each item has the amount and the balance of its row.
ReportInv ==
    file.market = "shopee" =>
        /\ got \in Seq(Range(got))
        /\ \A n \in DOMAIN got : /\ got[n].amount = Rows[got[n].src].amount
                                 /\ got[n].after = Rows[got[n].src].balance

\* A step that hands nothing.
LEMMA ReportRests ==
  ASSUME ReportInv, file' = file, got' \in {got, <<>>}
  PROVE  ReportInv'
<1>1. Rows' = Rows
  BY SameBook
<1>2. CASE got' = got
  BY <1>1, <1>2 DEF ReportInv
<1>3. CASE got' = <<>>
  BY <1>3 DEF ReportInv
<1> QED
  BY <1>2, <1>3

\* A row of a report is handed with its own amount and balance.
LEMMA ShopeeRowInReport == ReportInv /\ ShopeeRow => ReportInv'
<1> SUFFICES ASSUME ReportInv, ShopeeRow PROVE ReportInv'
  OBVIOUS
<1> DEFINE r == Rows[pos]
           item == [RowItem(pos, ShopeeType(r), OrderOf(r)) EXCEPT !.after = r.balance]
           items == <<item>>
<1>1. file.market = "shopee" /\ file' = file /\ Hand(items, "rows")
  BY DEF ShopeeRow, Reading
<1>2. item.amount = Rows[item.src].amount /\ item.after = Rows[item.src].balance
  BY DEF RowItem
<1> HIDE DEF item
<1>3. items \in Seq(Range(items)) /\ \A i \in DOMAIN items : items[i] = item
  BY DEF Range
<1>4. got \in Seq(Range(got))
  BY <1>1 DEF ReportInv
<1> HIDE DEF items
<1>5. got' \in Seq(Range(got')) /\ \A i \in DOMAIN got : got'[i] = got[i]
  BY <1>1, <1>3, <1>4, HandsTaken
<1>6. PICK k \in 0..Len(items) : /\ Len(got') = Len(got) + k
                                 /\ \A i \in 1..k : got'[Len(got) + i] = items[i]
  BY <1>1, <1>3, <1>4, HandsTaken
<1>7. ASSUME NEW n \in DOMAIN got'
      PROVE  /\ got'[n].amount = Rows[got'[n].src].amount
             /\ got'[n].after = Rows[got'[n].src].balance
  <2>1. /\ Len(got) \in Nat /\ DOMAIN got = 1..Len(got) /\ Len(items) \in Nat
        /\ DOMAIN items = 1..Len(items) /\ DOMAIN got' = 1..(Len(got) + k)
    BY <1>3, <1>4, <1>5, <1>6, LenProperties
  <2>2. CASE n \in DOMAIN got
    BY <1>1, <1>5, <2>2 DEF ReportInv
  <2>3. CASE n \notin DOMAIN got
    <3> DEFINE i == n - Len(got)
    <3>1. i \in 1..k /\ i \in DOMAIN items /\ n = Len(got) + i
      BY <2>1, <2>3
    <3> HIDE DEF i
    <3>2. got'[n] = item
      BY <1>3, <1>6, <3>1
    <3> QED
      BY <1>2, <3>2
  <2> QED
    BY <2>2, <2>3
<1>8. Rows' = Rows
  BY <1>1, SameBook
<1> QED
  BY <1>5, <1>7, <1>8 DEF ReportInv

\* Every step keeps the figures of a report.
LEMMA ReportSteps == StreamInv /\ ReportInv /\ [StreamNext]_svars => ReportInv'
<1> SUFFICES ASSUME StreamInv, ReportInv, [StreamNext]_svars, file.market = "shopee" PROVE ReportInv'
  <2>1. StreamInv /\ ReportInv /\ [StreamNext]_svars => file' = file
    BY SameSource
  <2> QED
    BY <2>1 DEF ReportInv
<1>1. file' = file
  BY SameSource
<1>2. CASE UNCHANGED svars
  BY <1>1, <1>2, ReportRests DEF svars, vars
<1>3. CASE QueueTask \/ CheckShop \/ Close \/ AskAgain
  BY <1>1, <1>3, ReportRests DEF QueueTask, Queued, CheckShop, Close, AskAgain
<1>4. CASE StreamRow
  <2>1. by = "stream" => pc # "orders"
    BY DEF StreamInv, Reads
  <2>2. ~OrderRow /\ ~WithdrawalRow /\ ~SheetEnd /\ ~MengantarRow
    BY <1>4, <2>1 DEF StreamRow, OrderRow, WithdrawalRow, SheetEnd, ReadingOrders, ReadingSheet,
                      MengantarRow, Reading
  <2>3. OpenReport \/ ShopeeInProcess \/ ShopeeSkip \/ CloseReport \/ OpenCsv \/ ShopeeRow
    BY <1>4, <2>2 DEF StreamRow, OldReader
  <2>4. CASE ~ShopeeRow
    <3>1. got' = got
      BY <2>3, <2>4 DEF OpenReport, ShopeeInProcess, ShopeeSkip, CloseReport, OpenCsv, Skip, Refuse
    <3> QED
      BY <1>1, <3>1, ReportRests
  <2> QED
    BY <2>4, ShopeeRowInReport
<1>5. CASE Import
  <2>1. Next
    BY <1>5 DEF Import
  <2>2. ~TiktokRow /\ ~TiktokRest /\ ~MengantarRow
    BY DEF TiktokRow, TiktokRest, MengantarRow, Reading
  <2>3. CASE ~ShopeeRow
    <3>1. got' = got
      BY <2>1, <2>2, <2>3 DEF Next, Unsupported, MapSheet, TiktokSkip, TiktokStray, TiktokPanic,
           OpenReport, ShopeeInProcess, ShopeeSkip, CloseReport, OpenCsv, Skip, Refuse
    <3> QED
      BY <1>1, <3>1, ReportRests
  <2> QED
    BY <2>3, ShopeeRowInReport
<1> QED
  BY <1>2, <1>3, <1>4, <1>5 DEF StreamNext

\* What is handed of a report has the figures of its row (the Shopee reader).
THEOREM ReportInvariant == StreamSpec => []ReportInv
<1>1. StreamInit => ReportInv
  <2>1. StreamInit => got = <<>>
    BY DEF StreamInit, Init
  <2>2. got = <<>> => got \in Seq(Range(got)) /\ DOMAIN got = {}
    OBVIOUS
  <2> QED
    BY <2>1, <2>2 DEF ReportInv
<1>2. StreamInv /\ ReportInv /\ [StreamNext]_svars => ReportInv'
  BY ReportSteps
<1> QED
  BY <1>1, <1>2, StreamInvariant, PTL DEF StreamSpec

-----------------------------------------------------------------------------
(* The balances of a report, row by row.                                    *)

\* The figures of a report.
LEMMA ReportIs ==
  ASSUME file \in Statements \cup Uploads, file.market = "shopee"
  PROVE  /\ Amounts
         /\ \A n \in DOMAIN Rows : Rows[n].balance \in Int
         /\ \A n \in DOMAIN Rows : n + 1 \in DOMAIN Rows =>
                Rows[n].balance = Rows[n + 1].balance + IF Rows[n + 1].copy THEN 0 ELSE Rows[n].amount
         /\ \A n \in DOMAIN Rows : n + 1 \in DOMAIN Rows /\ Rows[n + 1].copy =>
                Rows[n].amount = Rows[n + 1].amount
         /\ \A n \in DOMAIN Rows : Rows[n].copy => ~Failed(Rows[n])
<1>1. Listed(file) /\ BalancesAddUp(file)
  BY StatementsAssumption, UploadsAssumption, FiguresAssumption DEF Statements, TwoSheets
<1>2. DOMAIN Rows = 1..Len(Rows) /\ Len(Rows) \in Nat
  BY ListIs
<1>3. \A n \in DOMAIN Rows : Rows[n].copy => ~Failed(Rows[n]) /\ Rows[n - 1].amount = Rows[n].amount
  BY ListIs
<1>4. \A n \in DOMAIN Rows : Rows[n].amount \in Int /\ Rows[n].balance \in Int
  BY <1>1 DEF Listed, Rows
<1>5. \A n \in DOMAIN Rows : n + 1 \in DOMAIN Rows =>
                Rows[n].balance = Rows[n + 1].balance + IF Rows[n + 1].copy THEN 0 ELSE Rows[n].amount
  BY <1>1 DEF BalancesAddUp, Rows
<1>6. ASSUME NEW n \in DOMAIN Rows, n + 1 \in DOMAIN Rows, Rows[n + 1].copy
      PROVE  Rows[n].amount = Rows[n + 1].amount
  <2> DEFINE k == n + 1
  <2>1. k - 1 = n /\ k \in DOMAIN Rows /\ Rows[k].copy
    BY <1>2, <1>6
  <2> HIDE DEF k
  <2>2. Rows[n].amount = Rows[k].amount
    BY <1>3, <2>1
  <2> QED
    BY <2>2 DEF k
<1> QED
  BY <1>2, <1>3, <1>4, <1>5, <1>6 DEF Amounts

\* From a row down to another: a balance and the rows that are no copies.
Heads(a, n) == {k \in DOMAIN Rows : a < k /\ k <= n /\ ~Rows[k].copy}
Level(a, n) == Rows[a].balance + Rows[n].amount = Rows[n].balance + Rows[a].amount + Brought(Heads(a, n))

\* It holds of a row and itself, of the next row, and so of all below.
LEMMA LevelStarts ==
  ASSUME file \in Statements \cup Uploads, file.market = "shopee", NEW a \in DOMAIN Rows
  PROVE  Level(a, a)
<1>1. Amounts /\ Rows[a].balance \in Int /\ Rows[a].amount \in Int /\ \A k \in DOMAIN Rows : k \in Int
  BY ReportIs DEF Amounts
<1>2. Heads(a, a) = {}
  BY <1>1 DEF Heads
<1>3. Brought({}) = 0
  BY <1>1, BringsIs
<1> QED
  BY <1>1, <1>2, <1>3 DEF Level

\* If a report is level down to a row, it is level down to the next.
LEMMA LevelGoesOn ==
  ASSUME file \in Statements \cup Uploads, file.market = "shopee",
         NEW a \in DOMAIN Rows, NEW n \in DOMAIN Rows, a <= n, n + 1 \in DOMAIN Rows, Level(a, n)
  PROVE  Level(a, n + 1)
<1> DEFINE k == n + 1
           H == Heads(a, n)
           K == Heads(a, k)
<1>1. /\ Amounts /\ k \in DOMAIN Rows /\ k \in Int /\ n \in Int /\ a \in Int /\ k > a
      /\ \A i \in DOMAIN Rows : i \in Int /\ (i <= k <=> i <= n \/ i = k)
      /\ ~(k <= n) /\ \A i \in {a, n, k} : Rows[i].balance \in Int /\ Rows[i].amount \in Int
      /\ Rows[n].balance = Rows[k].balance + (IF Rows[k].copy THEN 0 ELSE Rows[n].amount)
      /\ Rows[k].copy => Rows[n].amount = Rows[k].amount
  <2>1. Amounts
    BY ReportIs
  <2>2. k \in DOMAIN Rows /\ k \in Int /\ n \in Int /\ a \in Int /\ k > a /\ ~(k <= n)
    BY <2>1 DEF Amounts
  <2>3. \A i \in DOMAIN Rows : i \in Int /\ (i <= k <=> i <= n \/ i = k)
    BY <2>1, <2>2 DEF Amounts
  <2> HIDE DEF k
  <2>4. \A i \in {a, n, k} : Rows[i].balance \in Int /\ Rows[i].amount \in Int
    BY <2>1, <2>2, ReportIs DEF Amounts
  <2>5. /\ Rows[n].balance = Rows[k].balance + (IF Rows[k].copy THEN 0 ELSE Rows[n].amount)
        /\ (Rows[k].copy => Rows[n].amount = Rows[k].amount)
    BY <2>2, ReportIs DEF k
  <2> QED
    BY <2>1, <2>2, <2>3, <2>4, <2>5
<1> HIDE DEF k
<1>2. H \in SUBSET DOMAIN Rows /\ K \in SUBSET DOMAIN Rows
  BY DEF Heads
<1>3. Brought(H) \in Int /\ Brought(K) \in Int
  BY <1>1, <1>2, BringsIs
<1>4. /\ Rows[k].copy => K = H
      /\ ~Rows[k].copy => k \in K /\ K \ {k} = H
  BY <1>1 DEF Heads
<1>5. Rows[a].balance + Rows[n].amount = Rows[n].balance + Rows[a].amount + Brought(H)
  BY DEF Level
<1> HIDE DEF H, K
<1>6. Rows[a].balance + Rows[k].amount = Rows[k].balance + Rows[a].amount + Brought(K)
  <2>1. CASE Rows[k].copy
    BY <1>1, <1>3, <1>4, <1>5, <2>1
  <2>2. CASE ~Rows[k].copy
    <3>1. Brought(K) = Rows[k].amount + Brought(H)
      BY <1>1, <1>2, <1>4, <2>2, BringsIs
    <3> QED
      BY <1>1, <1>3, <1>5, <2>2, <3>1
  <2> QED
    BY <2>1, <2>2
<1> QED
  BY <1>6 DEF Level, K, k

\* So it is level throughout, by induction down the rows.
LEMMA LevelEverywhere ==
  ASSUME file \in Statements \cup Uploads, file.market = "shopee",
         NEW a \in DOMAIN Rows, NEW b \in DOMAIN Rows, a <= b
  PROVE  Level(a, b)
<1> DEFINE Wrong == {n \in DOMAIN Rows : a <= n /\ ~Level(a, n)}
<1>1. Len(Rows) \in Nat /\ DOMAIN Rows = 1..Len(Rows)
  BY ListIs
<1>2. SUFFICES ASSUME Wrong # {} PROVE FALSE
  BY <1>2
<1>3. PICK n \in Wrong : \A k \in Wrong : n <= k
  <2>1. Wrong \in SUBSET (1..Len(Rows))
    BY <1>1
  <2> HIDE DEF Wrong
  <2> QED
    BY <1>1, <1>2, <2>1, MinIsThere
<1>4. n \in DOMAIN Rows /\ a <= n /\ ~Level(a, n) /\ n # a
  BY <1>3, LevelStarts
<1> DEFINE k == n - 1
<1>5. k \in 1..Len(Rows) /\ a <= k /\ k + 1 = n /\ ~(n <= k)
  BY <1>1, <1>4
<1> HIDE DEF k
<1>6. Level(a, k)
  <2>1. k \notin Wrong
    BY <1>3, <1>5
  <2> QED
    BY <1>1, <1>5, <2>1
<1>7. k + 1 \in DOMAIN Rows /\ k \in DOMAIN Rows
  BY <1>1, <1>4, <1>5
<1>8. Level(a, k + 1)
  BY <1>5, <1>6, <1>7, LevelGoesOn
<1> QED
  BY <1>4, <1>5, <1>8

\* Between two rows that really happened, when those that failed bring nothing.
LEMMA ReportBalance ==
  ASSUME file \in Statements \cup Uploads, file.market = "shopee",
         NEW a \in Real, NEW b \in Real, a < b,
         Brought({k \in Between(a, b, DOMAIN Rows) : Failed(Rows[k])}) = 0
  PROVE  Rows[a].balance = Rows[b].balance + Rows[a].amount + Brought(Between(a, b, Real))
<1> DEFINE H == Heads(a, b)
           B == Between(a, b, Real)
           F == {k \in Between(a, b, DOMAIN Rows) : Failed(Rows[k])}
<1>1. /\ Amounts /\ a \in DOMAIN Rows /\ b \in DOMAIN Rows /\ a \in Int /\ b \in Int
      /\ \A i \in DOMAIN Rows : i \in Int /\ (i <= b <=> i < b \/ i = b)
      /\ \A i \in {a, b} : Rows[i].balance \in Int /\ Rows[i].amount \in Int
      /\ ~Rows[b].copy /\ \A n \in DOMAIN Rows : Rows[n].copy => ~Failed(Rows[n])
  <2>1. Amounts /\ a \in DOMAIN Rows /\ b \in DOMAIN Rows /\ ~Rows[b].copy
    BY ReportIs DEF Real
  <2>2. a \in Int /\ b \in Int /\ \A i \in DOMAIN Rows : i \in Int /\ (i <= b <=> i < b \/ i = b)
    BY <2>1 DEF Amounts
  <2> QED
    BY <2>1, <2>2, ReportIs DEF Amounts
<1>2. Rows[a].balance + Rows[b].amount = Rows[b].balance + Rows[a].amount + Brought(H)
  BY <1>1, LevelEverywhere DEF Level
<1>3. /\ H \in SUBSET DOMAIN Rows /\ B \in SUBSET DOMAIN Rows /\ F \in SUBSET DOMAIN Rows
      /\ b \in H /\ H \ {b} = B \cup F /\ B \cap F = {}
  BY <1>1 DEF Heads, Between, Real
<1>4. Brought(F) = 0
  OBVIOUS
<1> HIDE DEF H, B, F
<1>5. Brought(H) = Rows[b].amount + Brought(B \cup F)
  BY <1>1, <1>3, BringsIs
<1>6. Brought(B \cup F) = Brought(B) + Brought(F)
  BY <1>1, <1>3, BroughtUnion
<1>7. Brought(B) \in Int
  BY <1>1, <1>3, BringsIs
<1>8. Rows[a].balance = Rows[b].balance + Rows[a].amount + Brought(B)
  BY <1>1, <1>2, <1>4, <1>5, <1>6, <1>7
<1> QED
  BY <1>8 DEF B

\* Between two items in order are the rows between theirs, each once.
LEMMA RowsBetween ==
  ASSUME file \in Statements \cup Uploads, file.market = "shopee",
         got \in Seq(Range(got)), Ordered(got), NEW m \in DOMAIN got, NEW n \in DOMAIN got, m < n
  PROVE  /\ (m + 1)..(n - 1) \in SUBSET DOMAIN got
         /\ got[m].src \in Real /\ got[n].src \in Real
         /\ {got[k].src : k \in (m + 1)..(n - 1)} = Between(got[m].src, got[n].src, Real)
         /\ \A k, l \in (m + 1)..(n - 1) : got[k].src = got[l].src => k = l
<1>1. DOMAIN got = 1..Len(got) /\ Len(got) \in Nat /\ m \in Int /\ n \in Int
  BY LenProperties
<1>2. Real \in SUBSET (1..Len(Rows)) /\ \A i \in Real : i \in Int
  BY ListIs
<1>3. ASSUME NEW k \in DOMAIN got
      PROVE  got[k].src \in Real /\ Key(got[k]) = <<ShopeeType(Rows[got[k].src]), got[k].src>>
  <2>1. Key(got[k]) \in Expected
    BY DEF Ordered
  <2>2. PICK i \in Real : Key(got[k]) = <<ShopeeType(Rows[i]), i>>
    BY <2>1, ReportOrder
  <2>3. got[k].src = i
    BY <2>2 DEF Key
  <2> QED
    BY <2>2, <2>3
<1>4. ASSUME NEW k \in DOMAIN got, NEW l \in DOMAIN got, k < l PROVE got[k].src < got[l].src
  <2>1. k \in 1..(l - 1)
    BY <1>1, <1>4
  <2>2. Key(got[k]) \in {Key(got[j]) : j \in 1..(l - 1)}
    BY <2>1
  <2>3. Key(got[k]) \in Expected /\ Key(got[l]) \in Expected /\ Earlier(Key(got[k]), Key(got[l]))
    BY <2>2 DEF Ordered
  <2>4. Key(got[k])[2] < Key(got[l])[2]
    BY <2>3, ReportOrder
  <2> QED
    BY <2>4 DEF Key
<1>5. ASSUME NEW i \in Between(got[m].src, got[n].src, Real)
      PROVE  \E k \in (m + 1)..(n - 1) : got[k].src = i
  <2> DEFINE key == <<ShopeeType(Rows[i]), i>>
  <2>1. i \in Real /\ got[m].src < i /\ i < got[n].src
    BY DEF Between
  <2>2. key \in Expected /\ key[2] = i
    BY <2>1, ReportOrder
  <2>3. Key(got[n]) \in Expected /\ Key(got[n])[2] = got[n].src
    BY DEF Ordered, Key
  <2> HIDE DEF key
  <2>4. Earlier(key, Key(got[n]))
    BY <2>1, <2>2, <2>3, ReportOrder
  <2>5. key \in {Key(got[k]) : k \in 1..(n - 1)}
    BY <2>2, <2>4 DEF Ordered
  <2>6. PICK k \in 1..(n - 1) : key = Key(got[k])
    BY <2>5
  <2>7. k \in DOMAIN got /\ got[k].src = i
    BY <1>1, <2>2, <2>6 DEF Key
  <2>8. k > m
    <3>1. got[m].src \in Int /\ i \in Int
      BY <1>2, <1>3, <2>1
    <3>2. k # m
      BY <2>1, <2>7, <3>1
    <3>3. ~(k < m)
      <4>1. k < m => got[k].src < got[m].src
        BY <1>4, <2>7
      <4> QED
        BY <2>1, <2>7, <3>1, <4>1
    <3> QED
      BY <1>1, <2>6, <3>2, <3>3
  <2> QED
    BY <1>1, <2>6, <2>7, <2>8
<1>6. \A k \in (m + 1)..(n - 1) : k \in DOMAIN got /\ m < k /\ k < n
  BY <1>1
<1>7. ASSUME NEW k \in (m + 1)..(n - 1) PROVE got[k].src \in Between(got[m].src, got[n].src, Real)
  BY <1>3, <1>4, <1>6 DEF Between
<1>8. {got[k].src : k \in (m + 1)..(n - 1)} = Between(got[m].src, got[n].src, Real)
  BY <1>5, <1>7
<1>9. ASSUME NEW k \in (m + 1)..(n - 1), NEW l \in (m + 1)..(n - 1), got[k].src = got[l].src
      PROVE  k = l
  <2>1. k \in DOMAIN got /\ l \in DOMAIN got /\ k \in Int /\ l \in Int
    BY <1>1, <1>6
  <2>2. got[k].src \in Int /\ got[l].src \in Int
    BY <1>2, <1>3, <2>1
  <2> QED
    BY <1>4, <1>9, <2>1, <2>2
<1> QED
  BY <1>3, <1>6, <1>8, <1>9

\* Two withdrawals of a report that are handed, and what comes between them.
LEMMA ReportBalances ==
  ASSUME file \in Statements \cup Uploads, file.market = "shopee", ReportInv,
         got \in Seq(Range(got)), Ordered(got), NEW m \in DOMAIN got, NEW n \in DOMAIN got, m < n,
         got[m].src < got[n].src,
         Brought({k \in Between(got[m].src, got[n].src, DOMAIN Rows) : Failed(Rows[k])}) = 0
  PROVE  Balance(got, m, n)
<1> DEFINE a == got[m].src
           b == got[n].src
           S == (m + 1)..(n - 1)
<1>1. /\ S \in SUBSET DOMAIN got /\ a \in Real /\ b \in Real
      /\ {got[k].src : k \in S} = Between(a, b, Real)
      /\ \A k, l \in S : got[k].src = got[l].src => k = l
  BY RowsBetween
<1>2. Rows[a].balance = Rows[b].balance + Rows[a].amount + Brought(Between(a, b, Real))
  BY <1>1, ReportBalance
<1>3. Told(got, S) = Brought(Between(a, b, Real))
  <2>1. Amounts
    BY ReportIs
  <2>2. IsFiniteSet(S)
    <3>1. m + 1 \in Int /\ n - 1 \in Int
      <4>1. DOMAIN got = 1..Len(got) /\ Len(got) \in Nat
        BY LenProperties
      <4> QED
        BY <4>1
    <3> QED
      BY <3>1, FS_Interval
  <2>3. \A k \in S : got[k].src \in DOMAIN Rows
    <3>1. \A k \in S : got[k].src \in Between(a, b, Real)
      BY <1>1
    <3> QED
      BY <3>1 DEF Between, Real
  <2>4. \A k \in S : got[k].amount = Rows[got[k].src].amount
    BY <1>1 DEF ReportInv
  <2> DEFINE g == got
  <2>5. \A k \in S : /\ g[k].src \in DOMAIN Rows /\ g[k].amount = Rows[g[k].src].amount
                     /\ \A l \in S : g[k].src = g[l].src => k = l
    BY <1>1, <2>3, <2>4
  <2>6. {g[k].src : k \in S} = Between(a, b, Real)
    BY <1>1
  <2> HIDE DEF g, S, a, b
  <2>7. Told(g, S) = Brought({g[k].src : k \in S})
    BY <2>1, <2>2, <2>5, ToldIsBrought
  <2> QED
    BY <2>6, <2>7 DEF g
<1>4. got[m].after = Rows[a].balance /\ got[m].amount = Rows[a].amount /\ got[n].after = Rows[b].balance
  BY DEF ReportInv
<1> QED
  BY <1>2, <1>3, <1>4 DEF Balance

\* The invariants say what is told of balances.
LEMMA BalancesToldRight == StreamInv /\ ReaderInv /\ ReadInv /\ BookInv /\ ReportInv => ToldBalances
<1> SUFFICES ASSUME StreamInv, ReaderInv, ReadInv, BookInv, ReportInv,
                    NEW m \in DOMAIN got, NEW n \in DOMAIN got,
                    Neighbours(m, n), got[m].src < got[n].src,
                    file.market = "tiktok" =>
                        by = "import" /\ SplitsCountDown /\ Between(got[m].src, got[n].src, KeptWds) = {},
                    file.market = "shopee" =>
                        /\ Orderly
                        /\ Brought({k \in Between(got[m].src, got[n].src, DOMAIN Rows) : Failed(Rows[k])}) = 0,
                    file.market \in {"tiktok", "shopee"}
             PROVE  Balance(got, m, n)
  BY DEF ToldBalances, Balance, Told
<1>1. CASE file.market = "tiktok"
  <2>1. BooksBalance(got) /\ got \in Seq(Range(got))
    BY <1>1 DEF BookInv
  <2>2. m \in Funds(got) /\ n \in Funds(got) /\ m < n /\ \A k \in (m + 1)..(n - 1) : got[k].type # "fund"
    BY DEF Neighbours, Funds
  <2>3. ASSUME NEW k \in Funds(got) PROVE ~(m < k /\ k < n)
    <3>1. DOMAIN got = 1..Len(got) /\ Len(got) \in Nat /\ k \in DOMAIN got /\ got[k].type = "fund"
      BY <2>1, LenProperties DEF Funds
    <3>2. m < k /\ k < n => k \in (m + 1)..(n - 1)
      BY <3>1
    <3> QED
      BY <2>2, <3>1, <3>2
  <2>4. Adjacent(got, m, n)
    BY <1>1, <2>2, <2>3 DEF Adjacent
  <2> QED
    BY <2>1, <2>2, <2>4 DEF BooksBalance
<1>2. CASE file.market = "shopee"
  <2>1. Orderly /\ file \in Statements \cup Uploads /\ got \in Seq(Range(got)) /\ Ordered(got)
    BY <1>2 DEF ReadInv, StreamInv, Reads, ReaderInv
  <2>2. m < n
    BY DEF Neighbours
  <2> QED
    BY <1>2, <2>1, <2>2, ReportBalances
<1> QED
  BY <1>1, <1>2

\* Between two withdrawals that are handed one after the other, what the newer
\* is told to have left is what the older left, plus the rows in between, less
\* the newer withdrawal (calculateAfterAmount of the TikTok reader, the balance
\* column of a Shopee report).
THEOREM BalancesAreTold == StreamSpec => []ToldBalances
BY BalancesToldRight, StreamInvariant, ReaderInvariant, ReadInvariant, BookInvariant,
   ReportInvariant, PTL
=============================================================================
