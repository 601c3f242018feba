----------------------------- MODULE SubmitStream -----------------------------
(***************************************************************************)
(* The v2 SubmitWithdrawal: it queues the statement for the v1 import, reads *)
(* it itself at once and streams every row to the revenue service.  A        *)
(* request that fails on the way takes nothing back, neither the task nor    *)
(* what was streamed, and the user uploads the file again.                   *)
(*                                                                          *)
(* Shopee and Mengantar statements are read with the v1 readers; a TikTok    *)
(* workbook with a reader of v2, orders first and then the sheet, which has  *)
(* no need to tell what withdrawal an order belongs to.  The behaviours by   *)
(* the import are those of the task that the queue runs.                     *)
(***************************************************************************)
EXTENDS StatementReaders

CONSTANTS Uploads,      \* the statements that are sent to the v2 service
          Known,        \* external ids of orders that are not cancelled
          MaxRequests   \* bound: requests with the same file

ASSUME UploadsAssumption ==
    \A f \in Uploads :
        /\ f.market = "tiktok" => TwoSheets(f) /\ Attributed(f)
        /\ f.market = "shopee" => Listed(f) /\ BalancesAddUp(f)
        /\ f.market = "mengantar" => f.rows \in Seq(Range(f.rows))

VARIABLES asked,  \* requests so far
          tasks,  \* tasks in the queue
          told    \* events sent to the revenue service: how often, by type and row

svars == <<vars, asked, tasks, told>>

-----------------------------------------------------------------------------
StreamInit ==
    /\ asked = 1 /\ tasks = 0 /\ told = EmptyBag
    /\ \/ Init
       \/ /\ by = "stream" /\ pc = "asked"
          /\ file \in Uploads
          /\ pos = 1 /\ top = 1
          /\ left = <<>> /\ emitted = {} /\ last = NoRow /\ got = <<>>

\* The v1 SubmitWithdrawal, called first: it queues a task or fails.
Queued(counted) == pc' = "queued" /\ tasks' = tasks + counted
\* Mutant of QueueTask: the stream goes on when the v1 service has refused.
QueueTaskOrNot ==
    /\ pc = "asked"
    /\ \/ Queued(1)
       \/ Queued(0)
    /\ UNCHANGED <<by, file, pos, top, left, emitted, last, got, asked, told>>
QueueTask ==
    /\ pc = "asked"
    /\ \/ Queued(1)
       \/ pc' = "rejected" /\ UNCHANGED tasks
    /\ UNCHANGED <<by, file, pos, top, left, emitted, last, got, asked, told>>

\* GetContent, createImporter and checkShop, each of which may fail.
CheckShop ==
    /\ pc = "queued"
    /\ \/ /\ file.market # "other"
          /\ pc' = IF file.market = "tiktok" THEN "orders" ELSE "open"
       \/ pc' = "rejected"
    /\ UNCHANGED <<by, file, pos, top, left, emitted, last, got, asked, tasks, told>>

-----------------------------------------------------------------------------
(* The v2 reader of a TikTok workbook.                                       *)

ReadingOrders == pc = "orders" /\ pos <= Len(Rows)
OrderRow ==
    /\ ReadingOrders
    /\ IF Rows[pos].amount = 0 THEN Skip
       ELSE /\ Hand(<<RowItem(pos, TiktokType(Rows[pos]), Rows[pos].order)>>, "orders")
            /\ pos' = pos + 1
            /\ UNCHANGED <<by, file, top, left, emitted, last>>

\* The sheet is read after the last order.
At == pos - Len(Rows)
ReadingSheet == pc = "orders" /\ At \in DOMAIN Sheet

\* Mutant of Paid: a failed withdrawal is handed, too.
PaidOrFailed(r) == r.type = "Withdrawal" /\ r.amount # 0
Paid(r) == r.type = "Withdrawal" /\ Settled(r) /\ r.amount # 0
WithdrawalRow ==
    /\ ReadingSheet
    /\ LET r == Sheet[At] IN
       IF r.type = "Withdrawal" /\ r.status = "In Process" THEN Refuse
       ELSE IF ~Paid(r) THEN Skip
       ELSE /\ Hand(<<[WdItem(At) EXCEPT !.after = 0]>>, "orders")
            /\ pos' = pos + 1
            /\ UNCHANGED <<by, file, top, left, emitted, last>>
SheetEnd ==
    /\ pc = "orders" /\ At > Len(Sheet)
    /\ pc' = "done"
    /\ UNCHANGED <<by, file, pos, top, left, emitted, last, got>>

-----------------------------------------------------------------------------
(* The handler: an item becomes an event or is passed over.                  *)

HasEvent(item) ==
    /\ item.amount # 0
    /\ item.type \in Cases
    /\ item.type = "order_fund" => item.order \in Known
Sent(items) == {n \in DOMAIN items : HasEvent(items[n])}
Events(items) ==
    [key \in {Key(items[n]) : n \in Sent(items)} |->
        Cardinality({n \in Sent(items) : Key(items[n]) = key})]

Tell == told' = told (+) Events(SubSeq(got', Len(got) + 1, Len(got')))

\* An item without an amount cannot fail.
OldReader ==
    \/ OpenReport \/ ShopeeInProcess \/ ShopeeSkip \/ CloseReport \/ OpenCsv
    \/ (ShopeeRow \/ MengantarRow) /\ (pc' = "failed" => Rows[pos].amount # 0)

StreamRow ==
    /\ by = "stream"
    /\ OldReader \/ OrderRow \/ WithdrawalRow \/ SheetEnd
    /\ Tell
    /\ UNCHANGED <<asked, tasks>>

\* CloseAndReceive.
Close ==
    /\ by = "stream" /\ pc = "done"
    /\ pc' \in {"closed", "failed"}
    /\ UNCHANGED <<by, file, pos, top, left, emitted, last, got, asked, tasks, told>>

\* The user sends the file again, whatever became of the last request.
AskAgain ==
    /\ by = "stream" /\ asked < MaxRequests
    /\ pc \in {"rejected", "refused", "failed", "closed"}
    /\ asked' = asked + 1
    /\ pc' = "asked"
    /\ pos' = 1 /\ top' = 1
    /\ left' = <<>> /\ emitted' = {} /\ last' = NoRow /\ got' = <<>>
    /\ UNCHANGED <<by, file, tasks, told>>

Import == by = "import" /\ Next /\ UNCHANGED <<asked, tasks, told>>

StreamNext == QueueTask \/ CheckShop \/ StreamRow \/ Close \/ AskAgain \/ Import

StreamSpec == StreamInit /\ [][StreamNext]_svars

-----------------------------------------------------------------------------
(* Properties.                                                              *)

\* However many requests fail, and wherever, revenue is never told of a row
\* more often than there are tasks that import it: every figure in the
\* revenue service has an import behind it.
ToldIsQueued == \A key \in BagToSet(told) : told[key] <= tasks

\* Of an orderly statement a request tells each row at most once, no other
\* than the rows that the import will hand to its processor, and when it closes
\* all of them: those with an amount, and for an order's funds those of an
\* order that is known.  The two readers of a TikTok workbook do it in
\* different orders.
Imported == {<<e[1], e[2]>> : e \in {e \in Expected :
    /\ e[1] \in Cases
    /\ (IF e[1] = "fund" /\ file.market = "tiktok" THEN Sheet ELSE Rows)[e[2]].amount # 0
    /\ e[1] = "order_fund" => Rows[e[2]].order \in Known}}
TellsWhatIsImported ==
    by = "stream" /\ Orderly =>
        LET now == Events(got) IN
        /\ \A key \in BagToSet(now) : now[key] = 1
        /\ BagToSet(now) \subseteq Imported
        /\ pc = "closed" => BagToSet(now) = Imported
=============================================================================
