------------------------------- MODULE Submit -------------------------------
(***************************************************************************)
(* The v2 handlers SubmitWithdrawalTiktok and SubmitWithdrawalShopee        *)
(* (v2/withdrawal/submit_withdrawal_tiktok.go, submit_withdrawal_shopee.go).*)
(*                                                                          *)
(* A request reads its workbook and then makes, for every withdrawal, one   *)
(* insert into v2_withdrawal_logs and a sequence of calls to other          *)
(* services: revenue Withdrawal, then for each row MpPaymentCreate (and     *)
(* OrderCompleted, if the reply asks for it), AdsExCreate or                *)
(* SellingExpenseOther.  No transaction surrounds them and nothing is       *)
(* undone: a request that stops leaves what it has done, and its user       *)
(* submits the workbook again, possibly while another request runs.         *)
(*                                                                          *)
(* How a reader makes withdrawals out of a workbook is TiktokFunding; here  *)
(* a file is the withdrawals it contains.                                   *)
(***************************************************************************)
EXTENDS Integers, Sequences, FiniteSets, Functions

CONSTANTS
    Requests,      \* requests, each for one file
    Orders,        \* external order ids
    Team,          \* those of the team the requests are for
    Withdrawals,   \* withdrawals, in whichever files they occur
    RowsOf,        \* the rows a withdrawal pays out, in the order of the reader
    Files,         \* the files that can be submitted
    MaxFaults      \* bound: calls that fail

Markets == {"tiktok", "shopee"}
Kinds   == {"fund", "return", "ads", "unknown", "insurance", "internal",
            "adjustment", "adjfund"}
Row     == [kind : Kinds, order : Orders, negative : BOOLEAN]
\* refs: the orders whose reference is in the raw column of the file (GetRefIDs).
\* The rows name others too: Iterate cuts a FLEXI reference in two and reads
\* order ids out of descriptions.
\* traceable: the reader finds the funding of the withdrawals (ValidWithdrawal,
\* IterateValidWithdrawal).
File    == [market : Markets, wds : Seq(Withdrawals), refs : SUBSET Orders,
            traceable : BOOLEAN]

ASSUME FilesAssumption ==
    /\ RowsOf \in [Withdrawals -> Seq(Row)]
    /\ Files \subseteq File
    /\ Team \subseteq Orders
    /\ MaxFaults \in Nat

\* A withdrawal belongs to the shop of one market, and is one row of a file's
\* list of withdrawals.
ASSUME WithdrawalsAssumption ==
    /\ IsFiniteSet(Requests)
    /\ \A f, g \in Files : Range(f.wds) \cap Range(g.wds) # {} => f.market = g.market
    /\ \A f \in Files : IsInjective(f.wds)

VARIABLES
    file,      \* what each request was given
    pc,        \* what each request does next
    wd, row,   \* the withdrawal and the row of it each request is at
    place,     \* each order: not entered, under the shop, under another, or cancelled
    made,      \* how often each entry of each withdrawal has been made
    completed, \* orders that have been completed
    late,      \* orders entered or moved elsewhere while a request was past its Move
    faults     \* calls that have failed

vars == <<file, pc, wd, row, place, made, completed, late, faults>>

\* The entries of a withdrawal: the log row, the revenue withdrawal, its rows.
LogEntry == 0
RevenueEntry == 1
RowEntry(j) == j + 1
Entries(w) == 0..(Len(RowsOf[w]) + 1)
AllEntries == UNION {{w} \X Entries(w) : w \in Withdrawals}

Places == {"none", "shop", "elsewhere", "cancelled"}
Steps  == {"idle", "read", "move", "parse", "log", "revenue", "row", "complete",
           "done", "failed", "panic"}
Ended  == {"done", "failed", "panic"}

Wds(r)     == file[r].wds
Wd(r)      == Wds(r)[wd[r]]
ThisRow(r) == RowsOf[Wd(r)][row[r]]
RowsIn(f)  == UNION {Range(RowsOf[w]) : w \in Range(f.wds)}

\* Where a request is in its file.
Position(r) ==
    /\ pc[r] \in {"idle", "read", "move", "parse"} => wd[r] = 1
    /\ pc[r] \in {"log", "revenue", "row", "complete"} => wd[r] \in DOMAIN Wds(r)
    /\ pc[r] = "row" => row[r] <= Len(RowsOf[Wd(r)]) + 1
    /\ pc[r] = "complete" => row[r] <= Len(RowsOf[Wd(r)])

TypeOK ==
    /\ file \in [Requests -> Files]
    /\ pc \in [Requests -> Steps]
    /\ wd \in [Requests -> Nat \ {0}] /\ row \in [Requests -> Nat \ {0}]
    /\ \A r \in Requests : Position(r)
    /\ place \in [Orders -> Places]
    /\ made \in [AllEntries -> Nat]
    /\ completed \subseteq Orders /\ late \subseteq Orders
    /\ faults \in 0..MaxFaults

Init ==
    /\ file \in [Requests -> Files]
    /\ pc = [r \in Requests |-> "idle"]
    /\ wd = [r \in Requests |-> 1] /\ row = [r \in Requests |-> 1]
    /\ place \in [Orders -> Places]
    /\ \A o \in Orders \ Team : place[o] # "shop"
    /\ made = [e \in AllEntries |-> 0]
    /\ completed = {} /\ late = {}
    /\ faults = 0

Goto(r, step) == pc' = [pc EXCEPT ![r] = step]

-----------------------------------------------------------------------------
(* What a row asks for.                                                     *)

\* The row belongs to an order, which has to be entered.
NeedsOrder(market, k) ==
    market = "shopee" \/ k.kind \notin {"ads", "unknown", "internal"}

\* MpPaymentCreate is called.
Pays(market, k) ==
    CASE market = "tiktok" -> \/ k.kind = "fund" /\ ~k.negative
                              \/ k.kind = "return"
                              \/ k.kind \in {"unknown", "insurance"} /\ ~k.negative
      [] market = "shopee" -> k.kind \in {"fund", "return", "unknown", "adjustment"}

\* AdsExCreate or SellingExpenseOther is called.
Spends(market, k) ==
    market = "tiktok" /\ k.kind \in {"ads", "unknown", "insurance"} /\ k.negative

\* The row is passed over.
Skips(market, k) ==
    CASE market = "tiktok" -> k.kind = "internal" \/ (k.kind = "ads" /\ ~k.negative)
      [] market = "shopee" -> k.kind = "adjfund"

\* "cannot get order by order id", "amount fund negative", "not implemented".
Refuses(market, k) ==
    \/ NeedsOrder(market, k) /\ place[k.order] \in {"none", "cancelled"}
    \/ ~(Pays(market, k) \/ Spends(market, k) \/ Skips(market, k))

-----------------------------------------------------------------------------
(* Reading.                                                                 *)

Submit(r) ==
    /\ pc[r] = "idle"
    /\ Goto(r, "read")
    /\ UNCHANGED <<file, wd, row, place, made, completed, late, faults>>

\* After the workbook has been read.
FirstWithdrawal(r) ==
    IF Wds(r) # <<>> THEN "log" ELSE IF file[r].market = "tiktok" THEN "failed" ELSE "done"

\* The TikTok handler reads the file, looks the shop up and traces the funding.
ReadTiktok(r) ==
    /\ pc[r] = "read" /\ file[r].market = "tiktok"
    /\ Goto(r, IF file[r].traceable THEN FirstWithdrawal(r) ELSE "failed")
    /\ UNCHANGED <<file, wd, row, place, made, completed, late, faults>>

\* The Shopee handler reads the file and looks the shop up.
ReadShopee(r) ==
    /\ pc[r] = "read" /\ file[r].market = "shopee"
    /\ Goto(r, "move")
    /\ UNCHANGED <<file, wd, row, place, made, completed, late, faults>>

\* The orders a Shopee request may move: the update is of the team's orders, with
\* the references of the file.
Movable(r) == file[r].refs \cap Team

\* Mutant of Moved: only the orders of the newest withdrawal.
MovedNewest(r) ==
    place' = [o \in Orders |->
        IF /\ place[o] = "elsewhere" /\ o \in Movable(r) /\ Wds(r) # <<>>
           /\ \E k \in Range(RowsOf[Wds(r)[1]]) : k.order = o
        THEN "shop" ELSE place[o]]

\* "change marketplace id jika tidak sesuai".
Moved(r) ==
    place' = [o \in Orders |->
        IF place[o] = "elsewhere" /\ o \in Movable(r) THEN "shop" ELSE place[o]]

Move(r) ==
    /\ pc[r] = "move"
    /\ Moved(r)
    /\ Goto(r, "parse")
    /\ UNCHANGED <<file, wd, row, made, completed, late, faults>>

\* ValidWithdrawal, after the orders have been moved.
Parse(r) ==
    /\ pc[r] = "parse"
    /\ Goto(r, IF file[r].traceable THEN FirstWithdrawal(r) ELSE "failed")
    /\ UNCHANGED <<file, wd, row, place, made, completed, late, faults>>

-----------------------------------------------------------------------------
(* The withdrawals.                                                         *)

Enter(r, e) == made' = [made EXCEPT ![<<Wd(r), e>>] = @ + 1]

\* Mutant of Log: a withdrawal can be logged only once.
LogOnce(r) ==
    /\ pc[r] = "log"
    /\ IF made[<<Wd(r), LogEntry>>] = 0
       THEN Enter(r, LogEntry) /\ Goto(r, "revenue")
       ELSE Goto(r, "failed") /\ UNCHANGED made
    /\ UNCHANGED <<file, wd, row, place, completed, late, faults>>

\* logWithdrawal.
Log(r) ==
    /\ pc[r] = "log" /\ Enter(r, LogEntry)
    /\ Goto(r, "revenue")
    /\ UNCHANGED <<file, wd, row, place, completed, late, faults>>

\* The revenue service's Withdrawal.
Revenue(r) ==
    /\ pc[r] = "revenue" /\ Enter(r, RevenueEntry)
    /\ Goto(r, "row") /\ row' = [row EXCEPT ![r] = 1]
    /\ UNCHANGED <<file, wd, place, completed, late, faults>>

AtRow(r) == pc[r] = "row" /\ row[r] <= Len(RowsOf[Wd(r)])

\* Mutant of NextRow: a row is left out.
NextRowTwice(r) == row' = [row EXCEPT ![r] = @ + 2]
NextRow(r) == row' = [row EXCEPT ![r] = @ + 1]

\* Mutant of RefuseRow: the row is passed over.
RefuseRowSkips(r) ==
    /\ AtRow(r) /\ Refuses(file[r].market, ThisRow(r))
    /\ NextRow(r)
    /\ UNCHANGED <<file, pc, wd, place, made, completed, late, faults>>
RefuseRow(r) ==
    /\ AtRow(r) /\ Refuses(file[r].market, ThisRow(r))
    /\ Goto(r, "failed")
    /\ UNCHANGED <<file, wd, row, place, made, completed, late, faults>>

Accepts(r) == AtRow(r) /\ ~Refuses(file[r].market, ThisRow(r))

SkipRow(r) ==
    /\ Accepts(r) /\ Skips(file[r].market, ThisRow(r))
    /\ NextRow(r)
    /\ UNCHANGED <<file, pc, wd, place, made, completed, late, faults>>

Spend(r) ==
    /\ Accepts(r) /\ Spends(file[r].market, ThisRow(r))
    /\ Enter(r, RowEntry(row[r]))
    /\ NextRow(r)
    /\ UNCHANGED <<file, pc, wd, place, completed, late, faults>>

\* Mutant of Pay: the order is completed first.
PayLater(r) ==
    /\ Accepts(r) /\ Pays(file[r].market, ThisRow(r))
    /\ Goto(r, "complete")
    /\ UNCHANGED <<file, wd, row, place, made, completed, late, faults>>

\* MpPaymentCreate.  Only the order service knows whether it answers
\* IsReceivableCreatedAdjustment.
Pay(r) ==
    /\ Accepts(r) /\ Pays(file[r].market, ThisRow(r))
    /\ Enter(r, RowEntry(row[r]))
    /\ \/ NextRow(r) /\ UNCHANGED pc
       \/ Goto(r, "complete") /\ UNCHANGED row
    /\ UNCHANGED <<file, wd, place, completed, late, faults>>

\* OrderCompleted names the order that was looked up; no order has the id 0 that it
\* names after a row that needs none.
LookedUp(r) == {o \in {ThisRow(r).order} : NeedsOrder(file[r].market, ThisRow(r))}
Complete(r) ==
    /\ pc[r] = "complete"
    /\ completed' = completed \cup LookedUp(r)
    /\ Goto(r, "row") /\ NextRow(r)
    /\ UNCHANGED <<file, wd, place, made, late, faults>>

\* Mutant of NextWithdrawal: the log has one row a file.
NextWithdrawalUnlogged(r) ==
    /\ pc[r] = "row" /\ row[r] > Len(RowsOf[Wd(r)])
    /\ IF wd[r] = Len(Wds(r))
       THEN Goto(r, "done") /\ UNCHANGED wd
       ELSE Goto(r, "revenue") /\ wd' = [wd EXCEPT ![r] = @ + 1]
    /\ UNCHANGED <<file, row, place, made, completed, late, faults>>
NextWithdrawal(r) ==
    /\ pc[r] = "row" /\ row[r] > Len(RowsOf[Wd(r)])
    /\ IF wd[r] = Len(Wds(r))
       THEN Goto(r, "done") /\ UNCHANGED wd
       ELSE Goto(r, "log") /\ wd' = [wd EXCEPT ![r] = @ + 1]
    /\ UNCHANGED <<file, row, place, made, completed, late, faults>>

-----------------------------------------------------------------------------
(* What fails.                                                              *)

\* What the call a request is at changes.
Effect(r) ==
    CASE pc[r] = "move"     -> Moved(r) /\ UNCHANGED <<made, completed>>
      [] pc[r] = "log"      -> Enter(r, LogEntry) /\ UNCHANGED <<place, completed>>
      [] pc[r] = "revenue"  -> Enter(r, RevenueEntry) /\ UNCHANGED <<place, completed>>
      [] pc[r] = "row"      -> Enter(r, RowEntry(row[r])) /\ UNCHANGED <<place, completed>>
      [] pc[r] = "complete" -> /\ completed' = completed \cup LookedUp(r)
                               /\ UNCHANGED <<place, made>>

Calls(r) ==
    \/ pc[r] \in {"move", "log", "revenue", "complete"}
    \/ Accepts(r) /\ ~Skips(file[r].market, ThisRow(r))

\* A call fails, or the process dies, with or without the call's effect.  The
\* Shopee handler ignores that a file cannot be read and panics at its shop.
Fail(r) ==
    /\ faults < MaxFaults /\ faults' = faults + 1
    /\ \/ /\ pc[r] = "read"
          /\ \/ Goto(r, "failed")
             \/ file[r].market = "shopee" /\ Goto(r, "panic")
          /\ UNCHANGED <<place, made, completed>>
       \/ Calls(r) /\ Goto(r, "failed") /\ UNCHANGED <<place, made, completed>>
       \/ Calls(r) /\ Goto(r, "failed") /\ Effect(r)
    /\ UNCHANGED <<file, wd, row, late>>

\* Somebody enters an order, under the right shop or not, or moves one of the file's
\* shop to another: as a request for another shop does.
PastMove(r) ==
    /\ pc[r] \in Steps \ ({"idle", "read", "move"} \cup Ended)
    /\ file[r].market = "shopee"
PutOrder(o, p) ==
    /\ place' = [place EXCEPT ![o] = p]
    /\ late' = IF \E r \in Requests : PastMove(r) THEN late \cup {o} ELSE late
    /\ UNCHANGED <<file, pc, wd, row, made, completed, faults>>
EnterOrder(o) ==
    /\ place[o] = "none"
    /\ \/ PutOrder(o, "elsewhere")
       \/ o \in Team /\ PutOrder(o, "shop")
TakeOrder(o) == place[o] = "shop" /\ PutOrder(o, "elsewhere")

\* A cancelled order is not found any more.
CancelOrder(o) ==
    /\ place[o] \in {"shop", "elsewhere"}
    /\ place' = [place EXCEPT ![o] = "cancelled"]
    /\ UNCHANGED <<file, pc, wd, row, made, completed, late, faults>>

Handle(r) ==
    \/ Submit(r) \/ ReadTiktok(r) \/ ReadShopee(r) \/ Move(r) \/ Parse(r)
    \/ Log(r) \/ Revenue(r)
    \/ RefuseRow(r) \/ SkipRow(r) \/ Spend(r) \/ Pay(r) \/ Complete(r)
    \/ NextWithdrawal(r)

Next == \/ \E r \in Requests : Handle(r) \/ Fail(r)
        \/ \E o \in Orders : EnterOrder(o) \/ TakeOrder(o) \/ CancelOrder(o)

Spec == Init /\ [][Next]_vars

-----------------------------------------------------------------------------
(* Properties.                                                              *)

IsCall(market, w, e) ==
    e \in {LogEntry, RevenueEntry} \/ ~Skips(market, RowsOf[w][e - 1])
MarketsOf(w) == {f.market : f \in {g \in Files : w \in Range(g.wds)}}

\* Whatever fails and however requests overlap, an earlier entry of a withdrawal
\* has been made at least as often as a later one: the log has a row for every
\* revenue withdrawal, and the revenue a withdrawal for every payment.
EarlierFirst ==
    \A w \in Withdrawals : \A m \in MarketsOf(w) : \A d, e \in Entries(w) :
        d < e /\ IsCall(m, w, d) => made[<<w, d>>] >= made[<<w, e>>]

\* A request that reports success has made every entry of its file, and no
\* request makes one twice.
Contains(r, w) == w \in Range(Wds(r))
EntriesCounted ==
    \A w \in Withdrawals : \A m \in MarketsOf(w) : \A e \in Entries(w) :
        /\ IsCall(m, w, e) => made[<<w, e>>] >= Cardinality({r \in Requests : pc[r] = "done" /\ Contains(r, w)})
        /\ made[<<w, e>>] <= Cardinality({r \in Requests : pc[r] # "idle" /\ Contains(r, w)})

\* No order is completed before a payment of it has been made.
CompletedIsPaid ==
    \A o \in completed : \E w \in Withdrawals : \E j \in DOMAIN RowsOf[w] :
        RowsOf[w][j].order = o /\ made[<<w, RowEntry(j)>>] > 0

\* A file that was accepted once is accepted again, as the test of the v1 upload asks
\* of it (service_test.go, "testing up kedua kali"): only a failing call or a cancelled order stops a second upload.
SecondUpload ==
    [][\A r, s \in Requests :
        pc[r] = "done" /\ file[s] = file[r] /\ pc[s] \notin Ended /\ pc'[s] \in Ended
            => \/ pc'[s] = "done" \/ faults' > faults
               \/ \E k \in RowsIn(file[s]) : place[k.order] = "cancelled"]_vars

\* A Shopee request pays an order of its team whose reference is in the raw column of
\* its file under the file's shop, unless somebody entered the order, or moved it to
\* another shop, after a request had moved the orders of its file.
PaidInShop ==
    [][\A r \in Requests : AtRow(r) /\ file[r].market = "shopee" =>
        LET o == ThisRow(r).order
            e == <<Wd(r), RowEntry(row[r])>>
        IN  made'[e] > made[e] /\ o \in file[r].refs \cap Team
                => place[o] = "shop" \/ o \in late]_vars
=============================================================================
