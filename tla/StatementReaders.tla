--------------------------- MODULE StatementReaders ---------------------------
(***************************************************************************)
(* The v1 statement readers (datasource) and the way runner.go drives them:  *)
(* createImporter chooses a reader by marketplace, Iterate hands the rows of *)
(* the statement to a handler one by one, newest first, and the handler,     *)
(* iterateWithdrawal, calls the importer processor.                          *)
(*                                                                          *)
(* A TikTok workbook has two sheets: "Withdrawal records" (sheet), whose     *)
(* earnings rows give what the orders of a day brought, and "Order details"  *)
(* (rows), the orders themselves.  Only the first tells which withdrawal     *)
(* paid what out, so the reader counts down the amount of one earnings row   *)
(* after the other as it reads the orders.  A Shopee report and a Mengantar  *)
(* file are read as they come.                                               *)
(*                                                                          *)
(* Days stand for times of a day's precision, phrases for what the           *)
(* description of a row contains.                                            *)
(***************************************************************************)
EXTENDS Sequences, FiniteSetsExt, SequencesExt, Ranks

CONSTANTS Workbooks, Reports, Csvs,  \* the statements of each marketplace
          NoOrder                    \* an empty order reference

\* A TikTok workbook: two lists of dated amounts.
TwoSheets(f) ==
    /\ f.market = "tiktok"
    /\ f.sheet \in Seq(Range(f.sheet)) /\ f.rows \in Seq(Range(f.rows))
    /\ \A n \in DOMAIN f.rows : f.rows[n].amount \in Int
    /\ \A n \in DOMAIN f.sheet : f.sheet[n].amount \in Int /\ f.sheet[n].day \in Nat
NewestFirst(f) == \A m, n \in DOMAIN f.sheet : m < n => f.sheet[m].day >= f.sheet[n].day

\* What it tells of: row n of the orders belongs to row earned[n] of the sheet,
\* which has earnings of its day, and comes in the order of the sheet.
Attributed(f) ==
    /\ \A n \in DOMAIN f.rows :
        /\ f.earned[n] \in DOMAIN f.sheet
        /\ f.sheet[f.earned[n]].type = "Earnings"
        /\ f.sheet[f.earned[n]].day = f.rows[n].day
    /\ \A m, n \in DOMAIN f.rows : m < n => f.earned[m] <= f.earned[n]

\* A Shopee report is a list of amounts.  A row of it is a copy if it repeats the
\* withdrawal above it, which has succeeded.
IsFailed(r) == r.kind = "fund" /\ r.status # "Sedang Diproses" /\ (r.status = "Gagal" \/ r.refund)
Listed(f) ==
    /\ f.market = "shopee" /\ f.rows \in Seq(Range(f.rows))
    /\ \A n \in DOMAIN f.rows : f.rows[n].amount \in Int /\ f.rows[n].balance \in Int
    /\ \A n \in DOMAIN f.rows : f.rows[n].copy =>
        /\ n > 1
        /\ \A k \in {n - 1, n} : f.rows[k].kind = "fund" /\ ~IsFailed(f.rows[k])
        /\ f.rows[n - 1].amount = f.rows[n].amount

ASSUME StatementsAssumption ==
    /\ \A f \in Workbooks : TwoSheets(f) /\ NewestFirst(f) /\ Attributed(f)
    /\ \A f \in Reports : Listed(f)
    /\ \A f \in Csvs : f.market = "mengantar" /\ f.rows \in Seq(Range(f.rows))

\* The figures of a statement, which only what is told of balances rests on: an
\* earnings row brings what its orders bring, and a balance is the one before it
\* and the amount of the row.
SheetAddsUp(f) == \A e \in DOMAIN f.sheet : f.sheet[e].type = "Earnings" =>
    f.sheet[e].amount = MapThenSumSet(LAMBDA n : f.rows[n].amount,
                                      {n \in DOMAIN f.rows : f.earned[n] = e})
BalancesAddUp(f) == \A n \in DOMAIN f.rows : n + 1 \in DOMAIN f.rows =>
    f.rows[n].balance = f.rows[n + 1].balance
                        + IF f.rows[n + 1].copy THEN 0 ELSE f.rows[n].amount

ASSUME FiguresAssumption ==
    /\ \A f \in Workbooks : SheetAddsUp(f)
    /\ \A f \in Reports : BalancesAddUp(f)

VARIABLES
    by,       \* who reads: the v1 "import" or the v2 "stream"
    file,     \* the statement
    pc,       \* position of Iterate
    pos,      \* row it reads next
    top,      \* w.ind, counted from 1
    left,     \* what is left of the amount of each row of the sheet
    emitted,  \* haveEmit: the days whose withdrawal has been handed
    last,     \* lastitem of the Shopee reader
    got       \* what the handler has been called with

vars == <<by, file, pc, pos, top, left, emitted, last, got>>

-----------------------------------------------------------------------------
(* A statement.                                                             *)

Phrases == <<  \* what TryParseOtherType and the tests before it look for, first match first
    <<"lost", "lost_compensation">>, <<"compensation", "compensation">>,
    <<"commission", "commission">>, <<"premium", "premi">>, <<"packaging", "packaging">>,
    <<"wallet", "return">>, <<"released", "return">>, <<"free return", "shipping">>,
    <<"lost in full", "lost_compensation">>, <<"lost in part", "lost_compensation">> >>

NoRow == [kind |-> "none", amount |-> 0]

Rows == file.rows
Sheet == file.sheet
Settled(r) == r.type # "Withdrawal" \/ r.status # "Failed"

\* The rows of the sheet that the reader keeps (w.wds and w.data).
KeptWds  == {n \in DOMAIN Sheet : Sheet[n].type = "Withdrawal" /\ Settled(Sheet[n])}
Earnings == {n \in DOMAIN Sheet : Sheet[n].type = "Earnings"}

\* Add: item.WD, the withdrawal row last seen when an earnings row is read.
Head1(n) == Max({0} \cup {k \in KeptWds : k < n})

Diff(w) == Sheet[w].amount + MapThenSumSet(LAMBDA n : Sheet[n].amount,
                                           {n \in Earnings : Head1(n) = w})
\* Mutant of After: the difference of the withdrawal itself is taken, too.
AfterOwn(w) == -MapThenSumSet(Diff, {k \in KeptWds : k <= w})

\* calculateAfterAmount: what an older withdrawal left is what the newer one
\* left, less what came in between; the newest is taken to leave nothing.
After(w) == -MapThenSumSet(Diff, {k \in KeptWds : k < w})

WdItem(w)  == [type |-> "fund", src |-> w, order |-> NoOrder,
               amount |-> Sheet[w].amount, after |-> After(w)]

-----------------------------------------------------------------------------
Init ==
    /\ \/ file \in Workbooks \/ file \in Reports \/ file \in Csvs
       \/ file = [market |-> "other"]
    /\ by = "import" /\ pc = "open"
    /\ pos = 1 /\ top = 1
    /\ left = <<>> /\ emitted = {} /\ last = NoRow /\ got = <<>>

Refuse == pc' = "refused" /\ UNCHANGED <<by, file, pos, top, left, emitted, last, got>>
Skip   == pos' = pos + 1 /\ UNCHANGED <<by, file, pc, top, left, emitted, last, got>>

\* The types that the handler has a case for; it does nothing with the others.
Cases == {"order_fund", "fund", "commission", "lost_compensation", "compensation",
          "unknown", "unknown_adj"}

\* The handler takes the items, or fails at one of them and ends the reading.
Hand(items, next) ==
    \/ got' = got \o items /\ pc' = next
    \/ \E n \in {k \in DOMAIN items : items[k].type \in Cases} :
        got' = got \o SubSeq(items, 1, n - 1) /\ pc' = "failed"

\* createImporter: a marketplace without a reader.
Unsupported == pc = "open" /\ file.market = "other" /\ Refuse

-----------------------------------------------------------------------------
(* TikTok.                                                                  *)

\* mappingWithdrawalAndEarning, before any row of the orders is read.
MapSheet ==
    /\ pc = "open" /\ file.market = "tiktok"
    /\ IF \E n \in DOMAIN Sheet : Sheet[n].type = "Withdrawal" /\ Sheet[n].status = "In Process"
       THEN Refuse
       ELSE /\ pc' = "rows"
            /\ left' = [n \in DOMAIN Sheet |-> Sheet[n].amount]
            /\ UNCHANGED <<by, file, pos, top, emitted, last, got>>

Reading(market) == pc = "rows" /\ file.market = market /\ pos <= Len(Rows)

TiktokType(r) ==
    IF r.kind = "Order" THEN IF r.amount < 0 THEN "return" ELSE "order_fund"
    ELSE IF r.kind = "Logistics reimbursement" THEN "compensation" ELSE "unknown"
RowItem(n, type, order) == [type |-> type, src |-> n, order |-> order,
                            amount |-> Rows[n].amount, after |-> 0]

\* Mutant of Drained: an amount that is passed is drained too.
DrainedOrPassed(amount) == amount <= 0
Drained(amount) == amount = 0

\* getStack: the earnings row that an order belongs to, 0 for an error.
Data(n) == Nth(Earnings, n)
OnTop(r) == top <= Cardinality(Earnings) /\ Sheet[Data(top)].day = r.day
Behind(r) == top <= Cardinality(Earnings) /\ ~OnTop(r) /\ r.amount = 0
Stack(r) ==
    IF OnTop(r) THEN Data(top)
    ELSE IF Behind(r) /\ top > 1 /\ Sheet[Data(top - 1)].day = r.day THEN Data(top - 1)
    ELSE 0
Drain(r) ==
    IF OnTop(r) /\ r.amount # 0
    THEN LET rest == left[Data(top)] - r.amount IN
         /\ left' = [left EXCEPT ![Data(top)] = rest]
         /\ top' = IF Drained(rest) THEN top + 1 ELSE top
    ELSE UNCHANGED <<left, top>>

\* Mutant of DueNow: a withdrawal is handed with every row of its earnings.
HeadEveryTime(w) == w # 0

\* WdEmitted: the withdrawal of the stack is handed unless one of its day was.
DueNow(w) == w # 0 /\ Sheet[w].day \notin emitted

ZeroOrder == Rows[pos].kind = "Order" /\ Rows[pos].amount = 0
TiktokSkip == Reading("tiktok") /\ ZeroOrder /\ Skip
TiktokStray == Reading("tiktok") /\ ~ZeroOrder /\ Stack(Rows[pos]) = 0
               /\ ~(Behind(Rows[pos]) /\ top = 1) /\ Refuse

\* A row without an amount that no earnings row matches, before any is drained:
\* the one before the first is looked at.
TiktokPanic ==
    /\ Reading("tiktok") /\ ~ZeroOrder /\ Behind(Rows[pos]) /\ top = 1
    /\ pc' = "panic"
    /\ UNCHANGED <<by, file, pos, top, left, emitted, last, got>>

TiktokRow ==
    /\ Reading("tiktok") /\ ~ZeroOrder
    /\ LET r == Rows[pos]
           w == IF Stack(r) = 0 THEN 0 ELSE Head1(Stack(r))
           item == RowItem(pos, TiktokType(r), r.order)
       IN /\ Stack(r) # 0
          /\ Drain(r)
          /\ emitted' = IF DueNow(w) THEN emitted \cup {Sheet[w].day} ELSE emitted
          /\ Hand(IF DueNow(w) THEN <<WdItem(w), item>> ELSE <<item>>, "rows")
    /\ pos' = pos + 1
    /\ UNCHANGED <<by, file, last>>

\* WdNotEmitted: the withdrawals whose day has not been handed, at the end.
TiktokRest ==
    /\ pc = "rows" /\ file.market = "tiktok" /\ pos > Len(Rows)
    /\ LET rest == {w \in KeptWds : Sheet[w].day \notin emitted}
       IN Hand([n \in 1..Cardinality(rest) |-> WdItem(Nth(rest, n))], "done")
    /\ UNCHANGED <<by, file, pos, top, left, emitted, last>>

-----------------------------------------------------------------------------
(* Shopee.                                                                  *)

OpenReport ==
    /\ pc = "open" /\ file.market = "shopee"
    /\ pc' = "rows"
    /\ UNCHANGED <<by, file, pos, top, left, emitted, last, got>>

\* The tests of the description, in the order in which they decide.
AdjustmentType(note) ==
    LET hits == {n \in DOMAIN Phrases : Phrases[n][1] \in note}
    IN IF hits = {} THEN "unknown_adj" ELSE Phrases[Min(hits)][2]
ShopeeType(r) ==
    CASE r.kind = "order" -> "order_fund"
      [] r.kind = "fund" -> "fund"
      [] r.kind = "adjustment" -> AdjustmentType(r.note)
      [] OTHER -> "unknown"

\* OrderIDExtractFromDesc, for an adjustment without a reference of its own.
OrderOf(r) == IF r.kind = "adjustment" /\ r.order = NoOrder THEN r.named ELSE r.order

\* Mutant of Repeats: any row of that amount before it counts.
RepeatsAny(r) == r.kind = "fund" /\ last.amount = r.amount
Repeats(r) == r.kind = "fund" /\ last.kind = "fund" /\ last.amount = r.amount

InProcess(r) == r.kind = "fund" /\ r.status = "Sedang Diproses"
Failed(r)    == IsFailed(r)

ShopeeInProcess == Reading("shopee") /\ InProcess(Rows[pos]) /\ Refuse
ShopeeSkip ==
    /\ Reading("shopee")
    /\ LET r == Rows[pos] IN ~InProcess(r) /\ (Failed(r) \/ Repeats(r))
    /\ Skip
ShopeeRow ==
    /\ Reading("shopee")
    /\ LET r == Rows[pos] IN
       /\ ~InProcess(r) /\ ~Failed(r) /\ ~Repeats(r)
       /\ last' = [kind |-> r.kind, amount |-> r.amount]
       /\ Hand(<<[RowItem(pos, ShopeeType(r), OrderOf(r)) EXCEPT !.after = r.balance]>>, "rows")
    /\ pos' = pos + 1
    /\ UNCHANGED <<by, file, top, left, emitted>>

-----------------------------------------------------------------------------
(* Mengantar.                                                               *)

\* All rows are parsed before the first is handed; one that cannot be parsed
\* ends the parsing, and its error is forgotten when a row before it is
\* handed.  A file that is no CSV has no rows and no error.
Parsed == Min({Len(Rows)} \cup {n - 1 : n \in {k \in DOMAIN Rows : ~Rows[k].good}})
OpenCsv ==
    /\ pc = "open" /\ file.market = "mengantar"
    /\ IF file.broken \/ Rows = <<>> THEN pc' = "done"
       ELSE pc' = IF Parsed = 0 THEN "refused" ELSE "rows"
    /\ UNCHANGED <<by, file, pos, top, left, emitted, last, got>>
MengantarRow ==
    /\ Reading("mengantar")
    /\ LET item == RowItem(pos, "order_fund", Rows[pos].order) IN
       Hand(<<[item EXCEPT !.type = "fund", !.order = NoOrder], item>>,
            IF pos = Parsed THEN "done" ELSE "rows")
    /\ pos' = pos + 1
    /\ UNCHANGED <<by, file, top, left, emitted, last>>

CloseReport ==
    /\ pc = "rows" /\ file.market = "shopee" /\ pos > Len(Rows)
    /\ pc' = "done"
    /\ UNCHANGED <<by, file, pos, top, left, emitted, last, got>>

-----------------------------------------------------------------------------
Next ==
    \/ Unsupported
    \/ MapSheet \/ TiktokSkip \/ TiktokStray \/ TiktokPanic \/ TiktokRow \/ TiktokRest
    \/ OpenReport \/ ShopeeInProcess \/ ShopeeSkip \/ ShopeeRow \/ CloseReport
    \/ OpenCsv \/ MengantarRow

Spec == Init /\ [][Next]_vars

-----------------------------------------------------------------------------
(* Properties.  They compare what was handed with what really happened,      *)
(* which more fields of a statement tell: earned[n] is the row of the sheet  *)
(* that row n of a TikTok workbook belongs to, and a row of a Shopee report  *)
(* is a copy if it repeats the withdrawal before it.                         *)

\* Rows that an earnings row of the sheet has in "Order details", and those of
\* them that are handed.
OrdersOf(e) == {n \in DOMAIN Rows : file.earned[n] = e}
Handed(e)   == {n \in OrdersOf(e) : ~(Rows[n].kind = "Order" /\ Rows[n].amount = 0)}

\* The amount of an earnings row is used up by its last order, which has an
\* amount itself, and by no one before it.
Brought(S) == MapThenSumSet(LAMBDA n : Rows[n].amount, S)
CountsDown(e) ==
    /\ Rows[Max(Handed(e))].amount # 0
    /\ \A n \in Handed(e) :
        Brought({k \in Handed(e) : k <= n}) = Sheet[e].amount <=> n = Max(Handed(e))

\* Two neighbouring earnings rows of one day.
SplitDay(e) == \E f \in Earnings :
    e < f /\ Sheet[e].day = Sheet[f].day /\ \A g \in Earnings : ~(e < g /\ g < f)
SplitsCountDown == \A e \in Earnings : SplitDay(e) => Handed(e) # {} /\ CountsDown(e)
DistinctDays == \A v, w \in KeptWds : Sheet[v].day = Sheet[w].day => v = w

\* An orderly statement: of TikTok, no withdrawal is in process, no two have
\* succeeded on a day, each has earnings, and every earnings row counts down;
\* of Shopee, none is in process and no two withdrawals with nothing in between
\* are of one amount; of Mengantar, all rows can be parsed.
AllCountDown == \A e \in Earnings : Handed(e) # {} /\ CountsDown(e)
Real == {n \in DOMAIN Rows : ~Failed(Rows[n]) /\ ~Rows[n].copy}
Orderly ==
    CASE file.market = "tiktok" ->
            /\ \A n \in DOMAIN Sheet : Sheet[n].type = "Withdrawal" => Sheet[n].status # "In Process"
            /\ DistinctDays
            /\ \A w \in KeptWds : \E e \in Earnings : Head1(e) = w
            /\ AllCountDown
      [] file.market = "shopee" ->
            /\ \A n \in DOMAIN Rows : ~InProcess(Rows[n])
            /\ \A m, n \in Real :
                /\ m < n /\ \A k \in Real : ~(m < k /\ k < n)
                /\ Rows[m].kind = "fund" /\ Rows[n].kind = "fund"
                => Rows[m].amount # Rows[n].amount
      [] file.market = "mengantar" -> ~file.broken /\ \A n \in DOMAIN Rows : Rows[n].good
      [] OTHER -> FALSE

\* What should be handed of it, by type and row, and in which order: every
\* withdrawal before the rows it paid out.
Key(item) == <<item.type, item.src>>
Fund(n)   == <<"fund", n>>
Expected ==
    CASE file.market = "tiktok" ->
            {Fund(w) : w \in KeptWds}
            \cup {<<TiktokType(Rows[n]), n>> : n \in UNION {Handed(e) : e \in Earnings}}
      [] file.market = "shopee" -> {<<ShopeeType(Rows[n]), n>> : n \in Real}
      [] OTHER -> {Fund(n) : n \in DOMAIN Rows} \cup {<<"order_fund", n>> : n \in DOMAIN Rows}
SheetRow(key) == IF key[1] # "fund" /\ file.market = "tiktok" THEN file.earned[key[2]] ELSE key[2]
Earlier(a, b) ==
    \/ SheetRow(a) < SheetRow(b)
    \/ /\ SheetRow(a) = SheetRow(b)
       /\ \/ a[2] < b[2] /\ a[1] # "fund" /\ b[1] # "fund"
          \/ a[1] = "fund" /\ b[1] # "fund"

\* An orderly statement is read without an error, in its order, nothing left
\* out and nothing twice: before an item is handed there has been just what
\* comes before it, and every withdrawal comes right before the rows that it
\* paid out.
ReadInOrder ==
    Orderly /\ (file.market = "tiktok" => by = "import") =>
        /\ pc \notin {"refused", "panic"}
        /\ \A n \in DOMAIN got :
            /\ Key(got[n]) \in Expected
            /\ {Key(got[k]) : k \in 1..(n - 1)} = {key \in Expected : Earlier(key, Key(got[n]))}
        /\ pc = "done" => {Key(got[k]) : k \in DOMAIN got} = Expected

\* Whatever else is wrong with a TikTok workbook, even one that is refused in
\* the end, no order is handed under a withdrawal that did not pay it out:
\* amounts that reach zero early are noticed by the day of the next order.
\* Not claimed when withdrawals succeed on one day, and when a day's earnings
\* are split and those above the split do not count down.
RowsUnderTheirWithdrawal ==
    /\ by = "import" /\ file.market = "tiktok" /\ DistinctDays
    /\ SplitsCountDown
    => \A n \in DOMAIN got : got[n].type # "fund" =>
        LET funds == {k \in 1..(n - 1) : got[k].type = "fund"} IN
        Head1(file.earned[got[n].src]) = IF funds = {} THEN 0 ELSE got[Max(funds)].src

\* Between two withdrawals that are handed one after the other, what the newer
\* is told to have left is what the older left, plus the rows in between, less
\* the newer withdrawal.  The rows of a type that iterateWithdrawal has no case
\* for are among them.  Not claimed of a withdrawal that was left out between
\* the two, and of a failed one that was refunded after another.
Neighbours(m, n) ==
    m < n /\ got[m].type = "fund" /\ got[n].type = "fund"
    /\ \A k \in (m + 1)..(n - 1) : got[k].type # "fund"
Between(v, w, S) == {k \in S : v < k /\ k < w}
ToldBalances ==
    \A m, n \in DOMAIN got :
        /\ Neighbours(m, n) /\ got[m].src < got[n].src
        /\ file.market = "tiktok" =>
            by = "import" /\ SplitsCountDown /\ Between(got[m].src, got[n].src, KeptWds) = {}
        /\ file.market = "shopee" =>
            /\ Orderly
            /\ Brought({k \in Between(got[m].src, got[n].src, DOMAIN Rows) : Failed(Rows[k])}) = 0
        /\ file.market \in {"tiktok", "shopee"}
        => got[m].after = got[n].after + got[m].amount
                + MapThenSumSet(LAMBDA k : got[k].amount, (m + 1)..(n - 1))
=============================================================================
