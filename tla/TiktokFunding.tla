---------------------------- MODULE TiktokFunding ----------------------------
(***************************************************************************)
(* How the v2 TikTok reader (v2/datasource/tiktok_wd_excel_v2.go and        *)
(* tiktok_wd_set.go) finds the earnings that each withdrawal paid out.      *)
(*                                                                          *)
(* A workbook has two sheets.  "Withdrawal records" lists, newest first,    *)
(* the days' earnings, the deductions for ads and the withdrawals; "Order   *)
(* details" lists the rows the days are made of.  IterateWithdrawal gives   *)
(* every withdrawal the earnings below it, down to the next withdrawal.     *)
(* That is not yet what it paid out: the newest of those may not have been  *)
(* available yet, and were paid out by the withdrawal after it.             *)
(* FundedEarning traces them, and IterateValidWithdrawal returns the        *)
(* withdrawals it could trace.                                              *)
(*                                                                          *)
(* Amounts are whole rupiah, which float64 adds exactly.  A list of         *)
(* earnings is the set of their rows: their order is that of the sheet.     *)
(***************************************************************************)
EXTENDS Integers, Sequences, FiniteSetsExt

CONSTANTS Books      \* the workbooks that can be submitted

RecordTypes == {"Earnings", "GMV", "Withdrawal", "InProcess", "Failed", "Other"}
DetailKinds == {"order", "ads"}   \* what the funding tells apart
Record == [type : RecordTypes, date : Nat, amount : Int]
Detail == [kind : DetailKinds, date : Nat, amount : Int]

ASSUME BooksAssumption ==
    \A b \in Books : b.records \in Seq(Record) /\ b.details \in Seq(Detail)

VARIABLES
    book,     \* the workbook being read
    phase,    \* "records", "funding", "done", "error" or "panic"
    row,      \* next row of the sheet "Withdrawal records"
    wds,      \* rows of the withdrawals met so far, newest first
    invos,    \* the details of each row that is an earning of a withdrawal
    getted,   \* ads details already given to a deduction
    next,     \* the withdrawal IterateValidWithdrawal looks at
    funded    \* its result: the earnings of each withdrawal up to there

fvars == <<book, phase, row, wds, invos, getted, next, funded>>

Records == book.records
Details == book.details
Lines   == DOMAIN Records

FundInit ==
    /\ book \in Books
    /\ phase = "records" /\ row = 1
    /\ wds = <<>> /\ invos = [r \in Lines |-> {}] /\ getted = {}
    /\ next = 1 /\ funded = <<>>

Abs(n) == IF n < 0 THEN -n ELSE n
DetailAmount(S) == MapThenSumSet(LAMBDA d : Details[d].amount, S)   \* InvoItemList.GetAmount

-----------------------------------------------------------------------------
(* IterateWithdrawal.                                                       *)

\* GetOrderEarning: all rows of that day that are no ads payment.
OrderEarning(date) ==
    {d \in DOMAIN Details : Details[d].date = date /\ Details[d].kind # "ads"}

\* GetGmvDeduction: the first ads payments of that day that no deduction has
\* got, as long as their sum does not exceed the amount.
Free(date) ==
    {d \in DOMAIN Details : Details[d].date = date /\ Details[d].kind = "ads" /\ d \notin getted}
\* Mutant: forgets which rows have been given already.
GmvDeductionForgets(date, amount) ==
    LET all == {d \in DOMAIN Details : Details[d].date = date /\ Details[d].kind = "ads"} IN
    {d \in all : MapThenSumSet(LAMBDA e : Abs(Details[e].amount), {e \in all : e <= d}) <= Abs(amount)}
GmvDeduction(date, amount) ==
    {d \in Free(date) :
        MapThenSumSet(LAMBDA e : Abs(Details[e].amount), {e \in Free(date) : e <= d}) <= Abs(amount)}

NextRow == row' = row + 1

Attach(S) == invos' = IF wds = <<>> THEN invos ELSE [invos EXCEPT ![row] = S]

ReadEarnings ==
    /\ Records[row].type = "Earnings"
    /\ Attach(OrderEarning(Records[row].date))
    /\ NextRow
    /\ UNCHANGED <<phase, wds, getted>>

ReadDeduction ==
    /\ Records[row].type = "GMV"
    /\ LET S == GmvDeduction(Records[row].date, Records[row].amount) IN
       /\ getted' = getted \cup S
       /\ IF DetailAmount(S) # Records[row].amount
          THEN phase' = "error" /\ UNCHANGED <<invos, row>>
          ELSE Attach(S) /\ NextRow /\ UNCHANGED phase
    /\ UNCHANGED wds

ReadWithdrawal ==
    /\ Records[row].type = "Withdrawal"
    /\ wds' = Append(wds, row)
    /\ NextRow
    /\ UNCHANGED <<phase, invos, getted>>

\* ErrContainInProcessWD.
ReadInProcess ==
    /\ Records[row].type = "InProcess"
    /\ phase' = "error"
    /\ UNCHANGED <<row, wds, invos, getted>>

SkipRow ==
    /\ Records[row].type \in {"Failed", "Other"}
    /\ NextRow
    /\ UNCHANGED <<phase, wds, invos, getted>>

ReadRecord ==
    /\ phase = "records" /\ row \in Lines
    /\ ReadEarnings \/ ReadDeduction \/ ReadWithdrawal \/ ReadInProcess \/ SkipRow
    /\ UNCHANGED <<book, next, funded>>

EndOfRecords ==
    /\ phase = "records" /\ row \notin Lines
    /\ phase' = "funding"
    /\ UNCHANGED <<book, row, wds, invos, getted, next, funded>>

-----------------------------------------------------------------------------
(* FundedEarning.                                                           *)

\* The earnings of the k-th withdrawal: the rows between it and the next one.
Earning(k) ==
    {r \in Lines : /\ r > wds[k] /\ (k < Len(wds) => r < wds[k + 1])
                  /\ Records[r].type \in {"Earnings", "GMV"}}
IsLast(k) == k = Len(wds) /\ Len(wds) > 1
Amount(k) == Abs(Records[wds[k]].amount)
SheetAmount(S) == MapThenSumSet(LAMBDA r : Records[r].amount, S)
GetAmount(S)   == MapThenSumSet(LAMBDA r : DetailAmount(invos[r]), S)  \* EarningList.GetAmount

\* Mutants: starting at the newest row, at the oldest row.
OldestFromNewest(S, limit) == {r \in S : SheetAmount({s \in S : s <= r}) <= limit}
NewestFromOldest(S, limit) == {r \in S : SheetAmount({s \in S : s >= r}) <= limit}

\* The earnings that fit when they are added up from the oldest one.
Oldest(S, limit) == {r \in S : SheetAmount({s \in S : s >= r}) <= limit}
\* The newest earnings, up to the first one that does not fit.
Newest(S, limit) ==
    {r \in S : \A s \in S : s <= r => SheetAmount({u \in S : u <= s}) <= limit}

Error == [ok |-> FALSE, funded |-> {}, not |-> {}]
Traced(S, T) == [ok |-> TRUE, funded |-> S, not |-> T]

FundedEarning ==
    LET fund[k \in DOMAIN wds] ==
        LET own  == Earning(k)
            all  == GetAmount(own) = Amount(k)
            list == IF all THEN own ELSE Oldest(own, Amount(k))
            rest == own \ list
            need == Amount(k) - GetAmount(list)
            more == Newest(Earning(k + 1), need)    \* from before.IsLast
        IN  IF need = 0 THEN Traced(list, rest)
            ELSE IF list # own \/ k = Len(wds) THEN Error
            ELSE IF IsLast(k + 1)
                 THEN IF need >= 0 /\ GetAmount(more) = need
                      THEN Traced(more \cup list, rest) ELSE Error
            ELSE IF fund[k + 1].ok /\ GetAmount(fund[k + 1].not) = need
                 THEN Traced(fund[k + 1].not \cup list, rest) ELSE Error
    IN  fund

-----------------------------------------------------------------------------
(* IterateValidWithdrawal.                                                  *)

Result == FundedEarning[next]

Keep ==
    /\ Result.ok /\ Result.funded # {}
    /\ funded' = Append(funded, Result.funded)
    /\ next' = next + 1
    /\ UNCHANGED phase

\* FundedEarning quotes the oldest earning of a withdrawal that has nothing
\* before it, which panics if it has no earning either.
Panics == Len(wds) = 1 /\ Earning(1) = {} /\ ~Result.ok

\* The oldest withdrawal may be untraceable, unless it is the only one;
\* a withdrawal without any earning is an error too.
GiveUp ==
    /\ ~(Result.ok /\ Result.funded # {})
    /\ phase' = IF Panics THEN "panic"
             ELSE IF ~Result.ok /\ next > 1 /\ IsLast(next) THEN "done" ELSE "error"
    /\ UNCHANGED <<next, funded>>

ValidWithdrawal ==
    /\ phase = "funding" /\ next <= Len(wds)
    /\ Keep \/ GiveUp
    /\ UNCHANGED <<book, row, wds, invos, getted>>

EndOfWithdrawals ==
    /\ phase = "funding" /\ next > Len(wds)
    /\ phase' = "done"
    /\ UNCHANGED <<book, row, wds, invos, getted, next, funded>>

FundNext == ReadRecord \/ EndOfRecords \/ ValidWithdrawal \/ EndOfWithdrawals

FundSpec == FundInit /\ [][FundNext]_fvars /\ WF_fvars(FundNext)

-----------------------------------------------------------------------------
(* Properties.  They compare the result with what really happened, which     *)
(* two more fields of a workbook tell: of[d] is the row of the earning that  *)
(* a detail is part of, payer[r] the row of the withdrawal that paid out     *)
(* earning r, 0 if none has yet.                                             *)

Withdrawals == {w \in Lines : Records[w].type = "Withdrawal"}
AllEarnings == {r \in Lines : Records[r].type \in {"Earnings", "GMV"}}
PartsOf(r) == {d \in DOMAIN Details : book.of[d] = r}
TrueEarnings(w) == {r \in AllEarnings : book.payer[r] = w}

\* Of a day whose earnings are split between two rows, both get all its orders.
OneRowADay ==
    \A r, s \in Lines :
        (/\ Records[r].type = "Earnings" /\ Records[s].type = "Earnings"
         /\ Records[r].date = Records[s].date) => r = s

\* The details are those of the earnings: ads payments of a deduction, in the
\* order of the sheet, and orders of a day's earnings.  A day brings money, a
\* deduction takes some.
Itemised ==
    /\ OneRowADay
    /\ \A d \in DOMAIN Details :
        /\ book.of[d] \in AllEarnings
        /\ Details[d].date = Records[book.of[d]].date
        /\ Details[d].kind = "ads" <=> Records[book.of[d]].type = "GMV"
        /\ Details[d].kind = "ads" => Details[d].amount < 0
    /\ \A d, e \in DOMAIN Details :
        Details[d].kind = "ads" /\ Details[e].kind = "ads" /\ d < e => book.of[d] <= book.of[e]
    /\ \A r \in AllEarnings :
        /\ Records[r].amount = DetailAmount(PartsOf(r))
        /\ IF Records[r].type = "Earnings" THEN Records[r].amount > 0 ELSE Records[r].amount < 0

\* A withdrawal pays out everything below it, down to what an older one has
\* paid out, but for the newest days' earnings, which the next one pays out.
\* The workbook shows all that its withdrawals have paid out: it goes back to
\* the first earning.
Complete ==
    /\ Itemised
    /\ \A r \in AllEarnings :
        /\ book.payer[r] \in Withdrawals \cup {0} /\ book.payer[r] < r
        /\ \A v, w \in Withdrawals : v < w /\ w < r => book.payer[r] >= v
        /\ Records[r].type = "GMV" => \A w \in Withdrawals : w < r => book.payer[r] >= w
    /\ \A r, s \in AllEarnings :
        r < s /\ Records[r].type = "Earnings" /\ Records[s].type = "Earnings" => book.payer[r] <= book.payer[s]
    /\ \A w \in Withdrawals : Records[w].amount < 0 /\ Records[w].amount = -SheetAmount(TrueEarnings(w))

\* An earning that the withdrawal next above it has left behind.
LeftBy(w) == {r \in AllEarnings : /\ w < r /\ book.payer[r] # w
                                  /\ \A v \in Withdrawals : v < r => v <= w}

\* What can be traced: no withdrawal is in process, no deduction comes while
\* something is left behind, and a withdrawal that pays out what the one before
\* left behind leaves nothing behind itself.
Traceable ==
    /\ Complete
    /\ \A r \in Lines : Records[r].type # "InProcess"
    /\ \A v, w \in Withdrawals : LeftBy(v) # {} /\ v < w /\ LeftBy(w) # {} =>
          \E u \in Withdrawals : v < u /\ u < w
    /\ (\E w \in Withdrawals : LeftBy(w) # {}) => \A r \in Lines : Records[r].type # "GMV"

\* What the submission will pay out for the k-th withdrawal.
PaidOut(k) == UNION {invos[r] : r \in funded[k]}

\* The earnings returned for a withdrawal add up to it, row by row of the
\* sheet "Order details", not only by the day totals the tracing compares.
AddsUp == OneRowADay => \A k \in DOMAIN funded : DetailAmount(PaidOut(k)) = Amount(k)

\* No row of "Order details" is paid out by two withdrawals.  Only a workbook
\* that does not go back to the first earning may give the oldest withdrawal,
\* whose own earnings it does not show, those of the withdrawal after it.
PaidOnce ==
    OneRowADay => \A k, l \in DOMAIN funded :
        k < l /\ (Complete \/ l < Len(wds)) => PaidOut(k) \cap PaidOut(l) = {}

\* A workbook that can be traced is read without an error, all of its
\* withdrawals are returned, and every one is given just the earnings it really
\* paid out.
TrueFunding ==
    Traceable =>
        /\ phase \notin {"error", "panic"}
        /\ phase = "done" => Len(funded) = Len(wds)
        /\ \A k \in DOMAIN funded : funded[k] = TrueEarnings(wds[k])
=============================================================================
