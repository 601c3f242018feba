---------------------------- MODULE ShopeeFunding ----------------------------
(***************************************************************************)
(* How the v2 Shopee readers (v2/datasource_shopee) find the earnings that  *)
(* each withdrawal paid out.                                                *)
(*                                                                          *)
(* A statement lists, newest first, what changed the shop's balance, and    *)
(* the balance after it: earnings and adjustments of orders, withdrawals    *)
(* and refunds of withdrawals that failed.  A request with one file is read *)
(* by shopeeXlsImpl, which compares sums of amounts; a request with several *)
(* by wdMultiFileImpl, which sorts their rows into one statement and        *)
(* follows the balance.                                                     *)
(*                                                                          *)
(* Amounts are whole rupiah, which float64 adds exactly.                    *)
(***************************************************************************)
EXTENDS Sequences, FiniteSetsExt, Ranks

CONSTANTS Books     \* the requests that can be submitted: their files

\* id tells which change of the balance a row is about.
Row == [id : Nat, type : {"order", "fund"}, status : {"done", "failed", "process"},
        date : Nat, amount : Int, balance : Int]
File == Seq(Row)

ASSUME BooksAssumption ==
    \A b \in Books :
        /\ b.multi \in BOOLEAN /\ b.files \in Seq(File)
        /\ b.ledger \in File /\ {b.taker, b.payer, b.of} \subseteq [DOMAIN b.ledger -> Nat]

VARIABLES
    book,    \* the request being read
    pc,      \* "read", "sort", "rest", "trace", "replace", "done" or "error"
    file,    \* next file
    items,   \* the rows read, newest first once they are sorted
    next,    \* next withdrawal
    result   \* the withdrawals returned, each with how often it got each item

vars == <<book, pc, file, items, next, result>>

Items == DOMAIN items
Init ==
    /\ book \in Books
    /\ pc = "read" /\ file = 1 /\ items = <<>>
    /\ next = 1 /\ result = <<>>

Abs(n)    == IF n < 0 THEN -n ELSE n
Amount(S) == MapThenSumSet(LAMBDA r : items[r].amount, S)   \* EarningList.GetAmount
IsFund(x) == x.type = "fund"
IsRefund(x) == IsFund(x) /\ x.amount > 0
Once(S)   == [r \in Items |-> IF r \in S THEN 1 ELSE 0]
Oldest(S) == Max(S)
Newest(S) == Min(S)

-----------------------------------------------------------------------------
(* Reading (Iterate).                                                       *)

\* A withdrawal that repeats the amount of the one above it is a duplicate.
Repeats(f, r) == r > 1 /\ IsFund(f[r]) /\ IsFund(f[r - 1]) /\ f[r].amount = f[r - 1].amount
Kept(f) ==
    LET kept == {r \in DOMAIN f : ~Repeats(f, r)} IN
    [n \in 1..Cardinality(kept) |-> f[Nth(kept, n)]]

\* ErrContainInProcessWD, or the rows of one more file.
ReadFile ==
    /\ pc = "read" /\ file <= Len(book.files)
    /\ IF \E r \in DOMAIN book.files[file] :
              IsFund(book.files[file][r]) /\ book.files[file][r].status = "process"
       THEN pc' = "error" /\ UNCHANGED <<file, items>>
       ELSE /\ items' = items \o Kept(book.files[file])
            /\ file' = file + 1
            /\ UNCHANGED pc
    /\ UNCHANGED <<book, next, result>>

EndOfFiles ==
    /\ pc = "read" /\ file > Len(book.files)
    /\ pc' = IF book.multi THEN "sort" ELSE "trace"
    /\ UNCHANGED <<book, file, items, next, result>>

\* InvoItemList.Sort keeps no order among the rows of a date: each of them, of
\* either file, may come before or after any other.
Tied == {r \in Items : \E s \in Items \ {r} : items[s].date = items[r].date}
Sort ==
    /\ pc = "sort" /\ pc' = "rest"
    /\ \E turn \in Injection(Tied, 1..Cardinality(Tied)) :
        LET upTo(i, j) == \/ items[i].date > items[j].date
                          \/ items[i].date = items[j].date /\ (i = j \/ turn[i] < turn[j])
            place == [r \in Items |-> Cardinality({s \in Items : upTo(s, r)})]
        IN  items' = [n \in Items |-> items[CHOOSE r \in Items : place[r] = n]]
    /\ UNCHANGED <<book, file, next, result>>

\* The withdrawals, newest first: for one file every row of that type; for
\* several those that took money out.
Withdrawals == {r \in Items : IsFund(items[r]) /\ (book.multi => items[r].amount < 0)}
Wd(k) == Nth(Withdrawals, k)
Total == Cardinality(Withdrawals)
Due(w) == Abs(items[w].amount)
Rest(w) == items[w].balance

Return(w, times) == result' = Append(result, [wd |-> w, times |-> times])

-----------------------------------------------------------------------------
(* One file: ShopeeWdSet.                                                   *)

\* The rows between a withdrawal and the one before it.
Earning(w) == {r \in Items : r > w /\ \A v \in Withdrawals : v > w => r < v}
IsLast(w)  == w = Oldest(Withdrawals)
Before(w)  == Newest({v \in Withdrawals : v > w})

\* The newest rows that fit, up to the first that does not.
NewestFit(S, limit) == {r \in S : \A s \in S : s <= r => Amount({u \in S : u <= s}) <= limit}
\* The oldest rows that fit, up to the first that does not or fills the limit.
OldestFit(S, limit) ==
    {r \in S : \A s \in S : /\ s >= r => Amount({u \in S : u >= s}) <= limit
                            /\ s > r => Amount({u \in S : u >= s}) # limit}

\* Mutant of NotFundedEarning: the oldest rows that fit.
NotFundedOldest(w) ==
    {r \in Earning(w) : \A s \in Earning(w) : s >= r => Amount({u \in Earning(w) : u >= s}) <= Rest(w)}
\* What the withdrawal left in the balance.
NotFundedEarning(w) == IF Rest(w) > 0 THEN NewestFit(Earning(w), Rest(w)) ELSE {}

FundedEarning(w) ==
    LET own == OldestFit(Earning(w) \ NotFundedEarning(w), Due(w)) IN
    IF IsLast(w) THEN own ELSE own \cup NotFundedEarning(Before(w))

\* TraceValidEarning: the rows are taken as they are if they add up, and traced
\* if they do not.
AddUp(w) == Amount(Earning(w)) = Due(w)
Traceable(w) ==
    \/ AddUp(w)
    \/ /\ Rest(w) >= 0
       /\ ~IsLast(w) /\ Rest(Before(w)) > 0
            => Amount(NotFundedEarning(Before(w))) = Rest(Before(w))
       /\ Amount(FundedEarning(w)) = Due(w)
Traced(w) == IF AddUp(w) THEN Earning(w) ELSE FundedEarning(w)

\* shopeeXlsImpl.ValidWithdrawal: only the oldest withdrawal may be untraceable.
TraceSingle ==
    /\ pc = "trace" /\ ~book.multi /\ next <= Total
    /\ LET w == Wd(next) IN
       IF Traceable(w)
       THEN Return(w, Once(Traced(w))) /\ next' = next + 1 /\ UNCHANGED pc
       ELSE /\ pc' = IF IsLast(w) THEN "done" ELSE "error"
            /\ UNCHANGED <<next, result>>
    /\ UNCHANGED <<book, file, items>>

EndSingle ==
    /\ pc = "trace" /\ ~book.multi /\ next > Total
    /\ pc' = "done"
    /\ UNCHANGED <<book, file, items, next, result>>

-----------------------------------------------------------------------------
(* Several files: wdMultiFileImpl.ValidWithdrawal.                          *)

Older(r) == {s \in Items : items[s].date < items[r].date}

\* What the withdrawal left: the rows before it back to a balance of its amount.
NotFund(w) == {r \in Older(w) : \A s \in Older(w) : s <= r => items[s].balance # Due(w)}

\* What it paid out: the rows before that, back to a balance of zero or until
\* they add up.
Funded(w) ==
    IF NotFund(w) = {}
    THEN {r \in Older(w) : \A s \in Older(w) : s <= r => items[s].balance # 0}
    ELSE LET S == Older(w) \cap Older(Oldest(NotFund(w))) IN
         {r \in S : \A s \in S : s < r => Amount({u \in S : u <= s}) # Due(w)}

\* First the rest of every withdrawal is checked.
CheckRest ==
    /\ pc = "rest"
    /\ pc' = IF \A w \in Withdrawals : Amount(NotFund(w)) = Rest(w) THEN "trace" ELSE "error"
    /\ UNCHANGED <<book, file, items, next, result>>

TraceMulti ==
    /\ pc = "trace" /\ book.multi /\ next <= Total
    /\ LET w == Wd(next) IN
       IF Amount(Funded(w)) = Due(w)
       THEN Return(w, Once(Funded(w))) /\ next' = next + 1 /\ UNCHANGED pc
       ELSE /\ pc' = IF next = Total /\ Total > 1 THEN "replace" ELSE "error"
            /\ UNCHANGED <<next, result>>
    /\ UNCHANGED <<book, file, items>>

EndMulti ==
    /\ pc = "trace" /\ book.multi /\ next > Total
    /\ pc' = "replace"
    /\ UNCHANGED <<book, file, items, next, result>>

IsFailed(k) == items[result[k].wd].status = "failed"
Got(k) == {r \in Items : result[k].times[r] > 0}
\* The newest refund among the rows of a withdrawal.  A refund at position 0 is
\* taken for none.
Refund(k) == Newest({r \in Got(k) : IsRefund(items[r])})
HasRefund(k) == (\E r \in Got(k) : IsRefund(items[r])) /\ Refund(k) # Newest(Got(k))
\* failedMap: the oldest failed withdrawal of an amount.
FailedOf(amount) == {k \in DOMAIN result : IsFailed(k) /\ Due(result[k].wd) = amount}

\* Mutant of WithFailed: the refund is replaced, and the other rows are lost.
WithFailedOnly(k) ==
    IF ~HasRefund(k) THEN result[k].times
    ELSE result[Oldest(FailedOf(items[Refund(k)].amount))].times
\* The rows of a failed withdrawal are added to those of the one that its refund
\* was paid out with.
WithFailed(k) ==
    IF ~HasRefund(k) THEN result[k].times
    ELSE LET f == Oldest(FailedOf(items[Refund(k)].amount)) IN
         [r \in Items |-> result[k].times[r] + result[f].times[r]]

\* Then the failed withdrawals are left out.
ReplaceFailed ==
    /\ pc = "replace"
    /\ IF \A k \in DOMAIN result : HasRefund(k) => FailedOf(items[Refund(k)].amount) # {}
       THEN LET good == {k \in DOMAIN result : ~IsFailed(k)}
            IN  /\ result' = [n \in 1..Cardinality(good) |->
                       [wd |-> result[Nth(good, n)].wd, times |-> WithFailed(Nth(good, n))]]
                /\ pc' = "done"
       ELSE pc' = "error" /\ UNCHANGED result
    /\ UNCHANGED <<book, file, items, next>>

Next == \/ ReadFile \/ EndOfFiles \/ Sort
        \/ TraceSingle \/ EndSingle
        \/ CheckRest \/ TraceMulti \/ EndMulti \/ ReplaceFailed

Spec == Init /\ [][Next]_vars

-----------------------------------------------------------------------------
(* Properties.  They compare the result with what really happened, which     *)
(* four more fields of a request tell.  ledger are the changes of the shop's *)
(* balance, newest first, a row's id its place in it; taker[p] is the        *)
(* withdrawal that took change p out of the balance and payer[p] the one it  *)
(* was paid out with, 0 if none; of[p] is the withdrawal that p is a refund  *)
(* of.                                                                       *)

Ledger == book.ledger
Changes == DOMAIN Ledger
Draws == {p \in Changes : IsFund(Ledger[p]) /\ Ledger[p].amount < 0}
Refunds == {p \in Changes : IsRefund(Ledger[p])}
Worth(S) == MapThenSumSet(LAMBDA p : Ledger[p].amount, S)
Taken(w) == {p \in Changes : book.taker[p] = w}
LeftBy(w) == {p \in Changes \ Draws : w < p /\ book.taker[p] < w}

\* A withdrawal takes what older ones have left, and of the changes after the one
\* before it all but the newest.
Balanced ==
    /\ \A p \in Changes : Ledger[p].balance =
          Ledger[p].amount + (IF p + 1 \in Changes THEN Ledger[p + 1].balance ELSE 0)
    /\ \A p \in Draws : book.taker[p] = 0 /\ Ledger[p].amount = -Worth(Taken(p))
    /\ \A p \in Changes \ Draws :
        /\ book.taker[p] \in Draws \cup {0} /\ book.taker[p] < p
        /\ \A v, w \in Draws : v < w /\ w < p => book.taker[p] >= v
        /\ \A q \in Changes \ Draws : p < q => book.taker[p] <= book.taker[q]

\* What a withdrawal that failed took is paid out with its refund.
Settled ==
    /\ \A q \in Refunds :
        /\ book.of[q] \in Draws /\ q < book.of[q]
        /\ Ledger[book.of[q]].status = "failed" /\ Ledger[q].amount = -Ledger[book.of[q]].amount
        /\ \A r \in Refunds : book.of[r] = book.of[q] => r = q
    /\ \A p \in Changes \ Draws : LET t == book.taker[p] IN
        /\ t = 0 => book.payer[p] = 0
        /\ t # 0 /\ Ledger[t].status = "done" => book.payer[p] = t
        /\ t # 0 /\ Ledger[t].status = "failed" =>
             /\ \A q \in Refunds : book.of[q] = t => book.payer[p] = book.payer[q]
             /\ (\A q \in Refunds : book.of[q] # t) => book.payer[p] = 0

\* The files show the newest changes, each in one of them, in their order; only a
\* withdrawal or a refund may be listed repeatedly, and two in a row that are not
\* the same have different amounts.
Shown == UNION {{book.files[f][r].id : r \in DOMAIN book.files[f]} : f \in DOMAIN book.files}
Whole == Shown = Changes
Listed ==
    /\ Shown \subseteq Changes /\ \A p \in Shown : 1..p \subseteq Shown
    /\ \A f \in DOMAIN book.files : LET F == book.files[f] IN
        /\ \A r \in DOMAIN F : F[r] = Ledger[F[r].id]
        /\ \A r, s \in DOMAIN F : r < s =>
              F[r].id <= F[s].id /\ (F[r].id = F[s].id => IsFund(F[r]))
        /\ \A r, s \in DOMAIN F :
              s = r + 1 /\ IsFund(F[r]) /\ IsFund(F[s]) /\ F[r].amount = F[s].amount => F[r].id = F[s].id
    /\ \A f, g \in DOMAIN book.files : f # g =>
          \A r \in DOMAIN book.files[f], s \in DOMAIN book.files[g] : book.files[f][r].id # book.files[g][s].id
    /\ IF book.multi THEN \A p, q \in Changes : p < q => Ledger[p].date > Ledger[q].date
                     ELSE Len(book.files) = 1

\* One file: no withdrawal failed, none leaves what the one before it left, and
\* changes bring money if any withdrawal leaves something.
OrderlyOne ==
    /\ \A p \in Changes : IsFund(Ledger[p]) => p \in Draws /\ Ledger[p].status = "done"
    /\ (\E w \in Draws : LeftBy(w) # {}) => \A p \in Changes \ Draws : Ledger[p].amount > 0
    /\ \A v, w \in Draws : v < w /\ Ledger[v].balance = Ledger[w].balance =>
          Ledger[v].balance = 0 \/ \E u \in Draws : v < u /\ u < w

\* Several: no withdrawal leaves anything, and only withdrawals bring the balance
\* to zero.  A refund is taken by a withdrawal that succeeds and takes no other, and
\* is not the newest change it takes.  A withdrawal of the same amount that failed,
\* too, came after the one refunded, of which all is shown then.
OrderlyMany ==
    /\ \A w \in Draws : LeftBy(w) = {}
    /\ \A p \in Changes \ Draws : Ledger[p].balance # 0
    /\ \A q \in Refunds : book.taker[q] # 0 => LET w == book.taker[q] IN
        /\ Ledger[w].status = "done" /\ ~IsFund(Ledger[w + 1])
        /\ \A r \in Refunds : book.taker[r] = w => r = q
        /\ \A u \in Draws \cap Shown :
              Ledger[u].status = "failed" /\ Ledger[u].amount = Ledger[book.of[q]].amount =>
                  u = book.of[q] \/ (u < book.of[q] /\ Taken(book.of[q]) \subseteq Shown)

Orderly ==
    /\ Balanced /\ Settled /\ Listed
    /\ \A p \in Changes : Ledger[p].status # "process"
    /\ IF book.multi THEN OrderlyMany ELSE OrderlyOne

Orders == {r \in Items : ~IsFund(items[r])}
Funds(k) == {r \in Got(k) : IsFund(items[r])}

\* What the submission will pay out for the k-th withdrawal returned: a row of
\* a withdrawal or a refund belongs to no order.
PaidOut(k) == MapThenSumSet(LAMBDA r : result[k].times[r] * items[r].amount, Orders)

\* The rows returned for a withdrawal add up to it, be a refund among them
\* replaced by what the failed withdrawal had paid out or not; except that a
\* refund on top is overlooked, that a withdrawal that leaves something is
\* itself among the rows of the next, and that when the one that was refunded
\* cannot be traced, a later one of its amount may be taken for it that failed,
\* too, and had paid out that very refund.
AddsUp ==
    pc = "done" => \A k \in DOMAIN result :
        \/ Funds(k) = {}
        \/ Cardinality(Funds(k)) = 1 /\ \A r \in Funds(k) :
               IsRefund(items[r]) /\ r # Newest(Got(k)) /\ result[k].times[r] = 1
        => PaidOut(k) = Due(result[k].wd)

\* "search jika ada yang gagal" (shopee_wd_excel_multi.go): a refund among the
\* rows of a withdrawal is found, and replaced.
RefundReplaced ==
    pc = "done" /\ book.multi => \A k \in DOMAIN result :
        Cardinality(Funds(k)) = 1 /\ (\A r \in Funds(k) : IsRefund(items[r]))
            => PaidOut(k) = Due(result[k].wd)

\* In orderly files every withdrawal is given just the rows of the orders it
\* really paid out, once, also those of a failed withdrawal before it.  Files
\* that are not whole do not show what the oldest withdrawal paid out; those
\* that are whole are read without an error, in whichever order they come, and
\* just the withdrawals that did not fail are returned.
TrueFunding ==
    Orderly =>
        /\ Whole =>
            /\ pc # "error"
            /\ pc = "done" => {items[result[k].wd].id : k \in DOMAIN result} =
                               {w \in Draws : Ledger[w].status = "done"}
        /\ pc = "done" => \A k \in DOMAIN result :
            Whole \/ result[k].wd # Oldest(Withdrawals) =>
                \A r \in Orders : result[k].times[r] =
                    (IF book.payer[items[r].id] = items[result[k].wd].id THEN 1 ELSE 0)
=============================================================================
