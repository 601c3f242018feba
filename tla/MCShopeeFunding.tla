--------------------------- MODULE MCShopeeFunding ---------------------------
(* Every short history of a shop's balance, and the statements cut from it.  *)
EXTENDS ShopeeFunding, SequencesExt

CONSTANTS Earned,    \* amounts an order can earn
          Charged,   \* amounts an order can cost
          Families   \* the kinds of statements that are cut

\* length: changes of the balance in a history.  statuses: how a withdrawal can end.
\* lag: newest changes a withdrawal may leave in the balance.  ties: whether two
\* orders may have the same date.  cut: oldest changes a statement may miss.
\* multi, splits, overlap: whether it comes in two files, where the second begins,
\* and how many changes both may contain.  doubled: whether every withdrawal is
\* listed twice.
OneFile   == [length |-> 6, statuses |-> {"done"}, lag |-> 2, ties |-> FALSE, cut |-> 2,
              multi |-> FALSE, splits |-> {0}, overlap |-> 0, doubled |-> BOOLEAN]
TwoFiles  == [length |-> 5, statuses |-> {"done", "failed", "process"}, lag |-> 1, ties |-> TRUE, cut |-> 1,
              multi |-> TRUE, splits |-> {2, 3}, overlap |-> 1, doubled |-> BOOLEAN]
Refunding == [length |-> 4, statuses |-> {"done", "failed"}, lag |-> 0, ties |-> FALSE, cut |-> 0,
              multi |-> TRUE, splits |-> {2}, overlap |-> 0, doubled |-> {FALSE}]
OneAndTwo     == {OneFile, TwoFiles}
OnlyRefunding == {Refunding}

\* A change of the balance, and the balance after it.  lag: how many of the newest
\* changes a withdrawal leaves.
Change(h, type, status, amount, lag) ==
    [type |-> type, status |-> status, amount |-> amount, lag |-> lag,
     balance |-> amount + IF h = <<>> THEN 0 ELSE h[Len(h)].balance]

IsW(h, n)  == h[n].type = "withdrawal"
Ws(h)      == {n \in DOMAIN h : IsW(h, n)}
Fails(h)   == {n \in Ws(h) : h[n].status = "failed"}
Returned(h) == {n \in DOMAIN h : h[n].type = "refund"}

\* The withdrawal before, 0 if there is none.
WBefore(h, n) == Max({0} \cup {m \in Ws(h) : m < n})

\* What can come after a history: an order, ...
OrdersOf(h) == {Change(h, "order", "done", a, 0) : a \in Earned \cup {-a : a \in Charged}}
\* ... the refund of the oldest withdrawal that failed and has none, ...
RefundsOf(h) ==
    LET j == Cardinality(Returned(h)) + 1 IN
    {Change(h, "refund", "done", -h[Nth(Fails(h), k)].amount, 0) : k \in {j} \cap 1..Cardinality(Fails(h))}
\* ... or a withdrawal.  It takes something and leaves only changes that came
\* after the withdrawal before it, which come to no less than 0.
WithdrawalsOf(f, h) ==
    LET n == Len(h) + 1
        takes(lag) == IF lag + 1 < n THEN h[n - 1 - lag].balance ELSE 0
        lags == {l \in 0..f.lag : l < n - WBefore(h, n)}
    IN  {w \in {Change(h, "withdrawal", s, -takes(l), l) : s \in f.statuses, l \in lags} :
            w.amount < 0 /\ w.balance >= 0}

Told(f) ==
    LET longer(h) == {Append(h, e) : e \in OrdersOf(h) \cup RefundsOf(h) \cup WithdrawalsOf(f, h)}
        told[n \in 0..f.length] == IF n = 0 THEN {<<>>} ELSE UNION {longer(h) : h \in told[n - 1]}
    IN  told[f.length]

\* The first withdrawal that took a change, 0 if none.
Taker(h, m) ==
    LET takers == {n \in Ws(h) : m < n - h[n].lag}
    IN  IF IsW(h, m) \/ takers = {} THEN 0 ELSE Min(takers)
RefundOf(h, n) ==
    LET j == Cardinality({m \in Fails(h) : m <= n}) IN
    IF j <= Cardinality(Returned(h)) THEN Nth(Returned(h), j) ELSE 0
\* The withdrawal it was paid out with: the one that took it, or, if that failed,
\* the one its refund was paid out with.
Payers(h) ==
    LET payer[m \in DOMAIN h] ==
            LET n == Taker(h, m) IN
            CASE n = 0 -> 0
              [] n > 0 /\ h[n].status = "done" -> n
              [] n > 0 /\ h[n].status = "process" -> 0
              [] n > 0 /\ h[n].status = "failed" -> IF RefundOf(h, n) = 0 THEN 0 ELSE payer[RefundOf(h, n)]
    IN  payer

\* Bound: at most two changes have the same date; files that overlap list one of them twice.
CanTie(f, h, n) == n = 0 \/ (f.ties /\ h[n].type = "order" /\ h[n + 1].type = "order")
Cuts(f) == (0..(f.length - 1)) \X (0..f.cut) \X f.splits \X (0..f.overlap) \X f.doubled

\* The place of a change in the ledger, and the ledger with what is true of it,
\* however it is cut: newest first.  Of two changes at tie the dates are the same.
Place(h, n) == IF n = 0 THEN 0 ELSE Len(h) + 1 - n
RowOf(h, tie, n) ==
    [id |-> Place(h, n), type |-> IF h[n].type = "order" THEN "order" ELSE "fund",
     status |-> h[n].status, date |-> IF tie > 0 /\ n > tie THEN n - 1 ELSE n,
     amount |-> h[n].amount, balance |-> h[n].balance]
Facts(h) ==
    LET payers == Payers(h)
        newestFirst(f) == [p \in DOMAIN h |-> f[Place(h, p)]]
        failed(n) == {m \in Fails(h) : RefundOf(h, m) = n}
    IN  [payer |-> newestFirst([n \in DOMAIN h |-> Place(h, payers[n])]),
         taker |-> newestFirst([n \in DOMAIN h |-> Place(h, Taker(h, n))]),
         of |-> newestFirst([n \in DOMAIN h |-> IF failed(n) = {} THEN 0 ELSE Place(h, Min(failed(n)))])]

\* A statement that a history is cut into.
Book(f, h, facts, x) ==
    LET tie == x[1]
        c == x[2]
        split == x[3]
        over == x[4]
        doubled == x[5]
        row(n) == RowOf(h, tie, n)
        listed(n) == IF doubled /\ h[n].type # "order" THEN <<row(n), row(n)>> ELSE <<row(n)>>
        rows(lo, hi) ==
            LET upTo[n \in (lo - 1)..hi] == IF n < lo THEN <<>> ELSE listed(n) \o upTo[n - 1]
            IN  upTo[hi]
    IN  [multi |-> f.multi,
         files |-> IF f.multi THEN <<rows(c + 1, split + over), rows(split + 1, Len(h))>>
                              ELSE <<rows(c + 1, Len(h))>>,
         ledger |-> [p \in DOMAIN h |-> row(Place(h, p))],
         taker |-> facts.taker, payer |-> facts.payer, of |-> facts.of]

\* A statement that begins with a withdrawal that failed, in which the next, after
\* its refund, succeeds, and a later one of the same amount takes a part of an
\* order's and fails.
Part(a) ==
    LET w(status, amount, balance) ==
            [type |-> "withdrawal", status |-> status, amount |-> amount, lag |-> 0, balance |-> balance]
        o(type, amount, balance) ==
            [type |-> type, status |-> "done", amount |-> amount, lag |-> 0, balance |-> balance]
        h == <<o("order", 1, 1), w("failed", -1, 0), o("refund", 1, 1), o("order", a, 1 + a),
               w("done", -1 - a, 0), o("order", a, a), w("failed", -1, a - 1)>>
    IN  Book(TwoFiles, h, Facts(h), <<0, 1, 5, 0, FALSE>>)

MCBooks ==
    LET told == UNION {{<<f, h, Facts(h)>> : h \in Told(f)} : f \in Families}
        cuts == UNION {Cuts(f) : f \in Families}
    IN  {Part(a) : a \in {e \in Earned : TwoFiles \in Families}} \cup
        {Book(y[1][1], y[1][2], y[1][3], y[2]) :
            y \in {z \in told \X cuts : z[2] \in Cuts(z[1][1]) /\ CanTie(z[1][1], z[1][2], z[2][1])}}
=============================================================================
