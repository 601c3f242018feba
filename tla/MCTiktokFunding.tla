--------------------------- MODULE MCTiktokFunding ---------------------------
(* Every short history of a shop, and the workbooks cut from it.             *)
EXTENDS TiktokFunding, SequencesExt

CONSTANTS Length,      \* events in a history
          Earned,      \* amounts a day can earn
          Spent,       \* amounts an ads deduction can have
          Skipped,     \* types of further rows, of which a history has one at most
          MaxLag,      \* newest earnings a withdrawal may leave behind
          Cut          \* oldest events a workbook may miss

E(a)   == [type |-> "Earnings", amount |-> a, lag |-> 0]
G(a)   == [type |-> "GMV", amount |-> -a, lag |-> 0]
W(lag) == [type |-> "Withdrawal", amount |-> 0, lag |-> lag]
X(type) == [type |-> type, amount |-> 0, lag |-> 0]
Events == {X(t) : t \in Skipped} \cup {E(a) : a \in Earned} \cup {G(a) : a \in Spent} \cup {W(l) : l \in 0..MaxLag}

IsEarning(h, n) == h[n].type \in {"Earnings", "GMV"}
IsWithdrawal(h, n) == h[n].type = "Withdrawal"

\* A withdrawal leaves behind its newest earnings; a deduction is taken from the
\* balance at once.  The withdrawal at n pays out the earnings up to here.
CutOff(h, n) ==
    LET before == {m \in 1..(n - 1) : h[m].type = "Earnings"} IN
    IF Cardinality(before) <= h[n].lag THEN 0
    ELSE CHOOSE m \in before : Cardinality({k \in before : k > m}) = h[n].lag

\* The withdrawal that pays out earning m: the first whose cut-off reaches it.
Payer(h, m) ==
    LET ws == {n \in m..Len(h) : IsWithdrawal(h, n) /\ (h[m].type = "GMV" \/ CutOff(h, n) >= m)} IN
    IF ws = {} THEN 0 ELSE CHOOSE n \in ws : \A k \in ws : n <= k

Pays(h, n) == {m \in 1..(n - 1) : IsEarning(h, m) /\ Payer(h, m) = n}
AmountOf(h, n) == IF ~IsWithdrawal(h, n) THEN h[n].amount
                  ELSE -MapThenSumSet(LAMBDA m : h[m].amount, Pays(h, n))

\* Every withdrawal pays something out, and leaves behind only earnings that
\* came after the withdrawal before it.
Valid(h) ==
    /\ Cardinality({n \in DOMAIN h : h[n].type \in Skipped}) <= 1
    /\ \A n \in DOMAIN h : IsWithdrawal(h, n) =>
        /\ AmountOf(h, n) < 0
        /\ \A k \in 1..(n - 1) : IsWithdrawal(h, k) => CutOff(h, n) >= k - 1

\* An ads deduction is on the day of the earning before it.
Date(h, n) == Cardinality({m \in 1..n : h[m].type # "GMV"})

\* The workbook of h without its first c events; newest rows come first.
Book(h, c) ==
    LET len == Len(h) - c
        at(r) == Len(h) + 1 - r
        rows == {n \in (c + 1)..Len(h) : IsEarning(h, n)}
        sorted == Reverse(SetToSortSeq(rows, <))
    IN  [records |-> [r \in 1..len |->
            [type |-> h[at(r)].type, date |-> Date(h, at(r)), amount |-> AmountOf(h, at(r))]],
         details |-> [d \in 1..Len(sorted) |->
            [kind |-> IF h[sorted[d]].type = "GMV" THEN "ads" ELSE "order",
             date |-> Date(h, sorted[d]), amount |-> h[sorted[d]].amount]],
         of |-> [d \in 1..Len(sorted) |-> Len(h) + 1 - sorted[d]],
         payer |-> [r \in 1..len |->
            IF ~IsEarning(h, at(r)) \/ Payer(h, at(r)) = 0 THEN 0
            ELSE Len(h) + 1 - Payer(h, at(r))]]

MCBooks == {Book(h, c) : h \in {g \in [1..Length -> Events] : Valid(g)}, c \in 0..Cut}
=============================================================================
