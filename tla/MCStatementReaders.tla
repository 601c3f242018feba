-------------------------- MODULE MCStatementReaders --------------------------
(* Small statements of every marketplace, made from what really happened.    *)
EXTENDS SubmitStream

CONSTANTS o1, o2

-----------------------------------------------------------------------------
(* TikTok: a sheet newest first, and below every earnings row its orders.     *)

D(kind, amount) == [kind |-> kind, amount |-> amount]
Order1 == D("Order", 1)
Minus1 == D("Order", -1)
Lost1  == D("Logistics reimbursement", 1)
Other0 == D("other", 0)
Brings == { <<Order1>>, <<D("Order", 2), D("Order", 0)>>, <<Order1, Lost1>>, <<Order1, Other0>>,
            <<Order1, Lost1, Minus1>>, <<Other0, Order1>>, <<Lost1, Minus1>>, <<Other0>>, <<>> }

Wd(st, d) == [type |-> "Withdrawal", status |-> st, day |-> d, amount |-> -2, orders |-> <<>>]
Earned(b, d) == [type |-> "Earnings", status |-> "Transferred", day |-> d, orders |-> b,
                 amount |-> MapThenSumSet(LAMBDA n : b[n].amount, DOMAIN b)]
Wds   == {Wd(st, d) : st \in {"Transferred", "Failed", "In Process"}, d \in 1..2}
Earns == {Earned(b, d) : b \in Brings, d \in 1..2}

Falling(s) == \A k \in 1..(Len(s) - 1) : s[k].day >= s[k + 1].day
Top    == Wd("Transferred", 3)
Sheets == {s \in {<<t, a, b, c>> : t \in {Top, Wd("Failed", 3)}, a \in Earns,
                                   b \in Wds \cup Earns, c \in Wds \cup Earns} : Falling(s)}

Workbook(s) ==
    LET all == FlattenSeq([n \in DOMAIN s |->
                [k \in DOMAIN s[n].orders |-> <<n, s[n].orders[k]>>]])
    IN [market |-> "tiktok",
        sheet |-> [n \in DOMAIN s |-> [type |-> s[n].type, status |-> s[n].status,
                                       day |-> s[n].day, amount |-> s[n].amount]],
        rows |-> [k \in DOMAIN all |-> [kind |-> all[k][2].kind, amount |-> all[k][2].amount,
                                        day |-> s[all[k][1]].day, order |-> o1]],
        earned |-> [k \in DOMAIN all |-> all[k][1]]]

-----------------------------------------------------------------------------
(* Shopee: what happened, oldest first.                                      *)

H(kind, amount, status, refund, note, copy) ==
    [kind |-> kind, amount |-> amount, status |-> status, refund |-> refund,
     note |-> note, copy |-> copy,
     order |-> IF kind # "order" THEN NoOrder ELSE IF amount = 1 THEN o1 ELSE o2,
     named |-> IF note = {"lost", "lost in full"} THEN o2 ELSE NoOrder]
Done == "Transaksi Selesai"
Entries ==
    {H("order", 1, Done, FALSE, {}, FALSE), H("order", 2, Done, FALSE, {}, FALSE),
     H("adjustment", -1, Done, FALSE, {"commission"}, FALSE),
     H("adjustment", 1, Done, FALSE, {"premium"}, FALSE),
     H("adjustment", 1, Done, FALSE, {"lost", "compensation"}, FALSE),
     H("other", 1, Done, FALSE, {}, FALSE),
     H("fund", -1, Done, FALSE, {}, FALSE), H("fund", -2, Done, FALSE, {}, FALSE),
     H("fund", -1, Done, FALSE, {}, TRUE),
     H("fund", -1, "Gagal", FALSE, {}, FALSE), H("fund", 1, Done, TRUE, {}, FALSE),
     H("fund", -1, "Sedang Diproses", FALSE, {}, FALSE)}

Balance(h) ==
    LET b[n \in 0..Len(h)] == IF n = 0 THEN 0
                              ELSE IF h[n].copy THEN b[n - 1] ELSE b[n - 1] + h[n].amount
    IN b
Happened(h) ==
    /\ \A n \in DOMAIN h :
        /\ h[n].copy => n > 1 /\ h[n - 1] = [h[n] EXCEPT !.copy = FALSE]
        /\ h[n].refund => \E k \in 1..(n - 1) :
            h[k].status = "Gagal" /\ \A l \in (k + 1)..(n - 1) : ~h[l].refund /\ h[l].status # "Gagal"
        /\ h[n].status = "Sedang Diproses" => n = Len(h)
    /\ LET b == Balance(h) IN \A n \in DOMAIN h : b[n] >= 0
First == {e \in Entries : e.amount > 0 /\ ~e.refund}
Histories == {h \in {<<a, b, c, d, e>> : a \in First, b \in Entries, c \in Entries,
                                         d \in Entries, e \in Entries} : Happened(h)}

Report(h) ==
    [market |-> "shopee", sheet |-> <<>>, earned |-> <<>>,
     rows |-> LET n == Len(h) IN
        [k \in 1..n |-> [h[n + 1 - k] EXCEPT !.copy = k > 1 /\ h[n + 2 - k].copy] @@
                        [balance |-> Balance(h)[n + 1 - k]]]]

-----------------------------------------------------------------------------
Csv(goods, broken) ==
    [market |-> "mengantar", sheet |-> <<>>, earned |-> <<>>, broken |-> broken,
     rows |-> [n \in DOMAIN goods |-> [amount |-> n - 1, order |-> o1, good |-> goods[n]]]]

MCWorkbooks == {Workbook(s) : s \in Sheets}
MCReports   == {Report(h) : h \in Histories}
MCUploads ==
    {Workbook(s) : s \in {<<t, a, b>> : t \in {Top, Wd("Failed", 3)}, a \in Earns, b \in Wds \cup Earns}}
    \cup {Report(h) : h \in {h \in {<<a, b, c>> : a \in First, b \in Entries, c \in Entries} : Happened(h)}}
    \cup {Csv(g, FALSE) : g \in [1..2 -> BOOLEAN]} \cup {[market |-> "other"]}
MCKnown == {o1}
MCCsvs      == {Csv(g, b) : g \in UNION {[1..n -> BOOLEAN] : n \in 0..3}, b \in BOOLEAN}
=============================================================================
