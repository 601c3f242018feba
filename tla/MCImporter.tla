------------------------------ MODULE MCImporter ------------------------------
(* A ledger of one shop, oldest row first, and the statements cut from it.   *)
EXTENDS Importer, SequencesExt

CONSTANTS o1, o2, o3

R(kind, order, type, amount) == [kind |-> kind, order |-> order, type |-> type, amount |-> amount]

MCLedger == <<
    R("order", o1, "fund", 3),
    R("withdrawal", NoOrder, "fund", 2),
    R("order", o2, "fund", 2),
    R("unknown", NoOrder, "fund", -1),
    R("order", o3, "commission", 1),
    R("withdrawal", NoOrder, "fund", 3),
    R("order", o3, "fund", 2),
    R("order", NoOrder, "commission", 2),
    R("unknown", o2, "commission", -1),
    R("other", NoOrder, "fund", 1),
    R("withdrawal", NoOrder, "fund", 2) >>

Balance[n \in 0..Len(MCLedger)] ==
    IF n = 0 THEN 0
    ELSE IF MCLedger[n].kind = "withdrawal" THEN Balance[n - 1] - MCLedger[n].amount
    ELSE Balance[n - 1] + MCLedger[n].amount

RowOf(n) == [kind |-> MCLedger[n].kind, order |-> MCLedger[n].order, type |-> MCLedger[n].type,
             amount |-> MCLedger[n].amount, after |-> Balance[n], at |-> n]

Window(a, b) == [k \in 1..(b - a + 1) |-> RowOf(b - k + 1)]

MCFiles == {Window(a, b) : a \in 1..11, b \in 6..11} \ {<<>>}
=============================================================================
