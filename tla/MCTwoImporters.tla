---------------------------- MODULE MCTwoImporters ----------------------------
(* A ledger of one shop, oldest row first; the statements end at its latest  *)
(* withdrawal, and one of them starts later.                                 *)
EXTENDS TwoImporters, SequencesExt

CONSTANTS o1, o2, o3

R(kind, order, type, amount, after) ==
    [kind |-> kind, order |-> order, type |-> type, amount |-> amount, after |-> after]

MCLedger == <<
    R("order", NoOrder, "fund", 1, 1),
    R("order", o1, "fund", 3, 4),
    R("withdrawal", NoOrder, "fund", 2, 2),
    R("unknown", NoOrder, "fund", -1, 1),
    R("order", o3, "fund", 1, 2),
    R("order", o2, "fund", 2, 4),
    R("withdrawal", NoOrder, "fund", 3, 1) >>

Statement(a) == Reverse([n \in 1..(8 - a) |-> MCLedger[n + a - 1] @@ [at |-> n + a - 1]])
MCFiles == {Statement(1), Statement(2), Statement(4)}
=============================================================================
