------------------------------ MODULE MCSubmit ------------------------------
(* A shop of each market, with files that overlap.                           *)
EXTENDS Submit, TLC

R(k, o, n) == [kind |-> k, order |-> o, negative |-> n]

MCRowsOf ==
    "t1" :> <<R("fund", "o1", FALSE), R("unknown", "o1", TRUE), R("insurance", "o2", FALSE)>>
 @@ "t2" :> <<R("ads", "o1", TRUE), R("internal", "o1", FALSE), R("return", "o2", TRUE)>>
 @@ "s1" :> <<R("fund", "o1", FALSE), R("unknown", "o1", FALSE), R("adjustment", "o2", TRUE)>>
 @@ "s2" :> <<R("fund", "o2", TRUE)>>

F(market, wds, refs, ok) ==
    [market |-> market, wds |-> wds, refs |-> refs, traceable |-> ok]
\* o2 is an order of another team.  The file of "s1" alone names its orders in
\* descriptions only.
MCFiles ==
    {F("tiktok", <<"t2", "t1">>, {}, TRUE), F("tiktok", <<"t2">>, {}, TRUE),
     F("tiktok", <<"t1">>, {}, FALSE), F("tiktok", <<>>, {}, TRUE),
     F("shopee", <<"s2", "s1">>, {"o1", "o2"}, TRUE), F("shopee", <<"s1">>, {}, TRUE),
     F("shopee", <<"s2">>, {"o2"}, FALSE), F("shopee", <<>>, {}, TRUE)}

Symmetry == Permutations(Requests)
=============================================================================
