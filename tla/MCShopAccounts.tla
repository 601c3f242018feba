---------------------------- MODULE MCShopAccounts ---------------------------
(* Small sets of tasks that compete for one or two shops.                    *)
EXTENDS ShopAccounts

CONSTANTS i1, i2, a, b, o1, o2, w1, w2

R(instance, kind, mp, named, wds) ==
    [instance |-> instance, kind |-> kind, mp |-> mp, named |-> named,
     refs |-> IF kind = "tiktok" THEN {o1, o2} ELSE {o1}, wds |-> wds]

\* For shop a; the file of a Shopee task may name another shop, or none there is.
ShopeeRequests ==
    {R(i1, "shopee", a, named, <<w1>>) : named \in Shops \cup {NoShop}}
    \cup {R(i2, "shopee", a, a, <<w1, w2>>)}
\* For shop a or one that does not exist; the username in the file is not read.
OtherRequests ==
    {R(i1, "tiktok", mp, NoShop, <<w1>>) : mp \in {a, NoShop}}
    \cup {R(i1, "mengantar", a, NoShop, <<w1>>)}
AnyRequests == ShopeeRequests \cup OtherRequests
=============================================================================
