---------------------------- MODULE ShopAccounts -----------------------------
(***************************************************************************)
(* The accounts a shop's money moves between, and the withdrawals entered   *)
(* under them, when the v1 runner works on several tasks at once.           *)
(*                                                                          *)
(* The stage "check marketplace" (runner.go) gives the shop a bank account  *)
(* and a holding asset when it has none, in single statements; the stage    *)
(* after it compares the shop of the file's orders; the import then enters  *)
(* each withdrawal in a transaction that locks the shop's row, and knows a  *)
(* withdrawal by the holding asset it comes from (mp_withdrawal.go).        *)
(*                                                                          *)
(* One instance of the service has one task in each stage; instances share  *)
(* the tables.  What the import does besides is the module Importer, how    *)
(* the tasks are taken and retried TaskQueue: a retry is another task here. *)
(* All tasks are of one team.                                               *)
(***************************************************************************)
EXTENDS Naturals, Sequences

CONSTANTS Tasks,        \* the tasks that reach the runner
          NoTask,
          Instances,    \* the processes of the service
          Shops,        \* marketplaces of the team
          NoShop,       \* a marketplace that does not exist
          Orders,       \* orders of the team
          Withdrawals,  \* what tells withdrawals of a shop apart: time and amount
          Requests,     \* the tasks that may be submitted
          MaxFault,     \* bound: calls that fail
          Changing      \* bound: orders that others enter or move to another shop;
                        \* the rest is entered

\* mp is the shop of the task (mp_id), named the one whose username the file has,
\* refs the orders whose reference is in the raw column of the file (GetRefIDs: an
\* order that a row names in its description only is not among them), wds its
\* withdrawals.
Request == [instance : Instances, kind : {"shopee", "tiktok", "mengantar"},
            mp : Shops \cup {NoShop}, named : Shops \cup {NoShop},
            refs : SUBSET Orders, wds : Seq(Withdrawals)]

ASSUME ShopAssumption ==
    /\ NoTask \notin Tasks /\ NoShop \notin Shops
    /\ Requests \subseteq Request
    /\ MaxFault \in Nat /\ Changing \subseteq Orders

VARIABLES
    request,    \* what each task asks for
    pc,         \* position of each task in the stages
    assets,     \* the assets table: whose they are and what for
    banks,      \* the bank_accounts table: the asset of each
    shop,       \* bank_account_id and hold_asset_id of each marketplace, 0 if none
    orderShop,  \* order_mp_id of each order, NoShop while it is not entered
    changed,    \* the orders entered or moved since each task has checked its own
    rows,       \* the withdrawals table with its asset histories
    lock,       \* the task that has the marketplace's row locked
    made,       \* the id a task has just been given for an asset or an account
    accounts,   \* the assets a task is about to enter a withdrawal under
    pos,        \* the withdrawal of its file each task is at
    faults

orders == <<orderShop, changed>>
tables == <<assets, banks, shop, orders, rows>>
local  == <<made, accounts, pos>>
vars   == <<request, pc, tables, lock, local, faults>>

Checking  == {"find", "readBank", "newBank", "saveBank", "setBank", "readHold",
              "newHold", "setHold", "checked"}
Comparing == {"count", "move", "first", "ready"}
Importing == {"import", "locked", "enter"}
InFlight  == Checking \cup Comparing \cup Importing
Ended     == {"done", "error", "dead"}

Asset == [owner : Shops \cup {NoShop}, use : {"bank", "hold"}]
Entry == [mp : Shops, from : DOMAIN assets, to : DOMAIN assets, wd : Withdrawals]

\* Every variable has its type, and every id names a row of the table it is of.
TypeOK ==
    /\ request \in [Tasks -> Requests]
    /\ pc \in [Tasks -> {"new"} \cup InFlight \cup Ended]
    /\ assets \in Seq(Asset) /\ banks \in Seq(DOMAIN assets) /\ rows \in Seq(Entry)
    /\ shop \in [Shops -> [bank : {0} \cup DOMAIN banks, hold : {0} \cup DOMAIN assets]]
    /\ orderShop \in [Orders -> Shops \cup {NoShop}]
    /\ changed \in [Tasks -> SUBSET Orders]
    /\ lock \in [Shops -> Tasks \cup {NoTask}]
    /\ made \in [Tasks -> Nat] /\ pos \in [Tasks -> Nat \ {0}]
    /\ accounts \in [Tasks -> [from : Nat, to : Nat]]
    /\ faults \in 0..MaxFault

Init ==
    /\ request \in [Tasks -> Requests]
    /\ pc = [t \in Tasks |-> "new"]
    /\ assets = <<>> /\ banks = <<>> /\ rows = <<>>
    /\ shop = [s \in Shops |-> [bank |-> 0, hold |-> 0]]
    /\ orderShop \in [Orders -> Shops \cup {NoShop}]
    /\ \A o \in Orders \ Changing : orderShop[o] # NoShop
    /\ changed = [t \in Tasks |-> {}]
    /\ lock = [s \in Shops |-> NoTask]
    /\ made = [t \in Tasks |-> 0]
    /\ accounts = [t \in Tasks |-> [from |-> 0, to |-> 0]]
    /\ pos = [t \in Tasks |-> 1]
    /\ faults = 0

Mp(t) == request[t].mp
\* The shop that the runner looks up, by the file's username or by mp_id.
Found(t) == IF request[t].kind = "shopee" THEN request[t].named ELSE Mp(t)

Peers(t) == {u \in Tasks \ {t} : request[u].instance = request[t].instance}
Free(t, stage) == \A u \in Peers(t) : pc[u] \notin stage

At(t, label) == pc[t] = label
Go(t, label) == pc' = [pc EXCEPT ![t] = label]

-----------------------------------------------------------------------------
(* The stage "check marketplace".                                           *)

Take(t) ==
    /\ At(t, "new") /\ Free(t, Checking) /\ Go(t, "find")
    /\ UNCHANGED <<request, tables, lock, local, faults>>

\* Only a shop looked up by its username is missed here.
FindShop(t) ==
    /\ At(t, "find")
    /\ Go(t, IF request[t].kind = "shopee" /\ Found(t) = NoShop THEN "error" ELSE "readBank")
    /\ UNCHANGED <<request, tables, lock, local, faults>>

\* CheckBankAccount.  A shop that does not exist reads as one without account.
HasBank(s) == s \in Shops /\ shop[s].bank # 0
ReadBank(t) ==
    /\ At(t, "readBank")
    /\ Go(t, IF HasBank(Found(t)) THEN "readHold" ELSE "newBank")
    /\ UNCHANGED <<request, tables, lock, local, faults>>

CreateAsset(t, use) ==
    /\ assets' = Append(assets, [owner |-> Found(t), use |-> use])
    /\ made' = [made EXCEPT ![t] = Len(assets) + 1]
    /\ UNCHANGED <<request, banks, shop, orders, rows, lock, accounts, pos, faults>>

NewBank(t) == At(t, "newBank") /\ CreateAsset(t, "bank") /\ Go(t, "saveBank")

\* Mutant of SaveBank: the shop is given the asset's id for the account's.
SaveBankKeeps(t) ==
    /\ At(t, "saveBank") /\ Go(t, "setBank")
    /\ banks' = Append(banks, made[t])
    /\ UNCHANGED <<request, assets, shop, orders, rows, lock, local, faults>>
SaveBank(t) ==
    /\ At(t, "saveBank") /\ Go(t, "setBank")
    /\ banks' = Append(banks, made[t])
    /\ made' = [made EXCEPT ![t] = Len(banks) + 1]
    /\ UNCHANGED <<request, assets, shop, orders, rows, lock, accounts, pos, faults>>

\* The update of a row that a transaction has locked waits for its end.
SetShop(t, field) ==
    /\ Found(t) \in Shops => lock[Found(t)] = NoTask
    /\ shop' = IF Found(t) \in Shops THEN [shop EXCEPT ![Found(t)][field] = made[t]] ELSE shop
    /\ UNCHANGED <<request, assets, banks, orders, rows, lock, local, faults>>

SetBank(t) == At(t, "setBank") /\ SetShop(t, "bank") /\ Go(t, "readHold")

HasHold(s) == shop[s].hold # 0
\* Mutant of ReadHold: a new asset is made although there is one.
ReadHoldAlways(t) ==
    /\ At(t, "readHold")
    /\ Go(t, IF Found(t) = NoShop THEN "error" ELSE "newHold")
    /\ UNCHANGED <<request, tables, lock, local, faults>>
\* CheckHoldAsset.
ReadHold(t) ==
    /\ At(t, "readHold")
    /\ Go(t, IF Found(t) = NoShop THEN "error" ELSE IF HasHold(Found(t)) THEN "checked" ELSE "newHold")
    /\ UNCHANGED <<request, tables, lock, local, faults>>

NewHold(t) == At(t, "newHold") /\ CreateAsset(t, "hold") /\ Go(t, "setHold")
SetHold(t) == At(t, "setHold") /\ SetShop(t, "hold") /\ Go(t, "checked")

-----------------------------------------------------------------------------
(* The stage that checks the marketplace of the orders.                     *)

Compare(t) ==
    /\ At(t, "checked") /\ Free(t, Comparing) /\ Go(t, "count")
    /\ UNCHANGED <<request, tables, lock, local, faults>>

\* The orders of the file that the tables have.
There(t)   == {o \in request[t].refs : orderShop[o] # NoShop}
Valid(t)   == {o \in There(t) : orderShop[o] = Mp(t)}
Invalid(t) == There(t) \ Valid(t)

\* Mutant of Counted: HaveMarketplaceRes.GetError is not asked.
CountedUnchecked(t) == "first"
\* HaveMarketplace, and what follows from it.
Counted(t) ==
    CASE request[t].kind = "shopee"    -> IF Invalid(t) # {} THEN "move" ELSE "first"
      [] request[t].kind = "tiktok"    -> IF Valid(t) = {} \/ Invalid(t) # {} THEN "error" ELSE "first"
      [] request[t].kind = "mengantar" -> "first"

CountOrders(t) ==
    /\ At(t, "count") /\ Go(t, Counted(t))
    /\ changed' = [changed EXCEPT ![t] = {}]
    /\ UNCHANGED <<request, assets, banks, shop, orderShop, rows, lock, local, faults>>

\* The error of a failing count is only looked at for TikTok.
CountFails(t) ==
    /\ At(t, "count") /\ request[t].kind # "tiktok"
    /\ faults < MaxFault /\ faults' = faults + 1
    /\ Go(t, "first")
    /\ UNCHANGED <<request, tables, lock, local>>

\* The tasks that have checked their orders learn nothing of those in S.
Missed(S) == [u \in Tasks |-> IF pc[u] \in {"move", "first", "ready"} \cup Importing
                               THEN changed[u] \cup S ELSE changed[u]]

\* ChangeMarketplace.
MoveOrders(t) ==
    /\ At(t, "move") /\ Go(t, "first")
    /\ orderShop' = [o \in Orders |-> IF o \in There(t) THEN Found(t) ELSE orderShop[o]]
    /\ changed' = [Missed({o \in There(t) : orderShop[o] # Found(t)}) EXCEPT ![t] = {}]
    /\ UNCHANGED <<request, assets, banks, shop, rows, lock, local, faults>>

\* SetFilterMarketplace: a shop without orders is refused.
FirstOrder(t) ==
    /\ At(t, "first")
    /\ Go(t, IF \E o \in Orders : orderShop[o] = Found(t) THEN "ready" ELSE "error")
    /\ UNCHANGED <<request, tables, lock, local, faults>>

-----------------------------------------------------------------------------
(* The import's transaction for each withdrawal.                            *)

StartImport(t) ==
    /\ At(t, "ready") /\ Free(t, Importing) /\ Go(t, "import")
    /\ UNCHANGED <<request, tables, lock, local, faults>>

AllEntered(t) == pos[t] > Len(request[t].wds)
Wd(t) == request[t].wds[pos[t]]

\* Mutant of Lockable: the row is read without a lock.
LockableAlways(s) == s \in Shops
\* SELECT ... FOR UPDATE NOWAIT.
Lockable(s) == s \in Shops /\ lock[s] = NoTask

LockShop(t) ==
    /\ At(t, "import") /\ ~AllEntered(t)
    /\ IF Lockable(Mp(t))
       THEN lock' = [lock EXCEPT ![Mp(t)] = t] /\ Go(t, "locked")
       ELSE Go(t, "error") /\ UNCHANGED lock
    /\ UNCHANGED <<request, tables, local, faults>>

\* Mutant of Unlocked: the end of the transaction leaves the row locked.
UnlockedNot(t) == lock
\* The end of a transaction.
Unlocked(t) == [s \in Shops |-> IF lock[s] = t THEN NoTask ELSE lock[s]]

\* Mutant of Accounts: swapped.
AccountsSwapped(t) == [from |-> banks[shop[Mp(t)].bank], to |-> shop[Mp(t)].hold]
Accounts(t) == [from |-> shop[Mp(t)].hold, to |-> banks[shop[Mp(t)].bank]]
HasAccounts(t) == HasHold(Mp(t)) /\ HasBank(Mp(t))
\* A withdrawal is known by its shop, its time and amount, and its holding asset.
Known(t) == \E k \in DOMAIN rows : /\ rows[k].mp = Mp(t) /\ rows[k].wd = Wd(t)
                                   /\ rows[k].from = Accounts(t).from

\* CreateWithdrawal and the query of SetWithdrawal.
FindWithdrawal(t) ==
    /\ At(t, "locked") /\ HasAccounts(t)
    /\ IF Known(t)
       THEN /\ Go(t, "import") /\ lock' = Unlocked(t)
            /\ pos' = [pos EXCEPT ![t] = @ + 1] /\ UNCHANGED accounts
       ELSE /\ Go(t, "enter") /\ accounts' = [accounts EXCEPT ![t] = Accounts(t)]
            /\ UNCHANGED <<lock, pos>>
    /\ UNCHANGED <<request, tables, made, faults>>

\* createAssetHistory, Save and the commit.
EnterWithdrawal(t) ==
    /\ At(t, "enter") /\ Go(t, "import")
    /\ rows' = Append(rows, [mp |-> Mp(t), from |-> accounts[t].from,
                             to |-> accounts[t].to, wd |-> Wd(t)])
    /\ lock' = Unlocked(t)
    /\ pos' = [pos EXCEPT ![t] = @ + 1]
    /\ UNCHANGED <<request, assets, banks, shop, orders, made, accounts, faults>>

\* *market.HoldAssetID of a shop that was never initiated: the process dies with
\* the tasks it has, and its transactions are rolled back.
Panic(t) ==
    /\ At(t, "locked") /\ ~HasAccounts(t)
    /\ LET hit == {u \in Peers(t) \cup {t} : pc[u] \in InFlight} IN
       /\ pc' = [u \in Tasks |-> IF u \in hit THEN "dead" ELSE pc[u]]
       /\ lock' = [s \in Shops |-> IF lock[s] \in hit THEN NoTask ELSE lock[s]]
    /\ UNCHANGED <<request, tables, local, faults>>

Done(t) ==
    /\ At(t, "import") /\ AllEntered(t) /\ Go(t, "done")
    /\ UNCHANGED <<request, tables, lock, local, faults>>

\* A call fails: the task with it, and its transaction is rolled back.
Calling == InFlight \ {"checked", "ready"}
Fail(t) ==
    /\ pc[t] \in Calling /\ (At(t, "count") => request[t].kind = "tiktok")
    /\ faults < MaxFault /\ faults' = faults + 1
    /\ Go(t, "error") /\ lock' = Unlocked(t)
    /\ UNCHANGED <<request, tables, local>>

\* Somebody enters an order, or moves it to another shop.
ChangeOrder(o, s) ==
    /\ orderShop[o] # s
    /\ orderShop' = [orderShop EXCEPT ![o] = s]
    /\ changed' = Missed({o})
    /\ UNCHANGED <<request, pc, assets, banks, shop, rows, lock, local, faults>>

-----------------------------------------------------------------------------
Step(t) ==
    \/ FindShop(t) \/ ReadBank(t) \/ NewBank(t) \/ SaveBank(t) \/ SetBank(t)
    \/ ReadHold(t) \/ NewHold(t) \/ SetHold(t)
    \/ Compare(t) \/ CountOrders(t) \/ MoveOrders(t) \/ FirstOrder(t)
    \/ StartImport(t) \/ LockShop(t) \/ FindWithdrawal(t) \/ EnterWithdrawal(t)
    \/ Panic(t) \/ Done(t)

Next == \/ \E t \in Tasks : Take(t) \/ Step(t) \/ CountFails(t) \/ Fail(t)
        \/ \E o \in Changing : \E s \in Shops : ChangeOrder(o, s)

Spec == Init /\ [][Next]_vars

\* A goroutine that can go on does, and the source waits with its next task until
\* the first stage is free.
FairSpec == Spec /\ \A t \in Tasks : WF_vars(Step(t)) /\ WF_vars(Take(t))

-----------------------------------------------------------------------------
(* Properties.                                                              *)

\* SetWithdrawal finds a withdrawal that is there: no shop has two rows of one
\* withdrawal under the same holding asset, with any number of instances.
EnteredOnce ==
    \A j, k \in DOMAIN rows :
        rows[j].mp = rows[k].mp /\ rows[j].wd = rows[k].wd /\ rows[j].from = rows[k].from
            => j = k

\* A shop that only one instance works for keeps its holding asset, so that its
\* withdrawals are always found again: none is entered twice.
OneInstance(s) ==
    \A t, u \in Tasks : s \in {Found(t), Mp(t)} /\ s \in {Found(u), Mp(u)}
        => request[t].instance = request[u].instance
AlwaysFound ==
    \A j, k \in DOMAIN rows :
        OneInstance(rows[j].mp) =>
            /\ rows[j].from = shop[rows[j].mp].hold
            /\ rows[j].mp = rows[k].mp /\ rows[j].wd = rows[k].wd => j = k

\* Every withdrawal takes money from the holding asset to the bank account of
\* its shop, also when two instances were giving the shop its accounts.
OwnAccounts ==
    \A k \in DOMAIN rows :
        /\ assets[rows[k].from] = [owner |-> rows[k].mp, use |-> "hold"]
        /\ assets[rows[k].to] = [owner |-> rows[k].mp, use |-> "bank"]

\* What the stages before the import leave it to rely on, when the file is of the
\* shop it is imported for: that shop has its accounts, so that nothing it
\* dereferences is nil, and the orders whose reference is in the raw column of the
\* file are in it.  The second is not claimed of Mengantar, which is not checked,
\* after a failed call, or of an order that somebody, another task too, has
\* entered or moved since this one checked its orders.
Agrees(t) == request[t].kind = "shopee" => request[t].named = Mp(t)
ReadyToImport ==
    \A t \in Tasks : pc[t] \in Importing /\ Agrees(t) =>
        /\ HasAccounts(t)
        /\ \/ request[t].kind = "mengantar" \/ faults > 0
           \/ \A o \in There(t) : orderShop[o] = Mp(t) \/ o \in changed[t]

\* Every task ends: nobody waits for a lock that is not released.
TasksEnd == \A t \in Tasks : <>(pc[t] \in Ended)
=============================================================================
