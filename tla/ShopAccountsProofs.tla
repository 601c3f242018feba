------------------------- MODULE ShopAccountsProofs --------------------------
(* What holds of ShopAccounts for every number of tasks, instances and shops, *)
(* any files and any number of failing calls and dying processes.             *)
EXTENDS ShopAccounts, SequenceTheorems, TLAPS

Bank(s) == [owner |-> s, use |-> "bank"]
Hold(s) == [owner |-> s, use |-> "hold"]

-----------------------------------------------------------------------------
(* The inductive invariant.                                                 *)

\* A task past the check of its shop has found one.
ShopFound == \A t \in Tasks :
    pc[t] \in {"newHold", "setHold", "checked"} \cup Comparing => Found(t) \in Shops

\* The id a task has just been given is that of what it made.
MadeOwn == \A t \in Tasks :
    /\ pc[t] \in {"saveBank", "setHold"} => made[t] \in DOMAIN assets
    /\ pc[t] = "saveBank" => assets[made[t]] = Bank(Found(t))
    /\ pc[t] = "setBank" => made[t] \in DOMAIN banks /\ assets[banks[made[t]]] = Bank(Found(t))
    /\ pc[t] = "setHold" => assets[made[t]] = Hold(Found(t))

\* The accounts of a shop are its own.
ShopOwn == \A s \in Shops :
    /\ shop[s].hold # 0 => assets[shop[s].hold] = Hold(s)
    /\ shop[s].bank # 0 => assets[banks[shop[s].bank]] = Bank(s)

\* A task in its transaction has its shop locked, and is at one of its
\* withdrawals.
Locked == \A t \in Tasks :
    pc[t] \in {"locked", "enter"} =>
        Mp(t) \in Shops /\ lock[Mp(t)] = t /\ pos[t] \in DOMAIN request[t].wds

\* What it is about to enter is not there yet, and goes between its shop's accounts.
Entering == \A t \in Tasks :
    pc[t] = "enter" =>
        /\ accounts[t].from \in DOMAIN assets /\ assets[accounts[t].from] = Hold(Mp(t))
        /\ accounts[t].to \in DOMAIN assets /\ assets[accounts[t].to] = Bank(Mp(t))
        /\ \A k \in DOMAIN rows :
               ~(rows[k].mp = Mp(t) /\ rows[k].wd = Wd(t) /\ rows[k].from = accounts[t].from)

IInv ==
    /\ TypeOK
    /\ ShopFound /\ MadeOwn /\ ShopOwn
    /\ Locked /\ Entering
    /\ OwnAccounts /\ EnteredOnce

-----------------------------------------------------------------------------
(* Tables that grow.                                                        *)

\* A row added to a table has the next id, and the others keep theirs.
LEMMA Appended ==
  ASSUME NEW S, NEW s \in Seq(S), NEW x \in S
  PROVE  /\ Append(s, x) \in Seq(S)
         /\ Len(s) + 1 \in DOMAIN Append(s, x)
         /\ Append(s, x)[Len(s) + 1] = x
         /\ DOMAIN s \subseteq DOMAIN Append(s, x)
         /\ \A i \in DOMAIN s : Append(s, x)[i] = s[i]
         /\ \A i \in DOMAIN Append(s, x) : i \in DOMAIN s \/ i = Len(s) + 1
  OBVIOUS

\* A sequence over a set is one over any larger set.
LEMMA SeqGrows ==
  ASSUME NEW S, NEW T, S \subseteq T, NEW s \in Seq(S)
  PROVE  s \in Seq(T)
<1>1. \A i \in 1..Len(s) : s[i] \in T
  OBVIOUS
<1> QED
  BY <1>1, SeqDef

-----------------------------------------------------------------------------
(* Steps that only move a task.                                             *)

\* What the steps that only move a task leave as it is.
Rest == <<request, assets, banks, shop, orderShop, rows, lock, local>>

\* Wherever a task goes: not to where it would have to own something.
Plain == ({"new"} \cup InFlight \cup Ended)
             \ {"saveBank", "setBank", "setHold", "locked", "enter"}

\* A step that takes a task to such a place, and nothing else, keeps the invariant.
LEMMA Moved ==
  ASSUME IInv, NEW t \in Tasks, NEW label \in Plain, Go(t, label), UNCHANGED Rest,
         label \in {"newHold", "checked"} \cup Comparing => Found(t) \in Shops,
         faults' \in 0..MaxFault, changed' \in [Tasks -> SUBSET Orders]
  PROVE  IInv'
<1> USE DEF IInv, Rest, local, Go
<1>1. TypeOK'
  BY DEF TypeOK, Entry, Plain
<1>2. pc'[t] = label /\ \A u \in Tasks : u # t => pc'[u] = pc[u]
  BY DEF TypeOK
<1>3. ShopFound'
  BY <1>2 DEF ShopFound, Found, Mp, Plain
<1>4. MadeOwn'
  BY <1>2 DEF MadeOwn, Found, Mp, Plain
<1>5. Locked'
  BY <1>2 DEF Locked, Mp, Plain
<1>6. Entering'
  BY <1>2 DEF Entering, Mp, Wd, Plain
<1>7. ShopOwn' /\ OwnAccounts' /\ EnteredOnce'
  BY DEF ShopOwn, OwnAccounts, EnteredOnce
<1> QED
  BY <1>1, <1>3, <1>4, <1>5, <1>6, <1>7

\* The steps that are of that kind.
LEMMA PlainSteps ==
  ASSUME IInv, NEW t \in Tasks,
         \/ Take(t) \/ FindShop(t) \/ ReadBank(t) \/ ReadHold(t) \/ Compare(t)
         \/ CountOrders(t) \/ CountFails(t) \/ FirstOrder(t) \/ StartImport(t) \/ Done(t)
  PROVE  IInv'
<1> USE DEF Rest, Plain, InFlight, Checking, Comparing, Importing, Ended, tables, orders
<1>0. pc[t] \in Comparing \cup {"checked"} => Found(t) \in Shops
  BY DEF IInv, ShopFound
<1>1. /\ faults \in 0..MaxFault /\ MaxFault \in Nat
      /\ changed \in [Tasks -> SUBSET Orders]
  BY ShopAssumption DEF IInv, TypeOK
<1>2. CASE Take(t)
  BY <1>1, <1>2, Moved DEF Take
<1>3. CASE FindShop(t)
  BY <1>1, <1>3, Moved DEF FindShop
<1>4. CASE ReadBank(t)
  BY <1>1, <1>4, Moved DEF ReadBank
<1>5. CASE ReadHold(t)
  <2>1. Found(t) \in Shops \cup {NoShop}
    BY ShopAssumption DEF IInv, TypeOK, Found, Mp, Request
  <2> QED
    BY <1>1, <1>5, <2>1, Moved DEF ReadHold
<1>6. CASE Compare(t)
  BY <1>0, <1>1, <1>6, Moved DEF Compare, At
<1>7. CASE CountOrders(t)
  <2>1. Counted(t) \in {"move", "first", "error"}
    BY ShopAssumption DEF IInv, TypeOK, Counted, Request
  <2> QED
    BY <1>0, <1>1, <1>7, <2>1, Moved DEF CountOrders, At
<1>8. CASE CountFails(t)
  BY <1>0, <1>1, <1>8, Moved DEF CountFails, At
<1>9. CASE FirstOrder(t)
  BY <1>0, <1>1, <1>9, Moved DEF FirstOrder, At
<1>10. CASE StartImport(t)
  BY <1>1, <1>10, Moved DEF StartImport
<1>11. CASE Done(t)
  BY <1>1, <1>11, Moved DEF Done
<1> QED
  BY <1>2, <1>3, <1>4, <1>5, <1>6, <1>7, <1>8, <1>9, <1>10, <1>11

-----------------------------------------------------------------------------
(* Steps that give a shop its accounts.                                     *)

\* A new asset: the ids that are in use keep their assets.
LEMMA AssetCreated ==
  ASSUME IInv, NEW t \in Tasks, NEW use \in {"bank", "hold"}, NEW label \in {"saveBank", "setHold"},
         CreateAsset(t, use), Go(t, label),
         use = (IF label = "saveBank" THEN "bank" ELSE "hold"),
         label = "setHold" => Found(t) \in Shops
  PROVE  IInv'
<1> DEFINE x == [owner |-> Found(t), use |-> use]
<1> USE DEF IInv
<1>1. Found(t) \in Shops \cup {NoShop} /\ x \in Asset
  BY ShopAssumption DEF TypeOK, Found, Mp, Request, Asset
<1>2. assets' = Append(assets, x) /\ assets \in Seq(Asset)
  BY DEF CreateAsset, TypeOK
<1>3. /\ assets' \in Seq(Asset)
      /\ Len(assets) + 1 \in DOMAIN assets' /\ assets'[Len(assets) + 1] = x
      /\ DOMAIN assets \subseteq DOMAIN assets'
      /\ \A i \in DOMAIN assets : assets'[i] = assets[i]
  BY <1>1, <1>2, Appended
<1> HIDE DEF x
<1>4. /\ pc'[t] = label /\ (\A u \in Tasks : u # t => pc'[u] = pc[u])
      /\ made'[t] = Len(assets) + 1 /\ (\A u \in Tasks : u # t => made'[u] = made[u])
  BY DEF CreateAsset, Go, TypeOK
<1>5. UNCHANGED <<request, banks, shop, orders, rows, lock, accounts, pos, faults>>
  BY DEF CreateAsset
<1>6. \A i \in DOMAIN banks : banks[i] \in DOMAIN assets
  BY DEF TypeOK
<1>7. \A k \in DOMAIN rows : rows[k].from \in DOMAIN assets /\ rows[k].to \in DOMAIN assets
  <2>1. \A k \in DOMAIN rows : rows[k] \in Entry
    BY DEF TypeOK
  <2> QED
    BY <2>1 DEF Entry
<1>8. TypeOK'
  <2>1. banks' \in Seq(DOMAIN assets')
    BY <1>3, <1>5, SeqGrows DEF TypeOK
  <2>2. rows' \in Seq(Entry')
    <3>1. Entry \subseteq Entry'
      BY <1>3 DEF Entry
    <3> QED
      BY <1>5, <3>1, SeqGrows DEF TypeOK
  <2>3. shop' \in [Shops -> [bank : {0} \cup DOMAIN banks', hold : {0} \cup DOMAIN assets']]
    BY <1>3, <1>5 DEF TypeOK
  <2>4. pc' \in [Tasks -> {"new"} \cup InFlight \cup Ended]
    BY DEF TypeOK, Go, InFlight, Checking
  <2>5. made' \in [Tasks -> Nat]
    BY <1>2 DEF TypeOK, CreateAsset
  <2> QED
    BY <1>3, <1>5, <2>1, <2>2, <2>3, <2>4, <2>5 DEF TypeOK, orders
<1>9. ShopFound'
  BY <1>4, <1>5 DEF ShopFound, Found, Mp, Comparing
<1>10. MadeOwn'
  <2> SUFFICES ASSUME NEW u \in Tasks PROVE
        /\ pc'[u] \in {"saveBank", "setHold"} => made'[u] \in DOMAIN assets'
        /\ pc'[u] = "saveBank" => assets'[made'[u]] = Bank(Found(u))
        /\ pc'[u] = "setBank" => made'[u] \in DOMAIN banks /\ assets'[banks[made'[u]]] = Bank(Found(u))
        /\ pc'[u] = "setHold" => assets'[made'[u]] = Hold(Found(u))
    BY <1>5 DEF MadeOwn, Found, Mp
  <2>1. CASE u = t
    BY <1>3, <1>4, <2>1 DEF x, Bank, Hold
  <2>2. CASE u # t
    <3>1. made'[u] = made[u] /\ pc'[u] = pc[u]
      BY <1>4, <2>2
    <3>2. /\ pc[u] \in {"saveBank", "setHold"} => made[u] \in DOMAIN assets
          /\ pc[u] = "saveBank" => assets[made[u]] = Bank(Found(u))
          /\ pc[u] = "setBank" => made[u] \in DOMAIN banks /\ assets[banks[made[u]]] = Bank(Found(u))
          /\ pc[u] = "setHold" => assets[made[u]] = Hold(Found(u))
      BY DEF MadeOwn
    <3> QED
      BY <1>3, <1>6, <3>1, <3>2
  <2> QED
    BY <2>1, <2>2
<1>11. ShopOwn'
  BY <1>3, <1>5, <1>6 DEF ShopOwn, TypeOK
<1>12. Locked'
  BY <1>4, <1>5 DEF Locked, Mp
<1>13. Entering'
  BY <1>3, <1>4, <1>5 DEF Entering, Mp, Wd
<1>14. OwnAccounts' /\ EnteredOnce'
  BY <1>3, <1>5, <1>7 DEF OwnAccounts, EnteredOnce
<1> QED
  BY <1>8, <1>9, <1>10, <1>11, <1>12, <1>13, <1>14

\* The steps that make an asset for a shop.
LEMMA AssetSteps ==
  ASSUME IInv, NEW t \in Tasks, NewBank(t) \/ NewHold(t)
  PROVE  IInv'
<1>1. CASE NewBank(t)
  BY <1>1, AssetCreated DEF NewBank
<1>2. CASE NewHold(t)
  <2>1. Found(t) \in Shops
    BY <1>2 DEF IInv, ShopFound, NewHold, At
  <2> QED
    BY <1>2, <2>1, AssetCreated DEF NewHold
<1> QED
  BY <1>1, <1>2

\* A new account: it is for the asset made just before.
LEMMA BankSaved ==
  ASSUME IInv, NEW t \in Tasks, SaveBank(t)
  PROVE  IInv'
<1> USE DEF IInv
<1>1. made[t] \in DOMAIN assets /\ assets[made[t]] = Bank(Found(t))
  BY DEF SaveBank, At, MadeOwn
<1>2. banks' = Append(banks, made[t]) /\ banks \in Seq(DOMAIN assets)
  BY DEF SaveBank, TypeOK
<1>3. /\ banks' \in Seq(DOMAIN assets)
      /\ Len(banks) + 1 \in DOMAIN banks' /\ banks'[Len(banks) + 1] = made[t]
      /\ DOMAIN banks \subseteq DOMAIN banks'
      /\ \A i \in DOMAIN banks : banks'[i] = banks[i]
  BY <1>1, <1>2, Appended
<1>4. /\ pc'[t] = "setBank" /\ (\A u \in Tasks : u # t => pc'[u] = pc[u])
      /\ made'[t] = Len(banks) + 1 /\ (\A u \in Tasks : u # t => made'[u] = made[u])
  BY DEF SaveBank, Go, TypeOK
<1>5. UNCHANGED <<request, assets, shop, orders, rows, lock, accounts, pos, faults>>
  BY DEF SaveBank
<1>6. TypeOK'
  <2>1. shop' \in [Shops -> [bank : {0} \cup DOMAIN banks', hold : {0} \cup DOMAIN assets']]
    BY <1>3, <1>5 DEF TypeOK
  <2>2. pc' \in [Tasks -> {"new"} \cup InFlight \cup Ended]
    BY DEF TypeOK, SaveBank, Go, InFlight, Checking
  <2>3. made' \in [Tasks -> Nat]
    BY <1>2 DEF TypeOK, SaveBank
  <2> QED
    BY <1>3, <1>5, <2>1, <2>2, <2>3 DEF TypeOK, Entry, orders
<1>7. ShopFound'
  BY <1>4, <1>5 DEF ShopFound, Found, Mp, Comparing
<1>8. MadeOwn'
  <2> SUFFICES ASSUME NEW u \in Tasks PROVE
        /\ pc'[u] \in {"saveBank", "setHold"} => made'[u] \in DOMAIN assets
        /\ pc'[u] = "saveBank" => assets[made'[u]] = Bank(Found(u))
        /\ pc'[u] = "setBank" => made'[u] \in DOMAIN banks' /\ assets[banks'[made'[u]]] = Bank(Found(u))
        /\ pc'[u] = "setHold" => assets[made'[u]] = Hold(Found(u))
    BY <1>5 DEF MadeOwn, Found, Mp
  <2>1. CASE u = t
    BY <1>1, <1>3, <1>4, <2>1
  <2>2. CASE u # t
    <3>1. made'[u] = made[u] /\ pc'[u] = pc[u]
      BY <1>4, <2>2
    <3>2. /\ pc[u] \in {"saveBank", "setHold"} => made[u] \in DOMAIN assets
          /\ pc[u] = "saveBank" => assets[made[u]] = Bank(Found(u))
          /\ pc[u] = "setBank" => made[u] \in DOMAIN banks /\ assets[banks[made[u]]] = Bank(Found(u))
          /\ pc[u] = "setHold" => assets[made[u]] = Hold(Found(u))
      BY DEF MadeOwn
    <3> QED
      BY <1>3, <3>1, <3>2
  <2> QED
    BY <2>1, <2>2
<1>9. ShopOwn'
  BY <1>3, <1>5 DEF ShopOwn, TypeOK
<1>10. Locked' /\ Entering'
  BY <1>4, <1>5 DEF Locked, Entering, Mp, Wd
<1>11. OwnAccounts' /\ EnteredOnce'
  BY <1>5 DEF OwnAccounts, EnteredOnce
<1> QED
  BY <1>6, <1>7, <1>8, <1>9, <1>10, <1>11

\* A shop is given what has been made for it.
LEMMA ShopSet ==
  ASSUME IInv, NEW t \in Tasks, SetBank(t) \/ SetHold(t)
  PROVE  IInv'
<1> USE DEF IInv
<1>1. UNCHANGED <<request, assets, banks, orders, rows, lock, local, faults>>
  BY DEF SetBank, SetHold, SetShop
<1>2. PICK label \in {"readHold", "checked"} :
          pc'[t] = label /\ (\A u \in Tasks : u # t => pc'[u] = pc[u]) /\ Go(t, label)
                         /\ (label = "checked" => Found(t) \in Shops)
  <2>1. CASE SetBank(t)
    BY <2>1 DEF SetBank, Go, TypeOK
  <2>2. CASE SetHold(t)
    BY <2>2 DEF SetHold, Go, At, ShopFound, TypeOK
  <2> QED
    BY <2>1, <2>2
<1>3. shop' \in [Shops -> [bank : {0} \cup DOMAIN banks, hold : {0} \cup DOMAIN assets]] /\ ShopOwn'
  <2>1. CASE Found(t) \notin Shops
    BY <1>1, <2>1 DEF SetBank, SetHold, SetShop, TypeOK, ShopOwn
  <2>2. CASE Found(t) \in Shops /\ SetBank(t)
    <3>1. made[t] \in DOMAIN banks /\ assets[banks[made[t]]] = Bank(Found(t))
      BY <2>2 DEF SetBank, At, MadeOwn
    <3>2. shop' = [shop EXCEPT ![Found(t)].bank = made[t]]
      BY <2>2 DEF SetBank, SetShop
    <3> QED
      BY <1>1, <2>2, <3>1, <3>2 DEF TypeOK, ShopOwn
  <2>3. CASE Found(t) \in Shops /\ SetHold(t)
    <3>1. made[t] \in DOMAIN assets /\ assets[made[t]] = Hold(Found(t))
      BY <2>3 DEF SetHold, At, MadeOwn
    <3>2. shop' = [shop EXCEPT ![Found(t)].hold = made[t]]
      BY <2>3 DEF SetHold, SetShop
    <3> QED
      BY <1>1, <2>3, <3>1, <3>2 DEF TypeOK, ShopOwn
  <2> QED
    BY <2>1, <2>2, <2>3
<1>4. TypeOK'
  BY <1>1, <1>2, <1>3 DEF TypeOK, Entry, Go, local, orders, InFlight, Checking
<1>5. ShopFound' /\ MadeOwn' /\ Locked' /\ Entering'
  BY <1>1, <1>2 DEF ShopFound, MadeOwn, Locked, Entering, Found, Mp, Wd, local, Comparing
<1>6. OwnAccounts' /\ EnteredOnce'
  BY <1>1 DEF OwnAccounts, EnteredOnce
<1> QED
  BY <1>3, <1>4, <1>5, <1>6

-----------------------------------------------------------------------------
(* Moving the orders, and the transaction of the import.                    *)

\* Wherever somebody moves an order, the tables have their type.
LEMMA OrdersChanged ==
  ASSUME IInv, NEW o \in Changing, NEW s \in Shops, ChangeOrder(o, s)
  PROVE  IInv'
<1> USE DEF IInv
<1>1. UNCHANGED <<request, pc, assets, banks, shop, rows, lock, local, faults>>
  BY DEF ChangeOrder
<1>2. TypeOK'
  <2>1. orderShop' \in [Orders -> Shops \cup {NoShop}]
    BY DEF ChangeOrder, TypeOK
  <2>2. changed' \in [Tasks -> SUBSET Orders]
    BY ShopAssumption DEF ChangeOrder, TypeOK, Missed
  <2> QED
    BY <1>1, <2>1, <2>2 DEF TypeOK, Entry, local
<1>3. ShopFound' /\ MadeOwn' /\ Locked' /\ Entering'
  BY <1>1 DEF ShopFound, MadeOwn, Locked, Entering, Found, Mp, Wd, local
<1>4. ShopOwn' /\ OwnAccounts' /\ EnteredOnce'
  BY <1>1 DEF ShopOwn, OwnAccounts, EnteredOnce
<1> QED
  BY <1>2, <1>3, <1>4

\* The invariant says nothing of the orders' shops but that they exist.
LEMMA OrdersMoved ==
  ASSUME IInv, NEW t \in Tasks, MoveOrders(t)
  PROVE  IInv'
<1> USE DEF IInv
<1>1. Found(t) \in Shops
  BY DEF MoveOrders, At, ShopFound, Comparing
<1>2. UNCHANGED <<request, assets, banks, shop, rows, lock, local, faults>>
  BY DEF MoveOrders
<1>3. pc'[t] = "first" /\ (\A u \in Tasks : u # t => pc'[u] = pc[u])
  BY DEF MoveOrders, Go, TypeOK
<1>4. TypeOK'
  <2>1. orderShop' \in [Orders -> Shops \cup {NoShop}]
    BY <1>1 DEF MoveOrders, TypeOK
  <2>2. changed' \in [Tasks -> SUBSET Orders]
    <3>1. Missed({o \in There(t) : orderShop[o] # Found(t)}) \in [Tasks -> SUBSET Orders]
      BY ShopAssumption DEF TypeOK, Missed, There, Request
    <3> QED
      BY <3>1 DEF MoveOrders
  <2> QED
    BY <1>2, <2>1, <2>2 DEF MoveOrders, Go, TypeOK, Entry, local, InFlight, Comparing
<1>5. ShopFound' /\ MadeOwn' /\ Locked' /\ Entering'
  BY <1>1, <1>2, <1>3 DEF ShopFound, MadeOwn, Locked, Entering, Found, Mp, Wd, local, Comparing
<1>6. ShopOwn' /\ OwnAccounts' /\ EnteredOnce'
  BY <1>2 DEF ShopOwn, OwnAccounts, EnteredOnce
<1> QED
  BY <1>4, <1>5, <1>6

\* A task locks a shop that nobody has locked.
LEMMA ShopLocked ==
  ASSUME IInv, NEW t \in Tasks, LockShop(t)
  PROVE  IInv'
<1> USE DEF IInv
<1>1. UNCHANGED <<request, tables, local, faults>>
  BY DEF LockShop
<1>2. CASE Lockable(Mp(t))
  <2>1. /\ Mp(t) \in Shops /\ lock[Mp(t)] = NoTask
        /\ lock' = [lock EXCEPT ![Mp(t)] = t] /\ Go(t, "locked")
    BY <1>2 DEF LockShop, Lockable
  <2>2. pc'[t] = "locked" /\ (\A u \in Tasks : u # t => pc'[u] = pc[u])
    BY <2>1 DEF Go, TypeOK
  <2>3. pos[t] \in DOMAIN request[t].wds
    <3>1. request[t].wds \in Seq(Withdrawals) /\ pos[t] \in Nat \ {0}
      BY ShopAssumption DEF TypeOK, Request
    <3> QED
      BY <3>1 DEF LockShop, AllEntered
  <2>4. TypeOK'
    BY <1>1, <2>1 DEF TypeOK, Entry, Go, tables, orders, local, InFlight, Importing
  <2>5. Locked'
    BY <1>1, <2>1, <2>2, <2>3, ShopAssumption DEF Locked, Mp, local, TypeOK
  <2>6. ShopFound' /\ MadeOwn' /\ Entering'
    BY <1>1, <2>2 DEF ShopFound, MadeOwn, Entering, Found, Mp, Wd, tables, orders, local, Comparing
  <2>7. ShopOwn' /\ OwnAccounts' /\ EnteredOnce'
    BY <1>1 DEF ShopOwn, OwnAccounts, EnteredOnce, tables, orders
  <2> QED
    BY <2>4, <2>5, <2>6, <2>7
<1>3. CASE ~Lockable(Mp(t))
  <2>1. Go(t, "error") /\ UNCHANGED Rest /\ UNCHANGED faults
    BY <1>1, <1>3 DEF LockShop, Rest, tables, orders
  <2>2. "error" \in Plain /\ "error" \notin {"newHold", "checked"} \cup Comparing
    BY DEF Plain, Ended, Comparing
  <2>3. faults' \in 0..MaxFault /\ changed' \in [Tasks -> SUBSET Orders]
    BY <1>1, <2>1 DEF TypeOK, tables, orders
  <2> QED
    BY <2>1, <2>2, <2>3, Moved
<1> QED
  BY <1>2, <1>3

\* The end of a task's transaction leaves the rows that others have locked.
LEMMA Released ==
  ASSUME IInv, NEW t \in Tasks
  PROVE  /\ Unlocked(t) \in [Shops -> Tasks \cup {NoTask}]
         /\ \A u \in Tasks \ {t}, s \in Shops : lock[s] = u => Unlocked(t)[s] = u
  BY DEF IInv, TypeOK, Unlocked

\* A withdrawal that is known is passed over; for another, the accounts it is to
\* be entered under are those of the shop.
LEMMA WithdrawalFound ==
  ASSUME IInv, NEW t \in Tasks, FindWithdrawal(t)
  PROVE  IInv'
<1> USE DEF IInv
<1>1. UNCHANGED <<request, tables, made, faults>>
  BY DEF FindWithdrawal
<1>2. Mp(t) \in Shops /\ lock[Mp(t)] = t /\ pos[t] \in DOMAIN request[t].wds
  BY DEF FindWithdrawal, At, Locked
<1>3. CASE Known(t)
  <2>1. /\ Go(t, "import") /\ lock' = Unlocked(t)
        /\ pos' = [pos EXCEPT ![t] = @ + 1] /\ UNCHANGED accounts
    BY <1>3 DEF FindWithdrawal
  <2>2. pc'[t] = "import" /\ (\A u \in Tasks : u # t => pc'[u] = pc[u] /\ pos'[u] = pos[u])
    BY <2>1 DEF Go, TypeOK
  <2>3. TypeOK'
    <3>1. lock' \in [Shops -> Tasks \cup {NoTask}]
      BY <2>1, Released
    <3>2. pos' \in [Tasks -> Nat \ {0}]
      BY <2>1 DEF TypeOK
    <3> QED
      BY <1>1, <2>1, <3>1, <3>2 DEF TypeOK, Entry, Go, tables, orders, InFlight, Importing
  <2>4. Locked'
    BY <1>1, <2>1, <2>2, Released DEF Locked, Mp
  <2>5. ShopFound' /\ MadeOwn' /\ Entering'
    BY <1>1, <2>1, <2>2 DEF ShopFound, MadeOwn, Entering, Found, Mp, Wd, tables, orders, Comparing
  <2>6. ShopOwn' /\ OwnAccounts' /\ EnteredOnce'
    BY <1>1 DEF ShopOwn, OwnAccounts, EnteredOnce, tables, orders
  <2> QED
    BY <2>3, <2>4, <2>5, <2>6
<1>4. CASE ~Known(t)
  <2>1. /\ Go(t, "enter") /\ accounts' = [accounts EXCEPT ![t] = Accounts(t)]
        /\ UNCHANGED <<lock, pos>>
    BY <1>4 DEF FindWithdrawal
  <2>2. pc'[t] = "enter" /\ (\A u \in Tasks : u # t => pc'[u] = pc[u])
    BY <2>1 DEF Go, TypeOK
  <2>3. /\ Accounts(t).from \in DOMAIN assets /\ assets[Accounts(t).from] = Hold(Mp(t))
        /\ Accounts(t).to \in DOMAIN assets /\ assets[Accounts(t).to] = Bank(Mp(t))
    <3>1. shop[Mp(t)].hold # 0 /\ shop[Mp(t)].bank # 0
      BY <1>2 DEF FindWithdrawal, HasAccounts, HasHold, HasBank
    <3>2. shop[Mp(t)].hold \in DOMAIN assets /\ shop[Mp(t)].bank \in DOMAIN banks
      BY <1>2, <3>1 DEF TypeOK
    <3>3. banks[shop[Mp(t)].bank] \in DOMAIN assets
      BY <3>2 DEF TypeOK
    <3> QED
      BY <1>2, <3>1, <3>2, <3>3 DEF ShopOwn, Accounts
  <2>4. accounts'[t] = Accounts(t) /\ (\A u \in Tasks : u # t => accounts'[u] = accounts[u])
    BY <2>1 DEF TypeOK
  <2>5. TypeOK'
    <3>1. Accounts(t) \in [from : Nat, to : Nat]
      <4>1. DOMAIN assets \subseteq Nat
        BY DEF TypeOK
      <4> QED
        BY <2>3, <4>1 DEF Accounts
    <3> QED
      BY <1>1, <2>1, <3>1 DEF TypeOK, Entry, Go, tables, orders, InFlight, Importing
  <2>6. Entering'
    <3> SUFFICES ASSUME NEW u \in Tasks, pc'[u] = "enter" PROVE
          /\ accounts'[u].from \in DOMAIN assets /\ assets[accounts'[u].from] = Hold(Mp(u))
          /\ accounts'[u].to \in DOMAIN assets /\ assets[accounts'[u].to] = Bank(Mp(u))
          /\ \A k \in DOMAIN rows :
                 ~(rows[k].mp = Mp(u) /\ rows[k].wd = Wd(u) /\ rows[k].from = accounts'[u].from)
      BY <1>1, <2>1 DEF Entering, Mp, Wd, tables, orders
    <3>1. CASE u = t
      BY <1>4, <2>3, <2>4, <3>1 DEF Known
    <3>2. CASE u # t
      BY <2>2, <2>4, <3>2 DEF Entering
    <3> QED
      BY <3>1, <3>2
  <2>7. Locked'
    BY <1>1, <1>2, <2>1, <2>2 DEF Locked, Mp
  <2>8. ShopFound' /\ MadeOwn'
    BY <1>1, <2>2 DEF ShopFound, MadeOwn, Found, Mp, tables, orders, Comparing
  <2>9. ShopOwn' /\ OwnAccounts' /\ EnteredOnce'
    BY <1>1 DEF ShopOwn, OwnAccounts, EnteredOnce, tables, orders
  <2> QED
    BY <2>5, <2>6, <2>7, <2>8, <2>9
<1> QED
  BY <1>3, <1>4

\* A withdrawal is entered: it was not there, and no other task is at one of the
\* same shop, whose row is locked.
LEMMA WithdrawalEntered ==
  ASSUME IInv, NEW t \in Tasks, EnterWithdrawal(t)
  PROVE  IInv'
<1> DEFINE x == [mp |-> Mp(t), from |-> accounts[t].from, to |-> accounts[t].to, wd |-> Wd(t)]
<1> USE DEF IInv
<1>1. UNCHANGED <<request, assets, banks, shop, orders, made, accounts, faults>>
  BY DEF EnterWithdrawal
<1>2. /\ Go(t, "import") /\ lock' = Unlocked(t) /\ pos' = [pos EXCEPT ![t] = @ + 1]
      /\ rows' = Append(rows, x) /\ rows \in Seq(Entry) /\ pc[t] = "enter"
  BY DEF EnterWithdrawal, At, TypeOK
<1>3. Mp(t) \in Shops /\ lock[Mp(t)] = t /\ pos[t] \in DOMAIN request[t].wds
  BY <1>2 DEF Locked
<1>4. /\ accounts[t].from \in DOMAIN assets /\ assets[accounts[t].from] = Hold(Mp(t))
      /\ accounts[t].to \in DOMAIN assets /\ assets[accounts[t].to] = Bank(Mp(t))
      /\ \A k \in DOMAIN rows :
             ~(rows[k].mp = Mp(t) /\ rows[k].wd = Wd(t) /\ rows[k].from = accounts[t].from)
  BY <1>2 DEF Entering
<1>5. x \in Entry
  <2>1. request[t].wds \in Seq(Withdrawals)
    BY ShopAssumption DEF TypeOK, Request
  <2>2. Wd(t) \in Withdrawals
    BY <1>3, <2>1 DEF Wd
  <2> QED
    BY <1>3, <1>4, <2>2 DEF Entry
<1>6. x.mp = Mp(t) /\ x.from = accounts[t].from /\ x.to = accounts[t].to /\ x.wd = Wd(t)
  OBVIOUS
<1> HIDE DEF x
<1>7. /\ rows' \in Seq(Entry)
      /\ rows'[Len(rows) + 1] = x /\ (\A k \in DOMAIN rows : rows'[k] = rows[k])
      /\ \A k \in DOMAIN rows' : k \in DOMAIN rows \/ k = Len(rows) + 1
  BY <1>2, <1>5, Appended
<1>8. /\ pc'[t] = "import"
      /\ \A u \in Tasks : u # t => pc'[u] = pc[u] /\ pos'[u] = pos[u]
  BY <1>2 DEF Go, TypeOK
<1>9. TypeOK'
  <2>1. Entry' = Entry
    BY <1>1 DEF Entry
  <2>2. pc' \in [Tasks -> {"new"} \cup InFlight \cup Ended]
    BY <1>2 DEF TypeOK, Go, InFlight, Importing
  <2>3. pos' \in [Tasks -> Nat \ {0}]
    BY <1>2 DEF TypeOK
  <2>4. lock' \in [Shops -> Tasks \cup {NoTask}]
    BY <1>2, Released
  <2> QED
    BY <1>1, <1>7, <2>1, <2>2, <2>3, <2>4 DEF TypeOK, orders
<1>10. Locked'
  BY <1>1, <1>2, <1>8, Released DEF Locked, Mp
<1>11. Entering'
  <2> SUFFICES ASSUME NEW u \in Tasks, pc'[u] = "enter" PROVE
        /\ accounts[u].from \in DOMAIN assets /\ assets[accounts[u].from] = Hold(Mp(u))
        /\ accounts[u].to \in DOMAIN assets /\ assets[accounts[u].to] = Bank(Mp(u))
        /\ \A k \in DOMAIN rows' :
               ~(rows'[k].mp = Mp(u) /\ rows'[k].wd = Wd(u)' /\ rows'[k].from = accounts[u].from)
    BY <1>1 DEF Entering, Mp
  <2>1. u # t /\ pc[u] = "enter" /\ Wd(u)' = Wd(u)
    BY <1>1, <1>8 DEF Wd
  <2>2. Mp(u) # Mp(t)
    BY <1>3, <2>1 DEF Locked
  <2> QED
    BY <1>6, <1>7, <2>1, <2>2 DEF Entering
<1>12. ShopFound' /\ MadeOwn'
  BY <1>1, <1>8 DEF ShopFound, MadeOwn, Found, Mp, Comparing
<1>13. OwnAccounts'
  BY <1>1, <1>4, <1>6, <1>7 DEF OwnAccounts, Hold, Bank
<1>14. EnteredOnce'
  BY <1>4, <1>6, <1>7 DEF EnteredOnce
<1>15. ShopOwn'
  BY <1>1 DEF ShopOwn
<1> QED
  BY <1>9, <1>10, <1>11, <1>12, <1>13, <1>14, <1>15

-----------------------------------------------------------------------------
(* Tasks that end early.                                                    *)

\* A process that dies takes its tasks with it, and the locks of these only.
LEMMA Died ==
  ASSUME IInv, NEW t \in Tasks, Panic(t)
  PROVE  IInv'
<1> DEFINE hit == {u \in Peers(t) \cup {t} : pc[u] \in InFlight}
<1> USE DEF IInv
<1>1. UNCHANGED <<request, tables, local, faults>>
  BY DEF Panic
<1>2. /\ pc' = [u \in Tasks |-> IF u \in hit THEN "dead" ELSE pc[u]]
      /\ lock' = [s \in Shops |-> IF lock[s] \in hit THEN NoTask ELSE lock[s]]
  BY DEF Panic
<1> HIDE DEF hit
<1>3. TypeOK'
  BY <1>1, <1>2 DEF TypeOK, Entry, tables, orders, local, Ended
<1>4. \A u \in Tasks : pc'[u] = "dead" \/ (pc'[u] = pc[u] /\ u \notin hit)
  BY <1>2
<1>5. ShopFound' /\ MadeOwn' /\ Entering'
  BY <1>1, <1>4 DEF ShopFound, MadeOwn, Entering, Found, Mp, Wd, tables, orders, local, Comparing
<1>6. Locked'
  BY <1>1, <1>2, <1>4 DEF Locked, Mp, local
<1>7. ShopOwn' /\ OwnAccounts' /\ EnteredOnce'
  BY <1>1 DEF ShopOwn, OwnAccounts, EnteredOnce, tables, orders
<1> QED
  BY <1>3, <1>5, <1>6, <1>7

\* A task whose call fails gives up its own lock.
LEMMA Failed ==
  ASSUME IInv, NEW t \in Tasks, Fail(t)
  PROVE  IInv'
<1> USE DEF IInv
<1>1. /\ UNCHANGED <<request, tables, local>> /\ faults < MaxFault
      /\ faults' = faults + 1 /\ Go(t, "error") /\ lock' = Unlocked(t)
  BY DEF Fail
<1>2. pc'[t] = "error" /\ (\A u \in Tasks : u # t => pc'[u] = pc[u])
  BY <1>1 DEF Go, TypeOK
<1>3. faults' \in 0..MaxFault
  BY <1>1, ShopAssumption DEF TypeOK
<1>4. TypeOK'
  BY <1>1, <1>3, Released DEF TypeOK, Entry, Go, tables, orders, local, Ended
<1>5. ShopFound' /\ MadeOwn' /\ Entering'
  BY <1>1, <1>2 DEF ShopFound, MadeOwn, Entering, Found, Mp, Wd, tables, orders, local, Comparing
<1>6. Locked'
  BY <1>1, <1>2, Released DEF Locked, Mp, local
<1>7. ShopOwn' /\ OwnAccounts' /\ EnteredOnce'
  BY <1>1 DEF ShopOwn, OwnAccounts, EnteredOnce, tables, orders
<1> QED
  BY <1>4, <1>5, <1>6, <1>7

-----------------------------------------------------------------------------
(* The theorems.                                                            *)

\* The invariant holds at the start: there are no accounts and no rows.
LEMMA Starts == Init => IInv
<1> SUFFICES ASSUME Init PROVE IInv
  OBVIOUS
<1>1. TypeOK
  BY ShopAssumption DEF Init, TypeOK
<1>2. ShopFound /\ MadeOwn /\ ShopOwn /\ Locked /\ Entering
  BY DEF Init, ShopFound, MadeOwn, ShopOwn, Locked, Entering, Comparing
<1>3. OwnAccounts /\ EnteredOnce
  BY DEF Init, OwnAccounts, EnteredOnce
<1> QED
  BY <1>1, <1>2, <1>3 DEF IInv

\* Every step keeps it.
LEMMA Keeps == IInv /\ [Next]_vars => IInv'
<1> SUFFICES ASSUME IInv, [Next]_vars PROVE IInv'
  OBVIOUS
<1>1. CASE \E t \in Tasks : Take(t) \/ Step(t) \/ CountFails(t) \/ Fail(t)
  <2>1. PICK t \in Tasks : Take(t) \/ Step(t) \/ CountFails(t) \/ Fail(t)
    BY <1>1
  <2>2. CASE Take(t) \/ CountFails(t)
    BY <2>2, PlainSteps
  <2>3. CASE Fail(t)
    BY <2>3, Failed
  <2>4. CASE Step(t)
    BY <2>4, PlainSteps, AssetSteps, BankSaved, ShopSet, OrdersMoved, ShopLocked,
       WithdrawalFound, WithdrawalEntered, Died DEF Step
  <2> QED
    BY <2>1, <2>2, <2>3, <2>4
<1>2. CASE UNCHANGED vars
  BY <1>2 DEF vars, tables, orders, local, IInv, TypeOK, Entry, ShopFound, MadeOwn, ShopOwn, Locked,
     Entering, OwnAccounts, EnteredOnce, Found, Mp, Wd
<1>3. CASE \E o \in Changing : \E s \in Shops : ChangeOrder(o, s)
  BY <1>3, OrdersChanged
<1> QED
  BY <1>1, <1>2, <1>3 DEF Next

\* The invariant holds always.
THEOREM Invariance == Spec => []IInv
  BY Starts, Keeps, PTL DEF Spec

\* Every id that a table or a task has names a row of the table it is of.
THEOREM TypeInvariant == Spec => []TypeOK
<1>1. IInv => TypeOK
  BY DEF IInv
<1> QED
  BY <1>1, Invariance, PTL

\* No withdrawal is twice under one holding asset: the lock on the shop's row
\* makes SetWithdrawal's query and its Save one step for the tasks of that shop,
\* whatever happens to the others.
THEOREM WithdrawalsEnteredOnce == Spec => []EnteredOnce
<1>1. IInv => EnteredOnce
  BY DEF IInv
<1> QED
  BY <1>1, Invariance, PTL

\* A withdrawal moves money between accounts of its own shop, however the tasks
\* that were giving it accounts interleaved.
THEOREM AccountsAreOwn == Spec => []OwnAccounts
<1>1. IInv => OwnAccounts
  BY DEF IInv
<1> QED
  BY <1>1, Invariance, PTL

-----------------------------------------------------------------------------
(* What the stages before it give the import.                               *)

\* A task goes on, ends, or is left where it is.
LEMMA Flow ==
  ASSUME TypeOK, [Next]_vars, NEW u \in Tasks
  PROVE  pc'[u] = pc[u] \/ pc'[u] \in Ended \/ Take(u) \/ Step(u) \/ CountFails(u)
<1>1. CASE UNCHANGED vars
  BY <1>1 DEF vars
<1>2. CASE \E t \in Tasks : Take(t) \/ Step(t) \/ CountFails(t) \/ Fail(t)
  <2>1. PICK t \in Tasks : Take(t) \/ Step(t) \/ CountFails(t) \/ Fail(t)
    BY <1>2
  <2>2. CASE t = u
    <3>1. Fail(t) => pc'[u] = "error"
      BY <2>2 DEF Fail, Go, TypeOK
    <3> QED
      BY <2>1, <2>2, <3>1 DEF Ended
  <2>3. CASE t # u /\ Panic(t)
    BY <2>3 DEF Panic, Ended
  <2>4. CASE t # u /\ ~Panic(t)
    <3>1. PICK label : Go(t, label)
      BY <2>1, <2>4 DEF Step, Take, FindShop, ReadBank, NewBank, SaveBank, SetBank, ReadHold,
         NewHold, SetHold, Compare, CountOrders, CountFails, MoveOrders, FirstOrder, StartImport,
         LockShop, FindWithdrawal, EnterWithdrawal, Done, Fail
    <3> QED
      BY <2>4, <3>1 DEF Go, TypeOK
  <2> QED
    BY <2>2, <2>3, <2>4
<1>3. CASE \E o \in Changing : \E s \in Shops : ChangeOrder(o, s)
  BY <1>3 DEF ChangeOrder
<1> QED
  BY <1>1, <1>2, <1>3 DEF Next

\* A shop keeps having accounts, and only SetHold gives it another holding asset.
LEMMA ShopKeeps ==
  ASSUME IInv, [Next]_vars
  PROVE  /\ request' = request /\ faults' \in Nat /\ faults' >= faults
         /\ \A s \in Shops : /\ shop[s].bank # 0 => shop'[s].bank # 0
                             /\ shop[s].hold # 0 => shop'[s].hold # 0
                             /\ \/ shop'[s].hold = shop[s].hold
                                \/ \E t \in Tasks : SetHold(t) /\ Found(t) = s
<1>0. TypeOK /\ faults \in Nat
  BY ShopAssumption DEF IInv, TypeOK
<1>1. CASE UNCHANGED vars
  BY <1>0, <1>1 DEF vars, tables, orders
<1>2. ASSUME NEW t \in Tasks, SetBank(t) \/ SetHold(t)
      PROVE  /\ request' = request /\ faults' = faults
             /\ \A s \in Shops : /\ shop[s].bank # 0 => shop'[s].bank # 0
                                 /\ shop[s].hold # 0 => shop'[s].hold # 0
                                 /\ \/ shop'[s].hold = shop[s].hold
                                    \/ SetHold(t) /\ Found(t) = s
  <2>1. made[t] # 0
    BY <1>2 DEF IInv, TypeOK, MadeOwn, SetBank, SetHold, At
  <2>2. CASE SetBank(t)
    BY <1>0, <2>1, <2>2 DEF SetBank, SetShop, TypeOK
  <2>3. CASE SetHold(t)
    BY <1>0, <2>1, <2>3 DEF SetHold, SetShop, TypeOK
  <2> QED
    BY <1>2, <2>2, <2>3
<1>3. CASE \E t \in Tasks : Take(t) \/ Step(t) \/ CountFails(t) \/ Fail(t)
  <2>1. PICK t \in Tasks : Take(t) \/ Step(t) \/ CountFails(t) \/ Fail(t)
    BY <1>3
  <2>2. CASE SetBank(t) \/ SetHold(t)
    BY <1>0, <1>2, <2>2
  <2>3. CASE ~(SetBank(t) \/ SetHold(t))
    <3>1. request' = request /\ shop' = shop /\ faults' \in {faults, faults + 1}
      BY <2>1, <2>3 DEF Step, Take, FindShop, ReadBank, NewBank, SaveBank, ReadHold,
         NewHold, CreateAsset, Compare, CountOrders, CountFails, MoveOrders, FirstOrder, StartImport,
         LockShop, FindWithdrawal, EnterWithdrawal, Panic, Done, Fail, tables, orders
    <3> QED
      BY <1>0, <3>1
  <2> QED
    BY <2>2, <2>3
<1>4. CASE \E o \in Changing : \E s \in Shops : ChangeOrder(o, s)
  BY <1>0, <1>4 DEF ChangeOrder
<1> QED
  BY <1>1, <1>3, <1>4 DEF Next

Later == {"checked"} \cup Comparing \cup Importing
\* Past its check the shop that a task found has its accounts.
Supplied == \A t \in Tasks :
    /\ pc[t] \in {"readHold", "newHold", "setHold"} \cup Later /\ Found(t) \in Shops
           => shop[Found(t)].bank # 0
    /\ pc[t] \in Later => Found(t) \in Shops /\ shop[Found(t)].hold # 0

\* Past the comparison the orders of the file are in that shop, but for those that
\* have been entered or moved since.
Sorted == {"first", "ready"} \cup Importing
InShop(t) == \A o \in There(t) : orderShop[o] = Mp(t) \/ o \in changed[t]
Gathered == \A t \in Tasks : pc[t] \in Sorted /\ Agrees(t) =>
    request[t].kind = "mengantar" \/ faults > 0 \/ InShop(t)

\* The accounts of a shop are there when the stages that follow need them.
LEMMA SuppliedStep == IInv /\ Supplied /\ [Next]_vars => Supplied'
<1> SUFFICES ASSUME IInv, Supplied, [Next]_vars, NEW t \in Tasks
             PROVE  /\ pc'[t] \in {"readHold", "newHold", "setHold"} \cup Later /\ Found(t) \in Shops
                           => shop'[Found(t)].bank # 0
                    /\ pc'[t] \in Later => Found(t) \in Shops /\ shop'[Found(t)].hold # 0
  BY ShopKeeps DEF Supplied, Found, Mp
<1> USE DEF Later, Checking, Comparing, Importing, Ended, At, Go
<1>0. /\ pc[t] \in {"readHold", "newHold", "setHold"} \cup Later /\ Found(t) \in Shops
             => shop'[Found(t)].bank # 0
      /\ pc[t] \in Later => Found(t) \in Shops /\ shop'[Found(t)].hold # 0
  BY ShopKeeps DEF Supplied
<1>1. TypeOK /\ Found(t) \in Shops \cup {NoShop}
  BY ShopAssumption DEF IInv, TypeOK, Found, Mp, Request
<1>2. CASE pc'[t] = pc[t] \/ pc'[t] \in Ended
  BY <1>0, <1>2
<1>3. CASE Take(t) \/ FindShop(t) \/ NewBank(t) \/ SaveBank(t)
  BY <1>1, <1>3 DEF Take, FindShop, NewBank, SaveBank, TypeOK
<1>4. CASE ReadBank(t)
  BY <1>1, <1>4 DEF ReadBank, HasBank, tables, orders, TypeOK
<1>5. CASE SetBank(t)
  <2>1. made[t] # 0
    BY <1>1, <1>5 DEF IInv, MadeOwn, SetBank, TypeOK
  <2> QED
    BY <1>1, <1>5, <2>1 DEF SetBank, SetShop, TypeOK
<1>6. CASE ReadHold(t)
  BY <1>0, <1>1, <1>6, ShopAssumption DEF ReadHold, HasHold, tables, orders, TypeOK
<1>7. CASE NewHold(t)
  BY <1>0, <1>1, <1>7 DEF NewHold, TypeOK
<1>8. CASE SetHold(t)
  <2>1. made[t] # 0 /\ Found(t) \in Shops
    BY <1>1, <1>8 DEF IInv, MadeOwn, ShopFound, SetHold, TypeOK
  <2> QED
    BY <1>0, <1>1, <1>8, <2>1 DEF SetHold, SetShop, TypeOK
<1>9. CASE \/ Compare(t) \/ CountOrders(t) \/ MoveOrders(t) \/ FirstOrder(t) \/ StartImport(t)
           \/ LockShop(t) \/ FindWithdrawal(t) \/ EnterWithdrawal(t) \/ CountFails(t)
  <2>1. pc[t] \in Later
    BY <1>9 DEF Compare, CountOrders, MoveOrders, FirstOrder, StartImport,
       LockShop, FindWithdrawal, EnterWithdrawal, CountFails
  <2> QED
    BY <1>0, <2>1
<1>10. CASE Panic(t) \/ Done(t)
  BY <1>1, <1>10 DEF Panic, Done, TypeOK, InFlight
<1> QED
  BY <1>1, <1>2, <1>3, <1>4, <1>5, <1>6, <1>7, <1>8, <1>9, <1>10, Flow DEF Step

\* A task past the comparison misses what another step does to its orders.
LEMMA ChangesMissed ==
  ASSUME TypeOK, NEW t \in Tasks, pc[t] \in Sorted, InShop(t), request' = request,
         NEW S, changed'[t] = Missed(S)[t],
         \A o \in Orders : o \notin S => orderShop'[o] = orderShop[o]
  PROVE  InShop(t)'
<1>1. request[t].refs \subseteq Orders
  BY ShopAssumption DEF TypeOK, Request
<1>2. changed'[t] = changed[t] \cup S
  BY DEF Missed, Sorted
<1> QED
  BY <1>1, <1>2 DEF InShop, There, Mp

\* So are the orders.
LEMMA GatheredStep == IInv /\ Gathered /\ [Next]_vars => Gathered'
<1> SUFFICES ASSUME IInv, Gathered, [Next]_vars, NEW t \in Tasks, pc'[t] \in Sorted, Agrees(t),
                    request[t].kind # "mengantar", faults' = 0
             PROVE  InShop(t)'
  BY ShopKeeps DEF Gathered, Agrees, Mp
<1> USE DEF Sorted, Checking, Comparing, Importing, Ended, At, Go
<1>1. TypeOK /\ faults = 0 /\ request' = request /\ Found(t) = Mp(t)
  BY ShopKeeps, ShopAssumption DEF IInv, TypeOK, Agrees, Found
<1>2. request[t] \in Request
  BY <1>1, ShopAssumption DEF TypeOK
<1>3. CASE pc[t] \in Sorted
  <2>1. InShop(t)
    BY <1>1, <1>3 DEF Gathered
  <2>2. CASE UNCHANGED <<orderShop, changed>>
    BY <1>1, <2>1, <2>2 DEF InShop, There, Mp
  <2>3. ASSUME NEW u \in Tasks, CountOrders(u) PROVE InShop(t)'
    <3>1. orderShop' = orderShop /\ changed'[t] = changed[t]
      BY <1>1, <1>3, <2>3 DEF CountOrders, TypeOK
    <3> QED
      BY <1>1, <2>1, <3>1 DEF InShop, There, Mp
  <2>4. ASSUME NEW u \in Tasks, MoveOrders(u) PROVE InShop(t)'
    <3> DEFINE S == {o \in There(u) : orderShop[o] # Found(u)}
    <3>1. u # t
      BY <1>3, <2>4 DEF MoveOrders
    <3>2. changed'[t] = Missed(S)[t]
      BY <2>4, <3>1 DEF MoveOrders, Missed
    <3>3. \A o \in Orders : o \notin S => orderShop'[o] = orderShop[o]
      BY <2>4 DEF MoveOrders
    <3> HIDE DEF S
    <3> QED
      BY <1>1, <1>3, <2>1, <3>2, <3>3, ChangesMissed
  <2>5. ASSUME NEW o \in Changing, NEW s \in Shops, ChangeOrder(o, s) PROVE InShop(t)'
    <3>1. changed'[t] = Missed({o})[t]
      BY <2>5 DEF ChangeOrder
    <3>2. \A q \in Orders : q \notin {o} => orderShop'[q] = orderShop[q]
      BY <1>1, <2>5 DEF ChangeOrder, TypeOK
    <3> QED
      BY <1>1, <1>3, <2>1, <3>1, <3>2, ChangesMissed
  <2> QED
    BY <2>2, <2>3, <2>4, <2>5 DEF Next, Step, Take, FindShop, ReadBank, NewBank, SaveBank, SetBank,
       ReadHold, NewHold, SetHold, SetShop, CreateAsset, Compare, CountFails, FirstOrder,
       StartImport, LockShop, FindWithdrawal, EnterWithdrawal, Panic, Done, Fail, tables, orders, vars
<1>4. CASE pc[t] \notin Sorted
  <2>1. CountOrders(t) \/ MoveOrders(t)
    <3>1. pc'[t] # pc[t] /\ pc'[t] \notin Ended
      BY <1>4
    <3>2. ~CountFails(t)
      BY <1>1 DEF CountFails
    <3>3. ~Take(t)
      BY <1>1 DEF Take, TypeOK
    <3>4. Step(t)
      BY <1>1, <3>1, <3>2, <3>3, Flow
    <3> QED
      BY <1>1, <1>4, <3>4 DEF Step, FindShop, ReadBank, NewBank, SaveBank, SetBank, ReadHold,
         NewHold, SetHold, Compare, FirstOrder, StartImport, LockShop, FindWithdrawal,
         EnterWithdrawal, Panic, Done, TypeOK, InFlight
  <2>2. CASE CountOrders(t)
    <3>1. Counted(t) = "first"
      <4>1. pc'[t] = Counted(t)
        BY <1>1, <2>2 DEF CountOrders, TypeOK
      <4>2. Counted(t) \in {"move", "first", "error"}
        BY <1>2 DEF Counted, Request
      <4> QED
        BY <4>1, <4>2
    <3>2. Invalid(t) = {}
      BY <1>2, <3>1 DEF Counted, Request
    <3>3. orderShop' = orderShop
      BY <2>2 DEF CountOrders
    <3> QED
      BY <1>1, <3>2, <3>3 DEF Invalid, Valid, InShop, There, Mp
  <2>3. CASE MoveOrders(t)
    <3>1. \A o \in request[t].refs : orderShop'[o] = IF o \in There(t) THEN Mp(t) ELSE orderShop[o]
      BY <1>1, <1>2, <2>3 DEF MoveOrders, Request
    <3> QED
      BY <1>1, <3>1 DEF InShop, There, Mp
  <2> QED
    BY <2>1, <2>2, <2>3
<1> QED
  BY <1>3, <1>4

\* Of a file that names the shop it is imported for, the import finds the shop
\* with its accounts, and in the shop the orders that the raw column of the file
\* has, but for those entered or moved since they were checked, by a task of
\* another file or anybody else.
THEOREM ImportsAreReady == Spec => []ReadyToImport
<1>1. Init => Supplied /\ Gathered
  BY DEF Init, Supplied, Gathered, Later, Sorted, Comparing, Importing
<1>2. IInv /\ Supplied /\ Gathered => ReadyToImport
  <2> SUFFICES ASSUME IInv, Supplied, Gathered, NEW t \in Tasks, pc[t] \in Importing, Agrees(t)
               PROVE  /\ HasAccounts(t)
                      /\ request[t].kind = "mengantar" \/ faults > 0 \/ InShop(t)
    BY DEF ReadyToImport, InShop
  <2>1. Found(t) = Mp(t)
    BY DEF Found, Agrees
  <2> QED
    BY <2>1 DEF Supplied, Gathered, HasAccounts, HasHold, HasBank, Later, Sorted
<1> QED
  BY <1>1, <1>2, SuppliedStep, GatheredStep, Invariance, PTL DEF Spec

-----------------------------------------------------------------------------
(* The shops of one instance.                                               *)

\* An instance checks one task at a time.
OneChecking == \A t, u \in Tasks :
    t # u /\ request[t].instance = request[u].instance /\ pc[t] \in Checking => pc[u] \notin Checking

\* A shop of one instance has no holding asset when it is given one.
HoldOnce == \A t \in Tasks :
    pc[t] \in {"newHold", "setHold"} /\ OneInstance(Found(t)) => shop[Found(t)].hold = 0

\* All its withdrawals are entered under the holding asset it has.
FromHold ==
    /\ \A k \in DOMAIN rows : OneInstance(rows[k].mp) => rows[k].from = shop[rows[k].mp].hold
    /\ \A t \in Tasks : pc[t] = "enter" /\ OneInstance(Mp(t)) => accounts[t].from = shop[Mp(t)].hold

\* One task at a time: the stage takes the next when it is free.
LEMMA OneCheckingStep == IInv /\ OneChecking /\ [Next]_vars => OneChecking'
<1> SUFFICES ASSUME IInv, OneChecking, [Next]_vars, NEW t \in Tasks, NEW u \in Tasks,
                    t # u, request[t].instance = request[u].instance,
                    pc'[t] \in Checking, pc'[u] \in Checking
             PROVE  FALSE
  BY ShopKeeps DEF OneChecking
<1>1. TypeOK
  BY DEF IInv
<1>2. \A v \in Tasks : pc'[v] \in Checking => pc[v] \in Checking \/ Take(v)
  <2> SUFFICES ASSUME NEW v \in Tasks, pc'[v] \in Checking, ~Take(v), pc'[v] # pc[v]
               PROVE  pc[v] \in Checking
    OBVIOUS
  <2>1. Step(v) \/ CountFails(v)
    BY <1>1, Flow DEF Checking, Ended
  <2>2. CASE FindShop(v) \/ ReadBank(v) \/ NewBank(v) \/ SaveBank(v) \/ SetBank(v)
             \/ ReadHold(v) \/ NewHold(v) \/ SetHold(v)
    BY <2>2 DEF FindShop, ReadBank, NewBank, SaveBank, SetBank, ReadHold, NewHold, SetHold, At, Checking
  <2>3. CASE Compare(v) \/ MoveOrders(v) \/ FirstOrder(v) \/ StartImport(v) \/ CountFails(v)
             \/ LockShop(v) \/ FindWithdrawal(v) \/ EnterWithdrawal(v) \/ Panic(v) \/ Done(v)
    BY <1>1, <2>3 DEF Compare, MoveOrders, FirstOrder, StartImport, CountFails, LockShop,
       FindWithdrawal, EnterWithdrawal, Panic, Done, Go, At, TypeOK, Checking, InFlight
  <2>4. CASE CountOrders(v)
    <3>1. Counted(v) \in {"move", "first", "error"}
      BY <1>1, ShopAssumption DEF TypeOK, Counted, Request
    <3> QED
      BY <1>1, <2>4, <3>1 DEF CountOrders, Go, TypeOK, Checking
  <2> QED
    BY <2>1, <2>2, <2>3, <2>4 DEF Step
<1>3. \A v, w \in Tasks : Take(v) /\ v # w => pc'[w] = pc[w]
  BY <1>1 DEF Take, Go, TypeOK
<1>4. CASE Take(t)
  <2>1. pc[u] \in Checking /\ u \in Peers(t)
    BY <1>3, <1>4 DEF Peers
  <2> QED
    BY <1>4, <2>1 DEF Take, Free
<1>5. CASE Take(u)
  <2>1. pc[t] \in Checking /\ t \in Peers(u)
    BY <1>3, <1>5 DEF Peers
  <2> QED
    BY <1>5, <2>1 DEF Take, Free
<1> QED
  BY <1>2, <1>4, <1>5 DEF OneChecking

\* So a holding asset is given to a shop that has none.
LEMMA HoldOnceStep == IInv /\ OneChecking /\ HoldOnce /\ [Next]_vars => HoldOnce'
<1> SUFFICES ASSUME IInv, OneChecking, HoldOnce, [Next]_vars, NEW t \in Tasks,
                    pc'[t] \in {"newHold", "setHold"}, OneInstance(Found(t))
             PROVE  shop'[Found(t)].hold = 0
  BY ShopKeeps DEF HoldOnce, OneInstance, Found, Mp
<1>1. TypeOK
  BY DEF IInv
<1>2. pc[t] \in Checking /\ shop[Found(t)].hold = 0 /\ Found(t) \in Shops
  <2>1. CASE pc'[t] = pc[t]
    BY <2>1 DEF IInv, HoldOnce, ShopFound, Checking
  <2>2. CASE pc'[t] # pc[t]
    <3>1. ReadHold(t) \/ NewHold(t)
      <4>1. Step(t) \/ CountFails(t)
        BY <1>1, <2>2, Flow DEF Ended, Take, Go, TypeOK
      <4>2. ~CountOrders(t)
        <5>1. Counted(t) \in {"move", "first", "error"}
          BY <1>1, ShopAssumption DEF TypeOK, Counted, Request
        <5> QED
          BY <1>1, <5>1 DEF CountOrders, Go, TypeOK
      <4> QED
        BY <1>1, <4>1, <4>2 DEF Step, FindShop, ReadBank, NewBank, SaveBank, SetBank, SetHold, Compare,
           MoveOrders, FirstOrder, StartImport, CountFails, LockShop, FindWithdrawal,
           EnterWithdrawal, Panic, Done, Go, At, TypeOK, InFlight
    <3>2. CASE ReadHold(t)
      <4>1. Found(t) \in Shops \cup {NoShop}
        BY <1>1, ShopAssumption DEF TypeOK, Found, Mp, Request
      <4> QED
        BY <1>1, <3>2, <4>1 DEF ReadHold, HasHold, Go, At, TypeOK, Checking
    <3>3. CASE NewHold(t)
      BY <3>3 DEF IInv, ShopFound, HoldOnce, NewHold, At, Checking
    <3> QED
      BY <3>1, <3>2, <3>3
  <2> QED
    BY <2>1, <2>2
<1>3. \A u \in Tasks : ~(SetHold(u) /\ Found(u) = Found(t))
  <2> SUFFICES ASSUME NEW u \in Tasks, SetHold(u), Found(u) = Found(t) PROVE FALSE
    OBVIOUS
  <2>1. u # t
    BY <1>1 DEF SetHold, Go, TypeOK
  <2>2. request[u].instance = request[t].instance
    BY DEF OneInstance
  <2>3. pc[u] \in Checking
    BY DEF SetHold, At, Checking
  <2> QED
    BY <1>2, <2>1, <2>2, <2>3 DEF OneChecking
<1> QED
  BY <1>2, <1>3, ShopKeeps

\* And the withdrawals stay under it.
LEMMA FromHoldStep == IInv /\ HoldOnce /\ FromHold /\ [Next]_vars => FromHold'
<1> SUFFICES ASSUME IInv, HoldOnce, FromHold, [Next]_vars PROVE FromHold'
  OBVIOUS
<1>1. TypeOK /\ request' = request
  BY ShopKeeps DEF IInv
<1>2. \A s \in Shops : OneInstance(s) /\ shop[s].hold # 0 => shop'[s].hold = shop[s].hold
  <2> SUFFICES ASSUME NEW s \in Shops, OneInstance(s), shop[s].hold # 0,
                      NEW t \in Tasks, SetHold(t), Found(t) = s
               PROVE  FALSE
    BY ShopKeeps
  <2> QED
    BY DEF HoldOnce, SetHold, At
<1>3. \A k \in DOMAIN rows : rows[k].mp \in Shops /\ rows[k].from # 0
  <2>1. \A k \in DOMAIN rows : rows[k] \in Entry
    BY <1>1 DEF TypeOK
  <2>2. 0 \notin DOMAIN assets
    BY <1>1 DEF TypeOK
  <2> QED
    BY <2>1, <2>2 DEF Entry
<1>4. \A k \in DOMAIN rows : OneInstance(rows[k].mp) => rows[k].from = shop'[rows[k].mp].hold
  BY <1>2, <1>3 DEF FromHold
<1>5. \A t \in Tasks : pc[t] = "enter" => Mp(t) \in Shops /\ accounts[t].from # 0
  <2>1. 0 \notin DOMAIN assets
    BY <1>1 DEF TypeOK
  <2> QED
    BY <2>1 DEF IInv, Locked, Entering
<1>6. \A t \in Tasks : pc[t] = "enter" /\ OneInstance(Mp(t)) => accounts[t].from = shop'[Mp(t)].hold
  BY <1>2, <1>5 DEF FromHold
<1>7. CASE \E t \in Tasks : EnterWithdrawal(t)
  <2>1. PICK t \in Tasks : EnterWithdrawal(t)
    BY <1>7
  <2> DEFINE x == [mp |-> Mp(t), from |-> accounts[t].from, to |-> accounts[t].to, wd |-> Wd(t)]
  <2>2. rows' = Append(rows, x) /\ accounts' = accounts /\ pc[t] = "enter" /\ rows \in Seq(Entry)
    BY <1>1, <2>1 DEF EnterWithdrawal, At, TypeOK
  <2>3. \A u \in Tasks : pc'[u] = "enter" => pc[u] = "enter"
    BY <1>1, <2>1 DEF EnterWithdrawal, Go, TypeOK
  <2>4. \A k \in DOMAIN rows' : \/ k \in DOMAIN rows /\ rows'[k] = rows[k]
                                \/ rows'[k].mp = Mp(t) /\ rows'[k].from = accounts[t].from
    BY <2>2
  <2>5. \A k \in DOMAIN rows' : OneInstance(rows'[k].mp) => rows'[k].from = shop'[rows'[k].mp].hold
    BY <1>4, <1>6, <2>2, <2>4
  <2>6. \A u \in Tasks : pc'[u] = "enter" /\ OneInstance(Mp(u)) => accounts'[u].from = shop'[Mp(u)].hold
    BY <1>6, <2>2, <2>3
  <2> QED
    BY <1>1, <2>5, <2>6 DEF FromHold, OneInstance, Found, Mp
<1>8. CASE \E t \in Tasks : FindWithdrawal(t)
  <2>1. PICK t \in Tasks : FindWithdrawal(t)
    BY <1>8
  <2>2. rows' = rows /\ shop' = shop
    BY <2>1 DEF FindWithdrawal, tables, orders
  <2>3. \A u \in Tasks : pc'[u] = "enter" =>
            \/ pc[u] = "enter" /\ accounts'[u] = accounts[u]
            \/ u = t /\ accounts'[u].from = shop[Mp(u)].hold
    BY <1>1, <2>1 DEF FindWithdrawal, Go, TypeOK, Accounts
  <2>4. \A u \in Tasks : pc'[u] = "enter" /\ OneInstance(Mp(u)) => accounts'[u].from = shop'[Mp(u)].hold
    BY <1>6, <2>2, <2>3
  <2> QED
    BY <1>1, <1>4, <2>2, <2>4 DEF FromHold, OneInstance, Found, Mp
<1>9. CASE ~(\E t \in Tasks : EnterWithdrawal(t) \/ FindWithdrawal(t))
  <2>1. UNCHANGED <<rows, accounts>>
    BY <1>9 DEF Next, Step, Take, FindShop, ReadBank, NewBank, SaveBank, SetBank, ReadHold,
       NewHold, SetHold, SetShop, CreateAsset, Compare, CountOrders, CountFails, MoveOrders,
       FirstOrder, StartImport, LockShop, Panic, Done, Fail, ChangeOrder, tables, orders, local, vars
  <2>2. \A t \in Tasks : pc'[t] = "enter" => pc[t] = "enter"
    <3> SUFFICES ASSUME NEW t \in Tasks, pc'[t] = "enter", pc[t] # "enter" PROVE FALSE
      OBVIOUS
    <3>1. Step(t)
      BY <1>1, Flow DEF Take, CountFails, Go, Ended, TypeOK
    <3>2. ~CountOrders(t)
      <4>1. Counted(t) \in {"move", "first", "error"}
        BY <1>1, ShopAssumption DEF TypeOK, Counted, Request
      <4> QED
        BY <1>1, <4>1 DEF CountOrders, Go, TypeOK
    <3> QED
      BY <1>1, <1>9, <3>1, <3>2 DEF Step, FindShop, ReadBank, NewBank, SaveBank, SetBank, ReadHold,
         NewHold, SetHold, Compare, MoveOrders, FirstOrder, StartImport, LockShop, Panic, Done,
         Go, At, TypeOK, InFlight
  <2> QED
    BY <1>1, <1>4, <1>6, <2>1, <2>2 DEF FromHold, OneInstance, Found, Mp
<1> QED
  BY <1>7, <1>8, <1>9

\* A shop that one instance works for has each withdrawal once: SetWithdrawal
\* looks under the holding asset the shop has, and the check of the marketplace,
\* although its statements are in no transaction, gives it only one.
THEOREM WithdrawalsAreFound == Spec => []AlwaysFound
<1>1. Init => OneChecking /\ HoldOnce /\ FromHold
  BY DEF Init, OneChecking, HoldOnce, FromHold, Checking
<1>2. IInv /\ FromHold => AlwaysFound
  BY DEF IInv, FromHold, AlwaysFound, EnteredOnce
<1> QED
  BY <1>1, <1>2, OneCheckingStep, HoldOnceStep, FromHoldStep, Invariance, PTL DEF Spec
=============================================================================
