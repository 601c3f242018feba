---------------------------- MODULE SubmitProofs ----------------------------
(* What holds of Submit for every number of requests, orders, withdrawals and *)
(* files, and any number of failing calls.                                    *)
EXTENDS Submit, Sums, TLAPS

-----------------------------------------------------------------------------
(* Files and entries.                                                       *)

\* The withdrawals of a file are withdrawals, and have sequences of rows.
LEMMA FileType ==
  ASSUME TypeOK, NEW r \in Requests
  PROVE  /\ Wds(r) \in Seq(Withdrawals)
         /\ Len(Wds(r)) \in Nat
         /\ DOMAIN Wds(r) = 1..Len(Wds(r))
         /\ wd[r] \in DOMAIN Wds(r) =>
                /\ Wd(r) \in Withdrawals
                /\ RowsOf[Wd(r)] \in Seq(Row)
                /\ Len(RowsOf[Wd(r)]) \in Nat
<1>1. file[r] \in File
  BY FilesAssumption DEF TypeOK
<1>2. Wds(r) \in Seq(Withdrawals)
  BY <1>1 DEF Wds, File
<1> QED
  BY <1>2, FilesAssumption DEF Wd

\* The row a request is at belongs to an order.
LEMMA ThisRowType ==
  ASSUME TypeOK, NEW r \in Requests, wd[r] \in DOMAIN Wds(r), row[r] <= Len(RowsOf[Wd(r)])
  PROVE  ThisRow(r) \in Row /\ ThisRow(r).order \in Orders /\ row[r] \in DOMAIN RowsOf[Wd(r)]
<1>1. row[r] \in DOMAIN RowsOf[Wd(r)] /\ RowsOf[Wd(r)] \in Seq(Row)
  BY FileType DEF TypeOK
<1>2. ThisRow(r) \in Row
  BY <1>1 DEF ThisRow
<1> QED
  BY <1>1, <1>2 DEF Row

\* Adding one to a counter keeps the type, and lets no counter fall.
LEMMA CountUp ==
  ASSUME NEW S, NEW f \in [S -> Nat], NEW x
  PROVE  LET g == [f EXCEPT ![x] = f[x] + 1] IN
         /\ g \in [S -> Nat]
         /\ \A a \in S : g[a] >= f[a]
         /\ x \in S => g[x] > 0
<1> DEFINE g == [f EXCEPT ![x] = f[x] + 1]
<1>1. DOMAIN g = S /\ g = [a \in S |-> g[a]]
  OBVIOUS
<1>2. \A a \in S : f[a] \in Nat
  OBVIOUS
<1>3. \A a \in S : a # x => g[a] = f[a]
  OBVIOUS
<1>4. x \in S => g[x] = f[x] + 1
  OBVIOUS
<1> HIDE DEF g
<1>5. \A a \in S : g[a] \in Nat /\ g[a] >= f[a]
  BY <1>2, <1>3, <1>4
<1>6. g \in [S -> Nat]
  BY <1>1, <1>5
<1>7. x \in S => g[x] > 0
  BY <1>2, <1>4
<1> QED
  BY <1>5, <1>6, <1>7 DEF g

\* So does making an entry of the withdrawal a request is at.
LEMMA EnterType ==
  ASSUME made \in [AllEntries -> Nat], NEW r \in Requests, NEW e, Enter(r, e)
  PROVE  /\ made' \in [AllEntries -> Nat]
         /\ \A a \in AllEntries : made'[a] >= made[a]
         /\ <<Wd(r), e>> \in AllEntries => made'[<<Wd(r), e>>] > 0
<1>1. made' = [made EXCEPT ![<<Wd(r), e>>] = made[<<Wd(r), e>>] + 1]
  BY DEF Enter
<1> QED
  BY ONLY <1>1, CountUp, made \in [AllEntries -> Nat], Zenon

\* The entries of a withdrawal: its log row, its revenue and each of its rows.
LEMMA EntryExists ==
  ASSUME NEW w \in Withdrawals
  PROVE  /\ <<w, LogEntry>> \in AllEntries
         /\ <<w, RevenueEntry>> \in AllEntries
         /\ \A j \in DOMAIN RowsOf[w] : <<w, RowEntry(j)>> \in AllEntries
<1>1. RowsOf[w] \in Seq(Row)
  BY FilesAssumption
<1>2. LogEntry \in Entries(w) /\ RevenueEntry \in Entries(w)
      /\ \A j \in DOMAIN RowsOf[w] : RowEntry(j) \in Entries(w)
  BY <1>1 DEF LogEntry, RevenueEntry, RowEntry, Entries
<1> QED
  BY <1>2 DEF AllEntries

-----------------------------------------------------------------------------
(* Types.                                                                   *)

\* The start of a request: every request is at its first withdrawal and row.
LEMMA InitType == Init => TypeOK
<1> SUFFICES ASSUME Init PROVE TypeOK
  OBVIOUS
<1>1. \A r \in Requests : Position(r)
  BY DEF Init, Position
<1>2. made \in [AllEntries -> Nat]
  BY DEF Init
<1> QED
  BY <1>1, <1>2, FilesAssumption DEF Init, TypeOK, Steps

\* A request goes to a step.
LEMMA GotoType ==
  ASSUME pc \in [Requests -> Steps], NEW r \in Requests, NEW step \in Steps, Goto(r, step)
  PROVE  pc' \in [Requests -> Steps]
  BY DEF Goto

\* It goes to the next row.
LEMMA NextRowType ==
  ASSUME row \in [Requests -> Nat \ {0}], NEW r \in Requests, NextRow(r)
  PROVE  row' \in [Requests -> Nat \ {0}]
<1>1. row[r] + 1 \in Nat \ {0}
  OBVIOUS
<1> QED
  BY <1>1 DEF NextRow

\* A request that moves leaves the others where they are.
LEMMA OthersStay ==
  ASSUME TypeOK, NEW r \in Requests, NEW q \in Requests, q # r,
         file' = file, pc'[q] = pc[q], wd'[q] = wd[q], row'[q] = row[q]
  PROVE  Position(q)'
  BY DEF TypeOK, Position, Wd, Wds

\* Only the request that moves needs its new position checked.
LEMMA PositionsFrom ==
  ASSUME TypeOK, NEW r \in Requests, file' = file,
         \A q \in Requests : q # r => pc'[q] = pc[q] /\ wd'[q] = wd[q] /\ row'[q] = row[q],
         Position(r)'
  PROVE  \A q \in Requests : Position(q)'
  BY OthersStay
\* Every step keeps TypeOK: the request that moves has a new position in its
\* file, the entry it makes exists, and the others stay where they are.
THEOREM TypeStep == TypeOK /\ [Next]_vars => TypeOK'
<1> SUFFICES ASSUME TypeOK, [Next]_vars PROVE TypeOK'
  OBVIOUS
<1>0. ASSUME UNCHANGED vars PROVE TypeOK'
  BY <1>0 DEF vars, TypeOK, Position, Wd, Wds
<1>1. ASSUME NEW r \in Requests, Submit(r) PROVE TypeOK'
  <2>1. Position(r)'
    BY <1>1 DEF Submit, Goto, Position, TypeOK, Wd, Wds
  <2>2. \A q \in Requests : Position(q)'
    BY <1>1, <2>1, PositionsFrom DEF Submit, Goto, TypeOK
  <2> QED
    BY <1>1, <2>2 DEF Submit, Goto, TypeOK, Steps, Places
<1>2. ASSUME NEW r \in Requests, ReadTiktok(r) PROVE TypeOK'
  <2>1. Position(r)'
    BY <1>2, FileType DEF ReadTiktok, Goto, FirstWithdrawal, Position, TypeOK, Wd, Wds
  <2>2. \A q \in Requests : Position(q)'
    BY <1>2, <2>1, PositionsFrom DEF ReadTiktok, Goto, FirstWithdrawal, TypeOK
  <2> QED
    BY <1>2, <2>2 DEF ReadTiktok, Goto, FirstWithdrawal, TypeOK, Steps, Places
<1>3. ASSUME NEW r \in Requests, ReadShopee(r) PROVE TypeOK'
  <2>1. Position(r)'
    BY <1>3 DEF ReadShopee, Goto, Position, TypeOK, Wd, Wds
  <2>2. \A q \in Requests : Position(q)'
    BY <1>3, <2>1, PositionsFrom DEF ReadShopee, Goto, TypeOK
  <2> QED
    BY <1>3, <2>2 DEF ReadShopee, Goto, TypeOK, Steps, Places
<1>4. ASSUME NEW r \in Requests, Move(r) PROVE TypeOK'
  <2>1. Position(r)'
    BY <1>4 DEF Move, Goto, Moved, Position, TypeOK, Wd, Wds
  <2>2. \A q \in Requests : Position(q)'
    BY <1>4, <2>1, PositionsFrom DEF Move, Goto, Moved, TypeOK
  <2> QED
    BY <1>4, <2>2 DEF Move, Goto, Moved, TypeOK, Steps, Places
<1>5. ASSUME NEW r \in Requests, Parse(r) PROVE TypeOK'
  <2>1. Position(r)'
    BY <1>5, FileType DEF Parse, Goto, FirstWithdrawal, Position, TypeOK, Wd, Wds
  <2>2. \A q \in Requests : Position(q)'
    BY <1>5, <2>1, PositionsFrom DEF Parse, Goto, FirstWithdrawal, TypeOK
  <2> QED
    BY <1>5, <2>2 DEF Parse, Goto, FirstWithdrawal, TypeOK, Steps, Places
<1>6. ASSUME NEW r \in Requests, Log(r) PROVE TypeOK'
  <2>1. Position(r)'
    BY <1>6 DEF Log, Goto, Position, TypeOK, Wd, Wds
  <2>2. \A q \in Requests : Position(q)'
    BY <1>6, <2>1, PositionsFrom DEF Log, Goto, TypeOK
  <2>3. made' \in [AllEntries -> Nat]
    BY <1>6, EnterType DEF Log, TypeOK
  <2> QED
    BY <1>6, <2>2, <2>3 DEF Log, Goto, TypeOK, Steps, Places
<1>7. ASSUME NEW r \in Requests, Revenue(r) PROVE TypeOK'
  <2>1. Position(r)'
    BY <1>7, FileType DEF Revenue, Goto, Position, TypeOK, Wd, Wds
  <2>2. \A q \in Requests : Position(q)'
    BY <1>7, <2>1, PositionsFrom DEF Revenue, Goto, TypeOK
  <2>3. made' \in [AllEntries -> Nat]
    BY <1>7, EnterType DEF Revenue, TypeOK
  <2> QED
    BY <1>7, <2>2, <2>3 DEF Revenue, Goto, TypeOK, Steps, Places
<1>8. ASSUME NEW r \in Requests, RefuseRow(r) PROVE TypeOK'
  <2>1. Position(r)'
    BY <1>8 DEF RefuseRow, Goto, AtRow, Position, TypeOK, Wd, Wds
  <2>2. \A q \in Requests : Position(q)'
    BY <1>8, <2>1, PositionsFrom DEF RefuseRow, Goto, AtRow, TypeOK
  <2> QED
    BY <1>8, <2>2 DEF RefuseRow, Goto, AtRow, TypeOK, Steps, Places
<1>9. ASSUME NEW r \in Requests, SkipRow(r) PROVE TypeOK'
  <2>1. Position(r)'
    BY <1>9, FileType DEF SkipRow, Goto, AtRow, Accepts, NextRow, Position, TypeOK, Wd, Wds
  <2>2. \A q \in Requests : Position(q)'
    BY <1>9, <2>1, PositionsFrom DEF SkipRow, Goto, AtRow, Accepts, NextRow, TypeOK
  <2> QED
    BY <1>9, <2>2 DEF SkipRow, Goto, AtRow, Accepts, NextRow, TypeOK, Steps, Places
<1>10. ASSUME NEW r \in Requests, Spend(r) PROVE TypeOK'
  <2>1. Position(r)'
    BY <1>10, FileType DEF Spend, Goto, AtRow, Accepts, NextRow, Position, TypeOK, Wd, Wds
  <2>2. \A q \in Requests : Position(q)'
    BY <1>10, <2>1, PositionsFrom DEF Spend, Goto, AtRow, Accepts, NextRow, TypeOK
  <2>3. made' \in [AllEntries -> Nat]
    BY <1>10, EnterType DEF Spend, TypeOK
  <2> QED
    BY <1>10, <2>2, <2>3 DEF Spend, Goto, AtRow, Accepts, NextRow, TypeOK, Steps, Places
<1>11. ASSUME NEW r \in Requests, Pay(r) PROVE TypeOK'
  <2>1. Position(r)'
    BY <1>11, FileType DEF Pay, Goto, AtRow, Accepts, NextRow, Position, TypeOK, Wd, Wds
  <2>2. \A q \in Requests : Position(q)'
    BY <1>11, <2>1, PositionsFrom DEF Pay, Goto, AtRow, Accepts, NextRow, TypeOK
  <2>3. made' \in [AllEntries -> Nat]
    BY <1>11, EnterType DEF Pay, TypeOK
  <2>4. ThisRow(r).order \in Orders
    BY <1>11, ThisRowType DEF Pay, AtRow, Accepts, Position, TypeOK
  <2>5. pc' \in [Requests -> Steps]
    BY <1>11, GotoType DEF Pay, TypeOK, Steps
  <2>6. row' \in [Requests -> Nat \ {0}]
    BY <1>11, NextRowType DEF Pay, TypeOK
  <2> QED
    BY <1>11, <2>2, <2>3, <2>4, <2>5, <2>6 DEF Pay, TypeOK
<1>12. ASSUME NEW r \in Requests, Complete(r) PROVE TypeOK'
  <2>1. Position(r)'
    BY <1>12, FileType DEF Complete, Goto, NextRow, Position, TypeOK, Wd, Wds
  <2>2. \A q \in Requests : Position(q)'
    BY <1>12, <2>1, PositionsFrom DEF Complete, Goto, NextRow, TypeOK
  <2>3. LookedUp(r) \subseteq Orders
    BY <1>12, ThisRowType DEF Complete, Position, TypeOK, LookedUp
  <2>5. pc' \in [Requests -> Steps]
    BY <1>12, GotoType DEF Complete, TypeOK, Steps
  <2>6. row' \in [Requests -> Nat \ {0}]
    BY <1>12, NextRowType DEF Complete, TypeOK
  <2> QED
    BY <1>12, <2>2, <2>3, <2>5, <2>6 DEF Complete, TypeOK
<1>13. ASSUME NEW r \in Requests, NextWithdrawal(r) PROVE TypeOK'
  <2>1. Position(r)'
    BY <1>13, FileType DEF NextWithdrawal, Goto, Position, TypeOK, Wd, Wds
  <2>2. \A q \in Requests : Position(q)'
    BY <1>13, <2>1, PositionsFrom DEF NextWithdrawal, Goto, TypeOK
  <2>3. pc' \in [Requests -> Steps]
    BY <1>13, GotoType DEF NextWithdrawal, TypeOK, Steps
  <2>4. wd' \in [Requests -> Nat \ {0}]
    <3>1. wd[r] + 1 \in Nat \ {0}
      BY DEF TypeOK
    <3> QED
      BY <1>13, <3>1 DEF NextWithdrawal, TypeOK
  <2> QED
    BY <1>13, <2>2, <2>3, <2>4 DEF NextWithdrawal, TypeOK
<1>14. ASSUME NEW r \in Requests, Fail(r) PROVE TypeOK'
  <2>1. Position(r)'
    BY <1>14 DEF Fail, Goto, Position, TypeOK
  <2>2. \A q \in Requests : Position(q)'
    BY <1>14, <2>1, PositionsFrom DEF Fail, Goto, TypeOK
  <2>3. made' \in [AllEntries -> Nat]
    BY <1>14, EnterType DEF Fail, Effect, Calls, Accepts, AtRow, TypeOK
  <2>4. place' \in [Orders -> Places]
    BY <1>14 DEF Fail, Effect, Moved, Calls, Accepts, AtRow, TypeOK, Places
  <2>5. completed' \subseteq Orders
    BY <1>14, ThisRowType DEF Fail, Effect, Calls, Accepts, AtRow, TypeOK, Position, LookedUp
  <2>6. pc' \in [Requests -> Steps]
    BY <1>14, GotoType DEF Fail, TypeOK, Steps
  <2>7. faults' \in 0..MaxFaults
    BY <1>14, FilesAssumption DEF Fail, TypeOK
  <2> QED
    BY <1>14, <2>2, <2>3, <2>4, <2>5, <2>6, <2>7 DEF Fail, TypeOK
<1>15. ASSUME NEW o \in Orders, EnterOrder(o) \/ TakeOrder(o) PROVE TypeOK'
  BY <1>15 DEF EnterOrder, TakeOrder, PutOrder, TypeOK, Position, Wd, Wds, Places
<1>16. ASSUME NEW o \in Orders, CancelOrder(o) PROVE TypeOK'
  BY <1>16 DEF CancelOrder, TypeOK, Position, Wd, Wds, Places
<1> QED
  BY <1>0, <1>1, <1>2, <1>3, <1>4, <1>5, <1>6, <1>7, <1>8, <1>9, <1>10, <1>11, <1>12, <1>13, <1>14, <1>15, <1>16 DEF Next, Handle

\* TypeOK holds in every reachable state, whatever the files and the failures.
THEOREM TypeInvariant == Spec => []TypeOK
  BY InitType, TypeStep, PTL DEF Spec

-----------------------------------------------------------------------------
(* Orders are completed after they are paid.                                *)

\* A request that is about to complete an order has paid the row it is at.
PaidHere(r) == pc[r] = "complete" => made[<<Wd(r), RowEntry(row[r])>>] > 0
PaidInv == (\A r \in Requests : PaidHere(r)) /\ CompletedIsPaid

\* What has been paid stays paid, and a request that does not move keeps what
\* it has paid.
LEMMA PaidStays ==
  ASSUME TypeOK, \A a \in AllEntries : made'[a] >= made[a], made' \in [AllEntries -> Nat]
  PROVE  /\ CompletedIsPaid /\ completed' = completed => CompletedIsPaid'
         /\ \A r \in Requests :
                /\ PaidHere(r) /\ file' = file
                /\ pc'[r] = pc[r] /\ wd'[r] = wd[r] /\ row'[r] = row[r]
                => PaidHere(r)'
<1>1. \A a \in AllEntries : made[a] > 0 => made'[a] > 0
  BY DEF TypeOK
<1>2. ASSUME CompletedIsPaid, completed' = completed PROVE CompletedIsPaid'
  BY <1>1, <1>2, EntryExists DEF CompletedIsPaid
<1>3. ASSUME NEW r \in Requests, PaidHere(r), file' = file,
             pc'[r] = pc[r], wd'[r] = wd[r], row'[r] = row[r]
      PROVE  PaidHere(r)'
  <2>1. SUFFICES ASSUME pc[r] = "complete" PROVE made'[<<Wd(r), RowEntry(row[r])>>] > 0
    BY <1>3 DEF PaidHere, Wd, Wds
  <2>2. /\ wd[r] \in DOMAIN Wds(r) /\ row[r] <= Len(RowsOf[Wd(r)])
    BY <2>1 DEF TypeOK, Position
  <2>3. <<Wd(r), RowEntry(row[r])>> \in AllEntries
    BY <2>2, FileType, ThisRowType, EntryExists
  <2> QED
    BY <1>1, <1>3, <2>1, <2>3 DEF PaidHere
<1> QED
  BY <1>2, <1>3

\* A step that completes no order, and leaves the request it moves at any step
\* but "complete", keeps what is paid.
LEMMA PaidElsewhere ==
  ASSUME TypeOK, PaidInv, NEW r \in Requests, file' = file, completed' = completed,
         made' \in [AllEntries -> Nat], \A a \in AllEntries : made'[a] >= made[a],
         \A q \in Requests : q # r => pc'[q] = pc[q] /\ wd'[q] = wd[q] /\ row'[q] = row[q],
         pc'[r] # "complete"
  PROVE  PaidInv'
<1>1. PaidHere(r)'
  BY DEF PaidHere
<1>2. ASSUME NEW q \in Requests, q # r PROVE PaidHere(q)'
  BY <1>2, PaidStays DEF PaidInv
<1> QED
  BY <1>1, <1>2, PaidStays DEF PaidInv

\* The order looked up for the row a request is at is completed after the row is paid.
LEMMA CompletesPaid ==
  ASSUME TypeOK, PaidInv, NEW r \in Requests, pc[r] = "complete",
         completed' = completed \cup LookedUp(r), made' = made
  PROVE  CompletedIsPaid'
<1>1. wd[r] \in DOMAIN Wds(r) /\ row[r] <= Len(RowsOf[Wd(r)])
  BY DEF TypeOK, Position
<1>2. /\ Wd(r) \in Withdrawals /\ row[r] \in DOMAIN RowsOf[Wd(r)]
      /\ ThisRow(r) = RowsOf[Wd(r)][row[r]]
  BY <1>1, FileType, ThisRowType DEF ThisRow
<1>3. made[<<Wd(r), RowEntry(row[r])>>] > 0
  BY DEF PaidInv, PaidHere
<1> QED
  BY <1>2, <1>3 DEF PaidInv, CompletedIsPaid, LookedUp

\* Every step keeps PaidInv: Pay pays a row before its order can be completed,
\* and Complete, or the failure of its call, completes no other order.
THEOREM PaidStep == TypeOK /\ PaidInv /\ [Next]_vars => PaidInv'
<1> SUFFICES ASSUME TypeOK, PaidInv, [Next]_vars PROVE PaidInv'
  OBVIOUS
<1>a. made \in [AllEntries -> Nat] /\ \A a \in AllEntries : made[a] >= made[a]
  BY DEF TypeOK
<1>0. ASSUME UNCHANGED vars PROVE PaidInv'
  BY <1>0, <1>a, PaidStays DEF vars, PaidInv
<1>1. ASSUME NEW r \in Requests, \/ Submit(r) \/ ReadTiktok(r) \/ ReadShopee(r) \/ Parse(r)
                                 \/ RefuseRow(r) \/ Move(r)
      PROVE  PaidInv'
  <2>1. /\ file' = file /\ completed' = completed /\ made' = made
        /\ wd' = wd /\ row' = row
        /\ \A q \in Requests : q # r => pc'[q] = pc[q]
        /\ pc'[r] # "complete"
    BY <1>1 DEF Submit, ReadTiktok, ReadShopee, Parse, RefuseRow, Move, AtRow, Goto,
                FirstWithdrawal, TypeOK
  <2> QED
    BY <2>1, <1>a, PaidElsewhere
<1>2. ASSUME NEW r \in Requests, SkipRow(r) \/ NextWithdrawal(r) PROVE PaidInv'
  <2>1. /\ file' = file /\ completed' = completed /\ made' = made
        /\ \A q \in Requests : q # r => pc'[q] = pc[q] /\ wd'[q] = wd[q] /\ row'[q] = row[q]
        /\ pc'[r] # "complete"
    BY <1>2 DEF SkipRow, NextWithdrawal, Accepts, AtRow, NextRow, Goto, TypeOK
  <2> QED
    BY <2>1, <1>a, PaidElsewhere
<1>3. ASSUME NEW r \in Requests, Log(r) \/ Revenue(r) \/ Spend(r) PROVE PaidInv'
  <2>1. /\ file' = file /\ completed' = completed
        /\ \A q \in Requests : q # r => pc'[q] = pc[q] /\ wd'[q] = wd[q] /\ row'[q] = row[q]
        /\ pc'[r] # "complete"
    BY <1>3 DEF Log, Revenue, Spend, Accepts, AtRow, NextRow, Goto, TypeOK
  <2>2. made' \in [AllEntries -> Nat] /\ \A a \in AllEntries : made'[a] >= made[a]
    BY <1>3, <1>a, EnterType DEF Log, Revenue, Spend
  <2> QED
    BY <2>1, <2>2, PaidElsewhere
<1>4. ASSUME NEW r \in Requests, Pay(r) PROVE PaidInv'
  <2>1. /\ file' = file /\ completed' = completed /\ wd' = wd
        /\ \A q \in Requests : q # r => pc'[q] = pc[q] /\ row'[q] = row[q]
    BY <1>4 DEF Pay, NextRow, Goto, TypeOK
  <2>2. made' \in [AllEntries -> Nat] /\ \A a \in AllEntries : made'[a] >= made[a]
    BY <1>4, <1>a, EnterType DEF Pay
  <2>3. CASE pc'[r] # "complete"
    BY <2>1, <2>2, <2>3, PaidElsewhere
  <2>4. CASE pc'[r] = "complete"
    <3>1. row' = row
      BY <1>4, <2>4 DEF Pay, Accepts, AtRow
    <3>2. Wd(r) \in Withdrawals /\ row[r] \in DOMAIN RowsOf[Wd(r)]
      BY <1>4, FileType, ThisRowType DEF Pay, Accepts, AtRow, TypeOK, Position
    <3>3. made'[<<Wd(r), RowEntry(row[r])>>] > 0
      BY <1>4, <1>a, <3>2, EntryExists, EnterType DEF Pay
    <3>4. PaidHere(r)'
      BY <2>1, <3>1, <3>3 DEF PaidHere, Wd, Wds
    <3>5. ASSUME NEW q \in Requests, q # r PROVE PaidHere(q)'
      BY <2>1, <2>2, <3>5, PaidStays DEF PaidInv
    <3> QED
      BY <2>1, <2>2, <3>4, <3>5, PaidStays DEF PaidInv
  <2> QED
    BY <2>3, <2>4
<1>5. ASSUME NEW r \in Requests, Complete(r) PROVE PaidInv'
  <2>1. /\ file' = file /\ made' = made /\ pc'[r] # "complete"
        /\ \A q \in Requests : q # r => pc'[q] = pc[q] /\ wd'[q] = wd[q] /\ row'[q] = row[q]
    BY <1>5 DEF Complete, NextRow, Goto, TypeOK
  <2>2. CompletedIsPaid'
    BY <1>5, CompletesPaid DEF Complete
  <2>3. PaidHere(r)'
    BY <2>1 DEF PaidHere
  <2>4. ASSUME NEW q \in Requests, q # r PROVE PaidHere(q)'
    BY <1>a, <2>1, <2>4, PaidStays DEF PaidInv
  <2> QED
    BY <2>2, <2>3, <2>4 DEF PaidInv
<1>6. ASSUME NEW r \in Requests, Fail(r) PROVE PaidInv'
  <2>1. /\ file' = file /\ wd' = wd /\ row' = row /\ pc'[r] # "complete"
        /\ \A q \in Requests : q # r => pc'[q] = pc[q]
    BY <1>6 DEF Fail, Goto, TypeOK
  <2>2. \/ completed' = completed
        \/ /\ pc[r] = "complete" /\ made' = made
           /\ completed' = completed \cup LookedUp(r)
    BY <1>6 DEF Fail, Effect, Calls, Accepts, AtRow
  <2>3. made' \in [AllEntries -> Nat] /\ \A a \in AllEntries : made'[a] >= made[a]
    BY <1>6, <1>a, EnterType DEF Fail, Effect, Calls, Accepts, AtRow
  <2>4. CompletedIsPaid'
    BY <2>2, <2>3, PaidStays, CompletesPaid DEF PaidInv
  <2>5. PaidHere(r)'
    BY <2>1 DEF PaidHere
  <2>6. ASSUME NEW q \in Requests, q # r PROVE PaidHere(q)'
    BY <2>1, <2>3, <2>6, PaidStays DEF PaidInv
  <2> QED
    BY <2>4, <2>5, <2>6 DEF PaidInv
<1>7. ASSUME NEW o \in Orders, EnterOrder(o) \/ TakeOrder(o) \/ CancelOrder(o) PROVE PaidInv'
  <2>1. UNCHANGED <<file, pc, wd, row, made, completed>>
    BY <1>7 DEF EnterOrder, TakeOrder, PutOrder, CancelOrder
  <2> QED
    BY <2>1, <1>a, PaidStays DEF PaidInv
<1> QED
  BY <1>0, <1>1, <1>2, <1>3, <1>4, <1>5, <1>6, <1>7 DEF Next, Handle

\* No order is completed before one of its rows has been paid, whatever calls
\* fail, however requests overlap and however often a file is submitted.
THEOREM CompletionsArePaid == Spec => []CompletedIsPaid
<1>1. Init => PaidInv
  BY DEF Init, PaidInv, PaidHere, CompletedIsPaid
<1>2. PaidInv => CompletedIsPaid
  BY DEF PaidInv
<1> QED
  BY <1>1, <1>2, PaidStep, TypeInvariant, PTL DEF Spec

-----------------------------------------------------------------------------
(* What a Shopee file pays is under its shop.                               *)

\* The orders that were under another shop in time to be moved, and are not moved.
Misplaced == {o \in Orders : place[o] = "elsewhere" /\ o \notin late}

\* A request past its Move has no order misplaced that it could move.
MovedOrders == \A r \in Requests : PastMove(r) => Movable(r) \cap Misplaced = {}

\* The order of a row is an order.
LEMMA RowOrder ==
  ASSUME NEW w \in Withdrawals, NEW j \in DOMAIN RowsOf[w]
  PROVE  RowsOf[w][j] \in Row /\ RowsOf[w][j].order \in Orders
<1>1. RowsOf[w] \in Seq(Row)
  BY FilesAssumption
<1>2. RowsOf[w][j] \in Row
  BY <1>1
<1> QED
  BY <1>2 DEF Row

\* A step that misplaces an order only while no request is past its Move, and
\* brings a request past it only with its orders moved, keeps the invariant.
LEMMA MovedKept ==
  ASSUME MovedOrders, file' = file,
         (\E r \in Requests : PastMove(r)) => Misplaced' \subseteq Misplaced,
         \A r \in Requests : PastMove(r)' => PastMove(r) \/ Movable(r) \cap Misplaced' = {}
  PROVE  MovedOrders'
  BY DEF MovedOrders, Movable

\* Every step keeps it.
LEMMA MovedStep == TypeOK /\ MovedOrders /\ [Next]_vars => MovedOrders'
<1> SUFFICES ASSUME TypeOK, MovedOrders, [Next]_vars PROVE MovedOrders'
  OBVIOUS
<1>1. ASSUME UNCHANGED vars PROVE MovedOrders'
  BY <1>1, MovedKept DEF vars, PastMove, Misplaced
<1>2. ASSUME NEW r \in Requests, Handle(r), ~Move(r) PROVE MovedOrders'
  <2>1. UNCHANGED <<file, place, late>>
    BY <1>2 DEF Handle, Submit, ReadTiktok, ReadShopee, Parse, Log, Revenue, RefuseRow, SkipRow,
                Spend, Pay, Complete, NextWithdrawal
  <2>2. \A q \in Requests : PastMove(q)' => PastMove(q)
    BY <1>2, <2>1 DEF Handle, Submit, ReadTiktok, ReadShopee, Parse, Log, Revenue, RefuseRow, SkipRow,
                Spend, Pay, Complete, NextWithdrawal, Accepts, AtRow, NextRow, Goto, FirstWithdrawal,
                PastMove, Steps, Ended, TypeOK
  <2> QED
    BY <2>1, <2>2, MovedKept DEF Misplaced
<1>3. ASSUME NEW r \in Requests, Moved(r), UNCHANGED <<file, late>>,
             \A q \in Requests : PastMove(q)' => PastMove(q) \/ q = r
      PROVE  MovedOrders'
  <2>1. Misplaced' \subseteq Misplaced /\ Movable(r) \cap Misplaced' = {}
    BY <1>3 DEF Moved, Misplaced, TypeOK
  <2> QED
    BY <1>3, <2>1, MovedKept
<1>4. ASSUME NEW r \in Requests, Move(r) PROVE MovedOrders'
  BY <1>3, <1>4 DEF Move, Goto, PastMove, TypeOK
<1>5. ASSUME NEW r \in Requests, Fail(r) PROVE MovedOrders'
  <2>1. UNCHANGED <<file, late>> /\ pc'[r] \in Ended /\ \A q \in Requests : q # r => pc'[q] = pc[q]
    BY <1>5 DEF Fail, Goto, Ended, TypeOK
  <2>2. \A q \in Requests : PastMove(q)' => PastMove(q)
    BY <2>1 DEF PastMove, Ended
  <2>3. place' = place \/ Moved(r)
    BY <1>5 DEF Fail, Effect, Calls, Accepts, AtRow
  <2>4. CASE place' = place
    BY <2>1, <2>2, <2>4, MovedKept DEF Misplaced
  <2>5. CASE Moved(r)
    BY <1>3, <2>1, <2>2, <2>5
  <2> QED
    BY <2>3, <2>4, <2>5
<1>6. ASSUME NEW o \in Orders, EnterOrder(o) \/ TakeOrder(o) \/ CancelOrder(o) PROVE MovedOrders'
  <2>1. UNCHANGED <<file, pc>>
    BY <1>6 DEF EnterOrder, TakeOrder, PutOrder, CancelOrder
  <2>2. CASE CancelOrder(o)
    <3>1. Misplaced' \subseteq Misplaced
      BY <2>2 DEF CancelOrder, Misplaced, TypeOK
    <3> QED
      BY <2>1, <3>1, MovedKept DEF PastMove
  <2>3. ASSUME NEW p, PutOrder(o, p) PROVE MovedOrders'
    <3>1. ASSUME \E r \in Requests : PastMove(r) PROVE Misplaced' \subseteq Misplaced
      BY <2>3, <3>1 DEF PutOrder, Misplaced, TypeOK
    <3> QED
      BY <2>1, <3>1, MovedKept DEF PastMove
  <2> QED
    BY <1>6, <2>2, <2>3 DEF EnterOrder, TakeOrder
<1> QED
  BY <1>1, <1>2, <1>4, <1>5, <1>6 DEF Next

\* A step that enters a row is of a request that accepts the row.
LEMMA EntersAccepted ==
  ASSUME TypeOK, [Next]_vars, NEW r \in Requests, AtRow(r),
         made'[<<Wd(r), RowEntry(row[r])>>] > made[<<Wd(r), RowEntry(row[r])>>]
  PROVE  \E q \in Requests : Accepts(q) /\ Wd(q) = Wd(r) /\ row[q] = row[r]
<1> DEFINE e == <<Wd(r), RowEntry(row[r])>>
<1>1. Wd(r) \in Withdrawals /\ row[r] \in DOMAIN RowsOf[Wd(r)] /\ row[r] \in Nat \ {0}
  BY FileType, ThisRowType DEF AtRow, TypeOK, Position
<1>2. e \in AllEntries /\ made[e] \in Nat
  BY <1>1, EntryExists DEF TypeOK
<1>3. made' # made
  BY <1>2
<1>4. PICK q \in Requests :
        \/ Enter(q, LogEntry) \/ Enter(q, RevenueEntry)
        \/ Enter(q, RowEntry(row[q])) /\ Accepts(q)
  <2>1. ASSUME NEW q \in Requests, Handle(q)
        PROVE  \/ made' = made
               \/ Enter(q, LogEntry) \/ Enter(q, RevenueEntry)
               \/ Enter(q, RowEntry(row[q])) /\ Accepts(q)
    BY <2>1 DEF Handle, Submit, ReadTiktok, ReadShopee, Move, Parse, Log, Revenue, RefuseRow, SkipRow,
                Spend, Pay, Complete, NextWithdrawal
  <2>2. ASSUME NEW q \in Requests, Fail(q)
        PROVE  \/ made' = made
               \/ Enter(q, LogEntry) \/ Enter(q, RevenueEntry)
               \/ Enter(q, RowEntry(row[q])) /\ Accepts(q)
    BY <2>2 DEF Fail, Effect, Calls, Accepts, AtRow
  <2>3. ASSUME NEW o \in Orders, EnterOrder(o) \/ TakeOrder(o) \/ CancelOrder(o) PROVE made' = made
    BY <2>3 DEF EnterOrder, TakeOrder, PutOrder, CancelOrder
  <2> QED
    BY <1>3, <2>1, <2>2, <2>3 DEF Next, vars
<1>5. \A f : Enter(q, f) => <<Wd(q), f>> = e
  BY <1>2, <1>3 DEF Enter, TypeOK
<1>6. row[q] \in Nat \ {0}
  BY DEF TypeOK
<1>7. \A f : Enter(q, f) => Wd(q) = Wd(r) /\ f = row[r] + 1
  BY <1>5 DEF RowEntry
<1> HIDE DEF e
<1>8. ~Enter(q, LogEntry) /\ ~Enter(q, RevenueEntry)
  BY <1>1, <1>7 DEF LogEntry, RevenueEntry
<1>9. Enter(q, RowEntry(row[q])) => Wd(q) = Wd(r) /\ row[q] + 1 = row[r] + 1
  BY <1>7 DEF RowEntry
<1> QED
  BY <1>1, <1>4, <1>6, <1>8, <1>9

\* What a Shopee request pays of its team's orders is under the file's shop if the
\* raw column of the file has the order's reference, however requests overlap, unless
\* the order was entered or moved to another shop too late to be moved back
\* (submit_withdrawal_shopee.go moves orders before it traces and pays).
THEOREM PaymentsAreInShop == Spec => PaidInShop
<1>1. Init => MovedOrders
  BY DEF Init, MovedOrders, PastMove
<1>2. ASSUME TypeOK, MovedOrders, [Next]_vars, NEW r \in Requests, AtRow(r), file[r].market = "shopee",
             made'[<<Wd(r), RowEntry(row[r])>>] > made[<<Wd(r), RowEntry(row[r])>>],
             ThisRow(r).order \in file[r].refs \cap Team
      PROVE  place[ThisRow(r).order] = "shop" \/ ThisRow(r).order \in late
  <2> DEFINE o == ThisRow(r).order
  <2>1. PICK q \in Requests : Accepts(q) /\ Wd(q) = Wd(r) /\ row[q] = row[r]
    BY <1>2, EntersAccepted
  <2>2. ThisRow(q) = ThisRow(r)
    BY <2>1 DEF ThisRow
  <2>3. file[q].market = "shopee"
    <3>1. /\ wd[q] \in DOMAIN Wds(q) /\ wd[r] \in DOMAIN Wds(r)
          /\ file[q] \in Files /\ file[r] \in Files
      BY <1>2, <2>1 DEF Accepts, AtRow, TypeOK, Position
    <3>2. Wd(r) \in Range(file[q].wds) \cap Range(file[r].wds)
      BY <2>1, <3>1 DEF Wd, Wds, Range
    <3> QED
      BY <1>2, <3>1, <3>2, WithdrawalsAssumption
  <2>4. place[o] \notin {"none", "cancelled"}
    BY <2>1, <2>2, <2>3 DEF Accepts, Refuses, NeedsOrder
  <2>5. o \in Orders
    BY <1>2, FilesAssumption
  <2>6. place[o] \in {"shop", "elsewhere"}
    BY <1>2, <2>4, <2>5 DEF TypeOK, Places
  <2>7. PastMove(r)
    BY <1>2 DEF PastMove, AtRow, Steps, Ended
  <2>8. o \notin Misplaced
    BY <1>2, <2>7 DEF MovedOrders, Movable
  <2> QED
    BY <2>5, <2>6, <2>8 DEF Misplaced
<1>3. TypeOK /\ MovedOrders /\ [Next]_vars
      => [\A r \in Requests : AtRow(r) /\ file[r].market = "shopee" =>
            LET o == ThisRow(r).order
                e == <<Wd(r), RowEntry(row[r])>>
            IN  made'[e] > made[e] /\ o \in file[r].refs \cap Team
                    => place[o] = "shop" \/ o \in late]_vars
  BY <1>2
<1> QED
  BY <1>1, <1>3, MovedStep, TypeInvariant, PTL DEF Spec, PaidInShop

-----------------------------------------------------------------------------
(***************************************************************************)
(* How often the entries of a withdrawal are made.                          *)
(*                                                                          *)
(* A request goes through the entries of its withdrawal in their order.  An *)
(* entry is counted against the requests that are past it, so the proofs    *)
(* compare a counter with the size of a set of requests, which a step       *)
(* changes by the request that moves.                                       *)
(***************************************************************************)

Active == {"log", "revenue", "row", "complete"}

\* The first entry of its withdrawal a request has not passed.
Progress(r) ==
    CASE pc[r] = "log"      -> LogEntry
      [] pc[r] = "revenue"  -> RevenueEntry
      [] pc[r] = "row"      -> RowEntry(row[r])
      [] pc[r] = "complete" -> RowEntry(row[r]) + 1

\* A request makes the entry it is at, and goes past it or stops.
Makes(r) ==
    /\ pc[r] \in Active
    /\ Enter(r, Progress(r))
    /\ pc'[r] # "done"
    /\ \/ pc'[r] \in Ended
       \/ pc'[r] \in Active /\ wd'[r] = wd[r] /\ Progress(r)' = Progress(r) + 1

\* A request makes nothing: it stops, it begins with a withdrawal, it has not
\* begun, or it stays or passes over an entry that is not a call.
Begins(r) ==
    /\ pc'[r] = "log"
    /\ \/ pc[r] \notin Active /\ wd'[r] = 1
       \/ pc[r] \in Active /\ wd'[r] = wd[r] + 1 /\ Progress(r) = Len(RowsOf[Wd(r)]) + 2
Stays(r) ==
    /\ pc[r] \in Active /\ pc'[r] \in Active /\ wd'[r] = wd[r]
    /\ \/ Progress(r)' = Progress(r)
       \/ /\ Progress(r)' = Progress(r) + 1
          /\ ~IsCall(file[r].market, Wd(r), Progress(r))
Finishes(r) ==
    /\ pc'[r] = "done"
    /\ \/ pc[r] \notin Active /\ Wds(r) = <<>>
       \/ pc[r] \in Active /\ wd[r] = Len(Wds(r)) /\ Progress(r) = Len(RowsOf[Wd(r)]) + 2
Passes(r) ==
    /\ made' = made
    /\ \/ Begins(r) \/ Stays(r) \/ Finishes(r)
       \/ pc'[r] \in {"failed", "panic"}
       \/ pc[r] \notin Active /\ pc'[r] \notin Active \cup Ended

\* What a step is, to the entries.
Moves(r) ==
    /\ file' = file
    /\ \A q \in Requests : q # r => pc'[q] = pc[q] /\ wd'[q] = wd[q] /\ row'[q] = row[q]
    /\ pc[r] \notin Ended /\ pc'[r] # "idle"
    /\ Makes(r) \/ Passes(r)

-----------------------------------------------------------------------------
(* Every step is a move of one request, or leaves the requests alone.       *)

\* A handler's step, and a failing call, is a move of its request.
LEMMA RequestMoves ==
  ASSUME TypeOK, NEW r \in Requests, Handle(r) \/ Fail(r)
  PROVE  Moves(r)
<1>0. /\ \A q \in Requests : pc[q] \in Steps /\ row[q] \in Nat \ {0} /\ wd[q] \in Nat \ {0}
      /\ pc \in [Requests -> Steps] /\ row \in [Requests -> Nat \ {0}] /\ wd \in [Requests -> Nat \ {0}]
      /\ Position(r)
  BY DEF TypeOK
<1>1. CASE Submit(r) \/ ReadShopee(r) \/ Move(r)
  BY <1>0, <1>1 DEF Submit, ReadShopee, Move, Goto, Moves, Passes, Active, Ended
<1>2. CASE ReadTiktok(r) \/ Parse(r)
  BY <1>0, <1>2 DEF ReadTiktok, Parse, Goto, FirstWithdrawal, Moves, Passes, Begins, Finishes,
                   Position, Active, Ended
<1>3. CASE RefuseRow(r)
  BY <1>0, <1>3 DEF RefuseRow, AtRow, Goto, Moves, Passes, Active, Ended
<1>4. CASE Log(r)
  <2>1. Makes(r)
    BY <1>0, <1>4 DEF Log, Goto, Makes, Active, Ended, Progress, LogEntry, RevenueEntry
  <2> QED
    BY <1>0, <1>4, <2>1 DEF Log, Goto, Moves, Ended
<1>5. CASE Revenue(r)
  <2>1. Makes(r)
    BY <1>0, <1>5 DEF Revenue, Goto, Makes, Active, Ended, Progress, RevenueEntry, RowEntry
  <2> QED
    BY <1>0, <1>5, <2>1 DEF Revenue, Goto, Moves, Ended
<1>6. CASE SkipRow(r)
  <2>1. ~IsCall(file[r].market, Wd(r), Progress(r))
    BY <1>0, <1>6 DEF SkipRow, Accepts, AtRow, IsCall, Progress, RowEntry, LogEntry, RevenueEntry, ThisRow
  <2>2. Stays(r)
    BY <1>0, <1>6, <2>1 DEF SkipRow, Accepts, AtRow, NextRow, Stays, Active, Progress, RowEntry
  <2> QED
    BY <1>0, <1>6, <2>2 DEF SkipRow, Accepts, AtRow, NextRow, Moves, Passes, Ended
<1>7. CASE Spend(r)
  <2>1. Makes(r)
    BY <1>0, <1>7 DEF Spend, Accepts, AtRow, NextRow, Makes, Active, Ended, Progress, RowEntry
  <2> QED
    BY <1>0, <1>7, <2>1 DEF Spend, Accepts, AtRow, NextRow, Moves, Ended
<1>8. CASE Pay(r)
  <2>1. Makes(r)
    BY <1>0, <1>8 DEF Pay, Accepts, AtRow, NextRow, Goto, Makes, Active, Ended, Progress, RowEntry
  <2> QED
    BY <1>0, <1>8, <2>1 DEF Pay, Accepts, AtRow, NextRow, Goto, Moves, Ended
<1>9. CASE Complete(r)
  <2>1. Stays(r)
    BY <1>0, <1>9 DEF Complete, NextRow, Goto, Stays, Active, Progress, RowEntry
  <2> QED
    BY <1>0, <1>9, <2>1 DEF Complete, NextRow, Goto, Moves, Passes, Ended
<1>10. CASE NextWithdrawal(r)
  <2>1. Wds(r) \in Seq(Withdrawals) /\ Len(RowsOf[Wd(r)]) \in Nat /\ row[r] = Len(RowsOf[Wd(r)]) + 1
    BY <1>0, <1>10, FileType DEF NextWithdrawal, Position
  <2>2. Progress(r) = Len(RowsOf[Wd(r)]) + 2
    BY <1>10, <2>1 DEF NextWithdrawal, Progress, RowEntry
  <2>3. Begins(r) \/ Finishes(r)
    BY <1>0, <1>10, <2>2 DEF NextWithdrawal, Goto, Begins, Finishes, Active
  <2> QED
    BY <1>0, <1>10, <2>3 DEF NextWithdrawal, Goto, Moves, Passes, Ended
<1>11. CASE Fail(r)
  <2>1. /\ file' = file /\ wd' = wd /\ row' = row /\ pc[r] \notin Ended /\ pc'[r] \in {"failed", "panic"}
        /\ \A q \in Requests : q # r => pc'[q] = pc[q]
    BY <1>0, <1>11 DEF Fail, Calls, Accepts, AtRow, Goto, Ended
  <2>2. \/ made' = made
        \/ pc[r] = "log" /\ Enter(r, LogEntry)
        \/ pc[r] = "revenue" /\ Enter(r, RevenueEntry)
        \/ pc[r] = "row" /\ Enter(r, RowEntry(row[r]))
    BY <1>11 DEF Fail, Effect, Calls, Accepts, AtRow
  <2>3. made' = made \/ Makes(r)
    BY <2>1, <2>2 DEF Makes, Active, Ended, Progress
  <2> QED
    BY <2>1, <2>3 DEF Moves, Passes, Ended
<1> QED
  BY <1>1, <1>2, <1>3, <1>4, <1>5, <1>6, <1>7, <1>8, <1>9, <1>10, <1>11 DEF Handle

-----------------------------------------------------------------------------
(* Counters.                                                                *)

\* A request that is at an entry is at a withdrawal of its file.
LEMMA ActiveType ==
  ASSUME TypeOK, NEW r \in Requests, pc[r] \in Active
  PROVE  /\ Progress(r) \in Nat
         /\ wd[r] \in DOMAIN Wds(r) /\ Wd(r) \in Withdrawals
         /\ Contains(r, Wd(r))
<1>1. wd[r] \in DOMAIN Wds(r) /\ row[r] \in Nat
  BY DEF TypeOK, Position, Active
<1>2. Progress(r) \in Nat
  BY <1>1 DEF Progress, Active, LogEntry, RevenueEntry, RowEntry
<1> QED
  BY <1>1, <1>2, FileType DEF Contains, Range, Wd

\* The entries of a withdrawal are numbers, and each is counted.
LEMMA EntryCounted ==
  ASSUME TypeOK, NEW w \in Withdrawals, NEW e \in Entries(w)
  PROVE  /\ e \in Nat /\ e <= Len(RowsOf[w]) + 1 /\ Len(RowsOf[w]) \in Nat
         /\ <<w, e>> \in AllEntries /\ made[<<w, e>>] \in Nat
<1>1. RowsOf[w] \in Seq(Row)
  BY FilesAssumption
<1>2. <<w, e>> \in AllEntries
  BY DEF AllEntries
<1> QED
  BY <1>1, <1>2 DEF Entries, TypeOK

\* The market of a request's file is the one market of the withdrawal it is at.
LEMMA OneMarket ==
  ASSUME TypeOK, NEW r \in Requests, NEW w, Contains(r, w), NEW m \in MarketsOf(w)
  PROVE  m = file[r].market
<1>1. PICK f \in Files : w \in Range(f.wds) /\ m = f.market
  BY DEF MarketsOf
<1>2. file[r] \in Files /\ w \in Range(file[r].wds)
  BY DEF TypeOK, Contains, Wds
<1> QED
  BY <1>1, <1>2, WithdrawalsAssumption

\* A request that makes an entry makes that one once, and no other.
LEMMA MakesOne ==
  ASSUME TypeOK, NEW r \in Requests, Makes(r), NEW w \in Withdrawals, NEW e \in Entries(w)
  PROVE  /\ w = Wd(r) /\ e = Progress(r) => made'[<<w, e>>] = made[<<w, e>>] + 1
         /\ w # Wd(r) \/ e # Progress(r) => made'[<<w, e>>] = made[<<w, e>>]
<1>1. <<w, e>> \in AllEntries /\ made \in [AllEntries -> Nat]
  BY EntryCounted DEF TypeOK
<1>2. made' = [made EXCEPT ![<<Wd(r), Progress(r)>>] = made[<<Wd(r), Progress(r)>>] + 1]
  BY DEF Makes, Enter
<1>3. <<w, e>> = <<Wd(r), Progress(r)>> <=> w = Wd(r) /\ e = Progress(r)
  OBVIOUS
<1> QED
  BY ONLY <1>1, <1>2, <1>3

\* A set of requests that loses, keeps or gains the request that moves.
LEMMA Sizes ==
  ASSUME NEW S \in SUBSET Requests, NEW T \in SUBSET Requests, NEW r
  PROVE  /\ Cardinality(S) \in Nat /\ Cardinality(T) \in Nat
         /\ T \subseteq S => Cardinality(T) <= Cardinality(S)
         /\ T \subseteq S \cup {r} => Cardinality(T) <= Cardinality(S) + 1
         /\ T \subseteq S \ {r} /\ r \in S => Cardinality(T) + 1 <= Cardinality(S)
<1>1. IsFiniteSet(S) /\ IsFiniteSet(T)
  BY WithdrawalsAssumption, FS_Subset
<1> QED
  BY <1>1, SetSizes

-----------------------------------------------------------------------------
(* Earlier entries first.                                                   *)

\* The requests that are past entry d of w and not past entry e.
Between(w, d, e) ==
    {r \in Requests : pc[r] \in Active /\ Wd(r) = w /\ d < Progress(r) /\ Progress(r) <= e}

\* Each of them has made d, and can still make e.
EarlierInv ==
    \A w \in Withdrawals : \A m \in MarketsOf(w) : \A d, e \in Entries(w) :
        d < e /\ IsCall(m, w, d)
            => made[<<w, d>>] >= made[<<w, e>>] + Cardinality(Between(w, d, e))

\* A move makes d and takes the request past it, makes e from between them, or
\* makes neither and puts nobody between them.
LEMMA BetweenMoves ==
  ASSUME TypeOK, NEW r \in Requests, Moves(r),
         NEW w \in Withdrawals, NEW m \in MarketsOf(w),
         NEW d \in Entries(w), NEW e \in Entries(w), d < e, IsCall(m, w, d)
  PROVE  LET B == Between(w, d, e) IN
         \/ made'[<<w, d>>] = made[<<w, d>>] /\ made'[<<w, e>>] = made[<<w, e>>] /\ B' \subseteq B
         \/ made'[<<w, d>>] = made[<<w, d>>] + 1 /\ made'[<<w, e>>] = made[<<w, e>>] /\ B' \subseteq B \cup {r}
         \/ /\ made'[<<w, d>>] = made[<<w, d>>] /\ made'[<<w, e>>] = made[<<w, e>>] + 1
            /\ r \in B /\ B' \subseteq B \ {r}
<1> DEFINE B == Between(w, d, e)
<1>1. d \in Nat /\ e \in Nat
  BY EntryCounted
<1>2. \A q \in Requests : q # r => (q \in B' <=> q \in B)
  BY DEF Moves, Between, Wd, Wds, Progress
<1>3. r \in B => pc[r] \in Active /\ Wd(r) = w /\ d < Progress(r) /\ Progress(r) <= e
  BY DEF Between
<1>4. r \in B' => pc'[r] \in Active /\ Wd(r)' = w /\ d < Progress(r)' /\ Progress(r)' <= e
  BY DEF Between
<1>5. B \subseteq Requests /\ B' \subseteq Requests
  BY DEF Between
<1>6. pc[r] \in Active /\ wd'[r] = wd[r] => Wd(r)' = Wd(r) /\ Progress(r) \in Nat
  BY ActiveType DEF Moves, Wd, Wds
<1>7. ASSUME Makes(r), w = Wd(r), e = Progress(r)
      PROVE  /\ made'[<<w, d>>] = made[<<w, d>>] /\ made'[<<w, e>>] = made[<<w, e>>] + 1
             /\ r \in B /\ B' \subseteq B \ {r}
  <2>1. made'[<<w, d>>] = made[<<w, d>>] /\ made'[<<w, e>>] = made[<<w, e>>] + 1
    BY <1>1, <1>7, MakesOne
  <2>2. r \in B
    BY <1>1, <1>7 DEF Makes, Between
  <2>3. r \notin B'
    BY <1>1, <1>4, <1>7 DEF Makes, Active, Ended
  <2> QED
    BY <1>2, <1>5, <2>1, <2>2, <2>3
<1>8. ASSUME Makes(r), w = Wd(r), d = Progress(r)
      PROVE  made'[<<w, d>>] = made[<<w, d>>] + 1 /\ made'[<<w, e>>] = made[<<w, e>>] /\ B' \subseteq B \cup {r}
  <2>1. made'[<<w, d>>] = made[<<w, d>>] + 1 /\ made'[<<w, e>>] = made[<<w, e>>]
    BY <1>1, <1>8, MakesOne
  <2> QED
    BY <1>2, <1>5, <2>1
<1>9. ASSUME Makes(r), w # Wd(r) \/ (d # Progress(r) /\ e # Progress(r))
      PROVE  made'[<<w, d>>] = made[<<w, d>>] /\ made'[<<w, e>>] = made[<<w, e>>] /\ B' \subseteq B
  <2>1. made'[<<w, d>>] = made[<<w, d>>] /\ made'[<<w, e>>] = made[<<w, e>>]
    BY <1>9, MakesOne
  <2>2. r \in B' => r \in B
    BY <1>1, <1>4, <1>6, <1>9 DEF Makes, Between, Active, Ended
  <2> QED
    BY <1>2, <1>5, <2>1, <2>2
<1>10. ASSUME Passes(r)
       PROVE  made'[<<w, d>>] = made[<<w, d>>] /\ made'[<<w, e>>] = made[<<w, e>>] /\ B' \subseteq B
  <2>1. r \in B' => Stays(r)
    <3>1. Begins(r) => Progress(r)' = 0
      BY DEF Begins, Progress, LogEntry
    <3> QED
      BY <1>1, <1>4, <1>10, <3>1 DEF Passes, Finishes, Active, Ended
  <2>2. ASSUME r \in B' PROVE r \in B
    <3>1. pc[r] \in Active /\ Wd(r) = w /\ Progress(r) \in Nat
      BY <1>4, <1>6, <2>1, <2>2 DEF Stays
    <3>2. m = file[r].market
      BY <3>1, ActiveType, OneMarket
    <3>3. Progress(r)' = Progress(r) \/ (Progress(r)' = Progress(r) + 1 /\ Progress(r) # d)
      BY <2>1, <2>2, <3>1, <3>2 DEF Stays
    <3> QED
      BY <1>1, <1>4, <2>2, <3>1, <3>3 DEF Between
  <2> QED
    BY <1>2, <1>5, <1>10, <2>2 DEF Passes
<1> QED
  BY <1>7, <1>8, <1>9, <1>10 DEF Moves

\* A step that moves no request changes no count.
LEMMA EarlierStays ==
  ASSUME TypeOK, EarlierInv, UNCHANGED <<file, pc, wd, row, made>>
  PROVE  EarlierInv'
<1>1. \A w, d, e : Between(w, d, e)' = Between(w, d, e)
  BY DEF Between, Wd, Wds, Progress
<1> QED
  BY <1>1 DEF EarlierInv, MarketsOf

\* Every step keeps EarlierInv.
LEMMA EarlierStep == TypeOK /\ EarlierInv /\ [Next]_vars => EarlierInv'
<1> SUFFICES ASSUME TypeOK, EarlierInv, [Next]_vars PROVE EarlierInv'
  OBVIOUS
<1>1. CASE UNCHANGED <<file, pc, wd, row, made>>
  BY <1>1, EarlierStays
<1>2. ASSUME NEW r \in Requests, Moves(r) PROVE EarlierInv'
  <2> SUFFICES ASSUME NEW w \in Withdrawals, NEW m \in MarketsOf(w),
                      NEW d \in Entries(w), NEW e \in Entries(w), d < e, IsCall(m, w, d)
               PROVE  made'[<<w, d>>] >= made'[<<w, e>>] + Cardinality(Between(w, d, e)')
    BY DEF EarlierInv, MarketsOf
  <2> DEFINE B == Between(w, d, e)
  <2>1. made[<<w, d>>] \in Nat /\ made[<<w, e>>] \in Nat
    BY EntryCounted
  <2>2. made[<<w, d>>] >= made[<<w, e>>] + Cardinality(B)
    BY DEF EarlierInv
  <2>3. B \in SUBSET Requests /\ B' \in SUBSET Requests
    BY DEF Between
  <2>4. /\ Cardinality(B) \in Nat /\ Cardinality(B') \in Nat
        /\ B' \subseteq B => Cardinality(B') <= Cardinality(B)
        /\ B' \subseteq B \cup {r} => Cardinality(B') <= Cardinality(B) + 1
        /\ B' \subseteq B \ {r} /\ r \in B => Cardinality(B') + 1 <= Cardinality(B)
    BY <2>3, Sizes
  <2>5. \/ made'[<<w, d>>] = made[<<w, d>>] /\ made'[<<w, e>>] = made[<<w, e>>] /\ B' \subseteq B
        \/ made'[<<w, d>>] = made[<<w, d>>] + 1 /\ made'[<<w, e>>] = made[<<w, e>>] /\ B' \subseteq B \cup {r}
        \/ /\ made'[<<w, d>>] = made[<<w, d>>] /\ made'[<<w, e>>] = made[<<w, e>>] + 1
           /\ r \in B /\ B' \subseteq B \ {r}
    BY <1>2, BetweenMoves
  <2> HIDE DEF B
  <2> QED
    BY <2>1, <2>2, <2>4, <2>5 DEF B
<1>3. CASE \E o \in Orders : EnterOrder(o) \/ TakeOrder(o) \/ CancelOrder(o)
  BY <1>1, <1>3 DEF EnterOrder, TakeOrder, PutOrder, CancelOrder
<1> QED
  BY <1>1, <1>2, <1>3, RequestMoves DEF Next, vars

\* The log row of a withdrawal is made at least as often as its revenue, and an
\* earlier row at least as often as a later one, whatever fails and however
\* requests overlap: SubmitWithdrawalTiktok and SubmitWithdrawalShopee call the
\* services in the order of the entries and stop at the first that fails.
THEOREM EarlierEntriesFirst == Spec => []EarlierFirst
<1>1. Init => EarlierInv
  <2> SUFFICES ASSUME Init, NEW w \in Withdrawals, NEW d \in Entries(w), NEW e \in Entries(w)
               PROVE  made[<<w, d>>] >= made[<<w, e>>] + Cardinality(Between(w, d, e))
    BY DEF EarlierInv
  <2>1. Between(w, d, e) = {}
    BY DEF Init, Between, Active
  <2>2. <<w, d>> \in AllEntries /\ <<w, e>> \in AllEntries
    BY DEF AllEntries
  <2> QED
    BY <2>1, <2>2, FS_EmptySet DEF Init
<1>2. TypeOK /\ EarlierInv => EarlierFirst
  <2> SUFFICES ASSUME TypeOK, EarlierInv, NEW w \in Withdrawals, NEW m \in MarketsOf(w),
                      NEW d \in Entries(w), NEW e \in Entries(w), d < e, IsCall(m, w, d)
               PROVE  made[<<w, d>>] >= made[<<w, e>>]
    BY DEF EarlierFirst
  <2>1. Between(w, d, e) \in SUBSET Requests
    BY DEF Between
  <2>2. Cardinality(Between(w, d, e)) \in Nat
    BY <2>1, Sizes
  <2>3. made[<<w, d>>] >= made[<<w, e>>] + Cardinality(Between(w, d, e))
    BY DEF EarlierInv
  <2> QED
    BY <2>2, <2>3, EntryCounted
<1> QED
  BY <1>1, <1>2, EarlierStep, TypeInvariant, PTL DEF Spec

-----------------------------------------------------------------------------
(* Entries and the requests that are past them.                             *)

\* A request has made, or passed over, entry e of w, and goes on.
Earlier(r, w) == \E i \in DOMAIN Wds(r) : i < wd[r] /\ Wds(r)[i] = w
Past(r, w, e) ==
    pc[r] \in Active /\ (Earlier(r, w) \/ (Wd(r) = w /\ e < Progress(r)))

\* The requests that must have made entry e of w, and those that may have.
Through(w, e) == {r \in Requests : Contains(r, w) /\ (pc[r] = "done" \/ Past(r, w, e))}
Reached(w, e) == {r \in Requests : Contains(r, w) /\ (pc[r] \in Ended \/ Past(r, w, e))}

CountInv ==
    \A w \in Withdrawals : \A m \in MarketsOf(w) : \A e \in Entries(w) :
        /\ IsCall(m, w, e) => made[<<w, e>>] >= Cardinality(Through(w, e))
        /\ made[<<w, e>>] <= Cardinality(Reached(w, e))

\* A request that stays at its withdrawal is past what it was past.
LEMMA PastStays ==
  ASSUME TypeOK, NEW r \in Requests, Moves(r), NEW w \in Withdrawals, NEW e \in Entries(w),
         pc[r] \in Active, pc'[r] \in Active, wd'[r] = wd[r]
  PROVE  /\ Earlier(r, w)' <=> Earlier(r, w)
         /\ Past(r, w, e)' <=> Earlier(r, w) \/ (Wd(r) = w /\ e < Progress(r)')
         /\ e \in Nat /\ Progress(r) \in Nat
  BY ActiveType, EntryCounted DEF Moves, Past, Earlier, Wd, Wds

\* One that begins with the next is past the whole of the one before.
LEMMA PastBegins ==
  ASSUME TypeOK, NEW r \in Requests, Moves(r), Begins(r),
         NEW w \in Withdrawals, NEW e \in Entries(w)
  PROVE  Past(r, w, e)' <=> Past(r, w, e)
<1>1. e \in Nat /\ e <= Len(RowsOf[w]) + 1 /\ Len(RowsOf[w]) \in Nat
  BY EntryCounted
<1>2. pc'[r] \in Active /\ Progress(r)' = 0
  BY DEF Begins, Active, Progress, LogEntry
<1>3. Past(r, w, e)' <=> \E i \in DOMAIN Wds(r) : i < wd'[r] /\ Wds(r)[i] = w
  BY <1>1, <1>2 DEF Past, Earlier, Moves, Wds
<1>4. DOMAIN Wds(r) \subseteq Nat \ {0} /\ wd[r] \in Nat
  BY FileType DEF TypeOK
<1>5. CASE pc[r] \notin Active /\ wd'[r] = 1
  BY <1>3, <1>4, <1>5 DEF Past
<1>6. CASE pc[r] \in Active /\ wd'[r] = wd[r] + 1 /\ Progress(r) = Len(RowsOf[Wd(r)]) + 2
  <2>1. Wd(r) = w => e < Progress(r)
    BY <1>1, <1>6
  <2>2. wd[r] \in DOMAIN Wds(r) /\ Wds(r)[wd[r]] = Wd(r)
    BY <1>6, ActiveType DEF Wd
  <2>3. \A i \in DOMAIN Wds(r) : i < wd'[r] <=> i < wd[r] \/ i = wd[r]
    BY <1>4, <1>6
  <2> QED
    BY <1>3, <1>6, <2>1, <2>2, <2>3 DEF Past, Earlier
<1> QED
  BY <1>5, <1>6 DEF Begins

\* One that finishes is past all that its file contains.
LEMMA PastFinishes ==
  ASSUME TypeOK, NEW r \in Requests, Finishes(r), NEW w \in Withdrawals, NEW e \in Entries(w),
         Contains(r, w)
  PROVE  Past(r, w, e)
<1>1. PICK i \in DOMAIN Wds(r) : Wds(r)[i] = w
  BY DEF Contains, Range
<1>2. Wds(r) # <<>>
  BY <1>1
<1>3. pc[r] \in Active /\ wd[r] = Len(Wds(r)) /\ Progress(r) = Len(RowsOf[Wd(r)]) + 2
  BY <1>2 DEF Finishes
<1>4. i \in Nat /\ Len(Wds(r)) \in Nat /\ i <= Len(Wds(r))
  BY FileType
<1>5. CASE i < wd[r]
  BY <1>1, <1>3, <1>5 DEF Past, Earlier
<1>6. CASE i = wd[r]
  <2>1. e \in Nat /\ e <= Len(RowsOf[w]) + 1 /\ Len(RowsOf[w]) \in Nat
    BY EntryCounted
  <2>2. Wd(r) = w
    BY <1>1, <1>6 DEF Wd
  <2>3. e < Progress(r)
    BY <1>3, <2>1, <2>2
  <2> QED
    BY <1>3, <2>2, <2>3 DEF Past
<1> QED
  BY <1>3, <1>4, <1>5, <1>6

\* A file lists a withdrawal once: a request that is at it has not passed it.
LEMMA NotEarlier ==
  ASSUME TypeOK, NEW r \in Requests, pc[r] \in Active
  PROVE  ~Earlier(r, Wd(r))
<1>1. wd[r] \in DOMAIN Wds(r) /\ DOMAIN Wds(r) \subseteq Nat
  BY ActiveType, FileType
<1>2. \A i, j \in DOMAIN Wds(r) : Wds(r)[i] = Wds(r)[j] => i = j
  BY WithdrawalsAssumption DEF TypeOK, Wds, IsInjective
<1> QED
  BY <1>1, <1>2 DEF Earlier, Wd

\* A move that makes an entry takes its request past it; a move takes nobody
\* past an entry that is a call and is not made, and nobody back.
LEMMA PastMoves ==
  ASSUME TypeOK, NEW r \in Requests, Moves(r), NEW w \in Withdrawals,
         NEW m \in MarketsOf(w), NEW e \in Entries(w), Contains(r, w)
  PROVE  LET makes == Makes(r) /\ w = Wd(r) /\ e = Progress(r) IN
         /\ pc'[r] = "done" \/ Past(r, w, e)' => Past(r, w, e) \/ makes \/ ~IsCall(m, w, e)
         /\ Past(r, w, e) => pc'[r] \in Ended \/ Past(r, w, e)'
         /\ makes => ~Past(r, w, e) /\ (pc'[r] \in Ended \/ Past(r, w, e)')
<1> DEFINE makes == Makes(r) /\ w = Wd(r) /\ e = Progress(r)
           T == /\ pc'[r] = "done" \/ Past(r, w, e)' => Past(r, w, e) \/ makes \/ ~IsCall(m, w, e)
                /\ Past(r, w, e) => pc'[r] \in Ended \/ Past(r, w, e)'
                /\ makes => ~Past(r, w, e) /\ (pc'[r] \in Ended \/ Past(r, w, e)')
<1>1. CASE Makes(r)
  <2>1. pc[r] \in Active /\ pc'[r] # "done"
    BY <1>1 DEF Makes
  <2>2. CASE pc'[r] \in Ended
    <3>1. ~Past(r, w, e)'
      BY <2>2 DEF Past, Active, Ended
    <3>2. makes => ~Past(r, w, e)
      <4>1. e \in Nat /\ ~Earlier(r, Wd(r))
        BY <2>1, NotEarlier, EntryCounted
      <4>2. ~(e < e)
        BY <4>1
      <4> QED
        BY <4>1, <4>2 DEF Past
    <3> QED
      BY <2>1, <2>2, <3>1, <3>2
  <2>3. CASE pc'[r] \in Active /\ wd'[r] = wd[r] /\ Progress(r)' = Progress(r) + 1
    <3>1. /\ Past(r, w, e)' <=> Earlier(r, w) \/ (Wd(r) = w /\ e < Progress(r) + 1)
          /\ e \in Nat /\ Progress(r) \in Nat
      BY <2>1, <2>3, PastStays
    <3>2. Past(r, w, e) <=> Earlier(r, w) \/ (Wd(r) = w /\ e < Progress(r))
      BY <2>1 DEF Past
    <3>3. makes => ~Earlier(r, w)
      BY <2>1, NotEarlier
    <3>4. Past(r, w, e)' <=> Past(r, w, e) \/ makes
      BY <1>1, <3>1, <3>2
    <3>5. makes => ~Past(r, w, e)
      BY <3>1, <3>2, <3>3
    <3> QED
      BY <2>1, <3>4, <3>5
  <2> QED
    BY <1>1, <2>2, <2>3 DEF Makes
<1>2. CASE ~Makes(r) /\ Stays(r)
  <2>1. pc[r] \in Active /\ pc'[r] \in Active /\ wd'[r] = wd[r] /\ pc'[r] # "done"
    BY <1>2 DEF Stays, Active
  <2>2. /\ Past(r, w, e)' <=> Earlier(r, w) \/ (Wd(r) = w /\ e < Progress(r)')
        /\ e \in Nat /\ Progress(r) \in Nat
    BY <2>1, PastStays
  <2>3. Past(r, w, e) <=> Earlier(r, w) \/ (Wd(r) = w /\ e < Progress(r))
    BY <2>1 DEF Past
  <2>4. m = file[r].market
    BY OneMarket
  <2>5. \/ Progress(r)' = Progress(r)
        \/ Progress(r)' = Progress(r) + 1 /\ (Wd(r) = w /\ Progress(r) = e => ~IsCall(m, w, e))
    BY <1>2, <2>4 DEF Stays
  <2> QED
    BY <1>2, <2>1, <2>2, <2>3, <2>5
<1>3. CASE ~Makes(r) /\ Begins(r)
  BY <1>3, PastBegins DEF Begins
<1>4. CASE ~Makes(r) /\ Finishes(r)
  BY <1>4, PastFinishes DEF Finishes, Ended
<1>5. CASE ~Makes(r) /\ pc'[r] \in {"failed", "panic"}
  <2>1. pc'[r] \in Ended /\ pc'[r] # "done" /\ ~Past(r, w, e)'
    BY <1>5 DEF Past, Active, Ended
  <2> QED
    BY <1>5, <2>1
<1>6. CASE ~Makes(r) /\ pc[r] \notin Active /\ pc'[r] \notin Active \cup Ended
  BY <1>6 DEF Past, Ended
<1> QED
  BY <1>1, <1>2, <1>3, <1>4, <1>5, <1>6 DEF Moves, Passes

\* So an entry that is made gains one request, and one that is not made and is
\* a call gains none that must have made it.
LEMMA CountMoves ==
  ASSUME TypeOK, NEW r \in Requests, Moves(r), NEW w \in Withdrawals,
         NEW m \in MarketsOf(w), NEW e \in Entries(w)
  PROVE  LET T == Through(w, e)
             R == Reached(w, e)
         IN
         \/ /\ made'[<<w, e>>] = made[<<w, e>>] + 1
            /\ T' \subseteq T \cup {r} /\ R \subseteq R' \ {r} /\ r \in R'
         \/ /\ made'[<<w, e>>] = made[<<w, e>>]
            /\ IsCall(m, w, e) => T' \subseteq T
            /\ R \subseteq R'
<1> DEFINE T == Through(w, e)
           R == Reached(w, e)
           makes == Makes(r) /\ w = Wd(r) /\ e = Progress(r)
<1>1. \A q \in Requests : Contains(q, w)' <=> Contains(q, w)
  BY DEF Moves, Contains, Wds
<1>2. \A q \in Requests : q # r => /\ q \in T' <=> q \in T
                                   /\ q \in R' <=> q \in R
  BY <1>1 DEF Moves, Through, Reached, Past, Earlier, Wd, Wds, Progress
<1>3. r \in T <=> Contains(r, w) /\ (pc[r] = "done" \/ Past(r, w, e))
  BY DEF Through
<1>4. r \in T' <=> Contains(r, w) /\ (pc'[r] = "done" \/ Past(r, w, e)')
  BY <1>1 DEF Through
<1>5. r \in R <=> Contains(r, w) /\ Past(r, w, e)
  BY DEF Reached, Moves
<1>6. r \in R' <=> Contains(r, w) /\ (pc'[r] \in Ended \/ Past(r, w, e)')
  BY <1>1 DEF Reached
<1>7. T \subseteq Requests /\ T' \subseteq Requests /\ R \subseteq Requests /\ R' \subseteq Requests
  BY DEF Through, Reached
<1>8. Contains(r, w) =>
         /\ pc'[r] = "done" \/ Past(r, w, e)' => Past(r, w, e) \/ makes \/ ~IsCall(m, w, e)
         /\ Past(r, w, e) => pc'[r] \in Ended \/ Past(r, w, e)'
         /\ makes => ~Past(r, w, e) /\ (pc'[r] \in Ended \/ Past(r, w, e)')
  BY PastMoves
<1>9. CASE makes
  <2>1. Contains(r, w)
    BY <1>9, ActiveType DEF Makes
  <2>2. made'[<<w, e>>] = made[<<w, e>>] + 1
    BY <1>9, MakesOne
  <2> QED
    BY <1>2, <1>5, <1>6, <1>7, <1>8, <1>9, <2>1, <2>2
<1>10. CASE ~makes
  <2>1. made'[<<w, e>>] = made[<<w, e>>]
    BY <1>10, MakesOne DEF Moves, Passes
  <2> QED
    BY <1>2, <1>3, <1>4, <1>5, <1>6, <1>7, <1>8, <1>10, <2>1
<1> QED
  BY <1>9, <1>10

\* A step that moves no request changes no count.
LEMMA CountStays ==
  ASSUME TypeOK, CountInv, UNCHANGED <<file, pc, wd, row, made>>
  PROVE  CountInv'
<1>1. \A w, e : Through(w, e)' = Through(w, e) /\ Reached(w, e)' = Reached(w, e)
  BY DEF Through, Reached, Past, Earlier, Contains, Wd, Wds, Progress
<1> QED
  BY <1>1 DEF CountInv, MarketsOf

\* Every step keeps CountInv.
LEMMA CountStep == TypeOK /\ CountInv /\ [Next]_vars => CountInv'
<1> SUFFICES ASSUME TypeOK, CountInv, [Next]_vars PROVE CountInv'
  OBVIOUS
<1>1. CASE UNCHANGED <<file, pc, wd, row, made>>
  BY <1>1, CountStays
<1>2. ASSUME NEW r \in Requests, Moves(r) PROVE CountInv'
  <2> SUFFICES ASSUME NEW w \in Withdrawals, NEW m \in MarketsOf(w), NEW e \in Entries(w)
               PROVE  /\ IsCall(m, w, e) => made'[<<w, e>>] >= Cardinality(Through(w, e)')
                      /\ made'[<<w, e>>] <= Cardinality(Reached(w, e)')
    BY DEF CountInv, MarketsOf
  <2> DEFINE T == Through(w, e)
             R == Reached(w, e)
  <2>1. made[<<w, e>>] \in Nat
    BY EntryCounted
  <2>2. /\ IsCall(m, w, e) => made[<<w, e>>] >= Cardinality(T)
        /\ made[<<w, e>>] <= Cardinality(R)
    BY DEF CountInv
  <2>3. T \in SUBSET Requests /\ T' \in SUBSET Requests /\ R \in SUBSET Requests /\ R' \in SUBSET Requests
    BY DEF Through, Reached
  <2>4. /\ Cardinality(T) \in Nat /\ Cardinality(T') \in Nat
        /\ T' \subseteq T => Cardinality(T') <= Cardinality(T)
        /\ T' \subseteq T \cup {r} => Cardinality(T') <= Cardinality(T) + 1
    BY <2>3, Sizes
  <2>5. /\ Cardinality(R) \in Nat /\ Cardinality(R') \in Nat
        /\ R \subseteq R' => Cardinality(R) <= Cardinality(R')
        /\ R \subseteq R' \ {r} /\ r \in R' => Cardinality(R) + 1 <= Cardinality(R')
    BY <2>3, Sizes
  <2>6. \/ /\ made'[<<w, e>>] = made[<<w, e>>] + 1
           /\ T' \subseteq T \cup {r} /\ R \subseteq R' \ {r} /\ r \in R'
        \/ /\ made'[<<w, e>>] = made[<<w, e>>]
           /\ IsCall(m, w, e) => T' \subseteq T
           /\ R \subseteq R'
    BY <1>2, CountMoves
  <2> HIDE DEF T, R
  <2> QED
    BY <2>1, <2>2, <2>4, <2>5, <2>6 DEF T, R
<1>3. CASE \E o \in Orders : EnterOrder(o) \/ TakeOrder(o) \/ CancelOrder(o)
  BY <1>1, <1>3 DEF EnterOrder, TakeOrder, PutOrder, CancelOrder
<1> QED
  BY <1>1, <1>2, <1>3, RequestMoves DEF Next, vars

\* A request that reports success has made every entry of its file, once: no
\* call is left out and none is repeated by SubmitWithdrawalTiktok or
\* SubmitWithdrawalShopee, however many requests submit the same file.
THEOREM EveryEntryCounted == Spec => []EntriesCounted
<1>1. Init => CountInv
  <2> SUFFICES ASSUME Init, NEW w \in Withdrawals, NEW e \in Entries(w)
               PROVE  /\ made[<<w, e>>] >= Cardinality(Through(w, e))
                      /\ made[<<w, e>>] <= Cardinality(Reached(w, e))
    BY DEF CountInv
  <2>1. Through(w, e) = {} /\ Reached(w, e) = {}
    BY DEF Init, Through, Reached, Past, Active, Ended
  <2>2. <<w, e>> \in AllEntries
    BY DEF AllEntries
  <2> QED
    BY <2>1, <2>2, FS_EmptySet DEF Init
<1>2. TypeOK /\ CountInv => EntriesCounted
  <2> SUFFICES ASSUME TypeOK, CountInv, NEW w \in Withdrawals, NEW m \in MarketsOf(w), NEW e \in Entries(w)
               PROVE  LET D == {r \in Requests : pc[r] = "done" /\ Contains(r, w)}
                          U == {r \in Requests : pc[r] # "idle" /\ Contains(r, w)}
                      IN  /\ IsCall(m, w, e) => made[<<w, e>>] >= Cardinality(D)
                          /\ made[<<w, e>>] <= Cardinality(U)
    BY DEF EntriesCounted
  <2> DEFINE D == {r \in Requests : pc[r] = "done" /\ Contains(r, w)}
             U == {r \in Requests : pc[r] # "idle" /\ Contains(r, w)}
             T == Through(w, e)
             R == Reached(w, e)
  <2>1. D \subseteq T /\ R \subseteq U
    BY DEF Through, Reached, Past, Active, Ended
  <2>2. D \in SUBSET Requests /\ U \in SUBSET Requests /\ T \in SUBSET Requests /\ R \in SUBSET Requests
    BY DEF Through, Reached
  <2>3. Cardinality(D) \in Nat /\ Cardinality(T) \in Nat /\ Cardinality(D) <= Cardinality(T)
    BY <2>1, <2>2, Sizes
  <2>4. Cardinality(R) \in Nat /\ Cardinality(U) \in Nat /\ Cardinality(R) <= Cardinality(U)
    BY <2>1, <2>2, Sizes
  <2>5. /\ IsCall(m, w, e) => made[<<w, e>>] >= Cardinality(T)
        /\ made[<<w, e>>] <= Cardinality(R)
    BY DEF CountInv
  <2>6. made[<<w, e>>] \in Nat
    BY EntryCounted
  <2> HIDE DEF D, U, T, R
  <2> QED
    BY <2>3, <2>4, <2>5, <2>6 DEF D, U
<1> QED
  BY <1>1, <1>2, CountStep, TypeInvariant, PTL DEF Spec

-----------------------------------------------------------------------------
(* A file that was accepted once.                                           *)

\* A row that a request has passed is of a kind that its handler knows, and its
\* order has been entered; the file of a request at its withdrawals can be read.
Known(market, k) ==
    /\ Pays(market, k) \/ Spends(market, k) \/ Skips(market, k)
    /\ NeedsOrder(market, k) => place[k.order] # "none"
Readable(f) == f.traceable /\ (f.market = "tiktok" => f.wds # <<>>)
AcceptedInv ==
    \A r \in Requests :
        /\ pc[r] \in Active \cup {"done"} => Readable(file[r])
        /\ \A w \in Withdrawals : \A j \in DOMAIN RowsOf[w] :
               Contains(r, w) /\ (pc[r] = "done" \/ Past(r, w, RowEntry(j)))
                   => Known(file[r].market, RowsOf[w][j])

\* An order that has been entered is not unentered.
LEMMA OrdersStay ==
  ASSUME TypeOK, [Next]_vars, NEW o \in Orders, place[o] # "none"
  PROVE  place'[o] # "none"
<1>1. ASSUME NEW r \in Requests, Handle(r) \/ Fail(r) PROVE place' = place \/ Moved(r)
  BY <1>1 DEF Handle, Submit, ReadTiktok, ReadShopee, Move, Parse, Log, Revenue, RefuseRow, SkipRow,
              Spend, Pay, Complete, NextWithdrawal, Fail, Effect, Calls, Accepts, AtRow
<1>2. ASSUME NEW r \in Requests, Moved(r) PROVE place'[o] # "none"
  BY <1>2 DEF Moved
<1>3. ASSUME NEW q \in Orders, EnterOrder(q) \/ TakeOrder(q) \/ CancelOrder(q) PROVE place'[o] # "none"
  BY <1>3 DEF EnterOrder, TakeOrder, PutOrder, CancelOrder, TypeOK
<1> QED
  BY <1>1, <1>2, <1>3 DEF Next, vars

\* Requests are moved by their own steps.
LEMMA StepMoves ==
  ASSUME TypeOK, [Next]_vars
  PROVE  \/ UNCHANGED <<file, pc, wd, row, made>>
         \/ \E r \in Requests : (Handle(r) \/ Fail(r)) /\ Moves(r)
  BY RequestMoves DEF Next, vars, EnterOrder, TakeOrder, PutOrder, CancelOrder

\* A request comes past a row only where its handler accepts the row.
LEMMA PassedAccepts ==
  ASSUME TypeOK, NEW r \in Requests, Handle(r) \/ Fail(r),
         pc[r] \in Active, pc'[r] \in Active, wd'[r] = wd[r],
         NEW j \in Nat \ {0}, ~(RowEntry(j) < Progress(r)), RowEntry(j) < Progress(r)'
  PROVE  Accepts(r) /\ row[r] = j
<1>1. /\ pc \in [Requests -> Steps] /\ row \in [Requests -> Nat \ {0}] /\ wd \in [Requests -> Nat \ {0}]
      /\ pc[r] \notin Ended /\ pc'[r] \notin Ended
  BY DEF TypeOK, Active, Ended
<1>2. CASE SkipRow(r) \/ Spend(r) \/ Pay(r)
  BY <1>1, <1>2 DEF SkipRow, Spend, Pay, Accepts, AtRow, NextRow, Goto, Progress, RowEntry
<1>3. CASE Log(r) \/ Revenue(r) \/ Complete(r)
  BY <1>1, <1>3 DEF Log, Revenue, Complete, NextRow, Goto, Progress, LogEntry, RevenueEntry, RowEntry
<1>4. CASE NextWithdrawal(r)
  BY <1>1, <1>4 DEF NextWithdrawal, Goto, Ended
<1>5. CASE RefuseRow(r) \/ Fail(r)
  BY <1>1, <1>5 DEF RefuseRow, Fail, Goto, Ended
<1> QED
  BY <1>2, <1>3, <1>4, <1>5 DEF Handle, Submit, ReadTiktok, ReadShopee, Move, Parse, Active

\* What a request is past after its step it was past, or has just accepted.
LEMMA NewlyPast ==
  ASSUME TypeOK, NEW r \in Requests, Handle(r) \/ Fail(r), Moves(r),
         NEW w \in Withdrawals, NEW j \in DOMAIN RowsOf[w], Contains(r, w),
         pc'[r] = "done" \/ Past(r, w, RowEntry(j))', ~Past(r, w, RowEntry(j))
  PROVE  Accepts(r) /\ w = Wd(r) /\ j = row[r]
<1>1. /\ j \in Nat \ {0} /\ RowEntry(j) \in Entries(w)
      /\ RowsOf[w] \in Seq(Row)
  <2>1. RowsOf[w] \in Seq(Row)
    BY FilesAssumption
  <2> QED
    BY <2>1 DEF RowEntry, Entries
<1>2. CASE pc[r] \in Active /\ pc'[r] \in Active /\ wd'[r] = wd[r]
  <2>1. /\ Past(r, w, RowEntry(j))' <=> Earlier(r, w) \/ (Wd(r) = w /\ RowEntry(j) < Progress(r)')
        /\ Past(r, w, RowEntry(j)) <=> Earlier(r, w) \/ (Wd(r) = w /\ RowEntry(j) < Progress(r))
    BY <1>1, <1>2, PastStays DEF Past
  <2>2. pc'[r] # "done"
    BY <1>2 DEF Active
  <2>3. Wd(r) = w /\ RowEntry(j) < Progress(r)' /\ ~(RowEntry(j) < Progress(r))
    BY <2>1, <2>2
  <2> QED
    BY <1>1, <1>2, <2>3, PassedAccepts
<1>3. CASE Begins(r)
  BY <1>1, <1>3, PastBegins DEF Begins
<1>4. CASE Finishes(r)
  BY <1>1, <1>4, PastFinishes
<1>5. CASE pc'[r] # "done" /\ pc'[r] \notin Active
  BY <1>5 DEF Past
<1> QED
  BY <1>2, <1>3, <1>4, <1>5 DEF Moves, Makes, Passes, Stays, Active, Ended

\* Every step keeps AcceptedInv.
LEMMA AcceptedStep == TypeOK /\ AcceptedInv /\ [Next]_vars => AcceptedInv'
<1> SUFFICES ASSUME TypeOK, AcceptedInv, [Next]_vars PROVE AcceptedInv'
  OBVIOUS
<1>1. ASSUME NEW market, NEW w \in Withdrawals, NEW j \in DOMAIN RowsOf[w], Known(market, RowsOf[w][j])
      PROVE  Known(market, RowsOf[w][j])'
  BY <1>1, RowOrder, OrdersStay DEF Known
<1>2. CASE UNCHANGED <<file, pc, wd, row, made>>
  <2>1. ASSUME NEW r \in Requests, NEW w, NEW e
        PROVE  /\ Past(r, w, e)' = Past(r, w, e)
               /\ Contains(r, w)' = Contains(r, w)
    BY <1>2 DEF Past, Earlier, Contains, Wd, Wds, Progress
  <2> QED
    BY <1>1, <1>2, <2>1 DEF AcceptedInv, Readable
<1>3. ASSUME NEW r \in Requests, Handle(r) \/ Fail(r), Moves(r) PROVE AcceptedInv'
  <2>1. ASSUME NEW q \in Requests, q # r, NEW w, NEW e
        PROVE  /\ pc'[q] = pc[q] /\ file'[q] = file[q]
               /\ Past(q, w, e)' = Past(q, w, e)
               /\ Contains(q, w)' = Contains(q, w)
    BY <1>3, <2>1 DEF Moves, Past, Earlier, Contains, Wd, Wds, Progress
  <2>2. file' = file /\ \A w : Contains(r, w)' = Contains(r, w)
    BY <1>3 DEF Moves, Contains, Wds
  <2>3. ASSUME pc'[r] \in Active \cup {"done"} PROVE Readable(file[r])
    <3>1. CASE pc[r] \in Active \cup {"done"}
      BY <3>1 DEF AcceptedInv
    <3>2. CASE pc[r] \notin Active \cup {"done"}
      BY <1>3, <2>3, <3>2 DEF Handle, Submit, ReadTiktok, ReadShopee, Move, Parse, Log, Revenue, RefuseRow,
           SkipRow, Spend, Pay, Complete, NextWithdrawal, Fail, Accepts, AtRow, Goto, FirstWithdrawal,
           Active, Readable, Wds, TypeOK
    <3> QED
      BY <3>1, <3>2
  <2>4. ASSUME NEW w \in Withdrawals, NEW j \in DOMAIN RowsOf[w], Contains(r, w),
               pc'[r] = "done" \/ Past(r, w, RowEntry(j))'
        PROVE  Known(file[r].market, RowsOf[w][j])
    <3>1. CASE Past(r, w, RowEntry(j))
      BY <2>4, <3>1 DEF AcceptedInv
    <3>2. CASE ~Past(r, w, RowEntry(j))
      <4>1. Accepts(r) /\ RowsOf[w][j] = ThisRow(r)
        BY <1>3, <2>4, <3>2, NewlyPast DEF ThisRow
      <4> QED
        BY <4>1 DEF Accepts, Refuses, Known
    <3> QED
      BY <3>1, <3>2
  <2> SUFFICES ASSUME NEW q \in Requests
               PROVE  /\ pc'[q] \in Active \cup {"done"} => Readable(file'[q])
                      /\ \A w \in Withdrawals : \A j \in DOMAIN RowsOf[w] :
                             Contains(q, w)' /\ (pc'[q] = "done" \/ Past(q, w, RowEntry(j))')
                                 => Known(file[q].market, RowsOf[w][j])'
    BY <2>2 DEF AcceptedInv, Readable
  <2>5. CASE q = r
    BY <1>1, <2>2, <2>3, <2>4, <2>5
  <2>6. CASE q # r
    <3>1. pc'[q] \in Active \cup {"done"} => Readable(file'[q])
      BY <2>1, <2>6 DEF AcceptedInv
    <3>2. ASSUME NEW w \in Withdrawals, NEW j \in DOMAIN RowsOf[w],
                 Contains(q, w)', pc'[q] = "done" \/ Past(q, w, RowEntry(j))'
          PROVE  Known(file[q].market, RowsOf[w][j])'
      <4>1. Contains(q, w) /\ (pc[q] = "done" \/ Past(q, w, RowEntry(j)))
        BY <2>1, <2>6, <3>2
      <4>2. Known(file[q].market, RowsOf[w][j])
        BY <4>1 DEF AcceptedInv
      <4>3. \A market : Known(market, RowsOf[w][j]) => Known(market, RowsOf[w][j])'
        BY <1>1
      <4>4. file'[q] = file[q]
        BY <2>1, <2>6
      <4> QED
        BY <4>2, <4>3, <4>4
    <3> QED
      BY <3>1, <3>2
  <2> QED
    BY <2>5, <2>6
<1> QED
  BY <1>2, <1>3, StepMoves

\* A file that one request has completed is completed by every other that
\* uploads it, unless a call fails or an order of it has been cancelled: nothing
\* a request leaves behind stops the next (service_test.go uploads a file twice).
THEOREM SecondUploadsPass == Spec => SecondUpload
<1>1. Init => AcceptedInv
  BY DEF Init, AcceptedInv, Past, Active
<1>2. ASSUME TypeOK, AcceptedInv, [Next]_vars,
             NEW r \in Requests, NEW s \in Requests,
             pc[r] = "done", file[s] = file[r], pc[s] \notin Ended, pc'[s] \in Ended
      PROVE  \/ pc'[s] = "done" \/ faults' > faults
             \/ \E k \in RowsIn(file[s]) : place[k.order] = "cancelled"
  <2>1. Readable(file[s])
    BY <1>2 DEF AcceptedInv
  <2>2. Handle(s) \/ Fail(s)
    <3>1. pc'[s] # pc[s]
      BY <1>2
    <3>2. PICK q \in Requests : (Handle(q) \/ Fail(q)) /\ Moves(q)
      BY <1>2, <3>1, StepMoves
    <3> QED
      BY <3>1, <3>2 DEF Moves
  <2>3. CASE Fail(s)
    BY <1>2, <2>3 DEF Fail, TypeOK
  <2>4. CASE RefuseRow(s)
    <3>1. wd[s] \in DOMAIN Wds(s) /\ Wd(s) \in Withdrawals /\ row[s] \in DOMAIN RowsOf[Wd(s)]
      BY <1>2, <2>4, FileType, ThisRowType DEF RefuseRow, AtRow, TypeOK, Position
    <3>2. Contains(r, Wd(s))
      BY <1>2, <3>1 DEF Contains, Range, Wd, Wds
    <3>3. Known(file[s].market, ThisRow(s))
      BY <1>2, <3>1, <3>2 DEF AcceptedInv, ThisRow
    <3>4. place[ThisRow(s).order] = "cancelled"
      BY <2>4, <3>3 DEF RefuseRow, Refuses, Known
    <3>5. ThisRow(s) \in RowsIn(file[s])
      BY <3>1 DEF RowsIn, ThisRow, Wd, Wds, Range
    <3> QED
      BY <3>4, <3>5
  <2>5. CASE Handle(s) /\ ~RefuseRow(s)
    BY <1>2, <2>1, <2>5 DEF Handle, Submit, ReadTiktok, ReadShopee, Move, Parse, Log, Revenue,
         SkipRow, Spend, Pay, Complete, NextWithdrawal, Accepts, AtRow, Goto, FirstWithdrawal,
         Readable, Wds, Ended, TypeOK
  <2> QED
    BY <2>2, <2>3, <2>4, <2>5
<1>3. TypeOK /\ AcceptedInv /\ [Next]_vars
      => [\A r, s \in Requests :
             pc[r] = "done" /\ file[s] = file[r] /\ pc[s] \notin Ended /\ pc'[s] \in Ended
                 => \/ pc'[s] = "done" \/ faults' > faults
                    \/ \E k \in RowsIn(file[s]) : place[k.order] = "cancelled"]_vars
  BY <1>2
<1> QED
  BY <1>1, <1>3, AcceptedStep, TypeInvariant, PTL DEF Spec, SecondUpload
=============================================================================
