---------------------------- MODULE ImporterProofs ----------------------------
(***************************************************************************)
(* The safety of Importer, for all statements, orders and faults.           *)
(*                                                                         *)
(* The properties are about rows handled several steps ago, so none of them  *)
(* is inductive.  What joins them is where the cursor stands: the rows from   *)
(* `from` on, down to the cursor, are all headed by one withdrawal, which is  *)
(* i.wd if it is one the import keeps; each of them has been missed, or its   *)
(* adjustment is in i.adjlists and its order known; and the balances of the   *)
(* ledger between the two ends are the sum of the amounts.                   *)
(***************************************************************************)
EXTENDS Importer, Sums

\* Where the import stands in its file.
Shape ==
    /\ pc # "idle" => file \in Files
    /\ pc \in {"log", "blocked"} => ~AtEnd /\ Handled(pos) /\ counting
    /\ pc = "log" => Found(pos)
    /\ pc \in {"settle", "commit"} => wd # NoWd /\ Group # {}
    /\ pc \in {"settle", "commit", "set"} /\ ~AtEnd => Row.kind = "withdrawal"

\* The withdrawal row that heads the group, and what i.wd has to do with it.
Headed ==
    /\ from > 1 => Head1.kind = "withdrawal"
    /\ \A k \in from..(pos - 1) : file[k].kind # "withdrawal"
    /\ pc \in {"item", "log", "blocked"} =>
           wd = IF from = 1 THEN NoWd ELSE IF Head1.at < FirstOrder THEN NoWd ELSE Head1.at
    /\ counting => from > 1 /\ wd = Head1.at
    /\ \A w \in made : w >= FirstOrder

\* The rows of the group whose order the import found.
FoundRows == {p \in Group \ missed : ~Nameless(p)}

\* What the group has left in the system before it is settled.
Connected ==
    /\ \A p \in FoundRows : orders[file[p].order] \notin {"missing", "cancelled"}
    /\ adjs = {<<file[p].order, file[p].type>> : p \in FoundRows}
    /\ adjs \subseteq logged

\* The balance after the first row of the group, in terms of the row to come.
Ledger ==
    from > 1 /\ ~AtEnd => file[from].after = Sum(from..(pos - 1)) + Row.after

IInv == /\ TypeOK /\ Shape /\ Headed /\ Connected /\ Ledger
        /\ DiffTracksStatement /\ Balanced /\ GroupSettled /\ LostListed /\ SettledAgain

-----------------------------------------------------------------------------
(* Statements and times.                                                    *)

\* What the rows of a statement are.
LEMMA Rows ==
  ASSUME NEW f \in Files \cup {<<>>}
  PROVE  /\ Len(f) \in Nat /\ DOMAIN f = 1..Len(f)
         /\ \A p \in 1..Len(f) :
                /\ f[p] \in Item
                /\ f[p].kind \in {"order", "unknown", "withdrawal", "other"}
                /\ f[p].order \in Ref /\ f[p].type \in AdjType
                /\ f[p].amount \in Int /\ f[p].after \in Int
                /\ f[p].at \in 1..MaxTime
         /\ \A p, q \in 1..Len(f) : p < q => f[p].at > f[q].at
<1>1. f \in Seq(Item)
  <2>1. CASE f \in Files
    BY <2>1, ImporterAssumption
  <2>2. CASE f = <<>>
    BY <2>2
  <2> QED
    BY <2>1, <2>2
<1>2. Len(f) \in Nat /\ DOMAIN f = 1..Len(f) /\ \A p \in 1..Len(f) : f[p] \in Item
  BY <1>1
<1>3. \A p, q \in 1..Len(f) : p < q => f[p].at > f[q].at
  BY <1>2, ImporterAssumption
<1> QED
  BY <1>2, <1>3 DEF Item, Time

\* The cursor is on a row, or behind the last one.
LEMMA Cursor ==
  ASSUME TypeOK
  PROVE  /\ pos \in Nat /\ from \in 1..pos /\ pos <= Len(file) + 1
         /\ Len(file) \in Nat /\ DOMAIN file = 1..Len(file)
         /\ AtEnd \/ pos \in DOMAIN file
         /\ Group \subseteq from..(pos - 1) /\ from..(pos - 1) \subseteq DOMAIN file
         /\ from > 1 => from - 1 \in DOMAIN file
  BY Rows DEF TypeOK, AtEnd, Group

\* A withdrawal that is found for rows that have none has a row.
LEMMA CandidateMade ==
  ASSUME TypeOK, Candidate # NoWd
  PROVE  Candidate \in made
<1>1. CASE wd # NoWd
  BY <1>1 DEF TypeOK, Candidate
<1>2. CASE wd = NoWd
  <2>1. NextWithdrawals # {} /\ Candidate = Min(NextWithdrawals)
    BY <1>2 DEF Candidate, NextWithdrawal
  <2>2. NextWithdrawals \in SUBSET (1..MaxTime) /\ MaxTime \in Nat
    BY ImporterAssumption DEF TypeOK, Time, NextWithdrawals
  <2>3. Min(NextWithdrawals) \in NextWithdrawals
    <3> DEFINE S == NextWithdrawals
    <3> HIDE DEF S
    <3> QED
      BY <2>1, <2>2, MinIsThere DEF S
  <2> QED
    BY <2>1, <2>3 DEF NextWithdrawals
<1> QED
  BY <1>1, <1>2

\* What the row at the cursor is.
LEMMA RowThere ==
  ASSUME TypeOK, ~AtEnd
  PROVE  /\ Row \in Item /\ Row = file[pos] /\ pos \in 1..Len(file)
         /\ Row.kind \in {"order", "unknown", "withdrawal", "other"}
         /\ Row.order \in Ref /\ Row.type \in AdjType
         /\ Row.amount \in Int /\ Row.after \in Int /\ Row.at \in Time
   BY Cursor, Rows, ImporterAssumption DEF TypeOK, AtEnd, Row, Handled, Time

\* The group, when the cursor moves on.
LEMMA NextGroup ==
  ASSUME TypeOK, ~AtEnd, file' = file, pos' = pos + 1, from' = from
  PROVE  Group' = IF Handled(pos) THEN Group \cup {pos} ELSE Group
  BY Cursor DEF Group, Handled

-----------------------------------------------------------------------------
(* Types.                                                                   *)

\* The steps at a row.
LEMMA TypeRow ==
  ASSUME TypeOK, Shape, SkipRow \/ IncOrder \/ CommitOrder \/ OrderNotFound \/ Unknown \/ UnknownBlocks
  PROVE  TypeOK'
<1>0. ~AtEnd
  BY DEF Shape, SkipRow, IncOrder, CommitOrder, OrderNotFound, Unknown, UnknownBlocks, UnknownRow, Nameless
<1>2. CASE SkipRow
  BY <1>0, <1>2, Cursor, NextGroup DEF TypeOK, SkipRow, NextRow, withdrawals, adjustments, ordervars, group, groupHist, Handled, Row
<1>3. CASE IncOrder
  BY <1>0, <1>3, Cursor, RowThere DEF TypeOK, IncOrder, Inc, adjustments, ordervars, group, Group, Handled
<1>4. CASE CommitOrder
  <2>1. Row.order \in Ref /\ Handled(pos)
    BY <1>0, <1>4, RowThere DEF Shape, CommitOrder, Found, Row
  <2> DEFINE a == <<Row.order, Row.type>>
  <2>2. a \in Adj /\ Row.at \in Time /\ Row.amount \in Int
    BY <1>0, <2>1, RowThere DEF Adj
  <2>3. Group' = Group \cup {pos} /\ pos' \in 1..(Len(file') + 1) /\ from' \in 1..pos' /\ pos' > pos
    BY <1>0, <1>4, <2>1, Cursor, NextGroup DEF CommitOrder, NextRow, AtEnd
  <2>4. adjs' = adjs \cup {a} /\ logged' = logged \cup {a} /\ adjs' \subseteq Adj /\ logged' \subseteq Adj
    BY <1>4, <2>2 DEF TypeOK, CommitOrder, LogAdjustment
  <2>5. log' \in [Adj -> Int] /\ fundAt' \in [Adj -> Time \cup {NoWd}]
    BY <1>4, <2>2 DEF TypeOK, CommitOrder, LogAdjustment
  <2> HIDE DEF a
  <2> QED
    BY <1>4, <2>3, <2>4, <2>5 DEF TypeOK, CommitOrder, NextRow, withdrawals, ordervars, groupHist
<1>5. CASE OrderNotFound
  <2>1. /\ pos' = pos + 1 /\ pc' = "item" /\ missed' = missed \cup {pos}
        /\ UNCHANGED <<made, diff, valid, adjustments, ordervars, group, imports, counted, file>>
    BY <1>5 DEF OrderNotFound, NextRow
  <2>2. Group' = Group \cup {pos}
    BY <1>0, <1>5, <2>1, NextGroup DEF OrderNotFound, group
  <2>3. lost' \subseteq made \X Ref
    BY <1>0, <1>5, RowThere DEF TypeOK, OrderNotFound, AddOrderNotFound
  <2>4. /\ pos' \in 1..(Len(file) + 1) /\ from' \in 1..pos'
        /\ missed' \subseteq Group' /\ counted' \subseteq from'..pos'
    BY <1>0, <2>1, <2>2, Cursor DEF TypeOK, AtEnd, group
  <2> QED
    BY <2>1, <2>3, <2>4 DEF TypeOK, adjustments, ordervars, group
<1>6. CASE Unknown
  <2>1. Handled(pos) /\ Row.amount \in Int
    BY <1>0, <1>6, RowThere DEF Unknown, UnknownRow, Nameless, Row, Handled
  <2>2. /\ pos' = pos + 1 /\ pc' = "item" /\ Group' = Group \cup {pos}
        /\ UNCHANGED <<made, valid, adjustments, ordervars, group, file, imports, missed>>
    BY <1>0, <1>6, <2>1, NextGroup DEF Unknown, NextRow, group
  <2>3. lost' \subseteq made' \X Ref
    BY <1>6, <2>2 DEF TypeOK, Unknown, AddOrderNotFound, Ref
  <2>4. diff' \in [Time -> Int]
    BY <1>6, <2>1 DEF TypeOK, Unknown, Inc
  <2>5. counted' \subseteq from'..pos' /\ pos' \in 1..(Len(file') + 1) /\ from' \in 1..pos'
    <3>1. counted' \subseteq counted \cup {pos}
      BY <1>6 DEF Unknown
    <3>2. from' = from /\ file' = file /\ counted \subseteq from..pos
      BY <2>2 DEF TypeOK, group
    <3> QED
      BY <1>0, <2>2, <3>1, <3>2, Cursor DEF AtEnd
  <2> QED
    BY <2>2, <2>3, <2>4, <2>5 DEF TypeOK, adjustments, ordervars, group
<1>7. CASE UnknownBlocks
  BY <1>7 DEF TypeOK, UnknownBlocks, withdrawals, adjustments, ordervars, group, groupHist, Group, Handled
<1> QED
  BY <1>2, <1>3, <1>4, <1>5, <1>6, <1>7

\* The steps at a withdrawal row, or at the end.
LEMMA TypeCheck ==
  ASSUME TypeOK, Shape, Connected, CheckNothing \/ Check \/ Publish \/ CommitSettle \/ Withdrawal
  PROVE  TypeOK'
<1>1. CASE CheckNothing
  BY <1>1 DEF TypeOK, CheckNothing, withdrawals, adjustments, ordervars, group, groupHist, Group, Handled
<1>2. CASE Check
  <2>1. Candidate \in made /\ Candidate \in Time
    BY <1>2, CandidateMade DEF TypeOK, Check
  <2>2. Sisa \in Int
    BY RowThere DEF Sisa
  <2>3. diff' \in [Time -> Int]
    BY <1>2, <2>1, <2>2 DEF TypeOK, Check, Inc
  <2> QED
    BY <1>2, <2>1, <2>3 DEF TypeOK, Check, adjustments, ordervars, groupHist, Group, Handled, NoWd, Time
<1>3. CASE Publish
  <2>1. CompletedIDs \subseteq Ref
    BY Cursor, Rows DEF CompletedIDs, GroupOrders, Group, Handled, TypeOK
  <2> QED
    BY <1>3, <2>1 DEF TypeOK, Publish, withdrawals, adjustments, group, groupHist, Group, Handled
<1>4. CASE CommitSettle
  <2>1. wd \in made /\ wd \in Time
    BY <1>4 DEF TypeOK, Shape, CommitSettle
  <2>2. valid' \in [Time -> SUBSET logged']
    BY <1>4, <2>1 DEF TypeOK, Connected, CommitSettle, ConnectAdj
  <2>3. fundAt' \in [Adj -> Time \cup {NoWd}]
    BY <1>4, <2>1 DEF TypeOK, CommitSettle, ConnectAdj
  <2>4. /\ orders' \in [Ref -> {"missing", "cancelled", "open", "problem", "completed"}]
        /\ fundedAt' \in [Ref -> made \cup {NoWd}] /\ returns' \subseteq Returned
    BY <1>4, <2>1 DEF TypeOK, CommitSettle, Completed
  <2> QED
    BY <1>4, <2>2, <2>3, <2>4 DEF TypeOK, CommitSettle, group, groupHist, Group, Handled
<1>5. CASE Withdrawal
  <2>1. ~AtEnd /\ Row.at \in Time /\ -Row.amount \in Int
    BY <1>5, RowThere DEF Withdrawal
  <2>2. /\ pos' = pos + 1 /\ from' = pos + 1 /\ file' = file /\ pc' = "item"
        /\ pos' \in 1..(Len(file') + 1) /\ from' \in 1..pos'
    BY <1>5, <2>1, Cursor DEF Withdrawal, NextRow, AtEnd, TypeOK
  <2>3. /\ made \subseteq made' /\ made' \subseteq Time /\ diff' \in [Time -> Int]
        /\ wd' \in made' \cup {NoWd} /\ counting' \in BOOLEAN /\ (counting' => wd' # NoWd)
    <3>1. CASE Row.at < FirstOrder
      BY <1>5, <3>1 DEF TypeOK, Withdrawal
    <3>2. CASE ~(Row.at < FirstOrder)
      <4>1. SetWithdrawal(Row)
        BY <1>5, <3>2 DEF Withdrawal
      <4>2. diff' \in [Time -> Int]
        BY <2>1, <4>1 DEF TypeOK, SetWithdrawal
      <4> QED
        <5>1. /\ made' = made \cup {Row.at} /\ wd' = Row.at
              /\ counting' = (Row.at \notin made \/ diff[Row.at] # 0)
          BY <4>1 DEF SetWithdrawal
        <5>2. Row.at # NoWd /\ counting' \in BOOLEAN
          BY <2>1, <5>1 DEF Time, NoWd
        <5> QED
          BY <2>1, <4>2, <5>1, <5>2 DEF TypeOK
    <3> QED
      BY <3>1, <3>2
  <2>4. fundedAt' \in [Ref -> made' \cup {NoWd}] /\ lost' \subseteq made' \X Ref
    BY <1>5, <2>3 DEF TypeOK, Withdrawal, ordervars
  <2> QED
    BY <1>5, <2>2, <2>3, <2>4 DEF TypeOK, Withdrawal, adjustments, ordervars
<1> QED
  BY <1>1, <1>2, <1>3, <1>4, <1>5

\* Every step keeps the types.
LEMMA TypeStep ==
  ASSUME TypeOK, Shape, Connected, [Next]_vars
  PROVE  TypeOK'
<1>1. CASE Begin
  <2>1. PICK f \in Files : file' = f
    BY <1>1 DEF Begin
  <2>2. Len(f) \in Nat
    BY Rows
  <2>3. pos' \in 1..(Len(file') + 1) /\ from' \in 1..pos'
    BY <1>1, <2>1, <2>2 DEF Begin
  <2>4. imports' \in 0..MaxImport
    BY <1>1, ImporterAssumption DEF TypeOK, Begin
  <2> QED
    BY <1>1, <2>1, <2>3, <2>4 DEF TypeOK, Begin, withdrawals, adjustments, ordervars
<1>2. CASE Finish \/ Abort
  <2>1. /\ file' = <<>> /\ pos' = 1 /\ from' = 1 /\ Len(file') = 0
        /\ UNCHANGED <<made, lost, valid, adjustments, ordervars, imports>>
        /\ pc' = "idle" /\ wd' = NoWd /\ counting' = FALSE /\ adjs' = {}
        /\ missed' = {} /\ counted' = {}
    BY <1>2 DEF Finish, Abort, Discard, withdrawals
  <2>2. diff' \in [Time -> Int]
    <3>1. pc = "blocked" => Row.amount \in Int /\ wd \in Time
      BY RowThere DEF Shape, TypeOK
    <3>2. \/ diff' = diff
          \/ pc = "blocked" /\ diff' = [diff EXCEPT ![wd] = @ + Row.amount]
      BY <1>2 DEF Finish, Abort, Inc, withdrawals
    <3> QED
      BY <3>1, <3>2 DEF TypeOK
  <2>3. /\ file' \in Files \cup {<<>>} /\ pos' \in 1..(Len(file') + 1) /\ from' \in 1..pos'
        /\ missed' \subseteq Group' /\ counted' \subseteq from'..pos'
    BY <2>1
  <2> QED
    BY <2>1, <2>2, <2>3 DEF TypeOK, adjustments, ordervars
<1>3. CASE \E o \in Changing : OrderChanges(o)
  BY <1>3 DEF TypeOK, OrderChanges, withdrawals, adjustments, cursor, group, groupHist, Group, Handled
<1>4. CASE UNCHANGED vars
  BY <1>4 DEF TypeOK, vars, withdrawals, adjustments, ordervars, cursor, group, groupHist, Group, Handled
<1> QED
  BY <1>1, <1>2, <1>3, <1>4, TypeRow, TypeCheck DEF Next, Import

-----------------------------------------------------------------------------
(* Where the import stands.                                                 *)

LEMMA ShapeStep ==
  ASSUME TypeOK, Shape, [Next]_vars
  PROVE  Shape'
<1> USE DEF Shape, AtEnd, Row, Handled
<1>1. CASE Begin
  BY <1>1 DEF Begin
<1>2. CASE SkipRow \/ CommitOrder \/ OrderNotFound \/ Unknown \/ Withdrawal
  <2>1. pc' = "item" /\ file' = file /\ pc # "idle"
    BY <1>2 DEF SkipRow, CommitOrder, OrderNotFound, Unknown, UnknownRow, Nameless, Withdrawal, NextRow
  <2> QED
    BY <2>1
<1>3. CASE IncOrder
  BY <1>3 DEF IncOrder, Found, Nameless, group, ordervars
<1>4. CASE UnknownBlocks
  BY <1>4 DEF UnknownBlocks, UnknownRow, Nameless, group
<1>5. CASE CheckNothing
  BY <1>5 DEF CheckNothing, AtCheck
<1>6. CASE Check
  <2>1. /\ pc' = "settle" /\ wd' # NoWd /\ file' = file /\ pos' = pos /\ from' = from
        /\ Group # {} /\ pc = "item" /\ (~AtEnd => Row.kind = "withdrawal")
    BY <1>6 DEF Check, AtCheck
  <2> QED
    BY <2>1 DEF Group
<1>7. CASE Publish \/ CommitSettle
  <2>1. /\ pc' \in {"commit", "set"} /\ UNCHANGED <<file, pos, wd, from>>
        /\ pc \in {"settle", "commit"}
    BY <1>7 DEF Publish, CommitSettle, group
  <2> QED
    BY <2>1 DEF Group
<1>8. CASE Finish \/ Abort
  BY <1>8 DEF Finish, Abort, Discard
<1>9. CASE \E o \in Changing : OrderChanges(o)
  <2>1. PICK o \in Changing : OrderChanges(o)
    BY <1>9
  <2>2. UNCHANGED <<pc, file, pos, wd, counting, from>>
    BY <2>1 DEF OrderChanges, cursor, group
  <2>3. Found(pos) /\ file[pos].order \in Ref => Found(pos)'
    BY <2>1, <2>2 DEF OrderChanges, Found, Nameless, TypeOK
  <2>4. pc = "log" => file[pos].order \in Ref
    BY RowThere DEF Found
  <2> QED
    BY <2>2, <2>3, <2>4 DEF Group
<1>10. CASE UNCHANGED vars
  BY <1>10 DEF vars, ordervars, cursor, group, Group, Found, Nameless
<1> QED
  BY <1>1, <1>2, <1>3, <1>4, <1>5, <1>6, <1>7, <1>8, <1>9, <1>10 DEF Next, Import

\* The cursor moves past rows that are no withdrawals, and the group's head
\* and what i.wd has to do with it stay.
LEMMA HeadedStep ==
  ASSUME TypeOK, Shape, Headed, [Next]_vars
  PROVE  Headed'
<1> USE DEF Headed, Head1
<1>0. /\ pos \in Nat /\ from \in Nat /\ from >= 1 /\ from <= pos
  BY Cursor
<1>1. CASE Begin
  BY <1>1 DEF Begin, withdrawals
<1>2. CASE SkipRow \/ CommitOrder \/ OrderNotFound \/ Unknown
  <2>1. /\ pc' = "item" /\ pc \in {"item", "log"} /\ file' = file /\ pos' = pos + 1
        /\ UNCHANGED <<wd, counting, from, made>>
    BY <1>2 DEF SkipRow, CommitOrder, OrderNotFound, Unknown, UnknownRow, Nameless, NextRow, group, withdrawals
  <2>2. file[pos].kind # "withdrawal"
    BY <1>2 DEF Shape, SkipRow, CommitOrder, OrderNotFound, Unknown, UnknownRow, Nameless, Handled, Row
  <2>3. \A k \in from'..(pos' - 1) : file'[k].kind # "withdrawal"
    BY <1>0, <2>1, <2>2
  <2> QED
    BY <2>1, <2>3
<1>3. CASE IncOrder \/ UnknownBlocks
  <2>1. /\ pc' \in {"log", "blocked"} /\ pc = "item"
        /\ UNCHANGED <<file, pos, wd, counting, from, made>>
    BY <1>3 DEF IncOrder, UnknownBlocks, UnknownRow, Nameless, group, withdrawals
  <2> QED
    BY <2>1
<1>4. CASE CheckNothing \/ Publish \/ CommitSettle
  <2>1. /\ pc' \in {"commit", "set"}
        /\ UNCHANGED <<file, pos, wd, counting, from, made>>
    BY <1>4 DEF CheckNothing, Publish, CommitSettle, group, withdrawals
  <2> QED
    BY <2>1
<1>5. CASE Check
  <2>1. pc' = "settle" /\ UNCHANGED <<file, pos, counting, from, made>> /\ wd' = Candidate
    BY <1>5 DEF Check
  <2>2. counting => wd # NoWd /\ Candidate = wd
    BY DEF TypeOK, Candidate
  <2> QED
    BY <2>1, <2>2
<1>6. CASE Withdrawal
  <2>1. /\ ~AtEnd /\ file[pos].kind = "withdrawal" /\ pc' = "item" /\ file' = file
        /\ pos' = pos + 1 /\ from' = pos + 1
    BY <1>6 DEF Shape, Withdrawal, NextRow, Row
  <2>2. from' > 1 /\ from' - 1 = pos
    BY <1>0, <2>1
  <2>3. wd' = IF file[pos].at < FirstOrder THEN NoWd ELSE file[pos].at
    BY <1>6 DEF Withdrawal, SetWithdrawal, Row
  <2>4. counting' => wd' = file[pos].at
    BY <1>6, <2>3 DEF Withdrawal, Row
  <2>5. \A w \in made' : w >= FirstOrder
    <3>1. file[pos].at \in Nat /\ FirstOrder \in Nat
      BY <2>1, RowThere, ImporterAssumption DEF Row, Time
    <3> QED
      BY <1>6, <3>1 DEF Withdrawal, SetWithdrawal, Row
  <2>6. \A k \in from'..(pos' - 1) : file'[k].kind # "withdrawal"
    BY <1>0, <2>1
  <2> QED
    BY <2>1, <2>2, <2>3, <2>4, <2>5, <2>6
<1>7. CASE Finish \/ Abort
  BY <1>7 DEF Finish, Abort, Discard, withdrawals
<1>8. CASE (\E o \in Changing : OrderChanges(o)) \/ UNCHANGED vars
  <2>1. UNCHANGED <<pc, file, pos, wd, counting, from, made>>
    BY <1>8 DEF OrderChanges, vars, cursor, group, withdrawals
  <2> QED
    BY <2>1
<1> QED
  BY <1>1, <1>2, <1>3, <1>4, <1>5, <1>6, <1>7, <1>8 DEF Next, Import

-----------------------------------------------------------------------------
(* What the rows of the group leave.                                        *)

\* The steps at a row.
LEMMA ConnectedRow ==
  ASSUME TypeOK, Shape, Connected,
         SkipRow \/ IncOrder \/ CommitOrder \/ OrderNotFound \/ Unknown \/ UnknownBlocks
  PROVE  Connected'
<1> USE DEF Connected
<1>0. pos \notin Group /\ missed \subseteq Group
  BY Cursor DEF TypeOK, Group
<1>1. CASE SkipRow \/ IncOrder \/ UnknownBlocks
  <2>1. Group' = Group
    <3>1. CASE SkipRow
      BY <3>1, NextGroup DEF SkipRow, NextRow, group, Handled, Row
    <3>2. CASE IncOrder \/ UnknownBlocks
      BY <3>2 DEF IncOrder, UnknownBlocks, group, Group, Handled
    <3> QED
      BY <1>1, <3>1, <3>2
  <2>2. UNCHANGED <<file, missed, orders, adjs, logged>>
    BY <1>1 DEF SkipRow, NextRow, IncOrder, UnknownBlocks, adjustments, ordervars, group, groupHist
  <2> QED
    BY <2>1, <2>2 DEF FoundRows, Nameless
<1>2. CASE CommitOrder
  <2>1. ~AtEnd /\ Handled(pos) /\ Found(pos)
    BY <1>2 DEF Shape, CommitOrder
  <2>2. ~Nameless(pos) /\ orders[file[pos].order] \notin {"missing", "cancelled"}
    BY <2>1, RowThere DEF Found, Row, TypeOK
  <2>3. Group' = Group \cup {pos} /\ UNCHANGED <<file, missed, orders>>
    BY <1>2, <2>1, NextGroup DEF CommitOrder, NextRow, ordervars, groupHist
  <2>4. FoundRows' = FoundRows \cup {pos}
    BY <1>0, <2>2, <2>3 DEF FoundRows, Nameless
  <2>5. /\ adjs' = adjs \cup {<<file[pos].order, file[pos].type>>}
        /\ logged' = logged \cup {<<file[pos].order, file[pos].type>>}
    BY <1>2 DEF CommitOrder, LogAdjustment, Row
  <2> QED
    BY <2>2, <2>3, <2>4, <2>5
<1>3. CASE OrderNotFound \/ Unknown
  <2>1. /\ ~AtEnd /\ Handled(pos) /\ UNCHANGED <<file, from, orders, adjs, logged>>
        /\ pos' = pos + 1
        /\ \/ missed' = missed \cup {pos}
           \/ missed' = missed /\ Nameless(pos)
    BY <1>3 DEF OrderNotFound, Unknown, UnknownRow, Nameless, NextRow, adjustments, ordervars, group, Row, Handled
  <2>2. Group' = Group \cup {pos}
    BY <2>1, NextGroup
  <2>3. FoundRows' = FoundRows
    BY <1>0, <2>1, <2>2 DEF FoundRows, Nameless
  <2> QED
    BY <2>1, <2>3
<1> QED
  BY <1>1, <1>2, <1>3

LEMMA ConnectedStep ==
  ASSUME TypeOK, Shape, Connected, [Next]_vars
  PROVE  Connected'
<1> USE DEF Connected
<1>1. CASE CheckNothing \/ Check \/ Publish
  <2>1. UNCHANGED <<file, pos, from, missed, orders, adjs, logged>>
    BY <1>1 DEF CheckNothing, Check, Publish, adjustments, ordervars, group, groupHist
  <2>2. FoundRows' = FoundRows
    BY <2>1 DEF FoundRows, Group, Handled, Nameless
  <2> QED
    BY <2>1, <2>2
<1>2. CASE CommitSettle
  <2>1. UNCHANGED <<file, pos, from, missed, adjs, logged>>
    BY <1>2 DEF CommitSettle, group, groupHist
  <2>2. FoundRows' = FoundRows
    BY <2>1 DEF FoundRows, Group, Handled, Nameless
  <2>3. \A o \in Ref : orders'[o] \in {orders[o], "completed"}
    BY <1>2 DEF CommitSettle, Completed, There
  <2>4. \A p \in FoundRows : file[p].order \in Ref
    BY Cursor, Rows DEF FoundRows, TypeOK
  <2> QED
    BY <2>1, <2>2, <2>3, <2>4
<1>3. CASE Begin \/ Withdrawal \/ Finish \/ Abort
  <2>1. from' = pos' /\ adjs' = {}
    BY <1>3 DEF Begin, Withdrawal, NextRow, Finish, Abort, Discard
  <2>2. pos' \in Int
    BY <1>3, Cursor DEF Begin, Withdrawal, NextRow, Finish, Abort, Discard
  <2>3. FoundRows' = {}
    BY <2>1, <2>2 DEF FoundRows, Group
  <2> QED
    BY <2>1, <2>3
<1>4. CASE \E o \in Changing : OrderChanges(o)
  <2>1. PICK o \in Changing : OrderChanges(o)
    BY <1>4
  <2>2. UNCHANGED <<file, pos, from, missed, adjs, logged>>
    BY <2>1 DEF OrderChanges, adjustments, cursor, group, groupHist
  <2>3. FoundRows' = FoundRows
    BY <2>2 DEF FoundRows, Group, Handled, Nameless
  <2>4. \A q \in Ref : orders[q] \notin {"missing", "cancelled"} => orders'[q] \notin {"missing", "cancelled"}
    BY <2>1 DEF OrderChanges, TypeOK
  <2>5. \A p \in FoundRows : file[p].order \in Ref
    BY Cursor, Rows DEF FoundRows, TypeOK
  <2> QED
    BY <2>2, <2>3, <2>4, <2>5
<1>5. CASE UNCHANGED vars
  <2>1. UNCHANGED <<file, pos, from, missed, orders, adjs, logged>>
    BY <1>5 DEF vars, adjustments, ordervars, cursor, group, groupHist
  <2>2. FoundRows' = FoundRows
    BY <2>1 DEF FoundRows, Group, Handled, Nameless
  <2> QED
    BY <2>1, <2>2
<1> QED
  BY <1>1, <1>2, <1>3, <1>4, <1>5, ConnectedRow DEF Next, Import

\* A group that is settled has left all its traces.
LEMMA GroupSettledStep ==
  ASSUME TypeOK, Shape, Connected, GroupSettled, [Next]_vars
  PROVE  GroupSettled'
<1> DEFINE Traces(p) ==
      LET a == <<file[p].order, file[p].type>> IN
      /\ a \in valid[wd] /\ fundAt[a] = wd
      /\ fundedAt[file[p].order] = wd
      /\ Paid(file[p].order) => orders[file[p].order] # "open"
<1>0. \A p \in FoundRows : file[p].order \in Ref
                          /\ <<file[p].order, file[p].type>> \in Adj
  BY Cursor, Rows DEF FoundRows, TypeOK, Adj
<1>1. CASE CommitSettle
  <2>1. /\ wd \in Time /\ Group # {} /\ UNCHANGED <<file, pos, from, missed, wd, adjs, logged, log>>
    BY <1>1 DEF TypeOK, Shape, CommitSettle, group, groupHist
  <2>2. FoundRows' = FoundRows
    BY <2>1 DEF FoundRows, Group, Handled, Nameless
  <2>3. ASSUME NEW p \in FoundRows PROVE Traces(p)'
    <3> DEFINE o == file[p].order
               a == <<file[p].order, file[p].type>>
    <3>1. a \in adjs /\ adjs # {} /\ o \in Ref /\ a \in Adj
      BY <1>0 DEF Connected
    <3>2. a \in valid'[wd] /\ fundAt'[a] = wd
      BY <1>1, <2>1, <3>1 DEF CommitSettle, ConnectAdj, TypeOK
    <3>3. o \in GroupOrders /\ orders[o] \notin {"missing", "cancelled"}
      BY <3>1 DEF GroupOrders, FoundRows, Connected
    <3>4. fundedAt'[o] = wd
      BY <1>1, <3>1, <3>3 DEF CommitSettle, Completed, There
    <3>5. Paid(o)' => orders'[o] # "open"
      BY <1>1, <2>1, <3>1, <3>3 DEF CommitSettle, Completed, There, CompletedIDs, Paid
    <3> QED
      BY <2>1, <3>2, <3>4, <3>5
  <2>4. adjs' # {} => valid'[wd'] = {<<file[p].order, file[p].type>> : p \in FoundRows}'
    BY <1>1, <2>1, <2>2 DEF CommitSettle, ConnectAdj, TypeOK, Connected
  <2> HIDE DEF Traces
  <2> QED
    BY <2>2, <2>3, <2>4 DEF GroupSettled, Traces, FoundRows
<1>2. CASE CheckNothing
  <2>1. Group # {} => wd = NoWd
    BY <1>2 DEF CheckNothing, Candidate
  <2>2. Group' = Group /\ wd' = wd
    BY <1>2 DEF CheckNothing, group, Group, Handled
  <2> QED
    BY <2>1, <2>2 DEF GroupSettled
<1>3. CASE \E o \in Changing : OrderChanges(o)
  <2>1. PICK o \in Changing : OrderChanges(o)
    BY <1>3
  <2>2. UNCHANGED <<pc, file, pos, from, wd, missed, valid, fundAt, fundedAt, adjs, logged, log>>
    BY <2>1 DEF OrderChanges, withdrawals, adjustments, cursor, group, groupHist
  <2>3. FoundRows' = FoundRows /\ Group' = Group
    BY <2>2 DEF FoundRows, Group, Handled, Nameless
  <2>4. ASSUME NEW p \in FoundRows, Traces(p) PROVE Traces(p)'
    <3>1. orders'[file[p].order] \in {orders[file[p].order], "problem"}
      BY <1>0, <2>1 DEF OrderChanges, Connected, TypeOK
    <3> QED
      BY <2>2, <2>4, <3>1 DEF Paid
  <2>5. (pc = "set" /\ wd # NoWd /\ Group # {}) =>
            /\ \A p \in FoundRows : Traces(p)
            /\ adjs # {} => valid[wd] = {<<file[p].order, file[p].type>> : p \in FoundRows}
    BY DEF GroupSettled, FoundRows
  <2>6. (pc' = "set" /\ wd' # NoWd /\ Group' # {}) =>
            /\ \A p \in FoundRows : Traces(p)'
            /\ adjs' # {} => valid'[wd'] = {<<file'[p].order, file'[p].type>> : p \in FoundRows'}
    <3> HIDE DEF Traces
    <3> QED
      BY <2>2, <2>3, <2>4, <2>5
  <2> QED
    BY <2>3, <2>6 DEF GroupSettled, FoundRows
<1>4. CASE UNCHANGED vars
  BY <1>4 DEF vars, withdrawals, adjustments, ordervars, cursor, group, groupHist, GroupSettled,
              Group, Handled, Nameless, Paid
<1>5. CASE SkipRow \/ IncOrder \/ CommitOrder \/ OrderNotFound \/ Unknown \/ UnknownBlocks
           \/ Begin \/ Check \/ Publish \/ Withdrawal \/ Finish \/ Abort
  <2>1. pc' # "set"
    BY <1>5 DEF SkipRow, IncOrder, CommitOrder, OrderNotFound, Unknown, UnknownBlocks, NextRow,
                Begin, Check, Publish, Withdrawal, Finish, Abort, Discard
  <2> QED
    BY <2>1 DEF GroupSettled
<1> QED
  BY <1>1, <1>2, <1>3, <1>4, <1>5 DEF Next, Import

\* What is listed as lost is listed under the withdrawal that heads it.
LEMMA LostListedStep ==
  ASSUME TypeOK, Shape, Headed, LostListed, [Next]_vars
  PROVE  LostListed'
<1> DEFINE Named(w, o) ==
      \E f \in Files : \E p, q \in DOMAIN f :
          p < q /\ f[p].kind = "withdrawal" /\ f[p].at = w /\ f[q].order = o
          /\ \A k \in (p + 1)..q : f[k].kind # "withdrawal"
<1>0. \A l \in lost : Named(l[1], l[2])
  BY DEF LostListed
<1>1. CASE OrderNotFound \/ Unknown
  <2>1. /\ ~AtEnd /\ Handled(pos) /\ pc = "item" /\ file \in Files
        /\ UNCHANGED <<file, wd, counting>>
        /\ lost' = lost \/ AddOrderNotFound(Row.order)
    BY <1>1 DEF OrderNotFound, Unknown, UnknownRow, Nameless, Shape, NextRow, group, Handled, Row
  <2>2. ASSUME wd # NoWd PROVE Named(wd, Row.order)
    <3>1. from > 1 /\ wd = Head1.at /\ Head1.kind = "withdrawal"
      BY <2>1, <2>2, Cursor DEF Headed
    <3>2. /\ pos \in DOMAIN file /\ from - 1 \in DOMAIN file /\ from - 1 < pos
          /\ \A k \in from..pos : file[k].kind # "withdrawal"
      BY <2>1, <3>1, Cursor DEF Headed, Handled
    <3>3. (from - 1) + 1 = from
      BY Cursor
    <3> QED
      BY <2>1, <3>1, <3>2, <3>3 DEF Head1, Row
  <2>3. \A l \in lost' : Named(l[1], l[2])
    <3> HIDE DEF Named
    <3> QED
      BY <1>0, <2>1, <2>2 DEF AddOrderNotFound
  <2>4. counting => \A p \in missed' : \E l \in lost' :
            l[1] = wd /\ (l[2] = file[p].order \/ file[p].order = NoOrder)
    <3>1. lost \subseteq lost'
      BY <2>1 DEF AddOrderNotFound
    <3>2. CASE OrderNotFound
      <4>1. missed' = missed \cup {pos} /\ AddOrderNotFound(Row.order)
        BY <3>2 DEF OrderNotFound
      <4>2. CASE HasLost(wd, Row.order)
        <5>1. \E l \in lost' : l[1] = wd /\ (l[2] = Row.order \/ Row.order = NoOrder)
          BY <3>1, <4>2 DEF HasLost
        <5> QED
          BY <3>1, <4>1, <5>1 DEF LostListed, Row
      <4>3. CASE ~HasLost(wd, Row.order)
        <5>1. counting => <<wd, Row.order>> \in lost'
          BY <4>1, <4>3 DEF AddOrderNotFound, TypeOK
        <5>2. counting => \E l \in lost' : l[1] = wd /\ (l[2] = Row.order \/ Row.order = NoOrder)
          BY <5>1
        <5> QED
          BY <3>1, <4>1, <5>2 DEF LostListed, Row
      <4> QED
        BY <4>2, <4>3
    <3>3. CASE Unknown
      BY <3>1, <3>3 DEF Unknown, LostListed
    <3> QED
      BY <1>1, <3>2, <3>3
  <2> QED
    BY <2>1, <2>3, <2>4 DEF LostListed
<1>2. CASE Begin \/ Withdrawal \/ Finish \/ Abort
  BY <1>2 DEF Begin, Withdrawal, Finish, Abort, Discard, withdrawals, LostListed
<1>3. CASE Check
  <2>1. counting => Candidate = wd
    BY DEF TypeOK, Candidate
  <2> QED
    BY <1>3, <2>1 DEF Check, LostListed, groupHist
<1>4. CASE SkipRow \/ IncOrder \/ CommitOrder \/ UnknownBlocks \/ CheckNothing \/ Publish
           \/ CommitSettle \/ (\E o \in Changing : OrderChanges(o)) \/ UNCHANGED vars
  <2>1. UNCHANGED <<file, lost, wd, counting, missed>>
    BY <1>4 DEF SkipRow, IncOrder, CommitOrder, UnknownBlocks, CheckNothing, Publish, CommitSettle,
                OrderChanges, NextRow, vars, withdrawals, cursor, group, groupHist
  <2> QED
    BY <2>1 DEF LostListed
<1> QED
  BY <1>1, <1>2, <1>3, <1>4 DEF Next, Import

-----------------------------------------------------------------------------
(* The money.                                                               *)

\* Sums over rows of the statement.
LEMMA SumOfRows ==
  ASSUME TypeOK, NEW S \in SUBSET DOMAIN file
  PROVE  /\ IsFiniteSet(S) /\ Sum(S) \in Int /\ Sum({}) = 0
         /\ \A x \in DOMAIN file :
               /\ file[x].amount \in Int
               /\ x \notin S => Sum(S \cup {x}) = Sum(S) + file[x].amount
<1> DEFINE D == DOMAIN file
           w == Amounts
<1>1. /\ w \in [D -> Int] /\ \A x \in D : w[x] = file[x].amount /\ file[x].amount \in Int
  BY Rows DEF TypeOK, Amounts
<1>2. IsFiniteSet(D)
  <2>1. D = 1..Len(file) /\ Len(file) \in Int
    BY Cursor
  <2> QED
    BY <2>1, FS_Interval
<1>3. IsFiniteSet(S)
  BY <1>2, FS_Subset
<1> HIDE DEF w
<1>4. SumFunctionOnSet(w, S) \in Int /\ SumFunctionOnSet(w, {}) = 0
  BY <1>1, <1>3, SumSteps, FS_EmptySet
<1>5. \A x \in D : x \notin S => SumFunctionOnSet(w, S \cup {x}) = SumFunctionOnSet(w, S) + w[x]
  BY <1>1, <1>3, SumAdds
<1> QED
  BY <1>1, <1>3, <1>4, <1>5 DEF Sum, w

\* The balance the older row left, as the cursor moves on.
LEMMA LedgerStep ==
  ASSUME TypeOK, Shape, Headed, Ledger, [Next]_vars
  PROVE  Ledger'
<1> USE DEF Ledger, AtEnd, Row
<1>1. CASE SkipRow \/ CommitOrder \/ OrderNotFound \/ Unknown
  <2>1. /\ ~AtEnd /\ file \in Files /\ file[pos].kind # "withdrawal"
        /\ UNCHANGED <<file, from>> /\ pos' = pos + 1
    BY <1>1 DEF Shape, SkipRow, CommitOrder, OrderNotFound, Unknown, UnknownRow, Nameless, NextRow, Handled, group
  <2>2. SUFFICES ASSUME from > 1, pos + 1 <= Len(file)
                 PROVE  file[from].after = Sum(from..pos) + file[pos + 1].after
    <3>1. Sum(from..(pos - 1))' = Sum(from..pos)
      <4>1. from'..(pos' - 1) = from..pos
        BY <2>1, Cursor
      <4> QED
        BY <2>1, <4>1 DEF Sum, Amounts
    <3>2. Len(file) \in Nat /\ pos \in Nat
      BY Cursor
    <3> QED
      BY <2>1, <3>1, <3>2
  <2>3. file[pos].after = file[pos + 1].after + file[pos].amount
    <3>1. pos \in 1..(Len(file) - 1)
      BY <2>2, Cursor
    <3> QED
      BY <2>1, <3>1, LedgerAssumption
  <2>4. /\ Sum(from..(pos - 1)) \in Int /\ file[pos].amount \in Int
        /\ Sum((from..(pos - 1)) \cup {pos}) = Sum(from..(pos - 1)) + file[pos].amount
    <3>1. from..(pos - 1) \subseteq DOMAIN file /\ pos \in DOMAIN file /\ pos \notin from..(pos - 1)
      BY <2>1, Cursor
    <3> QED
      BY <3>1, SumOfRows
  <2>5. (from..(pos - 1)) \cup {pos} = from..pos
    BY Cursor
  <2>6. file[pos].after \in Int /\ file[pos + 1].after \in Int
    BY <2>1, <2>2, Cursor, Rows
  <2>7. Sum(from..pos) = Sum(from..(pos - 1)) + file[pos].amount
    BY <2>4, <2>5
  <2>8. file[from].after = Sum(from..(pos - 1)) + file[pos].after
    BY <2>1, <2>2
  <2> QED
    BY <2>3, <2>4, <2>6, <2>7, <2>8
<1>2. CASE Withdrawal
  <2>1. ~AtEnd /\ file' = file /\ from' = pos + 1 /\ pos' = pos + 1
    BY <1>2 DEF Withdrawal, NextRow
  <2>2. Sum(from..(pos - 1))' = 0
    <3>1. from'..(pos' - 1) = {}
      BY <2>1, Cursor
    <3>2. Sum({}) = 0
      BY SumOfRows
    <3> QED
      BY <2>1, <3>1, <3>2 DEF Sum, Amounts
  <2>3. SUFFICES ASSUME pos + 1 <= Len(file) PROVE file[pos + 1].after = 0 + file[pos + 1].after
    <3>1. Len(file) \in Nat /\ pos \in Nat
      BY Cursor
    <3> QED
      BY <2>1, <2>2, <3>1
  <2>4. file[pos + 1].after \in Int
    BY <2>1, <2>3, Cursor, Rows DEF TypeOK
  <2> QED
    BY <2>4
<1>3. CASE Begin \/ Finish \/ Abort
  BY <1>3 DEF Begin, Finish, Abort, Discard
<1>4. CASE IncOrder \/ UnknownBlocks \/ CheckNothing \/ Check \/ Publish \/ CommitSettle
           \/ (\E o \in Changing : OrderChanges(o)) \/ UNCHANGED vars
  <2>1. UNCHANGED <<file, pos, from>>
    BY <1>4 DEF IncOrder, UnknownBlocks, CheckNothing, Check, Publish, CommitSettle, OrderChanges,
                vars, cursor, group
  <2> QED
    BY <2>1 DEF Sum, Amounts
<1> QED
  BY <1>1, <1>2, <1>3, <1>4 DEF Next, Import

\* A withdrawal that is counted has counted its group's rows, but the missed ones.
LEMMA DiffStep ==
  ASSUME TypeOK, Shape, Headed, DiffTracksStatement, [Next]_vars
  PROVE  DiffTracksStatement'
<1> USE DEF AtEnd, Row
<1> DEFINE Rest(last) == {p \in from..last : Handled(p) /\ p \notin missed}
<1>0. counting => wd \in Time
  BY DEF TypeOK
<1>1. CASE SkipRow
  <2>1. /\ pc = "item" /\ pc' = "item" /\ ~AtEnd /\ ~Handled(pos) /\ pos' = pos + 1
        /\ UNCHANGED <<file, from, wd, counting, diff, missed, counted>>
    BY <1>1 DEF SkipRow, NextRow, Handled, group, groupHist, withdrawals
  <2>2. Rest(pos) = Rest(pos - 1)
    BY <2>1, Cursor
  <2>3. pos' - 1 = pos
    BY <2>1, Cursor
  <2>4. Sum(counted)' = Sum(counted) /\ Head1' = Head1
    BY <2>1 DEF Sum, Amounts, Head1
  <2> QED
    BY <2>1, <2>2, <2>3, <2>4 DEF DiffTracksStatement, Handled
<1>2. CASE IncOrder \/ Unknown
  <2>1. SUFFICES ASSUME counting' PROVE DiffTracksStatement'
    BY DEF DiffTracksStatement
  <2>2. /\ pc = "item" /\ ~AtEnd /\ Handled(pos) /\ counting
        /\ UNCHANGED <<file, from, wd, counting, missed>>
        /\ counted' = counted \cup {pos} /\ diff' = [diff EXCEPT ![wd] = @ + file[pos].amount]
    BY <1>2, <2>1 DEF IncOrder, Unknown, UnknownRow, Nameless, NextRow, Inc, Handled, group
  <2>3. /\ diff[wd] = Sum(counted) - Head1.amount /\ counted = Rest(pos - 1)
        /\ missed \subseteq from..(pos - 1)
    BY <2>2, Cursor DEF DiffTracksStatement, TypeOK
  <2>4. /\ pos \in DOMAIN file /\ counted \subseteq DOMAIN file /\ pos \notin counted
        /\ from <= pos /\ pos \in Int
    BY <2>2, <2>3, Cursor
  <2>5. Sum(counted \cup {pos}) = Sum(counted) + file[pos].amount
    BY <2>4, SumOfRows
  <2>6. Head1.amount \in Int /\ file[pos].amount \in Int /\ Sum(counted) \in Int
    BY <2>2, <2>4, Cursor, SumOfRows DEF Headed, Head1
  <2>7. diff'[wd] = Sum(counted \cup {pos}) - Head1.amount
    BY <1>0, <2>2, <2>3, <2>5, <2>6 DEF TypeOK
  <2>8. Sum(counted)' = Sum(counted \cup {pos}) /\ Head1' = Head1
    BY <2>2 DEF Sum, Amounts, Head1
  <2>9. counted' = Rest(pos)
    BY <2>2, <2>3, <2>4, Cursor
  <2>10. (IF pc' = "log" THEN pos' ELSE pos' - 1) = pos
    BY <1>2, <2>4 DEF IncOrder, Unknown, NextRow
  <2> QED
    BY <2>2, <2>7, <2>8, <2>9, <2>10 DEF DiffTracksStatement, Handled
<1>3. CASE CommitOrder
  <2>1. SUFFICES ASSUME counting' PROVE DiffTracksStatement'
    BY DEF DiffTracksStatement
  <2>2. /\ pc = "log" /\ pc' = "item" /\ counting /\ pos' = pos + 1
        /\ UNCHANGED <<file, from, wd, counting, diff, missed, counted>>
    BY <1>3, <2>1 DEF CommitOrder, NextRow, groupHist, withdrawals
  <2>3. pos' - 1 = pos
    BY <2>2, Cursor
  <2>4. Sum(counted)' = Sum(counted) /\ Head1' = Head1
    BY <2>2 DEF Sum, Amounts, Head1
  <2> QED
    BY <2>2, <2>3, <2>4 DEF DiffTracksStatement, Handled
<1>4. CASE OrderNotFound
  <2>1. /\ pc = "item" /\ pc' = "item" /\ ~AtEnd /\ pos' = pos + 1 /\ missed' = missed \cup {pos}
        /\ UNCHANGED <<file, from, wd, counting, diff, counted>>
    BY <1>4 DEF OrderNotFound, NextRow, group
  <2>2. Rest(pos - 1) = {p \in from..pos : Handled(p) /\ p \notin missed \cup {pos}}
    BY Cursor
  <2>3. pos' - 1 = pos
    BY <2>1, Cursor
  <2>4. Sum(counted)' = Sum(counted) /\ Head1' = Head1
    BY <2>1 DEF Sum, Amounts, Head1
  <2> QED
    BY <2>1, <2>2, <2>3, <2>4 DEF DiffTracksStatement, Handled
<1>5. CASE Withdrawal
  <2>1. SUFFICES ASSUME counting' PROVE DiffTracksStatement'
    BY DEF DiffTracksStatement
  <2>2. /\ ~AtEnd /\ pc' = "item" /\ file' = file /\ pos' = pos + 1 /\ from' = pos + 1
        /\ counted' = {} /\ SetWithdrawal(file[pos]) /\ ~(file[pos].at < FirstOrder)
    BY <1>5, <2>1 DEF Withdrawal, NextRow
  <2>3. wd' = file[pos].at /\ file[pos].at \in Time /\ file[pos].amount \in Int
    BY <2>2, RowThere DEF SetWithdrawal
  <2>4. diff'[wd'] = -file[pos].amount
    BY <2>1, <2>2, <2>3 DEF SetWithdrawal, TypeOK
  <2>5. Sum(counted)' = 0
    <3>1. Sum({}) = 0
      BY SumOfRows
    <3> QED
      BY <2>2, <3>1 DEF Sum, Amounts
  <2>6. Head1' = file[pos] /\ from'..(pos' - 1) = {}
    BY <2>2, Cursor DEF Head1
  <2> QED
    BY <2>2, <2>3, <2>4, <2>5, <2>6 DEF DiffTracksStatement
<1>6. CASE Begin \/ UnknownBlocks \/ CheckNothing \/ Check \/ Publish \/ CommitSettle \/ Finish \/ Abort
  <2>1. counting' = FALSE \/ pc' \notin {"item", "log"}
    BY <1>6 DEF Begin, UnknownBlocks, CheckNothing, Check, Publish, CommitSettle, Finish, Abort, Discard
  <2> QED
    BY <2>1 DEF DiffTracksStatement
<1>7. CASE (\E o \in Changing : OrderChanges(o)) \/ UNCHANGED vars
  <2>1. UNCHANGED <<pc, file, pos, from, wd, counting, diff, missed, counted>>
    BY <1>7 DEF OrderChanges, vars, withdrawals, cursor, group, groupHist
  <2> QED
    BY <2>1 DEF DiffTracksStatement, Sum, Amounts, Head1, Handled
<1> QED
  BY <1>1, <1>2, <1>3, <1>4, <1>5, <1>6, <1>7 DEF Next, Import

\* What a withdrawal is short of when its group is complete.
LEMMA BalancedStep ==
  ASSUME TypeOK, Shape, Headed, Ledger, DiffTracksStatement, Balanced, [Next]_vars
  PROVE  Balanced'
<1> USE DEF AtEnd, Row
<1> DEFINE Others == {p \in from..(pos - 1) : ~Handled(p)}
<1>1. CASE Check
  <2>1. SUFFICES ASSUME counting, ~AtEnd
                 PROVE  diff'[wd] = Head1.after - Sum(missed) - Sum(Others)
    <3>1. UNCHANGED <<file, pos, from, counting, missed>> /\ (counting => wd' = wd)
      BY <1>1 DEF Check, Candidate, groupHist, TypeOK
    <3>2. Sum(missed)' = Sum(missed) /\ Sum({p \in from..(pos - 1) : ~Handled(p)})' = Sum(Others) /\ Head1' = Head1
      BY <3>1 DEF Sum, Amounts, Head1, Handled
    <3> QED
      BY <3>1, <3>2 DEF Balanced
  <2>2. /\ pc = "item" /\ wd \in Time /\ from > 1 /\ file \in Files
        /\ diff' = [diff EXCEPT ![wd] = @ + file[pos].after]
    BY <1>1, <2>1 DEF Check, AtCheck, Candidate, Sisa, Inc, TypeOK, Headed, Shape
  <2>3. diff[wd] = Sum(counted) - Head1.amount /\ counted = {p \in from..(pos - 1) : Handled(p) /\ p \notin missed}
    BY <2>1, <2>2 DEF DiffTracksStatement
  <2>4. file[from].after = Sum(from..(pos - 1)) + file[pos].after
    BY <2>1, <2>2 DEF Ledger
  <2>5. Head1.after = file[from].after - Head1.amount
    <3>1. from - 1 \in 1..(Len(file) - 1) /\ (from - 1) + 1 = from
      BY <2>1, <2>2, Cursor
    <3> QED
      BY <2>2, <3>1, LedgerAssumption, Cursor, Rows DEF Headed, Head1
  <2>6. /\ counted \cup missed \cup Others = from..(pos - 1)
        /\ counted \cap missed = {} /\ (counted \cup missed) \cap Others = {}
    <3>1. missed \subseteq {p \in from..(pos - 1) : Handled(p)}
      BY DEF TypeOK, Group
    <3> QED
      BY <2>3, <3>1
  <2>7. Sum(from..(pos - 1)) = Sum(counted) + Sum(missed) + Sum(Others)
    <3> DEFINE D == DOMAIN file
               w == Amounts
               L == Others
    <3>1. w \in [D -> Int]
      BY Rows DEF TypeOK, Amounts
    <3>2. from..(pos - 1) \subseteq D
      BY Cursor
    <3>3. /\ counted \in SUBSET D /\ missed \in SUBSET D /\ L \in SUBSET D
          /\ counted \cup missed \in SUBSET D
      BY <2>6, <3>2
    <3>4. /\ IsFiniteSet(counted) /\ IsFiniteSet(missed) /\ IsFiniteSet(L)
          /\ IsFiniteSet(counted \cup missed)
      BY <3>3, SumOfRows
    <3> HIDE DEF L, w
    <3>5. SumFunctionOnSet(w, counted \cup missed) = SumFunctionOnSet(w, counted) + SumFunctionOnSet(w, missed)
      BY <2>6, <3>1, <3>3, <3>4, SumOfUnion
    <3>6. (counted \cup missed) \cap L = {}
      BY <2>6 DEF L
    <3>7. SumFunctionOnSet(w, (counted \cup missed) \cup L)
          = SumFunctionOnSet(w, counted \cup missed) + SumFunctionOnSet(w, L)
      BY <3>1, <3>3, <3>4, <3>6, SumOfUnion
    <3>8. (counted \cup missed) \cup L = from..(pos - 1)
      BY <2>6 DEF L
    <3> QED
      BY <3>5, <3>7, <3>8 DEF Sum, w, L
  <2>8. /\ Sum(counted) \in Int /\ Sum(missed) \in Int /\ Sum(Others) \in Int
        /\ Sum(from..(pos - 1)) \in Int
    <3>1. /\ counted \subseteq DOMAIN file /\ missed \subseteq DOMAIN file
          /\ Others \subseteq DOMAIN file /\ from..(pos - 1) \subseteq DOMAIN file
      BY <2>6, Cursor
    <3> QED
      BY <3>1, SumOfRows
  <2>9. /\ file[pos].after \in Int /\ file[from].after \in Int
        /\ Head1.after \in Int /\ Head1.amount \in Int /\ diff[wd] \in Int
    BY <2>1, <2>2, Cursor, Rows DEF Head1, TypeOK
  <2>10. diff'[wd] = diff[wd] + file[pos].after
    BY <2>2 DEF TypeOK
  <2> DEFINE all == Sum(from..(pos - 1))
             c == Sum(counted)
             m == Sum(missed)
             o == Sum(Others)
             before == diff[wd]
             left == file[pos].after
             first == file[from].after
  <2>11. /\ c \in Int /\ m \in Int /\ o \in Int /\ all \in Int
         /\ before \in Int /\ left \in Int /\ first \in Int
         /\ Head1.after \in Int /\ Head1.amount \in Int
    BY <2>8, <2>9
  <2>12. /\ before = c - Head1.amount /\ first = all + left
         /\ Head1.after = first - Head1.amount /\ all = c + m + o
         /\ diff'[wd] = before + left
    BY <2>3, <2>4, <2>5, <2>7, <2>10
  <2>13. diff'[wd] = Head1.after - m - o
    <3> HIDE DEF all, c, m, o, before, left, first
    <3> QED
      BY <2>11, <2>12
  <2> QED
    BY <2>13
<1>2. CASE (\E o \in Changing : OrderChanges(o)) \/ UNCHANGED vars
  <2>1. UNCHANGED <<pc, file, pos, from, wd, counting, diff, missed>>
    BY <1>2 DEF OrderChanges, vars, withdrawals, cursor, group, groupHist
  <2> QED
    BY <2>1 DEF Balanced, Sum, Amounts, Head1, Handled
<1>3. CASE Begin \/ SkipRow \/ IncOrder \/ CommitOrder \/ OrderNotFound \/ Unknown \/ UnknownBlocks
           \/ CheckNothing \/ Publish \/ CommitSettle \/ Withdrawal \/ Finish \/ Abort
  <2>1. pc' # "settle"
    BY <1>3 DEF Begin, SkipRow, IncOrder, CommitOrder, OrderNotFound, Unknown, UnknownBlocks, NextRow,
                CheckNothing, Publish, CommitSettle, Withdrawal, Finish, Abort, Discard
  <2> QED
    BY <2>1 DEF Balanced
<1> QED
  BY <1>1, <1>2, <1>3 DEF Next, Import

\* A withdrawal that is not counted keeps its difference, but for the balance.
LEMMA SettledAgainStep ==
  ASSUME TypeOK, Shape, Headed, SettledAgain, [Next]_vars
  PROVE  SettledAgain'
<1> USE DEF SettledAgain, Head1
<1>1. CASE SkipRow \/ CommitOrder \/ OrderNotFound \/ Unknown
  <2>1. /\ pc \in {"item", "log"} /\ pc' = "item"
        /\ UNCHANGED <<file, from, wd, counting>> /\ (~counting => diff' = diff)
    BY <1>1 DEF SkipRow, CommitOrder, OrderNotFound, Unknown, UnknownRow, Nameless, NextRow, group, withdrawals
  <2> QED
    BY <2>1
<1>2. CASE IncOrder \/ UnknownBlocks
  BY <1>2 DEF IncOrder, UnknownBlocks, group
<1>3. CASE CheckNothing
  <2>1. Group # {} => wd = NoWd
    BY <1>3 DEF CheckNothing, Candidate
  <2>2. pc = "item" /\ UNCHANGED <<file, pos, from, wd, counting, diff>>
    BY <1>3 DEF CheckNothing, AtCheck, group, withdrawals
  <2>3. from > 1 => Head1.at # NoWd
    BY Cursor, Rows DEF TypeOK, NoWd
  <2>4. Group' = Group
    BY <2>2 DEF Group, Handled
  <2> QED
    BY <2>1, <2>2, <2>3, <2>4
<1>4. CASE Check
  <2>1. /\ pc = "item" /\ pc' = "settle" /\ Group # {} /\ wd' = Candidate /\ Candidate \in made
        /\ diff' = [diff EXCEPT ![Candidate] = @ + Sisa]
        /\ UNCHANGED <<file, pos, from, counting>>
    BY <1>4, CandidateMade DEF Check, AtCheck, Inc
  <2>2. SUFFICES ASSUME from > 1, wd' = Head1.at, ~counting PROVE diff'[wd'] = Sisa
    <3>1. Sisa' = Sisa /\ Group' = Group /\ Head1' = Head1
      BY <2>1 DEF Sisa, AtEnd, Row, Group, Handled
    <3> QED
      BY <2>1, <3>1
  <2>3. wd = Head1.at
    <3>1. ~(Head1.at < FirstOrder)
      <4>1. Head1.at \in Int /\ FirstOrder \in Int
        BY <2>2, Cursor, Rows, ImporterAssumption DEF TypeOK
      <4> QED
        BY <2>1, <2>2, <4>1 DEF Headed
    <3> QED
      BY <2>1, <2>2, <3>1 DEF Headed
  <2>4. wd # NoWd
    BY <2>2, <2>3, Cursor, Rows DEF TypeOK, NoWd
  <2>5. Candidate = wd /\ diff[wd] = 0
    BY <2>1, <2>2, <2>3, <2>4 DEF Candidate
  <2>6. wd \in Time /\ Sisa \in Int
    BY <2>1, <2>5, RowThere DEF Sisa, TypeOK
  <2> QED
    BY <2>1, <2>5, <2>6 DEF TypeOK
<1>5. CASE Publish \/ CommitSettle \/ (\E o \in Changing : OrderChanges(o)) \/ UNCHANGED vars
  <2>1. /\ UNCHANGED <<file, pos, from, wd, counting, diff>>
        /\ \/ pc' = pc
           \/ {pc, pc'} \subseteq {"settle", "commit", "set"}
    BY <1>5 DEF Publish, CommitSettle, OrderChanges, vars, withdrawals, cursor, group
  <2>2. Sisa' = Sisa /\ Group' = Group
    BY <2>1 DEF Sisa, AtEnd, Row, Group, Handled
  <2> QED
    BY <2>1, <2>2
<1>6. CASE Withdrawal
  <2>1. /\ ~AtEnd /\ pc' = "item" /\ file' = file /\ from' = pos + 1 /\ Row = file[pos]
    BY <1>6 DEF Withdrawal, NextRow, Row
  <2>2. Head1' = file[pos] /\ file[pos].at # NoWd
    <3>1. pos \in 1..Len(file) /\ file \in Files \cup {<<>>} /\ (pos + 1) - 1 = pos
      BY <2>1, RowThere DEF TypeOK
    <3>2. file[pos].at \in 1..MaxTime
      BY <3>1, Rows
    <3> QED
      BY <2>1, <3>1, <3>2 DEF NoWd
  <2>3. SUFFICES ASSUME wd' = file[pos].at, ~counting' PROVE diff'[wd'] = 0
    BY <2>1, <2>2
  <2>4. SetWithdrawal(file[pos])
    BY <1>6, <2>1, <2>2, <2>3 DEF Withdrawal
  <2> QED
    BY <2>3, <2>4 DEF SetWithdrawal
<1>7. CASE Begin \/ Finish \/ Abort
  BY <1>7 DEF Begin, Finish, Abort, Discard
<1> QED
  BY <1>1, <1>2, <1>3, <1>4, <1>5, <1>6, <1>7 DEF Next, Import

-----------------------------------------------------------------------------
(* The theorems.                                                            *)

\* The state the service starts in.
LEMMA InitIInv == Init => IInv
<1> SUFFICES ASSUME Init PROVE IInv
  OBVIOUS
<1> USE DEF Init
<1>1. TypeOK
  <2>1. orders \in [Ref -> {"missing", "cancelled", "open", "problem", "completed"}]
    OBVIOUS
  <2>2. /\ diff \in [Time -> Int] /\ valid \in [Time -> SUBSET logged]
        /\ log \in [Adj -> Int] /\ fundAt \in [Adj -> Time \cup {NoWd}]
        /\ fundedAt \in [Ref -> made \cup {NoWd}]
    OBVIOUS
  <2>3. file \in Files \cup {<<>>} /\ pos \in 1..(Len(file) + 1) /\ from \in 1..pos
    OBVIOUS
  <2>4. imports \in 0..MaxImport
    BY ImporterAssumption
  <2> QED
    BY <2>1, <2>2, <2>3, <2>4 DEF TypeOK
<1>2. Shape /\ Headed /\ Ledger
  BY DEF Shape, Headed, Ledger
<1>3. Connected
  BY DEF Connected, FoundRows, Group
<1>4. DiffTracksStatement /\ Balanced /\ GroupSettled /\ LostListed /\ SettledAgain
  BY DEF DiffTracksStatement, Balanced, GroupSettled, LostListed, SettledAgain
<1> QED
  BY <1>1, <1>2, <1>3, <1>4 DEF IInv

\* The invariant is inductive.
LEMMA Inductive == IInv /\ [Next]_vars => IInv'
  BY TypeStep, ShapeStep, HeadedStep, ConnectedStep, LedgerStep, DiffStep, BalancedStep,
     GroupSettledStep, LostListedStep, SettledAgainStep DEF IInv

LEMMA Invariance == Spec => []IInv
  BY InitIInv, Inductive, PTL DEF Spec

\* The tables and the import keep their types: a withdrawal that a row is added
\* to, an order is funded by or a row is lost under has a row of its own.
THEOREM TypeCorrect == Spec => []TypeOK
<1>1. IInv => TypeOK
  BY DEF IInv
<1> QED
  BY <1>1, Invariance, PTL

\* While a withdrawal is counted its diff_amount is what its rows add up to,
\* whatever was interrupted before (OrderFund, OrderAdjustment, SetWithdrawal).
THEOREM MoneyIsTracked == Spec => []DiffTracksStatement
<1>1. IInv => DiffTracksStatement
  BY DEF IInv
<1> QED
  BY <1>1, Invariance, PTL

\* A withdrawal counted down to the one before it is short of the rows that
\* were missed or have no case, and of nothing else (Check, wdIncBalanceSisa).
THEOREM MoneyBalances == Spec => []Balanced
<1>1. IInv => Balanced
  BY DEF IInv
<1> QED
  BY <1>1, Invariance, PTL

\* A settled group has left its traces in orders, adjustments and the withdrawal
\* (Completed, connectAdjToWithdrawal).
THEOREM GroupsAreSettled == Spec => []GroupSettled
<1>1. IInv => GroupSettled
  BY DEF IInv
<1> QED
  BY <1>1, Invariance, PTL

\* The list of lost rows is right (addOrderNotFound).
THEOREM LostAreListed == Spec => []LostListed
<1>1. IInv => LostListed
  BY DEF IInv
<1> QED
  BY <1>1, Invariance, PTL

\* A settled withdrawal is not counted again, but for the balance of the older
\* one (SetWithdrawal, needIncrement, wdIncBalanceSisa).
THEOREM SettledStays == Spec => []SettledAgain
<1>1. IInv => SettledAgain
  BY DEF IInv
<1> QED
  BY <1>1, Invariance, PTL
-----------------------------------------------------------------------------
(* One import beside others: what it relies on of the database, which only   *)
(* grows, what its own steps guarantee, and what it owes a row.               *)
(* TwoImportersProofs puts two of them together.                             *)

\* The withdrawal of the group is one the import keeps.
HasHead == from > 1 /\ Head1.at >= FirstOrder

\* While nobody enters an order, what the import found does not change: the rows
\* it missed have an order that stays missing or cancelled, and, if they have a
\* reference, are listed under the head of the group.  Rows without a head are settled with a withdrawal that
\* is not older than any of them.
HasRef(p) == file[p].order # NoOrder
Kept ==
    /\ \A o \in Ref : /\ orders[o] = "missing" <=> o \notin Known
                      /\ orders[o] = "cancelled" <=> o \in Cancelled
    /\ \A p \in missed : orders[file[p].order] \in {"missing", "cancelled"}
    /\ pc # "idle" /\ HasHead =>
           wd = Head1.at /\ \A p \in missed : HasRef(p) => <<wd, file[p].order>> \in lost
    /\ pc \in {"settle", "commit"} /\ ~HasHead => \A p \in Group : file[p].at <= wd

Idle == pc = "idle" => pos = 1

OwnInv == TypeOK /\ Shape /\ Headed /\ Connected /\ Kept /\ Idle

\* The steps of this import.
Own == Begin \/ Import \/ Abort

-----------------------------------------------------------------------------
(* What the steps of one import do to what the other relies on.              *)

DatabaseOK ==
    /\ made \subseteq Time /\ diff \in [Time -> Int]
    /\ lost \subseteq made \X Ref
    /\ valid \in [Time -> SUBSET logged]
    /\ logged \subseteq Adj /\ log \in [Adj -> Int] /\ fundAt \in [Adj -> Time \cup {NoWd}]
    /\ orders \in [Ref -> {"missing", "cancelled", "open", "problem", "completed"}]
    /\ fundedAt \in [Ref -> made \cup {NoWd}]
    /\ returns \subseteq Returned /\ announced \subseteq Ref
    /\ \A w \in made : w >= FirstOrder

\* Nothing is taken back.
Grows ==
    /\ made \subseteq made' /\ lost \subseteq lost' /\ logged \subseteq logged'
    /\ \A o \in Ref : \/ orders'[o] = orders[o]
                      \/ orders[o] = "open" /\ orders'[o] = "completed"

LEMMA DatabaseTyped ==
  ASSUME OwnInv PROVE DatabaseOK
  BY DEF OwnInv, TypeOK, Headed, DatabaseOK

\* The state the service starts in.
LEMMA OwnInit == Init => OwnInv
<1> SUFFICES ASSUME Init PROVE OwnInv
  OBVIOUS
<1>1. TypeOK /\ Shape /\ Headed /\ Connected
  BY InitIInv DEF IInv
<1>2. Kept
  BY ImporterAssumption DEF Init, Kept, HasHead
<1>3. Idle
  BY DEF Init, Idle
<1> QED
  BY <1>1, <1>2, <1>3 DEF OwnInv

LEMMA OwnGrows ==
  ASSUME TypeOK, Shape, Own PROVE Grows
<1>1. CASE OrderNotFound \/ Unknown
  BY <1>1 DEF OrderNotFound, Unknown, AddOrderNotFound, adjustments, ordervars, Grows
<1>2. CASE CommitOrder
  BY <1>2 DEF CommitOrder, LogAdjustment, withdrawals, ordervars, Grows
<1>3. CASE CommitSettle
  BY <1>3 DEF CommitSettle, Completed, There, CompletedIDs, Grows, TypeOK
<1>4. CASE Withdrawal
  <2>1. made \subseteq made'
    BY <1>4 DEF Withdrawal, SetWithdrawal
  <2> QED
    BY <1>4, <2>1 DEF Withdrawal, adjustments, ordervars, Grows
<1>5. CASE Begin \/ SkipRow \/ IncOrder \/ UnknownBlocks \/ CheckNothing \/ Check \/ Publish \/ Finish \/ Abort
  <2>1. UNCHANGED <<made, lost, logged, orders>>
    BY <1>5 DEF Begin, SkipRow, IncOrder, UnknownBlocks, CheckNothing, Check, Publish, Finish, Abort,
                withdrawals, adjustments, ordervars
  <2> QED
    BY <2>1 DEF Grows
<1> QED
  BY <1>1, <1>2, <1>3, <1>4, <1>5 DEF Own, Import

-----------------------------------------------------------------------------
(* The import's own steps.                                                  *)

\* The first row of the group is its newest one.
LEMMA FirstIsNewest ==
  ASSUME TypeOK, Group # {}
  PROVE  First \in Group /\ \A p \in Group : file[p].at <= file[First].at
<1>1. Group \in SUBSET (1..Len(file)) /\ Len(file) \in Nat
  BY Cursor
<1>2. Min(Group) \in Group /\ \A q \in Group : Min(Group) <= q
  <2> DEFINE S == Group
  <2> HIDE DEF S
  <2> QED
    BY <1>1, MinIsThere DEF S
<1>3. \E p \in Group : \A q \in Group : p <= q
  BY <1>2
<1>4. First \in Group /\ \A q \in Group : First <= q
  BY <1>3 DEF First
<1>5. ASSUME NEW p \in Group PROVE file[p].at <= file[First].at
  <2>1. p \in 1..Len(file) /\ First \in 1..Len(file) /\ First <= p /\ file \in Files \cup {<<>>}
    BY <1>1, <1>4 DEF TypeOK
  <2>2. First = p \/ file[First].at > file[p].at
    BY <2>1, Rows
  <2>3. file[p].at \in 1..MaxTime /\ file[First].at \in 1..MaxTime
    BY <2>1, Rows
  <2> QED
    BY <2>2, <2>3, ImporterAssumption
<1> QED
  BY <1>4, <1>5

\* The withdrawal row that heads the group has a time, and i.wd is that time.
LEMMA HeadRow ==
  ASSUME OwnInv, pc # "idle", HasHead
  PROVE  /\ from - 1 \in DOMAIN file /\ Head1.kind = "withdrawal"
         /\ wd = Head1.at /\ wd \in Time /\ wd # NoWd
<1>1. from - 1 \in 1..Len(file) /\ file \in Files \cup {<<>>} /\ DOMAIN file = 1..Len(file)
  BY Cursor DEF OwnInv, TypeOK, HasHead
<1>2. Head1.at \in 1..MaxTime
  BY <1>1, Rows DEF Head1
<1> QED
  BY <1>1, <1>2 DEF OwnInv, Kept, Headed, HasHead, NoWd, Time

LEMMA KeptStep ==
  ASSUME OwnInv, Own
  PROVE  Kept'
<1> USE DEF OwnInv
<1>0. /\ pos \in Nat /\ from \in Nat /\ from >= 1 /\ from <= pos /\ missed \subseteq Group
      /\ \A p \in missed : file[p].order \in Ref
  BY Cursor, Rows DEF Kept, TypeOK
<1>1. \A o \in Ref : /\ orders'[o] = "missing" <=> o \notin Known
                     /\ orders'[o] = "cancelled" <=> o \in Cancelled
  BY OwnGrows DEF Grows, Kept
<1>2. ASSUME missed' = missed, file' = file
      PROVE  /\ \A p \in missed' : orders'[file'[p].order] \in {"missing", "cancelled"}
             /\ \A p : HasRef(p)' = HasRef(p)
             /\ \A p \in missed : <<wd, file[p].order>> \in lost => <<wd, file[p].order>> \in lost'
  BY <1>0, <1>2, OwnGrows DEF Grows, Kept, HasRef
<1>3. CASE SkipRow \/ IncOrder \/ CommitOrder \/ Unknown \/ UnknownBlocks
  <2>1. UNCHANGED <<missed, file, wd, from>> /\ pc # "idle" /\ pc' \notin {"settle", "commit"}
    BY <1>3 DEF SkipRow, IncOrder, CommitOrder, Unknown, UnknownRow, Nameless, UnknownBlocks, NextRow, group, groupHist
  <2> QED
    BY <1>1, <1>2, <2>1 DEF Kept, HasHead, Head1
<1>4. CASE OrderNotFound
  <2>1. /\ pc = "item" /\ pc' = "item" /\ UNCHANGED <<file, wd, from>> /\ missed' = missed \cup {pos}
        /\ ~AtEnd /\ ~Nameless(pos) /\ ~Found(pos) /\ AddOrderNotFound(file[pos].order)
        /\ orders' = orders
    BY <1>4 DEF OrderNotFound, NextRow, group, ordervars, Row
  <2>2. orders[file[pos].order] \in {"missing", "cancelled"}
    BY <2>1 DEF Found
  <2>3. ASSUME wd # NoWd, HasRef(pos) PROVE <<wd, file[pos].order>> \in lost'
    <3>1. HasLost(wd, file[pos].order) => <<wd, file[pos].order>> \in lost
      <4>1. \A l \in lost : l = <<l[1], l[2]>>
        BY DEF TypeOK
      <4> QED
        BY <2>3, <4>1 DEF HasLost, HasRef
    <3> QED
      BY <2>1, <2>3, <3>1 DEF AddOrderNotFound
  <2>4. lost \subseteq lost'
    BY OwnGrows DEF Grows
  <2>5. HasHead => wd # NoWd
    BY <2>1, HeadRow
  <2>6. HasHead' = HasHead /\ Head1' = Head1
    BY <2>1 DEF HasHead, Head1
  <2>7. HasHead => wd = Head1.at /\ \A p \in missed' : HasRef(p) => <<wd, file[p].order>> \in lost'
    BY <2>1, <2>3, <2>4, <2>5 DEF Kept
  <2>8. \A p \in missed' : orders[file[p].order] \in {"missing", "cancelled"}
    BY <2>1, <2>2 DEF Kept
  <2>9. \A p : HasRef(p)' = HasRef(p)
    BY <2>1 DEF HasRef
  <2> QED
    BY <1>1, <2>1, <2>6, <2>7, <2>8, <2>9 DEF Kept
<1>5. CASE CheckNothing
  <2>1. UNCHANGED <<missed, file, wd, from>> /\ pc = "item" /\ pc' = "set"
    BY <1>5 DEF CheckNothing, AtCheck, group, groupHist
  <2> QED
    BY <1>1, <1>2, <2>1 DEF Kept, HasHead, Head1
<1>6. CASE Check
  <2>1. /\ UNCHANGED <<missed, file, pos, from>> /\ pc = "item" /\ pc' = "settle"
        /\ Group # {} /\ wd' = Candidate /\ Candidate # NoWd
    BY <1>6 DEF Check, AtCheck, groupHist
  <2>2. HasHead' = HasHead /\ Head1' = Head1 /\ Group' = Group
    BY <2>1 DEF HasHead, Head1, Group, Handled
  <2>3. HasHead => wd # NoWd /\ wd' = wd
    BY <2>1, HeadRow DEF Candidate
  <2>4. ASSUME ~HasHead, NEW p \in Group PROVE file[p].at <= wd'
    <3>1. wd = NoWd
      BY <2>1, <2>4, Cursor, Rows, ImporterAssumption DEF Headed, HasHead, TypeOK
    <3>2. NextWithdrawals # {} /\ wd' = Min(NextWithdrawals)
      BY <2>1, <3>1 DEF Candidate, NextWithdrawal
    <3>3. Min(NextWithdrawals) \in NextWithdrawals
      <4> DEFINE S == NextWithdrawals
      <4>1. S \in SUBSET (1..MaxTime) /\ MaxTime \in Nat
        BY ImporterAssumption DEF TypeOK, Time, NextWithdrawals
      <4> HIDE DEF S
      <4> QED
        BY <3>2, <4>1, MinIsThere DEF S
    <3>4. wd' \in 1..MaxTime /\ wd' >= file[First].at
      BY <3>2, <3>3 DEF NextWithdrawals, TypeOK, Time
    <3>5. First \in Group /\ file[p].at <= file[First].at
      BY <2>1, <2>4, FirstIsNewest
    <3>6. file[p].at \in 1..MaxTime /\ file[First].at \in 1..MaxTime
      BY <2>4, <3>5, Cursor, Rows DEF TypeOK
    <3> QED
      BY <3>4, <3>5, <3>6, ImporterAssumption
  <2>5. \A p \in missed' : orders'[file[p].order] \in {"missing", "cancelled"}
    BY <1>2, <2>1
  <2>6. HasHead => wd' = Head1.at /\ \A p \in missed' : HasRef(p)' => <<wd', file[p].order>> \in lost'
    BY <1>2, <2>1, <2>3 DEF Kept
  <2> QED
    BY <1>1, <2>1, <2>2, <2>4, <2>5, <2>6 DEF Kept
<1>7. CASE Publish \/ CommitSettle
  <2>1. UNCHANGED <<missed, file, pos, wd, from>> /\ pc \in {"settle", "commit"}
    BY <1>7 DEF Publish, CommitSettle, group, groupHist
  <2>2. HasHead' = HasHead /\ Head1' = Head1 /\ Group' = Group
    BY <2>1 DEF HasHead, Head1, Group, Handled
  <2> QED
    BY <1>1, <1>2, <2>1, <2>2 DEF Kept
<1>8. CASE Withdrawal
  <2>1. /\ missed' = {} /\ pc' = "item" /\ file' = file /\ from' = pos + 1 /\ ~AtEnd
        /\ Row.at < FirstOrder \/ wd' = Row.at
    BY <1>8 DEF Withdrawal, NextRow, SetWithdrawal
  <2>2. Head1' = Row
    BY <2>1, Cursor DEF Head1, Row
  <2>3. Row.at \in Int /\ FirstOrder \in Int
    BY <2>1, RowThere, ImporterAssumption DEF Time
  <2> QED
    BY <1>1, <2>1, <2>2, <2>3 DEF Kept, HasHead
<1>9. CASE Begin \/ Finish \/ Abort
  <2>1. missed' = {} /\ pc' \in {"idle", "item"} /\ from' = 1
    BY <1>9 DEF Begin, Finish, Abort, Discard
  <2> QED
    BY <1>1, <2>1 DEF Kept, HasHead
<1> QED
  BY <1>3, <1>4, <1>5, <1>6, <1>7, <1>8, <1>9 DEF Own, Import

LEMMA OwnStep ==
  ASSUME OwnInv, Own
  PROVE  OwnInv' /\ DatabaseOK' /\ Grows
<1>1. [Next]_vars
  BY DEF Own, Next
<1>2. TypeOK' /\ Shape' /\ Headed' /\ Connected'
  BY <1>1, TypeStep, ShapeStep, HeadedStep, ConnectedStep DEF OwnInv
<1>3. OwnInv'
  <2>1. Idle'
    BY DEF Own, Import, Begin, SkipRow, IncOrder, CommitOrder, OrderNotFound, Unknown, UnknownBlocks,
           NextRow, CheckNothing, Check, Publish, CommitSettle, Withdrawal, Finish, Abort, Discard, Idle
  <2> QED
    BY <1>2, <2>1, KeptStep DEF OwnInv
<1>4. DatabaseOK'
  BY <1>2 DEF TypeOK, Headed, DatabaseOK
<1> QED
  BY <1>3, <1>4, OwnGrows DEF OwnInv

-----------------------------------------------------------------------------
(* A row, while the statement that shows it is imported.                     *)

\* The orders whose rows the import has met and not settled yet.
Busy == IF pc \in {"idle", "set"} THEN {} ELSE GroupOrders

\* The withdrawal row above a row of the group heads the group.
LEMMA HeadOf ==
  ASSUME OwnInv, NEW p \in Group, NEW k \in DOMAIN file, Accepted(file, k), p \in Under(file, k)
  PROVE  HasHead /\ Head1 = file[k]
<1>1. /\ p \in from..(pos - 1) /\ k \in Nat /\ k >= 1 /\ k < p
      /\ \A i \in (k + 1)..p : file[i].kind # "withdrawal"
      /\ pos \in Nat /\ from \in Nat /\ from >= 1
  BY Cursor DEF OwnInv, Under
<1>2. file[k].kind = "withdrawal" /\ k \notin from..(pos - 1)
  BY DEF Accepted, OwnInv, Headed
<1>3. from > 1 /\ k <= from - 1
  BY <1>1, <1>2
<1>4. k = from - 1
  <2>1. file[from - 1].kind = "withdrawal"
    BY <1>3 DEF OwnInv, Headed, Head1
  <2> QED
    BY <1>1, <1>3, <2>1
<1> QED
  BY <1>3, <1>4 DEF HasHead, Head1, Accepted

\* A row of the group that names an order the statements agree on is headed by
\* the withdrawal they agree on.
LEMMA HeadedByIt ==
  ASSUME OwnInv, pc # "idle", NEW w, NEW o \in Order, NEW t, Whole(w, o, t), o \in GroupOrders
  PROVE  HasHead /\ Head1.at = w /\ wd = w
<1>1. PICK p \in Group : file[p].order = o
  BY DEF GroupOrders
<1>2. file \in Files /\ p \in DOMAIN file /\ file[p].kind \in {"order", "unknown"}
  BY Cursor DEF OwnInv, Shape, Group, Handled
<1>3. PICK k \in DOMAIN file : Accepted(file, k) /\ file[k].at = w /\ p \in Under(file, k)
  BY <1>1, <1>2 DEF Whole
<1> QED
  BY <1>3, HeadOf, HeadRow

\* A group that is settled, or is about to be, is complete: it has the row of
\* every order that the statements agree on for its withdrawal.
LEMMA GroupIsWhole ==
  ASSUME OwnInv, pc \in {"settle", "commit", "set"}, NEW w, NEW o, NEW t, Whole(w, o, t),
         HasHead, Head1.at = w
  PROVE  \E p \in Group : file[p].order = o /\ file[p].type = t
<1> DEFINE k == from - 1
<1>1. /\ file \in Files /\ k \in DOMAIN file /\ Accepted(file, k) /\ file[k].at = w
      /\ from > 1 /\ pos \in Nat /\ from \in Nat /\ Len(file) \in Nat /\ pos <= Len(file) + 1
  BY HeadRow, Cursor DEF OwnInv, Shape, HasHead, Head1, Accepted
<1>2. PICK p \in Under(file, k) : file[p].order = o /\ file[p].type = t
  BY <1>1 DEF Whole
<1>3. /\ p \in from..Len(file) /\ file[p].kind \in {"order", "unknown"}
      /\ \A i \in from..p : file[i].kind # "withdrawal"
  BY <1>1, <1>2 DEF Under
<1>4. p < pos
  <2>1. CASE AtEnd
    BY <1>1, <1>3, <2>1 DEF AtEnd
  <2>2. CASE ~AtEnd
    <3>1. file[pos].kind = "withdrawal" /\ from <= pos
      BY <2>2, Cursor DEF OwnInv, Shape, Row
    <3> QED
      BY <1>1, <1>3, <3>1
  <2> QED
    BY <2>1, <2>2
<1>5. p \in Group
  BY <1>1, <1>3, <1>4 DEF Group, Handled
<1> QED
  BY <1>2, <1>5

\* What the commit of a group leaves of its own orders ...
LEMMA CommitSettles ==
  ASSUME OwnInv, CommitSettle, NEW w \in Time, NEW o \in Order, NEW t \in AdjType,
         Whole(w, o, t), o \in GroupOrders
  PROVE  Settled(w, o, t)'
<1> USE DEF OwnInv
<1>1. /\ pc = "commit" /\ HasHead /\ Head1.at = w /\ wd = w
      /\ UNCHANGED <<lost, logged, log, adjs, wd>>
  BY HeadedByIt DEF CommitSettle, group
<1>2. PICK p \in Group : file[p].order = o /\ file[p].type = t
  BY <1>1, GroupIsWhole
<1>3. o # NoOrder
  BY ImporterAssumption
<1>4. CASE p \in missed
  <2>1. orders[o] \in {"missing", "cancelled"} /\ <<w, o>> \in lost
    BY <1>1, <1>2, <1>3, <1>4 DEF Kept, HasRef
  <2>2. orders'[o] = orders[o]
    BY <2>1, OwnGrows DEF Grows, Own, Import, Ref
  <2> QED
    BY <1>1, <2>1, <2>2 DEF Settled
<1>5. CASE p \notin missed
  <2>1. p \in FoundRows
    BY <1>2, <1>3, <1>5 DEF FoundRows, Nameless
  <2>2. <<o, t>> \in adjs /\ adjs # {} /\ orders[o] \notin {"missing", "cancelled"} /\ <<o, t>> \in Adj
    BY <1>2, <2>1 DEF Connected, Adj, Ref
  <2>3. <<o, t>> \in valid'[w] /\ fundAt'[<<o, t>>] = w
    BY <1>1, <2>2 DEF CommitSettle, ConnectAdj, TypeOK
  <2>4. fundedAt'[o] = w
    BY <1>1, <2>2 DEF CommitSettle, Completed, There, Ref
  <2>5. Paid(o)' => orders'[o] # "open"
    BY <1>1, <2>2 DEF CommitSettle, Completed, There, CompletedIDs, Paid, Ref
  <2>6. orders'[o] \notin {"missing", "cancelled"}
    BY <2>2 DEF CommitSettle, Completed, There, Ref
  <2> QED
    BY <2>3, <2>4, <2>5, <2>6 DEF Settled
<1> QED
  BY <1>4, <1>5

\* ... and of those of other groups.
LEMMA CommitSpares ==
  ASSUME OwnInv, CommitSettle, NEW w \in Time, NEW o \in Order, NEW t \in AdjType,
         Whole(w, o, t), o \notin GroupOrders, Settled(w, o, t)
  PROVE  Settled(w, o, t)'
<1> USE DEF OwnInv
<1>1. /\ pc = "commit" /\ wd \in Time
      /\ UNCHANGED <<lost, logged, log, adjs, wd>>
  BY DEF CommitSettle, group, Shape, TypeOK
<1>2. orders'[o] = orders[o] /\ fundedAt'[o] = fundedAt[o] /\ Paid(o)' = Paid(o)
  BY <1>1 DEF CommitSettle, Completed, There, CompletedIDs, TypeOK, Paid, Ref
<1>3. <<o, t>> \in Adj /\ \A a \in adjs : a[1] \in GroupOrders
  BY DEF Connected, FoundRows, GroupOrders, Adj, Ref
<1>4. fundAt'[<<o, t>>] = fundAt[<<o, t>>]
  BY <1>3 DEF CommitSettle, ConnectAdj
<1>5. valid'[w] = valid[w]
  <2>1. CASE wd # w
    BY <1>1, <2>1 DEF CommitSettle, ConnectAdj, TypeOK
  <2>2. CASE wd = w /\ HasHead
    <3>1. Head1.at = w
      BY <1>1, <2>2, HeadRow
    <3>2. PICK p \in Group : file[p].order = o
      BY <1>1, <2>2, <3>1, GroupIsWhole
    <3> QED
      BY <3>2, ImporterAssumption DEF GroupOrders
  <2>3. CASE wd = w /\ ~HasHead
    <3>1. ASSUME NEW p \in FoundRows PROVE FALSE
      <4>1. /\ p \in Group /\ p \in DOMAIN file /\ file \in Files /\ file[p].order \in Ref
            /\ file[p].kind \in {"order", "unknown"}
        BY <1>1, Cursor, Rows DEF FoundRows, Shape, Group, Handled, TypeOK
      <4>2. file[p].order \in Known \ Cancelled /\ file[p].at <= w
        BY <1>1, <2>3, <4>1 DEF Kept, Connected
      <4>3. PICK k \in DOMAIN file : Accepted(file, k) /\ p \in Under(file, k)
        BY <4>1, <4>2 DEF Whole
      <4> QED
        BY <1>1, <2>3, <4>1, <4>3, HeadOf
    <3>2. adjs = {}
      BY <3>1 DEF Connected
    <3> QED
      BY <3>2 DEF CommitSettle, ConnectAdj
  <2> QED
    BY <2>1, <2>2, <2>3
<1> QED
  BY <1>1, <1>2, <1>4, <1>5 DEF Settled

\* A row that is settled, or that the import is busy with, is so after a step
\* of this import, unless the import is cut off.
LEMMA OwnSettles ==
  ASSUME OwnInv, Begin \/ Import, NEW w \in Time, NEW o \in Order, NEW t \in AdjType,
         Whole(w, o, t), Settled(w, o, t) \/ o \in Busy
  PROVE  Settled(w, o, t)' \/ o \in Busy'
<1> USE DEF OwnInv
<1>1. CASE CommitSettle
  BY <1>1, CommitSettles, CommitSpares DEF Busy
<1>2. CASE CommitOrder
  <2>1. /\ ~AtEnd /\ Handled(pos) /\ Row.order \in Ref /\ pc # "idle"
        /\ pc' = "item" /\ file' = file /\ pos' = pos + 1 /\ from' = from /\ Row = file[pos]
    <3>1. ~AtEnd /\ Handled(pos) /\ Found(pos) /\ pc # "idle"
      BY <1>2 DEF CommitOrder, Shape
    <3> QED
      BY <1>2, <3>1, RowThere DEF CommitOrder, NextRow, Found, Row
  <2>2. GroupOrders' = GroupOrders \cup {Row.order} /\ Busy' = GroupOrders'
    <3>1. Group' = Group \cup {pos}
      BY <2>1, NextGroup
    <3>2. pc' \notin {"idle", "set"}
      BY <2>1
    <3> QED
      BY <2>1, <3>1, <3>2 DEF GroupOrders, Busy
  <2>3. CASE o \in Busy \/ o = Row.order
    BY <2>2, <2>3 DEF Busy
  <2>4. CASE o # Row.order /\ Settled(w, o, t)
    <3> DEFINE a == <<Row.order, Row.type>>
    <3>1. /\ UNCHANGED <<lost, valid, orders, fundedAt>> /\ logged' = logged \cup {a}
          /\ log' = [log EXCEPT ![a] = Row.amount]
          /\ fundAt' = [fundAt EXCEPT ![a] = IF a \in logged THEN Row.at ELSE NoWd]
      BY <1>2 DEF CommitOrder, LogAdjustment, withdrawals, ordervars
    <3>2. \A b \in Adj : b[1] = o => /\ b # a /\ log'[b] = log[b] /\ fundAt'[b] = fundAt[b]
                                     /\ b \in logged' <=> b \in logged
      BY <2>4, <3>1 DEF TypeOK
    <3>3. Paid(o)' <=> Paid(o)
      <4>1. logged \subseteq Adj /\ logged' \subseteq Adj
        BY OwnStep DEF TypeOK, Own, Import
      <4> HIDE DEF a
      <4> QED
        BY <3>2, <4>1 DEF Paid
    <3>4. <<o, t>> \in Adj
      BY DEF Adj, Ref
    <3> QED
      BY <2>4, <3>1, <3>2, <3>3, <3>4 DEF Settled
  <2> QED
    BY <2>3, <2>4
<1>3. CASE CheckNothing
  <2>1. o \notin Busy
    <3>1. SUFFICES ASSUME o \in GroupOrders PROVE FALSE
      BY DEF Busy
    <3>2. pc = "item" /\ (Group # {} => wd = NoWd) /\ Group # {}
      BY <1>3, <3>1 DEF CheckNothing, AtCheck, Candidate, GroupOrders
    <3>3. wd = w /\ w # NoWd
      BY <3>1, <3>2, HeadedByIt DEF Time, NoWd
    <3> QED
      BY <3>2, <3>3
  <2> QED
    BY <1>3, <2>1 DEF CheckNothing, withdrawals, adjustments, ordervars, Settled, Paid
<1>4. CASE SkipRow \/ IncOrder \/ UnknownBlocks \/ OrderNotFound \/ Unknown \/ Check \/ Publish
  <2>1. Settled(w, o, t) => Settled(w, o, t)'
    <3>1. lost \subseteq lost'
      BY OwnGrows DEF Grows, Own, Import
    <3>2. UNCHANGED <<valid, logged, log, fundAt, orders, fundedAt>>
      BY <1>4 DEF SkipRow, IncOrder, UnknownBlocks, OrderNotFound, Unknown, Check, Publish,
                  withdrawals, adjustments, ordervars
    <3> QED
      BY <3>1, <3>2 DEF Settled, Paid
  <2>2. o \in Busy => o \in Busy'
    <3>1. pc' \notin {"idle", "set"} /\ file' = file /\ from' = from /\ pos' \in {pos, pos + 1}
      BY <1>4 DEF SkipRow, IncOrder, UnknownBlocks, OrderNotFound, Unknown, Check, Publish, NextRow, group
    <3>2. Group \subseteq Group'
      BY <3>1, Cursor DEF Group, Handled
    <3> QED
      BY <3>1, <3>2 DEF Busy, GroupOrders
  <2> QED
    BY <2>1, <2>2
<1>5. CASE Begin \/ Withdrawal \/ Finish
  <2>1. pc \in {"idle", "set"} /\ UNCHANGED <<lost, valid, logged, log, fundAt, orders, fundedAt>>
    BY <1>5 DEF Begin, Withdrawal, Finish, withdrawals, adjustments, ordervars
  <2> QED
    BY <2>1 DEF Busy, Settled, Paid
<1> QED
  BY <1>1, <1>2, <1>3, <1>4, <1>5 DEF Import

\* A row that the cursor is past was passed before, or the import is now busy
\* with its order.
LEMMA OwnPasses ==
  ASSUME OwnInv, Own, NEW q \in DOMAIN file', q < pos',
         file'[q].kind \in {"order", "unknown"}, file'[q].order # NoOrder
  PROVE  file' = file /\ (q < pos \/ file[q].order \in Busy')
<1> USE DEF OwnInv
<1>1. CASE Begin \/ Finish \/ Abort
  <2>1. pos' = 1 /\ file' \in Files \cup {<<>>}
    BY <1>1 DEF Begin, Finish, Abort, Discard
  <2>2. q \in Nat /\ q >= 1
    BY <2>1, Rows
  <2> QED
    BY <2>1, <2>2
<1>2. CASE SkipRow \/ CommitOrder \/ OrderNotFound \/ Unknown \/ Withdrawal
  <2>1. /\ file' = file /\ pos' = pos + 1 /\ pc' = "item" /\ ~AtEnd /\ Row = file[pos]
        /\ pos \in Nat /\ q \in Nat
    BY <1>2, Cursor DEF SkipRow, CommitOrder, OrderNotFound, Unknown, UnknownRow, Nameless, Withdrawal, NextRow,
                        Shape, Row
  <2>2. SUFFICES ASSUME q = pos PROVE file[q].order \in Busy'
    BY <2>1
  <2>3. CASE SkipRow \/ Withdrawal
    <3>1. file[q].kind \in {"other", "withdrawal"}
      BY <2>1, <2>2, <2>3 DEF SkipRow, Withdrawal, Shape
    <3> QED
      BY <2>1, <3>1
  <2>4. CASE CommitOrder \/ OrderNotFound \/ Unknown
    <3>1. from' = from /\ Handled(pos)
      BY <2>1, <2>2, <2>4 DEF CommitOrder, OrderNotFound, Unknown, group, Handled
    <3>2. Group' = Group \cup {pos}
      BY <2>1, <3>1, NextGroup
    <3> QED
      BY <2>1, <2>2, <3>2 DEF Busy, GroupOrders
  <2> QED
    BY <1>2, <2>3, <2>4
<1>3. CASE IncOrder \/ UnknownBlocks \/ CheckNothing \/ Check \/ Publish \/ CommitSettle
  BY <1>3 DEF IncOrder, UnknownBlocks, CheckNothing, Check, Publish, CommitSettle
<1> QED
  BY <1>1, <1>2, <1>3 DEF Own, Import

-----------------------------------------------------------------------------
(* An order, while two imports complete orders.                             *)

\* A step touches no order but those whose rows it locks.
LEMMA OwnSpares ==
  ASSUME OwnInv, Own, NEW o \in Ref, o \notin Wants \/ Begin \/ Abort
  PROVE  /\ orders'[o] = orders[o] /\ Paid(o)' = Paid(o)
         /\ o \in announced' <=> o \in announced
<1> USE DEF OwnInv
<1>1. CASE CommitOrder
  <2>1. o # Row.order /\ UNCHANGED <<orders, announced>>
    BY <1>1 DEF CommitOrder, Wants, Holds, Begin, Abort, ordervars, Discard, NextRow
  <2> DEFINE a == <<Row.order, Row.type>>
  <2>2. logged' = logged \cup {a} /\ log' = [log EXCEPT ![a] = Row.amount]
    BY <1>1 DEF CommitOrder, LogAdjustment
  <2>3. \A b \in Adj : b[1] = o => b # a /\ log'[b] = log[b] /\ (b \in logged' <=> b \in logged)
    BY <2>1, <2>2 DEF TypeOK
  <2>4. logged \subseteq Adj /\ logged' \subseteq Adj
    BY OwnStep DEF TypeOK
  <2> HIDE DEF a
  <2>5. Paid(o)' = Paid(o)
    BY <2>3, <2>4 DEF Paid
  <2> QED
    BY <2>1, <2>5
<1>2. CASE Publish
  <2>1. o \notin CompletedIDs
    BY <1>2 DEF Publish, Wants, There, Begin, Abort, Discard, CompletedIDs
  <2> QED
    BY <1>2, <2>1 DEF Publish, adjustments, Paid
<1>3. CASE CommitSettle
  <2>1. o \notin CompletedIDs
    BY <1>3 DEF CommitSettle, Wants, Holds, There, Begin, Abort, Discard, CompletedIDs
  <2> QED
    BY <1>3, <2>1 DEF CommitSettle, Completed, Paid
<1>4. CASE Begin \/ SkipRow \/ IncOrder \/ OrderNotFound \/ Unknown \/ UnknownBlocks \/ CheckNothing \/ Check
           \/ Withdrawal \/ Finish \/ Abort
  <2>1. UNCHANGED <<orders, announced, logged, log>>
    BY <1>4 DEF Begin, SkipRow, IncOrder, OrderNotFound, Unknown, UnknownBlocks, CheckNothing, Check,
                Withdrawal, Finish, Abort, adjustments, ordervars
  <2> QED
    BY <2>1 DEF Paid
<1> QED
  BY <1>1, <1>2, <1>3, <1>4 DEF Own, Import

\* The orders an import is about to commit as completed.
Completing == IF pc = "commit" THEN CompletedIDs ELSE {}

LEMMA GroupOrdersAre ==
  ASSUME TypeOK
  PROVE  GroupOrders \subseteq Ref
  BY Cursor, Rows DEF TypeOK, GroupOrders

LEMMA CompletingHeld ==
  ASSUME TypeOK
  PROVE  Completing \subseteq Holds /\ Completing \subseteq Ref
<1>1. CASE pc = "commit"
  <2>1. Completing \subseteq There /\ Holds = There /\ There \subseteq GroupOrders
    BY <1>1 DEF Completing, CompletedIDs, Holds, There
  <2> QED
    BY <2>1, GroupOrdersAre
<1>2. CASE pc # "commit"
  BY <1>2 DEF Completing
<1> QED
  BY <1>1, <1>2

\* An order is published, then completed, and nothing of the kind is done
\* without the other.
LEMMA OwnPublishes ==
  ASSUME OwnInv, Own, Completing \subseteq announced
  PROVE  /\ announced \subseteq announced' /\ announced' \subseteq announced \cup Completing'
         /\ Completing' \subseteq announced'
         /\ \A o \in Ref : orders'[o] = "completed" => orders[o] = "completed" \/ o \in Completing
         /\ announced' # announced => pc = "settle" /\ announced' = announced \cup CompletedIDs
<1> USE DEF OwnInv
<1>1. CASE Publish
  <2>1. /\ UNCHANGED <<orders, logged, log, file, pos, from>> /\ pc = "settle" /\ pc' = "commit"
        /\ announced' = announced \cup CompletedIDs
    BY <1>1 DEF Publish, adjustments, group
  <2>2. CompletedIDs' = CompletedIDs
    BY <2>1 DEF CompletedIDs, GroupOrders, Group, Handled, Paid
  <2> QED
    BY <2>1, <2>2 DEF Completing
<1>2. CASE CommitSettle
  <2>1. announced' = announced /\ pc = "commit" /\ pc' = "set"
    BY <1>2 DEF CommitSettle
  <2>2. \A o \in Ref : orders'[o] = IF o \in CompletedIDs THEN "completed" ELSE orders[o]
    BY <1>2 DEF CommitSettle, Completed, There
  <2> QED
    BY <2>1, <2>2, CompletingHeld DEF Completing
<1>3. CASE Begin \/ SkipRow \/ IncOrder \/ CommitOrder \/ OrderNotFound \/ Unknown \/ UnknownBlocks
           \/ CheckNothing \/ Check \/ Withdrawal \/ Finish
  <2>1. UNCHANGED <<orders, announced>> /\ pc # "commit" /\ pc' # "commit"
    BY <1>3 DEF Begin, SkipRow, IncOrder, CommitOrder, OrderNotFound, Unknown, UnknownRow, Nameless, UnknownBlocks,
                CheckNothing, Check, AtCheck, Withdrawal, Finish, NextRow, Discard, ordervars
  <2> QED
    BY <2>1 DEF Completing
<1>4. CASE Abort
  BY <1>4 DEF Abort, Discard, Completing, ordervars
<1> QED
  BY <1>1, <1>2, <1>3, <1>4 DEF Own, Import

\* What is about to be completed is, unless the import is cut off.
LEMMA OwnCompletes ==
  ASSUME OwnInv, Begin \/ Import
  PROVE  \A o \in Completing : orders'[o] = "completed"
<1>1. CASE CommitSettle
  BY <1>1, CompletingHeld DEF OwnInv, CommitSettle, Completed, Completing
<1>2. CASE Begin \/ SkipRow \/ IncOrder \/ CommitOrder \/ OrderNotFound \/ Unknown \/ UnknownBlocks
           \/ CheckNothing \/ Check \/ Publish \/ Withdrawal \/ Finish
  <2>1. pc # "commit"
    BY <1>2 DEF Begin, SkipRow, IncOrder, CommitOrder, OrderNotFound, Unknown, UnknownRow, Nameless, UnknownBlocks,
                CheckNothing, Check, AtCheck, Publish, Withdrawal, Finish
  <2> QED
    BY <2>1 DEF Completing
<1> QED
  BY <1>1, <1>2 DEF Import
=============================================================================
