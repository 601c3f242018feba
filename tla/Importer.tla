------------------------------- MODULE Importer -------------------------------
(***************************************************************************)
(* The import of one statement (wd_importer_processor.go), which stage      *)
(* "starting iter update withdrawal" of runner.go drives, with the queries  *)
(* of order_query it calls.                                                 *)
(*                                                                          *)
(* A statement is a list of rows, newest first.  A withdrawal row heads the *)
(* rows below it, down to the next withdrawal row: they are the money that  *)
(* was withdrawn.  diff_amount of a withdrawal starts at minus its amount;  *)
(* every row of its group whose order is known is added, and so is the      *)
(* balance that the next withdrawal row, the older one, left in the shop.   *)
(*                                                                          *)
(* Rows are handled in transactions, but diff_amount is incremented outside *)
(* of them: DataQuery (order_query/finance.go) ignores the transaction it   *)
(* is given and uses the connection pool.  A step of this module is what    *)
(* becomes visible at once: an increment, or the commit of a transaction.   *)
(*                                                                          *)
(* A withdrawal is named by its time: a shop has at most one at a time.     *)
(* An order is named by its reference, the empty one included: a team has at *)
(* most one order of a reference.  One import of a shop is active at a time.  *)
(***************************************************************************)
EXTENDS Integers, Sequences, FiniteSetsExt

CONSTANTS Order,       \* order references
          NoOrder,     \* the empty order reference
          AdjType,     \* types of adjustment
          MaxTime,     \* times of rows are 1..MaxTime
          FirstOrder,  \* time of the shop's first order in the system
          Files,       \* the statements that can be imported
          Known,       \* orders that are in the system at the start
          Cancelled,   \* those of Known that are cancelled
          Problems,    \* those of Known that are a problem or a completed return
          Returned,    \* orders with an open return transaction
          Changing,    \* bound: the orders whose status others change
          MaxImport    \* bound: imports begun

Time == 1..MaxTime
NoWd == 0
Ref == Order \cup {NoOrder}
Item == [kind : {"order", "unknown", "withdrawal", "other"},
         order : Ref, type : AdjType,
         amount : Int, after : Int, at : Time]
Adj  == Ref \X AdjType        \* order_adjustments, unique per order and type

ASSUME ImporterAssumption ==
    /\ NoOrder \notin Order
    /\ MaxTime \in Nat /\ MaxImport \in Nat /\ FirstOrder \in Nat
    /\ \A f \in Files : /\ f \in Seq(Item)
                        /\ \A p, q \in DOMAIN f : p < q => f[p].at > f[q].at
    /\ Cancelled \cup Problems \subseteq Known /\ Cancelled \cap Problems = {}
    /\ Known \subseteq Ref /\ Returned \subseteq Ref /\ Changing \subseteq Ref

\* A statement is cut from a ledger: the balance after a row is the balance after
\* the older row and what the row adds, or takes out.
ASSUME LedgerAssumption ==
    \A f \in Files : \A p \in 1..(Len(f) - 1) :
        f[p].after = f[p + 1].after + (IF f[p].kind = "withdrawal" THEN -f[p].amount
                                       ELSE f[p].amount)

VARIABLES
    \* the database
    made,       \* withdrawals that have a row
    diff,       \* their diff_amount
    lost,       \* wd_order_not_founds: <<withdrawal, order reference>>
    valid,      \* wd_valids: the adjustments connected to each withdrawal
    logged,     \* adjustments that have a row
    log,        \* their amount
    fundAt,     \* their fund_at
    orders,     \* status of each order
    fundedAt,   \* wd_fund_at of each order, NoWd while wd_fund is false
    returns,    \* orders whose return transaction is open
    announced,  \* orders whose completion has been published
    \* the import
    pc, file, pos,
    wd,         \* i.wd, NoWd for nil
    counting,   \* what needIncrement answers, from the cached row of wd
    from,       \* i.itemlists holds the handled rows from here on
    adjs,       \* i.adjlists
    imports,    \* imports begun
    \* history of the current group
    missed,     \* rows whose order was not found
    counted     \* rows added to diff_amount

withdrawals == <<made, diff, lost, valid>>
adjustments == <<logged, log, fundAt>>
ordervars   == <<orders, fundedAt, returns, announced>>
cursor      == <<pc, file, pos>>
group       == <<wd, counting, from, adjs>>
groupHist   == <<missed, counted>>
vars == <<withdrawals, adjustments, ordervars, cursor, group, imports, groupHist>>

-----------------------------------------------------------------------------
Row == file[pos]
AtEnd == pos > Len(file)
Handled(p) == file[p].kind \in {"order", "unknown"}   \* the switch of iterateWithdrawal
Group == {p \in from..(pos - 1) : Handled(p)}
Amounts == [p \in DOMAIN file |-> file[p].amount]
Sum(S) == SumFunctionOnSet(Amounts, S)

\* A row that Unknown counts without looking for an order.  A row of another
\* kind that has no reference is looked for: a commission, a compensation.
Nameless(p) == file[p].kind = "unknown" /\ file[p].order = NoOrder

\* The team has an order of the row's reference that is not cancelled.
Found(p) == ~Nameless(p) /\ orders[file[p].order] \notin {"missing", "cancelled"}

TypeOK ==
    /\ made \subseteq Time /\ diff \in [Time -> Int]
    /\ lost \subseteq made \X Ref
    /\ valid \in [Time -> SUBSET logged]
    /\ logged \subseteq Adj /\ log \in [Adj -> Int] /\ fundAt \in [Adj -> Time \cup {NoWd}]
    /\ orders \in [Ref -> {"missing", "cancelled", "open", "problem", "completed"}]
    /\ fundedAt \in [Ref -> made \cup {NoWd}]
    /\ returns \subseteq Returned /\ announced \subseteq Ref
    /\ pc \in {"idle", "item", "log", "blocked", "settle", "commit", "set"}
    /\ file \in Files \cup {<<>>} /\ pos \in 1..(Len(file) + 1)
    /\ wd \in made \cup {NoWd} /\ counting \in BOOLEAN /\ (counting => wd # NoWd)
    /\ from \in 1..pos /\ adjs \subseteq Adj
    /\ imports \in 0..MaxImport
    /\ missed \subseteq Group /\ counted \subseteq from..pos

Init ==
    /\ made = {} /\ diff = [w \in Time |-> 0] /\ lost = {}
    /\ valid = [w \in Time |-> {}]
    /\ logged = {} /\ log = [a \in Adj |-> 0] /\ fundAt = [a \in Adj |-> NoWd]
    /\ orders = [o \in Ref |-> CASE o \in Cancelled -> "cancelled"
                                 [] o \in Problems -> "problem"
                                 [] o \in Known \ (Cancelled \cup Problems) -> "open"
                                 [] OTHER -> "missing"]
    /\ fundedAt = [o \in Ref |-> NoWd]
    /\ returns = Returned /\ announced = {}
    /\ pc = "idle" /\ file = <<>> /\ pos = 1
    /\ wd = NoWd /\ counting = FALSE /\ from = 1 /\ adjs = {}
    /\ imports = 0 /\ missed = {} /\ counted = {}

-----------------------------------------------------------------------------
(* The calls into order_query.                                              *)

\* IncActualAmount, committed at once whatever becomes of the transaction.
Inc(w, amount) == diff' = [diff EXCEPT ![w] = @ + amount]

\* Mutant of LogAdjustment: only rows that are there are written.
LogAdjustmentUpdates(r) ==
    LET a == <<r.order, r.type>> IN
    /\ fundAt' = [fundAt EXCEPT ![a] = IF a \in logged THEN r.at ELSE NoWd]
    /\ log' = [log EXCEPT ![a] = r.amount]
    /\ adjs' = adjs \cup {a}
    /\ UNCHANGED logged

\* LogAdjustment: one row per order and type, written over when it is there.
LogAdjustment(r) ==
    LET a == <<r.order, r.type>> IN
    /\ fundAt' = [fundAt EXCEPT ![a] = IF a \in logged THEN r.at ELSE NoWd]
    /\ logged' = logged \cup {a}
    /\ log' = [log EXCEPT ![a] = r.amount]
    /\ adjs' = adjs \cup {a}

\* wd_total of an order is positive.
Paid(o) == \E a \in logged : a[1] = o /\ log[a] > 0

\* Mutant of HasLost: the withdrawal is not looked at.
HasLostAnywhere(w, o) == \E l \in lost : o \in {l[2], NoOrder}

\* addOrderNotFound looks for a row of this withdrawal and order; an empty
\* reference is left out of gorm's struct condition, so any row will do.
HasLost(w, o) == \E l \in lost : l[1] = w /\ o \in {l[2], NoOrder}
AddOrderNotFound(o) ==
    lost' = IF wd = NoWd \/ HasLost(wd, o) THEN lost ELSE lost \cup {<<wd, o>>}

\* getNextWithdrawal: the oldest withdrawal not older than the first row of
\* the group whose diff_amount is the sum of i.itemlists.  Unknown with an order
\* reference appends its row and so does OrderAdjustment: it is in there twice.
ListAmount == Sum(Group) + Sum({p \in Group : file[p].kind = "unknown" /\ ~Nameless(p)})
First == CHOOSE p \in Group : \A q \in Group : p <= q
NextWithdrawals == {w \in made : w >= file[First].at /\ diff[w] = ListAmount}
NextWithdrawal == IF NextWithdrawals = {} THEN NoWd ELSE Min(NextWithdrawals)

\* The orders Completed completes: those of the group that are open and paid.
\* One that is a problem or a completed return is funded and stays as it is.
GroupOrders == {file[p].order : p \in Group}
CompletedIDs == {o \in GroupOrders : orders[o] = "open" /\ Paid(o)}

-----------------------------------------------------------------------------
(* Lock, of one order or of those of a group, takes the rows with NOWAIT.    *)

\* The orders whose rows the import holds between two steps, and those that
\* its next step works on: an order that is not there has no row to lock.
There == {o \in GroupOrders : orders[o] # "missing"}
Holds == CASE pc = "log" -> {Row.order}
           [] pc = "commit" -> There
           [] OTHER -> {}
Wants == CASE pc = "item" /\ ~AtEnd /\ Handled(pos) /\ Found(pos) -> {Row.order}
           [] pc = "settle" -> There
           [] OTHER -> Holds

-----------------------------------------------------------------------------
Begin ==
    /\ pc = "idle" /\ imports < MaxImport
    /\ imports' = imports + 1
    /\ file' \in Files
    /\ pc' = "item" /\ pos' = 1
    /\ wd' = NoWd /\ counting' = FALSE /\ from' = 1 /\ adjs' = {}
    /\ missed' = {} /\ counted' = {}
    /\ UNCHANGED <<withdrawals, adjustments, ordervars>>

NextRow == pos' = pos + 1 /\ pc' = "item" /\ UNCHANGED file

\* A row whose type iterateWithdrawal has no case for.
SkipRow ==
    /\ pc = "item" /\ ~AtEnd /\ Row.kind = "other"
    /\ NextRow
    /\ UNCHANGED <<withdrawals, adjustments, ordervars, group, imports, groupHist>>

\* Mutant of IncOrder: needIncrement is not asked.
IncOrderAlways ==
    /\ pc = "item" /\ ~AtEnd /\ Handled(pos) /\ Found(pos) /\ wd # NoWd
    /\ Inc(wd, Row.amount)
    /\ counted' = counted \cup {pos}
    /\ pc' = "log"
    /\ UNCHANGED <<made, lost, valid, adjustments, ordervars, file, pos, group, imports, missed>>

\* OrderFund and OrderAdjustment, the order found: the adjustment is logged in
\* the transaction, diff_amount incremented outside of it ...
IncOrder ==
    /\ pc = "item" /\ ~AtEnd /\ Handled(pos) /\ Found(pos) /\ counting
    /\ Inc(wd, Row.amount)
    /\ counted' = counted \cup {pos}
    /\ pc' = "log"
    /\ UNCHANGED <<made, lost, valid, adjustments, ordervars, file, pos, group, imports, missed>>

\* ... and then the transaction commits.
CommitOrder ==
    /\ \/ pc = "log"
       \/ pc = "item" /\ ~AtEnd /\ Handled(pos) /\ Found(pos) /\ ~counting
    /\ LogAdjustment(Row)
    /\ NextRow
    /\ UNCHANGED <<withdrawals, ordervars, wd, counting, from, imports, groupHist>>

\* OrderFund and OrderAdjustment, the order not found: diff_amount stays.
OrderNotFound ==
    /\ pc = "item" /\ ~AtEnd /\ Handled(pos) /\ ~Nameless(pos) /\ ~Found(pos)
    /\ AddOrderNotFound(Row.order)
    /\ missed' = missed \cup {pos}
    /\ NextRow
    /\ UNCHANGED <<made, diff, valid, adjustments, ordervars, group, imports, counted>>

\* Unknown with an empty order reference: the row is recorded as lost and
\* counted all the same.
UnknownRow == pc = "item" /\ ~AtEnd /\ Nameless(pos)
Unknown ==
    /\ UnknownRow
    /\ \/ /\ ~counting
          /\ AddOrderNotFound(NoOrder)
          /\ UNCHANGED <<diff, counted>>
       \/ /\ counting /\ HasLost(wd, NoOrder)
          /\ Inc(wd, Row.amount)
          /\ counted' = counted \cup {pos}
          /\ UNCHANGED lost
    /\ NextRow
    /\ UNCHANGED <<made, valid, adjustments, ordervars, group, imports, missed>>

\* addOrderNotFound has updated the row of the withdrawal in the transaction,
\* and the increment waits, on another connection, for the lock on that row.
UnknownBlocks ==
    /\ UnknownRow /\ counting /\ ~HasLost(wd, NoOrder)
    /\ pc' = "blocked"
    /\ UNCHANGED <<withdrawals, adjustments, ordervars, file, pos, group, imports, groupHist>>

-----------------------------------------------------------------------------
(* Check, at every withdrawal row and at the end of the statement.          *)

\* Mutant of Sisa: the balance of the older withdrawal is left out.
SisaNone == 0

AtCheck == pc = "item" /\ (~AtEnd => Row.kind = "withdrawal")
Candidate == IF wd # NoWd THEN wd ELSE NextWithdrawal
Sisa == IF AtEnd THEN 0 ELSE Row.after

CheckNothing ==
    /\ AtCheck
    /\ Group # {} => Candidate = NoWd
    /\ pc' = "set"
    /\ UNCHANGED <<withdrawals, adjustments, ordervars, file, pos, group, imports, groupHist>>

\* wdIncBalanceSisa.
Check ==
    /\ AtCheck
    /\ Group # {} /\ Candidate # NoWd
    /\ wd' = Candidate
    /\ Inc(Candidate, Sisa)
    /\ pc' = "settle"
    /\ UNCHANGED <<made, lost, valid, adjustments, ordervars, file, pos,
                   counting, from, adjs, imports, groupHist>>

\* Completed publishes before its transaction commits.
Publish ==
    /\ pc = "settle"
    /\ announced' = announced \cup CompletedIDs
    /\ pc' = "commit"
    /\ UNCHANGED <<withdrawals, adjustments, orders, fundedAt, returns, file, pos,
                   group, imports, groupHist>>

\* The transaction of Completed and connectAdjToWithdrawal commits.
Completed ==
    /\ orders' = [o \in Ref |-> IF o \in CompletedIDs THEN "completed" ELSE orders[o]]
    /\ fundedAt' = [o \in Ref |-> IF o \in There THEN wd ELSE fundedAt[o]]
    /\ returns' = returns \ CompletedIDs
\* Mutant of ConnectAdj: an adjustment that has a date keeps it.
ConnectAdjOnce ==
    /\ valid' = IF adjs = {} THEN valid ELSE [valid EXCEPT ![wd] = adjs]
    /\ fundAt' = [a \in Adj |-> IF a \in adjs /\ fundAt[a] = NoWd THEN wd ELSE fundAt[a]]
ConnectAdj ==
    /\ valid' = IF adjs = {} THEN valid ELSE [valid EXCEPT ![wd] = adjs]
    /\ fundAt' = [a \in Adj |-> IF a \in adjs THEN wd ELSE fundAt[a]]
CommitSettle ==
    /\ pc = "commit"
    /\ Completed /\ ConnectAdj
    /\ pc' = "set"
    /\ UNCHANGED <<made, diff, lost, logged, log, announced, file, pos,
                   group, imports, groupHist>>

\* Mutant of SetWithdrawal: the diff_amount of a row that is there is kept.
SetWithdrawalKeeps(r) ==
    /\ made' = made \cup {r.at}
    /\ diff' = IF r.at \in made THEN diff ELSE [diff EXCEPT ![r.at] = -r.amount]
    /\ wd' = r.at
    /\ counting' = (r.at \notin made \/ diff[r.at] # 0)

\* SetWithdrawal: a settled row is kept, another one starts again; the row that
\* is returned, and cached, is the one from before the update.
SetWithdrawal(r) ==
    /\ made' = made \cup {r.at}
    /\ diff' = IF r.at \in made /\ diff[r.at] = 0 THEN diff
               ELSE [diff EXCEPT ![r.at] = -r.amount]
    /\ wd' = r.at
    /\ counting' = (r.at \notin made \/ diff[r.at] # 0)

\* Mutants of Withdrawal: i.adjlists is not reset; the row is not left behind.
WithdrawalKeepsAdjs ==
    /\ pc = "set" /\ ~AtEnd
    /\ IF Row.at < FirstOrder
       THEN wd' = NoWd /\ counting' = FALSE /\ UNCHANGED <<made, diff>>
       ELSE SetWithdrawal(Row)
    /\ from' = pos + 1 /\ missed' = {} /\ counted' = {}
    /\ NextRow
    /\ UNCHANGED <<lost, valid, adjs, adjustments, ordervars, imports>>
WithdrawalStays ==
    /\ pc = "set" /\ ~AtEnd
    /\ IF Row.at < FirstOrder
       THEN wd' = NoWd /\ counting' = FALSE /\ UNCHANGED <<made, diff>>
       ELSE SetWithdrawal(Row)
    /\ from' = pos /\ adjs' = {} /\ missed' = {} /\ counted' = {}
    /\ pc' = "item"
    /\ UNCHANGED <<lost, valid, adjustments, ordervars, imports, file, pos>>

Withdrawal ==
    /\ pc = "set" /\ ~AtEnd
    /\ IF Row.at < FirstOrder
       THEN wd' = NoWd /\ counting' = FALSE /\ UNCHANGED <<made, diff>>
       ELSE SetWithdrawal(Row)
    /\ from' = pos + 1 /\ adjs' = {} /\ missed' = {} /\ counted' = {}
    /\ NextRow
    /\ UNCHANGED <<lost, valid, adjustments, ordervars, imports>>

\* The processor is gone.
Discard ==
    /\ pc' = "idle" /\ file' = <<>> /\ pos' = 1
    /\ wd' = NoWd /\ counting' = FALSE /\ from' = 1 /\ adjs' = {}
    /\ missed' = {} /\ counted' = {}

Finish ==
    /\ pc = "set" /\ AtEnd
    /\ Discard
    /\ UNCHANGED <<withdrawals, adjustments, ordervars, imports>>

\* Any call fails, the run is stopped or the process dies: the transaction is
\* rolled back.  An increment that was waiting goes through, unless its
\* connection went too.
Abort ==
    /\ pc # "idle"
    /\ Discard
    /\ \/ UNCHANGED diff
       \/ pc = "blocked" /\ Inc(wd, Row.amount)
    /\ UNCHANGED <<made, lost, valid, adjustments, ordervars, imports>>

\* Somebody enters the order, or makes it a problem or a completed return.
OrderChanges(o) ==
    /\ \/ orders[o] = "missing" /\ orders' = [orders EXCEPT ![o] = "open"]
       \/ orders[o] = "open" /\ o \notin Holds /\ orders' = [orders EXCEPT ![o] = "problem"]
    /\ UNCHANGED <<withdrawals, adjustments, fundedAt, returns, announced,
                   cursor, group, imports, groupHist>>

Import ==
    \/ SkipRow \/ IncOrder \/ CommitOrder \/ OrderNotFound \/ Unknown \/ UnknownBlocks
    \/ CheckNothing \/ Check \/ Publish \/ CommitSettle \/ Withdrawal \/ Finish

Next == Begin \/ Import \/ Abort \/ \E o \in Changing : OrderChanges(o)

Spec == Init /\ [][Next]_vars

\* The goroutine of the import keeps running.
FairSpec == Spec /\ WF_vars(Import)

-----------------------------------------------------------------------------
(* Properties.                                                              *)

\* The withdrawal row that heads the group.
Head1 == file[from - 1]

\* While rows of a withdrawal are counted, its diff_amount is minus its amount
\* plus the rows counted so far, whatever earlier imports of the withdrawal
\* left there: SetWithdrawal starts again, and needIncrement, which reads the
\* cached row, does not stop when the running difference passes zero.
DiffTracksStatement ==
    counting /\ pc \in {"item", "log"} =>
        /\ diff[wd] = Sum(counted) - Head1.amount
        /\ counted = {p \in from..(IF pc = "log" THEN pos ELSE pos - 1) :
                        Handled(p) /\ p \notin missed}

\* A withdrawal counted down to the withdrawal before it ends with the balance
\* it left in the shop, less the rows whose order was not found and the rows
\* of a type the import does not know.
Balanced ==
    counting /\ pc = "settle" /\ ~AtEnd =>
        diff[wd] = Head1.after - Sum(missed) - Sum({p \in from..(pos - 1) : ~Handled(p)})

\* Once a group is settled, every row of it has left its trace: the adjustment
\* of a known order is connected to the withdrawal and dated by it, the order is
\* funded by it and, if paid, not left open: it is completed, or was a problem or
\* a completed return when the group was settled.  Nothing else is connected to
\* the withdrawal.
GroupSettled ==
    pc = "set" /\ wd # NoWd /\ Group # {} =>
        /\ \A p \in Group \ missed : ~Nameless(p) =>
            LET a == <<file[p].order, file[p].type>> IN
            /\ a \in valid[wd] /\ fundAt[a] = wd
            /\ fundedAt[file[p].order] = wd
            /\ Paid(file[p].order) => orders[file[p].order] # "open"
        /\ adjs # {} => valid[wd] = {<<file[p].order, file[p].type>> :
                                        p \in {q \in Group \ missed : ~Nameless(q)}}

\* A row of a headed group that names an order which was not found is listed
\* under its withdrawal, and so is one that has no reference, a commission or a
\* compensation, unless another row is listed under that withdrawal: it is taken
\* for the same.  The list never names a withdrawal for an order that is in none
\* of its groups.
LostListed ==
    /\ counting => \A p \in missed : \E l \in lost :
           l[1] = wd /\ (l[2] = file[p].order \/ file[p].order = NoOrder)
    /\ \A l \in lost : \E f \in Files : \E p, q \in DOMAIN f :
            p < q /\ f[p].kind = "withdrawal" /\ f[p].at = l[1] /\ f[q].order = l[2]
            /\ \A k \in (p + 1)..q : f[k].kind # "withdrawal"

\* A withdrawal whose difference is 0 when its row is met is not counted again:
\* whatever its rows are, and whatever earlier imports left, the difference stays
\* 0 down to the next withdrawal row.  The balance that row left is added all the
\* same, so that the difference of a withdrawal settled before is wrong by it.
SettledAgain ==
    from > 1 /\ wd = Head1.at /\ ~counting =>
        diff[wd] = IF pc \in {"settle", "commit", "set"} /\ Group # {} THEN Sisa ELSE 0

\* What any number of imports owe one row, an adjustment of type t of order o
\* below the withdrawal made at w: what GroupSettled says of it.
Settled(w, o, t) ==
    IF orders[o] \in {"missing", "cancelled"} THEN <<w, o>> \in lost
    ELSE /\ <<o, t>> \in valid[w] /\ fundAt[<<o, t>>] = w
         /\ fundedAt[o] = w
         /\ Paid(o) => orders[o] # "open"

\* Row h of statement f is a withdrawal that is imported, and the handled rows
\* below it.
Accepted(f, h) == f[h].kind = "withdrawal" /\ f[h].at >= FirstOrder
Under(f, h) == {q \in (h + 1)..Len(f) : /\ f[q].kind \in {"order", "unknown"}
                                        /\ \A k \in (h + 1)..q : f[k].kind # "withdrawal"}

\* The statements agree on that row: none shows order o but below the withdrawal
\* made at w; each that shows that withdrawal shows the row; and none has a row
\* of a known order, not newer than w, that no imported withdrawal heads:
\* getNextWithdrawal may take w for the withdrawal of such a row, and
\* connectAdjToWithdrawal would connect that row in the place of this one.
Whole(w, o, t) == \A g \in Files :
    /\ \A p \in DOMAIN g : g[p].kind \in {"order", "unknown"} =>
          /\ g[p].order = o =>
                \E k \in DOMAIN g : Accepted(g, k) /\ g[k].at = w /\ p \in Under(g, k)
          /\ g[p].order \in Known \ Cancelled /\ g[p].at <= w =>
                \E k \in DOMAIN g : Accepted(g, k) /\ p \in Under(g, k)
    /\ \A k \in DOMAIN g : Accepted(g, k) /\ g[k].at = w =>
          \E p \in Under(g, k) : g[p].order = o /\ g[p].type = t

\* An import ends, unless it waits for a lock of its own.
ImportEnds == pc # "idle" ~> pc \in {"idle", "blocked"}
=============================================================================
