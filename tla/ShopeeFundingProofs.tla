------------------------- MODULE ShopeeFundingProofs -------------------------
(***************************************************************************)
(* What holds of the withdrawals that ShopeeFunding returns, for all        *)
(* requests: their rows add up to them, and in orderly files they are the   *)
(* rows really paid out.                                                    *)
(***************************************************************************)
EXTENDS ShopeeFunding, Sums, SequenceTheorems

-----------------------------------------------------------------------------
(* Amounts.                                                                 *)

Weight == [r \in Items |-> items[r].amount]
Share(k) == [r \in Items |-> result[k].times[r] * items[r].amount]

\* The rows read, and the withdrawals returned for them.
Tables ==
    /\ items \in Seq(Row)
    /\ result \in Seq([wd : Items, times : [Items -> Nat]])

\* What the rows and the withdrawals returned consist of.
LEMMA TableTypes ==
  ASSUME Tables
  PROVE  /\ Len(items) \in Nat /\ Items = 1..Len(items) /\ IsFiniteSet(Items)
         /\ \A r \in Items : items[r] \in Row
         /\ \A S \in SUBSET Items : IsFiniteSet(S)
         /\ Weight \in [Items -> Int]
         /\ \A k \in DOMAIN result :
               /\ result[k].wd \in Items
               /\ result[k].times \in [Items -> Nat]
               /\ Share(k) \in [Items -> Int]
         /\ DOMAIN result = 1..Len(result) /\ Len(result) \in Nat
<1>1. Len(items) \in Nat /\ Items = 1..Len(items) /\ \A r \in Items : items[r] \in Row
  BY DEF Tables, Items
<1>2. IsFiniteSet(Items)
  BY <1>1, FS_Interval
<1>3. \A S \in SUBSET Items : IsFiniteSet(S)
  BY <1>2, FS_Subset
<1>4. \A r \in Items : items[r].amount \in Int
  BY <1>1 DEF Row
<1>5. Weight \in [Items -> Int]
  BY <1>4 DEF Weight
<1>6. DOMAIN result = 1..Len(result) /\ Len(result) \in Nat
      /\ \A k \in DOMAIN result : result[k] \in [wd : Items, times : [Items -> Nat]]
  <2> DEFINE R == [wd : Items, times : [Items -> Nat]]
  <2>1. result \in Seq(R)
    BY DEF Tables
  <2> HIDE DEF R
  <2>2. DOMAIN result = 1..Len(result) /\ Len(result) \in Nat /\ \A k \in DOMAIN result : result[k] \in R
    BY <2>1
  <2> QED
    BY <2>2 DEF R
<1>7. ASSUME NEW k \in DOMAIN result
      PROVE  /\ result[k].wd \in Items
             /\ result[k].times \in [Items -> Nat]
             /\ Share(k) \in [Items -> Int]
  <2>1. result[k].wd \in Items /\ result[k].times \in [Items -> Nat]
    BY <1>6
  <2>2. \A r \in Items : result[k].times[r] * items[r].amount \in Int
    BY <1>4, <2>1
  <2> QED
    BY <2>1, <2>2 DEF Share
<1> QED
  BY <1>1, <1>2, <1>3, <1>5, <1>6, <1>7

\* What the sums of the model are sums of.
LEMMA AmountIsSumOf ==
  ASSUME NEW D, NEW w \in [D -> Int], NEW S \in SUBSET D, IsFiniteSet(S),
         \A r \in S : items[r].amount = w[r]
  PROVE  Amount(S) = SumFunctionOnSet(w, S)
<1> DEFINE Eq(h) == h = [s \in SUBSET S |-> IF s = {} THEN 0
                                            ELSE items[Pick(s)].amount + h[s \ {Pick(s)}]]
           it == CHOOSE h : Eq(h)
<1>1. PICK h : IntegerFold(w, S, h)
  BY FoldsExist
<1>2. \A s \in SUBSET S : s # {} => w[Pick(s)] = items[Pick(s)].amount
  BY DEF Pick
<1>3. Eq(h)
  BY <1>1, <1>2 DEF IntegerFold, FoldsTo
<1>4. Eq(it)
  <2> HIDE DEF Eq
  <2> QED
    BY <1>3
<1>5. FoldsTo(w, S, it)
  <2> HIDE DEF it
  <2> QED
    BY <1>2, <1>4 DEF FoldsTo
<1>6. Amount(S) = it[S]
  BY DEF Amount, MapThenSumSet, MapThenFoldSet, Pick
<1> QED
  <2> HIDE DEF it
  <2> QED
    BY <1>5, <1>6, SumFolds

\* The amount of some rows is the sum of what each weighs.
LEMMA AmountIsSum ==
  ASSUME Tables, NEW S \in SUBSET Items
  PROVE  Amount(S) = SumFunctionOnSet(Weight, S)
<1>1. /\ IsFiniteSet(S) /\ Weight \in [Items -> Int]
      /\ \A r \in S : items[r].amount = Weight[r]
  BY TableTypes DEF Weight
<1> QED
  BY <1>1, AmountIsSumOf

\* What is paid out is a sum of shares.
LEMMA PaidOutIsSum ==
  ASSUME Tables, NEW k \in DOMAIN result
  PROVE  PaidOut(k) = SumFunctionOnSet(Share(k), Orders)
<1> DEFINE Paid(r) == result[k].times[r] * items[r].amount
           Eq(h) == h = [s \in SUBSET Orders |-> IF s = {} THEN 0
                                                ELSE Paid(Pick(s)) + h[s \ {Pick(s)}]]
           it == CHOOSE h : Eq(h)
<1>0. Orders \in SUBSET Items /\ IsFiniteSet(Orders) /\ Share(k) \in [Items -> Int]
  BY TableTypes DEF Orders
<1>1. PICK h : IntegerFold(Share(k), Orders, h)
  BY <1>0, FoldsExist
<1>2. \A s \in SUBSET Orders : s # {} => Share(k)[Pick(s)] = Paid(Pick(s))
  BY <1>0 DEF Pick, Share
<1>3. Eq(h)
  <2> HIDE DEF Paid
  <2> QED
    BY <1>1, <1>2 DEF IntegerFold, FoldsTo
<1>4. Eq(it)
  <2> HIDE DEF Eq
  <2> QED
    BY <1>3
<1>5. FoldsTo(Share(k), Orders, it)
  <2> HIDE DEF it, Paid
  <2> QED
    BY <1>2, <1>4 DEF FoldsTo
<1>6. PaidOut(k) = it[Orders]
  BY DEF PaidOut, MapThenSumSet, MapThenFoldSet, Pick
<1> QED
  <2> HIDE DEF it
  <2> QED
    BY <1>0, <1>5, <1>6, SumFolds

\* The amount of the orders' rows among some.
LEMMA AmountOfPart ==
  ASSUME Tables, NEW S \in SUBSET Items, NEW u \in [Items -> Int],
         \A r \in Items : u[r] = IF r \in S THEN Weight[r] ELSE 0
  PROVE  SumFunctionOnSet(u, Orders) = Amount(Orders \cap S)
<1>1. /\ Weight \in [Items -> Int] /\ Orders \in SUBSET Items /\ IsFiniteSet(Orders)
  BY TableTypes DEF Orders
<1>2. SumFunctionOnSet(u, Orders) = SumFunctionOnSet(Weight, Orders \cap S)
  BY <1>1, SumOfPart
<1> QED
  BY <1>1, <1>2, AmountIsSum

\* What is paid out of rows that were given once, or in two parts.
GivenOnce ==
  Tables => \A k \in DOMAIN result, S \in SUBSET Items :
      result[k].times = Once(S) => PaidOut(k) = Amount(Orders \cap S) /\ Got(k) = S

\* Rows given once: their orders' rows are paid out, and they are what it got.
LEMMA SharesOnce == GivenOnce
<1> SUFFICES ASSUME Tables, NEW k \in DOMAIN result, NEW S \in SUBSET Items,
                    result[k].times = Once(S)
             PROVE  PaidOut(k) = Amount(Orders \cap S) /\ Got(k) = S
  BY DEF GivenOnce
<1>1. Weight \in [Items -> Int] /\ Share(k) \in [Items -> Int]
  BY TableTypes
<1>2. \A r \in Items : Share(k)[r] = IF r \in S THEN Weight[r] ELSE 0
  <2> SUFFICES ASSUME NEW r \in Items PROVE Share(k)[r] = IF r \in S THEN Weight[r] ELSE 0
    OBVIOUS
  <2>1. Share(k)[r] = (IF r \in S THEN 1 ELSE 0) * Weight[r] /\ Weight[r] \in Int
    BY <1>1 DEF Share, Once, Weight
  <2> QED
    BY <2>1
<1>3. SumFunctionOnSet(Share(k), Orders) = Amount(Orders \cap S)
  BY <1>1, <1>2, AmountOfPart
<1>4. Got(k) = S
  BY DEF Got, Once
<1> QED
  BY <1>3, <1>4, PaidOutIsSum

GivenTwice ==
  Tables => \A k \in DOMAIN result, S \in SUBSET Items, T \in SUBSET Items :
      (\A r \in Items : result[k].times[r] = Once(S)[r] + Once(T)[r]) =>
          PaidOut(k) = Amount(Orders \cap S) + Amount(Orders \cap T) /\ Got(k) = S \cup T

\* Rows given in two parts: both are paid out.
LEMMA SharesTwice == GivenTwice
<1> SUFFICES ASSUME Tables, NEW k \in DOMAIN result, NEW S \in SUBSET Items, NEW T \in SUBSET Items,
                    \A r \in Items : result[k].times[r] = Once(S)[r] + Once(T)[r]
             PROVE  /\ PaidOut(k) = Amount(Orders \cap S) + Amount(Orders \cap T)
                    /\ Got(k) = S \cup T
  BY DEF GivenTwice
<1> DEFINE Part(U) == [r \in Items |-> IF r \in U THEN Weight[r] ELSE 0]
<1>1. /\ Weight \in [Items -> Int] /\ Share(k) \in [Items -> Int]
      /\ Orders \in SUBSET Items /\ IsFiniteSet(Orders)
  BY TableTypes DEF Orders
<1>2. \A U \in SUBSET Items : Part(U) \in [Items -> Int]
  BY <1>1
<1>3. \A r \in Items : Share(k)[r] = Part(S)[r] + Part(T)[r]
  <2> SUFFICES ASSUME NEW r \in Items PROVE Share(k)[r] = Part(S)[r] + Part(T)[r]
    OBVIOUS
  <2>1. /\ Share(k)[r] = ((IF r \in S THEN 1 ELSE 0) + (IF r \in T THEN 1 ELSE 0)) * Weight[r]
        /\ Weight[r] \in Int
    BY <1>1 DEF Share, Once, Weight
  <2> QED
    BY <2>1
<1>4. /\ SumFunctionOnSet(Part(S), Orders) = Amount(Orders \cap S)
      /\ SumFunctionOnSet(Part(T), Orders) = Amount(Orders \cap T)
  BY <1>2, AmountOfPart
<1>5. Got(k) = S \cup T
  BY DEF Got, Once
<1>6. SumFunctionOnSet(Share(k), Orders)
        = SumFunctionOnSet(Part(S), Orders) + SumFunctionOnSet(Part(T), Orders)
  <2>1. Part(S) \in [Items -> Int] /\ Part(T) \in [Items -> Int]
    BY <1>2
  <2> HIDE DEF Part
  <2> QED
    BY <1>1, <1>3, <2>1, SumOfBoth
<1> HIDE DEF Part
<1> QED
  BY <1>4, <1>5, <1>6, PaidOutIsSum

\* Both hold of the next state, too.
LEMMA SharesNext == GivenOnce' /\ GivenTwice'
BY SharesOnce, SharesTwice, PTL

-----------------------------------------------------------------------------
(* The inductive invariant.                                                 *)

\* A withdrawal as it is traced: it got its rows once, and they add up to it.
Backed(k) ==
    /\ result[k].times = Once(Got(k))
    /\ Amount(Got(k)) = Due(result[k].wd)
    /\ ~book.multi => Got(k) \subseteq Orders

FundInv ==
    /\ book \in Books
    /\ pc \in {"read", "sort", "rest", "trace", "replace", "done", "error"}
    /\ file \in Nat \ {0} /\ next \in Nat \ {0}
    /\ Tables
    /\ pc \in {"read", "sort", "rest"} => result = <<>>
    /\ pc \in {"trace", "replace"} => \A k \in DOMAIN result : Backed(k)
    /\ AddsUp

\* What AddsUp says of one withdrawal.
OnlyRefund(k) ==
    Cardinality(Funds(k)) = 1 /\ \A r \in Funds(k) :
        IsRefund(items[r]) /\ r # Newest(Got(k)) /\ result[k].times[r] = 1
AddsUpAt(k) == Funds(k) = {} \/ OnlyRefund(k) => PaidOut(k) = Due(result[k].wd)

\* A refund is the only row of a withdrawal that is not of an order.
LEMMA RefundTakenOut ==
  ASSUME Tables, NEW S \in SUBSET Items, NEW r \in S, IsFund(items[r]),
         \A q \in S : IsFund(items[q]) => q = r
  PROVE  Amount(Orders \cap S) = Amount(S) - items[r].amount
<1>1. Orders \cap S = S \ {r}
  BY DEF Orders
<1>2. /\ Weight \in [Items -> Int] /\ IsFiniteSet(S) /\ IsFiniteSet(S \ {r})
      /\ S \ {r} \in SUBSET Items
  BY TableTypes
<1>3. SumFunctionOnSet(Weight, S) = Weight[r] + SumFunctionOnSet(Weight, S \ {r})
  BY <1>2, SumWithout
<1>4. SumFunctionOnSet(Weight, S \ {r}) \in Int
  BY <1>2, SumSteps
<1>5. Weight[r] = items[r].amount /\ Weight[r] \in Int
  BY <1>2 DEF Weight
<1>6. /\ Amount(S) = SumFunctionOnSet(Weight, S)
      /\ Amount(S \ {r}) = SumFunctionOnSet(Weight, S \ {r})
  BY <1>2, AmountIsSum
<1>7. Amount(Orders \cap S) = Amount(S \ {r})
  BY <1>1
<1> QED
  BY <1>3, <1>4, <1>5, <1>6, <1>7

-----------------------------------------------------------------------------
(* Replacing the refunds.                                                   *)

\* A withdrawal without a refund to replace: a refund on top is no case of
\* AddsUp.
LEMMA KeptAddsUp ==
  ASSUME Tables, ReplaceFailed, NEW k \in DOMAIN result, Backed(k), ~HasRefund(k),
         Tables', NEW n \in DOMAIN result',
         result'[n] = [wd |-> result[k].wd, times |-> WithFailed(k)]
  PROVE  AddsUpAt(n)'
<1> SUFFICES ASSUME NEW S, S = Got(k) PROVE AddsUpAt(n)'
  OBVIOUS
<1>1. items' = items /\ book' = book
  BY DEF ReplaceFailed
<1>2. S \in SUBSET Items /\ result'[n].times = Once(S)'
  BY <1>1 DEF WithFailed, Backed, Got, Once, Items
<1>3. PaidOut(n)' = Amount(Orders \cap S)' /\ Got(n)' = S
  <2>1. S \in SUBSET Items'
    BY <1>1, <1>2 DEF Items
  <2> QED
    BY <1>2, <2>1, SharesNext DEF GivenOnce
<1>4. PaidOut(n)' = Amount(Orders \cap S)
  BY <1>1, <1>3 DEF Amount, MapThenSumSet, MapThenFoldSet, Orders, Items
<1>5. Funds(n)' = Funds(k)
  BY <1>1, <1>3 DEF Funds
<1>6. CASE Funds(k) = {}
  <2>1. Orders \cap S = S
    BY <1>2, <1>6 DEF Funds, Orders
  <2>2. PaidOut(n)' = Due(result[k].wd)
    BY <1>4, <2>1 DEF Backed
  <2> QED
    BY <1>1, <2>2 DEF AddsUpAt, Due
<1>7. CASE Funds(k) # {}
  <2> SUFFICES ASSUME OnlyRefund(n)' PROVE FALSE
    BY <1>5, <1>7 DEF AddsUpAt
  <2>1. PICK r : Funds(k) = {r}
    <3>1. IsFiniteSet(Funds(k)) /\ Cardinality(Funds(k)) = 1
      BY <1>5, TableTypes DEF OnlyRefund, Funds, Got
    <3> QED
      BY <3>1, FS_Singleton
  <2>2. IsRefund(items[r]) /\ r # Newest(S) /\ r \in S
    BY <1>1, <1>3, <1>5, <2>1 DEF OnlyRefund, Newest, Funds
  <2>3. {q \in S : IsRefund(items[q])} = {r}
    BY <2>1, <2>2 DEF Funds, IsRefund
  <2>4. Refund(k) = r
    <3>1. Items = 1..Len(items) /\ Len(items) \in Nat
      BY TableTypes
    <3>2. Min({r}) \in {r}
      BY <1>2, <2>2, <3>1, MinIsThere
    <3> QED
      BY <2>3, <3>2 DEF Refund, Newest
  <2> QED
    BY <2>2, <2>4 DEF HasRefund
<1> QED
  BY <1>6, <1>7

\* A withdrawal with the rows of a failed one: its refund is worth just these.
LEMMA ReplacedAddsUp ==
  ASSUME Tables, ReplaceFailed, \A k \in DOMAIN result : Backed(k),
         NEW k \in DOMAIN result, HasRefund(k), FailedOf(items[Refund(k)].amount) # {},
         Tables', NEW n \in DOMAIN result',
         result'[n] = [wd |-> result[k].wd, times |-> WithFailed(k)]
  PROVE  AddsUpAt(n)'
<1> SUFFICES ASSUME NEW r, r = Refund(k),
                    NEW f, f = Oldest(FailedOf(items[r].amount)),
                    NEW S, S = Got(k), NEW T, T = Got(f)
             PROVE  AddsUpAt(n)'
  OBVIOUS
<1>1. items' = items /\ book' = book
  BY DEF ReplaceFailed
<1>2. f \in DOMAIN result /\ Due(result[f].wd) = items[r].amount
  <2>1. /\ DOMAIN result = 1..Len(result) /\ Len(result) \in Nat
        /\ FailedOf(items[r].amount) \in SUBSET (1..Len(result))
    BY TableTypes DEF FailedOf
  <2>2. f \in FailedOf(items[r].amount)
    BY <2>1, MaxIsThere DEF Oldest
  <2> QED
    BY <2>2 DEF FailedOf
<1>3. r \in S /\ IsRefund(items[r])
  <2>1. /\ Items = 1..Len(items) /\ Len(items) \in Nat
        /\ {q \in S : IsRefund(items[q])} \in SUBSET (1..Len(items))
        /\ {q \in S : IsRefund(items[q])} # {}
    BY TableTypes DEF HasRefund, Got
  <2>2. r \in {q \in S : IsRefund(items[q])}
    BY <2>1, MinIsThere DEF Refund, Newest
  <2> QED
    BY <2>2
<1>4. S \in SUBSET Items /\ T \in SUBSET Items
  BY DEF Got
<1>5. result'[n].times = [q \in Items |-> result[k].times[q] + result[f].times[q]]
  BY DEF WithFailed
<1>6. result[k].times = Once(S) /\ result[f].times = Once(T)
  BY <1>2 DEF Backed
<1>7. \A q \in Items' : result'[n].times[q] = Once(S)'[q] + Once(T)'[q]
  BY <1>1, <1>5, <1>6 DEF Once, Items
<1>8. PaidOut(n)' = Amount(Orders \cap S)' + Amount(Orders \cap T)' /\ Got(n)' = S \cup T
  <2>1. S \in SUBSET Items' /\ T \in SUBSET Items'
    BY <1>1, <1>4 DEF Items
  <2> QED
    <3>1. \A U \in SUBSET Items', V \in SUBSET Items' :
             (\A q \in Items' : result'[n].times[q] = Once(U)'[q] + Once(V)'[q]) =>
                 PaidOut(n)' = Amount(Orders \cap U)' + Amount(Orders \cap V)' /\ Got(n)' = U \cup V
      BY SharesNext DEF GivenTwice
    <3> QED
      BY <1>7, <2>1, <3>1
<1>9. PaidOut(n)' = Amount(Orders \cap S) + Amount(Orders \cap T)
  BY <1>1, <1>8 DEF Amount, MapThenSumSet, MapThenFoldSet, Orders, Items
<1>10. Funds(n)' = {q \in S \cup T : IsFund(items[q])}
  BY <1>1, <1>8 DEF Funds
<1>11. r \in Funds(n)'
  BY <1>3, <1>10 DEF IsRefund
<1> SUFFICES ASSUME OnlyRefund(n)' PROVE (PaidOut(n) = Due(result[n].wd))'
  BY <1>11 DEF AddsUpAt
<1>12. Funds(n)' = {r}
  <2>1. IsFiniteSet(Funds(n)')
    BY <1>4, <1>10, TableTypes
  <2>2. PICK q : Funds(n)' = {q}
    BY <2>1, FS_Singleton DEF OnlyRefund
  <2> QED
    BY <1>11, <2>2
<1>13. r \notin T
  <2>1. result'[n].times[r] = 1
    BY <1>12 DEF OnlyRefund
  <2>2. r \in Items
    BY <1>3, <1>4
  <2> QED
    BY <1>1, <1>3, <1>7, <2>1, <2>2 DEF Once, Items
<1>14. Amount(Orders \cap S) = Amount(S) - items[r].amount
  BY <1>3, <1>4, <1>10, <1>12, RefundTakenOut DEF IsRefund
<1>15. Orders \cap T = T
  BY <1>4, <1>10, <1>12, <1>13 DEF Orders
<1>16. Amount(S) = Due(result[k].wd) /\ Amount(T) = items[r].amount
  BY <1>2 DEF Backed
<1>17. items[r].amount \in Int /\ Due(result[k].wd) \in Int
  <2>1. r \in Items /\ result[k].wd \in Items /\ \A q \in Items : items[q].amount \in Int
    BY <1>3, <1>4, TableTypes DEF Row
  <2> QED
    BY <2>1 DEF Due, Abs
<1>18. Due(result[n].wd)' = Due(result[k].wd)
  BY <1>1 DEF Due
<1>19. PaidOut(n)' = Due(result[k].wd)
  <2>1. Amount(Orders \cap T) = items[r].amount
    BY <1>15, <1>16
  <2>2. Amount(Orders \cap S) = Due(result[k].wd) - items[r].amount
    BY <1>14, <1>16
  <2> QED
    BY <1>9, <1>17, <2>1, <2>2
<1> QED
  BY <1>18, <1>19

\* With the rows of a failed withdrawal it is a withdrawal of the table still.
LEMMA WithFailedType ==
  ASSUME Tables, NEW k \in DOMAIN result,
         HasRefund(k) => FailedOf(items[Refund(k)].amount) # {}
  PROVE  /\ result[k].wd \in Items
         /\ WithFailed(k) \in [Items -> Nat]
<1>1. /\ \A j \in DOMAIN result : result[j].wd \in Items /\ result[j].times \in [Items -> Nat]
      /\ DOMAIN result = 1..Len(result) /\ Len(result) \in Nat
  BY TableTypes
<1>2. CASE HasRefund(k)
  <2> SUFFICES ASSUME NEW f, f = Oldest(FailedOf(items[Refund(k)].amount))
               PROVE  WithFailed(k) \in [Items -> Nat]
    BY <1>1
  <2>1. FailedOf(items[Refund(k)].amount) \in SUBSET (1..Len(result))
    BY <1>1 DEF FailedOf
  <2>2. f \in DOMAIN result
    BY <1>1, <1>2, <2>1, MaxIsThere DEF Oldest
  <2>3. WithFailed(k) = [r \in Items |-> result[k].times[r] + result[f].times[r]]
    BY <1>2 DEF WithFailed
  <2> QED
    BY <1>1, <2>2, <2>3
<1>3. CASE ~HasRefund(k)
  BY <1>1, <1>3 DEF WithFailed
<1> QED
  BY <1>1, <1>2, <1>3

-----------------------------------------------------------------------------
(* Rows.                                                                    *)

\* What is read of a file are rows.
LEMMA KeptAreRows ==
  ASSUME NEW f \in File
  PROVE  Kept(f) \in Seq(Row)
<1> DEFINE kept == {r \in DOMAIN f : ~Repeats(f, r)}
<1>1. Len(f) \in Nat /\ DOMAIN f = 1..Len(f) /\ \A r \in DOMAIN f : f[r] \in Row
  BY DEF File
<1>2. kept \in SUBSET (1..Len(f)) /\ IsFiniteSet(kept)
  <2>1. IsFiniteSet(1..Len(f)) /\ kept \in SUBSET (1..Len(f))
    BY <1>1, FS_Interval
  <2> QED
    BY <2>1, FS_Subset
<1>3. Cardinality(kept) \in Nat
  BY <1>2, FS_CardinalityType
<1>4. \A n \in 1..Cardinality(kept) : f[Nth(kept, n)] \in Row
  BY <1>1, <1>2, NthIsThere
<1>5. Kept(f) = [n \in 1..Cardinality(kept) |-> f[Nth(kept, n)]]
  BY DEF Kept
<1> HIDE DEF kept
<1> QED
  BY <1>3, <1>4, <1>5, IsASeq

\* However rows of one date are sorted, all rows have a place, the later before
\* the earlier.
LEMMA SortedAreRows ==
  ASSUME items \in Seq(Row), Sort
  PROVE  /\ items' \in Seq(Row)
         /\ \E p \in [Items -> Items] :
               /\ items' = [n \in Items |-> items[p[n]]]
               /\ \A r \in Items : \E n \in Items : p[n] = r
               /\ \A m, n \in Items : m < n =>
                     p[m] # p[n] /\ items[p[m]].date >= items[p[n]].date
<1>1. /\ Len(items) \in Nat /\ Items = 1..Len(items) /\ IsFiniteSet(Items)
      /\ \A r \in Items : items[r] \in Row /\ items[r].date \in Nat
  <2>1. Len(items) \in Nat /\ Items = 1..Len(items) /\ \A r \in Items : items[r] \in Row
    BY DEF Items
  <2>2. IsFiniteSet(Items)
    BY <2>1, FS_Interval
  <2> QED
    BY <2>1, <2>2 DEF Row
<1> DEFINE UpTo(turn, i, j) ==
             \/ items[i].date > items[j].date
             \/ items[i].date = items[j].date /\ (i = j \/ turn[i] < turn[j])
<1>2. PICK turn \in Injection(Tied, 1..Cardinality(Tied)) :
         items' = [n \in Items |->
            items[CHOOSE r \in Items :
                    [q \in Items |-> Cardinality({s \in Items : UpTo(turn, s, q)})][r] = n]]
  BY Zenon DEF Sort
<1> DEFINE Ahead(q) == {s \in Items : UpTo(turn, s, q)}
           place == [q \in Items |-> Cardinality(Ahead(q))]
<1>2a. \A r, s \in Items : r # s /\ items[r].date = items[s].date =>
           turn[r] \in Int /\ turn[s] \in Int /\ turn[r] # turn[s]
  <2> SUFFICES ASSUME NEW r \in Items, NEW s \in Items, r # s, items[r].date = items[s].date
               PROVE  turn[r] \in Int /\ turn[s] \in Int /\ turn[r] # turn[s]
    OBVIOUS
  <2>1. r \in Tied /\ s \in Tied
    BY DEF Tied
  <2>2. /\ turn \in [Tied -> 1..Cardinality(Tied)]
        /\ \A x, y \in Tied : turn[x] = turn[y] => x = y
    BY <1>2 DEF Injection, IsInjective
  <2>3. turn[r] \in 1..Cardinality(Tied) /\ turn[s] \in 1..Cardinality(Tied) /\ turn[r] # turn[s]
    BY <2>1, <2>2
  <2> QED
    BY <2>3
<1>3. \A r, s \in Items : r # s => UpTo(turn, r, s) \/ UpTo(turn, s, r)
  BY <1>1, <1>2a
<1>4. \A r, s \in Items : UpTo(turn, r, s) /\ r # s => ~UpTo(turn, s, r)
  BY <1>1, <1>2a
<1>5. \A q, r, s \in Items : UpTo(turn, q, r) /\ UpTo(turn, r, s) => UpTo(turn, q, s)
  <2> SUFFICES ASSUME NEW q \in Items, NEW r \in Items, NEW s \in Items,
                      UpTo(turn, q, r), UpTo(turn, r, s), q # r, r # s, q # s
               PROVE  UpTo(turn, q, s)
    BY <1>4
  <2> QED
    BY <1>1, <1>2a
<1>6. \A r \in Items : UpTo(turn, r, r)
  BY <1>1
<1> HIDE DEF UpTo
<1>7. \A q \in Items : IsFiniteSet(Ahead(q)) /\ Ahead(q) \subseteq Items /\ q \in Ahead(q)
  BY <1>1, <1>6, FS_Subset
<1>8. \A r, s \in Items : r # s /\ UpTo(turn, r, s) => place[r] < place[s]
  <2> SUFFICES ASSUME NEW r \in Items, NEW s \in Items, r # s, UpTo(turn, r, s)
               PROVE  Cardinality(Ahead(r)) < Cardinality(Ahead(s))
    OBVIOUS
  <2>1. s \in Ahead(s) /\ s \notin Ahead(r)
    BY <1>4, <1>7
  <2>2. \A q \in Ahead(r) : q \in Ahead(s)
    BY <1>5
  <2>3. Ahead(r) \subseteq Ahead(s) \ {s}
    BY <2>1, <2>2
  <2> HIDE DEF Ahead
  <2> QED
    BY <1>7, <2>1, <2>3, SetSizes
<1>9. place \in [Items -> 1..Cardinality(Items)]
  <2> SUFFICES ASSUME NEW q \in Items PROVE Cardinality(Ahead(q)) \in 1..Cardinality(Items)
    OBVIOUS
  <2> HIDE DEF Ahead
  <2>1. Cardinality(Ahead(q)) \in Nat /\ Cardinality(Ahead(q)) <= Cardinality(Items)
    BY <1>1, <1>7, SetSizes
  <2>2. Cardinality(Ahead(q)) # 0
    BY <1>7, FS_EmptySet
  <2> QED
    BY <1>1, <2>1, <2>2, FS_CardinalityType
<1>10. \A r, s \in Items : place[r] = place[s] => r = s
  <2> SUFFICES ASSUME NEW r \in Items, NEW s \in Items, place[r] = place[s], r # s
               PROVE  FALSE
    OBVIOUS
  <2>1. place[r] \in Int /\ place[s] \in Int
    BY <1>9
  <2> HIDE DEF place
  <2> QED
    BY <1>3, <1>8, <2>1
<1>11. Cardinality(Items) = Len(items)
  <2>1. Cardinality(1..Len(items)) = IF 1 > Len(items) THEN 0 ELSE Len(items) - 1 + 1
    BY <1>1, FS_Interval
  <2> QED
    BY <1>1, <2>1
<1>12. items' = [n \in Items |-> items[CHOOSE r \in Items : place[r] = n]]
  BY <1>2
<1> HIDE DEF place
<1>13. \A n \in Items : \E r \in Items : place[r] = n
  <2>1. \A n \in 1..Cardinality(Items) : \E r \in Items : place[r] = n
    <3>1. IsFiniteSet(Items)
      BY <1>1
    <3>2. PICK p : p = place
      OBVIOUS
    <3>3. p \in [Items -> 1..Cardinality(Items)] /\ \A r, s \in Items : p[r] = p[s] => r = s
      BY <1>9, <1>10, <3>2
    <3> QED
      BY <3>1, <3>2, <3>3, PlacesFilled
  <2> QED
    BY <1>1, <1>11, <2>1
<1> DEFINE p == [n \in Items |-> CHOOSE r \in Items : place[r] = n]
<1>14. p \in [Items -> Items] /\ \A n \in Items : place[p[n]] = n
  BY <1>13
<1>15. items' = [n \in Items |-> items[p[n]]]
  BY <1>12
<1>16. ASSUME NEW r \in Items PROVE \E n \in Items : p[n] = r
  <2>1. place[r] \in Items
    BY <1>1, <1>9, <1>11
  <2> HIDE DEF p
  <2>2. p[place[r]] = r
    BY <1>10, <1>14, <2>1
  <2> QED
    BY <2>1, <2>2
<1> HIDE DEF p
<1>17. ASSUME NEW m \in Items, NEW n \in Items, m < n
       PROVE  p[m] # p[n] /\ items[p[m]].date >= items[p[n]].date
  <2>1. /\ p[m] \in Items /\ p[n] \in Items /\ p[m] # p[n]
        /\ ~(place[p[n]] < place[p[m]])
    BY <1>1, <1>14, <1>17
  <2>2. UpTo(turn, p[m], p[n])
    BY <1>3, <1>8, <2>1
  <2> QED
    BY <1>1, <2>1, <2>2 DEF UpTo
<1> DEFINE row(n) == items[p[n]]
<1>18. items' = [n \in 1..Len(items) |-> row(n)] /\ \A n \in 1..Len(items) : row(n) \in Row
  BY <1>1, <1>14, <1>15
<1>19. items' \in Seq(Row)
  <2> HIDE DEF row
  <2> QED
    BY <1>1, <1>18, IsASeq
<1> QED
  BY <1>14, <1>15, <1>16, <1>17, <1>19

-----------------------------------------------------------------------------
(* Every step keeps the invariant.                                          *)

\* The next withdrawal to trace is one of the rows.
LEMMA WdIsThere ==
  ASSUME Tables, next \in Nat \ {0}, next <= Total
  PROVE  Wd(next) \in Items
<1>1. Len(items) \in Nat /\ Items = 1..Len(items) /\ Withdrawals \in SUBSET (1..Len(items))
  BY TableTypes DEF Withdrawals
<1>2. Cardinality(Withdrawals) \in Nat
  BY <1>1, TableTypes, FS_CardinalityType
<1>3. next \in 1..Cardinality(Withdrawals)
  BY <1>2 DEF Total
<1> QED
  BY <1>1, <1>3, NthIsThere DEF Wd

\* The rows traced for a withdrawal of a single file are all orders' rows: every
\* other row is a withdrawal.
LEMMA TracedAreOrders ==
  ASSUME Tables, ~book.multi, NEW w
  PROVE  Traced(w) \subseteq Orders /\ Traced(w) \subseteq Items
<1>1. ASSUME NEW v PROVE Earning(v) \subseteq Orders
  <2> SUFFICES ASSUME NEW r \in Earning(v), IsFund(items[r]) PROVE FALSE
    BY DEF Orders, Earning
  <2>1. r \in Withdrawals
    BY DEF Earning, Withdrawals
  <2>2. r \in Items /\ r < r
    BY <2>1 DEF Earning
  <2>3. r \in Nat
    BY <2>2, TableTypes
  <2> QED
    BY <2>2, <2>3
<1>2. \A v : NotFundedEarning(v) \subseteq Earning(v)
  BY DEF NotFundedEarning, NewestFit
<1>3. FundedEarning(w) \subseteq Earning(w) \cup NotFundedEarning(Before(w))
  BY DEF FundedEarning, OldestFit
<1> QED
  BY <1>1, <1>2, <1>3 DEF Traced, Orders

\* A withdrawal that is returned with the rows that were traced for it.
LEMMA ReturnsBacked ==
  ASSUME Tables, \A k \in DOMAIN result : Backed(k), items' = items, book' = book,
         NEW w \in Items, NEW S \in SUBSET Items, Amount(S) = Due(w),
         ~book.multi => S \subseteq Orders, Return(w, Once(S))
  PROVE  Tables' /\ \A k \in DOMAIN result' : Backed(k)'
<1> DEFINE R == [wd : Items, times : [Items -> Nat]]
           new == [wd |-> w, times |-> Once(S)]
<1>1. new \in R
  BY DEF Once
<1>2. result \in Seq(R) /\ result' = Append(result, new)
  BY DEF Tables, Return
<1> HIDE DEF R
<1>3. /\ result' \in Seq(R) /\ Len(result) \in Nat
      /\ DOMAIN result = 1..Len(result) /\ DOMAIN result' = 1..(Len(result) + 1)
      /\ \A k \in DOMAIN result : result'[k] = result[k]
      /\ result'[Len(result) + 1] = new
  BY <1>1, <1>2, AppendProperties
<1>4. Tables'
  BY <1>3 DEF Tables, R, Items
<1>5. \A U \in SUBSET Items : Amount(U)' = Amount(U)
  BY DEF Amount, MapThenSumSet, MapThenFoldSet
<1>6. ASSUME NEW k \in DOMAIN result PROVE Backed(k)'
  <2> SUFFICES ASSUME NEW G, G = Got(k) PROVE Backed(k)'
    OBVIOUS
  <2>1. Got(k)' = G /\ G \in SUBSET Items
    BY <1>3, <1>6 DEF Got, Items
  <2>2. Backed(k)
    OBVIOUS
  <2>3. Amount(G)' = Due(result[k].wd) /\ Due(result[k].wd)' = Due(result[k].wd)
    BY <1>3, <1>5, <1>6, <2>1, <2>2 DEF Backed, Due
  <2> QED
    BY <1>3, <1>6, <2>1, <2>2, <2>3 DEF Backed, Once, Items, Orders
<1>7. ASSUME NEW k, k = Len(result) + 1 PROVE Backed(k)'
  <2>1. Got(k)' = S
    BY <1>3, <1>7 DEF Got, Items, Once
  <2>2. Amount(S)' = Due(w) /\ Due(result[k].wd)' = Due(w)
    BY <1>3, <1>5, <1>7 DEF Due
  <2> QED
    BY <1>3, <1>7, <2>1, <2>2 DEF Backed, Once, Items, Orders
<1> QED
  BY <1>3, <1>4, <1>6, <1>7

\* At first nothing is returned.
LEMMA FundInvInit == Init => FundInv
BY DEF Init, FundInv, Tables, AddsUp

\* What leaves the rows and the withdrawals alone.
LEMMA NothingReturned ==
  ASSUME FundInv, UNCHANGED <<book, items, result>>,
         pc' \in {"sort", "rest", "trace", "replace", "error", pc},
         pc' \in {"read", "sort", "rest"} => pc \in {"read", "sort", "rest"},
         pc' \in {"trace", "replace"} => pc \in {"read", "sort", "rest", "trace", "replace"},
         file' \in Nat \ {0}, next' \in Nat \ {0}
  PROVE  FundInv'
<1>1. Tables'
  BY DEF FundInv, Tables, Items
<1>2. ASSUME NEW k PROVE Got(k)' = Got(k) /\ Funds(k)' = Funds(k) /\ PaidOut(k)' = PaidOut(k)
  BY DEF Got, Funds, PaidOut, MapThenSumSet, MapThenFoldSet, Orders, Items
<1>3. ASSUME pc' \in {"trace", "replace"}, NEW k \in DOMAIN result' PROVE Backed(k)'
  <2> SUFFICES ASSUME NEW G, G = Got(k) PROVE Backed(k)'
    OBVIOUS
  <2>1. /\ result[k].times = Once(G) /\ Amount(G) = Due(result[k].wd)
        /\ ~book.multi => G \subseteq Orders
    BY <1>3 DEF FundInv, Backed
  <2>2. Amount(G)' = Amount(G) /\ Once(G)' = Once(G) /\ Orders' = Orders
    BY DEF Amount, MapThenSumSet, MapThenFoldSet, Once, Items, Orders
  <2>3. Due(result[k].wd)' = Due(result[k].wd)
    BY DEF Due
  <2> QED
    BY <1>2, <2>1, <2>2, <2>3 DEF Backed
<1>4. AddsUp'
  <2> SUFFICES ASSUME pc = "done", NEW k \in DOMAIN result, AddsUpAt(k) PROVE AddsUpAt(k)'
    BY DEF FundInv, AddsUp, AddsUpAt, OnlyRefund
  <2>1. OnlyRefund(k)' <=> OnlyRefund(k)
    <3> SUFFICES ASSUME NEW G, G = Got(k), NEW F, F = Funds(k)
                 PROVE  OnlyRefund(k)' <=> OnlyRefund(k)
      OBVIOUS
    <3>1. Got(k)' = G /\ Funds(k)' = F
      BY <1>2
    <3> QED
      BY <3>1 DEF OnlyRefund, Newest
  <2>2. Due(result[k].wd)' = Due(result[k].wd)
    BY DEF Due
  <2> QED
    BY <1>2, <2>1, <2>2 DEF AddsUpAt
<1> QED
  BY <1>1, <1>3, <1>4 DEF FundInv

\* While nothing has been returned the rows may change.
LEMMA RowsRead ==
  ASSUME FundInv, items' \in Seq(Row), result = <<>>, result' = <<>>, book' = book,
         pc' \in {"read", "sort", "rest"}, file' \in Nat \ {0}, next' = next
  PROVE  FundInv'
<1>1. Tables'
  BY DEF Tables
<1> QED
  BY <1>1 DEF FundInv, AddsUp

\* One file is done: nothing is replaced.
LEMMA SingleDone ==
  ASSUME FundInv, pc = "trace", pc' = "done", ~book.multi,
         UNCHANGED <<book, file, items, next, result>>
  PROVE  FundInv'
<1>1. Tables'
  BY DEF FundInv, Tables, Items
<1>2. ASSUME NEW k \in DOMAIN result' PROVE AddsUpAt(k)'
  <2>1. Tables /\ Backed(k) /\ Got(k) \subseteq Orders
    BY <1>2 DEF FundInv, Backed
  <2>2. Orders \cap Got(k) = Got(k) /\ Got(k) \in SUBSET Items
    BY <2>1 DEF Orders
  <2>3. PaidOut(k) = Due(result[k].wd)
    BY <1>2, <2>1, <2>2, SharesOnce DEF GivenOnce, Backed
  <2>4. PaidOut(k)' = PaidOut(k)
    BY DEF PaidOut, MapThenSumSet, MapThenFoldSet, Orders, Items
  <2>5. Due(result[k].wd)' = Due(result[k].wd)
    BY DEF Due
  <2> QED
    BY <2>3, <2>4, <2>5 DEF AddsUpAt
<1>3. AddsUp'
  BY <1>2 DEF AddsUp, AddsUpAt, OnlyRefund
<1> QED
  BY <1>1, <1>3 DEF FundInv

\* Of several files the withdrawals that did not fail are left, each with a
\* refund replaced.
LEMMA ReplaceStep ==
  ASSUME FundInv, ReplaceFailed
  PROVE  FundInv'
<1>1. /\ pc = "replace" /\ Tables /\ UNCHANGED <<book, file, items, next>>
      /\ \A k \in DOMAIN result : Backed(k)
  BY DEF ReplaceFailed, FundInv
<1>2. CASE pc' = "error"
  <2>1. result' = result
    BY <1>2 DEF ReplaceFailed
  <2> QED
    BY <1>1, <1>2, <2>1, NothingReturned DEF FundInv
<1>3. CASE pc' # "error"
  <2> DEFINE good == {k \in DOMAIN result : ~IsFailed(k)}
             R == [wd : Items, times : [Items -> Nat]]
  <2>1. /\ pc' = "done"
        /\ \A k \in DOMAIN result : HasRefund(k) => FailedOf(items[Refund(k)].amount) # {}
        /\ result' = [n \in 1..Cardinality(good) |->
                         [wd |-> result[Nth(good, n)].wd, times |-> WithFailed(Nth(good, n))]]
    BY <1>3 DEF ReplaceFailed
  <2>2. good \in SUBSET (1..Len(result)) /\ Len(result) \in Nat /\ IsFiniteSet(good)
    <3>1. good \in SUBSET (1..Len(result)) /\ Len(result) \in Nat
      BY <1>1, TableTypes
    <3>2. IsFiniteSet(1..Len(result))
      BY <3>1, FS_Interval
    <3> QED
      BY <3>1, <3>2, FS_Subset
  <2>3. Cardinality(good) \in Nat
    BY <2>2, FS_CardinalityType
  <2>4. \A n \in 1..Cardinality(good) : Nth(good, n) \in DOMAIN result
    BY <2>2, NthIsThere
  <2>5. ASSUME NEW k \in DOMAIN result PROVE [wd |-> result[k].wd, times |-> WithFailed(k)] \in R
    BY <1>1, <2>1, <2>5, WithFailedType
  <2> HIDE DEF good, R
  <2>6. result' \in Seq(R)
    BY <2>1, <2>3, <2>4, <2>5, IsASeq
  <2>7. Tables'
    BY <1>1, <2>6 DEF Tables, R, Items
  <2>8. ASSUME NEW n \in DOMAIN result' PROVE AddsUpAt(n)'
    <3>1. PICK k \in DOMAIN result : result'[n] = [wd |-> result[k].wd, times |-> WithFailed(k)]
      BY <2>1, <2>4, <2>8
    <3>2. CASE HasRefund(k)
      BY <1>1, <2>1, <2>7, <3>1, <3>2, ReplacedAddsUp
    <3>3. CASE ~HasRefund(k)
      BY <1>1, <2>7, <3>1, <3>3, KeptAddsUp
    <3> QED
      BY <3>2, <3>3
  <2>9. AddsUp'
    BY <2>8 DEF AddsUp, AddsUpAt, OnlyRefund
  <2> QED
    BY <1>1, <2>1, <2>7, <2>9 DEF FundInv
<1> QED
  BY <1>2, <1>3

\* Every action keeps FundInv.
LEMMA FundInvStep == FundInv /\ [Next]_vars => FundInv'
<1> SUFFICES ASSUME FundInv, [Next]_vars PROVE FundInv'
  OBVIOUS
<1>0. /\ book \in Books /\ Tables /\ items \in Seq(Row)
      /\ file \in Nat \ {0} /\ next \in Nat \ {0}
  BY DEF FundInv, Tables
<1>1. CASE ReadFile
  <2>1. CASE pc' = "error"
    BY <1>0, <1>1, <2>1, NothingReturned DEF ReadFile
  <2>2. CASE pc' # "error"
    <3>1. /\ pc = "read" /\ pc' = pc /\ file <= Len(book.files) /\ file' = file + 1
          /\ items' = items \o Kept(book.files[file])
          /\ UNCHANGED <<book, next, result>>
      BY <1>1, <2>2 DEF ReadFile
    <3>2. result = <<>>
      BY <3>1 DEF FundInv
    <3>3. book.files \in Seq(File)
      BY <1>0, BooksAssumption
    <3>4. book.files[file] \in File
      <4> HIDE DEF File
      <4> QED
        BY <1>0, <3>1, <3>3
    <3>5. items' \in Seq(Row)
      BY <1>0, <3>1, <3>4, KeptAreRows, ConcatProperties
    <3> QED
      BY <1>0, <3>1, <3>2, <3>5, RowsRead
  <2> QED
    BY <2>1, <2>2
<1>2. CASE EndOfFiles
  BY <1>0, <1>2, NothingReturned DEF EndOfFiles
<1>3. CASE Sort
  <2>1. /\ pc = "sort" /\ pc' = "rest" /\ result = <<>>
        /\ UNCHANGED <<book, file, next, result>>
    BY <1>3 DEF Sort, FundInv
  <2>2. items' \in Seq(Row)
    BY <1>0, <1>3, SortedAreRows
  <2> QED
    BY <1>0, <2>1, <2>2, RowsRead
<1>4. CASE TraceSingle
  <2> DEFINE w == Wd(next)
  <2>1. /\ pc = "trace" /\ ~book.multi /\ next <= Total /\ UNCHANGED <<book, file, items>>
        /\ \A k \in DOMAIN result : Backed(k)
    BY <1>4 DEF TraceSingle, FundInv
  <2>2. w \in Items
    BY <1>0, <2>1, WdIsThere
  <2>3. Traced(w) \subseteq Orders /\ Traced(w) \in SUBSET Items
    BY <1>0, <2>1, TracedAreOrders
  <2>4. CASE Traceable(w)
    <3>1. Amount(Traced(w)) = Due(w)
      BY <2>4 DEF Traceable, Traced, AddUp
    <3>2. Return(w, Once(Traced(w))) /\ next' = next + 1 /\ pc' = pc
      BY <1>4, <2>4 DEF TraceSingle
    <3>3. Tables' /\ \A k \in DOMAIN result' : Backed(k)'
      <4> HIDE DEF w
      <4> QED
        BY <1>0, <2>1, <2>2, <2>3, <3>1, <3>2, ReturnsBacked
    <3> QED
      BY <1>0, <2>1, <3>2, <3>3 DEF FundInv, AddsUp
  <2>5. CASE ~Traceable(w)
    <3>1. pc' \in {"done", "error"} /\ UNCHANGED <<next, result>>
      BY <1>4, <2>5 DEF TraceSingle
    <3> HIDE DEF w
    <3>2. CASE pc' = "error"
      BY <1>0, <2>1, <3>1, <3>2, NothingReturned
    <3>3. CASE pc' = "done"
      BY <1>0, <2>1, <3>1, <3>3, SingleDone
    <3> QED
      BY <3>1, <3>2, <3>3
  <2> QED
    BY <2>4, <2>5
<1>5. CASE EndSingle
  BY <1>0, <1>5, SingleDone DEF EndSingle
<1>6. CASE CheckRest
  BY <1>0, <1>6, NothingReturned DEF CheckRest
<1>7. CASE TraceMulti
  <2> DEFINE w == Wd(next)
  <2>1. /\ pc = "trace" /\ book.multi /\ next <= Total /\ UNCHANGED <<book, file, items>>
        /\ \A k \in DOMAIN result : Backed(k)
    BY <1>7 DEF TraceMulti, FundInv
  <2>2. w \in Items
    BY <1>0, <2>1, WdIsThere
  <2>3. Funded(w) \in SUBSET Items
    BY DEF Funded, Older
  <2>4. CASE Amount(Funded(w)) = Due(w)
    <3>1. Return(w, Once(Funded(w))) /\ next' = next + 1 /\ pc' = pc
      BY <1>7, <2>4 DEF TraceMulti
    <3>2. Tables' /\ \A k \in DOMAIN result' : Backed(k)'
      <4> HIDE DEF w
      <4> QED
        BY <1>0, <2>1, <2>2, <2>3, <2>4, <3>1, ReturnsBacked
    <3> QED
      BY <1>0, <2>1, <3>1, <3>2 DEF FundInv, AddsUp
  <2>5. CASE Amount(Funded(w)) # Due(w)
    BY <1>0, <1>7, <2>1, <2>5, NothingReturned DEF TraceMulti
  <2> QED
    BY <2>4, <2>5
<1>8. CASE EndMulti
  BY <1>0, <1>8, NothingReturned DEF EndMulti
<1>9. CASE ReplaceFailed
  BY <1>0, <1>9, ReplaceStep
<1>10. CASE UNCHANGED vars
  BY <1>0, <1>10, NothingReturned DEF vars, FundInv
<1> QED
  BY <1>1, <1>2, <1>3, <1>4, <1>5, <1>6, <1>7, <1>8, <1>9, <1>10 DEF Next

-----------------------------------------------------------------------------
(* The ledger: what its changes come to.                                    *)

Gain == [p \in Changes |-> Ledger[p].amount]

\* What the ledger and the files consist of.
LEMMA LedgerTypes ==
  ASSUME book \in Books
  PROVE  /\ Len(Ledger) \in Nat /\ Changes = 1..Len(Ledger) /\ IsFiniteSet(Changes)
         /\ \A p \in Changes : /\ Ledger[p] \in Row
                               /\ Ledger[p].amount \in Int /\ Ledger[p].balance \in Int
                               /\ Ledger[p].date \in Nat
                               /\ book.taker[p] \in Nat /\ book.payer[p] \in Nat /\ book.of[p] \in Nat
         /\ \A S \in SUBSET Changes : IsFiniteSet(S)
         /\ Gain \in [Changes -> Int]
         /\ book.multi \in BOOLEAN
         /\ Len(book.files) \in Nat /\ DOMAIN book.files = 1..Len(book.files)
         /\ \A f \in DOMAIN book.files :
               /\ book.files[f] \in File
               /\ Len(book.files[f]) \in Nat /\ DOMAIN book.files[f] = 1..Len(book.files[f])
               /\ \A r \in DOMAIN book.files[f] : book.files[f][r] \in Row /\ book.files[f][r].id \in Nat
<1>1. /\ book.multi \in BOOLEAN /\ book.files \in Seq(File)
      /\ Ledger \in File /\ {book.taker, book.payer, book.of} \subseteq [Changes -> Nat]
  BY BooksAssumption DEF Ledger, Changes
<1>2. Len(Ledger) \in Nat /\ Changes = 1..Len(Ledger) /\ \A p \in Changes : Ledger[p] \in Row
  BY <1>1 DEF File, Changes
<1>3. IsFiniteSet(Changes)
  BY <1>2, FS_Interval
<1>4. \A S \in SUBSET Changes : IsFiniteSet(S)
  BY <1>3, FS_Subset
<1>5. \A p \in Changes :
         Ledger[p].amount \in Int /\ Ledger[p].balance \in Int /\ Ledger[p].date \in Nat
  BY <1>2 DEF Row
<1>6. Gain \in [Changes -> Int]
  BY <1>5 DEF Gain
<1>7. /\ Len(book.files) \in Nat /\ DOMAIN book.files = 1..Len(book.files)
      /\ \A f \in DOMAIN book.files : book.files[f] \in File
  <2> HIDE DEF File
  <2> QED
    BY <1>1
<1>8. \A f \in DOMAIN book.files :
         /\ Len(book.files[f]) \in Nat /\ DOMAIN book.files[f] = 1..Len(book.files[f])
         /\ \A r \in DOMAIN book.files[f] : book.files[f][r] \in Row
  <2> HIDE DEF Row
  <2> QED
    BY <1>7 DEF File
<1>9. \A x \in Row : x.id \in Nat
  BY DEF Row
<1>10. \A p \in Changes : book.taker[p] \in Nat /\ book.payer[p] \in Nat /\ book.of[p] \in Nat
  BY <1>1
<1> HIDE DEF Row, File
<1> QED
  BY <1>1, <1>2, <1>3, <1>4, <1>5, <1>6, <1>7, <1>8, <1>9, <1>10

\* The sum over the ledger is a sum of Sums.
LEMMA WorthIsSum ==
  ASSUME book \in Books, NEW S \in SUBSET Changes
  PROVE  Worth(S) = SumFunctionOnSet(Gain, S)
<1> DEFINE Eq(h) == h = [s \in SUBSET S |-> IF s = {} THEN 0
                                            ELSE Ledger[Pick(s)].amount + h[s \ {Pick(s)}]]
           it == CHOOSE h : Eq(h)
<1>0. IsFiniteSet(S) /\ Gain \in [Changes -> Int]
  BY LedgerTypes
<1>1. PICK h : IntegerFold(Gain, S, h)
  BY <1>0, FoldsExist
<1>2. \A s \in SUBSET S : s # {} => Gain[Pick(s)] = Ledger[Pick(s)].amount
  BY DEF Pick, Gain
<1>3. Eq(h)
  BY <1>1, <1>2 DEF IntegerFold, FoldsTo
<1>4. Eq(it)
  <2> HIDE DEF Eq
  <2> QED
    BY <1>3
<1>5. FoldsTo(Gain, S, it)
  <2> HIDE DEF it
  <2> QED
    BY <1>2, <1>4 DEF FoldsTo
<1>6. Worth(S) = it[S]
  BY DEF Worth, MapThenSumSet, MapThenFoldSet, Pick
<1> QED
  <2> HIDE DEF it
  <2> QED
    BY <1>0, <1>5, <1>6, SumFolds

\* The rules that sums of changes follow.
LEMMA WorthAdds ==
  ASSUME book \in Books
  PROVE  /\ Worth({}) = 0
         /\ \A S \in SUBSET Changes : Worth(S) \in Int
         /\ \A p \in Changes : Worth({p}) = Ledger[p].amount
         /\ \A S, T \in SUBSET Changes : S \cap T = {} => Worth(S \cup T) = Worth(S) + Worth(T)
<1>1. /\ Gain \in [Changes -> Int] /\ IsFiniteSet(Changes)
      /\ \A S \in SUBSET Changes : IsFiniteSet(S) /\ Worth(S) = SumFunctionOnSet(Gain, S)
  BY LedgerTypes, WorthIsSum
<1>2. \A S \in SUBSET Changes : Worth(S) \in Int
  <2> SUFFICES ASSUME NEW S \in SUBSET Changes PROVE SumFunctionOnSet(Gain, S) \in Int
    BY <1>1
  <2> QED
    BY <1>1, SumSteps
<1>3. ASSUME NEW S \in SUBSET Changes, NEW T \in SUBSET Changes, S \cap T = {}
      PROVE  Worth(S \cup T) = Worth(S) + Worth(T)
  <2>1. S \cup T \in SUBSET Changes
    OBVIOUS
  <2>2. SumFunctionOnSet(Gain, S \cup T) = SumFunctionOnSet(Gain, S) + SumFunctionOnSet(Gain, T)
    BY <1>1, <1>3, SumOfUnion
  <2> QED
    BY <1>1, <2>1, <2>2
<1>4. Worth({}) = 0
  <2> DEFINE none == Changes \cap {}
  <2>1. none \in SUBSET Changes /\ none = {}
    OBVIOUS
  <2> HIDE DEF none
  <2>2. Worth(none) = 0
    BY <1>1, <2>1, SumSteps
  <2> QED
    BY <2>1, <2>2
<1>5. ASSUME NEW p \in Changes PROVE Worth({p}) = Ledger[p].amount
  <2> DEFINE one == {p}
             none == one \ {p}
  <2>1. one \in SUBSET Changes /\ p \in one /\ none = {} /\ IsFiniteSet(one) /\ none \in SUBSET Changes
    BY <1>1
  <2>2. SumFunctionOnSet(Gain, one) = Gain[p] + SumFunctionOnSet(Gain, none)
    <3> HIDE DEF one
    <3> QED
      BY <1>1, <2>1, SumWithout
  <2> HIDE DEF one, none
  <2>3. SumFunctionOnSet(Gain, none) = 0
    BY <1>1, <1>4, <2>1
  <2>4. Gain[p] = Ledger[p].amount /\ Gain[p] \in Int
    BY <1>1 DEF Gain
  <2>5. Worth(one) = Gain[p] + 0
    BY <1>1, <2>1, <2>2, <2>3
  <2>6. Worth(one) = Ledger[p].amount
    BY <2>4, <2>5
  <2> QED
    BY <2>6 DEF one
<1> QED
  BY <1>2, <1>3, <1>4, <1>5

\* Changes that bring money come to more the more there are.
LEMMA WorthGrows ==
  ASSUME book \in Books, NEW T \in SUBSET Changes, NEW S \in SUBSET T,
         \A p \in T \ S : Ledger[p].amount > 0
  PROVE  /\ Worth(S) <= Worth(T)
         /\ \A p \in T \ S : Worth(S) + Ledger[p].amount <= Worth(T)
<1>1. /\ Gain \in [Changes -> Int] /\ IsFiniteSet(T) /\ S \in SUBSET Changes
      /\ Worth(S) = SumFunctionOnSet(Gain, S) /\ Worth(T) = SumFunctionOnSet(Gain, T)
  BY LedgerTypes, WorthIsSum
<1>2. \A p \in T \ S : Gain[p] = Ledger[p].amount /\ Gain[p] >= 0
  <2>1. \A p \in T : Ledger[p].amount \in Int
    BY LedgerTypes
  <2> QED
    BY <2>1 DEF Gain
<1>3. /\ SumFunctionOnSet(Gain, S) <= SumFunctionOnSet(Gain, T)
      /\ \A p \in T \ S : SumFunctionOnSet(Gain, S) + Gain[p] <= SumFunctionOnSet(Gain, T)
  BY <1>1, <1>2, SumOfMore
<1> QED
  BY <1>1, <1>2, <1>3

\* The balance after a change is what no withdrawal has taken by then.
Unpaid(p) == {q \in Changes \ Draws : p <= q /\ book.taker[q] < p}

\* From the oldest change on, the balance adds up.
LEMMA BalanceIsUnpaid ==
  ASSUME book \in Books, Balanced
  PROVE  /\ \A p \in Changes : Ledger[p].balance = Worth(Unpaid(p))
         /\ \A w \in Draws : Ledger[w].balance = Worth(LeftBy(w))
<1>0. /\ Len(Ledger) \in Nat /\ Changes = 1..Len(Ledger)
      /\ \A p \in Changes : Ledger[p].amount \in Int /\ Ledger[p].balance \in Int
                            /\ book.taker[p] \in Nat
  BY LedgerTypes
<1> DEFINE Wrong == {p \in 1..Len(Ledger) : Ledger[p].balance # Worth(Unpaid(p))}
<1>1. Wrong = {}
  <2> SUFFICES ASSUME Wrong # {} PROVE FALSE
    OBVIOUS
  <2>1. Wrong \in SUBSET (1..Len(Ledger))
    OBVIOUS
  <2>2. PICK p \in Wrong : \A q \in Wrong : q <= p
    <3> HIDE DEF Wrong
    <3> QED
      BY <1>0, <2>1, MaxIsThere
  <2>3. p \in Changes /\ p \in Nat /\ p > 0 /\ Ledger[p].balance # Worth(Unpaid(p))
    BY <1>0
  <2> DEFINE above == IF p + 1 \in Changes THEN Ledger[p + 1].balance ELSE 0
             U == Unpaid(p + 1)
  <2>4. U \in SUBSET Changes /\ Unpaid(p) \in SUBSET Changes /\ Taken(p) \in SUBSET Changes
    BY DEF Unpaid, Taken
  <2>5. above = Worth(U)
    <3>1. CASE p + 1 \in Changes
      <4>1. p + 1 \notin Wrong
        BY <2>2, <2>3
      <4> QED
        BY <1>0, <3>1, <4>1
    <3>2. CASE p + 1 \notin Changes
      <4>1. U = {}
        BY <1>0, <2>3, <3>2 DEF Unpaid
      <4> QED
        BY <3>2, <4>1, WorthAdds
    <3> QED
      BY <3>1, <3>2
  <2>6. Ledger[p].balance = Ledger[p].amount + Worth(U) /\ Worth(U) \in Int
    <3>1. Ledger[p].balance = Ledger[p].amount + above
      BY <2>3 DEF Balanced
    <3> HIDE DEF above, U
    <3> QED
      BY <2>4, <2>5, <3>1, WorthAdds
  <2>7. CASE p \in Draws
    <3>1. Ledger[p].amount = -Worth(Taken(p)) /\ Worth(Taken(p)) \in Int
      BY <2>4, <2>7, WorthAdds DEF Balanced
    <3>2. Taken(p) \subseteq Changes \ Draws /\ \A q \in Taken(p) : p < q
      <4>1. \A q \in Draws : book.taker[q] # p
        BY <2>3 DEF Balanced
      <4>2. \A q \in Changes \ Draws : book.taker[q] < q
        BY DEF Balanced
      <4> QED
        BY <4>1, <4>2 DEF Taken
    <3>3. \A q \in Changes \ Draws : p <= q => p + 1 <= q
      BY <1>0, <2>3, <2>7
    <3>4. U = Unpaid(p) \cup Taken(p)
      BY <1>0, <2>3, <3>2, <3>3 DEF Unpaid, Taken
    <3>5. Unpaid(p) \cap Taken(p) = {}
      BY <1>0, <2>3 DEF Unpaid, Taken
    <3>6. Worth(U) = Worth(Unpaid(p)) + Worth(Taken(p)) /\ Worth(Unpaid(p)) \in Int
      BY <2>4, <3>4, <3>5, WorthAdds
    <3>7. \A b, u, t, x \in Int : b = -t + u /\ u = x + t => b = x
      OBVIOUS
    <3> HIDE DEF U
    <3> QED
      BY <1>0, <2>3, <2>6, <3>1, <3>6, <3>7
  <2>8. CASE p \notin Draws
    <3>1. /\ book.taker[p] < p
          /\ \A q \in Changes \ Draws : book.taker[q] # p
      BY <2>3, <2>8 DEF Balanced
    <3>2. Unpaid(p) = U \cup {p} /\ U \cap {p} = {}
      BY <1>0, <2>3, <2>8, <3>1 DEF Unpaid
    <3>3. {p} \in SUBSET Changes
      BY <2>3
    <3>4. Worth(U \cup {p}) = Worth(U) + Worth({p})
      <4> DEFINE P == {p}
      <4> HIDE DEF P, U
      <4>1. P \in SUBSET Changes /\ U \cap P = {}
        BY <3>2, <3>3 DEF P
      <4>2. Worth(U \cup P) = Worth(U) + Worth(P)
        BY <2>4, <4>1, WorthAdds
      <4> QED
        BY <4>2 DEF P
    <3>5. Worth({p}) = Ledger[p].amount
      BY <2>3, WorthAdds
    <3> HIDE DEF U
    <3> QED
      BY <1>0, <2>3, <2>6, <3>2, <3>4, <3>5
  <2> QED
    BY <2>7, <2>8
<1>2. ASSUME NEW w \in Draws PROVE LeftBy(w) = Unpaid(w)
  BY <1>0 DEF Unpaid, LeftBy, Draws
<1> QED
  BY <1>0, <1>1, <1>2 DEF Draws

-----------------------------------------------------------------------------
(* What is read of orderly files is the top of the ledger.                  *)

\* Rows of the ledger; no row twice; and in its order.
FromLedger(s) == \A n \in DOMAIN s : s[n].id \in Changes /\ s[n] = Ledger[s[n].id]
Distinct(s) == \A m, n \in DOMAIN s : m # n => s[m].id # s[n].id
InOrder(s) == \A m, n \in DOMAIN s : m < n => s[m].id < s[n].id
IdsOf(s) == {s[n].id : n \in DOMAIN s}
Restored == Items = Shown /\ \A r \in Items : items[r] = Ledger[r] /\ items[r].id = r

\* Rows that are the ledger's come to what they are worth there.
LEMMA AmountIsWorth ==
  ASSUME book \in Books, NEW S \in SUBSET Changes, \A r \in S : items[r] = Ledger[r]
  PROVE  Amount(S) = Worth(S)
<1>1. /\ IsFiniteSet(S) /\ Gain \in [Changes -> Int]
      /\ \A r \in S : items[r].amount = Gain[r]
  BY LedgerTypes DEF Gain
<1>2. Worth(S) = SumFunctionOnSet(Gain, S)
  BY WorthIsSum
<1> QED
  BY <1>1, <1>2, AmountIsSumOf

\* What the files show is the top of the ledger.
LEMMA ShownTypes ==
  ASSUME book \in Books, Listed
  PROVE  /\ Shown \subseteq Changes /\ \A p \in Shown : p \in Nat /\ p > 0 /\ 1..p \subseteq Shown
         /\ \A p \in Shown : Ledger[p].id = p
         /\ Shown = UNION {IdsOf(book.files[f]) : f \in DOMAIN book.files}
         /\ \A f \in DOMAIN book.files : FromLedger(book.files[f]) /\ IdsOf(book.files[f]) \subseteq Shown
<1>1. Shown = UNION {IdsOf(book.files[f]) : f \in DOMAIN book.files}
  BY DEF Shown, IdsOf
<1>2. Shown \subseteq Changes /\ \A p \in Shown : 1..p \subseteq Shown
  BY DEF Listed
<1>3. Changes = 1..Len(Ledger) /\ Len(Ledger) \in Nat
  BY LedgerTypes
<1>4. \A f \in DOMAIN book.files : FromLedger(book.files[f]) /\ IdsOf(book.files[f]) \subseteq Shown
  <2> SUFFICES ASSUME NEW f \in DOMAIN book.files
               PROVE  FromLedger(book.files[f]) /\ IdsOf(book.files[f]) \subseteq Shown
    OBVIOUS
  <2>1. IdsOf(book.files[f]) \subseteq Shown
    BY <1>1
  <2>2. \A r \in DOMAIN book.files[f] : book.files[f][r] = Ledger[book.files[f][r].id]
    BY DEF Listed
  <2>3. \A r \in DOMAIN book.files[f] : book.files[f][r].id \in Changes
    BY <1>2, <2>1 DEF IdsOf
  <2> QED
    BY <2>1, <2>2, <2>3 DEF FromLedger
<1>5. ASSUME NEW p \in Shown PROVE Ledger[p].id = p
  <2>1. PICK f \in DOMAIN book.files : p \in IdsOf(book.files[f])
    BY <1>1
  <2>2. PICK r \in DOMAIN book.files[f] : p = book.files[f][r].id
    BY <2>1 DEF IdsOf
  <2> QED
    BY <1>4, <2>2 DEF FromLedger
<1> QED
  BY <1>1, <1>2, <1>3, <1>4, <1>5

\* What Kept leaves of a file: every row of it once.
LEMMA KeptInOrder ==
  ASSUME book \in Books, Listed, NEW f \in DOMAIN book.files
  PROVE  LET K == Kept(book.files[f]) IN
         /\ K \in Seq(Row) /\ FromLedger(K) /\ InOrder(K) /\ IdsOf(K) = IdsOf(book.files[f])
<1> DEFINE F == book.files[f]
           K == Kept(F)
           kept == {r \in DOMAIN F : ~Repeats(F, r)}
<1>1. /\ F \in File /\ Len(F) \in Nat /\ DOMAIN F = 1..Len(F) /\ \A r \in DOMAIN F : F[r].id \in Nat
  BY LedgerTypes
<1>2. FromLedger(F)
  BY ShownTypes
<1>3. \A r, s \in DOMAIN F : r < s => F[r].id <= F[s].id /\ (F[r].id = F[s].id => IsFund(F[r]))
  BY DEF Listed
<1>4. \A r, s \in DOMAIN F :
         s = r + 1 /\ IsFund(F[r]) /\ IsFund(F[s]) /\ F[r].amount = F[s].amount => F[r].id = F[s].id
  BY DEF Listed
<1>5. K \in Seq(Row)
  BY <1>1, KeptAreRows
<1>6. K = [n \in 1..Cardinality(kept) |-> F[Nth(kept, n)]]
  BY DEF Kept
<1>7. ASSUME NEW r \in DOMAIN F
      PROVE  Repeats(F, r) <=> r > 1 /\ F[r - 1].id = F[r].id
  <2>1. CASE r = 1
    BY <2>1 DEF Repeats
  <2>2. CASE r # 1
    <3>1. r - 1 \in DOMAIN F /\ r = (r - 1) + 1 /\ r - 1 < r /\ r > 1
      BY <1>1, <2>2
    <3>2. ASSUME F[r - 1].id = F[r].id PROVE Repeats(F, r)
      <4>1. IsFund(F[r - 1])
        BY <1>3, <3>1, <3>2
      <4>2. F[r - 1] = F[r]
        BY <1>2, <3>1, <3>2 DEF FromLedger
      <4> QED
        BY <3>1, <4>1, <4>2 DEF Repeats
    <3>3. ASSUME Repeats(F, r) PROVE F[r - 1].id = F[r].id
      BY <1>4, <3>1, <3>3 DEF Repeats
    <3> QED
      BY <3>1, <3>2, <3>3
  <2> QED
    BY <2>1, <2>2
<1> HIDE DEF F, K
<1>8. kept \in SUBSET (1..Len(F)) /\ IsFiniteSet(kept) /\ Cardinality(kept) \in Nat
  <2>1. IsFiniteSet(1..Len(F)) /\ kept \in SUBSET (1..Len(F))
    BY <1>1, FS_Interval
  <2>2. IsFiniteSet(kept)
    BY <2>1, FS_Subset
  <2> QED
    BY <2>1, <2>2, FS_CardinalityType
<1>9. \A r, s \in kept : r < s => F[r].id < F[s].id
  <2> SUFFICES ASSUME NEW r \in kept, NEW s \in kept, r < s PROVE F[r].id < F[s].id
    OBVIOUS
  <2>1. /\ r \in DOMAIN F /\ s \in DOMAIN F /\ s - 1 \in DOMAIN F /\ r <= s - 1 /\ s > 1
        /\ r \in Nat /\ s \in Nat
    BY <1>1
  <2>2. F[s - 1].id # F[s].id
    BY <1>7, <2>1
  <2>3. F[s - 1].id <= F[s].id
    BY <1>3, <2>1
  <2>4. F[r].id <= F[s - 1].id
    <3>1. CASE r = s - 1
      BY <1>1, <2>1, <3>1
    <3>2. CASE r # s - 1
      BY <1>3, <2>1, <3>2
    <3> QED
      BY <3>1, <3>2
  <2> QED
    BY <1>1, <2>1, <2>2, <2>3, <2>4
<1>10. \A r \in DOMAIN F : \E s \in kept : F[s].id = F[r].id
  <2> SUFFICES ASSUME NEW r \in DOMAIN F PROVE \E s \in kept : F[s].id = F[r].id
    OBVIOUS
  <2> DEFINE Same == {s \in 1..Len(F) : F[s].id = F[r].id}
  <2>1. PICK s \in Same : \A q \in Same : s <= q
    <3>1. Same \in SUBSET (1..Len(F)) /\ Same # {}
      BY <1>1
    <3> HIDE DEF Same
    <3> QED
      BY <1>1, <3>1, MinIsThere
  <2>2. s \in DOMAIN F /\ F[s].id = F[r].id /\ s \in Nat
    BY <1>1
  <2>3. ASSUME s > 1, F[s - 1].id = F[s].id PROVE FALSE
    <3>1. s - 1 \in Same
      BY <1>1, <2>2, <2>3
    <3>2. s <= s - 1
      BY <2>1, <3>1
    <3> QED
      BY <2>2, <3>2
  <2>4. s \in kept
    BY <1>7, <2>2, <2>3
  <2> QED
    BY <2>2, <2>4
<1>11. /\ \A n \in 1..Cardinality(kept) : Nth(kept, n) \in kept
       /\ \A m, n \in 1..Cardinality(kept) : m < n => Nth(kept, m) < Nth(kept, n)
       /\ \A r \in kept : \E n \in 1..Cardinality(kept) : Nth(kept, n) = r
  BY <1>1, <1>8, NthInOrder
<1> HIDE DEF kept
<1>12. /\ DOMAIN K = 1..Cardinality(kept)
       /\ \A n \in DOMAIN K : K[n] = F[Nth(kept, n)] /\ Nth(kept, n) \in DOMAIN F
  BY <1>1, <1>6, <1>8, <1>11
<1>13. FromLedger(K)
  BY <1>2, <1>12 DEF FromLedger
<1>14. InOrder(K)
  BY <1>9, <1>11, <1>12 DEF InOrder
<1>15. IdsOf(K) \subseteq IdsOf(F)
  BY <1>12 DEF IdsOf
<1>16. IdsOf(F) \subseteq IdsOf(K)
  <2> SUFFICES ASSUME NEW r \in DOMAIN F PROVE F[r].id \in IdsOf(K)
    BY DEF IdsOf
  <2>1. PICK s \in kept : F[s].id = F[r].id
    BY <1>10
  <2>2. PICK n \in 1..Cardinality(kept) : Nth(kept, n) = s
    BY <1>11
  <2> QED
    BY <1>12, <2>1, <2>2 DEF IdsOf
<1> QED
  BY <1>5, <1>13, <1>14, <1>15, <1>16 DEF F, K

\* All that is shown, in its order, is the top of the ledger.
LEMMA InOrderIsTop ==
  ASSUME book \in Books, Listed, NEW s \in Seq(Row),
         FromLedger(s), InOrder(s), IdsOf(s) = Shown
  PROVE  /\ DOMAIN s = Shown
         /\ \A r \in DOMAIN s : s[r] = Ledger[r] /\ s[r].id = r
<1>1. /\ Len(s) \in Nat /\ DOMAIN s = 1..Len(s)
      /\ \A n \in DOMAIN s : s[n].id \in Shown /\ s[n].id \in Nat /\ s[n].id > 0
  <2>1. \A n \in DOMAIN s : s[n].id \in Shown
    BY DEF IdsOf
  <2> QED
    BY <2>1, ShownTypes
<1> DEFINE Wrong == {n \in 1..Len(s) : s[n].id # n}
<1>2. Wrong = {}
  <2> SUFFICES ASSUME Wrong # {} PROVE FALSE
    OBVIOUS
  <2>1. PICK n \in Wrong : \A m \in Wrong : n <= m
    <3>1. Wrong \in SUBSET (1..Len(s))
      OBVIOUS
    <3> HIDE DEF Wrong
    <3> QED
      BY <1>1, <3>1, MinIsThere
  <2>2. n \in DOMAIN s /\ s[n].id # n /\ n \in Nat /\ n > 0
    BY <1>1
  <2>3. \A m \in DOMAIN s : m < n => s[m].id = m
    <3> SUFFICES ASSUME NEW m \in DOMAIN s, m < n, s[m].id # m PROVE FALSE
      OBVIOUS
    <3>1. m \in Wrong /\ m \in Nat
      BY <1>1
    <3> QED
      BY <2>1, <2>2, <3>1
  <2>4. ~(s[n].id < n)
    <3> SUFFICES ASSUME s[n].id < n PROVE FALSE
      OBVIOUS
    <3>1. s[n].id \in DOMAIN s
      BY <1>1, <2>2
    <3>2. s[s[n].id].id = s[n].id
      BY <2>3, <3>1
    <3>3. s[s[n].id].id < s[n].id
      BY <2>2, <3>1 DEF InOrder
    <3> QED
      BY <1>1, <2>2, <3>2, <3>3
  <2>5. s[n].id > n
    BY <1>1, <2>2, <2>4
  <2>6. n \in Shown
    <3>1. n \in 1..(s[n].id)
      BY <1>1, <2>2, <2>5
    <3> QED
      BY <1>1, <2>2, <3>1, ShownTypes
  <2>7. PICK k \in DOMAIN s : s[k].id = n
    BY <2>6 DEF IdsOf
  <2>8. k \in Nat /\ k # n /\ ~(k < n)
    BY <1>1, <2>2, <2>3, <2>7
  <2>9. n < k
    BY <2>2, <2>8
  <2>10. s[n].id < s[k].id
    BY <2>2, <2>9 DEF InOrder
  <2> QED
    BY <1>1, <2>2, <2>5, <2>7, <2>10
<1>3. \A r \in DOMAIN s : s[r].id = r
  BY <1>1, <1>2
<1>4. DOMAIN s \subseteq Shown /\ Shown \subseteq DOMAIN s
  BY <1>1, <1>3 DEF IdsOf
<1> QED
  BY <1>3, <1>4 DEF FromLedger

\* Sorted by their dates, the rows of several files are the top of the ledger.
LEMMA SortRestores ==
  ASSUME book \in Books, Listed, book.multi, Sort,
         items \in Seq(Row), FromLedger(items), Distinct(items), IdsOf(items) = Shown
  PROVE  Restored'
<1>1. /\ items' \in Seq(Row) /\ book' = book
  BY SortedAreRows DEF Sort
<1>2. PICK p \in [Items -> Items] :
         /\ items' = [n \in Items |-> items[p[n]]]
         /\ \A r \in Items : \E n \in Items : p[n] = r
         /\ \A m, n \in Items : m < n => p[m] # p[n] /\ items[p[m]].date >= items[p[n]].date
  BY SortedAreRows
<1>3. DOMAIN items' = Items /\ \A n \in Items : items'[n] = items[p[n]] /\ p[n] \in Items
  BY <1>2
<1>4. \A n \in Items : /\ items[n].id \in Changes /\ items[n].id \in Nat /\ items[n] = Ledger[items[n].id]
                       /\ items[n].date \in Nat
  BY LedgerTypes DEF FromLedger, Items
<1>5. FromLedger(items')
  BY <1>3, <1>4 DEF FromLedger
<1>6. IdsOf(items') = IdsOf(items)
  <2>1. IdsOf(items') \subseteq IdsOf(items)
    BY <1>3 DEF IdsOf, Items
  <2>2. IdsOf(items) \subseteq IdsOf(items')
    <3> SUFFICES ASSUME NEW r \in Items PROVE items[r].id \in IdsOf(items')
      BY DEF IdsOf, Items
    <3>1. PICK n \in Items : p[n] = r
      BY <1>2
    <3> QED
      BY <1>3, <3>1 DEF IdsOf
  <2> QED
    BY <2>1, <2>2
<1>7. InOrder(items')
  <2> SUFFICES ASSUME NEW m \in Items, NEW n \in Items, m < n
               PROVE  items[p[m]].id < items[p[n]].id
    BY <1>3 DEF InOrder
  <2> DEFINE i == items[p[m]].id
             j == items[p[n]].id
  <2>1. i # j
    BY <1>2, <1>3 DEF Distinct, Items
  <2>2. /\ i \in Changes /\ j \in Changes /\ i \in Nat /\ j \in Nat
        /\ Ledger[i].date >= Ledger[j].date /\ Ledger[i].date \in Nat /\ Ledger[j].date \in Nat
    BY <1>2, <1>3, <1>4
  <2>3. \A x, y \in Changes : x < y => Ledger[x].date > Ledger[y].date
    BY DEF Listed
  <2> HIDE DEF i, j
  <2>4. ~(j < i)
    BY <2>2, <2>3
  <2>5. i < j
    BY <2>1, <2>2, <2>4
  <2> QED
    BY <2>5 DEF i, j
<1>8. /\ DOMAIN items' = Shown
      /\ \A r \in DOMAIN items' : items'[r] = Ledger[r] /\ items'[r].id = r
  <2> DEFINE s == items'
  <2>1. s \in Seq(Row) /\ FromLedger(s) /\ InOrder(s) /\ IdsOf(s) = Shown
    BY <1>1, <1>5, <1>6, <1>7
  <2> HIDE DEF s
  <2>2. DOMAIN s = Shown /\ \A r \in DOMAIN s : s[r] = Ledger[r] /\ s[r].id = r
    BY <2>1, InOrderIsTop
  <2> QED
    BY <2>2 DEF s
<1> QED
  BY <1>1, <1>8 DEF Restored, Items, Shown, Ledger

-----------------------------------------------------------------------------
(* The rows of orderly files, and what they come to.                        *)

Ready == book \in Books /\ Orderly /\ Tables /\ Restored

\* What is known once the rows are the top of the ledger.
LEMMA ReadyFacts ==
  ASSUME Ready
  PROVE  /\ Balanced /\ Settled /\ Listed
         /\ Len(items) \in Nat /\ Items = 1..Len(items) /\ Items \subseteq Changes
         /\ \A r \in Items : items[r] = Ledger[r] /\ items[r].id = r
         /\ Withdrawals = Draws \cap Items
         /\ \A p \in Changes, r \in Items : p <= r => p \in Items
         /\ \A S \in SUBSET Items : S \in SUBSET Changes /\ Amount(S) = Worth(S)
         /\ \A w \in Draws : Ledger[w].balance = Worth(LeftBy(w)) /\ w \in Nat /\ w > 0 /\ w \in Changes
         /\ \A w \in Withdrawals : Due(w) = Worth(Taken(w)) /\ Rest(w) = Worth(LeftBy(w))
<1>1. /\ book \in Books /\ Tables /\ Balanced /\ Settled /\ Listed
      /\ IF book.multi THEN OrderlyMany ELSE OrderlyOne
  BY DEF Ready, Orderly
<1>2. Items = Shown /\ \A r \in Items : items[r] = Ledger[r] /\ items[r].id = r
  BY DEF Ready, Restored
<1>3. Len(items) \in Nat /\ Items = 1..Len(items)
  BY <1>1, TableTypes
<1>4. Items \subseteq Changes
  BY <1>1, <1>2, ShownTypes
<1>5. Len(Ledger) \in Nat /\ Changes = 1..Len(Ledger) /\ \A p \in Changes : Ledger[p].amount \in Int
  BY <1>1, LedgerTypes
<1>6. Withdrawals = Draws \cap Items
  <2>1. CASE book.multi
    BY <1>2, <1>4, <2>1 DEF Withdrawals, Draws
  <2>2. CASE ~book.multi
    <3>1. \A p \in Changes : IsFund(Ledger[p]) => p \in Draws
      BY <1>1, <2>2 DEF OrderlyOne
    <3>2. \A p \in Draws : IsFund(Ledger[p]) /\ p \in Changes
      BY DEF Draws
    <3> QED
      BY <1>2, <1>4, <2>2, <3>1, <3>2 DEF Withdrawals
  <2> QED
    BY <2>1, <2>2
<1>7. \A p \in Changes, r \in Items : p <= r => p \in Items
  BY <1>3, <1>5
<1>8. \A S \in SUBSET Items : S \in SUBSET Changes /\ Amount(S) = Worth(S)
  BY <1>1, <1>2, <1>4, AmountIsWorth
<1>9. \A w \in Draws : Ledger[w].balance = Worth(LeftBy(w))
  BY <1>1, BalanceIsUnpaid
<1>10. \A w \in Draws : w \in Nat /\ w > 0 /\ w \in Changes
  BY <1>5 DEF Draws
<1>11. ASSUME NEW w \in Withdrawals PROVE Due(w) = Worth(Taken(w)) /\ Rest(w) = Worth(LeftBy(w))
  <2>1. w \in Draws /\ w \in Items /\ items[w] = Ledger[w] /\ w \in Changes
    BY <1>2, <1>6, <1>10
  <2>2. Ledger[w].amount = -Worth(Taken(w)) /\ Ledger[w].amount < 0
    BY <1>1, <2>1 DEF Balanced, Draws
  <2>3. Worth(Taken(w)) \in Int
    BY <1>1, WorthAdds DEF Taken
  <2>4. \A a, t \in Int : a = -t /\ a < 0 => Abs(a) = t
    BY DEF Abs
  <2> QED
    BY <1>5, <1>9, <2>1, <2>2, <2>3, <2>4 DEF Due, Rest
<1> QED
  BY <1>1, <1>2, <1>3, <1>4, <1>6, <1>7, <1>8, <1>9, <1>10, <1>11

\* Which withdrawal takes a change: the next, or the one after that.
LEMMA Takers ==
  ASSUME book \in Books, Balanced, NEW w \in Draws, NEW p \in Changes \ Draws
  PROVE  /\ book.taker[p] \in Nat /\ book.taker[p] < p /\ book.taker[p] \in Draws \cup {0}
         /\ w < p /\ (\A v \in Draws : w < v => p < v) => book.taker[p] = w \/ p \in LeftBy(w)
         /\ \A v \in Draws : w < v /\ v < p => book.taker[p] >= w
         /\ p \in Taken(w) => w < p
<1>1. /\ book.taker[p] \in Nat /\ p \in Nat /\ w \in Nat /\ \A v \in Draws : v \in Nat
      /\ book.taker[p] < p /\ book.taker[p] \in Draws \cup {0}
  BY LedgerTypes DEF Balanced, Draws
<1>2. \A v \in Draws : w < v /\ v < p => book.taker[p] >= w
  BY DEF Balanced
<1>3. ASSUME w < p, \A v \in Draws : w < v => p < v, book.taker[p] # w PROVE p \in LeftBy(w)
  <2>1. ~(w < book.taker[p])
    BY <1>1, <1>3
  <2>2. book.taker[p] < w
    BY <1>1, <1>3, <2>1
  <2> QED
    BY <1>3, <2>2 DEF LeftBy
<1> QED
  BY <1>1, <1>2, <1>3 DEF Taken

\* What is taken is no withdrawal's row.
LEMMA TakenTypes ==
  ASSUME book \in Books, Balanced, NEW w \in Draws
  PROVE  /\ Taken(w) \subseteq Changes \ Draws /\ LeftBy(w) \subseteq Changes \ Draws
         /\ \A p \in Taken(w) : p \in Nat /\ w < p
         /\ \A p \in LeftBy(w) : p \in Nat /\ w < p /\ book.taker[p] < w
         /\ Taken(w) \cap LeftBy(w) = {}
<1>1. w \in Nat /\ w > 0 /\ \A p \in Changes : p \in Nat /\ book.taker[p] \in Nat
  BY LedgerTypes DEF Draws
<1>2. \A p \in Draws : book.taker[p] = 0
  BY DEF Balanced
<1>3. Taken(w) \subseteq Changes \ Draws
  BY <1>1, <1>2 DEF Taken
<1>4. \A p \in Taken(w) : w < p
  BY <1>3, Takers
<1>5. Taken(w) \cap LeftBy(w) = {}
  BY <1>1 DEF Taken, LeftBy
<1> QED
  BY <1>1, <1>3, <1>4, <1>5 DEF LeftBy

-----------------------------------------------------------------------------
(* One file: the rows between two withdrawals.                              *)

\* What a withdrawal took of the changes since the one before it.
Own(w) == Taken(w) \cap Earning(w)

\* The rows after the withdrawal before are what it left, and then what it took.
LEMMA EarningParts ==
  ASSUME Ready, ~book.multi, NEW w \in Withdrawals
  PROVE  /\ Earning(w) = (LeftBy(w) \cap Items) \cup Own(w)
         /\ \A p \in LeftBy(w), q \in Own(w) : p < q
         /\ Own(w) # {} => LeftBy(w) \subseteq Items
<1>1. /\ book \in Books /\ Balanced /\ Items \subseteq Changes /\ w \in Draws /\ w \in Items
      /\ Withdrawals = Draws \cap Items /\ \A p \in Changes, r \in Items : p <= r => p \in Items
      /\ \A p \in Changes : p \in Nat /\ book.taker[p] \in Nat
  BY ReadyFacts, LedgerTypes DEF Ready
<1>2. ASSUME NEW r \in Earning(w) PROVE r \in Items /\ (r \in LeftBy(w) \/ r \in Own(w))
  <2>1. r \in Items /\ r > w /\ r \in Changes /\ \A v \in Withdrawals : v > w => r < v
    BY <1>1 DEF Earning
  <2>2. r \notin Draws
    BY <1>1, <2>1
  <2>3. \A v \in Draws : w < v => r < v
    <3> SUFFICES ASSUME NEW v \in Draws, w < v, v <= r PROVE FALSE
      BY <1>1, <2>1 DEF Draws
    <3>1. v \in Items
      BY <1>1, <2>1 DEF Draws
    <3> QED
      BY <1>1, <2>1, <3>1
  <2>4. book.taker[r] = w \/ r \in LeftBy(w)
    BY <1>1, <2>1, <2>2, <2>3, Takers
  <2> QED
    BY <2>1, <2>4 DEF Own, Taken
<1>3. ASSUME NEW p \in LeftBy(w) \cap Items PROVE p \in Earning(w)
  <2>1. p \in Changes \ Draws /\ w < p /\ book.taker[p] < w
    BY <1>1, TakenTypes
  <2>2. ASSUME NEW v \in Withdrawals, v > w PROVE p < v
    <3>1. v \in Draws /\ p # v /\ ~(v < p)
      BY <1>1, <2>1, <2>2, Takers
    <3> QED
      BY <1>1, <2>1, <3>1
  <2> QED
    BY <1>1, <2>1, <2>2 DEF Earning
<1>4. ASSUME NEW p \in LeftBy(w), NEW q \in Own(w) PROVE p < q
  <2>1. /\ p \in Changes \ Draws /\ book.taker[p] < w
        /\ q \in Changes \ Draws /\ book.taker[q] = w
    BY <1>1, TakenTypes DEF Own, Taken
  <2>2. p # q /\ ~(q < p)
    BY <1>1, <2>1 DEF Balanced
  <2> QED
    BY <1>1, <2>1, <2>2
<1>5. ASSUME Own(w) # {}, NEW p \in LeftBy(w) PROVE p \in Items
  <2>1. PICK q \in Own(w) : TRUE
    BY <1>5
  <2>2. q \in Items /\ p < q /\ p \in Changes
    BY <1>1, <1>4, TakenTypes DEF Own, Earning
  <2> QED
    BY <1>1, <2>2
<1> QED
  BY <1>2, <1>3, <1>4, <1>5 DEF Own

\* The rest of what it took is what the withdrawal before it left, if there is
\* one; and if there is none and the file is whole, nothing.
Borrowed(w) == IF IsLast(w) THEN {} ELSE LeftBy(Before(w))

\* What it took is what it took of its own rows and what it borrowed.
LEMMA TakenParts ==
  ASSUME Ready, ~book.multi, NEW w \in Withdrawals, Whole \/ ~IsLast(w)
  PROVE  /\ LeftBy(w) \subseteq Items
         /\ Taken(w) = Own(w) \cup Borrowed(w) /\ Own(w) \cap Borrowed(w) = {}
         /\ ~IsLast(w) => /\ Before(w) \in Withdrawals /\ w < Before(w)
                          /\ \A u \in Draws : ~(w < u /\ u < Before(w))
<1>1. /\ book \in Books /\ Balanced /\ Items \subseteq Changes /\ w \in Draws /\ w \in Items
      /\ Len(items) \in Nat /\ Items = 1..Len(items) /\ w \in Nat /\ w > 0
      /\ Withdrawals = Draws \cap Items /\ \A p \in Changes, r \in Items : p <= r => p \in Items
      /\ \A p \in Changes : p \in Nat /\ book.taker[p] \in Nat
      /\ Draws \subseteq Changes
  BY ReadyFacts, LedgerTypes DEF Ready
<1>2. Taken(w) \subseteq Changes \ Draws /\ \A p \in Taken(w) : w < p
  BY <1>1, TakenTypes
<1>3. CASE IsLast(w)
  <2>1. Items = Changes
    BY <1>3 DEF Whole, Ready, Restored
  <2>2. \A v \in Withdrawals : v <= w
    <3>1. Withdrawals \in SUBSET (1..Len(items)) /\ Withdrawals # {}
      BY <1>1
    <3>2. \A v \in Withdrawals : v <= Max(Withdrawals)
      BY <1>1, <3>1, MaxIsThere
    <3> QED
      BY <1>3, <3>2 DEF IsLast, Oldest
  <2>3. \A p \in Taken(w) : p \in Earning(w)
    BY <1>1, <1>2, <2>1, <2>2 DEF Earning
  <2>4. Taken(w) = Own(w) /\ Borrowed(w) = {}
    BY <1>3, <2>3 DEF Own, Borrowed
  <2> QED
    BY <1>3, <2>1, <2>4 DEF LeftBy
<1>4. CASE ~IsLast(w)
  <2> DEFINE Above == {v \in Withdrawals : v > w}
             v == Before(w)
  <2>1. Above # {}
    <3>1. Withdrawals \in SUBSET (1..Len(items)) /\ Withdrawals # {}
      BY <1>1
    <3>2. Max(Withdrawals) \in Withdrawals /\ w <= Max(Withdrawals) /\ w # Max(Withdrawals)
      BY <1>1, <1>4, <3>1, MaxIsThere DEF IsLast, Oldest
    <3> QED
      BY <1>1, <3>2
  <2>2. v \in Above /\ \A u \in Above : v <= u
    <3>1. Above \in SUBSET (1..Len(items))
      BY <1>1
    <3>2. v = Min(Above)
      BY DEF Before, Newest
    <3> HIDE DEF Above, v
    <3> QED
      BY <1>1, <2>1, <3>1, <3>2, MinIsThere
  <2>3. v \in Withdrawals /\ w < v /\ v \in Draws /\ v \in Items /\ v \in Nat
    BY <1>1, <2>2
  <2>4. \A u \in Draws : ~(w < u /\ u < v)
    <3> SUFFICES ASSUME NEW u \in Draws, w < u, u < v PROVE FALSE
      OBVIOUS
    <3>1. u \in Nat /\ u \in Items
      BY <1>1, <2>3
    <3>2. u \in Above
      BY <1>1, <3>1
    <3> QED
      BY <2>2, <2>3, <3>1, <3>2
  <2> HIDE DEF v
  <2>5. LeftBy(w) \subseteq Items
    <3> SUFFICES ASSUME NEW p \in LeftBy(w) PROVE p \in Items
      OBVIOUS
    <3>1. p \in Changes \ Draws /\ w < p /\ book.taker[p] < w
      BY <1>1, TakenTypes
    <3>2. ~(v < p)
      BY <1>1, <2>3, <3>1, Takers
    <3> QED
      BY <1>1, <2>3, <3>1, <3>2
  <2>6. Taken(w) \subseteq Own(w) \cup LeftBy(v)
    <3> SUFFICES ASSUME NEW p \in Taken(w) PROVE p \in Own(w) \/ p \in LeftBy(v)
      OBVIOUS
    <3>1. p \in Changes \ Draws /\ w < p /\ book.taker[p] = w /\ p \in Nat /\ p # v
      BY <1>1, <1>2, <2>3 DEF Taken
    <3>2. CASE v < p
      BY <2>3, <3>1, <3>2 DEF LeftBy
    <3>3. CASE p < v
      <4>1. p \in Items
        BY <1>1, <2>3, <3>1, <3>3
      <4>2. \A u \in Withdrawals : u > w => p < u
        <5> SUFFICES ASSUME NEW u \in Withdrawals, u > w PROVE p < u
          OBVIOUS
        <5>1. v <= u /\ u \in Nat
          BY <1>1, <2>2
        <5> QED
          BY <2>3, <3>1, <3>3, <5>1
      <4> QED
        BY <3>1, <4>1, <4>2 DEF Own, Earning
    <3> QED
      BY <2>3, <3>1, <3>2, <3>3
  <2>7. LeftBy(v) \subseteq Taken(w)
    <3> SUFFICES ASSUME NEW p \in LeftBy(v) PROVE p \in Taken(w)
      OBVIOUS
    <3>1. p \in Changes \ Draws /\ v < p /\ book.taker[p] < v /\ book.taker[p] \in Nat
      BY <1>1, <2>3, TakenTypes
    <3>2. book.taker[p] >= w /\ book.taker[p] \in Draws \cup {0}
      BY <1>1, <2>3, <3>1, Takers
    <3>3. book.taker[p] \in Draws
      BY <1>1, <3>2
    <3>4. book.taker[p] = w
      BY <1>1, <2>4, <3>1, <3>2, <3>3
    <3> QED
      BY <3>1, <3>4 DEF Taken
  <2>8. Own(w) \cap LeftBy(v) = {}
    <3> SUFFICES ASSUME NEW p \in Own(w), p \in LeftBy(v) PROVE FALSE
      OBVIOUS
    <3>1. p \in Nat /\ p < v /\ v < p
      BY <1>1, <2>3, TakenTypes DEF Own, Earning
    <3> QED
      BY <2>3, <3>1
  <2>9. Borrowed(w) = LeftBy(v)
    BY <1>4 DEF Borrowed, v
  <2> QED
    BY <2>3, <2>4, <2>5, <2>6, <2>7, <2>8, <2>9 DEF Own, v
<1> QED
  BY <1>3, <1>4

-----------------------------------------------------------------------------
(* One file: what is traced for a withdrawal is what it took.               *)

\* If something is left, it is worth something.
LEMMA WhatIsLeft ==
  ASSUME Ready, ~book.multi, NEW w \in Draws
  PROVE  /\ LeftBy(w) # {} => (\A p \in Changes \ Draws : Ledger[p].amount > 0) /\ Worth(LeftBy(w)) > 0
         /\ LeftBy(w) = {} => Worth(LeftBy(w)) = 0
<1>1. /\ book \in Books /\ Balanced /\ OrderlyOne
      /\ \A p \in Changes : Ledger[p].amount \in Int
  BY ReadyFacts, LedgerTypes DEF Ready, Orderly
<1>2. ASSUME LeftBy(w) # {}
      PROVE  (\A p \in Changes \ Draws : Ledger[p].amount > 0) /\ Worth(LeftBy(w)) > 0
  <2>1. \A p \in Changes \ Draws : Ledger[p].amount > 0
    BY <1>1, <1>2 DEF OrderlyOne
  <2> DEFINE L == LeftBy(w)
             none == L \cap {}
  <2>2. PICK p \in L : TRUE
    BY <1>2
  <2>3. L \in SUBSET Changes /\ none \in SUBSET L /\ L \subseteq Changes \ Draws
        /\ none = {} /\ p \in L \ none
    BY <1>1, <2>2, TakenTypes
  <2> HIDE DEF L, none
  <2>4. Worth(none) + Ledger[p].amount <= Worth(L)
    BY <1>1, <2>1, <2>3, WorthGrows
  <2>5. Worth(none) = 0 /\ Worth(L) \in Int /\ Ledger[p].amount > 0 /\ Ledger[p].amount \in Int
    BY <1>1, <2>1, <2>3, WorthAdds
  <2>6. Worth(L) > 0
    BY <2>4, <2>5
  <2> QED
    BY <2>1, <2>6 DEF L
<1>3. ASSUME LeftBy(w) = {} PROVE Worth(LeftBy(w)) = 0
  BY <1>1, <1>3, WorthAdds
<1> QED
  BY <1>2, <1>3

\* The rows found to be left by a withdrawal are those it left.
LEMMA NotFundedIsLeft ==
  ASSUME Ready, ~book.multi, NEW w \in Withdrawals
  PROVE  NotFundedEarning(w) = LeftBy(w) \cap Items
<1> DEFINE L == LeftBy(w)
           E == Earning(w)
<1>1. /\ book \in Books /\ Balanced /\ w \in Draws /\ Items \subseteq Changes
      /\ \A p \in Changes : p \in Nat /\ Ledger[p].amount \in Int
      /\ \A S \in SUBSET Items : S \in SUBSET Changes /\ Amount(S) = Worth(S)
      /\ Rest(w) = Worth(L)
  BY ReadyFacts, LedgerTypes DEF Ready
<1>2. /\ E = (L \cap Items) \cup Own(w)
      /\ \A p \in L, q \in Own(w) : p < q
      /\ Own(w) # {} => L \subseteq Items
  BY EarningParts
<1>3. L \subseteq Changes \ Draws /\ Own(w) \subseteq Changes \ Draws /\ E \subseteq Items
      /\ \A p \in Own(w) : p \in Nat /\ p \notin L
  BY <1>1, TakenTypes DEF Own, Earning
<1>4. CASE L = {}
  <2>1. Rest(w) = 0
    BY <1>1, <1>4, WhatIsLeft
  <2> QED
    BY <1>4, <2>1 DEF NotFundedEarning
<1>5. CASE L # {}
  <2>1. Rest(w) > 0 /\ \A p \in Changes \ Draws : Ledger[p].amount > 0
    BY <1>1, <1>5, WhatIsLeft
  <2>2. NotFundedEarning(w) = {r \in E : \A s \in E : s <= r => Amount({u \in E : u <= s}) <= Rest(w)}
    BY <2>1 DEF NotFundedEarning, NewestFit
  <2> HIDE DEF L, E
  <2>3. ASSUME NEW r \in L \cap Items, NEW s \in E, s <= r
        PROVE  Amount({u \in E : u <= s}) <= Rest(w)
    <3> DEFINE P == {u \in E : u <= s}
    <3>1. P \subseteq Items /\ P \subseteq L
      <4> SUFFICES ASSUME NEW u \in E, u <= s PROVE u \in Items /\ u \in L
        OBVIOUS
      <4>1. u \in Nat /\ s \in Nat /\ r \in Nat /\ u \in Items
        BY <1>1, <1>3
      <4>2. ~(r < u)
        BY <2>3, <4>1
      <4> QED
        BY <1>2, <4>1, <4>2
    <3>2. Amount(P) = Worth(P)
      <4> HIDE DEF P
      <4> QED
        BY <1>1, <3>1
    <3>3. Worth(P) <= Worth(L)
      <4> HIDE DEF P
      <4>1. L \in SUBSET Changes /\ P \in SUBSET L /\ \A p \in L \ P : Ledger[p].amount > 0
        BY <1>3, <2>1, <3>1
      <4> QED
        BY <1>1, <4>1, WorthGrows
    <3> QED
      BY <1>1, <3>2, <3>3
  <2>4. ASSUME NEW r \in Own(w)
        PROVE  r \in E /\ ~(Amount({u \in E : u <= r}) <= Rest(w))
    <3> DEFINE P == {u \in E : u <= r}
    <3>1. P \subseteq Items /\ L \subseteq P /\ r \in P \ L
      <4>1. r \in E /\ r \in Nat /\ r \notin L /\ \A u \in L : u \in E /\ u \in Nat /\ u < r
        BY <1>1, <1>2, <1>3
      <4>2. L \subseteq P
        BY <4>1
      <4>3. r <= r
        BY <4>1
      <4> QED
        BY <1>3, <4>1, <4>2, <4>3
    <3>2. Amount(P) = Worth(P) /\ P \in SUBSET Changes
      <4> HIDE DEF P
      <4> QED
        BY <1>1, <3>1
    <3>3. Worth(L) + Ledger[r].amount <= Worth(P)
      <4>1. \A p \in P \ L : Ledger[p].amount > 0
        BY <1>2, <1>3, <2>1
      <4> HIDE DEF P
      <4>2. P \in SUBSET Changes /\ L \in SUBSET P
        BY <3>1, <3>2
      <4> QED
        BY <1>1, <3>1, <4>1, <4>2, WorthGrows
    <3>4. Ledger[r].amount > 0 /\ Ledger[r].amount \in Int
      BY <1>1, <1>3, <2>1
    <3>5. Worth(P) \in Int /\ Worth(L) \in Int
      <4>1. L \in SUBSET Changes
        BY <1>3
      <4> HIDE DEF P
      <4> QED
        BY <1>1, <3>2, <4>1, WorthAdds
    <3>6. \A a, b, c \in Int : a + b <= c /\ b > 0 => ~(c <= a)
      OBVIOUS
    <3>7. ~(Worth(P) <= Worth(L))
      <4> HIDE DEF P
      <4> QED
        BY <3>3, <3>4, <3>5, <3>6
    <3>8. r \in E
      BY <1>2
    <3> QED
      <4> HIDE DEF P
      <4>1. ~(Amount(P) <= Rest(w))
        BY <1>1, <3>2, <3>7
      <4> QED
        BY <3>8, <4>1 DEF P
  <2>5. \A r \in Own(w) : r <= r
    BY <1>3
  <2>6. ASSUME NEW r \in E
        PROVE  (\A s \in E : s <= r => Amount({u \in E : u <= s}) <= Rest(w)) <=> r \in L \cap Items
    <3>1. CASE r \in L \cap Items
      BY <2>3, <3>1
    <3>2. CASE r \notin L \cap Items
      <4>1. r \in Own(w)
        BY <1>2, <3>2
      <4> QED
        BY <2>4, <2>5, <3>2, <4>1
    <3> QED
      BY <3>1, <3>2
  <2>7. L \cap Items \subseteq E
    BY <1>2
  <2> QED
    BY <2>2, <2>6, <2>7 DEF L
<1> QED
  BY <1>4, <1>5

\* The rows add up to it as they are just if it left nothing and took nothing
\* that was left.
LEMMA AddUpIfSettled ==
  ASSUME Ready, ~book.multi, NEW w \in Withdrawals, Whole \/ ~IsLast(w)
  PROVE  AddUp(w) <=> LeftBy(w) = {} /\ Borrowed(w) = {}
<1> DEFINE L == LeftBy(w)
           B == Borrowed(w)
           O == Own(w)
<1>1. /\ book \in Books /\ Balanced /\ w \in Draws /\ Items \subseteq Changes /\ OrderlyOne
      /\ \A S \in SUBSET Items : S \in SUBSET Changes /\ Amount(S) = Worth(S)
      /\ Due(w) = Worth(Taken(w))
      /\ Withdrawals = Draws \cap Items
  BY ReadyFacts DEF Ready, Orderly
<1>2. /\ Earning(w) = L \cup O /\ L \subseteq Items /\ O \subseteq Items
      /\ Taken(w) = O \cup B /\ O \cap B = {} /\ L \cap O = {}
      /\ ~IsLast(w) => /\ Before(w) \in Draws /\ w < Before(w) /\ B = LeftBy(Before(w))
                       /\ \A u \in Draws : ~(w < u /\ u < Before(w))
      /\ IsLast(w) => B = {}
  <2>1. Earning(w) = L \cup O /\ L \subseteq Items
    BY EarningParts, TakenParts
  <2>2. L \cap O = {}
    BY <1>1, TakenTypes DEF Own
  <2>3. O \subseteq Items
    BY DEF Own, Earning
  <2> QED
    BY <1>1, <2>1, <2>2, <2>3, TakenParts DEF Borrowed
<1>3. Taken(w) \in SUBSET Changes
  BY DEF Taken
<1> HIDE DEF L, B, O
<1>4. /\ L \in SUBSET Changes /\ O \in SUBSET Changes /\ B \in SUBSET Changes
      /\ L \cup O \in SUBSET Items
  BY <1>1, <1>2, <1>3
<1>5. Amount(Earning(w)) = Worth(L) + Worth(O) /\ Due(w) = Worth(O) + Worth(B)
  <2>1. Worth(L \cup O) = Worth(L) + Worth(O) /\ Worth(O \cup B) = Worth(O) + Worth(B)
    BY <1>1, <1>2, <1>4, WorthAdds
  <2> QED
    BY <1>1, <1>2, <1>4, <2>1
<1>6. Worth(L) \in Int /\ Worth(O) \in Int /\ Worth(B) \in Int
  BY <1>1, <1>4, WorthAdds
<1>7. AddUp(w) <=> Worth(L) = Worth(B)
  <2> DEFINE x == Worth(L)
             y == Worth(O)
             z == Worth(B)
  <2>1. x \in Int /\ y \in Int /\ z \in Int
    BY <1>6
  <2> HIDE DEF x, y, z
  <2>2. (x + y = y + z) <=> (x = z)
    BY <2>1
  <2> USE DEF x, y, z
  <2> QED
    BY <1>5, <2>2 DEF AddUp
<1>8. ASSUME L = {}, B = {} PROVE AddUp(w)
  BY <1>7, <1>8
<1>9. ASSUME AddUp(w) PROVE L = {} /\ B = {}
  <2>1. CASE IsLast(w)
    <3>1. B = {}
      BY <1>2, <2>1
    <3>2. Worth(L) = 0
      BY <1>1, <1>7, <1>9, <3>1, WorthAdds
    <3> QED
      BY <1>1, <3>1, <3>2, WhatIsLeft DEF L
  <2>2. CASE ~IsLast(w)
    <3> DEFINE v == Before(w)
    <3>1. v \in Draws /\ w < v /\ B = LeftBy(v) /\ \A u \in Draws : ~(w < u /\ u < v)
      BY <1>2, <2>2
    <3> HIDE DEF v
    <3>2. Ledger[w].balance = Worth(L) /\ Ledger[v].balance = Worth(B)
      BY <1>1, <3>1, ReadyFacts DEF L
    <3>3. Ledger[w].balance = Ledger[v].balance
      BY <1>7, <1>9, <3>2
    <3>4. Ledger[w].balance = 0
      BY <1>1, <3>1, <3>3 DEF OrderlyOne
    <3>5. Worth(LeftBy(w)) = 0 /\ Worth(LeftBy(v)) = 0
      BY <3>1, <3>2, <3>3, <3>4 DEF L
    <3> QED
      BY <1>1, <3>1, <3>5, WhatIsLeft DEF L
  <2> QED
    BY <2>1, <2>2
<1> QED
  BY <1>8, <1>9 DEF L, B

\* What is traced for a withdrawal is all it took, if all of that is there.
LEMMA TracedIsTaken ==
  ASSUME Ready, ~book.multi, NEW w \in Withdrawals, Whole \/ ~IsLast(w)
  PROVE  Traced(w) = Taken(w) \cap Items
<1> DEFINE L == LeftBy(w)
           B == Borrowed(w)
           O == Own(w)
<1>1. /\ book \in Books /\ Balanced /\ w \in Draws /\ Items \subseteq Changes
      /\ \A p \in Changes : p \in Nat /\ Ledger[p].amount \in Int
      /\ \A S \in SUBSET Items : S \in SUBSET Changes /\ Amount(S) = Worth(S)
      /\ Due(w) = Worth(Taken(w))
      /\ Withdrawals = Draws \cap Items
  BY ReadyFacts, LedgerTypes DEF Ready
<1>2. /\ Earning(w) = L \cup O /\ L \subseteq Items /\ O \subseteq Items
      /\ Taken(w) = O \cup B /\ O \cap B = {} /\ L \cap O = {}
      /\ ~IsLast(w) => Before(w) \in Withdrawals /\ B = LeftBy(Before(w))
      /\ IsLast(w) => B = {}
  <2>1. Earning(w) = L \cup O /\ L \subseteq Items
    BY EarningParts, TakenParts
  <2>2. L \cap O = {}
    BY <1>1, TakenTypes DEF Own
  <2>3. O \subseteq Items
    BY DEF Own, Earning
  <2> QED
    BY <1>1, <2>1, <2>2, <2>3, TakenParts DEF Borrowed
<1>3. Taken(w) \in SUBSET Changes /\ Taken(w) \subseteq Changes \ Draws
  BY <1>1, TakenTypes
<1>4. CASE AddUp(w)
  <2>1. L = {} /\ B = {}
    BY <1>4, AddUpIfSettled
  <2>2. Earning(w) = O /\ Taken(w) = O
    BY <1>2, <2>1
  <2> QED
    BY <1>2, <1>4, <2>2 DEF Traced
<1>5. CASE ~AddUp(w)
  <2>1. L # {} \/ B # {}
    BY <1>5, AddUpIfSettled
  <2>2. \A p \in Changes \ Draws : Ledger[p].amount > 0
    <3>1. CASE L # {}
      BY <1>1, <3>1, WhatIsLeft
    <3>2. CASE B # {}
      <4>1. Before(w) \in Draws /\ B = LeftBy(Before(w))
        BY <1>1, <1>2, <3>2
      <4> HIDE DEF B
      <4> QED
        BY <1>1, <3>2, <4>1, WhatIsLeft
    <3> QED
      BY <2>1, <3>1, <3>2
  <2>3. NotFundedEarning(w) = L
    BY <1>2, NotFundedIsLeft
  <2>4. Earning(w) \ NotFundedEarning(w) = O
    BY <1>2, <2>3
  <2> HIDE DEF O
  <2>5. ASSUME NEW r \in O, NEW s \in O
        PROVE  /\ s >= r => Amount({u \in O : u >= s}) <= Due(w)
               /\ s > r => Amount({u \in O : u >= s}) # Due(w)
    <3> DEFINE P == {u \in O : u >= s}
    <3>1. P \subseteq O
      OBVIOUS
    <3>2. ASSUME s > r PROVE r \in Taken(w) \ P
      <4>1. r \in Nat /\ s \in Nat
        BY <1>1, <1>2
      <4> QED
        BY <1>2, <3>2, <4>1
    <3> HIDE DEF P
    <3>3. Amount(P) = Worth(P) /\ P \in SUBSET Taken(w) /\ P \in SUBSET Changes
      <4>1. P \in SUBSET Items
        BY <1>2, <3>1
      <4> QED
        BY <1>1, <1>2, <3>1, <4>1
    <3>4. /\ Worth(P) <= Worth(Taken(w))
          /\ \A p \in Taken(w) \ P : Worth(P) + Ledger[p].amount <= Worth(Taken(w))
      BY <1>1, <1>3, <2>2, <3>3, WorthGrows
    <3>5. Worth(P) \in Int /\ Worth(Taken(w)) \in Int
      BY <1>1, <1>3, <3>3, WorthAdds
    <3>6. ASSUME s > r PROVE Amount(P) # Due(w)
      <4>1. Worth(P) + Ledger[r].amount <= Worth(Taken(w)) /\ Ledger[r].amount > 0
            /\ Ledger[r].amount \in Int
        BY <1>1, <1>3, <2>2, <3>2, <3>4, <3>6
      <4> QED
        BY <1>1, <3>3, <3>5, <4>1
    <3>7. Amount(P) <= Due(w)
      BY <1>1, <3>3, <3>4
    <3> QED
      BY <3>6, <3>7 DEF P
  <2>6. OldestFit(O, Due(w)) = O
    BY <2>5 DEF OldestFit
  <2>7. FundedEarning(w) = Taken(w) \cap Items
    <3>1. CASE IsLast(w)
      BY <1>2, <2>4, <2>6, <3>1 DEF FundedEarning
    <3>2. CASE ~IsLast(w)
      <4>1. NotFundedEarning(Before(w)) = B \cap Items
        BY <1>2, <3>2, NotFundedIsLeft
      <4> HIDE DEF B
      <4> QED
        BY <1>2, <2>4, <2>6, <3>2, <4>1 DEF FundedEarning
    <3> QED
      BY <3>1, <3>2
  <2> QED
    BY <1>5, <2>7 DEF Traced
<1> QED
  BY <1>4, <1>5

\* In a whole file every withdrawal can be traced.
LEMMA WholeIsTraceable ==
  ASSUME Ready, ~book.multi, NEW w \in Withdrawals, Whole
  PROVE  Traceable(w)
<1>1. /\ book \in Books /\ Balanced /\ w \in Draws /\ Items = Changes
      /\ \A S \in SUBSET Items : S \in SUBSET Changes /\ Amount(S) = Worth(S)
      /\ Due(w) = Worth(Taken(w)) /\ Rest(w) = Worth(LeftBy(w))
      /\ Withdrawals = Draws \cap Items
      /\ \A v \in Withdrawals : Rest(v) = Worth(LeftBy(v)) /\ v \in Draws
  BY ReadyFacts DEF Ready, Restored, Whole
<1>2. SUFFICES ASSUME ~AddUp(w) PROVE Traceable(w)
  BY DEF Traceable
<1>3. Traced(w) = Taken(w) /\ Traced(w) = FundedEarning(w) /\ Taken(w) \in SUBSET Items
  BY <1>1, <1>2, TracedIsTaken DEF Traced, Taken
<1>4. Amount(FundedEarning(w)) = Due(w)
  BY <1>1, <1>3
<1>5. Rest(w) >= 0
  <2>1. Worth(LeftBy(w)) \in Int
    BY <1>1, WorthAdds DEF LeftBy
  <2>2. Worth(LeftBy(w)) = 0 \/ Worth(LeftBy(w)) > 0
    BY <1>1, WhatIsLeft
  <2> QED
    BY <1>1, <2>1, <2>2
<1>6. ASSUME ~IsLast(w)
      PROVE  Amount(NotFundedEarning(Before(w))) = Rest(Before(w))
  <2> DEFINE v == Before(w)
  <2>1. v \in Withdrawals
    BY <1>6, TakenParts
  <2> HIDE DEF v
  <2>2. NotFundedEarning(v) = LeftBy(v) /\ LeftBy(v) \in SUBSET Items
    BY <1>1, <2>1, NotFundedIsLeft DEF LeftBy
  <2>3. Amount(NotFundedEarning(v)) = Rest(v)
    BY <1>1, <2>1, <2>2
  <2> QED
    BY <2>3 DEF v
<1> QED
  BY <1>4, <1>5, <1>6 DEF Traceable

-----------------------------------------------------------------------------
(* Several files: what is traced for a withdrawal is what it took.          *)

\* A withdrawal takes just the changes between the one before it and itself.
LEMMA TakenBetween ==
  ASSUME Ready, book.multi, NEW w \in Draws
  PROVE  Taken(w) = {p \in Changes \ Draws : w < p /\ \A u \in Draws : w < u => p < u}
<1>1. /\ book \in Books /\ Balanced /\ \A u \in Draws : LeftBy(u) = {} /\ u \in Nat
      /\ \A p \in Changes : p \in Nat
  BY ReadyFacts, LedgerTypes DEF Ready, Orderly, OrderlyMany
<1>2. ASSUME NEW p \in Changes \ Draws, w < p, \A u \in Draws : w < u => p < u PROVE p \in Taken(w)
  <2>1. book.taker[p] = w
    BY <1>1, <1>2, Takers
  <2> QED
    BY <2>1 DEF Taken
<1>3. ASSUME NEW p \in Taken(w), NEW u \in Draws, w < u PROVE p < u
  <2>1. p \in Changes \ Draws /\ book.taker[p] = w /\ p \in Nat /\ p # u
    BY <1>1, TakenTypes DEF Taken
  <2>2. ~(u < p)
    BY <1>1, <1>3, <2>1 DEF LeftBy
  <2> QED
    BY <1>1, <2>1, <2>2
<1>4. \A p \in Taken(w) : p \in Changes \ Draws /\ w < p
  BY <1>1, TakenTypes
<1> QED
  BY <1>2, <1>3, <1>4

\* Those are found by the balances, and nothing is found to be left.
LEMMA FundedIsTaken ==
  ASSUME Ready, book.multi, NEW w \in Withdrawals
  PROVE  /\ NotFund(w) = {} /\ Amount(NotFund(w)) = Rest(w)
         /\ Funded(w) = Taken(w) \cap Items
         /\ Taken(w) \subseteq Items => Amount(Funded(w)) = Due(w)
         /\ \A v \in Withdrawals : w < v => Taken(w) \subseteq Items
<1>1. /\ book \in Books /\ Balanced /\ Listed /\ OrderlyMany
      /\ Items \subseteq Changes /\ \A r \in Items : items[r] = Ledger[r]
      /\ Withdrawals = Draws \cap Items /\ w \in Draws /\ w \in Items
      /\ \A p \in Changes, r \in Items : p <= r => p \in Items
      /\ \A p \in Changes : p \in Nat /\ p > 0 /\ Ledger[p].date \in Nat
                            /\ Ledger[p].amount \in Int /\ Ledger[p].balance \in Int
      /\ Draws \subseteq Changes
      /\ Due(w) = Worth(Taken(w)) /\ Rest(w) = Worth(LeftBy(w))
      /\ \A S \in SUBSET Items : S \in SUBSET Changes /\ Amount(S) = Worth(S)
  BY ReadyFacts, LedgerTypes DEF Ready, Orderly, Draws
<1>2. Older(w) = {s \in Items : w < s}
  <2> SUFFICES ASSUME NEW s \in Items PROVE Ledger[s].date < Ledger[w].date <=> w < s
    BY <1>1 DEF Older
  <2>1. \A p, q \in Changes : p < q => Ledger[p].date > Ledger[q].date
    BY <1>1 DEF Listed
  <2>2. s \in Changes /\ w \in Changes
    BY <1>1
  <2>3. CASE w < s
    BY <1>1, <2>1, <2>2, <2>3
  <2>4. CASE s < w
    BY <1>1, <2>1, <2>2, <2>4
  <2>5. CASE s = w
    BY <1>1, <2>2, <2>5
  <2> QED
    BY <1>1, <2>2, <2>3, <2>4, <2>5
<1>3. /\ \A u \in Draws : Ledger[u].balance = 0 /\ LeftBy(u) = {}
      /\ \A p \in Changes \ Draws : Ledger[p].balance # 0
  <2>1. \A u \in Draws : LeftBy(u) = {} /\ Ledger[u].balance = Worth(LeftBy(u))
    BY <1>1, ReadyFacts DEF OrderlyMany
  <2>2. Worth({}) = 0
    BY <1>1, WorthAdds
  <2> QED
    BY <1>1, <2>1, <2>2 DEF OrderlyMany
<1>4. NotFund(w) = {}
  <2> SUFFICES ASSUME NEW r \in NotFund(w) PROVE FALSE
    OBVIOUS
  <2>1. r \in Items /\ w < r
    BY <1>2 DEF NotFund
  <2>2. w + 1 \in Items /\ w < w + 1 /\ w + 1 <= r
    <3>1. w \in Nat /\ r \in Nat
      BY <1>1, <2>1
    <3>2. Changes = 1..Len(Ledger) /\ Len(Ledger) \in Nat
      BY <1>1, LedgerTypes
    <3>3. w + 1 \in Changes /\ w + 1 <= r
      BY <1>1, <2>1, <3>1, <3>2
    <3> QED
      BY <1>1, <2>1, <3>1, <3>3
  <2>3. items[w + 1].balance # Due(w)
    BY <1>2, <2>2 DEF NotFund
  <2>4. /\ Ledger[w].balance = Ledger[w].amount + Ledger[w + 1].balance
        /\ Ledger[w].amount = -Worth(Taken(w))
    BY <1>1, <2>2 DEF Balanced
  <2>5. Worth(Taken(w)) \in Int
    BY <1>1, WorthAdds DEF Taken
  <2>6. Ledger[w + 1].balance = Worth(Taken(w))
    <3>1. \A a, b, x \in Int : 0 = a + b /\ a = -x => b = x
      OBVIOUS
    <3>2. Ledger[w + 1].balance \in Int /\ Ledger[w].amount \in Int /\ Ledger[w].balance = 0
      BY <1>1, <1>3, <2>2
    <3> QED
      BY <2>4, <2>5, <3>1, <3>2
  <2> QED
    BY <1>1, <2>2, <2>3, <2>6
<1>5. Amount(NotFund(w)) = Rest(w)
  <2>1. LeftBy(w) = {} /\ {} \in SUBSET Items
    BY <1>1, <1>3
  <2>2. Amount(NotFund(w)) = Worth(NotFund(w))
    BY <1>1, <1>4
  <2> QED
    BY <1>1, <1>4, <2>1, <2>2
<1>6. Taken(w) = {p \in Changes \ Draws : w < p /\ \A u \in Draws : w < u => p < u}
  BY <1>1, TakenBetween
<1>7. Funded(w) = Taken(w) \cap Items
  <2>1. Funded(w) = {r \in Older(w) : \A s \in Older(w) : s <= r => items[s].balance # 0}
    BY <1>4 DEF Funded
  <2>2. ASSUME NEW r \in Funded(w) PROVE r \in Taken(w) \cap Items
    <3>1. r \in Items /\ w < r /\ r \in Changes /\ r <= r
          /\ \A s \in Older(w) : s <= r => items[s].balance # 0
      BY <1>1, <1>2, <2>1
    <3>2. r \notin Draws
      BY <1>1, <1>2, <1>3, <3>1
    <3>3. ASSUME NEW u \in Draws, w < u PROVE r < u
      <4>1. u \in Changes /\ u # r
        BY <1>1, <3>2
      <4>2. ~(u < r)
        <5> SUFFICES ASSUME u < r PROVE FALSE
          OBVIOUS
        <5>1. u \in Items /\ u <= r
          BY <1>1, <3>1, <4>1
        <5> QED
          BY <1>1, <1>2, <1>3, <3>1, <3>3, <5>1
      <4> QED
        BY <1>1, <3>1, <4>1, <4>2
    <3> QED
      BY <1>6, <3>1, <3>2, <3>3
  <2>3. ASSUME NEW r \in Taken(w) \cap Items PROVE r \in Funded(w)
    <3>1. r \in Items /\ w < r /\ r \in Nat /\ \A u \in Draws : w < u => r < u
      BY <1>1, <1>6
    <3>2. ASSUME NEW s \in Older(w), s <= r PROVE items[s].balance # 0
      <4>1. s \in Items /\ w < s /\ s \in Changes /\ s \in Nat /\ items[s] = Ledger[s]
        BY <1>1, <1>2
      <4>2. s \notin Draws
        BY <3>1, <3>2, <4>1
      <4> QED
        BY <1>3, <4>1, <4>2
    <3> QED
      BY <1>2, <2>1, <3>1, <3>2
  <2> QED
    BY <2>2, <2>3
<1>8. ASSUME Taken(w) \subseteq Items PROVE Amount(Funded(w)) = Due(w)
  <2>1. Funded(w) = Taken(w) /\ Taken(w) \in SUBSET Items
    BY <1>7, <1>8
  <2> QED
    BY <1>1, <2>1
<1>9. ASSUME NEW v \in Withdrawals, w < v PROVE Taken(w) \subseteq Items
  <2> SUFFICES ASSUME NEW p \in Taken(w) PROVE p \in Items
    OBVIOUS
  <2>1. p \in Changes /\ p < v /\ v \in Items
    BY <1>1, <1>6, <1>9
  <2> QED
    BY <1>1, <2>1
<1> QED
  BY <1>4, <1>5, <1>7, <1>8, <1>9

-----------------------------------------------------------------------------
(* Several files: replacing the refunds.                                    *)

\* The withdrawals traced so far, each with what it took.
Returned ==
    /\ next \in Nat \ {0} /\ next <= Total + 1 /\ Len(result) = next - 1
    /\ \A k \in DOMAIN result :
        /\ result[k].wd = Wd(k)
        /\ book.multi \/ Whole \/ ~IsLast(Wd(k)) => result[k].times = Once(Taken(Wd(k)) \cap Items)

\* All have been traced whose rows are all there.
AllTried == \A w \in Withdrawals : Taken(w) \subseteq Items => \E k \in DOMAIN result : Wd(k) = w

\* The withdrawals are traced one by one, from the newest.
LEMMA ReturnedTypes ==
  ASSUME Tables, Returned
  PROVE  /\ DOMAIN result = 1..(next - 1) /\ Withdrawals \in SUBSET (1..Len(items)) /\ Total \in Nat
         /\ \A k \in DOMAIN result : k \in 1..Total /\ Wd(k) \in Withdrawals
         /\ \A j, k \in 1..Total : j < k => Wd(j) < Wd(k)
         /\ \A w \in Withdrawals : \E k \in 1..Total : Wd(k) = w
         /\ \A k \in 1..Total : Wd(k) \in Withdrawals
<1>1. /\ Len(items) \in Nat /\ Withdrawals \in SUBSET (1..Len(items)) /\ DOMAIN result = 1..Len(result)
      /\ IsFiniteSet(Withdrawals)
  BY TableTypes DEF Withdrawals
<1>2. Total \in Nat
  BY <1>1, FS_CardinalityType DEF Total
<1>3. /\ \A n \in 1..Total : Wd(n) \in Withdrawals
      /\ \A m, n \in 1..Total : m < n => Wd(m) < Wd(n)
      /\ \A r \in Withdrawals : \E n \in 1..Total : Wd(n) = r
  <2> DEFINE W == Withdrawals
  <2>1. W \in SUBSET (1..Len(items))
    BY <1>1
  <2> HIDE DEF W
  <2>2. /\ \A n \in 1..Cardinality(W) : Nth(W, n) \in W
        /\ \A m, n \in 1..Cardinality(W) : m < n => Nth(W, m) < Nth(W, n)
        /\ \A r \in W : \E n \in 1..Cardinality(W) : Nth(W, n) = r
    BY <1>1, <2>1, NthInOrder
  <2> QED
    BY <2>2 DEF Total, Wd, W
<1>4. DOMAIN result = 1..(next - 1) /\ \A k \in DOMAIN result : k \in 1..Total
  BY <1>1, <1>2 DEF Returned
<1> QED
  BY <1>1, <1>2, <1>3, <1>4

\* The rows a withdrawal got are those it took.
LEMMA GotIsTaken ==
  ASSUME Returned, NEW k \in DOMAIN result, book.multi \/ Whole \/ ~IsLast(Wd(k))
  PROVE  Got(k) = Taken(Wd(k)) \cap Items
<1> DEFINE T == Taken(Wd(k)) \cap Items
<1>1. result[k].times = Once(T)
  BY Zenon DEF Returned
<1>2. T \subseteq Items
  OBVIOUS
<1> HIDE DEF T
<1>3. Got(k) = T
  BY <1>1, <1>2 DEF Got, Once
<1> QED
  BY <1>3 DEF T

\* A refund is found among the rows of a withdrawal just if it took one.
LEMMA RefundFound ==
  ASSUME Ready, book.multi, Returned, NEW k \in DOMAIN result
  PROVE  /\ HasRefund(k) => \E q \in Taken(Wd(k)) \cap Items : q \in Refunds
         /\ \A q \in Taken(Wd(k)) \cap Items : q \in Refunds =>
               HasRefund(k) /\ Refund(k) = q /\ Ledger[Wd(k)].status = "done"
<1> DEFINE w == Wd(k)
           G == Got(k)
<1>1. /\ book \in Books /\ Tables /\ Balanced /\ OrderlyMany
      /\ Items \subseteq Changes /\ \A r \in Items : items[r] = Ledger[r]
      /\ Len(items) \in Nat /\ Items = 1..Len(items)
      /\ \A p \in Changes, r \in Items : p <= r => p \in Items
      /\ \A p \in Changes : p \in Nat /\ p > 0 /\ Ledger[p].amount \in Int
      /\ Changes = 1..Len(Ledger) /\ Len(Ledger) \in Nat
  BY ReadyFacts, LedgerTypes DEF Ready, Orderly
<1>2. w \in Draws /\ w \in Items /\ w \in Nat /\ w > 0
  <2>1. w \in Withdrawals
    BY <1>1, ReturnedTypes
  <2> QED
    BY <1>1, <2>1, ReadyFacts
<1>3. G = Taken(w) \cap Items
  BY GotIsTaken
<1> HIDE DEF w, G
<1>4. \A r \in G : IsRefund(items[r]) <=> r \in Refunds
  BY <1>1, <1>3 DEF Refunds
<1>5. ASSUME NEW q \in G, q \in Refunds
      PROVE  /\ (\E r \in G : IsRefund(items[r])) /\ Newest({r \in G : IsRefund(items[r])}) = q
             /\ q # Newest(G) /\ Ledger[w].status = "done"
  <2>1. q \in Changes /\ q \in Items /\ book.taker[q] = w /\ book.taker[q] # 0 /\ w < q /\ q \in Nat
    <3>1. q \in Taken(w)
      BY <1>3
    <3> QED
      BY <1>1, <1>2, <1>3, <3>1, TakenTypes DEF Taken
  <2>2. /\ Ledger[w].status = "done" /\ ~IsFund(Ledger[w + 1])
        /\ \A r \in Refunds : book.taker[r] = w => r = q
    BY <1>1, <1>5, <2>1 DEF OrderlyMany
  <2>3. {r \in G : IsRefund(items[r])} = {q}
    <3>1. \A r \in G : book.taker[r] = w
      BY <1>3 DEF Taken
    <3> QED
      BY <1>4, <1>5, <2>2, <3>1
  <2>4. Newest({q}) = q
    <3> DEFINE one == {q}
    <3>1. one \in SUBSET (1..Len(items)) /\ one # {}
      BY <1>1, <2>1
    <3> HIDE DEF one
    <3>2. Min(one) \in one
      BY <1>1, <3>1, MinIsThere
    <3> QED
      BY <3>2 DEF one, Newest
  <2>5. w + 1 \in G /\ w + 1 # q /\ w + 1 < q
    <3>1. w + 1 <= q /\ w + 1 \in Changes
      BY <1>1, <1>2, <2>1
    <3>2. w + 1 \in Items
      BY <1>1, <2>1, <3>1
    <3>3. IsFund(Ledger[q]) /\ w + 1 \notin Draws
      BY <1>5, <2>2 DEF Refunds, IsRefund, Draws
    <3>4. \A u \in Draws : w < u => w + 1 < u
      BY <1>1, <1>2, <3>3 DEF Draws
    <3>5. w + 1 \in Taken(w)
      BY <1>2, <3>1, <3>3, <3>4, TakenBetween
    <3>6. w + 1 # q
      BY <2>2, <3>3
    <3> QED
      BY <1>2, <1>3, <2>1, <3>1, <3>2, <3>5, <3>6
  <2>6. q # Newest(G)
    <3>1. G \in SUBSET (1..Len(items)) /\ G # {}
      BY <1>1, <1>3, <2>5
    <3>2. Min(G) <= w + 1
      BY <1>1, <2>5, <3>1, MinIsThere
    <3> QED
      BY <1>2, <2>1, <2>5, <3>2 DEF Newest
  <2>7. q \in {q}
    OBVIOUS
  <2> QED
    BY <2>2, <2>3, <2>4, <2>6, <2>7
<1>6. ASSUME HasRefund(k) PROVE \E q \in Taken(w) \cap Items : q \in Refunds
  BY <1>3, <1>4, <1>6 DEF HasRefund, G
<1>7. ASSUME NEW q \in Taken(w) \cap Items, q \in Refunds
      PROVE  HasRefund(k) /\ Refund(k) = q /\ Ledger[w].status = "done"
  <2>1. q \in G
    BY <1>3
  <2>2. /\ (\E r \in G : IsRefund(items[r])) /\ Newest({r \in G : IsRefund(items[r])}) = q
        /\ q # Newest(G) /\ Ledger[w].status = "done"
    BY <1>5, <1>7, <2>1
  <2>3. Refund(k) = q
    BY <2>2 DEF Refund, G
  <2> QED
    BY <2>2, <2>3 DEF HasRefund, G
<1> QED
  BY <1>6, <1>7 DEF w

\* The withdrawal taken for the one that was refunded is that one.
LEMMA FailedFound ==
  ASSUME Ready, book.multi, Returned, AllTried, NEW q \in Refunds \cap Items, book.taker[q] # 0
  PROVE  LET F == FailedOf(items[q].amount) IN
         /\ Whole => F # {}
         /\ F # {} => Oldest(F) \in DOMAIN result /\ Wd(Oldest(F)) = book.of[q]
<1> DEFINE F == FailedOf(items[q].amount)
           u == book.of[q]
<1>1. /\ book \in Books /\ Tables /\ Balanced /\ Settled /\ OrderlyMany /\ Items = Shown
      /\ Items \subseteq Changes /\ \A r \in Items : items[r] = Ledger[r]
      /\ Withdrawals = Draws \cap Items
      /\ \A p \in Changes, r \in Items : p <= r => p \in Items
      /\ \A p \in Changes : p \in Nat /\ Ledger[p].amount \in Int
      /\ Whole => Items = Changes
  BY ReadyFacts, LedgerTypes DEF Ready, Restored, Orderly, Whole
<1>2. /\ u \in Draws /\ q < u /\ Ledger[u].status = "failed" /\ items[q].amount = -Ledger[u].amount
      /\ Ledger[u].amount < 0 /\ u \in Changes
  BY <1>1 DEF Settled, Draws
<1>3. \A x \in Withdrawals : Due(x) = -Ledger[x].amount
  <2> SUFFICES ASSUME NEW x \in Withdrawals PROVE Due(x) = -Ledger[x].amount
    OBVIOUS
  <2>1. items[x] = Ledger[x] /\ Ledger[x].amount \in Int /\ Ledger[x].amount < 0
    BY <1>1 DEF Draws
  <2> QED
    BY <2>1 DEF Due, Abs
<1>4. /\ DOMAIN result \subseteq 1..Total /\ \A k \in DOMAIN result : result[k].wd = Wd(k)
      /\ \A k \in DOMAIN result : Wd(k) \in Withdrawals
      /\ \A j, k \in DOMAIN result : j < k => Wd(j) < Wd(k)
      /\ DOMAIN result = 1..(next - 1) /\ next \in Nat /\ next > 0 /\ next - 1 \in Nat
  <2>1. next \in Nat /\ next > 0
    BY DEF Returned
  <2>2. \A k \in DOMAIN result : result[k].wd = Wd(k)
    BY Zenon DEF Returned
  <2> QED
    BY <1>1, <2>1, <2>2, ReturnedTypes
<1> HIDE DEF u
<1>5. \A j \in DOMAIN result :
         j \in F <=> Ledger[Wd(j)].status = "failed" /\ Ledger[Wd(j)].amount = Ledger[u].amount
  <2> SUFFICES ASSUME NEW j \in DOMAIN result
               PROVE  j \in F <=> Ledger[Wd(j)].status = "failed" /\ Ledger[Wd(j)].amount = Ledger[u].amount
    OBVIOUS
  <2> DEFINE x == Wd(j)
  <2>1. x \in Withdrawals /\ result[j].wd = x /\ items[x] = Ledger[x] /\ Ledger[x].amount \in Int
        /\ Due(x) = -Ledger[x].amount
    BY <1>1, <1>3, <1>4
  <2> HIDE DEF x
  <2>2. j \in F <=> Ledger[x].status = "failed" /\ Due(x) = items[q].amount
    BY <2>1 DEF FailedOf, IsFailed
  <2>3. \A a, b \in Int : -a = -b <=> a = b
    OBVIOUS
  <2>4. Due(x) = items[q].amount <=> Ledger[x].amount = Ledger[u].amount
    BY <1>1, <1>2, <2>1, <2>3
  <2> QED
    BY <2>2, <2>4 DEF x
<1>6. F \subseteq DOMAIN result
  BY DEF FailedOf
<1> HIDE DEF F
<1>7. \A j \in F : Wd(j) = u \/ (Wd(j) < u /\ Taken(u) \subseteq Items)
  <2> SUFFICES ASSUME NEW j \in F PROVE Wd(j) = u \/ (Wd(j) < u /\ Taken(u) \subseteq Items)
    OBVIOUS
  <2>1. Wd(j) \in Draws \cap Shown /\ Ledger[Wd(j)].status = "failed"
        /\ Ledger[Wd(j)].amount = Ledger[u].amount
    BY <1>1, <1>4, <1>5, <1>6
  <2> QED
    BY <1>1, <2>1 DEF OrderlyMany, u
<1>8. ASSUME Taken(u) \subseteq Items PROVE \E k \in DOMAIN result : Wd(k) = u /\ k \in F
  <2>1. Taken(u) # {}
    <3>1. Ledger[u].amount = -Worth(Taken(u)) /\ Worth({}) = 0
      BY <1>1, <1>2, WorthAdds DEF Balanced
    <3> QED
      BY <1>2, <3>1
  <2>2. PICK p \in Taken(u) : TRUE
    BY <2>1
  <2>3. p \in Items /\ u < p /\ p \in Nat /\ u \in Nat
    BY <1>1, <1>2, <1>8, <2>2, TakenTypes
  <2>4. u \in Withdrawals
    BY <1>1, <1>2, <2>3
  <2>5. PICK k \in DOMAIN result : Wd(k) = u
    BY <1>8, <2>4 DEF AllTried
  <2>6. k \in F
    BY <1>2, <1>5, <2>5
  <2> QED
    BY <2>5, <2>6
<1>9. ASSUME Whole PROVE F # {}
  <2>1. Taken(u) \subseteq Items
    BY <1>1, <1>9 DEF Taken
  <2> QED
    BY <1>8, <2>1
<1>10. ASSUME F # {} PROVE Oldest(F) \in DOMAIN result /\ Wd(Oldest(F)) = u
  <2> DEFINE f == Oldest(F)
  <2>1. f \in F /\ \A j \in F : j <= f
    BY <1>4, <1>6, <1>10, MaxIsThere DEF Oldest
  <2> HIDE DEF f
  <2>2. CASE Wd(f) = u
    BY <1>6, <2>1, <2>2 DEF f
  <2>3. CASE Wd(f) # u
    <3>1. Wd(f) < u /\ Taken(u) \subseteq Items
      BY <1>7, <2>1, <2>3
    <3>2. PICK k \in F : Wd(k) = u
      BY <1>8, <3>1
    <3>3. k <= f /\ k # f /\ k \in DOMAIN result /\ f \in DOMAIN result
      BY <1>6, <2>1, <2>3, <3>2
    <3>4. k < f
      BY <1>4, <3>3
    <3>5. Wd(k) < Wd(f)
      BY <1>4, <3>3, <3>4
    <3>6. Wd(f) \in Nat /\ u \in Nat
      BY <1>1, <1>2, <1>4, <3>3
    <3> QED
      BY <3>1, <3>2, <3>5, <3>6
  <2> QED
    BY <2>2, <2>3
<1> QED
  BY <1>9, <1>10 DEF F, u

\* An order's rows are given just to the withdrawal that paid them out.
LEMMA PayersAreGiven ==
  ASSUME Ready, book.multi, Returned, AllTried, NEW k \in DOMAIN result, ~IsFailed(k),
         HasRefund(k) => FailedOf(items[Refund(k)].amount) # {},
         Whole \/ ~IsLast(Wd(k)), NEW r \in Orders
  PROVE  WithFailed(k)[r] = IF book.payer[r] = Wd(k) THEN 1 ELSE 0
<1> DEFINE w == Wd(k)
           t == book.taker[r]
<1>1. /\ book \in Books /\ Tables /\ Balanced /\ Settled /\ OrderlyMany
      /\ Items \subseteq Changes /\ \A p \in Items : items[p] = Ledger[p]
      /\ Withdrawals = Draws \cap Items
      /\ \A p \in Changes : Ledger[p] \in Row /\ Ledger[p].status # "process" /\ p \in Nat /\ p > 0
      /\ \A p \in Changes : Ledger[p].amount \in Int
  BY ReadyFacts, LedgerTypes DEF Ready, Orderly
<1>2. w \in Withdrawals /\ result[k].wd = w /\ result[k].times = Once(Taken(w) \cap Items)
  BY <1>1, ReturnedTypes DEF Returned
<1>3. w \in Draws /\ w \in Items /\ w # 0 /\ w \in Nat /\ Ledger[w].status # "failed"
  BY <1>1, <1>2 DEF IsFailed, Draws
<1>4. \A x \in Draws : x \in Changes /\ x # 0 /\ Ledger[x].status \in {"done", "failed"}
  BY <1>1 DEF Row, Draws
<1>5. Taken(w) \subseteq Items
  <2>1. CASE Whole
    BY <2>1 DEF Whole, Ready, Restored, Taken
  <2>2. CASE ~IsLast(w)
    <3>1. Withdrawals \in SUBSET (1..Len(items)) /\ Len(items) \in Nat
      BY <1>1, ReadyFacts, ReturnedTypes
    <3>2. Oldest(Withdrawals) \in Withdrawals /\ w <= Oldest(Withdrawals) /\ w # Oldest(Withdrawals)
      BY <1>2, <2>2, <3>1, MaxIsThere DEF Oldest, IsLast
    <3>3. w < Oldest(Withdrawals)
      BY <1>2, <3>1, <3>2
    <3> QED
      BY <1>2, <3>2, <3>3, FundedIsTaken
  <2> QED
    BY <2>1, <2>2
<1>6. /\ r \in Items /\ r \in Changes \ Draws /\ ~IsFund(Ledger[r])
  BY <1>1 DEF Orders, Draws
<1>7. t \in Draws \cup {0} /\ (r \in Taken(w) <=> t = w) /\ \A u : r \in Taken(u) <=> t = u
  BY <1>1, <1>6 DEF Balanced, Taken
<1>8. /\ t = 0 => book.payer[r] = 0
      /\ t # 0 /\ Ledger[t].status = "done" => book.payer[r] = t
      /\ t # 0 /\ Ledger[t].status = "failed" =>
             /\ \A q \in Refunds : book.of[q] = t => book.payer[r] = book.payer[q]
             /\ (\A q \in Refunds : book.of[q] # t) => book.payer[r] = 0
  BY <1>1, <1>6 DEF Settled
<1>9. \A q \in Refunds : q \in Changes \ Draws
  BY <1>1 DEF Refunds, IsRefund, Draws
<1>10. \A q \in Refunds :
          /\ book.of[q] \in Draws /\ Ledger[book.of[q]].status = "failed"
          /\ \A p \in Refunds : book.of[p] = book.of[q] => p = q
  BY <1>1 DEF Settled
\* Who is paid with a refund.
<1>11. \A q \in Refunds : book.payer[q] = book.taker[q] /\ book.taker[q] \in Draws \cup {0}
  <2> SUFFICES ASSUME NEW q \in Refunds
               PROVE  book.payer[q] = book.taker[q] /\ book.taker[q] \in Draws \cup {0}
    OBVIOUS
  <2>1. book.taker[q] \in Draws \cup {0} /\ (book.taker[q] # 0 => Ledger[book.taker[q]].status = "done")
    BY <1>1, <1>9 DEF Balanced, OrderlyMany
  <2>2. /\ book.taker[q] = 0 => book.payer[q] = 0
        /\ book.taker[q] # 0 /\ Ledger[book.taker[q]].status = "done" => book.payer[q] = book.taker[q]
    BY <1>1, <1>9 DEF Settled
  <2> QED
    BY <2>1, <2>2
<1> HIDE DEF w, t
<1>12. CASE ~HasRefund(k)
  <2>1. WithFailed(k)[r] = IF t = w THEN 1 ELSE 0
    <3>1. WithFailed(k) = result[k].times
      BY <1>12 DEF WithFailed
    <3>2. Once(Taken(w) \cap Items)[r] = IF r \in Taken(w) THEN 1 ELSE 0
      BY <1>6 DEF Once
    <3> QED
      BY <1>2, <1>7, <3>1, <3>2
  <2>2. book.payer[r] = w <=> t = w
    <3>1. CASE t = 0
      BY <1>3, <1>8, <3>1
    <3>2. CASE t # 0 /\ Ledger[t].status = "done"
      BY <1>8, <3>2
    <3>3. CASE t # 0 /\ Ledger[t].status = "failed"
      <4>1. t # w
        BY <1>3, <3>3
      <4>2. ASSUME NEW q \in Refunds, book.of[q] = t PROVE book.payer[r] # w
        <5>1. book.payer[r] = book.taker[q]
          BY <1>8, <1>11, <3>3, <4>2
        <5>2. ASSUME book.taker[q] = w PROVE FALSE
          <6>1. q \in Taken(w) \cap Items
            BY <1>5, <1>9, <5>2 DEF Taken
          <6> QED
            BY <1>12, <6>1, RefundFound DEF w
        <5> QED
          BY <5>1, <5>2
      <4>3. (\A q \in Refunds : book.of[q] # t) => book.payer[r] # w
        BY <1>3, <1>8, <3>3
      <4> QED
        BY <4>1, <4>2, <4>3
    <3> QED
      BY <1>4, <1>7, <3>1, <3>2, <3>3
  <2> QED
    BY <2>1, <2>2 DEF w
<1>13. CASE HasRefund(k)
  <2>1. PICK q \in Taken(w) \cap Items : q \in Refunds
    BY <1>13, RefundFound DEF w
  <2>2. Refund(k) = q
    BY <2>1, RefundFound DEF w
  <2>3. book.taker[q] = w /\ q \in Refunds \cap Items
    BY <2>1 DEF Taken
  <2> DEFINE u == book.of[q]
             f == Oldest(FailedOf(items[q].amount))
  <2>4. f \in DOMAIN result /\ Wd(f) = u
    BY <1>3, <1>13, <2>2, <2>3, FailedFound
  <2>5. result[f].times = Once(Taken(u) \cap Items)
    BY <2>4 DEF Returned
  <2>6. u \in Draws /\ Ledger[u].status = "failed" /\ u # w
    BY <1>3, <1>10, <2>1
  <2>7. WithFailed(k) = [p \in Items |-> result[k].times[p] + result[f].times[p]]
    BY <1>13, <2>2 DEF WithFailed
  <2> HIDE DEF u, f
  <2>8. WithFailed(k)[r] = (IF t = w THEN 1 ELSE 0) + (IF t = u THEN 1 ELSE 0)
    <3>1. /\ Once(Taken(w) \cap Items)[r] = IF r \in Taken(w) THEN 1 ELSE 0
          /\ Once(Taken(u) \cap Items)[r] = IF r \in Taken(u) THEN 1 ELSE 0
      BY <1>6 DEF Once
    <3> QED
      BY <1>2, <1>6, <1>7, <2>5, <2>7, <3>1
  <2>9. WithFailed(k)[r] = IF t = w \/ t = u THEN 1 ELSE 0
    BY <2>6, <2>8
  <2>10. book.payer[r] = w <=> t = w \/ t = u
    <3>1. CASE t = 0
      BY <1>3, <1>4, <1>8, <2>6, <3>1
    <3>2. CASE t # 0 /\ Ledger[t].status = "done"
      BY <1>8, <2>6, <3>2
    <3>3. CASE t # 0 /\ Ledger[t].status = "failed"
      <4>1. t # w
        BY <1>3, <3>3
      <4>2. ASSUME t = u PROVE book.payer[r] = w
        <5>1. book.payer[r] = book.payer[q]
          BY <1>8, <2>1, <3>3, <4>2 DEF u
        <5> QED
          BY <1>11, <2>1, <2>3, <5>1
      <4>3. ASSUME book.payer[r] = w PROVE t = u
        <5>1. PICK p \in Refunds : book.of[p] = t
          BY <1>3, <1>8, <3>3, <4>3
        <5>2. book.taker[p] = w
          BY <1>8, <1>11, <3>3, <4>3, <5>1
        <5>3. p \in Taken(w) \cap Items
          BY <1>5, <1>9, <5>2 DEF Taken
        <5>4. p = q
          BY <2>2, <5>1, <5>3, RefundFound DEF w
        <5> QED
          BY <5>1, <5>4 DEF u
      <4> QED
        BY <4>1, <4>2, <4>3
    <3> QED
      BY <1>4, <1>7, <3>1, <3>2, <3>3
  <2> QED
    BY <2>9, <2>10 DEF w
<1> QED
  BY <1>12, <1>13

-----------------------------------------------------------------------------
(* What the reader keeps to in orderly files.                               *)

\* While the request stays the same, so does what it tells.
LEMMA SameBook ==
  ASSUME book' = book
  PROVE  /\ UNCHANGED <<Ledger, Changes, Draws, Refunds, Shown>>
         /\ \A w : Taken(w)' = Taken(w)
         /\ (Orderly' <=> Orderly) /\ (Whole' <=> Whole)
<1>1. UNCHANGED <<Ledger, Changes, Draws, Refunds, Shown>>
  BY DEF Ledger, Changes, Draws, Refunds, Shown
<1>2. \A w : Taken(w)' = Taken(w) /\ LeftBy(w)' = LeftBy(w)
  BY <1>1 DEF Taken, LeftBy
<1>3. \A S : Worth(S)' = Worth(S)
  BY <1>1 DEF Worth, MapThenSumSet, MapThenFoldSet
<1>4. \A w : Worth(Taken(w))' = Worth(Taken(w))
  <2> SUFFICES ASSUME NEW w, NEW T, T = Taken(w) PROVE Worth(Taken(w))' = Worth(T)
    OBVIOUS
  <2>1. Taken(w)' = T
    BY <1>2
  <2>2. Worth(T)' = Worth(T)
    BY <1>3
  <2> QED
    BY <2>1, <2>2, <1>1 DEF Worth, MapThenSumSet, MapThenFoldSet
<1>5. Balanced' <=> Balanced
  BY <1>1, <1>4 DEF Balanced
<1>6. Settled' <=> Settled
  BY <1>1 DEF Settled
<1>7. Listed' <=> Listed
  BY <1>1 DEF Listed
<1>8. OrderlyOne' <=> OrderlyOne
  BY <1>1, <1>2 DEF OrderlyOne
<1>9. OrderlyMany' <=> OrderlyMany
  BY <1>1, <1>2 DEF OrderlyMany
<1>10. Orderly' <=> Orderly
  BY <1>1, <1>5, <1>6, <1>7, <1>8, <1>9 DEF Orderly
<1>11. Whole' <=> Whole
  BY <1>1 DEF Whole
<1> QED
  BY <1>1, <1>2, <1>10, <1>11

\* And while its rows stay the same, so do the withdrawals.
LEMMA SameRows ==
  ASSUME book' = book, items' = items
  PROVE  /\ UNCHANGED <<Items, Withdrawals, Total, Orders>>
         /\ (Restored' <=> Restored)
         /\ \A k : Wd(k)' = Wd(k)
         /\ \A w : (IsLast(w)' <=> IsLast(w)) /\ (Taken(w) \cap Items)' = Taken(w) \cap Items
         /\ \A S : Once(S)' = Once(S)
<1>1. UNCHANGED <<Items, Withdrawals, Orders>>
  BY DEF Items, Withdrawals, Orders
<1>2. UNCHANGED Total /\ \A k : Wd(k)' = Wd(k)
  BY <1>1 DEF Total, Wd
<1>3. Restored' <=> Restored
  BY <1>1, SameBook DEF Restored
<1>4. \A w : (IsLast(w)' <=> IsLast(w)) /\ (Taken(w) \cap Items)' = Taken(w) \cap Items
  BY <1>1, SameBook DEF IsLast, Oldest
<1>5. \A S : Once(S)' = Once(S)
  BY <1>1 DEF Once
<1> QED
  BY <1>1, <1>2, <1>3, <1>4, <1>5

\* What TrueFunding says of the withdrawals in the end.
RightlyFunded ==
    /\ Whole => {items[result[k].wd].id : k \in DOMAIN result} = {w \in Draws : Ledger[w].status = "done"}
    /\ \A k \in DOMAIN result :
        Whole \/ result[k].wd # Oldest(Withdrawals) =>
            \A r \in Orders : result[k].times[r] =
                (IF book.payer[items[r].id] = items[result[k].wd].id THEN 1 ELSE 0)

\* One file: what has been traced is what is to be returned.
LEMMA SingleIsRight ==
  ASSUME Ready, ~book.multi, Returned, Whole => next > Total
  PROVE  RightlyFunded
<1>1. /\ book \in Books /\ Tables /\ Balanced /\ Settled /\ OrderlyOne
      /\ Items \subseteq Changes /\ \A r \in Items : items[r] = Ledger[r] /\ items[r].id = r
      /\ Withdrawals = Draws \cap Items /\ (Whole => Items = Changes)
      /\ \A w \in Draws : w # 0 /\ w \in Changes
  <2>1. \A w \in Draws : w # 0 /\ w \in Changes
    BY ReadyFacts
  <2>2. Items = Shown
    BY DEF Ready, Restored
  <2> QED
    BY <2>1, <2>2, ReadyFacts DEF Ready, Orderly, Whole
<1>2. /\ DOMAIN result = 1..(next - 1) /\ Total \in Nat /\ next \in Nat
      /\ \A k \in DOMAIN result : k \in 1..Total /\ Wd(k) \in Withdrawals
      /\ \A w \in Withdrawals : \E k \in 1..Total : Wd(k) = w
  <2>1. next \in Nat
    BY DEF Returned
  <2> QED
    BY <1>1, <2>1, ReturnedTypes
<1>3. \A k \in DOMAIN result : result[k].wd = Wd(k)
  BY Zenon DEF Returned
<1>4. ASSUME Whole
      PROVE  {items[result[k].wd].id : k \in DOMAIN result} = {w \in Draws : Ledger[w].status = "done"}
  <2>1. \A k \in 1..Total : k \in DOMAIN result
    BY <1>2, <1>4
  <2>2. \A w \in Draws : Ledger[w].status = "done" /\ w \in Withdrawals
    BY <1>1, <1>4 DEF OrderlyOne, Draws
  <2>3. \A k \in DOMAIN result : items[result[k].wd].id = Wd(k) /\ Wd(k) \in Draws
    BY <1>1, <1>2, <1>3
  <2>4. \A w \in Draws : \E k \in DOMAIN result : Wd(k) = w
    BY <1>2, <2>1, <2>2
  <2> QED
    BY <2>2, <2>3, <2>4
<1>5. ASSUME NEW k \in DOMAIN result, Whole \/ result[k].wd # Oldest(Withdrawals), NEW r \in Orders
      PROVE  result[k].times[r] = IF book.payer[items[r].id] = items[result[k].wd].id THEN 1 ELSE 0
  <2> DEFINE w == Wd(k)
             t == book.taker[r]
  <2>1. w \in Draws /\ w \in Items /\ result[k].wd = w /\ w # 0 /\ items[w].id = w
    BY <1>1, <1>2, <1>3
  <2>2. Whole \/ ~IsLast(w)
    BY <1>5, <2>1 DEF IsLast
  <2>3. result[k].times = Once(Taken(w) \cap Items)
    BY <2>2, Zenon DEF Returned
  <2>4. r \in Items /\ items[r].id = r /\ r \in Changes \ Draws
    BY <1>1 DEF Orders, Draws
  <2>5. t \in Draws \cup {0} /\ (t = 0 => book.payer[r] = 0)
        /\ (t # 0 /\ Ledger[t].status = "done" => book.payer[r] = t)
    BY <1>1, <2>4 DEF Balanced, Settled
  <2>6. \A v \in Draws : Ledger[v].status = "done"
    BY <1>1 DEF OrderlyOne, Draws
  <2>7. book.payer[r] = t
    BY <2>5, <2>6
  <2>8. Once(Taken(w) \cap Items)[r] = IF t = w THEN 1 ELSE 0
    BY <2>4 DEF Once, Taken
  <2> QED
    BY <2>1, <2>3, <2>4, <2>7, <2>8
<1> QED
  BY <1>4, <1>5 DEF RightlyFunded

\* It stays so.
LEMMA RightlyStays ==
  ASSUME UNCHANGED <<book, items, result>>, RightlyFunded
  PROVE  RightlyFunded'
<1>1. UNCHANGED <<Items, Withdrawals, Orders, Ledger, Draws>> /\ (Whole' <=> Whole)
  BY SameRows, SameBook
<1> QED
  BY <1>1 DEF RightlyFunded, Oldest

\* Several files: so it is once the refunds are replaced.
LEMMA ReplacedIsRight ==
  ASSUME Ready, book.multi, Returned, AllTried, ReplaceFailed, pc' = "done"
  PROVE  RightlyFunded'
<1> DEFINE good == {k \in DOMAIN result : ~IsFailed(k)}
<1>1. /\ book \in Books /\ Tables
      /\ \A r \in Items : items[r] = Ledger[r] /\ items[r].id = r
      /\ Withdrawals = Draws \cap Items /\ (Whole => Items = Changes)
      /\ Draws \subseteq Changes
      /\ \A p \in Changes : Ledger[p] \in Row /\ Ledger[p].status # "process"
  <2>1. Items = Shown /\ book \in Books
    BY DEF Ready, Restored
  <2> QED
    BY <2>1, ReadyFacts, LedgerTypes DEF Ready, Orderly, Whole, Draws
<1>2. /\ \A k \in DOMAIN result : HasRefund(k) => FailedOf(items[Refund(k)].amount) # {}
      /\ result' = [n \in 1..Cardinality(good) |->
                       [wd |-> result[Nth(good, n)].wd, times |-> WithFailed(Nth(good, n))]]
      /\ book' = book /\ items' = items
  BY DEF ReplaceFailed
<1>3. /\ \A k \in DOMAIN result : Wd(k) \in Withdrawals
      /\ DOMAIN result = 1..Len(result) /\ Len(result) \in Nat
  BY <1>1, TableTypes, ReturnedTypes
<1>4. \A k \in DOMAIN result : result[k].wd = Wd(k)
  BY Zenon DEF Returned
<1>5. \A k \in DOMAIN result : k \in good <=> Ledger[Wd(k)].status = "done"
  <2> SUFFICES ASSUME NEW k \in DOMAIN result PROVE k \in good <=> Ledger[Wd(k)].status = "done"
    OBVIOUS
  <2>1. items[Wd(k)] = Ledger[Wd(k)] /\ Ledger[Wd(k)].status \in {"done", "failed"}
    BY <1>1, <1>3 DEF Row
  <2> QED
    BY <1>4, <2>1 DEF IsFailed
<1>6. good \in SUBSET (1..Len(result)) /\ Len(result) \in Nat
  BY <1>3
<1> HIDE DEF good
<1>7. /\ \A n \in 1..Cardinality(good) : Nth(good, n) \in good
      /\ \A k \in good : \E n \in 1..Cardinality(good) : Nth(good, n) = k
  BY <1>6, NthInOrder
<1>8. /\ DOMAIN result' = 1..Cardinality(good)
      /\ \A n \in DOMAIN result' :
            result'[n] = [wd |-> result[Nth(good, n)].wd, times |-> WithFailed(Nth(good, n))]
  BY <1>2
<1>9. UNCHANGED <<Items, Withdrawals, Orders, Ledger, Draws>> /\ (Whole' <=> Whole)
  BY <1>2, SameRows, SameBook
<1>10. ASSUME NEW n \in DOMAIN result'
       PROVE  LET k == Nth(good, n) IN
              /\ k \in good /\ k \in DOMAIN result /\ result'[n].wd = Wd(k) /\ items'[Wd(k)].id = Wd(k)
              /\ result'[n].times = WithFailed(k)
  <2> DEFINE k == Nth(good, n)
  <2>1. k \in good /\ k \in DOMAIN result
    BY <1>3, <1>6, <1>7, <1>8
  <2>2. result'[n] = [wd |-> result[k].wd, times |-> WithFailed(k)]
    BY <1>8
  <2> HIDE DEF k
  <2>3. result'[n].wd = Wd(k) /\ items'[Wd(k)].id = Wd(k) /\ result'[n].times = WithFailed(k)
    BY <1>1, <1>2, <1>3, <1>4, <2>1, <2>2
  <2> QED
    BY <2>1, <2>3 DEF k
<1>11. ASSUME Whole
       PROVE  {items'[result'[n].wd].id : n \in DOMAIN result'} = {w \in Draws : Ledger[w].status = "done"}
  <2>1. ASSUME NEW n \in DOMAIN result'
        PROVE  items'[result'[n].wd].id \in {w \in Draws : Ledger[w].status = "done"}
    BY <1>1, <1>3, <1>5, <1>10
  <2>2. ASSUME NEW w \in Draws, Ledger[w].status = "done"
        PROVE  \E n \in DOMAIN result' : items'[result'[n].wd].id = w
    <3>1. w \in Withdrawals /\ Taken(w) \subseteq Items
      BY <1>1, <1>11 DEF Taken
    <3>2. PICK k \in DOMAIN result : Wd(k) = w
      BY <3>1 DEF AllTried
    <3>3. k \in good
      BY <1>5, <2>2, <3>2
    <3>4. PICK n \in 1..Cardinality(good) : Nth(good, n) = k
      BY <1>7, <3>3
    <3> QED
      BY <1>8, <1>10, <3>2, <3>4
  <2> QED
    BY <2>1, <2>2
<1>12. ASSUME NEW n \in DOMAIN result', Whole \/ result'[n].wd # Oldest(Withdrawals), NEW r \in Orders
       PROVE  result'[n].times[r] = IF book.payer[items'[r].id] = items'[result'[n].wd].id THEN 1 ELSE 0
  <2> DEFINE k == Nth(good, n)
  <2>1. /\ k \in good /\ k \in DOMAIN result /\ result'[n].wd = Wd(k) /\ items'[Wd(k)].id = Wd(k)
        /\ result'[n].times = WithFailed(k)
    BY <1>10
  <2> HIDE DEF k
  <2>2. ~IsFailed(k)
    BY <2>1 DEF good
  <2>3. Whole \/ ~IsLast(Wd(k))
    BY <1>12, <2>1 DEF IsLast
  <2>4. WithFailed(k)[r] = IF book.payer[r] = Wd(k) THEN 1 ELSE 0
    BY <1>2, <2>1, <2>2, <2>3, PayersAreGiven
  <2>5. items'[r].id = r
    BY <1>1, <1>2 DEF Orders
  <2> QED
    BY <2>1, <2>4, <2>5
<1>13. Oldest(Withdrawals)' = Oldest(Withdrawals)
  BY <1>9 DEF Oldest
<1> QED
  BY <1>2, <1>9, <1>11, <1>12, <1>13 DEF RightlyFunded

\* If a refund is not replaced the files are not whole.
LEMMA ReplaceFails ==
  ASSUME Ready, book.multi, Returned, AllTried, ReplaceFailed, pc' = "error"
  PROVE  ~Whole
<1>1. PICK k \in DOMAIN result : HasRefund(k) /\ FailedOf(items[Refund(k)].amount) = {}
  BY DEF ReplaceFailed
<1>2. PICK q \in Taken(Wd(k)) \cap Items : q \in Refunds
  BY <1>1, RefundFound
<1>3. Refund(k) = q
  BY <1>2, RefundFound
<1>4. book.taker[q] # 0
  <2>1. Tables /\ Wd(k) \in Withdrawals
    BY ReturnedTypes DEF Ready
  <2>2. Wd(k) \in Draws
    BY <2>1, ReadyFacts
  <2>3. Wd(k) # 0
    BY <2>2, ReadyFacts
  <2> QED
    BY <1>2, <2>3 DEF Taken
<1> QED
  BY <1>1, <1>2, <1>3, <1>4, FailedFound

-----------------------------------------------------------------------------
(* Step by step, orderly files are read as what they are.                    *)

\* The rows of the files read so far are there, each once.
ReadSoFar ==
    /\ FromLedger(items) /\ Distinct(items) /\ (~book.multi => InOrder(items))
    /\ file <= Len(book.files) + 1
    /\ IdsOf(items) = UNION {IdsOf(book.files[f]) : f \in 1..(file - 1)}

Following ==
    /\ pc \in {"read", "sort", "rest"} => next = 1
    /\ pc = "read" => ReadSoFar
    /\ pc = "sort" => book.multi /\ FromLedger(items) /\ Distinct(items) /\ IdsOf(items) = Shown
    /\ pc = "rest" => book.multi
    /\ pc \in {"rest", "trace", "replace", "done"} => Restored
    /\ pc \in {"trace", "replace"} => Returned
    /\ pc = "replace" => book.multi /\ AllTried
    /\ pc = "error" => ~Whole
    /\ pc = "done" => RightlyFunded

TrueInv == FundInv /\ (Orderly => Following)

\* At first nothing has been read.
LEMMA InitFollows == Init => TrueInv
<1> SUFFICES ASSUME Init PROVE Following
  BY FundInvInit DEF TrueInv
<1>1. /\ book \in Books /\ pc = "read" /\ file = 1 /\ items = <<>> /\ next = 1 /\ DOMAIN items = {}
  BY DEF Init
<1>2. Len(book.files) \in Nat
  BY <1>1, LedgerTypes
<1>3. 1..(file - 1) = {}
  BY <1>1
<1>4. IdsOf(items) = UNION {IdsOf(book.files[f]) : f \in 1..(file - 1)}
  BY <1>1, <1>3 DEF IdsOf
<1> QED
  BY <1>1, <1>2, <1>4 DEF Following, ReadSoFar, FromLedger, Distinct, InOrder

\* Another file is read: none of its rows was there.
LEMMA ReadFollows ==
  ASSUME FundInv, Orderly, Following, ReadFile
  PROVE  Following'
<1> DEFINE F == book.files[file]
           K == Kept(F)
<1>1. /\ book \in Books /\ Listed /\ pc = "read" /\ ReadSoFar /\ next = 1
      /\ items \in Seq(Row) /\ file \in Nat /\ file > 0 /\ file <= Len(book.files)
      /\ UNCHANGED <<book, next, result>>
      /\ \A p \in Changes : Ledger[p].status # "process"
  BY DEF FundInv, Tables, Orderly, Following, ReadFile
<1>2. /\ Len(book.files) \in Nat /\ DOMAIN book.files = 1..Len(book.files) /\ file \in DOMAIN book.files
  <2>1. Len(book.files) \in Nat /\ DOMAIN book.files = 1..Len(book.files)
    BY <1>1, LedgerTypes
  <2> QED
    BY <1>1, <2>1
<1>3. FromLedger(F) /\ K \in Seq(Row) /\ FromLedger(K) /\ InOrder(K) /\ IdsOf(K) = IdsOf(F)
  BY <1>1, <1>2, ShownTypes, KeptInOrder
<1>4. pc' = "read" /\ items' = items \o K /\ file' = file + 1
  <2>1. \A r \in DOMAIN F : F[r].status # "process"
    BY <1>1, <1>3 DEF FromLedger
  <2> QED
    BY <1>1, <2>1 DEF ReadFile
<1> HIDE DEF K
<1>5. /\ Len(items) \in Nat /\ Len(K) \in Nat /\ DOMAIN items = 1..Len(items) /\ DOMAIN K = 1..Len(K)
      /\ DOMAIN items' = 1..(Len(items) + Len(K))
      /\ \A n \in DOMAIN items' : items'[n] = IF n <= Len(items) THEN items[n] ELSE K[n - Len(items)]
  <2> HIDE DEF Row
  <2>1. Len(items) \in Nat /\ Len(K) \in Nat /\ DOMAIN items = 1..Len(items) /\ DOMAIN K = 1..Len(K)
    BY <1>1, <1>3
  <2> QED
    BY <1>1, <1>3, <1>4, <2>1
<1>6. ASSUME NEW n \in DOMAIN items'
      PROVE  \/ n <= Len(items) /\ n \in DOMAIN items /\ items'[n] = items[n]
             \/ n > Len(items) /\ n - Len(items) \in DOMAIN K /\ items'[n] = K[n - Len(items)]
  <2>1. n \in Nat /\ n > 0 /\ n <= Len(items) + Len(K)
    BY <1>5
  <2>2. CASE n <= Len(items)
    BY <1>5, <2>1, <2>2
  <2>3. CASE n > Len(items)
    BY <1>5, <2>1, <2>3
  <2> QED
    BY <1>5, <2>1, <2>2, <2>3
<1>7. /\ \A n \in DOMAIN items : n \in DOMAIN items' /\ items'[n] = items[n]
      /\ \A n \in DOMAIN K : n + Len(items) \in DOMAIN items' /\ items'[n + Len(items)] = K[n]
  <2>1. ASSUME NEW n \in DOMAIN items PROVE n \in DOMAIN items' /\ items'[n] = items[n]
    BY <1>5
  <2>2. ASSUME NEW n \in DOMAIN K
        PROVE  n + Len(items) \in DOMAIN items' /\ items'[n + Len(items)] = K[n]
    <3>1. n + Len(items) \in DOMAIN items' /\ ~(n + Len(items) <= Len(items))
          /\ (n + Len(items)) - Len(items) = n
      BY <1>5
    <3> QED
      BY <1>5, <3>1
  <2> QED
    BY <2>1, <2>2
<1>8. UNCHANGED <<Ledger, Changes>>
  BY <1>1, SameBook
<1>9. FromLedger(items')
  BY <1>1, <1>3, <1>6 DEF FromLedger, ReadSoFar
<1>10. \A n \in DOMAIN items, m \in DOMAIN K : items[n].id # K[m].id
  <2> SUFFICES ASSUME NEW n \in DOMAIN items, NEW m \in DOMAIN K, items[n].id = K[m].id PROVE FALSE
    OBVIOUS
  <2>1. items[n].id \in IdsOf(items) /\ K[m].id \in IdsOf(F)
    BY <1>3 DEF IdsOf
  <2>2. PICK g \in 1..(file - 1) : items[n].id \in IdsOf(book.files[g])
    BY <1>1, <2>1 DEF ReadSoFar
  <2>3. g \in DOMAIN book.files /\ g # file
    BY <1>1, <1>2
  <2>4. PICK r \in DOMAIN book.files[g] : book.files[g][r].id = items[n].id
    BY <2>2 DEF IdsOf
  <2>5. PICK s \in DOMAIN book.files[file] : book.files[file][s].id = K[m].id
    BY <2>1 DEF IdsOf
  <2>6. \A f, h \in DOMAIN book.files : f # h =>
          \A a \in DOMAIN book.files[f], b \in DOMAIN book.files[h] :
             book.files[f][a].id # book.files[h][b].id
    BY <1>1 DEF Listed
  <2> QED
    BY <1>2, <2>3, <2>4, <2>5, <2>6
<1>11. \A m, n \in DOMAIN K : m # n => K[m].id # K[n].id
  <2>1. \A m, n \in DOMAIN K : m < n => K[m].id < K[n].id /\ K[m].id \in Int /\ K[n].id \in Int
    <3>1. \A n \in DOMAIN K : K[n].id \in Int
      BY <1>1, <1>3, LedgerTypes DEF FromLedger
    <3> QED
      BY <1>3, <3>1 DEF InOrder
  <2>2. \A m, n \in DOMAIN K : m # n => m < n \/ n < m
    BY <1>5
  <2> QED
    BY <2>1, <2>2
<1>12. Distinct(items')
  <2> SUFFICES ASSUME NEW m \in DOMAIN items', NEW n \in DOMAIN items', m # n
               PROVE  items'[m].id # items'[n].id
    BY DEF Distinct
  <2>1. \A a, b \in DOMAIN items : a # b => items[a].id # items[b].id
    BY <1>1 DEF ReadSoFar, Distinct
  <2>2. m \in Int /\ n \in Int
    BY <1>5
  <2>3. m - Len(items) # n - Len(items)
    BY <1>5, <2>2
  <2>4. CASE m <= Len(items) /\ n <= Len(items)
    BY <1>5, <1>6, <2>1, <2>2, <2>4
  <2>5. CASE m <= Len(items) /\ n > Len(items)
    BY <1>5, <1>6, <1>10, <2>2, <2>5
  <2>6. CASE m > Len(items) /\ n <= Len(items)
    BY <1>5, <1>6, <1>10, <2>2, <2>6
  <2>7. CASE m > Len(items) /\ n > Len(items)
    BY <1>5, <1>6, <1>11, <2>2, <2>3, <2>7
  <2> QED
    BY <1>5, <2>2, <2>4, <2>5, <2>6, <2>7
<1>13. ASSUME ~book.multi PROVE InOrder(items')
  <2>1. file = 1
    <3>1. Len(book.files) = 1
      BY <1>1, <1>13, Zenon DEF Listed
    <3> QED
      BY <1>1, <3>1
  <2>2. IdsOf(items) = {}
    <3>1. 1..(file - 1) = {}
      BY <2>1
    <3> QED
      BY <1>1, <3>1 DEF ReadSoFar
  <2>3. DOMAIN items = {}
    BY <2>2 DEF IdsOf
  <2>4. Len(items) = 0
    BY <1>5, <2>3
  <2>5. \A n \in DOMAIN items' : n \in DOMAIN K /\ items'[n] = K[n]
    BY <1>5, <2>4
  <2> QED
    BY <1>3, <2>5 DEF InOrder
<1>14. IdsOf(items') = IdsOf(items) \cup IdsOf(F)
  <2>1. ASSUME NEW n \in DOMAIN items' PROVE items'[n].id \in IdsOf(items) \cup IdsOf(K)
    BY <1>6 DEF IdsOf
  <2>2. \A n \in DOMAIN items : items[n].id \in IdsOf(items')
    BY <1>7 DEF IdsOf
  <2>3. \A n \in DOMAIN K : K[n].id \in IdsOf(items')
    <3> SUFFICES ASSUME NEW n \in DOMAIN K PROVE K[n].id \in IdsOf(items')
      OBVIOUS
    <3>1. n + Len(items) \in DOMAIN items' /\ items'[n + Len(items)].id = K[n].id
      BY <1>7
    <3> QED
      BY <3>1 DEF IdsOf
  <2>4. IdsOf(items') \subseteq IdsOf(items) \cup IdsOf(K)
    BY <2>1 DEF IdsOf
  <2>5. IdsOf(items) \cup IdsOf(K) \subseteq IdsOf(items')
    BY <2>2, <2>3 DEF IdsOf
  <2> QED
    BY <1>3, <2>4, <2>5
<1>15. IdsOf(items') = UNION {IdsOf(book.files[f]) : f \in 1..file}
  <2>1. 1..file = (1..(file - 1)) \cup {file}
    BY <1>1
  <2>2. IdsOf(items) = UNION {IdsOf(book.files[f]) : f \in 1..(file - 1)}
    BY <1>1 DEF ReadSoFar
  <2> QED
    BY <1>14, <2>1, <2>2
<1>16. file' <= Len(book.files) + 1 /\ file' - 1 = file
  BY <1>1, <1>2, <1>4
<1>17. ReadSoFar'
  <2>1. FromLedger(items)'
    BY <1>8, <1>9 DEF FromLedger
  <2>2. Distinct(items)' /\ (~book.multi => InOrder(items))'
    BY <1>1, <1>12, <1>13 DEF Distinct, InOrder
  <2>3. (IdsOf(items) = UNION {IdsOf(book.files[f]) : f \in 1..(file - 1)})'
    <3>1. \A S : S = 1..file =>
             IdsOf(items') = UNION {IdsOf(book.files[f]) : f \in S}
      BY <1>15
    <3>2. IdsOf(items') = UNION {IdsOf(book.files[f]) : f \in 1..(file' - 1)}
      BY <1>16, <3>1
    <3>3. IdsOf(items)' = IdsOf(items') /\ \A f : IdsOf(book.files[f])' = IdsOf(book.files[f])
      BY <1>1 DEF IdsOf
    <3> QED
      BY <3>2, <3>3
  <2> QED
    BY <1>1, <1>16, <2>1, <2>2, <2>3 DEF ReadSoFar
<1> QED
  BY <1>1, <1>4, <1>17 DEF Following

\* Nothing has been returned when tracing begins.
LEMMA TracingBegins ==
  ASSUME Tables, next = 1, result = <<>>
  PROVE  Returned
<1>1. Total \in Nat
  <2>1. Withdrawals \in SUBSET Items
    BY DEF Withdrawals
  <2>2. IsFiniteSet(Withdrawals)
    BY <2>1, TableTypes
  <2> QED
    BY <2>2, FS_CardinalityType DEF Total
<1>2. Len(result) = 0 /\ DOMAIN result = {}
  OBVIOUS
<1> QED
  BY <1>1, <1>2 DEF Returned

\* What stays while the rows and the withdrawals stay.
LEMMA ReturnedStays ==
  ASSUME UNCHANGED <<book, items, next, result>>
  PROVE  /\ Restored => Restored'
         /\ Returned => Returned'
         /\ AllTried => AllTried'
         /\ Whole' => Whole
<1>1. /\ UNCHANGED <<Items, Withdrawals, Total, Changes>>
      /\ \A k : Wd(k)' = Wd(k)
      /\ \A w : (IsLast(w)' <=> IsLast(w)) /\ Taken(w)' = Taken(w)
      /\ (Restored' <=> Restored) /\ (Whole' <=> Whole)
  BY SameRows, SameBook
<1>2. ASSUME Returned PROVE Returned'
  <2>1. ASSUME NEW k \in DOMAIN result, (book.multi \/ Whole \/ ~IsLast(Wd(k)))'
        PROVE  result'[k].times = Once(Taken(Wd(k)) \cap Items)'
    <3> SUFFICES ASSUME NEW w, w = Wd(k), NEW T, T = Taken(w) \cap Items
                 PROVE  result'[k].times = Once(Taken(Wd(k)) \cap Items)'
      OBVIOUS
    <3>1. Wd(k)' = w /\ (book.multi \/ Whole \/ ~IsLast(w))
      <4>1. IsLast(Wd(k))' <=> IsLast(w)
        BY <1>1 DEF IsLast, Oldest
      <4> QED
        BY <1>1, <2>1, <4>1
    <3>2. result[k].times = Once(T)
      BY <1>2, <3>1, Zenon DEF Returned
    <3>3. (Taken(Wd(k)) \cap Items)' = T
      BY <1>1, <3>1 DEF Taken
    <3> QED
      BY <1>1, <3>2, <3>3 DEF Once
  <2>2. \A k \in DOMAIN result : result'[k].wd = Wd(k)'
    BY <1>1, <1>2, Zenon DEF Returned
  <2>3. /\ next' \in Nat \ {0} /\ next' <= Total' + 1 /\ Len(result') = next' - 1
    BY <1>1, <1>2 DEF Returned
  <2> QED
    BY <2>1, <2>2, <2>3, Zenon DEF Returned
<1>3. ASSUME AllTried PROVE AllTried'
  BY <1>1, <1>3 DEF AllTried
<1> QED
  BY <1>1, <1>2, <1>3

\* Another withdrawal is returned, with what it took.
LEMMA ReturnsNext ==
  ASSUME Tables, Returned, next <= Total, NEW S \in SUBSET Items,
         Return(Wd(next), Once(S)), next' = next + 1, UNCHANGED <<book, items>>,
         book.multi \/ Whole \/ ~IsLast(Wd(next)) => S = Taken(Wd(next)) \cap Items
  PROVE  Returned'
<1> DEFINE R == [wd : Items, times : [Items -> Nat]]
           new == [wd |-> Wd(next), times |-> Once(S)]
<1>1. next \in Nat /\ next > 0 /\ Len(result) = next - 1 /\ Total \in Nat /\ DOMAIN result = 1..(next - 1)
  BY ReturnedTypes DEF Returned
<1>2. result \in Seq(R) /\ result' = Append(result, new) /\ new \in R
  <2>1. Wd(next) \in Items
    BY <1>1, WdIsThere
  <2> QED
    BY <2>1 DEF Tables, Return, Once
<1> HIDE DEF R
<1>3. /\ Len(result') = next /\ DOMAIN result' = 1..next
      /\ \A k \in DOMAIN result : result'[k] = result[k]
      /\ result'[next] = new
  <2>1. /\ Len(result') = Len(result) + 1 /\ DOMAIN result' = 1..(Len(result) + 1)
        /\ \A k \in 1..Len(result) : result'[k] = result[k]
        /\ result'[Len(result) + 1] = new
    BY <1>2, AppendProperties
  <2> QED
    BY <1>1, <2>1
<1>4. /\ UNCHANGED <<Items, Withdrawals, Total, Changes>>
      /\ \A k : Wd(k)' = Wd(k)
      /\ \A w : Taken(w)' = Taken(w)
      /\ (Whole' <=> Whole)
  BY SameRows, SameBook
<1>5. ASSUME NEW k \in DOMAIN result'
      PROVE  /\ result'[k].wd = Wd(k)
             /\ book.multi \/ Whole \/ ~IsLast(Wd(k)) =>
                   result'[k].times = Once(Taken(Wd(k)) \cap Items)
  <2>1. CASE k = next
    <3>1. result'[k].wd = Wd(k) /\ result'[k].times = Once(S)
      BY <1>3, <2>1
    <3>2. ASSUME book.multi \/ Whole \/ ~IsLast(Wd(k)) PROVE S = Taken(Wd(k)) \cap Items
      BY <2>1, <3>2
    <3>3. ASSUME book.multi \/ Whole \/ ~IsLast(Wd(k))
          PROVE  result'[k].times = Once(Taken(Wd(k)) \cap Items)
      BY <3>1, <3>2, <3>3
    <3> QED
      BY <3>1, <3>3
  <2>2. CASE k # next
    <3>1. k \in DOMAIN result /\ result'[k] = result[k]
      BY <1>1, <1>3, <2>2
    <3> QED
      BY <3>1, Zenon DEF Returned
  <2> QED
    BY <2>1, <2>2
<1>6. ASSUME NEW k \in DOMAIN result'
      PROVE  /\ (IsLast(Wd(k))' <=> IsLast(Wd(k)))
             /\ Once(Taken(Wd(k)) \cap Items)' = Once(Taken(Wd(k)) \cap Items)
  <2> SUFFICES ASSUME NEW w, w = Wd(k), NEW T, T = Taken(w) \cap Items
               PROVE  /\ (IsLast(Wd(k))' <=> IsLast(w))
                      /\ Once(Taken(Wd(k)) \cap Items)' = Once(T)
    OBVIOUS
  <2>1. Wd(k)' = w
    BY <1>4
  <2>2. IsLast(Wd(k))' <=> IsLast(w)
    BY <1>4, <2>1 DEF IsLast, Oldest
  <2>3. (Taken(Wd(k)) \cap Items)' = T
    BY <1>4, <2>1 DEF Taken
  <2>4. Once(Taken(Wd(k)) \cap Items)' = Once(T)
    BY <1>4, <2>3 DEF Once
  <2> QED
    BY <2>2, <2>4
<1>7. ASSUME NEW k \in DOMAIN result'
      PROVE  /\ result'[k].wd = Wd(k)'
             /\ (book.multi \/ Whole \/ ~IsLast(Wd(k)))' =>
                   result'[k].times = Once(Taken(Wd(k)) \cap Items)'
  BY <1>4, <1>5, <1>6
<1>8. next' \in Nat \ {0} /\ next' <= Total' + 1 /\ Len(result') = next' - 1
  BY <1>1, <1>3, <1>4
<1> QED
  BY <1>7, <1>8, Zenon DEF Returned

\* When all files are read, all that is shown is there.
LEMMA EndFollows ==
  ASSUME FundInv, Orderly, Following, EndOfFiles
  PROVE  Following'
<1>1. /\ book \in Books /\ Listed /\ Tables /\ result = <<>> /\ next = 1 /\ ReadSoFar
      /\ items \in Seq(Row) /\ file \in Nat /\ file > Len(book.files)
      /\ UNCHANGED <<book, file, items, next, result>>
      /\ pc' = IF book.multi THEN "sort" ELSE "trace"
  BY DEF FundInv, Tables, Orderly, Following, EndOfFiles
<1>2. IdsOf(items) = Shown
  <2>1. Len(book.files) \in Nat /\ DOMAIN book.files = 1..Len(book.files)
    BY <1>1, LedgerTypes
  <2>2. file <= Len(book.files) + 1
    BY <1>1 DEF ReadSoFar
  <2>3. file - 1 = Len(book.files)
    BY <1>1, <2>1, <2>2
  <2>4. IdsOf(items) = UNION {IdsOf(book.files[f]) : f \in DOMAIN book.files}
    BY <1>1, <2>1, <2>3 DEF ReadSoFar
  <2> QED
    BY <1>1, <2>4, ShownTypes
<1>3. CASE book.multi
  <2>1. pc' = "sort" /\ book'.multi /\ next' = 1
    BY <1>1, <1>3
  <2>2. UNCHANGED <<Ledger, Changes, Shown>>
    BY <1>1, SameBook
  <2>3. FromLedger(items)' /\ Distinct(items)' /\ (IdsOf(items) = Shown)'
    BY <1>1, <1>2, <2>2 DEF ReadSoFar, FromLedger, Distinct, IdsOf
  <2> QED
    BY <2>1, <2>3 DEF Following
<1>4. CASE ~book.multi
  <2>1. pc' = "trace"
    BY <1>1, <1>4
  <2>2. InOrder(items) /\ FromLedger(items)
    BY <1>1, <1>4 DEF ReadSoFar
  <2>3. Restored
    BY <1>1, <1>2, <2>2, InOrderIsTop DEF Restored, Items
  <2>4. Returned
    BY <1>1, TracingBegins
  <2>5. Restored' /\ Returned'
    BY <1>1, <2>3, <2>4, ReturnedStays
  <2> QED
    BY <2>1, <2>5 DEF Following
<1> QED
  BY <1>3, <1>4

\* Sorting restores the order of the ledger.
LEMMA SortFollows ==
  ASSUME FundInv, Orderly, Following, Sort
  PROVE  Following'
<1>1. /\ book \in Books /\ Listed /\ book.multi /\ items \in Seq(Row) /\ next = 1
      /\ FromLedger(items) /\ Distinct(items) /\ IdsOf(items) = Shown
      /\ pc' = "rest" /\ UNCHANGED <<book, next>>
  BY DEF FundInv, Tables, Orderly, Following, Sort
<1>2. Restored'
  BY <1>1, SortRestores
<1> QED
  BY <1>1, <1>2 DEF Following

\* One file: each withdrawal is traced to what it took.
LEMMA SingleFollows ==
  ASSUME FundInv, Orderly, Following, TraceSingle \/ EndSingle
  PROVE  Following'
<1>1. /\ pc = "trace" /\ ~book.multi /\ Ready /\ Tables /\ Returned /\ UNCHANGED <<book, file, items>>
  BY DEF FundInv, Following, Ready, TraceSingle, EndSingle
<1>2. (Whole' <=> Whole) /\ (Restored' <=> Restored) /\ Restored
  BY <1>1, SameBook, SameRows DEF Ready
<1>3. ASSUME pc' = "done", Whole => next > Total, UNCHANGED result PROVE Following'
  <2>1. RightlyFunded'
    BY <1>1, <1>3, SingleIsRight, RightlyStays
  <2> QED
    BY <1>2, <1>3, <2>1 DEF Following
<1>4. CASE EndSingle
  BY <1>3, <1>4 DEF EndSingle
<1>5. CASE TraceSingle
  <2> DEFINE w == Wd(next)
  <2>1. next <= Total /\ next \in Nat \ {0}
    BY <1>5 DEF TraceSingle, FundInv
  <2>2. w \in Withdrawals
    <3>1. \A k \in 1..Total : Wd(k) \in Withdrawals /\ Total \in Nat
      BY <1>1, ReturnedTypes
    <3>2. Total \in Nat
      BY <1>1, ReturnedTypes
    <3>3. next \in 1..Total
      BY <2>1, <3>2
    <3> QED
      BY <3>1, <3>3
  <2>3. CASE Traceable(w)
    <3>1. Return(w, Once(Traced(w))) /\ next' = next + 1 /\ pc' = pc
      BY <1>5, <2>3 DEF TraceSingle
    <3>2. Traced(w) \in SUBSET Items
      BY <1>1, TracedAreOrders
    <3>3. Whole \/ ~IsLast(w) => Traced(w) = Taken(w) \cap Items
      BY <1>1, <2>2, TracedIsTaken
    <3>4. Returned'
      <4>1. book.multi \/ Whole \/ ~IsLast(w) => Traced(w) = Taken(w) \cap Items
        BY <1>1, <3>3
      <4> DEFINE S == Traced(w)
      <4>2. /\ S \in SUBSET Items /\ Return(Wd(next), Once(S)) /\ next' = next + 1
            /\ book.multi \/ Whole \/ ~IsLast(Wd(next)) => S = Taken(Wd(next)) \cap Items
        BY <3>1, <3>2, <4>1
      <4> HIDE DEF S
      <4> QED
        BY <1>1, <2>1, <4>2, ReturnsNext
    <3> QED
      BY <1>1, <1>2, <3>1, <3>4 DEF Following
  <2>4. CASE ~Traceable(w)
    <3>1. ~Whole
      BY <1>1, <2>2, <2>4, WholeIsTraceable
    <3>2. pc' \in {"done", "error"} /\ UNCHANGED result
      BY <1>5, <2>4 DEF TraceSingle
    <3>3. CASE pc' = "error"
      BY <1>2, <3>1, <3>3 DEF Following
    <3>4. CASE pc' = "done"
      BY <1>3, <3>1, <3>2, <3>4
    <3> QED
      BY <3>2, <3>3, <3>4
  <2> QED
    BY <2>3, <2>4
<1> QED
  BY <1>4, <1>5

\* Several files: no withdrawal is found to have left anything.
LEMMA RestFollows ==
  ASSUME FundInv, Orderly, Following, CheckRest
  PROVE  Following'
<1>1. /\ pc = "rest" /\ book.multi /\ Ready /\ Tables /\ UNCHANGED <<book, file, items, next, result>>
      /\ next = 1 /\ result = <<>>
  BY DEF FundInv, Following, Ready, CheckRest
<1>2. \A w \in Withdrawals : Amount(NotFund(w)) = Rest(w)
  BY <1>1, FundedIsTaken
<1>3. pc' = "trace"
  BY <1>2 DEF CheckRest
<1>4. Returned /\ Restored
  BY <1>1, TracingBegins DEF Ready
<1>5. Returned' /\ Restored'
  BY <1>1, <1>4, ReturnedStays
<1> QED
  BY <1>3, <1>5 DEF Following

\* Each withdrawal is traced to what it took, if all of that is there.
LEMMA MultiFollows ==
  ASSUME FundInv, Orderly, Following, TraceMulti \/ EndMulti
  PROVE  Following'
<1>1. /\ pc = "trace" /\ book.multi /\ Ready /\ Tables /\ Returned /\ Restored
      /\ UNCHANGED <<book, file, items>> /\ next \in Nat \ {0}
  BY DEF FundInv, Following, Ready, TraceMulti, EndMulti
<1>2. (Whole' <=> Whole) /\ (Restored' <=> Restored)
  BY <1>1, SameBook, SameRows
<1>3. /\ Total \in Nat /\ DOMAIN result = 1..(next - 1)
      /\ \A k \in 1..Total : Wd(k) \in Withdrawals
      /\ \A w \in Withdrawals : \E k \in 1..Total : Wd(k) = w
  BY <1>1, ReturnedTypes
<1>4. ASSUME pc' = "replace", AllTried, UNCHANGED <<next, result>> PROVE Following'
  <2>1. Returned' /\ AllTried' /\ book'.multi
    BY <1>1, <1>4, ReturnedStays
  <2> QED
    BY <1>1, <1>2, <1>4, <2>1 DEF Following
<1>5. CASE EndMulti
  <2>1. next > Total
    BY <1>5 DEF EndMulti
  <2>2. \A k \in 1..Total : k \in DOMAIN result
    BY <1>1, <1>3, <2>1
  <2>3. AllTried
    BY <1>3, <2>2 DEF AllTried
  <2> QED
    BY <1>4, <1>5, <2>3 DEF EndMulti
<1>6. CASE TraceMulti
  <2> DEFINE w == Wd(next)
  <2>1. next <= Total /\ next \in 1..Total
    BY <1>1, <1>3, <1>6 DEF TraceMulti
  <2>2. w \in Withdrawals
    BY <1>3, <2>1
  <2>3. Funded(w) = Taken(w) \cap Items /\ (Taken(w) \subseteq Items => Amount(Funded(w)) = Due(w))
    BY <1>1, <2>2, FundedIsTaken
  <2>4. CASE Amount(Funded(w)) = Due(w)
    <3>1. Return(w, Once(Funded(w))) /\ next' = next + 1 /\ pc' = pc
      BY <1>6, <2>4 DEF TraceMulti
    <3>2. Returned'
      <4> DEFINE S == Funded(w)
      <4>1. /\ S \in SUBSET Items /\ Return(Wd(next), Once(S)) /\ next' = next + 1
            /\ S = Taken(Wd(next)) \cap Items
        BY <2>3, <3>1
      <4> HIDE DEF S
      <4> QED
        BY <1>1, <2>1, <4>1, ReturnsNext
    <3> QED
      BY <1>1, <1>2, <3>1, <3>2 DEF Following
  <2>5. CASE Amount(Funded(w)) # Due(w)
    <3>1. ~(Taken(w) \subseteq Items)
      BY <2>3, <2>5
    <3>2. ~Whole
      BY <1>1, <3>1 DEF Whole, Restored, Taken
    <3>3. pc' = (IF next = Total /\ Total > 1 THEN "replace" ELSE "error") /\ UNCHANGED <<next, result>>
      BY <1>6, <2>5 DEF TraceMulti
    <3>4. CASE pc' = "error"
      BY <1>2, <3>2, <3>4 DEF Following
    <3>5. CASE pc' # "error"
      <4>1. pc' = "replace" /\ next = Total
        BY <3>3, <3>5
      <4>2. AllTried
        <5> SUFFICES ASSUME NEW v \in Withdrawals, Taken(v) \subseteq Items
                     PROVE  \E k \in DOMAIN result : Wd(k) = v
          BY DEF AllTried
        <5>1. PICK k \in 1..Total : Wd(k) = v
          BY <1>3
        <5>2. k # next
          BY <3>1, <5>1
        <5>3. k \in DOMAIN result
          BY <1>1, <1>3, <4>1, <5>2
        <5> QED
          BY <5>1, <5>3
      <4> QED
        BY <1>4, <3>3, <4>1, <4>2
    <3> QED
      BY <3>4, <3>5
  <2> QED
    BY <2>4, <2>5
<1> QED
  BY <1>5, <1>6

\* With the refunds replaced the result is right.
LEMMA ReplaceFollows ==
  ASSUME FundInv, Orderly, Following, ReplaceFailed
  PROVE  Following'
<1>1. /\ pc = "replace" /\ book.multi /\ Ready /\ Tables /\ Returned /\ AllTried /\ Restored
      /\ UNCHANGED <<book, items>> /\ pc' \in {"done", "error"}
  BY DEF FundInv, Following, Ready, ReplaceFailed
<1>2. (Whole' <=> Whole) /\ (Restored' <=> Restored)
  BY <1>1, SameBook, SameRows
<1>3. CASE pc' = "done"
  BY <1>1, <1>2, <1>3, ReplacedIsRight DEF Following
<1>4. CASE pc' = "error"
  BY <1>1, <1>2, <1>4, ReplaceFails DEF Following
<1> QED
  BY <1>1, <1>3, <1>4

\* A stuttering step changes nothing.
LEMMA StutterFollows ==
  ASSUME Following, UNCHANGED vars
  PROVE  Following'
<1>1. UNCHANGED <<book, pc, file, items, next, result>>
  BY DEF vars
<1>2. UNCHANGED <<Ledger, Changes, Shown>>
  BY <1>1, SameBook
<1>3. /\ Restored => Restored'
      /\ Returned => Returned'
      /\ AllTried => AllTried'
      /\ Whole' => Whole
      /\ RightlyFunded => RightlyFunded'
  BY <1>1, ReturnedStays, RightlyStays
<1>4. /\ FromLedger(items) => FromLedger(items)'
      /\ Distinct(items) => Distinct(items)'
      /\ InOrder(items) => InOrder(items)'
      /\ IdsOf(items)' = IdsOf(items)
  BY <1>1, <1>2 DEF FromLedger, Distinct, InOrder, IdsOf
<1>5. \A f : IdsOf(book.files[f])' = IdsOf(book.files[f])
  BY <1>1 DEF IdsOf
<1>6. ReadSoFar => ReadSoFar'
  BY <1>1, <1>4, <1>5 DEF ReadSoFar
<1> QED
  BY <1>1, <1>2, <1>3, <1>4, <1>6 DEF Following

\* Every step keeps to the ledger.
LEMMA TrueInvStep == TrueInv /\ [Next]_vars => TrueInv'
<1> SUFFICES ASSUME FundInv, Orderly => Following, [Next]_vars
             PROVE  FundInv' /\ (Orderly' => Following')
  BY DEF TrueInv
<1>1. FundInv'
  BY FundInvStep
<1>2. book' = book
  BY DEF Next, ReadFile, EndOfFiles, Sort, TraceSingle, EndSingle, CheckRest, TraceMulti, EndMulti,
         ReplaceFailed, vars
<1>3. SUFFICES ASSUME Orderly, Following PROVE Following'
  BY <1>1, <1>2, SameBook
<1>4. CASE ReadFile
  BY <1>3, <1>4, ReadFollows
<1>5. CASE EndOfFiles
  BY <1>3, <1>5, EndFollows
<1>6. CASE Sort
  BY <1>3, <1>6, SortFollows
<1>7. CASE TraceSingle \/ EndSingle
  BY <1>3, <1>7, SingleFollows
<1>8. CASE CheckRest
  BY <1>3, <1>8, RestFollows
<1>9. CASE TraceMulti \/ EndMulti
  BY <1>3, <1>9, MultiFollows
<1>10. CASE ReplaceFailed
  BY <1>3, <1>10, ReplaceFollows
<1>11. CASE UNCHANGED vars
  BY <1>3, <1>11, StutterFollows
<1> QED
  BY <1>4, <1>5, <1>6, <1>7, <1>8, <1>9, <1>10, <1>11 DEF Next

-----------------------------------------------------------------------------
(* Theorems.                                                                *)

\* Every withdrawal is given rows that add up to it when it is traced, and
\* they are those of orders when there is one file; the rows do not change
\* once withdrawals are returned.
THEOREM FundInvariant == Spec => []FundInv
BY FundInvInit, FundInvStep, PTL DEF Spec

\* The rows returned for a withdrawal add up to it, with a refund among them
\* replaced by what the failed withdrawal had paid out (ValidWithdrawal of
\* shopeeXlsImpl and of wdMultiFileImpl), whatever the files contain.
THEOREM RowsAddUp == Spec => []AddsUp
<1>1. FundInv => AddsUp
  BY DEF FundInv
<1> QED
  BY <1>1, FundInvariant, PTL

\* Of orderly files the reader restores the ledger, traces each withdrawal to
\* what it took, and ends with an error only if they are not whole.
THEOREM TrueInvariant == Spec => []TrueInv
BY InitFollows, TrueInvStep, PTL DEF Spec

\* In orderly files every withdrawal is given just the orders' rows that it
\* really paid out, once, with those of a failed withdrawal whose refund it took.
THEOREM PaidByTheLedger == Spec => []TrueFunding
<1>1. TrueInv => TrueFunding
  <2> SUFFICES ASSUME FundInv, Orderly => Following, Orderly PROVE TrueFunding
    BY DEF TrueInv, TrueFunding
  <2>1. (pc = "error" => ~Whole) /\ (pc = "done" => RightlyFunded)
    BY DEF Following
  <2> QED
    BY <2>1 DEF TrueFunding, RightlyFunded
<1> QED
  BY <1>1, TrueInvariant, PTL

=============================================================================
