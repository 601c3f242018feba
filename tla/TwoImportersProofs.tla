-------------------------- MODULE TwoImportersProofs --------------------------
(***************************************************************************)
(* What two imports over one database promise, for all statements.          *)
(*                                                                         *)
(* Each import keeps what it relies on, whatever the other does, since what   *)
(* it relies on of the database only grows (ImporterProofs).  A row that  *)
(* an import has passed is settled, or one of them is busy with its order and *)
(* settles it again; an order that is published is completed, or about to be  *)
(* by the one import that holds its row.                                     *)
(***************************************************************************)
EXTENDS TwoImporters, ImporterProofs

\* The import that waits, in the words of ImporterProofs.
That == INSTANCE ImporterProofs WITH
            pc <- other.pc, file <- other.file, pos <- other.pos, wd <- other.wd,
            counting <- other.counting, from <- other.from, adjs <- other.adjs,
            imports <- other.imports, missed <- other.missed, counted <- other.counted

\* Each import is as it would be alone.
Apart == OwnInv /\ That!OwnInv

\* What is published is completed, or about to be by one of the imports.
Published ==
    /\ \A o \in Ref : orders[o] = "completed" => o \in announced
    /\ Completing \subseteq announced /\ That!Completing \subseteq announced
    /\ cut = "never" =>
          /\ again = {}
          /\ \A o \in announced :
                orders[o] = "completed" \/ o \in Completing \/ o \in That!Completing

\* The rows above row n of statement f that the statements agree on are settled,
\* or one of the imports is busy with their order.
Owed(f, n) ==
    \A h \in DOMAIN f : Accepted(f, h) => \A q \in Under(f, h) :
        q < n /\ f[q].order # NoOrder /\ Whole(f[h].at, f[q].order, f[q].type) =>
            \/ Settled(f[h].at, f[q].order, f[q].type)
            \/ f[q].order \in Busy \cup That!Busy

\* Unless an import was just cut off, that is so of every row passed since then.
Claims ==
    /\ finished \subseteq Files
    /\ cut # "now" =>
          /\ \A f \in finished : Owed(f, Len(f) + 1)
          /\ Owed(file, pos) /\ Owed(other.file, other.pos)

TwoInv == Apart /\ Published /\ Claims

-----------------------------------------------------------------------------
(* The import that waits.                                                   *)

LEMMA ThatCursor ==
  ASSUME That!TypeOK
  PROVE  /\ other.file \in Files \cup {<<>>} /\ DOMAIN other.file = 1..Len(other.file)
         /\ Len(other.file) \in Nat /\ other.pos \in 1..(Len(other.file) + 1)
         /\ other.from \in 1..other.pos
         /\ That!Group \subseteq DOMAIN other.file
         /\ \A p \in DOMAIN other.file : other.file[p].order \in Ref
<1>1. /\ other.file \in Files \cup {<<>>} /\ other.pos \in 1..(Len(other.file) + 1)
      /\ other.from \in 1..other.pos
  BY DEF That!TypeOK
<1>2. /\ Len(other.file) \in Nat /\ DOMAIN other.file = 1..Len(other.file)
      /\ \A p \in DOMAIN other.file : other.file[p].order \in Ref
  BY <1>1, Rows
<1> QED
  BY <1>1, <1>2 DEF That!Group

\* It keeps what it relies on while the running one goes on.
LEMMA ThatKeeps ==
  ASSUME That!OwnInv, other' = other, DatabaseOK', Grows
  PROVE  That!OwnInv'
<1> USE DEF That!OwnInv
<1>0. /\ That!Group' = That!Group /\ That!FoundRows' = That!FoundRows
      /\ That!Head1' = That!Head1 /\ That!HasHead' = That!HasHead
      /\ That!AtEnd' = That!AtEnd /\ That!Row' = That!Row
  BY DEF That!Group, That!Handled, That!FoundRows, That!Nameless, That!Head1, That!HasHead, That!AtEnd, That!Row
<1>1. That!TypeOK'
  BY <1>0 DEF That!TypeOK, DatabaseOK, Grows, That!Time, Time, That!Adj, Adj, That!Ref, Ref, That!NoWd, NoWd
<1>2. That!Shape'
  <2>1. other.pc = "log" => other.file[other.pos].order \in Ref
    <3>1. other.pc = "log" => other.pos \in DOMAIN other.file
      BY ThatCursor DEF That!Shape, That!AtEnd
    <3> QED
      BY <3>1, ThatCursor
  <2>2. That!Found(other.pos) /\ other.file[other.pos].order \in Ref => That!Found(other.pos)'
    BY DEF That!Found, That!Nameless, Grows
  <2> QED
    BY <1>0, <2>1, <2>2 DEF That!Shape, That!Handled
<1>3. That!Headed'
  BY <1>0 DEF That!Headed, DatabaseOK, That!NoWd
<1>4. That!Connected'
  <2>1. \A p \in That!FoundRows : other.file[p].order \in Ref
    BY ThatCursor DEF That!FoundRows
  <2> QED
    BY <1>0, <2>1 DEF That!Connected, Grows
<1>5. That!Kept'
  <2>1. \A p \in other.missed : other.file[p].order \in Ref
    BY ThatCursor DEF That!Kept, That!TypeOK
  <2>2. \A o \in Ref : orders[o] \in {"missing", "cancelled"} => orders'[o] = orders[o]
    BY DEF Grows
  <2>3. \A o \in Ref : /\ orders'[o] = "missing" <=> orders[o] = "missing"
                       /\ orders'[o] = "cancelled" <=> orders[o] = "cancelled"
    BY DEF Grows
  <2>4. \A p \in other.missed : orders'[other.file[p].order] \in {"missing", "cancelled"}
    BY <2>1, <2>2 DEF That!Kept, That!Ref, Ref
  <2>5. \A p \in other.missed :
            <<other.wd, other.file[p].order>> \in lost => <<other.wd, other.file[p].order>> \in lost'
    BY DEF Grows
  <2>6. \A p : That!HasRef(p)' = That!HasRef(p)
    BY DEF That!HasRef
  <2> QED
    BY <1>0, <2>3, <2>4, <2>5, <2>6 DEF That!Kept, That!Ref, Ref
<1>6. That!Idle'
  BY DEF That!Idle
<1> QED
  BY <1>1, <1>2, <1>3, <1>4, <1>5, <1>6

\* What it is about to complete stays so while the running one works on other orders.
LEMMA ThatHeld ==
  ASSUME That!TypeOK
  PROVE  /\ That!GroupOrders \subseteq Ref
         /\ That!Completing \subseteq Other!Holds /\ That!Completing \subseteq Ref
         /\ other.pc = "commit" => That!CompletedIDs \subseteq Other!Holds
<1>1. That!GroupOrders \subseteq Ref
  BY ThatCursor DEF That!GroupOrders
<1>2. other.pc = "commit" => That!CompletedIDs \subseteq Other!Holds
  BY DEF Other!Holds, Other!There, Other!GroupOrders, Other!Group, Other!Handled,
         That!CompletedIDs, That!GroupOrders, That!Group, That!Handled
<1> QED
  BY <1>1, <1>2 DEF That!Completing, That!CompletedIDs

LEMMA ThatSpares ==
  ASSUME That!TypeOK, other' = other, Grows,
         \A o \in Ref \cap Other!Holds : orders'[o] = orders[o] /\ Paid(o)' = Paid(o)
  PROVE  That!Completing' = That!Completing
<1>1. That!GroupOrders' = That!GroupOrders
  BY DEF That!GroupOrders, That!Group, That!Handled
<1>2. CASE other.pc = "commit"
  <2>1. \A o \in That!GroupOrders : \/ orders[o] = "missing" /\ orders'[o] = "missing"
                                    \/ orders'[o] = orders[o] /\ Paid(o)' = Paid(o)
    <3>1. Other!Holds = {o \in That!GroupOrders : orders[o] # "missing"}
      BY <1>2 DEF Other!Holds, Other!There, Other!GroupOrders, Other!Group, Other!Handled,
                  That!GroupOrders, That!Group, That!Handled
    <3> QED
      BY <3>1, ThatHeld DEF Grows
  <2>2. \A o \in That!GroupOrders : \/ orders[o] = "missing" /\ orders'[o] = "missing"
                                    \/ orders'[o] = orders[o] /\ That!Paid(o)' = That!Paid(o)
    BY <2>1 DEF That!Paid, Paid
  <2> QED
    BY <1>1, <1>2, <2>1, <2>2 DEF That!Completing, That!CompletedIDs
<1>3. CASE other.pc # "commit"
  BY <1>3 DEF That!Completing
<1> QED
  BY <1>2, <1>3

-----------------------------------------------------------------------------
(* The turn changes: each import has what the other had.                     *)

LEMMA TurnIs ==
  ASSUME Turn
  PROVE  /\ pc' = other.pc /\ file' = other.file /\ pos' = other.pos /\ wd' = other.wd
         /\ counting' = other.counting /\ from' = other.from /\ adjs' = other.adjs
         /\ imports' = other.imports /\ missed' = other.missed /\ counted' = other.counted
         /\ other'.pc = pc /\ other'.file = file /\ other'.pos = pos /\ other'.wd = wd
         /\ other'.counting = counting /\ other'.from = from /\ other'.adjs = adjs
         /\ other'.imports = imports /\ other'.missed = missed /\ other'.counted = counted
         /\ UNCHANGED <<made, diff, lost, valid, logged, log, fundAt, orders, fundedAt, returns,
                        announced, cut, finished, again>>
  BY DEF Turn, Running, withdrawals, adjustments, ordervars, history

LEMMA TurnApart ==
  ASSUME Apart, Turn
  PROVE  Apart'
<1>1. OwnInv'
  <2>0. /\ Group' = That!Group /\ FoundRows' = That!FoundRows /\ Head1' = That!Head1
        /\ HasHead' = That!HasHead /\ AtEnd' = That!AtEnd /\ Row' = That!Row
        /\ \A p : Handled(p)' = That!Handled(p)
    BY TurnIs DEF Group, Handled, FoundRows, Nameless, Head1, HasHead, AtEnd, Row,
        That!Group, That!Handled, That!FoundRows, That!Nameless, That!Head1, That!HasHead, That!AtEnd, That!Row
  <2>1. TypeOK'
    BY <2>0, TurnIs DEF Apart, That!OwnInv, TypeOK, That!TypeOK, That!Time, Time, That!Adj, Adj, That!Ref, Ref, That!NoWd, NoWd
  <2>2. Shape'
    BY <2>0, TurnIs DEF Apart, That!OwnInv, Shape, That!Shape, Found, That!Found, Nameless, That!Nameless, Handled, That!Handled, That!NoWd, NoWd
  <2>3. Headed'
    BY <2>0, TurnIs DEF Apart, That!OwnInv, Headed, That!Headed, That!NoWd, NoWd
  <2>4. Connected'
    BY <2>0, TurnIs DEF Apart, That!OwnInv, Connected, That!Connected
  <2>5. Kept' /\ Idle'
    BY <2>0, TurnIs DEF Apart, That!OwnInv, Kept, That!Kept, HasRef, That!HasRef, That!Ref, Ref, Idle, That!Idle
  <2> QED
    BY <2>1, <2>2, <2>3, <2>4, <2>5 DEF OwnInv
<1>2. That!OwnInv'
  <2>0. /\ That!Group' = Group /\ That!FoundRows' = FoundRows /\ That!Head1' = Head1
        /\ That!HasHead' = HasHead /\ That!AtEnd' = AtEnd /\ That!Row' = Row
    BY TurnIs DEF Group, Handled, FoundRows, Nameless, Head1, HasHead, AtEnd, Row,
        That!Group, That!Handled, That!FoundRows, That!Nameless, That!Head1, That!HasHead, That!AtEnd, That!Row
  <2>1. That!TypeOK'
    BY <2>0, TurnIs DEF Apart, OwnInv, TypeOK, That!TypeOK, That!Time, Time, That!Adj, Adj, That!Ref, Ref, That!NoWd, NoWd
  <2>2. That!Shape'
    BY <2>0, TurnIs DEF Apart, OwnInv, Shape, That!Shape, Found, That!Found, Nameless, That!Nameless, Handled, That!Handled, That!NoWd, NoWd
  <2>3. That!Headed'
    BY <2>0, TurnIs DEF Apart, OwnInv, Headed, That!Headed, That!NoWd, NoWd
  <2>4. That!Connected'
    BY <2>0, TurnIs DEF Apart, OwnInv, Connected, That!Connected
  <2>5. That!Kept' /\ That!Idle'
    BY <2>0, TurnIs DEF Apart, OwnInv, Kept, That!Kept, HasRef, That!HasRef, That!Ref, Ref, Idle, That!Idle
  <2> QED
    BY <2>1, <2>2, <2>3, <2>4, <2>5 DEF That!OwnInv
<1> QED
  BY <1>1, <1>2 DEF Apart

\* So what one is busy with, and about to complete, the other is.
LEMMA TurnSame ==
  ASSUME Turn
  PROVE  /\ Busy' = That!Busy /\ That!Busy' = Busy
         /\ Completing' = That!Completing /\ That!Completing' = Completing
<1>1. GroupOrders' = That!GroupOrders /\ That!GroupOrders' = GroupOrders
  BY TurnIs DEF GroupOrders, Group, Handled, That!GroupOrders, That!Group, That!Handled
<1>2. \A o : Paid(o)' = Paid(o) /\ That!Paid(o)' = That!Paid(o) /\ That!Paid(o) = Paid(o)
  BY TurnIs DEF Paid, That!Paid
<1>3. CompletedIDs' = That!CompletedIDs /\ That!CompletedIDs' = CompletedIDs
  BY <1>1, <1>2, TurnIs DEF CompletedIDs, That!CompletedIDs
<1> QED
  BY <1>1, <1>3, TurnIs DEF Busy, That!Busy, Completing, That!Completing

LEMMA TurnKeeps ==
  ASSUME TwoInv, Turn
  PROVE  TwoInv'
<1>1. Published'
  BY TurnIs, TurnSame DEF TwoInv, Published
<1>2. \A f, n : Owed(f, n) =>
          \A h \in DOMAIN f : Accepted(f, h) => \A q \in Under(f, h) :
              q < n /\ f[q].order # NoOrder /\ Whole(f[h].at, f[q].order, f[q].type) =>
                  \/ Settled(f[h].at, f[q].order, f[q].type)'
                  \/ f[q].order \in Busy' \cup That!Busy'
  <2>1. \A w, o, t : Settled(w, o, t) => Settled(w, o, t)'
    BY TurnIs DEF Settled, Paid
  <2> QED
    BY <2>1, TurnSame DEF Owed
<1>3. Claims'
  <2>1. UNCHANGED <<cut, finished>>
    BY TurnIs
  <2>2. ASSUME NEW f, NEW n, Owed(f, n) PROVE Owed(f, n)'
    BY <1>2, <2>2 DEF Owed
  <2>3. ASSUME cut # "now" PROVE Owed(file, pos)'
    <3>1. SUFFICES ASSUME NEW f, NEW n, f = file', n = pos' PROVE Owed(f, n)'
      OBVIOUS
    <3> QED
      BY <2>2, <2>3, <3>1, TurnIs DEF TwoInv, Claims
  <2>4. ASSUME cut # "now" PROVE Owed(other.file, other.pos)'
    <3>1. SUFFICES ASSUME NEW f, NEW n, f = other'.file, n = other'.pos PROVE Owed(f, n)'
      OBVIOUS
    <3> QED
      BY <2>2, <2>4, <3>1, TurnIs DEF TwoInv, Claims
  <2> QED
    BY <2>1, <2>2, <2>3, <2>4 DEF TwoInv, Claims
<1> QED
  BY <1>1, <1>3, TurnApart DEF TwoInv

-----------------------------------------------------------------------------
(* The running import goes on.                                              *)

LEMMA StepIs ==
  ASSUME Step
  PROVE  /\ Own /\ other' = other
         /\ \/ Begin /\ Started
            \/ Import /\ Wants \cap Other!Holds = {} /\ Goes
            \/ Abort /\ cut' = "now" /\ UNCHANGED <<finished, again>>
  BY DEF Step, Own, Free

LEMMA StepApart ==
  ASSUME Apart, Step
  PROVE  Apart'
  BY StepIs, OwnStep, ThatKeeps DEF Apart

LEMMA StepPublished ==
  ASSUME Apart, Published, Step
  PROVE  Published'
<1> USE DEF Apart
<1>1. /\ announced \subseteq announced' /\ announced' \subseteq announced \cup Completing'
      /\ Completing' \subseteq announced'
      /\ \A o \in Ref : orders'[o] = "completed" => orders[o] = "completed" \/ o \in Completing
      /\ announced' # announced => pc = "settle" /\ announced' = announced \cup CompletedIDs
  BY StepIs, OwnPublishes DEF Published
<1>2. /\ Completing \subseteq Ref /\ announced' \subseteq Ref
      /\ That!Completing \subseteq Ref /\ That!Completing \subseteq Other!Holds
  BY CompletingHeld, ThatHeld, StepApart DEF OwnInv, That!OwnInv, TypeOK
<1>3. That!Completing' = That!Completing
  <2>1. \A o \in Ref \cap Other!Holds : o \notin Wants \/ Begin \/ Abort
    BY StepIs
  <2>2. \A o \in Ref \cap Other!Holds : orders'[o] = orders[o] /\ Paid(o)' = Paid(o)
    BY <2>1, StepIs, OwnSpares
  <2> QED
    BY <2>2, StepIs, OwnStep, ThatSpares DEF That!OwnInv
<1>4. \A o \in Ref : orders'[o] = "completed" => o \in announced'
  BY <1>1 DEF Published
<1>5. ASSUME cut' = "never"
      PROVE  /\ again' = {}
             /\ \A o \in announced' :
                   orders'[o] = "completed" \/ o \in Completing' \/ o \in That!Completing'
  <2>1. /\ Begin \/ Import
        /\ cut = "never" /\ again = {}
        /\ \A o \in announced : orders[o] = "completed" \/ o \in Completing \/ o \in That!Completing
    <3>1. (Begin \/ Import) /\ cut = "never"
      BY <1>5, StepIs DEF Started, Goes, history
    <3> QED
      BY <3>1 DEF Published
  <2>2. \A o \in Ref : orders[o] = "completed" => orders'[o] = "completed"
    BY StepIs, OwnStep DEF Grows
  <2>3. \A o \in Completing : orders'[o] = "completed"
    BY <2>1, OwnCompletes
  <2>4. \A o \in announced' :
            orders'[o] = "completed" \/ o \in Completing' \/ o \in That!Completing'
    BY <1>1, <1>2, <1>3, <2>1, <2>2, <2>3
  <2>5. again' = {}
    <3>1. CASE again' = again
      BY <2>1, <3>1
    <3>2. CASE again' # again
      <4>1. /\ pc = "settle" /\ Wants \cap Other!Holds = {}
            /\ again' = again \cup (CompletedIDs \cap announced)
        BY <1>5, <3>2, StepIs DEF Started, Goes, history
      <4>2. SUFFICES ASSUME NEW o \in CompletedIDs, o \in announced PROVE FALSE
        BY <2>1, <4>1
      <4>3. o \in Wants /\ orders[o] = "open" /\ o \notin Completing
        BY <4>1 DEF CompletedIDs, Wants, There, Completing
      <4>4. o \in That!Completing
        BY <2>1, <4>2, <4>3
      <4> QED
        BY <1>2, <4>1, <4>3, <4>4
    <3> QED
      BY <3>1, <3>2
  <2> QED
    BY <2>4, <2>5
<1> QED
  BY <1>1, <1>3, <1>4, <1>5 DEF Published

\* A row of a statement, and the withdrawal above it.
LEMMA Words ==
  ASSUME NEW f \in Files \cup {<<>>}, NEW h \in DOMAIN f, NEW q \in Under(f, h)
  PROVE  /\ q \in DOMAIN f /\ q \in 1..Len(f) /\ Len(f) \in Nat
         /\ f[q].kind \in {"order", "unknown"} /\ f[q].order \in Ref
         /\ f[q].type \in AdjType /\ f[h].at \in Time
<1>1. h \in 1..Len(f) /\ Len(f) \in Nat /\ DOMAIN f = 1..Len(f)
  BY Rows
<1>2. q \in 1..Len(f) /\ f[q].kind \in {"order", "unknown"}
  BY <1>1 DEF Under
<1> QED
  BY <1>1, <1>2, Rows DEF Time

LEMMA StepClaims ==
  ASSUME Apart, Claims, Step
  PROVE  Claims'
<1> USE DEF Apart
<1>1. finished' \subseteq Files
  <2>1. pc = "set" => file \in Files
    BY DEF OwnInv, Shape
  <2> QED
    BY <2>1, StepIs DEF Claims, Started, Goes, history
<1>2. SUFFICES ASSUME cut' # "now"
               PROVE  /\ \A f \in finished' : Owed(f, Len(f) + 1)'
                      /\ Owed(file, pos)' /\ Owed(other.file, other.pos)'
  BY <1>1 DEF Claims
<1>3. Begin \/ Import
  BY <1>2, StepIs
<1>4. other' = other
  BY StepIs
<1>5. file \in Files \cup {<<>>} /\ other.file \in Files \cup {<<>>} /\ file' \in Files \cup {<<>>}
  BY StepApart DEF OwnInv, TypeOK, That!OwnInv, That!TypeOK
<1>6. CASE Begin /\ pc = "idle" /\ other.pc = "idle"
  <2>1. pos' = 1 /\ other.pos = 1 /\ finished' = {}
    <3>1. ~Import
      BY <1>6 DEF Import, SkipRow, IncOrder, CommitOrder, OrderNotFound, Unknown, UnknownRow,
         UnknownBlocks, CheckNothing, Check, AtCheck, Publish, CommitSettle, Withdrawal, Finish
    <3> QED
      BY <1>2, <1>6, <3>1, StepIs DEF Begin, That!OwnInv, That!Idle, Started
  <2>2. \A f \in Files \cup {<<>>} : \A h \in DOMAIN f : \A q \in Under(f, h) : ~(q < 1)
    BY Words
  <2> QED
    BY <1>4, <1>5, <2>1, <2>2 DEF Owed, Under
<1>7. CASE ~(Begin /\ pc = "idle" /\ other.pc = "idle")
  <2>1. /\ cut # "now"
        /\ finished' \subseteq finished \cup (IF AtEnd THEN {file} ELSE {})
    BY <1>2, <1>7, StepIs DEF Started, Goes, history, Begin
  <2>2. (\A f \in finished : Owed(f, Len(f) + 1)) /\ Owed(file, pos) /\ Owed(other.file, other.pos)
    BY <2>1 DEF Claims
  <2>3. ASSUME NEW w \in Time, NEW o \in Order, NEW t \in AdjType, Whole(w, o, t),
               Settled(w, o, t) \/ o \in Busy \cup That!Busy
        PROVE  Settled(w, o, t)' \/ o \in Busy' \cup That!Busy'
    <3>1. That!Busy' = That!Busy
      BY <1>4 DEF That!Busy, That!GroupOrders, That!Group, That!Handled
    <3>2. Settled(w, o, t) \/ o \in Busy => Settled(w, o, t)' \/ o \in Busy'
      BY <1>3, <2>3, OwnSettles
    <3> QED
      BY <2>3, <3>1, <3>2
  <2>4. ASSUME NEW f \in Files \cup {<<>>}, NEW h \in DOMAIN f, NEW q \in Under(f, h),
               f[q].order # NoOrder, Whole(f[h].at, f[q].order, f[q].type),
               Settled(f[h].at, f[q].order, f[q].type) \/ f[q].order \in Busy \cup That!Busy
        PROVE  Settled(f[h].at, f[q].order, f[q].type)' \/ f[q].order \in Busy' \cup That!Busy'
    <3>1. f[h].at \in Time /\ f[q].order \in Order /\ f[q].type \in AdjType
      BY <2>4, Words DEF Ref
    <3> QED
      BY <2>3, <2>4, <3>1
  <2>5. ASSUME NEW f \in finished' PROVE Owed(f, Len(f) + 1)'
    <3>1. f \in Files \cup {<<>>}
      BY <1>1
    <3>2. Owed(f, Len(f) + 1)
      <4>1. CASE f \in finished
        BY <2>2, <4>1
      <4>2. CASE f = file /\ AtEnd
        <5>1. \A h \in DOMAIN f : \A q \in Under(f, h) : q < pos
          BY <3>1, <4>2, Words, Cursor DEF OwnInv, AtEnd
        <5> QED
          BY <2>2, <4>2, <5>1 DEF Owed
      <4> QED
        BY <2>1, <4>1, <4>2
    <3> QED
      BY <2>4, <3>1, <3>2 DEF Owed
  <2>6. Owed(other.file, other.pos)'
    BY <1>4, <1>5, <2>2, <2>4 DEF Owed
  <2>7. Owed(file, pos)'
    <3>1. SUFFICES ASSUME NEW f, NEW n, f = file', n = pos'
                   PROVE  Owed(f, n)'
      OBVIOUS
    <3>2. SUFFICES ASSUME NEW h \in DOMAIN f, Accepted(f, h), NEW q \in Under(f, h),
                          q < n, f[q].order # NoOrder,
                          Whole(f[h].at, f[q].order, f[q].type)
                   PROVE  \/ Settled(f[h].at, f[q].order, f[q].type)'
                          \/ f[q].order \in Busy' \cup That!Busy'
      BY DEF Owed
    <3>3. f \in Files \cup {<<>>} /\ q \in DOMAIN f /\ f[q].kind \in {"order", "unknown"}
      BY <1>5, <3>1, Words
    <3>4. f = file /\ (q < pos \/ f[q].order \in Busy')
      BY <3>1, <3>2, <3>3, StepIs, OwnPasses
    <3>5. CASE f[q].order \in Busy'
      BY <3>5
    <3>6. CASE q < pos
      <4>1. \/ Settled(f[h].at, f[q].order, f[q].type)
            \/ f[q].order \in Busy \cup That!Busy
        BY <2>2, <3>2, <3>4, <3>6 DEF Owed
      <4> QED
        BY <2>4, <3>2, <3>3, <4>1
    <3> QED
      BY <3>4, <3>5, <3>6
  <2> QED
    BY <2>5, <2>6, <2>7
<1> QED
  BY <1>6, <1>7
-----------------------------------------------------------------------------
(* Both.                                                                    *)

LEMMA TwoStarts == TwoInit => TwoInv
<1> SUFFICES ASSUME TwoInit PROVE TwoInv
  OBVIOUS
<1>1. OwnInv
  BY OwnInit DEF TwoInit
<1>2. /\ other.pc = pc /\ other.file = file /\ other.pos = pos /\ other.wd = wd
      /\ other.counting = counting /\ other.from = from /\ other.adjs = adjs
      /\ other.imports = imports /\ other.missed = missed /\ other.counted = counted
  BY DEF TwoInit, Running
<1>3. That!OwnInv
  <2>0. /\ Group = That!Group /\ FoundRows = That!FoundRows /\ Head1 = That!Head1
        /\ HasHead = That!HasHead /\ AtEnd = That!AtEnd /\ Row = That!Row
        /\ \A p : Handled(p) = That!Handled(p)
    BY <1>2 DEF Group, Handled, FoundRows, Nameless, Head1, HasHead, AtEnd, Row,
        That!Group, That!Handled, That!FoundRows, That!Nameless, That!Head1, That!HasHead, That!AtEnd, That!Row
  <2>1. That!TypeOK
    BY <1>1, <1>2, <2>0 DEF OwnInv, TypeOK, That!TypeOK, That!Time, Time, That!Adj, Adj, That!Ref, Ref, That!NoWd, NoWd
  <2>2. That!Shape
    BY <1>1, <1>2, <2>0 DEF OwnInv, Shape, That!Shape, Found, That!Found, Nameless, That!Nameless, Handled, That!Handled, That!NoWd, NoWd
  <2>3. That!Headed
    BY <1>1, <1>2, <2>0 DEF OwnInv, Headed, That!Headed, That!NoWd, NoWd
  <2>4. That!Connected
    BY <1>1, <1>2, <2>0 DEF OwnInv, Connected, That!Connected
  <2>5. That!Kept /\ That!Idle
    BY <1>1, <1>2, <2>0 DEF OwnInv, Kept, That!Kept, HasRef, That!HasRef, That!Ref, Ref, Idle, That!Idle
  <2> QED
    BY <2>1, <2>2, <2>3, <2>4, <2>5 DEF That!OwnInv
<1>4. Published
  BY <1>2 DEF TwoInit, Init, Published, Completing, That!Completing
<1>5. Claims
  <2>1. \A f \in Files \cup {<<>>} : \A h \in DOMAIN f : \A q \in Under(f, h) : ~(q < 1)
    BY Words
  <2>2. file = <<>> /\ pos = 1 /\ finished = {}
    BY DEF TwoInit, Init
  <2> QED
    BY <1>2, <2>1, <2>2 DEF Claims, Owed
<1> QED
  BY <1>1, <1>3, <1>4, <1>5 DEF TwoInv, Apart

LEMMA TwoSteps == TwoInv /\ [TwoNext]_twoVars => TwoInv'
<1> SUFFICES ASSUME TwoInv, [TwoNext]_twoVars PROVE TwoInv'
  OBVIOUS
<1>1. CASE Step
  BY <1>1, StepApart, StepPublished, StepClaims DEF TwoInv
<1>2. CASE Turn
  BY <1>2, TurnKeeps
<1>3. CASE UNCHANGED twoVars
  <2>1. /\ UNCHANGED <<made, diff, lost, valid, logged, log, fundAt, orders, fundedAt, returns, announced>>
        /\ UNCHANGED <<pc, file, pos, wd, counting, from, adjs, imports, missed, counted>>
        /\ UNCHANGED <<other, cut, finished, again>>
    BY <1>3 DEF twoVars, vars, history, withdrawals, adjustments, ordervars, cursor, group, groupHist
  <2>2. OwnInv'
    <3>1. OwnInv
      BY DEF TwoInv, Apart
    <3>2. /\ Group' = Group /\ FoundRows' = FoundRows /\ Head1' = Head1 /\ HasHead' = HasHead
          /\ AtEnd' = AtEnd /\ Row' = Row
      BY <2>1 DEF Group, Handled, FoundRows, Nameless, Head1, HasHead, AtEnd, Row
    <3>3. (TypeOK /\ Shape /\ Headed /\ Connected)'
      BY <2>1, <3>1, <3>2 DEF OwnInv, TypeOK, Shape, Found, Nameless, Handled, Headed, Connected
    <3> QED
      BY <2>1, <3>1, <3>2, <3>3 DEF OwnInv, Kept, HasRef, Idle
  <2>3. Apart'
    BY <2>1, <2>2, DatabaseTyped, ThatKeeps DEF TwoInv, Apart, DatabaseOK, Grows
  <2>4. /\ Busy' = Busy /\ That!Busy' = That!Busy
        /\ Completing' = Completing /\ That!Completing' = That!Completing
        /\ \A w, o, t : Settled(w, o, t) => Settled(w, o, t)'
    BY <2>1 DEF Busy, That!Busy, GroupOrders, That!GroupOrders, Group, That!Group, Handled, That!Handled,
        Completing, That!Completing, CompletedIDs, That!CompletedIDs, Paid, That!Paid, Settled
  <2>5. Published'
    BY <2>1, <2>4 DEF TwoInv, Published
  <2>6. Claims'
    BY <2>1, <2>4 DEF TwoInv, Claims, Owed
  <2> QED
    BY <2>3, <2>5, <2>6 DEF TwoInv
<1> QED
  BY <1>1, <1>2, <1>3 DEF TwoNext

\* TwoInv holds of every state two imports reach.
THEOREM TwoInvariant == TwoSpec => []TwoInv
<1>1. TwoInit => TwoInv
  BY TwoStarts
<1>2. TwoInv /\ [TwoNext]_twoVars => TwoInv'
  BY TwoSteps
<1> QED
  BY <1>1, <1>2, PTL DEF TwoSpec

\* Two imports at a time settle every row the statements agree on as one import
\* would, whatever earlier imports that were cut off had left: the row of a
\* known order is put in order by CommitSettle of either import, that of a missing or
\* cancelled one by OrderNotFound.
THEOREM TwoSettleTogether == TwoSpec => []SettledTogether
<1>1. TwoInv => SettledTogether
  <2> SUFFICES ASSUME TwoInv, pc = "idle", other.pc = "idle", cut # "now",
                      NEW f \in finished, NEW h \in DOMAIN f, Accepted(f, h), NEW q \in Under(f, h),
                      f[q].order # NoOrder, Whole(f[h].at, f[q].order, f[q].type)
               PROVE  Settled(f[h].at, f[q].order, f[q].type)
    BY DEF SettledTogether
  <2>1. Busy = {} /\ That!Busy = {}
    BY DEF Busy, That!Busy
  <2>2. f \in Files /\ Owed(f, Len(f) + 1)
    BY DEF TwoInv, Claims
  <2>3. q < Len(f) + 1
    BY <2>2, Words
  <2> QED
    BY <2>1, <2>2, <2>3 DEF Owed
<1> QED
  BY <1>1, TwoInvariant, PTL

\* A completion that is committed has been published before, if the import dies
\* in between too, and as long as none is cut off no two imports publish it: the
\* rows of orders that orderByRefIDsImpl.Lock takes with NOWAIT keep the second from it.
THEOREM TwoPublishOnce == TwoSpec => []PublishedOnce
<1>1. TwoInv => PublishedOnce
  BY DEF TwoInv, Published, PublishedOnce
<1> QED
  BY <1>1, TwoInvariant, PTL
=============================================================================
