----------------------------- MODULE TwoImporters -----------------------------
(***************************************************************************)
(* Two instances of the service that import statements of one shop at the    *)
(* same time: the mutex of a runner is of its process, and the table of tasks *)
(* hands the same task to both.  The variables of Importer are the database   *)
(* and the import that runs; `other` is the state of the one that waits for   *)
(* its turn, and between any two steps the turn may change.                  *)
(*                                                                          *)
(* The rows of orders are locked with NOWAIT: an import that meets a row      *)
(* the other holds fails (Importer's Abort).  The row of a withdrawal is not  *)
(* locked by who reads it: both start its diff_amount again and both count.   *)
(***************************************************************************)
EXTENDS Importer

VARIABLES
    other,      \* the import that waits
    \* history
    cut,        \* whether an import was cut off "now", since nobody imported, or "before"
    finished,   \* statements imported to their end since then
    again       \* orders whose completion was published more than once

Running == [pc |-> pc, file |-> file, pos |-> pos, wd |-> wd, counting |-> counting,
            from |-> from, adjs |-> adjs, imports |-> imports,
            missed |-> missed, counted |-> counted]
Other == INSTANCE Importer WITH
             pc <- other.pc, file <- other.file, pos <- other.pos, wd <- other.wd,
             counting <- other.counting, from <- other.from, adjs <- other.adjs,
             imports <- other.imports, missed <- other.missed, counted <- other.counted
history == <<cut, finished, again>>
twoVars == <<vars, other, history>>

-----------------------------------------------------------------------------
TwoInit == Init /\ other = Running /\ cut = "never" /\ finished = {} /\ again = {}

\* Mutant of Free: the rows of orders are not locked.
FreeAlways(wants, holds) == TRUE

\* No row is held that a step works on.
Free(wants, holds) == wants \cap holds = {}

\* An import whose transaction waits for itself holds the row of its withdrawal.
Waits == other.pc = "blocked" => diff'[other.wd] = diff[other.wd]

Started ==
    IF pc = "idle" /\ other.pc = "idle"
    THEN /\ cut' = IF cut = "now" THEN "before" ELSE cut
         /\ finished' = {} /\ UNCHANGED again
    ELSE UNCHANGED history
Goes ==
    /\ again' = IF pc = "settle" THEN again \cup (CompletedIDs \cap announced) ELSE again
    /\ finished' = IF pc = "set" /\ AtEnd THEN finished \cup {file} ELSE finished
    /\ UNCHANGED cut

Step ==
    /\ \/ Begin /\ Started
       \/ Import /\ Free(Wants, Other!Holds) /\ Waits /\ Goes
       \/ Abort /\ cut' = "now" /\ UNCHANGED <<finished, again>>
    /\ UNCHANGED other

\* The other import goes on.
Turn ==
    /\ other' = Running
    /\ pc' = other.pc /\ file' = other.file /\ pos' = other.pos
    /\ wd' = other.wd /\ counting' = other.counting /\ from' = other.from
    /\ adjs' = other.adjs /\ imports' = other.imports
    /\ missed' = other.missed /\ counted' = other.counted
    /\ UNCHANGED <<withdrawals, adjustments, ordervars, history>>

TwoNext == Step \/ Turn

TwoSpec == TwoInit /\ [][TwoNext]_twoVars

-----------------------------------------------------------------------------
(* Properties.                                                              *)

\* Two imports at a time, of one statement or of two that overlap, leave every
\* row the statements agree on settled as one import would, whatever earlier
\* imports that were cut off had left: the adjustment of a known order is
\* connected to its withdrawal and dated by it, the order is funded by it and, if
\* paid, not left open, and a row of an unknown order is listed as lost.  Of the
\* database only diff_amount suffers.
SettledTogether ==
    pc = "idle" /\ other.pc = "idle" /\ cut # "now" =>
        \A f \in finished : \A h \in DOMAIN f : Accepted(f, h) =>
            \A q \in Under(f, h) :
                f[q].order # NoOrder /\ Whole(f[h].at, f[q].order, f[q].type) =>
                    Settled(f[h].at, f[q].order, f[q].type)

\* The completion of an order is published before it is committed, so that one
\* that is committed has been published, even if an import dies in between;
\* and while no import has been cut off, two imports never both publish it.
PublishedOnce ==
    /\ \A o \in Ref : orders[o] = "completed" => o \in announced
    /\ cut = "never" => again = {}
=============================================================================
