-------------------------------- MODULE Jobs --------------------------------
(***************************************************************************)
(* What the import queue promises its clients, without runners, rows that   *)
(* are saved late, channels or instances: a client submits a job, the job   *)
(* stays on the list until it has been imported, at least once, and a job   *)
(* that cannot be imported is reported and stays on the list.  A job that   *)
(* was imported may come back on the list and be imported again, and even   *)
(* reported: the queue promises at least once, not exactly once.            *)
(***************************************************************************)
CONSTANT Job

VARIABLES submitted,  \* jobs a client has submitted
          listed,     \* jobs the table shows
          imported,   \* jobs whose import has completed at least once
          reported    \* jobs whose failure has been recorded at least once

jobs == <<submitted, listed, imported, reported>>

Init == submitted = {} /\ listed = {} /\ imported = {} /\ reported = {}

Submit(j) ==
    /\ j \notin submitted
    /\ submitted' = submitted \cup {j}
    /\ listed' = listed \cup {j}
    /\ UNCHANGED <<imported, reported>>

\* Only what is listed is worked on for the first time.
Import(j) ==
    /\ j \in listed
    /\ imported' = imported \cup {j}
    /\ UNCHANGED <<submitted, listed, reported>>

Report(j) ==
    /\ j \in listed
    /\ reported' = reported \cup {j}
    /\ UNCHANGED <<submitted, listed, imported>>

\* The list forgets imported jobs only, any number of them at a time.
Forget(gone) ==
    /\ gone # {} /\ gone \subseteq listed \cap imported
    /\ listed' = listed \ gone
    /\ UNCHANGED <<submitted, imported, reported>>

\* A forgotten job comes back.
Relist(j) ==
    /\ j \in submitted \ listed
    /\ listed' = listed \cup {j}
    /\ UNCHANGED <<submitted, imported, reported>>

Next ==
    \/ \E j \in Job : Submit(j) \/ Import(j) \/ Report(j) \/ Relist(j)
    \/ \E gone \in SUBSET Job : Forget(gone)

Spec == Init /\ [][Next]_jobs

\* A submitted job is settled in the end.
Served == \A j \in Job : j \in submitted ~> j \in imported \cup reported
=============================================================================
