------------------------------ MODULE TaskQueue ------------------------------
(***************************************************************************)
(* The import queue of the v1 withdrawal service.                           *)
(*                                                                          *)
(* SubmitWithdrawal (service.go) inserts a row into the task table and      *)
(* tries to start a runner.  A runner is a goroutine that holds the service *)
(* mutex, polls the table (taskSource.process in store.go) and pushes every *)
(* task through a chain of stages (runner.go); a failing stage hands the    *)
(* task to the error pipeline (error_pipeline.go), which marks the row      *)
(* asynchronously.  The mutex belongs to one process and the table to all   *)
(* of them, so the module is parameterised by the set of service instances. *)
(*                                                                          *)
(* Stage 1 is "Set Process", LastStage is "Set Finish"; the stages between  *)
(* them (initialise, check marketplace, check orders, iterate) touch no     *)
(* queue state: each of them passes its task on or fails it.  Stages are    *)
(* connected by unbuffered channels: a stage holds one task, and hands it   *)
(* over when the next stage is free.  A stage that returns an error drops   *)
(* its task (behaviour of the external yenstream Map).                      *)
(***************************************************************************)
EXTENDS Naturals, Sequences, FiniteSets

CONSTANTS Instances,   \* the running processes of the service
          NoInstance,  \* not an instance
          MaxTask,     \* bound: task rows ever submitted
          LastStage,   \* number of stages of the pipeline (6 in the code)
          ErrCap,      \* capacity of the error channel (100 in the code)
          MaxFault,    \* bound: database or storage calls that fail
          MaxCrash,    \* bound: crashes of an instance
          MaxStop,     \* bound: Stop calls
          MaxAge       \* bound: times the stamp of one row grows older than 6 h

ASSUME QueueAssumption ==
    /\ NoInstance \notin Instances
    /\ MaxTask \in Nat
    /\ LastStage \in Nat /\ LastStage >= 3
    /\ ErrCap \in Nat \ {0}
    /\ MaxFault \in Nat /\ MaxCrash \in Nat /\ MaxStop \in Nat /\ MaxAge \in Nat

\* Instances can be counted.
ASSUME InstancesAssumption == IsFiniteSet(Instances)

Task   == 1..MaxTask       \* task ids, in the order of insertion
NoTask == 0
Stage  == 1..LastStage

VARIABLES
    \* the task table, shared by all instances
    lastId,     \* last id the table has given out
    status,     \* status column of each row, "none" when there is no such row
    stale,      \* rows in PROCESS whose last_processed_at is older than 6 hours
    \* one service instance
    calling,    \* tasks whose SubmitWithdrawal has inserted and not yet called Run
    runner,     \* position of the goroutine that holds the service mutex
    ctx,        \* context behind w.cancelCtx, "nil" before the first Run
    source,     \* position of taskSource.process
    row,        \* the task taskSource.process has read from the table
    quiet,      \* the source's last query since its timer was set found nothing
    pipe,       \* what each stage holds
    errs,       \* error channel
    \* counters of the bounded events
    faults, crashes, stops,
    \* history
    imports,    \* how often the import of a task has completed
    agings,     \* how often a row has grown stale
    lostSaves,  \* how often the source's Save of a task has failed
    marked,     \* tasks whose row has been set to ERROR
    promised    \* instance whose runner a task's own Submit started, until
                \* that runner is interrupted

table   == <<lastId, status, stale>>
caller  == <<calling, runner, ctx>>
reader  == <<source, row, quiet>>
flow    == <<pipe, errs>>
events  == <<faults, crashes, stops>>
history == <<imports, agings, lostSaves, marked, promised>>
vars    == <<table, caller, reader, flow, events, history>>

-----------------------------------------------------------------------------
Statuses      == {"none", "WAITING", "PROCESS", "FINISH", "ERROR"}
RunnerStates  == {"idle", "locked", "starting", "running", "closing"}
SourceStates  == {"closed", "open", "holding", "saving"}
Slot          == [task : Task \cup {NoTask}, phase : {"before", "after"}]  \* the stage's function
Free          == [task |-> NoTask, phase |-> "before"]
Arrived(t)    == [task |-> t, phase |-> "before"]
Worked(t)     == [task |-> t, phase |-> "after"]

TableType ==
    /\ lastId \in 0..MaxTask
    /\ status \in [Task -> Statuses]
    /\ stale \subseteq Task
CallerType ==
    /\ calling \in [Instances -> SUBSET Task]
    /\ runner \in [Instances -> RunnerStates]
    /\ ctx \in [Instances -> {"nil", "live", "cancelled"}]
ReaderType ==
    /\ source \in [Instances -> SourceStates]
    /\ row \in [Instances -> Task \cup {NoTask}]
    /\ quiet \in [Instances -> BOOLEAN]
    /\ \A i \in Instances : source[i] \in {"holding", "saving"} => row[i] \in Task
PipeType == pipe \in [Instances -> [Stage -> Slot]]
ErrsType ==
    errs \in [Instances -> Seq(Task)] /\ \A i \in Instances : Len(errs[i]) <= ErrCap
EventsType == faults \in 0..MaxFault /\ crashes \in 0..MaxCrash /\ stops \in 0..MaxStop
HistoryType ==
    /\ imports \in [Task -> Nat]
    /\ agings \in [Task -> 0..MaxAge]
    /\ lostSaves \in [Task -> Nat]
    /\ marked \subseteq Task
    /\ promised \in [Task -> Instances \cup {NoInstance}]

\* Every variable has its type, and no error channel holds more than it can.
TypeOK ==
    /\ TableType /\ CallerType /\ ReaderType
    /\ PipeType /\ ErrsType /\ EventsType /\ HistoryType

Init ==
    /\ lastId = 0
    /\ status = [t \in Task |-> "none"]
    /\ stale = {}
    /\ calling = [i \in Instances |-> {}]
    /\ runner = [i \in Instances |-> "idle"]
    /\ ctx = [i \in Instances |-> "nil"]
    /\ source = [i \in Instances |-> "closed"]
    /\ row = [i \in Instances |-> NoTask]
    /\ quiet = [i \in Instances |-> FALSE]
    /\ pipe = [i \in Instances |-> [s \in Stage |-> Free]]
    /\ errs = [i \in Instances |-> <<>>]
    /\ faults = 0 /\ crashes = 0 /\ stops = 0
    /\ imports = [t \in Task |-> 0]
    /\ agings = [t \in Task |-> 0]
    /\ lostSaves = [t \in Task |-> 0]
    /\ marked = {}
    /\ promised = [t \in Task |-> NoInstance]

-----------------------------------------------------------------------------
(* The task store: what each call does to the table.                        *)

\* A call to the database or to the object store fails.
Fault == faults < MaxFault /\ faults' = faults + 1 /\ UNCHANGED <<crashes, stops>>

\* UPDATE ... WHERE id = t touches no row when the row is gone.
Updated(t, st) == IF status[t] = "none" THEN status ELSE [status EXCEPT ![t] = st]

SetProcess(t) == status' = Updated(t, "PROCESS") /\ stale' = stale \ {t}
SetFinish(t)  == status' = Updated(t, "FINISH") /\ UNCHANGED stale
SetErr(t)     == status' = Updated(t, "ERROR") /\ UNCHANGED stale

\* Mutant of EmptyTask: the failed rows are swept with the finished ones.
EmptyTaskErrorsToo ==
    /\ status' = [t \in Task |-> IF status[t] \in {"FINISH", "ERROR"} THEN "none"
                                                                    ELSE status[t]]
    /\ UNCHANGED <<lastId, stale>>

\* EmptyTask deletes the finished rows, whoever finished them.
EmptyTask ==
    /\ status' = [t \in Task |-> IF status[t] = "FINISH" THEN "none" ELSE status[t]]
    /\ UNCHANGED <<lastId, stale>>

\* The source's full-row Save: an upsert, it brings back a deleted row.
SaveRow(t) == status' = [status EXCEPT ![t] = "PROCESS"] /\ stale' = stale \ {t}

\* Mutants of Eligible: the age of a PROCESS row is not looked at; ERROR rows
\* are selected again.
EligibleAnyAge == {t \in Task : status[t] \in {"WAITING", "PROCESS"}}
EligibleErrors == {t \in Task : \/ status[t] \in {"WAITING", "ERROR"}
                                \/ status[t] = "PROCESS" /\ t \in stale}

\* The rows the source's query selects.
Eligible == {t \in Task : \/ status[t] = "WAITING"
                          \/ status[t] = "PROCESS" /\ t \in stale}

\* Nothing that was promised to the runner of i holds any longer.
Interrupted(i) == promised' = [t \in Task |-> IF promised[t] = i THEN NoInstance
                                                                 ELSE promised[t]]

-----------------------------------------------------------------------------
(* Requests.                                                                *)

\* SubmitWithdrawal, first half: TaskStore.Add inserts the row.
Add(i) ==
    /\ lastId < MaxTask
    /\ lastId' = lastId + 1
    /\ status' = [status EXCEPT ![lastId + 1] = "WAITING"]
    /\ calling' = [calling EXCEPT ![i] = @ \cup {lastId + 1}]
    /\ UNCHANGED <<stale, runner, ctx, reader, flow, events, history>>

\* SubmitWithdrawal, second half: Run, whose result is ignored.
SubmitRun(i, t) ==
    /\ t \in calling[i]
    /\ calling' = [calling EXCEPT ![i] = @ \ {t}]
    /\ \/ /\ runner[i] = "idle"
          /\ runner' = [runner EXCEPT ![i] = "locked"]
          /\ promised' = [promised EXCEPT ![t] = i]
       \/ /\ runner[i] # "idle"               \* "still_running"
          /\ UNCHANGED <<runner, promised>>
    /\ UNCHANGED <<table, ctx, reader, flow, events, imports, agings, lostSaves, marked>>

\* The Run request, when TryLock succeeds.
Run(i) ==
    /\ runner[i] = "idle"
    /\ runner' = [runner EXCEPT ![i] = "locked"]
    /\ UNCHANGED <<table, calling, ctx, reader, flow, events, history>>

\* Run, after TryLock: a new context, and the goroutine is started.
SetCtx(i) ==
    /\ runner[i] = "locked"
    /\ runner' = [runner EXCEPT ![i] = "starting"]
    /\ ctx' = [ctx EXCEPT ![i] = "live"]
    /\ UNCHANGED <<table, calling, reader, flow, events, history>>

\* The Stop request cancels the context it finds: between TryLock and SetCtx
\* that is still the one of the run before.  Before the first Run there is
\* none, and the handler's panic ends only that request.
Stop(i) ==
    /\ ctx[i] = "live" /\ stops < MaxStop
    /\ ctx' = [ctx EXCEPT ![i] = "cancelled"]
    /\ stops' = stops + 1
    /\ IF runner[i] = "locked" THEN UNCHANGED promised ELSE Interrupted(i)
    /\ UNCHANGED <<table, calling, runner, reader, flow, faults, crashes,
                   imports, agings, lostSaves, marked>>

-----------------------------------------------------------------------------
(* The runner's goroutine.                                                  *)

\* The storage client is made and the source registered; its timer is set.
Start(i) ==
    /\ runner[i] = "starting"
    /\ runner' = [runner EXCEPT ![i] = "running"]
    /\ source' = [source EXCEPT ![i] = "open"]
    /\ quiet' = [quiet EXCEPT ![i] = FALSE]
    /\ UNCHANGED <<table, calling, ctx, row, flow, events, history>>

\* storage.NewClient fails: the goroutine ends before it has read anything.
StartFails(i) ==
    /\ runner[i] = "starting"
    /\ Fault
    /\ runner' = [runner EXCEPT ![i] = "closing"]
    /\ Interrupted(i)
    /\ UNCHANGED <<table, calling, ctx, reader, flow, imports, agings, lostSaves, marked>>

\* Mutant of Drained: the pipeline returns as soon as the stages are empty.
DrainedStages(i) == \A s \in Stage : pipe[i][s].task = NoTask

\* CreatePipeline returns when the source is closed and all stages are empty.
Drained(i) == source[i] = "closed" /\ \A s \in Stage : pipe[i][s].task = NoTask

Sweep(i) ==
    /\ runner[i] = "running"
    /\ Drained(i)
    /\ EmptyTask
    /\ runner' = [runner EXCEPT ![i] = "closing"]
    /\ UNCHANGED <<calling, ctx, reader, flow, events, history>>

Unlock(i) ==
    /\ runner[i] = "closing"
    /\ runner' = [runner EXCEPT ![i] = "idle"]
    /\ UNCHANGED <<table, calling, ctx, reader, flow, events, history>>

\* A process dies: all it has in memory is lost, the table stays.
Die(i) ==
    /\ calling' = [calling EXCEPT ![i] = {}]
    /\ runner' = [runner EXCEPT ![i] = "idle"]
    /\ ctx' = [ctx EXCEPT ![i] = "nil"]
    /\ source' = [source EXCEPT ![i] = "closed"]
    /\ row' = [row EXCEPT ![i] = NoTask]
    /\ quiet' = [quiet EXCEPT ![i] = FALSE]
    /\ pipe' = [pipe EXCEPT ![i] = [s \in Stage |-> Free]]
    /\ errs' = [errs EXCEPT ![i] = <<>>]
    /\ Interrupted(i)
    /\ UNCHANGED <<table, imports, agings, lostSaves, marked>>

Crash(i) ==
    /\ crashes < MaxCrash
    /\ crashes' = crashes + 1
    /\ UNCHANGED <<faults, stops>>
    /\ Die(i)

\* EmptyTask fails: Run panics in its goroutine, which ends the process.
SweepPanics(i) ==
    /\ runner[i] = "running"
    /\ Drained(i)
    /\ Fault
    /\ Die(i)

-----------------------------------------------------------------------------
(* The source: taskSource.process.                                          *)

CloseSource(i) == source' = [source EXCEPT ![i] = "closed"]

\* One turn of the loop: with the context live, the table is queried.
Poll(i) ==
    /\ source[i] = "open" /\ ctx[i] = "live"
    /\ \/ /\ \E t \in Eligible : /\ \A u \in Eligible : t <= u
                                 /\ row' = [row EXCEPT ![i] = t]
          /\ source' = [source EXCEPT ![i] = "holding"]
          /\ UNCHANGED quiet
       \/ /\ Eligible = {}
          /\ quiet' = [quiet EXCEPT ![i] = TRUE]
          /\ UNCHANGED <<row, source>>
    /\ UNCHANGED <<table, caller, flow, events, history>>

\* The query fails: the source logs and closes.
PollFails(i) ==
    /\ source[i] = "open" /\ ctx[i] = "live"
    /\ Fault
    /\ CloseSource(i)
    /\ Interrupted(i)
    /\ UNCHANGED <<table, caller, row, quiet, flow, imports, agings, lostSaves, marked>>

\* Mutants of Timeout: the timer also fires after a query that found a task;
\* the break leaves the select and not the loop.
TimeoutAnyTime(i) ==
    /\ source[i] = "open"
    /\ CloseSource(i)
    /\ UNCHANGED <<table, caller, row, quiet, flow, events, history>>
TimeoutBreaks(i) ==
    /\ source[i] = "open" /\ quiet[i]
    /\ quiet' = [quiet EXCEPT ![i] = FALSE]
    /\ UNCHANGED <<table, caller, source, row, flow, events, history>>

\* A minute has passed since the timer was set, in which the queries found
\* nothing: without an empty query the loop sets the timer again.
Timeout(i) ==
    /\ source[i] = "open" /\ quiet[i]
    /\ CloseSource(i)
    /\ UNCHANGED <<table, caller, row, quiet, flow, events, history>>

SeeCancel(i) ==
    /\ source[i] = "open" /\ ctx[i] = "cancelled"
    /\ CloseSource(i)
    /\ UNCHANGED <<table, caller, row, quiet, flow, events, history>>

\* out <- &task: the source waits here until the first stage is free.
Send(i) ==
    /\ source[i] = "holding"
    /\ pipe[i][1].task = NoTask
    /\ pipe' = [pipe EXCEPT ![i][1] = Arrived(row[i])]
    /\ source' = [source EXCEPT ![i] = "saving"]
    /\ UNCHANGED <<table, caller, row, quiet, errs, events, history>>

\* Only now the source writes the row back as PROCESS, and sets its timer.
Resume(i) ==
    /\ source' = [source EXCEPT ![i] = "open"]
    /\ row' = [row EXCEPT ![i] = NoTask]
    /\ quiet' = [quiet EXCEPT ![i] = FALSE]

Save(i) ==
    /\ source[i] = "saving"
    /\ SaveRow(row[i])
    /\ Resume(i)
    /\ UNCHANGED <<lastId, caller, flow, events, history>>

\* The Save fails: the error is logged and the loop goes on.
SaveFails(i) ==
    /\ source[i] = "saving"
    /\ Fault
    /\ lostSaves' = [lostSaves EXCEPT ![row[i]] = @ + 1]
    /\ Resume(i)
    /\ UNCHANGED <<table, caller, flow, imports, agings, marked, promised>>

-----------------------------------------------------------------------------
(* The stages.                                                              *)

\* A stage has a task whose function has not run yet.
Working(i, s) == pipe[i][s].task # NoTask /\ pipe[i][s].phase = "before"
Finished(i, s) == pipe' = [pipe EXCEPT ![i][s] = Worked(pipe[i][s].task)] /\ UNCHANGED errs
Dropped(i, s)  == pipe' = [pipe EXCEPT ![i][s] = Free]

\* Mutants of Emit: the error channel has no capacity; an error that finds it
\* full is thrown away.
EmitUnbounded(i, s) ==
    /\ errs' = [errs EXCEPT ![i] = Append(@, pipe[i][s].task)]
    /\ Dropped(i, s)
EmitOrDrop(i, s) ==
    /\ errs' = IF Len(errs[i]) < ErrCap
               THEN [errs EXCEPT ![i] = Append(@, pipe[i][s].task)] ELSE errs
    /\ Dropped(i, s)

\* errEmitter puts the task in the error channel, waiting while it is full;
\* the stage then drops the task.
Emit(i, s) ==
    /\ Len(errs[i]) < ErrCap
    /\ errs' = [errs EXCEPT ![i] = Append(@, pipe[i][s].task)]
    /\ Dropped(i, s)

StageSetProcess(i) ==
    /\ Working(i, 1)
    /\ SetProcess(pipe[i][1].task)
    /\ Finished(i, 1)
    /\ UNCHANGED <<lastId, caller, reader, events, history>>

\* A stage between the first and the last does its work; the last of them
\* (iterateWithdrawal) ends the import.
StageWork(i, s) ==
    /\ s \in 2..(LastStage - 1)
    /\ Working(i, s)
    /\ Finished(i, s)
    /\ imports' = IF s = LastStage - 1
                  THEN [imports EXCEPT ![pipe[i][s].task] = @ + 1] ELSE imports
    /\ UNCHANGED <<table, caller, reader, events, agings, lostSaves, marked, promised>>

\* Anything wrong with the file, the shop or the orders fails the task.
StageFails(i, s) ==
    /\ s \in 2..(LastStage - 1)
    /\ Working(i, s)
    /\ Emit(i, s)
    /\ UNCHANGED <<table, caller, reader, events, history>>

StageSetFinish(i) ==
    /\ Working(i, LastStage)
    /\ SetFinish(pipe[i][LastStage].task)
    /\ Dropped(i, LastStage)
    /\ UNCHANGED <<lastId, errs, caller, reader, events, history>>

\* SetProcess or SetFinish fails: so does the task, imported or not.
StoreFails(i, s) ==
    /\ s \in {1, LastStage}
    /\ Working(i, s)
    /\ Fault
    /\ Emit(i, s)
    /\ UNCHANGED <<table, caller, reader, history>>

\* A finished stage hands its task over.
Pass(i, s) ==
    /\ s \in 1..(LastStage - 1)
    /\ pipe[i][s].phase = "after" /\ pipe[i][s + 1].task = NoTask
    /\ pipe' = [pipe EXCEPT ![i][s] = Free, ![i][s + 1] = Arrived(pipe[i][s].task)]
    /\ UNCHANGED <<table, caller, reader, errs, events, history>>

\* The error pipeline, a goroutine of its own, marks the next failed task.
MarkError(i) ==
    /\ errs[i] # <<>>
    /\ SetErr(Head(errs[i]))
    /\ marked' = IF status[Head(errs[i])] = "none" THEN marked
                                                   ELSE marked \cup {Head(errs[i])}
    /\ errs' = [errs EXCEPT ![i] = Tail(@)]
    /\ UNCHANGED <<lastId, caller, reader, pipe, events, imports, agings, lostSaves, promised>>

\* SetErr fails: the mark is lost.
MarkLost(i) ==
    /\ errs[i] # <<>>
    /\ Fault
    /\ errs' = [errs EXCEPT ![i] = Tail(@)]
    /\ UNCHANGED <<table, caller, reader, pipe, history>>

\* Six hours go by since a row in PROCESS was stamped.
Age(t) ==
    /\ status[t] = "PROCESS" /\ t \notin stale /\ agings[t] < MaxAge
    /\ stale' = stale \cup {t}
    /\ agings' = [agings EXCEPT ![t] = @ + 1]
    /\ UNCHANGED <<lastId, status, caller, reader, flow, events,
                   imports, lostSaves, marked, promised>>

-----------------------------------------------------------------------------
Goroutine(i) == SetCtx(i) \/ Start(i) \/ Sweep(i) \/ Unlock(i)
SourceStep(i) == Poll(i) \/ SeeCancel(i) \/ Send(i) \/ Save(i)
StageStep(i, s) ==
    \/ s = 1 /\ StageSetProcess(i)
    \/ StageWork(i, s) \/ StageFails(i, s)
    \/ s = LastStage /\ StageSetFinish(i)
    \/ Pass(i, s)
FaultStep(i) ==
    \/ StartFails(i) \/ PollFails(i) \/ SaveFails(i) \/ MarkLost(i)
    \/ SweepPanics(i) \/ \E s \in Stage : StoreFails(i, s)

Next ==
    \/ \E i \in Instances :
        \/ Add(i) \/ Run(i) \/ Stop(i) \/ Crash(i)
        \/ \E t \in Task : SubmitRun(i, t)
        \/ Goroutine(i)
        \/ SourceStep(i) \/ Timeout(i)
        \/ \E s \in Stage : StageStep(i, s)
        \/ MarkError(i)
        \/ FaultStep(i)
    \/ \E t \in Task : Age(t)

Spec == Init /\ [][Next]_vars

\* Every goroutine of a live process keeps running, a request handler ends,
\* and a timer that is set fires.  Nothing makes a client call.
Fairness ==
    \A i \in Instances :
        /\ WF_vars(Goroutine(i))
        /\ WF_vars(SourceStep(i)) /\ WF_vars(Timeout(i))
        /\ \A s \in Stage : WF_vars(StageStep(i, s))
        /\ WF_vars(MarkError(i))
        /\ \A t \in Task : WF_vars(SubmitRun(i, t))

FairSpec == Spec /\ Fairness

\* Moreover somebody calls Run again whenever no runner is active.
RetrySpec == FairSpec /\ \A i \in Instances : WF_vars(Run(i))

-----------------------------------------------------------------------------
(* Properties.                                                              *)

\* The import of the task in this slot is complete.
Imported(i, s) == s = LastStage \/ (s = LastStage - 1 /\ pipe[i][s].phase = "after")

\* The places where task t is on its way to an import.
Pending(t) ==
    Cardinality({p \in Instances \X Stage :
                    pipe[p[1]][p[2]].task = t /\ ~Imported(p[1], p[2])})
  + Cardinality({i \in Instances : source[i] = "holding" /\ row[i] = t})

\* A submitted task leaves the table only after its import has completed:
\* EmptyTask (store.go) deletes by status alone, whatever instance wrote it,
\* and the row may have been saved, marked or finished in any order before.
NoTaskLost == \A t \in Task : t <= lastId /\ status[t] = "none" => imports[t] > 0

\* A task is imported at most once per instance, and again only for every time
\* its row grew stale or the source's Save failed.  The claim of a task in
\* taskSource.process (query, send, save) is not atomic, so this rests on the
\* order of those steps and of SetProcess in the first stage.
AttemptsBounded ==
    \A t \in Task : imports[t] + Pending(t)
                        <= Cardinality(Instances) * (1 + agings[t] + lostSaves[t])

\* If the Run of a task's own Submit started a runner and nothing interrupted
\* that runner, the task has been taken, or the runner will query the table
\* before its timer can close the source.
PromiseKept ==
    \A t \in Task, i \in Instances :
        promised[t] = i /\ status[t] = "WAITING" =>
            \/ runner[i] \in {"locked", "starting"}
            \/ source[i] # "closed" /\ ~quiet[i]

\* The queue as its clients see it.
Promise == INSTANCE Jobs WITH
    Job       <- Task,
    submitted <- 1..lastId,
    listed    <- {t \in Task : status[t] # "none"},
    imported  <- {t \in Task : imports[t] > 0},
    reported  <- marked

\* Seen through its rows and imports, the queue is the abstract one: nothing is
\* listed that was not submitted, what is worked on for the first time is
\* listed, and the sweep (EmptyTask deletes by status alone) forgets imported
\* tasks only, while every other write of a row keeps it or brings it back.
ImplementsJobs == Promise!Spec

\* With one instance, a row that reads FINISH or ERROR is set back to PROCESS
\* only by the source's own Save, which comes after the Send, or by a stage
\* that works on the task a second time.
ReopenedBySource ==
    [][\A t \in Task, i \in Instances :
          status[t] \in {"FINISH", "ERROR"} /\ status'[t] = "PROCESS" =>
              \/ source[i] = "saving" /\ row[i] = t
              \/ agings[t] + lostSaves[t] > 0]_vars

\* With one instance, a row that EmptyTask deleted never comes back: the sweep
\* waits until the source, whose Save could restore the row, has closed.
StaysDeleted ==
    [][\A t \in Task : t <= lastId /\ status[t] = "none" => status'[t] = "none"]_vars

\* A runner gives the service mutex back, however its run went: no stage waits
\* for ever on the next one or on the error channel, and the source closes.
LockReleased == \A i \in Instances : runner[i] # "idle" ~> runner[i] = "idle"

\* While no call fails, no process dies and Run is called again and again, every
\* submitted task is imported or its error recorded, however often runners are
\* stopped: none is dropped by a stage, by the full error channel or between
\* the source's query and its Send.
JobsServed == (\A i \in Instances : WF_vars(Run(i))) => Promise!Served

\* With Run called again and again, a waiting task is taken in the end, across
\* failing calls, crashes and stops.
WaitingIsTaken == \A t \in Task : status[t] = "WAITING" ~> status[t] # "WAITING"

\* A task whose error was recorded reads ERROR.
MarkedReadsError == \A t \in marked : status[t] = "ERROR"
=============================================================================
