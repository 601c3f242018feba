--------------------------- MODULE TaskQueueProofs ---------------------------
(* What holds of TaskQueue for every number of instances, tasks, stages and  *)
(* failures: its types, that it implements the abstract queue of module Jobs, *)
(* and what its runners do.                                                  *)
EXTENDS TaskQueue, Sums, SequenceTheorems, TLAPS

USE DEF Task, Stage, NoTask, Statuses, RunnerStates, SourceStates

-----------------------------------------------------------------------------
(* What the stages hold.                                                    *)

\* The type of the pipeline of one instance and of one slot of it.
LEMMA SlotType ==
  ASSUME PipeType, NEW i \in Instances, NEW s \in Stage
  PROVE  /\ pipe[i] \in [Stage -> Slot]
         /\ pipe[i][s] \in Slot
         /\ pipe[i][s].task \in Task \cup {NoTask}
         /\ pipe[i][s].phase \in {"before", "after"}
  BY DEF PipeType, Slot

\* Replacing what one stage holds keeps the type.
LEMMA SlotUpdate ==
  ASSUME PipeType, NEW i \in Instances, NEW s \in Stage, NEW x \in Slot
  PROVE  [pipe EXCEPT ![i] = [pipe[i] EXCEPT ![s] = x]] \in [Instances -> [Stage -> Slot]]
  BY SlotType DEF PipeType

\* A free slot, and one that a task has come to or been worked on in, are slots.
LEMMA FreeType ==
  Free \in Slot /\ \A t \in Task \cup {NoTask} : Arrived(t) \in Slot /\ Worked(t) \in Slot
  BY DEF Free, Arrived, Worked, Slot

\* A stage that drops its task keeps the type (runner.go: a Map whose function fails).
LEMMA DroppedType ==
  ASSUME PipeType, NEW i \in Instances, NEW s \in Stage, Dropped(i, s)
  PROVE  PipeType'
  BY SlotUpdate, FreeType DEF Dropped, PipeType

\* A stage whose function has returned keeps the type.
LEMMA FinishedType ==
  ASSUME PipeType, NEW i \in Instances, NEW s \in Stage, Finished(i, s)
  PROVE  PipeType'
  BY SlotType, SlotUpdate, FreeType DEF Finished, PipeType

\* Handing a task to the first stage keeps the type (store.go, out <- task).
LEMMA SendType ==
  ASSUME PipeType, NEW i \in Instances, row[i] \in Task \cup {NoTask}, Send(i),
         1 \in Stage
  PROVE  PipeType'
  BY SlotUpdate, FreeType DEF Send, PipeType

\* Handing a task to the next stage keeps the type: two slots change at once.
LEMMA PassType ==
  ASSUME PipeType, NEW i \in Instances, NEW s \in Stage, s + 1 \in Stage, Pass(i, s)
  PROVE  PipeType'
<1> DEFINE moved == [pipe[i] EXCEPT ![s] = Free, ![s + 1] = Arrived(pipe[i][s].task)]
<1>1. moved \in [Stage -> Slot]
  BY SlotType, FreeType
<1>2. pipe' = [pipe EXCEPT ![i] = moved]
  BY DEF Pass
<1> QED
  BY <1>1, <1>2 DEF PipeType

\* A dying instance leaves an empty pipeline.
LEMMA DieType ==
  ASSUME PipeType, NEW i \in Instances, Die(i)
  PROVE  PipeType'
  BY FreeType DEF Die, PipeType

-----------------------------------------------------------------------------
(* What the error channel holds.                                            *)

\* Emit appends within the capacity of the channel.
LEMMA EmitType ==
  ASSUME ErrsType, NEW i \in Instances, NEW s \in Stage,
         pipe[i][s].task \in Task, Emit(i, s)
  PROVE  ErrsType'
<1>1. errs' = [errs EXCEPT ![i] = Append(errs[i], pipe[i][s].task)]
  BY DEF Emit
<1>2. /\ Append(errs[i], pipe[i][s].task) \in Seq(Task)
      /\ Len(Append(errs[i], pipe[i][s].task)) = Len(errs[i]) + 1
  BY AppendProperties DEF ErrsType
<1>3. Len(errs[i]) + 1 <= ErrCap
  BY QueueAssumption, LenProperties DEF Emit, ErrsType
<1> QED
  BY <1>1, <1>2, <1>3 DEF ErrsType

\* So does the error pipeline, which takes the head.
LEMMA TakeType ==
  ASSUME ErrsType, NEW i \in Instances, errs[i] # <<>>,
         errs' = [errs EXCEPT ![i] = Tail(@)]
  PROVE  ErrsType' /\ Head(errs[i]) \in Task
<1>1. /\ Head(errs[i]) \in Task
      /\ Tail(errs[i]) \in Seq(Task)
      /\ Len(Tail(errs[i])) = Len(errs[i]) - 1
      /\ Len(errs[i]) \in Nat
  BY HeadTailProperties, LenProperties DEF ErrsType
<1>2. Len(errs[i]) - 1 <= ErrCap
  BY <1>1, QueueAssumption DEF ErrsType
<1> QED
  BY <1>1, <1>2 DEF ErrsType

\* It leaves an empty error channel and no error being recorded.
LEMMA DieErrsType ==
  ASSUME ErrsType, NEW i \in Instances, Die(i)
  PROVE  ErrsType'
  BY QueueAssumption, EmptySeq DEF Die, ErrsType
-----------------------------------------------------------------------------
(* Type correctness.                                                        *)

\* Counting one more event of a task keeps the type of the counter.
LEMMA CountType ==
  ASSUME NEW f \in [Task -> Nat], NEW t \in Task
  PROVE  [f EXCEPT ![t] = f[t] + 1] \in [Task -> Nat]
  OBVIOUS

\* Taking back what was promised keeps the type of the promises.
LEMMA InterruptType ==
  ASSUME HistoryType, NEW i \in Instances, Interrupted(i)
  PROVE  promised' \in [Task -> Instances \cup {NoInstance}]
  BY DEF HistoryType, Interrupted

\* Every step keeps TypeOK: the pipeline and the error channel by the lemmas
\* above, the rest by the assignments of the action.
THEOREM TypeStep == TypeOK /\ [Next]_vars => TypeOK'
<1> SUFFICES ASSUME TypeOK, [Next]_vars PROVE TypeOK'
  OBVIOUS
<1> USE QueueAssumption DEF TypeOK, table, caller, reader, flow, events, history
<1>0. ASSUME UNCHANGED vars PROVE TypeOK'
  BY <1>0 DEF vars, TableType, CallerType, ReaderType, PipeType, ErrsType, EventsType, HistoryType
<1>1. ASSUME NEW i \in Instances, Add(i) PROVE TypeOK'
  <2>1. lastId + 1 \in Task
    BY <1>1, SMT DEF Add, TableType
  <2>2. TableType'
    BY <1>1, <2>1 DEF Add, TableType
  <2>3. CallerType'
    BY <1>1, <2>1 DEF Add, CallerType
  <2>4. ReaderType'
    BY <1>1, <2>1 DEF Add, ReaderType
  <2>5. PipeType'
    BY <1>1, <2>1 DEF Add, PipeType
  <2>6. ErrsType'
    BY <1>1, <2>1 DEF Add, ErrsType
  <2>7. EventsType'
    BY <1>1, <2>1 DEF Add, EventsType
  <2>8. HistoryType'
    BY <1>1, <2>1 DEF Add, HistoryType
  <2> QED
    BY <2>1, <2>2, <2>3, <2>4, <2>5, <2>6, <2>7, <2>8
<1>2. ASSUME NEW i \in Instances, NEW t \in Task, SubmitRun(i, t) PROVE TypeOK'
  BY <1>2 DEF SubmitRun, TableType, CallerType, ReaderType, PipeType, ErrsType, EventsType,
     HistoryType
<1>3. ASSUME NEW i \in Instances, Run(i) PROVE TypeOK'
  BY <1>3 DEF Run, TableType, CallerType, ReaderType, PipeType, ErrsType, EventsType,
     HistoryType
<1>4. ASSUME NEW i \in Instances, SetCtx(i) PROVE TypeOK'
  BY <1>4 DEF SetCtx, TableType, CallerType, ReaderType, PipeType, ErrsType, EventsType,
     HistoryType
<1>5. ASSUME NEW i \in Instances, Stop(i) PROVE TypeOK'
  <2>1. TableType'
    BY <1>5 DEF Stop, TableType
  <2>2. CallerType'
    BY <1>5 DEF Stop, CallerType
  <2>3. ReaderType'
    BY <1>5 DEF Stop, ReaderType
  <2>4. PipeType'
    BY <1>5 DEF Stop, PipeType
  <2>5. ErrsType'
    BY <1>5 DEF Stop, ErrsType
  <2>6. EventsType'
    BY <1>5 DEF Stop, EventsType
  <2>7. HistoryType'
    BY <1>5, InterruptType DEF Stop, HistoryType
  <2> QED
    BY <2>1, <2>2, <2>3, <2>4, <2>5, <2>6, <2>7
<1>6. ASSUME NEW i \in Instances, Start(i) PROVE TypeOK'
  BY <1>6 DEF Start, TableType, CallerType, ReaderType, PipeType, ErrsType, EventsType,
     HistoryType
<1>7. ASSUME NEW i \in Instances, StartFails(i) PROVE TypeOK'
  <2>1. TableType'
    BY <1>7 DEF StartFails, Fault, TableType
  <2>2. CallerType'
    BY <1>7 DEF StartFails, Fault, CallerType
  <2>3. ReaderType'
    BY <1>7 DEF StartFails, Fault, ReaderType
  <2>4. PipeType'
    BY <1>7 DEF StartFails, Fault, PipeType
  <2>5. ErrsType'
    BY <1>7 DEF StartFails, Fault, ErrsType
  <2>6. EventsType'
    BY <1>7 DEF StartFails, Fault, EventsType
  <2>7. HistoryType'
    BY <1>7, InterruptType DEF StartFails, Fault, HistoryType
  <2> QED
    BY <2>1, <2>2, <2>3, <2>4, <2>5, <2>6, <2>7
<1>8. ASSUME NEW i \in Instances, Sweep(i) PROVE TypeOK'
  BY <1>8 DEF Sweep, EmptyTask, TableType, CallerType, ReaderType, PipeType, ErrsType, EventsType,
     HistoryType
<1>9. ASSUME NEW i \in Instances, Unlock(i) PROVE TypeOK'
  BY <1>9 DEF Unlock, TableType, CallerType, ReaderType, PipeType, ErrsType, EventsType,
     HistoryType
<1>10. ASSUME NEW i \in Instances, Crash(i) PROVE TypeOK'
  <2>1. PipeType'
    BY <1>10, DieType DEF Crash
  <2>2. ErrsType'
    BY <1>10, DieErrsType DEF Crash
  <2>3. TableType' /\ CallerType' /\ ReaderType' /\ EventsType' /\ HistoryType'
    BY <1>10 DEF Crash, Die, Interrupted, TableType, CallerType, ReaderType, EventsType, HistoryType
  <2> QED
    BY <2>1, <2>2, <2>3
<1>11. ASSUME NEW i \in Instances, SweepPanics(i) PROVE TypeOK'
  <2>1. PipeType'
    BY <1>11, DieType DEF SweepPanics
  <2>2. ErrsType'
    BY <1>11, DieErrsType DEF SweepPanics
  <2>3. TableType' /\ CallerType' /\ ReaderType' /\ EventsType' /\ HistoryType'
    BY <1>11 DEF SweepPanics, Fault, Die, Interrupted, TableType, CallerType, ReaderType, EventsType, HistoryType
  <2> QED
    BY <2>1, <2>2, <2>3
<1>12. ASSUME NEW i \in Instances, Poll(i) PROVE TypeOK'
  <2>1. TableType'
    BY <1>12 DEF Poll, Eligible, TableType
  <2>2. CallerType'
    BY <1>12 DEF Poll, Eligible, CallerType
  <2>3. ReaderType'
    BY <1>12 DEF Poll, Eligible, ReaderType
  <2>4. PipeType'
    BY <1>12 DEF Poll, Eligible, PipeType
  <2>5. ErrsType'
    BY <1>12 DEF Poll, Eligible, ErrsType
  <2>6. EventsType'
    BY <1>12 DEF Poll, Eligible, EventsType
  <2>7. HistoryType'
    BY <1>12 DEF Poll, Eligible, HistoryType
  <2> QED
    BY <2>1, <2>2, <2>3, <2>4, <2>5, <2>6, <2>7
<1>13. ASSUME NEW i \in Instances, PollFails(i) PROVE TypeOK'
  <2>1. TableType'
    BY <1>13 DEF PollFails, Fault, CloseSource, TableType
  <2>2. CallerType'
    BY <1>13 DEF PollFails, Fault, CloseSource, CallerType
  <2>3. ReaderType'
    BY <1>13 DEF PollFails, Fault, CloseSource, ReaderType
  <2>4. PipeType'
    BY <1>13 DEF PollFails, Fault, CloseSource, PipeType
  <2>5. ErrsType'
    BY <1>13 DEF PollFails, Fault, CloseSource, ErrsType
  <2>6. EventsType'
    BY <1>13 DEF PollFails, Fault, CloseSource, EventsType
  <2>7. HistoryType'
    BY <1>13, InterruptType DEF PollFails, Fault, CloseSource, HistoryType
  <2> QED
    BY <2>1, <2>2, <2>3, <2>4, <2>5, <2>6, <2>7
<1>14. ASSUME NEW i \in Instances, Timeout(i) PROVE TypeOK'
  BY <1>14 DEF Timeout, CloseSource, TableType, CallerType, ReaderType, PipeType, ErrsType, EventsType,
     HistoryType
<1>15. ASSUME NEW i \in Instances, SeeCancel(i) PROVE TypeOK'
  BY <1>15 DEF SeeCancel, CloseSource, TableType, CallerType, ReaderType, PipeType, ErrsType, EventsType,
     HistoryType
<1>16. ASSUME NEW i \in Instances, Send(i) PROVE TypeOK'
  <2>1. PipeType'
    BY <1>16, SendType DEF ReaderType
  <2>2. ErrsType'
    BY <1>16, SMT DEF Send, ErrsType
  <2>3. TableType' /\ CallerType' /\ ReaderType' /\ EventsType' /\ HistoryType'
    BY <1>16 DEF Send, TableType, CallerType, ReaderType, EventsType, HistoryType
  <2> QED
    BY <2>1, <2>2, <2>3
<1>17. ASSUME NEW i \in Instances, Save(i) PROVE TypeOK'
  BY <1>17 DEF Save, SaveRow, Resume, TableType, CallerType, ReaderType, PipeType, ErrsType, EventsType,
     HistoryType
<1>18. ASSUME NEW i \in Instances, SaveFails(i) PROVE TypeOK'
  <2>1. row[i] \in Task
    BY <1>18, SMT DEF SaveFails, ReaderType
  <2>2. PipeType'
    BY <1>18, SMT DEF SaveFails, PipeType
  <2>3. ErrsType'
    BY <1>18, SMT DEF SaveFails, ErrsType
  <2>4. TableType'
    BY <1>18, <2>1 DEF SaveFails, Fault, Resume, TableType
  <2>5. CallerType'
    BY <1>18, <2>1 DEF SaveFails, Fault, Resume, CallerType
  <2>6. ReaderType'
    BY <1>18, <2>1 DEF SaveFails, Fault, Resume, ReaderType
  <2>7. EventsType'
    BY <1>18, <2>1 DEF SaveFails, Fault, Resume, EventsType
  <2>8. HistoryType'
    BY <1>18, <2>1, CountType DEF SaveFails, Fault, Resume, HistoryType
  <2> QED
    BY <2>1, <2>2, <2>3, <2>4, <2>5, <2>6, <2>7, <2>8
<1>19. ASSUME NEW i \in Instances, StageSetProcess(i) PROVE TypeOK'
  <2>1. PipeType'
    BY <1>19, FinishedType DEF StageSetProcess
  <2>2. ErrsType'
    BY <1>19, SMT DEF StageSetProcess, Finished, ErrsType
  <2>3. TableType' /\ CallerType' /\ ReaderType' /\ EventsType' /\ HistoryType'
    BY <1>19 DEF StageSetProcess, Working, SetProcess, Updated, Finished, TableType, CallerType, ReaderType, EventsType, HistoryType
  <2> QED
    BY <2>1, <2>2, <2>3
<1>20. ASSUME NEW i \in Instances, NEW s \in Stage, StageWork(i, s) PROVE TypeOK'
  <2>1. pipe[i][s].task \in Task
    BY <1>20, SlotType DEF StageWork, Working
  <2>2. PipeType'
    BY <1>20, FinishedType DEF StageWork
  <2>3. ErrsType'
    BY <1>20, SMT DEF StageWork, Finished, ErrsType
  <2>4. TableType'
    BY <1>20, <2>1 DEF StageWork, Working, Finished, TableType
  <2>5. CallerType'
    BY <1>20, <2>1 DEF StageWork, Working, Finished, CallerType
  <2>6. ReaderType'
    BY <1>20, <2>1 DEF StageWork, Working, Finished, ReaderType
  <2>7. EventsType'
    BY <1>20, <2>1 DEF StageWork, Working, Finished, EventsType
  <2>8. HistoryType'
    BY <1>20, <2>1, CountType DEF StageWork, Working, Finished, HistoryType
  <2> QED
    BY <2>1, <2>2, <2>3, <2>4, <2>5, <2>6, <2>7, <2>8
<1>21. ASSUME NEW i \in Instances, NEW s \in Stage, StageFails(i, s) PROVE TypeOK'
  <2>1. pipe[i][s].task \in Task
    BY <1>21, SlotType DEF StageFails, Working
  <2>2. PipeType'
    BY <1>21, DroppedType DEF StageFails, Emit
  <2>3. ErrsType'
    BY <1>21, <2>1, EmitType DEF StageFails
  <2>4. TableType' /\ CallerType' /\ ReaderType' /\ EventsType' /\ HistoryType'
    BY <1>21, <2>1 DEF StageFails, Working, TableType, CallerType, ReaderType, EventsType, HistoryType
  <2> QED
    BY <2>1, <2>2, <2>3, <2>4
<1>22. ASSUME NEW i \in Instances, StageSetFinish(i) PROVE TypeOK'
  <2>1. PipeType'
    BY <1>22, DroppedType DEF StageSetFinish
  <2>2. ErrsType'
    BY <1>22, SMT DEF StageSetFinish, ErrsType
  <2>3. TableType' /\ CallerType' /\ ReaderType' /\ EventsType' /\ HistoryType'
    BY <1>22 DEF StageSetFinish, Working, SetFinish, Updated, TableType, CallerType, ReaderType, EventsType, HistoryType
  <2> QED
    BY <2>1, <2>2, <2>3
<1>23. ASSUME NEW i \in Instances, NEW s \in Stage, StoreFails(i, s) PROVE TypeOK'
  <2>1. pipe[i][s].task \in Task
    BY <1>23, SlotType DEF StoreFails, Working
  <2>2. PipeType'
    BY <1>23, DroppedType DEF StoreFails, Emit
  <2>3. ErrsType'
    BY <1>23, <2>1, EmitType DEF StoreFails
  <2>4. TableType'
    BY <1>23, <2>1 DEF StoreFails, Fault, Working, TableType
  <2>5. CallerType'
    BY <1>23, <2>1 DEF StoreFails, Fault, Working, CallerType
  <2>6. ReaderType'
    BY <1>23, <2>1 DEF StoreFails, Fault, Working, ReaderType
  <2>7. EventsType'
    BY <1>23, <2>1 DEF StoreFails, Fault, Working, EventsType
  <2>8. HistoryType'
    BY <1>23, <2>1 DEF StoreFails, Fault, Working, HistoryType
  <2> QED
    BY <2>1, <2>2, <2>3, <2>4, <2>5, <2>6, <2>7, <2>8
<1>24. ASSUME NEW i \in Instances, NEW s \in Stage, Pass(i, s) PROVE TypeOK'
  <2>1. s + 1 \in Stage
    BY <1>24, SMT DEF Pass
  <2>2. PipeType'
    BY <1>24, <2>1, PassType
  <2>3. ErrsType'
    BY <1>24, SMT DEF Pass, ErrsType
  <2>4. TableType' /\ CallerType' /\ ReaderType' /\ EventsType' /\ HistoryType'
    BY <1>24, <2>1 DEF Pass, TableType, CallerType, ReaderType, EventsType, HistoryType
  <2> QED
    BY <2>1, <2>2, <2>3, <2>4
<1>25. ASSUME NEW i \in Instances, MarkError(i) PROVE TypeOK'
  <2>1. PipeType'
    BY <1>25, SMT DEF MarkError, PipeType
  <2>2. ErrsType'
    BY <1>25, TakeType DEF MarkError
  <2>3. Head(errs[i]) \in Task
    BY <1>25, TakeType DEF MarkError
  <2>4. TableType' /\ CallerType' /\ ReaderType' /\ EventsType' /\ HistoryType'
    BY <1>25, <2>3 DEF MarkError, SetErr, Updated, TableType, CallerType, ReaderType, EventsType, HistoryType
  <2> QED
    BY <2>1, <2>2, <2>3, <2>4
<1>26. ASSUME NEW i \in Instances, MarkLost(i) PROVE TypeOK'
  <2>1. PipeType'
    BY <1>26, SMT DEF MarkLost, PipeType
  <2>2. ErrsType'
    BY <1>26, TakeType DEF MarkLost
  <2>3. TableType'
    BY <1>26 DEF MarkLost, Fault, TableType
  <2>4. CallerType'
    BY <1>26 DEF MarkLost, Fault, CallerType
  <2>5. ReaderType'
    BY <1>26 DEF MarkLost, Fault, ReaderType
  <2>6. EventsType'
    BY <1>26 DEF MarkLost, Fault, EventsType
  <2>7. HistoryType'
    BY <1>26 DEF MarkLost, Fault, HistoryType
  <2> QED
    BY <2>1, <2>2, <2>3, <2>4, <2>5, <2>6, <2>7
<1>27. ASSUME NEW t \in Task, Age(t) PROVE TypeOK'
  <2>1. PipeType' /\ ErrsType'
    BY <1>27, SMT DEF Age, PipeType, ErrsType
  <2>2. TableType' /\ CallerType' /\ ReaderType' /\ EventsType'
    BY <1>27 DEF Age, TableType, CallerType, ReaderType, EventsType
  <2>3. HistoryType'
    BY <1>27 DEF Age, HistoryType
  <2> QED
    BY <2>1, <2>2, <2>3
<1> QED
  BY <1>0, <1>1, <1>2, <1>3, <1>4, <1>5, <1>6, <1>7, <1>8, <1>9, <1>10, <1>11, <1>12, <1>13, <1>14, <1>15, <1>16, <1>17, <1>18, <1>19, <1>20, <1>21, <1>22, <1>23, <1>24, <1>25, <1>26, <1>27
     DEF Next, Goroutine, SourceStep, StageStep, FaultStep

\* The initial state is well typed.
LEMMA InitType == Init => TypeOK
  BY QueueAssumption, EmptySeq, FreeType DEF Init, TypeOK, TableType, CallerType, ReaderType,
     PipeType, ErrsType, EventsType, HistoryType

\* Every variable keeps its type, and the error channel its bound, whatever
\* the number of instances, tasks, stages, failures and crashes.
THEOREM TypeInvariant == Spec => []TypeOK
  BY InitType, TypeStep, PTL DEF Spec

-----------------------------------------------------------------------------
(* No task is lost.                                                         *)

\* Every mark of a finished import follows an import: a task in a slot behind
\* the iterate stage, a row that reads FINISH, a row that is gone.
ImportedFirst ==
    /\ \A i \in Instances, s \in Stage :
          pipe[i][s].task # NoTask /\ Imported(i, s) => imports[pipe[i][s].task] > 0
    /\ \A t \in Task : status[t] = "FINISH" => imports[t] > 0
    /\ NoTaskLost

\* At the start every row is waiting and nothing is held or deleted.
LEMMA ImportedFirstInit == Init => ImportedFirst
  BY QueueAssumption DEF Init, ImportedFirst, NoTaskLost, Free

\* A step that changes neither the pipeline nor the counter of imports, and
\* takes no row to FINISH or out of the table, keeps it.
LEMMA ImportedFirstTable ==
  ASSUME ImportedFirst, TypeOK, pipe' = pipe, imports' = imports,
         \A t \in Task : /\ status'[t] = "FINISH" => status[t] = "FINISH"
                         /\ t <= lastId' /\ status'[t] = "none" =>
                                 \/ t <= lastId /\ status[t] = "none"
                                 \/ status[t] = "FINISH"
  PROVE  ImportedFirst'
  BY DEF ImportedFirst, NoTaskLost, Imported

\* A step that drops what some stages hold, and changes no row, keeps it.
LEMMA ImportedFirstDrop ==
  ASSUME ImportedFirst, TypeOK, imports' = imports, status' = status, lastId' = lastId,
         \A i \in Instances, s \in Stage : pipe'[i][s] \in {pipe[i][s], Free}
  PROVE  ImportedFirst'
  BY DEF ImportedFirst, NoTaskLost, Imported, Free

\* Which task a stage holds after one has dropped its task.
LEMMA DroppedSlots ==
  ASSUME PipeType, NEW i \in Instances, NEW s \in Stage, Dropped(i, s)
  PROVE  \A j \in Instances, r \in Stage :
             pipe'[j][r] = IF j = i /\ r = s THEN Free ELSE pipe[j][r]
  BY DEF Dropped, PipeType

\* Which task a stage holds after one has done its work.
LEMMA FinishedSlots ==
  ASSUME PipeType, NEW i \in Instances, NEW s \in Stage, Finished(i, s)
  PROVE  \A j \in Instances, r \in Stage :
             pipe'[j][r] = IF j = i /\ r = s THEN Worked(pipe[i][s].task) ELSE pipe[j][r]
  BY DEF Finished, PipeType

\* Which task a stage holds after the source has handed one on.
LEMMA SentSlots ==
  ASSUME PipeType, NEW i \in Instances, Send(i), 1 \in Stage
  PROVE  \A j \in Instances, r \in Stage :
             pipe'[j][r] = IF j = i /\ r = 1 THEN Arrived(row[i]) ELSE pipe[j][r]
  BY DEF Send, PipeType

\* Which task a stage holds after one has passed its task on.
LEMMA PassedSlots ==
  ASSUME PipeType, NEW i \in Instances, NEW s \in Stage, s + 1 \in Stage, Pass(i, s)
  PROVE  \A j \in Instances, r \in Stage :
             pipe'[j][r] = IF j = i /\ r = s THEN Free
                           ELSE IF j = i /\ r = s + 1 THEN Arrived(pipe[i][s].task)
                           ELSE pipe[j][r]
<1>1. pipe' = [pipe EXCEPT ![i] = [pipe[i] EXCEPT ![s] = Free, ![s + 1] = Arrived(pipe[i][s].task)]]
  BY DEF Pass
<1>2. s # s + 1
  OBVIOUS
<1> QED
  BY <1>1, <1>2 DEF PipeType

\* ImportedFirst is inductive.  Rows leave the table, or get FINISH, in Sweep,
\* StageSetFinish and Save only; tasks move in the pipeline in the other steps.
THEOREM ImportedFirstStep == TypeOK /\ ImportedFirst /\ [Next]_vars => ImportedFirst'
<1> SUFFICES ASSUME TypeOK, ImportedFirst, [Next]_vars PROVE ImportedFirst'
  OBVIOUS
<1> USE QueueAssumption DEF table, caller, reader, flow, events, history
<1> PipeType
  BY DEF TypeOK
<1>0. ASSUME UNCHANGED vars PROVE ImportedFirst'
  BY <1>0, ImportedFirstTable DEF vars
<1>1. ASSUME NEW i \in Instances, Add(i) PROVE ImportedFirst'
  BY <1>1, ImportedFirstTable DEF Add, TypeOK, TableType
<1>2. ASSUME NEW i \in Instances, NEW t \in Task, SubmitRun(i, t) PROVE ImportedFirst'
  BY <1>2, ImportedFirstTable DEF SubmitRun
<1>3. ASSUME NEW i \in Instances, Run(i) PROVE ImportedFirst'
  BY <1>3, ImportedFirstTable DEF Run
<1>4. ASSUME NEW i \in Instances, SetCtx(i) PROVE ImportedFirst'
  BY <1>4, ImportedFirstTable DEF SetCtx
<1>5. ASSUME NEW i \in Instances, Stop(i) PROVE ImportedFirst'
  BY <1>5, ImportedFirstTable DEF Stop
<1>6. ASSUME NEW i \in Instances, Start(i) PROVE ImportedFirst'
  BY <1>6, ImportedFirstTable DEF Start
<1>7. ASSUME NEW i \in Instances, StartFails(i) PROVE ImportedFirst'
  BY <1>7, ImportedFirstTable DEF StartFails, Fault
<1>8. ASSUME NEW i \in Instances, Sweep(i) PROVE ImportedFirst'
  BY <1>8, ImportedFirstTable DEF Sweep, EmptyTask, TypeOK, TableType
<1>9. ASSUME NEW i \in Instances, Unlock(i) PROVE ImportedFirst'
  BY <1>9, ImportedFirstTable DEF Unlock
<1>10. ASSUME NEW i \in Instances, Crash(i) PROVE ImportedFirst'
  BY <1>10, ImportedFirstDrop DEF Crash, Die, PipeType
<1>11. ASSUME NEW i \in Instances, SweepPanics(i) PROVE ImportedFirst'
  BY <1>11, ImportedFirstDrop DEF SweepPanics, Die, PipeType
<1>12. ASSUME NEW i \in Instances, Poll(i) PROVE ImportedFirst'
  BY <1>12, ImportedFirstTable DEF Poll
<1>13. ASSUME NEW i \in Instances, PollFails(i) PROVE ImportedFirst'
  BY <1>13, ImportedFirstTable DEF PollFails
<1>14. ASSUME NEW i \in Instances, Timeout(i) PROVE ImportedFirst'
  BY <1>14, ImportedFirstTable DEF Timeout
<1>15. ASSUME NEW i \in Instances, SeeCancel(i) PROVE ImportedFirst'
  BY <1>15, ImportedFirstTable DEF SeeCancel
<1>16. ASSUME NEW i \in Instances, Send(i) PROVE ImportedFirst'
  BY <1>16, SentSlots DEF Send, Arrived, ImportedFirst, NoTaskLost, Imported
<1>17. ASSUME NEW i \in Instances, Save(i) PROVE ImportedFirst'
  BY <1>17, ImportedFirstTable DEF Save, SaveRow, TypeOK, TableType
<1>18. ASSUME NEW i \in Instances, SaveFails(i) PROVE ImportedFirst'
  BY <1>18, ImportedFirstTable DEF SaveFails
<1>19. ASSUME NEW i \in Instances, StageSetProcess(i) PROVE ImportedFirst'
  <2>7. 1 \in Stage /\ LastStage - 1 # 1 /\ Finished(i, 1)
    BY <1>19 DEF StageSetProcess
  <2>8. \A j \in Instances, r \in Stage :
           pipe'[j][r] = IF j = i /\ r = 1 THEN Worked(pipe[i][1].task) ELSE pipe[j][r]
    BY <2>7, FinishedSlots
  <2>1. \A j \in Instances, r \in Stage : pipe'[j][r].task = pipe[j][r].task
    BY <2>8 DEF Worked
  <2>2. \A j \in Instances, r \in Stage : Imported(j, r)' => Imported(j, r)
    BY <2>7, <2>8 DEF Imported
  <2> QED
    BY <1>19, <2>1, <2>2 DEF StageSetProcess, SetProcess, Updated, ImportedFirst, NoTaskLost,
       TypeOK, TableType
<1>20. ASSUME NEW i \in Instances, NEW s \in Stage, StageWork(i, s) PROVE ImportedFirst'
  <2>1. pipe[i][s].task \in Task
    BY <1>20, SlotType DEF StageWork, Working
  <2>7. /\ Finished(i, s)
        /\ s = LastStage - 1 =>
              imports' = [imports EXCEPT ![pipe[i][s].task] = imports[pipe[i][s].task] + 1]
    BY <1>20 DEF StageWork
  <2>8. \A j \in Instances, r \in Stage :
           pipe'[j][r] = IF j = i /\ r = s THEN Worked(pipe[i][s].task) ELSE pipe[j][r]
    BY <2>7, FinishedSlots
  <2>9. imports \in [Task -> Nat]
    BY DEF TypeOK, HistoryType
  <2>2. \A t \in Task : imports[t] > 0 => imports'[t] > 0
    BY <1>20, <2>1, <2>9 DEF StageWork
  <2>3. s = LastStage - 1 => imports'[pipe[i][s].task] > 0
    BY <2>1, <2>7, <2>9
  <2>4. \A j \in Instances, r \in Stage : pipe'[j][r].task = pipe[j][r].task
    BY <2>8 DEF Worked
  <2>5. \A j \in Instances, r \in Stage :
           Imported(j, r)' => Imported(j, r) \/ (j = i /\ r = s /\ s = LastStage - 1)
    BY <2>8 DEF Imported
  <2>6. \A j \in Instances, r \in Stage :
           pipe'[j][r].task # NoTask /\ Imported(j, r)' => imports'[pipe'[j][r].task] > 0
    BY <2>2, <2>3, <2>4, <2>5, SlotType DEF ImportedFirst
  <2> QED
    BY <1>20, <2>2, <2>6 DEF StageWork, ImportedFirst, NoTaskLost
<1>21. ASSUME NEW i \in Instances, NEW s \in Stage, StageFails(i, s) PROVE ImportedFirst'
  BY <1>21, DroppedSlots, ImportedFirstDrop DEF StageFails, Emit
<1>22. ASSUME NEW i \in Instances, StageSetFinish(i) PROVE ImportedFirst'
  <2>1. LastStage \in Stage
    OBVIOUS
  <2>2. imports[pipe[i][LastStage].task] > 0
    BY <1>22, <2>1 DEF StageSetFinish, Working, ImportedFirst, Imported
  <2> QED
    BY <1>22, <2>1, <2>2, DroppedSlots DEF StageSetFinish, SetFinish, Updated, Imported, Free,
       ImportedFirst, NoTaskLost, TypeOK, TableType
<1>23. ASSUME NEW i \in Instances, NEW s \in Stage, StoreFails(i, s) PROVE ImportedFirst'
  BY <1>23, DroppedSlots, ImportedFirstDrop DEF StoreFails, Emit
<1>24. ASSUME NEW i \in Instances, NEW s \in Stage, Pass(i, s) PROVE ImportedFirst'
  <2>1. s + 1 \in Stage
    BY <1>24 DEF Pass
  <2>2. s + 1 = LastStage /\ pipe[i][s].task # NoTask => imports[pipe[i][s].task] > 0
    BY <1>24 DEF Pass, ImportedFirst, Imported
  <2>7. \A j \in Instances, r \in Stage :
           pipe'[j][r] = IF j = i /\ r = s THEN Free
                         ELSE IF j = i /\ r = s + 1 THEN Arrived(pipe[i][s].task)
                         ELSE pipe[j][r]
    BY <1>24, <2>1, PassedSlots
  <2>3. \A j \in Instances, r \in Stage :
           pipe'[j][r].task # NoTask /\ Imported(j, r)' => imports[pipe'[j][r].task] > 0
    BY <2>7, <2>2 DEF Arrived, Free, Imported, ImportedFirst
  <2> QED
    BY <1>24, <2>3 DEF Pass, ImportedFirst, NoTaskLost
<1>25. ASSUME NEW i \in Instances, MarkError(i) PROVE ImportedFirst'
  BY <1>25, ImportedFirstTable DEF MarkError, SetErr, Updated, TypeOK, TableType
<1>26. ASSUME NEW i \in Instances, MarkLost(i) PROVE ImportedFirst'
  BY <1>26, ImportedFirstTable DEF MarkLost
<1>27. ASSUME NEW t \in Task, Age(t) PROVE ImportedFirst'
  BY <1>27, ImportedFirstTable DEF Age
<1> QED
  BY <1>0, <1>1, <1>2, <1>3, <1>4, <1>5, <1>6, <1>7, <1>8, <1>9, <1>10, <1>11, <1>12, <1>13, <1>14, <1>15, <1>16, <1>17, <1>18, <1>19, <1>20, <1>21, <1>22, <1>23, <1>24, <1>25, <1>26, <1>27
     DEF Next, Goroutine, SourceStep, StageStep, FaultStep

\* A submitted task leaves the table only after its import has completed, for
\* any number of instances sharing the table, with any failing calls, crashes,
\* stops and stale rows.
THEOREM TasksAreNotLost == Spec => []NoTaskLost
<1>1. ImportedFirst => NoTaskLost
  BY DEF ImportedFirst
<1> QED
  BY <1>1, InitType, TypeStep, ImportedFirstInit, ImportedFirstStep, PTL DEF Spec

-----------------------------------------------------------------------------
(* The queue implements the abstract one of module Jobs.                    *)

\* Rows, stages and sources hold submitted tasks only.
SubmittedOnly ==
    /\ \A t \in Task : status[t] # "none" => t <= lastId
    /\ \A i \in Instances : row[i] <= lastId
    /\ \A i \in Instances, s \in Stage : pipe[i][s].task <= lastId

\* At the start there is no row and nothing is held.
LEMMA SubmittedOnlyInit == Init => SubmittedOnly
  BY DEF Init, SubmittedOnly, Free

\* A step that gives out no id keeps it, unless it brings a row, a read task or
\* a task in a stage from nowhere.
LEMMA SubmittedKept ==
  ASSUME SubmittedOnly, lastId' = lastId,
         \A t \in Task : status'[t] \in {status[t], "none"} \/ t <= lastId,
         \A i \in Instances : row'[i] = row[i] \/ row'[i] <= lastId,
         \A i \in Instances, s \in Stage :
             pipe'[i][s] = pipe[i][s] \/ pipe'[i][s].task <= lastId
  PROVE  SubmittedOnly'
  BY DEF SubmittedOnly

\* The marks of the stages and of the error pipeline change existing rows only.
LEMMA UpdatedRows ==
  ASSUME TypeOK, SubmittedOnly, NEW u \in Task, NEW st, status' = Updated(u, st)
  PROVE  \A t \in Task : status'[t] \in {status[t], "none"} \/ t <= lastId
  BY DEF Updated, SubmittedOnly, TypeOK, TableType

\* SubmittedOnly is inductive: a task enters the pipeline through the source,
\* which reads it from the table.
THEOREM SubmittedOnlyStep == TypeOK /\ SubmittedOnly /\ [Next]_vars => SubmittedOnly'
<1> SUFFICES ASSUME TypeOK, SubmittedOnly, [Next]_vars PROVE SubmittedOnly'
  OBVIOUS
<1> NoTask <= lastId
  BY DEF TypeOK, TableType
<1> USE QueueAssumption DEF table, caller, reader, flow, events, history
<1> PipeType
  BY DEF TypeOK
<1>0. ASSUME UNCHANGED vars PROVE SubmittedOnly'
  BY <1>0, SubmittedKept DEF vars
<1>1. ASSUME NEW i \in Instances, Add(i) PROVE SubmittedOnly'
  <2>1. lastId + 1 \in Task /\ lastId' = lastId + 1
    BY <1>1 DEF Add, TypeOK, TableType
  <2>2. \A j \in Instances, s \in Stage : pipe[j][s].task \in Nat /\ row[j] \in Nat
    BY SlotType DEF TypeOK, ReaderType
  <2>3. lastId \in Nat /\ status' = [status EXCEPT ![lastId + 1] = "WAITING"]
        /\ row' = row /\ pipe' = pipe
    BY <1>1 DEF Add, TypeOK, TableType
  <2> QED
    BY <2>1, <2>2, <2>3 DEF SubmittedOnly, TypeOK, TableType
<1>2. ASSUME NEW i \in Instances, NEW t \in Task, SubmitRun(i, t) PROVE SubmittedOnly'
  BY <1>2, SubmittedKept DEF SubmitRun
<1>3. ASSUME NEW i \in Instances, Run(i) PROVE SubmittedOnly'
  BY <1>3, SubmittedKept DEF Run
<1>4. ASSUME NEW i \in Instances, SetCtx(i) PROVE SubmittedOnly'
  BY <1>4, SubmittedKept DEF SetCtx
<1>5. ASSUME NEW i \in Instances, Stop(i) PROVE SubmittedOnly'
  BY <1>5, SubmittedKept DEF Stop
<1>6. ASSUME NEW i \in Instances, Start(i) PROVE SubmittedOnly'
  BY <1>6, SubmittedKept DEF Start
<1>7. ASSUME NEW i \in Instances, StartFails(i) PROVE SubmittedOnly'
  BY <1>7, SubmittedKept DEF StartFails
<1>8. ASSUME NEW i \in Instances, Sweep(i) PROVE SubmittedOnly'
  BY <1>8, SubmittedKept DEF Sweep, EmptyTask
<1>9. ASSUME NEW i \in Instances, Unlock(i) PROVE SubmittedOnly'
  BY <1>9, SubmittedKept DEF Unlock
<1>10. ASSUME NEW i \in Instances, Crash(i) PROVE SubmittedOnly'
  BY <1>10, SubmittedKept DEF Crash, Die, Free, TypeOK, PipeType, TableType, ReaderType
<1>11. ASSUME NEW i \in Instances, SweepPanics(i) PROVE SubmittedOnly'
  BY <1>11, SubmittedKept DEF SweepPanics, Die, Free, TypeOK, PipeType, TableType, ReaderType
<1>12. ASSUME NEW i \in Instances, Poll(i) PROVE SubmittedOnly'
  BY <1>12, SubmittedKept DEF Poll, Eligible, SubmittedOnly, TypeOK, ReaderType
<1>13. ASSUME NEW i \in Instances, PollFails(i) PROVE SubmittedOnly'
  BY <1>13, SubmittedKept DEF PollFails
<1>14. ASSUME NEW i \in Instances, Timeout(i) PROVE SubmittedOnly'
  BY <1>14, SubmittedKept DEF Timeout
<1>15. ASSUME NEW i \in Instances, SeeCancel(i) PROVE SubmittedOnly'
  BY <1>15, SubmittedKept DEF SeeCancel
<1>16. ASSUME NEW i \in Instances, Send(i) PROVE SubmittedOnly'
  BY <1>16, SubmittedKept, SentSlots DEF Send, Arrived, SubmittedOnly
<1>17. ASSUME NEW i \in Instances, Save(i) PROVE SubmittedOnly'
  <2>1. row[i] \in Task /\ row[i] <= lastId
    BY <1>17 DEF Save, SubmittedOnly, TypeOK, ReaderType
  <2>2. row' = [row EXCEPT ![i] = NoTask] /\ status' = [status EXCEPT ![row[i]] = "PROCESS"]
    BY <1>17 DEF Save, SaveRow, Resume
  <2>3. \A t \in Task : status'[t] \in {status[t], "none"} \/ t <= lastId
    BY <2>1, <2>2 DEF TypeOK, TableType
  <2>4. \A j \in Instances : row'[j] = row[j] \/ row'[j] <= lastId
    BY <2>2 DEF TypeOK, ReaderType
  <2> QED
    BY <1>17, <2>3, <2>4, SubmittedKept DEF Save
<1>18. ASSUME NEW i \in Instances, SaveFails(i) PROVE SubmittedOnly'
  BY <1>18, SubmittedKept DEF SaveFails, Resume, TypeOK, TableType, ReaderType
<1>19. ASSUME NEW i \in Instances, StageSetProcess(i) PROVE SubmittedOnly'
  <2>1. 1 \in Stage /\ pipe[i][1].task \in Task /\ Finished(i, 1)
    BY <1>19, SlotType DEF StageSetProcess, Working
  <2>2. \A j \in Instances, r \in Stage : pipe'[j][r].task <= lastId
    <3>1. \A j \in Instances, r \in Stage :
             pipe'[j][r] = IF j = i /\ r = 1 THEN Worked(pipe[i][1].task) ELSE pipe[j][r]
      BY <2>1, FinishedSlots
    <3> QED
      BY <3>1, <2>1 DEF Worked, SubmittedOnly
  <2> QED
    BY <1>19, <2>1, <2>2, SubmittedKept, UpdatedRows DEF StageSetProcess, SetProcess
<1>20. ASSUME NEW i \in Instances, NEW s \in Stage, StageWork(i, s) PROVE SubmittedOnly'
  <2>1. \A j \in Instances, r \in Stage : pipe'[j][r].task <= lastId
    <3>1. \A j \in Instances, r \in Stage :
             pipe'[j][r] = IF j = i /\ r = s THEN Worked(pipe[i][s].task) ELSE pipe[j][r]
      BY <1>20, FinishedSlots DEF StageWork
    <3> QED
      BY <3>1 DEF Worked, SubmittedOnly
  <2> QED
    BY <1>20, <2>1, SubmittedKept DEF StageWork
<1>21. ASSUME NEW i \in Instances, NEW s \in Stage, StageFails(i, s) PROVE SubmittedOnly'
  BY <1>21, SubmittedKept, DroppedSlots DEF StageFails, Emit, Free, TypeOK, TableType
<1>22. ASSUME NEW i \in Instances, StageSetFinish(i) PROVE SubmittedOnly'
  <2>1. LastStage \in Stage
    OBVIOUS
  <2>2. pipe[i][LastStage].task \in Task
    BY <1>22, <2>1, SlotType DEF StageSetFinish, Working
  <2>3. \A j \in Instances, r \in Stage : pipe'[j][r] = pipe[j][r] \/ pipe'[j][r].task <= lastId
    BY <1>22, <2>1, DroppedSlots DEF StageSetFinish, Free
  <2> QED
    BY <1>22, <2>2, <2>3, SubmittedKept, UpdatedRows DEF StageSetFinish, SetFinish
<1>23. ASSUME NEW i \in Instances, NEW s \in Stage, StoreFails(i, s) PROVE SubmittedOnly'
  BY <1>23, SubmittedKept, DroppedSlots DEF StoreFails, Emit, Free, TypeOK, TableType
<1>24. ASSUME NEW i \in Instances, NEW s \in Stage, Pass(i, s) PROVE SubmittedOnly'
  <2>1. s \in Stage /\ s + 1 \in Stage
    BY <1>24 DEF Pass
  <2>2. \A j \in Instances, r \in Stage : pipe'[j][r].task <= lastId
    <3>1. \A j \in Instances, r \in Stage :
             pipe'[j][r] = IF j = i /\ r = s THEN Free
                           ELSE IF j = i /\ r = s + 1 THEN Arrived(pipe[i][s].task)
                           ELSE pipe[j][r]
      BY <1>24, <2>1, PassedSlots
    <3> QED
      BY <3>1, <2>1 DEF Arrived, Free, SubmittedOnly
  <2> QED
    BY <1>24, <2>2, SubmittedKept DEF Pass
<1>25. ASSUME NEW i \in Instances, MarkError(i) PROVE SubmittedOnly'
  <2>1. Head(errs[i]) \in Task
    BY <1>25, TakeType DEF MarkError, TypeOK
  <2> QED
    BY <1>25, <2>1, SubmittedKept, UpdatedRows DEF MarkError, SetErr
<1>26. ASSUME NEW i \in Instances, MarkLost(i) PROVE SubmittedOnly'
  BY <1>26, SubmittedKept DEF MarkLost
<1>27. ASSUME NEW t \in Task, Age(t) PROVE SubmittedOnly'
  BY <1>27, SubmittedKept DEF Age
<1> QED
  BY <1>0, <1>1, <1>2, <1>3, <1>4, <1>5, <1>6, <1>7, <1>8, <1>9, <1>10, <1>11, <1>12, <1>13, <1>14, <1>15, <1>16, <1>17, <1>18, <1>19, <1>20, <1>21, <1>22, <1>23, <1>24, <1>25, <1>26, <1>27
     DEF Next, Goroutine, SourceStep, StageStep, FaultStep

-----------------------------------------------------------------------------
(* The refinement.                                                          *)

\* A step that leaves the table, the imports and the marks alone is none for
\* the clients.
LEMMA Unseen ==
  ASSUME lastId' = lastId, status' = status, imports' = imports, marked' = marked
  PROVE  Promise!Next \/ UNCHANGED Promise!jobs
  BY DEF Promise!jobs

\* A mark of a row changes no list.
LEMMA MarksKeepTheList ==
  ASSUME TypeOK, NEW u \in Task, NEW st \in Statuses \ {"none"}, status' = Updated(u, st)
  PROVE  {t \in Task : status'[t] # "none"} = {t \in Task : status[t] # "none"}
  BY DEF Updated, TypeOK, TableType, Statuses

\* Every step of the queue is a step of the abstract queue, or none.  The
\* interesting ones are the sweep, which may forget several imported tasks, the
\* late Save, which may bring one back, and the end of an import.
THEOREM JobsStep ==
  TypeOK /\ ImportedFirst /\ SubmittedOnly /\ [Next]_vars
      => Promise!Next \/ UNCHANGED Promise!jobs
<1> SUFFICES ASSUME TypeOK, ImportedFirst, SubmittedOnly, [Next]_vars
             PROVE  Promise!Next \/ UNCHANGED Promise!jobs
  OBVIOUS
<1> USE QueueAssumption DEF table, caller, reader, flow, events, history
<1> DEFINE listed == {t \in Task : status[t] # "none"}
           imported == {t \in Task : imports[t] > 0}
<1> PipeType
  BY DEF TypeOK
<1>0. ASSUME UNCHANGED vars PROVE Promise!Next \/ UNCHANGED Promise!jobs
  BY <1>0, Unseen DEF vars
<1>1. ASSUME NEW i \in Instances, Add(i) PROVE Promise!Next \/ UNCHANGED Promise!jobs
  <2>1. lastId \in Nat /\ lastId + 1 \in Task
    BY <1>1 DEF Add, TypeOK, TableType
  <2>2. /\ lastId' = lastId + 1 /\ imports' = imports /\ marked' = marked
        /\ status' = [status EXCEPT ![lastId + 1] = "WAITING"]
    BY <1>1 DEF Add
  <2>3. {t \in Task : status'[t] # "none"} = listed \cup {lastId + 1}
    BY <2>1, <2>2 DEF TypeOK, TableType
  <2>4. 1..lastId' = (1..lastId) \cup {lastId + 1} /\ lastId + 1 \notin 1..lastId
    BY <2>1, <2>2
  <2>5. \E j \in Task : Promise!Submit(j)
    BY <2>1, <2>2, <2>3, <2>4 DEF Promise!Submit
  <2> QED
    BY <2>5 DEF Promise!Next
<1>2. ASSUME NEW i \in Instances, NEW t \in Task, SubmitRun(i, t) PROVE Promise!Next \/ UNCHANGED Promise!jobs
  BY <1>2, Unseen DEF SubmitRun
<1>3. ASSUME NEW i \in Instances, Run(i) PROVE Promise!Next \/ UNCHANGED Promise!jobs
  BY <1>3, Unseen DEF Run
<1>4. ASSUME NEW i \in Instances, SetCtx(i) PROVE Promise!Next \/ UNCHANGED Promise!jobs
  BY <1>4, Unseen DEF SetCtx
<1>5. ASSUME NEW i \in Instances, Stop(i) PROVE Promise!Next \/ UNCHANGED Promise!jobs
  BY <1>5, Unseen DEF Stop
<1>6. ASSUME NEW i \in Instances, Start(i) PROVE Promise!Next \/ UNCHANGED Promise!jobs
  BY <1>6, Unseen DEF Start
<1>7. ASSUME NEW i \in Instances, StartFails(i) PROVE Promise!Next \/ UNCHANGED Promise!jobs
  BY <1>7, Unseen DEF StartFails, Fault
<1>8. ASSUME NEW i \in Instances, Sweep(i) PROVE Promise!Next \/ UNCHANGED Promise!jobs
  <2> DEFINE gone == {t \in Task : status[t] = "FINISH"}
  <2>1. /\ lastId' = lastId /\ imports' = imports /\ marked' = marked
        /\ status' = [t \in Task |-> IF status[t] = "FINISH" THEN "none" ELSE status[t]]
    BY <1>8 DEF Sweep, EmptyTask
  <2>2. {t \in Task : status'[t] # "none"} = listed \ gone
    BY <2>1
  <2>3. gone \subseteq listed \cap imported
    BY DEF ImportedFirst
  <2>4. CASE gone = {}
    BY <2>1, <2>2, <2>4 DEF Promise!jobs
  <2>5. CASE gone # {}
    <3>1. \E g \in SUBSET Task : Promise!Forget(g)
      BY <2>1, <2>2, <2>3, <2>5 DEF Promise!Forget
    <3> QED
      BY <3>1 DEF Promise!Next
  <2> QED
    BY <2>4, <2>5
<1>9. ASSUME NEW i \in Instances, Unlock(i) PROVE Promise!Next \/ UNCHANGED Promise!jobs
  BY <1>9, Unseen DEF Unlock
<1>10. ASSUME NEW i \in Instances, Crash(i) PROVE Promise!Next \/ UNCHANGED Promise!jobs
  BY <1>10, Unseen DEF Crash, Die
<1>11. ASSUME NEW i \in Instances, SweepPanics(i) PROVE Promise!Next \/ UNCHANGED Promise!jobs
  BY <1>11, Unseen DEF SweepPanics, Fault, Die
<1>12. ASSUME NEW i \in Instances, Poll(i) PROVE Promise!Next \/ UNCHANGED Promise!jobs
  BY <1>12, Unseen DEF Poll
<1>13. ASSUME NEW i \in Instances, PollFails(i) PROVE Promise!Next \/ UNCHANGED Promise!jobs
  BY <1>13, Unseen DEF PollFails, Fault
<1>14. ASSUME NEW i \in Instances, Timeout(i) PROVE Promise!Next \/ UNCHANGED Promise!jobs
  BY <1>14, Unseen DEF Timeout
<1>15. ASSUME NEW i \in Instances, SeeCancel(i) PROVE Promise!Next \/ UNCHANGED Promise!jobs
  BY <1>15, Unseen DEF SeeCancel
<1>16. ASSUME NEW i \in Instances, Send(i) PROVE Promise!Next \/ UNCHANGED Promise!jobs
  BY <1>16, Unseen DEF Send
<1>17. ASSUME NEW i \in Instances, Save(i) PROVE Promise!Next \/ UNCHANGED Promise!jobs
  <2>1. row[i] \in Task /\ row[i] \in 1..lastId
    BY <1>17 DEF Save, SubmittedOnly, TypeOK, ReaderType, TableType
  <2>2. /\ lastId' = lastId /\ imports' = imports /\ marked' = marked
        /\ status' = [status EXCEPT ![row[i]] = "PROCESS"]
    BY <1>17 DEF Save, SaveRow
  <2>3. {t \in Task : status'[t] # "none"} = listed \cup {row[i]}
    BY <2>1, <2>2 DEF TypeOK, TableType
  <2>4. CASE row[i] \in listed
    BY <2>2, <2>3, <2>4 DEF Promise!jobs
  <2>5. CASE row[i] \notin listed
    <3>1. \E j \in Task : Promise!Relist(j)
      BY <2>1, <2>2, <2>3, <2>5 DEF Promise!Relist
    <3> QED
      BY <3>1 DEF Promise!Next
  <2> QED
    BY <2>4, <2>5
<1>18. ASSUME NEW i \in Instances, SaveFails(i) PROVE Promise!Next \/ UNCHANGED Promise!jobs
  BY <1>18, Unseen DEF SaveFails, Fault
<1>19. ASSUME NEW i \in Instances, StageSetProcess(i) PROVE Promise!Next \/ UNCHANGED Promise!jobs
  <2>1. 1 \in Stage /\ pipe[i][1].task \in Task
    BY <1>19, SlotType DEF StageSetProcess, Working
  <2>2. {t \in Task : status'[t] # "none"} = listed
    BY <1>19, <2>1, MarksKeepTheList DEF StageSetProcess, SetProcess, Statuses
  <2> QED
    BY <1>19, <2>2 DEF StageSetProcess, Promise!jobs
<1>20. ASSUME NEW i \in Instances, NEW s \in Stage, StageWork(i, s) PROVE Promise!Next \/ UNCHANGED Promise!jobs
  <2> DEFINE t == pipe[i][s].task
  <2>1. t \in Task
    BY <1>20, SlotType DEF StageWork, Working
  <2>2. /\ lastId' = lastId /\ status' = status /\ marked' = marked
        /\ imports' = IF s = LastStage - 1 THEN [imports EXCEPT ![t] = imports[t] + 1] ELSE imports
    BY <1>20 DEF StageWork
  <2>3. imports \in [Task -> Nat]
    BY DEF TypeOK, HistoryType
  <2>4. CASE s # LastStage - 1
    BY <2>2, <2>4, Unseen
  <2>5. CASE s = LastStage - 1
    <3>1. {u \in Task : imports'[u] > 0} = imported \cup {t}
      BY <2>1, <2>2, <2>3, <2>5
    <3>2. t \in listed \cup imported
      BY <1>20, <2>1 DEF StageWork, SubmittedOnly, ImportedFirst, NoTaskLost
    <3>3. (\E j \in Task : Promise!Import(j)) \/ UNCHANGED Promise!jobs
      BY <2>1, <2>2, <3>1, <3>2 DEF Promise!Import, Promise!jobs
    <3> QED
      BY <3>3 DEF Promise!Next
  <2> QED
    BY <2>4, <2>5
<1>21. ASSUME NEW i \in Instances, NEW s \in Stage, StageFails(i, s) PROVE Promise!Next \/ UNCHANGED Promise!jobs
  BY <1>21, Unseen DEF StageFails
<1>22. ASSUME NEW i \in Instances, StageSetFinish(i) PROVE Promise!Next \/ UNCHANGED Promise!jobs
  <2>1. LastStage \in Stage
    OBVIOUS
  <2>2. pipe[i][LastStage].task \in Task
    BY <1>22, <2>1, SlotType DEF StageSetFinish, Working
  <2>3. {t \in Task : status'[t] # "none"} = listed
    BY <1>22, <2>2, MarksKeepTheList DEF StageSetFinish, SetFinish, Statuses
  <2> QED
    BY <1>22, <2>3 DEF StageSetFinish, Promise!jobs
<1>23. ASSUME NEW i \in Instances, NEW s \in Stage, StoreFails(i, s) PROVE Promise!Next \/ UNCHANGED Promise!jobs
  BY <1>23, Unseen DEF StoreFails, Fault
<1>24. ASSUME NEW i \in Instances, NEW s \in Stage, Pass(i, s) PROVE Promise!Next \/ UNCHANGED Promise!jobs
  BY <1>24, Unseen DEF Pass
<1>25. ASSUME NEW i \in Instances, MarkError(i) PROVE Promise!Next \/ UNCHANGED Promise!jobs
  <2> DEFINE t == Head(errs[i])
  <2>1. t \in Task
    BY <1>25, TakeType DEF MarkError, TypeOK
  <2>2. {u \in Task : status'[u] # "none"} = listed
    BY <1>25, <2>1, MarksKeepTheList DEF MarkError, SetErr, Statuses
  <2>3. /\ lastId' = lastId /\ imports' = imports
        /\ marked' = IF status[t] = "none" THEN marked ELSE marked \cup {t}
    BY <1>25 DEF MarkError
  <2>4. (\E j \in Task : Promise!Report(j)) \/ UNCHANGED Promise!jobs
    BY <2>1, <2>2, <2>3 DEF Promise!Report, Promise!jobs
  <2> QED
    BY <2>4 DEF Promise!Next
<1>26. ASSUME NEW i \in Instances, MarkLost(i) PROVE Promise!Next \/ UNCHANGED Promise!jobs
  BY <1>26, Unseen DEF MarkLost, Fault
<1>27. ASSUME NEW t \in Task, Age(t) PROVE Promise!Next \/ UNCHANGED Promise!jobs
  BY <1>27, Unseen DEF Age
<1> QED
  BY <1>0, <1>1, <1>2, <1>3, <1>4, <1>5, <1>6, <1>7, <1>8, <1>9, <1>10, <1>11, <1>12, <1>13, <1>14, <1>15, <1>16, <1>17, <1>18, <1>19, <1>20, <1>21, <1>22, <1>23, <1>24, <1>25, <1>26, <1>27
     DEF Next, Goroutine, SourceStep, StageStep, FaultStep

\* The queue implements the abstract one: whatever the instances, their faults
\* and their crashes do to each other, its rows and imports go the way the
\* clients of module Jobs may rely on.
THEOREM QueueImplementsJobs == Spec => ImplementsJobs
<1>1. Init => Promise!Init
  BY DEF Init, Promise!Init
<1> QED
  BY <1>1, InitType, TypeStep, ImportedFirstInit, ImportedFirstStep,
     SubmittedOnlyInit, SubmittedOnlyStep, JobsStep, PTL
     DEF Spec, ImplementsJobs, Promise!Spec
-----------------------------------------------------------------------------
(* The runners: a started runner serves the task it was started for, with   *)
(* one instance a deleted row stays deleted, and each submission, stale      *)
(* stamp or lost Save is good for one import of the task by each instance,   *)
(* and no more.                                                             *)

HIDE DEF Task, Stage, NoTask, Statuses, RunnerStates, SourceStates

\* PromiseKept needs to know that only a running runner has a source, that the
\* context of a runner nothing interrupted is live, and that nothing is
\* promised to a task before its row is inserted.
PromiseInv ==
    /\ \A i \in Instances : runner[i] # "running" => source[i] = "closed"
    /\ \A i \in Instances : \A t \in calling[i] : t <= lastId
    /\ \A t \in Task : promised[t] # NoInstance => t <= lastId
    /\ \A t \in Task, i \in Instances :
          promised[t] = i /\ status[t] = "WAITING" /\ runner[i] \in {"starting", "running"}
              => ctx[i] = "live"
    /\ PromiseKept

\* Add gives out the next id, which has not been used.
LEMMA NextId ==
  ASSUME TypeOK, NEW i \in Instances, Add(i)
  PROVE  lastId \in Nat /\ lastId + 1 \in Task /\ lastId' = lastId + 1
  BY QueueAssumption DEF Add, TypeOK, TableType, Task

\* At the start nothing has been promised.
LEMMA PromiseInvInit == Init => PromiseInv
  BY QueueAssumption DEF Init, PromiseInv, PromiseKept

\* PromiseInv is inductive: a promise is made by Submit for an instance that
\* starts a runner, kept by Poll, taken back by whatever interrupts the runner,
\* and Timeout comes only after a query.
THEOREM PromiseInvStep == TypeOK /\ PromiseInv /\ [Next]_vars => PromiseInv'
<1> SUFFICES ASSUME TypeOK, PromiseInv, [Next]_vars PROVE PromiseInv'
  OBVIOUS
<1> USE QueueAssumption
    DEF table, caller, reader, flow, events, history, PromiseInv, PromiseKept,
        TypeOK, TableType, CallerType, ReaderType, HistoryType
<1>0. ASSUME UNCHANGED vars PROVE PromiseInv'
  BY <1>0 DEF vars
<1>1. ASSUME NEW i \in Instances, Add(i) PROVE PromiseInv'
  <2>1. lastId + 1 \in Task /\ lastId \in Nat /\ lastId' = lastId + 1
    BY <1>1, NextId
  <2>2. promised[lastId + 1] = NoInstance
    BY <2>1
  <2>3. \A t \in Task : t # lastId + 1 => status'[t] = status[t]
    BY <1>1, <2>1 DEF Add
  <2>4. \A j \in Instances : \A t \in calling'[j] : t \in calling[j] \/ t = lastId + 1
    BY <1>1 DEF Add
  <2>5. \A j \in Instances : \A t \in calling'[j] : t <= lastId'
    <3>1. \A j \in Instances : \A t \in calling[j] : t \in Nat /\ t <= lastId
      BY DEF Task
    <3> QED
      BY ONLY <2>1, <2>4, <3>1
  <2>6. \A t \in Task : promised[t] # NoInstance => t <= lastId'
    BY <2>1 DEF Task
  <2>7. UNCHANGED <<runner, source, ctx, quiet, promised>>
    BY <1>1 DEF Add
  <2> QED
    BY <2>1, <2>2, <2>3, <2>5, <2>6, <2>7
<1>2. ASSUME NEW i \in Instances, NEW t \in Task, SubmitRun(i, t) PROVE PromiseInv'
  BY <1>2 DEF SubmitRun
<1>3. ASSUME NEW i \in Instances, Run(i) PROVE PromiseInv'
  BY <1>3 DEF Run
<1>4. ASSUME NEW i \in Instances, SetCtx(i) PROVE PromiseInv'
  BY <1>4 DEF SetCtx
<1>5. ASSUME NEW i \in Instances, Stop(i) PROVE PromiseInv'
  BY <1>5 DEF Stop, Interrupted
<1>6. ASSUME NEW i \in Instances, Start(i) PROVE PromiseInv'
  BY <1>6 DEF Start
<1>7. ASSUME NEW i \in Instances, StartFails(i) PROVE PromiseInv'
  BY <1>7 DEF StartFails, Fault, Interrupted
<1>8. ASSUME NEW i \in Instances, Sweep(i) PROVE PromiseInv'
  BY <1>8 DEF Sweep, EmptyTask, Drained
<1>9. ASSUME NEW i \in Instances, Unlock(i) PROVE PromiseInv'
  BY <1>9 DEF Unlock
<1>10. ASSUME NEW i \in Instances, Crash(i) PROVE PromiseInv'
  BY <1>10 DEF Crash, Die, Interrupted
<1>11. ASSUME NEW i \in Instances, SweepPanics(i) PROVE PromiseInv'
  BY <1>11 DEF SweepPanics, Fault, Die, Interrupted
<1>12. ASSUME NEW i \in Instances, Poll(i) PROVE PromiseInv'
  BY <1>12 DEF Poll, Eligible
<1>13. ASSUME NEW i \in Instances, PollFails(i) PROVE PromiseInv'
  BY <1>13 DEF PollFails, Fault, CloseSource, Interrupted
<1>14. ASSUME NEW i \in Instances, Timeout(i) PROVE PromiseInv'
  BY <1>14 DEF Timeout, CloseSource
<1>15. ASSUME NEW i \in Instances, SeeCancel(i) PROVE PromiseInv'
  BY <1>15 DEF SeeCancel, CloseSource
<1>16. ASSUME NEW i \in Instances, Send(i) PROVE PromiseInv'
  BY <1>16 DEF Send
<1>17. ASSUME NEW i \in Instances, Save(i) PROVE PromiseInv'
  BY <1>17 DEF Save, SaveRow, Resume
<1>18. ASSUME NEW i \in Instances, SaveFails(i) PROVE PromiseInv'
  BY <1>18 DEF SaveFails, Fault, Resume
<1>19. ASSUME NEW i \in Instances, StageSetProcess(i) PROVE PromiseInv'
  BY <1>19 DEF StageSetProcess, SetProcess, Updated
<1>20. ASSUME NEW i \in Instances, NEW s \in Stage, StageWork(i, s) PROVE PromiseInv'
  BY <1>20 DEF StageWork
<1>21. ASSUME NEW i \in Instances, NEW s \in Stage, StageFails(i, s) PROVE PromiseInv'
  BY <1>21 DEF StageFails
<1>22. ASSUME NEW i \in Instances, StageSetFinish(i) PROVE PromiseInv'
  BY <1>22 DEF StageSetFinish, SetFinish, Updated
<1>23. ASSUME NEW i \in Instances, NEW s \in Stage, StoreFails(i, s) PROVE PromiseInv'
  BY <1>23 DEF StoreFails, Fault
<1>24. ASSUME NEW i \in Instances, NEW s \in Stage, Pass(i, s) PROVE PromiseInv'
  BY <1>24 DEF Pass
<1>25. ASSUME NEW i \in Instances, MarkError(i) PROVE PromiseInv'
  BY <1>25 DEF MarkError, SetErr, Updated
<1>26. ASSUME NEW i \in Instances, MarkLost(i) PROVE PromiseInv'
  BY <1>26 DEF MarkLost, Fault
<1>27. ASSUME NEW t \in Task, Age(t) PROVE PromiseInv'
  BY <1>27 DEF Age
<1> QED
  BY <1>0, <1>1, <1>2, <1>3, <1>4, <1>5, <1>6, <1>7, <1>8, <1>9, <1>10, <1>11, <1>12, <1>13, <1>14, <1>15, <1>16, <1>17, <1>18, <1>19, <1>20, <1>21, <1>22, <1>23, <1>24, <1>25, <1>26, <1>27
     DEF Next, Goroutine, SourceStep, StageStep, FaultStep

\* A runner that a task's own Submit started, and nothing interrupted, does not
\* close its source before it has looked for the task.
THEOREM PromisesAreKept == Spec => []PromiseKept
<1>1. PromiseInv => PromiseKept
  BY DEF PromiseInv
<1> QED
  BY <1>1, InitType, TypeStep, PromiseInvInit, PromiseInvStep, PTL DEF Spec

-----------------------------------------------------------------------------
(* One instance.                                                            *)

\* The source of a task that it has read and not yet saved finds its row: the
\* only instance there is sweeps after its source has closed.
ReadRowExists ==
    \A i \in Instances : source[i] \in {"holding", "saving"} => status[row[i]] # "none"

\* With one instance, the row the source has read and not saved yet is in the
\* table: only the sweep deletes, and it comes after the source has closed.
THEOREM ReadRowExistsStep ==
  ASSUME \A i, j \in Instances : i = j
  PROVE  TypeOK /\ ReadRowExists /\ [Next]_vars => ReadRowExists'
<1> SUFFICES ASSUME TypeOK, ReadRowExists, [Next]_vars PROVE ReadRowExists'
  OBVIOUS
<1> USE QueueAssumption
    DEF table, caller, reader, flow, events, history, ReadRowExists,
        TypeOK, TableType, CallerType, ReaderType
<1>0. ASSUME UNCHANGED vars PROVE ReadRowExists'
  BY <1>0 DEF vars
<1>1. ASSUME NEW i \in Instances, Add(i) PROVE ReadRowExists'
  BY <1>1 DEF Add
<1>2. ASSUME NEW i \in Instances, NEW t \in Task, SubmitRun(i, t) PROVE ReadRowExists'
  BY <1>2 DEF SubmitRun
<1>3. ASSUME NEW i \in Instances, Run(i) PROVE ReadRowExists'
  BY <1>3 DEF Run
<1>4. ASSUME NEW i \in Instances, SetCtx(i) PROVE ReadRowExists'
  BY <1>4 DEF SetCtx
<1>5. ASSUME NEW i \in Instances, Stop(i) PROVE ReadRowExists'
  BY <1>5 DEF Stop
<1>6. ASSUME NEW i \in Instances, Start(i) PROVE ReadRowExists'
  BY <1>6 DEF Start
<1>7. ASSUME NEW i \in Instances, StartFails(i) PROVE ReadRowExists'
  BY <1>7 DEF StartFails, Fault
<1>8. ASSUME NEW i \in Instances, Sweep(i) PROVE ReadRowExists'
  BY <1>8 DEF Sweep, EmptyTask, Drained
<1>9. ASSUME NEW i \in Instances, Unlock(i) PROVE ReadRowExists'
  BY <1>9 DEF Unlock
<1>10. ASSUME NEW i \in Instances, Crash(i) PROVE ReadRowExists'
  BY <1>10 DEF Crash, Die
<1>11. ASSUME NEW i \in Instances, SweepPanics(i) PROVE ReadRowExists'
  BY <1>11 DEF SweepPanics, Fault, Die
<1>12. ASSUME NEW i \in Instances, Poll(i) PROVE ReadRowExists'
  BY <1>12 DEF Poll, Eligible
<1>13. ASSUME NEW i \in Instances, PollFails(i) PROVE ReadRowExists'
  BY <1>13 DEF PollFails, Fault, CloseSource
<1>14. ASSUME NEW i \in Instances, Timeout(i) PROVE ReadRowExists'
  BY <1>14 DEF Timeout, CloseSource
<1>15. ASSUME NEW i \in Instances, SeeCancel(i) PROVE ReadRowExists'
  BY <1>15 DEF SeeCancel, CloseSource
<1>16. ASSUME NEW i \in Instances, Send(i) PROVE ReadRowExists'
  BY <1>16 DEF Send
<1>17. ASSUME NEW i \in Instances, Save(i) PROVE ReadRowExists'
  BY <1>17 DEF Save, SaveRow, Resume
<1>18. ASSUME NEW i \in Instances, SaveFails(i) PROVE ReadRowExists'
  BY <1>18 DEF SaveFails, Fault, Resume
<1>19. ASSUME NEW i \in Instances, StageSetProcess(i) PROVE ReadRowExists'
  BY <1>19 DEF StageSetProcess, SetProcess, Updated
<1>20. ASSUME NEW i \in Instances, NEW s \in Stage, StageWork(i, s) PROVE ReadRowExists'
  BY <1>20 DEF StageWork
<1>21. ASSUME NEW i \in Instances, NEW s \in Stage, StageFails(i, s) PROVE ReadRowExists'
  BY <1>21 DEF StageFails
<1>22. ASSUME NEW i \in Instances, StageSetFinish(i) PROVE ReadRowExists'
  BY <1>22 DEF StageSetFinish, SetFinish, Updated
<1>23. ASSUME NEW i \in Instances, NEW s \in Stage, StoreFails(i, s) PROVE ReadRowExists'
  BY <1>23 DEF StoreFails, Fault
<1>24. ASSUME NEW i \in Instances, NEW s \in Stage, Pass(i, s) PROVE ReadRowExists'
  BY <1>24 DEF Pass
<1>25. ASSUME NEW i \in Instances, MarkError(i) PROVE ReadRowExists'
  BY <1>25 DEF MarkError, SetErr, Updated
<1>26. ASSUME NEW i \in Instances, MarkLost(i) PROVE ReadRowExists'
  BY <1>26 DEF MarkLost, Fault
<1>27. ASSUME NEW t \in Task, Age(t) PROVE ReadRowExists'
  BY <1>27 DEF Age
<1> QED
  BY <1>0, <1>1, <1>2, <1>3, <1>4, <1>5, <1>6, <1>7, <1>8, <1>9, <1>10, <1>11, <1>12, <1>13, <1>14, <1>15, <1>16, <1>17, <1>18, <1>19, <1>20, <1>21, <1>22, <1>23, <1>24, <1>25, <1>26, <1>27
     DEF Next, Goroutine, SourceStep, StageStep, FaultStep

\* The steps that change a row.
LEMMA RowChanges ==
  ASSUME [Next]_vars
  PROVE  \/ status' = status
         \/ \E i \in Instances : \/ Add(i) \/ Sweep(i) \/ Save(i)
                                 \/ StageSetProcess(i) \/ StageSetFinish(i) \/ MarkError(i)
<1> USE DEF table
<1>1. CASE UNCHANGED vars
  BY <1>1 DEF vars
<1>2. ASSUME NEW i \in Instances, Goroutine(i) \/ SourceStep(i) \/ Timeout(i) \/ Run(i) \/ Stop(i)
      PROVE  status' = status \/ Sweep(i) \/ Save(i)
  BY <1>2 DEF Goroutine, SetCtx, Start, Unlock, SourceStep, Poll, SeeCancel, Send, Timeout, Run, Stop
<1>3. ASSUME NEW i \in Instances, NEW s \in Stage, StageStep(i, s)
      PROVE  status' = status \/ StageSetProcess(i) \/ StageSetFinish(i)
  BY <1>3 DEF StageStep, StageWork, StageFails, Pass
<1>4. ASSUME NEW i \in Instances, FaultStep(i) \/ Crash(i)
      PROVE  status' = status
  BY <1>4 DEF FaultStep, StartFails, PollFails, SaveFails, MarkLost, SweepPanics, StoreFails,
     Crash, Die
<1>5. ASSUME NEW t \in Task, (\E i \in Instances : SubmitRun(i, t)) \/ Age(t)
      PROVE  status' = status
  BY <1>5 DEF SubmitRun, Age
<1> QED
  BY <1>1, <1>2, <1>3, <1>4, <1>5 DEF Next

\* With one instance a deleted row never comes back, whatever fails: the late
\* Save of the source, an upsert, always finds the row that it read.
THEOREM DeletedRowsStayDeleted ==
  ASSUME \A i, j \in Instances : i = j
  PROVE  Spec => StaysDeleted
<1>1. Init => ReadRowExists
  BY DEF Init, ReadRowExists
<1>2. TypeOK /\ ReadRowExists /\ [Next]_vars =>
         [\A t \in Task : t <= lastId /\ status[t] = "none" => status'[t] = "none"]_vars
  <2> SUFFICES ASSUME TypeOK, ReadRowExists, [Next]_vars,
                      NEW t \in Task, t <= lastId, status[t] = "none"
               PROVE  status'[t] = "none"
    OBVIOUS
  <2>1. CASE status' = status
    BY <2>1
  <2>2. ASSUME NEW i \in Instances, Add(i) PROVE status'[t] = "none"
    BY <2>2, QueueAssumption DEF Add, TypeOK, TableType, Task
  <2>3. ASSUME NEW i \in Instances, Save(i) PROVE status'[t] = "none"
    BY <2>3 DEF Save, SaveRow, ReadRowExists, TypeOK, TableType
  <2>4. ASSUME NEW i \in Instances,
               Sweep(i) \/ StageSetProcess(i) \/ StageSetFinish(i) \/ MarkError(i)
        PROVE  status'[t] = "none"
    BY <2>4 DEF Sweep, EmptyTask, StageSetProcess, SetProcess, StageSetFinish, SetFinish,
       MarkError, SetErr, Updated, TypeOK, TableType
  <2> QED
    BY <2>1, <2>2, <2>3, <2>4, RowChanges
<1> QED
  BY <1>1, <1>2, InitType, TypeStep, ReadRowExistsStep, PTL DEF Spec, StaysDeleted

-----------------------------------------------------------------------------
(* How often a task is imported.                                            *)

\* The slots that hold a task on its way to an import, the instances that have
\* read its row and not yet sent it, and those that could still read the row: it
\* is eligible, and the instance is not holding it and has not just sent it.
Slots(t) == {p \in Instances \X Stage : pipe[p[1]][p[2]].task = t /\ ~Imported(p[1], p[2])}
Holders(t) == {i \in Instances : source[i] = "holding" /\ row[i] = t}
JustSent(i, t) == source[i] = "saving" /\ row[i] = t /\ pipe[i][1] = Arrived(t)
Takers(t) == {i \in Instances : t \in Eligible /\ i \notin Holders(t) /\ ~JustSent(i, t)}

\* A task that has not been submitted is nowhere.
Unborn(t) ==
    /\ status[t] = "none" /\ imports[t] = 0
    /\ \A i \in Instances : source[i] \in {"holding", "saving"} => row[i] # t
    /\ \A i \in Instances, s \in Stage : pipe[i][s].task # t
UnbornInv == \A t \in Task : t > lastId => Unborn(t)

\* Each round (a submission, a stamp grown stale, a lost Save) gives every
\* instance one attempt, which it has used, is using or can still use.
Rounds(t) == 1 + agings[t] + lostSaves[t]
AttemptsInv ==
    \A t \in Task :
        imports[t] + Cardinality(Slots(t)) + Cardinality(Holders(t)) + Cardinality(Takers(t))
            <= Cardinality(Instances) * Rounds(t)

\* What a step does to the attempts at a task.
SameRound(t) == agings'[t] = agings[t] /\ lostSaves'[t] = lostSaves[t]
Quiet(t) == SameRound(t) /\ imports'[t] = imports[t]

NoneGained(t) ==
    Quiet(t) /\ Slots(t)' \subseteq Slots(t) /\ Holders(t)' \subseteq Holders(t) /\ Takers(t)' \subseteq Takers(t)
Taken(t, i) ==
    /\ Quiet(t) /\ Slots(t)' \subseteq Slots(t)
    /\ Holders(t)' \subseteq Holders(t) \cup {i}
    /\ i \in Takers(t) /\ Takers(t)' \subseteq Takers(t) \ {i}
Sent(t, i) ==
    /\ Quiet(t) /\ Slots(t)' \subseteq Slots(t) \cup {<<i, 1>>}
    /\ i \in Holders(t) /\ Holders(t)' \subseteq Holders(t) \ {i}
    /\ Takers(t)' \subseteq Takers(t)
Handed(t, p, q) ==
    /\ Quiet(t) /\ p \in Slots(t) /\ Slots(t)' \subseteq (Slots(t) \ {p}) \cup {q}
    /\ Holders(t)' \subseteq Holders(t) /\ Takers(t)' \subseteq Takers(t)
ImportEnds(t, p) ==
    /\ SameRound(t) /\ imports'[t] = imports[t] + 1
    /\ p \in Slots(t) /\ Slots(t)' \subseteq Slots(t) \ {p}
    /\ Holders(t)' \subseteq Holders(t) /\ Takers(t)' \subseteq Takers(t)
Dropping(t, i, p) ==
    /\ Quiet(t) /\ p \in Slots(t) /\ Slots(t)' \subseteq Slots(t) \ {p}
    /\ Holders(t)' \subseteq Holders(t) /\ Takers(t)' \subseteq Takers(t) \cup {i}
Lost(t, i) ==
    /\ Quiet(t) /\ Slots(t)' \subseteq Slots(t)
    /\ i \in Holders(t) /\ Holders(t)' \subseteq Holders(t) \ {i}
    /\ Takers(t)' \subseteq Takers(t) \cup {i}
NewRound(t) ==
    /\ Rounds(t)' = Rounds(t) + 1 /\ imports'[t] = imports[t]
    /\ Slots(t)' \subseteq Slots(t) /\ Holders(t)' \subseteq Holders(t)
FirstRound(t) ==
    SameRound(t) /\ imports'[t] = 0 /\ Slots(t)' = {} /\ Holders(t)' = {}

Attempt(t) ==
    \/ NoneGained(t) \/ NewRound(t) \/ FirstRound(t)
    \/ \E i \in Instances : Taken(t, i) \/ Sent(t, i) \/ Lost(t, i)
    \/ \E i \in Instances, s \in Stage : ImportEnds(t, <<i, s>>) \/ Dropping(t, i, <<i, s>>)
    \/ \E i \in Instances, s \in Stage, r \in Stage : Handed(t, <<i, s>>, <<i, r>>)

\* The sets are finite.
LEMMA AttemptsFinite ==
  ASSUME NEW t
  PROVE  /\ IsFiniteSet(Slots(t)) /\ IsFiniteSet(Holders(t)) /\ IsFiniteSet(Takers(t))
         /\ IsFiniteSet(Slots(t)') /\ IsFiniteSet(Holders(t)') /\ IsFiniteSet(Takers(t)')
<1>1. IsFiniteSet(Stage)
  BY QueueAssumption, FS_Interval DEF Stage
<1>2. IsFiniteSet(Instances \X Stage)
  BY <1>1, InstancesAssumption, FS_Product
<1>3. /\ Slots(t) \in SUBSET (Instances \X Stage) /\ Slots(t)' \in SUBSET (Instances \X Stage)
      /\ Holders(t) \in SUBSET Instances /\ Holders(t)' \in SUBSET Instances
      /\ Takers(t) \in SUBSET Instances /\ Takers(t)' \in SUBSET Instances
  BY DEF Slots, Holders, Takers
<1> QED
  BY <1>2, <1>3, InstancesAssumption, FS_Subset

\* One more round gives every instance one more attempt.
LEMMA MoreRounds ==
  ASSUME NEW k \in Nat, NEW n \in Nat
  PROVE  k * n \in Nat /\ k * (n + 1) = k * n + k
  OBVIOUS

\* So no step that does one of these exceeds the attempts of the rounds.
LEMMA AttemptsKept ==
  ASSUME TypeOK, TypeOK', NEW t \in Task, Attempt(t),
         imports[t] + Cardinality(Slots(t)) + Cardinality(Holders(t)) + Cardinality(Takers(t))
            <= Cardinality(Instances) * Rounds(t)
  PROVE  imports'[t] + Cardinality(Slots(t)') + Cardinality(Holders(t)') + Cardinality(Takers(t)')
            <= Cardinality(Instances) * Rounds(t)'
<1> DEFINE S == Cardinality(Slots(t))
           H == Cardinality(Holders(t))
           T == Cardinality(Takers(t))
           K == Cardinality(Instances)
           n == Rounds(t)
<1>1. S \in Nat /\ H \in Nat /\ T \in Nat /\ S' \in Nat /\ H' \in Nat /\ T' \in Nat /\ K \in Nat
  BY AttemptsFinite, InstancesAssumption, FS_CardinalityType
<1>2. imports[t] \in Nat /\ imports'[t] \in Nat /\ n \in Nat \ {0} /\ n' \in Nat \ {0}
  <2>1. agings[t] \in Nat /\ lostSaves[t] \in Nat /\ agings'[t] \in Nat /\ lostSaves'[t] \in Nat
    BY QueueAssumption DEF TypeOK, HistoryType
  <2>2. imports[t] \in Nat /\ imports'[t] \in Nat
    BY DEF TypeOK, HistoryType
  <2> QED
    BY <2>1, <2>2 DEF Rounds
<1>3. SameRound(t) => n' = n
  BY DEF SameRound, Rounds
<1>4. /\ Slots(t)' \subseteq Slots(t) => S' <= S
      /\ Holders(t)' \subseteq Holders(t) => H' <= H
      /\ Takers(t)' \subseteq Takers(t) => T' <= T
  BY AttemptsFinite, SetSizes
<1>5. T' <= K
  BY InstancesAssumption, FS_Subset DEF Takers
<1>6. K * n \in Nat /\ K * n >= K /\ K * (n + 1) = K * n + K
  <2>1. n - 1 \in Nat /\ n = (n - 1) + 1
    BY <1>2
  <2> HIDE DEF K, n
  <2>2. K * (n - 1) \in Nat /\ K * ((n - 1) + 1) = K * (n - 1) + K
    BY <1>1, <2>1, MoreRounds
  <2>3. K * n \in Nat /\ K * (n + 1) = K * n + K
    BY <1>1, <1>2, MoreRounds
  <2> QED
    BY <1>1, <2>1, <2>2, <2>3
<1>7. CASE NoneGained(t)
  <2>1. imports'[t] = imports[t] /\ n' = n /\ S' <= S /\ H' <= H /\ T' <= T
    BY <1>3, <1>4, <1>7 DEF NoneGained, Quiet
  <2> HIDE DEF S, H, T, K, n
  <2> QED
    BY <1>1, <1>2, <2>1, <1>6 DEF S, H, T, K, n
<1>8. CASE NewRound(t)
  <2>1. imports'[t] = imports[t] /\ n' = n + 1 /\ S' <= S /\ H' <= H
    BY <1>3, <1>4, <1>8 DEF NewRound
  <2> HIDE DEF S, H, T, K, n
  <2>2. K * n' = K * n + K
    BY <1>6, <2>1
  <2> QED
    BY <1>1, <1>2, <1>5, <1>6, <2>1, <2>2 DEF S, H, T, K, n
<1>9. CASE FirstRound(t)
  <2>1. imports'[t] = 0 /\ n' = n /\ S' = 0 /\ H' = 0
    BY <1>3, <1>9, FS_EmptySet DEF FirstRound
  <2> HIDE DEF S, H, T, K, n
  <2> QED
    BY <1>1, <1>2, <1>5, <1>6, <2>1 DEF S, H, T, K, n
<1>10. CASE \E i \in Instances : Taken(t, i)
  <2>0. PICK i \in Instances : Taken(t, i)
    BY <1>10
  <2>1. imports'[t] = imports[t] /\ n' = n /\ S' <= S /\ H' <= H + 1 /\ T' + 1 <= T
    BY <1>3, <1>4, <2>0, SetSizes, AttemptsFinite DEF Taken, Quiet
  <2> HIDE DEF S, H, T, K, n
  <2> QED
    BY <1>1, <1>2, <1>5, <1>6, <2>1 DEF S, H, T, K, n
<1>11. CASE \E i \in Instances : Sent(t, i)
  <2>0. PICK i \in Instances : Sent(t, i)
    BY <1>11
  <2>1. imports'[t] = imports[t] /\ n' = n /\ S' <= S + 1 /\ H' + 1 <= H /\ T' <= T
    BY <1>3, <1>4, <2>0, SetSizes, AttemptsFinite DEF Sent, Quiet
  <2> HIDE DEF S, H, T, K, n
  <2> QED
    BY <1>1, <1>2, <1>5, <1>6, <2>1 DEF S, H, T, K, n
<1>12. CASE \E i \in Instances : Lost(t, i)
  <2>0. PICK i \in Instances : Lost(t, i)
    BY <1>12
  <2>1. imports'[t] = imports[t] /\ n' = n /\ S' <= S /\ H' + 1 <= H /\ T' <= T + 1
    BY <1>3, <1>4, <2>0, SetSizes, AttemptsFinite DEF Lost, Quiet
  <2> HIDE DEF S, H, T, K, n
  <2> QED
    BY <1>1, <1>2, <1>5, <1>6, <2>1 DEF S, H, T, K, n
<1>13. CASE \E i \in Instances, s \in Stage : ImportEnds(t, <<i, s>>)
  <2>0. PICK i \in Instances, s \in Stage : ImportEnds(t, <<i, s>>)
    BY <1>13
  <2>1. imports'[t] = imports[t] + 1 /\ n' = n /\ S' + 1 <= S /\ H' <= H /\ T' <= T
    BY <1>3, <1>4, <2>0, SetSizes, AttemptsFinite DEF ImportEnds
  <2> HIDE DEF S, H, T, K, n
  <2> QED
    BY <1>1, <1>2, <1>5, <1>6, <2>1 DEF S, H, T, K, n
<1>14. CASE \E i \in Instances, s \in Stage : Dropping(t, i, <<i, s>>)
  <2>0. PICK i \in Instances, s \in Stage : Dropping(t, i, <<i, s>>)
    BY <1>14
  <2>1. imports'[t] = imports[t] /\ n' = n /\ S' + 1 <= S /\ H' <= H /\ T' <= T + 1
    BY <1>3, <1>4, <2>0, SetSizes, AttemptsFinite DEF Dropping, Quiet
  <2> HIDE DEF S, H, T, K, n
  <2> QED
    BY <1>1, <1>2, <1>5, <1>6, <2>1 DEF S, H, T, K, n
<1>15. CASE \E i \in Instances, s, r \in Stage : Handed(t, <<i, s>>, <<i, r>>)
  <2>0. PICK i \in Instances, s \in Stage, r \in Stage : Handed(t, <<i, s>>, <<i, r>>)
    BY <1>15
  <2> DEFINE R == Slots(t) \ {<<i, s>>}
  <2>1. IsFiniteSet(R) /\ Cardinality(R) \in Nat /\ Cardinality(R) + 1 <= S
    <3>1. IsFiniteSet(R)
      BY AttemptsFinite, FS_RemoveElement
    <3>2. R \subseteq Slots(t) \ {<<i, s>>} /\ <<i, s>> \in Slots(t)
      BY <2>0 DEF Handed
    <3> HIDE DEF R
    <3> QED
      BY <3>1, <3>2, AttemptsFinite, SetSizes
  <2>2. S' <= Cardinality(R) + 1
    <3>1. Slots(t)' \subseteq R \cup {<<i, r>>}
      BY <2>0 DEF Handed
    <3> HIDE DEF R
    <3> QED
      BY <2>1, <3>1, AttemptsFinite, SetSizes
  <2>3. imports'[t] = imports[t] /\ n' = n /\ H' <= H /\ T' <= T
    BY <1>3, <1>4, <2>0 DEF Handed, Quiet
  <2> HIDE DEF S, H, T, K, n, R
  <2>4. S' <= S
    BY <1>1, <2>1, <2>2
  <2> QED
    BY <1>1, <1>2, <1>6, <2>3, <2>4 DEF S, H, T, K, n
<1> QED
  BY <1>7, <1>8, <1>9, <1>10, <1>11, <1>12, <1>13, <1>14, <1>15 DEF Attempt

-----------------------------------------------------------------------------
(* Every step is an attempt at a task, the next part of one, or nothing to it. *)

\* Nothing is gained where no slot and no source comes to the task, the row does
\* not become eligible, and no instance lets go of the row.
LEMMA NoneGainedIf ==
  ASSUME NEW t, Quiet(t), t \in Eligible' => t \in Eligible,
         \A i \in Instances, s \in Stage :
             pipe'[i][s].task = t /\ ~Imported(i, s)' => pipe[i][s].task = t /\ ~Imported(i, s),
         \A i \in Instances : source'[i] = "holding" /\ row'[i] = t => source[i] = "holding" /\ row[i] = t,
         \A i \in Instances : i \in Holders(t) \/ JustSent(i, t)
             => t \notin Eligible' \/ i \in Holders(t)' \/ JustSent(i, t)'
  PROVE  NoneGained(t)
<1>1. Slots(t)' \subseteq Slots(t)
  BY DEF Slots
<1>2. Holders(t)' \subseteq Holders(t)
  BY DEF Holders
<1>3. Takers(t)' \subseteq Takers(t)
  BY DEF Takers
<1> QED
  BY <1>1, <1>2, <1>3 DEF NoneGained

\* What the steps that leave the pipeline and the sources alone do.
LEMMA TableStep ==
  ASSUME NEW t, UNCHANGED <<pipe, source, row, imports, agings, lostSaves>>,
         t \in Eligible' => t \in Eligible
  PROVE  NoneGained(t)
  BY NoneGainedIf DEF Quiet, SameRound, Imported, Holders, JustSent

\* A source that opens or closes holds nothing.
LEMMA SourceMoves ==
  ASSUME TypeOK, NEW t, NEW i \in Instances, source[i] \in {"open", "closed"},
         NEW x \in {"open", "closed"}, source' = [source EXCEPT ![i] = x],
         UNCHANGED <<pipe, row, imports, agings, lostSaves>>, t \in Eligible' => t \in Eligible
  PROVE  NoneGained(t)
<1>1. source \in [Instances -> SourceStates]
  BY DEF TypeOK, ReaderType
<1>2. \A j \in Instances : source'[j] = IF j = i THEN x ELSE source[j]
  BY <1>1
<1> QED
  BY <1>2, NoneGainedIf DEF Quiet, SameRound, Imported, Holders, JustSent

\* The writes of a row: all but Add and Age leave it eligible at most where it was.
LEMMA WritesEligible ==
  ASSUME TypeOK, NEW t \in Task, NEW u \in Task
  PROVE  /\ SetProcess(u) \/ SaveRow(u) \/ SetFinish(u) \/ SetErr(u) \/ EmptyTask
                => (t \in Eligible' => t \in Eligible)
         /\ SetProcess(t) \/ SaveRow(t) => t \notin Eligible'
         /\ UNCHANGED <<status, stale>> => Eligible' = Eligible
  BY DEF SetProcess, SaveRow, SetFinish, SetErr, EmptyTask, Updated, Eligible, TypeOK, TableType

\* The first stage is not one that has imported, and is not the last but one.
LEMMA FirstStage == 1 \in Stage /\ LastStage \in Stage /\ LastStage # 1 /\ LastStage - 1 # 1
  BY QueueAssumption DEF Stage

\* A process that dies loses what its stages hold, and what its source does.
LEMMA DieAttempt ==
  ASSUME TypeOK, NEW i \in Instances, NEW t \in Task, Die(i)
  PROVE  Attempt(t)
<1>1. /\ \A j \in Instances, s \in Stage : pipe'[j][s] = IF j = i THEN Free ELSE pipe[j][s]
      /\ \A j \in Instances : source'[j] = IF j = i THEN "closed" ELSE source[j]
      /\ \A j \in Instances : j # i => row'[j] = row[j]
      /\ Eligible' = Eligible /\ Quiet(t)
  BY DEF Die, TypeOK, PipeType, ReaderType, Eligible, Quiet, SameRound, table
<1>2. t # Free.task
  BY DEF Free, NoTask, Task
<1>3. /\ Slots(t)' \subseteq Slots(t) /\ \A s \in Stage : <<i, s>> \notin Slots(t)'
  BY <1>1, <1>2 DEF Slots, Imported
<1>4. Holders(t)' \subseteq Holders(t) \ {i}
  BY <1>1 DEF Holders
<1>5. Takers(t)' \subseteq Takers(t) \cup {i}
  BY <1>1, FirstStage DEF Takers, Holders, JustSent
<1>6. CASE i \in Holders(t)
  BY <1>1, <1>3, <1>4, <1>5, <1>6 DEF Attempt, Lost
<1>7. CASE JustSent(i, t)
  <2>1. <<i, 1>> \in Slots(t)
    BY <1>7, FirstStage DEF Slots, JustSent, Arrived, Imported
  <2>2. Dropping(t, i, <<i, 1>>)
    BY <1>1, <1>3, <1>4, <1>5, <2>1, FirstStage DEF Dropping
  <2> QED
    BY <2>2, FirstStage DEF Attempt
<1>8. CASE i \notin Holders(t) /\ ~JustSent(i, t)
  <2>1. Takers(t)' \subseteq Takers(t)
    BY <1>1, <1>8, FirstStage DEF Takers, Holders, JustSent
  <2> QED
    BY <1>1, <1>3, <1>4, <2>1 DEF Attempt, NoneGained
<1> QED
  BY <1>6, <1>7, <1>8

\* The source takes the row it reads, and no other.
LEMMA PollAttempt ==
  ASSUME TypeOK, NEW i \in Instances, NEW t \in Task, Poll(i)
  PROVE  Attempt(t)
<1> USE DEF table, caller, flow, events, history
<1>1. /\ pipe' = pipe /\ Eligible' = Eligible /\ Quiet(t) /\ source[i] = "open"
  BY DEF Poll, Eligible, Quiet, SameRound
<1>2. CASE source' = source /\ row' = row
  BY <1>1, <1>2, NoneGainedIf DEF Attempt, Imported, Holders, JustSent
<1>3. ASSUME NEW u \in Eligible, row' = [row EXCEPT ![i] = u], source' = [source EXCEPT ![i] = "holding"]
      PROVE  Attempt(t)
  <2>1. /\ \A j \in Instances : source'[j] = IF j = i THEN "holding" ELSE source[j]
        /\ \A j \in Instances : row'[j] = IF j = i THEN u ELSE row[j]
    BY <1>3 DEF TypeOK, ReaderType
  <2>2. Slots(t)' = Slots(t)
    BY <1>1 DEF Slots, Imported
  <2>3. CASE u = t
    <3>1. i \in Takers(t)
      BY <1>1, <2>3 DEF Takers, Holders, JustSent
    <3>2. Holders(t)' \subseteq Holders(t) \cup {i} /\ i \in Holders(t)'
      BY <2>1, <2>3 DEF Holders
    <3>3. Takers(t)' \subseteq Takers(t) \ {i}
      BY <1>1, <2>1, <3>2 DEF Takers, Holders, JustSent
    <3> QED
      BY <1>1, <2>2, <3>1, <3>2, <3>3 DEF Attempt, Taken
  <2>4. CASE u # t
    <3>1. NoneGained(t)
      BY <1>1, <2>1, <2>4, NoneGainedIf DEF Imported, Holders, JustSent
    <3> QED
      BY <3>1 DEF Attempt
  <2> QED
    BY <2>3, <2>4
<1> QED
  BY <1>2, <1>3 DEF Poll

\* What the source sends goes to the first stage.
LEMMA SendAttempt ==
  ASSUME TypeOK, NEW i \in Instances, NEW t \in Task, Send(i)
  PROVE  Attempt(t)
<1> USE DEF table, caller, flow, events, history
<1>1. /\ \A j \in Instances, s \in Stage :
             pipe'[j][s] = IF j = i /\ s = 1 THEN Arrived(row[i]) ELSE pipe[j][s]
      /\ \A j \in Instances : source'[j] = IF j = i THEN "saving" ELSE source[j]
      /\ row' = row /\ Eligible' = Eligible /\ Quiet(t) /\ source[i] = "holding"
      /\ pipe[i][1].task = NoTask
  <2>1. \A j \in Instances, s \in Stage :
             pipe'[j][s] = IF j = i /\ s = 1 THEN Arrived(row[i]) ELSE pipe[j][s]
    BY FirstStage, SentSlots DEF TypeOK
  <2>2. \A j \in Instances : source'[j] = IF j = i THEN "saving" ELSE source[j]
    BY DEF Send, TypeOK, ReaderType
  <2> QED
    BY <2>1, <2>2 DEF Send, Eligible, Quiet, SameRound
<1>2. CASE row[i] = t
  <2>1. i \in Holders(t) /\ Holders(t)' \subseteq Holders(t) \ {i}
    BY <1>1, <1>2 DEF Holders
  <2>2. Slots(t)' \subseteq Slots(t) \cup {<<i, 1>>}
    BY <1>1 DEF Slots, Imported
  <2>3. JustSent(i, t)'
    BY <1>1, <1>2, FirstStage DEF JustSent
  <2>4. Takers(t)' \subseteq Takers(t)
    BY <1>1, <2>3, FirstStage DEF Takers, Holders, JustSent
  <2> QED
    BY <1>1, <2>1, <2>2, <2>4 DEF Attempt, Sent
<1>3. CASE row[i] # t
  <2>1. \A j \in Instances, s \in Stage : pipe'[j][s].task = t => pipe'[j][s] = pipe[j][s]
    BY <1>1, <1>3 DEF Arrived
  <2>2. NoneGained(t)
    BY <1>1, <1>3, <2>1, FirstStage, NoneGainedIf DEF Imported, Holders, JustSent
  <2> QED
    BY <2>2 DEF Attempt
<1> QED
  BY <1>2, <1>3

\* A stage that does its work keeps its task, or ends the import of it.
LEMMA WorkAttempt ==
  ASSUME TypeOK, NEW i \in Instances, NEW s \in Stage, NEW t \in Task,
         (StageSetProcess(i) /\ s = 1) \/ StageWork(i, s)
  PROVE  Attempt(t)
<1> USE DEF table, caller, reader, events, history
<1>1. /\ pipe[i][s].task # NoTask /\ pipe[i][s].phase = "before" /\ Finished(i, s)
      /\ source' = source /\ row' = row /\ SameRound(t)
  BY DEF StageSetProcess, StageWork, Working, SameRound
<1>2. \A j \in Instances, r \in Stage :
          pipe'[j][r] = IF j = i /\ r = s THEN Worked(pipe[i][s].task) ELSE pipe[j][r]
  BY <1>1, FinishedSlots DEF TypeOK
<1>3. /\ pipe'[i][s].task = pipe[i][s].task /\ pipe'[i][s].phase = "after"
      /\ \A j \in Instances, r \in Stage : j # i \/ r # s => pipe'[j][r] = pipe[j][r]
  BY <1>2 DEF Worked
<1>4. Holders(t)' = Holders(t)
  BY <1>1 DEF Holders
<1>5. Takers(t)' \subseteq Takers(t)
  <2>1. CASE StageSetProcess(i) /\ s = 1
    <3>1. pipe[i][1].task \in Task
      BY <1>1, <2>1, FirstStage, SlotType DEF TypeOK
    <3>2. t \in Eligible' => t \in Eligible /\ pipe[i][1].task # t
      BY <2>1, <3>1, WritesEligible DEF StageSetProcess
    <3>3. \A j \in Instances : JustSent(j, t) => t \notin Eligible' \/ JustSent(j, t)'
      BY <1>1, <1>3, <2>1, <3>2, FirstStage DEF JustSent, Arrived
    <3> QED
      BY <1>4, <3>2, <3>3 DEF Takers
  <2>2. CASE StageWork(i, s)
    <3>1. s # 1 /\ Eligible' = Eligible
      BY <2>2 DEF StageWork, Eligible
    <3>2. \A j \in Instances : JustSent(j, t)' <=> JustSent(j, t)
      BY <1>1, <1>3, <3>1, FirstStage DEF JustSent
    <3> QED
      BY <1>4, <3>1, <3>2 DEF Takers
  <2> QED
    BY <2>1, <2>2
<1>6. CASE s = LastStage - 1 /\ pipe[i][s].task = t
  <2>1. imports'[t] = imports[t] + 1
    BY <1>6, FirstStage DEF StageWork, TypeOK, HistoryType
  <2>2. <<i, s>> \in Slots(t)
    BY <1>1, <1>6, QueueAssumption DEF Slots, Imported
  <2>3. Slots(t)' \subseteq Slots(t) \ {<<i, s>>}
    <3>1. \A j \in Instances, r \in Stage :
              pipe'[j][r].task = t /\ ~Imported(j, r)'
                  => pipe[j][r].task = t /\ ~Imported(j, r) /\ (j # i \/ r # s)
      BY <1>3, <1>6 DEF Imported
    <3>2. \A p \in Slots(t)' : p[1] \in Instances /\ p[2] \in Stage /\ p = <<p[1], p[2]>>
      BY DEF Slots
    <3> QED
      BY <3>1, <3>2 DEF Slots
  <2>4. ImportEnds(t, <<i, s>>)
    BY <1>1, <1>4, <1>5, <2>1, <2>2, <2>3 DEF ImportEnds
  <2> QED
    BY <2>4 DEF Attempt
<1>7. CASE ~(s = LastStage - 1 /\ pipe[i][s].task = t)
  <2>1. imports'[t] = imports[t]
    BY <1>7 DEF StageSetProcess, StageWork, TypeOK, HistoryType
  <2>2. s # LastStage
    BY FirstStage, QueueAssumption DEF StageWork
  <2>3. Slots(t)' \subseteq Slots(t)
    BY <1>1, <1>3, <1>7, <2>2 DEF Slots, Imported
  <2> QED
    BY <1>1, <1>4, <1>5, <2>1, <2>3 DEF Attempt, NoneGained, Quiet
<1> QED
  BY <1>6, <1>7

\* A stage that drops its task loses an attempt, and gives none back but that of
\* the source that has just sent it.
LEMMA DropAttempt ==
  ASSUME TypeOK, NEW i \in Instances, NEW s \in Stage, NEW t \in Task,
         \/ StageFails(i, s) \/ StoreFails(i, s)
         \/ StageSetFinish(i) /\ s = LastStage
  PROVE  Attempt(t)
<1> USE DEF table, caller, reader, events, history
<1>1. /\ Working(i, s) /\ Dropped(i, s) /\ Quiet(t)
      /\ source' = source /\ row' = row
  BY DEF StageFails, StoreFails, StageSetFinish, Emit, Quiet, SameRound
<1>2. \A j \in Instances, r \in Stage :
          pipe'[j][r] = IF j = i /\ r = s THEN Free ELSE pipe[j][r]
  BY <1>1, DroppedSlots DEF TypeOK
<1>3. t # Free.task
  BY DEF Free, NoTask, Task
<1>4. Holders(t)' = Holders(t)
  BY <1>1 DEF Holders
<1>5. t \in Eligible' => t \in Eligible
  <2>1. CASE StageFails(i, s) \/ StoreFails(i, s)
    BY <2>1 DEF StageFails, StoreFails, Eligible
  <2>2. CASE StageSetFinish(i) /\ s = LastStage
    <3>1. pipe[i][LastStage].task \in Task
      BY <1>1, <2>2, SlotType DEF Working, TypeOK
    <3> QED
      BY <2>2, <3>1, WritesEligible DEF StageSetFinish
  <2> QED
    BY <2>1, <2>2
<1>6. Slots(t)' \subseteq Slots(t)
  BY <1>2, <1>3 DEF Slots, Imported
<1>7. CASE s = 1 /\ pipe[i][s].task = t
  <2>1. <<i, s>> \in Slots(t) /\ <<i, s>> \notin Slots(t)'
    BY <1>2, <1>3, <1>7, FirstStage DEF Slots, Imported
  <2>2. Takers(t)' \subseteq Takers(t) \cup {i}
    BY <1>1, <1>2, <1>4, <1>5, FirstStage DEF Takers, JustSent
  <2>3. Dropping(t, i, <<i, s>>)
    BY <1>1, <1>4, <1>6, <2>1, <2>2 DEF Dropping
  <2> QED
    BY <2>3 DEF Attempt
<1>8. CASE ~(s = 1 /\ pipe[i][s].task = t)
  <2>1. \A j \in Instances : JustSent(j, t) => JustSent(j, t)'
    BY <1>1, <1>2, <1>8, FirstStage DEF JustSent, Arrived
  <2>2. Takers(t)' \subseteq Takers(t)
    BY <1>4, <1>5, <2>1 DEF Takers
  <2> QED
    BY <1>1, <1>4, <1>6, <2>2 DEF Attempt, NoneGained
<1> QED
  BY <1>7, <1>8

\* A task that is handed on is in one slot before and in one after.
LEMMA PassAttempt ==
  ASSUME TypeOK, NEW i \in Instances, NEW s \in Stage, NEW t \in Task, Pass(i, s)
  PROVE  Attempt(t)
<1> USE DEF table, caller, reader, events, history
<1>1. /\ source' = source /\ row' = row /\ Quiet(t) /\ Eligible' = Eligible
      /\ pipe[i][s].phase = "after" /\ s # LastStage
  BY QueueAssumption DEF Pass, Quiet, SameRound, Eligible
<1>2. s + 1 \in Stage /\ s + 1 # s /\ s + 1 # 1
  BY QueueAssumption DEF Pass, Stage
<1>3. \A j \in Instances, r \in Stage :
          pipe'[j][r] = IF j = i /\ r = s THEN Free
                        ELSE IF j = i /\ r = s + 1 THEN Arrived(pipe[i][s].task) ELSE pipe[j][r]
  BY <1>2, PassedSlots DEF TypeOK
<1>4. t # Free.task /\ Arrived(pipe[i][s].task).task = pipe[i][s].task
  BY DEF Free, NoTask, Task, Arrived
<1>5. Holders(t)' = Holders(t)
  BY <1>1 DEF Holders
<1>6. \A j \in Instances : JustSent(j, t) => JustSent(j, t)'
  BY <1>1, <1>2, <1>3, FirstStage DEF JustSent, Arrived
<1>7. Takers(t)' \subseteq Takers(t)
  BY <1>1, <1>5, <1>6 DEF Takers
<1>8. CASE pipe[i][s].task = t /\ s # LastStage - 1
  <2>1. <<i, s>> \in Slots(t)
    BY <1>1, <1>8 DEF Slots, Imported
  <2>2. Slots(t)' \subseteq (Slots(t) \ {<<i, s>>}) \cup {<<i, s + 1>>}
    BY <1>3, <1>4 DEF Slots, Imported
  <2>3. Handed(t, <<i, s>>, <<i, s + 1>>)
    BY <1>1, <1>5, <1>7, <2>1, <2>2 DEF Handed
  <2> QED
    BY <1>2, <2>3 DEF Attempt
<1>9. CASE pipe[i][s].task = t /\ s = LastStage - 1
  <2>1. s + 1 = LastStage
    BY <1>9, QueueAssumption
  <2>2. Slots(t)' \subseteq Slots(t)
    BY <1>3, <1>4, <2>1 DEF Slots, Imported
  <2> QED
    BY <1>1, <1>5, <1>7, <2>2 DEF Attempt, NoneGained
<1>10. CASE pipe[i][s].task # t
  <2>1. Slots(t)' \subseteq Slots(t)
    BY <1>3, <1>4, <1>10 DEF Slots, Imported
  <2> QED
    BY <1>1, <1>5, <1>7, <2>1 DEF Attempt, NoneGained
<1> QED
  BY <1>8, <1>9, <1>10

\* The Save ends the eligibility of the row it writes, whichever source read it.
LEMMA SaveAttempt ==
  ASSUME TypeOK, NEW i \in Instances, NEW t \in Task, Save(i) \/ SaveFails(i)
  PROVE  Attempt(t)
<1> USE DEF table, caller, flow, events, history
<1>1. /\ \A j \in Instances : source'[j] = IF j = i THEN "open" ELSE source[j]
      /\ \A j \in Instances : row'[j] = IF j = i THEN NoTask ELSE row[j]
      /\ pipe' = pipe /\ imports' = imports /\ agings' = agings
      /\ source[i] = "saving" /\ row[i] \in Task
  BY DEF Save, SaveFails, Resume, TypeOK, ReaderType
<1>2. Slots(t)' = Slots(t) /\ Holders(t)' \subseteq Holders(t)
  BY <1>1 DEF Slots, Imported, Holders
<1>3. CASE SaveFails(i) /\ row[i] = t
  <2>1. lostSaves'[t] = lostSaves[t] + 1
    BY <1>3 DEF SaveFails, TypeOK, HistoryType
  <2>2. Rounds(t)' = Rounds(t) + 1
    BY <1>1, <2>1, QueueAssumption DEF Rounds, TypeOK, HistoryType
  <2> QED
    BY <1>1, <1>2, <2>2 DEF Attempt, NewRound
<1>4. CASE row[i] # t \/ Save(i)
  <2>1. Quiet(t)
    BY <1>1, <1>4 DEF Save, SaveFails, Quiet, SameRound, TypeOK, HistoryType
  <2>2. t \in Eligible' => t \in Eligible /\ row[i] # t
    BY <1>1, <1>4, WritesEligible DEF Save, SaveFails, Eligible
  <2>3. NoneGained(t)
    BY <1>1, <2>1, <2>2, NoneGainedIf DEF Imported, Holders, JustSent
  <2> QED
    BY <2>3 DEF Attempt
<1> QED
  BY <1>3, <1>4

-----------------------------------------------------------------------------
(* The bound.                                                               *)

\* A row that is inserted begins the first round of its task.
LEMMA AddAttempt ==
  ASSUME TypeOK, UnbornInv, NEW i \in Instances, NEW t \in Task, Add(i)
  PROVE  Attempt(t)
<1> USE DEF reader, flow, events, history
<1>1. lastId \in Nat /\ lastId + 1 \in Task
  BY NextId
<1>2. UNCHANGED <<pipe, source, row, imports, agings, lostSaves, stale>>
  BY DEF Add
<1>3. CASE t = lastId + 1
  <2>1. Unborn(t)
    BY <1>1, <1>3 DEF UnbornInv
  <2>2. imports'[t] = 0 /\ Slots(t)' = {} /\ Holders(t)' = {}
    BY <1>2, <2>1 DEF Unborn, Slots, Holders
  <2> QED
    BY <1>2, <2>2 DEF Attempt, FirstRound, SameRound
<1>4. CASE t # lastId + 1
  <2>1. status'[t] = status[t]
    BY <1>4 DEF Add, TypeOK, TableType
  <2>2. NoneGained(t)
    BY <1>2, <2>1, TableStep DEF Eligible
  <2> QED
    BY <2>2 DEF Attempt
<1> QED
  BY <1>3, <1>4

\* A stamp that grows stale begins a new round.
LEMMA AgeAttempt ==
  ASSUME TypeOK, NEW u \in Task, NEW t \in Task, Age(u)
  PROVE  Attempt(t)
<1> USE DEF caller, reader, flow, events
<1>1. UNCHANGED <<pipe, source, row, imports, lostSaves, status>>
  BY DEF Age
<1>2. Slots(t)' = Slots(t) /\ Holders(t)' = Holders(t)
  BY <1>1 DEF Slots, Imported, Holders
<1>3. CASE t = u
  <2>1. agings'[t] = agings[t] + 1
    BY <1>3 DEF Age, TypeOK, HistoryType
  <2>2. Rounds(t)' = Rounds(t) + 1
    BY <1>1, <2>1, QueueAssumption DEF Rounds, TypeOK, HistoryType
  <2> QED
    BY <1>1, <1>2, <2>2 DEF Attempt, NewRound
<1>4. CASE t # u
  <2>1. Quiet(t) /\ (t \in Eligible' => t \in Eligible)
    BY <1>1, <1>4 DEF Age, Quiet, SameRound, Eligible, TypeOK, HistoryType
  <2>2. NoneGained(t)
    BY <1>1, <2>1, NoneGainedIf DEF Imported, Holders, JustSent
  <2> QED
    BY <2>2 DEF Attempt
<1> QED
  BY <1>3, <1>4

\* What every step of the queue does to the attempts at a task.
LEMMA EveryAttempt ==
  ASSUME TypeOK, PromiseInv, UnbornInv, [Next]_vars, NEW t \in Task
  PROVE  Attempt(t)
<1> USE DEF table, caller, reader, flow, events, history
<1>1. CASE NoneGained(t)
  BY <1>1 DEF Attempt
<1>2. CASE UNCHANGED vars
  <2>1. NoneGained(t)
    BY <1>2, TableStep DEF vars, Eligible
  <2> QED
    BY <1>1, <2>1
<1>3. ASSUME NEW i \in Instances,
             \/ Run(i) \/ Stop(i) \/ SetCtx(i) \/ Unlock(i) \/ StartFails(i) \/ MarkLost(i)
             \/ \E u \in Task : SubmitRun(i, u)
      PROVE  Attempt(t)
  <2>1. UNCHANGED <<pipe, source, row, imports, agings, lostSaves, status, stale>>
    BY <1>3 DEF Run, Stop, SetCtx, Unlock, StartFails, MarkLost, SubmitRun
  <2>2. NoneGained(t)
    BY <2>1, TableStep DEF Eligible
  <2> QED
    BY <1>1, <2>2
<1>4. ASSUME NEW i \in Instances, Sweep(i) \/ MarkError(i) PROVE Attempt(t)
  <2>1. UNCHANGED <<pipe, source, row, imports, agings, lostSaves>>
    BY <1>4 DEF Sweep, MarkError, EmptyTask
  <2>2. MarkError(i) => Head(errs[i]) \in Task
    BY TakeType DEF MarkError, TypeOK
  <2>3. t \in Eligible' => t \in Eligible
    BY <1>4, <2>2, WritesEligible DEF Sweep, MarkError
  <2>4. NoneGained(t)
    BY <2>1, <2>3, TableStep
  <2> QED
    BY <1>1, <2>4
<1>5. ASSUME NEW i \in Instances, Start(i) \/ PollFails(i) \/ Timeout(i) \/ SeeCancel(i) PROVE Attempt(t)
  <2>1. source[i] \in {"open", "closed"}
    BY <1>5 DEF Start, PollFails, Timeout, SeeCancel, PromiseInv
  <2>2. /\ \E x \in {"open", "closed"} : source' = [source EXCEPT ![i] = x]
        /\ UNCHANGED <<pipe, row, imports, agings, lostSaves, status, stale>>
    BY <1>5 DEF Start, PollFails, Timeout, SeeCancel, CloseSource
  <2>3. Eligible' = Eligible
    BY <2>2 DEF Eligible
  <2>4. NoneGained(t)
    BY <2>1, <2>2, <2>3, SourceMoves
  <2> QED
    BY <1>1, <2>4
<1>6. ASSUME NEW i \in Instances, Crash(i) \/ SweepPanics(i) PROVE Attempt(t)
  BY <1>6, DieAttempt DEF Crash, SweepPanics
<1>7. ASSUME NEW i \in Instances, NEW s \in Stage, StageStep(i, s) \/ StoreFails(i, s) PROVE Attempt(t)
  BY <1>7, WorkAttempt, DropAttempt, PassAttempt DEF StageStep
<1> QED
  BY <1>2, <1>3, <1>4, <1>5, <1>6, <1>7, AddAttempt, AgeAttempt, PollAttempt, SendAttempt, SaveAttempt
     DEF Next, Goroutine, SourceStep, FaultStep

\* What is unborn stays so until its row is inserted.
LEMMA UnbornStep == TypeOK /\ UnbornInv /\ [Next]_vars => UnbornInv'
<1> SUFFICES ASSUME TypeOK, UnbornInv, [Next]_vars, NEW t \in Task, t > lastId'
             PROVE  Unborn(t)'
  BY DEF UnbornInv
<1> USE DEF table, caller, reader, flow, events, history, Unborn
<1>1. lastId \in Nat /\ lastId' \in Nat /\ lastId <= lastId'
  <2>1. lastId' = lastId \/ \E i \in Instances : Add(i)
    BY DEF Next, vars, Goroutine, SourceStep, StageStep, FaultStep, SubmitRun, Run, SetCtx, Stop, Start,
       StartFails, Sweep, EmptyTask, Unlock, Crash, SweepPanics, Die, Poll, PollFails, Timeout, SeeCancel, Send,
       Save, SaveFails, StageSetProcess, StageWork, StageFails, StageSetFinish, StoreFails, Pass,
       MarkError, MarkLost, Age
  <2>2. lastId \in Nat
    BY QueueAssumption DEF TypeOK, TableType
  <2> QED
    BY <2>1, <2>2, NextId
<1>2. t > lastId /\ Unborn(t)
  BY <1>1 DEF UnbornInv, Task
<1>3. t # NoTask /\ t # Free.task
  BY DEF Free, NoTask, Task
<1>4. ASSUME UNCHANGED <<status, imports, source, row, pipe>> PROVE Unborn(t)'
  BY <1>2, <1>4
<1>5. CASE UNCHANGED vars
  BY <1>4, <1>5 DEF vars
<1>6. ASSUME NEW i \in Instances,
             \/ Run(i) \/ Stop(i) \/ SetCtx(i) \/ Unlock(i) \/ StartFails(i) \/ MarkLost(i)
             \/ \E u \in Task : SubmitRun(i, u)
      PROVE  Unborn(t)'
  BY <1>4, <1>6 DEF Run, Stop, SetCtx, Unlock, StartFails, MarkLost, SubmitRun
<1>7. ASSUME NEW u \in Task, Age(u) PROVE Unborn(t)'
  BY <1>4, <1>7 DEF Age
<1>8. ASSUME NEW i \in Instances, Add(i) PROVE Unborn(t)'
  <2>1. t # lastId + 1 /\ status'[t] = status[t]
    BY <1>1, <1>8, NextId DEF Add, TypeOK, TableType, Task
  <2> QED
    BY <1>2, <1>8, <2>1 DEF Add
<1>9. ASSUME NEW i \in Instances, Sweep(i) \/ MarkError(i) PROVE Unborn(t)'
  <2>1. status'[t] = "none"
    BY <1>2, <1>9 DEF Sweep, EmptyTask, MarkError, SetErr, Updated, TypeOK, TableType
  <2> QED
    BY <1>2, <1>9, <2>1 DEF Sweep, EmptyTask, MarkError
<1>10. ASSUME NEW i \in Instances, Start(i) \/ PollFails(i) \/ Timeout(i) \/ SeeCancel(i) PROVE Unborn(t)'
  <2>1. \A j \in Instances : source'[j] \in {"open", "closed"} \/ source'[j] = source[j]
    BY <1>10 DEF Start, PollFails, Timeout, SeeCancel, CloseSource, TypeOK, ReaderType
  <2> QED
    BY <1>2, <1>10, <2>1 DEF Start, PollFails, Timeout, SeeCancel
<1>11. ASSUME NEW i \in Instances, Crash(i) \/ SweepPanics(i) PROVE Unborn(t)'
  <2>1. \A j \in Instances : /\ source'[j] = "closed" \/ (source'[j] = source[j] /\ row'[j] = row[j])
                             /\ \A s \in Stage : pipe'[j][s] \in {pipe[j][s], Free}
    BY <1>11 DEF Crash, SweepPanics, Die, TypeOK, ReaderType, PipeType
  <2>2. UNCHANGED <<status, imports>>
    BY <1>11 DEF Crash, SweepPanics, Die
  <2> QED
    BY <1>2, <1>3, <2>1, <2>2
<1>12. ASSUME NEW i \in Instances, Poll(i) PROVE Unborn(t)'
  <2>1. \A j \in Instances : \/ source'[j] = source[j] /\ row'[j] = row[j]
                             \/ row'[j] \in Eligible
    BY <1>12 DEF Poll, TypeOK, ReaderType
  <2>2. t \notin Eligible
    BY <1>2 DEF Eligible
  <2> QED
    BY <1>2, <1>12, <2>1, <2>2 DEF Poll
<1>13. ASSUME NEW i \in Instances, Send(i) PROVE Unborn(t)'
  <2>1. \A j \in Instances, s \in Stage : pipe'[j][s] \in {pipe[j][s], Arrived(row[i])}
    BY <1>13, SentSlots, FirstStage DEF TypeOK
  <2>2. row[i] # t /\ row' = row /\ UNCHANGED <<status, imports>>
    BY <1>2, <1>13 DEF Send
  <2>3. \A j \in Instances : source'[j] \in {"holding", "saving"} => source[j] \in {"holding", "saving"}
    BY <1>13 DEF Send, TypeOK, ReaderType
  <2> QED
    BY <1>2, <2>1, <2>2, <2>3 DEF Arrived
<1>14. ASSUME NEW i \in Instances, Save(i) \/ SaveFails(i) PROVE Unborn(t)'
  <2>1. row[i] # t /\ row[i] \in Task /\ UNCHANGED <<pipe, imports>>
    BY <1>2, <1>14 DEF Save, SaveFails, TypeOK, ReaderType
  <2>2. status'[t] = status[t]
    BY <1>14, <2>1 DEF Save, SaveFails, SaveRow, TypeOK, TableType
  <2>3. \A j \in Instances : source'[j] = "open" \/ (source'[j] = source[j] /\ row'[j] = row[j])
    BY <1>14 DEF Save, SaveFails, Resume, TypeOK, ReaderType
  <2> QED
    BY <1>2, <2>1, <2>2, <2>3
<1>15. ASSUME NEW i \in Instances, NEW s \in Stage, StageStep(i, s) \/ StoreFails(i, s) PROVE Unborn(t)'
  <2>1. pipe[i][s].task # t
    BY <1>2
  <2>2. UNCHANGED <<source, row>>
    BY <1>15 DEF StageStep, StageSetProcess, StageWork, StageFails, StageSetFinish, StoreFails, Pass
  <2>3. status'[t] = "none" /\ imports'[t] = 0
    BY <1>2, <1>15, <2>1 DEF StageStep, StageSetProcess, SetProcess, StageWork, StageFails, StageSetFinish,
       SetFinish, StoreFails, Pass, Updated, TypeOK, TableType, HistoryType
  <2>4. ASSUME NEW j \in Instances, NEW r \in Stage PROVE pipe'[j][r].task # t
    <3>1. CASE Dropped(i, s)
      <4>1. pipe'[j][r] \in {pipe[j][r], Free}
        BY <3>1, DroppedSlots DEF TypeOK
      <4> QED
        BY <1>2, <1>3, <4>1
    <3>2. CASE Finished(i, s)
      <4>1. pipe'[j][r] \in {pipe[j][r], Worked(pipe[i][s].task)}
        BY <3>2, FinishedSlots DEF TypeOK
      <4> QED
        BY <1>2, <2>1, <4>1 DEF Worked
    <3>3. CASE Pass(i, s)
      <4>1. s + 1 \in Stage
        BY <3>3, QueueAssumption DEF Pass, Stage
      <4>2. pipe'[j][r] \in {pipe[j][r], Free, Arrived(pipe[i][s].task)}
        BY <3>3, <4>1, PassedSlots DEF TypeOK
      <4> QED
        BY <1>2, <1>3, <2>1, <4>2 DEF Arrived
    <3> QED
      BY <1>15, <3>1, <3>2, <3>3 DEF StageStep, StageSetProcess, StageWork, StageFails, StageSetFinish,
         StoreFails, Emit
  <2> QED
    BY <1>2, <2>2, <2>3, <2>4
<1> QED
  BY <1>5, <1>6, <1>7, <1>8, <1>9, <1>10, <1>11, <1>12, <1>13, <1>14, <1>15
     DEF Next, Goroutine, SourceStep, FaultStep

\* A task is imported at most once per instance and round, whatever fails and
\* however the instances' steps interleave: the claim of a task in
\* taskSource.process is not atomic, and this is what the order of its query,
\* its send and its Save, and of SetProcess in the first stage, still gives.
THEOREM AttemptsAreBounded == Spec => []AttemptsBounded
<1>1. Init => UnbornInv
  BY DEF Init, UnbornInv, Unborn, Free, NoTask, Task
<1>2. Init => AttemptsInv
  <2> SUFFICES ASSUME Init, NEW t \in Task
               PROVE  imports[t] + Cardinality(Slots(t)) + Cardinality(Holders(t)) + Cardinality(Takers(t))
                         <= Cardinality(Instances) * Rounds(t)
    BY DEF AttemptsInv
  <2>1. t # Free.task
    BY DEF Free, NoTask, Task
  <2>2. Slots(t) = {} /\ Holders(t) = {} /\ Takers(t) = {}
    BY <2>1 DEF Init, Slots, Holders, Takers, Eligible
  <2>3. imports[t] = 0 /\ Rounds(t) = 1
    BY DEF Init, Rounds
  <2>4. Cardinality(Instances) \in Nat
    BY InstancesAssumption, FS_CardinalityType
  <2> QED
    BY <2>2, <2>3, <2>4, FS_EmptySet
<1>3. TypeOK /\ TypeOK' /\ PromiseInv /\ UnbornInv /\ AttemptsInv /\ [Next]_vars => AttemptsInv'
  BY EveryAttempt, AttemptsKept DEF AttemptsInv
<1>4. TypeOK /\ AttemptsInv => AttemptsBounded
  <2> SUFFICES ASSUME TypeOK, AttemptsInv, NEW t \in Task
               PROVE  imports[t] + Pending(t) <= Cardinality(Instances) * (1 + agings[t] + lostSaves[t])
    BY DEF AttemptsBounded
  <2>1. Pending(t) = Cardinality(Slots(t)) + Cardinality(Holders(t))
    BY DEF Pending, Slots, Holders
  <2>2. Cardinality(Slots(t)) \in Nat /\ Cardinality(Holders(t)) \in Nat /\ Cardinality(Takers(t)) \in Nat
    BY AttemptsFinite, FS_CardinalityType
  <2>3. imports[t] \in Nat /\ Cardinality(Instances) * Rounds(t) \in Nat
    <3>1. Rounds(t) \in Nat
      BY QueueAssumption DEF Rounds, TypeOK, HistoryType
    <3>2. Cardinality(Instances) \in Nat
      BY InstancesAssumption, FS_CardinalityType
    <3> QED
      BY <3>1, <3>2, MoreRounds DEF TypeOK, HistoryType
  <2>4. imports[t] + Cardinality(Slots(t)) + Cardinality(Holders(t)) + Cardinality(Takers(t))
            <= Cardinality(Instances) * Rounds(t)
    BY DEF AttemptsInv
  <2> HIDE DEF Slots, Holders, Takers
  <2> QED
    BY <2>1, <2>2, <2>3, <2>4 DEF Rounds
<1> QED
  BY <1>1, <1>2, <1>3, <1>4, InitType, TypeStep, PromiseInvInit, PromiseInvStep, UnbornStep, PTL DEF Spec

-----------------------------------------------------------------------------
(* With one instance, what the stages do to a row that is settled.          *)

\* Where a task is: failed and still to be marked, in some stages, or with the
\* source, which has it still to send or still to save.
InErrs(t) == \E i \in Instances : \E k \in DOMAIN errs[i] : errs[i][k] = t
InStages(t, S) == \E i \in Instances, s \in S : pipe[i][s].task = t
Held(t) == InErrs(t) \/ InStages(t, Stage)
Holding(t) == \E i \in Instances : source[i] = "holding" /\ row[i] = t
Saving(t) == \E i \in Instances : source[i] = "saving" /\ row[i] = t
Arrives(t) == \E i \in Instances : pipe[i][1] = Arrived(t)

\* As long as no stamp of it grew stale and no Save was lost, a task is sent
\* once: while it waits in the table nobody has it but a source that has just
\* sent it, and when it is new to the first stage it is nowhere else, and its
\* row, once saved, is in PROCESS.
FirstRun(t) == agings[t] = 0 /\ lostSaves[t] = 0
Once(t) ==
    FirstRun(t) =>
      /\ t \notin stale
      /\ Held(t) => t <= lastId /\ (Saving(t) \/ status[t] # "WAITING")
      /\ Holding(t) => ~Held(t)
      /\ Arrives(t) => /\ Saving(t) \/ status[t] = "PROCESS"
                       /\ ~InErrs(t) /\ ~InStages(t, Stage \ {1})
SentOnce == \A t \in Task : Once(t)

\* A task that has had another round has had it for good.
LEMMA FirstRunStays ==
  ASSUME TypeOK, [Next]_vars, NEW t \in Task, FirstRun(t)'
  PROVE  FirstRun(t)
<1>1. agings[t] \in Nat /\ lostSaves[t] \in Nat
  BY QueueAssumption DEF TypeOK, HistoryType
<1>2. agings' = agings \/ \E u \in Task : Age(u)
  BY DEF Next, vars, events, history, Goroutine, SourceStep, StageStep, FaultStep, Add, SubmitRun, Run, SetCtx, Stop,
     Start, StartFails, Sweep, Unlock, Crash, SweepPanics, Die, Poll, PollFails, Timeout, SeeCancel, Send,
     Save, SaveFails, StageSetProcess, StageWork, StageFails, StageSetFinish, StoreFails, Pass, MarkError, MarkLost
<1>3. lostSaves' = lostSaves \/ \E i \in Instances : SaveFails(i)
  BY DEF Next, vars, events, history, Goroutine, SourceStep, StageStep, FaultStep, Add, SubmitRun, Run, SetCtx, Stop,
     Start, StartFails, Sweep, Unlock, Crash, SweepPanics, Die, Poll, PollFails, Timeout, SeeCancel, Send,
     Save, StageSetProcess, StageWork, StageFails, StageSetFinish, StoreFails, Pass, MarkError, MarkLost, Age
<1>4. agings'[t] = agings[t] \/ agings'[t] = agings[t] + 1
  BY <1>2 DEF Age, TypeOK, HistoryType
<1>5. lostSaves'[t] = lostSaves[t] \/ lostSaves'[t] = lostSaves[t] + 1
  BY <1>3 DEF SaveFails, TypeOK, HistoryType
<1> QED
  BY <1>1, <1>4, <1>5 DEF FirstRun

\* The channel after one more task has failed.
LEMMA EmitAppends ==
  ASSUME TypeOK, NEW i \in Instances, NEW s \in Stage, Emit(i, s)
  PROVE  \A j \in Instances : \A k \in DOMAIN errs'[j] :
             \/ \E m \in DOMAIN errs[j] : errs[j][m] = errs'[j][k]
             \/ j = i /\ errs'[j][k] = pipe[i][s].task
<1>1. errs[i] \in Seq(Task) /\ errs \in [Instances -> Seq(Task)]
  BY DEF TypeOK, ErrsType
<1>2. \A j \in Instances : errs'[j] = IF j = i THEN Append(errs[i], pipe[i][s].task) ELSE errs[j]
  BY <1>1 DEF Emit
<1>3. DOMAIN errs[i] = 1..Len(errs[i])
  BY <1>1
<1>4. \A k \in DOMAIN Append(errs[i], pipe[i][s].task) :
          \/ k \in DOMAIN errs[i] /\ Append(errs[i], pipe[i][s].task)[k] = errs[i][k]
          \/ Append(errs[i], pipe[i][s].task)[k] = pipe[i][s].task
  <2> DEFINE x == pipe[i][s].task
             S == Task \cup {x}
  <2>1. errs[i] \in Seq(S) /\ x \in S
    BY <1>1
  <2> HIDE DEF x, S
  <2>2. /\ Len(Append(errs[i], x)) = Len(errs[i]) + 1 /\ Len(errs[i]) \in Nat
        /\ DOMAIN Append(errs[i], x) = 1..(Len(errs[i]) + 1)
        /\ \A k \in 1..Len(errs[i]) : Append(errs[i], x)[k] = errs[i][k]
        /\ Append(errs[i], x)[Len(errs[i]) + 1] = x
    BY <2>1, AppendProperties, LenProperties
  <2>3. \A k \in DOMAIN Append(errs[i], x) : k \in 1..Len(errs[i]) \/ k = Len(errs[i]) + 1
    BY <2>2
  <2>4. \A k \in DOMAIN Append(errs[i], x) :
          \/ k \in DOMAIN errs[i] /\ Append(errs[i], x)[k] = errs[i][k]
          \/ Append(errs[i], x)[k] = x
    BY <1>3, <2>2, <2>3
  <2> QED
    BY <2>4 DEF x
<1> QED
  BY <1>2, <1>4

\* The channel after its first task has been taken.
LEMMA TakenFromErrs ==
  ASSUME TypeOK, NEW i \in Instances, errs[i] # <<>>, errs' = [errs EXCEPT ![i] = Tail(@)]
  PROVE  \A j \in Instances : \A k \in DOMAIN errs'[j] : \E m \in DOMAIN errs[j] : errs[j][m] = errs'[j][k]
<1>1. errs[i] \in Seq(Task) /\ errs \in [Instances -> Seq(Task)]
  BY DEF TypeOK, ErrsType
<1>2. \A j \in Instances : errs'[j] = IF j = i THEN Tail(errs[i]) ELSE errs[j]
  BY <1>1
<1>3. /\ DOMAIN errs[i] = 1..Len(errs[i]) /\ Len(errs[i]) \in Nat
      /\ DOMAIN Tail(errs[i]) = 1..(Len(errs[i]) - 1)
      /\ \A k \in 1..(Len(errs[i]) - 1) : Tail(errs[i])[k] = errs[i][k + 1]
  BY <1>1, HeadTailProperties, LenProperties
<1>4. \A k \in DOMAIN Tail(errs[i]) : k + 1 \in DOMAIN errs[i] /\ Tail(errs[i])[k] = errs[i][k + 1]
  BY <1>3
<1> QED
  BY <1>2, <1>4

\* A stage's step leaves a task at most where it was or one stage on, and brings
\* nothing new to the first.
LEMMA StagesMove ==
  ASSUME \A j, k \in Instances : j = k, TypeOK, NEW t \in Task,
         NEW i \in Instances, NEW s \in Stage, StageStep(i, s) \/ StoreFails(i, s)
  PROVE  /\ Held(t)' => Held(t)
         /\ Arrives(t)' => Arrives(t) /\ s # 1
         /\ s # 1 /\ ~InErrs(t) /\ ~InStages(t, Stage \ {1}) => ~InErrs(t)' /\ ~InStages(t, Stage \ {1})'
<1>1. 1 \in Stage /\ t # Free.task /\ PipeType
  BY FirstStage DEF Free, NoTask, Task, TypeOK
<1>2. CASE Emit(i, s)
  <2>1. /\ \A r \in Stage : pipe'[i][r] = IF r = s THEN Free ELSE pipe[i][r]
        /\ \A k \in DOMAIN errs'[i] : \/ \E m \in DOMAIN errs[i] : errs[i][m] = errs'[i][k]
                                      \/ errs'[i][k] = pipe[i][s].task
    BY <1>1, <1>2, DroppedSlots, EmitAppends DEF Emit
  <2> QED
    BY <1>1, <2>1 DEF Held, InErrs, InStages, Arrives, Arrived, Free
<1>3. CASE errs' = errs /\ ((Dropped(i, s) /\ s # 1) \/ Finished(i, s))
  <2>1. \A r \in Stage : pipe'[i][r] = IF r # s THEN pipe[i][r]
                                       ELSE IF Dropped(i, s) /\ s # 1 THEN Free ELSE Worked(pipe[i][s].task)
    BY <1>1, <1>3, DroppedSlots, FinishedSlots
  <2> QED
    BY <1>1, <1>3, <2>1 DEF Held, InErrs, InStages, Arrives, Arrived, Worked, Free
<1>4. CASE Pass(i, s)
  <2>1. s + 1 \in Stage /\ s + 1 # 1 /\ s # s + 1
    BY <1>4, QueueAssumption DEF Pass, Stage
  <2>2. /\ \A r \in Stage : pipe'[i][r] = IF r = s THEN Free
                                          ELSE IF r = s + 1 THEN Arrived(pipe[i][s].task) ELSE pipe[i][r]
        /\ errs' = errs
    <3>1. errs' = errs
      BY <1>4 DEF Pass
    <3> QED
      BY <1>1, <1>4, <2>1, <3>1, PassedSlots
  <2>3. \A r \in Stage : pipe'[i][r].task = t => pipe[i][IF r = s + 1 THEN s ELSE r].task = t /\ r # s
    BY <1>1, <2>1, <2>2 DEF Arrived
  <2>4. Held(t)' => Held(t)
    BY <2>2, <2>3 DEF Held, InErrs, InStages
  <2>5. ASSUME Arrives(t)' PROVE Arrives(t) /\ s # 1
    BY <1>1, <2>1, <2>2, <2>5 DEF Arrives, Arrived, Free
  <2>6. ASSUME s # 1, InStages(t, Stage \ {1})' PROVE InStages(t, Stage \ {1})
    BY <2>1, <2>3, <2>6 DEF InStages
  <2> QED
    BY <2>2, <2>4, <2>5, <2>6 DEF InErrs
<1>5. Emit(i, s) \/ Pass(i, s) \/ (errs' = errs /\ ((Dropped(i, s) /\ s # 1) \/ Finished(i, s)))
  BY FirstStage DEF StageStep, StoreFails, StageSetProcess, StageWork, StageFails, StageSetFinish, Finished
<1> QED
  BY <1>2, <1>3, <1>4, <1>5

\* A step that leaves the stages, the table and what the sources hold as they are.
LEMMA NobodyTouches ==
  ASSUME NEW t \in Task, Once(t), FirstRun(t)' => FirstRun(t),
         UNCHANGED <<pipe, errs, lastId>>, status'[t] = status[t], t \in stale' => t \in stale,
         \A i \in Instances : source'[i] \in {"holding", "saving"} => source'[i] = source[i] /\ row'[i] = row[i],
         \A i \in Instances : source[i] = "saving" => source'[i] = source[i] /\ row'[i] = row[i]
  PROVE  Once(t)'
BY DEF Once, Held, InErrs, InStages, Holding, Saving, Arrives, Arrived

\* What a step does to the row of a task.
LEMMA SentOnceStep ==
  ASSUME \A i, j \in Instances : i = j
  PROVE  TypeOK /\ SubmittedOnly /\ PromiseInv /\ SentOnce /\ [Next]_vars => SentOnce'
<1> SUFFICES ASSUME TypeOK, SubmittedOnly, PromiseInv, SentOnce, [Next]_vars,
                    NEW t \in Task, FirstRun(t)'
             PROVE  Once(t)'
  BY DEF SentOnce, Once
<1> USE DEF table, caller, reader, flow, events, history
<1>1. FirstRun(t) /\ Once(t) /\ t \notin stale
  BY FirstRunStays DEF SentOnce, Once
<1>2. /\ status \in [Task -> Statuses] /\ stale \subseteq Task /\ lastId \in Nat
      /\ source \in [Instances -> SourceStates] /\ row \in [Instances -> Task \cup {NoTask}]
      /\ PipeType /\ 1 \in Stage
  BY FirstStage, QueueAssumption DEF TypeOK, TableType, ReaderType
<1>3. CASE UNCHANGED vars
  BY <1>1, <1>3, NobodyTouches DEF vars
<1>4. ASSUME NEW i \in Instances,
             \/ Run(i) \/ Stop(i) \/ SetCtx(i) \/ Unlock(i) \/ StartFails(i)
             \/ \E u \in Task : SubmitRun(i, u)
      PROVE  Once(t)'
  BY <1>1, <1>4, NobodyTouches DEF Run, Stop, SetCtx, Unlock, StartFails, SubmitRun
<1>5. ASSUME NEW i \in Instances, Start(i) \/ PollFails(i) \/ Timeout(i) \/ SeeCancel(i)
      PROVE  Once(t)'
  <2>1. /\ UNCHANGED <<pipe, errs, lastId, status, stale, row>>
        /\ \A j \in Instances : /\ source'[j] \in {"open", "closed"} \/ source'[j] = source[j]
                                /\ source[j] = "saving" => source'[j] = source[j]
    BY <1>2, <1>5 DEF Start, PollFails, Timeout, SeeCancel, CloseSource, PromiseInv
  <2> QED
    BY <1>1, <2>1, NobodyTouches
<1>6. ASSUME NEW u \in Task, Age(u) PROVE Once(t)'
  <2>1. UNCHANGED <<pipe, errs, lastId, status, source, row>> /\ stale' = stale \cup {u}
        /\ agings' = [agings EXCEPT ![u] = @ + 1]
    BY <1>6 DEF Age
  <2>2. t # u
    BY <1>1, <2>1 DEF FirstRun, TypeOK, HistoryType
  <2> QED
    BY <1>1, <2>1, <2>2, NobodyTouches
<1>7. ASSUME NEW i \in Instances, Add(i) PROVE Once(t)'
  <2>1. UNCHANGED <<pipe, errs, stale, source, row>> /\ lastId' = lastId + 1
        /\ status'[t] = IF t = lastId + 1 THEN "WAITING" ELSE status[t]
    BY <1>2, <1>7 DEF Add
  <2>2. t = lastId + 1 => ~Held(t)
    BY <1>1, <1>2 DEF Once
  <2>3. Arrives(t) => Held(t)
    BY <1>2 DEF Arrives, Held, InStages, Arrived
  <2>4. /\ Held(t)' = Held(t) /\ InErrs(t)' = InErrs(t) /\ Arrives(t)' = Arrives(t)
        /\ InStages(t, Stage \ {1})' = InStages(t, Stage \ {1})
        /\ Holding(t)' = Holding(t) /\ Saving(t)' = Saving(t)
    BY <2>1 DEF Held, InErrs, InStages, Holding, Saving, Arrives, Arrived
  <2>5. t <= lastId => t <= lastId'
    BY <1>2, <2>1 DEF Task
  <2> QED
    BY <1>1, <2>1, <2>2, <2>3, <2>4, <2>5 DEF Once
<1>8. ASSUME NEW i \in Instances, Sweep(i) PROVE Once(t)'
  <2>1. /\ UNCHANGED <<pipe, errs, lastId, stale, source, row>>
        /\ status'[t] = IF status[t] = "FINISH" THEN "none" ELSE status[t]
        /\ \A s \in Stage : pipe[i][s].task = NoTask
    BY <1>2, <1>8 DEF Sweep, EmptyTask, Drained
  <2>2. ~Arrives(t)
    BY <1>2, <2>1 DEF Arrives, Arrived, NoTask, Task
  <2> QED
    BY <1>1, <2>1, <2>2 DEF Once, Held, InErrs, InStages, Holding, Saving, Arrives, Arrived
<1>9. ASSUME NEW i \in Instances, Crash(i) \/ SweepPanics(i) PROVE Once(t)'
  <2>1. Die(i)
    BY <1>9 DEF Crash, SweepPanics
  <2>2. /\ \A j \in Instances, s \in Stage : pipe'[j][s] = Free
        /\ \A j \in Instances : errs'[j] = <<>>
        /\ stale' = stale
    BY <1>2, <2>1 DEF Die, TypeOK, PipeType, ErrsType
  <2>3. ~Held(t)'
    BY <2>2 DEF Held, InErrs, InStages, Free, NoTask, Task
  <2>4. ~Arrives(t)'
    BY <1>2, <2>2 DEF Arrives, Arrived, Free, NoTask, Task
  <2> QED
    BY <1>1, <2>2, <2>3, <2>4 DEF Once
<1>10. ASSUME NEW i \in Instances, Poll(i) PROVE Once(t)'
  <2>1. UNCHANGED <<pipe, errs, lastId, stale, status>>
    BY <1>10 DEF Poll
  <2>2. /\ source[i] = "open" /\ source'[i] \in {"open", "holding"}
        /\ source'[i] = "holding" => row'[i] \in Eligible
    BY <1>2, <1>10 DEF Poll
  <2>3. ~Saving(t)
    BY <2>2 DEF Saving
  <2>4. ASSUME Holding(t)' PROVE ~Held(t)
    <3>1. t \in Eligible
      BY <2>2, <2>4 DEF Holding
    <3> QED
      BY <1>1, <2>3, <3>1 DEF Eligible, Once
  <2> QED
    BY <1>1, <2>1, <2>3, <2>4 DEF Once, Held, InErrs, InStages, Arrives, Arrived
<1>11. ASSUME NEW i \in Instances, Send(i) PROVE Once(t)'
  <2>1. /\ UNCHANGED <<errs, lastId, stale, status, row>>
        /\ source[i] = "holding" /\ source'[i] = "saving"
        /\ \A r \in Stage : pipe'[i][r] = IF r = 1 THEN Arrived(row[i]) ELSE pipe[i][r]
    <3>1. \A r \in Stage : pipe'[i][r] = IF r = 1 THEN Arrived(row[i]) ELSE pipe[i][r]
      BY <1>2, <1>11, SentSlots
    <3> QED
      BY <1>2, <1>11, <3>1 DEF Send
  <2>2. ~Holding(t)' /\ ~Saving(t)
    BY <2>1 DEF Holding, Saving
  <2>3. CASE row[i] = t
    <3>1. ~Held(t) /\ t <= lastId
      BY <1>1, <2>1, <2>3 DEF Once, Holding, SubmittedOnly
    <3>2. Saving(t)'
      BY <2>1, <2>3 DEF Saving
    <3>3. ~InErrs(t)' /\ ~InStages(t, Stage \ {1})'
      BY <2>1, <3>1 DEF Held, InErrs, InStages
    <3> QED
      BY <1>1, <2>1, <2>2, <3>1, <3>2, <3>3 DEF Once
  <2>4. CASE row[i] # t
    <3>1. Held(t)' => Held(t)
      BY <2>1, <2>4 DEF Held, InErrs, InStages, Arrived
    <3>2. ~Arrives(t)'
      BY <1>2, <2>1, <2>4 DEF Arrives, Arrived
    <3> QED
      BY <1>1, <2>1, <2>2, <3>1, <3>2 DEF Once
  <2> QED
    BY <2>3, <2>4
<1>12. ASSUME NEW i \in Instances, Save(i) PROVE Once(t)'
  <2>1. /\ UNCHANGED <<pipe, errs, lastId>> /\ t \notin stale'
        /\ source[i] = "saving" /\ source'[i] = "open"
        /\ status'[t] = IF t = row[i] THEN "PROCESS" ELSE status[t]
    BY <1>1, <1>2, <1>12 DEF Save, SaveRow, Resume
  <2>2. ~Holding(t)' /\ (Saving(t) => t = row[i])
    BY <2>1 DEF Holding, Saving
  <2> QED
    BY <1>1, <2>1, <2>2 DEF Once, Held, InErrs, InStages, Arrives, Arrived
<1>13. ASSUME NEW i \in Instances, SaveFails(i) PROVE Once(t)'
  <2>1. /\ UNCHANGED <<pipe, errs, lastId, stale, status>>
        /\ source[i] = "saving" /\ source'[i] = "open"
        /\ lostSaves' = [lostSaves EXCEPT ![row[i]] = @ + 1] /\ row[i] \in Task
    BY <1>2, <1>13 DEF SaveFails, Resume, TypeOK, ReaderType
  <2>2. t # row[i]
    BY <1>1, <2>1 DEF FirstRun, TypeOK, HistoryType
  <2>3. ~Holding(t)' /\ ~Saving(t)
    BY <2>1, <2>2 DEF Holding, Saving
  <2> QED
    BY <1>1, <2>1, <2>3 DEF Once, Held, InErrs, InStages, Arrives, Arrived
<1>14. ASSUME NEW i \in Instances, NEW s \in Stage, StageStep(i, s) \/ StoreFails(i, s) PROVE Once(t)'
  <2>1. UNCHANGED <<source, row, lastId>>
    BY <1>14 DEF StageStep, StageSetProcess, StageWork, StageFails, StageSetFinish, StoreFails, Pass
  <2>2. t \notin stale' /\ (status'[t] = "WAITING" => status[t] = "WAITING")
    BY <1>1, <1>2, <1>14 DEF StageStep, StageSetProcess, SetProcess, StageWork, StageFails, StageSetFinish,
       SetFinish, StoreFails, Pass, Updated
  <2>3. ASSUME s # 1, ~InStages(t, Stage \ {1}) PROVE status'[t] = status[t]
    <3>1. pipe[i][s].task # t
      BY <2>3 DEF InStages
    <3> QED
      BY <1>2, <1>14, <2>3, <3>1 DEF StageStep, StageWork, StageFails, StageSetFinish,
         SetFinish, StoreFails, Pass, Updated
  <2>4. /\ Held(t)' => Held(t)
        /\ Arrives(t)' => Arrives(t) /\ s # 1
        /\ s # 1 /\ ~InErrs(t) /\ ~InStages(t, Stage \ {1}) => ~InErrs(t)' /\ ~InStages(t, Stage \ {1})'
    BY <1>14, StagesMove
  <2>5. Holding(t)' = Holding(t) /\ Saving(t)' = Saving(t)
    BY <2>1 DEF Holding, Saving
  <2> QED
    BY <1>1, <2>1, <2>2, <2>3, <2>4, <2>5 DEF Once
<1>15. ASSUME NEW i \in Instances, MarkError(i) \/ MarkLost(i) PROVE Once(t)'
  <2>1. /\ UNCHANGED <<pipe, source, row, lastId, stale>>
        /\ \A j \in Instances : \A k \in DOMAIN errs'[j] : \E m \in DOMAIN errs[j] : errs[j][m] = errs'[j][k]
    BY <1>15, TakenFromErrs DEF MarkError, MarkLost, SetErr
  <2>2. /\ status'[t] = "WAITING" => status[t] = "WAITING"
        /\ ~InErrs(t) => status'[t] = status[t]
    <3>1. 1 \in DOMAIN errs[i] /\ Head(errs[i]) = errs[i][1]
      BY <1>15, HeadTailProperties, LenProperties DEF MarkError, MarkLost, TypeOK, ErrsType
    <3> QED
      BY <1>2, <1>15, <3>1 DEF MarkError, MarkLost, SetErr, Updated, InErrs
  <2>3. InErrs(t)' => InErrs(t)
    BY <2>1 DEF InErrs
  <2> QED
    BY <1>1, <2>1, <2>2, <2>3 DEF Once, Held, InStages, Holding, Saving, Arrives, Arrived
<1> QED
  BY <1>3, <1>4, <1>5, <1>6, <1>7, <1>8, <1>9, <1>10, <1>11, <1>12, <1>13, <1>14, <1>15
     DEF Next, Goroutine, SourceStep, FaultStep

\* With one instance a settled row is set back to PROCESS by the source's own
\* Save only, as long as the task has had no second round: SetProcess in the
\* first stage finds the row waiting or in PROCESS, or the Save still to come.
THEOREM SettledIsReopenedBySource ==
  ASSUME \A i, j \in Instances : i = j
  PROVE  Spec => ReopenedBySource
<1>1. Init => SentOnce
  <2> SUFFICES ASSUME Init, NEW t \in Task PROVE ~Held(t) /\ t \notin stale /\ ~Arrives(t)
    BY DEF SentOnce, Once
  <2>1. ~Held(t)
    BY DEF Init, Held, InErrs, InStages, Free, NoTask, Task
  <2> QED
    BY <2>1, FirstStage DEF Init, Arrives, Arrived, Free, NoTask, Task
<1>2. TypeOK /\ SentOnce /\ [Next]_vars =>
         [\A t \in Task, i \in Instances :
             status[t] \in {"FINISH", "ERROR"} /\ status'[t] = "PROCESS" =>
                 \/ source[i] = "saving" /\ row[i] = t
                 \/ agings[t] + lostSaves[t] > 0]_vars
  <2> SUFFICES ASSUME TypeOK, SentOnce, [Next]_vars, NEW t \in Task, NEW j \in Instances,
                      status[t] \in {"FINISH", "ERROR"}, status'[t] = "PROCESS",
                      ~(agings[t] + lostSaves[t] > 0)
               PROVE  source[j] = "saving" /\ row[j] = t
    OBVIOUS
  <2>1. Once(t) /\ FirstRun(t)
    BY QueueAssumption DEF SentOnce, FirstRun, TypeOK, HistoryType
  <2>2. \E i \in Instances : Save(i) \/ StageSetProcess(i)
    <3>1. ASSUME NEW i \in Instances, Add(i) \/ Sweep(i) \/ StageSetFinish(i) \/ MarkError(i) PROVE FALSE
      BY <3>1 DEF Add, Sweep, EmptyTask, StageSetFinish, SetFinish, MarkError, SetErr, Updated, TypeOK, TableType
    <3> QED
      BY <3>1, RowChanges
  <2>3. CASE \E i \in Instances : Save(i)
    BY <2>3 DEF Save, SaveRow, TypeOK, TableType
  <2>4. CASE \E i \in Instances : StageSetProcess(i)
    <3>1. pipe[j][1].task = t /\ Working(j, 1)
      BY <2>4 DEF StageSetProcess, SetProcess, Updated, TypeOK, TableType
    <3>2. pipe[j][1] = Arrived(t)
      BY <3>1, FirstStage DEF TypeOK, PipeType, Working, Slot, Arrived
    <3> QED
      BY <2>1, <3>2 DEF Once, Arrives, Saving
  <2> QED
    BY <2>2, <2>3, <2>4
<1> QED
  BY <1>1, <1>2, InitType, TypeStep, SubmittedOnlyInit, SubmittedOnlyStep, PromiseInvInit, PromiseInvStep,
     SentOnceStep, PTL DEF Spec, ReopenedBySource
=============================================================================
