--------------------------- MODULE JobQueueProofs ---------------------------
(***************************************************************************)
(* For every pool of workers, set of callers, table of limits and bound on *)
(* jobs: the counters of the job queue tell the truth, no wake-up is lost, *)
(* and a queue that has stopped is drained.                                *)
(***************************************************************************)
EXTENDS JobQueue, FiniteSetTheorems, TLAPS

-----------------------------------------------------------------------------
(* The inductive invariant *)

\* A thread holds the type of a job exactly while it runs it.
HeldInv == \A h \in Dispatchers : pc[h] = "run" <=> held[h] \in Types

\* The jobs of a type were numbered one by one (next_index).
IndexInv ==
  /\ IsFiniteSet(queue)
  /\ nextIndex <= MaxJobs
  /\ \A t \in Types : waiting[t] <= nextIndex

\* A worker on its way to sleep has found nothing to run, and nothing has
\* become runnable since: it holds the mutex (worker_loop).
ParkInv == (\E w \in Workers : pc[w] = "parking") => NoneRunnable

\* The stages of stop: `stopping` is set first, and once the queue was seen idle
\* it stays so; the handles no longer to be joined are of workers that left.
StopInv ==
  /\ pc[Stopper] \in {"stopNotify", "stopDrain", "stopWait", "stopNotifyAgain",
                      "stopJoin", "done"} => stopping
  /\ pc[Stopper] \in {"stopNotifyAgain", "stopJoin", "done"} => Idle
  /\ pc[Stopper] \in {"stopJoin", "done"} =>
        \A w \in Workers \ joining : pc[w] = "exited"
  /\ stopped => pc[Stopper] = "done" /\ joining = {}

IInv ==
  /\ CountersTrue
  /\ HeldInv
  /\ IndexInv
  /\ ParkInv
  /\ WakeupsCoverJobs
  /\ StopInv

-----------------------------------------------------------------------------
(* Counting *)

\* A set with one element more counts for one more.
LEMMA OneMore ==
  ASSUME NEW S, NEW T, NEW x, IsFiniteSet(S), x \notin S, T = S \cup {x}
  PROVE  IsFiniteSet(T) /\ Cardinality(T) = Cardinality(S) + 1
BY FS_AddElement

\* A set with one element less counts for one less.
LEMMA OneLess ==
  ASSUME NEW S, NEW T, NEW x, IsFiniteSet(S), x \in S, T = S \ {x}
  PROVE  IsFiniteSet(T) /\ Cardinality(T) = Cardinality(S) - 1
BY FS_RemoveElement

\* A larger set counts for at least as much.
LEMMA NoFewer ==
  ASSUME NEW S, NEW T, IsFiniteSet(T), S \subseteq T
  PROVE  IsFiniteSet(S) /\ Cardinality(S) <= Cardinality(T)
BY FS_Subset

\* The queue is served by finitely many threads.
LEMMA FiniteThreads == IsFiniteSet(Dispatchers) /\ IsFiniteSet(Threads)
<1>1. IsFiniteSet(Dispatchers)
  BY Zenon, JobConstants, FS_Union DEF Dispatchers
<1>2. IsFiniteSet(Dispatchers \cup Clients)
  BY Zenon, <1>1, JobConstants, FS_Union
<1>3. IsFiniteSet(Threads)
  BY <1>2, FS_AddElement DEF Threads
<1>4. QED
  BY <1>1, <1>3

-----------------------------------------------------------------------------
(* Types *)

\* One counter of a table set to a natural number.
LEMMA CounterSet ==
  ASSUME NEW f \in [Types -> Nat], NEW t \in Types, NEW n \in Nat
  PROVE  [f EXCEPT ![t] = n] \in [Types -> Nat]
OBVIOUS

\* Every step keeps the types, given that a running thread holds a job.
LEMMA TypeStep ==
  ASSUME CountersTrue, HeldInv, IndexInv, [Next]_vars
  PROVE  TypeOK'
<1>1. TypeOK
  BY DEF CountersTrue
<1> USE <1>1 DEF TypeOK, Threads, Dispatchers, Signals
<1>2. ASSUME NEW h \in Dispatchers, Take(h), pc' = [pc EXCEPT ![h] = "run"]
      PROVE  TypeOK'
  <2>1. PICK j \in queue :
          /\ queue' = queue \ {j}
          /\ waiting' = [waiting EXCEPT ![j.type] = IF @ = 0 THEN 0 ELSE @ - 1]
          /\ running' = [running EXCEPT ![j.type] = @ + 1]
          /\ processCount' = processCount + 1
          /\ held' = [held EXCEPT ![h] = j.type]
    BY Zenon, <1>2 DEF Take
  <2>2. j.type \in Types
    BY <2>1
  <2>3. waiting' \in [Types -> Nat] /\ running' \in [Types -> Nat]
    <3>1. (IF waiting[j.type] = 0 THEN 0 ELSE waiting[j.type] - 1) \in Nat
      BY <2>2
    <3>2. running[j.type] + 1 \in Nat
      BY <2>2
    <3>3. QED
      BY <2>1, <2>2, <3>1, <3>2, CounterSet
  <2>4. UNCHANGED <<deferred, stopping, stopped, nextIndex, joining>>
    BY <1>2 DEF Take
  <2>5. QED
    BY <1>2, <2>1, <2>2, <2>3, <2>4
<1>3. ASSUME NEW w \in Workers, WorkerStep(w) PROVE TypeOK'
  BY SMTT(30), <1>2, <1>3 DEF WorkerStep, WorkerTake, WorkerExit, ExitIf, WorkerCheck,
                    WorkerPark, counters
<1>4. ASSUME NEW h \in Dispatchers, Finish(h) PROVE TypeOK'
  <2>1. held[h] \in Types
    BY <1>4 DEF Finish, FinishAs, HeldInv
  <2>2. processCount # 0
    BY Zenon, <1>4, FS_EmptySet, FiniteThreads, FS_Subset DEF Finish, FinishAs, CountersTrue
  <2>3. SignalAfter(LastJob, HasDeferred(h), Rest(h)) \in Signals \cup {"scan", "idle"}
    BY DEF SignalAfter, Rest
  <2>4. deferred' \in [Types -> Nat] /\ running' \in [Types -> Nat]
    <3>1. (IF running[held[h]] = 0 THEN 0 ELSE running[held[h]] - 1) \in Nat
      BY <2>1
    <3>2. (IF HasDeferred(h) THEN deferred[held[h]] - 1 ELSE deferred[held[h]]) \in Nat
      BY <2>1 DEF HasDeferred
    <3>3. QED
      BY <1>4, <2>1, <3>1, <3>2, CounterSet DEF Finish, FinishAs
  <2>5. pc' \in [Threads -> {"scan", "run", "parking", "parked", "exited", "idle",
                         "rendezvous", "idleWait", "stopNotify", "stopDrain",
                         "stopWait", "stopNotifyAgain", "stopJoin", "done"} \cup Signals]
    BY <1>4, <2>3 DEF Finish, FinishAs
  <2>6. held' \in [Dispatchers -> Types \cup {-1}] /\ processCount' \in Nat
    BY <1>4, <2>2 DEF Finish, FinishAs
  <2>7. QED
    BY <1>4, <2>4, <2>5, <2>6 DEF Finish, FinishAs
<1>5. ASSUME NEW h \in Dispatchers \cup Clients, SignalStep(h) PROVE TypeOK'
  BY <1>5 DEF SignalStep, SignalIdle, SignalOne, Woken, Rest, Parked, counters
<1>6. ASSUME NEW m \in Manual, Reserve(m) PROVE TypeOK'
  BY Zenon, <1>2, <1>6 DEF Reserve
<1>7. ASSUME NEW c \in Clients, NEW t \in Types, AddJob(c, t) PROVE TypeOK'
  BY <1>7 DEF AddJob, AddJobIf
<1>8. ASSUME NEW c \in Clients, Rendezvous(c) \/ RendezvousLooks(c) PROVE TypeOK'
  BY <1>8 DEF Rendezvous, RendezvousLooks, counters
<1>9. ASSUME StopStores \/ StopStep PROVE TypeOK'
  BY Zenon, <1>9 DEF StopStores, StopStep, StopNotifies, StopLooks, StopNotifiesAgain,
              StopJoins, StopReturns, WakeAll, Parked, counters
<1>10. ASSUME UNCHANGED vars PROVE TypeOK'
  BY <1>10 DEF vars
<1>11. QED
  BY <1>3, <1>4, <1>5, <1>6, <1>7, <1>8, <1>9, <1>10 DEF Next

-----------------------------------------------------------------------------
(* Counters *)

Runners == {h \in Dispatchers : pc[h] = "run"}

\* The part of the invariant that is about jobs and their counters.
Counts ==
  /\ CountersTrue
  /\ HeldInv
  /\ IndexInv

\* The five facts CountersTrue states of a type.
CountersOf(t) ==
  /\ waiting[t] = Cardinality(OfType(t))
  /\ running[t] = Cardinality(Holders(t))
  /\ running[t] <= Limit[t]
  /\ waiting[t] - deferred[t] + running[t] <= Limit[t]
  /\ deferred[t] > 0 => waiting[t] - deferred[t] + running[t] = Limit[t]

\* The counters are true when those of every JobTypeData are.
LEMMA CountersByType ==
  CountersTrue <=> /\ TypeOK
                   /\ \A t \in Types : CountersOf(t)
                   /\ processCount = Cardinality(Runners)
BY DEF CountersTrue, CountersOf, Runners

\* A step that starts, ends and adds no job leaves the counters true.
LEMMA QuietCounts ==
  ASSUME Counts, TypeOK',
         UNCHANGED <<queue, counters, processCount, nextIndex, held>>,
         \A h \in Dispatchers : pc'[h] = "run" <=> pc[h] = "run"
  PROVE  Counts'
<1>1. \A t \in Types : CountersOf(t)'
  BY Zenon, CountersByType DEF Counts, CountersOf, OfType, Holders, counters
<1>2. Runners' = Runners
  BY DEF Runners
<1>3. QED
  BY Zenon, <1>1, <1>2, CountersByType DEF Counts, CountersTrue, CountersOf, Runners, HeldInv,
     IndexInv, counters

\* A thread that takes a job moves it from waiting to running.
LEMMA TakeCounts ==
  ASSUME Counts, TypeOK', NEW h \in Dispatchers, pc[h] # "run", Take(h),
         pc' = [pc EXCEPT ![h] = "run"]
  PROVE  Counts'
<1>1. TypeOK
  BY DEF Counts, CountersTrue
<1>2. PICK j \in queue :
        /\ Runnable(j)
        /\ queue' = queue \ {j}
        /\ waiting' = [waiting EXCEPT ![j.type] = IF @ = 0 THEN 0 ELSE @ - 1]
        /\ running' = [running EXCEPT ![j.type] = @ + 1]
        /\ held' = [held EXCEPT ![h] = j.type]
  BY Zenon DEF Take
<1>3. processCount' = processCount + 1 /\ UNCHANGED <<deferred, nextIndex>>
  BY DEF Take
<1>4. PICK ty \in Types : ty = j.type
  BY <1>1, <1>2 DEF TypeOK
<1>5. held[h] \notin Types
  BY DEF Counts, HeldInv
<1>6. h \in Threads
  BY DEF Threads
<1>7. CountersOf(ty)'
  <2>1. Cardinality(OfType(ty)') = Cardinality(OfType(ty)) - 1
    <3>1. IsFiniteSet(OfType(ty))
      BY FS_Subset DEF Counts, IndexInv, OfType
    <3>2. j \in OfType(ty) /\ OfType(ty)' = OfType(ty) \ {j}
      BY <1>2, <1>4 DEF OfType
    <3>3. QED
      BY Zenon, <3>1, <3>2, OneLess
  <2>2. Cardinality(Holders(ty)') = Cardinality(Holders(ty)) + 1
    <3>1. IsFiniteSet(Holders(ty))
      BY FiniteThreads, FS_Subset DEF Holders
    <3>2. h \notin Holders(ty) /\ Holders(ty)' = Holders(ty) \cup {h}
      BY <1>1, <1>2, <1>4, <1>5 DEF Holders, TypeOK
    <3>3. QED
      BY <3>1, <3>2, OneMore
  <2>3. Cardinality(OfType(ty)) \in Nat /\ Cardinality(OfType(ty)) # 0
    <3>1. IsFiniteSet(OfType(ty))
      BY FS_Subset DEF Counts, IndexInv, OfType
    <3>2. j \in OfType(ty)
      BY <1>2, <1>4 DEF OfType
    <3>3. QED
      BY <3>1, <3>2, FS_CardinalityType, FS_EmptySet
  <2>4. CountersOf(ty) /\ running[ty] < Limit[ty]
    BY <1>2, <1>4, CountersByType DEF Counts, Runnable
  <2>5. waiting'[ty] = waiting[ty] - 1 /\ running'[ty] = running[ty] + 1
    BY <1>1, <1>2, <1>4, <2>3, <2>4 DEF TypeOK, CountersOf
  <2>6. waiting[ty] \in Nat /\ running[ty] \in Nat /\ deferred[ty] \in Nat /\ Limit[ty] \in Nat
    BY <1>1, JobConstants DEF TypeOK
  <2>7. QED
    BY <1>3, <2>1, <2>2, <2>4, <2>5, <2>6 DEF CountersOf
<1>8. ASSUME NEW t \in Types, t # ty PROVE CountersOf(t)'
  <2>1. OfType(t)' = OfType(t)
    BY <1>2, <1>4, <1>8 DEF OfType
  <2>2. Holders(t)' = Holders(t)
    BY <1>1, <1>2, <1>4, <1>5, <1>8 DEF Holders, TypeOK
  <2>3. waiting'[t] = waiting[t] /\ running'[t] = running[t]
    BY <1>1, <1>2, <1>4, <1>8 DEF TypeOK
  <2>4. CountersOf(t)
    BY CountersByType DEF Counts
  <2>5. QED
    BY <1>3, <2>1, <2>2, <2>3, <2>4 DEF CountersOf
<1>9. processCount' = Cardinality(Runners')
  <2>1. IsFiniteSet(Runners) /\ h \notin Runners /\ Runners' = Runners \cup {h}
    BY <1>1, <1>6, FiniteThreads, FS_Subset DEF Runners, TypeOK, Threads
  <2>2. QED
    BY <1>3, <2>1, OneMore, CountersByType DEF Counts
<1>10. CountersTrue'
  BY <1>7, <1>8, <1>9, CountersByType DEF CountersTrue, CountersOf, Runners
<1>11. HeldInv'
  BY <1>1, <1>2, <1>4, <1>6 DEF Counts, HeldInv, TypeOK, Threads
<1>12. IndexInv'
  <2>1. IsFiniteSet(queue')
    BY <1>2, FS_RemoveElement DEF Counts, IndexInv
  <2>2. ASSUME NEW t \in Types PROVE waiting'[t] <= nextIndex
    BY <1>1, <1>2, <1>4 DEF Counts, IndexInv, TypeOK
  <2>3. QED
    BY <1>3, <2>1, <2>2 DEF Counts, IndexInv
<1>13. QED
  BY <1>10, <1>11, <1>12 DEF Counts

\* The end of a job frees its slot, or gives it to a deferred job.
LEMMA FinishCounts ==
  ASSUME Counts, TypeOK', NEW h \in Dispatchers, Finish(h)
  PROVE  Counts'
<1>1. TypeOK
  BY DEF Counts, CountersTrue
<1>2. pc[h] = "run" /\ h \in Threads
  BY DEF Finish, FinishAs, Threads
<1>3. PICK ty \in Types : ty = held[h]
  BY <1>2 DEF Counts, HeldInv
<1>4. /\ deferred' = [deferred EXCEPT ![ty] = IF deferred[ty] > 0 THEN @ - 1 ELSE @]
      /\ running' = [running EXCEPT ![ty] = IF @ = 0 THEN 0 ELSE @ - 1]
      /\ processCount' = processCount - 1
      /\ held' = [held EXCEPT ![h] = -1]
      /\ UNCHANGED <<queue, waiting, nextIndex>>
  BY <1>2, <1>3 DEF Finish, FinishAs, HasDeferred
<1>5. pc'[h] # "run" /\ \A g \in Threads \ {h} : pc'[g] = pc[g]
  <2>1. SignalAfter(LastJob, HasDeferred(h), Rest(h)) # "run"
    BY DEF SignalAfter, Rest
  <2>2. QED
    BY <1>1, <1>2, <2>1 DEF Finish, FinishAs, TypeOK
<1>6. -1 \notin Types
  BY JobConstants
<1>7. CountersOf(ty)'
  <2>1. IsFiniteSet(Holders(ty)) /\ h \in Holders(ty)
    BY <1>3, FiniteThreads, FS_Subset DEF Holders
  <2>2. Holders(ty)' = Holders(ty) \ {h}
    BY <1>1, <1>3, <1>4, <1>6 DEF Holders, TypeOK
  <2>3. Cardinality(Holders(ty)') = Cardinality(Holders(ty)) - 1
    BY <2>1, <2>2, OneLess
  <2>4. Cardinality(Holders(ty)) \in Nat /\ Cardinality(Holders(ty)) # 0
    BY <2>1, FS_CardinalityType, FS_EmptySet
  <2>5. CountersOf(ty)
    BY CountersByType DEF Counts
  <2>6. waiting[ty] \in Nat /\ running[ty] \in Nat /\ deferred[ty] \in Nat /\ Limit[ty] \in Nat
    BY <1>1, JobConstants DEF TypeOK
  <2>7. running'[ty] = running[ty] - 1
    BY <1>1, <1>4, <2>4, <2>5 DEF TypeOK, CountersOf
  <2>8. deferred'[ty] = IF deferred[ty] > 0 THEN deferred[ty] - 1 ELSE 0
    BY <1>1, <1>4, <2>6 DEF TypeOK
  <2>9. waiting'[ty] = Cardinality(OfType(ty)')
    BY <1>4, <2>5 DEF CountersOf, OfType
  <2>10. QED
    BY <1>4, <2>3, <2>5, <2>6, <2>7, <2>8, <2>9 DEF CountersOf
<1>8. ASSUME NEW t \in Types, t # ty PROVE CountersOf(t)'
  <2>1. Holders(t)' = Holders(t)
    BY <1>1, <1>3, <1>4, <1>6, <1>8 DEF Holders, TypeOK
  <2>2. deferred'[t] = deferred[t] /\ running'[t] = running[t]
    BY <1>1, <1>4, <1>8 DEF TypeOK
  <2>3. CountersOf(t)
    BY CountersByType DEF Counts
  <2>4. QED
    BY <1>4, <2>1, <2>2, <2>3 DEF CountersOf, OfType
<1>9. processCount' = Cardinality(Runners')
  <2>1. IsFiniteSet(Runners) /\ h \in Runners /\ Runners' = Runners \ {h}
    BY <1>2, <1>5, FiniteThreads, FS_Subset DEF Runners, Threads
  <2>2. QED
    BY SMTT(30), <1>4, <2>1, OneLess, CountersByType DEF Counts
<1>10. CountersTrue'
  BY <1>7, <1>8, <1>9, CountersByType DEF CountersTrue, CountersOf, Runners
<1>11. HeldInv'
  BY <1>1, <1>4, <1>5, <1>6 DEF Counts, HeldInv, TypeOK, Threads
<1>12. IndexInv'
  BY <1>4 DEF Counts, IndexInv
<1>13. QED
  BY <1>10, <1>11, <1>12 DEF Counts

\* A job that is added waits, and is deferred when its type is full.
LEMMA AddCounts ==
  ASSUME Counts, TypeOK', NEW c \in Clients, NEW ty \in Types, AddJob(c, ty)
  PROVE  Counts'
<1>1. TypeOK
  BY DEF Counts, CountersTrue
<1> DEFINE job == [type |-> ty, index |-> nextIndex + 1]
<1>2. /\ deferred' = [deferred EXCEPT ![ty] =
                        IF waiting[ty] + running[ty] < Limit[ty] THEN @ ELSE @ + 1]
      /\ waiting' = [waiting EXCEPT ![ty] = @ + 1]
      /\ queue' = queue \cup {job}
      /\ nextIndex < MaxJobs /\ nextIndex' = nextIndex + 1
      /\ UNCHANGED <<running, processCount, held>>
  BY DEF AddJob, AddJobIf
<1>3. \A g \in Dispatchers : pc'[g] = "run" <=> pc[g] = "run"
  BY <1>1 DEF AddJob, AddJobIf, TypeOK, Threads
<1>4. job \notin queue /\ job.type = ty
  BY <1>1 DEF TypeOK
<1> HIDE DEF job
<1>5. IsFiniteSet(queue)
  BY DEF Counts, IndexInv
<1>6. CountersOf(ty)'
  <2>1. IsFiniteSet(OfType(ty)) /\ job \notin OfType(ty)
    BY <1>4, <1>5, FS_Subset DEF OfType
  <2>2. OfType(ty)' = OfType(ty) \cup {job}
    BY <1>2, <1>4 DEF OfType
  <2>3. Cardinality(OfType(ty)') = Cardinality(OfType(ty)) + 1
    BY <2>1, <2>2, OneMore
  <2>4. CountersOf(ty)
    BY CountersByType DEF Counts
  <2>5. waiting[ty] \in Nat /\ running[ty] \in Nat /\ deferred[ty] \in Nat /\ Limit[ty] \in Nat
    BY <1>1, JobConstants DEF TypeOK
  <2>6. waiting'[ty] = waiting[ty] + 1
    BY <1>1, <1>2 DEF TypeOK
  <2>7. deferred'[ty] = IF waiting[ty] + running[ty] < Limit[ty]
                        THEN deferred[ty] ELSE deferred[ty] + 1
    BY <1>1, <1>2 DEF TypeOK
  <2>8. running'[ty] = Cardinality(Holders(ty)')
    BY <1>2, <2>4 DEF CountersOf, Holders
  <2>9. QED
    BY <1>2, <2>3, <2>4, <2>5, <2>6, <2>7, <2>8 DEF CountersOf
<1>7. ASSUME NEW t \in Types, t # ty PROVE CountersOf(t)'
  <2>1. OfType(t)' = OfType(t)
    BY <1>2, <1>4, <1>7 DEF OfType
  <2>2. deferred'[t] = deferred[t] /\ waiting'[t] = waiting[t]
    BY <1>1, <1>2, <1>7 DEF TypeOK
  <2>3. CountersOf(t)
    BY CountersByType DEF Counts
  <2>4. QED
    BY <1>2, <2>1, <2>2, <2>3 DEF CountersOf, Holders
<1>8. Runners' = Runners
  BY <1>3 DEF Runners
<1>9. CountersTrue'
  BY Zenon, <1>2, <1>6, <1>7, <1>8, CountersByType DEF Counts, CountersTrue, CountersOf, Runners
<1>10. HeldInv'
  BY <1>2, <1>3 DEF Counts, HeldInv
<1>11. IndexInv'
  <2>1. IsFiniteSet(queue')
    BY <1>2, <1>5, FS_AddElement
  <2>2. ASSUME NEW t \in Types PROVE waiting'[t] <= nextIndex + 1
    BY <1>1, <1>2 DEF Counts, IndexInv, TypeOK
  <2>3. nextIndex' <= MaxJobs
    BY <1>1, <1>2, JobConstants DEF TypeOK
  <2>4. QED
    BY <1>2, <2>1, <2>2, <2>3 DEF IndexInv
<1>12. QED
  BY <1>9, <1>10, <1>11 DEF Counts

\* Every step keeps the counters true.
LEMMA CountStep ==
  ASSUME Counts, [Next]_vars
  PROVE  Counts'
<1>1. TypeOK /\ TypeOK'
  BY TypeStep DEF Counts, CountersTrue
<1>2. ASSUME NEW w \in Workers, WorkerStep(w) PROVE Counts'
  <2>1. w \in Dispatchers /\ w \in Threads
    BY DEF Dispatchers, Threads
  <2>2. CASE WorkerTake(w)
    BY Zenon, <1>1, <2>1, <2>2, TakeCounts DEF WorkerTake
  <2>3. CASE WorkerExit(w) \/ WorkerCheck(w) \/ WorkerPark(w)
    BY <1>1, <2>1, <2>3, QuietCounts
       DEF WorkerExit, ExitIf, WorkerCheck, WorkerPark, TypeOK, Threads
  <2>4. QED
    BY <1>2, <2>2, <2>3 DEF WorkerStep
<1>3. ASSUME NEW h \in Dispatchers, Finish(h) PROVE Counts'
  BY <1>1, <1>3, FinishCounts
<1>4. ASSUME NEW h \in Dispatchers \cup Clients, SignalStep(h) PROVE Counts'
  <2>1. \A g \in Dispatchers : pc'[g] = "run" <=> pc[g] = "run"
    BY <1>1, <1>4 DEF SignalStep, SignalIdle, SignalOne, Woken, Rest, Parked, TypeOK, Threads
  <2>2. QED
    BY <1>1, <1>4, <2>1, QuietCounts DEF SignalStep, SignalIdle, SignalOne
<1>5. ASSUME NEW m \in Manual, Reserve(m) PROVE Counts'
  BY Zenon, <1>1, <1>5, TakeCounts DEF Reserve, Dispatchers
<1>6. ASSUME NEW c \in Clients, NEW t \in Types, AddJob(c, t) PROVE Counts'
  BY <1>1, <1>6, AddCounts
<1>7. ASSUME NEW c \in Clients, Rendezvous(c) \/ RendezvousLooks(c) PROVE Counts'
  BY <1>1, <1>7, QuietCounts DEF Rendezvous, RendezvousLooks, TypeOK, Threads
<1>8. ASSUME StopStores \/ StopStep PROVE Counts'
  <2>1. \A g \in Dispatchers : pc'[g] = "run" <=> pc[g] = "run"
    BY <1>1, <1>8 DEF StopStores, StopStep, StopNotifies, StopLooks, StopNotifiesAgain,
       StopJoins, StopReturns, WakeAll, Parked, TypeOK, Threads
  <2>2. QED
    BY SMTT(30), <1>1, <1>8, <2>1, QuietCounts DEF StopStores, StopStep, StopNotifies, StopLooks,
       StopNotifiesAgain, StopJoins, StopReturns
<1>9. ASSUME UNCHANGED vars PROVE Counts'
  BY <1>1, <1>9, QuietCounts DEF vars, counters
<1>10. QED
  BY <1>2, <1>3, <1>4, <1>5, <1>6, <1>7, <1>8, <1>9 DEF Next

-----------------------------------------------------------------------------
(* Parking *)

\* While a worker is on its way to sleep nobody changes what is runnable.
LEMMA ParkStep ==
  ASSUME TypeOK, ParkInv, [Next]_vars
  PROVE  ParkInv'
<1>1. ASSUME UNCHANGED <<queue, running>>,
             \A w \in Workers : pc'[w] = "parking" => pc[w] = "parking"
      PROVE  ParkInv'
  BY <1>1 DEF ParkInv, NoneRunnable, Runnable
<1>2. ASSUME MutexFree, \A w \in Workers : pc'[w] = "parking" => pc[w] = "parking"
      PROVE  ParkInv'
  BY <1>2 DEF ParkInv, MutexFree
<1>3. ASSUME NEW w \in Workers, WorkerStep(w) PROVE ParkInv'
  <2>1. CASE WorkerTake(w) \/ WorkerExit(w)
    BY <1>2, <2>1 DEF WorkerTake, WorkerExit, ExitIf, TypeOK, Threads, Dispatchers
  <2>2. CASE WorkerCheck(w)
    BY <2>2 DEF WorkerCheck, ParkInv, NoneRunnable, Runnable, counters
  <2>3. CASE WorkerPark(w)
    BY <1>1, <2>3 DEF WorkerPark, counters, TypeOK, Threads, Dispatchers
  <2>4. QED
    BY <1>3, <2>1, <2>2, <2>3 DEF WorkerStep
<1>4. ASSUME NEW h \in Dispatchers, Finish(h) PROVE ParkInv'
  <2>1. SignalAfter(LastJob, HasDeferred(h), Rest(h)) # "parking"
    BY DEF SignalAfter, Rest
  <2>2. QED
    BY <1>2, <1>4, <2>1 DEF Finish, FinishAs, TypeOK, Threads
<1>5. ASSUME NEW h \in Dispatchers \cup Clients, SignalStep(h) PROVE ParkInv'
  BY <1>1, <1>5 DEF SignalStep, SignalIdle, SignalOne, Woken, Rest, Parked, counters,
                    TypeOK, Threads, Dispatchers
<1>6. ASSUME NEW m \in Manual, Reserve(m) PROVE ParkInv'
  BY <1>2, <1>6 DEF Reserve, TypeOK, Threads, Dispatchers
<1>7. ASSUME NEW c \in Clients, NEW t \in Types, AddJob(c, t) PROVE ParkInv'
  BY <1>2, <1>7 DEF AddJob, AddJobIf, TypeOK, Threads, Dispatchers
<1>8. ASSUME NEW c \in Clients, Rendezvous(c) \/ RendezvousLooks(c) PROVE ParkInv'
  BY <1>1, <1>8 DEF Rendezvous, RendezvousLooks, counters, TypeOK, Threads, Dispatchers
<1>9. ASSUME StopStores \/ StopStep PROVE ParkInv'
  BY <1>1, <1>9 DEF StopStores, StopStep, StopNotifies, StopLooks, StopNotifiesAgain,
       StopJoins, StopReturns, WakeAll, Parked, counters, TypeOK, Threads, Dispatchers
<1>10. ASSUME UNCHANGED vars PROVE ParkInv'
  BY <1>1, <1>10 DEF vars
<1>11. QED
  BY SMTT(30), <1>3, <1>4, <1>5, <1>6, <1>7, <1>8, <1>9, <1>10 DEF Next

-----------------------------------------------------------------------------
(* Wake-ups *)

Scanners == {w \in Workers : pc[w] = "scan"}
Signallers == {h \in Threads : pc[h] \in {"signalOne", "signalBoth"}}

\* WakeupsCoverJobs in terms of the sets it counts.
LEMMA WakeupsByName ==
  WakeupsCoverJobs <=>
    (Parked # {} => Cardinality(Startable) <= Cardinality(Scanners) + Cardinality(Signallers))
BY DEF WakeupsCoverJobs, Scanners, Signallers

\* The sets that are counted are finite.
LEMMA FiniteWakeups ==
  /\ IsFiniteSet(Startable) /\ IsFiniteSet(Scanners) /\ IsFiniteSet(Signallers)
  /\ IsFiniteSet(Startable') /\ IsFiniteSet(Scanners') /\ IsFiniteSet(Signallers')
<1>1. IsFiniteSet(Types \X (1..MaxJobs))
  <2>1. IsFiniteSet(Types) /\ IsFiniteSet(1..MaxJobs)
    BY JobConstants, FS_Interval
  <2>2. QED
    BY <2>1, FS_Product, Zenon
<1>2. IsFiniteSet(Startable) /\ IsFiniteSet(Startable')
  BY <1>1, FS_Subset DEF Startable
<1>3. IsFiniteSet(Scanners) /\ IsFiniteSet(Scanners')
  BY JobConstants, FS_Subset DEF Scanners
<1>4. IsFiniteSet(Signallers) /\ IsFiniteSet(Signallers')
  BY FiniteThreads, FS_Subset DEF Signallers
<1>5. QED
  BY <1>2, <1>3, <1>4

\* Nothing can start when no queued job is runnable.
LEMMA NoneStartable ==
  ASSUME Counts, NoneRunnable
  PROVE  Startable = {}
<1> SUFFICES ASSUME NEW s \in Startable PROVE FALSE
  OBVIOUS
<1>1. PICK t \in Types, i \in 1..MaxJobs : s = <<t, i>> /\ i <= Slots(t)
  BY DEF Startable
<1>2. /\ waiting[t] \in Nat /\ running[t] \in Nat /\ Limit[t] \in Nat
      /\ waiting[t] = Cardinality(OfType(t))
  BY JobConstants DEF Counts, CountersTrue, TypeOK
<1>3. waiting[t] # 0 /\ running[t] < Limit[t]
  BY <1>1, <1>2, JobConstants DEF Slots
<1>4. OfType(t) # {}
  BY <1>2, <1>3, FS_EmptySet
<1>5. PICK j \in queue : j.type = t
  BY <1>4 DEF OfType
<1>6. QED
  BY <1>2, <1>3, <1>5 DEF NoneRunnable, Runnable

\* A step that makes nothing startable and takes no wake-up away.
LEMMA QuietWakeups ==
  ASSUME WakeupsCoverJobs, Parked' # {} => Parked # {}, Startable' \subseteq Startable,
         Scanners \subseteq Scanners', Signallers \subseteq Signallers'
  PROVE  WakeupsCoverJobs'
<1>1. /\ Cardinality(Startable') <= Cardinality(Startable)
      /\ Cardinality(Scanners) <= Cardinality(Scanners')
      /\ Cardinality(Signallers) <= Cardinality(Signallers')
  BY FiniteWakeups, NoFewer
<1>2. /\ Cardinality(Startable') \in Nat /\ Cardinality(Startable) \in Nat
      /\ Cardinality(Scanners) \in Nat /\ Cardinality(Scanners') \in Nat
      /\ Cardinality(Signallers) \in Nat /\ Cardinality(Signallers') \in Nat
  BY FiniteWakeups, FS_CardinalityType
<1>3. Parked' # {} =>
        Cardinality(Startable') <= Cardinality(Scanners') + Cardinality(Signallers')
  BY <1>1, <1>2, WakeupsByName
<1>4. QED
  BY <1>3 DEF WakeupsCoverJobs, Scanners, Signallers

\* A step after which nothing can start.
LEMMA IdleWakeups ==
  ASSUME Startable' = {}
  PROVE  WakeupsCoverJobs'
<1>1. Cardinality(Startable') = 0
  BY FS_EmptySet
<1>2. Cardinality(Scanners') \in Nat /\ Cardinality(Signallers') \in Nat
  BY FiniteWakeups, FS_CardinalityType
<1>3. QED
  BY <1>1, <1>2 DEF WakeupsCoverJobs, Scanners, Signallers

\* A thread that takes a job uses up one startable job.
LEMMA TakeWakeups ==
  ASSUME Counts, WakeupsCoverJobs, NEW h \in Dispatchers, Take(h),
         Parked' # {} => Parked # {}, Signallers \subseteq Signallers',
         Scanners \ {h} \subseteq Scanners'
  PROVE  WakeupsCoverJobs'
<1>1. TypeOK
  BY DEF Counts, CountersTrue
<1>2. PICK j \in queue :
        /\ Runnable(j)
        /\ waiting' = [waiting EXCEPT ![j.type] = IF @ = 0 THEN 0 ELSE @ - 1]
        /\ running' = [running EXCEPT ![j.type] = @ + 1]
  BY Zenon DEF Take
<1>3. PICK ty \in Types : ty = j.type
  BY <1>1, <1>2 DEF TypeOK
<1>4. waiting[ty] \in Nat /\ running[ty] \in Nat /\ Limit[ty] \in Nat
  BY <1>1, JobConstants DEF TypeOK
<1>5. waiting[ty] # 0 /\ running[ty] < Limit[ty] /\ waiting[ty] <= MaxJobs
  <2>1. IsFiniteSet(OfType(ty)) /\ j \in OfType(ty)
    BY <1>2, <1>3, FS_Subset DEF Counts, IndexInv, OfType
  <2>2. Cardinality(OfType(ty)) # 0
    BY <2>1, FS_EmptySet
  <2>3. waiting[ty] <= nextIndex /\ nextIndex <= MaxJobs /\ nextIndex \in Nat
    BY <1>1 DEF Counts, IndexInv, TypeOK
  <2>4. QED
    BY <1>2, <1>3, <1>4, <2>2, <2>3, JobConstants DEF Counts, CountersTrue, Runnable
<1>6. waiting'[ty] = waiting[ty] - 1 /\ running'[ty] = running[ty] + 1
  BY <1>1, <1>2, <1>3, <1>5 DEF TypeOK
<1>7. Slots(ty) \in 1..MaxJobs /\ Slots(ty)' = Slots(ty) - 1
  BY <1>4, <1>5, <1>6, JobConstants DEF Slots
<1>8. \A t \in Types \ {ty} : Slots(t)' = Slots(t)
  BY <1>1, <1>2, <1>3 DEF Slots, TypeOK
<1>9. /\ <<ty, Slots(ty)>> \in Startable
      /\ Startable' \subseteq Startable \ {<<ty, Slots(ty)>>}
  BY <1>7, <1>8 DEF Startable
<1>10. Cardinality(Startable') <= Cardinality(Startable) - 1
  <2>1. /\ IsFiniteSet(Startable \ {<<ty, Slots(ty)>>})
        /\ Cardinality(Startable \ {<<ty, Slots(ty)>>}) = Cardinality(Startable) - 1
    BY Zenon, <1>9, FiniteWakeups, FS_RemoveElement
  <2>2. QED
    BY <1>9, <2>1, NoFewer
<1>11. Cardinality(Scanners) - 1 <= Cardinality(Scanners')
  <2>1. /\ IsFiniteSet(Scanners \ {h})
        /\ Cardinality(Scanners) - 1 <= Cardinality(Scanners \ {h})
    <3>1. /\ IsFiniteSet(Scanners \ {h})
          /\ Cardinality(Scanners \ {h}) =
               IF h \in Scanners THEN Cardinality(Scanners) - 1 ELSE Cardinality(Scanners)
      BY Zenon, FiniteWakeups, FS_RemoveElement
    <3>2. Cardinality(Scanners) \in Nat
      BY FiniteWakeups, FS_CardinalityType
    <3>3. QED
      BY <3>1, <3>2
  <2>2. Cardinality(Scanners \ {h}) <= Cardinality(Scanners')
    BY FiniteWakeups, NoFewer
  <2>3. /\ Cardinality(Scanners) \in Nat /\ Cardinality(Scanners') \in Nat
        /\ Cardinality(Scanners \ {h}) \in Nat
    BY <2>1, FiniteWakeups, FS_CardinalityType
  <2>4. QED
    BY <2>1, <2>2, <2>3
<1>12. Cardinality(Signallers) <= Cardinality(Signallers')
  BY FiniteWakeups, NoFewer
<1>13. /\ Cardinality(Startable') \in Nat /\ Cardinality(Startable) \in Nat
       /\ Cardinality(Scanners) \in Nat /\ Cardinality(Scanners') \in Nat
       /\ Cardinality(Signallers) \in Nat /\ Cardinality(Signallers') \in Nat
  BY FiniteWakeups, FS_CardinalityType
<1>14. Parked' # {} =>
        Cardinality(Startable') <= Cardinality(Scanners') + Cardinality(Signallers')
  BY <1>10, <1>11, <1>12, <1>13, WakeupsByName
<1>15. QED
  BY <1>14 DEF WakeupsCoverJobs, Scanners, Signallers

\* One slot more of a type makes one more job startable.
LEMMA OneSlotMore ==
  ASSUME NEW ty \in Types, Slots(ty) \in Int, Slots(ty)' \in Int,
         Slots(ty)' <= Slots(ty) + 1, \A t \in Types \ {ty} : Slots(t)' = Slots(t)
  PROVE  Startable' \subseteq Startable \cup {<<ty, Slots(ty) + 1>>}
<1> SUFFICES ASSUME NEW s \in Startable' PROVE s \in Startable \cup {<<ty, Slots(ty) + 1>>}
  OBVIOUS
<1>1. PICK t \in Types, i \in 1..MaxJobs : s = <<t, i>> /\ i <= Slots(t)'
  BY DEF Startable
<1>2. CASE i <= Slots(t)
  BY <1>1, <1>2 DEF Startable
<1>3. CASE ~(i <= Slots(t))
  <2>1. t = ty
    BY <1>1, <1>3
  <2>2. i = Slots(ty) + 1
    BY <1>1, <1>3, <2>1, JobConstants
  <2>3. QED
    BY <1>1, <2>1, <2>2
<1>4. QED
  BY <1>2, <1>3

\* A job that becomes startable brings a signal of its own.
LEMMA SignalledWakeups ==
  ASSUME WakeupsCoverJobs, NEW x, NEW h, h \notin Signallers,
         Startable' \subseteq Startable \cup {x},
         Parked' # {} => Parked # {}, Scanners \subseteq Scanners',
         Signallers \cup {h} \subseteq Signallers'
  PROVE  WakeupsCoverJobs'
<1>1. Cardinality(Startable') <= Cardinality(Startable) + 1
  <2>1. /\ IsFiniteSet(Startable \cup {x})
        /\ Cardinality(Startable \cup {x}) =
             IF x \in Startable THEN Cardinality(Startable) ELSE Cardinality(Startable) + 1
    BY Zenon, FiniteWakeups, FS_AddElement
  <2>2. Cardinality(Startable') <= Cardinality(Startable \cup {x})
    BY <2>1, NoFewer
  <2>3. Cardinality(Startable) \in Nat /\ Cardinality(Startable') \in Nat
    BY FiniteWakeups, FS_CardinalityType
  <2>4. QED
    BY <2>1, <2>2, <2>3
<1>2. Cardinality(Signallers) + 1 <= Cardinality(Signallers')
  <2>1. Cardinality(Signallers \cup {h}) = Cardinality(Signallers) + 1
    BY Zenon, FiniteWakeups, FS_AddElement
  <2>2. QED
    BY <2>1, FiniteWakeups, NoFewer
<1>3. Cardinality(Scanners) <= Cardinality(Scanners')
  BY FiniteWakeups, NoFewer
<1>4. /\ Cardinality(Startable') \in Nat /\ Cardinality(Startable) \in Nat
      /\ Cardinality(Scanners) \in Nat /\ Cardinality(Scanners') \in Nat
      /\ Cardinality(Signallers) \in Nat /\ Cardinality(Signallers') \in Nat
  BY FiniteWakeups, FS_CardinalityType
<1>5. Parked' # {} =>
        Cardinality(Startable') <= Cardinality(Scanners') + Cardinality(Signallers')
  BY <1>1, <1>2, <1>3, <1>4, WakeupsByName
<1>6. QED
  BY <1>5 DEF WakeupsCoverJobs, Scanners, Signallers

\* The end of a job frees a slot for a waiting job only if one was deferred, and
\* then somebody is notified.
LEMMA FinishWakeups ==
  ASSUME Counts, WakeupsCoverJobs, NEW h \in Dispatchers, Finish(h)
  PROVE  WakeupsCoverJobs'
<1>1. TypeOK
  BY DEF Counts, CountersTrue
<1>2. pc[h] = "run" /\ h \in Threads
  BY DEF Finish, FinishAs, Threads
<1>3. PICK ty \in Types : ty = held[h]
  BY SMTT(30), <1>2 DEF Counts, HeldInv
<1>4. /\ running' = [running EXCEPT ![ty] = IF @ = 0 THEN 0 ELSE @ - 1]
      /\ pc' = [pc EXCEPT ![h] = SignalAfter(LastJob, deferred[ty] > 0, Rest(h))]
      /\ UNCHANGED waiting
  BY <1>2, <1>3 DEF Finish, FinishAs, HasDeferred
<1>5. /\ waiting[ty] \in Nat /\ running[ty] \in Nat /\ Limit[ty] \in Nat
      /\ deferred[ty] \in Nat
  BY SMTT(30), <1>1, JobConstants DEF TypeOK
<1>6. running'[ty] = IF running[ty] = 0 THEN 0 ELSE running[ty] - 1
  BY SMTT(30), <1>1, <1>4 DEF TypeOK
<1>7. \A t \in Types \ {ty} : Slots(t)' = Slots(t)
  BY <1>1, <1>4 DEF Slots, TypeOK
<1>8. h \notin Scanners /\ h \notin Signallers /\ h \notin Parked
  BY <1>2 DEF Scanners, Signallers, Parked
<1>9. SignalAfter(LastJob, deferred[ty] > 0, Rest(h)) # "parked"
  BY SMTT(30) DEF SignalAfter, Rest
<1>10. Parked' \subseteq Parked /\ Scanners \subseteq Scanners' /\ Signallers \subseteq Signallers'
  BY <1>1, <1>2, <1>4, <1>8, <1>9
     DEF Parked, Scanners, Signallers, TypeOK, Threads, Dispatchers
<1>11. CASE deferred[ty] > 0
  <2>1. Slots(ty)' <= Slots(ty) + 1
    BY <1>4, <1>5, <1>6 DEF Slots
  <2>2. Slots(ty) \in Int /\ Slots(ty)' \in Int
    BY <1>4, <1>5, <1>6 DEF Slots
  <2>3. Startable' \subseteq Startable \cup {<<ty, Slots(ty) + 1>>}
    BY <1>7, <2>1, <2>2, OneSlotMore
  <2>4. h \in Signallers'
    <3>1. SignalAfter(LastJob, deferred[ty] > 0, Rest(h)) \in {"signalOne", "signalBoth"}
      BY <1>11 DEF SignalAfter
    <3>2. QED
      BY <1>1, <1>2, <1>4, <3>1 DEF Signallers, TypeOK
  <2>5. Signallers \cup {h} \subseteq Signallers' /\ (Parked' # {} => Parked # {})
    BY <1>10, <2>4
  <2>6. QED
    BY Zenon, <1>8, <1>10, <2>3, <2>5, SignalledWakeups
<1>12. CASE ~(deferred[ty] > 0)
  <2>1. waiting[ty] + running[ty] <= Limit[ty]
    BY SMTT(30), <1>5, <1>12 DEF Counts, CountersTrue
  <2>2. Slots(ty)' = Slots(ty)
    BY <1>4, <1>5, <1>6, <2>1 DEF Slots
  <2>3. Startable' = Startable
    BY <1>7, <2>2 DEF Startable
  <2>4. QED
    BY SMTT(30), <1>10, <2>3, QuietWakeups
<1>13. QED
  BY SMTT(30), <1>11, <1>12

\* add_job signals once it has queued the job.
LEMMA AddWakeups ==
  ASSUME Counts, WakeupsCoverJobs, NEW c \in Clients, NEW ty \in Types, AddJob(c, ty)
  PROVE  WakeupsCoverJobs'
<1>1. TypeOK
  BY DEF Counts, CountersTrue
<1>2. /\ waiting' = [waiting EXCEPT ![ty] = @ + 1]
      /\ pc[c] = "idle" /\ pc' = [pc EXCEPT ![c] = "signalOne"]
      /\ UNCHANGED running
  BY DEF AddJob, AddJobIf
<1>3. waiting[ty] \in Nat /\ running[ty] \in Nat /\ Limit[ty] \in Nat
  BY <1>1, JobConstants DEF TypeOK
<1>4. waiting'[ty] = waiting[ty] + 1
  BY <1>1, <1>2 DEF TypeOK
<1>5. \A t \in Types \ {ty} : Slots(t)' = Slots(t)
  BY SMTT(30), <1>1, <1>2 DEF Slots, TypeOK
<1>6. Slots(ty)' <= Slots(ty) + 1 /\ Slots(ty) \in Int /\ Slots(ty)' \in Int
  BY <1>2, <1>3, <1>4 DEF Slots
<1>7. Startable' \subseteq Startable \cup {<<ty, Slots(ty) + 1>>}
  BY <1>5, <1>6, OneSlotMore
<1>8. /\ c \notin Signallers /\ Parked' \subseteq Parked
      /\ Scanners \subseteq Scanners' /\ Signallers \cup {c} \subseteq Signallers'
  BY <1>1, <1>2 DEF Parked, Scanners, Signallers, TypeOK, Threads, Dispatchers
<1>9. QED
  BY Zenon, <1>7, <1>8, SignalledWakeups

\* notify_one wakes a sleeper for the signal it spends, if there is one.
LEMMA SignalWakeups ==
  ASSUME TypeOK, WakeupsCoverJobs, NEW h \in Dispatchers \cup Clients, SignalOne(h)
  PROVE  WakeupsCoverJobs'
<1>1. h \in Threads /\ pc[h] = "signalOne" /\ Rest(h) \in {"scan", "idle"}
  BY DEF Threads, SignalOne, Rest
<1>2. UNCHANGED <<waiting, running>>
  BY DEF SignalOne, counters
<1>3. CASE Parked = {} /\ pc' = [pc EXCEPT ![h] = Rest(h)]
  <2>1. Parked' = {}
    BY <1>1, <1>3 DEF Parked, TypeOK, Threads, Dispatchers
  <2>2. QED
    BY <2>1 DEF WakeupsCoverJobs
<1>4. CASE \E w \in Parked : pc' = [pc EXCEPT ![h] = Rest(h), ![w] = "scan"]
  <2>1. PICK w \in Parked : pc' = [pc EXCEPT ![h] = Rest(h), ![w] = "scan"]
    BY Zenon, <1>4
  <2>2. w \in Workers /\ w \in Threads /\ pc[w] = "parked"
    BY DEF Parked, Threads, Dispatchers
  <2>3. w \notin Scanners /\ Scanners \cup {w} \subseteq Scanners'
    BY <1>1, <2>1, <2>2 DEF Scanners, TypeOK, Threads, Dispatchers
  <2>4. h \in Signallers /\ Signallers \ {h} \subseteq Signallers'
    BY <1>1, <2>1, <2>2 DEF Signallers, TypeOK
  <2>5. Startable' = Startable
    BY <1>2 DEF Startable, Slots
  <2>6. Cardinality(Scanners) + 1 <= Cardinality(Scanners')
    <3>1. Cardinality(Scanners \cup {w}) = Cardinality(Scanners) + 1
      BY Zenon, <2>3, FiniteWakeups, FS_AddElement
    <3>2. QED
      BY <2>3, <3>1, FiniteWakeups, NoFewer
  <2>7. Cardinality(Signallers) - 1 <= Cardinality(Signallers')
    <3>1. Cardinality(Signallers \ {h}) = Cardinality(Signallers) - 1
      BY Zenon, <2>4, FiniteWakeups, FS_RemoveElement
    <3>2. QED
      BY <2>4, <3>1, FiniteWakeups, NoFewer
  <2>8. /\ Cardinality(Startable) \in Nat
        /\ Cardinality(Scanners) \in Nat /\ Cardinality(Scanners') \in Nat
        /\ Cardinality(Signallers) \in Nat /\ Cardinality(Signallers') \in Nat
    BY FiniteWakeups, FS_CardinalityType
  <2>9. Cardinality(Startable') <= Cardinality(Scanners') + Cardinality(Signallers')
    BY SMTT(30), <2>2, <2>5, <2>6, <2>7, <2>8, WakeupsByName
  <2>10. QED
    BY <2>9 DEF WakeupsCoverJobs, Scanners, Signallers
<1>5. QED
  BY <1>3, <1>4 DEF SignalOne

\* Every step keeps the wake-ups.
LEMMA WakeupStep ==
  ASSUME Counts, ParkInv, WakeupsCoverJobs, [Next]_vars
  PROVE  WakeupsCoverJobs'
<1>1. TypeOK /\ Counts'
  BY Zenon, CountStep DEF Counts, CountersTrue
<1> DEFINE Same == UNCHANGED <<waiting, running>>
<1>2. Same => Startable' = Startable
  BY DEF Startable, Slots
<1>3. ASSUME NEW w \in Workers, WorkerStep(w) PROVE WakeupsCoverJobs'
  <2>1. w \in Dispatchers /\ w \in Threads
    BY DEF Dispatchers, Threads
  <2>2. CASE WorkerTake(w)
    <3>1. /\ Parked' \subseteq Parked /\ Scanners \ {w} \subseteq Scanners'
          /\ Signallers \subseteq Signallers'
      BY <1>1, <2>1, <2>2
         DEF WorkerTake, Parked, Scanners, Signallers, TypeOK, Threads, Dispatchers
    <3>2. QED
      BY SMTT(30), <2>1, <2>2, <3>1, TakeWakeups DEF WorkerTake
  <2>3. CASE WorkerExit(w) \/ WorkerCheck(w) \/ WorkerPark(w)
    <3>1. Same
      BY <2>3 DEF WorkerExit, ExitIf, WorkerCheck, WorkerPark, counters
    <3>2. NoneRunnable
      BY <2>3 DEF WorkerExit, ExitIf, WorkerCheck, WorkerPark, ParkInv
    <3>3. QED
      BY <1>2, <3>1, <3>2, NoneStartable, IdleWakeups
  <2>4. QED
    BY <1>3, <2>2, <2>3 DEF WorkerStep
<1>4. ASSUME NEW h \in Dispatchers, Finish(h) PROVE WakeupsCoverJobs'
  BY <1>4, FinishWakeups
<1>5. ASSUME NEW h \in Dispatchers \cup Clients, SignalStep(h) PROVE WakeupsCoverJobs'
  <2>1. CASE SignalIdle(h)
    <3>1. /\ Parked' \subseteq Parked /\ Scanners \subseteq Scanners'
          /\ Signallers \subseteq Signallers' /\ Same
      BY <1>1, <2>1 DEF SignalIdle, Woken, Rest, Parked, Scanners, Signallers, TypeOK,
                        Threads, Dispatchers, counters
    <3>2. QED
      BY <1>2, <3>1, QuietWakeups
  <2>2. CASE SignalOne(h)
    BY <1>1, <2>2, SignalWakeups
  <2>3. QED
    BY <1>5, <2>1, <2>2 DEF SignalStep
<1>6. ASSUME NEW m \in Manual, Reserve(m) PROVE WakeupsCoverJobs'
  <2>1. m \in Dispatchers
    BY DEF Dispatchers
  <2>2. /\ Parked' \subseteq Parked /\ Scanners \ {m} \subseteq Scanners'
        /\ Signallers \subseteq Signallers'
    BY <1>1, <1>6
       DEF Reserve, Parked, Scanners, Signallers, TypeOK, Threads, Dispatchers
  <2>3. QED
    BY <1>6, <2>1, <2>2, TakeWakeups DEF Reserve
<1>7. ASSUME NEW c \in Clients, NEW t \in Types, AddJob(c, t) PROVE WakeupsCoverJobs'
  BY <1>7, AddWakeups
<1>8. ASSUME NEW c \in Clients, Rendezvous(c) \/ RendezvousLooks(c)
      PROVE  WakeupsCoverJobs'
  <2>1. /\ Parked' \subseteq Parked /\ Scanners \subseteq Scanners'
        /\ Signallers \subseteq Signallers' /\ Same
    BY <1>1, <1>8 DEF Rendezvous, RendezvousLooks, Parked, Scanners, Signallers, TypeOK,
                      Threads, Dispatchers, counters
  <2>2. QED
    BY <1>2, <2>1, QuietWakeups
<1>9. ASSUME StopStores \/ StopStep PROVE WakeupsCoverJobs'
  <2>1. /\ Parked' \subseteq Parked /\ Scanners \subseteq Scanners'
        /\ Signallers \subseteq Signallers' /\ Same
    BY <1>1, <1>9 DEF StopStores, StopStep, StopNotifies, StopLooks, StopNotifiesAgain,
       StopJoins, StopReturns, WakeAll, Parked, Scanners, Signallers, TypeOK,
       Threads, Dispatchers, counters
  <2>2. QED
    BY <1>2, <2>1, QuietWakeups
<1>10. ASSUME UNCHANGED vars PROVE WakeupsCoverJobs'
  <2>1. Parked' = Parked /\ Scanners' = Scanners /\ Signallers' = Signallers /\ Same
    BY <1>10 DEF vars, Parked, Scanners, Signallers
  <2>2. QED
    BY <1>2, <2>1, QuietWakeups
<1>11. QED
  BY SMTT(30), <1>3, <1>4, <1>5, <1>6, <1>7, <1>8, <1>9, <1>10 DEF Next

-----------------------------------------------------------------------------
(* Stop *)

\* With nothing running nobody can finish a job.
LEMMA NoRunner ==
  ASSUME Counts, processCount = 0, NEW h \in Dispatchers
  PROVE  pc[h] # "run"
<1>1. IsFiniteSet(Runners) /\ Cardinality(Runners) = 0
  BY FiniteThreads, FS_Subset, CountersByType DEF Counts, Runners
<1>2. QED
  BY <1>1, FS_EmptySet DEF Runners

\* Every step keeps the stages of stop.
LEMMA StopKept ==
  ASSUME Counts, StopInv, [Next]_vars
  PROVE  StopInv'
<1>1. TypeOK
  BY DEF Counts, CountersTrue
<1>2. Stopper \in Threads /\ Workers \subseteq Threads /\ Dispatchers \subseteq Threads
      /\ Workers \subseteq Dispatchers /\ Clients \subseteq Threads
  BY DEF Threads, Dispatchers
<1>3. ASSUME NEW h \in Dispatchers, pc[h] \in {"scan", "idle"}, Take(h),
             pc' = [pc EXCEPT ![h] = "run"]
      PROVE  StopInv'
  <2>1. queue # {}
    BY <1>3 DEF Take
  <2>2. pc[Stopper] \notin {"stopNotifyAgain", "stopJoin", "done"}
    BY <2>1 DEF StopInv, Idle
  <2>3. pc'[Stopper] = pc[Stopper] \/ pc'[Stopper] = "run"
    BY <1>1, <1>3, <1>2 DEF TypeOK
  <2>4. QED
    BY <1>3, <2>2, <2>3 DEF StopInv, Take
<1>4. ASSUME NEW w \in Workers, WorkerStep(w) PROVE StopInv'
  <2>1. CASE WorkerTake(w)
    BY Zenon, <1>3, <1>2, <2>1 DEF WorkerTake
  <2>2. CASE WorkerExit(w) \/ WorkerCheck(w) \/ WorkerPark(w)
    <3>1. /\ pc[w] \in {"scan", "parking"}
          /\ \/ pc' = [pc EXCEPT ![w] = "exited"]
             \/ pc' = [pc EXCEPT ![w] = "parking"]
             \/ pc' = [pc EXCEPT ![w] = "parked"]
          /\ UNCHANGED <<queue, processCount, stopping, stopped, joining>>
      BY <2>2 DEF WorkerExit, ExitIf, WorkerCheck, WorkerPark
    <3>2. QED
      BY <1>1, <1>2, <3>1 DEF TypeOK, StopInv, Idle
  <2>3. QED
    BY <1>4, <2>1, <2>2 DEF WorkerStep
<1>5. ASSUME NEW h \in Dispatchers, Finish(h) PROVE StopInv'
  <2>1. pc[h] = "run" /\ UNCHANGED <<queue, stopping, stopped, joining>>
        /\ pc' = [pc EXCEPT ![h] = SignalAfter(LastJob, HasDeferred(h), Rest(h))]
    BY <1>5 DEF Finish, FinishAs
  <2>2. SignalAfter(LastJob, HasDeferred(h), Rest(h)) \in Signals \cup {"scan", "idle"}
    BY DEF SignalAfter, Rest, Signals
  <2>3. pc[Stopper] \notin {"stopNotifyAgain", "stopJoin", "done"} /\ ~stopped
    BY <2>1, NoRunner DEF StopInv, Idle
  <2>4. pc'[Stopper] = pc[Stopper] \/ pc'[Stopper] \in Signals \cup {"scan", "idle"}
    BY SMTT(30), <1>1, <1>2, <2>1, <2>2 DEF TypeOK
  <2>5. QED
    BY <2>1, <2>3, <2>4 DEF StopInv, Signals
<1>6. ASSUME NEW h \in Dispatchers \cup Clients, SignalStep(h) PROVE StopInv'
  <2>1. UNCHANGED <<queue, processCount, stopping, stopped, joining>>
    BY <1>6 DEF SignalStep, SignalIdle, SignalOne
  <2>2. \A w \in Workers : pc[w] = "exited" => pc'[w] = "exited"
    BY <1>1, <1>6, <1>2 DEF SignalStep, SignalIdle, SignalOne, Woken, Parked, TypeOK
  <2>3. \/ pc'[Stopper] = pc[Stopper]
        \/ pc[Stopper] = "stopWait" /\ pc'[Stopper] = "stopDrain"
        \/ pc[Stopper] \in {"signalIdle", "signalBoth", "signalOne", "parked", "idleWait"}
           /\ pc'[Stopper] \in {"signalOne", "scan", "idle", "rendezvous"}
    BY <1>1, <1>6, <1>2 DEF SignalStep, SignalIdle, SignalOne, Woken, Rest, Parked, TypeOK
  <2>4. QED
    BY <2>1, <2>2, <2>3 DEF StopInv, Idle
<1>7. ASSUME NEW m \in Manual, Reserve(m) PROVE StopInv'
  BY Zenon, <1>3, <1>7 DEF Reserve, Dispatchers
<1>8. ASSUME NEW c \in Clients, NEW t \in Types, AddJob(c, t) PROVE StopInv'
  <2>1. /\ ~stopping /\ pc[c] = "idle" /\ pc' = [pc EXCEPT ![c] = "signalOne"]
        /\ UNCHANGED <<processCount, stopping, stopped, joining>>
    BY <1>8 DEF AddJob, AddJobIf
  <2>2. pc[Stopper] \notin {"stopNotify", "stopDrain", "stopWait", "stopNotifyAgain",
                            "stopJoin", "done"}
    BY <2>1 DEF StopInv
  <2>3. pc'[Stopper] = pc[Stopper] \/ pc'[Stopper] = "signalOne"
    BY SMTT(30), <1>1, <1>2, <2>1 DEF TypeOK
  <2>4. QED
    BY <2>1, <2>2, <2>3 DEF StopInv
<1>9. ASSUME NEW c \in Clients, Rendezvous(c) \/ RendezvousLooks(c) PROVE StopInv'
  <2>1. /\ pc[c] \in {"idle", "rendezvous"}
        /\ \E s \in {"rendezvous", "idle", "idleWait"} : pc' = [pc EXCEPT ![c] = s]
        /\ UNCHANGED <<queue, processCount, stopping, stopped, joining>>
    BY SMTT(30), <1>9 DEF Rendezvous, RendezvousLooks
  <2>2. /\ \A w \in Workers : pc[w] = "exited" => pc'[w] = "exited"
        /\ \/ pc'[Stopper] = pc[Stopper]
           \/ pc[Stopper] \in {"idle", "rendezvous"}
              /\ pc'[Stopper] \in {"rendezvous", "idle", "idleWait"}
    BY <1>1, <1>2, <2>1 DEF TypeOK
  <2>3. QED
    BY SMTT(30), <2>1, <2>2 DEF StopInv, Idle
<1>10. ASSUME StopStores \/ StopStep PROVE StopInv'
  <2>1. CASE StopStores
    BY SMTT(30), <1>1, <1>2, <2>1 DEF StopStores, StopInv, Idle, TypeOK
  <2>2. CASE StopNotifies
    BY SMTT(30), <1>1, <1>2, <2>2 DEF StopNotifies, WakeAll, Parked, StopInv, Idle, TypeOK
  <2>3. CASE StopLooks
    BY SMTT(30), <1>1, <1>2, <2>3 DEF StopLooks, StopInv, Idle, TypeOK
  <2>4. CASE StopNotifiesAgain
    BY <1>1, <1>2, <2>4 DEF StopNotifiesAgain, WakeAll, StopInv, Idle, TypeOK
  <2>5. CASE StopJoins
    BY <1>1, <1>2, <2>5 DEF StopJoins, StopInv, Idle, TypeOK
  <2>6. CASE StopReturns
    BY <1>1, <1>2, <2>6 DEF StopReturns, StopInv, Idle, TypeOK
  <2>7. QED
    BY SMTT(30), <1>10, <2>1, <2>2, <2>3, <2>4, <2>5, <2>6 DEF StopStep
<1>11. ASSUME UNCHANGED vars PROVE StopInv'
  BY <1>11 DEF vars, StopInv, Idle
<1>12. QED
  BY <1>4, <1>5, <1>6, <1>7, <1>8, <1>9, <1>10, <1>11 DEF Next

-----------------------------------------------------------------------------
(* Theorems *)

\* The invariant holds when the queue is created.
LEMMA InitIInv == Init => IInv
<1> SUFFICES ASSUME Init PROVE IInv
  OBVIOUS
<1>1. TypeOK
  BY Zenon, JobConstants DEF Init, TypeOK, Threads, Dispatchers, Signals
<1>2. ASSUME NEW t \in Types PROVE CountersOf(t)
  <2>1. OfType(t) = {} /\ Holders(t) = {}
    BY JobConstants DEF Init, OfType, Holders
  <2>2. QED
    BY <2>1, FS_EmptySet, JobConstants DEF Init, CountersOf
<1>3. processCount = Cardinality(Runners)
  <2>1. Runners = {}
    BY DEF Init, Runners, Threads, Dispatchers
  <2>2. QED
    BY <2>1, FS_EmptySet DEF Init
<1>4. CountersTrue
  BY SMTT(30), <1>1, <1>2, <1>3, CountersByType
<1>5. HeldInv /\ IndexInv
  BY SMTT(30), JobConstants, FS_EmptySet DEF Init, HeldInv, IndexInv, Threads, Dispatchers
<1>6. ParkInv /\ WakeupsCoverJobs /\ StopInv
  BY DEF Init, ParkInv, WakeupsCoverJobs, Parked, StopInv, Threads, Dispatchers
<1>7. QED
  BY <1>4, <1>5, <1>6 DEF IInv

\* Every step keeps the invariant.
LEMMA NextIInv == IInv /\ [Next]_vars => IInv'
<1> SUFFICES ASSUME IInv, [Next]_vars PROVE IInv'
  BY SMTT(30)
<1>1. Counts /\ TypeOK /\ ParkInv /\ WakeupsCoverJobs /\ StopInv
  BY DEF IInv, Counts, CountersTrue
<1>2. QED
  BY <1>1, CountStep, ParkStep, WakeupStep, StopKept DEF IInv, Counts

\* The invariant holds throughout, however clients, workers and stop interleave.
THEOREM Invariance == Spec => []IInv
BY InitIInv, NextIInv, PTL DEF Spec

\* The counters of every type are exact, no type runs above its limit, and the
\* deferred jobs are exactly those in excess of it (CountersTrue).
THEOREM CountersAreTrue == Spec => []CountersTrue
<1>1. IInv => CountersTrue
  BY DEF IInv
<1>2. QED
  BY <1>1, Invariance, PTL

\* While a worker sleeps, every job that could start has a worker on its way
\* (WakeupsCoverJobs).
THEOREM NoWakeupLost == Spec => []WakeupsCoverJobs
<1>1. IInv => WakeupsCoverJobs
  BY DEF IInv
<1>2. QED
  BY <1>1, Invariance, PTL

\* When stop has returned, nothing is queued or running and every worker has
\* left (StoppedIsDrained).
THEOREM StopDrains == Spec => []StoppedIsDrained
<1>1. IInv => StoppedIsDrained
  BY DEF IInv, StopInv, StoppedIsDrained, Idle
<1>2. QED
  BY <1>1, Invariance, PTL
=============================================================================
