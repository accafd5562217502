------------------------------ MODULE JobQueue ------------------------------
(***************************************************************************)
(* The application's job queue (src/xrpld/app/src/job/job_queue.rs): a     *)
(* priority queue of jobs under one mutex, a limit on the jobs of a type   *)
(* that run at once, a fixed pool of workers parked on the condition       *)
(* variable not_empty, and rendezvous/stop callers parked on idle.         *)
(*                                                                         *)
(* A critical section is one step; what a thread does after it has dropped *)
(* the mutex (every notify) is a step of its own.  The one critical        *)
(* section another thread's unlocked write can cut in two is a worker's    *)
(* way to sleep: stop() stores `stopping` and notifies without the mutex,  *)
(* so the worker's test of `stopping` and its wait are two steps, between  *)
(* which the worker (pc = "parking") holds the mutex.                      *)
(*                                                                         *)
(* A job is its type and its index; what it does is left out, and whether  *)
(* it returns or panics makes no difference to the queue (worker_loop      *)
(* catches the unwinding, RunningJob::drop runs during it).                *)
(***************************************************************************)
EXTENDS Integers, FiniteSets

CONSTANTS Workers,   \* the pool's threads
          Clients,   \* threads that call add_job and rendezvous
          Manual,    \* threads that drive jobs through reserve_next_job
          Stopper,   \* the thread that calls stop
          Types,     \* job types, by priority
          Limit,     \* JobType::limit
          MaxJobs    \* bound on next_index

ASSUME JobConstants ==
  /\ Types \subseteq Nat /\ IsFiniteSet(Types)
  /\ Limit \in [Types -> Nat]
  /\ MaxJobs \in Nat
  /\ IsFiniteSet(Workers) /\ IsFiniteSet(Clients) /\ IsFiniteSet(Manual)

VARIABLES
  queue,         \* State::queue
  waiting,       \* JobTypeCounters::waiting, per type
  running,       \* JobTypeCounters::running
  deferred,      \* JobTypeCounters::deferred
  processCount,  \* State::process_count
  stopping, stopped,
  nextIndex,
  pc,            \* where each thread is
  held,          \* the type of the job a thread runs or has reserved
  joining        \* the handles stop took from `workers` and has yet to join

counters == <<waiting, running, deferred>>
vars == <<queue, waiting, running, deferred, processCount, stopping, stopped,
          nextIndex, pc, held, joining>>

Dispatchers == Workers \cup Manual
Threads == Dispatchers \cup Clients \cup {Stopper}

\* pc of a thread that has dropped the mutex and has notifications to send.
Signals == {"signalIdle", "signalOne", "signalBoth"}

Idle == processCount = 0 /\ queue = {}

Parked == {w \in Workers : pc[w] = "parked"}

\* No worker is between its test of `stopping` and its wait.
MutexFree == \A w \in Workers : pc[w] # "parking"

Init ==
  /\ queue = {}
  /\ waiting = [t \in Types |-> 0]
  /\ running = [t \in Types |-> 0]
  /\ deferred = [t \in Types |-> 0]
  /\ processCount = 0
  /\ stopping = FALSE
  /\ stopped = FALSE
  /\ nextIndex = 0
  /\ pc = [h \in Threads |-> IF h \in Workers THEN "scan" ELSE "idle"]
  /\ held = [h \in Dispatchers |-> -1]
  /\ joining = {}

-----------------------------------------------------------------------------
(* take_next_runnable_job *)

Runnable(j) == running[j.type] < Limit[j.type]

\* Ord for Job: the higher type first, then the lower index.
Before(j, k) == j.type > k.type \/ (j.type = k.type /\ j.index < k.index)

NoneRunnable == \A j \in queue : ~Runnable(j)

\* The mutex is held and thread h takes the job the scan of the heap stops at.
Take(h) ==
  \E j \in queue :
    /\ Runnable(j)
    /\ \A k \in queue \ {j} : Runnable(k) => Before(j, k)
    /\ queue' = queue \ {j}
    /\ waiting' = [waiting EXCEPT ![j.type] = IF @ = 0 THEN 0 ELSE @ - 1]
    /\ running' = [running EXCEPT ![j.type] = @ + 1]
    /\ processCount' = processCount + 1
    /\ held' = [held EXCEPT ![h] = j.type]
    /\ UNCHANGED <<deferred, stopping, stopped, nextIndex, joining>>

-----------------------------------------------------------------------------
(* worker_loop *)

WorkerTake(w) ==
  /\ pc[w] = "scan" /\ MutexFree
  /\ Take(w)
  /\ pc' = [pc EXCEPT ![w] = "run"]

ExitIf(w, drained) ==
  /\ pc[w] = "scan" /\ MutexFree
  /\ NoneRunnable
  /\ stopping /\ drained
  /\ pc' = [pc EXCEPT ![w] = "exited"]
  /\ UNCHANGED <<queue, counters, processCount, stopping, stopped, nextIndex,
                 held, joining>>

\* Variant: a stopping worker leaves while jobs are queued.
WorkerExitEarly(w) == ExitIf(w, TRUE)

WorkerExit(w) == ExitIf(w, queue = {})

\* Nothing to run and no reason to leave: the worker goes to wait, still
\* holding the mutex.
WorkerCheck(w) ==
  /\ pc[w] = "scan" /\ MutexFree
  /\ NoneRunnable
  /\ ~(stopping /\ queue = {})
  /\ pc' = [pc EXCEPT ![w] = "parking"]
  /\ UNCHANGED <<queue, counters, processCount, stopping, stopped, nextIndex,
                 held, joining>>

WorkerPark(w) ==
  /\ pc[w] = "parking"
  /\ pc' = [pc EXCEPT ![w] = "parked"]
  /\ UNCHANGED <<queue, counters, processCount, stopping, stopped, nextIndex,
                 held, joining>>

-----------------------------------------------------------------------------
(* finish_job, in worker_loop and in RunningJob::finish_inner *)

\* What the finisher will notify once it has dropped the mutex.
SignalAfter(nowIdle, promoted, else) ==
  CASE nowIdle /\ promoted   -> "signalBoth"
    [] nowIdle /\ ~promoted  -> "signalIdle"
    [] ~nowIdle /\ promoted  -> "signalOne"
    [] ~nowIdle /\ ~promoted -> else

\* Where a thread goes when its notifications are sent.
Rest(h) == IF h \in Workers THEN "scan" ELSE "idle"

\* The end of h's job, given what the finisher concluded under the mutex.
FinishAs(h, nowIdle, promoted, notified) ==
  /\ pc[h] = "run" /\ MutexFree
  /\ deferred' = [deferred EXCEPT ![held[h]] = IF promoted THEN @ - 1 ELSE @]
  /\ running' = [running EXCEPT ![held[h]] = IF @ = 0 THEN 0 ELSE @ - 1]
  /\ processCount' = processCount - 1
  /\ pc' = [pc EXCEPT ![h] = SignalAfter(nowIdle, notified, Rest(h))]
  /\ held' = [held EXCEPT ![h] = -1]
  /\ UNCHANGED <<queue, waiting, stopping, stopped, nextIndex, joining>>

LastJob == processCount = 1 /\ queue = {}
HasDeferred(h) == pc[h] = "run" /\ deferred[held[h]] > 0

\* Variant: the deferred job is not promoted.
FinishKeepsDeferred(h) == FinishAs(h, LastJob, FALSE, HasDeferred(h))

\* Variant: nobody is told of the promoted job.
FinishSilent(h) == FinishAs(h, LastJob, HasDeferred(h), FALSE)

Finish(h) == FinishAs(h, LastJob, HasDeferred(h), HasDeferred(h))

\* idle.notify_all: every rendezvous and stop that sleeps looks again.
Woken(h) == CASE pc[h] = "idleWait" -> "rendezvous"
              [] pc[h] = "stopWait" -> "stopDrain"
              [] OTHER -> pc[h]

SignalIdle(h) ==
  /\ pc[h] \in {"signalIdle", "signalBoth"}
  /\ pc' = [g \in Threads |->
              IF g = h THEN (IF pc[h] = "signalBoth" THEN "signalOne" ELSE Rest(h))
              ELSE Woken(g)]
  /\ UNCHANGED <<queue, counters, processCount, stopping, stopped, nextIndex,
                 held, joining>>

\* not_empty.notify_one: lost when no worker is parked.
SignalOne(h) ==
  /\ pc[h] = "signalOne"
  /\ \/ Parked = {} /\ pc' = [pc EXCEPT ![h] = Rest(h)]
     \/ \E w \in Parked : pc' = [pc EXCEPT ![h] = Rest(h), ![w] = "scan"]
  /\ UNCHANGED <<queue, counters, processCount, stopping, stopped, nextIndex,
                 held, joining>>

-----------------------------------------------------------------------------
(* reserve_next_job, dispatch_next_job: the caller holds a RunningJob       *)

Reserve(m) ==
  /\ pc[m] = "idle" /\ MutexFree
  /\ Take(m)
  /\ pc' = [pc EXCEPT ![m] = "run"]

-----------------------------------------------------------------------------
(* add_job.  A call for a special type (limit 0), or one that finds the    *)
(* queue stopping, returns false and changes nothing.                      *)

AddJobIf(c, t, open) ==
  /\ pc[c] = "idle" /\ MutexFree
  /\ Limit[t] # 0
  /\ open
  /\ nextIndex < MaxJobs
  /\ nextIndex' = nextIndex + 1
  /\ deferred' = [deferred EXCEPT ![t] =
                    IF waiting[t] + running[t] < Limit[t] THEN @ ELSE @ + 1]
  /\ waiting' = [waiting EXCEPT ![t] = @ + 1]
  /\ queue' = queue \cup {[type |-> t, index |-> nextIndex + 1]}
  /\ pc' = [pc EXCEPT ![c] = "signalOne"]
  /\ UNCHANGED <<running, processCount, stopping, stopped, held, joining>>

\* Variant: `stopping` is not looked at.
AddJobUnchecked(c, t) == AddJobIf(c, t, TRUE)

AddJob(c, t) == AddJobIf(c, t, ~stopping /\ ~stopped)

-----------------------------------------------------------------------------
(* rendezvous *)

Rendezvous(c) ==
  /\ pc[c] = "idle"
  /\ pc' = [pc EXCEPT ![c] = "rendezvous"]
  /\ UNCHANGED <<queue, counters, processCount, stopping, stopped, nextIndex,
                 held, joining>>

RendezvousLooks(c) ==
  /\ pc[c] = "rendezvous" /\ MutexFree
  /\ pc' = [pc EXCEPT ![c] = IF Idle THEN "idle" ELSE "idleWait"]
  /\ UNCHANGED <<queue, counters, processCount, stopping, stopped, nextIndex,
                 held, joining>>

-----------------------------------------------------------------------------
(* stop *)

StopStores ==
  /\ pc[Stopper] = "idle"
  /\ stopping' = TRUE
  /\ pc' = [pc EXCEPT ![Stopper] = "stopNotify"]
  /\ UNCHANGED <<queue, counters, processCount, stopped, nextIndex, held, joining>>

\* not_empty.notify_all, by a stop whose next stage is s.
WakeAll(s) ==
  pc' = [h \in Threads |-> IF h = Stopper THEN s
                           ELSE IF h \in Parked THEN "scan" ELSE pc[h]]

StopNotifies ==
  /\ pc[Stopper] = "stopNotify"
  /\ WakeAll("stopDrain")
  /\ UNCHANGED <<queue, counters, processCount, stopping, stopped, nextIndex,
                 held, joining>>

StopLooks ==
  /\ pc[Stopper] = "stopDrain" /\ MutexFree
  /\ pc' = [pc EXCEPT ![Stopper] = IF Idle THEN "stopNotifyAgain" ELSE "stopWait"]
  /\ UNCHANGED <<queue, counters, processCount, stopping, stopped, nextIndex,
                 held, joining>>

\* Variant: the workers are told only once.
StopSkipsSecondNotify ==
  /\ pc[Stopper] = "stopNotifyAgain"
  /\ pc' = [pc EXCEPT ![Stopper] = "stopJoin"]
  /\ joining' = Workers
  /\ UNCHANGED <<queue, counters, processCount, stopping, stopped, nextIndex, held>>

StopNotifiesAgain ==
  /\ pc[Stopper] = "stopNotifyAgain"
  /\ WakeAll("stopJoin")
  /\ joining' = Workers
  /\ UNCHANGED <<queue, counters, processCount, stopping, stopped, nextIndex, held>>

StopJoins ==
  /\ pc[Stopper] = "stopJoin"
  /\ \E w \in joining : pc[w] = "exited" /\ joining' = joining \ {w}
  /\ UNCHANGED <<queue, counters, processCount, stopping, stopped, nextIndex, pc, held>>

StopReturns ==
  /\ pc[Stopper] = "stopJoin" /\ joining = {}
  /\ stopped' = TRUE
  /\ pc' = [pc EXCEPT ![Stopper] = "done"]
  /\ UNCHANGED <<queue, counters, processCount, stopping, nextIndex, held, joining>>

-----------------------------------------------------------------------------
WorkerStep(w) == \/ WorkerTake(w) \/ WorkerExit(w)
                 \/ WorkerCheck(w) \/ WorkerPark(w)

SignalStep(h) == SignalIdle(h) \/ SignalOne(h)

StopStep == \/ StopNotifies \/ StopLooks \/ StopNotifiesAgain
            \/ StopJoins \/ StopReturns

Next ==
  \/ \E w \in Workers : WorkerStep(w)
  \/ \E h \in Dispatchers : Finish(h)
  \/ \E h \in Dispatchers \cup Clients : SignalStep(h)
  \/ \E m \in Manual : Reserve(m)
  \/ \E c \in Clients : \/ \E t \in Types : AddJob(c, t)
                        \/ Rendezvous(c)
                        \/ RendezvousLooks(c)
  \/ StopStores
  \/ StopStep

Spec == Init /\ [][Next]_vars

\* Threads keep running, jobs end, and a reservation is finished or dropped.
Fairness ==
  /\ \A w \in Workers : WF_vars(WorkerStep(w))
  /\ \A h \in Dispatchers : WF_vars(Finish(h))
  /\ \A h \in Dispatchers \cup Clients : WF_vars(SignalStep(h))
  /\ \A c \in Clients : WF_vars(RendezvousLooks(c))
  /\ WF_vars(StopStep)

FairSpec == Spec /\ Fairness

-----------------------------------------------------------------------------
(* Properties *)

OfType(t) == {j \in queue : j.type = t}
Holders(t) == {h \in Dispatchers : held[h] = t}

\* Every variable has its type.
TypeOK ==
  /\ queue \subseteq [type : Types, index : 1..nextIndex]
  /\ waiting \in [Types -> Nat]
  /\ running \in [Types -> Nat]
  /\ deferred \in [Types -> Nat]
  /\ processCount \in Nat
  /\ stopping \in BOOLEAN /\ stopped \in BOOLEAN
  /\ nextIndex \in Nat
  /\ pc \in [Threads -> {"scan", "run", "parking", "parked", "exited", "idle",
                         "rendezvous", "idleWait", "stopNotify", "stopDrain",
                         "stopWait", "stopNotifyAgain", "stopJoin", "done"} \cup Signals]
  /\ held \in [Dispatchers -> Types \cup {-1}]
  /\ joining \subseteq Workers

\* The three counters of a type tell the truth: waiting counts the queued
\* jobs, running the threads that really hold one, and running stays within
\* the limit whichever way jobs are dispatched, finished or dropped.  The jobs in
\* excess of the limit are exactly the deferred ones, so the end of a job of a
\* saturated type always finds a deferred job to promote, and thus always
\* notifies (add_job, take_next_runnable_job, finish_job).
CountersTrue ==
  /\ TypeOK
  /\ \A t \in Types :
       /\ waiting[t] = Cardinality(OfType(t))
       /\ running[t] = Cardinality(Holders(t))
       /\ running[t] <= Limit[t]
       /\ waiting[t] - deferred[t] + running[t] <= Limit[t]
       /\ deferred[t] > 0 => waiting[t] - deferred[t] + running[t] = Limit[t]
  /\ processCount = Cardinality({h \in Dispatchers : pc[h] = "run"})

\* The jobs that could be taken now: queued and within their type's limit.
Slots(t) == LET free == Limit[t] - running[t]
            IN IF free < waiting[t] THEN free ELSE waiting[t]

\* All the ways to choose a job that could start now, one per free slot.
Startable == {s \in Types \X (1..MaxJobs) : s[2] <= Slots(s[1])}

\* While a worker sleeps, each job that could start has a worker awake and
\* looking, or a notification on its way: no wake-up of not_empty.notify_one
\* is spent on the wrong job and lost (add_job, worker_loop).
WakeupsCoverJobs ==
  Parked # {} => Cardinality(Startable) <=
                   Cardinality({w \in Workers : pc[w] = "scan"})
                   + Cardinality({h \in Threads : pc[h] \in {"signalOne", "signalBoth"}})

\* Once stop() has returned, every accepted job has run and every worker has
\* left; no add_job that raced with stop slipped a job in behind it
\* (add_job, stop).
StoppedIsDrained ==
  stopped => /\ queue = {} /\ processCount = 0
             /\ \A w \in Workers : pc[w] = "exited"

\* Every accepted job starts, deferred ones included and also while the queue
\* is stopping (worker_loop).
JobsStart == \A i \in 1..MaxJobs :
  (\E j \in queue : j.index = i) ~> (\A j \in queue : j.index # i)

\* Whoever waits for the queue to be idle returns.  stop(): no worker parks for
\* good between its two notify_all calls, and none leaves while a job still waits
\* for a slot.  rendezvous(): no notification of idle is lost (stop, rendezvous,
\* worker_loop).
CallersReturn ==
  /\ stopping ~> stopped
  /\ \A c \in Clients : (pc[c] = "rendezvous") ~> (pc[c] = "idle")
=============================================================================
