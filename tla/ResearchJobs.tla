----------------------------- MODULE ResearchJobs -----------------------------
(***************************************************************************)
(* What becomes of a research task within one epoch: it is accepted from a *)
(* Director's plan, queued, started as a job, and its result is recorded   *)
(* and then acted upon, until the epoch is sealed and the tasks that are   *)
(* left go to the next one.  The controller may die at any moment; the     *)
(* next process rebuilds its queues from the event log (recover).          *)
(*                                                                         *)
(* The log is kept as what recover reads from it: the events of each job   *)
(* of a task, the events that came after the task's last start, the        *)
(* highest retry recorded and the continuations that were checkpointed.    *)
(* Which result a job has is chosen when it is collected.  EpochLoop has   *)
(* the loop's phases and AuditPipeline the audits.                         *)
(***************************************************************************)
EXTENDS Naturals, FiniteSets

CONSTANTS
  Tasks,        \* stable task identities that Directors propose
  Workers,      \* cap on research jobs in flight
  Limit,        \* automatic retries of a task, by retry class
  MaxStarts,    \* bound on the jobs of one task
  MaxCrashes    \* bound on the crashes of the controller

Classes == {"transport", "protocol"}

ASSUME ResearchJobsAssumption ==
  /\ IsFiniteSet(Tasks) /\ Workers \in Nat \ {0}
  /\ Limit \in [Classes -> Nat] /\ {MaxStarts, MaxCrashes} \subseteq Nat

VARIABLES
  phase,    \* up: run, drain; leaving: closing, cutting, finish; sealed; down, recover
  log,      \* durable: what recover reads from the event log
  queue,    \* pending_research and deferred_research_continuations, retries
  active,   \* per job: none, running, done, cancelled (its future)
  reserved, \* jobs with a token reservation
  accepting,\* a job recorded as completed whose result is not acted on yet
  settled,  \* history: tasks with a recorded decision
  gone,     \* history: how a task last left its job without a decision
  crashes

vars == <<phase, log, queue, active, reserved, accepting, settled, gone, crashes>>

Jobs == Tasks \X (1..MaxStarts)
None == <<>>
TaskOf(j) == j[1]
Up == phase \in {"run", "drain", "closing"}
Registered == {j \in Jobs : active[j] # "none"}

Started(t) == {j \in Jobs : TaskOf(j) = t /\ "started" \in log.job[j]}
Terminal(j) == log.job[j] \cap {"completed", "cancelled"} # {}
Completed(t) == \E j \in Started(t) : "completed" \in log.job[j]

Idle == [j \in Jobs |-> "none"]
NoQueue == [pending |-> [t \in Tasks |-> 0], deferred |-> {},
            retries |-> [t \in Tasks |-> [k \in Classes |-> 0]]]

(* A list that may hold a task twice, as a bag.                            *)
Enqueue(q, t) == [q EXCEPT !.pending[t] = @ + 1]
Holds(q, t) == q.pending[t] > 0 \/ t \in q.deferred

Init ==
  /\ phase = "run"
  /\ log = [accepted |-> {}, job |-> [j \in Jobs |-> {}], after |-> [t \in Tasks |-> {}],
            retries |-> NoQueue.retries, checkpointed |-> {}, auditOnly |-> FALSE]
  /\ queue = NoQueue /\ active = Idle /\ reserved = {} /\ accepting = None
  /\ settled = {} /\ gone = [t \in Tasks |-> "no"] /\ crashes = 0

(* An event of a job.  A start makes every earlier mark of the task old.   *)
LogJob(l, j, kind) == [l EXCEPT !.job[j] = @ \cup {kind}]
LogStart(l, j) == [LogJob(l, j, "started") EXCEPT !.after[TaskOf(j)] = {}]
LogRetry(l, t, k, n) == [l EXCEPT !.after[t] = @ \cup {"retry"},
                                  !.retries[t][k] = IF @ < n THEN n ELSE @]
LogRetained(l, t) == [l EXCEPT !.after[t] = @ \cup {"retained"}]

(* _record_job_cancelled: not twice for one job. *)
LogCancelled(l, j) == IF "cancelled" \in l.job[j] THEN l ELSE LogJob(l, j, "cancelled")

Lose(t, how) == [gone EXCEPT ![t] = how]

(***************************************************************************)
(* Admission and dispatch.                                                 *)
(***************************************************************************)
(* _accept_director_result: an identity or a content seen before is not    *)
(* admitted again, nor is a continuation that waits for the next epoch.    *)
Admit(t) ==
  /\ Up /\ accepting = None /\ t \notin log.accepted
  /\ log' = [log EXCEPT !.accepted = @ \cup {t}]
  /\ queue' = Enqueue(queue, t)
  /\ UNCHANGED <<phase, active, reserved, accepting, settled, gone, crashes>>

Next1(t) == <<t, Cardinality(Started(t)) + 1>>

MayLaunch(t) ==
  /\ phase = "run" /\ accepting = None /\ ~log.auditOnly
  /\ queue.pending[t] > 0 /\ Cardinality(Registered) < Workers
  /\ Cardinality(Started(t)) < MaxStarts
Dequeued(t) == [queue EXCEPT !.pending[t] = @ - 1]

(* _launch_research and _start_job: the task is taken from the queue, the  *)
(* tokens are reserved and the job is started.  _start_job refuses a task  *)
(* that has an active job.                                                 *)
Launch(t) ==
  /\ MayLaunch(t) /\ \A j \in Registered : TaskOf(j) # t
  /\ LET j == Next1(t)
     IN  /\ queue' = Dequeued(t)
         /\ active' = [active EXCEPT ![j] = "running"]
         /\ reserved' = reserved \cup {j}
         /\ log' = LogStart(log, j)
  /\ gone' = [gone EXCEPT ![t] = "no"]
  /\ UNCHANGED <<phase, accepting, settled, crashes>>

(* The inputs of the task are gone: it is dropped with a recorded decision *)
(* and a request for a new plan.                                           *)
DropAtDispatch(t) ==
  /\ MayLaunch(t)
  /\ queue' = Dequeued(t) /\ settled' = settled \cup {t}
  /\ UNCHANGED <<phase, log, active, reserved, accepting, gone, crashes>>

(* An exception between the queue and the start, for instance while the    *)
(* task's evidence is sealed, ends the loop with the task in no queue.     *)
LaunchFails(t) ==
  /\ MayLaunch(t)
  /\ queue' = Dequeued(t) /\ gone' = Lose(t, "launch")
  /\ phase' = "closing"
  /\ UNCHANGED <<log, active, reserved, accepting, settled, crashes>>

JobEnds(j) ==
  /\ Up \/ phase = "cutting"
  /\ active[j] = "running"
  /\ active' = [active EXCEPT ![j] = "done"]
  /\ UNCHANGED <<phase, log, queue, reserved, accepting, settled, gone, crashes>>

(***************************************************************************)
(* Collection.  The terminal event comes first, the consequences after it. *)
(***************************************************************************)
Collect(j) ==
  /\ Up /\ accepting = None /\ active[j] = "done"
  /\ active' = [active EXCEPT ![j] = "none"] /\ reserved' = reserved \ {j}
  /\ log' = LogJob(log, j, "completed")
  /\ accepting' = j
  /\ UNCHANGED <<phase, queue, settled, gone, crashes>>

(* A cancelled future is recorded and forgotten: the task is not queued.   *)
CollectCancelled(j) ==
  /\ Up /\ accepting = None /\ active[j] = "cancelled"
  /\ active' = [active EXCEPT ![j] = "none"] /\ reserved' = reserved \ {j}
  /\ log' = LogCancelled(log, j)
  /\ UNCHANGED <<phase, queue, accepting, settled, gone, crashes>>

Draining == IF phase = "run" THEN "drain" ELSE phase
Accepting == /\ Up /\ accepting # None /\ accepting' = None
             /\ UNCHANGED <<active, reserved, crashes>>
Settle(t) == settled' = settled \cup {t}

(* _accept_research_result: the result ends the task's route, whether it   *)
(* was progress or not.                                                    *)
AcceptDone ==
  /\ Accepting /\ Settle(TaskOf(accepting))
  /\ UNCHANGED <<phase, log, queue, gone>>

(* The turn bound was reached without an artifact to continue from, a      *)
(* repair did not help, or the job is blocked: the route waits for new     *)
(* evidence.                                                               *)
AcceptPaused ==
  /\ Accepting /\ Settle(TaskOf(accepting))
  /\ UNCHANGED <<phase, log, queue, gone>>

(* _checkpoint_research_continuation: the file, then the event.            *)
Checkpoint(t) ==
  /\ queue' = [queue EXCEPT !.deferred = @ \cup {t}]
  /\ log' = [log EXCEPT !.checkpointed = @ \cup {t}]
AcceptCheckpoint ==
  /\ Accepting /\ Checkpoint(TaskOf(accepting))
  /\ UNCHANGED <<phase, settled, gone>>

(* An artifact changed or went away under the checkpoint: the exception    *)
(* ends the loop.                                                          *)
AcceptBroken ==
  /\ Accepting /\ phase' = "closing" /\ gone' = Lose(TaskOf(accepting), "accept")
  /\ UNCHANGED <<log, queue, settled>>

(* The provider's quota is used up or its transport is lost: the exact     *)
(* task goes back to the queue, or its continuation after some turns, and  *)
(* the epoch drains.                                                       *)
AcceptRequeued ==
  /\ Accepting /\ phase' = Draining
  /\ LET t == TaskOf(accepting)
     IN  /\ queue' = IF Holds(queue, t) THEN queue ELSE Enqueue(queue, t)
         /\ gone' = Lose(t, "requeued")
  /\ UNCHANGED <<log, settled>>
AcceptCutShort ==
  /\ Accepting /\ phase' = Draining /\ Checkpoint(TaskOf(accepting))
  /\ UNCHANGED <<settled, gone>>

(* A failure that may be retried is, within the limit of its class; after  *)
(* that the task is left to the Director (TASK_RETAINED_AFTER_ERROR).      *)
AcceptRetryable(k) ==
  /\ Accepting
  /\ LET t == TaskOf(accepting)
         n == queue.retries[t][k] + 1
     IN  IF n <= Limit[k]
         THEN /\ queue' = [Enqueue(queue, t) EXCEPT !.retries[t][k] = n]
              /\ log' = LogRetry(log, t, k, n) /\ UNCHANGED settled
         ELSE /\ log' = LogRetained(log, t) /\ Settle(t) /\ UNCHANGED queue
  /\ UNCHANGED <<phase, gone>>
AcceptFatal ==
  /\ Accepting /\ log' = LogRetained(log, TaskOf(accepting)) /\ Settle(TaskOf(accepting))
  /\ UNCHANGED <<phase, queue, gone>>

(* The result ends the campaign by its completion policy: every queued     *)
(* task is suppressed.                                                     *)
AcceptEnding ==
  /\ Accepting /\ phase' = Draining
  /\ queue' = [queue EXCEPT !.pending = NoQueue.pending, !.deferred = {}]
  /\ settled' = settled \cup {TaskOf(accepting)} \cup {t \in Tasks : Holds(queue, t)}
  /\ UNCHANGED <<log, gone>>

(* _cancel_stale_jobs: the backend is asked first, and the job may have    *)
(* ended when the answer is there.                                         *)
Cancelled(j) == IF active[j] = "running" THEN "cancelled" ELSE active[j]
CancelStale(j) ==
  /\ phase \in {"run", "drain"} /\ accepting = None /\ active[j] \in {"running", "done"}
  /\ "cancelled" \notin log.job[j]
  /\ active' = [active EXCEPT ![j] = Cancelled(j)]
  /\ log' = LogCancelled(log, j)
  /\ gone' = Lose(TaskOf(j), "stale")
  /\ UNCHANGED <<phase, queue, reserved, accepting, settled, crashes>>

(* _enter_completion_policy_audit_only: the candidates are enough.         *)
AuditOnly ==
  /\ phase \in {"run", "drain"} /\ accepting = None /\ ~log.auditOnly
  /\ Registered # {}
  /\ active' = [j \in Jobs |-> Cancelled(j)]
  /\ log' = [log EXCEPT !.auditOnly = TRUE,
       !.job = [j \in Jobs |-> @[j] \cup (IF j \in Registered THEN {"cancelled"} ELSE {})]]
  /\ settled' = settled \cup {t \in Tasks : Holds(queue, t)} \cup {TaskOf(j) : j \in Registered}
  /\ queue' = [queue EXCEPT !.pending = NoQueue.pending, !.deferred = {}]
  /\ UNCHANGED <<phase, reserved, accepting, gone, crashes>>

(***************************************************************************)
(* The end of the epoch.                                                   *)
(***************************************************************************)
(* The deadline, or another reason to drain. *)
BeginDrain ==
  /\ phase = "run" /\ accepting = None /\ phase' = "drain"
  /\ UNCHANGED <<log, queue, active, reserved, accepting, settled, gone, crashes>>

(* Drained, or the operator interrupts. *)
Leave ==
  /\ phase \in {"run", "drain"} /\ accepting = None
  /\ phase = "drain" \/ Registered # {}
  /\ phase' = "closing"
  /\ UNCHANGED <<log, queue, active, reserved, accepting, settled, gone, crashes>>

(* Mutant: a job that is cut off gets no terminal event. *)
CutOffSilently(j) ==
  /\ phase = "cutting" /\ active[j] # "none"
  /\ queue' = IF Holds(queue, TaskOf(j)) THEN queue ELSE Enqueue(queue, TaskOf(j))
  /\ active' = [active EXCEPT ![j] = "none"] /\ reserved' = reserved \ {j}
  /\ gone' = Lose(TaskOf(j), "requeued")
  /\ UNCHANGED <<phase, log, accepting, settled, crashes>>

(* _cancel_active_jobs_before_backend_close: the jobs that have ended are  *)
(* collected first; the others are cut off one by one, ended or not, and   *)
(* their tasks are kept for the next epoch.                                *)
CollectionOver ==
  /\ phase = "closing" /\ accepting = None
  /\ \A j \in Jobs : active[j] \in {"none", "running"}
  /\ phase' = "cutting"
  /\ UNCHANGED <<log, queue, active, reserved, accepting, settled, gone, crashes>>

CutOff(j) ==
  /\ phase = "cutting" /\ active[j] # "none"
  /\ queue' = IF Holds(queue, TaskOf(j)) THEN queue ELSE Enqueue(queue, TaskOf(j))
  /\ log' = LogCancelled(log, j)
  /\ active' = [active EXCEPT ![j] = "none"] /\ reserved' = reserved \ {j}
  /\ gone' = Lose(TaskOf(j), "requeued")
  /\ UNCHANGED <<phase, accepting, settled, crashes>>

Closed ==
  /\ phase = "cutting" /\ Registered = {} /\ phase' = "finish"
  /\ UNCHANGED <<log, queue, active, reserved, accepting, settled, gone, crashes>>

(* _finish writes the frontier: what is queued goes to the next epoch. *)
Seal ==
  /\ phase = "finish" /\ phase' = "sealed"
  /\ UNCHANGED <<log, queue, active, reserved, accepting, settled, gone, crashes>>

Sealed == phase = "sealed" /\ UNCHANGED vars

(***************************************************************************)
(* Crash and recovery.                                                     *)
(***************************************************************************)
Crash ==
  /\ phase \notin {"sealed", "down"}
  /\ crashes < MaxCrashes /\ crashes' = crashes + 1
  /\ phase' = "down"
  /\ queue' = NoQueue /\ active' = Idle /\ reserved' = {} /\ accepting' = None
  /\ UNCHANGED <<log, settled, gone>>

(* recover reads the log: accepted tasks, retry counts. *)
Remembered == log.retries
Restart ==
  /\ phase = "down" /\ phase' = "recover"
  /\ queue' = [NoQueue EXCEPT !.retries = Remembered]
  /\ UNCHANGED <<log, active, reserved, accepting, settled, gone, crashes>>

(* A job that was started and has no terminal event: its task is queued    *)
(* again while transport retries are left, then the job is cancelled.      *)
StaleRetry(j) ==
  LET t == TaskOf(j)
      n == queue.retries[t]["transport"] + 1
  IN  IF t \in log.accepted /\ n <= Limit["transport"] THEN n ELSE 0

RecoverJob(j) ==
  /\ phase = "recover" /\ log.job[j] = {"started"}
  /\ LET t == TaskOf(j)
         n == StaleRetry(j)
         retried == LogRetry(log, t, "transport", n)
     IN  /\ queue' = IF n = 0 THEN queue
                     ELSE [Enqueue(queue, t) EXCEPT !.retries[t]["transport"] = n]
         /\ log' = LogJob(IF n = 0 THEN log ELSE retried, j, "cancelled")
  /\ UNCHANGED <<phase, active, reserved, accepting, settled, gone, crashes>>

(* The controller dies between the two events. *)
RecoverTorn(j) ==
  /\ phase = "recover" /\ log.job[j] = {"started"} /\ StaleRetry(j) > 0
  /\ crashes < MaxCrashes /\ crashes' = crashes + 1
  /\ log' = LogRetry(log, TaskOf(j), "transport", StaleRetry(j))
  /\ phase' = "down" /\ queue' = NoQueue
  /\ UNCHANGED <<active, reserved, accepting, settled, gone>>

(* Mutant: only tasks that never started are queued again. *)
RestoredUnstarted(t) == t \in log.accepted /\ Started(t) = {}

(* The queue of the new process: tasks queued or retained after their last *)
(* start and tasks that never started.  Continuations stay deferred.       *)
Restored(t) == t \in log.accepted /\ (log.after[t] # {} \/ Started(t) = {})

Requeued(t) == IF queue.pending[t] = 0 /\ Restored(t) THEN 1 ELSE queue.pending[t]

Recovered ==
  /\ phase = "recover" /\ \A j \in Jobs : log.job[j] # {"started"}
  /\ phase' = "run"
  /\ queue' = [queue EXCEPT !.pending = [t \in Tasks |-> Requeued(t)],
                            !.deferred = log.checkpointed]
  /\ UNCHANGED <<log, active, reserved, accepting, settled, gone, crashes>>

LoopStep ==
  \/ \E t \in Tasks : Launch(t)
  \/ \E j \in Jobs : Collect(j) \/ CollectCancelled(j) \/ CutOff(j)
  \/ AcceptDone \/ AcceptPaused \/ AcceptCheckpoint \/ AcceptCutShort \/ AcceptRequeued
  \/ AcceptFatal \/ AcceptEnding
  \/ BeginDrain \/ Leave \/ CollectionOver \/ Closed \/ Seal
  \/ Restart \/ Recovered
  \/ \E j \in Jobs : RecoverJob(j)

Next ==
  \/ LoopStep
  \/ \E t \in Tasks : Admit(t) \/ DropAtDispatch(t) \/ LaunchFails(t)
  \/ \E j \in Jobs : JobEnds(j) \/ CancelStale(j) \/ RecoverTorn(j)
  \/ \E k \in Classes : AcceptRetryable(k)
  \/ AcceptBroken \/ AuditOnly \/ Crash \/ Sealed

Spec == Init /\ [][Next]_vars

(***************************************************************************)
(* Properties.                                                             *)
(***************************************************************************)
TypeOK ==
  /\ phase \in {"run", "drain", "closing", "cutting", "finish", "sealed", "down", "recover"}
  /\ log.job \in [Jobs -> SUBSET {"started", "completed", "cancelled"}]
  /\ log.after \in [Tasks -> SUBSET {"retry", "retained"}]
  /\ queue.pending \in [Tasks -> Nat] /\ queue.deferred \subseteq Tasks
  /\ active \in [Jobs -> {"none", "running", "done", "cancelled"}]
  /\ reserved \subseteq Jobs /\ accepting \in Jobs \cup {None}

Running(t) == {j \in Registered : TaskOf(j) = t}
Bit(b) == IF b THEN 1 ELSE 0
InLoop == phase \notin {"down", "recover"}

(* A task is in one place at most: queued once, held by one job, waiting   *)
(* for its result to be acted on, or deferred to the next epoch.           *)
OneHolder ==
  \A t \in Tasks : queue.pending[t] + Cardinality(Running(t)) + Bit(t \in queue.deferred)
                  + Bit(accepting # None /\ TaskOf(accepting) = t) <= 1

Held(t) == Holds(queue, t) \/ Running(t) # {} \/ (accepting # None /\ TaskOf(accepting) = t)

(* No accepted task is forgotten without a decision, but for these cases:  *)
(* an exception while it is started or its result is acted on, a job that  *)
(* was cancelled as stale; and, over a crash, a result that was recorded   *)
(* and not acted on, a task kept for the next epoch, or one whose          *)
(* automatic retries are used up.                                          *)
ForgottenOnlyWhen ==
  InLoop => \A t \in log.accepted \ settled :
    \/ Held(t)
    \/ gone[t] \in {"launch", "accept", "stale"}
    \/ /\ crashes > 0 /\ log.after[t] = {}
       /\ gone[t] = "requeued" \/ Completed(t) \/ log.retries[t]["transport"] = Limit["transport"]

(* Automatic retries are bounded over all crashes: a task that was not     *)
(* given up has one start and a retry for each unit of its limits.         *)
RetriesBounded ==
  \A t \in Tasks \ settled :
    Cardinality(Started(t)) <= 1 + Limit["transport"] + Limit["protocol"]

(* A reservation is held for exactly the jobs that are registered.         *)
ReservedIsActive == reserved = Registered

(* The log has at most one unfinished job of a task: the job before is     *)
(* closed before the task is started again, over crashes too.              *)
OneOpenJob ==
  \A i, j \in Jobs : TaskOf(i) = TaskOf(j) /\ log.job[i] = {"started"} /\ log.job[j] = {"started"}
                     => i = j

(* A sealed epoch has a terminal event for every job that was started.     *)
SealedClean == phase = "sealed" => \A j \in Jobs : log.job[j] # {"started"}

(* contracts.py: a job has one terminal event. *)
OneTerminalEvent == \A j \in Jobs : ~({"completed", "cancelled"} \subseteq log.job[j])

(* configuration.md: a task whose job met the end of the provider's quota  *)
(* is retained for the next epoch.                                         *)
RequeuedKept == phase = "sealed" => \A t \in Tasks : gone[t] = "requeued" => Holds(queue, t) \/ t \in settled

(* Through retries, cancellations, drains and crashes a task is in one     *)
(* place, is not forgotten and is not retried without end.                 *)
TasksKept == TypeOK /\ OneHolder /\ ForgottenOnlyWhen /\ RetriesBounded

(* Jobs, reservations and the log's open jobs never drift apart, and none  *)
(* is left open by the seal.                                               *)
JobsClosed == ReservedIsActive /\ OneOpenJob /\ SealedClean

=============================================================================
