-------------------------- MODULE ResearchJobsProofs --------------------------
(***************************************************************************)
(* Proofs about the research of an epoch, for any tasks, limits and bounds.*)
(* ResearchJobs: a task is in one place and is not forgotten but for the   *)
(* listed cases, its starts are bounded, and jobs, reservations and the    *)
(* log never drift apart.  ResearchTurns, at the end: the turns one task   *)
(* is given.  The two share no variable and no lemma.                      *)
(*                                                                         *)
(* The properties of ResearchJobs count jobs of a task; IInv says the same *)
(* without counting, by who has a task (OnePlace), and adds what makes it  *)
(* inductive: how jobs in memory and jobs in the log correspond in every   *)
(* phase (JobsLogged, Phases), what the log alone says (LogSound), that    *)
(* each start of a task was paid for by its admission or by a retry that   *)
(* is in the log (Accounted), and which trace in the log or in memory      *)
(* keeps a task from being forgotten (Remains).                            *)
(***************************************************************************)
EXTENDS ResearchJobs, ResearchTurns, FiniteSetTheorems, SequenceTheorems, TLAPS

(***************************************************************************)
(* The inductive invariant.                                                *)
(***************************************************************************)
LogType ==
  [accepted : SUBSET Tasks, job : [Jobs -> SUBSET {"started", "completed", "cancelled"}],
   after : [Tasks -> SUBSET {"retry", "retained"}], retries : [Tasks -> [Classes -> Nat]],
   checkpointed : SUBSET Tasks, auditOnly : BOOLEAN]
QueueType ==
  [pending : [Tasks -> Nat], deferred : SUBSET Tasks, retries : [Tasks -> [Classes -> Nat]]]

Types ==
  /\ TypeOK /\ log \in LogType /\ queue \in QueueType
  /\ settled \subseteq Tasks /\ crashes \in Nat
  /\ gone \in [Tasks -> {"no", "launch", "accept", "stale", "requeued"}]

Open(j) == log.job[j] = {"started"}
Begun(t) == \E j \in Jobs : TaskOf(j) = t /\ log.job[j] # {}
Unfinished(t) == \E j \in Jobs : TaskOf(j) = t /\ Open(j)
Working(t) == \E j \in Jobs : TaskOf(j) = t /\ active[j] # "none"
Queued(t) == Holds(queue, t)
Awaiting(t) == accepting # None /\ TaskOf(accepting) = t

(* The log by itself. *)
LogSound ==
  /\ \A j \in Jobs : log.job[j] # {} => "started" \in log.job[j]
  /\ \A t \in Tasks, n \in 1..MaxStarts :
       "started" \in log.job[<<t, n>>] <=> n <= Cardinality(Started(t))
  /\ \A t \in Tasks : Begun(t) => t \in log.accepted
  /\ \A t \in Tasks, k \in Classes : log.retries[t][k] <= Limit[k]
  /\ \A t \in log.checkpointed : log.after[t] = {} /\ Begun(t) /\ ~Unfinished(t)

(* Who has a task. *)
OnePlace ==
  /\ \A t \in Tasks : queue.pending[t] <= 1
  /\ \A t \in Tasks : queue.pending[t] = 1 => t \notin queue.deferred /\ t \notin log.checkpointed
  /\ \A t \in Tasks : Queued(t) => ~Working(t) /\ ~Awaiting(t) /\ t \in log.accepted
  /\ \A i, j \in Jobs : active[i] # "none" /\ active[j] # "none" /\ TaskOf(i) = TaskOf(j) => i = j
  /\ \A t \in Tasks : Awaiting(t) => ~Working(t)
  /\ \A t \in Tasks : Working(t) \/ Awaiting(t) => log.after[t] = {} /\ t \notin log.checkpointed

(* The jobs in memory and the jobs in the log. *)
JobsLogged ==
  /\ \A j \in Jobs : j \in reserved <=> active[j] # "none"
  /\ \A j \in Jobs : active[j] # "none" => "started" \in log.job[j]
  /\ \A j \in Jobs : active[j] = "cancelled" => "cancelled" \in log.job[j]
  /\ InLoop => \A j \in Jobs : Open(j) => active[j] # "none"
  /\ accepting # None => "completed" \in log.job[accepting]
  /\ OneOpenJob
  /\ phase = "recover" => \A j \in Jobs : Open(j) => queue.pending[TaskOf(j)] = 0

(* What a phase leaves behind. *)
Phases ==
  /\ phase \in {"down", "recover"} => reserved = {} /\ accepting = None /\ queue.deferred = {}
  /\ phase = "down" => queue.pending = [t \in Tasks |-> 0]
  /\ phase \in {"cutting", "finish", "sealed"} => accepting = None
  /\ phase \in {"finish", "sealed"} => reserved = {}
  /\ phase \in {"down", "recover"} => crashes > 0

(* What a start of a task costs. *)
MayStart(t) == ~Begun(t) \/ log.after[t] # {}
Accounted ==
  /\ phase # "down" => queue.retries = log.retries
  /\ phase \in {"run", "recover"} => \A t \in Tasks : queue.pending[t] > 0 => MayStart(t)
  /\ \A t \in Tasks \ settled :
       Cardinality(Started(t)) + Bit(MayStart(t))
         <= 1 + log.retries[t]["transport"] + log.retries[t]["protocol"]

(* How the tasks without a decision stand: after a crash, Recoverable tells *)
(* what the next process has to find a task by; in the loop, Explained.    *)
Given(t) == gone[t] \in {"launch", "accept", "stale"}
LostOver(t) ==
  \/ gone[t] = "requeued" \/ log.retries[t]["transport"] = Limit["transport"]
  \/ \E j \in Jobs : TaskOf(j) = t /\ "completed" \in log.job[j]
Recoverable(t) ==
  MayStart(t) \/ t \in log.checkpointed \/ Unfinished(t) \/ Given(t) \/ LostOver(t)
Explained(t) ==
  \/ Queued(t) \/ Working(t) \/ Awaiting(t) \/ Given(t)
  \/ (crashes > 0 /\ log.after[t] = {} /\ LostOver(t))
Remains ==
  /\ \A j \in Jobs : active[j] = "cancelled" => gone[TaskOf(j)] = "stale" \/ TaskOf(j) \in settled
  /\ \A t \in log.accepted \ settled : Recoverable(t) /\ (InLoop => Explained(t))

IInv == Types /\ LogSound /\ OnePlace /\ JobsLogged /\ Phases /\ Accounted /\ Remains

(* A job is a task and a number; None is no job.                           *)
LEMMA JobFacts ==
  /\ \A j \in Jobs : TaskOf(j) \in Tasks /\ j # None
  /\ \A t \in Tasks, n \in 1..MaxStarts : <<t, n>> \in Jobs /\ TaskOf(<<t, n>>) = t
BY DEF Jobs, TaskOf, None

(* What the events written to the log change, and that it stays a log.     *)
LEMMA LogJobFacts ==
  ASSUME NEW l \in LogType, NEW j \in Jobs, NEW kind \in {"started", "completed", "cancelled"}
  PROVE  /\ LogJob(l, j, kind) \in LogType
         /\ LogJob(l, j, kind).job = [l.job EXCEPT ![j] = @ \cup {kind}]
         /\ LogJob(l, j, kind).accepted = l.accepted /\ LogJob(l, j, kind).after = l.after
         /\ LogJob(l, j, kind).retries = l.retries
         /\ LogJob(l, j, kind).checkpointed = l.checkpointed
BY DEF LogType, LogJob

LEMMA LogCancelledFacts ==
  ASSUME NEW l \in LogType, NEW j \in Jobs
  PROVE  /\ LogCancelled(l, j) \in LogType
         /\ LogCancelled(l, j).job = [l.job EXCEPT ![j] = @ \cup {"cancelled"}]
         /\ LogCancelled(l, j).accepted = l.accepted /\ LogCancelled(l, j).after = l.after
         /\ LogCancelled(l, j).retries = l.retries
         /\ LogCancelled(l, j).checkpointed = l.checkpointed
<1>1. "cancelled" \in l.job[j] => l.job = [l.job EXCEPT ![j] = @ \cup {"cancelled"}]
  BY DEF LogType
<1>2. QED BY <1>1, LogJobFacts DEF LogCancelled

LEMMA LogStartFacts ==
  ASSUME NEW l \in LogType, NEW j \in Jobs
  PROVE  /\ LogStart(l, j) \in LogType
         /\ LogStart(l, j).job = [l.job EXCEPT ![j] = @ \cup {"started"}]
         /\ LogStart(l, j).accepted = l.accepted
         /\ LogStart(l, j).after = [l.after EXCEPT ![TaskOf(j)] = {}]
         /\ LogStart(l, j).retries = l.retries
         /\ LogStart(l, j).checkpointed = l.checkpointed
<1>1. TaskOf(j) \in Tasks BY JobFacts
<1>2. LogJob(l, j, "started") \in LogType BY LogJobFacts
<1>3. LogStart(l, j) = [LogJob(l, j, "started") EXCEPT !.after[TaskOf(j)] = {}]
  BY DEF LogStart
<1>4. ASSUME NEW m \in LogType
      PROVE  LET n == [m EXCEPT !.after[TaskOf(j)] = {}]
             IN  /\ n \in LogType /\ n.job = m.job /\ n.accepted = m.accepted
                 /\ n.after = [m.after EXCEPT ![TaskOf(j)] = {}]
                 /\ n.retries = m.retries /\ n.checkpointed = m.checkpointed
  BY <1>1 DEF LogType
<1>5. QED
  <2> DEFINE m == LogJob(l, j, "started")
  <2>1. m \in LogType /\ LogStart(l, j) = [m EXCEPT !.after[TaskOf(j)] = {}]
    BY <1>2, <1>3
  <2>2. /\ m.job = [l.job EXCEPT ![j] = @ \cup {"started"}] /\ m.accepted = l.accepted
        /\ m.after = l.after /\ m.retries = l.retries /\ m.checkpointed = l.checkpointed
    BY LogJobFacts
  <2> HIDE DEF m
  <2>3. QED BY <1>4, <2>1, <2>2

LEMMA LogRetryFacts ==
  ASSUME NEW l \in LogType, NEW t \in Tasks, NEW k \in Classes, NEW n \in Nat
  PROVE  /\ LogRetry(l, t, k, n) \in LogType
         /\ LogRetry(l, t, k, n).job = l.job
         /\ LogRetry(l, t, k, n).accepted = l.accepted
         /\ LogRetry(l, t, k, n).after = [l.after EXCEPT ![t] = @ \cup {"retry"}]
         /\ LogRetry(l, t, k, n).retries
              = [l.retries EXCEPT ![t][k] = IF l.retries[t][k] < n THEN n ELSE l.retries[t][k]]
         /\ LogRetry(l, t, k, n).checkpointed = l.checkpointed
<1> DEFINE a == [l.after EXCEPT ![t] = @ \cup {"retry"}]
           r == [l.retries EXCEPT ![t][k] = IF l.retries[t][k] < n THEN n ELSE l.retries[t][k]]
<1>1. a \in [Tasks -> SUBSET {"retry", "retained"}]
  BY DEF LogType
<1>2. r \in [Tasks -> [Classes -> Nat]]
  BY DEF LogType
<1>3. LogRetry(l, t, k, n) = [l EXCEPT !.after = a, !.retries = r]
  BY DEF LogType, LogRetry
<1> HIDE DEF a, r
<1>4. /\ LogRetry(l, t, k, n) \in LogType
      /\ LogRetry(l, t, k, n).job = l.job /\ LogRetry(l, t, k, n).accepted = l.accepted
      /\ LogRetry(l, t, k, n).after = a /\ LogRetry(l, t, k, n).retries = r
      /\ LogRetry(l, t, k, n).checkpointed = l.checkpointed
  BY <1>1, <1>2, <1>3 DEF LogType
<1>5. QED BY <1>4 DEF a, r

LEMMA LogRetainedFacts ==
  ASSUME NEW l \in LogType, NEW t \in Tasks
  PROVE  /\ LogRetained(l, t) \in LogType
         /\ LogRetained(l, t).job = l.job
         /\ LogRetained(l, t).accepted = l.accepted
         /\ LogRetained(l, t).after = [l.after EXCEPT ![t] = @ \cup {"retained"}]
         /\ LogRetained(l, t).retries = l.retries
         /\ LogRetained(l, t).checkpointed = l.checkpointed
BY DEF LogType, LogRetained

(* What the operations on the queue change, and that it stays a queue.     *)
LEMMA EnqueueFacts ==
  ASSUME NEW q \in QueueType, NEW t \in Tasks
  PROVE  /\ Enqueue(q, t) \in QueueType
         /\ Enqueue(q, t).pending = [q.pending EXCEPT ![t] = @ + 1]
         /\ Enqueue(q, t).deferred = q.deferred /\ Enqueue(q, t).retries = q.retries
<1>1. q.pending \in [Tasks -> Nat] /\ q.pending[t] + 1 \in Nat
  BY DEF QueueType
<1>2. [q.pending EXCEPT ![t] = @ + 1] \in [Tasks -> Nat]
  BY <1>1
<1>3. Enqueue(q, t) = [q EXCEPT !.pending = [q.pending EXCEPT ![t] = @ + 1]]
  BY DEF QueueType, Enqueue
<1>4. QED BY <1>2, <1>3 DEF QueueType

LEMMA NoQueueFacts ==
  /\ NoQueue \in QueueType /\ NoQueue.pending = [t \in Tasks |-> 0] /\ NoQueue.deferred = {}
  /\ NoQueue.retries = [t \in Tasks |-> [k \in Classes |-> 0]]
BY DEF QueueType, NoQueue

LEMMA DequeuedFacts ==
  ASSUME queue \in QueueType, NEW t \in Tasks, queue.pending[t] > 0
  PROVE  /\ Dequeued(t) \in QueueType
         /\ Dequeued(t).pending = [queue.pending EXCEPT ![t] = @ - 1]
         /\ Dequeued(t).deferred = queue.deferred /\ Dequeued(t).retries = queue.retries
BY SMTT(30) DEF QueueType, Dequeued

LEMMA ClearedFacts ==
  ASSUME NEW q \in QueueType
  PROVE  LET c == [q EXCEPT !.pending = NoQueue.pending, !.deferred = {}]
         IN  /\ c \in QueueType /\ c.pending = [t \in Tasks |-> 0] /\ c.deferred = {}
             /\ c.retries = q.retries
BY NoQueueFacts DEF QueueType

LEMMA CheckpointFacts ==
  ASSUME queue \in QueueType, log \in LogType, NEW t \in Tasks, Checkpoint(t)
  PROVE  /\ queue' \in QueueType /\ queue'.pending = queue.pending
         /\ queue'.deferred = queue.deferred \cup {t} /\ queue'.retries = queue.retries
         /\ log' \in LogType /\ log'.job = log.job /\ log'.accepted = log.accepted
         /\ log'.after = log.after /\ log'.retries = log.retries
         /\ log'.checkpointed = log.checkpointed \cup {t}
BY DEF QueueType, LogType, Checkpoint

(* The jobs of a task that were started: members, change and number.       *)
LEMMA StartedMembers ==
  \A t \in Tasks, j \in Jobs : j \in Started(t) <=> TaskOf(j) = t /\ "started" \in log.job[j]
BY DEF Started

LEMMA StartedSame ==
  ASSUME \A j \in Jobs : "started" \in log'.job[j] <=> "started" \in log.job[j]
  PROVE  \A t \in Tasks : Started(t)' = Started(t)
BY DEF Started

LEMMA StartedFinite ==
  \A t \in Tasks : IsFiniteSet(Started(t)) /\ Cardinality(Started(t)) \in Nat
<1>1. IsFiniteSet(1..MaxStarts)
  BY FS_Interval, ResearchJobsAssumption
<1>2. IsFiniteSet(Jobs)
  BY <1>1, FS_Product, ResearchJobsAssumption DEF Jobs
<1>3. \A t \in Tasks : Started(t) \in SUBSET Jobs
  BY DEF Started
<1>4. QED BY <1>2, <1>3, FS_Subset, FS_CardinalityType

(***************************************************************************)
(* What a step leaves alone, for the predicates of the invariant.          *)
(***************************************************************************)
LEMMA JobEventsSame ==
  ASSUME log'.job = log.job
  PROVE  \A t \in Tasks : /\ Started(t)' = Started(t) /\ (Begun(t)' <=> Begun(t))
                          /\ Unfinished(t)' <=> Unfinished(t)
<1>1. \A t \in Tasks : Started(t)' = Started(t)
  BY StartedSame
<1>2. \A t \in Tasks : (Begun(t)' <=> Begun(t)) /\ (Unfinished(t)' <=> Unfinished(t))
  BY DEF Begun, Unfinished, Open
<1>3. QED BY <1>1, <1>2

(* A step that leaves the log alone keeps what the log says.               *)
LEMMA LogSame ==
  ASSUME Types, log' = log
  PROVE  LogSound => LogSound'
BY JobEventsSame DEF LogSound, Types, LogType

LEMMA ActiveSame ==
  ASSUME active' = active
  PROVE  \A t \in Tasks : Working(t)' <=> Working(t)
BY DEF Working

LEMMA AwaitingSame ==
  ASSUME accepting' = accepting
  PROVE  \A t \in Tasks : Awaiting(t)' <=> Awaiting(t)
BY DEF Awaiting

LEMMA MayStartSame ==
  ASSUME NEW t, log'.after[t] = log.after[t], Begun(t)' <=> Begun(t)
  PROVE  MayStart(t)' <=> MayStart(t)
BY DEF MayStart

LEMMA LostOverSame ==
  ASSUME NEW t, gone'[t] = gone[t], log'.retries = log.retries, log'.job = log.job
  PROVE  (LostOver(t)' <=> LostOver(t)) /\ (Given(t)' <=> Given(t))
BY DEF LostOver, Given

(* One lemma per action, or per group of actions that change the same: each *)
(* keeps the invariant.  The steps before the conjuncts say what the action *)
(* changes, first of the records and then of the predicates.               *)
LEMMA AdmitStep ==
  ASSUME IInv, NEW t \in Tasks, Admit(t)
  PROVE  IInv'
<1> USE DEF IInv
<1>1. /\ log' \in LogType /\ log'.job = log.job /\ log'.accepted = log.accepted \cup {t}
      /\ log'.after = log.after /\ log'.retries = log.retries
      /\ log'.checkpointed = log.checkpointed
  BY DEF Admit, LogType, Types
<1>2. /\ queue' \in QueueType /\ queue'.pending = [queue.pending EXCEPT ![t] = @ + 1]
      /\ queue'.deferred = queue.deferred /\ queue'.retries = queue.retries
  BY EnqueueFacts DEF Admit, Types
<1>3. /\ Up /\ accepting = None /\ t \notin log.accepted
      /\ UNCHANGED <<phase, active, reserved, accepting, settled, gone, crashes>>
  BY DEF Admit
<1>4. ~Begun(t) /\ ~Queued(t) /\ queue.pending[t] = 0 /\ t \notin queue.deferred
  BY <1>3 DEF LogSound, OnePlace, Queued, Holds, Types, QueueType
<1>5. ~Working(t) /\ ~Awaiting(t) /\ t \notin log.checkpointed /\ MayStart(t)
  BY <1>3, <1>4 DEF Awaiting, Working, LogSound, Begun, JobsLogged, MayStart
<1>6. \A u \in Tasks :
        /\ Started(u)' = Started(u) /\ (Begun(u)' <=> Begun(u))
        /\ (Unfinished(u)' <=> Unfinished(u)) /\ (MayStart(u)' <=> MayStart(u))
        /\ (Working(u)' <=> Working(u)) /\ (Awaiting(u)' <=> Awaiting(u))
        /\ (Given(u)' <=> Given(u)) /\ (LostOver(u)' <=> LostOver(u))
  BY <1>1, <1>3, JobEventsSame, ActiveSame, AwaitingSame, MayStartSame, LostOverSame
<1>7. \A u \in Tasks : Queued(u)' <=> Queued(u) \/ u = t
  BY <1>2 DEF Queued, Holds, Types, QueueType
<1>8. Types'
  BY <1>1, <1>2, <1>3 DEF Types, TypeOK, LogType, QueueType
<1>9. LogSound'
  BY <1>1, <1>6 DEF LogSound, Types, LogType
<1>10. OnePlace'
  BY <1>1, <1>2, <1>3, <1>4, <1>5, <1>6, <1>7 DEF OnePlace, Types, QueueType
<1>11. JobsLogged' /\ Phases'
  BY <1>1, <1>2, <1>3 DEF JobsLogged, Phases, InLoop, Open, OneOpenJob, Up
<1>12. Accounted'
  BY <1>1, <1>2, <1>3, <1>5, <1>6 DEF Accounted, Bit, Types, QueueType
<1>13. Remains'
  BY <1>1, <1>3, <1>5, <1>6, <1>7 DEF Remains, Recoverable, Explained, InLoop, Types, LogType
<1>14. QED BY <1>8, <1>9, <1>10, <1>11, <1>12, <1>13

LEMMA LaunchStep ==
  ASSUME IInv, NEW t \in Tasks, Launch(t)
  PROVE  IInv'
<1> USE DEF IInv
<1> DEFINE n == Cardinality(Started(t)) + 1
           j == <<t, n>>
<1>1. /\ phase = "run" /\ accepting = None /\ queue.pending[t] > 0
      /\ n \in 1..MaxStarts /\ n > Cardinality(Started(t)) /\ j \in Jobs /\ TaskOf(j) = t
  BY StartedFinite, JobFacts, ResearchJobsAssumption DEF Launch, MayLaunch
<1>2. /\ queue' = Dequeued(t) /\ active' = [active EXCEPT ![j] = "running"]
      /\ reserved' = reserved \cup {j} /\ log' = LogStart(log, j)
      /\ gone' = [gone EXCEPT ![t] = "no"]
      /\ UNCHANGED <<phase, accepting, settled, crashes>>
  BY DEF Launch, Next1
<1> HIDE DEF j
<1>3. /\ queue.pending[t] = 1 /\ t \notin queue.deferred /\ t \notin log.checkpointed
      /\ t \in log.accepted /\ ~Working(t) /\ ~Awaiting(t) /\ MayStart(t)
  BY <1>1 DEF OnePlace, Queued, Holds, Accounted, Types, QueueType
<1>4. log.job[j] = {} /\ active[j] = "none"
  <2>1. "started" \notin log.job[j]
    BY <1>1, StartedFinite DEF LogSound, j
  <2>2. QED BY <2>1, <1>1 DEF LogSound, JobsLogged
<1>5. /\ log' \in LogType /\ log'.job = [log.job EXCEPT ![j] = {"started"}]
      /\ log'.accepted = log.accepted /\ log'.after = [log.after EXCEPT ![t] = {}]
      /\ log'.retries = log.retries /\ log'.checkpointed = log.checkpointed
  BY <1>1, <1>2, <1>4, LogStartFacts DEF Types
<1>5a. \A i \in Jobs :
         /\ log'.job[i] = IF i = j THEN {"started"} ELSE log.job[i]
         /\ active'[i] = IF i = j THEN "running" ELSE active[i]
  BY <1>1, <1>2, <1>5 DEF Types, TypeOK, LogType
<1>6. /\ queue' \in QueueType /\ queue'.pending = [queue.pending EXCEPT ![t] = @ - 1]
      /\ queue'.deferred = queue.deferred /\ queue'.retries = queue.retries
  BY <1>1, <1>2, DequeuedFacts DEF Types
<1>7. /\ Cardinality(Started(t))' = n
      /\ \A u \in Tasks \ {t} : Started(u)' = Started(u)
  <2>1. Started(t)' = Started(t) \cup {j} /\ j \notin Started(t)
    BY <1>1, <1>4, <1>5 DEF Started, Types, LogType
  <2>2. Cardinality(Started(t) \cup {j}) = n
    BY <2>1, StartedFinite, FS_AddElement
  <2>3. \A u \in Tasks \ {t} : Started(u)' = Started(u)
    BY <1>1, <1>5 DEF Started, Types, LogType
  <2>4. QED BY <2>1, <2>2, <2>3
<1>8. \A u \in Tasks :
        /\ Begun(u)' <=> Begun(u) \/ u = t
        /\ Unfinished(u)' <=> Unfinished(u) \/ u = t
        /\ Working(u)' <=> Working(u) \/ u = t
        /\ Queued(u)' <=> Queued(u) /\ u # t
        /\ Awaiting(u)' <=> Awaiting(u)
  <2>1. \A u \in Tasks : Begun(u)' <=> Begun(u) \/ u = t
    BY <1>1, <1>4, <1>5a DEF Begun
  <2>2. \A u \in Tasks : Unfinished(u)' <=> Unfinished(u) \/ u = t
    BY <1>1, <1>4, <1>5a DEF Unfinished, Open
  <2>3. \A u \in Tasks : Working(u)' <=> Working(u) \/ u = t
    BY <1>1, <1>2, <1>4 DEF Working, Types, TypeOK
  <2>4. \A u \in Tasks : Queued(u)' <=> Queued(u) /\ u # t
    BY <1>3, <1>6 DEF Queued, Holds, Types, QueueType
  <2>5. QED BY <1>2, <2>1, <2>2, <2>3, <2>4, AwaitingSame
<1>9. /\ ~MayStart(t)'
      /\ \A u \in Tasks \ {t} :
           /\ (MayStart(u)' <=> MayStart(u))
           /\ (Given(u)' <=> Given(u)) /\ (LostOver(u) => LostOver(u)')
  BY <1>1, <1>2, <1>4, <1>5, <1>8 DEF MayStart, Given, LostOver, Types, LogType
<1>10. Types'
  BY <1>1, <1>2, <1>5, <1>6 DEF Types, TypeOK, QueueType, LogType
<1>11. LogSound'
  <2>1. \A i \in Jobs : log'.job[i] # {} => "started" \in log'.job[i]
    BY <1>5 DEF LogSound, Types, LogType
  <2>2. \A u \in Tasks, m \in 1..MaxStarts :
          "started" \in log'.job[<<u, m>>] <=> m <= Cardinality(Started(u))'
    <3> TAKE u \in Tasks, m \in 1..MaxStarts
    <3>1. <<u, m>> \in Jobs /\ TaskOf(<<u, m>>) = u
      BY JobFacts
    <3>2. CASE u # t
      BY <3>1, <3>2, <1>1, <1>5a, <1>7 DEF LogSound
    <3>3. CASE u = t
      <4>1. <<u, m>> = j <=> m = n
        BY <3>3 DEF j
      <4>2. m <= n <=> m <= Cardinality(Started(t)) \/ m = n
        BY StartedFinite
      <4>3. "started" \in log.job[<<u, m>>] <=> m <= Cardinality(Started(t))
        BY <3>3 DEF LogSound
      <4>4. QED BY <3>1, <3>3, <4>1, <4>2, <4>3, <1>5a, <1>7
    <3>4. QED BY <3>2, <3>3
  <2>3. QED BY <1>3, <1>5, <1>8, <2>1, <2>2 DEF LogSound, Types, LogType
<1>12. OnePlace'
  <2>1. \A u \in Tasks :
          /\ queue'.pending[u] <= 1
          /\ queue'.pending[u] = 1 => u \notin queue'.deferred /\ u \notin log'.checkpointed
    BY <1>3, <1>5, <1>6 DEF OnePlace, Types, QueueType
  <2>2. \A h, i \in Jobs :
          active'[h] # "none" /\ active'[i] # "none" /\ TaskOf(h) = TaskOf(i) => h = i
    BY <1>1, <1>3, <1>5a DEF OnePlace, Working
  <2>3. \A u \in Tasks :
          /\ Queued(u)' => ~Working(u)' /\ ~Awaiting(u)' /\ u \in log'.accepted
          /\ Awaiting(u)' => ~Working(u)'
          /\ Working(u)' \/ Awaiting(u)' => log'.after[u] = {} /\ u \notin log'.checkpointed
    BY <1>3, <1>5, <1>8 DEF OnePlace, Types, LogType
  <2>4. QED BY <2>1, <2>2, <2>3 DEF OnePlace
<1>13. JobsLogged'
  <2>1. \A i \in Jobs : TaskOf(i) = t => ~Open(i)
    BY <1>1, <1>3 DEF JobsLogged, InLoop, Working
  <2>2. OneOpenJob'
    BY <2>1, <1>1, <1>5a DEF JobsLogged, OneOpenJob, Open
  <2>3. QED BY <2>2, <1>1, <1>2, <1>4, <1>5a DEF JobsLogged, InLoop, Open
<1>14. Phases'
  BY <1>1, <1>2, <1>6 DEF Phases
<1>15. Accounted'
  <2>1. \A u \in Tasks : queue'.pending[u] > 0 => MayStart(u)'
    BY <1>1, <1>3, <1>6, <1>9 DEF Accounted, Types, QueueType
  <2>2. \A u \in Tasks \ settled' :
          Cardinality(Started(u))' + Bit(MayStart(u)')
            <= 1 + log'.retries[u]["transport"] + log'.retries[u]["protocol"]
    <3> TAKE u \in Tasks \ settled'
    <3>1. Cardinality(Started(u)) + Bit(MayStart(u))
            <= 1 + log.retries[u]["transport"] + log.retries[u]["protocol"]
      BY <1>2 DEF Accounted
    <3>2. CASE u = t
      <4>1. Cardinality(Started(t))' + Bit(MayStart(t)') = Cardinality(Started(t)) + Bit(MayStart(t))
        BY <1>3, <1>7, <1>9, StartedFinite DEF Bit
      <4>2. QED BY <1>5, <3>1, <3>2, <4>1
    <3>3. CASE u # t
      BY <1>5, <1>7, <1>9, <3>1, <3>3 DEF Bit
    <3>4. QED BY <3>2, <3>3
  <2>3. QED BY <1>1, <1>2, <1>5, <1>6, <2>1, <2>2 DEF Accounted
<1>16. Remains'
  <2>1. \A i \in Jobs : active'[i] = "cancelled"
                        => gone'[TaskOf(i)] = "stale" \/ TaskOf(i) \in settled'
    BY <1>1, <1>2, <1>3, <1>4, JobFacts DEF Remains, Working, Types, TypeOK
  <2>2. QED BY <1>1, <1>2, <1>5, <1>8, <1>9, <2>1
    DEF Remains, Recoverable, Explained, InLoop, Types, LogType
<1>17. QED BY <1>10, <1>11, <1>12, <1>13, <1>14, <1>15, <1>16

LEMMA DropAtDispatchStep ==
  ASSUME IInv, NEW t \in Tasks, DropAtDispatch(t) \/ LaunchFails(t)
  PROVE  IInv'
<1> USE DEF IInv
<1>1. /\ phase = "run" /\ accepting = None /\ queue.pending[t] > 0 /\ queue' = Dequeued(t)
      /\ phase' \in {"run", "closing"} /\ settled \subseteq settled' /\ settled' \subseteq Tasks
      /\ gone' \in [Tasks -> {"no", "launch", "accept", "stale", "requeued"}]
      /\ \A u \in Tasks \ {t} : gone'[u] = gone[u]
      /\ gone'[t] # gone[t] => gone'[t] = "launch"
      /\ t \in settled' \/ gone'[t] = "launch"
      /\ UNCHANGED <<log, active, reserved, accepting, crashes>>
  BY DEF DropAtDispatch, LaunchFails, MayLaunch, Lose, Types
<1>2. /\ queue.pending[t] = 1 /\ t \notin queue.deferred
      /\ t \in log.accepted /\ ~Working(t) /\ ~Awaiting(t) /\ MayStart(t)
  BY <1>1 DEF OnePlace, Queued, Holds, Accounted, Types, QueueType
<1>3. /\ queue' \in QueueType /\ queue'.pending = [queue.pending EXCEPT ![t] = @ - 1]
      /\ queue'.deferred = queue.deferred /\ queue'.retries = queue.retries
  BY <1>1, DequeuedFacts DEF Types
<1>4. \A u \in Tasks :
        /\ Started(u)' = Started(u) /\ (Begun(u)' <=> Begun(u))
        /\ (Unfinished(u)' <=> Unfinished(u)) /\ (MayStart(u)' <=> MayStart(u))
        /\ (Working(u)' <=> Working(u)) /\ (Awaiting(u)' <=> Awaiting(u))
  BY <1>1, JobEventsSame, ActiveSame, AwaitingSame, MayStartSame
<1>5. \A u \in Tasks \ {t} : (Given(u)' <=> Given(u)) /\ (LostOver(u)' <=> LostOver(u))
  BY <1>1, LostOverSame
<1>6. \A u \in Tasks : Queued(u)' <=> Queued(u) /\ u # t
  BY <1>2, <1>3 DEF Queued, Holds, Types, QueueType
<1>7. Types'
  BY <1>1, <1>3 DEF Types, TypeOK, QueueType
<1>8. LogSound'
  BY <1>1, LogSame
<1>9. OnePlace'
  BY <1>1, <1>2, <1>3, <1>4, <1>6 DEF OnePlace, Types, QueueType
<1>10. JobsLogged' /\ Phases'
  BY <1>1, <1>3 DEF JobsLogged, Phases, InLoop, Open, OneOpenJob
<1>11. Accounted'
  BY <1>1, <1>2, <1>3, <1>4, StartedFinite DEF Accounted, Bit, Types, QueueType
<1>12. Remains'
  <2>1. \A i \in Jobs : active'[i] = "cancelled"
                        => gone'[TaskOf(i)] = "stale" \/ TaskOf(i) \in settled'
    BY <1>1, <1>2, JobFacts DEF Remains, Working
  <2>2. \A u \in log.accepted \ settled' : Recoverable(u)' /\ (InLoop' => Explained(u)')
    BY <1>1, <1>2, <1>4, <1>5, <1>6
      DEF Remains, Recoverable, Explained, InLoop, Given, Types, LogType
  <2>3. QED BY <1>1, <2>1, <2>2 DEF Remains
<1>13. QED BY <1>7, <1>8, <1>9, <1>10, <1>11, <1>12

(* Jobs end and are collected, and the phase moves on.                     *)
LEMMA JobEndsStep ==
  ASSUME IInv, NEW j \in Jobs, JobEnds(j)
  PROVE  IInv'
<1> USE DEF IInv
<1>1. /\ Up \/ phase = "cutting"
      /\ active[j] = "running" /\ active' = [active EXCEPT ![j] = "done"]
      /\ UNCHANGED <<phase, log, queue, reserved, accepting, settled, gone, crashes>>
  BY DEF JobEnds
<1>2. \A i \in Jobs : /\ active'[i] # "none" <=> active[i] # "none"
                      /\ active'[i] = "cancelled" => active[i] = "cancelled"
  BY <1>1 DEF Types, TypeOK
<1>3. \A u \in Tasks :
        /\ Started(u)' = Started(u) /\ (Begun(u)' <=> Begun(u))
        /\ (Unfinished(u)' <=> Unfinished(u)) /\ (MayStart(u)' <=> MayStart(u))
        /\ (Working(u)' <=> Working(u)) /\ (Awaiting(u)' <=> Awaiting(u))
        /\ (Queued(u)' <=> Queued(u))
        /\ (Given(u)' <=> Given(u)) /\ (LostOver(u)' <=> LostOver(u))
  BY <1>1, <1>2, JobEventsSame, AwaitingSame, MayStartSame, LostOverSame DEF Working, Queued
<1>4. Types' /\ LogSound' /\ Phases'
  BY <1>1, LogSame DEF Types, TypeOK, Phases
<1>5. OnePlace'
  BY <1>1, <1>2, <1>3 DEF OnePlace, Types, LogType
<1>6. JobsLogged'
  BY <1>1, <1>2 DEF JobsLogged, InLoop, Open, OneOpenJob
<1>7. Accounted' /\ Remains'
  BY <1>1, <1>2, <1>3
    DEF Accounted, Bit, Remains, Recoverable, Explained, InLoop, Types, LogType
<1>8. QED BY <1>4, <1>5, <1>6, <1>7

LEMMA PhaseStep ==
  ASSUME IInv, BeginDrain \/ Leave \/ CollectionOver \/ Closed \/ Seal
  PROVE  IInv'
<1> USE DEF IInv
<1>1. UNCHANGED <<log, queue, active, reserved, accepting, settled, gone, crashes>>
  BY DEF BeginDrain, Leave, CollectionOver, Closed, Seal
<1>2. /\ phase \notin {"down", "recover"}
      /\ phase' \in {"drain", "closing", "cutting", "finish", "sealed"}
      /\ phase' \in {"cutting", "finish", "sealed"} => accepting = None
      /\ phase' \in {"finish", "sealed"} => \A j \in Jobs : active[j] = "none"
  BY DEF BeginDrain, Leave, CollectionOver, Closed, Seal, Phases, JobsLogged, Registered
<1>3. \A u \in Tasks :
        /\ Started(u)' = Started(u) /\ (Begun(u)' <=> Begun(u))
        /\ (Unfinished(u)' <=> Unfinished(u)) /\ (MayStart(u)' <=> MayStart(u))
        /\ (Working(u)' <=> Working(u)) /\ (Awaiting(u)' <=> Awaiting(u))
        /\ (Queued(u)' <=> Queued(u))
        /\ (Given(u)' <=> Given(u)) /\ (LostOver(u)' <=> LostOver(u))
  BY <1>1, JobEventsSame, ActiveSame, AwaitingSame, MayStartSame, LostOverSame DEF Queued
<1>4. Types' /\ LogSound'
  BY <1>1, <1>2, LogSame DEF Types, TypeOK
<1>5. OnePlace'
  BY <1>1, <1>3 DEF OnePlace, Types, LogType
<1>6. JobsLogged' /\ Phases'
  BY <1>1, <1>2 DEF JobsLogged, Phases, InLoop, Open, OneOpenJob, Types, TypeOK
<1>7. Accounted' /\ Remains'
  BY <1>1, <1>2, <1>3
    DEF Accounted, Bit, Remains, Recoverable, Explained, InLoop, Types, LogType
<1>8. QED BY <1>4, <1>5, <1>6, <1>7

LEMMA CollectStep ==
  ASSUME IInv, NEW j \in Jobs, Collect(j)
  PROVE  IInv'
<1> USE DEF IInv
<1> DEFINE t == TaskOf(j)
<1>1. /\ phase \in {"run", "drain", "closing"} /\ accepting = None /\ active[j] = "done"
      /\ active' = [active EXCEPT ![j] = "none"] /\ reserved' = reserved \ {j}
      /\ log' = LogJob(log, j, "completed") /\ accepting' = j
      /\ UNCHANGED <<phase, queue, settled, gone, crashes>>
  BY DEF Collect, Up
<1>2. /\ log' \in LogType /\ log'.job = [log.job EXCEPT ![j] = @ \cup {"completed"}]
      /\ log'.accepted = log.accepted /\ log'.after = log.after
      /\ log'.retries = log.retries /\ log'.checkpointed = log.checkpointed
  BY <1>1, LogJobFacts DEF Types
<1>3. \A i \in Jobs :
         /\ log'.job[i] = IF i = j THEN log.job[j] \cup {"completed"} ELSE log.job[i]
         /\ active'[i] = IF i = j THEN "none" ELSE active[i]
  BY <1>1, <1>2 DEF Types, TypeOK, LogType
<1>4. t \in Tasks /\ j # None
  BY JobFacts
<1>5. "started" \in log.job[j] /\ Working(t) /\ ~Queued(t) /\ log.after[t] = {}
  BY <1>1, <1>4 DEF JobsLogged, OnePlace, Working
<1>6. \A u \in Tasks :
        /\ Started(u)' = Started(u) /\ (Begun(u)' <=> Begun(u))
        /\ Unfinished(u)' => Unfinished(u)
        /\ Unfinished(u) => Unfinished(u)' \/ u = t
        /\ (MayStart(u)' <=> MayStart(u))
        /\ (Working(u)' <=> Working(u) /\ u # t) /\ (Awaiting(u)' <=> u = t) /\ ~Awaiting(u)
        /\ (Queued(u)' <=> Queued(u)) /\ (Given(u)' <=> Given(u)) /\ (LostOver(u) => LostOver(u)')
        /\ LostOver(t)'
  <2>1. \A u \in Tasks : Started(u)' = Started(u)
    BY <1>3, <1>5, StartedSame
  <2>2. \A u \in Tasks : /\ Begun(u)' <=> Begun(u)
                         /\ Unfinished(u)' => Unfinished(u)
                         /\ Unfinished(u) => Unfinished(u)' \/ u = t
    BY <1>3, <1>5 DEF Begun, Unfinished, Open
  <2>3. \A u \in Tasks : MayStart(u)' <=> MayStart(u)
    BY <1>2, <2>2 DEF MayStart
  <2>4. \A u \in Tasks : (Working(u)' <=> Working(u) /\ u # t)
    BY <1>1, <1>3 DEF Working, OnePlace
  <2>5. \A u \in Tasks : (Awaiting(u)' <=> u = t) /\ ~Awaiting(u) /\ (Queued(u)' <=> Queued(u))
    BY <1>1, <1>4 DEF Awaiting, Queued
  <2>6. \A u \in Tasks : (Given(u)' <=> Given(u)) /\ (LostOver(u) => LostOver(u)')
    BY <1>1, <1>2, <1>3 DEF Given, LostOver
  <2>7. LostOver(t)'
    BY <1>3 DEF LostOver
  <2>8. QED BY <2>1, <2>2, <2>3, <2>4, <2>5, <2>6, <2>7
<1>7. Types'
  BY <1>1, <1>2 DEF Types, TypeOK
<1>8. LogSound'
  BY <1>2, <1>3, <1>5, <1>6, JobFacts DEF LogSound, Types, LogType
<1>9. OnePlace'
  BY <1>1, <1>2, <1>3, <1>5, <1>6 DEF OnePlace, Types, LogType
<1>10. JobsLogged' /\ Phases'
  BY <1>1, <1>3, <1>5 DEF JobsLogged, Phases, InLoop, Open, OneOpenJob
<1>11. Accounted'
  BY <1>1, <1>2, <1>6 DEF Accounted, Bit, Types, LogType
<1>12. Remains'
  BY <1>1, <1>2, <1>3, <1>4, <1>6, JobFacts
    DEF Remains, Recoverable, Explained, InLoop, Types, LogType
<1>13. QED BY <1>7, <1>8, <1>9, <1>10, <1>11, <1>12

LEMMA CollectCancelledStep ==
  ASSUME IInv, NEW j \in Jobs, CollectCancelled(j)
  PROVE  IInv'
<1> USE DEF IInv
<1> DEFINE t == TaskOf(j)
<1>1. /\ phase \in {"run", "drain", "closing"} /\ accepting = None /\ active[j] = "cancelled"
      /\ active' = [active EXCEPT ![j] = "none"] /\ reserved' = reserved \ {j}
      /\ log' = LogCancelled(log, j)
      /\ UNCHANGED <<phase, queue, accepting, settled, gone, crashes>>
  BY DEF CollectCancelled, Up
<1>2. log' = log
  BY <1>1 DEF LogCancelled, JobsLogged
<1>3. \A i \in Jobs : active'[i] = IF i = j THEN "none" ELSE active[i]
  BY <1>1 DEF Types, TypeOK
<1>4. /\ t \in Tasks /\ (Given(t) \/ t \in settled) /\ "cancelled" \in log.job[j]
  BY <1>1, JobFacts DEF Remains, Given, JobsLogged
<1>5. \A u \in Tasks :
        /\ Started(u)' = Started(u) /\ (Begun(u)' <=> Begun(u))
        /\ (Unfinished(u)' <=> Unfinished(u)) /\ (MayStart(u)' <=> MayStart(u))
        /\ (Working(u)' <=> Working(u) /\ u # t) /\ (Awaiting(u)' <=> Awaiting(u))
        /\ (Queued(u)' <=> Queued(u))
        /\ (Given(u)' <=> Given(u)) /\ (LostOver(u)' <=> LostOver(u))
  <2>1. \A u \in Tasks : (Working(u)' <=> Working(u) /\ u # t)
    BY <1>1, <1>3 DEF Working, OnePlace
  <2>2. QED BY <1>1, <1>2, <2>1, JobEventsSame, AwaitingSame, MayStartSame, LostOverSame
    DEF Queued
<1>6. Types' /\ LogSound' /\ Phases'
  BY <1>1, <1>2, LogSame DEF Types, TypeOK, Phases
<1>7. OnePlace'
  BY <1>1, <1>2, <1>3, <1>5 DEF OnePlace, Types, LogType
<1>8. JobsLogged'
  BY <1>1, <1>2, <1>3, <1>4 DEF JobsLogged, InLoop, Open, OneOpenJob
<1>9. Accounted' /\ Remains'
  BY <1>1, <1>2, <1>3, <1>4, <1>5
    DEF Accounted, Bit, Remains, Recoverable, Explained, InLoop, Types, LogType
<1>10. QED BY <1>6, <1>7, <1>8, <1>9

(***************************************************************************)
(* The result of a job is acted on: what holds of its task, and what every *)
(* way of acting on it leaves alone.                                       *)
(***************************************************************************)
LEMMA AcceptingFacts ==
  ASSUME IInv, Accepting, NEW t, t = TaskOf(accepting)
  PROVE  /\ phase \in {"run", "drain", "closing"} /\ accepting \in Jobs /\ t \in Tasks
         /\ \A u \in Tasks :
              (Awaiting(u) <=> u = t) /\ ~Awaiting(u)' /\ (Working(u)' <=> Working(u))
         /\ ~Queued(t) /\ queue.pending[t] = 0 /\ t \notin queue.deferred /\ ~Working(t)
         /\ log.after[t] = {} /\ t \notin log.checkpointed /\ t \in log.accepted
         /\ Begun(t) /\ ~Unfinished(t) /\ ~MayStart(t) /\ LostOver(t)
         /\ accepting' = None /\ UNCHANGED <<active, reserved, crashes>>
<1> USE DEF IInv
<1>1. /\ phase \in {"run", "drain", "closing"} /\ accepting \in Jobs /\ t \in Tasks
      /\ accepting # None /\ accepting' = None /\ UNCHANGED <<active, reserved, crashes>>
  BY JobFacts DEF Accepting, Up, Types, TypeOK
<1>2. \A u \in Tasks : (Awaiting(u) <=> u = t) /\ ~Awaiting(u)' /\ (Working(u)' <=> Working(u))
  BY <1>1, ActiveSame DEF Awaiting
<1>3. /\ ~Queued(t) /\ queue.pending[t] = 0 /\ t \notin queue.deferred /\ ~Working(t)
      /\ log.after[t] = {} /\ t \notin log.checkpointed
  BY <1>1, <1>2 DEF OnePlace, Queued, Holds, Types, QueueType
<1>4. Begun(t) /\ LostOver(t) /\ t \in log.accepted
  BY <1>1 DEF Begun, LostOver, JobsLogged, LogSound
<1>5. ~Unfinished(t)
  BY <1>1, <1>3 DEF Unfinished, Working, JobsLogged, InLoop
<1>6. QED BY <1>1, <1>2, <1>3, <1>4, <1>5 DEF MayStart

LEMMA AcceptDoneStep ==
  ASSUME IInv, AcceptDone \/ AcceptPaused \/ AcceptBroken
  PROVE  IInv'
<1> USE DEF IInv
<1> DEFINE t == TaskOf(accepting)
<1>1. Accepting
  BY DEF AcceptDone, AcceptPaused, AcceptBroken
<1>2. PICK v : v = t
  OBVIOUS
<1>3. /\ phase \in {"run", "drain", "closing"} /\ accepting \in Jobs /\ v \in Tasks
      /\ \A u \in Tasks : (Awaiting(u) <=> u = v) /\ ~Awaiting(u)' /\ (Working(u)' <=> Working(u))
      /\ accepting' = None /\ UNCHANGED <<active, reserved, crashes>>
  BY <1>1, <1>2, AcceptingFacts
<1>4. /\ UNCHANGED <<log, queue>>
      /\ phase' \in {"run", "drain", "closing"} /\ (phase' = "run" => phase = "run")
      /\ settled \subseteq settled' /\ settled' \subseteq Tasks
      /\ gone' \in [Tasks -> {"no", "launch", "accept", "stale", "requeued"}]
      /\ \A u \in Tasks \ {v} : gone'[u] = gone[u]
      /\ v \in settled' \/ gone'[v] = "accept"
      /\ ~Working(v)
  BY <1>1, <1>2, <1>3, AcceptingFacts
    DEF AcceptDone, AcceptPaused, AcceptBroken, Settle, Lose, Types
<1>5. \A u \in Tasks :
        /\ Started(u)' = Started(u) /\ (Begun(u)' <=> Begun(u))
        /\ (Unfinished(u)' <=> Unfinished(u)) /\ (MayStart(u)' <=> MayStart(u))
        /\ (Queued(u)' <=> Queued(u))
  BY <1>4, JobEventsSame, MayStartSame DEF Queued
<1>6. \A u \in Tasks \ {v} : (Given(u)' <=> Given(u)) /\ (LostOver(u)' <=> LostOver(u))
  BY <1>4, LostOverSame
<1>7. Types' /\ LogSound'
  BY <1>3, <1>4, LogSame DEF Types, TypeOK
<1>8. OnePlace'
  BY <1>3, <1>4, <1>5 DEF OnePlace, Types, LogType
<1>9. JobsLogged' /\ Phases'
  BY <1>3, <1>4 DEF JobsLogged, Phases, InLoop, Open, OneOpenJob
<1>10. Accounted'
  BY <1>3, <1>4, <1>5 DEF Accounted, Bit, Types, LogType
<1>11. Remains'
  <2>1. \A i \in Jobs : active'[i] = "cancelled"
                        => gone'[TaskOf(i)] = "stale" \/ TaskOf(i) \in settled'
    BY <1>3, <1>4, JobFacts DEF Remains, Working
  <2>2. \A u \in log.accepted \ settled' : Recoverable(u)' /\ (InLoop' => Explained(u)')
    BY <1>3, <1>4, <1>5, <1>6 DEF Remains, Recoverable, Explained, InLoop, Given, Types, LogType
  <2>3. QED BY <1>4, <2>1, <2>2 DEF Remains
<1>12. QED BY <1>7, <1>8, <1>9, <1>10, <1>11

LEMMA AcceptCheckpointStep ==
  ASSUME IInv, AcceptCheckpoint \/ AcceptCutShort
  PROVE  IInv'
<1> USE DEF IInv
<1>1. PICK v : v = TaskOf(accepting)
  OBVIOUS
<1>2. Accepting /\ Checkpoint(v)
  BY <1>1 DEF AcceptCheckpoint, AcceptCutShort
<1>3. /\ phase \in {"run", "drain", "closing"} /\ accepting \in Jobs /\ v \in Tasks
      /\ \A u \in Tasks : (Awaiting(u) <=> u = v) /\ ~Awaiting(u)' /\ (Working(u)' <=> Working(u))
      /\ ~Queued(v) /\ queue.pending[v] = 0 /\ v \notin queue.deferred /\ ~Working(v)
      /\ log.after[v] = {} /\ v \notin log.checkpointed /\ v \in log.accepted
      /\ Begun(v) /\ ~Unfinished(v)
      /\ accepting' = None /\ UNCHANGED <<active, reserved, crashes>>
  BY <1>1, <1>2, AcceptingFacts
<1>4. /\ queue' \in QueueType /\ queue'.pending = queue.pending
      /\ queue'.deferred = queue.deferred \cup {v} /\ queue'.retries = queue.retries
      /\ log' \in LogType /\ log'.job = log.job /\ log'.accepted = log.accepted
      /\ log'.after = log.after /\ log'.retries = log.retries
      /\ log'.checkpointed = log.checkpointed \cup {v}
  BY <1>2, <1>3, CheckpointFacts DEF Types
<1>5. /\ phase' \in {"run", "drain", "closing"} /\ (phase' = "run" => phase = "run")
      /\ UNCHANGED <<settled, gone>>
  BY <1>3 DEF AcceptCheckpoint, AcceptCutShort, Draining
<1>6. \A u \in Tasks :
        /\ Started(u)' = Started(u) /\ (Begun(u)' <=> Begun(u))
        /\ (Unfinished(u)' <=> Unfinished(u)) /\ (MayStart(u)' <=> MayStart(u))
        /\ (Queued(u)' <=> Queued(u) \/ u = v)
        /\ (Given(u)' <=> Given(u)) /\ (LostOver(u)' <=> LostOver(u))
  <2>1. \A u \in Tasks : (Queued(u)' <=> Queued(u) \/ u = v)
    BY <1>4 DEF Queued, Holds, Types, QueueType
  <2>2. QED BY <1>4, <1>5, <2>1, JobEventsSame, MayStartSame, LostOverSame
<1>7. Types'
  BY <1>3, <1>4, <1>5 DEF Types, TypeOK, LogType, QueueType
<1>8. LogSound'
  BY <1>3, <1>4, <1>6 DEF LogSound, Types, LogType
<1>9. OnePlace'
  BY <1>3, <1>4, <1>6 DEF OnePlace, Types, LogType, QueueType
<1>10. JobsLogged' /\ Phases'
  BY <1>3, <1>4, <1>5 DEF JobsLogged, Phases, InLoop, Open, OneOpenJob
<1>11. Accounted'
  BY <1>3, <1>4, <1>5, <1>6 DEF Accounted, Bit, Types, LogType
<1>12. Remains'
  BY <1>3, <1>4, <1>5, <1>6 DEF Remains, Recoverable, Explained, InLoop, Types, LogType
<1>13. QED BY <1>7, <1>8, <1>9, <1>10, <1>11, <1>12

LEMMA AcceptRequeuedStep ==
  ASSUME IInv, AcceptRequeued
  PROVE  IInv'
<1> USE DEF IInv
<1>1. PICK v : v = TaskOf(accepting)
  OBVIOUS
<1>2. Accepting
  BY DEF AcceptRequeued
<1>3. /\ phase \in {"run", "drain", "closing"} /\ accepting \in Jobs /\ v \in Tasks
      /\ \A u \in Tasks : (Awaiting(u) <=> u = v) /\ ~Awaiting(u)' /\ (Working(u)' <=> Working(u))
      /\ ~Queued(v) /\ queue.pending[v] = 0 /\ v \notin queue.deferred /\ ~Working(v)
      /\ log.after[v] = {} /\ v \notin log.checkpointed /\ v \in log.accepted
      /\ accepting' = None /\ UNCHANGED <<active, reserved, crashes>>
  BY <1>1, <1>2, AcceptingFacts
<1>4. /\ queue' = Enqueue(queue, v) /\ gone' = [gone EXCEPT ![v] = "requeued"]
      /\ phase' \in {"drain", "closing"} /\ UNCHANGED <<log, settled>>
  BY <1>1, <1>3 DEF AcceptRequeued, Queued, Draining, Lose
<1>5. /\ queue' \in QueueType /\ queue'.pending = [queue.pending EXCEPT ![v] = @ + 1]
      /\ queue'.deferred = queue.deferred /\ queue'.retries = queue.retries
  BY <1>3, <1>4, EnqueueFacts DEF Types
<1>6. \A u \in Tasks :
        /\ Started(u)' = Started(u) /\ (Begun(u)' <=> Begun(u))
        /\ (Unfinished(u)' <=> Unfinished(u)) /\ (MayStart(u)' <=> MayStart(u))
        /\ (Queued(u)' <=> Queued(u) \/ u = v)
        /\ u # v => (Given(u)' <=> Given(u)) /\ (LostOver(u)' <=> LostOver(u))
        /\ LostOver(v)'
  <2>1. \A u \in Tasks : (Queued(u)' <=> Queued(u) \/ u = v)
    BY <1>3, <1>5 DEF Queued, Holds, Types, QueueType
  <2>2. \A u \in Tasks : u # v => (Given(u)' <=> Given(u)) /\ (LostOver(u)' <=> LostOver(u))
    BY <1>3, <1>4, LostOverSame DEF Types
  <2>3. LostOver(v)'
    BY <1>3, <1>4 DEF LostOver, Types
  <2>4. QED BY <1>4, <2>1, <2>2, <2>3, JobEventsSame, MayStartSame
<1>7. Types'
  BY <1>3, <1>4, <1>5 DEF Types, TypeOK, QueueType
<1>8. LogSound'
  BY <1>4, LogSame
<1>9. OnePlace'
  BY <1>3, <1>4, <1>5, <1>6 DEF OnePlace, Types, LogType, QueueType
<1>10. JobsLogged' /\ Phases'
  BY <1>3, <1>4, <1>5 DEF JobsLogged, Phases, InLoop, Open, OneOpenJob
<1>11. Accounted'
  BY <1>3, <1>4, <1>5, <1>6 DEF Accounted, Bit, Types, LogType
<1>12. Remains'
  <2>1. \A i \in Jobs : active'[i] = "cancelled"
                        => gone'[TaskOf(i)] = "stale" \/ TaskOf(i) \in settled'
    BY <1>3, <1>4, JobFacts DEF Remains, Working, Types
  <2>2. QED
    BY <1>3, <1>4, <1>6, <2>1 DEF Remains, Recoverable, Explained, InLoop, Types, LogType
<1>13. QED BY <1>7, <1>8, <1>9, <1>10, <1>11, <1>12

LEMMA AcceptRetryStep ==
  ASSUME IInv, NEW k \in Classes, AcceptRetryable(k),
         queue.retries[TaskOf(accepting)][k] + 1 <= Limit[k]
  PROVE  IInv'
<1> USE DEF IInv
<1>1. PICK v : v = TaskOf(accepting)
  OBVIOUS
<1>2. Accepting
  BY DEF AcceptRetryable
<1>3. /\ phase \in {"run", "drain", "closing"} /\ accepting \in Jobs /\ v \in Tasks
      /\ \A u \in Tasks : (Awaiting(u) <=> u = v) /\ ~Awaiting(u)' /\ (Working(u)' <=> Working(u))
      /\ ~Queued(v) /\ queue.pending[v] = 0 /\ v \notin queue.deferred /\ ~Working(v)
      /\ log.after[v] = {} /\ v \notin log.checkpointed /\ v \in log.accepted
      /\ Begun(v) /\ ~MayStart(v) /\ LostOver(v)
      /\ accepting' = None /\ UNCHANGED <<active, reserved, crashes>>
  BY <1>1, <1>2, AcceptingFacts
<1> DEFINE n == log.retries[v][k] + 1
<1>4. /\ queue.retries = log.retries /\ log.retries[v][k] \in Nat /\ n \in Nat /\ n <= Limit[k]
  BY <1>1, <1>3 DEF Accounted, Types, LogType
<1>5. /\ queue' = [Enqueue(queue, v) EXCEPT !.retries[v][k] = n]
      /\ log' = LogRetry(log, v, k, n) /\ UNCHANGED <<phase, settled, gone>>
  BY <1>1, <1>4 DEF AcceptRetryable
<1> HIDE DEF n
<1>6. /\ log' \in LogType /\ log'.job = log.job /\ log'.accepted = log.accepted
      /\ log'.after = [log.after EXCEPT ![v] = @ \cup {"retry"}]
      /\ log'.retries = [log.retries EXCEPT ![v][k] = n]
      /\ log'.checkpointed = log.checkpointed
  <2>1. log.retries[v][k] < n
    BY <1>4 DEF n
  <2>2. QED BY <1>3, <1>4, <1>5, <2>1, LogRetryFacts DEF Types
<1>7. /\ queue' \in QueueType /\ queue'.pending = [queue.pending EXCEPT ![v] = @ + 1]
      /\ queue'.deferred = queue.deferred /\ queue'.retries = log'.retries
  <2>1. ASSUME NEW q \in QueueType
        PROVE  LET r == [q EXCEPT !.retries[v][k] = n]
               IN  /\ r \in QueueType /\ r.pending = q.pending /\ r.deferred = q.deferred
                   /\ r.retries = [q.retries EXCEPT ![v][k] = n]
    BY <1>3, <1>4 DEF QueueType
  <2> DEFINE q == Enqueue(queue, v)
  <2>2. /\ q \in QueueType /\ q.pending = [queue.pending EXCEPT ![v] = @ + 1]
        /\ q.deferred = queue.deferred /\ q.retries = queue.retries
    BY <1>3, EnqueueFacts DEF Types
  <2>3. queue' = [q EXCEPT !.retries[v][k] = n]
    BY <1>5
  <2> HIDE DEF q
  <2>4. QED BY <1>4, <1>6, <2>1, <2>2, <2>3
<1>8. \A u \in Tasks :
        /\ \A c \in Classes : log'.retries[u][c] = IF u = v /\ c = k THEN log.retries[v][k] + 1
                                                                 ELSE log.retries[u][c]
        /\ u # v => log'.after[u] = log.after[u]
        /\ "retry" \in log'.after[v]
  BY <1>3, <1>6 DEF Types, LogType, n
<1>9. \A u \in Tasks :
        /\ Started(u)' = Started(u) /\ (Begun(u)' <=> Begun(u))
        /\ (Unfinished(u)' <=> Unfinished(u)) /\ (MayStart(u)' <=> MayStart(u) \/ u = v)
        /\ (Queued(u)' <=> Queued(u) \/ u = v)
        /\ (Given(u)' <=> Given(u)) /\ (u # v => (LostOver(u)' <=> LostOver(u)))
  <2>1. \A u \in Tasks : (Queued(u)' <=> Queued(u) \/ u = v)
    BY <1>3, <1>7 DEF Queued, Holds, Types, QueueType
  <2>2. \A u \in Tasks : Started(u)' = Started(u) /\ (Begun(u)' <=> Begun(u))
                         /\ (Unfinished(u)' <=> Unfinished(u))
    BY <1>6, JobEventsSame
  <2>3. \A u \in Tasks : (MayStart(u)' <=> MayStart(u) \/ u = v)
    BY <1>3, <1>8, <2>2 DEF MayStart
  <2>4. \A u \in Tasks : (Given(u)' <=> Given(u)) /\ (u # v => (LostOver(u)' <=> LostOver(u)))
    BY <1>5, <1>6, <1>8 DEF Given, LostOver, Classes
  <2>5. QED BY <2>1, <2>2, <2>3, <2>4
<1>10. Types'
  BY <1>3, <1>5, <1>6, <1>7 DEF Types, TypeOK, LogType, QueueType
<1>11. LogSound'
  <2>1. \A u \in Tasks, c \in Classes : log'.retries[u][c] <= Limit[c]
    BY <1>4, <1>8 DEF LogSound, n
  <2>2. \A u \in log'.checkpointed : log'.after[u] = {} /\ Begun(u)' /\ ~Unfinished(u)'
    BY <1>3, <1>6, <1>8, <1>9 DEF LogSound, Types, LogType
  <2>3. QED BY <1>6, <1>9, <2>1, <2>2 DEF LogSound
<1>12. OnePlace'
  BY <1>3, <1>6, <1>7, <1>9 DEF OnePlace, Types, LogType, QueueType
<1>13. JobsLogged' /\ Phases'
  BY <1>3, <1>5, <1>6, <1>7 DEF JobsLogged, Phases, InLoop, Open, OneOpenJob
<1>14. Accounted'
  <2>1. \A u \in Tasks \ settled' :
          Cardinality(Started(u))' + Bit(MayStart(u)')
            <= 1 + log'.retries[u]["transport"] + log'.retries[u]["protocol"]
    <3> TAKE u \in Tasks \ settled'
    <3>1. Cardinality(Started(u)) + Bit(MayStart(u))
            <= 1 + log.retries[u]["transport"] + log.retries[u]["protocol"]
      BY <1>5 DEF Accounted
    <3>2. /\ Cardinality(Started(u)) \in Nat /\ log.retries[u]["transport"] \in Nat
          /\ log.retries[u]["protocol"] \in Nat
      BY StartedFinite DEF Types, LogType, Classes
    <3>3. QED BY <1>3, <1>8, <1>9, <3>1, <3>2 DEF Bit, Classes
  <2>2. QED BY <1>3, <1>5, <1>6, <1>7, <1>9, <2>1 DEF Accounted, Types, LogType, QueueType
<1>15. Remains'
  BY <1>3, <1>5, <1>6, <1>9 DEF Remains, Recoverable, Explained, InLoop, Types, LogType
<1>16. QED BY <1>10, <1>11, <1>12, <1>13, <1>14, <1>15

LEMMA AcceptRetainedStep ==
  ASSUME IInv, Accepting, NEW v, v = TaskOf(accepting), log' = LogRetained(log, v),
         settled' = settled \cup {v}, UNCHANGED <<phase, queue, gone>>
  PROVE  IInv'
<1> USE DEF IInv
<1>1. /\ phase \in {"run", "drain", "closing"} /\ v \in Tasks
      /\ \A u \in Tasks : (Awaiting(u) <=> u = v) /\ ~Awaiting(u)' /\ (Working(u)' <=> Working(u))
      /\ ~Queued(v) /\ queue.pending[v] = 0 /\ ~Working(v) /\ v \notin log.checkpointed
      /\ accepting' = None /\ UNCHANGED <<active, reserved, crashes>>
  BY AcceptingFacts
<1>2. /\ log' \in LogType /\ log'.job = log.job /\ log'.accepted = log.accepted
      /\ log'.after = [log.after EXCEPT ![v] = @ \cup {"retained"}]
      /\ log'.retries = log.retries /\ log'.checkpointed = log.checkpointed
  BY <1>1, LogRetainedFacts DEF Types
<1>3. \A u \in Tasks : u # v => log'.after[u] = log.after[u]
  BY <1>1, <1>2 DEF Types, LogType
<1>4. \A u \in Tasks :
        /\ Started(u)' = Started(u) /\ (Begun(u)' <=> Begun(u))
        /\ (Unfinished(u)' <=> Unfinished(u)) /\ (u # v => (MayStart(u)' <=> MayStart(u)))
        /\ (Queued(u)' <=> Queued(u))
        /\ (Given(u)' <=> Given(u)) /\ (LostOver(u)' <=> LostOver(u))
  BY <1>2, <1>3, JobEventsSame, MayStartSame, LostOverSame DEF Queued
<1>5. Types'
  BY <1>1, <1>2 DEF Types, TypeOK, LogType
<1>6. LogSound'
  BY <1>1, <1>2, <1>3, <1>4 DEF LogSound, Types, LogType
<1>7. OnePlace'
  BY <1>1, <1>2, <1>3, <1>4 DEF OnePlace, Types, LogType
<1>8. JobsLogged' /\ Phases'
  BY <1>1, <1>2 DEF JobsLogged, Phases, InLoop, Open, OneOpenJob
<1>9. Accounted'
  BY <1>1, <1>2, <1>3, <1>4 DEF Accounted, Bit, Types, LogType, QueueType
<1>10. Remains'
  BY <1>1, <1>2, <1>3, <1>4 DEF Remains, Recoverable, Explained, InLoop, Types, LogType
<1>11. QED BY <1>5, <1>6, <1>7, <1>8, <1>9, <1>10

LEMMA AcceptErrorStep ==
  ASSUME IInv, AcceptFatal \/ \E k \in Classes : AcceptRetryable(k)
  PROVE  IInv'
<1>1. CASE AcceptFatal
  BY <1>1, AcceptRetainedStep DEF AcceptFatal, Settle
<1>2. ASSUME NEW k \in Classes, AcceptRetryable(k)
      PROVE  IInv'
  <2>1. CASE queue.retries[TaskOf(accepting)][k] + 1 <= Limit[k]
    BY <1>2, <2>1, AcceptRetryStep
  <2>2. CASE ~(queue.retries[TaskOf(accepting)][k] + 1 <= Limit[k])
    BY <1>2, <2>2, AcceptRetainedStep DEF AcceptRetryable, Settle
  <2>3. QED BY <2>1, <2>2
<1>3. QED BY <1>1, <1>2

LEMMA AcceptEndingStep ==
  ASSUME IInv, AcceptEnding
  PROVE  IInv'
<1> USE DEF IInv
<1>1. PICK v : v = TaskOf(accepting)
  OBVIOUS
<1>2. Accepting
  BY DEF AcceptEnding
<1>3. /\ phase \in {"run", "drain", "closing"} /\ v \in Tasks
      /\ \A u \in Tasks : (Awaiting(u) <=> u = v) /\ ~Awaiting(u)' /\ (Working(u)' <=> Working(u))
      /\ accepting' = None /\ UNCHANGED <<active, reserved, crashes>>
  BY <1>1, <1>2, AcceptingFacts
<1>4. /\ phase' \in {"drain", "closing"} /\ UNCHANGED <<log, gone>>
      /\ queue' = [queue EXCEPT !.pending = NoQueue.pending, !.deferred = {}]
      /\ settled' \subseteq Tasks /\ settled \subseteq settled' /\ v \in settled'
      /\ \A u \in Tasks : Queued(u) => u \in settled'
  BY <1>1, <1>3 DEF AcceptEnding, Draining, Queued, Types
<1>5. /\ queue' \in QueueType /\ queue'.pending = [u \in Tasks |-> 0] /\ queue'.deferred = {}
      /\ queue'.retries = queue.retries
  BY <1>4, ClearedFacts DEF Types
<1>6. \A u \in Tasks :
        /\ Started(u)' = Started(u) /\ (Begun(u)' <=> Begun(u))
        /\ (Unfinished(u)' <=> Unfinished(u)) /\ (MayStart(u)' <=> MayStart(u))
        /\ ~Queued(u)'
        /\ (Given(u)' <=> Given(u)) /\ (LostOver(u)' <=> LostOver(u))
  <2>1. \A u \in Tasks : ~Queued(u)'
    BY <1>5 DEF Queued, Holds
  <2>2. QED BY <1>4, <2>1, JobEventsSame, MayStartSame, LostOverSame
<1>7. Types'
  BY <1>3, <1>4, <1>5 DEF Types, TypeOK, QueueType
<1>8. LogSound'
  BY <1>4, LogSame
<1>9. OnePlace'
  BY <1>3, <1>4, <1>5, <1>6 DEF OnePlace, Types, LogType
<1>10. JobsLogged' /\ Phases'
  BY <1>3, <1>4, <1>5 DEF JobsLogged, Phases, InLoop, Open, OneOpenJob
<1>11. Accounted'
  BY <1>3, <1>4, <1>5, <1>6 DEF Accounted, Bit, Types, LogType
<1>12. Remains'
  BY <1>3, <1>4, <1>6 DEF Remains, Recoverable, Explained, InLoop, Types, LogType
<1>13. QED BY <1>7, <1>8, <1>9, <1>10, <1>11, <1>12

(***************************************************************************)
(* Jobs that are cancelled: the log is told, the job's future stays.       *)
(***************************************************************************)
LEMMA CancelStaleStep ==
  ASSUME IInv, NEW j \in Jobs, CancelStale(j)
  PROVE  IInv'
<1> USE DEF IInv
<1> DEFINE v == TaskOf(j)
<1>1. /\ phase \in {"run", "drain"} /\ accepting = None /\ active[j] \in {"running", "done"}
      /\ active' = [active EXCEPT ![j] = Cancelled(j)] /\ log' = LogCancelled(log, j)
      /\ gone' = [gone EXCEPT ![v] = "stale"]
      /\ UNCHANGED <<phase, queue, reserved, accepting, settled, crashes>>
  BY DEF CancelStale, Lose
<1>2. /\ log' \in LogType /\ log'.job = [log.job EXCEPT ![j] = @ \cup {"cancelled"}]
      /\ log'.accepted = log.accepted /\ log'.after = log.after
      /\ log'.retries = log.retries /\ log'.checkpointed = log.checkpointed
  BY <1>1, LogCancelledFacts DEF Types
<1>3. \A i \in Jobs :
        /\ log'.job[i] = IF i = j THEN log.job[j] \cup {"cancelled"} ELSE log.job[i]
        /\ active'[i] # "none" <=> active[i] # "none"
        /\ i # j => active'[i] = active[i]
  BY <1>1, <1>2 DEF Types, TypeOK, LogType, Cancelled
<1>4. v \in Tasks /\ "started" \in log.job[j] /\ gone'[v] = "stale"
  BY <1>1, JobFacts DEF JobsLogged, Types
<1>5. \A u \in Tasks :
        /\ Started(u)' = Started(u) /\ (Begun(u)' <=> Begun(u))
        /\ Unfinished(u)' => Unfinished(u)
        /\ Unfinished(u) => Unfinished(u)' \/ u = v
        /\ (MayStart(u)' <=> MayStart(u))
        /\ (Working(u)' <=> Working(u)) /\ (Awaiting(u)' <=> Awaiting(u))
        /\ (Queued(u)' <=> Queued(u))
        /\ Given(v)' /\ (u # v => (Given(u)' <=> Given(u)) /\ (LostOver(u) => LostOver(u)'))
  <2>1. \A u \in Tasks : Started(u)' = Started(u)
    BY <1>3, <1>4, StartedSame
  <2>2. \A u \in Tasks : /\ Begun(u)' <=> Begun(u)
                         /\ Unfinished(u)' => Unfinished(u)
                         /\ Unfinished(u) => Unfinished(u)' \/ u = v
    BY <1>3, <1>4 DEF Begun, Unfinished, Open
  <2>3. \A u \in Tasks : MayStart(u)' <=> MayStart(u)
    BY <1>2, <2>2 DEF MayStart
  <2>4. \A u \in Tasks : (Working(u)' <=> Working(u)) /\ (Queued(u)' <=> Queued(u))
    BY <1>1, <1>3 DEF Working, Queued
  <2>5. \A u \in Tasks : u # v => (Given(u)' <=> Given(u)) /\ (LostOver(u) => LostOver(u)')
    BY <1>1, <1>2, <1>3, <1>4 DEF Given, LostOver, Types
  <2>6. Given(v)'
    BY <1>4 DEF Given
  <2>7. QED BY <1>1, <2>1, <2>2, <2>3, <2>4, <2>5, <2>6, AwaitingSame
<1>6. Types'
  BY <1>1, <1>2, <1>4 DEF Types, TypeOK, Cancelled
<1>7. LogSound'
  BY <1>2, <1>3, <1>4, <1>5, JobFacts DEF LogSound, Types, LogType
<1>8. OnePlace'
  BY <1>1, <1>2, <1>3, <1>5 DEF OnePlace, Types, LogType
<1>9. JobsLogged' /\ Phases'
  BY <1>1, <1>3, <1>4 DEF JobsLogged, Phases, InLoop, Open, OneOpenJob
<1>10. Accounted'
  BY <1>1, <1>2, <1>5 DEF Accounted, Bit, Types, LogType
<1>11. Remains'
  <2>1. \A i \in Jobs : active'[i] = "cancelled"
                        => gone'[TaskOf(i)] = "stale" \/ TaskOf(i) \in settled'
    BY <1>1, <1>3, <1>4, JobFacts DEF Remains, Types
  <2>2. \A u \in log.accepted \ settled : Recoverable(u)' /\ (InLoop' => Explained(u)')
    BY <1>1, <1>2, <1>4, <1>5 DEF Remains, Recoverable, Explained, InLoop, Types, LogType
  <2>3. QED BY <1>1, <1>2, <2>1, <2>2 DEF Remains
<1>12. QED BY <1>6, <1>7, <1>8, <1>9, <1>10, <1>11

LEMMA AuditOnlyStep ==
  ASSUME IInv, AuditOnly
  PROVE  IInv'
<1> USE DEF IInv
<1>1. /\ phase \in {"run", "drain"} /\ accepting = None
      /\ active' = [j \in Jobs |-> Cancelled(j)]
      /\ settled' = settled \cup {t \in Tasks : Queued(t)} \cup {TaskOf(j) : j \in Registered}
      /\ queue' = [queue EXCEPT !.pending = NoQueue.pending, !.deferred = {}]
      /\ UNCHANGED <<phase, reserved, accepting, gone, crashes>>
  BY DEF AuditOnly, Queued
<1>2. /\ log' \in LogType
      /\ log'.job = [j \in Jobs |->
                       log.job[j] \cup (IF j \in Registered THEN {"cancelled"} ELSE {})]
      /\ log'.accepted = log.accepted /\ log'.after = log.after
      /\ log'.retries = log.retries /\ log'.checkpointed = log.checkpointed
  <2> DEFINE job == [j \in Jobs |->
                       log.job[j] \cup (IF j \in Registered THEN {"cancelled"} ELSE {})]
  <2>1. job \in [Jobs -> SUBSET {"started", "completed", "cancelled"}]
    BY DEF Types, LogType
  <2>2. log' = [log EXCEPT !.auditOnly = TRUE, !.job = job]
    BY DEF AuditOnly
  <2> HIDE DEF job
  <2>3. /\ log' \in LogType /\ log'.job = job
        /\ log'.accepted = log.accepted /\ log'.after = log.after
        /\ log'.retries = log.retries /\ log'.checkpointed = log.checkpointed
    BY <2>1, <2>2 DEF Types, LogType
  <2>4. QED BY <2>3 DEF job
<1>3. /\ queue' \in QueueType /\ queue'.pending = [u \in Tasks |-> 0] /\ queue'.deferred = {}
      /\ queue'.retries = queue.retries
  BY <1>1, ClearedFacts DEF Types
<1>4. \A i \in Jobs :
        /\ log'.job[i] = log.job[i] \cup (IF active[i] # "none" THEN {"cancelled"} ELSE {})
        /\ active'[i] = IF active[i] = "running" THEN "cancelled" ELSE active[i]
        /\ active[i] # "none" => "started" \in log.job[i] /\ TaskOf(i) \in settled'
  BY <1>1, <1>2 DEF Registered, Cancelled, JobsLogged
<1>5. /\ settled' \subseteq Tasks /\ settled \subseteq settled'
      /\ \A u \in Tasks : Queued(u) \/ Working(u) => u \in settled'
  BY <1>1, JobFacts DEF Registered, Working, Types
<1>6. \A u \in Tasks :
        /\ Started(u)' = Started(u) /\ (Begun(u)' <=> Begun(u))
        /\ Unfinished(u)' => Unfinished(u)
        /\ Unfinished(u) /\ ~Working(u) => Unfinished(u)'
        /\ (MayStart(u)' <=> MayStart(u))
        /\ (Working(u)' <=> Working(u)) /\ (Awaiting(u)' <=> Awaiting(u)) /\ ~Queued(u)'
        /\ (Given(u)' <=> Given(u)) /\ (LostOver(u) => LostOver(u)')
  <2>1. \A u \in Tasks : Started(u)' = Started(u)
    BY <1>4, StartedSame
  <2>2. \A u \in Tasks : Begun(u)' <=> Begun(u)
    BY <1>4 DEF Begun
  <2>3. \A u \in Tasks : /\ Unfinished(u)' => Unfinished(u)
                         /\ Unfinished(u) /\ ~Working(u) => Unfinished(u)'
    BY <1>4 DEF Unfinished, Open, Working
  <2>4. \A u \in Tasks : MayStart(u)' <=> MayStart(u)
    BY <1>2, <2>2 DEF MayStart
  <2>5. \A u \in Tasks : (Working(u)' <=> Working(u)) /\ ~Queued(u)'
    BY <1>3, <1>4 DEF Working, Queued, Holds
  <2>6. \A u \in Tasks : (Given(u)' <=> Given(u)) /\ (LostOver(u) => LostOver(u)')
    BY <1>1, <1>2, <1>4 DEF Given, LostOver
  <2>7. QED BY <1>1, <2>1, <2>2, <2>3, <2>4, <2>5, <2>6, AwaitingSame
<1>7. Types'
  BY <1>1, <1>2, <1>3, <1>5 DEF Types, TypeOK, QueueType, Cancelled
<1>8. LogSound'
  <2>1. \A i \in Jobs : /\ log'.job[i] # {} => "started" \in log'.job[i]
                        /\ "started" \in log'.job[i] <=> "started" \in log.job[i]
    BY <1>4 DEF LogSound
  <2>2. QED BY <1>2, <1>6, <2>1, JobFacts DEF LogSound, Types, LogType
<1>9. OnePlace'
  BY <1>1, <1>2, <1>3, <1>4, <1>6 DEF OnePlace, Types, LogType
<1>10. JobsLogged' /\ Phases'
  BY <1>1, <1>3, <1>4 DEF JobsLogged, Phases, InLoop, Open, OneOpenJob
<1>11. Accounted'
  BY <1>1, <1>2, <1>3, <1>5, <1>6 DEF Accounted, Bit, Types, LogType
<1>12. Remains'
  BY <1>1, <1>2, <1>4, <1>5, <1>6 DEF Remains, Recoverable, Explained, InLoop, Types, LogType
<1>13. QED BY <1>7, <1>8, <1>9, <1>10, <1>11, <1>12

LEMMA CutOffStep ==
  ASSUME IInv, NEW j \in Jobs, CutOff(j)
  PROVE  IInv'
<1> USE DEF IInv
<1> DEFINE v == TaskOf(j)
<1>1. /\ phase = "cutting" /\ active[j] # "none" /\ v \in Tasks
      /\ log' = LogCancelled(log, j) /\ active' = [active EXCEPT ![j] = "none"]
      /\ reserved' = reserved \ {j} /\ gone' = [gone EXCEPT ![v] = "requeued"]
      /\ UNCHANGED <<phase, accepting, settled, crashes>>
  BY JobFacts DEF CutOff, Lose
<1>2. /\ Working(v) /\ ~Queued(v) /\ queue.pending[v] = 0 /\ v \notin queue.deferred
      /\ log.after[v] = {} /\ v \notin log.checkpointed /\ "started" \in log.job[j]
      /\ v \in log.accepted /\ accepting = None
  BY <1>1
    DEF Working, OnePlace, Queued, Holds, Types, QueueType, JobsLogged, LogSound, Begun, Phases
<1>3. /\ queue' \in QueueType /\ queue'.pending = [queue.pending EXCEPT ![v] = @ + 1]
      /\ queue'.deferred = queue.deferred /\ queue'.retries = queue.retries
  <2>1. queue' = Enqueue(queue, v)
    BY <1>2 DEF CutOff, Queued
  <2>2. QED BY <1>1, <2>1, EnqueueFacts DEF Types
<1>4. /\ log' \in LogType /\ log'.job = [log.job EXCEPT ![j] = @ \cup {"cancelled"}]
      /\ log'.accepted = log.accepted /\ log'.after = log.after
      /\ log'.retries = log.retries /\ log'.checkpointed = log.checkpointed
  BY <1>1, LogCancelledFacts DEF Types
<1>5. \A i \in Jobs :
        /\ log'.job[i] = IF i = j THEN log.job[j] \cup {"cancelled"} ELSE log.job[i]
        /\ active'[i] = IF i = j THEN "none" ELSE active[i]
  BY <1>1, <1>4 DEF Types, TypeOK, LogType
<1>6. \A u \in Tasks :
        /\ Started(u)' = Started(u) /\ (Begun(u)' <=> Begun(u))
        /\ Unfinished(u)' => Unfinished(u)
        /\ Unfinished(u) => Unfinished(u)' \/ u = v
        /\ (MayStart(u)' <=> MayStart(u))
        /\ (Working(u)' <=> Working(u) /\ u # v) /\ (Awaiting(u)' <=> Awaiting(u))
        /\ (Queued(u)' <=> Queued(u) \/ u = v)
        /\ LostOver(v)' /\ (u # v => (Given(u)' <=> Given(u)) /\ (LostOver(u) => LostOver(u)'))
  <2>1. \A u \in Tasks : Started(u)' = Started(u)
    BY <1>2, <1>5, StartedSame
  <2>2. \A u \in Tasks : /\ Begun(u)' <=> Begun(u)
                         /\ Unfinished(u)' => Unfinished(u)
                         /\ Unfinished(u) => Unfinished(u)' \/ u = v
    BY <1>2, <1>5 DEF Begun, Unfinished, Open
  <2>3. \A u \in Tasks : MayStart(u)' <=> MayStart(u)
    BY <1>4, <2>2 DEF MayStart
  <2>4. \A u \in Tasks : Working(u)' <=> Working(u) /\ u # v
    BY <1>1, <1>5 DEF Working, OnePlace
  <2>5. \A u \in Tasks : Queued(u)' <=> Queued(u) \/ u = v
    BY <1>1, <1>2, <1>3 DEF Queued, Holds, Types, QueueType
  <2>6. \A u \in Tasks : u # v => (Given(u)' <=> Given(u)) /\ (LostOver(u) => LostOver(u)')
    BY <1>1, <1>4, <1>5 DEF Given, LostOver, Types
  <2>7. LostOver(v)'
    BY <1>1 DEF LostOver, Types
  <2>8. QED BY <1>1, <2>1, <2>2, <2>3, <2>4, <2>5, <2>6, <2>7, AwaitingSame
<1>7. Types'
  BY <1>1, <1>3, <1>4 DEF Types, TypeOK, QueueType
<1>8. LogSound'
  BY <1>2, <1>4, <1>5, <1>6, JobFacts DEF LogSound, Types, LogType
<1>9. OnePlace'
  BY <1>1, <1>2, <1>3, <1>4, <1>5, <1>6 DEF OnePlace, Awaiting, Types, LogType, QueueType
<1>10. JobsLogged' /\ Phases'
  BY <1>1, <1>2, <1>3, <1>5 DEF JobsLogged, Phases, InLoop, Open, OneOpenJob
<1>11. Accounted'
  BY <1>1, <1>3, <1>4, <1>6 DEF Accounted, Bit, Types, LogType
<1>12. Remains'
  <2>1. \A i \in Jobs : active'[i] = "cancelled"
                        => gone'[TaskOf(i)] = "stale" \/ TaskOf(i) \in settled'
    BY <1>1, <1>5, JobFacts DEF Remains, OnePlace, Types
  <2>2. QED
    BY <1>1, <1>4, <1>6, <2>1 DEF Remains, Recoverable, Explained, InLoop, Types, LogType
<1>13. QED BY <1>7, <1>8, <1>9, <1>10, <1>11, <1>12

(***************************************************************************)
(* Crash and recovery.                                                     *)
(***************************************************************************)
LEMMA CrashStep ==
  ASSUME IInv, log' \in LogType, phase' = "down", queue' = NoQueue,
         active' = Idle, reserved' = {}, accepting' = None, crashes' = crashes + 1,
         UNCHANGED <<settled, gone>>,
         LogSound', OneOpenJob',
         log'.accepted = log.accepted,
         \A u \in log'.accepted \ settled' : Recoverable(u)',
         \A u \in Tasks \ settled' :
           Cardinality(Started(u))' + Bit(MayStart(u)')
             <= 1 + log'.retries[u]["transport"] + log'.retries[u]["protocol"]
  PROVE  IInv'
<1> USE DEF IInv
<1>1. /\ NoQueue \in QueueType /\ NoQueue.pending = [u \in Tasks |-> 0] /\ NoQueue.deferred = {}
  BY NoQueueFacts
<1>2. \A u \in Tasks : ~Working(u)' /\ ~Awaiting(u)' /\ ~Queued(u)'
  BY <1>1 DEF Working, Awaiting, Queued, Holds, Idle
<1>3. Types'
  BY <1>1 DEF Types, TypeOK, LogType, QueueType, Idle
<1>4. OnePlace'
  BY <1>1, <1>2 DEF OnePlace, Idle
<1>5. JobsLogged' /\ Phases'
  BY <1>1 DEF JobsLogged, Phases, InLoop, Idle, Types
<1>6. Accounted' /\ Remains'
  BY DEF Accounted, Remains, InLoop, Idle
<1>7. QED BY <1>3, <1>4, <1>5, <1>6

LEMMA PlainCrashStep ==
  ASSUME IInv, Crash
  PROVE  IInv'
<1> USE DEF IInv
<1>1. /\ log' = log /\ phase' = "down" /\ queue' = NoQueue
      /\ active' = Idle /\ reserved' = {} /\ accepting' = None /\ crashes' = crashes + 1
      /\ UNCHANGED <<settled, gone>>
  BY DEF Crash
<1>2. \A u \in Tasks :
        /\ Started(u)' = Started(u) /\ (Begun(u)' <=> Begun(u))
        /\ (Unfinished(u)' <=> Unfinished(u)) /\ (MayStart(u)' <=> MayStart(u))
        /\ (Given(u)' <=> Given(u)) /\ (LostOver(u)' <=> LostOver(u))
  BY <1>1, JobEventsSame, MayStartSame, LostOverSame
<1>3. log' \in LogType /\ LogSound' /\ OneOpenJob'
  BY <1>1, LogSame DEF Types, OneOpenJob, JobsLogged
<1>4. \A u \in log'.accepted \ settled' : Recoverable(u)'
  BY <1>1, <1>2 DEF Remains, Recoverable, Types, LogType
<1>5. \A u \in Tasks \ settled' :
           Cardinality(Started(u))' + Bit(MayStart(u)')
             <= 1 + log'.retries[u]["transport"] + log'.retries[u]["protocol"]
  BY <1>1, <1>2 DEF Accounted, Bit
<1>6. QED BY <1>1, <1>3, <1>4, <1>5, CrashStep

LEMMA RestartStep ==
  ASSUME IInv, Restart
  PROVE  IInv'
<1> USE DEF IInv
<1>1. /\ phase = "down" /\ phase' = "recover" /\ queue' = [NoQueue EXCEPT !.retries = log.retries]
      /\ UNCHANGED <<log, active, reserved, accepting, settled, gone, crashes>>
  BY DEF Restart, Remembered
<1>2. /\ queue' \in QueueType /\ queue'.pending = [u \in Tasks |-> 0] /\ queue'.deferred = {}
      /\ queue'.retries = log.retries
  BY <1>1, NoQueueFacts DEF Types, LogType, QueueType
<1>3. \A u \in Tasks :
        /\ Started(u)' = Started(u) /\ (Begun(u)' <=> Begun(u))
        /\ (Unfinished(u)' <=> Unfinished(u)) /\ (MayStart(u)' <=> MayStart(u))
        /\ (Working(u)' <=> Working(u)) /\ (Awaiting(u)' <=> Awaiting(u)) /\ ~Queued(u)'
        /\ (Given(u)' <=> Given(u)) /\ (LostOver(u)' <=> LostOver(u))
  <2>1. \A u \in Tasks : ~Queued(u)'
    BY <1>2 DEF Queued, Holds
  <2>2. QED BY <1>1, <2>1, JobEventsSame, ActiveSame, AwaitingSame, MayStartSame, LostOverSame
<1>4. Types' /\ LogSound'
  BY <1>1, <1>2, LogSame DEF Types, TypeOK, QueueType
<1>5. OnePlace'
  BY <1>1, <1>2, <1>3 DEF OnePlace, Types, LogType
<1>6. JobsLogged' /\ Phases'
  BY <1>1, <1>2, JobFacts DEF JobsLogged, Phases, InLoop, Open, OneOpenJob
<1>7. Accounted' /\ Remains'
  BY <1>1, <1>2, <1>3 DEF Accounted, Bit, Remains, Recoverable, InLoop, Types, LogType
<1>8. QED BY <1>4, <1>5, <1>6, <1>7

(* A retry that recovery records for the task of an open job.              *)
LEMMA StaleRetryFacts ==
  ASSUME IInv, phase = "recover", NEW j \in Jobs, log.job[j] = {"started"},
         NEW v, v = TaskOf(j), NEW n, n = StaleRetry(j)
  PROVE  /\ v \in Tasks /\ n \in Nat /\ Unfinished(v) /\ Begun(v) /\ v \in log.accepted
         /\ v \notin log.checkpointed /\ queue.pending[v] = 0
         /\ n = 0 => log.retries[v]["transport"] = Limit["transport"]
         /\ n > 0 => n = log.retries[v]["transport"] + 1 /\ n <= Limit["transport"]
<1> USE DEF IInv
<1>1. /\ v \in Tasks /\ Unfinished(v) /\ Begun(v) /\ queue.pending[v] = 0
  BY JobFacts DEF Unfinished, Open, Begun, JobsLogged
<1>2. v \in log.accepted /\ v \notin log.checkpointed
  BY <1>1 DEF LogSound
<1>3. /\ queue.retries = log.retries /\ log.retries[v]["transport"] \in Nat
      /\ log.retries[v]["transport"] <= Limit["transport"] /\ Limit["transport"] \in Nat
  BY <1>1, ResearchJobsAssumption DEF Accounted, Types, LogType, Classes, LogSound
<1>4. n = IF log.retries[v]["transport"] + 1 <= Limit["transport"]
          THEN log.retries[v]["transport"] + 1 ELSE 0
  BY <1>2, <1>3 DEF StaleRetry
<1>5. /\ n = 0 => log.retries[v]["transport"] = Limit["transport"]
      /\ n > 0 => n = log.retries[v]["transport"] + 1 /\ n <= Limit["transport"]
      /\ n \in Nat
  BY <1>3, <1>4
<1>6. QED BY <1>1, <1>2, <1>5

LEMMA RetriedLog ==
  ASSUME log \in LogType, NEW v \in Tasks, NEW n \in Nat, log.retries[v]["transport"] < n
  PROVE  LET l == LogRetry(log, v, "transport", n)
         IN  /\ l \in LogType /\ l.job = log.job /\ l.accepted = log.accepted
             /\ l.checkpointed = log.checkpointed
             /\ \A u \in Tasks : u # v => l.after[u] = log.after[u]
             /\ "retry" \in l.after[v]
             /\ l.retries = [log.retries EXCEPT ![v]["transport"] = n]
             /\ \A u \in Tasks : /\ l.retries[u]["protocol"] = log.retries[u]["protocol"]
                                 /\ l.retries[u]["transport"]
                                      = IF u = v THEN n ELSE log.retries[u]["transport"]
<1> DEFINE l == LogRetry(log, v, "transport", n)
<1>1. log.retries[v]["transport"] \in Nat /\ n \in Nat /\ "transport" \in Classes
  BY DEF LogType, Classes
<1>3. /\ l \in LogType /\ l.job = log.job /\ l.accepted = log.accepted
      /\ l.checkpointed = log.checkpointed
      /\ l.after = [log.after EXCEPT ![v] = @ \cup {"retry"}]
      /\ l.retries = [log.retries EXCEPT ![v]["transport"] = n]
  BY <1>1, LogRetryFacts
<1> HIDE DEF l
<1>4. /\ \A u \in Tasks : u # v => l.after[u] = log.after[u]
      /\ "retry" \in l.after[v]
      /\ \A u \in Tasks : /\ l.retries[u]["protocol"] = log.retries[u]["protocol"]
                          /\ l.retries[u]["transport"]
                               = IF u = v THEN n ELSE log.retries[u]["transport"]
  BY <1>1, <1>3 DEF LogType, Classes
<1>5. QED BY <1>3, <1>4 DEF l

LEMMA RecoverTornStep ==
  ASSUME IInv, NEW j \in Jobs, RecoverTorn(j)
  PROVE  IInv'
<1> USE DEF IInv
<1>1. PICK v : v = TaskOf(j)
  OBVIOUS
<1>2. PICK n : n = StaleRetry(j)
  OBVIOUS
<1>3. /\ phase = "recover" /\ log.job[j] = {"started"} /\ n > 0
      /\ log' = LogRetry(log, v, "transport", n)
      /\ phase' = "down" /\ queue' = NoQueue /\ crashes' = crashes + 1
      /\ UNCHANGED <<active, reserved, accepting, settled, gone>>
  BY <1>1, <1>2 DEF RecoverTorn
<1>4. /\ v \in Tasks /\ n \in Nat /\ Begun(v) /\ v \in log.accepted /\ Unfinished(v)
      /\ v \notin log.checkpointed
      /\ n = log.retries[v]["transport"] + 1 /\ n <= Limit["transport"]
  BY <1>1, <1>2, <1>3, StaleRetryFacts
<1>5. /\ log' \in LogType /\ log'.job = log.job /\ log'.accepted = log.accepted
      /\ log'.checkpointed = log.checkpointed
      /\ \A u \in Tasks : u # v => log'.after[u] = log.after[u]
      /\ "retry" \in log'.after[v]
      /\ \A u \in Tasks : /\ log'.retries[u]["protocol"] = log.retries[u]["protocol"]
                          /\ log'.retries[u]["transport"]
                               = IF u = v THEN n ELSE log.retries[u]["transport"]
  <2> DEFINE l == LogRetry(log, v, "transport", n)
  <2>1. /\ l \in LogType /\ l.job = log.job /\ l.accepted = log.accepted
        /\ l.checkpointed = log.checkpointed
        /\ \A u \in Tasks : u # v => l.after[u] = log.after[u]
        /\ "retry" \in l.after[v]
        /\ \A u \in Tasks : /\ l.retries[u]["protocol"] = log.retries[u]["protocol"]
                            /\ l.retries[u]["transport"]
                                 = IF u = v THEN n ELSE log.retries[u]["transport"]
    <3>1. log \in LogType /\ log.retries[v]["transport"] < n
      BY <1>4 DEF Types, LogType, Classes
    <3>2. QED BY <1>4, <3>1, RetriedLog
  <2>2. log' = l
    BY <1>3
  <2> HIDE DEF l
  <2>3. QED BY <2>1, <2>2
<1>6. \A u \in Tasks :
        /\ Started(u)' = Started(u) /\ (Begun(u)' <=> Begun(u))
        /\ (Unfinished(u)' <=> Unfinished(u)) /\ (MayStart(u)' <=> MayStart(u) \/ u = v)
        /\ (u # v => (Given(u)' <=> Given(u)) /\ (LostOver(u)' <=> LostOver(u)))
  <2>1. \A u \in Tasks : /\ Started(u)' = Started(u) /\ (Begun(u)' <=> Begun(u))
                         /\ (Unfinished(u)' <=> Unfinished(u))
    BY <1>5, JobEventsSame
  <2>2. \A u \in Tasks : MayStart(u)' <=> MayStart(u) \/ u = v
    BY <1>5, <2>1 DEF MayStart
  <2>3. \A u \in Tasks : u # v => (Given(u)' <=> Given(u)) /\ (LostOver(u)' <=> LostOver(u))
    BY <1>3, <1>5 DEF Given, LostOver
  <2>4. QED BY <2>1, <2>2, <2>3
<1>7. LogSound'
  <2>1. \A u \in Tasks, c \in Classes : log'.retries[u][c] <= Limit[c]
    BY <1>4, <1>5 DEF LogSound, Classes
  <2>2. QED BY <1>4, <1>5, <1>6, <2>1 DEF LogSound, Types, LogType
<1>8. active' = Idle /\ reserved' = {} /\ accepting' = None
  BY <1>3 DEF Phases, JobsLogged, Types, TypeOK, Idle
<1>9. \A u \in log'.accepted \ settled' : Recoverable(u)'
  BY <1>3, <1>4, <1>5, <1>6 DEF Remains, Recoverable, Types, LogType
<1>10. \A u \in Tasks \ settled' :
           Cardinality(Started(u))' + Bit(MayStart(u)')
             <= 1 + log'.retries[u]["transport"] + log'.retries[u]["protocol"]
  <2> TAKE u \in Tasks \ settled'
  <2>1. Cardinality(Started(u)) + Bit(MayStart(u))
          <= 1 + log.retries[u]["transport"] + log.retries[u]["protocol"]
    BY <1>3 DEF Accounted
  <2>2. /\ Cardinality(Started(u)) \in Nat /\ log.retries[u]["transport"] \in Nat
        /\ log.retries[u]["protocol"] \in Nat
    BY StartedFinite DEF Types, LogType, Classes
  <2>3. QED BY <1>4, <1>5, <1>6, <2>1, <2>2 DEF Bit
<1>11. OneOpenJob'
  BY <1>5 DEF JobsLogged, OneOpenJob
<1>12. QED BY <1>3, <1>5, <1>7, <1>8, <1>9, <1>10, <1>11, CrashStep

LEMMA RecoverJobStep ==
  ASSUME IInv, NEW j \in Jobs, RecoverJob(j)
  PROVE  IInv'
<1> USE DEF IInv
<1>1. PICK v : v = TaskOf(j)
  OBVIOUS
<1>2. PICK n : n = StaleRetry(j)
  OBVIOUS
<1> DEFINE l == IF n = 0 THEN log ELSE LogRetry(log, v, "transport", n)
<1>3. /\ phase = "recover" /\ log.job[j] = {"started"} /\ log' = LogJob(l, j, "cancelled")
      /\ queue' = IF n = 0 THEN queue
                  ELSE [Enqueue(queue, v) EXCEPT !.retries[v]["transport"] = n]
      /\ UNCHANGED <<phase, active, reserved, accepting, settled, gone, crashes>>
  BY <1>1, <1>2 DEF RecoverJob
<1>4. /\ v \in Tasks /\ n \in Nat /\ Begun(v) /\ v \in log.accepted /\ Unfinished(v)
      /\ v \notin log.checkpointed /\ queue.pending[v] = 0
      /\ n = 0 => log.retries[v]["transport"] = Limit["transport"]
      /\ n > 0 => n = log.retries[v]["transport"] + 1 /\ n <= Limit["transport"]
  BY <1>1, <1>2, <1>3, StaleRetryFacts
<1>5. queue.retries = log.retries /\ queue.deferred = {} /\ reserved = {} /\ accepting = None
  BY <1>3 DEF Accounted, Phases
<1>6. /\ l \in LogType /\ l.job = log.job /\ l.accepted = log.accepted
      /\ l.checkpointed = log.checkpointed
      /\ \A u \in Tasks : u # v \/ n = 0 => l.after[u] = log.after[u]
      /\ n > 0 => "retry" \in l.after[v]
      /\ l.retries = IF n = 0 THEN log.retries ELSE [log.retries EXCEPT ![v]["transport"] = n]
      /\ \A u \in Tasks : /\ l.retries[u]["protocol"] = log.retries[u]["protocol"]
                          /\ l.retries[u]["transport"]
                               = IF u = v /\ n > 0 THEN n ELSE log.retries[u]["transport"]
  <2>1. CASE n = 0
    BY <2>1 DEF Types
  <2>2. CASE n > 0
    <3>1. log \in LogType /\ log.retries[v]["transport"] < n
      BY <1>4, <2>2 DEF Types, LogType, Classes
    <3> DEFINE m == LogRetry(log, v, "transport", n)
    <3>2. /\ m \in LogType /\ m.job = log.job /\ m.accepted = log.accepted
          /\ m.checkpointed = log.checkpointed
          /\ \A u \in Tasks : u # v => m.after[u] = log.after[u]
          /\ "retry" \in m.after[v]
          /\ m.retries = [log.retries EXCEPT ![v]["transport"] = n]
          /\ \A u \in Tasks : /\ m.retries[u]["protocol"] = log.retries[u]["protocol"]
                              /\ m.retries[u]["transport"]
                                   = IF u = v THEN n ELSE log.retries[u]["transport"]
      BY <1>4, <3>1, RetriedLog
    <3>3. l = m
      BY <2>2
    <3> HIDE DEF l, m
    <3>4. n # 0
      BY <1>4, <2>2
    <3>5. QED BY <2>2, <3>2, <3>3, <3>4
  <2>3. QED BY <1>4, <2>1, <2>2
<1> HIDE DEF l
<1>7. /\ log' \in LogType /\ log'.job = [log.job EXCEPT ![j] = @ \cup {"cancelled"}]
      /\ log'.accepted = log.accepted /\ log'.after = l.after /\ log'.retries = l.retries
      /\ log'.checkpointed = log.checkpointed
  <2>1. l \in LogType /\ log' = LogJob(l, j, "cancelled")
    BY <1>3, <1>6
  <2>2. /\ log' \in LogType /\ log'.job = [l.job EXCEPT ![j] = @ \cup {"cancelled"}]
        /\ log'.accepted = l.accepted /\ log'.after = l.after /\ log'.retries = l.retries
        /\ log'.checkpointed = l.checkpointed
    BY <2>1, LogJobFacts
  <2>3. QED BY <1>6, <2>2
<1>8. \A i \in Jobs : log'.job[i] = IF i = j THEN {"started", "cancelled"} ELSE log.job[i]
  BY <1>3, <1>7 DEF Types, LogType
<1>9. /\ queue' \in QueueType /\ queue'.deferred = {} /\ queue'.retries = log'.retries
      /\ queue'.pending = IF n = 0 THEN queue.pending ELSE [queue.pending EXCEPT ![v] = 1]
  <2>1. CASE n = 0
    BY <1>3, <1>5, <1>6, <1>7, <2>1 DEF Types
  <2>2. CASE n > 0
    <3>1. ASSUME NEW q \in QueueType
          PROVE  LET r == [q EXCEPT !.retries[v]["transport"] = n]
                 IN  /\ r \in QueueType /\ r.pending = q.pending /\ r.deferred = q.deferred
                     /\ r.retries = [q.retries EXCEPT ![v]["transport"] = n]
      BY <1>4 DEF QueueType, Classes
    <3> DEFINE q == Enqueue(queue, v)
    <3>2. /\ q \in QueueType /\ q.pending = [queue.pending EXCEPT ![v] = @ + 1]
          /\ q.deferred = queue.deferred /\ q.retries = queue.retries
      BY <1>4, EnqueueFacts DEF Types
    <3>3. queue' = [q EXCEPT !.retries[v]["transport"] = n]
      BY <1>3, <2>2
    <3> HIDE DEF q
    <3>4. [queue.pending EXCEPT ![v] = @ + 1] = [queue.pending EXCEPT ![v] = 1]
      BY <1>4 DEF Types, QueueType
    <3>5. QED BY <1>5, <1>6, <1>7, <2>2, <3>1, <3>2, <3>3, <3>4
  <2>3. QED BY <1>4, <2>1, <2>2
<1>10. \A u \in Tasks : queue'.pending[u] = IF u = v /\ n > 0 THEN 1 ELSE queue.pending[u]
  BY <1>4, <1>9 DEF Types, QueueType
<1>11. \A u \in Tasks :
        /\ Started(u)' = Started(u) /\ (Begun(u)' <=> Begun(u))
        /\ ~Unfinished(v)' /\ (u # v => (Unfinished(u)' <=> Unfinished(u)))
        /\ (MayStart(u)' <=> MayStart(u) \/ (u = v /\ n > 0))
        /\ ~Working(u)' /\ ~Awaiting(u)'
        /\ (Given(u)' <=> Given(u)) /\ (u # v => (LostOver(u)' <=> LostOver(u)))
        /\ n = 0 => LostOver(v)'
  <2>1. \A u \in Tasks : Started(u)' = Started(u)
    BY <1>3, <1>8, StartedSame
  <2>2. \A u \in Tasks : Begun(u)' <=> Begun(u)
    BY <1>3, <1>8 DEF Begun
  <2>3. ~Unfinished(v)'
    BY <1>1, <1>3, <1>8 DEF Unfinished, Open, JobsLogged, OneOpenJob
  <2>4. \A u \in Tasks : u # v => (Unfinished(u)' <=> Unfinished(u))
    BY <1>1, <1>8 DEF Unfinished, Open
  <2>5. \A u \in Tasks : MayStart(u)' <=> MayStart(u) \/ (u = v /\ n > 0)
    BY <1>4, <1>6, <1>7, <2>2 DEF MayStart
  <2>6. \A u \in Tasks : ~Working(u)' /\ ~Awaiting(u)'
    BY <1>3, <1>5 DEF Working, Awaiting, JobsLogged
  <2>7. \A u \in Tasks : (Given(u)' <=> Given(u)) /\ (u # v => (LostOver(u)' <=> LostOver(u)))
    <3>1. \A u \in Tasks : Given(u)' <=> Given(u)
      BY <1>3 DEF Given
    <3>2. \A u \in Tasks : u # v => log'.retries[u]["transport"] = log.retries[u]["transport"]
      BY <1>6, <1>7
    <3>3. \A i \in Jobs : TaskOf(i) # v => log'.job[i] = log.job[i]
      BY <1>1, <1>8
    <3>4. \A u \in Tasks : u # v => (LostOver(u)' <=> LostOver(u))
      BY <1>3, <3>2, <3>3 DEF LostOver
    <3>5. QED BY <3>1, <3>4
  <2>8. n = 0 => LostOver(v)'
    BY <1>4, <1>6, <1>7 DEF LostOver
  <2>9. QED BY <2>1, <2>2, <2>3, <2>4, <2>5, <2>6, <2>7, <2>8
<1>12. Types'
  BY <1>3, <1>7, <1>9 DEF Types, TypeOK, LogType, QueueType
<1>13. LogSound'
  <2>1. \A u \in Tasks, c \in Classes : log'.retries[u][c] <= Limit[c]
    BY <1>4, <1>6, <1>7 DEF LogSound, Classes
  <2>2. \A i \in Jobs : /\ log'.job[i] # {} => "started" \in log'.job[i]
                        /\ "started" \in log'.job[i] <=> "started" \in log.job[i]
    BY <1>3, <1>8 DEF LogSound
  <2>3. \A u \in log.checkpointed : log'.after[u] = {} /\ Begun(u)' /\ ~Unfinished(u)'
    BY <1>4, <1>6, <1>7, <1>11 DEF LogSound, Types, LogType
  <2>4. QED BY <1>7, <1>11, <2>1, <2>2, <2>3, JobFacts DEF LogSound
<1>14. OnePlace'
  <2>1. \A u \in Tasks : Queued(u) <=> queue.pending[u] > 0
    BY <1>5 DEF Queued, Holds
  <2>2. \A u \in Tasks : Queued(u)' <=> queue'.pending[u] > 0
    BY <1>9 DEF Queued, Holds
  <2>3. \A i \in Jobs : active'[i] = "none"
    BY <1>3, <1>5 DEF JobsLogged
  <2>4. QED BY <1>4, <1>7, <1>9, <1>10, <1>11, <2>1, <2>2, <2>3 DEF OnePlace, Types, QueueType
<1>15. JobsLogged'
  <2>1. \A h, i \in Jobs : TaskOf(h) = TaskOf(i) /\ log'.job[h] = {"started"}
                           /\ log'.job[i] = {"started"} => h = i
    BY <1>8 DEF JobsLogged, OneOpenJob
  <2>2. \A i \in Jobs : log'.job[i] = {"started"} => queue'.pending[TaskOf(i)] = 0
    BY <1>1, <1>3, <1>8, <1>10, JobFacts DEF JobsLogged, OneOpenJob, Open
  <2>3. QED
    BY <1>3, <1>5, <2>1, <2>2 DEF JobsLogged, OneOpenJob, Open, InLoop
<1>16. Phases'
  BY <1>3, <1>5, <1>9 DEF Phases
<1>17. Accounted'
  <2>1. \A u \in Tasks \ settled' :
           Cardinality(Started(u))' + Bit(MayStart(u)')
             <= 1 + log'.retries[u]["transport"] + log'.retries[u]["protocol"]
    <3> TAKE u \in Tasks \ settled'
    <3>1. Cardinality(Started(u)) + Bit(MayStart(u))
            <= 1 + log.retries[u]["transport"] + log.retries[u]["protocol"]
      BY <1>3 DEF Accounted
    <3>2. /\ Cardinality(Started(u)) \in Nat /\ log.retries[u]["transport"] \in Nat
          /\ log.retries[u]["protocol"] \in Nat
      BY StartedFinite DEF Types, LogType, Classes
    <3>3. QED BY <1>4, <1>6, <1>7, <1>11, <3>1, <3>2 DEF Bit
  <2>2. QED BY <1>3, <1>4, <1>9, <1>10, <1>11, <2>1 DEF Accounted
<1>18. Remains'
  <2>1. \A i \in Jobs : active'[i] = "none"
    BY <1>3, <1>5 DEF JobsLogged
  <2>2. QED BY <1>3, <1>4, <1>7, <1>11, <2>1 DEF Remains, Recoverable, InLoop, Types, LogType
<1>19. QED BY <1>12, <1>13, <1>14, <1>15, <1>16, <1>17, <1>18

LEMMA RecoveredStep ==
  ASSUME IInv, Recovered
  PROVE  IInv'
<1> USE DEF IInv
<1>1. /\ phase = "recover" /\ phase' = "run" /\ \A j \in Jobs : log.job[j] # {"started"}
      /\ queue' = [queue EXCEPT !.pending = [t \in Tasks |-> Requeued(t)],
                                !.deferred = log.checkpointed]
      /\ UNCHANGED <<log, active, reserved, accepting, settled, gone, crashes>>
  BY DEF Recovered
<1>2. /\ queue.retries = log.retries /\ queue.deferred = {} /\ reserved = {} /\ accepting = None
      /\ crashes > 0 /\ \A j \in Jobs : active[j] = "none"
  BY <1>1 DEF Accounted, Phases, JobsLogged
<1>3. \A u \in Tasks : Restored(u) <=> u \in log.accepted /\ MayStart(u)
  <2>1. \A u \in Tasks : Started(u) = {} <=> ~Begun(u)
    BY DEF Started, Begun, LogSound
  <2>2. QED BY <2>1 DEF Restored, MayStart
<1>4. \A u \in Tasks : Requeued(u) = IF queue.pending[u] = 0 /\ Restored(u) THEN 1
                                      ELSE queue.pending[u]
  BY DEF Requeued
<1>5. [t \in Tasks |-> Requeued(t)] \in [Tasks -> Nat]
  BY <1>4 DEF Types, QueueType
<1>6. /\ queue' \in QueueType /\ queue'.deferred = log.checkpointed /\ queue'.retries = log.retries
      /\ queue'.pending = [t \in Tasks |-> Requeued(t)]
  <2> DEFINE p == [t \in Tasks |-> Requeued(t)]
  <2>1. p \in [Tasks -> Nat] /\ queue' = [queue EXCEPT !.pending = p, !.deferred = log.checkpointed]
    BY <1>1, <1>5
  <2> HIDE DEF p
  <2>2. /\ queue' \in QueueType /\ queue'.deferred = log.checkpointed /\ queue'.retries = log.retries
        /\ queue'.pending = p
    BY <1>2, <2>1 DEF Types, QueueType, LogType
  <2>3. QED BY <2>2 DEF p
<1>7. \A u \in Tasks :
        /\ queue'.pending[u] \in Nat /\ queue'.pending[u] <= 1
        /\ queue'.pending[u] > 0 => u \in log.accepted /\ MayStart(u)
        /\ u \in log.accepted /\ MayStart(u) => queue'.pending[u] > 0
  <2> TAKE u \in Tasks
  <2>1. queue.pending[u] \in Nat /\ queue.pending[u] <= 1
    BY DEF OnePlace, Types, QueueType
  <2>2. queue.pending[u] > 0 => u \in log.accepted /\ MayStart(u)
    BY <1>1 DEF OnePlace, Queued, Holds, Accounted
  <2>3. queue'.pending[u] = Requeued(u)
    BY <1>6
  <2>4. QED BY <1>3, <1>4, <2>1, <2>2, <2>3
<1>8. \A u \in Tasks :
        /\ Started(u)' = Started(u) /\ (Begun(u)' <=> Begun(u))
        /\ ~Unfinished(u) /\ ~Unfinished(u)' /\ (MayStart(u)' <=> MayStart(u))
        /\ ~Working(u)' /\ ~Awaiting(u)'
        /\ (Queued(u)' <=> queue'.pending[u] > 0 \/ u \in log.checkpointed)
        /\ (Given(u)' <=> Given(u)) /\ (LostOver(u)' <=> LostOver(u))
  <2>1. \A u \in Tasks : ~Working(u)' /\ ~Awaiting(u)' /\ ~Unfinished(u)
    BY <1>1, <1>2 DEF Working, Awaiting, Unfinished, Open
  <2>2. \A u \in Tasks : Queued(u)' <=> queue'.pending[u] > 0 \/ u \in log.checkpointed
    BY <1>6 DEF Queued, Holds
  <2>3. QED BY <1>1, <2>1, <2>2, JobEventsSame, MayStartSame, LostOverSame
<1>9. \A u \in log.checkpointed : u \in Tasks /\ ~MayStart(u) /\ u \in log.accepted
  BY DEF LogSound, MayStart, Types, LogType
<1>10. Types' /\ LogSound'
  BY <1>1, <1>6, LogSame DEF Types, TypeOK, QueueType
<1>11. OnePlace'
  BY <1>1, <1>2, <1>6, <1>7, <1>8, <1>9 DEF OnePlace
<1>12. JobsLogged' /\ Phases'
  BY <1>1, <1>2 DEF JobsLogged, Phases, OneOpenJob, Open
<1>13. Accounted'
  BY <1>1, <1>6, <1>7, <1>8 DEF Accounted, Bit
<1>14. Remains'
  <2>1. \A u \in log.accepted \ settled : Recoverable(u)' /\ Explained(u)'
    BY <1>1, <1>2, <1>7, <1>8 DEF Remains, Recoverable, Explained, MayStart, Types, LogType
  <2>2. QED BY <1>1, <1>2, <2>1 DEF Remains
<1>15. QED BY <1>10, <1>11, <1>12, <1>13, <1>14

(* The invariant holds at first and is kept by every step.                 *)
LEMMA InitInv == Init => IInv
<1> SUFFICES ASSUME Init PROVE IInv
  OBVIOUS
<1> USE DEF IInv
<1>1. /\ phase = "run" /\ queue = NoQueue /\ active = Idle /\ reserved = {} /\ accepting = None
      /\ settled = {} /\ gone = [t \in Tasks |-> "no"] /\ crashes = 0
      /\ log.accepted = {} /\ log.job = [j \in Jobs |-> {}] /\ log.after = [t \in Tasks |-> {}]
      /\ log.retries = [t \in Tasks |-> [k \in Classes |-> 0]] /\ log.checkpointed = {}
      /\ log \in LogType
  BY NoQueueFacts DEF Init, LogType
<1>2. /\ queue \in QueueType /\ queue.pending = [t \in Tasks |-> 0] /\ queue.deferred = {}
      /\ queue.retries = log.retries
  BY <1>1, NoQueueFacts
<1>3. Types
  BY <1>1, <1>2 DEF Types, TypeOK, LogType, QueueType, Idle
<1>4. \A t \in Tasks : /\ Started(t) = {} /\ Cardinality(Started(t)) = 0 /\ ~Begun(t)
                       /\ ~Working(t) /\ ~Awaiting(t) /\ ~Queued(t)
  <2>1. \A t \in Tasks : Started(t) = {}
    BY <1>1 DEF Started
  <2>2. QED
    BY <1>1, <1>2, <2>1, FS_EmptySet DEF Begun, Working, Awaiting, Queued, Holds, Idle
<1>5. LogSound
  <2>1. \A t \in Tasks, n \in 1..MaxStarts :
          "started" \in log.job[<<t, n>>] <=> n <= Cardinality(Started(t))
    <3> TAKE t \in Tasks, n \in 1..MaxStarts
    <3>1. <<t, n>> \in Jobs
      BY JobFacts
    <3>2. log.job[<<t, n>>] = {}
      BY <1>1, <3>1
    <3>3. ~(n <= 0)
      BY ResearchJobsAssumption
    <3>4. QED BY <1>4, <3>2, <3>3
  <2>2. \A t \in Tasks, k \in Classes : log.retries[t][k] <= Limit[k]
    BY <1>1, ResearchJobsAssumption
  <2>3. QED BY <1>1, <1>4, <2>1, <2>2 DEF LogSound
<1>6. OnePlace /\ JobsLogged /\ Phases
  BY <1>1, <1>2, <1>4 DEF OnePlace, JobsLogged, Phases, Idle, OneOpenJob, Open
<1>7. Accounted
  BY <1>1, <1>2, <1>4 DEF Accounted, MayStart, Bit, Classes
<1>8. Remains
  BY <1>1 DEF Remains, Idle
<1>9. QED BY <1>3, <1>5, <1>6, <1>7, <1>8

LEMMA StepInv == IInv /\ [Next]_vars => IInv'
<1> SUFFICES ASSUME IInv, [Next]_vars PROVE IInv'
  OBVIOUS
<1>1. CASE LoopStep
  <2>1. ASSUME NEW t \in Tasks, Launch(t) PROVE IInv'
    BY <2>1, LaunchStep
  <2>2. ASSUME NEW j \in Jobs, Collect(j) \/ CollectCancelled(j) \/ CutOff(j) PROVE IInv'
    BY <2>2, CollectStep, CollectCancelledStep, CutOffStep
  <2>3. ASSUME NEW j \in Jobs, RecoverJob(j) PROVE IInv'
    BY <2>3, RecoverJobStep
  <2>4. CASE AcceptDone \/ AcceptPaused
    BY <2>4, AcceptDoneStep
  <2>5. CASE AcceptCheckpoint \/ AcceptCutShort
    BY <2>5, AcceptCheckpointStep
  <2>6. CASE AcceptRequeued \/ AcceptFatal \/ AcceptEnding
    BY <2>6, AcceptRequeuedStep, AcceptErrorStep, AcceptEndingStep
  <2>7. CASE BeginDrain \/ Leave \/ CollectionOver \/ Closed \/ Seal
    BY <2>7, PhaseStep
  <2>8. CASE Restart \/ Recovered
    BY <2>8, RestartStep, RecoveredStep
  <2>9. QED BY <1>1, <2>1, <2>2, <2>3, <2>4, <2>5, <2>6, <2>7, <2>8 DEF LoopStep
<1>2. ASSUME NEW t \in Tasks, Admit(t) \/ DropAtDispatch(t) \/ LaunchFails(t) PROVE IInv'
  BY <1>2, AdmitStep, DropAtDispatchStep
<1>3. ASSUME NEW j \in Jobs, JobEnds(j) \/ CancelStale(j) \/ RecoverTorn(j) PROVE IInv'
  BY <1>3, JobEndsStep, CancelStaleStep, RecoverTornStep
<1>4. ASSUME NEW k \in Classes, AcceptRetryable(k) PROVE IInv'
  BY <1>4, AcceptErrorStep
<1>5. CASE AcceptBroken
  BY <1>5, AcceptDoneStep
<1>6. CASE AuditOnly \/ Crash
  BY <1>6, AuditOnlyStep, PlainCrashStep
<1>7. CASE UNCHANGED vars
  <2>1. \A t \in Tasks :
          /\ Started(t)' = Started(t) /\ (Begun(t)' <=> Begun(t))
          /\ (Unfinished(t)' <=> Unfinished(t)) /\ (MayStart(t)' <=> MayStart(t))
          /\ (Working(t)' <=> Working(t)) /\ (Awaiting(t)' <=> Awaiting(t))
          /\ (Queued(t)' <=> Queued(t))
          /\ (Given(t)' <=> Given(t)) /\ (LostOver(t)' <=> LostOver(t))
    BY <1>7, JobEventsSame, ActiveSame, AwaitingSame, MayStartSame, LostOverSame
      DEF Queued, vars
  <2>2. Types' /\ LogSound' /\ OnePlace'
    BY <1>7, <2>1, LogSame DEF IInv, vars, Types, TypeOK, OnePlace, LogType
  <2>3. JobsLogged' /\ Phases'
    BY <1>7 DEF IInv, vars, JobsLogged, Phases, InLoop, Open, OneOpenJob
  <2>4. Accounted' /\ Remains'
    BY <1>7, <2>1
      DEF IInv, vars, Accounted, Bit, Remains, Recoverable, Explained, InLoop, Types, LogType
  <2>5. QED BY <2>2, <2>3, <2>4 DEF IInv
<1>8. QED BY <1>1, <1>2, <1>3, <1>4, <1>5, <1>6, <1>7 DEF Next, Sealed

(* IInv holds in every state of every behaviour of the specification.      *)
THEOREM Invariance == Spec => []IInv
<1>1. QED BY InitInv, StepInv, PTL DEF Spec

(***************************************************************************)
(* What the invariant says of the properties of ResearchJobs.              *)
(***************************************************************************)
LEMMA HolderCount ==
  ASSUME IInv
  PROVE  OneHolder
<1> USE DEF IInv
<1> SUFFICES ASSUME NEW t \in Tasks
             PROVE  queue.pending[t] + Cardinality(Running(t)) + Bit(t \in queue.deferred)
                    + Bit(accepting # None /\ TaskOf(accepting) = t) <= 1
  BY DEF OneHolder
<1>1. queue.pending[t] \in Nat /\ queue.pending[t] <= 1
  BY DEF OnePlace, Types, QueueType
<1>2. CASE Working(t)
  <2>1. PICK j \in Jobs : TaskOf(j) = t /\ active[j] # "none"
    BY <1>2 DEF Working
  <2>2. Running(t) = {j}
    BY <2>1 DEF Running, Registered, OnePlace
  <2>3. Cardinality(Running(t)) = 1
    BY <2>2, FS_Singleton
  <2>4. queue.pending[t] = 0 /\ t \notin queue.deferred /\ ~Awaiting(t)
    BY <1>1, <1>2 DEF OnePlace, Queued, Holds
  <2>5. QED BY <2>3, <2>4 DEF Bit, Awaiting
<1>3. CASE ~Working(t)
  <2>1. Running(t) = {}
    BY <1>3 DEF Running, Registered, Working
  <2>2. Cardinality(Running(t)) = 0
    BY <2>1, FS_EmptySet
  <2>3. /\ queue.pending[t] = 1 => t \notin queue.deferred
        /\ queue.pending[t] > 0 \/ t \in queue.deferred => ~Awaiting(t)
    BY DEF OnePlace, Queued, Holds
  <2>4. QED BY <1>1, <2>2, <2>3 DEF Bit, Awaiting
<1>4. QED BY <1>2, <1>3

LEMMA HeldOrExplained ==
  ASSUME IInv
  PROVE  ForgottenOnlyWhen
<1> USE DEF IInv
<1> SUFFICES ASSUME InLoop, NEW t \in log.accepted \ settled
             PROVE  \/ Held(t)
                    \/ gone[t] \in {"launch", "accept", "stale"}
                    \/ /\ crashes > 0 /\ log.after[t] = {}
                       /\ gone[t] = "requeued" \/ Completed(t)
                          \/ log.retries[t]["transport"] = Limit["transport"]
  BY DEF ForgottenOnlyWhen
<1>1. t \in Tasks /\ Explained(t)
  BY DEF Remains, Types, LogType
<1>2. Queued(t) \/ Working(t) \/ Awaiting(t) => Held(t)
  BY DEF Held, Queued, Working, Awaiting, Running, Registered
<1>3. LostOver(t) => gone[t] = "requeued" \/ Completed(t)
                     \/ log.retries[t]["transport"] = Limit["transport"]
  BY StartedMembers, <1>1 DEF LostOver, Completed, LogSound
<1>4. QED BY <1>1, <1>2, <1>3 DEF Explained, Given

LEMMA StartsBounded ==
  ASSUME IInv
  PROVE  RetriesBounded
<1> USE DEF IInv
<1> SUFFICES ASSUME NEW t \in Tasks \ settled
             PROVE  Cardinality(Started(t)) <= 1 + Limit["transport"] + Limit["protocol"]
  BY DEF RetriesBounded
<1>1. Cardinality(Started(t)) + Bit(MayStart(t))
        <= 1 + log.retries[t]["transport"] + log.retries[t]["protocol"]
  BY DEF Accounted
<1>2. /\ Cardinality(Started(t)) \in Nat /\ Bit(MayStart(t)) \in Nat
      /\ log.retries[t]["transport"] \in Nat /\ log.retries[t]["protocol"] \in Nat
      /\ Limit["transport"] \in Nat /\ Limit["protocol"] \in Nat
  BY StartedFinite, ResearchJobsAssumption DEF Bit, Types, LogType, Classes
<1>3. /\ log.retries[t]["transport"] <= Limit["transport"]
      /\ log.retries[t]["protocol"] <= Limit["protocol"]
  BY DEF LogSound, Classes
<1>4. QED BY <1>1, <1>2, <1>3

LEMMA ClosedJobs ==
  ASSUME IInv
  PROVE  JobsClosed
<1> USE DEF IInv
<1>1. reserved = Registered
  BY DEF JobsLogged, Registered, Types, TypeOK
<1>2. SealedClean
  BY DEF SealedClean, JobsLogged, Phases, InLoop, Open
<1>3. QED BY <1>1, <1>2 DEF JobsClosed, ReservedIsActive, JobsLogged

(* Through retries, cancellations, drains, crashes and recoveries a task is *)
(* in one place at most, no accepted task is forgotten without a decision  *)
(* but in the cases ForgottenOnlyWhen lists, and a task that was not given *)
(* up has at most one start and a retry for each unit of its limits.       *)
THEOREM KeepsTasks == Spec => []TasksKept
<1>1. IInv => TasksKept
  BY HolderCount, HeldOrExplained, StartsBounded DEF IInv, Types, TasksKept
<1>2. QED BY <1>1, Invariance, PTL

(* Reservations are held for exactly the jobs in memory, the log has at most *)
(* one open job of a task, over crashes too, and a sealed epoch has none.  *)
THEOREM ClosesJobs == Spec => []JobsClosed
<1>1. IInv => JobsClosed
  BY ClosedJobs
<1>2. QED BY <1>1, Invariance, PTL

(***************************************************************************)
(* The turns of a research task: the inductive invariant.                  *)
(***************************************************************************)
Signals == {"none", "UNKNOWN_TELEMETRY", "REPEATED_REASONING_TOKENS", "SHORT_REASONING", "HEALTHY"}
Reasons ==
  {"none", "progress", "candidate", "budget", "tool_error", "candidate_repair_failed", "blocked",
   "turn_limit", "campaign_terminal"}
Outcomes ==
  [status : {"none", "completed", "ERROR", "CANCELLED"}, kind : {"none", "fatal", "quota", "lost"} \cup Retryable,
   retryable : BOOLEAN, result : Results \cup {"none"}, reason : Reasons]
TurnTypes ==
  /\ TurnsTypeOK /\ reported \in BOOLEAN /\ outcome \in Outcomes
  /\ partial \in [result : Results \cup {"none"}, telemetry : {"observed", "unknown"}, usage : Nat]
  /\ health \in [recent : Seq(Nat), actions : Nat, signal : Signals, action : {"none", "ESCALATE", "RETRY"}]
  /\ task \in [disposition : {"none", "ACCEPTED", "REJECTED"}, accepted : BOOLEAN, progress : BOOLEAN]
  /\ granted \in [blocker : Nat, candidate : Nat, same : Nat]

(* What a job was granted is what it used its repairs for. *)
RepairsPaid ==
  /\ {granted.blocker, granted.candidate} \subseteq 0..1
  /\ granted.candidate = 1 <=> "candidate" \in repairs
  /\ granted.blocker = 1 => "blocker" \in repairs
  /\ "blocker" \in repairs => "candidate" \in repairs \/ granted.blocker = 1
  /\ turn <= MaxTurns + granted.blocker + granted.candidate

(* What holds where a job is. *)
TurnStages ==
  /\ stage \in {"queued", "thread"} => turn = 0 /\ slow = 0
  /\ stage = "turn" => slow < turn
  /\ stage = "control" => slow <= turn /\ partial.result # "none" /\ adapter = "app_server"
  /\ stage = "control" /\ partial.telemetry = "observed" => partial.usage = usage
  /\ stage = "turn" /\ turn > 1 => partial.result # "none"
  /\ adapter = "openai" => turn <= 1
  /\ stage # "over" => outcome = NoOutcome

TurnsInv ==
  /\ TurnTypes /\ RepairsPaid /\ TurnStages
  /\ BudgetHolds /\ BlockedRepaired /\ StaleIsLastRepair /\ BindingFollows /\ ResultKept

(***************************************************************************)
(* The rules of the policy.                                                *)
(***************************************************************************)
(* FirstRule returns the result of the first rule that applies.            *)
LEMMA FirstRuleIs ==
  ASSUME NEW rules, NEW n \in Nat \ {0}, DOMAIN rules \subseteq Nat \ {0}, n \in DOMAIN rules, rules[n][1],
         \A k \in 1..n - 1 : k \in DOMAIN rules /\ ~rules[k][1]
  PROVE  FirstRule(rules) = rules[n][2]
<1> DEFINE First(m) == rules[m][1] /\ \A k \in 1..m - 1 : ~rules[k][1]
<1>1. First(n)
  OBVIOUS
<1>2. PICK c : c = CHOOSE m \in DOMAIN rules : First(m)
  OBVIOUS
<1>3. c \in DOMAIN rules /\ First(c)
  BY <1>1, <1>2
<1>4. c = n
  BY <1>1, <1>3
<1> QED
  BY <1>2, <1>4 DEF FirstRule

(* What a decision of the policy was made on: a repair is granted when it   *)
(* was not used up, and any other turn within the limit.                    *)
Grants(d) ==
  \/ /\ d = Go("candidate_repair") /\ "candidate" \notin repairs
  \/ /\ d = Go("blocker_repair") /\ partial.result = "BLOCKED" /\ {"candidate", "blocker"} \cap repairs = {}
  \/ /\ d \in {Go("health"), Go("untrusted")} /\ partial.result # "BLOCKED" /\ ~(turn >= MaxTurns)
  \/ /\ d = Stop("blocked") /\ "blocker" \in repairs /\ "candidate" \notin repairs
  \/ \E r \in Reasons \ {"none", "blocked"} : d = Stop(r)

LEMMA DecideGrants ==
  ASSUME NEW t
  PROVE  Grants(Decide(t))
<1> DEFINE rules == <<
  <<t.progress, Stop("progress")>>,
  <<t.accepted, Stop("candidate")>>,
  <<BudgetStop, Stop("budget")>>,
  <<partial.result = "TOOL_ERROR", Stop("tool_error")>>,
  <<"candidate" \in repairs, Stop("candidate_repair_failed")>>,
  <<Rejected(t), Go("candidate_repair")>>,
  <<partial.result = "BLOCKED" /\ "blocker" \in repairs, Stop("blocked")>>,
  <<partial.result = "BLOCKED", Go("blocker_repair")>>,
  <<turn >= MaxTurns, Stop("turn_limit")>>,
  <<Observed.action # "none", Go("health")>>,
  <<TRUE, Go("untrusted")>> >>
<1>1. Decide(t) = FirstRule(rules)
  BY DEF Decide
<1>2. DOMAIN rules = 1..11
  OBVIOUS
<1>3. rules[1][1] <=> (t.progress)
  OBVIOUS
<1>4. rules[1][2] = Stop("progress")
  OBVIOUS
<1>5. rules[2][1] <=> (t.accepted)
  OBVIOUS
<1>6. rules[2][2] = Stop("candidate")
  OBVIOUS
<1>7. rules[3][1] <=> (BudgetStop)
  OBVIOUS
<1>8. rules[3][2] = Stop("budget")
  OBVIOUS
<1>9. rules[4][1] <=> (partial.result = "TOOL_ERROR")
  OBVIOUS
<1>10. rules[4][2] = Stop("tool_error")
  OBVIOUS
<1>11. rules[5][1] <=> ("candidate" \in repairs)
  OBVIOUS
<1>12. rules[5][2] = Stop("candidate_repair_failed")
  OBVIOUS
<1>13. rules[6][1] <=> (Rejected(t))
  OBVIOUS
<1>14. rules[6][2] = Go("candidate_repair")
  OBVIOUS
<1>15. rules[7][1] <=> (partial.result = "BLOCKED" /\ "blocker" \in repairs)
  OBVIOUS
<1>16. rules[7][2] = Stop("blocked")
  OBVIOUS
<1>17. rules[8][1] <=> (partial.result = "BLOCKED")
  OBVIOUS
<1>18. rules[8][2] = Go("blocker_repair")
  OBVIOUS
<1>19. rules[9][1] <=> (turn >= MaxTurns)
  OBVIOUS
<1>20. rules[9][2] = Stop("turn_limit")
  OBVIOUS
<1>21. rules[10][1] <=> (Observed.action # "none")
  OBVIOUS
<1>22. rules[10][2] = Go("health")
  OBVIOUS
<1>23. rules[11][1] <=> (TRUE)
  OBVIOUS
<1>24. rules[11][2] = Go("untrusted")
  OBVIOUS
<1> HIDE DEF rules
<1>25. ASSUME NEW n \in 1..11, rules[n][1], \A k \in 1..n - 1 : ~rules[k][1]
       PROVE  Decide(t) = rules[n][2]
  BY <1>1, <1>2, <1>25, FirstRuleIs
<1>26. PICK n \in 1..11 : rules[n][1] /\ \A k \in 1..n - 1 : ~rules[k][1]
  BY <1>23
<1>27. Decide(t) = rules[n][2]
  BY <1>25, <1>26
<1>a. n > 5 => "candidate" \notin repairs
  BY <1>26, <1>11
<1>b. n > 7 => ~(partial.result = "BLOCKED" /\ "blocker" \in repairs)
  BY <1>26, <1>15
<1>c. n > 8 => partial.result # "BLOCKED"
  BY <1>26, <1>17
<1>d. n > 9 => ~(turn >= MaxTurns)
  BY <1>26, <1>19
<1>28. CASE n = 1
  BY <1>28, <1>26, <1>27, <1>3, <1>4, <1>a, <1>b, <1>c, <1>d DEF Grants, Reasons
<1>29. CASE n = 2
  BY <1>29, <1>26, <1>27, <1>5, <1>6, <1>a, <1>b, <1>c, <1>d DEF Grants, Reasons
<1>30. CASE n = 3
  BY <1>30, <1>26, <1>27, <1>7, <1>8, <1>a, <1>b, <1>c, <1>d DEF Grants, Reasons
<1>31. CASE n = 4
  BY <1>31, <1>26, <1>27, <1>9, <1>10, <1>a, <1>b, <1>c, <1>d DEF Grants, Reasons
<1>32. CASE n = 5
  BY <1>32, <1>26, <1>27, <1>11, <1>12, <1>a, <1>b, <1>c, <1>d DEF Grants, Reasons
<1>33. CASE n = 6
  <2>1. Decide(t) = Go("candidate_repair")
    BY <1>33, <1>27, <1>14
  <2>2. "candidate" \notin repairs
    BY <1>33, <1>a
  <2> QED
    BY <2>1, <2>2, Zenon DEF Grants
<1>34. CASE n = 7
  <2>1. Decide(t) = Stop("blocked")
    BY <1>34, <1>27, <1>16
  <2>2. "candidate" \notin repairs
    BY <1>34, <1>a
  <2>3. "blocker" \in repairs
    BY <1>34, <1>26, <1>15
  <2> QED
    BY <2>1, <2>2, <2>3, Zenon DEF Grants
<1>35. CASE n = 8
  <2>1. Decide(t) = Go("blocker_repair")
    BY <1>35, <1>27, <1>18
  <2>2. {"candidate", "blocker"} \cap repairs = {}
    BY <1>35, <1>a, <1>b, <1>17, <1>26
  <2>3. partial.result = "BLOCKED"
    BY <1>35, <1>17, <1>26
  <2> QED
    BY <2>1, <2>2, <2>3, Zenon DEF Grants
<1>36. CASE n = 9
  BY <1>36, <1>26, <1>27, <1>19, <1>20, <1>a, <1>b, <1>c, <1>d DEF Grants, Reasons
<1>37. CASE n = 10
  <2>1. Decide(t) = Go("health")
    BY <1>37, <1>27, <1>22
  <2>2. partial.result # "BLOCKED"
    BY <1>37, <1>c
  <2>3. ~(turn >= MaxTurns)
    BY <1>37, <1>d
  <2> QED
    BY <2>1, <2>2, <2>3, Zenon DEF Grants
<1>38. CASE n = 11
  <2>1. Decide(t) = Go("untrusted")
    BY <1>38, <1>27, <1>24
  <2>2. partial.result # "BLOCKED"
    BY <1>38, <1>c
  <2>3. ~(turn >= MaxTurns)
    BY <1>38, <1>d
  <2> QED
    BY <2>1, <2>2, <2>3, Zenon DEF Grants
<1> QED
  BY <1>28, <1>29, <1>30, <1>31, <1>32, <1>33, <1>34, <1>35, <1>36, <1>37, <1>38

LEMMA DirectiveGrants ==
  ASSUME NEW t
  PROVE  Grants(Directive(t)) /\ (Directive(t).continue => ~BudgetStop)
<1>1. PICK d : d = Decide(t)
  OBVIOUS
<1>2. Grants(d)
  BY <1>1, DecideGrants
<1>3. Grants(Stop("campaign_terminal")) /\ Grants(Stop("budget"))
  BY DEF Grants, Reasons
<1>4. Directive(t) = IF EndsCampaign THEN Stop("campaign_terminal")
                     ELSE IF d.continue /\ BudgetStop THEN Stop("budget") ELSE d
  BY <1>1 DEF Directive
<1>5. ~Stop("campaign_terminal").continue /\ ~Stop("budget").continue
  BY DEF Stop
<1> QED
  BY <1>2, <1>3, <1>4, <1>5

(* ReasoningHealthMonitor remembers as many counts as it compares.         *)
LEMMA ObservedType ==
  ASSUME TurnTypes
  PROVE  /\ Observed \in [recent : Seq(Nat), actions : Nat, signal : Signals,
                          action : {"none", "ESCALATE", "RETRY"}]
         /\ Len(Observed.recent) <= Tolerance /\ Observed.actions <= RetryLimit
<1> DEFINE all == Append(health.recent, partial.usage)
           from == IF Len(all) > Tolerance THEN Len(all) - Tolerance + 1 ELSE 1
<1>1. health.recent \in Seq(Nat) /\ partial.usage \in Nat /\ Tolerance \in Nat /\ Tolerance >= 2
  BY ResearchTurnsAssumption DEF TurnTypes
<1>2. all \in Seq(Nat) /\ Len(all) = Len(health.recent) + 1
  BY <1>1
<1>3. Len(health.recent) <= Tolerance /\ Len(health.recent) \in Nat
  BY <1>1 DEF TurnTypes, TurnsTypeOK
<1>4. from \in 1..Len(all) + 1 /\ Len(all) - from + 1 <= Tolerance
  BY <1>1, <1>2, <1>3
<1>5. Recent = SubSeq(all, from, Len(all))
  BY DEF Recent
<1> HIDE DEF from, all
<1>6. Recent \in Seq(Nat) /\ Len(Recent) = (IF from <= Len(all) THEN Len(all) - from + 1 ELSE 0)
  <2>1. Len(all) \in Nat /\ from \in Int /\ \A i \in from..Len(all) : all[i] \in Nat
    BY <1>2, <1>4
  <2>2. SubSeq(all, from, Len(all)) \in Seq(Nat)
    BY <1>2, <1>4, <2>1, SubSeqProperties
  <2>3. Len(SubSeq(all, from, Len(all))) = IF from <= Len(all) THEN Len(all) - from + 1 ELSE 0
    BY <1>2, <1>4, <2>1, SubSeqProperties
  <2> QED
    BY <1>5, <2>2, <2>3
<1>7. Len(Recent) <= Tolerance
  BY <1>1, <1>4, <1>6
<1>8. Diagnosis \in Signals
  BY DEF Diagnosis, Signals
<1>9. HealthAction \in {"none", "ESCALATE", "RETRY"}
  BY DEF HealthAction
<1>10. health.actions \in Nat /\ health.actions <= RetryLimit /\ RetryLimit \in Nat
  BY ResearchTurnsAssumption DEF TurnTypes, TurnsTypeOK
<1> QED
  BY <1>1, <1>3, <1>6, <1>7, <1>8, <1>9, <1>10 DEF Observed

(***************************************************************************)
(* The invariant is inductive.                                             *)
(***************************************************************************)
LEMMA TurnsInvInit == TurnsInit => TurnsInv
<1> SUFFICES ASSUME TurnsInit PROVE TurnsInv
  OBVIOUS
<1>1. /\ MaxTurns \in Nat /\ MaxJobs \in Nat \ {0} /\ RetryLimit \in Nat
      /\ Tolerance \in Nat /\ Tolerance >= 2
  BY ResearchTurnsAssumption
<1>2. <<>> \in Seq(Nat) /\ Len(<<>>) = 0
  OBVIOUS
<1>3. TurnTypes
  <2>1. TurnsTypeOK
    BY <1>1, <1>2 DEF TurnsInit, TurnsTypeOK, NoPartial, NoOutcome, FreshHealth
  <2>2. outcome \in Outcomes
    BY DEF TurnsInit, NoOutcome, Outcomes, Reasons
  <2>3. health \in [recent : Seq(Nat), actions : Nat, signal : Signals, action : {"none", "ESCALATE", "RETRY"}]
    BY <1>2 DEF TurnsInit, FreshHealth, Signals
  <2> QED
    BY <2>1, <2>2, <2>3 DEF TurnsInit, TurnTypes, NoPartial
<1> QED
  BY <1>1, <1>3 DEF TurnsInit, TurnsInv, RepairsPaid, TurnStages, BudgetHolds, BlockedRepaired,
     StaleIsLastRepair, BindingFollows, ResultKept, NoOutcome, NoPartial

(* The failures are of a kind the outcomes know. *)
LEMMA FailedType ==
  ASSUME NEW names, NEW kind \in Errors(names), names \subseteq DOMAIN Kinds, NEW r \in Results \cup {"none"}
  PROVE  Failed(kind, r) \in Outcomes /\ Failed(kind, r).status = "ERROR"
         /\ Failed(kind, r).result = r /\ Failed(kind, r).reason = "none"
  BY DEF Failed, Outcomes, Errors, Kinds, Retryable, Reasons

LEMMA ThreadFailsInv ==
  ASSUME TurnsInv, NEW e \in ThreadErrors, ThreadFails(e)
  PROVE  TurnsInv'
<1>1. Failed(e, "none") \in Outcomes /\ Failed(e, "none").status = "ERROR" /\ Failed(e, "none").reason = "none"
  BY FailedType DEF ThreadErrors
<1> QED
  BY <1>1 DEF ThreadFails, Over, TurnsInv, TurnTypes, TurnsTypeOK, Outcomes, RepairsPaid, TurnStages, BudgetHolds, BlockedRepaired, StaleIsLastRepair, BindingFollows, ResultKept

LEMMA Counts ==
  ASSUME TurnsInv
  PROVE  /\ turn \in Nat /\ usage \in Nat /\ binding \in Nat /\ bound \in Nat /\ slow \in Nat
         /\ granted.blocker \in 0..1 /\ granted.candidate \in 0..1 /\ MaxTurns \in Nat \ {0}
<1>1. turn \in Nat /\ usage \in Nat /\ binding \in Nat /\ bound \in Nat /\ slow \in Nat /\ MaxTurns \in Nat \ {0}
  BY ResearchTurnsAssumption DEF TurnsInv, TurnTypes, TurnsTypeOK
<1>2. granted.blocker \in Nat /\ granted.candidate \in Nat
  BY DEF TurnsInv, TurnTypes
<1>3. granted.blocker <= 1 /\ granted.candidate <= 1
  BY <1>2 DEF TurnsInv, RepairsPaid
<1> QED
  BY <1>1, <1>2, <1>3

LEMMA StartThreadInv ==
  ASSUME TurnsInv, StartThread
  PROVE  TurnsInv'
  BY DEF StartThread, TurnsInv, TurnTypes, TurnsTypeOK, Outcomes, RepairsPaid, TurnStages, BudgetHolds, BlockedRepaired,
     StaleIsLastRepair, BindingFollows, ResultKept

LEMMA FirstTurnInv ==
  ASSUME TurnsInv, FirstTurn
  PROVE  TurnsInv'
<1>1. MaxTurns >= 1 /\ MaxTurns \in Nat
  BY ResearchTurnsAssumption
<1> QED
  BY <1>1, SMTT(30) DEF FirstTurn, TurnsInv, TurnTypes, TurnsTypeOK, Outcomes, RepairsPaid, TurnStages, BudgetHolds, BlockedRepaired,
     StaleIsLastRepair, BindingFollows, ResultKept

LEMMA TurnCompletesInv ==
  ASSUME TurnsInv, NEW r \in Results, NEW n \in Spends, NEW o \in BOOLEAN, NEW l \in BOOLEAN,
         adapter = "app_server", TurnCompletes(r, n, o, l)
  PROVE  TurnsInv'
<1>1. n \in Nat
  BY ResearchTurnsAssumption
<1>2. PICK u \in Nat : u = usage + n
  BY <1>1, Counts
<1>3. PICK s \in Nat : s = slow' /\ s <= turn /\ s >= 0
  BY Counts DEF TurnCompletes, TurnsInv, TurnStages
<1>4. PICK p : p = partial'
  OBVIOUS
<1>5. /\ p \in [result : Results \cup {"none"}, telemetry : {"observed", "unknown"}, usage : Nat]
      /\ p.result # "none" /\ (p.telemetry = "observed" => p.usage = u)
  BY <1>2, <1>4 DEF TurnCompletes, Results
<1>6. TurnTypes'
  BY <1>2, <1>3, <1>4, <1>5, Counts DEF TurnCompletes, TurnsInv, TurnTypes, TurnsTypeOK
<1>7. usage' = u /\ slow' = s /\ partial' = p
  BY <1>2, <1>3, <1>4 DEF TurnCompletes
<1> QED
  BY <1>3, <1>5, <1>6, <1>7 DEF TurnCompletes, TurnsInv, RepairsPaid, TurnStages, BudgetHolds, BlockedRepaired,
     StaleIsLastRepair, BindingFollows, ResultKept

LEMMA TurnFailsInv ==
  ASSUME TurnsInv, NEW e \in TurnErrors, adapter = "app_server", TurnFails(e)
  PROVE  TurnsInv'
<1>1. partial.result \in Results \cup {"none"}
  BY DEF TurnsInv, TurnTypes
<1>2. LET f == Failed(e, partial.result)
      IN  f \in Outcomes /\ f.status = "ERROR" /\ f.reason = "none" /\ f.result = partial.result
  BY <1>1, FailedType DEF TurnErrors
<1> QED
  BY <1>2 DEF TurnFails, Over, TurnsInv, TurnTypes, TurnsTypeOK, Outcomes, RepairsPaid, TurnStages, BudgetHolds, BlockedRepaired,
     StaleIsLastRepair, BindingFollows, ResultKept

LEMMA HttpStartInv ==
  ASSUME TurnsInv, HttpStart
  PROVE  TurnsInv'
<1>1. MaxTurns >= 1 /\ MaxTurns \in Nat
  BY ResearchTurnsAssumption
<1> QED
  BY <1>1, SMTT(30) DEF HttpStart, TurnsInv, TurnTypes, TurnsTypeOK, Outcomes, RepairsPaid, TurnStages, BudgetHolds, BlockedRepaired,
     StaleIsLastRepair, BindingFollows, ResultKept

LEMMA HttpEndsInv ==
  ASSUME TurnsInv, HttpEnds
  PROVE  TurnsInv'
<1>1. PICK a \in Outcomes : HttpAnswer(a) /\ a.status \in {"completed", "ERROR"} /\ a.reason = "none"
  <2>1. ASSUME NEW r \in Results
        PROVE  LET f == Finished(r, "none") IN f \in Outcomes /\ f.status = "completed" /\ f.reason = "none"
    BY DEF Finished, Outcomes, Reasons
  <2>2. ASSUME NEW e \in HttpErrors
        PROVE  LET f == Failed(e, "none") IN f \in Outcomes /\ f.status = "ERROR" /\ f.reason = "none"
    BY FailedType DEF HttpErrors
  <2> QED
    BY <2>1, <2>2 DEF HttpEnds
<1> QED
  BY <1>1 DEF HttpEnds, HttpAnswer, Over, TurnsInv, TurnTypes, TurnsTypeOK, Outcomes, RepairsPaid, TurnStages, BudgetHolds, BlockedRepaired,
     StaleIsLastRepair, BindingFollows, ResultKept

LEMMA PolledType ==
  ASSUME TurnsInv, NEW t \in Polled
  PROVE  t \in [disposition : {"none", "ACCEPTED", "REJECTED"}, accepted : BOOLEAN, progress : BOOLEAN]
<1>1. task \in [disposition : {"none", "ACCEPTED", "REJECTED"}, accepted : BOOLEAN, progress : BOOLEAN]
  BY DEF TurnsInv, TurnTypes
<1>2. ASSUME NEW d \in {"ACCEPTED", "REJECTED"}, t = [task EXCEPT !.disposition = d, !.accepted = @ \/ d = "ACCEPTED"]
      PROVE  t \in [disposition : {"none", "ACCEPTED", "REJECTED"}, accepted : BOOLEAN, progress : BOOLEAN]
  <2>1. PICK a \in BOOLEAN : a = (task.accepted \/ d = "ACCEPTED")
    BY Zenon
  <2>2. t = [task EXCEPT !.disposition = d, !.accepted = a]
    BY <1>2, <2>1, Zenon
  <2> QED
    BY <1>1, <2>2
<1> QED
  BY <1>1, <1>2 DEF Polled

LEMMA CandidateSeenInv ==
  ASSUME TurnsInv, NEW t \in Polled, CandidateSeen(t)
  PROVE  TurnsInv'
<1>1. t \in [disposition : {"none", "ACCEPTED", "REJECTED"}, accepted : BOOLEAN, progress : BOOLEAN]
  BY PolledType
<1>2. PICK g : g = [granted EXCEPT !.same = 0]
  OBVIOUS
<1>3. /\ g \in [blocker : Nat, candidate : Nat, same : Nat]
      /\ g.blocker = granted.blocker /\ g.candidate = granted.candidate
  BY <1>2 DEF TurnsInv, TurnTypes
<1>4. granted' = g
  BY <1>2 DEF CandidateSeen
<1>5. TurnTypes'
  <2>1. UNCHANGED <<adapter, stage, turn, usage, partial, effort, health, repairs, binding, bound,
                    reported, slow, outcome, jobs>> /\ task' = t
    BY Zenon DEF CandidateSeen
  <2>2. TurnsTypeOK'
    BY <2>1 DEF TurnsInv, TurnTypes, TurnsTypeOK
  <2>3. reported \in BOOLEAN /\ outcome \in Outcomes
        /\ partial \in [result : Results \cup {"none"}, telemetry : {"observed", "unknown"}, usage : Nat]
        /\ health \in [recent : Seq(Nat), actions : Nat, signal : Signals, action : {"none", "ESCALATE", "RETRY"}]
    BY Zenon DEF TurnsInv, TurnTypes
  <2> QED
    BY <1>1, <1>3, <1>4, <2>1, <2>2, <2>3, Zenon DEF TurnTypes
<1>6. RepairsPaid'
  BY <1>3, <1>4 DEF CandidateSeen, TurnsInv, RepairsPaid
<1> QED
  BY <1>3, <1>4, <1>5, <1>6 DEF CandidateSeen, TurnsInv, TurnStages, BudgetHolds, BlockedRepaired,
     StaleIsLastRepair, BindingFollows, ResultKept

LEMMA ProgressInv ==
  ASSUME TurnsInv, Progress
  PROVE  TurnsInv'
<1>1. task' \in [disposition : {"none", "ACCEPTED", "REJECTED"}, accepted : BOOLEAN, progress : BOOLEAN]
  BY DEF Progress, TurnsInv, TurnTypes
<1> QED
  BY <1>1 DEF Progress, TurnsInv, TurnTypes, TurnsTypeOK, Outcomes, RepairsPaid, TurnStages, BudgetHolds, BlockedRepaired,
     StaleIsLastRepair, BindingFollows, ResultKept

LEMMA RecordBindingInv ==
  ASSUME TurnsInv, RecordBinding
  PROVE  TurnsInv'
  BY DEF RecordBinding, TurnsInv, TurnTypes, TurnsTypeOK, Outcomes, RepairsPaid, TurnStages, BudgetHolds, BlockedRepaired,
     StaleIsLastRepair, BindingFollows, ResultKept

LEMMA LimitReachedInv ==
  ASSUME TurnsInv, NEW n \in Spends, LimitReached(n)
  PROVE  TurnsInv'
<1>1. partial.result \in Results \cup {"none"}
  BY DEF TurnsInv, TurnTypes
<1>2. LET f == Failed("fatal", partial.result)
      IN  f \in Outcomes /\ f.status = "ERROR" /\ f.reason = "none" /\ f.result = partial.result
  BY <1>1 DEF Failed, Outcomes, Reasons, Retryable
<1>3. CASE stage = "turn"
  BY <1>2, <1>3 DEF LimitReached, Over, TurnsInv, TurnTypes, TurnsTypeOK, Outcomes, RepairsPaid, TurnStages, BudgetHolds, BlockedRepaired,
     StaleIsLastRepair, BindingFollows, ResultKept
<1>4. CASE stage # "turn"
  BY <1>4 DEF LimitReached, Over, TurnsInv, TurnTypes, TurnsTypeOK, Outcomes, RepairsPaid, TurnStages, BudgetHolds, BlockedRepaired,
     StaleIsLastRepair, BindingFollows, ResultKept
<1> QED
  BY <1>3, <1>4

LEMMA CancelTimedOutInv ==
  ASSUME TurnsInv, CancelTimedOut
  PROVE  TurnsInv'
<1>1. MaxTurns \in Nat
  BY ResearchTurnsAssumption
<1>2. PICK a : a = [NoOutcome EXCEPT !.status = "CANCELLED", !.result = partial.result]
  OBVIOUS
<1>3. a \in Outcomes /\ a.status = "CANCELLED" /\ a.reason = "none"
  BY <1>2 DEF NoOutcome, Outcomes, Reasons, TurnsInv, TurnTypes
<1>4. turn = MaxTurns + 2
  <2>1. turn <= MaxTurns + granted.blocker + granted.candidate
    BY DEF TurnsInv, RepairsPaid
  <2>2. slow < turn /\ slow >= MaxTurns + 1
    BY DEF CancelTimedOut, LogicalTimeout, TurnsInv, TurnStages
  <2> QED
    BY <2>1, <2>2, Counts
<1> QED
  BY <1>2, <1>3, <1>4 DEF CancelTimedOut, Over, TurnsInv, TurnTypes, TurnsTypeOK, Outcomes, RepairsPaid, TurnStages, BudgetHolds, BlockedRepaired,
     StaleIsLastRepair, BindingFollows, ResultKept

LEMMA RetryInv ==
  ASSUME TurnsInv, Retry
  PROVE  TurnsInv'
<1>1. /\ MaxTurns \in Nat /\ MaxJobs \in Nat \ {0} /\ RetryLimit \in Nat
      /\ Tolerance \in Nat /\ Tolerance >= 2
  BY ResearchTurnsAssumption
<1>2. <<>> \in Seq(Nat) /\ Len(<<>>) = 0
  OBVIOUS
<1>3. TurnTypes'
  <2>1. TurnsTypeOK'
    <3>1. jobs' \in 1..MaxJobs /\ adapter \in {"app_server", "openai"}
      <4>1. jobs \in 1..MaxJobs /\ adapter \in {"app_server", "openai"}
        BY DEF TurnsInv, TurnTypes, TurnsTypeOK
      <4>2. jobs' = jobs + 1 /\ jobs < MaxJobs
        BY DEF Retry
      <4> QED
        BY <1>1, <4>1, <4>2
    <3>2. jobs' \in 1..MaxJobs /\ adapter' \in {"app_server", "openai"} /\ effort' = "xhigh" /\ stage' = "queued"
      BY <3>1 DEF Retry, FreshJob
    <3>3. turn' = 0 /\ usage' = 0 /\ binding' = 0 /\ bound' = 0 /\ slow' = 0 /\ repairs' = {}
      BY DEF Retry, FreshJob
    <3>4. Len(health'.recent) <= Tolerance /\ health'.actions <= RetryLimit
      BY <1>1, <1>2 DEF Retry, FreshJob, FreshHealth
    <3> QED
      BY <3>2, <3>3, <3>4 DEF Retry, FreshJob, TurnsTypeOK, NoPartial, NoOutcome
  <2>2. outcome' \in Outcomes
    BY DEF Retry, FreshJob, NoOutcome, Outcomes, Reasons
  <2>3. health' \in [recent : Seq(Nat), actions : Nat, signal : Signals, action : {"none", "ESCALATE", "RETRY"}]
    BY <1>2 DEF Retry, FreshJob, FreshHealth, Signals
  <2>4. task' \in [disposition : {"none", "ACCEPTED", "REJECTED"}, accepted : BOOLEAN, progress : BOOLEAN]
    BY DEF Retry, TurnsInv, TurnTypes
  <2>5. granted' \in [blocker : Nat, candidate : Nat, same : Nat]
    BY DEF Retry, FreshJob, TurnsInv, TurnTypes
  <2> QED
    BY <2>1, <2>2, <2>3, <2>4, <2>5 DEF Retry, FreshJob, TurnTypes, NoPartial
<1>4. granted'.blocker = 0 /\ granted'.candidate = 0
  BY DEF Retry, FreshJob, TurnsInv, TurnTypes
<1> QED
  BY <1>1, <1>3, <1>4 DEF Retry, FreshJob, TurnsInv, RepairsPaid, TurnStages, BudgetHolds, BlockedRepaired,
     StaleIsLastRepair, BindingFollows, ResultKept, NoOutcome, NoPartial

(* What a decision does to the repairs, by what it was made on.            *)
Paid(d, used, paid) ==
  /\ used \subseteq {"blocker", "candidate"}
  /\ paid \in [blocker : Nat, candidate : Nat, same : Nat]
  /\ {paid.blocker, paid.candidate} \subseteq 0..1
  /\ paid.candidate = 1 <=> "candidate" \in used
  /\ paid.blocker = 1 => "blocker" \in used
  /\ "blocker" \in used => "candidate" \in used \/ paid.blocker = 1
  /\ turn <= MaxTurns + paid.blocker + paid.candidate
  /\ d.continue => turn + 1 <= MaxTurns + paid.blocker + paid.candidate
  /\ d.continue \in BOOLEAN
  /\ d.reason = "blocked" => paid.blocker = 1
  /\ ~d.continue => d.reason \in Reasons

LEMMA GrantsPaid ==
  ASSUME TurnsInv, NEW d, Grants(d), NEW t
  PROVE  Paid(d, Repairs(d), Granted(d, t))
<1>1. PICK b \in 0..1, c \in 0..1 : b = granted.blocker /\ c = granted.candidate
  BY Counts
<1>2. granted.same \in Nat /\ MaxTurns \in Nat /\ turn \in Nat
  BY Counts DEF TurnsInv, TurnTypes
<1>3. /\ c = 1 <=> "candidate" \in repairs
      /\ b = 1 => "blocker" \in repairs
      /\ "blocker" \in repairs /\ "candidate" \notin repairs => b = 1
      /\ turn <= MaxTurns + b + c
      /\ repairs \subseteq {"blocker", "candidate"}
  BY <1>1 DEF TurnsInv, TurnTypes, TurnsTypeOK, RepairsPaid
<1>4. PICK g : g = Granted(d, t)
  OBVIOUS
<1>a. PICK x \in {0, 1}, y \in {0, 1} :
         /\ x = IF d.reason = "blocker_repair" THEN 1 ELSE 0
         /\ y = IF d.reason = "candidate_repair" THEN 1 ELSE 0
  BY Zenon
<1>5. /\ g.blocker = b + x /\ g.candidate = c + y
      /\ g \in [blocker : Nat, candidate : Nat, same : Nat]
  <2>1. b + x \in Nat /\ c + y \in Nat /\ granted.same + y \in Nat /\ y \in Nat
    BY <1>1, <1>2, <1>a
  <2>2. g = [blocker |-> b + x, candidate |-> c + y, same |-> IF t # task THEN y ELSE granted.same + y]
    BY <1>1, <1>4, <1>a, Zenon DEF Granted
  <2> QED
    BY <2>1, <2>2
<1>b. /\ d.reason = "blocker_repair" => x = 1
      /\ d.reason = "candidate_repair" => y = 1
      /\ d.reason # "blocker_repair" => x = 0
      /\ d.reason # "candidate_repair" => y = 0
  BY <1>a
<1>6. PICK used : used = Repairs(d)
  OBVIOUS
<1>7. /\ used \subseteq {"blocker", "candidate"}
      /\ "candidate" \in used <=> ("candidate" \in repairs \/ (d.reason = "candidate_repair" /\ d.continue))
      /\ "blocker" \in used <=> ("blocker" \in repairs \/ (d.continue /\ partial.result = "BLOCKED"))
  BY <1>3, <1>6 DEF Repairs
<1>8. CASE d = Go("candidate_repair") /\ "candidate" \notin repairs
  <2>1. d.continue = TRUE /\ d.reason = "candidate_repair"
    BY <1>8 DEF Go
  <2>2. g.blocker = b /\ g.candidate = 1 /\ "candidate" \in used /\ c = 0
    BY <1>1, <1>3, <1>5, <1>b, <1>7, <1>8, <2>1
  <2>a. turn + 1 <= MaxTurns + g.blocker + g.candidate /\ turn <= MaxTurns + g.blocker + g.candidate
    BY <1>1, <1>2, <1>3, <2>2
  <2>b. {g.blocker, g.candidate} \subseteq 0..1 /\ g.candidate \in {0, 1} /\ 0 # 1
    BY <1>1, <2>2
  <2>c. /\ g.candidate = 1 <=> "candidate" \in used
        /\ g.blocker = 1 => "blocker" \in used
        /\ "blocker" \in used => "candidate" \in used \/ g.blocker = 1
    BY <1>3, <1>7, <2>1, <2>2
  <2>d. d.reason # "blocked"
    BY <2>1
  <2>3. Paid(d, used, g)
    BY <1>5, <1>7, <2>1, <2>a, <2>b, <2>c, <2>d, Zenon DEF Paid
  <2> QED
    BY <1>4, <1>6, <2>3
<1>9. CASE d = Go("blocker_repair") /\ partial.result = "BLOCKED" /\ {"candidate", "blocker"} \cap repairs = {}
  <2>1. d.continue = TRUE /\ d.reason = "blocker_repair"
    BY <1>9 DEF Go
  <2>2. g.blocker = 1 /\ g.candidate = 0 /\ "candidate" \notin used /\ "blocker" \in used /\ b = 0 /\ c = 0
    BY <1>1, <1>3, <1>5, <1>b, <1>7, <1>9, <2>1
  <2>a. turn + 1 <= MaxTurns + g.blocker + g.candidate /\ turn <= MaxTurns + g.blocker + g.candidate
    BY <1>1, <1>2, <1>3, <2>2
  <2>b. {g.blocker, g.candidate} \subseteq 0..1 /\ g.candidate \in {0, 1} /\ 0 # 1
    BY <1>1, <2>2
  <2>c. /\ g.candidate = 1 <=> "candidate" \in used
        /\ g.blocker = 1 => "blocker" \in used
        /\ "blocker" \in used => "candidate" \in used \/ g.blocker = 1
    BY <1>3, <1>7, <2>1, <2>2
  <2>d. d.reason # "blocked"
    BY <2>1
  <2>3. Paid(d, used, g)
    BY <1>5, <1>7, <2>1, <2>a, <2>b, <2>c, <2>d, Zenon DEF Paid
  <2> QED
    BY <1>4, <1>6, <2>3
<1>10. CASE d \in {Go("health"), Go("untrusted")} /\ partial.result # "BLOCKED" /\ ~(turn >= MaxTurns)
  <2>1. d.continue = TRUE /\ d.reason \in {"health", "untrusted"}
    BY <1>10 DEF Go
  <2>2. g.blocker = b /\ g.candidate = c
    BY <1>1, <1>5, <1>b, <2>1
  <2>3. /\ "candidate" \in used <=> "candidate" \in repairs
        /\ "blocker" \in used <=> "blocker" \in repairs
    BY <1>7, <1>10, <2>1
  <2>a. turn + 1 <= MaxTurns + g.blocker + g.candidate /\ turn <= MaxTurns + g.blocker + g.candidate
    BY <1>1, <1>2, <1>10, <2>2
  <2>b. {g.blocker, g.candidate} \subseteq 0..1
    BY <1>1, <2>2
  <2>c. /\ g.candidate = 1 <=> "candidate" \in used
        /\ g.blocker = 1 => "blocker" \in used
        /\ "blocker" \in used => "candidate" \in used \/ g.blocker = 1
    BY <1>3, <2>2, <2>3
  <2>d. d.reason # "blocked"
    BY <2>1
  <2>4. Paid(d, used, g)
    BY <1>5, <1>7, <2>1, <2>a, <2>b, <2>c, <2>d, Zenon DEF Paid
  <2> QED
    BY <1>4, <1>6, <2>4
<1>11. CASE ~d.continue /\ d.continue = FALSE /\ d.reason \in Reasons
            /\ (d.reason = "blocked" => "blocker" \in repairs /\ "candidate" \notin repairs)
  <2>1. d.reason \notin {"blocker_repair", "candidate_repair"}
    BY <1>11 DEF Reasons
  <2>2. g.blocker = b /\ g.candidate = c
    BY <1>1, <1>5, <1>b, <2>1
  <2>3. /\ "candidate" \in used <=> "candidate" \in repairs
        /\ "blocker" \in used <=> "blocker" \in repairs
    BY <1>7, <1>11
  <2>a. turn <= MaxTurns + g.blocker + g.candidate /\ {g.blocker, g.candidate} \subseteq 0..1
    BY <1>1, <1>2, <1>3, <2>2
  <2>c. /\ g.candidate = 1 <=> "candidate" \in used
        /\ g.blocker = 1 => "blocker" \in used
        /\ "blocker" \in used => "candidate" \in used \/ g.blocker = 1
        /\ d.reason = "blocked" => g.blocker = 1
    BY <1>3, <1>7, <1>11, <2>2, <2>3
  <2>d. d.continue \in BOOLEAN /\ ~d.continue /\ d.reason \in Reasons
    BY <1>11
  <2>4. Paid(d, used, g)
    BY <1>5, <1>7, <2>a, <2>c, <2>d, Zenon DEF Paid
  <2> QED
    BY <1>4, <1>6, <2>4
<1>12. CASE d = Stop("blocked") /\ "blocker" \in repairs /\ "candidate" \notin repairs
  <2>1. d.continue = FALSE /\ d.reason = "blocked"
    BY <1>12 DEF Stop
  <2> QED
    BY <1>11, <1>12, <2>1 DEF Reasons
<1>13. CASE \E r \in Reasons \ {"none", "blocked"} : d = Stop(r)
  <2>1. d.continue = FALSE /\ d.reason \in Reasons \ {"none", "blocked"}
    BY <1>13 DEF Stop
  <2> QED
    BY <1>11, <2>1
<1> QED
  BY <1>8, <1>9, <1>10, <1>12, <1>13 DEF Grants

LEMMA ControlInv ==
  ASSUME TurnsInv, NEW t \in Polled, Control(t)
  PROVE  TurnsInv'
<1>1. PICK d : d = Directive(t)
  OBVIOUS
<1>2. PICK o : o = Observed
  OBVIOUS
<1>3. PICK used : used = Repairs(d)
  OBVIOUS
<1>4. PICK g : g = Granted(d, t)
  OBVIOUS
<1>5. Paid(d, used, g)
  BY <1>1, <1>3, <1>4, DirectiveGrants, GrantsPaid, Zenon
<1>6. d.continue => ~BudgetStop
  BY <1>1, DirectiveGrants
<1>7. /\ stage = "control" /\ bound' = turn /\ task' = t /\ health' = o
      /\ repairs' = used /\ granted' = g
      /\ d.continue => /\ stage' = "turn" /\ turn' = turn + 1 /\ binding' = turn + 1
                       /\ effort' \in {effort, "max"} /\ outcome' = outcome
      /\ ~d.continue => /\ stage' = "over" /\ outcome' = Finished(partial.result, d.reason) /\ binding' = 0
                        /\ turn' = turn /\ effort' = effort
      /\ adapter' = adapter /\ usage' = usage /\ partial' = partial /\ reported' = reported
      /\ slow' = slow /\ jobs' = jobs
  BY <1>1, <1>2, <1>3, <1>4, Zenon DEF Control, BindNow, Over
<1>8. /\ o \in [recent : Seq(Nat), actions : Nat, signal : Signals, action : {"none", "ESCALATE", "RETRY"}]
      /\ Len(o.recent) <= Tolerance /\ o.actions <= RetryLimit
  BY <1>2, ObservedType DEF TurnsInv
<1>9. t \in [disposition : {"none", "ACCEPTED", "REJECTED"}, accepted : BOOLEAN, progress : BOOLEAN]
  BY PolledType
<1>10. /\ turn' \in Nat /\ binding' \in Nat /\ bound' \in Nat /\ turn' >= turn
       /\ d.continue => turn' = turn + 1
  BY <1>5, <1>7, Counts DEF Paid
<1>11. outcome' \in Outcomes /\ (outcome'.status \in {"none", "completed"})
       /\ (outcome'.reason = "blocked" => d.reason = "blocked")
  <2>1. CASE d.continue
    BY <1>7, <2>1 DEF TurnsInv, TurnTypes, TurnStages, NoOutcome
  <2>2. CASE ~d.continue
    <3>1. d.reason \in Reasons /\ partial.result \in Results \cup {"none"}
      BY <1>5, <2>2 DEF Paid, TurnsInv, TurnTypes
    <3>2. PICK f : f = Finished(partial.result, d.reason)
      OBVIOUS
    <3>3. f \in Outcomes /\ f.status = "completed" /\ f.reason = d.reason
      BY <3>1, <3>2 DEF Finished, Outcomes
    <3>4. outcome' = f
      BY <1>7, <2>2, <3>2
    <3> QED
      BY <3>3, <3>4
  <2> QED
    BY <2>1, <2>2
<1>12. TurnTypes'
  <2>1. stage' \in {"turn", "over"} /\ effort' \in {"xhigh", "max"}
    BY <1>5, <1>7 DEF TurnsInv, TurnTypes, TurnsTypeOK, Paid
  <2>2. TurnsTypeOK'
    <3>1. outcome'.result \in Results \cup {"none"} /\ used \subseteq {"blocker", "candidate"}
      BY <1>5, <1>11 DEF Outcomes, Paid
    <3>2. usage' \in Nat /\ slow' \in Nat /\ jobs' \in 1..MaxJobs /\ adapter' \in {"app_server", "openai"}
          /\ partial'.result \in Results \cup {"none"}
      BY <1>7, Counts DEF TurnsInv, TurnTypes, TurnsTypeOK
    <3> QED
      BY <1>7, <1>8, <1>10, <2>1, <3>1, <3>2 DEF TurnsTypeOK
  <2> QED
    BY <1>5, <1>7, <1>8, <1>9, <1>11, <2>2 DEF TurnsInv, TurnTypes, Paid
<1>13. RepairsPaid'
  <2>1. turn' <= MaxTurns + g.blocker + g.candidate
    BY <1>5, <1>7 DEF Paid
  <2> QED
    BY <1>5, <1>7, <2>1 DEF Paid, RepairsPaid
<1>14. TurnStages'
  <2>1. slow <= turn /\ partial.result # "none" /\ adapter = "app_server" /\ outcome = NoOutcome
    BY <1>7 DEF TurnsInv, TurnStages
  <2>2. d.continue => slow < turn'
    BY <1>10, <2>1, Counts
  <2> QED
    BY <1>5, <1>7, <2>1, <2>2 DEF TurnStages, Paid
<1>15. BudgetHolds'
  <2>1. ASSUME d.continue, Budget # NoBudget
        PROVE  partial.telemetry = "observed" /\ usage < Budget
    <3>1. partial.telemetry = "observed" /\ ~(partial.usage >= Budget)
      BY <1>6, <2>1 DEF BudgetStop
    <3>2. partial.usage = usage /\ Budget \in Nat
      BY <1>7, <2>1, <3>1, ResearchTurnsAssumption DEF TurnsInv, TurnStages
    <3> QED
      BY <3>1, <3>2, Counts
  <2> QED
    BY <1>5, <1>7, <2>1 DEF BudgetHolds, Paid
<1>16. BlockedRepaired' /\ StaleIsLastRepair'
  BY <1>5, <1>7, <1>11 DEF BlockedRepaired, StaleIsLastRepair, Paid
<1>17. BindingFollows' /\ ResultKept'
  BY <1>5, <1>7, <1>10, <1>11, Counts DEF BindingFollows, ResultKept, Paid
<1> QED
  BY <1>12, <1>13, <1>14, <1>15, <1>16, <1>17 DEF TurnsInv

LEMMA TurnsInvNext == TurnsInv /\ [TurnsNext]_turnvars => TurnsInv'
<1> SUFFICES ASSUME TurnsInv, [TurnsNext]_turnvars PROVE TurnsInv'
  OBVIOUS
<1>1. CASE UNCHANGED turnvars
  BY <1>1 DEF turnvars, TurnsInv, TurnTypes, TurnsTypeOK, RepairsPaid, TurnStages, BudgetHolds, BlockedRepaired,
     StaleIsLastRepair, BindingFollows, ResultKept
<1>2. CASE TurnEnds
  <2>1. ASSUME NEW r \in Results, NEW n \in Spends, NEW o \in BOOLEAN, NEW l \in BOOLEAN,
               AppServer /\ TurnCompletes(r, n, o, l)
        PROVE  TurnsInv'
    BY <2>1, TurnCompletesInv DEF AppServer
  <2>2. ASSUME NEW e \in TurnErrors, AppServer /\ TurnFails(e)
        PROVE  TurnsInv'
    BY <2>2, TurnFailsInv DEF AppServer
  <2> QED
    BY <1>2, <2>1, <2>2 DEF TurnEnds
<1>3. CASE Step
  BY <1>2, <1>3, StartThreadInv, FirstTurnInv, ThreadFailsInv, ControlInv, HttpStartInv, HttpEndsInv DEF Step
<1>4. CASE TurnsNext
  BY <1>1, <1>3, <1>4, RecordBindingInv, ProgressInv, CandidateSeenInv, LimitReachedInv, CancelTimedOutInv, RetryInv
     DEF TurnsNext, Done
<1> QED
  BY <1>1, <1>4

LEMMA TurnsAlwaysInv == TurnsSpec => []TurnsInv
  BY TurnsInvInit, TurnsInvNext, PTL DEF TurnsSpec

(* However results, repairs, diagnostics, candidates and failures mix: a   *)
(* job takes no turn its limits and its budget do not give it, and has its *)
(* repair before it ends as blocked or is cut by the logical timeout.      *)
THEOREM TurnsAreJustified == TurnsSpec => []TurnsJustified
<1>1. TurnsInv => TurnsJustified
  BY Counts DEF TurnsInv, TurnTypes, RepairsPaid, TurnsJustified, TurnsBounded
<1> QED
  BY <1>1, TurnsAlwaysInv, PTL

(* The log's binding is at most one turn behind, and the failure of a      *)
(* later turn leaves the result of the one before.                         *)
THEOREM ProgressIsKept == TurnsSpec => []ProgressKept
<1>1. TurnsInv => ProgressKept
  BY DEF TurnsInv, ProgressKept
<1> QED
  BY <1>1, TurnsAlwaysInv, PTL

=============================================================================
