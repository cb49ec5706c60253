---------------------------- MODULE ResearchTurns -----------------------------
(***************************************************************************)
(* The turns of one research task.  A job runs at a provider: an App       *)
(* Server thread takes several turns, one after the other, and after each  *)
(* the controller decides whether the logical job goes on; an HTTP         *)
(* provider answers once.  A job that failed may be started again for the  *)
(* same task.                                                              *)
(*                                                                         *)
(* Token counts are generated tokens, cumulative over the thread, as the   *)
(* server reports them.  Elapsed time is counted in turns that took their  *)
(* whole timeout.  TurnOwnership has the protocol below start_turn,        *)
(* CandidateInbox the candidates and ResearchJobs what becomes of a result.*)
(***************************************************************************)
EXTENDS Naturals, FiniteSets, Sequences

CONSTANTS
  MaxTurns,     \* engine.research_max_turns of the role
  Budget,       \* tokens of a thread, or NoBudget with the action observe
  NoBudget,
  Interrupts,   \* per_thread_limit_action is interrupt
  RetryLimit,   \* reasoning_health_retry_limit
  Short,        \* reasoning_health_short_tokens
  Tolerance,    \* reasoning_health_repeated_token_tolerance
  EndOutcomes,  \* terminal_research_outcomes of the completion policy
  Spends,       \* tokens one turn may generate
  MaxJobs       \* bound on the jobs of the task

ASSUME ResearchTurnsAssumption ==
  /\ {MaxTurns, MaxJobs} \subseteq Nat \ {0} /\ Budget \in Nat \cup {NoBudget}
  /\ Interrupts \in BOOLEAN /\ {RetryLimit, Short} \subseteq Nat
  /\ Tolerance \in Nat /\ Tolerance >= 2
  /\ EndOutcomes \subseteq {"BLOCKED", "FALSIFIED"} /\ Spends \subseteq Nat

VARIABLES
  adapter,   \* provider adapter of the role: app_server, openai
  stage,     \* of the job: queued, thread, turn, control, over
  turn,      \* turn_index
  usage,     \* tokens generated on the thread so far
  partial,   \* the turn just completed: result type, telemetry
  effort,    \* of the next turn
  health,    \* ReasoningHealthMonitor: recent counts and actions used; last signal
  repairs,   \* _blocker_repair_jobs, _candidate_repair_jobs of this job
  task,      \* the task's candidates and its claim, over all its jobs
  binding,    \* the backend's turn binding of the job, 0 when none
  bound,     \* durable: turn of the last JOB_BOUND
  reported,  \* _thread_budget_limit_reported
  slow,      \* turns of the job that took their whole timeout
  outcome,   \* what run_job returned, or why the job was cancelled
  jobs,
  granted    \* history: repair turns granted in this job; for the candidate
turnvars == <<adapter, stage, turn, usage, partial, effort, health, repairs, task,
          binding, bound, reported, slow, outcome, jobs, granted>>

Results == {"PROOF", "COUNTEREXAMPLE", "BLOCKED", "TOOL_ERROR"}
NoPartial == [result |-> "none", telemetry |-> "unknown", usage |-> 0]
NoOutcome == [status |-> "none", kind |-> "none", retryable |-> FALSE, result |-> "none", reason |-> "none"]
FreshHealth == [recent |-> <<>>, actions |-> 0, signal |-> "none", action |-> "none"]

(* _classify_failure and the HTTP adapter: what an exception means.        *)
Kinds == [ schema |-> "fatal", tier |-> "fatal", route |-> "fatal", unmanaged |-> "fatal",
           failed |-> "fatal", access |-> "fatal", internal |-> "fatal",
           quota |-> "quota", lost |-> "lost", stuck |-> "lost",
           timeout |-> "transport", server |-> "transport", rate |-> "transport",
           output |-> "protocol", invalid |-> "protocol", semantic |-> "protocol" ]
Retryable == {"transport", "protocol"}
Errors(names) == {Kinds[e] : e \in names}
ThreadErrors == Errors(DOMAIN Kinds \ {"timeout", "stuck", "output", "invalid", "access"})
TurnErrors == Errors(DOMAIN Kinds \ {"schema", "access", "semantic"})
HttpErrors == Errors(DOMAIN Kinds \ {"stuck", "lost", "unmanaged"})

(* A failed job keeps the result of its last completed turn.               *)
Failed(kind, result) ==
  [status |-> "ERROR", kind |-> kind, retryable |-> kind \in Retryable,
   result |-> result, reason |-> "none"]
Finished(result, reason) ==
  [status |-> "completed", kind |-> "none", retryable |-> FALSE, result |-> result, reason |-> reason]

FreshJob ==
  /\ turn' = 0 /\ usage' = 0 /\ partial' = NoPartial /\ effort' = "xhigh"
  /\ health' = FreshHealth /\ repairs' = {} /\ binding' = 0 /\ bound' = 0
  /\ reported' = FALSE /\ slow' = 0 /\ outcome' = NoOutcome
  /\ granted' = [granted EXCEPT !.blocker = 0, !.candidate = 0]

TurnsInit ==
  /\ adapter \in {"app_server", "openai"} /\ stage = "queued"
  /\ turn = 0 /\ usage = 0 /\ partial = NoPartial /\ effort = "xhigh"
  /\ health = FreshHealth /\ repairs = {} /\ binding = 0 /\ bound = 0
  /\ reported = FALSE /\ slow = 0 /\ outcome = NoOutcome /\ jobs = 1
  /\ task = [disposition |-> "none", accepted |-> FALSE, progress |-> FALSE]
  /\ granted = [blocker |-> 0, candidate |-> 0, same |-> 0]

(***************************************************************************)
(* run_job at an App Server.                                               *)
(***************************************************************************)
Over(o) == stage' = "over" /\ outcome' = o /\ binding' = 0

StartThread ==
  /\ stage = "queued" /\ adapter = "app_server" /\ stage' = "thread"
  /\ UNCHANGED <<adapter, turn, usage, partial, effort, health, repairs, task, binding, bound,
                 reported, slow, outcome, jobs, granted>>
ThreadFails(kind) ==
  /\ stage = "thread" /\ Over(Failed(kind, "none"))
  /\ UNCHANGED <<adapter, turn, usage, partial, effort, health, repairs, task, bound,
                 reported, slow, jobs, granted>>

(* start_turn; on_started publishes the binding. *)
FirstTurn ==
  /\ stage = "thread" /\ stage' = "turn" /\ turn' = 1 /\ binding' = 1
  /\ UNCHANGED <<adapter, usage, partial, effort, health, repairs, task, bound,
                 reported, slow, outcome, jobs, granted>>

(* A completed turn, with the thread's usage so far or without telemetry.  *)
TurnCompletes(result, spent, observed, long) ==
  /\ stage = "turn" /\ stage' = "control"
  /\ usage' = usage + spent
  /\ partial' = [result |-> result,
                 telemetry |-> IF observed THEN "observed" ELSE "unknown",
                 usage |-> IF observed THEN usage' ELSE 0]
  /\ slow' = slow + (IF long THEN 1 ELSE 0)
  /\ UNCHANGED <<adapter, turn, effort, health, repairs, task, binding, bound,
                 reported, outcome, jobs, granted>>

TurnFails(kind) ==
  /\ stage = "turn" /\ Over(Failed(kind, partial.result))
  /\ UNCHANGED <<adapter, turn, usage, partial, effort, health, repairs, task, bound,
                 reported, slow, jobs, granted>>

(***************************************************************************)
(* The controller between two turns.                                       *)
(***************************************************************************)
(* continuation_budget_stop_reason *)
BudgetStop ==
  /\ Budget # NoBudget
  /\ partial.telemetry # "observed" \/ partial.usage >= Budget

(* ReasoningHealthMonitor.observe *)
Recent == LET all == Append(health.recent, partial.usage)
          IN  SubSeq(all, IF Len(all) > Tolerance THEN Len(all) - Tolerance + 1 ELSE 1, Len(all))
Repeated == Len(Recent) >= Tolerance /\ Cardinality({Recent[i] : i \in DOMAIN Recent}) = 1
Diagnosis ==
  CASE partial.telemetry # "observed" \/ partial.usage = 0 -> "UNKNOWN_TELEMETRY"
    [] Repeated -> "REPEATED_REASONING_TOKENS"
    [] ~Repeated /\ partial.usage <= Short -> "SHORT_REASONING"
    [] OTHER -> "HEALTHY"
Suspicious == Diagnosis \in {"REPEATED_REASONING_TOKENS", "SHORT_REASONING"}
HealthAction ==
  CASE ~Suspicious \/ health.actions >= RetryLimit -> "none"
    [] effort = "xhigh" -> "ESCALATE"
    [] OTHER -> "RETRY"

Observed ==
  [recent |-> IF Diagnosis = "UNKNOWN_TELEMETRY" THEN health.recent ELSE Recent,
   actions |-> health.actions + (IF Suspicious /\ health.actions < RetryLimit THEN 1 ELSE 0),
   signal |-> Diagnosis, action |-> HealthAction]

Stop(reason) == [continue |-> FALSE, reason |-> reason]
Go(reason) == [continue |-> TRUE, reason |-> reason]

(* The first rule whose condition holds. *)
FirstRule(rules) ==
  rules[CHOOSE n \in DOMAIN rules : rules[n][1] /\ \A k \in 1..n - 1 : ~rules[k][1]][2]

Rejected(t) == t.disposition = "REJECTED"

(* Mutant: the turn limit is off by one. *)
DecideOneMore(t) == FirstRule(<<
  <<t.progress,                          Stop("progress")>>,
  <<t.accepted,                          Stop("candidate")>>,
  <<BudgetStop,                          Stop("budget")>>,
  <<partial.result = "TOOL_ERROR",       Stop("tool_error")>>,
  <<"candidate" \in repairs,             Stop("candidate_repair_failed")>>,
  <<Rejected(t),                         Go("candidate_repair")>>,
  <<partial.result = "BLOCKED" /\ "blocker" \in repairs, Stop("blocked")>>,
  <<partial.result = "BLOCKED",          Go("blocker_repair")>>,
  <<turn > MaxTurns,                     Stop("turn_limit")>>,
  <<TRUE,                                Go("untrusted")>> >>)

(* ResearchTurnPolicy.decide *)
Decide(t) == FirstRule(<<
  <<t.progress,                          Stop("progress")>>,
  <<t.accepted,                          Stop("candidate")>>,
  <<BudgetStop,                          Stop("budget")>>,
  <<partial.result = "TOOL_ERROR",       Stop("tool_error")>>,
  <<"candidate" \in repairs,             Stop("candidate_repair_failed")>>,
  <<Rejected(t),                         Go("candidate_repair")>>,
  <<partial.result = "BLOCKED" /\ "blocker" \in repairs, Stop("blocked")>>,
  <<partial.result = "BLOCKED",          Go("blocker_repair")>>,
  <<turn >= MaxTurns,                    Stop("turn_limit")>>,
  <<Observed.action # "none",            Go("health")>>,
  <<TRUE,                                Go("untrusted")>> >>)

(* _completion_policy_terminal_research_outcome: stops the job whatever    *)
(* the policy of the turns says.                                           *)
EndsCampaign ==
  \/ partial.result = "BLOCKED" /\ "BLOCKED" \in EndOutcomes
  \/ partial.result = "COUNTEREXAMPLE" /\ "FALSIFIED" \in EndOutcomes
Directive(t) ==
  LET d == Decide(t)
  IN  IF EndsCampaign THEN Stop("campaign_terminal")
      ELSE IF d.continue /\ BudgetStop THEN Stop("budget") ELSE d

(* The candidates the poll before the decision finds. *)
Polled == {task} \cup {[task EXCEPT !.disposition = d, !.accepted = @ \/ d = "ACCEPTED"] :
                         d \in {"ACCEPTED", "REJECTED"}}

(* The repairs of this turn.  A report of BLOCKED uses up the repair of    *)
(* blockers whenever the job goes on, also for another reason.             *)
Repairs(d) ==
  repairs \cup (IF d.continue /\ partial.result = "BLOCKED" THEN {"blocker"} ELSE {})
          \cup (IF d.reason = "candidate_repair" /\ d.continue THEN {"candidate"} ELSE {})
Granted(d, t) ==
  [ blocker |-> granted.blocker + (IF d.reason = "blocker_repair" THEN 1 ELSE 0),
    candidate |-> granted.candidate + (IF d.reason = "candidate_repair" THEN 1 ELSE 0),
    same |-> IF t # task THEN (IF d.reason = "candidate_repair" THEN 1 ELSE 0)
             ELSE granted.same + (IF d.reason = "candidate_repair" THEN 1 ELSE 0) ]

(* Mutant: the binding is left to the loop. *)
BindLater == bound

(* _control_research_turn records the binding before anything else.        *)
BindNow == turn

Control(t) ==
  /\ stage = "control" /\ t \in Polled
  /\ bound' = BindNow /\ task' = t /\ health' = Observed
  /\ LET d == Directive(t)
     IN  /\ repairs' = Repairs(d) /\ granted' = Granted(d, t)
         /\ IF d.continue
            THEN /\ stage' = "turn" /\ turn' = turn + 1 /\ binding' = turn + 1
                 /\ effort' = IF d.reason = "health" /\ Observed.action = "ESCALATE" THEN "max" ELSE effort
                 /\ UNCHANGED outcome
            ELSE /\ Over(Finished(partial.result, d.reason)) /\ UNCHANGED <<turn, effort>>
  /\ UNCHANGED <<adapter, usage, partial, reported, slow, jobs>>

(***************************************************************************)
(* Around the job.                                                         *)
(***************************************************************************)
(* The loop processes a candidate of the task while a turn runs. *)
CandidateSeen(t) ==
  /\ adapter = "app_server" /\ stage \in {"thread", "turn"} /\ t \in Polled \ {task}
  /\ task' = t /\ granted' = [granted EXCEPT !.same = 0]
  /\ UNCHANGED <<adapter, stage, turn, usage, partial, effort, health, repairs, binding, bound,
                 reported, slow, outcome, jobs>>

(* An audit changes the claim: the marker the job started from is old. *)
Progress ==
  /\ stage \in {"turn", "control"} /\ ~task.progress /\ task' = [task EXCEPT !.progress = TRUE]
  /\ UNCHANGED <<adapter, stage, turn, usage, partial, effort, health, repairs, binding, bound,
                 reported, slow, outcome, jobs, granted>>

(* _record_backend_bindings: the loop sees the turn at the backend. *)
RecordBinding ==
  /\ binding # 0 /\ bound # binding /\ bound' = binding
  /\ UNCHANGED <<adapter, stage, turn, usage, partial, effort, health, repairs, task, binding,
                 reported, slow, outcome, jobs, granted>>

(* _handle_per_thread_budget_limits: reported once; an interrupt ends the  *)
(* turn that runs, or comes between two turns and ends nothing.            *)
LimitReached(spent) ==
  /\ Interrupts /\ Budget # NoBudget /\ ~reported /\ reported' = TRUE
  /\ stage \in {"turn", "control"} /\ usage + (IF stage = "turn" THEN spent ELSE 0) >= Budget
  /\ IF stage = "turn" THEN Over(Failed("fatal", partial.result)) ELSE UNCHANGED <<stage, outcome, binding>>
  /\ UNCHANGED <<adapter, turn, usage, partial, effort, health, repairs, task, bound, slow, jobs, granted>>

(* The logical timeout, in turns: one more than the limit. *)
LogicalTimeout == MaxTurns + 1

(* _cancel_stale_jobs: the provider accepts the interrupt and the job is   *)
(* cancelled.  A turn still running may have used its timeout up by now.   *)
CancelTimedOut ==
  /\ stage = "turn" /\ slow >= LogicalTimeout
  /\ Over([NoOutcome EXCEPT !.status = "CANCELLED", !.result = partial.result])
  /\ UNCHANGED <<adapter, turn, usage, partial, effort, health, repairs, task, bound,
                 reported, slow, jobs, granted>>

(* Mutant: retries are not counted. *)
RetryForever ==
  /\ stage = "over" /\ outcome.retryable
  /\ stage' = "queued" /\ FreshJob
  /\ task' = [task EXCEPT !.progress = FALSE]
  /\ UNCHANGED <<adapter, jobs>>

(* The same task once more, after a failure that may be retried.           *)
Retry ==
  /\ stage = "over" /\ outcome.retryable /\ jobs < MaxJobs
  /\ jobs' = jobs + 1 /\ stage' = "queued" /\ FreshJob
  /\ task' = [task EXCEPT !.progress = FALSE]
  /\ UNCHANGED adapter

(***************************************************************************)
(* run_job at an HTTP provider: one request, one answer, no controller.    *)
(***************************************************************************)
HttpStart ==
  /\ stage = "queued" /\ adapter = "openai" /\ stage' = "turn" /\ turn' = 1
  /\ UNCHANGED <<adapter, usage, partial, effort, health, repairs, task, binding, bound,
                 reported, slow, outcome, jobs, granted>>
HttpAnswer(o) ==
  /\ Over(o)
  /\ UNCHANGED <<adapter, turn, usage, partial, effort, health, repairs, task, bound,
                 reported, slow, jobs, granted>>

Done == stage = "over" /\ (outcome.retryable => jobs = MaxJobs) /\ UNCHANGED turnvars

AppServer == adapter = "app_server"
TurnEnds ==
  \/ \E r \in Results, n \in Spends, o, l \in BOOLEAN : AppServer /\ TurnCompletes(r, n, o, l)
  \/ \E e \in TurnErrors : AppServer /\ TurnFails(e)
HttpEnds ==
  /\ adapter = "openai" /\ stage = "turn"
  /\ \/ \E r \in Results : HttpAnswer(Finished(r, "none"))
     \/ \E e \in HttpErrors : HttpAnswer(Failed(e, "none"))
Step ==
  \/ StartThread \/ FirstTurn \/ \E e \in ThreadErrors : ThreadFails(e)
  \/ TurnEnds \/ \E t \in Polled : Control(t)
  \/ HttpStart \/ HttpEnds

TurnsNext ==
  \/ Step \/ RecordBinding \/ Progress \/ \E t \in Polled : CandidateSeen(t)
  \/ \E n \in Spends : LimitReached(n)
  \/ CancelTimedOut \/ Retry \/ Done

TurnsSpec == TurnsInit /\ [][TurnsNext]_turnvars /\ WF_turnvars(Step)

(***************************************************************************)
(* Properties.                                                             *)
(***************************************************************************)
TurnsTypeOK ==
  /\ adapter \in {"app_server", "openai"}
  /\ stage \in {"queued", "thread", "turn", "control", "over"}
  /\ {turn, usage, binding, bound, slow} \subseteq Nat /\ jobs \in 1..MaxJobs
  /\ repairs \subseteq {"blocker", "candidate"} /\ effort \in {"xhigh", "max"}
  /\ Len(health.recent) <= Tolerance /\ health.actions <= RetryLimit
  /\ partial.result \in Results \cup {"none"} /\ outcome.result \in Results \cup {"none"}

(* However repairs, diagnostics and results mix, a turn above the limit is *)
(* a repair turn, and each kind of repair is granted once in a job.        *)
TurnsBounded ==
  /\ turn <= MaxTurns + granted.blocker + granted.candidate
  /\ granted.blocker <= 1 /\ granted.candidate <= 1

(* Another turn is started only with a budget left for it that the last    *)
(* turn's telemetry shows.                                                 *)
BudgetHolds ==
  stage = "turn" /\ turn > 1 /\ Budget # NoBudget =>
    partial.telemetry = "observed" /\ usage < Budget

(* The log's binding is at most one turn behind the provider: recover      *)
(* finds the thread, and its last turn or the one before it.               *)
BindingFollows == binding # 0 => bound + 1 >= binding

(* Losing the provider after some turns leaves the result the checkpoint   *)
(* for the next epoch is made of.                                          *)
ResultKept ==
  stage = "over" /\ outcome.status = "ERROR" /\ turn > 1 => outcome.result # "none"

(* The logical timeout cuts only a job that was given both repair turns.   *)
StaleIsLastRepair == outcome.status = "CANCELLED" => turn = MaxTurns + 2

(* Every job ends, whatever its turns report, and so do the automatic      *)
(* retries of the task.                                                    *)
TaskEnds == <>[](stage = "over")

(* configuration.md: a rejected candidate receives at most one targeted    *)
(* repair turn.                                                            *)
CandidateRepairedOnce == granted.same <= 1

(* configuration.md: no job ends as a persistent blocker before it was     *)
(* given its turn to repair the blocker.                                   *)
BlockedRepaired == outcome.reason = "blocked" => granted.blocker = 1

(* No job takes a turn that its limits and its budget do not give it, nor  *)
(* is it stopped before it had the repairs they do give it.                *)
TurnsJustified ==
  TurnsTypeOK /\ TurnsBounded /\ BudgetHolds /\ BlockedRepaired /\ StaleIsLastRepair

(* What a job has done is not lost with its provider or its controller.    *)
ProgressKept == BindingFollows /\ ResultKept

=============================================================================
