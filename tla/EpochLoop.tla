------------------------------ MODULE EpochLoop ------------------------------
(***************************************************************************)
(* The scheduling loop of one controller (controller.py, run): what it     *)
(* collects, when it stops, when it asks the Director for a new plan and   *)
(* how the epoch is left.  lifecycle/state.py allows few phase changes and *)
(* raises on any other, and many handlers ask for one, so the loop is      *)
(* modelled handler by handler with the exception as an outcome (raised).  *)
(*                                                                         *)
(* Jobs occupy slots: one Director, the research slots and the audit       *)
(* slots.  Queued tasks are counted, and the version watermark of the      *)
(* Director is the comparison its users make: behind, the plan in flight   *)
(* is older than the last request.  Mechanical subtasks have a module of   *)
(* their own (MechanicalBroker), and so have the votes of an audit         *)
(* (AuditPipeline) and the seal of the campaign (CampaignEpoch).           *)
(***************************************************************************)
EXTENDS Naturals, FiniteSets

CONSTANTS
  Research, Audits,   \* slots of research and of audit jobs
  Estimate,           \* tokens reserved for a job, by kind
  MaxUse,             \* a job reports 1 to MaxUse tokens (by kind), whatever was reserved
  Budget,             \* the global token budget
  MaxQueue,           \* bound on either queue
  MaxCandidates,      \* bound on the candidates accepted
  MaxRetries,         \* Director retries of one class
  MaxErrors,          \* consecutive controller errors that stop the epoch
  CandidateLimit,     \* max_accepted_candidates of a Theme's completion policy
  EndingVerdicts      \* terminal_audit_verdicts of that policy

ASSUME EpochLoopAssumption ==
  /\ Research \cap Audits = {} /\ "director" \notin Research \cup Audits
  /\ IsFiniteSet(Research) /\ IsFiniteSet(Audits)
  /\ \A k \in {"director", "research", "audit"} : {Estimate[k], MaxUse[k]} \subseteq Nat \ {0}
  /\ {Budget, MaxErrors, CandidateLimit, MaxQueue} \subseteq Nat \ {0}
  /\ {MaxCandidates, MaxRetries} \subseteq Nat
  /\ EndingVerdicts \subseteq {"PASS", "REJECT", "UNRESOLVED"}

VARIABLES
  pc,      \* where the loop is
  ctl,     \* the controller's fields the loop's decisions read
  job,     \* per slot: none, running, done, or cancelled (its future)
  batch,   \* terminal futures that the running collection has still to accept
  spent,   \* tokens recorded by the governor
  clock,   \* what the world tells the loop: deadline passed, hard rate limit
  cut      \* how the loop was left and which live jobs were cancelled for it

loopvars == <<pc, ctl, job, batch, spent, clock, cut>>

Slots == {"director"} \cup Research \cup Audits
Kind(s) == IF s \in Research THEN "research"
           ELSE IF s \in Audits THEN "audit" ELSE "director"
Active == {s \in Slots : job[s] # "none"}

(* _ALLOWED of lifecycle/state.py. *)
AllowedPhases == [
  BOOTSTRAP |-> {"RUNNING", "DRAINING_FAILURE"},
  RUNNING |-> {"DRAINING_FAILURE", "DRAINING_BUDGET", "DRAINING_EPOCH", "FINALIZING"},
  DRAINING_FAILURE |-> {"SEALED"}, DRAINING_BUDGET |-> {"SEALED"},
  DRAINING_EPOCH |-> {"SEALED"}, FINALIZING |-> {"COMPLETED", "DRAINING_FAILURE"},
  SEALED |-> {}, COMPLETED |-> {}]

(* MonotoneLifecycle.transition: the same phase again is no change, a      *)
(* phase that is not allowed raises.                                       *)
Transition(d, phase) ==
  IF phase = d.phase THEN d
  ELSE IF phase \in AllowedPhases[d.phase] THEN [d EXCEPT !.phase = phase]
  ELSE [d EXCEPT !.raised = TRUE]

CanDispatch(d) == d.phase = "RUNNING"
FromRunning(d, phase) == IF d.phase = "RUNNING" THEN [d EXCEPT !.phase = phase] ELSE d
StopWith(d, reason) == [d EXCEPT !.stop = IF @ = "none" THEN reason ELSE @]

(* _request_director: ignored once the epoch is being left. *)
Request(d, meaningful) ==
  IF d.final \/ d.auditOnly \/ d.stop # "none" \/ ~CanDispatch(d) THEN d
  ELSE [d EXCEPT !.needed = TRUE, !.behind = @ \/ meaningful]

(* _require_continuation *)
RequireContinuation(d) ==
  IF ~CanDispatch(d) THEN d ELSE [Request(d, TRUE) EXCEPT !.wave = FALSE]

(* _begin_internal_failure_drain *)
FailureDrain(d) ==
  LET e == [d EXCEPT !.failed = TRUE, !.needed = FALSE]
      t == IF e.phase \in {"DRAINING_FAILURE", "SEALED", "COMPLETED"} THEN e
           ELSE Transition(e, "DRAINING_FAILURE")
  IN  IF t.raised THEN t ELSE StopWith(t, "failure")

(* _pause_for_provider_quota, _pause_for_provider_transport_loss *)
QuotaPause(d) == StopWith(FromRunning(d, "DRAINING_EPOCH"), "quota")
TransportPause(d) ==
  [StopWith(FromRunning(d, "DRAINING_EPOCH"), "transport") EXCEPT !.transport = TRUE]

(* _pause_for_next_epoch_frontier *)
FrontierPause(d) ==
  [FromRunning(d, "DRAINING_EPOCH") EXCEPT !.needed = FALSE, !.wave = FALSE, !.stop = "frontier"]

(* _release_observation_batch: low-impact candidates are planned together. *)
ReleaseBatch(d) == Request([d EXCEPT !.batched = FALSE], TRUE)

Healthy(d, act) == d.research > 0 \/ d.audits > 0 \/ act \ {"director"} # {}

(* _queue_director_retry *)
DirectorRetry(d, act, structural) ==
  IF ~structural /\ d.retries < MaxRetries
  THEN [Request(d, FALSE) EXCEPT !.retries = @ + 1]
  ELSE IF structural THEN FailureDrain(d)
  ELSE LET e == [d EXCEPT !.needed = FALSE, !.isolated = TRUE]
       IN  IF ~Healthy(d, act) /\ d.phase = "RUNNING"
           THEN [e EXCEPT !.phase = "DRAINING_EPOCH", !.stop = "director"] ELSE e

(* _suppress_work_after_completion_policy and the two ways to satisfy the  *)
(* Theme's policy.                                                         *)
Satisfy(d) ==
  IF d.satisfied THEN d
  ELSE [FromRunning(d, "FINALIZING") EXCEPT !.satisfied = TRUE, !.auditOnly = TRUE,
          !.needed = FALSE, !.wave = FALSE, !.stop = "policy",
          !.research = 0, !.deferred = 0, !.audits = 0]

(* _begin_finalization_if_resolved, the final claim being resolved: the    *)
(* phase is asked for without a look at the present one.                   *)
Finalize(d) ==
  IF d.failed THEN Request([d EXCEPT !.resolved = TRUE], FALSE)
  ELSE IF d.final THEN d
  ELSE LET t == Transition([d EXCEPT !.final = TRUE, !.resolved = TRUE], "FINALIZING")
       IN  IF t.raised THEN t
           ELSE [t EXCEPT !.needed = FALSE, !.stop = "final"]

(***************************************************************************)
(* What the handlers do with a terminal job.  act are the jobs that remain *)
(* registered when the handler runs.                                       *)
(***************************************************************************)
Failures == {"error", "fatal", "quota", "transport"}
Plans == {"tasks", "priorities", "empty", "rejected", "deferred", "waiting"}
Outcomes(kind) == Failures \cup
  CASE kind = "director" -> Plans
    [] kind = "research" -> {"progress", "stagnant", "blocked", "checkpoint",
                               "retry", "ending"}
    [] OTHER -> {"resolved", "trusted", "more", "rejected", "retry", "broken", "conflict"}

Grow(n, by) == IF n + by > MaxQueue THEN MaxQueue ELSE n + by

(* _accept_director_result.  A plan admits tasks, raises the priority of a *)
(* queued audit, is empty, has only refused or only checkpointed tasks, or *)
(* finds every route waiting for a condition.  A stale plan is applied all *)
(* the same and asks for the next one.                                     *)
AcceptPlan(d, act, plan) ==
  LET runnable == plan \in {"tasks", "priorities"}
      healthy == Healthy(d, act)
      held == ~runnable /\ healthy /\ plan = "empty"
      handoff == d.deferred > 0 /\ ~healthy /\ plan \in {"empty", "deferred"}
      waiting == ~d.behind /\ ~healthy /\ ~handoff /\ plan = "waiting"
      e == [d EXCEPT !.research = Grow(@, IF plan = "tasks" THEN 1 ELSE 0)]
      f == IF held THEN [e EXCEPT !.wave = TRUE]
           ELSE IF waiting
           THEN [FromRunning(e, "DRAINING_EPOCH")
                   EXCEPT !.needed = FALSE, !.wave = FALSE, !.stop = "routes"]
           ELSE IF runnable \/ handoff THEN [e EXCEPT !.retries = 0] ELSE e
  IN  IF d.behind THEN Request(f, FALSE)
      ELSE IF handoff THEN FrontierPause(f)
      ELSE IF held \/ waiting THEN f
      ELSE IF runnable THEN [f EXCEPT !.wave = FALSE]
      ELSE DirectorRetry(f, act, FALSE)

AcceptDirector(d, act, o) ==
  LET e == [d EXCEPT !.seat = FALSE]
  IN  CASE o = "transport" -> TransportPause(e)
        [] o = "quota" -> QuotaPause(e)
        [] o = "error" -> DirectorRetry(e, act, FALSE)
        [] o = "fatal" -> DirectorRetry(e, act, TRUE)
        [] OTHER -> AcceptPlan(e, act, o)

(* A research job that failed: its task is kept for the next epoch, queued *)
(* again, or left to the Director.                                         *)
ResearchFails(d, o) ==
  CASE o = "transport" -> TransportPause([d EXCEPT !.research = Grow(@, 1)])
    [] o = "quota" -> QuotaPause([d EXCEPT !.research = Grow(@, 1)])
    [] o = "retry" -> [d EXCEPT !.research = Grow(@, 1)]
    [] o \in {"error", "fatal"} -> RequireContinuation(d)

(* One that answered: it is checkpointed for the next epoch, cannot go on, *)
(* has made progress, or has made none once more.                          *)
ResearchSettles(d, o) ==
  LET e == [d EXCEPT !.wave = TRUE]
  IN  CASE o = "checkpoint" -> [e EXCEPT !.deferred = 1]
        [] o = "blocked" -> Request(e, FALSE)
        [] o = "stagnant" -> Request(e, TRUE)
        [] o = "progress" -> e

(* _accept_research_result: what is recorded may satisfy the policy.       *)
AcceptResearch(d, act, o) ==
  CASE o = "ending" -> Satisfy(d)
    [] o # "ending" /\ d.satisfied -> d
    [] OTHER -> IF o \in Failures \cup {"retry"} THEN ResearchFails(d, o)
                ELSE ResearchSettles(d, o)

Verdict(o) == CASE o \in {"resolved", "trusted", "more"} -> "PASS"
                [] o = "rejected" -> "REJECT" [] OTHER -> "none"

(* _accept_audit_result, with _completion_policy_matches for a policy of   *)
(* one audit attempt.                                                      *)
AcceptAudit(d, act, o) ==
  LET ends == d.satisfied \/ (d.auditOnly /\ Verdict(o) \in EndingVerdicts)
  IN  CASE o = "transport" -> TransportPause(d)
        [] o = "quota" -> QuotaPause(d)
        [] o \in {"error", "fatal"} -> RequireContinuation(d)
        [] o = "retry" -> [d EXCEPT !.audits = Grow(@, 1)]
        [] o = "broken" -> FailureDrain(d)
        [] o = "conflict" -> [d EXCEPT !.review = TRUE]
        [] OTHER ->
           IF ends THEN Satisfy(d)
           ELSE CASE o = "resolved" -> Finalize(d)
                  [] o \in {"trusted", "rejected"} -> Request(d, FALSE)
                  [] o = "more" -> [Request(d, FALSE) EXCEPT !.audits = Grow(@, 1)]

Accept(d, act, kind, o) ==
  CASE kind = "director" -> AcceptDirector(d, act, o)
    [] kind = "research" -> AcceptResearch(d, act, o)
    [] kind = "audit" -> AcceptAudit(d, act, o)

(***************************************************************************)
(* The start of the loop: bootstrap has reached RUNNING and asked for the  *)
(* first plan.  The Theme may have a completion policy.                    *)
(***************************************************************************)
LoopInit ==
  /\ pc = "poll"
  /\ \E policy \in BOOLEAN : ctl = [policy |-> policy, phase |-> "RUNNING", stop |-> "none", raised |-> FALSE,
          review |-> FALSE, failed |-> FALSE, final |-> FALSE, resolved |-> FALSE,
          satisfied |-> FALSE, auditOnly |-> FALSE, transport |-> FALSE,
          needed |-> TRUE, seat |-> FALSE, behind |-> FALSE, retries |-> 0,
          isolated |-> FALSE, wave |-> FALSE, batched |-> FALSE,
          research |-> 0, audits |-> 0, deferred |-> 0, errors |-> 0, cands |-> 0]
  /\ job = [s \in Slots |-> "none"]
  /\ batch = {}
  /\ spent = 0
  /\ clock = [late |-> FALSE, limited |-> FALSE]
  /\ cut = [how |-> "no", live |-> {}, orphan |-> FALSE, status |-> "none"]

(***************************************************************************)
(* What happens while the loop sleeps or closes.                           *)
(***************************************************************************)
JobEnds(s) ==
  /\ pc \in {"poll", "last"} /\ job[s] = "running"
  /\ job' = [job EXCEPT ![s] = "done"]
  /\ UNCHANGED <<pc, ctl, batch, spent, clock, cut>>

Deadline ==
  /\ pc = "poll" /\ ~clock.late
  /\ clock' = [clock EXCEPT !.late = TRUE]
  /\ UNCHANGED <<pc, ctl, job, batch, spent, cut>>

RateLimited ==
  /\ pc = "poll" /\ ~clock.limited
  /\ clock' = [clock EXCEPT !.limited = TRUE]
  /\ UNCHANGED <<pc, ctl, job, batch, spent, cut>>

(* _trace_notification: a reroute, a foreign continuation or a delegation. *)
Violation ==
  /\ pc = "poll" /\ Active # {} /\ ~ctl.review
  /\ ctl' = [ctl EXCEPT !.review = TRUE, !.failed = TRUE]
  /\ UNCHANGED <<pc, job, batch, spent, clock, cut>>

(* The operator's interrupt reaches the loop at an await. *)
Interrupt ==
  /\ pc = "poll"
  /\ pc' = "last" /\ cut' = [cut EXCEPT !.how = "interrupted"]
  /\ UNCHANGED <<ctl, job, batch, spent, clock>>

(***************************************************************************)
(* One turn of the loop.                                                   *)
(***************************************************************************)
Leave(how) == pc' = "last" /\ cut' = [cut EXCEPT !.how = how]
(* The loop goes to where, or leaves through its except clause. *)
Continue(d, where) ==
  IF d.raised
  THEN /\ ctl' = [d EXCEPT !.raised = FALSE, !.failed = TRUE]
       /\ Leave("error")
  ELSE ctl' = d /\ pc' = where /\ UNCHANGED cut

(* _process_candidate_queue for a candidate of a research job.  Reaching   *)
(* the policy's limit leaves room for audits only, and cancels research.   *)
Candidate(lowImpact) ==
  /\ pc = "poll" /\ ctl.cands < MaxCandidates
  /\ \E s \in Research : job[s] \in {"running", "done"}
  /\ LET last == ctl.policy /\ ctl.cands + 1 >= CandidateLimit
         d == [ctl EXCEPT !.cands = @ + 1]
         e == IF ~last THEN Request(d, TRUE)
              ELSE IF d.auditOnly THEN d
              ELSE [d EXCEPT !.auditOnly = TRUE, !.needed = FALSE, !.wave = FALSE,
                             !.research = 0, !.deferred = 0]
     IN  /\ ctl' = IF lowImpact THEN [e EXCEPT !.batched = TRUE]
                 ELSE [e EXCEPT !.audits = Grow(@, 1)]
         /\ job' = IF last /\ ~d.auditOnly
                   THEN [s \in Slots |-> IF s \in Research /\ job[s] = "running"
                                         THEN "cancelled" ELSE job[s]]
                   ELSE job
  /\ UNCHANGED <<pc, batch, spent, clock, cut>>

(* _collect_completed: every finished job that is not a Director moves the *)
(* watermark before any result of the batch is looked at.                  *)
Gather(d, done) == IF done \ {"director"} # {} THEN Request(d, TRUE) ELSE d

Collect ==
  /\ pc = "poll"
  /\ batch' = {s \in Slots : job[s] \in {"done", "cancelled"}}
  /\ ctl' = Gather(ctl, batch')
  /\ pc' = "collect"
  /\ UNCHANGED <<job, spent, clock, cut>>

(* TokenGovernor.record: what a thread has used beyond what it reported.   *)
Record(use) == spent' = spent + use

(* A cancelled future is only taken off the books: the flag that a         *)
(* Director is active stays as it was.  An exception ends the collection.  *)
CollectOne(s, o, use) ==
  /\ pc \in {"collect", "final"} /\ s \in batch
  /\ LET d == [ctl EXCEPT !.errors = IF o = "fatal" THEN @ + 1 ELSE 0]
         r == IF job[s] = "cancelled" THEN d ELSE Accept(d, Active \ {s}, Kind(s), o)
     IN  /\ batch' = IF r.raised THEN {} ELSE batch \ {s}
         /\ IF pc = "collect" THEN Continue(r, "collect")
            ELSE /\ ctl' = [r EXCEPT !.raised = FALSE, !.failed = @ \/ r.raised]
                 /\ pc' = "final" /\ UNCHANGED cut
  /\ Record(IF job[s] = "cancelled" THEN 0 ELSE use)
  /\ job' = [job EXCEPT ![s] = "none"]
  /\ UNCHANGED clock

(* _cancel_backend_job: cancelled, not cancelled, or it raises, and the    *)
(* epoch stops for review.                                                 *)
BackendCancel(d, answer) == IF answer = "raises" THEN [d EXCEPT !.review = TRUE] ELSE d

(* _cancel_stale_jobs: a job past its time.                                *)
CancelStale(s, answer) ==
  /\ pc = "collect" /\ batch = {} /\ job[s] = "running"
  /\ ctl' = BackendCancel(ctl, answer)
  /\ job' = IF answer = "done" THEN [job EXCEPT ![s] = "cancelled"] ELSE job
  /\ cut' = [cut EXCEPT !.orphan = @ \/ (answer = "done" /\ s = "director")]
  /\ pc' = "stop"
  /\ UNCHANGED <<batch, spent, clock>>

NothingStale ==
  /\ pc = "collect" /\ batch = {} /\ pc' = "stop"
  /\ UNCHANGED <<ctl, job, batch, spent, clock, cut>>

(* The stop: transport loss leaves at once, any other stop waits for the   *)
(* jobs in flight.                                                         *)
StopOnTransport ==
  /\ pc = "stop" /\ ctl.stop # "none" /\ ctl.transport
  /\ Leave("transport") /\ UNCHANGED <<ctl, job, batch, spent, clock>>

StopWaits ==
  /\ pc = "stop" /\ ctl.stop # "none" /\ ~ctl.transport /\ Active # {}
  /\ pc' = "poll" /\ UNCHANGED <<ctl, job, batch, spent, clock, cut>>

(* Mutant: a stop does not wait for the jobs in flight. *)
StopWithoutWaiting ==
  /\ pc = "stop" /\ ctl.stop # "none" /\ ~ctl.transport
  /\ LET d == Transition(ctl, IF ctl.final \/ ctl.satisfied THEN "COMPLETED" ELSE "SEALED")
     IN  IF d.raised THEN Continue(d, "last") ELSE ctl' = d /\ Leave("stopped")
  /\ UNCHANGED <<job, batch, spent, clock>>

StopNow ==
  /\ pc = "stop" /\ ctl.stop # "none" /\ ~ctl.transport /\ Active = {}
  /\ LET d == IF ctl.final \/ ctl.satisfied THEN Transition(ctl, "COMPLETED")
              ELSE IF ctl.phase \in {"SEALED", "COMPLETED"} THEN ctl
              ELSE Transition(ctl, "SEALED")
     IN  IF d.raised THEN Continue(d, "last")
         ELSE ctl' = d /\ Leave("stopped")
  /\ UNCHANGED <<job, batch, spent, clock>>

(* _error_rate_exceeded (its clause on consecutive errors). *)
TooManyErrors == ctl.errors >= MaxErrors

StopOnErrors ==
  /\ pc = "stop" /\ ctl.stop = "none" /\ TooManyErrors
  /\ Continue(FailureDrain(ctl), "poll")
  /\ UNCHANGED <<job, batch, spent, clock>>

(* governor.decide: STOP on the hard rate limit, before anything else. *)
StopOnRate ==
  /\ pc = "stop" /\ ctl.stop = "none" /\ ~TooManyErrors /\ clock.limited
  /\ LET d == Transition(ctl, "DRAINING_BUDGET")
     IN  Continue(IF d.raised THEN d ELSE [d EXCEPT !.stop = "rate"], "poll")
  /\ UNCHANGED <<job, batch, spent, clock>>

StopForReview ==
  /\ pc = "stop" /\ ctl.stop = "none" /\ ~TooManyErrors /\ ~clock.limited /\ ctl.review
  /\ Leave("review") /\ UNCHANGED <<ctl, job, batch, spent, clock>>

Undecided == pc = "stop" /\ ctl.stop = "none" /\ ~TooManyErrors /\ ~clock.limited /\ ~ctl.review

(* Mutant: the budget drain never reaches its end. *)
BudgetDrainForever ==
  /\ Undecided /\ spent >= Budget
  /\ ctl' = FromRunning(ctl, "DRAINING_BUDGET") /\ pc' = "poll"
  /\ UNCHANGED <<job, batch, spent, clock, cut>>

(* _continue_global_budget_drain: no stop reason is set before the jobs in *)
(* flight have ended.                                                      *)
BudgetDrain(d) == IF Active # {} THEN d ELSE [d EXCEPT !.stop = "budget"]

(* DRAIN_TO_STOP *)
StopOnBudget ==
  /\ Undecided /\ spent >= Budget
  /\ ctl' = BudgetDrain(FromRunning(ctl, "DRAINING_BUDGET"))
  /\ pc' = "poll"
  /\ UNCHANGED <<job, batch, spent, clock, cut>>

StopOnDeadline ==
  /\ Undecided /\ spent < Budget /\ clock.late
  /\ LET d == Transition(ctl, "DRAINING_EPOCH")
     IN  Continue(IF d.raised THEN d ELSE [d EXCEPT !.stop = "epoch"], "poll")
  /\ UNCHANGED <<job, batch, spent, clock>>

(* _request_replan_when_cycle_idle *)
Dispatch ==
  /\ Undecided /\ spent < Budget /\ ~clock.late
  /\ ctl' = IF ctl.wave /\ ~ctl.needed /\ ctl.research = 0 /\ ctl.audits = 0 /\ Active = {}
          THEN Request([ctl EXCEPT !.wave = FALSE], FALSE) ELSE ctl
  /\ pc' = "director"
  /\ UNCHANGED <<job, batch, spent, clock, cut>>

(* TokenGovernor.may_start: what was spent and what is reserved. *)
ReservedFor(kind) == Estimate[kind] * Cardinality({s \in Active : Kind(s) = kind})
Reserved == ReservedFor("director") + ReservedFor("research") + ReservedFor("audit")

MayStart(kind) == spent + Reserved + Estimate[kind] <= Budget

(* _maybe_launch_director *)
DirectorWanted ==
  CanDispatch(ctl) /\ ctl.needed /\ ~ctl.seat /\ ~ctl.isolated /\ ctl.stop = "none"
  /\ job["director"] = "none"

(* Mutant: the launch does not take the watermark of its snapshot. *)
LaunchStale ==
  /\ pc = "director" /\ DirectorWanted /\ MayStart("director")
  /\ ctl' = [ctl EXCEPT !.needed = FALSE, !.seat = TRUE]
  /\ job' = [job EXCEPT !["director"] = "running"]
  /\ pc' = "audits"
  /\ UNCHANGED <<batch, spent, clock, cut>>

LaunchDirector ==
  /\ pc = "director" /\ DirectorWanted /\ MayStart("director")
  /\ ctl' = [ctl EXCEPT !.needed = FALSE, !.seat = TRUE, !.behind = FALSE]
  /\ job' = [job EXCEPT !["director"] = "running"]
  /\ pc' = "audits"
  /\ UNCHANGED <<batch, spent, clock, cut>>

DirectorRefused ==
  /\ pc = "director" /\ DirectorWanted /\ ~MayStart("director")
  /\ ctl' = [ctl EXCEPT !.needed = FALSE,
                    !.stop = IF ctl.research = 0 /\ ctl.audits = 0 THEN "starved" ELSE @]
  /\ pc' = "audits"
  /\ UNCHANGED <<job, batch, spent, clock, cut>>

(* The snapshot or the prompt of the Director cannot be written. *)
DirectorBroken ==
  /\ pc = "director" /\ DirectorWanted /\ MayStart("director")
  /\ Continue(FailureDrain(ctl), "audits")
  /\ UNCHANGED <<job, batch, spent, clock>>

Debounced ==
  /\ pc = "director" /\ DirectorWanted /\ pc' = "audits"
  /\ UNCHANGED <<ctl, job, batch, spent, clock, cut>>

NoDirector ==
  /\ pc = "director" /\ pc' = "audits"
  /\ ~DirectorWanted
  /\ UNCHANGED <<ctl, job, batch, spent, clock, cut>>

(* _launch_audits and _launch_research look at the phase only.  A task     *)
(* whose inputs are gone is dropped with a request.                        *)
FreeSlot(slots) == {s \in slots : job[s] = "none"}

LaunchAudit(s) ==
  /\ pc = "audits" /\ CanDispatch(ctl) /\ ctl.audits > 0
  /\ s \in FreeSlot(Audits) /\ MayStart("audit")
  /\ ctl' = [ctl EXCEPT !.audits = @ - 1]
  /\ job' = [job EXCEPT ![s] = "running"]
  /\ UNCHANGED <<pc, batch, spent, clock, cut>>

AuditsLaunched ==
  /\ pc = "audits"
  /\ ~CanDispatch(ctl) \/ ctl.audits = 0 \/ FreeSlot(Audits) = {} \/ ~MayStart("audit")
  /\ ctl' = IF CanDispatch(ctl) /\ ctl.audits > 0 /\ Active = {}
          THEN [ctl EXCEPT !.stop = "starved"] ELSE ctl
  /\ pc' = "research"
  /\ UNCHANGED <<job, batch, spent, clock, cut>>

(* Mutant: the phase is not looked at again before research is launched. *)
MayResearchAnyPhase == ~ctl.auditOnly /\ ctl.research > 0 /\ FreeSlot(Research) # {}

MayResearch == CanDispatch(ctl) /\ ~ctl.auditOnly /\ ctl.research > 0 /\ FreeSlot(Research) # {}

LaunchResearch(s) ==
  /\ pc = "research" /\ MayResearch /\ s \in FreeSlot(Research) /\ MayStart("research")
  /\ ctl' = [ctl EXCEPT !.research = @ - 1]
  /\ job' = [job EXCEPT ![s] = "running"]
  /\ UNCHANGED <<pc, batch, spent, clock, cut>>

RejectAtDispatch ==
  /\ pc = "research" /\ MayResearch
  /\ ctl' = Request([ctl EXCEPT !.research = @ - 1], FALSE)
  /\ UNCHANGED <<pc, job, batch, spent, clock, cut>>

ResearchLaunched ==
  /\ pc = "research" /\ ~(MayResearch /\ MayStart("research"))
  /\ ctl' = IF MayResearch /\ Active = {} THEN [ctl EXCEPT !.stop = "starved"] ELSE ctl
  /\ pc' = "idle"
  /\ UNCHANGED <<job, batch, spent, clock, cut>>

(* _pause_if_isolated_director_failure_is_idle, then the loop's own check  *)
(* that it has something to wait for.                                      *)
PauseIsolated ==
  /\ pc = "idle" /\ ctl.isolated /\ ctl.stop = "none" /\ Active = {}
  /\ ctl' = [FromRunning(ctl, "DRAINING_EPOCH")
             EXCEPT !.needed = FALSE, !.stop = "director"]
  /\ pc' = "poll"
  /\ UNCHANGED <<job, batch, spent, clock, cut>>

Idle(d) == Active = {} /\ d.research = 0 /\ d.audits = 0 /\ ~d.needed

Sleep ==
  /\ pc = "idle" /\ ~(ctl.isolated /\ ctl.stop = "none" /\ Active = {})
  /\ LET d == IF Idle(ctl) /\ ctl.batched
              THEN ReleaseBatch(ctl) ELSE ctl
     IN  IF Idle(d) THEN ctl' = [d EXCEPT !.failed = TRUE] /\ Leave("idle")
         ELSE ctl' = d /\ pc' = "poll" /\ UNCHANGED cut
  /\ UNCHANGED <<job, batch, spent, clock>>

(***************************************************************************)
(* The finally clause: terminal futures are collected first, what is still *)
(* running is cancelled and research is kept for the next epoch.           *)
(***************************************************************************)
LastCollection ==
  /\ pc = "last"
  /\ batch' = {s \in Slots : job[s] \in {"done", "cancelled"}}
  /\ ctl' = Gather(ctl, batch')
  /\ pc' = "final"
  /\ UNCHANGED <<job, spent, clock, cut>>

Collected ==
  /\ pc = "final" /\ batch = {} /\ pc' = "close"
  /\ UNCHANGED <<ctl, job, batch, spent, clock, cut>>

CancelActive ==
  /\ pc = "close"
  /\ cut' = [cut EXCEPT !.live = {s \in Slots : job[s] = "running"}]
  /\ ctl' = [ctl EXCEPT !.research =
             Grow(@, IF ctl.final THEN 0 ELSE Cardinality(Active \cap Research))]
  /\ job' = [s \in Slots |-> "none"]
  /\ pc' = "finish"
  /\ UNCHANGED <<batch, spent, clock>>

(* _finish: the phase is brought to an end that the failure allows. *)
FinalPhase(d) ==
  IF d.failed
  THEN IF d.phase \in {"RUNNING", "FINALIZING", "DRAINING_FAILURE"} THEN "SEALED" ELSE d.phase
  ELSE IF d.final \/ d.satisfied
  THEN IF d.phase = "FINALIZING" THEN "COMPLETED" ELSE d.phase
  ELSE IF d.phase \in {"RUNNING", "DRAINING_BUDGET", "DRAINING_EPOCH"} THEN "SEALED"
  ELSE d.phase

Finish ==
  /\ pc = "finish"
  /\ ctl' = [ctl EXCEPT !.phase = FinalPhase(ctl)]
  /\ cut' = [cut EXCEPT !.status =
               IF ~ctl.failed /\ FinalPhase(ctl) = "COMPLETED" /\ (ctl.resolved \/ ctl.satisfied)
               THEN "COMPLETED"
               ELSE IF cut.how = "interrupted" THEN "STOPPED" ELSE "PAUSED"]
  /\ pc' = "done"
  /\ UNCHANGED <<job, batch, spent, clock>>

LoopDone == pc = "done" /\ UNCHANGED loopvars

(* Every result a job of the slot can end with here. *)
AnyResult(s) ==
  IF job[s] = "cancelled" THEN {<<"error", 1>>}
  ELSE {o \in Outcomes(Kind(s)) : /\ o = "ending" => ctl.policy
                                  /\ o = "priorities" => ctl.audits > 0} \X (1..MaxUse[Kind(s)])

LoopStep ==
  \/ Collect
  \/ \E s \in batch : \E r \in AnyResult(s) : CollectOne(s, r[1], r[2])
  \/ NothingStale
  \/ StopOnTransport \/ StopWaits \/ StopNow \/ StopOnErrors \/ StopOnRate
  \/ StopForReview \/ StopOnBudget \/ StopOnDeadline \/ Dispatch
  \/ LaunchDirector \/ DirectorRefused \/ NoDirector
  \/ \E s \in Audits : LaunchAudit(s)
  \/ AuditsLaunched
  \/ \E s \in Research : LaunchResearch(s)
  \/ ResearchLaunched \/ PauseIsolated \/ Sleep
  \/ LastCollection \/ Collected \/ CancelActive \/ Finish

LoopNext ==
  \/ LoopStep
  \/ \E s \in Slots : JobEnds(s)
  \/ \E s \in Slots, answer \in {"done", "no", "raises"} : CancelStale(s, answer)
  \/ \E low \in BOOLEAN : Candidate(low)
  \/ Deadline \/ RateLimited \/ Violation \/ Interrupt
  \/ DirectorBroken \/ Debounced \/ RejectAtDispatch
  \/ LoopDone

LoopSpec == LoopInit /\ [][LoopNext]_loopvars
(* The loop is scheduled; time passes, and some running job ends by its    *)
(* timeout, which the loop sees each time it sleeps.                       *)
LoopFairSpec == /\ LoopSpec /\ WF_loopvars(LoopStep) /\ SF_loopvars(Deadline)
            /\ SF_loopvars(\E s \in Slots : JobEnds(s))

(***************************************************************************)
(* Properties.                                                             *)
(***************************************************************************)
Phases == DOMAIN AllowedPhases
Stops == {"none", "failure", "quota", "transport", "director", "policy", "final",
          "routes", "frontier", "rate", "budget", "epoch", "starved"}
LoopTypeOK ==
  /\ pc \in {"poll", "collect", "stop", "director", "audits", "research", "idle",
             "last", "final", "close", "finish", "done"}
  /\ ctl.phase \in Phases /\ ctl.stop \in Stops /\ ~ctl.raised
  /\ {ctl.research, ctl.audits} \subseteq 0..MaxQueue /\ ctl.retries \in 0..MaxRetries
  /\ job \in [Slots -> {"none", "running", "done", "cancelled"}]
  /\ batch \subseteq Active
  /\ cut.live \subseteq Slots

(* Jobs in flight are cut off only when the operator interrupts, the       *)
(* transport is gone, the run is stopped for review, or a handler raised:  *)
(* every other way to leave the epoch lets them end by themselves.         *)
CutOnlyWhen ==
  cut.live # {} => cut.how \in {"interrupted", "transport", "review", "error"}

(* A handler of the loop raises only after dispatch has left RUNNING, or   *)
(* when the loop was stopped for want of tokens without a phase for it.    *)
RaisesOnlyInDrain ==
  pc = "last" /\ cut.how = "error" => ctl.phase # "RUNNING" \/ ctl.stop = "starved"

(* The loop finds itself with nothing to wait for only in the audit-only   *)
(* mode of a completion policy, after a cancelled Director, or when it had *)
(* set a stop reason in the same turn.                                     *)
IdleOnlyWhen ==
  cut.how = "idle" => ctl.auditOnly \/ cut.orphan \/ ctl.stop # "none"

(* The seat of the Director is taken exactly while its job is registered,  *)
(* but for a Director that was cancelled as stale.                         *)
SeatIsJob == ~cut.orphan /\ pc \in {"poll", "stop", "director", "idle"} =>
               (ctl.seat <=> job["director"] # "none")

(* A campaign is completed only by a loop without an internal failure, and *)
(* it cuts off no job in flight unless it was interrupted, reviewed or     *)
(* without transport.                                                      *)
CompletedIsClean ==
  cut.status = "COMPLETED" =>
    /\ ~ctl.failed /\ ctl.phase = "COMPLETED"
    /\ cut.live # {} => cut.how \in {"interrupted", "transport", "review"}

Starts == \E s \in Slots : job[s] = "none" /\ job'[s] = "running"

(* A job is started only while the phase is RUNNING, and after a stop was  *)
(* decided only in the turn that found the tokens short.                   *)
DispatchGate == [][Starts => ctl.phase = "RUNNING" /\ ctl.stop \in {"none", "starved"}]_loopvars

(* A start never commits more tokens than the budget has: what was spent   *)
(* and every reservation fit in it.                                        *)
StartsFit == [][Starts => spent + Reserved' <= Budget]_loopvars

(* A request for a plan is answered or kept: it is withdrawn only by a     *)
(* Director that starts from it, by the end of the epoch's dispatch, by    *)
(* the isolation of a failed Director, or for want of tokens.              *)
ReplanKept ==
  [][ctl.needed /\ ~ctl'.needed =>
       \/ job["director"] = "none" /\ job'["director"] = "running" /\ ~ctl'.behind
       \/ ctl'.stop # "none" \/ ctl'.auditOnly \/ ctl'.isolated \/ ctl'.failed
       \/ ~MayStart("director")]_loopvars

(* Every epoch is left, whatever the jobs report.                          *)
LoopEnds == <>(pc = "done")

(* README.md: on budget exhaustion or internal failure the controller      *)
(* drains healthy in-flight work before sealing.                           *)
DrainKeepsHealthy ==
  cut.live # {} => cut.how \in {"interrupted", "transport", "review"}

(* ... and a stop for want of tokens is an orderly stop.                   *)
BudgetStopSeals ==
  pc = "done" /\ ctl.stop = "starved" /\ ~ctl.review /\ ctl.errors = 0 => ~ctl.failed

(* An epoch is left the way it should be: not with work in flight, not as   *)
(* completed after a failure, not by an exception or for want of anything  *)
(* to wait for, but in the cases its parts name.                           *)
LeftCleanly ==
  LoopTypeOK /\ CutOnlyWhen /\ RaisesOnlyInDrain /\ IdleOnlyWhen /\ SeatIsJob /\ CompletedIsClean

(* No job is started once the epoch drains, or on tokens it does not have. *)
StartsAllowed == DispatchGate /\ StartsFit

=============================================================================
