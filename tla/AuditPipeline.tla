----------------------------- MODULE AuditPipeline -----------------------------
(***************************************************************************)
(* Audits of candidates: AuditGate, AuditLeaseBook and the parts of        *)
(* AutonomousController that register candidates, queue, launch and accept *)
(* audits, recover them after a crash and import them into the next epoch. *)
(*                                                                         *)
(* Durable are the lease book of the campaign, the audit reports, the      *)
(* event log of the epoch, the checkpoint that may seed the next epoch and *)
(* what became of each candidate.  The gate, the queue, the running audits *)
(* and the retry counters are in memory.  The controller is one thread: an *)
(* answer is accepted in one go, but may be cut off between two writes.    *)
(*                                                                         *)
(* Candidates have the audit kinds of a proof: "proof" first, then         *)
(* "adversarial".  Each job has a thread of its own, so that the number of *)
(* a job stands for its auditor.                                           *)
(***************************************************************************)
EXTENDS Naturals, Sequences, FiniteSets, Functions

CONSTANTS
    Candidates,
    Required(_),    \* audits a candidate needs
    Bridged,        \* candidates whose audits depend on a semantic authority
    Derived,        \* candidates whose claim exists only because of them
    MaxAudit,       \* audits that run at a time
    RetryLimit,     \* automatic retries of a failed audit
    MaxEpochs,      \* bound
    MaxFaults,      \* bound: crashes, failed bootstraps and drifting artifacts
    MaxFailures,    \* bound: answers that are no verdict
    MaxChanges,     \* bound: changes of the semantic authority
    MaxOperator,    \* bound: audits the operator requests, and edits of
                    \* canonical sources between two epochs
    MaxTrouble      \* bound: all of these together

ASSUME RequiredAssumption == \A c \in Candidates : Required(c) \in Nat \ {0}
ASSUME LimitAssumption == MaxAudit \in Nat \ {0} /\ RetryLimit \in Nat

VARIABLES
    leases,      \* durable: AUDIT_LEASES.jsonl, the last lease of each kind
    reports,     \* durable: audits/<fingerprint>/*.json
    standing,    \* durable: what became of a candidate
    context,     \* durable: the planning context, counting its changes
    log,         \* durable: what EVENTS.jsonl of the epoch tells
    checkpoint,  \* durable: of the latest continuable epoch
    epoch, open, \* durable: the last epoch, and whether it is not sealed yet
    authority,   \* validator version and policy on disk
    mode,        \* phase of the controller
    gate,        \* results of every registered candidate
    queue,       \* pending_audits
    active,      \* running audit jobs
    retries,     \* audit_retry_counts
    parked,      \* candidates nobody will audit without being asked
    doing,       \* the answer that is being accepted
    jobs, faults, failures, operator          \* counters

ledgers == <<leases, reports, standing, context>>
history == <<log, checkpoint, epoch, open>>
memory == <<gate, queue, active, retries, parked, doing>>
counters == <<jobs, faults, failures, operator>>
vars == <<ledgers, history, authority, mode, memory, counters>>

Bearable == faults + failures + operator + authority.version + authority.policy < MaxTrouble

Kinds == {"proof", "adversarial"}
Verdicts == {"PASS", "REJECT", "UNRESOLVED"}

-----------------------------------------------------------------------------
(* AuditGate *)

Passes(s) == Cardinality({i \in DOMAIN s : s[i].verdict = "PASS"})
Rejected(s) == \E i \in DOMAIN s : s[i].verdict = "REJECT"
Terminal(c, s) == Rejected(s) \/ Passes(s) >= Required(c)

\* next_audit_kind
NextKind(c, s) ==
    IF Terminal(c, s) THEN "none" ELSE IF s = <<>> THEN "proof" ELSE "adversarial"

\* _semantic_audit_pass_is_current
Current(c, r) == r.verdict = "PASS" /\ c \in Bridged => r.authority = authority

\* Mutant: a PASS stays valid whatever happens to the authority.
EveryPassIsCurrent(c, s) == s

\* _discard_stale_semantic_audit_passes, after the first n results.
Keeping(c, s) ==
    LET kept[n \in 0 .. Len(s)] ==
            IF n = 0 THEN <<>>
            ELSE IF Current(c, s[n]) THEN Append(kept[n - 1], s[n]) ELSE kept[n - 1]
    IN  kept
WithoutStale(c, s) == Keeping(c, s)[Len(s)]

\* _restore_audit_result for one recorded result after the other, after the
\* first n: a PASS that is stale or not the next one is skipped, and record()
\* raises on any other result that is not the next one.
IsNext(c, results, r) == Current(c, r) /\ NextKind(c, results) = r.kind
Restoring(c, s) ==
    LET results[n \in 0 .. Len(s)] ==
            IF n = 0 THEN <<>>
            ELSE LET before == results[n - 1]
                 IN  IF IsNext(c, before, s[n]) THEN Append(before, s[n]) ELSE before
    IN  results
Restored(c, s) ==
    [results |-> Restoring(c, s)[Len(s)],
     ok |-> \A n \in DOMAIN s : \/ IsNext(c, Restoring(c, s)[n - 1], s[n])
                                \/ s[n].verdict = "PASS" /\ c \in Bridged]

-----------------------------------------------------------------------------
(* Leases and the queue *)

NoLease == [attempt |-> 0, status |-> "none"]
Waiting == {"PENDING", "RETRY_WAIT"}

Finished(verdict) ==
    CASE verdict = "PASS" -> "PASSED" [] verdict = "REJECT" -> "REJECTED"
      [] verdict = "UNRESOLVED" -> "UNRESOLVED"

\* Mutant: a kind of audit gets one lease, which is never renewed.
EnsuredOnce(l) == IF l.attempt = 0 THEN [attempt |-> 1, status |-> "PENDING"] ELSE l

\* ensure
Ensured(l) ==
    IF l.status \in Waiting \cup {"ACTIVE"} THEN l
    ELSE [attempt |-> l.attempt + 1, status |-> "PENDING"]

SetLease(ls, t, status) == [ls EXCEPT ![t.cand][t.kind].status = status]

\* Mutant: a lease that was ACTIVE in the crash stays so.
ReleasedNothing(ls) == ls

\* recover_stale_active
Released(ls) ==
    [c \in Candidates |-> [k \in Kinds |->
        IF ls[c][k].status = "ACTIVE" THEN [ls[c][k] EXCEPT !.status = "RETRY_WAIT"]
        ELSE ls[c][k]]]

SameLease(t, u) == t.cand = u.cand /\ t.kind = u.kind /\ t.attempt = u.attempt

Task(c, k, ls) ==
    [cand |-> c, kind |-> k, attempt |-> ls[c][k].attempt, authority |-> authority]

\* Mutant: only the pending audits are looked at.
QueuedOnly(t, running) == \E u \in queue : SameLease(t, u)

\* already_pending or already_active
Queued(t, running) == \E u \in queue \cup {j.task : j \in running} : SameLease(t, u)

\* _queue_next_audit for the candidates S, with results g, leases ls and the
\* audits that run.
Enqueue(S, g, ls, running) ==
    LET fresh == [c \in DOMAIN g |-> IF c \in S THEN WithoutStale(c, g[c]) ELSE g[c]]
        wanted == {c \in S : NextKind(c, fresh[c]) # "none"}
        now == [c \in Candidates |-> [k \in Kinds |->
                  IF c \in wanted /\ k = NextKind(c, fresh[c])
                  THEN Ensured(ls[c][k]) ELSE ls[c][k]]]
        tasks == {Task(c, NextKind(c, fresh[c]), now) : c \in wanted}
    IN  /\ gate' = fresh
        /\ leases' = now
        /\ queue' = queue \cup {t \in tasks : ~Queued(t, running)}
        /\ parked' = parked \ wanted

-----------------------------------------------------------------------------
(* Epochs *)

NoRecord == [c \in Candidates |-> <<>>]
NewLog == [processed |-> {}, recorded |-> NoRecord, imported |-> FALSE,
           retried |-> [c \in Candidates |-> 0], policy |-> authority.policy]

ForgetMemory ==
    /\ gate' = <<>> /\ queue' = {} /\ active' = {} /\ parked' = {}
    /\ retries' = [c \in Candidates |-> 0]
    /\ doing' = [at |-> "none"]

NewEpoch ==
    /\ mode = "down" /\ ~open /\ epoch < MaxEpochs
    /\ epoch = 0 \/ checkpoint.usable
    /\ epoch' = epoch + 1 /\ open' = TRUE
    /\ log' = NewLog
    /\ mode' = IF epoch = 0 THEN "booted" ELSE "import"
    /\ UNCHANGED <<ledgers, checkpoint, authority, memory, counters>>

\* recover(): the events of the epoch, then its leases, then the queue.  It
\* raises, and the attempt ends, when a result cannot be restored, and
\* before that when the policy is not the one the epoch has pinned.
ResumeEpoch ==
    LET restored == [c \in log.processed |-> Restored(c, log.recorded[c])] IN
    /\ mode = "down" /\ open
    /\ log.policy = authority.policy
    /\ \A c \in log.processed : restored[c].ok
    /\ Enqueue(log.processed, [c \in log.processed |-> restored[c].results],
               Released(leases), {})
    /\ retries' = log.retried
    /\ mode' = IF log.imported \/ epoch = 1 THEN "booted" ELSE "import"
    /\ UNCHANGED <<reports, standing, context, history, authority, active, doing, counters>>

Drifted == checkpoint.context # context
AuditsOpen ==
    \/ DOMAIN checkpoint.frontier # {}
    \/ \E c \in Candidates, k \in Kinds : leases[c][k].status \in Waiting \cup {"ACTIVE"}

\* _import_previous_epoch_checkpoint discards a planning state that is behind
\* the claim state, unless audits are open ...
DiscardCheckpoint ==
    /\ mode = "import" /\ Drifted /\ ~AuditsOpen
    /\ mode' = "booted"
    /\ UNCHANGED <<ledgers, history, authority, memory, counters>>

Importable ==
    /\ ~Drifted
    /\ \A c \in DOMAIN checkpoint.frontier : Restored(c, checkpoint.frontier[c]).ok

\* ... or restores leases and frontier, and then appends
\* EPOCH_CHECKPOINT_IMPORTED.
ImportCheckpoint ==
    LET frontier == checkpoint.frontier
        all == DOMAIN gate \cup DOMAIN frontier
        g == [c \in all |-> IF c \in DOMAIN frontier
                            THEN Restored(c, frontier[c]).results ELSE gate[c]]
    IN  /\ mode = "import" /\ Importable
        /\ Enqueue({c \in all : ~Terminal(c, g[c])}, g, Released(leases), {})
        /\ mode' = "imported"
        /\ UNCHANGED <<reports, standing, context, history, authority, active, retries,
                       doing, counters>>

ImportDone ==
    /\ mode = "imported"
    /\ log' = [log EXCEPT !.imported = TRUE]
    /\ mode' = "booted"
    /\ UNCHANGED <<ledgers, checkpoint, epoch, open, authority, memory, counters>>

StartWork ==
    /\ mode = "booted"
    /\ mode' = "running"
    /\ UNCHANGED <<ledgers, history, authority, memory, counters>>

\* The epoch is sealed with a "bootstrap failed:" reason, and no epoch starts
\* from its checkpoint.
SealUnusable(ls) ==
    /\ open' = FALSE /\ mode' = "down"
    /\ ForgetMemory
    /\ leases' = ls
    /\ UNCHANGED <<reports, standing, context, log, checkpoint, epoch, authority>>

ImportFails ==
    /\ mode = "import" /\ ~Importable /\ (Drifted => AuditsOpen)
    /\ SealUnusable(IF Drifted THEN leases ELSE Released(leases))
    /\ UNCHANGED counters

BootstrapFails ==
    /\ mode \in {"import", "imported", "booted"}
    /\ Bearable /\ faults < MaxFaults /\ faults' = faults + 1
    /\ SealUnusable(leases)
    /\ UNCHANGED <<jobs, failures, operator>>

\* A pause, a deadline or a stop: nothing is dispatched any more.
Drain ==
    /\ mode = "running" /\ doing.at = "none"
    /\ mode' = "draining"
    /\ UNCHANGED <<ledgers, history, authority, memory, counters>>

\* The compact snapshot keeps the candidates that are not terminal.
Frontier == [c \in {d \in DOMAIN gate : ~Terminal(d, gate[d])} |-> gate[c]]

SealEpoch ==
    /\ mode \in {"running", "draining"} /\ doing.at = "none"
    /\ checkpoint' = [usable |-> TRUE, frontier |-> Frontier, context |-> context]
    /\ open' = FALSE /\ mode' = "down"
    /\ ForgetMemory
    /\ UNCHANGED <<ledgers, log, epoch, authority, counters>>

Crash ==
    /\ mode # "down"
    /\ Bearable /\ faults < MaxFaults /\ faults' = faults + 1
    /\ mode' = "down"
    /\ ForgetMemory
    /\ UNCHANGED <<ledgers, history, authority, jobs, failures, operator>>

\* Somebody edits a canonical source between two epochs.
EditSources ==
    /\ mode = "down" /\ ~open /\ epoch \in 1 .. MaxEpochs - 1
    /\ Bearable /\ operator < MaxOperator /\ operator' = operator + 1
    /\ context' = context + 1
    /\ UNCHANGED <<leases, reports, standing, history, authority, mode, memory, jobs,
                   faults, failures>>

\* The validator is upgraded between two attempts; the policy pack may be
\* replaced at any time.
ChangeAuthority ==
    /\ Bearable /\ authority.version + authority.policy < MaxChanges
    /\ open \/ epoch < MaxEpochs
    /\ \/ mode = "down" /\ authority' = [authority EXCEPT !.version = @ + 1]
       \/ doing.at = "none" /\ authority' = [authority EXCEPT !.policy = @ + 1]
    /\ UNCHANGED <<ledgers, history, mode, memory, counters>>

-----------------------------------------------------------------------------
(* Candidates and audits *)

Idle == mode \in {"running", "draining"} /\ doing.at = "none"

\* Registered by any epoch before: the accepted ledger of the inbox.
Accepted == DOMAIN gate \cup {c \in Candidates : leases[c]["proof"] # NoLease}

\* _process_candidate_queue, for a candidate that passes its checks.
ProcessCandidate(c) ==
    /\ Idle /\ c \notin Accepted
    /\ context' = context + 1
    /\ log' = [log EXCEPT !.processed = @ \cup {c}]
    /\ Enqueue({c}, [d \in DOMAIN gate \cup {c} |-> IF d = c THEN <<>> ELSE gate[d]],
               leases, active)
    /\ UNCHANGED <<reports, standing, checkpoint, epoch, open, authority, mode, active,
                   retries, doing, counters>>

\* Steering: REQUEST_AUDIT.
RequestAudit(c) ==
    /\ Idle /\ Bearable /\ operator < MaxOperator /\ operator' = operator + 1
    /\ c \in DOMAIN gate /\ ~Terminal(c, gate[c])
    /\ Enqueue({c}, gate, leases, active)
    /\ UNCHANGED <<reports, standing, context, history, authority, mode, active, retries,
                   doing, jobs, faults, failures>>

\* _launch_audits
LaunchAudit(t) ==
    /\ mode = "running" /\ doing.at = "none"
    /\ t \in queue /\ Cardinality(active) < MaxAudit
    /\ leases[t.cand][t.kind].status \in Waiting
    /\ queue' = queue \ {t}
    /\ jobs' = jobs + 1
    /\ active' = active \cup {[job |-> jobs + 1, task |-> t]}
    /\ leases' = SetLease(leases, t, "ACTIVE")
    /\ UNCHANGED <<reports, standing, context, history, authority, mode, gate, retries,
                   parked, doing, faults, failures, operator>>

\* The artifacts of a candidate, or the evidence of its producer, are not what
\* was sealed: the candidate stays, and is left to the Director.
ArtifactDrift(c) ==
    /\ Bearable /\ faults < MaxFaults /\ faults' = faults + 1
    /\ parked' = parked \cup {c}

DriftAtLaunch(t) ==
    /\ mode = "running" /\ doing.at = "none" /\ t \in queue
    /\ Cardinality(active) < MaxAudit
    /\ ArtifactDrift(t.cand)
    /\ queue' = queue \ {t}
    /\ UNCHANGED <<ledgers, history, authority, mode, gate, active, retries, doing, jobs,
                   failures, operator>>

DriftAtCompletion(j) ==
    /\ Idle /\ j \in active
    /\ ArtifactDrift(j.task.cand)
    /\ active' = active \ {j}
    /\ leases' = SetLease(leases, j.task, "RETRY_WAIT")
    /\ gate' = [gate EXCEPT ![j.task.cand] = WithoutStale(j.task.cand, @)]
    /\ UNCHANGED <<reports, standing, context, history, authority, mode, queue, retries,
                   doing, jobs, failures, operator>>

\* The provider is lost or out of quota: the epoch ends, the audit is kept.
LoseProvider(j) ==
    /\ Idle /\ j \in active
    /\ Bearable /\ failures < MaxFailures /\ failures' = failures + 1
    /\ active' = active \ {j}
    /\ leases' = SetLease(leases, j.task, "RETRY_WAIT")
    /\ mode' = "draining"
    /\ UNCHANGED <<reports, standing, context, history, authority, gate, queue, retries,
                   parked, doing, jobs, faults, operator>>

\* Retry within the limit, or keep the candidate for the Director.
RetryOrPark(j, g, retryable) ==
    LET c == j.task.cand
    IN  /\ active' = active \ {j}
        /\ IF retryable /\ retries[c] < RetryLimit
             THEN /\ Enqueue({c}, g, SetLease(leases, j.task, "RETRY_WAIT"), active')
                  /\ retries' = [retries EXCEPT ![c] = @ + 1]
                  /\ log' = [log EXCEPT !.retried[c] = IF @ > retries[c] THEN @
                                                       ELSE retries[c] + 1]
             ELSE /\ gate' = g
                  /\ leases' = SetLease(leases, j.task, "RETRY_WAIT")
                  /\ parked' = parked \cup {c}
                  /\ UNCHANGED <<queue, retries, log>>

\* The job fails, or its answer is for another candidate.
AuditFails(j) ==
    /\ Idle /\ j \in active
    /\ Bearable /\ failures < MaxFailures /\ failures' = failures + 1
    /\ \E retryable \in BOOLEAN : RetryOrPark(j, gate, retryable)
    /\ UNCHANGED <<reports, standing, context, checkpoint, epoch, open, authority, mode,
                   doing, jobs, faults, operator>>

\* A verdict counts when the semantic context is the one of the assignment
\* and the gate expects an audit of this kind.
Valid(t, s) ==
    /\ t.cand \in Bridged => t.authority = authority
    /\ NextKind(t.cand, s) = t.kind

Completed(j) == [gate EXCEPT ![j.task.cand] = WithoutStale(j.task.cand, @)]

InvalidVerdict(j) ==
    /\ Idle /\ j \in active
    /\ ~Valid(j.task, Completed(j)[j.task.cand])
    /\ RetryOrPark(j, Completed(j), ~Terminal(j.task.cand, Completed(j)[j.task.cand]))
    /\ UNCHANGED <<reports, standing, context, checkpoint, epoch, open, authority, mode,
                   doing, counters>>

\* _accept_audit_result: the gate and the lease, ...
AcceptVerdict(j, verdict) ==
    LET t == j.task
        r == [job |-> j.job, kind |-> t.kind, attempt |-> t.attempt,
              authority |-> t.authority, verdict |-> verdict]
        g == Completed(j)
    IN  /\ Idle /\ j \in active /\ Valid(t, g[t.cand])
        /\ active' = active \ {j}
        /\ gate' = [g EXCEPT ![t.cand] = Append(@, r)]
        /\ leases' = SetLease(leases, t, Finished(verdict))
        /\ retries' = [retries EXCEPT ![t.cand] = 0]
        /\ doing' = [at |-> "report", cand |-> t.cand, result |-> r]
        /\ UNCHANGED <<reports, standing, context, history, authority, mode, queue, parked,
                       counters>>

\* ... the report, ...
WriteReport ==
    /\ doing.at = "report"
    /\ reports' = [reports EXCEPT ![doing.cand] = Append(@, doing.result)]
    /\ doing' = [doing EXCEPT !.at = "event"]
    /\ UNCHANGED <<leases, standing, context, history, authority, mode, gate, queue, active,
                   retries, parked, counters>>

\* ... AUDIT_RECORDED, ...
RecordVerdict ==
    /\ doing.at = "event"
    /\ log' = [log EXCEPT !.recorded[doing.cand] = Append(@, doing.result)]
    /\ doing' = [doing EXCEPT !.at = "act"]
    /\ UNCHANGED <<ledgers, checkpoint, epoch, open, authority, mode, gate, queue, active,
                   retries, parked, counters>>

\* ... and what follows from it.
ActRejected(c) ==
    /\ Rejected(gate[c])
    /\ standing' = IF standing[c] = "promoted" THEN standing
                   ELSE [standing EXCEPT ![c] = "rejected"]
    /\ context' = IF c \in Derived /\ standing[c] = "none" THEN context + 1 ELSE context
    /\ UNCHANGED <<mode, gate, leases, queue, parked>>

ActUnresolved(c) ==
    /\ doing.result.verdict = "UNRESOLVED"
    /\ parked' = parked \cup {c}
    /\ UNCHANGED <<standing, context, mode, gate, leases, queue>>

Approved(c) ==
    doing.result.verdict = "PASS" /\ Terminal(c, gate[c]) /\ ~Rejected(gate[c])

\* AUDITED_CLAIM_TRANSITION; the claim may be the final one.
Promote(c) ==
    /\ Approved(c)
    /\ standing' = [standing EXCEPT ![c] = "promoted"]
    /\ context' = context + 1
    /\ mode' \in {mode, "draining"}
    /\ UNCHANGED <<gate, leases, queue, parked>>

\* A conflict with a trusted claim, a semantic gate that blocks, or a
\* verification that fails, which ends the epoch.
Withhold(c) ==
    /\ Approved(c)
    /\ standing' = [standing EXCEPT ![c] = "withheld"]
    /\ mode' \in {mode, "draining"}
    /\ UNCHANGED <<context, gate, leases, queue, parked>>

ActAgain(c) ==
    /\ doing.result.verdict = "PASS" /\ ~Terminal(c, gate[c])
    /\ Enqueue({c}, gate, leases, active)
    /\ UNCHANGED <<standing, context, mode>>

ActOnVerdict ==
    /\ doing.at = "act"
    /\ LET c == doing.cand
       IN  ActRejected(c) \/ ActUnresolved(c) \/ ActAgain(c)
           \/ Promote(c) \/ Withhold(c)
    /\ doing' = [at |-> "none"]
    /\ UNCHANGED <<reports, history, authority, active, retries, counters>>

-----------------------------------------------------------------------------

Init ==
    /\ leases = [c \in Candidates |-> [k \in Kinds |-> NoLease]]
    /\ reports = NoRecord
    /\ standing = [c \in Candidates |-> "none"]
    /\ context = 0
    /\ epoch = 0 /\ open = FALSE
    /\ authority = [version |-> 0, policy |-> 0]
    /\ log = NewLog
    /\ checkpoint = [usable |-> FALSE, frontier |-> <<>>, context |-> 0]
    /\ mode = "down"
    /\ gate = <<>> /\ queue = {} /\ active = {} /\ parked = {}
    /\ retries = [c \in Candidates |-> 0]
    /\ doing = [at |-> "none"]
    /\ jobs = 0 /\ faults = 0 /\ failures = 0 /\ operator = 0

\* What the controller does with an answer it has accepted.
FollowUp == WriteReport \/ RecordVerdict \/ ActOnVerdict

Answer(j) ==
    \/ \E verdict \in Verdicts : AcceptVerdict(j, verdict)
    \/ InvalidVerdict(j) \/ AuditFails(j) \/ LoseProvider(j) \/ DriftAtCompletion(j)

Boot == NewEpoch \/ ResumeEpoch \/ DiscardCheckpoint \/ ImportCheckpoint \/ ImportDone
        \/ ImportFails \/ StartWork

Next ==
    \/ Boot \/ BootstrapFails \/ Drain \/ SealEpoch \/ Crash
    \/ ChangeAuthority \/ EditSources
    \/ \E c \in Candidates : ProcessCandidate(c) \/ RequestAudit(c)
    \/ \E t \in queue : LaunchAudit(t) \/ DriftAtLaunch(t)
    \/ \E j \in active : Answer(j)
    \/ FollowUp

Spec == Init /\ [][Next]_vars

\* The controller does not stand still while something is queued, active or
\* unanswered: it launches, an audit ends (its turn has a deadline), and its
\* answer is dealt with.
Fairness ==
    WF_vars(\/ \E t \in queue : LaunchAudit(t)
            \/ \E j \in active : Answer(j)
            \/ FollowUp)

FairSpec == Spec /\ Fairness

-----------------------------------------------------------------------------
(* Properties *)

Statuses == Waiting \cup {"none", "ACTIVE", "PASSED", "REJECTED", "UNRESOLVED"}
Authorities == [version : Nat, policy : Nat]
Tasks == [cand : Candidates, kind : Kinds, attempt : Nat, authority : Authorities]
Results == [job : Nat, kind : Kinds, attempt : Nat, authority : Authorities,
            verdict : Verdicts]
IsGate(g) == DOMAIN g \subseteq Candidates /\ \A c \in DOMAIN g : g[c] \in Seq(Results)

\* The type of every variable.
TypeOK ==
    /\ leases \in [Candidates -> [Kinds -> [attempt : Nat, status : Statuses]]]
    /\ reports \in [Candidates -> Seq(Results)]
    /\ standing \in [Candidates -> {"none", "promoted", "withheld", "rejected"}]
    /\ {context, epoch, jobs, faults, failures, operator} \subseteq Nat
    /\ open \in BOOLEAN
    /\ authority \in Authorities
    /\ log \in [processed : SUBSET Candidates, recorded : [Candidates -> Seq(Results)],
                imported : BOOLEAN, retried : [Candidates -> Nat], policy : Nat]
    /\ checkpoint.usable \in BOOLEAN /\ IsGate(checkpoint.frontier)
    /\ mode \in {"down", "import", "imported", "booted", "running", "draining"}
    /\ IsGate(gate)
    /\ queue \subseteq Tasks
    /\ \A j \in active : j.job \in 1 .. jobs /\ j.task \in Tasks
    /\ retries \in [Candidates -> Nat]
    /\ parked \subseteq Candidates
    /\ doing.at \in {"none", "report", "event", "act"}

\* Whatever is retried, requested again, made stale, lost in a crash or
\* imported, a promotion rests on the reports of as many different auditors
\* as the candidate requires, under one authority if it has bridges, and no
\* assignment votes twice ("cannot create duplicate trust votes").
Votes == [c \in Candidates |->
             {[auditor |-> r.job, assignment |-> <<r.kind, r.attempt>>,
               verdict |-> r.verdict, authority |-> r.authority] : r \in Range(reports[c])}]
Promise == INSTANCE IndependentAudits WITH votes <- Votes
IndependentVotes == Promise!Spec

\* While a controller is up, leases, queue and running audits agree: a lease
\* is ACTIVE when exactly one job works on it, and queued audits wait.
LeasesHeld ==
    mode \in {"imported", "booted", "running", "draining"} =>
        /\ \A i, j \in active : SameLease(i.task, j.task) => i = j
        /\ \A t, u \in queue : SameLease(t, u) => t = u
        /\ \A t \in queue : leases[t.cand][t.kind].attempt = t.attempt
                            /\ leases[t.cand][t.kind].status \in Waiting
        /\ {l \in Candidates \X Kinds : leases[l[1]][l[2]].status = "ACTIVE"}
             = {<<j.task.cand, j.task.kind>> : j \in active}

\* A candidate that still needs an audit has one queued or running, unless
\* the last one was inconclusive, failed for good or met changed artifacts.
NothingStuck ==
    mode = "running" /\ doing.at = "none" =>
        \A c \in DOMAIN gate :
            \/ Terminal(c, gate[c]) \/ c \in parked
            \/ \E t \in queue \cup {j.task : j \in active} : t.cand = c

\* Every candidate comes to a decision, or is left to the Director, as long
\* as the epoch runs.
Settled(c) == c \in DOMAIN gate /\ (Terminal(c, gate[c]) \/ c \in parked)
AuditsSettle ==
    \A c \in Candidates :
        mode = "running" /\ c \in DOMAIN gate ~> Settled(c) \/ mode # "running"

\* "pending work and audit leases can be reconstructed": a resumed epoch
\* still has every candidate it imported.
FrontierKept ==
    mode = "running" /\ log.imported => DOMAIN checkpoint.frontier \subseteq DOMAIN gate

\* A controller that is up has acted on every final verdict it holds.
VerdictsActedOn ==
    mode = "running" /\ doing.at = "none" =>
        \A c \in DOMAIN gate : Terminal(c, gate[c]) => standing[c] # "none"

\* "retain historical evidence and require fresh audit": a change of the
\* authority costs passes, and never the checkpoint.
FrontierRestorable ==
    mode = "import" =>
        \A c \in DOMAIN checkpoint.frontier : Restored(c, checkpoint.frontier[c]).ok

\* "candidate audit state is terminal": a rejected candidate is not audited
\* any more, and never promoted.
RejectionIsFinal ==
    [][\A c \in Candidates : standing[c] = "rejected" => standing'[c] = "rejected"]_vars

\* An epoch that has taken in candidates is not ended by the import it went
\* through when it started.
ImportedOnce == mode = "import" /\ log.processed # {} => ~(Drifted /\ AuditsOpen)

\* Gate, leases, queue and running audits never disagree in a way that would
\* run an audit twice or leave a candidate without one.
AuditsSound == TypeOK /\ LeasesHeld /\ NothingStuck

=============================================================================
