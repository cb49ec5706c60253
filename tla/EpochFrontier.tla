---------------------------- MODULE EpochFrontier ----------------------------
(***************************************************************************)
(* The research frontier as it is handed from one epoch of a campaign to   *)
(* the next, and the route ledger that decides which part of it may run.   *)
(*                                                                         *)
(* Each task belongs to a route.  The campaign's ledger holds the last     *)
(* record of every route; a FAILED or PAUSED route is closed until its     *)
(* retry condition is satisfied, and the tasks of a closed route are taken *)
(* out of the queue (TASK_DEFERRED_BY_ROUTE_POLICY) until a Director       *)
(* admits them again.  A job that reaches its turn bound leaves a          *)
(* checkpoint; its continuation waits for the next epoch.  The satisfied   *)
(* conditions are in the controller's memory only.                         *)
(*                                                                         *)
(* A task is a pair <<t, e>>: the task t as a Director proposed it (e = 0) *)
(* or its continuation checkpointed in epoch e.  ResearchJobs has the jobs *)
(* of one epoch in detail, CampaignEpoch the records of a campaign,        *)
(* AuditPipeline the audits in the checkpoint.                             *)
(***************************************************************************)
EXTENDS Naturals, FiniteSets

CONSTANTS
  Tasks,            \* what Directors propose
  Routes, RouteOf,  \* route families, and the one of each task
  MaxEpochs,        \* bound on the epochs of the campaign
  MaxCrashes,       \* bound on the crashes of the controller
  MaxDisturbances   \* bound on instructions of the operator and on edits of the
                    \* canonical context and of the inputs that a run pins

ASSUME EpochFrontierAssumption ==
  /\ RouteOf \in [Tasks -> Routes]
  /\ MaxEpochs \in Nat \ {0} /\ MaxCrashes \in Nat /\ MaxDisturbances \in Nat

VARIABLES
  at,      \* down, import, preflight, run, drain, failed (the import raised)
  mem,     \* the controller's memory
  log,     \* durable: the open epoch's pinned inputs and events
  epoch,   \* epochs started; the last one is open or sealed
  ckpt,    \* the newest usable checkpoint, until it is imported: then nothing reads
           \* it again before the next one replaces it
  ledger,  \* durable: the last record of each route
  inbox,   \* durable: an operator's instruction that is not applied yet
  asset,   \* durable: an external asset was ingested and applied
  world,   \* canonical context, pinned inputs, and how often something disturbed
  shelf,   \* tasks whose last event is TASK_DEFERRED_BY_ROUTE_POLICY
  owed,    \* history: accepted tasks without an outcome
  paused   \* history: routes the operator paused and did not resume

vars == <<at, mem, log, epoch, ckpt, ledger, inbox, asset, world, shelf, owed, paused>>

Ids == Tasks \X (0..MaxEpochs)
Route(i) == RouteOf[i[1]]
NextEpoch(e) == <<"next_epoch", e>>
Evidence == <<"new_evidence", 0>>
Asset == <<"asset", 0>>
Resumed == <<"resume", 0>>
Unconditional == <<"none", 0>>
Conditions == {Evidence, Asset, Resumed, Unconditional} \cup {NextEpoch(e) : e \in 1..MaxEpochs}

Empty == [pending |-> {}, deferred |-> {}, active |-> {}, known |-> {}, sat |-> {},
          todo |-> {}, release |-> 0]
NoLog == [open |-> FALSE, job |-> [i \in Ids |-> "no"], cont |-> {}, imported |-> FALSE,
          drift |-> FALSE, release |-> 0]
NoCheckpoint == [epoch |-> 0, pending |-> {}, conts |-> {}, cut |-> {}, evidence |-> FALSE,
                 context |-> 0]

Init ==
  /\ at = "down" /\ mem = Empty /\ log = NoLog /\ epoch = 0 /\ ckpt = NoCheckpoint
  /\ ledger = [r \in Routes |-> [status |-> "none", cond |-> Unconditional]]
  /\ inbox = <<>> /\ asset = FALSE
  /\ world = [context |-> 0, release |-> 0, disturbed |-> 0, crashes |-> 0]
  /\ shelf = {} /\ owed = {} /\ paused = {}

(***************************************************************************)
(* The route ledger.                                                       *)
(***************************************************************************)
Closed == {"FAILED", "PAUSED"}

(* route_is_retryable: the last record of the route decides. *)
Retryable(r, led, sat) ==
  led[r].status \in Closed => led[r].cond # Unconditional /\ led[r].cond \in sat
Recorded(r, status, cond) == [ledger EXCEPT ![r] = [status |-> status, cond |-> cond]]

(* Mutant: what is running is taken for queued. *)
ShutAll(m, led) == {i \in m.pending \cup m.active : ~Retryable(Route(i), led, m.sat)}

(* _defer_nonretryable_pending_routes: the tasks of closed routes leave    *)
(* the queue, and may be proposed again.                                   *)
Shut(m, led) == {i \in m.pending : ~Retryable(Route(i), led, m.sat)}
Deferring(m, led) == [m EXCEPT !.pending = @ \ Shut(m, led), !.known = @ \ Shut(m, led)]

Defer(m, led) ==
  /\ mem' = Deferring(m, led)
  /\ shelf' = shelf \cup Shut(m, led)
  /\ owed' = owed \ Shut(m, led)

(* _unsatisfied_route_retry_conditions *)
Waits(m, led) == {r \in Routes : led[r].cond # Unconditional /\ ~Retryable(r, led, m.sat)}

(***************************************************************************)
(* The start of a process.                                                 *)
(***************************************************************************)
Hydrated == IF asset THEN {Asset} ELSE {}

(* The validated planning context of the checkpoint is not the current one. *)
Drifted == ckpt.context # world.context

(* run, for a fresh epoch: the inputs are pinned, the predecessor is the   *)
(* newest usable checkpoint, and the epoch is entered in the ledger.       *)
NewEpoch ==
  /\ at = "down" /\ ~log.open /\ epoch < MaxEpochs
  /\ epoch' = epoch + 1
  /\ log' = [NoLog EXCEPT !.open = TRUE, !.release = world.release,
                          !.imported = ckpt.epoch = 0,
                          !.drift = Drifted]
  /\ mem' = [Empty EXCEPT !.sat = Hydrated, !.release = world.release,
                          !.todo = ckpt.pending \cup ckpt.conts]
  /\ at' = IF ckpt.epoch = 0 THEN "preflight" ELSE "import"
  /\ UNCHANGED <<ckpt, ledger, inbox, asset, world, shelf, owed, paused>>

(* _pin_run_inputs: configuration, policy, schemas and runtime must be the *)
(* ones of the manifest.  A refused resume changes nothing.                *)
SameRelease == world.release = log.release

(* Mutant: recover forgets the continuations.                              *)
RecoveredWithout(stale) ==
  [Empty EXCEPT !.pending = {i \in Ids : log.job[i] = "accepted"} \cup stale,
                !.known = {i \in Ids : log.job[i] # "no"} \cup log.cont,
                !.sat = Hydrated, !.release = world.release]

(* recover: the queue from the events of the open epoch.  Of the jobs that *)
(* were cut off those with transport retries left are queued again.        *)
Recovered(stale) ==
  LET pending == {i \in Ids : log.job[i] = "accepted"} \cup stale
  IN  [Empty EXCEPT !.pending = pending,
                    !.deferred = {i \in log.cont : log.job[i] = "no" /\ i \notin pending},
                    !.known = {i \in Ids : log.job[i] # "no"} \cup log.cont,
                    !.sat = Hydrated, !.release = world.release]

Resume ==
  /\ at = "down" /\ log.open /\ SameRelease
  /\ LET cut == {i \in Ids : log.job[i] = "started"}
     IN  \E stale \in SUBSET cut :
           /\ mem' = [Recovered(stale) EXCEPT
                        !.todo = IF log.imported THEN {} ELSE ckpt.pending \cup ckpt.conts]
           /\ log' = [log EXCEPT !.job = [i \in Ids |-> IF i \in stale THEN "accepted"
                                            ELSE IF i \in cut THEN "ended" ELSE @[i]]]
           /\ owed' = owed \ (cut \ stale)
           /\ shelf' = shelf \ Recovered(stale).pending
  /\ at' = IF log.imported THEN "preflight" ELSE "import"
  /\ UNCHANGED <<epoch, ckpt, ledger, inbox, asset, world, paused>>

(***************************************************************************)
(* _import_previous_epoch_checkpoint.                                      *)
(***************************************************************************)
(* The canonical context is not the one of the checkpoint: the planning    *)
(* state is discarded, unless candidates are being audited.  The event log *)
(* does not say that the import is over.                                   *)
DiscardPlan ==
  /\ at = "import" /\ log.drift /\ ~ckpt.evidence
  /\ at' = "preflight" /\ mem' = [mem EXCEPT !.todo = {}]
  /\ owed' = owed \ (mem.todo \ mem.pending)
  /\ UNCHANGED <<log, epoch, ckpt, ledger, inbox, asset, world, shelf, paused>>

UnsafeDrift ==
  /\ at = "import" /\ log.drift /\ ckpt.evidence
  /\ at' = "failed"
  /\ UNCHANGED <<mem, log, epoch, ckpt, ledger, inbox, asset, world, shelf, owed, paused>>

(* The pending tasks come first, then the continuations. *)
Importing(i) ==
  /\ at = "import" /\ ~log.drift /\ i \in mem.todo
  /\ i \in ckpt.conts => mem.todo \cap ckpt.pending = {}
Done(i) == [mem EXCEPT !.todo = @ \ {i}]
Satisfied(i) == IF i \in ckpt.conts THEN mem.sat \cup {NextEpoch(ckpt.epoch)} ELSE mem.sat

(* A task with this id is queued already. *)
SkipImport(i) ==
  /\ Importing(i) /\ i \in mem.pending /\ i \notin ckpt.conts
  /\ mem' = Done(i)
  /\ UNCHANGED <<at, log, epoch, ckpt, ledger, inbox, asset, world, shelf, owed, paused>>
Collides(i) ==
  /\ Importing(i) /\ i \in mem.pending /\ i \in ckpt.conts
  /\ at' = "failed"
  /\ UNCHANGED <<mem, log, epoch, ckpt, ledger, inbox, asset, world, shelf, owed, paused>>

DeferImport(i) ==
  /\ Importing(i) /\ i \notin mem.pending /\ ~Retryable(Route(i), ledger, Satisfied(i))
  /\ mem' = [Done(i) EXCEPT !.sat = Satisfied(i)]
  /\ shelf' = shelf \cup {i} /\ owed' = owed \ {i}
  /\ UNCHANGED <<at, log, epoch, ckpt, ledger, inbox, asset, world, paused>>

(* A continuation opens its route before it is accepted. *)
Reopened(i) == IF i \in ckpt.conts THEN Recorded(Route(i), "ACTIVE", Unconditional) ELSE ledger
Import(i) ==
  /\ Importing(i) /\ i \notin mem.pending /\ Retryable(Route(i), ledger, Satisfied(i))
  /\ ledger' = Reopened(i)
  /\ mem' = [Done(i) EXCEPT !.sat = Satisfied(i), !.pending = @ \cup {i}, !.known = @ \cup {i}]
  /\ log' = [log EXCEPT !.job[i] = "accepted"]
  /\ shelf' = shelf \ {i}
  /\ UNCHANGED <<at, epoch, ckpt, inbox, asset, world, owed, paused>>

(* The controller dies.  A task that the loss of a provider put back into  *)
(* the queue is not among what recover reads (ResearchJobs!RequeuedKept).  *)
Disturbing == world.disturbed < MaxDisturbances
Die == /\ world.crashes < MaxCrashes /\ world' = [world EXCEPT !.crashes = @ + 1]
       /\ at' = "down" /\ mem' = Empty
       /\ owed' = owed \ {i \in mem.pending : log.job[i] = "ended"}
ImportTorn(i) ==
  /\ Importing(i) /\ i \in ckpt.conts /\ i \notin mem.pending
  /\ Retryable(Route(i), ledger, Satisfied(i))
  /\ ledger' = Reopened(i) /\ Die
  /\ UNCHANGED <<log, epoch, ckpt, inbox, asset, shelf, paused>>

(* The events of a paused epoch name the tasks whose jobs its stop         *)
(* cancelled: such a task is imported even if its route was closed at the  *)
(* seal or a moment ago, when the route is open by now.  What is still     *)
(* closed is deferred once more.                                           *)
Rescuable == {i \in ckpt.cut \ mem.pending : Retryable(Route(i), ledger, mem.sat)}
ImportCut(i) ==
  /\ at = "import" /\ ~log.drift /\ mem.todo = {} /\ i \in Rescuable
  /\ mem' = [mem EXCEPT !.pending = @ \cup {i}, !.known = @ \cup {i}]
  /\ log' = [log EXCEPT !.job[i] = "accepted"]
  /\ shelf' = shelf \ {i} /\ owed' = owed \cup {i}
  /\ UNCHANGED <<at, epoch, ckpt, ledger, inbox, asset, world, paused>>

(* The candidates follow, whose evidence satisfies its condition, and the  *)
(* event that ends the import.                                             *)
ImportDone ==
  /\ at = "import" /\ ~log.drift /\ mem.todo = {} /\ Rescuable = {}
  /\ mem' = [mem EXCEPT !.sat = @ \cup (IF ckpt.evidence THEN {Evidence} ELSE {})]
  /\ log' = [log EXCEPT !.imported = TRUE] /\ ckpt' = NoCheckpoint
  /\ at' = "preflight"
  /\ UNCHANGED <<epoch, ledger, inbox, asset, world, shelf, owed, paused>>

(* The first snapshot of the attempt, then the backend. *)
Preflight ==
  /\ at = "preflight" /\ inbox = <<>>
  /\ at' = "run" /\ Defer(mem, ledger)
  /\ UNCHANGED <<log, epoch, ckpt, ledger, inbox, asset, world, paused>>

(***************************************************************************)
(* The operator.                                                           *)
(***************************************************************************)
Instruct(kind, r) ==
  /\ inbox = <<>> /\ Disturbing
  /\ world' = [world EXCEPT !.disturbed = @ + 1]
  /\ inbox' = <<kind, r>>
  /\ UNCHANGED <<at, mem, log, epoch, ckpt, ledger, asset, shelf, owed, paused>>

Instructed(kind) == inbox # <<>> /\ inbox[1] = kind /\ at \in {"preflight", "run", "drain"}
Applied == inbox' = <<>> /\ UNCHANGED <<at, log, epoch, ckpt, world>>

(* _poll_campaign_inputs: PAUSE_ROUTE, RESUME_ROUTE, and an ingested asset.*)
PollPause ==
  /\ Instructed("PAUSE_ROUTE")
  /\ ledger' = Recorded(inbox[2], "PAUSED", Resumed)
  /\ Defer(mem, ledger') /\ paused' = paused \cup {inbox[2]}
  /\ Applied /\ UNCHANGED asset
PollResume ==
  /\ Instructed("RESUME_ROUTE")
  /\ ledger' = Recorded(inbox[2], "ACTIVE", Unconditional)
  /\ mem' = [mem EXCEPT !.sat = @ \cup {Resumed}]
  /\ paused' = paused \ {inbox[2]}
  /\ Applied /\ UNCHANGED <<asset, shelf, owed>>
PollAsset ==
  /\ Instructed("ASSET")
  /\ mem' = [mem EXCEPT !.sat = @ \cup {Asset}] /\ asset' = TRUE
  /\ Applied /\ UNCHANGED <<ledger, shelf, owed, paused>>

(* The controller dies before the instruction is marked as applied. *)
PollTorn ==
  /\ Instructed("PAUSE_ROUTE") \/ Instructed("RESUME_ROUTE")
  /\ ledger' = IF inbox[1] = "PAUSE_ROUTE" THEN Recorded(inbox[2], "PAUSED", Resumed)
               ELSE Recorded(inbox[2], "ACTIVE", Unconditional)
  /\ Die
  /\ UNCHANGED <<log, epoch, ckpt, inbox, asset, shelf, paused>>

(***************************************************************************)
(* The Director's plan.                                                    *)
(***************************************************************************)
Asked == Routes \X ({"OPEN", "PAUSE", "RESUME", "RETRY"} \X {Unconditional, Asset, Evidence})

(* _apply_director_route_update: a closed route is opened only on its own  *)
(* condition, which must be satisfied, and a pause is not rewritten.       *)
Allowed(u) ==
  LET last == ledger[u[1]]
      cond == u[2][2]
  IN  CASE u[2][1] = "OPEN"   -> cond = Unconditional /\ last.status = "none"
        [] u[2][1] = "PAUSE"  -> last.status \in {"none", "ACTIVE"}
        [] u[2][1] = "RESUME" -> last.status = "PAUSED" /\ cond = last.cond /\ cond \in mem.sat
        [] u[2][1] = "RETRY"  -> last.status = "FAILED" /\ cond = last.cond /\ cond \in mem.sat
(* What is refused changes nothing, and only whether it was a pause is     *)
(* looked at; a pause that awaits evidence is the one a job records.       *)
Updates == {<<>>} \cup {u \in Asked : /\ Allowed(u) \/ u[2] \in {<<"PAUSE", Asset>>, <<"OPEN", Asset>>}
                                     /\ u[2] # <<"PAUSE", Evidence>>}
Updated(u) ==
  IF u = <<>> THEN ledger
  ELSE IF ~Allowed(u) THEN ledger
  ELSE IF u[2][1] = "PAUSE" THEN Recorded(u[1], "PAUSED", u[2][2])
  ELSE Recorded(u[1], "ACTIVE", Unconditional)

(* _accept_director_result: not what waits for the next epoch, not on a    *)
(* closed route, and no identity that was seen in this epoch.              *)
Admissible(i) ==
  /\ i \notin mem.deferred /\ i \notin mem.known
  /\ Retryable(Route(i), ledger, mem.sat)

Proposals == {{}} \cup {{i} : i \in (Tasks \X {0}) \cup shelf \cup mem.deferred}

(* Tasks are admitted under the routes as they were, then the routes are   *)
(* updated and what is on a closed route leaves the queue again.  The      *)
(* epoch goes on, also because the plan was made for an older state, or is *)
(* left to the next one, or there is nothing to do.                        *)
Plan ==
  /\ at = "run" /\ inbox = <<>>
  /\ \E p \in Proposals, u \in Updates :
     LET accepted == {i \in p : Admissible(i)}
         led == Updated(u)
         queued == [mem EXCEPT !.pending = @ \cup accepted, !.known = @ \cup accepted]
         kept == Deferring(queued, led)
         runnable == accepted \cap kept.pending # {}
         healthy == kept.pending # {} \/ mem.active # {}
         handoff == /\ mem.deferred # {} /\ ~healthy /\ ~runnable
                    /\ p \subseteq mem.deferred
         waiting == /\ ~runnable /\ ~healthy /\ ~handoff /\ Waits(kept, led) # {}
                    /\ \/ p = {} /\ u = <<>>
                       \/ p # {} /\ \A i \in p : i \notin mem.deferred /\ ~Retryable(Route(i), ledger, mem.sat)
                       \/ u # <<>> /\ u[2][1] = "PAUSE"
                       \/ Shut(queued, led) # {}
     IN  /\ ledger' = led
         /\ mem' = kept
         /\ log' = [log EXCEPT !.job = [i \in Ids |-> IF i \in accepted THEN "accepted" ELSE @[i]]]
         /\ shelf' = (shelf \ accepted) \cup Shut(queued, led)
         /\ owed' = (owed \cup accepted) \ Shut(queued, led)
         /\ at' \in {"run"} \cup (IF handoff \/ waiting \/ ~(runnable \/ healthy) THEN {"drain"} ELSE {})
  /\ UNCHANGED <<epoch, ckpt, inbox, asset, world, paused>>

(***************************************************************************)
(* Jobs.                                                                   *)
(***************************************************************************)
(* _launch_research: closed routes first, then a task is started. *)
Launch(i) ==
  /\ at = "run" /\ inbox = <<>>
  /\ i \in Deferring(mem, ledger).pending
  /\ mem' = [Deferring(mem, ledger) EXCEPT !.pending = @ \ {i}, !.active = @ \cup {i}]
  /\ shelf' = shelf \cup Shut(mem, ledger) /\ owed' = owed \ Shut(mem, ledger)
  /\ log' = [log EXCEPT !.job[i] = "started"]
  /\ UNCHANGED <<at, epoch, ckpt, ledger, inbox, asset, world, paused>>

Running(i) == at \in {"run", "drain"} /\ i \in mem.active
Ended(i) == log' = [log EXCEPT !.job[i] = "ended"]
Left(i) == [mem EXCEPT !.active = @ \ {i}]
Recording == UNCHANGED <<epoch, ckpt, inbox, asset, world, shelf, paused>>

(* _accept_research_result: progress, no progress or an error, a pause.    *)
Ends(i, status) ==
  /\ Running(i) /\ Ended(i) /\ mem' = Left(i)
  /\ owed' = owed \ {i}
  /\ ledger' = Recorded(Route(i), status, IF status = "COMPLETED" THEN Unconditional ELSE Evidence)
  /\ Recording /\ UNCHANGED at

(* A transient failure: the task is queued again, whatever its route says. *)
Retried(i) ==
  /\ Running(i)
  /\ mem' = [Left(i) EXCEPT !.pending = @ \cup {i}]
  /\ log' = [log EXCEPT !.job[i] = "accepted"]
  /\ Recording /\ UNCHANGED <<at, owed, ledger>>

Continued(i) == <<i[1], epoch>>

(* _checkpoint_research_continuation: the route is paused until the next   *)
(* epoch.                                                                  *)
Checkpoint(i) ==
  /\ mem' = [Left(i) EXCEPT !.deferred = @ \cup {Continued(i)}, !.known = @ \cup {Continued(i)}]
  /\ log' = [log EXCEPT !.job[i] = "ended", !.cont = @ \cup {Continued(i)}]
  /\ owed' = (owed \ {i}) \cup {Continued(i)}
  /\ ledger' = Recorded(Route(i), "PAUSED", NextEpoch(epoch))

Checkpointed(i) ==
  /\ Running(i) /\ Checkpoint(i)
  /\ Recording /\ UNCHANGED at

(* The provider is lost: a continuation, or the exact task, and a drain.   *)
ProviderLost(i) ==
  /\ Running(i) /\ at' = "drain"
  /\ \/ Checkpoint(i)
     \/ /\ mem' = [Left(i) EXCEPT !.pending = @ \cup ({i} \ mem.deferred)]
        /\ log' = [log EXCEPT !.job[i] = "ended"]
        /\ UNCHANGED <<owed, ledger>>
  /\ Recording

(* The deadline, an operator's stop, or a failure. *)
Drain ==
  /\ at = "run" /\ at' = "drain"
  /\ UNCHANGED <<mem, log, epoch, ckpt, ledger, inbox, asset, world, shelf, owed, paused>>

(***************************************************************************)
(* The end.                                                                *)
(***************************************************************************)
(* _write_compact_snapshot: two disjoint lists, and the canonical context  *)
(* they were planned under.  The jobs that were cut off and the candidates *)
(* stand for what the import reads in the events of the epoch.             *)
Frontier(m) == [pending |-> m.pending, conts |-> m.deferred]
Snapshot(m, cut, evidence) ==
  [epoch |-> epoch, pending |-> Frontier(m).pending, conts |-> Frontier(m).conts,
   cut |-> cut, evidence |-> evidence, context |-> world.context]

(* _finish: what still runs is cut off and kept, what is on a closed route *)
(* is deferred, the frontier is written and the epoch sealed.  The events  *)
(* name the reason of the stop and of each cancellation, and they differ   *)
(* when the finish fails or the campaign does not pause.                   *)
Seal ==
  /\ at = "drain"
  /\ LET cut == [mem EXCEPT !.pending = @ \cup (mem.active \ mem.deferred), !.active = {}]
         kept == Deferring(cut, ledger)
     IN  \E evidence, sameReason \in BOOLEAN :
           /\ ckpt' = Snapshot(kept, IF sameReason THEN mem.active ELSE {}, evidence)
           /\ shelf' = shelf \cup Shut(cut, ledger) /\ owed' = owed \ Shut(cut, ledger)
  /\ at' = "down" /\ mem' = Empty /\ log' = NoLog
  /\ UNCHANGED <<epoch, ledger, inbox, asset, world, paused>>

(* The import failed: the epoch is sealed without a checkpoint, and the    *)
(* next one starts from the same predecessor.                              *)
SealUnusable ==
  /\ at = "failed"
  /\ at' = "down" /\ mem' = Empty /\ log' = NoLog
  /\ owed' = ckpt.pending \cup ckpt.conts /\ shelf' = shelf \ owed'
  /\ UNCHANGED <<epoch, ckpt, ledger, inbox, asset, world, paused>>

Crash ==
  /\ at # "down" /\ Die
  /\ UNCHANGED <<log, epoch, ckpt, ledger, inbox, asset, shelf, paused>>

EditContext ==
  /\ at = "down" /\ ~log.open /\ Disturbing
  /\ world' = [world EXCEPT !.context = @ + 1, !.disturbed = @ + 1]
  /\ UNCHANGED <<at, mem, log, epoch, ckpt, ledger, inbox, asset, shelf, owed, paused>>
Release ==
  /\ at = "down" /\ Disturbing
  /\ world' = [world EXCEPT !.release = 1 - @, !.disturbed = @ + 1]
  /\ UNCHANGED <<at, mem, log, epoch, ckpt, ledger, inbox, asset, shelf, owed, paused>>

Next ==
  \/ NewEpoch \/ Resume \/ DiscardPlan \/ UnsafeDrift \/ ImportDone \/ Preflight
  \/ \E i \in Ids : SkipImport(i) \/ Collides(i) \/ DeferImport(i) \/ Import(i) \/ ImportTorn(i)
                 \/ ImportCut(i)
  \/ \E r \in Routes : Instruct("PAUSE_ROUTE", r) \/ Instruct("RESUME_ROUTE", r)
  \/ Instruct("ASSET", CHOOSE r \in Routes : TRUE)
  \/ PollPause \/ PollResume \/ PollAsset \/ PollTorn
  \/ Plan
  \/ \E i \in Ids : Launch(i) \/ Retried(i) \/ Checkpointed(i) \/ ProviderLost(i)
  \/ \E i \in Ids, status \in {"COMPLETED", "FAILED", "PAUSED"} : Ends(i, status)
  \/ Drain \/ Seal \/ SealUnusable \/ Crash \/ EditContext \/ Release

Spec == Init /\ [][Next]_vars

(***************************************************************************)
(* Properties.                                                             *)
(***************************************************************************)
TypeOK ==
  /\ at \in {"down", "import", "preflight", "run", "drain", "failed"}
  /\ mem.pending \cup mem.deferred \cup mem.active \cup mem.known \cup mem.todo \subseteq Ids
  /\ mem.sat \subseteq Conditions
  /\ log.job \in [Ids -> {"no", "accepted", "started", "ended"}] /\ log.cont \subseteq Ids
  /\ ledger \in [Routes -> [status : {"none", "ACTIVE", "PAUSED", "FAILED", "COMPLETED"},
                            cond : Conditions]]
  /\ ckpt.pending \cup ckpt.conts \cup ckpt.cut \cup shelf \cup owed \subseteq Ids /\ paused \subseteq Routes
  /\ epoch \in 0..MaxEpochs /\ asset \in BOOLEAN

(* _write_compact_snapshot raises when a task is both current and deferred *)
(* or occurs twice: whatever was recovered, imported, retried, planned or  *)
(* checkpointed before, the queue, the continuations and the jobs in       *)
(* flight are disjoint.                                                    *)
Disjoint ==
  /\ mem.pending \cap mem.deferred = {} /\ mem.pending \cap mem.active = {}
  /\ mem.deferred \cap mem.active = {} /\ ckpt.pending \cap ckpt.conts = {}

(* A continuation never runs in the epoch that checkpointed it, also after *)
(* a crash and when a Director asks for it.                                *)
ContinuationLater ==
  /\ \A i \in mem.pending \cup mem.active : i[2] < epoch
  /\ \A i \in mem.deferred : i[2] = epoch

(* Where a task is while no outcome of it is recorded: in memory; while no *)
(* process runs, in what recover would restore and in the checkpoint that  *)
(* is not imported yet.                                                    *)
Unimported == IF log.open /\ ~log.imported THEN ckpt.pending \cup ckpt.conts ELSE {}
Kept ==
  IF at # "down" THEN mem.pending \cup mem.deferred \cup mem.active \cup mem.todo \cup Unimported
  ELSE IF log.open
  THEN {i \in Ids : log.job[i] \in {"accepted", "started"}}
       \cup {i \in log.cont : log.job[i] = "no"} \cup Unimported
  ELSE ckpt.pending \cup ckpt.conts

(* No accepted task and no continuation leaves the frontier without a      *)
(* record: from its plan through retries, route changes, crashes, the seal *)
(* and the import into the next epoch, up to its outcome or its deferral.  *)
FrontierKept == owed \subseteq Kept

(* Work is done only under the inputs its epoch pinned, whatever was       *)
(* changed while the epoch was interrupted.                                *)
WorksUnderPinned == at # "down" => mem.release = log.release

(* A crash in the middle of the import can be resumed: the import fails    *)
(* only when the canonical context drifted.                                *)
ImportSurvivesCrash == at = "failed" => log.drift

(* A route that the operator paused runs no task until he resumes it.      *)
OperatorPauseKept ==
  [][\A i \in mem'.active \ mem.active : Route(i) \notin paused]_vars

(* The lists a checkpoint is made of are disjoint, hold continuations only *)
(* of this epoch and only for the next, and are worked on under the inputs *)
(* the epoch was started with.                                             *)
FrontierSound == TypeOK /\ Disjoint /\ ContinuationLater /\ WorksUnderPinned

=============================================================================
