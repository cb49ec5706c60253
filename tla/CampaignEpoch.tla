----------------------------- MODULE CampaignEpoch -----------------------------
(***************************************************************************)
(* A campaign and its epochs: CampaignStore (lifecycle/campaign.py), the   *)
(* attempts that AutonomousController.run and _finish make of an epoch,    *)
(* and the commands amr run, amr run --resume and amr campaign continue    *)
(* (with or without --auto-epochs) that start them.  An attempt that has   *)
(* sealed its epoch closes its records and artifacts and tells, in         *)
(* RUN_STOPPED and in its result, what became of the campaign.             *)
(*                                                                         *)
(* Durable are CAMPAIGN.json (status), EPOCHS.jsonl (records) and one run  *)
(* directory per epoch (runs): what RUN_MANIFEST.json pins, the research   *)
(* frontier its EVENTS.jsonl tells of and the part of it that its          *)
(* compact_snapshot.json keeps, and its newest RUN_STOPPED (told).         *)
(* A controller may die between any two writes, and bootstrap, recovery or *)
(* a write may fail.  One controller runs at a time, as the docs demand.   *)
(*                                                                         *)
(* Epochs are numbered in the order of their run directories; 0 stands for *)
(* no epoch.  Research tasks on the frontier are named by the epoch that   *)
(* brought them up.  Candidates and their audits are in AuditPipeline.     *)
(***************************************************************************)
EXTENDS Naturals, Sequences, FiniteSetsExt

CONSTANTS
    CampaignHours,  \* time budget of the campaign
    EpochHours,     \* longest duration of one epoch
    MaxEpochs,      \* bound: run directories made
    MaxFaults       \* bound: crashes, failed writes, failed bootstraps

ASSUME HoursAssumption == CampaignHours \in Nat \ {0} /\ EpochHours \in Nat \ {0}
ASSUME CampaignBounds == MaxEpochs \in Nat /\ MaxFaults \in Nat

VARIABLES
    status,   \* durable: status in CAMPAIGN.json, "none" before it exists
    records,  \* durable: EPOCHS.jsonl
    runs,     \* durable: the run directories
    at,       \* control point of the running attempt
    job,      \* what the running attempt knows
    faults

durable == <<status, records, runs>>
vars == <<durable, at, job, faults>>

-----------------------------------------------------------------------------
(* The ledger *)

StartRecord(e, p) == [kind |-> "EPOCH_STARTED", epoch |-> e, prev |-> p]
\* Of the reason only the "bootstrap failed:" prefix is ever read.
SealRecord(e, h, s, r, u) ==
    [kind |-> "EPOCH_SEALED", epoch |-> e, elapsed |-> h, status |-> s,
     begun |-> r # "bootstrap failed", usable |-> u]

Seals == {i \in DOMAIN records : records[i].kind = "EPOCH_SEALED"}
Started == {records[i].epoch : i \in DOMAIN records \ Seals}
Sealed == {records[i].epoch : i \in Seals}

\* unsealed_epoch
Open == Started \ Sealed

\* elapsed_epoch_seconds, over the first n records, and remaining_seconds.
SpentBy[n \in Nat] ==
    IF n = 0 THEN 0
    ELSE SpentBy[n - 1] + (IF records[n].kind = "EPOCH_SEALED" THEN records[n].elapsed ELSE 0)
Elapsed == SpentBy[Len(records)]
Remaining == IF Elapsed < CampaignHours THEN CampaignHours - Elapsed ELSE 0

\* Epochs whose checkpoint may seed another one: not marked unusable, and
\* not sealed with a "bootstrap failed:" reason.
Continuable ==
    {records[i].epoch : i \in {j \in Seals : records[j].usable
                                          /\ records[j].begun}}

\* latest_continuable_epoch
LatestContinuable == IF Continuable = {} THEN 0 ELSE Max(Continuable)

-----------------------------------------------------------------------------
(* Commands *)

NoJob == [epoch |-> 0, resume |-> FALSE, booted |-> FALSE, recovered |-> FALSE,
          imported |-> FALSE, held |-> {}, reason |-> "none", status |-> "none",
          elapsed |-> 0, failed |-> FALSE, final |-> FALSE, interrupted |-> FALSE]

NotTold == [status |-> "none", failed |-> FALSE]

Fault == faults < MaxFaults /\ faults' = faults + 1

Idle == at = "none"
EndAttempt == at' = "none" /\ job' = NoJob

\* A new run directory; its RUN_MANIFEST pins predecessor and duration.
Launch(p, hours) ==
    /\ Len(runs) < MaxEpochs
    /\ runs' = Append(runs, [prev |-> p, hours |-> hours, imported |-> p = 0,
                             discarded |-> FALSE, known |-> {}, saved |-> {},
                             told |-> NotTold])
    /\ job' = [NoJob EXCEPT !.epoch = Len(runs) + 1, !.recovered = TRUE,
                            !.imported = p = 0]
    /\ at' = "create"
    /\ UNCHANGED <<status, records, faults>>

\* amr run
RunCampaign ==
    /\ Idle /\ runs = <<>>
    /\ Launch(0, Min({EpochHours, CampaignHours}))

\* amr campaign continue.
ContinueCampaign ==
    /\ Idle
    /\ status \in {"ACTIVE", "PAUSED"} /\ Remaining > 0 /\ Open = {}
    /\ Started # {} => LatestContinuable # 0
    /\ Launch(LatestContinuable, Min({EpochHours, Remaining}))

\* amr run --resume, for any epoch with a run directory.
ResumeEpoch(e) ==
    /\ Idle
    /\ job' = [NoJob EXCEPT !.epoch = e, !.resume = TRUE,
                            !.imported = runs[e].prev = 0]
    /\ at' = "claim"
    /\ UNCHANGED <<durable, faults>>

-----------------------------------------------------------------------------
(* An attempt up to the point where it works *)

This == runs[job.epoch]

CreateCampaign ==
    /\ at = "create"
    /\ status' = IF status = "none" THEN "ACTIVE" ELSE status
    /\ at' = "claim"
    /\ UNCHANGED <<records, runs, job, faults>>

\* Mutant: a resume asks that the campaign is active.
ClaimableActive ==
    IF job.resume
    THEN status = "ACTIVE" /\ Open = {job.epoch}
    ELSE /\ status \in {"ACTIVE", "PAUSED"}
         /\ Open = {} \/ job.epoch \in Started
         /\ This.prev # 0 => This.prev = LatestContinuable

\* require_unsealed_epoch for a resumed epoch; for a new one
\* require_current_continuation_source and the checks of append_epoch_started.
Claimable ==
    IF job.resume
    THEN status # "none" /\ Open = {job.epoch}
    ELSE /\ status \in {"ACTIVE", "PAUSED"}
         /\ Open = {} \/ job.epoch \in Started
         /\ This.prev # 0 => This.prev = LatestContinuable

\* The attempt fails before it owns the epoch.
Refuse ==
    /\ at = "claim" /\ ~Claimable
    /\ EndAttempt
    /\ UNCHANGED <<durable, faults>>

StartEpoch ==
    /\ at = "claim" /\ Claimable /\ ~job.resume
    /\ records' = IF job.epoch \in Started THEN records
                  ELSE Append(records, StartRecord(job.epoch, This.prev))
    /\ at' = IF status = "PAUSED" THEN "activate" ELSE "preflight"
    /\ UNCHANGED <<status, runs, job, faults>>

Activate ==
    /\ at = "activate"
    /\ status' = "ACTIVE"
    /\ at' = "preflight"
    /\ UNCHANGED <<records, runs, job, faults>>

\* Mutant: a resumed epoch takes the import of its checkpoint for done.
RecoverAssumesImport ==
    /\ at = "claim" /\ Claimable /\ job.resume
    /\ job' = [job EXCEPT !.held = This.known, !.imported = TRUE, !.recovered = TRUE]
    /\ at' = "preflight"
    /\ UNCHANGED <<durable, faults>>

\* recover() rebuilds the frontier from the events of the epoch.
RecoverEpoch ==
    /\ at = "claim" /\ Claimable /\ job.resume
    /\ job' = [job EXCEPT !.held = This.known, !.imported = This.imported,
                          !.recovered = TRUE]
    /\ at' = "preflight"
    /\ UNCHANGED <<durable, faults>>

Preflight ==
    /\ at = "preflight"
    /\ at' = IF job.imported THEN "snapshot" ELSE "import"
    /\ UNCHANGED <<durable, job, faults>>

Learn(S) ==
    /\ runs' = [runs EXCEPT ![job.epoch].known = @ \cup S]
    /\ job' = [job EXCEPT !.held = @ \cup S]

\* _import_previous_epoch_checkpoint registers one piece of the predecessor's
\* frontier after the other ...
ImportSome(S) ==
    /\ at = "import" /\ S \subseteq runs[This.prev].saved
    /\ Learn(S)
    /\ UNCHANGED <<status, records, at, faults>>

\* ... and appends EPOCH_CHECKPOINT_IMPORTED after the last.
ImportDone ==
    /\ at = "import" /\ runs[This.prev].saved \subseteq job.held
    /\ runs' = [runs EXCEPT ![job.epoch].imported = TRUE]
    /\ job' = [job EXCEPT !.imported = TRUE]
    /\ at' = "snapshot"
    /\ UNCHANGED <<status, records, faults>>

\* The claim state is not the one the checkpoint was planned for: its
\* frontier is not taken over, and STALE_PLANNING_STATE_DISCARDED says so.
DiscardFrontier ==
    /\ at = "import"
    /\ runs' = [runs EXCEPT ![job.epoch].discarded = TRUE]
    /\ job' = [job EXCEPT !.imported = TRUE]
    /\ at' = "snapshot"
    /\ UNCHANGED <<status, records, faults>>

Snapshot ==
    /\ at = "snapshot"
    /\ runs' = [runs EXCEPT ![job.epoch].saved = job.held]
    /\ job' = [job EXCEPT !.booted = TRUE]
    /\ at' = "backend"
    /\ UNCHANGED <<status, records, faults>>

StartBackend ==
    /\ at = "backend"
    /\ at' = "work"
    /\ UNCHANGED <<durable, job, faults>>

Work ==
    /\ at = "work"
    /\ Learn({job.epoch})
    /\ UNCHANGED <<status, records, at, faults>>

-----------------------------------------------------------------------------
(* _finish *)

Finish(reason, s, elapsed) ==
    /\ job' = [job EXCEPT !.reason = reason, !.status = s, !.elapsed = elapsed,
                          !.failed = reason \in {"bootstrap failed", "failed"}]
    /\ at' = "finish"
    /\ UNCHANGED durable

\* The schema preflight, the import, the first snapshot or the start of the
\* backend raises.  Steering, which may ask to stop, is read after the import.
BootstrapFails(elapsed) ==
    /\ Fault
    /\ \/ at \in {"preflight", "import", "snapshot", "backend"}
          /\ Finish("bootstrap failed", "PAUSED", elapsed)
       \/ at \in {"snapshot", "backend"}
          /\ Finish("bootstrap failed", "STOPPED", elapsed)

TimeIsUp ==
    /\ at = "work"
    /\ IF Remaining <= This.hours
         THEN Finish("campaign time budget exhausted", "STOPPED", This.hours)
         ELSE Finish("epoch time limit reached", "PAUSED", This.hours)
    /\ UNCHANGED faults

\* A quota pause, a steering or operator stop, or the resolution of the final
\* claim; a frontier that is ready for the next epoch; an internal failure.
StopEarly(s, why, elapsed) ==
    /\ at = "work"
    /\ why = "next epoch frontier ready" => s = "PAUSED"
    /\ why = "failed" => s # "COMPLETED"
    /\ Finish(why, s, elapsed)
    /\ UNCHANGED faults

WriteCheckpoint ==
    /\ at = "finish"
    /\ runs' = IF job.booted THEN [runs EXCEPT ![job.epoch].saved = job.held] ELSE runs
    /\ at' = "seal"
    /\ UNCHANGED <<status, records, job, faults>>

\* append_epoch_sealed: a second seal of an epoch changes nothing, not even
\* the manifest.
AppendSealed ==
    /\ at = "seal"
    /\ IF job.epoch \in Sealed
         THEN at' = "record" /\ UNCHANGED records
         ELSE /\ records' = Append(records,
                     SealRecord(job.epoch, job.elapsed, job.status, job.reason,
                                job.booted /\ job.recovered /\ job.imported))
              /\ at' = "manifest"
    /\ UNCHANGED <<status, runs, job, faults>>

SealCampaign ==
    /\ at = "manifest"
    /\ status' = job.status
    /\ at' = "record"
    /\ UNCHANGED <<records, runs, job, faults>>

-----------------------------------------------------------------------------
(* _finish, once the epoch is sealed *)

Failed == [job EXCEPT !.failed = TRUE, !.reason = "failed"]

\* Mutants: a seal that failed leaves the status, or is no failure at all.
SealFailsKeepingStatus ==
    /\ at \in {"finish", "seal", "manifest"} /\ Fault
    /\ job' = Failed
    /\ at' = "record"
    /\ UNCHANGED durable

SealFailsQuietly ==
    /\ at \in {"finish", "seal", "manifest"} /\ Fault
    /\ job' = [job EXCEPT !.status = "PAUSED"]
    /\ at' = "record"
    /\ UNCHANGED durable

\* The snapshot, the ledger line or the manifest cannot be written: a failure
\* of the attempt, which goes on to its artifacts.
SealFails ==
    /\ at \in {"finish", "seal", "manifest"} /\ Fault
    /\ job' = [Failed EXCEPT !.status = "PAUSED"]
    /\ at' = "record"
    /\ UNCHANGED durable

FinalizeRecord ==
    /\ at = "record"
    /\ at' = "artifacts"
    /\ UNCHANGED <<durable, job, faults>>

RecordFails ==
    /\ at = "record" /\ Fault
    /\ job' = Failed
    /\ at' = "artifacts"
    /\ UNCHANGED durable

\* Report, outcome archive and RUN_SUMMARY.json.
FinalizeArtifacts ==
    /\ at = "artifacts"
    /\ job' = [job EXCEPT !.final = TRUE]
    /\ at' = "stop"
    /\ UNCHANGED <<durable, faults>>

ArtifactsInterrupted ==
    /\ at = "artifacts" /\ Fault
    /\ job' = [job EXCEPT !.interrupted = TRUE, !.reason = "interrupted"]
    /\ at' = "stop"
    /\ UNCHANGED durable

ArtifactsFail ==
    /\ at = "artifacts" /\ Fault
    /\ job' = Failed
    /\ at' = "stop"
    /\ UNCHANGED durable

\* RUN_STOPPED; an interrupted attempt raises KeyboardInterrupt.
StopRun ==
    /\ at = "stop"
    /\ runs' = [runs EXCEPT ![job.epoch].told = [status |-> job.status,
                                                 failed |-> job.failed]]
    /\ IF job.interrupted THEN EndAttempt ELSE at' = "returned" /\ UNCHANGED job
    /\ UNCHANGED <<status, records, faults>>

EndCommand ==
    /\ at = "returned"
    /\ EndAttempt
    /\ UNCHANGED <<durable, faults>>

\* _auto_epoch_allowed
AutoAllowed ==
    /\ ~job.failed /\ job.final
    /\ job.status = "PAUSED"
    /\ job.reason \in {"epoch time limit reached", "next epoch frontier ready"}
    /\ Remaining > 0

\* The --auto-epochs loop of the command; it raises when the epoch that it
\* ran is not the newest to continue from.
AutoContinue ==
    /\ at = "returned" /\ AutoAllowed
    /\ Open = {} /\ LatestContinuable = job.epoch
    /\ Launch(job.epoch, Min({EpochHours, Remaining}))

\* The controller dies, or recovery raises, which is an attempt failure.
Crash ==
    /\ at # "none" /\ Fault
    /\ EndAttempt
    /\ UNCHANGED durable

-----------------------------------------------------------------------------

Init ==
    /\ status = "none" /\ records = <<>> /\ runs = <<>>
    /\ at = "none" /\ job = NoJob
    /\ faults = 0

\* The steps an attempt takes by itself.
Proceed ==
    \/ CreateCampaign \/ Refuse \/ StartEpoch \/ Activate \/ RecoverEpoch
    \/ Preflight \/ ImportDone \/ DiscardFrontier \/ Snapshot \/ StartBackend
    \/ TimeIsUp
    \/ WriteCheckpoint \/ AppendSealed \/ SealCampaign
    \/ FinalizeRecord \/ FinalizeArtifacts \/ StopRun \/ EndCommand

\* A write of _finish fails, or the operator interrupts it.
CloseBadly == SealFails \/ RecordFails \/ ArtifactsInterrupted \/ ArtifactsFail

Import == at = "import" /\ \E S \in SUBSET runs[This.prev].saved : ImportSome(S)

Hours == 0 .. (IF job.epoch = 0 THEN 0 ELSE This.hours)

Next ==
    \/ RunCampaign \/ ContinueCampaign \/ AutoContinue
    \/ \E e \in DOMAIN runs : ResumeEpoch(e)
    \/ Proceed \/ Import \/ Work
    \/ \E h \in Hours : BootstrapFails(h)
    \/ \E s \in {"PAUSED", "STOPPED", "COMPLETED"}, h \in Hours,
           why \in {"stopped", "next epoch frontier ready", "failed"} : StopEarly(s, why, h)
    \/ CloseBadly \/ Crash

Spec == Init /\ [][Next]_vars

\* The deadline of an epoch passes, an import goes over all of the frontier,
\* and sooner or later the operator resumes the epoch that is open, whatever
\* else has been tried in between (amr campaign continue names the command).
ImportAll == at = "import" /\ ImportSome(runs[This.prev].saved)
ResumeOpen == \E e \in Open : ResumeEpoch(e)

Fairness == WF_vars(Proceed) /\ WF_vars(ImportAll) /\ SF_vars(ResumeOpen)

FairSpec == Spec /\ Fairness

-----------------------------------------------------------------------------
(* Properties *)

Reasons == {"none", "bootstrap failed", "stopped", "epoch time limit reached",
            "campaign time budget exhausted", "next epoch frontier ready", "failed",
            "interrupted"}
Statuses == {"none", "ACTIVE", "PAUSED", "STOPPED", "COMPLETED"}
Runs == [prev : Nat, hours : Nat, imported : BOOLEAN, discarded : BOOLEAN,
         known : SUBSET Nat, saved : SUBSET Nat,
         told : [status : Statuses, failed : BOOLEAN]]
Jobs == [epoch : Nat, resume : BOOLEAN, booted : BOOLEAN, recovered : BOOLEAN,
         imported : BOOLEAN, held : SUBSET Nat, reason : Reasons, status : Statuses,
         elapsed : Nat, failed : BOOLEAN, final : BOOLEAN, interrupted : BOOLEAN]
Records ==
    [kind : {"EPOCH_STARTED"}, epoch : Nat, prev : Nat]
    \cup [kind : {"EPOCH_SEALED"}, epoch : Nat, elapsed : Nat, status : Statuses,
          begun : BOOLEAN, usable : BOOLEAN]

\* The type of every variable.
TypeOK ==
    /\ status \in Statuses
    /\ records \in Seq(Records)
    /\ runs \in Seq(Runs)
    /\ at \in {"none", "create", "claim", "activate", "preflight", "import", "snapshot",
               "backend", "work", "finish", "seal", "manifest", "record", "artifacts",
               "stop", "returned"}
    /\ job \in Jobs
    /\ faults \in Nat

\* Whatever crashes and is resumed, no two epochs of a campaign are open at
\* once and none is sealed twice: the ledger is a sequence of pairs of a start
\* and the seal of the same epoch.
OneOpenEpoch ==
    \A i \in DOMAIN records :
        IF i % 2 = 1
        THEN records[i].kind = "EPOCH_STARTED"
        ELSE records[i].kind = "EPOCH_SEALED" /\ records[i].epoch = records[i - 1].epoch

\* Epochs never spend more than the campaign's time budget, counting the
\* whole duration of the one that is open, however often it is resumed.
BudgetKept ==
    /\ Elapsed <= CampaignHours
    /\ \A e \in Open : Elapsed + runs[e].hours <= CampaignHours

\* A campaign is STOPPED or COMPLETED only by its last record.
StatusFromLedger ==
    status \in {"STOPPED", "COMPLETED"} =>
        /\ Open = {} /\ records # <<>>
        /\ records[Len(records)].status = status

\* The checkpoint that may seed the next epoch holds all of the research
\* frontier that its epoch recorded or took over from its predecessor,
\* across crashes in the middle of an import and any number of resumes,
\* unless its log tells that the frontier was discarded on purpose.
NothingForgotten ==
    \A e \in Continuable :
        /\ runs[e].known \subseteq runs[e].saved
        /\ runs[e].prev # 0 /\ ~runs[e].discarded =>
             runs[runs[e].prev].saved \subseteq runs[e].saved

\* What RUN_STOPPED tells of a campaign is in the ledger, whichever of the
\* writes around it failed: a campaign told to be STOPPED or COMPLETED has
\* the epoch sealed with that status, and so has every run without failure.
SealedAs(e, s) == \E i \in Seals : records[i].epoch = e /\ records[i].status = s
ToldFromLedger ==
    \A e \in DOMAIN runs :
        LET told == runs[e].told
        IN  told # NotTold /\ (told.status # "PAUSED" \/ ~told.failed)
              => SealedAs(e, told.status)

\* The --auto-epochs loop goes on only after an epoch that is sealed, in a
\* campaign whose ledger and manifest both say that it is paused.
GoesOnFromSeal ==
    at = "returned" /\ at' = "create" => status = "PAUSED" /\ SealedAs(job.epoch, "PAUSED")
AutoFollowsSeal == [][GoesOnFromSeal]_vars

\* "The previous epoch remains immutable": nothing changes in the run
\* directory of a sealed epoch, even when somebody tries to resume it, but
\* for the closing record of the attempt that sealed it.
LeavesSealed ==
    \A e \in Sealed :
        \/ runs'[e] = runs[e]
        \/ at = "stop" /\ e = job.epoch
           /\ runs'[e] = [runs[e] EXCEPT !.told = runs'[e].told]
SealedStaySealed == [][LeavesSealed]_vars

\* An epoch that was started is sealed in the end: the campaign ledger never
\* locks out the epoch it is waiting for.
EpochsSeal == Open # {} ~> Open = {}

\* "completed campaign cannot be continued": once an epoch was sealed with
\* the campaign STOPPED or COMPLETED, no further epoch starts.
TerminalIsFinal ==
    [][\A i \in Seals : records[i].status \in {"STOPPED", "COMPLETED"}
                        => Started' = Started]_vars

\* "Return the newest sealed checkpoint that can safely seed an epoch": an
\* epoch starts from the newest one whose seal says checkpoint_usable.
NewestUsable ==
    [][\A i \in Seals : records[i].usable /\ Started' # Started =>
         records'[Len(records')].prev >= records[i].epoch]_vars

\* The two files of a campaign tell one story, whatever crashed between them:
\* epochs one after the other within the time budget, a status and a closing
\* report to the operator that the ledger backs.
CampaignSound ==
    TypeOK /\ OneOpenEpoch /\ BudgetKept /\ StatusFromLedger /\ ToldFromLedger

\* A seal is final: for its run directory, for whoever tries to resume it and
\* for the loop that starts the next epoch.
SealsRespected == SealedStaySealed /\ AutoFollowsSeal

=============================================================================
