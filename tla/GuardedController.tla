-------------------------- MODULE GuardedController --------------------------
(***************************************************************************)
(* One controller and the epoch it runs, seen from the canonical files:    *)
(* the CanonicalGuard baseline, the frozen startup sources, the transition *)
(* store underneath, and the attempts (run, crash, resume) of an epoch.    *)
(*                                                                         *)
(* An attempt either starts an epoch (AutonomousController.run without     *)
(* resume: snapshot the guard baseline, reload the claim state, freeze the *)
(* startup sources) or resumes the unsealed one (verify the guard against  *)
(* the baseline on disk, then verify the startup sources).  The store's    *)
(* own steps are those of CanonicalTransition.                             *)
(***************************************************************************)
EXTENDS CanonicalTransition

CONSTANTS
    Guarded,    \* files in protected paths
    Views,      \* those of them that are marked Markdown views
    MaxEpochs   \* bound: epochs started in a behaviour

ASSUME ViewsAssumption ==
    Views \subseteq Guarded /\ Guarded \subseteq Files \ (Premises \cup {Graph, Trusted})
ASSUME EpochsAssumption == MaxEpochs \in Nat

VARIABLES
    phase,     \* where the attempt is
    baseFile,  \* durable: canonical_guard.before.json of the epoch
    base,      \* CanonicalGuard.baseline in memory
    frozen,    \* durable: digests in canonical_state.json of the epoch
    touched,   \* targets of the transitions the running recover() completed
    epoch,     \* durable: "none" or "open", an unsealed epoch
    epochs,    \* epochs started so far
    verdict,   \* what the attempt or the epoch ended with
    owed       \* history: what the protected files hold by authority alone

gvars == <<phase, baseFile, base, frozen, touched, epoch, epochs, verdict, owed>>
allVars == <<vars, gvars>>

Nothing == <<>>

\* The two calls that this module interleaves with the store's own steps.
Idle == pc = "idle"
Start == BeginRecover /\ touched' = {}

\* guard.verify(): protected files whose digest differs from the baseline.
Changed(b) == {f \in Guarded : b[f] # live[f]}

\* verify_live_startup_sources with the digests of the latest transition, and
\* the ClaimGraph and trusted-state comparison that a running attempt adds.
Authorized(f) ==
    CommittedIds # {} /\ f \in DOMAIN LatestCommitted.after
                      /\ live[f] = LatestCommitted.after[f]
SourcesUnchanged ==
    \A f \in Views \cup Premises : live[f] = frozen[f] \/ Authorized(f)
ClaimStateUnchanged ==
    \A f \in {Graph, Trusted} :
        IF CommittedIds = {} THEN live[f] = frozen[f] ELSE Authorized(f)

\* validate_canonical_research_state: every view shows the live ClaimGraph.
ViewsShowGraph == \A f \in Views : live[f] = live[Graph]

\* Mutant: only the store's own verdict counts.
SourcesAssumed == result = "ok"

\* The end of _assert_startup_canonical_sources, once recover() has returned.
SourcesHold ==
    result = "ok" /\ SourcesUnchanged /\ ClaimStateUnchanged /\ ViewsShowGraph

-----------------------------------------------------------------------------
(* A new epoch *)

\* Guard baseline first, then _reload_startup_claim_state calls recover().
StartEpoch ==
    /\ phase = "none" /\ epoch = "none" /\ epochs < MaxEpochs
    /\ Start
    /\ base' = Read(Guarded) /\ baseFile' = Read(Guarded) /\ owed' = Read(Guarded)
    /\ phase' = "reload" /\ verdict' = "none"
    /\ epochs' = epochs + 1
    /\ UNCHANGED <<frozen, epoch>>

\* Mutants: the baseline takes in every guarded file, or nothing.
AcceptEverything(T) == base' = Read(Guarded) /\ baseFile' = base'

AcceptNothing(T) == UNCHANGED <<base, baseFile>>

\* guard.accept and the rewrite of the baseline file, for the given targets.
Accept(T) ==
    /\ base' = [f \in Guarded |-> IF f \in T THEN live[f] ELSE base[f]]
    /\ baseFile' = base'

\* Recovered targets are accepted, the claim state is validated, the startup
\* sources are frozen and EPOCH_STARTED is appended.
Freeze ==
    /\ phase = "reload" /\ Idle /\ result = "ok"
    /\ ViewsShowGraph
    /\ Accept(touched)
    /\ frozen' = live
    /\ epoch' = "open" /\ phase' = "running"
    /\ UNCHANGED <<vars, touched, epochs, verdict, owed>>

\* The attempt fails before EPOCH_STARTED: there is nothing to resume.
ReloadFails ==
    /\ phase = "reload" /\ Idle
    /\ result = "raised" \/ (result = "ok" /\ ~ViewsShowGraph)
    /\ phase' = "none" /\ verdict' = "bootstrap failed"
    /\ UNCHANGED <<vars, baseFile, base, frozen, touched, epoch, epochs, owed>>

-----------------------------------------------------------------------------
(* A resumed epoch *)

\* The guard is verified against the baseline on disk before the transition
\* store is recovered.
Resume ==
    /\ phase = "none" /\ epoch = "open" /\ Idle
    /\ base' = baseFile
    /\ IF Changed(baseFile) = {}
         THEN /\ Start
              /\ phase' = "refresh" /\ verdict' = "none"
         ELSE /\ verdict' = "refused"
              /\ UNCHANGED <<vars, phase, touched>>
    /\ UNCHANGED <<baseFile, frozen, epoch, epochs, owed>>

\* current_target_digests has recovered the store; nothing is accepted here.
Refreshed ==
    /\ phase = "refresh" /\ Idle
    /\ IF result = "ok" /\ SourcesUnchanged
         THEN phase' = "running" /\ UNCHANGED verdict
         ELSE phase' = "none" /\ verdict' = "bootstrap failed"
    /\ UNCHANGED <<vars, baseFile, base, frozen, touched, epoch, epochs, owed>>

-----------------------------------------------------------------------------
(* A running attempt *)

\* _assert_startup_canonical_sources, before every transition and snapshot.
AssertSources ==
    /\ phase = "running" /\ Start
    /\ phase' = "assert"
    /\ UNCHANGED <<baseFile, base, frozen, epoch, epochs, verdict, owed>>

\* to_payload(updated_at=utc_now()): a ClaimGraph that was never written.
NewGraph(g) ==
    /\ g # live[Graph]
    /\ \A i \in DOMAIN ledger : IsPrepared(i) =>
         g \notin {ledger[i].before[Graph], ledger[i].after[Graph]}

\* _commit_claim_state_transition: the new ClaimGraph and the views that do
\* not show it yet are the targets.
CommitClaimState(g) ==
    LET stale == {f \in Views : live[f] # g} IN
    /\ phase = "assert" /\ SourcesHold
    /\ NewGraph(g)
    /\ BeginCommit([f \in stale \cup {Graph} |-> g])
    /\ touched' = {}
    /\ phase' = "commit"
    /\ UNCHANGED <<baseFile, base, frozen, epoch, epochs, verdict, owed>>

\* A snapshot is all that was wanted, or an exception ends the attempt.
Asserted ==
    /\ phase = "assert" /\ Idle
    /\ phase' = IF SourcesHold THEN "running" ELSE "stopping"
    /\ UNCHANGED <<vars, baseFile, base, frozen, touched, epoch, epochs, verdict, owed>>

\* _accept_authorized_canonical_targets.
AcceptTargets ==
    /\ phase = "commit" /\ Idle
    /\ IF result = "ok"
         THEN Accept(touched) /\ phase' = "running"
         ELSE phase' = "stopping" /\ UNCHANGED <<base, baseFile>>
    /\ UNCHANGED <<vars, frozen, touched, epoch, epochs, verdict, owed>>

\* _finish: the guard is verified, and then a last compact snapshot is
\* written, which asserts the sources once more ...
Finish ==
    /\ phase \in {"running", "stopping"} /\ Start
    /\ phase' = "sealing"
    /\ verdict' = IF Changed(base) = {} THEN "none" ELSE "guard failed"
    /\ UNCHANGED <<baseFile, base, frozen, epoch, epochs, owed>>

\* ... and if that passes the epoch is sealed, whatever the guard said.
Seal ==
    /\ phase = "sealing" /\ Idle
    /\ IF SourcesHold
         THEN /\ epoch' = "none"
              /\ verdict' = IF verdict = "none" THEN "clean" ELSE verdict
         ELSE verdict' = "seal failed" /\ UNCHANGED epoch
    /\ phase' = "none"
    /\ UNCHANGED <<vars, baseFile, base, frozen, touched, epochs, owed>>

-----------------------------------------------------------------------------
(* The store's steps, crashes and edits *)

StoreStep ==
    /\ \/ /\ AppendCommitted
          /\ touched' = touched \cup DOMAIN ledger[First(queue)].after
       \/ /\ Load \/ Check \/ Install \/ Verify \/ Commit \/ WriteFails
          /\ UNCHANGED touched
    /\ owed' = [f \in Guarded |-> IF live'[f] # live[f] THEN live'[f] ELSE owed[f]]
    /\ UNCHANGED <<phase, baseFile, base, frozen, epoch, epochs, verdict>>

ControllerDies ==
    /\ Crash \/ CrashTorn
    /\ phase' = "none" /\ base' = Nothing /\ touched' = {} /\ verdict' = "none"
    /\ UNCHANGED <<baseFile, frozen, epoch, epochs, owed>>

ControllerRestarts == Restart /\ UNCHANGED gvars

\* Edits at rest land between attempts or while no operation is under way.
SomebodyEdits ==
    /\ EditsAnytime \/ phase \in {"none", "running"}
    /\ \E f \in Files : \E c \in Editable(f) : Edit(f, c)
    /\ UNCHANGED gvars

-----------------------------------------------------------------------------

\* A project as the initializer leaves it: the views show the ClaimGraph.
GInit ==
    /\ Init /\ ViewsShowGraph
    /\ phase = "none" /\ baseFile = Nothing /\ base = Nothing /\ frozen = Nothing
    /\ touched = {} /\ epoch = "none" /\ epochs = 0 /\ verdict = "none"
    /\ owed = Read(Guarded)

Attempt ==
    \/ StartEpoch \/ Freeze \/ ReloadFails
    \/ Resume \/ Refreshed
    \/ AssertSources \/ (\E g \in Values : CommitClaimState(g)) \/ Asserted \/ AcceptTargets
    \/ Finish \/ Seal

GNext == Attempt \/ StoreStep \/ ControllerDies \/ ControllerRestarts \/ SomebodyEdits

GSpec == GInit /\ [][GNext]_allVars

-----------------------------------------------------------------------------
(* Properties *)

Baselines == {Nothing} \cup [Guarded -> Contents]

GuardTypeOK ==
    /\ phase \in {"none", "reload", "refresh", "running", "assert", "commit", "stopping", "sealing"}
    /\ baseFile \in Baselines /\ base \in Baselines /\ owed \in [Guarded -> Contents]
    /\ frozen \in {Nothing} \cup [Files -> Contents]
    /\ touched \subseteq Files
    /\ epoch \in {"none", "open"} /\ epochs \in 0 .. MaxEpochs
    /\ verdict \in {"none", "bootstrap failed", "refused", "guard failed",
                   "seal failed", "clean"}

\* No unauthorized content survives an epoch unnoticed: an epoch whose guard
\* reports no change leaves in every protected file what it held when the
\* epoch started or what a transition installed since.
NothingSmuggledIn ==
    [][verdict' = "clean" /\ verdict # "clean" => Read(Guarded) = owed]_allVars

\* The guard raises no false alarm in an epoch that saw neither a fault nor an
\* edit: everything the transitions wrote was accepted into the baseline.
NoFalseAlarm ==
    verdict \in {"refused", "guard failed"} => faults + edits > 0

\* A transition is only ever built on the sources its epoch was started with
\* or on what earlier transitions made of them.
BuiltOnKnownSources ==
    [][\A f \in {Graph, Trusted} \cup Views :
         /\ pc = "prepare" /\ Len(ledger') > Len(ledger)
         /\ ledger'[Len(ledger')] # Torn
         /\ f \in DOMAIN ledger'[Len(ledger')].before
         => LET b == ledger'[Len(ledger')].before[f] IN
              b = frozen[f] \/ \E i \in DOMAIN ledger : IsPrepared(i) /\
                                 f \in DOMAIN ledger[i].after /\ ledger[i].after[f] = b]_allVars

\* An epoch that no one edited can be resumed after any crash: "epoch remains
\* unsealed and resumable".
CrashedEpochResumes == verdict = "refused" => edits > 0

\* The guard knows of all that the transition store installs, in whatever call
\* and for whatever reason the store does so: it does not alarm for that.
GuardSound == GuardTypeOK /\ NoFalseAlarm

=============================================================================
