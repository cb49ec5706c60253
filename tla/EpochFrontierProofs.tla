------------------------ MODULE EpochFrontierProofs ------------------------
(* The queue, the continuations and the jobs in flight are disjoint, a       *)
(* continuation waits for the next epoch, and no accepted task leaves the    *)
(* frontier without a record, for any number of tasks, routes, epochs,       *)
(* crashes and disturbances.                                                 *)
(*                                                                           *)
(* FrontierKept is not inductive.  What a process has in memory is lost with *)
(* it, so the invariant says which of it the log would give back (Logged);   *)
(* a seal writes memory only, so that from the end of the import on the      *)
(* checkpoint of the predecessor must no longer be needed (Held).  That the  *)
(* lists are disjoint follows from the epochs their tasks are of (Dated).    *)
(*                                                                           *)
(* The second part is about the loop that runs one epoch (EpochLoop).  Each  *)
(* of its handlers is abstracted by one relation (Handled): it keeps what    *)
(* the loop relies on, answers or keeps a request for a plan, and raises     *)
(* only when dispatch is over.  The invariant then says that the loop always *)
(* has something to wait for (StaysAlive) and how phases, stop reasons and   *)
(* ends agree (StopsAgree).                                                  *)
EXTENDS EpochFrontier, EpochLoop, FiniteSetTheorems, TLAPS

(***************************************************************************)
(* The inductive invariant.                                                *)
(***************************************************************************)
Phase == {"down", "import", "preflight", "run", "drain", "failed"}
Statuses == {"none", "ACTIVE", "PAUSED", "FAILED", "COMPLETED"}
Memories == [pending : SUBSET Ids, deferred : SUBSET Ids, active : SUBSET Ids,
             known : SUBSET Ids, sat : SUBSET Conditions, todo : SUBSET Ids, release : {0, 1}]
Logs == [open : BOOLEAN, job : [Ids -> {"no", "accepted", "started", "ended"}],
         cont : SUBSET Ids, imported : BOOLEAN, drift : BOOLEAN, release : {0, 1}]
Checkpoints == [epoch : 0..MaxEpochs, pending : SUBSET Ids, conts : SUBSET Ids,
                cut : SUBSET Ids, evidence : BOOLEAN, context : Nat]
Ledgers == [Routes -> [status : Statuses, cond : Conditions]]
Worlds == [context : Nat, release : {0, 1}, disturbed : Nat, crashes : Nat]

\* An instruction names a route of the campaign.
Instruction == inbox # <<>> => inbox[1] = "ASSET" \/ inbox[2] \in Routes

Typed ==
  /\ at \in Phase /\ mem \in Memories /\ log \in Logs /\ epoch \in 0..MaxEpochs
  /\ ckpt \in Checkpoints /\ ledger \in Ledgers /\ asset \in BOOLEAN /\ world \in Worlds
  /\ shelf \in SUBSET Ids /\ owed \in SUBSET Ids /\ paused \in SUBSET Routes
  /\ Instruction

(* Which lists may be filled where: a process has memory, an open epoch a  *)
(* log; only an import has something left to import, and it is in a        *)
(* checkpoint that the log does not call imported.                         *)
Stages ==
  /\ at = "down" => mem = Empty
  /\ at # "down" => log.open
  /\ ~log.open => log = NoLog
  /\ at \notin {"run", "drain"} => mem.active = {}
  /\ at \notin {"import", "failed"} => mem.todo = {}
  /\ mem.todo \subseteq Unimported

(* The epochs that tasks are of, and the epoch of the checkpoint. *)
Dated ==
  /\ \A i \in mem.pending \cup mem.active : i[2] < epoch
  /\ \A i \in mem.deferred : i[2] = epoch
  /\ \A i \in shelf : i[2] < epoch
  /\ \A i \in Ids : log.job[i] # "no" => i[2] < epoch
  /\ \A i \in log.cont : i[2] = epoch
DatedCheckpoint ==
  /\ ckpt.epoch <= epoch
  /\ log.open => ckpt.epoch < epoch
  /\ \A i \in ckpt.pending \cup ckpt.cut : i[2] < ckpt.epoch
  /\ \A i \in ckpt.conts : i[2] = ckpt.epoch /\ ckpt.epoch # 0

(* Memory and log: what is queued was accepted, or requeued when the       *)
(* provider was lost; what is in flight was started.                       *)
Logged ==
  /\ \A i \in mem.pending : log.job[i] \in {"accepted", "ended"}
  /\ \A i \in mem.active : log.job[i] = "started"
  /\ mem.deferred \subseteq log.cont

(* No identity in use is accepted again, and none is queued and in flight. *)
Seen == mem.pending \cup mem.active \subseteq mem.known /\ mem.pending \cap mem.active = {}

(* What is owed is in memory, and while no process runs where the next one *)
(* will find it.                                                           *)
Held ==
  /\ at # "down" => owed \subseteq mem.pending \cup mem.deferred \cup mem.active \cup mem.todo
  /\ at = "down" => owed \subseteq Kept

IInv == Typed /\ Stages /\ Dated /\ DatedCheckpoint /\ Logged /\ Seen /\ WorksUnderPinned /\ Held

(***************************************************************************)
(* Lemmas about identities and the queue.                                  *)
(***************************************************************************)
LEMMA IdParts ==
  \A i \in Ids : i = <<i[1], i[2]>> /\ i[1] \in Tasks /\ i[2] \in 0..MaxEpochs /\ i[2] \in Nat
BY DEF Ids

LEMMA BoundIsNat == MaxEpochs \in Nat /\ MaxEpochs # 0 /\ 0..MaxEpochs \subseteq Nat
BY EpochFrontierAssumption

LEMMA RouteIsRoute == \A i \in Ids : Route(i) \in Routes
BY EpochFrontierAssumption DEF Ids, Route

LEMMA ConditionsTyped ==
  /\ {Evidence, Asset, Resumed, Unconditional} \subseteq Conditions
  /\ \A e \in 1..MaxEpochs : NextEpoch(e) \in Conditions
BY DEF Conditions

LEMMA EmptyTyped ==
  /\ Empty \in Memories /\ NoLog \in Logs
  /\ Empty.pending = {} /\ Empty.deferred = {} /\ Empty.active = {} /\ Empty.known = {}
  /\ Empty.sat = {} /\ Empty.todo = {} /\ Empty.release = 0
  /\ NoLog.open = FALSE /\ NoLog.cont = {} /\ NoLog.imported = FALSE /\ NoLog.release = 0
  /\ \A i \in Ids : NoLog.job[i] = "no"
BY DEF Empty, Memories, NoLog, Logs

LEMMA NoCheckpointTyped ==
  /\ NoCheckpoint \in Checkpoints /\ NoCheckpoint.epoch = 0
  /\ NoCheckpoint.pending = {} /\ NoCheckpoint.conts = {} /\ NoCheckpoint.cut = {}
BY BoundIsNat DEF NoCheckpoint, Checkpoints

LEMMA Fields ==
  ASSUME Typed
  PROVE  /\ mem.pending \subseteq Ids /\ mem.deferred \subseteq Ids /\ mem.active \subseteq Ids
         /\ mem.known \subseteq Ids /\ mem.todo \subseteq Ids /\ mem.sat \subseteq Conditions
         /\ log.cont \subseteq Ids /\ log.job \in [Ids -> {"no", "accepted", "started", "ended"}]
         /\ ckpt.pending \subseteq Ids /\ ckpt.conts \subseteq Ids /\ ckpt.cut \subseteq Ids
         /\ epoch \in Nat /\ epoch <= MaxEpochs /\ ckpt.epoch \in Nat /\ ckpt.epoch <= MaxEpochs
BY BoundIsNat DEF Typed, Memories, Logs, Checkpoints

\* What a closed route takes out of the queue, and nothing else.
LEMMA Deferrals ==
  ASSUME NEW m \in Memories, NEW led
  PROVE  /\ Deferring(m, led) \in Memories
         /\ Shut(m, led) \subseteq m.pending
         /\ Deferring(m, led).pending = m.pending \ Shut(m, led)
         /\ Deferring(m, led).known = m.known \ Shut(m, led)
         /\ Deferring(m, led).deferred = m.deferred /\ Deferring(m, led).active = m.active
         /\ Deferring(m, led).todo = m.todo /\ Deferring(m, led).sat = m.sat
         /\ Deferring(m, led).release = m.release
<1>1. Shut(m, led) \subseteq m.pending
  BY DEF Shut
<1>2. QED
  BY <1>1 DEF Deferring, Memories

LEMMA RecordedTyped ==
  ASSUME ledger \in Ledgers, NEW r \in Routes, NEW status \in Statuses, NEW cond \in Conditions
  PROVE  Recorded(r, status, cond) \in Ledgers
BY DEF Recorded, Ledgers

(***************************************************************************)
(* Every action preserves the invariant.                                   *)
(***************************************************************************)
LEMMA InitStep == Init => IInv
<1> SUFFICES ASSUME Init PROVE IInv
  OBVIOUS
<1> USE DEF Init
<1>1. Typed
  <2>1. ledger \in Ledgers
    BY ConditionsTyped DEF Ledgers, Statuses
  <2>2. at \in Phase /\ world \in Worlds /\ Instruction /\ epoch \in 0..MaxEpochs
    BY BoundIsNat DEF Phase, Worlds, Instruction
  <2>3. QED
    BY <2>1, <2>2, EmptyTyped, NoCheckpointTyped DEF Typed
<1>2. Stages
  BY EmptyTyped DEF Stages, Unimported
<1>3. Dated /\ DatedCheckpoint
  BY EmptyTyped, NoCheckpointTyped DEF Dated, DatedCheckpoint
<1>4. Logged /\ Seen /\ WorksUnderPinned /\ Held
  BY EmptyTyped DEF Logged, Seen, WorksUnderPinned, Held
<1>5. QED
  BY <1>1, <1>2, <1>3, <1>4 DEF IInv

\* The variables the invariant speaks of, but for the inbox, what the
\* operator did and what the conditions are.
core == <<at, log, epoch, ckpt, shelf, owed>>

\* What leaves the lists alone preserves all that is said of them.
LEMMA Kindred ==
  ASSUME IInv, UNCHANGED core, Typed',
         mem' = mem \/ (at # "down" /\ \E c \in SUBSET Conditions : mem' = [mem EXCEPT !.sat = c])
  PROVE  IInv'
<1>1. /\ mem'.pending = mem.pending /\ mem'.deferred = mem.deferred /\ mem'.active = mem.active
      /\ mem'.known = mem.known /\ mem'.todo = mem.todo /\ mem'.release = mem.release
  BY DEF IInv, Typed, Memories
<1>2. Stages'
  <2>1. at' # "down" \/ mem' = mem
    BY DEF core
  <2>2. QED
    BY <1>1, <2>1 DEF IInv, Stages, core, Unimported
<1>3. Dated' /\ DatedCheckpoint'
  BY <1>1 DEF IInv, Dated, DatedCheckpoint, core
<1>4. Logged' /\ Seen' /\ WorksUnderPinned'
  BY <1>1 DEF IInv, Logged, Seen, WorksUnderPinned, core
<1>5. Held'
  BY <1>1 DEF IInv, Held, Kept, Unimported, core
<1>6. QED
  BY <1>2, <1>3, <1>4, <1>5 DEF IInv

LEMMA NewEpochStep == IInv /\ NewEpoch => IInv'
<1> SUFFICES ASSUME IInv, NewEpoch PROVE IInv'
  OBVIOUS
<1> USE DEF NewEpoch
<1>1. /\ mem' \in Memories /\ mem'.pending = {} /\ mem'.deferred = {} /\ mem'.active = {}
      /\ mem'.known = {} /\ mem'.todo = ckpt.pending \cup ckpt.conts
      /\ mem'.release = world.release
  BY EmptyTyped, ConditionsTyped, Fields, ZenonT(40) DEF IInv, Typed, Memories, Hydrated, Empty, Worlds
<1>2. /\ log' \in Logs /\ log'.open /\ log'.cont = {} /\ log'.imported = (ckpt.epoch = 0)
      /\ log'.release = world.release /\ \A i \in Ids : log'.job[i] = "no"
  BY EmptyTyped DEF IInv, Typed, Logs, NoLog, Worlds, Drifted
<1>3. epoch' = epoch + 1 /\ epoch \in Nat /\ ckpt.epoch \in Nat /\ ckpt.epoch <= epoch /\ epoch' \in 0..MaxEpochs
  BY BoundIsNat, Fields DEF IInv, Typed, DatedCheckpoint
<1>4. ckpt.epoch = 0 => ckpt.pending = {} /\ ckpt.conts = {}
  BY Fields, IdParts DEF IInv, DatedCheckpoint
<1>5. Typed'
  BY <1>1, <1>2, <1>3 DEF IInv, Typed, Phase, Instruction
<1>6. Stages'
  BY <1>1, <1>2, <1>4 DEF Stages, Unimported
<1>7. Dated'
  <2>1. \A i \in shelf : i[2] < epoch /\ i[2] \in Nat
    BY IdParts DEF IInv, Dated, Typed
  <2>2. QED
    BY <1>1, <1>2, <1>3, <2>1 DEF Dated
<1>8. DatedCheckpoint'
  BY <1>3 DEF IInv, DatedCheckpoint
<1>9. Logged' /\ Seen' /\ WorksUnderPinned'
  BY <1>1, <1>2 DEF Logged, Seen, WorksUnderPinned
<1>10. Held'
  <2>1. owed \subseteq ckpt.pending \cup ckpt.conts
    BY DEF IInv, Held, Kept
  <2>2. QED
    BY <1>1, <2>1 DEF Held
<1>11. QED
  BY <1>5, <1>6, <1>7, <1>8, <1>9, <1>10 DEF IInv

LEMMA ResumeStep == IInv /\ Resume => IInv'
<1> SUFFICES ASSUME IInv, Resume PROVE IInv'
  OBVIOUS
<1> DEFINE halted == {i \in Ids : log.job[i] = "started"}
<1>1. PICK stale \in SUBSET halted :
        /\ mem' = [Recovered(stale) EXCEPT
                     !.todo = IF log.imported THEN {} ELSE ckpt.pending \cup ckpt.conts]
        /\ log' = [log EXCEPT !.job = [i \in Ids |-> IF i \in stale THEN "accepted"
                                         ELSE IF i \in halted THEN "ended" ELSE @[i]]]
        /\ owed' = owed \ (halted \ stale)
        /\ shelf' = shelf \ Recovered(stale).pending
  BY DEF Resume
<1> DEFINE queue == {i \in Ids : log.job[i] = "accepted"} \cup stale
<1>2. /\ Recovered(stale).pending = queue
      /\ Recovered(stale).deferred = {i \in log.cont : log.job[i] = "no" /\ i \notin queue}
      /\ Recovered(stale).active = {}
      /\ Recovered(stale).known = {i \in Ids : log.job[i] # "no"} \cup log.cont
      /\ Recovered(stale).release = world.release
      /\ Recovered(stale) \in Memories
  BY Fields, ConditionsTyped DEF Recovered, Empty, Memories, Hydrated, IInv, Typed, Worlds
<1>3. /\ mem' \in Memories
      /\ mem'.pending = queue /\ mem'.active = {}
      /\ mem'.deferred = {i \in log.cont : log.job[i] = "no" /\ i \notin queue}
      /\ mem'.known = {i \in Ids : log.job[i] # "no"} \cup log.cont
      /\ mem'.todo = (IF log.imported THEN {} ELSE ckpt.pending \cup ckpt.conts)
      /\ mem'.release = world.release
  BY <1>1, <1>2, Fields DEF Memories, IInv
<1>4. /\ log' \in Logs /\ log'.open = log.open /\ log'.cont = log.cont
      /\ log'.imported = log.imported /\ log'.release = log.release
      /\ \A i \in Ids : log'.job[i] = IF i \in stale THEN "accepted"
                                      ELSE IF i \in halted THEN "ended" ELSE log.job[i]
  BY <1>1 DEF IInv, Typed, Logs
<1>5. /\ log.open /\ world.release = log.release
      /\ at' = IF log.imported THEN "preflight" ELSE "import"
      /\ UNCHANGED <<epoch, ckpt, ledger, inbox, asset, world, paused>>
  BY DEF Resume, SameRelease
<1>6. Typed'
  BY <1>1, <1>3, <1>4, <1>5 DEF IInv, Typed, Phase, Instruction
<1>7. Stages'
  BY <1>3, <1>4, <1>5 DEF Stages, Unimported
<1>8. Dated'
  <2>1. \A i \in queue : i[2] < epoch
    BY DEF IInv, Dated
  <2>2. \A i \in Ids : log'.job[i] # "no" => i[2] < epoch
    BY <1>4 DEF IInv, Dated
  <2>3. QED
    BY <1>1, <1>3, <1>4, <1>5, <2>1, <2>2 DEF IInv, Dated
<1>9. DatedCheckpoint'
  BY <1>4, <1>5 DEF IInv, DatedCheckpoint
<1>10. Logged' /\ Seen' /\ WorksUnderPinned'
  BY <1>3, <1>4, <1>5 DEF Logged, Seen, WorksUnderPinned
<1>11. Held'
  <2>1. owed \subseteq {i \in Ids : log.job[i] \in {"accepted", "started"}}
                       \cup {i \in log.cont : log.job[i] = "no"} \cup Unimported
    BY <1>5 DEF IInv, Held, Kept, Resume
  <2>2. \A i \in owed' : i \in queue \/ i \in mem'.deferred \/ i \in mem'.todo
    BY <1>1, <1>3, <2>1 DEF Unimported
  <2>3. QED
    BY <1>3, <1>5, <2>2 DEF Held
<1>12. QED
  BY <1>6, <1>7, <1>8, <1>9, <1>10, <1>11 DEF IInv

LEMMA DiscardPlanStep == IInv /\ DiscardPlan => IInv'
<1> SUFFICES ASSUME IInv, DiscardPlan PROVE IInv'
  OBVIOUS
<1> USE DEF DiscardPlan
<1>1. /\ mem' \in Memories /\ mem'.todo = {}
      /\ mem'.pending = mem.pending /\ mem'.deferred = mem.deferred /\ mem'.active = mem.active
      /\ mem'.known = mem.known /\ mem'.release = mem.release
  BY DEF IInv, Typed, Memories
<1>2. Typed'
  BY <1>1 DEF IInv, Typed, Phase, Instruction
<1>3. Stages' /\ Dated' /\ DatedCheckpoint' /\ Logged' /\ Seen' /\ WorksUnderPinned'
  BY <1>1 DEF IInv, Stages, Dated, DatedCheckpoint, Logged, Seen, WorksUnderPinned
<1>4. Held'
  BY <1>1 DEF IInv, Held
<1>5. QED
  BY <1>2, <1>3, <1>4 DEF IInv

\* The import gives up: nothing but the phase changes.
LEMMA FailedImport ==
  ASSUME IInv, at = "import", at' = "failed",
         UNCHANGED <<mem, log, epoch, ckpt, ledger, inbox, asset, world, shelf, owed, paused>>
  PROVE  IInv'
<1>1. Typed'
  BY DEF IInv, Typed, Phase, Instruction
<1>2. Stages' /\ Dated' /\ DatedCheckpoint' /\ Logged' /\ Seen' /\ WorksUnderPinned' /\ Held'
  BY DEF IInv, Stages, Unimported, Dated, DatedCheckpoint, Logged, Seen, WorksUnderPinned, Held
<1>3. QED
  BY <1>1, <1>2 DEF IInv

\* What may be imported is a task of the predecessor, older than the epoch.
LEMMA ImportingOlder ==
  ASSUME IInv, NEW i \in Ids, Importing(i)
  PROVE  /\ at = "import" /\ log.open /\ mem.active = {} /\ i \in mem.todo
         /\ i \in ckpt.pending \cup ckpt.conts /\ i[2] < epoch
         /\ i \in ckpt.conts => ckpt.epoch \in 1..MaxEpochs
<1>1. at = "import" /\ log.open /\ mem.active = {} /\ i \in mem.todo
  BY DEF Importing, IInv, Stages
<1>2. i \in ckpt.pending \cup ckpt.conts
  BY <1>1 DEF IInv, Stages, Unimported
<1>3. epoch \in Nat /\ ckpt.epoch \in Nat /\ ckpt.epoch < epoch /\ ckpt.epoch <= MaxEpochs /\ i[2] \in Nat
  BY <1>1, Fields, IdParts DEF IInv, DatedCheckpoint
<1>4. i[2] <= ckpt.epoch /\ (i \in ckpt.conts => ckpt.epoch # 0)
  BY <1>2, <1>3 DEF IInv, DatedCheckpoint
<1>5. QED
  BY <1>1, <1>2, <1>3, <1>4, BoundIsNat

LEMMA SkipImportStep ==
  ASSUME IInv, NEW i \in Ids, SkipImport(i)
  PROVE  IInv'
<1> USE DEF SkipImport, Done
<1>1. /\ mem' \in Memories /\ mem'.todo = mem.todo \ {i}
      /\ mem'.pending = mem.pending /\ mem'.deferred = mem.deferred /\ mem'.active = mem.active
      /\ mem'.known = mem.known /\ mem'.release = mem.release
  BY DEF IInv, Typed, Memories
<1>2. at = "import"
  BY DEF Importing
<1>3. Typed'
  BY <1>1 DEF IInv, Typed, Instruction
<1>4. Stages'
  BY <1>1, <1>2 DEF IInv, Stages, Unimported
<1>5. Dated' /\ DatedCheckpoint' /\ Logged' /\ Seen' /\ WorksUnderPinned'
  BY <1>1 DEF IInv, Dated, DatedCheckpoint, Logged, Seen, WorksUnderPinned
<1>6. Held'
  BY <1>1, <1>2 DEF IInv, Held
<1>7. QED
  BY <1>3, <1>4, <1>5, <1>6 DEF IInv

LEMMA DeferImportStep ==
  ASSUME IInv, NEW i \in Ids, DeferImport(i)
  PROVE  IInv'
<1> USE DEF DeferImport
<1>1. Satisfied(i) \in SUBSET Conditions
  <2>1. i \in ckpt.conts => NextEpoch(ckpt.epoch) \in Conditions
    BY ImportingOlder, ConditionsTyped
  <2>2. QED
    BY <2>1, Fields DEF IInv, Satisfied
<1>2. /\ mem' \in Memories /\ mem'.todo = mem.todo \ {i}
      /\ mem'.pending = mem.pending /\ mem'.deferred = mem.deferred /\ mem'.active = mem.active
      /\ mem'.known = mem.known /\ mem'.release = mem.release
  BY <1>1 DEF IInv, Typed, Memories, Done
<1>3. Typed'
  BY <1>2 DEF IInv, Typed, Instruction
<1>4. Stages'
  BY <1>2, ImportingOlder DEF IInv, Stages, Unimported
<1>5. Dated'
  BY <1>2, ImportingOlder DEF IInv, Dated
<1>6. DatedCheckpoint' /\ Logged' /\ Seen' /\ WorksUnderPinned'
  BY <1>2 DEF IInv, DatedCheckpoint, Logged, Seen, WorksUnderPinned
<1>7. Held'
  BY <1>2, ImportingOlder DEF IInv, Held
<1>8. QED
  BY <1>3, <1>4, <1>5, <1>6, <1>7 DEF IInv

LEMMA ReopenedTyped ==
  ASSUME Typed, NEW i \in Ids
  PROVE  Reopened(i) \in Ledgers
BY RecordedTyped, RouteIsRoute, ConditionsTyped DEF Typed, Reopened, Statuses

\* A task enters the queue, accepted in the log.
LEMMA Accepting ==
  ASSUME IInv, NEW i \in Ids, i[2] < epoch, i \notin mem.pending, at = "import", log.open,
         mem' \in Memories, mem'.pending = mem.pending \cup {i}, mem'.known = mem.known \cup {i},
         mem'.deferred = mem.deferred, mem'.active = mem.active, mem'.release = mem.release,
         mem'.todo \subseteq mem.todo, mem.todo \ {i} \subseteq mem'.todo,
         log' = [log EXCEPT !.job[i] = "accepted"], ledger' \in Ledgers,
         shelf' = shelf \ {i}, owed' \subseteq owed \cup {i},
         UNCHANGED <<at, epoch, ckpt, inbox, asset, world, paused>>
  PROVE  IInv'
<1>1. /\ log' \in Logs /\ log'.open = log.open /\ log'.cont = log.cont
      /\ log'.imported = log.imported /\ log'.release = log.release /\ log'.job[i] = "accepted"
      /\ \A j \in Ids : j # i => log'.job[j] = log.job[j]
  BY DEF IInv, Typed, Logs
<1>2. mem.active = {}
  BY DEF IInv, Stages
<1>3. Typed'
  BY <1>1 DEF IInv, Typed, Instruction
<1>4. Stages'
  BY <1>1, <1>2 DEF IInv, Stages, Unimported
<1>5. Dated'
  <2>1. \A j \in Ids : log'.job[j] # "no" => j[2] < epoch
    BY <1>1 DEF IInv, Dated
  <2>2. QED
    BY <1>1, <2>1 DEF IInv, Dated
<1>6. DatedCheckpoint'
  BY <1>1 DEF IInv, DatedCheckpoint
<1>7. Logged'
  <2>1. \A j \in mem'.pending : log'.job[j] \in {"accepted", "ended"}
    BY <1>1, Fields DEF IInv, Logged
  <2>2. QED
    BY <1>1, <1>2, <2>1 DEF IInv, Logged
<1>8. Seen' /\ WorksUnderPinned'
  BY <1>1, <1>2 DEF IInv, Seen, WorksUnderPinned
<1>9. Held'
  BY <1>1 DEF IInv, Held
<1>10. QED
  BY <1>3, <1>4, <1>5, <1>6, <1>7, <1>8, <1>9 DEF IInv

LEMMA ImportStep ==
  ASSUME IInv, NEW i \in Ids, Import(i)
  PROVE  IInv'
<1> USE DEF Import
<1>1. Satisfied(i) \in SUBSET Conditions
  <2>1. i \in ckpt.conts => NextEpoch(ckpt.epoch) \in Conditions
    BY ImportingOlder, ConditionsTyped
  <2>2. QED
    BY <2>1, Fields DEF IInv, Satisfied
<1>2. /\ mem' \in Memories /\ mem'.todo = mem.todo \ {i}
      /\ mem'.pending = mem.pending \cup {i} /\ mem'.deferred = mem.deferred
      /\ mem'.active = mem.active /\ mem'.known = mem.known \cup {i} /\ mem'.release = mem.release
  BY <1>1, Fields DEF IInv, Typed, Memories, Done
<1>3. ledger' \in Ledgers
  BY ReopenedTyped DEF IInv
<1>4. QED
  BY <1>2, <1>3, ImportingOlder, Accepting

LEMMA ImportCutStep ==
  ASSUME IInv, NEW i \in Ids, ImportCut(i)
  PROVE  IInv'
<1> USE DEF ImportCut, Rescuable
<1>1. log.open /\ i \in ckpt.cut /\ i \notin mem.pending
  BY DEF IInv, Stages
<1>2. i[2] < epoch
  <2>1. ckpt.epoch < epoch /\ epoch \in Nat /\ ckpt.epoch \in Nat /\ i[2] \in Nat /\ i[2] < ckpt.epoch
    BY <1>1, Fields, IdParts DEF IInv, DatedCheckpoint
  <2>2. QED
    BY <2>1
<1>3. /\ mem' \in Memories /\ mem'.todo = mem.todo
      /\ mem'.pending = mem.pending \cup {i} /\ mem'.deferred = mem.deferred
      /\ mem'.active = mem.active /\ mem'.known = mem.known \cup {i} /\ mem'.release = mem.release
  BY Fields DEF IInv, Typed, Memories
<1>4. ledger' \in Ledgers
  BY DEF IInv, Typed
<1>5. QED
  BY <1>1, <1>2, <1>3, <1>4, Accepting

LEMMA ImportDoneStep == IInv /\ ImportDone => IInv'
<1> SUFFICES ASSUME IInv, ImportDone PROVE IInv'
  OBVIOUS
<1> USE DEF ImportDone
<1>1. /\ mem' \in Memories /\ mem'.todo = {}
      /\ mem'.pending = mem.pending /\ mem'.deferred = mem.deferred /\ mem'.active = mem.active
      /\ mem'.known = mem.known /\ mem'.release = mem.release
  BY ConditionsTyped DEF IInv, Typed, Memories
<1>2. /\ log' \in Logs /\ log'.open = log.open /\ log'.cont = log.cont /\ log'.job = log.job
      /\ log'.release = log.release
  BY DEF IInv, Typed, Logs
<1>3. Typed'
  BY <1>1, <1>2, NoCheckpointTyped DEF IInv, Typed, Phase, Instruction
<1>4. Stages'
  BY <1>1, <1>2 DEF IInv, Stages
<1>5. Dated' /\ Logged' /\ Seen' /\ WorksUnderPinned' /\ Held'
  BY <1>1, <1>2 DEF IInv, Dated, Logged, Seen, WorksUnderPinned, Held
<1>6. DatedCheckpoint'
  <2>1. epoch \in Nat /\ epoch # 0
    BY Fields DEF IInv, Stages, DatedCheckpoint
  <2>2. QED
    BY <2>1, NoCheckpointTyped DEF DatedCheckpoint
<1>7. QED
  BY <1>3, <1>4, <1>5, <1>6 DEF IInv

\* Tasks of closed routes leave the queue, and nothing else of the lists
\* changes (_defer_nonretryable_pending_routes).
LEMMA Deferral ==
  ASSUME IInv, NEW led, Defer(mem, led), at \in {"preflight", "run", "drain"},
         at' = at \/ (at = "preflight" /\ at' = "run"),
         UNCHANGED <<log, epoch, ckpt, world>>, Typed'
  PROVE  IInv'
<1> DEFINE gone == Shut(mem, led)
<1>1. /\ gone \subseteq mem.pending
      /\ mem'.pending = mem.pending \ gone /\ mem'.known = mem.known \ gone
      /\ mem'.deferred = mem.deferred /\ mem'.active = mem.active /\ mem'.todo = mem.todo
      /\ mem'.release = mem.release
      /\ shelf' = shelf \cup gone /\ owed' = owed \ gone
  BY Deferrals DEF IInv, Typed, Defer
<1>2. Stages'
  BY <1>1 DEF IInv, Stages, Unimported
<1>3. Dated' /\ DatedCheckpoint'
  BY <1>1 DEF IInv, Dated, DatedCheckpoint
<1>4. Logged' /\ WorksUnderPinned'
  BY <1>1 DEF IInv, Logged, WorksUnderPinned
<1>5. Seen'
  BY <1>1 DEF IInv, Seen
<1>6. Held'
  BY <1>1 DEF IInv, Held
<1>7. QED
  BY <1>2, <1>3, <1>4, <1>5, <1>6 DEF IInv

LEMMA DeferralTyped ==
  ASSUME Typed, NEW led, Defer(mem, led)
  PROVE  mem' \in Memories /\ shelf' \in SUBSET Ids /\ owed' \in SUBSET Ids
BY Deferrals, Fields DEF Typed, Defer

LEMMA PreflightStep == IInv /\ Preflight => IInv'
<1> SUFFICES ASSUME IInv, Preflight PROVE IInv'
  OBVIOUS
<1>1. Typed'
  BY DeferralTyped DEF Preflight, IInv, Typed, Phase, Instruction
<1>2. QED
  BY <1>1, Deferral DEF Preflight

LEMMA InstructStep ==
  ASSUME IInv, NEW kind, NEW r, kind = "ASSET" \/ r \in Routes, Instruct(kind, r)
  PROVE  IInv'
<1>1. Typed'
  BY DEF IInv, Typed, Instruct, Worlds, Instruction
<1>2. QED
  BY <1>1, Kindred DEF Instruct, core

\* The operator's instruction is recorded under a route of the campaign.
LEMMA RecordInstructed ==
  ASSUME IInv, NEW status \in Statuses, NEW cond \in Conditions,
         Instructed("PAUSE_ROUTE") \/ Instructed("RESUME_ROUTE")
  PROVE  inbox[2] \in Routes /\ Recorded(inbox[2], status, cond) \in Ledgers
<1>1. inbox[2] \in Routes
  BY DEF IInv, Typed, Instruction, Instructed
<1>2. QED
  BY <1>1, RecordedTyped DEF IInv, Typed

LEMMA PollPauseStep == IInv /\ PollPause => IInv'
<1> SUFFICES ASSUME IInv, PollPause PROVE IInv'
  OBVIOUS
<1>1. inbox[2] \in Routes /\ Recorded(inbox[2], "PAUSED", Resumed) \in Ledgers
  BY RecordInstructed, ConditionsTyped DEF PollPause, Statuses
<1>2. PICK led : led = ledger'
  OBVIOUS
<1>3. Defer(mem, led) /\ led \in Ledgers
  BY <1>1, <1>2 DEF PollPause, Defer
<1>4. at \in {"preflight", "run", "drain"} /\ UNCHANGED <<at, log, epoch, ckpt, world>>
  BY DEF PollPause, Instructed, Applied
<1>5. Typed'
  BY <1>1, <1>2, <1>3, DeferralTyped DEF PollPause, IInv, Typed, Instruction, Applied
<1>6. QED
  BY <1>3, <1>4, <1>5, Deferral

LEMMA PollResumeStep == IInv /\ PollResume => IInv'
<1> SUFFICES ASSUME IInv, PollResume PROVE IInv'
  OBVIOUS
<1>1. inbox[2] \in Routes /\ Recorded(inbox[2], "ACTIVE", Unconditional) \in Ledgers
  BY RecordInstructed, ConditionsTyped DEF PollResume, Statuses
<1>2. /\ mem.sat \cup {Resumed} \in SUBSET Conditions
      /\ mem' = [mem EXCEPT !.sat = mem.sat \cup {Resumed}]
  BY ConditionsTyped, Fields DEF IInv, PollResume
<1>3. mem' \in Memories
  BY <1>2 DEF IInv, Typed, Memories
<1>4. Typed'
  BY <1>1, <1>3 DEF PollResume, IInv, Typed, Instruction, Applied
<1>5. QED
  BY <1>2, <1>4, Kindred DEF PollResume, Applied, Instructed, core

LEMMA PollAssetStep == IInv /\ PollAsset => IInv'
<1> SUFFICES ASSUME IInv, PollAsset PROVE IInv'
  OBVIOUS
<1>1. /\ mem.sat \cup {Asset} \in SUBSET Conditions
      /\ mem' = [mem EXCEPT !.sat = mem.sat \cup {Asset}]
  BY ConditionsTyped, Fields DEF IInv, PollAsset
<1>2. mem' \in Memories
  BY <1>1 DEF IInv, Typed, Memories
<1>3. Typed'
  BY <1>2 DEF PollAsset, IInv, Typed, Instruction, Applied
<1>4. QED
  BY <1>1, <1>3, Kindred DEF PollAsset, Applied, Instructed, core

(***************************************************************************)
(* A process dies: what it owed is in the log or in the checkpoint.        *)
(***************************************************************************)
LEMMA Death ==
  ASSUME IInv, Die, at # "down", ledger' \in Ledgers,
         UNCHANGED <<log, epoch, ckpt, inbox, asset, shelf, paused>>
  PROVE  IInv'
<1>1. mem' = Empty /\ at' = "down" /\ world' \in Worlds /\ owed' \subseteq owed
  BY DEF Die, IInv, Typed, Worlds
<1>2. log.open
  BY DEF IInv, Stages
<1>3. Typed'
  BY <1>1, EmptyTyped DEF IInv, Typed, Phase, Instruction
<1>4. Stages' /\ WorksUnderPinned'
  BY <1>1, <1>2, EmptyTyped DEF Stages, WorksUnderPinned
<1>5. Dated' /\ DatedCheckpoint'
  BY <1>1, EmptyTyped DEF IInv, Dated, DatedCheckpoint
<1>6. Logged' /\ Seen'
  BY <1>1, EmptyTyped DEF Logged, Seen
<1>7. Held'
  <2> SUFFICES ASSUME NEW i \in owed'
               PROVE  i \in Kept'
    BY <1>1 DEF Held
  <2>1. i \in owed /\ ~(i \in mem.pending /\ log.job[i] = "ended") /\ i \in Ids
    BY DEF Die, IInv, Typed
  <2>2. i \in mem.pending \/ i \in mem.deferred \/ i \in mem.active \/ i \in mem.todo
    BY <2>1 DEF IInv, Held
  <2>3. i \in mem.pending => log.job[i] = "accepted"
    BY <2>1 DEF IInv, Logged
  <2>4. i \in mem.active => log.job[i] = "started"
    BY DEF IInv, Logged
  <2>5. i \in mem.deferred => i \in log.cont /\ log.job[i] = "no"
    <3>1. i \in mem.deferred => i \in log.cont /\ i[2] = epoch /\ (log.job[i] # "no" => i[2] < epoch)
      BY <2>1 DEF IInv, Logged, Dated
    <3>2. QED
      BY <3>1, Fields DEF IInv
  <2>6. i \in mem.todo => i \in Unimported
    BY DEF IInv, Stages
  <2>7. \/ i \in {j \in Ids : log.job[j] \in {"accepted", "started"}}
        \/ i \in {j \in log.cont : log.job[j] = "no"} \/ i \in Unimported
    BY <2>1, <2>2, <2>3, <2>4, <2>5, <2>6
  <2>8. QED
    BY <1>1, <1>2, <2>7 DEF Kept, Unimported
<1>8. QED
  BY <1>3, <1>4, <1>5, <1>6, <1>7 DEF IInv

LEMMA CrashStep == IInv /\ Crash => IInv'
BY Death DEF Crash, IInv, Typed

LEMMA ImportTornStep ==
  ASSUME IInv, NEW i \in Ids, ImportTorn(i)
  PROVE  IInv'
BY Death, ReopenedTyped DEF ImportTorn, Importing, IInv

LEMMA PollTornStep == IInv /\ PollTorn => IInv'
<1> SUFFICES ASSUME IInv, PollTorn PROVE IInv'
  OBVIOUS
<1>1. /\ Recorded(inbox[2], "PAUSED", Resumed) \in Ledgers
      /\ Recorded(inbox[2], "ACTIVE", Unconditional) \in Ledgers
  BY RecordInstructed, ConditionsTyped DEF PollTorn, Statuses
<1>2. at # "down" /\ ledger' \in Ledgers
  BY <1>1 DEF PollTorn, Instructed
<1>3. QED
  BY <1>2, Death DEF PollTorn

(***************************************************************************)
(* Plans and jobs.                                                         *)
(***************************************************************************)
LEMMA UpdatedTyped ==
  ASSUME Typed, NEW u \in Updates
  PROVE  Updated(u) \in Ledgers
<1>1. CASE u = <<>>
  BY <1>1 DEF Updated, Typed
<1>2. CASE u # <<>>
  <2>1. u[1] \in Routes /\ u[2][2] \in Conditions
    BY <1>2, ConditionsTyped DEF Updates, Asked
  <2>2. /\ Recorded(u[1], "PAUSED", u[2][2]) \in Ledgers
        /\ Recorded(u[1], "ACTIVE", Unconditional) \in Ledgers
    BY <2>1, RecordedTyped, ConditionsTyped DEF Typed, Statuses
  <2>3. ledger \in Ledgers
    BY DEF Typed
  <2>4. QED
    BY <1>2, <2>2, <2>3 DEF Updated
<1>3. QED
  BY <1>1, <1>2

\* A Director can name a new task, one that was deferred, or a continuation;
\* only the first two are admissible, and they are older than the epoch.
LEMMA AdmissibleOlder ==
  ASSUME IInv, at = "run", NEW p \in Proposals, NEW i \in p, Admissible(i)
  PROVE  i \in Ids /\ i[2] < epoch /\ i \notin mem.pending /\ i \notin mem.active /\ i \notin mem.deferred
<1>1. epoch \in Nat /\ epoch # 0
  BY Fields DEF IInv, Stages, DatedCheckpoint
<1>2. i \notin mem.pending /\ i \notin mem.active /\ i \notin mem.deferred
  BY DEF Admissible, IInv, Seen
<1>3. i \in (Tasks \X {0}) \cup shelf
  BY <1>2 DEF Proposals
<1>4. i \in Ids /\ i[2] < epoch
  BY <1>1, <1>3, BoundIsNat DEF IInv, Typed, Dated, Ids
<1>5. QED
  BY <1>2, <1>4

LEMMA PlanStep == IInv /\ Plan => IInv'
<1> SUFFICES ASSUME IInv, Plan PROVE IInv'
  OBVIOUS
<1>1. PICK p \in Proposals, u \in Updates :
        LET accepted == {i \in p : Admissible(i)}
            led == Updated(u)
            queued == [mem EXCEPT !.pending = @ \cup accepted, !.known = @ \cup accepted]
            kept == Deferring(queued, led)
        IN  /\ ledger' = led
            /\ mem' = kept
            /\ log' = [log EXCEPT !.job = [i \in Ids |-> IF i \in accepted THEN "accepted" ELSE @[i]]]
            /\ shelf' = (shelf \ accepted) \cup Shut(queued, led)
            /\ owed' = (owed \cup accepted) \ Shut(queued, led)
  BY Zenon DEF Plan
<1>a. at' \in {"run", "drain"}
  BY DEF Plan
<1> DEFINE accepted == {i \in p : Admissible(i)}
           queued == [mem EXCEPT !.pending = @ \cup accepted, !.known = @ \cup accepted]
           gone == Shut(queued, Updated(u))
<1>2. at = "run" /\ log.open /\ mem.todo = {} /\ UNCHANGED <<epoch, ckpt, inbox, asset, world, paused>>
  BY DEF Plan, IInv, Stages
<1>3. /\ accepted \subseteq Ids /\ \A i \in accepted : i[2] < epoch
      /\ accepted \cap (mem.pending \cup mem.active \cup mem.deferred) = {}
  BY <1>2, AdmissibleOlder
<1>4. /\ queued \in Memories /\ queued.pending = mem.pending \cup accepted
      /\ queued.known = mem.known \cup accepted /\ queued.deferred = mem.deferred
      /\ queued.active = mem.active /\ queued.todo = mem.todo /\ queued.release = mem.release
  BY <1>3, Fields DEF IInv, Typed, Memories
<1>b. mem' = Deferring(queued, Updated(u))
  BY <1>1 DEF accepted, queued
<1> HIDE DEF accepted, queued
<1>5. /\ mem' \in Memories /\ gone \subseteq mem.pending \cup accepted
      /\ mem'.pending = (mem.pending \cup accepted) \ gone
      /\ mem'.known = (mem.known \cup accepted) \ gone
      /\ mem'.deferred = mem.deferred /\ mem'.active = mem.active /\ mem'.todo = mem.todo
      /\ mem'.release = mem.release
  BY <1>b, <1>4, Deferrals
<1>6. /\ log' \in Logs /\ log'.open = log.open /\ log'.cont = log.cont
      /\ log'.imported = log.imported /\ log'.release = log.release
      /\ \A i \in Ids : log'.job[i] = IF i \in accepted THEN "accepted" ELSE log.job[i]
  <2>1. log' = [log EXCEPT !.job = [i \in Ids |-> IF i \in accepted THEN "accepted" ELSE @[i]]]
    BY <1>1 DEF accepted
  <2>2. QED
    BY <2>1 DEF IInv, Typed, Logs
<1>7. /\ shelf' = (shelf \ accepted) \cup gone /\ owed' = (owed \cup accepted) \ gone
      /\ ledger' = Updated(u) /\ at' \in {"run", "drain"}
  BY <1>1, <1>a DEF accepted, queued
<1> HIDE DEF gone
<1>8. Typed'
  <2>1. ledger' \in Ledgers
    BY <1>7, UpdatedTyped DEF IInv
  <2>2. shelf' \in SUBSET Ids /\ owed' \in SUBSET Ids
    BY <1>3, <1>5, <1>7, Fields DEF IInv, Typed
  <2>3. QED
    BY <1>2, <1>5, <1>6, <1>7, <2>1, <2>2 DEF IInv, Typed, Phase, Instruction
<1>9. Stages'
  BY <1>2, <1>5, <1>6, <1>7 DEF Stages
<1>10. Dated'
  <2>1. \A i \in Ids : log'.job[i] # "no" => i[2] < epoch
    BY <1>3, <1>6 DEF IInv, Dated
  <2>2. \A i \in mem'.pending \cup mem'.active \cup shelf' : i[2] < epoch
    BY <1>3, <1>5, <1>7 DEF IInv, Dated
  <2>3. QED
    BY <1>2, <1>5, <1>6, <2>1, <2>2 DEF IInv, Dated
<1>11. DatedCheckpoint'
  BY <1>2, <1>6 DEF IInv, DatedCheckpoint
<1>12. Logged'
  <2>1. \A i \in mem'.pending : log'.job[i] \in {"accepted", "ended"}
    BY <1>3, <1>5, <1>6, Fields DEF IInv, Logged
  <2>2. \A i \in mem'.active : log'.job[i] = "started"
    BY <1>3, <1>5, <1>6, Fields DEF IInv, Logged
  <2>3. QED
    BY <1>5, <1>6, <2>1, <2>2 DEF IInv, Logged
<1>13. Seen'
  <2>1. gone \cap mem.active = {}
    BY <1>3, <1>5 DEF IInv, Seen
  <2>2. QED
    BY <1>3, <1>5, <2>1 DEF IInv, Seen
<1>14. WorksUnderPinned'
  BY <1>2, <1>5, <1>6 DEF IInv, WorksUnderPinned
<1>15. Held'
  BY <1>2, <1>5, <1>7 DEF IInv, Held
<1>16. QED
  BY <1>8, <1>9, <1>10, <1>11, <1>12, <1>13, <1>14, <1>15 DEF IInv

LEMMA LaunchStep ==
  ASSUME IInv, NEW i \in Ids, Launch(i)
  PROVE  IInv'
<1> DEFINE gone == Shut(mem, ledger)
<1>1. /\ Deferring(mem, ledger) \in Memories /\ gone \subseteq mem.pending
      /\ Deferring(mem, ledger).pending = mem.pending \ gone
      /\ Deferring(mem, ledger).known = mem.known \ gone
      /\ Deferring(mem, ledger).deferred = mem.deferred
      /\ Deferring(mem, ledger).active = mem.active /\ Deferring(mem, ledger).todo = mem.todo
      /\ Deferring(mem, ledger).release = mem.release
  BY Deferrals DEF IInv, Typed
<1>2. /\ mem' \in Memories /\ i \in mem.pending \ gone
      /\ mem'.pending = (mem.pending \ gone) \ {i} /\ mem'.active = mem.active \cup {i}
      /\ mem'.known = mem.known \ gone /\ mem'.deferred = mem.deferred /\ mem'.todo = mem.todo
      /\ mem'.release = mem.release
  BY <1>1, Fields DEF Launch, IInv, Memories
<1>3. /\ log' \in Logs /\ log'.open = log.open /\ log'.cont = log.cont
      /\ log'.imported = log.imported /\ log'.release = log.release /\ log'.job[i] = "started"
      /\ \A j \in Ids : j # i => log'.job[j] = log.job[j]
  BY DEF Launch, IInv, Typed, Logs
<1>4. /\ at = "run" /\ shelf' = shelf \cup gone /\ owed' = owed \ gone
      /\ UNCHANGED <<at, epoch, ckpt, ledger, inbox, asset, world, paused>>
  BY DEF Launch
<1> HIDE DEF gone
<1>5. Typed'
  BY <1>1, <1>2, <1>3, <1>4, Fields DEF IInv, Typed, Instruction
<1>6. Stages'
  BY <1>2, <1>3, <1>4 DEF IInv, Stages, Unimported
<1>7. Dated' /\ DatedCheckpoint'
  <2>1. i[2] < epoch
    BY <1>2 DEF IInv, Dated
  <2>2. \A j \in Ids : log'.job[j] # "no" => j[2] < epoch
    BY <1>3, <2>1 DEF IInv, Dated
  <2>3. QED
    BY <1>1, <1>2, <1>3, <1>4, <2>1, <2>2 DEF IInv, Dated, DatedCheckpoint
<1>8. Logged'
  BY <1>2, <1>3, Fields DEF IInv, Logged, Seen
<1>9. Seen' /\ WorksUnderPinned'
  BY <1>1, <1>2, <1>3, <1>4 DEF IInv, Seen, WorksUnderPinned
<1>10. Held'
  BY <1>2, <1>4 DEF IInv, Held
<1>11. QED
  BY <1>5, <1>6, <1>7, <1>8, <1>9, <1>10 DEF IInv

\* A job in flight: its task is older than the epoch and in no other list.
LEMMA InFlight ==
  ASSUME IInv, NEW i \in Ids, Running(i)
  PROVE  /\ at \in {"run", "drain"} /\ log.open /\ mem.todo = {} /\ i \in mem.active
         /\ i[2] < epoch /\ i \notin mem.pending /\ i \notin mem.deferred
         /\ epoch \in 1..MaxEpochs
<1>1. at \in {"run", "drain"} /\ log.open /\ mem.todo = {} /\ i \in mem.active
  BY DEF Running, IInv, Stages
<1>2. i[2] < epoch /\ i \notin mem.pending /\ (i \in mem.deferred => i[2] = epoch)
  BY <1>1 DEF IInv, Dated, Seen
<1>3. epoch \in 1..MaxEpochs
  BY <1>1, Fields DEF IInv, DatedCheckpoint
<1>4. QED
  BY <1>1, <1>2, <1>3

LEMMA EndsStep ==
  ASSUME IInv, NEW i \in Ids, NEW status \in {"COMPLETED", "FAILED", "PAUSED"}, Ends(i, status)
  PROVE  IInv'
<1> USE DEF Ends, Recording
<1>1. /\ mem' \in Memories /\ mem'.active = mem.active \ {i}
      /\ mem'.pending = mem.pending /\ mem'.deferred = mem.deferred /\ mem'.known = mem.known
      /\ mem'.todo = mem.todo /\ mem'.release = mem.release
  BY Fields DEF IInv, Typed, Memories, Left
<1>2. /\ log' \in Logs /\ log'.open = log.open /\ log'.cont = log.cont
      /\ log'.imported = log.imported /\ log'.release = log.release /\ log'.job[i] = "ended"
      /\ \A j \in Ids : j # i => log'.job[j] = log.job[j]
  BY DEF IInv, Typed, Logs, Ended
<1>3. ledger' \in Ledgers
  BY RecordedTyped, RouteIsRoute, ConditionsTyped DEF IInv, Typed, Statuses
<1>4. Typed'
  BY <1>1, <1>2, <1>3 DEF IInv, Typed, Instruction
<1>5. Stages'
  BY <1>1, <1>2, InFlight DEF IInv, Stages
<1>6. Dated' /\ DatedCheckpoint'
  <2>1. \A j \in Ids : log'.job[j] # "no" => j[2] < epoch
    BY <1>2, InFlight DEF IInv, Dated
  <2>2. QED
    BY <1>1, <1>2, <2>1 DEF IInv, Dated, DatedCheckpoint
<1>7. Logged'
  BY <1>1, <1>2, InFlight, Fields DEF IInv, Logged
<1>8. Seen' /\ WorksUnderPinned'
  BY <1>1, <1>2 DEF IInv, Seen, WorksUnderPinned
<1>9. Held'
  BY <1>1, InFlight DEF IInv, Held
<1>10. QED
  BY <1>4, <1>5, <1>6, <1>7, <1>8, <1>9 DEF IInv

\* A task comes back into the queue from a job in flight.
LEMMA Requeued ==
  ASSUME IInv, NEW i \in Ids, Running(i), NEW mark \in {"accepted", "ended"},
         at' \in {at, "drain"},
         mem' \in Memories, mem'.pending = mem.pending \cup {i}, mem'.active = mem.active \ {i},
         mem'.deferred = mem.deferred, mem'.known = mem.known, mem'.todo = mem.todo,
         mem'.release = mem.release,
         log' = [log EXCEPT !.job[i] = mark],
         UNCHANGED <<epoch, ckpt, ledger, inbox, asset, world, shelf, owed, paused>>
  PROVE  IInv'
<1>1. /\ log' \in Logs /\ log'.open = log.open /\ log'.cont = log.cont
      /\ log'.imported = log.imported /\ log'.release = log.release /\ log'.job[i] = mark
      /\ \A j \in Ids : j # i => log'.job[j] = log.job[j]
  BY DEF IInv, Typed, Logs
<1>2. at' \in {"run", "drain"}
  BY InFlight
<1>3. Typed'
  BY <1>1, <1>2 DEF IInv, Typed, Phase, Instruction
<1>4. Stages'
  BY <1>1, <1>2, InFlight DEF IInv, Stages
<1>5. Dated' /\ DatedCheckpoint'
  <2>1. \A j \in Ids : log'.job[j] # "no" => j[2] < epoch
    BY <1>1, InFlight DEF IInv, Dated
  <2>2. QED
    BY <1>1, <2>1, InFlight DEF IInv, Dated, DatedCheckpoint
<1>6. Logged'
  BY <1>1, InFlight, Fields DEF IInv, Logged
<1>7. Seen' /\ WorksUnderPinned'
  BY <1>1, InFlight DEF IInv, Seen, WorksUnderPinned
<1>8. Held'
  BY <1>2, InFlight DEF IInv, Held
<1>9. QED
  BY <1>3, <1>4, <1>5, <1>6, <1>7, <1>8 DEF IInv

LEMMA RetriedStep ==
  ASSUME IInv, NEW i \in Ids, Retried(i)
  PROVE  IInv'
<1>1. /\ mem' \in Memories /\ mem'.pending = mem.pending \cup {i}
      /\ mem'.active = mem.active \ {i} /\ mem'.deferred = mem.deferred
      /\ mem'.known = mem.known /\ mem'.todo = mem.todo /\ mem'.release = mem.release
  BY Fields DEF Retried, IInv, Typed, Memories, Left
<1>2. QED
  BY <1>1, Requeued DEF Retried, Recording

\* The continuation of a task that is in flight is of this epoch, and new.
LEMMA ContinuationNew ==
  ASSUME IInv, NEW i \in Ids, Running(i)
  PROVE  /\ Continued(i) \in Ids /\ Continued(i)[2] = epoch /\ Continued(i) # i
         /\ log.job[Continued(i)] = "no" /\ Continued(i) \notin mem.pending \cup mem.active
<1>1. Continued(i) \in Ids /\ Continued(i)[2] = epoch
  BY InFlight, IdParts DEF Continued, Ids
<1>2. epoch \in Nat
  BY Fields DEF IInv
<1>3. QED
  BY <1>1, <1>2, InFlight DEF IInv, Dated

LEMMA CheckpointStep ==
  ASSUME IInv, NEW i \in Ids, Running(i), Checkpoint(i), at' \in {at, "drain"}, Recording
  PROVE  IInv'
<1> USE DEF Checkpoint, Recording
<1> DEFINE c == Continued(i)
<1>1. /\ c \in Ids /\ c[2] = epoch /\ c # i /\ log.job[c] = "no"
      /\ c \notin mem.pending \cup mem.active
  BY ContinuationNew
<1>2. /\ mem' \in Memories /\ mem'.active = mem.active \ {i}
      /\ mem'.pending = mem.pending /\ mem'.deferred = mem.deferred \cup {c}
      /\ mem'.known = mem.known \cup {c} /\ mem'.todo = mem.todo /\ mem'.release = mem.release
  BY <1>1, Fields DEF IInv, Typed, Memories, Left
<1>3. /\ log' \in Logs /\ log'.open = log.open /\ log'.cont = log.cont \cup {c}
      /\ log'.imported = log.imported /\ log'.release = log.release /\ log'.job[i] = "ended"
      /\ \A j \in Ids : j # i => log'.job[j] = log.job[j]
  BY <1>1 DEF IInv, Typed, Logs
<1>4. ledger' \in Ledgers
  BY RecordedTyped, RouteIsRoute, ConditionsTyped, InFlight DEF IInv, Typed, Statuses
<1>5. owed' = (owed \ {i}) \cup {c} /\ at' \in {"run", "drain"}
  BY InFlight
<1> HIDE DEF c
<1>6. Typed'
  <2>1. owed' \in SUBSET Ids
    BY <1>1, <1>5 DEF IInv, Typed
  <2>2. QED
    BY <1>2, <1>3, <1>4, <1>5, <2>1 DEF IInv, Typed, Phase, Instruction
<1>7. Stages'
  BY <1>2, <1>3, <1>5, InFlight DEF IInv, Stages
<1>8. Dated' /\ DatedCheckpoint'
  <2>1. \A j \in Ids : log'.job[j] # "no" => j[2] < epoch
    BY <1>3, InFlight DEF IInv, Dated
  <2>2. QED
    BY <1>1, <1>2, <1>3, <2>1 DEF IInv, Dated, DatedCheckpoint
<1>9. Logged'
  BY <1>1, <1>2, <1>3, InFlight, Fields DEF IInv, Logged
<1>10. Seen' /\ WorksUnderPinned'
  BY <1>2, <1>3, InFlight DEF IInv, Seen, WorksUnderPinned
<1>11. Held'
  BY <1>2, <1>5, InFlight DEF IInv, Held
<1>12. QED
  BY <1>6, <1>7, <1>8, <1>9, <1>10, <1>11 DEF IInv

LEMMA CheckpointedStep ==
  ASSUME IInv, NEW i \in Ids, Checkpointed(i)
  PROVE  IInv'
BY CheckpointStep DEF Checkpointed

LEMMA ProviderLostStep ==
  ASSUME IInv, NEW i \in Ids, ProviderLost(i)
  PROVE  IInv'
<1>1. CASE Checkpoint(i)
  BY <1>1, CheckpointStep DEF ProviderLost
<1>2. CASE /\ mem' = [Left(i) EXCEPT !.pending = @ \cup ({i} \ mem.deferred)]
           /\ log' = [log EXCEPT !.job[i] = "ended"]
           /\ UNCHANGED <<owed, ledger>>
  <2>1. Running(i) /\ i \notin mem.deferred
    BY InFlight DEF ProviderLost
  <2>2. /\ mem' \in Memories /\ mem'.pending = mem.pending \cup {i}
        /\ mem'.active = mem.active \ {i} /\ mem'.deferred = mem.deferred
        /\ mem'.known = mem.known /\ mem'.todo = mem.todo /\ mem'.release = mem.release
    BY <1>2, <2>1, Fields DEF IInv, Typed, Memories, Left
  <2>3. QED
    BY <1>2, <2>1, <2>2, Requeued DEF ProviderLost, Recording
<1>3. QED
  BY <1>1, <1>2 DEF ProviderLost

LEMMA DrainStep == IInv /\ Drain => IInv'
<1> SUFFICES ASSUME IInv, Drain PROVE IInv'
  OBVIOUS
<1> USE DEF Drain
<1>1. Typed'
  BY DEF IInv, Typed, Phase, Instruction
<1>2. Stages' /\ Dated' /\ DatedCheckpoint' /\ Logged' /\ Seen' /\ WorksUnderPinned' /\ Held'
  BY DEF IInv, Stages, Unimported, Dated, DatedCheckpoint, Logged, Seen, WorksUnderPinned, Held
<1>3. QED
  BY <1>1, <1>2 DEF IInv

(***************************************************************************)
(* The seal: memory goes into the checkpoint, and nothing else.            *)
(***************************************************************************)
\* Everything but the checkpoint starts anew.
LEMMA Sealed ==
  ASSUME IInv, at # "down", at' = "down", mem' = Empty, log' = NoLog, Typed',
         DatedCheckpoint', \A i \in shelf' : i[2] < epoch,
         owed' \subseteq ckpt'.pending \cup ckpt'.conts,
         UNCHANGED epoch
  PROVE  IInv'
<1>1. Stages' /\ Dated'
  BY EmptyTyped DEF Stages, Dated
<1>2. Logged' /\ Seen' /\ WorksUnderPinned'
  BY EmptyTyped DEF Logged, Seen, WorksUnderPinned
<1>3. Held'
  BY EmptyTyped DEF Held, Kept
<1>4. QED
  BY <1>1, <1>2, <1>3 DEF IInv

LEMMA SealStep == IInv /\ Seal => IInv'
<1> SUFFICES ASSUME IInv, Seal PROVE IInv'
  OBVIOUS
<1> DEFINE halted == [mem EXCEPT !.pending = @ \cup (mem.active \ mem.deferred), !.active = {}]
           kept == Deferring(halted, ledger)
           gone == Shut(halted, ledger)
<1>1. PICK evidence \in BOOLEAN, sameReason \in BOOLEAN :
        /\ ckpt' = Snapshot(kept, IF sameReason THEN mem.active ELSE {}, evidence)
        /\ shelf' = shelf \cup gone /\ owed' = owed \ gone
  BY DEF Seal
<1>2. /\ at = "drain" /\ at' = "down" /\ mem' = Empty /\ log' = NoLog /\ log.open
      /\ mem.todo = {} /\ UNCHANGED <<epoch, ledger, inbox, asset, world, paused>>
  BY DEF Seal, IInv, Stages
<1>3. /\ halted \in Memories /\ halted.deferred = mem.deferred
      /\ halted.pending = mem.pending \cup (mem.active \ mem.deferred)
  BY Fields DEF IInv, Typed, Memories
<1> HIDE DEF halted
<1>4. /\ gone \subseteq halted.pending
      /\ kept.pending = halted.pending \ gone /\ kept.deferred = mem.deferred
  BY <1>3, Deferrals
<1> HIDE DEF kept, gone
<1>5. /\ ckpt'.epoch = epoch /\ ckpt'.conts = mem.deferred
      /\ ckpt'.pending = (mem.pending \cup (mem.active \ mem.deferred)) \ gone
      /\ ckpt'.cut \subseteq mem.active /\ ckpt'.evidence \in BOOLEAN /\ ckpt'.context = world.context
  BY <1>1, <1>3, <1>4 DEF Snapshot, Frontier
<1>6. ckpt' \in Checkpoints
  <2>1. /\ (mem.pending \cup (mem.active \ mem.deferred)) \ gone \in SUBSET Ids
        /\ mem.deferred \in SUBSET Ids /\ world.context \in Nat /\ epoch \in 0..MaxEpochs
        /\ (IF sameReason THEN mem.active ELSE {}) \in SUBSET Ids
    BY Fields DEF IInv, Typed, Worlds
  <2>2. QED
    BY <1>1, <1>3, <1>4, <2>1 DEF Snapshot, Frontier, Checkpoints
<1>7. Typed'
  <2>1. shelf' \in SUBSET Ids /\ owed' \in SUBSET Ids
    BY <1>1, <1>3, <1>4, Fields DEF IInv, Typed
  <2>2. QED
    BY <1>2, <1>6, <2>1, EmptyTyped DEF IInv, Typed, Phase, Instruction
<1>8. DatedCheckpoint'
  <2>1. epoch \in Nat /\ epoch # 0
    BY <1>2, Fields DEF IInv, DatedCheckpoint
  <2>2. \A i \in ckpt'.pending \cup ckpt'.cut : i[2] < ckpt'.epoch
    BY <1>5 DEF IInv, Dated
  <2>3. \A i \in ckpt'.conts : i[2] = ckpt'.epoch /\ ckpt'.epoch # 0
    BY <1>5, <2>1 DEF IInv, Dated
  <2>4. QED
    BY <1>2, <1>5, <2>1, <2>2, <2>3, EmptyTyped DEF DatedCheckpoint
<1>9. \A i \in shelf' : i[2] < epoch
  BY <1>1, <1>3, <1>4 DEF IInv, Dated
<1>10. owed' \subseteq ckpt'.pending \cup ckpt'.conts
  BY <1>1, <1>2, <1>5 DEF IInv, Held
<1>11. QED
  BY <1>2, <1>7, <1>8, <1>9, <1>10, Sealed

LEMMA SealUnusableStep == IInv /\ SealUnusable => IInv'
<1> SUFFICES ASSUME IInv, SealUnusable PROVE IInv'
  OBVIOUS
<1> USE DEF SealUnusable
<1>1. Typed'
  BY EmptyTyped, Fields DEF IInv, Typed, Phase, Instruction
<1>2. DatedCheckpoint'
  BY EmptyTyped DEF IInv, DatedCheckpoint
<1>3. \A i \in shelf' : i[2] < epoch
  BY DEF IInv, Dated
<1>4. QED
  BY <1>1, <1>2, <1>3, Sealed

LEMMA Disturbed ==
  ASSUME world \in Worlds
  PROVE  /\ [world EXCEPT !.context = @ + 1, !.disturbed = @ + 1] \in Worlds
         /\ [world EXCEPT !.release = 1 - @, !.disturbed = @ + 1] \in Worlds
<1>1. /\ world.context + 1 \in Nat /\ world.disturbed + 1 \in Nat /\ 1 - world.release \in {0, 1}
  BY DEF Worlds
<1>2. ASSUME NEW c \in Nat, NEW r \in {0, 1}, NEW d \in Nat
      PROVE  /\ [world EXCEPT !.context = c, !.disturbed = d] \in Worlds
             /\ [world EXCEPT !.release = r, !.disturbed = d] \in Worlds
  BY DEF Worlds
<1>3. QED
  BY <1>1, <1>2

LEMMA EditContextStep == IInv /\ EditContext => IInv'
<1> SUFFICES ASSUME IInv, EditContext PROVE IInv'
  OBVIOUS
<1>1. world' \in Worlds
  BY Disturbed DEF EditContext, IInv, Typed
<1>2. Typed'
  BY <1>1 DEF EditContext, IInv, Typed, Instruction
<1>3. QED
  BY <1>2, Kindred DEF EditContext, core

LEMMA ReleaseStep == IInv /\ Release => IInv'
<1> SUFFICES ASSUME IInv, Release PROVE IInv'
  OBVIOUS
<1>1. world' \in Worlds
  BY Disturbed DEF Release, IInv, Typed
<1>2. Typed'
  BY <1>1 DEF Release, IInv, Typed, Instruction
<1>3. QED
  BY <1>2, Kindred DEF Release, core

(***************************************************************************)
(* The theorems.                                                           *)
(***************************************************************************)
LEMMA StutterStep == IInv /\ UNCHANGED vars => IInv'
<1> SUFFICES ASSUME IInv, UNCHANGED vars PROVE IInv'
  OBVIOUS
<1>1. Typed'
  BY DEF vars, IInv, Typed, Instruction
<1>2. QED
  BY <1>1, Kindred DEF vars, core

LEMMA NextStep == IInv /\ [Next]_vars => IInv'
<1> SUFFICES ASSUME IInv, [Next]_vars PROVE IInv'
  OBVIOUS
<1>1. CASE NewEpoch \/ Resume \/ DiscardPlan \/ ImportDone \/ Preflight
  BY <1>1, NewEpochStep, ResumeStep, DiscardPlanStep, ImportDoneStep, PreflightStep
<1>2. CASE UnsafeDrift
  BY <1>2, FailedImport DEF UnsafeDrift
<1>3. ASSUME NEW i \in Ids,
             \/ SkipImport(i) \/ Collides(i) \/ DeferImport(i) \/ Import(i) \/ ImportTorn(i)
             \/ ImportCut(i)
      PROVE  IInv'
  BY <1>3, SkipImportStep, FailedImport, DeferImportStep, ImportStep, ImportTornStep,
     ImportCutStep DEF Collides, Importing
<1>4. ASSUME NEW r \in Routes, Instruct("PAUSE_ROUTE", r) \/ Instruct("RESUME_ROUTE", r)
      PROVE  IInv'
  BY <1>4, InstructStep
<1>5. CASE Instruct("ASSET", CHOOSE r \in Routes : TRUE)
  BY <1>5, InstructStep
<1>6. CASE PollPause \/ PollResume \/ PollAsset \/ PollTorn \/ Plan
  BY <1>6, PollPauseStep, PollResumeStep, PollAssetStep, PollTornStep, PlanStep
<1>7. ASSUME NEW i \in Ids, Launch(i) \/ Retried(i) \/ Checkpointed(i) \/ ProviderLost(i)
      PROVE  IInv'
  BY <1>7, LaunchStep, RetriedStep, CheckpointedStep, ProviderLostStep
<1>8. ASSUME NEW i \in Ids, NEW status \in {"COMPLETED", "FAILED", "PAUSED"}, Ends(i, status)
      PROVE  IInv'
  BY <1>8, EndsStep
<1>9. CASE Drain \/ Seal \/ SealUnusable \/ Crash \/ EditContext \/ Release
  BY <1>9, DrainStep, SealStep, SealUnusableStep, CrashStep, EditContextStep, ReleaseStep
<1>10. CASE UNCHANGED vars
  BY <1>10, StutterStep
<1>11. QED
  BY <1>1, <1>2, <1>3, <1>4, <1>5, <1>6, <1>7, <1>8, <1>9, <1>10 DEF Next

THEOREM Invariance == Spec => []IInv
<1>1. QED
  BY InitStep, NextStep, PTL DEF Spec

\* The epochs of the tasks keep the lists apart.
LEMMA InvariantSound == IInv => FrontierSound
<1> SUFFICES ASSUME IInv PROVE FrontierSound
  OBVIOUS
<1>1. TypeOK
  BY DEF IInv, Typed, TypeOK, Phase, Memories, Logs, Checkpoints, Ledgers, Statuses
<1>2. epoch \in Nat /\ ckpt.epoch \in Nat
  BY Fields DEF IInv
<1>3. Disjoint
  <2>1. mem.pending \cap mem.active = {}
    BY DEF IInv, Seen
  <2>2. (mem.pending \cup mem.active) \cap mem.deferred = {}
    BY <1>2 DEF IInv, Dated
  <2>3. ckpt.pending \cap ckpt.conts = {}
    BY <1>2 DEF IInv, DatedCheckpoint
  <2>4. QED
    BY <2>1, <2>2, <2>3 DEF Disjoint
<1>4. ContinuationLater /\ WorksUnderPinned
  BY DEF IInv, Dated, ContinuationLater
<1>5. QED
  BY <1>1, <1>3, <1>4 DEF FrontierSound

(* A snapshot never has a task twice or both queued and deferred, a          *)
(* continuation never runs in the epoch that checkpointed it, and work is    *)
(* done under the inputs the epoch was started with, also after crashes      *)
(* (_write_compact_snapshot, recover, _import_previous_epoch_checkpoint).    *)
THEOREM SnapshotsAreSound == Spec => []FrontierSound
<1>1. QED
  BY Invariance, InvariantSound, PTL

(* No accepted task and no continuation leaves the frontier without a        *)
(* record of its outcome or its deferral, over any number of epochs,         *)
(* imports, retries, route changes and crashes.                              *)
THEOREM FrontierIsKept == Spec => []FrontierKept
<1>1. IInv => FrontierKept
  BY DEF IInv, Held, FrontierKept, Kept
<1>2. QED
  BY <1>1, Invariance, PTL

(***************************************************************************)
(* The scheduling loop: the inductive invariant.                           *)
(***************************************************************************)
Controllers ==
  [policy : BOOLEAN, phase : Phases, stop : Stops, raised : BOOLEAN,
   review : BOOLEAN, failed : BOOLEAN, final : BOOLEAN, resolved : BOOLEAN,
   satisfied : BOOLEAN, auditOnly : BOOLEAN, transport : BOOLEAN,
   needed : BOOLEAN, seat : BOOLEAN, behind : BOOLEAN, retries : 0..MaxRetries,
   isolated : BOOLEAN, wave : BOOLEAN, batched : BOOLEAN,
   research : 0..MaxQueue, audits : 0..MaxQueue, deferred : 0..1, errors : Nat, cands : Nat]

Turn == {"director", "audits", "research", "idle"}
Looping == Turn \cup {"poll", "collect", "stop"}
Leaving == {"last", "final", "close", "finish", "done"}
Ways == {"interrupted", "transport", "review", "error", "stopped", "idle"}

Clocks == [late : BOOLEAN, limited : BOOLEAN]
Cuts == [how : Ways \cup {"no"}, live : SUBSET Slots, orphan : BOOLEAN,
         status : {"none", "COMPLETED", "STOPPED", "PAUSED"}]
JobStates == [Slots -> {"none", "running", "done", "cancelled"}]

LoopTypes ==
  /\ LoopTypeOK /\ pc \in Looping \cup Leaving /\ ctl \in Controllers /\ ~ctl.raised
  /\ spent \in Nat /\ clock \in Clocks /\ cut \in Cuts

(* What stop reasons, ends and phases say of each other. *)
StopsAgree(d) ==
  /\ d.phase = "RUNNING" => d.stop \in {"none", "starved"}
  /\ d.final \/ d.satisfied => d.phase # "RUNNING"
  /\ d.satisfied => d.auditOnly

(* Without a stop reason dispatch goes on, or the budget drains. *)
StillRunning ==
  /\ StopsAgree(ctl)
  /\ pc \in Looping /\ ctl.stop = "none" =>
        ctl.phase = "RUNNING" \/ (ctl.phase = "DRAINING_BUDGET" /\ spent >= Budget)
  /\ pc \in Turn /\ ctl.stop = "none" => ctl.phase = "RUNNING"

(* A plan is wanted, or nothing is to be planned any more. *)
PlanWanted(d) ==
  d.needed \/ d.isolated \/ d.stop # "none" \/ d.auditOnly \/ d.phase # "RUNNING"

(* The loop has something to wait for. *)
Alive(d) == PlanWanted(d) \/ d.batched \/ d.research > 0 \/ d.audits > 0

StaysAlive ==
  /\ pc \in {"poll", "collect", "stop"} => Alive(ctl) \/ ctl.wave \/ Active # {} \/ cut.orphan
  /\ pc \in Turn => Alive(ctl) \/ Active # {} \/ cut.orphan
  /\ pc = "collect" /\ batch \ {"director"} # {} => PlanWanted(ctl)

(* Batches and seats. *)
JobsMatch ==
  /\ pc \notin {"collect", "final"} => batch = {}
  /\ \A s \in batch : job[s] \in {"done", "cancelled"}
  /\ ~cut.orphan /\ pc \in Looping => (ctl.seat <=> job["director"] # "none")
  /\ job["director"] = "cancelled" => cut.orphan
  
(* How the loop was left. *)
WasLeft ==
  /\ pc \in Looping <=> cut.how = "no"
  /\ pc # "done" => cut.status = "none"
  /\ pc \notin {"finish", "done"} => cut.live = {}
  /\ pc \in Leaving /\ cut.how \in {"stopped", "idle"} => Active = {}
  /\ cut.how = "error" => ctl.failed

LoopInv ==
  /\ LoopTypes /\ StillRunning /\ StaysAlive /\ JobsMatch /\ WasLeft
  /\ CutOnlyWhen /\ RaisesOnlyInDrain /\ IdleOnlyWhen /\ CompletedIsClean

(***************************************************************************)
(* What the handlers do to the controller.                                 *)
(***************************************************************************)
Settled(d) == d \in Controllers /\ ~d.raised /\ StopsAgree(d)

(* A handler keeps what the loop relies on: stop reasons and requests are  *)
(* answered or kept, and it raises only when dispatch has ended.           *)
Handled(d, e) ==
  /\ e \in Controllers
  /\ e.raised => e.phase # "RUNNING"
  /\ StopsAgree(e)
  /\ ~e.raised /\ e.stop = "none" => e.phase = d.phase
  /\ d.stop # "none" => e.stop # "none"
  /\ d.failed => e.failed
  /\ d.isolated => e.isolated
  /\ d.auditOnly => e.auditOnly
  /\ ~e.raised /\ PlanWanted(d) => PlanWanted(e)
  /\ d.needed /\ ~e.needed => e.stop # "none" \/ e.auditOnly \/ e.isolated \/ e.failed
  /\ e.seat = d.seat

LEMMA RequestHandled ==
  ASSUME NEW d, Settled(d), NEW m \in BOOLEAN
  PROVE  Handled(d, Request(d, m)) /\ Settled(Request(d, m)) /\ PlanWanted(Request(d, m))
<1>1. PICK b \in BOOLEAN : b = (d.behind \/ m)
  BY Zenon
<1>2. PICK e : e = [d EXCEPT !.needed = TRUE, !.behind = b]
  OBVIOUS
<1>3. /\ e \in Controllers /\ e.needed = TRUE
      /\ e.phase = d.phase /\ e.stop = d.stop /\ e.raised = d.raised /\ e.failed = d.failed
      /\ e.isolated = d.isolated /\ e.auditOnly = d.auditOnly /\ e.final = d.final
      /\ e.satisfied = d.satisfied /\ e.seat = d.seat
  BY <1>2 DEF Settled, Controllers
<1> QED
  BY <1>1, <1>2, <1>3 DEF Request, Settled, Handled, StopsAgree, PlanWanted, CanDispatch

(* Composition. *)
LEMMA HandledTrans ==
  ASSUME NEW d, NEW e, NEW f, Handled(d, e), ~e.raised, Handled(e, f)
  PROVE  Handled(d, f)
  BY DEF Handled

LEMMA HandledSettles ==
  ASSUME NEW d, NEW e, Handled(d, e), ~e.raised
  PROVE  Settled(e)
  BY DEF Handled, Settled

(* Counters and flags no decision about stopping reads. *)
Alike(d, e) ==
  /\ e \in Controllers
  /\ e.phase = d.phase /\ e.stop = d.stop /\ e.raised = d.raised /\ e.failed = d.failed
  /\ e.isolated = d.isolated /\ e.auditOnly = d.auditOnly /\ e.final = d.final
  /\ e.satisfied = d.satisfied /\ e.seat = d.seat /\ (d.needed => e.needed)

LEMMA AlikeHandled ==
  ASSUME NEW d, NEW e, Settled(d), Alike(d, e)
  PROVE  Handled(d, e) /\ Settled(e)
  BY DEF Alike, Settled, Handled, StopsAgree, PlanWanted

(* Being left behind a stop reason and a phase that is not RUNNING.        *)
Halted(d, e) ==
  /\ e \in Controllers /\ ~e.raised /\ e.phase # "RUNNING" /\ e.stop # "none"
  /\ e.satisfied => e.auditOnly
  /\ d.failed => e.failed
  /\ d.isolated => e.isolated
  /\ d.auditOnly => e.auditOnly
  /\ e.seat = d.seat

LEMMA HaltedHandled ==
  ASSUME NEW d, NEW e, Settled(d), Halted(d, e)
  PROVE  Handled(d, e) /\ Settled(e) /\ PlanWanted(e)
  BY DEF Halted, Settled, Handled, StopsAgree, PlanWanted

LEMMA GrowType ==
  ASSUME NEW n \in 0..MaxQueue, NEW by \in Nat
  PROVE  Grow(n, by) \in 0..MaxQueue /\ (by = 1 => Grow(n, by) > 0) /\ Grow(n, by) >= n
  BY EpochLoopAssumption DEF Grow

LEMMA PausesHandled ==
  ASSUME NEW d, Settled(d)
  PROVE  Halted(d, QuotaPause(d)) /\ Halted(d, TransportPause(d)) /\ Halted(d, FrontierPause(d))
<1>1. PICK e : e = FromRunning(d, "DRAINING_EPOCH")
  OBVIOUS
<1>2. /\ e \in Controllers /\ ~e.raised /\ e.phase # "RUNNING"
      /\ e.satisfied => e.auditOnly
      /\ e.stop = d.stop /\ e.failed = d.failed /\ e.isolated = d.isolated /\ e.auditOnly = d.auditOnly /\ e.seat = d.seat
  BY <1>1 DEF FromRunning, Settled, Controllers, StopsAgree, Phases, AllowedPhases
<1>3. Halted(d, QuotaPause(d))
  <2>1. PICK r \in Stops : r = (IF e.stop = "none" THEN "quota" ELSE e.stop) /\ r # "none"
    BY <1>2 DEF Controllers, Stops
  <2>2. QuotaPause(d) = [e EXCEPT !.stop = r]
    BY <1>1, <2>1, Zenon DEF QuotaPause, StopWith
  <2> QED
    BY <1>2, <2>1, <2>2 DEF Halted, Controllers
<1>4. Halted(d, TransportPause(d))
  <2>1. PICK r \in Stops : r = (IF e.stop = "none" THEN "transport" ELSE e.stop) /\ r # "none"
    BY <1>2 DEF Controllers, Stops
  <2>2. PICK f : f = [e EXCEPT !.stop = r]
    OBVIOUS
  <2>3. /\ f \in Controllers /\ ~f.raised /\ f.phase # "RUNNING"
        /\ f.satisfied => f.auditOnly
        /\ f.stop = r /\ f.failed = d.failed /\ f.isolated = d.isolated /\ f.auditOnly = d.auditOnly /\ f.seat = d.seat
    BY <1>2, <2>1, <2>2 DEF Controllers
  <2>4. TransportPause(d) = [f EXCEPT !.transport = TRUE]
    BY <1>1, <2>1, <2>2, Zenon DEF TransportPause, StopWith
  <2> QED
    BY <2>1, <2>3, <2>4, ZenonT(40) DEF Halted, Controllers
<1>5. Halted(d, FrontierPause(d))
  <2>1. PICK f : f = [e EXCEPT !.needed = FALSE, !.wave = FALSE, !.stop = "frontier"]
    OBVIOUS
  <2>2. f \in Controllers
    BY <1>2, <2>1 DEF Controllers, Stops
  <2>3. /\ f.raised = e.raised /\ f.phase = e.phase /\ f.satisfied = e.satisfied /\ f.auditOnly = e.auditOnly
        /\ f.failed = d.failed /\ f.isolated = d.isolated /\ f.seat = d.seat
    BY <1>2, <2>1
  <2>4. f.stop = "frontier"
    BY <1>2, <2>1 DEF Controllers
  <2>5. FrontierPause(d) = f
    BY <1>1, <2>1 DEF FrontierPause
  <2> QED
    BY <1>2, <2>2, <2>3, <2>4, <2>5 DEF Halted
<1> QED
  BY <1>3, <1>4, <1>5

LEMMA SatisfyHandled ==
  ASSUME NEW d, Settled(d)
  PROVE  Handled(d, Satisfy(d)) /\ Settled(Satisfy(d)) /\ Satisfy(d).auditOnly
<1>1. CASE d.satisfied
  <2>1. Satisfy(d) = d /\ d.auditOnly
    BY <1>1 DEF Satisfy, Settled, StopsAgree
  <2>2. Alike(d, d)
    BY DEF Alike, Settled
  <2> QED
    BY <2>1, <2>2, AlikeHandled
<1>2. CASE ~d.satisfied
  <2>1. PICK e : e = FromRunning(d, "FINALIZING")
    OBVIOUS
  <2>2. /\ e \in Controllers /\ ~e.raised /\ e.phase # "RUNNING"
        /\ e.failed = d.failed /\ e.isolated = d.isolated /\ e.seat = d.seat
    BY <2>1 DEF FromRunning, Settled, Controllers, StopsAgree, Phases, AllowedPhases
  <2>3. Satisfy(d) = [e EXCEPT !.satisfied = TRUE, !.auditOnly = TRUE, !.needed = FALSE, !.wave = FALSE,
                               !.stop = "policy", !.research = 0, !.deferred = 0, !.audits = 0]
    BY <1>2, <2>1 DEF Satisfy
  <2>4. 0 \in 0..MaxQueue /\ 0 \in 0..1
    BY EpochLoopAssumption
  <2>5. PICK f : f = [e EXCEPT !.satisfied = TRUE, !.auditOnly = TRUE, !.needed = FALSE, !.wave = FALSE,
                               !.stop = "policy"]
    OBVIOUS
  <2>6. f \in Controllers /\ f.auditOnly = TRUE /\ f.stop = "policy"
    BY <2>2, <2>5 DEF Controllers, Stops
  <2>7. f.raised = e.raised /\ f.phase = e.phase /\ f.failed = d.failed /\ f.isolated = d.isolated /\ f.seat = d.seat
    BY <2>2, <2>5
  <2>8. PICK g : g = [f EXCEPT !.research = 0, !.deferred = 0, !.audits = 0]
    OBVIOUS
  <2>9. g \in Controllers
    BY <2>4, <2>6, <2>8 DEF Controllers
  <2>10. /\ g.raised = e.raised /\ g.phase = e.phase /\ g.failed = d.failed /\ g.isolated = d.isolated
         /\ g.seat = d.seat /\ g.auditOnly = TRUE /\ g.stop = "policy"
    BY <2>6, <2>7, <2>8
  <2>11. Satisfy(d) = g
    BY <2>3, <2>5, <2>8
  <2>12. Halted(d, Satisfy(d)) /\ Satisfy(d).auditOnly
    BY <2>2, <2>9, <2>10, <2>11 DEF Halted
  <2> QED
    BY <2>12, HaltedHandled
<1> QED
  BY <1>1, <1>2

LEMMA TransitionIs ==
  ASSUME NEW d \in Controllers, ~d.raised, NEW phase \in Phases
  PROVE  \/ Transition(d, phase) = d /\ phase = d.phase
         \/ Transition(d, phase) = [d EXCEPT !.phase = phase] /\ phase \in AllowedPhases[d.phase]
         \/ Transition(d, phase) = [d EXCEPT !.raised = TRUE] /\ phase \notin AllowedPhases[d.phase]
  BY DEF Transition

LEMMA TransitionKeeps ==
  ASSUME NEW d \in Controllers, ~d.raised, NEW phase \in Phases, NEW t, t = Transition(d, phase)
  PROVE  /\ t \in Controllers
         /\ t.raised \/ t.phase = phase
         /\ t.raised => t.phase = d.phase /\ phase \notin AllowedPhases[d.phase]
         /\ ~t.raised => t.phase = d.phase \/ phase \in AllowedPhases[d.phase]
         /\ t.stop = d.stop /\ t.failed = d.failed /\ t.final = d.final /\ t.satisfied = d.satisfied
         /\ t.isolated = d.isolated /\ t.auditOnly = d.auditOnly /\ t.seat = d.seat /\ t.needed = d.needed
<1>1. CASE t = d /\ phase = d.phase
  BY <1>1
<1>2. CASE t = [d EXCEPT !.phase = phase] /\ phase \in AllowedPhases[d.phase]
  <2>1. t \in Controllers /\ t.phase = phase
    BY <1>2 DEF Controllers
  <2>2. /\ t.stop = d.stop /\ t.failed = d.failed /\ t.final = d.final /\ t.satisfied = d.satisfied
        /\ t.isolated = d.isolated /\ t.auditOnly = d.auditOnly /\ t.seat = d.seat /\ t.needed = d.needed
        /\ t.raised = d.raised
    BY <1>2
  <2> QED
    BY <1>2, <2>1, <2>2
<1>3. CASE t = [d EXCEPT !.raised = TRUE] /\ phase \notin AllowedPhases[d.phase]
  <2>1. t \in Controllers /\ t.raised = TRUE
    BY <1>3 DEF Controllers
  <2>2. /\ t.stop = d.stop /\ t.failed = d.failed /\ t.final = d.final /\ t.satisfied = d.satisfied
        /\ t.isolated = d.isolated /\ t.auditOnly = d.auditOnly /\ t.seat = d.seat /\ t.needed = d.needed
        /\ t.phase = d.phase
    BY <1>3
  <2> QED
    BY <1>3, <2>1, <2>2
<1> QED
  BY <1>1, <1>2, <1>3, TransitionIs

LEMMA AllowedFromRunning ==
  /\ AllowedPhases["RUNNING"] = {"DRAINING_FAILURE", "DRAINING_BUDGET", "DRAINING_EPOCH", "FINALIZING"}
  /\ {"FINALIZING", "DRAINING_FAILURE", "SEALED", "COMPLETED", "DRAINING_BUDGET", "DRAINING_EPOCH", "RUNNING"}
       \subseteq Phases
  BY DEF AllowedPhases, Phases

LEMMA FinalizeHandled ==
  ASSUME NEW d, Settled(d)
  PROVE  Handled(d, Finalize(d))
<1>1. CASE d.failed
  <2>1. PICK e : e = [d EXCEPT !.resolved = TRUE]
    OBVIOUS
  <2>2. Alike(d, e)
    BY <2>1 DEF Alike, Settled, Controllers
  <2>3. Finalize(d) = Request(e, FALSE)
    BY <1>1, <2>1 DEF Finalize
  <2>4. Handled(d, e) /\ Settled(e) /\ Handled(e, Request(e, FALSE))
    BY <2>2, AlikeHandled, RequestHandled
  <2> QED
    BY <2>3, <2>4, HandledTrans DEF Settled
<1>2. CASE ~d.failed /\ d.final
  <2>1. Alike(d, d) /\ Finalize(d) = d
    BY <1>2 DEF Alike, Settled, Finalize
  <2> QED
    BY <2>1, AlikeHandled
<1>3. CASE ~d.failed /\ ~d.final
  <2>1. PICK e : e = [d EXCEPT !.final = TRUE, !.resolved = TRUE]
    OBVIOUS
  <2>2. /\ e \in Controllers /\ ~e.raised /\ e.phase = d.phase /\ e.stop = d.stop /\ e.failed = d.failed
        /\ e.isolated = d.isolated /\ e.auditOnly = d.auditOnly /\ e.satisfied = d.satisfied /\ e.seat = d.seat
        /\ e.needed = d.needed
    BY <2>1 DEF Settled, Controllers
  <2>3. PICK t : t = Transition(e, "FINALIZING")
    OBVIOUS
  <2>4. /\ t \in Controllers /\ t.phase # "RUNNING" /\ t.stop = d.stop /\ t.failed = d.failed
        /\ t.isolated = d.isolated /\ t.auditOnly = d.auditOnly /\ t.satisfied = d.satisfied /\ t.seat = d.seat
        /\ t.needed = d.needed
    BY <2>2, <2>3, TransitionKeeps, AllowedFromRunning
  <2>5. Finalize(d) = IF t.raised THEN t ELSE [t EXCEPT !.needed = FALSE, !.stop = "final"]
    BY <1>3, <2>1, <2>3 DEF Finalize
  <2>6. CASE t.raised
    BY <2>4, <2>5, <2>6 DEF Handled, Settled, StopsAgree, PlanWanted
  <2>7. CASE ~t.raised
    <3>1. PICK f : f = [t EXCEPT !.needed = FALSE, !.stop = "final"]
      OBVIOUS
    <3>2. f \in Controllers /\ f.stop = "final"
      BY <2>4, <3>1 DEF Controllers, Stops
    <3>3. /\ f.raised = t.raised /\ f.phase = t.phase /\ f.failed = d.failed /\ f.isolated = d.isolated
          /\ f.seat = d.seat /\ f.auditOnly = d.auditOnly /\ f.satisfied = d.satisfied
      BY <2>4, <3>1
    <3>4. Halted(d, f)
      BY <2>4, <2>7, <3>2, <3>3 DEF Halted, Settled, StopsAgree
    <3> QED
      BY <2>5, <2>7, <3>1, <3>4, HaltedHandled
  <2> QED
    BY <2>6, <2>7
<1> QED
  BY <1>1, <1>2, <1>3

LEMMA RequireHandled ==
  ASSUME NEW d, Settled(d)
  PROVE  Handled(d, RequireContinuation(d)) /\ Settled(RequireContinuation(d)) /\ PlanWanted(RequireContinuation(d))
<1>1. CASE ~CanDispatch(d)
  <2>1. Alike(d, d) /\ RequireContinuation(d) = d /\ PlanWanted(d)
    BY <1>1 DEF Alike, Settled, RequireContinuation, CanDispatch, PlanWanted
  <2> QED
    BY <2>1, AlikeHandled
<1>2. CASE CanDispatch(d)
  <2>1. PICK e : e = Request(d, TRUE)
    OBVIOUS
  <2>2. Handled(d, e) /\ Settled(e) /\ PlanWanted(e)
    BY <2>1, RequestHandled
  <2>3. PICK f : f = [e EXCEPT !.wave = FALSE]
    OBVIOUS
  <2>4. Alike(e, f)
    BY <2>2, <2>3 DEF Alike, Settled, Controllers
  <2>5. Handled(e, f) /\ Settled(f)
    BY <2>2, <2>4, AlikeHandled
  <2>6. Handled(d, f) /\ PlanWanted(f)
    BY <2>2, <2>5, HandledTrans DEF Handled, Settled
  <2>7. RequireContinuation(d) = f
    BY <1>2, <2>1, <2>3 DEF RequireContinuation
  <2> QED
    BY <2>5, <2>6, <2>7
<1> QED
  BY <1>1, <1>2

LEMMA FailureHandled ==
  ASSUME NEW d, Settled(d)
  PROVE  Handled(d, FailureDrain(d)) /\ (~FailureDrain(d).raised => FailureDrain(d).stop # "none")
<1>1. PICK e : e = [d EXCEPT !.failed = TRUE, !.needed = FALSE]
  OBVIOUS
<1>2. /\ e \in Controllers /\ ~e.raised /\ e.failed = TRUE /\ e.phase = d.phase /\ e.stop = d.stop
      /\ e.isolated = d.isolated /\ e.auditOnly = d.auditOnly /\ e.satisfied = d.satisfied /\ e.seat = d.seat
  BY <1>1 DEF Settled, Controllers
<1>3. PICK t : t = IF e.phase \in {"DRAINING_FAILURE", "SEALED", "COMPLETED"} THEN e
                   ELSE Transition(e, "DRAINING_FAILURE")
  OBVIOUS
<1>4. /\ t \in Controllers /\ t.phase # "RUNNING" /\ t.stop = d.stop /\ t.failed = TRUE
      /\ t.isolated = d.isolated /\ t.auditOnly = d.auditOnly /\ t.satisfied = d.satisfied /\ t.seat = d.seat
  BY <1>2, <1>3, TransitionKeeps, AllowedFromRunning
<1>5. FailureDrain(d) = IF t.raised THEN t ELSE StopWith(t, "failure")
  BY <1>1, <1>3, Zenon DEF FailureDrain
<1>6. CASE t.raised
  BY <1>4, <1>5, <1>6 DEF Handled, Settled, StopsAgree, PlanWanted
<1>7. CASE ~t.raised
  <2>1. PICK r \in Stops : r = (IF t.stop = "none" THEN "failure" ELSE t.stop) /\ r # "none"
    BY <1>4 DEF Controllers, Stops
  <2>2. PICK f : f = [t EXCEPT !.stop = r]
    OBVIOUS
  <2>3. StopWith(t, "failure") = f
    BY <2>1, <2>2, Zenon DEF StopWith
  <2>4. /\ f \in Controllers /\ f.stop = r
        /\ f.raised = t.raised /\ f.phase = t.phase /\ f.failed = TRUE /\ f.isolated = d.isolated
        /\ f.seat = d.seat /\ f.auditOnly = d.auditOnly /\ f.satisfied = d.satisfied
    BY <1>4, <2>1, <2>2 DEF Controllers
  <2>5. Halted(d, f)
    BY <1>4, <1>7, <2>1, <2>4 DEF Halted, Settled, StopsAgree
  <2> QED
    BY <1>5, <1>7, <2>1, <2>3, <2>4, <2>5, HaltedHandled
<1> QED
  BY <1>6, <1>7

LEMMA RequestKeeps ==
  ASSUME NEW d, NEW m
  PROVE  /\ Request(d, m).retries = d.retries /\ Request(d, m).wave = d.wave
         /\ Request(d, m).research = d.research /\ Request(d, m).audits = d.audits
         /\ Request(d, m).batched = d.batched /\ Request(d, m).errors = d.errors
  BY DEF Request

LEMMA RetryHandled ==
  ASSUME NEW d, Settled(d), NEW act, NEW structural \in BOOLEAN
  PROVE  /\ Handled(d, DirectorRetry(d, act, structural))
         /\ ~DirectorRetry(d, act, structural).raised => PlanWanted(DirectorRetry(d, act, structural))
<1>1. CASE ~structural /\ d.retries < MaxRetries
  <2>1. PICK e : e = Request(d, FALSE)
    OBVIOUS
  <2>2. Handled(d, e) /\ Settled(e) /\ PlanWanted(e) /\ e.retries = d.retries
    BY <2>1, RequestHandled, RequestKeeps
  <2>3. PICK n : n = e.retries + 1
    OBVIOUS
  <2>4. n \in 0..MaxRetries
    BY <1>1, <2>2, <2>3, EpochLoopAssumption DEF Settled, Controllers
  <2>5. PICK f : f = [e EXCEPT !.retries = n]
    OBVIOUS
  <2>6. Alike(e, f)
    BY <2>2, <2>4, <2>5 DEF Alike, Settled, Controllers
  <2>7. Handled(e, f) /\ Settled(f)
    BY <2>2, <2>6, AlikeHandled
  <2>8. Handled(d, f) /\ PlanWanted(f)
    BY <2>2, <2>7, HandledTrans DEF Handled, Settled
  <2>9. DirectorRetry(d, act, structural) = f
    BY <1>1, <2>1, <2>3, <2>5 DEF DirectorRetry
  <2> QED
    BY <2>8, <2>9
<1>2. CASE structural
  <2>1. DirectorRetry(d, act, structural) = FailureDrain(d)
    BY <1>2 DEF DirectorRetry
  <2> QED
    BY <2>1, FailureHandled DEF PlanWanted
<1>3. CASE ~structural /\ ~(d.retries < MaxRetries)
  <2>1. PICK e : e = [d EXCEPT !.needed = FALSE, !.isolated = TRUE]
    OBVIOUS
  <2>2. e \in Controllers /\ e.isolated = TRUE
    BY <2>1 DEF Settled, Controllers
  <2>3. /\ e.phase = d.phase /\ e.stop = d.stop /\ e.raised = d.raised /\ e.failed = d.failed
        /\ e.auditOnly = d.auditOnly /\ e.final = d.final
        /\ e.satisfied = d.satisfied /\ e.seat = d.seat
    BY <2>1
  <2>4. CASE ~Healthy(d, act) /\ d.phase = "RUNNING"
    <3>1. PICK f : f = [e EXCEPT !.phase = "DRAINING_EPOCH", !.stop = "director"]
      OBVIOUS
    <3>2. f \in Controllers /\ f.phase = "DRAINING_EPOCH" /\ f.stop = "director"
      BY <2>2, <3>1, ZenonT(40) DEF Controllers, Stops, Phases, AllowedPhases
    <3>3. /\ f.raised = d.raised /\ f.failed = d.failed /\ f.auditOnly = d.auditOnly /\ f.isolated = TRUE
          /\ f.satisfied = d.satisfied /\ f.seat = d.seat
      BY <2>2, <2>3, <3>1
    <3>4. Halted(d, f)
      BY <3>2, <3>3 DEF Halted, Settled, StopsAgree
    <3>5. DirectorRetry(d, act, structural) = f
      BY <1>3, <2>1, <2>4, <3>1 DEF DirectorRetry
    <3> QED
      BY <3>4, <3>5, HaltedHandled
  <2>5. CASE ~(~Healthy(d, act) /\ d.phase = "RUNNING")
    <3>1. DirectorRetry(d, act, structural) = e
      BY <1>3, <2>1, <2>5 DEF DirectorRetry
    <3>2. Handled(d, e) /\ PlanWanted(e)
      BY <2>2, <2>3 DEF Settled, Handled, StopsAgree, PlanWanted
    <3> QED
      BY <3>1, <3>2
  <2> QED
    BY <2>4, <2>5
<1> QED
  BY <1>1, <1>2, <1>3

(* Where a Director's answer leaves the loop. *)
GoesOn(d, act) == Alive(d) \/ d.wave \/ act # {}

LEMMA PlanHandled ==
  ASSUME NEW d, Settled(d), NEW act, NEW plan \in Plans, plan = "priorities" => d.audits > 0
  PROVE  /\ Handled(d, AcceptPlan(d, act, plan))
         /\ ~AcceptPlan(d, act, plan).raised => GoesOn(AcceptPlan(d, act, plan), act)
<1> DEFINE runnable == plan \in {"tasks", "priorities"}
           healthy == Healthy(d, act)
           held == ~runnable /\ healthy /\ plan = "empty"
           handoff == d.deferred > 0 /\ ~healthy /\ plan \in {"empty", "deferred"}
           waiting == ~d.behind /\ ~healthy /\ ~handoff /\ plan = "waiting"
<1>1. PICK by \in 0..1 : by = (IF plan = "tasks" THEN 1 ELSE 0)
  OBVIOUS
<1>2. PICK n \in 0..MaxQueue : n = Grow(d.research, by) /\ (plan = "tasks" => n > 0)
  BY <1>1, GrowType DEF Settled, Controllers
<1>3. PICK e : e = [d EXCEPT !.research = n]
  OBVIOUS
<1>4. /\ Alike(d, e) /\ e.research = n /\ e.audits = d.audits
  BY <1>3 DEF Alike, Settled, Controllers
<1>5. Handled(d, e) /\ Settled(e)
  BY <1>4, AlikeHandled
<1>6. PICK f : f = IF held THEN [e EXCEPT !.wave = TRUE]
                   ELSE IF waiting
                   THEN [FromRunning(e, "DRAINING_EPOCH")
                           EXCEPT !.needed = FALSE, !.wave = FALSE, !.stop = "routes"]
                   ELSE IF runnable \/ handoff THEN [e EXCEPT !.retries = 0] ELSE e
  OBVIOUS
<1>7. AcceptPlan(d, act, plan) =
        IF d.behind THEN Request(f, FALSE)
        ELSE IF handoff THEN FrontierPause(f)
        ELSE IF held \/ waiting THEN f
        ELSE IF runnable THEN [f EXCEPT !.wave = FALSE]
        ELSE DirectorRetry(f, act, FALSE)
  BY <1>1, <1>2, <1>3, <1>6, Zenon DEF AcceptPlan
<1> HIDE DEF runnable, healthy, held, handoff, waiting
<1>8. 0 \in 0..MaxRetries
  BY EpochLoopAssumption
<1>9. ASSUME held
      PROVE  Alike(e, f) /\ f.wave = TRUE /\ f.research = n /\ f.audits = d.audits
  BY <1>4, <1>5, <1>6, <1>9 DEF Alike, Settled, Controllers
<1>10. ASSUME ~held, ~waiting
       PROVE  Alike(e, f) /\ f.research = n /\ f.audits = d.audits
  <2>1. CASE runnable \/ handoff
    <3>1. f = [e EXCEPT !.retries = 0]
      BY <1>6, <1>10, <2>1
    <3> QED
      BY <1>4, <1>5, <1>8, <3>1 DEF Alike, Settled, Controllers
  <2>2. CASE ~(runnable \/ handoff)
    <3>1. f = e
      BY <1>6, <1>10, <2>2
    <3> QED
      BY <1>4, <1>5, <3>1 DEF Alike, Settled
  <2> QED
    BY <2>1, <2>2
<1>11. ASSUME ~held, waiting
       PROVE  Halted(e, f)
  <2>1. PICK g : g = FromRunning(e, "DRAINING_EPOCH")
    OBVIOUS
  <2>2. /\ g \in Controllers /\ ~g.raised /\ g.phase # "RUNNING" /\ (g.satisfied => g.auditOnly)
        /\ g.failed = e.failed /\ g.isolated = e.isolated /\ g.auditOnly = e.auditOnly /\ g.seat = e.seat
    BY <1>5, <2>1 DEF FromRunning, Settled, Controllers, StopsAgree, Phases, AllowedPhases
  <2>3. f = [g EXCEPT !.needed = FALSE, !.wave = FALSE, !.stop = "routes"]
    BY <1>6, <1>11, <2>1
  <2>4. f \in Controllers
    BY <2>2, <2>3 DEF Controllers, Stops
  <2>5. f.stop = "routes"
    BY <2>2, <2>3 DEF Controllers
  <2>6. /\ f.raised = g.raised /\ f.phase = g.phase /\ f.satisfied = g.satisfied /\ f.auditOnly = g.auditOnly
        /\ f.failed = g.failed /\ f.isolated = g.isolated /\ f.seat = g.seat
    BY <2>3
  <2> QED
    BY <2>2, <2>4, <2>5, <2>6 DEF Halted
<1>12. /\ Handled(e, f) /\ Settled(f)
       /\ ~held /\ waiting => PlanWanted(f)
  BY <1>5, <1>9, <1>10, <1>11, AlikeHandled, HaltedHandled
<1>13. CASE d.behind
  <2>1. Handled(f, Request(f, FALSE)) /\ PlanWanted(Request(f, FALSE))
    BY <1>12, RequestHandled
  <2>2. Handled(d, Request(f, FALSE))
    BY <1>5, <1>12, <2>1, HandledTrans DEF Settled
  <2> QED
    BY <1>7, <1>13, <2>1, <2>2 DEF GoesOn, Alive
<1>14. CASE ~d.behind /\ handoff
  <2>1. Handled(f, FrontierPause(f)) /\ PlanWanted(FrontierPause(f))
    BY <1>12, PausesHandled, HaltedHandled
  <2>2. Handled(d, FrontierPause(f))
    BY <1>5, <1>12, <2>1, HandledTrans DEF Settled
  <2> QED
    BY <1>7, <1>14, <2>1, <2>2 DEF GoesOn, Alive
<1>15. CASE ~d.behind /\ ~handoff /\ (held \/ waiting)
  <2>1. Handled(d, f)
    BY <1>5, <1>12, HandledTrans DEF Settled
  <2>2. f.wave = TRUE \/ PlanWanted(f)
    BY <1>9, <1>12, <1>15
  <2> QED
    BY <1>7, <1>15, <2>1, <2>2 DEF GoesOn, Alive
<1>16. CASE ~d.behind /\ ~handoff /\ ~held /\ ~waiting /\ runnable
  <2>1. PICK g : g = [f EXCEPT !.wave = FALSE]
    OBVIOUS
  <2>2. Alike(f, g) /\ g.research = f.research /\ g.audits = f.audits
    BY <1>12, <2>1 DEF Alike, Settled, Controllers
  <2>3. Handled(f, g)
    BY <1>12, <2>2, AlikeHandled
  <2>4. Handled(d, g)
    BY <1>5, <1>12, <2>3, HandledTrans DEF Settled
  <2>5. g.research > 0 \/ g.audits > 0
    BY <1>2, <1>10, <1>16, <2>2 DEF runnable
  <2>6. AcceptPlan(d, act, plan) = g
    BY <1>7, <1>16, <2>1
  <2> QED
    BY <2>4, <2>5, <2>6 DEF GoesOn, Alive
<1>17. CASE ~d.behind /\ ~handoff /\ ~held /\ ~waiting /\ ~runnable
  <2>1. PICK g : g = DirectorRetry(f, act, FALSE)
    OBVIOUS
  <2>2. Handled(f, g) /\ (~g.raised => PlanWanted(g))
    BY <1>12, <2>1, RetryHandled
  <2>3. Handled(d, g)
    BY <1>5, <1>12, <2>2, HandledTrans DEF Settled
  <2>4. AcceptPlan(d, act, plan) = g
    BY <1>7, <1>17, <2>1
  <2> QED
    BY <2>2, <2>3, <2>4 DEF GoesOn, Alive
<1> QED
  BY <1>13, <1>14, <1>15, <1>16, <1>17

LEMMA DirectorHandled ==
  ASSUME NEW d, Settled(d), NEW act, NEW o \in Outcomes("director"), o = "priorities" => d.audits > 0
  PROVE  /\ Handled([d EXCEPT !.seat = FALSE], AcceptDirector(d, act, o))
         /\ ~AcceptDirector(d, act, o).raised => GoesOn(AcceptDirector(d, act, o), act)
<1>1. PICK e : e = [d EXCEPT !.seat = FALSE]
  OBVIOUS
<1>2. e \in Controllers /\ e.audits = d.audits
  BY <1>1 DEF Settled, Controllers
<1>3. /\ e.phase = d.phase /\ e.stop = d.stop /\ e.raised = d.raised /\ e.auditOnly = d.auditOnly
      /\ e.final = d.final /\ e.satisfied = d.satisfied
  BY <1>1
<1>4. Settled(e)
  BY <1>2, <1>3 DEF Settled, StopsAgree
<1>5. CASE o = "transport"
  <2>1. AcceptDirector(d, act, o) = TransportPause(e)
    BY <1>1, <1>5 DEF AcceptDirector
  <2> QED
    BY <1>1, <1>4, <2>1, PausesHandled, HaltedHandled DEF GoesOn, Alive
<1>6. CASE o = "quota"
  <2>1. AcceptDirector(d, act, o) = QuotaPause(e)
    BY <1>1, <1>6 DEF AcceptDirector
  <2> QED
    BY <1>1, <1>4, <2>1, PausesHandled, HaltedHandled DEF GoesOn, Alive
<1>7. CASE o = "error"
  <2>1. AcceptDirector(d, act, o) = DirectorRetry(e, act, FALSE)
    BY <1>1, <1>7 DEF AcceptDirector
  <2> QED
    BY <1>1, <1>4, <2>1, RetryHandled DEF GoesOn, Alive
<1>8. CASE o = "fatal"
  <2>1. AcceptDirector(d, act, o) = DirectorRetry(e, act, TRUE)
    BY <1>1, <1>8 DEF AcceptDirector
  <2> QED
    BY <1>1, <1>4, <2>1, RetryHandled DEF GoesOn, Alive
<1>9. CASE o \in Plans
  <2>1. AcceptDirector(d, act, o) = AcceptPlan(e, act, o)
    BY <1>1, <1>9 DEF AcceptDirector, Plans
  <2> QED
    BY <1>1, <1>2, <1>4, <1>9, <2>1, PlanHandled
<1> QED
  BY <1>5, <1>6, <1>7, <1>8, <1>9 DEF Outcomes, Failures

LEMMA RequeueHandled ==
  ASSUME NEW d, Settled(d), NEW e,
         \/ e = [d EXCEPT !.research = Grow(@, 1)] \/ e = [d EXCEPT !.audits = Grow(@, 1)]
         \/ e = [d EXCEPT !.wave = TRUE] \/ e = [d EXCEPT !.deferred = 1] \/ e = [d EXCEPT !.review = TRUE]
  PROVE  Handled(d, e) /\ Settled(e)
<1>1. Grow(d.research, 1) \in 0..MaxQueue /\ Grow(d.audits, 1) \in 0..MaxQueue
  BY GrowType DEF Settled, Controllers
<1>2. Alike(d, e)
  <2>1. CASE e = [d EXCEPT !.research = Grow(@, 1)]
    <3>1. PICK n \in 0..MaxQueue : n = Grow(d.research, 1)
      BY <1>1
    <3>2. e = [d EXCEPT !.research = n]
      BY <2>1, <3>1
    <3> QED
      BY <3>2 DEF Alike, Settled, Controllers
  <2>2. CASE e = [d EXCEPT !.audits = Grow(@, 1)]
    <3>1. PICK n \in 0..MaxQueue : n = Grow(d.audits, 1)
      BY <1>1
    <3>2. e = [d EXCEPT !.audits = n]
      BY <2>2, <3>1
    <3> QED
      BY <3>2 DEF Alike, Settled, Controllers
  <2>3. CASE e = [d EXCEPT !.wave = TRUE]
    BY <2>3 DEF Alike, Settled, Controllers
  <2>4. CASE e = [d EXCEPT !.deferred = 1]
    BY <2>4 DEF Alike, Settled, Controllers
  <2>5. CASE e = [d EXCEPT !.review = TRUE]
    BY <2>5 DEF Alike, Settled, Controllers
  <2> QED
    BY <2>1, <2>2, <2>3, <2>4, <2>5
<1> QED
  BY <1>2, AlikeHandled

LEMMA ResearchFailsHandled ==
  ASSUME NEW d, Settled(d), NEW o \in Failures \cup {"retry"}
  PROVE  Handled(d, ResearchFails(d, o))
<1>1. PICK e : e = [d EXCEPT !.research = Grow(@, 1)]
  OBVIOUS
<1>2. Handled(d, e) /\ Settled(e)
  BY <1>1, RequeueHandled
<1>3. CASE o = "transport"
  <2>1. ResearchFails(d, o) = TransportPause(e)
    BY <1>1, <1>3 DEF ResearchFails
  <2>2. Handled(e, TransportPause(e))
    BY <1>2, PausesHandled, HaltedHandled
  <2> QED
    BY <1>2, <2>1, <2>2, HandledTrans DEF Settled
<1>4. CASE o = "quota"
  <2>1. ResearchFails(d, o) = QuotaPause(e)
    BY <1>1, <1>4 DEF ResearchFails
  <2>2. Handled(e, QuotaPause(e))
    BY <1>2, PausesHandled, HaltedHandled
  <2> QED
    BY <1>2, <2>1, <2>2, HandledTrans DEF Settled
<1>5. CASE o = "retry"
  <2>1. ResearchFails(d, o) = e
    BY <1>1, <1>5 DEF ResearchFails
  <2> QED
    BY <1>2, <2>1
<1>6. CASE o \in {"error", "fatal"}
  <2>1. ResearchFails(d, o) = RequireContinuation(d)
    BY <1>6 DEF ResearchFails
  <2> QED
    BY <2>1, RequireHandled
<1> QED
  BY <1>3, <1>4, <1>5, <1>6 DEF Failures

LEMMA ResearchSettlesHandled ==
  ASSUME NEW d, Settled(d), NEW o \in {"progress", "stagnant", "blocked", "checkpoint"}
  PROVE  Handled(d, ResearchSettles(d, o))
<1>1. PICK e : e = [d EXCEPT !.wave = TRUE]
  OBVIOUS
<1>2. Handled(d, e) /\ Settled(e)
  BY <1>1, RequeueHandled
<1>3. CASE o = "checkpoint"
  <2>1. PICK f : f = [e EXCEPT !.deferred = 1]
    OBVIOUS
  <2>2. ResearchSettles(d, o) = f
    BY <1>1, <1>3, <2>1 DEF ResearchSettles
  <2>3. Handled(e, f)
    BY <1>2, <2>1, RequeueHandled
  <2> QED
    BY <1>2, <2>2, <2>3, HandledTrans DEF Settled
<1>4. CASE o = "blocked"
  <2>1. ResearchSettles(d, o) = Request(e, FALSE) /\ Handled(e, Request(e, FALSE))
    BY <1>1, <1>2, <1>4, RequestHandled DEF ResearchSettles
  <2> QED
    BY <1>2, <2>1, HandledTrans DEF Settled
<1>5. CASE o = "stagnant"
  <2>1. ResearchSettles(d, o) = Request(e, TRUE) /\ Handled(e, Request(e, TRUE))
    BY <1>1, <1>2, <1>5, RequestHandled DEF ResearchSettles
  <2> QED
    BY <1>2, <2>1, HandledTrans DEF Settled
<1>6. CASE o = "progress"
  <2>1. ResearchSettles(d, o) = e
    BY <1>1, <1>6 DEF ResearchSettles
  <2> QED
    BY <1>2, <2>1
<1> QED
  BY <1>3, <1>4, <1>5, <1>6

LEMMA SameHandled ==
  ASSUME NEW d, Settled(d)
  PROVE  Handled(d, d)
  BY AlikeHandled DEF Alike, Settled

LEMMA ResearchHandled ==
  ASSUME NEW d, Settled(d), NEW act, NEW o \in Outcomes("research")
  PROVE  Handled(d, AcceptResearch(d, act, o))
<1>1. CASE o = "ending"
  <2>1. AcceptResearch(d, act, o) = Satisfy(d)
    BY <1>1 DEF AcceptResearch
  <2> QED
    BY <2>1, SatisfyHandled
<1>2. CASE o # "ending" /\ d.satisfied
  <2>1. AcceptResearch(d, act, o) = d
    BY <1>2 DEF AcceptResearch
  <2> QED
    BY <2>1, SameHandled
<1>3. CASE o # "ending" /\ ~d.satisfied /\ o \in Failures \cup {"retry"}
  <2>1. AcceptResearch(d, act, o) = ResearchFails(d, o)
    BY <1>3 DEF AcceptResearch
  <2> QED
    BY <1>3, <2>1, ResearchFailsHandled
<1>4. CASE o # "ending" /\ ~d.satisfied /\ o \notin Failures \cup {"retry"}
  <2>1. AcceptResearch(d, act, o) = ResearchSettles(d, o)
    BY <1>4 DEF AcceptResearch
  <2>2. o \in {"progress", "stagnant", "blocked", "checkpoint"}
    BY <1>4 DEF Outcomes
  <2> QED
    BY <2>1, <2>2, ResearchSettlesHandled
<1> QED
  BY <1>1, <1>2, <1>3, <1>4

LEMMA AuditHandled ==
  ASSUME NEW d, Settled(d), NEW act, NEW o \in Outcomes("audit")
  PROVE  Handled(d, AcceptAudit(d, act, o))
<1>1. CASE o = "transport"
  <2>1. AcceptAudit(d, act, o) = TransportPause(d)
    BY <1>1 DEF AcceptAudit
  <2> QED
    BY <2>1, PausesHandled, HaltedHandled
<1>2. CASE o = "quota"
  <2>1. AcceptAudit(d, act, o) = QuotaPause(d)
    BY <1>2 DEF AcceptAudit
  <2> QED
    BY <2>1, PausesHandled, HaltedHandled
<1>3. CASE o \in {"error", "fatal"}
  <2>1. AcceptAudit(d, act, o) = RequireContinuation(d)
    BY <1>3 DEF AcceptAudit
  <2> QED
    BY <2>1, RequireHandled
<1>4. CASE o = "retry"
  <2>1. AcceptAudit(d, act, o) = [d EXCEPT !.audits = Grow(@, 1)]
    BY <1>4 DEF AcceptAudit
  <2> QED
    BY <2>1, RequeueHandled
<1>5. CASE o = "broken"
  <2>1. AcceptAudit(d, act, o) = FailureDrain(d)
    BY <1>5 DEF AcceptAudit
  <2> QED
    BY <2>1, FailureHandled
<1>6. CASE o = "conflict"
  <2>1. AcceptAudit(d, act, o) = [d EXCEPT !.review = TRUE]
    BY <1>6 DEF AcceptAudit
  <2> QED
    BY <2>1, RequeueHandled
<1>7. CASE o \in {"resolved", "trusted", "more", "rejected"}
  <2> DEFINE ends == d.satisfied \/ (d.auditOnly /\ Verdict(o) \in EndingVerdicts)
  <2>1. CASE ends
    <3>1. AcceptAudit(d, act, o) = Satisfy(d)
      BY <1>7, <2>1 DEF AcceptAudit
    <3> QED
      BY <3>1, SatisfyHandled
  <2>2. CASE ~ends /\ o = "resolved"
    <3>1. AcceptAudit(d, act, o) = Finalize(d)
      BY <2>2 DEF AcceptAudit
    <3> QED
      BY <3>1, FinalizeHandled
  <2>3. CASE ~ends /\ o \in {"trusted", "rejected"}
    <3>1. AcceptAudit(d, act, o) = Request(d, FALSE)
      BY <2>3 DEF AcceptAudit
    <3> QED
      BY <3>1, RequestHandled
  <2>4. CASE ~ends /\ o = "more"
    <3>1. PICK e : e = Request(d, FALSE)
      OBVIOUS
    <3>2. AcceptAudit(d, act, o) = [e EXCEPT !.audits = Grow(@, 1)]
      BY <2>4, <3>1 DEF AcceptAudit
    <3>3. Handled(d, e) /\ Settled(e)
      BY <3>1, RequestHandled
    <3>4. Handled(e, [e EXCEPT !.audits = Grow(@, 1)])
      BY <3>3, RequeueHandled
    <3> QED
      BY <3>2, <3>3, <3>4, HandledTrans DEF Settled
  <2> QED
    BY <1>7, <2>1, <2>2, <2>3, <2>4
<1> QED
  BY <1>1, <1>2, <1>3, <1>4, <1>5, <1>6, <1>7 DEF Outcomes, Failures

LEMMA AcceptHandled ==
  ASSUME NEW d, Settled(d), NEW act, NEW kind \in {"director", "research", "audit"},
         NEW o \in Outcomes(kind), o = "priorities" => d.audits > 0
  PROVE  /\ kind = "director" => /\ Handled([d EXCEPT !.seat = FALSE], Accept(d, act, kind, o))
                                 /\ ~Accept(d, act, kind, o).raised => GoesOn(Accept(d, act, kind, o), act)
         /\ kind # "director" => Handled(d, Accept(d, act, kind, o))
<1>1. CASE kind = "director"
  <2>1. Accept(d, act, kind, o) = AcceptDirector(d, act, o)
    BY <1>1 DEF Accept
  <2> QED
    BY <1>1, <2>1, DirectorHandled
<1>2. CASE kind = "research"
  <2>1. Accept(d, act, kind, o) = AcceptResearch(d, act, o)
    BY <1>2 DEF Accept
  <2> QED
    BY <1>2, <2>1, ResearchHandled
<1>3. CASE kind = "audit"
  <2>1. Accept(d, act, kind, o) = AcceptAudit(d, act, o)
    BY <1>3 DEF Accept
  <2> QED
    BY <1>3, <2>1, AuditHandled
<1> QED
  BY <1>1, <1>2, <1>3

(***************************************************************************)
(* Steps of the loop keep the invariant.                                   *)
(***************************************************************************)
LEMMA Stays ==
  ASSUME LoopInv, pc \in Looping, pc' \in Looping, Settled(ctl'),
         job' \in JobStates, batch' \subseteq Active', spent' \in Nat, clock' \in Clocks,
         cut' \in Cuts, cut'.how = cut.how, cut'.live = cut.live, cut'.status = cut.status,
         StillRunning', StaysAlive', JobsMatch'
  PROVE  LoopInv'
<1>1. ctl' \in Controllers /\ ~ctl'.raised
  BY DEF Settled
<1>2. LoopTypeOK'
  <2>1. pc' \in {"poll", "collect", "stop", "director", "audits", "research", "idle",
             "last", "final", "close", "finish", "done"}
    BY DEF Looping, Turn
  <2>2. /\ ctl'.phase \in Phases /\ ctl'.stop \in Stops
        /\ {ctl'.research, ctl'.audits} \subseteq 0..MaxQueue /\ ctl'.retries \in 0..MaxRetries
    BY <1>1 DEF Controllers
  <2>3. cut'.live \subseteq Slots
    BY DEF Cuts
  <2> QED
    BY <1>1, <2>1, <2>2, <2>3 DEF LoopTypeOK, JobStates
<1>3. LoopTypes'
  BY <1>1, <1>2 DEF LoopTypes
<1>4. cut'.how = "no" /\ cut'.status = "none" /\ cut'.live = {}
  BY DEF LoopInv, WasLeft, Looping, Turn
<1>5. WasLeft'
  BY <1>4 DEF WasLeft, Looping, Turn, Leaving
<1>6. CutOnlyWhen' /\ RaisesOnlyInDrain' /\ IdleOnlyWhen' /\ CompletedIsClean'
  BY <1>4 DEF CutOnlyWhen, RaisesOnlyInDrain, IdleOnlyWhen, CompletedIsClean
<1> QED
  BY <1>3, <1>5, <1>6 DEF LoopInv

LEMMA Leaves ==
  ASSUME LoopInv, pc \in Looping, pc' = "last", Settled(ctl'),
         job' \in JobStates, batch' = {}, spent' \in Nat, clock' \in Clocks,
         NEW how \in Ways, cut' = [cut EXCEPT !.how = how],
         job'["director"] = "cancelled" => cut.orphan,
         how \in {"stopped", "idle"} => Active' = {},
         how = "error" => ctl'.failed /\ (ctl'.phase # "RUNNING" \/ ctl'.stop = "starved"),
         how = "idle" => ctl'.auditOnly \/ cut.orphan \/ ctl'.stop # "none"
  PROVE  LoopInv'
<1>1. ctl' \in Controllers /\ ~ctl'.raised /\ StopsAgree(ctl')
  BY DEF Settled
<1>2. cut \in Cuts /\ cut.status = "none" /\ cut.live = {}
  BY DEF LoopInv, WasLeft, Looping, Turn, LoopTypes
<1>3. /\ cut' \in Cuts /\ cut'.how = how /\ cut'.status = "none" /\ cut'.live = {}
      /\ cut'.orphan = cut.orphan
  BY <1>2 DEF Cuts
<1>4. LoopTypes'
  <2>1. /\ ctl'.phase \in Phases /\ ctl'.stop \in Stops
        /\ {ctl'.research, ctl'.audits} \subseteq 0..MaxQueue /\ ctl'.retries \in 0..MaxRetries
    BY <1>1 DEF Controllers
  <2>2. LoopTypeOK'
    BY <1>1, <1>3, <2>1 DEF LoopTypeOK, JobStates
  <2> QED
    BY <1>1, <1>3, <2>2 DEF LoopTypes, Leaving
<1>5. StillRunning' /\ StaysAlive' /\ JobsMatch'
  BY <1>1, <1>3 DEF StillRunning, StaysAlive, JobsMatch, Looping, Turn
<1>6. WasLeft'
  BY <1>3 DEF WasLeft, Looping, Turn, Leaving, Ways
<1>7. CutOnlyWhen' /\ RaisesOnlyInDrain' /\ IdleOnlyWhen' /\ CompletedIsClean'
  BY <1>3 DEF CutOnlyWhen, RaisesOnlyInDrain, IdleOnlyWhen, CompletedIsClean
<1> QED
  BY <1>4, <1>5, <1>6, <1>7 DEF LoopInv

LEMMA LoopFacts ==
  ASSUME LoopInv
  PROVE  /\ Settled(ctl) /\ job \in JobStates /\ batch \subseteq Active /\ spent \in Nat
         /\ clock \in Clocks /\ cut \in Cuts
  BY DEF LoopInv, LoopTypes, LoopTypeOK, StillRunning, Settled, JobStates

(* Only the controller and the place in the loop change. *)
LEMMA Moves ==
  ASSUME LoopInv, pc \in Looping, pc' \in Looping, pc' # "collect", batch = {},
         UNCHANGED <<job, batch, spent, clock, cut>>, Settled(ctl'), ctl'.seat = ctl.seat,
         ctl'.stop = "none" =>
            ctl'.phase = "RUNNING" \/ (pc' \notin Turn /\ ctl'.phase = "DRAINING_BUDGET" /\ spent >= Budget),
         Alive(ctl') \/ (pc' \notin Turn /\ ctl'.wave) \/ Active # {} \/ cut.orphan
  PROVE  LoopInv'
<1>1. /\ job \in JobStates /\ batch \subseteq Active /\ spent \in Nat
      /\ clock \in Clocks /\ cut \in Cuts
  BY LoopFacts
<1>2. Active' = Active
  BY DEF Active
<1>3. StillRunning'
  BY DEF StillRunning, Settled
<1>4. StaysAlive'
  BY <1>2 DEF StaysAlive, Turn
<1>5. JobsMatch'
  BY DEF LoopInv, JobsMatch
<1> QED
  BY <1>1, <1>2, <1>3, <1>4, <1>5, Stays

(* A handler's outcome, as the loop goes on with it. *)
LEMMA Continues ==
  ASSUME LoopInv, pc \in Looping, batch = {}, UNCHANGED <<job, batch, spent, clock>>,
         NEW e, Handled(ctl, e), NEW where \in Looping, where # "collect", Continue(e, where),
         ~e.raised => e.stop # "none"
  PROVE  LoopInv'
<1>1. CASE e.raised
  <2>1. ctl' = [e EXCEPT !.raised = FALSE, !.failed = TRUE] /\ Leave("error")
    BY <1>1 DEF Continue
  <2>2. /\ ctl' \in Controllers /\ ctl'.raised = FALSE /\ ctl'.failed = TRUE
    BY <2>1 DEF Handled, Controllers
  <2>3. /\ ctl'.phase = e.phase /\ ctl'.stop = e.stop /\ ctl'.final = e.final /\ ctl'.satisfied = e.satisfied
        /\ ctl'.auditOnly = e.auditOnly
    BY <2>1
  <2>4. Settled(ctl') /\ ctl'.phase # "RUNNING"
    BY <1>1, <2>2, <2>3 DEF Handled, Settled, StopsAgree
  <2>5. /\ job' \in JobStates /\ spent' \in Nat /\ clock' \in Clocks /\ (job'["director"] = "cancelled" => cut.orphan)
    BY LoopFacts DEF LoopInv, JobsMatch
  <2>6. pc' = "last" /\ cut' = [cut EXCEPT !.how = "error"] /\ "error" \in Ways
    BY <2>1 DEF Leave, Ways
  <2> QED
    BY <2>2, <2>4, <2>5, <2>6, Leaves
<1>2. CASE ~e.raised
  <2>1. ctl' = e /\ pc' = where /\ UNCHANGED cut
    BY <1>2 DEF Continue
  <2>2. Settled(ctl') /\ ctl'.seat = ctl.seat /\ ctl'.stop # "none"
    BY <1>2, <2>1 DEF Handled, Settled
  <2> QED
    BY <2>1, <2>2, Moves DEF Alive, PlanWanted
<1> QED
  BY <1>1, <1>2

LEMMA NothingStaleKeeps ==
  ASSUME LoopInv, NothingStale
  PROVE  LoopInv'
  BY LoopFacts, Moves DEF NothingStale, LoopInv, StillRunning, StaysAlive, Looping, Turn

LEMMA StopWaitsKeeps ==
  ASSUME LoopInv, StopWaits
  PROVE  LoopInv'
  BY LoopFacts, Moves DEF StopWaits, LoopInv, StillRunning, StaysAlive, JobsMatch, Looping, Turn

LEMMA StopOnErrorsKeeps ==
  ASSUME LoopInv, StopOnErrors
  PROVE  LoopInv'
  BY LoopFacts, FailureHandled, Continues DEF StopOnErrors, LoopInv, JobsMatch, Looping

LEMMA DirectorBrokenKeeps ==
  ASSUME LoopInv, DirectorBroken
  PROVE  LoopInv'
  BY LoopFacts, FailureHandled, Continues DEF DirectorBroken, LoopInv, JobsMatch, Looping, Turn

LEMMA UndecidedRuns ==
  ASSUME LoopInv, pc = "stop", ctl.stop = "none"
  PROVE  /\ ctl.phase = "RUNNING" \/ (ctl.phase = "DRAINING_BUDGET" /\ spent >= Budget)
         /\ pc \in Looping /\ batch = {}
  BY DEF LoopInv, StillRunning, JobsMatch, Looping

(* A stop reason that is set together with the end of dispatch. *)
LEMMA StopsAndPolls ==
  ASSUME LoopInv, pc \in Looping, batch = {}, UNCHANGED <<job, batch, spent, clock, cut>>,
         NEW e \in Controllers, ~e.raised, e.phase # "RUNNING",
         e.seat = ctl.seat, e.satisfied => e.auditOnly,
         NEW r \in Stops \ {"none"}, ctl' = [e EXCEPT !.stop = r], pc' = "poll"
  PROVE  LoopInv'
<1>1. ctl' \in Controllers /\ ctl'.stop = r
  BY DEF Controllers
<1>2. /\ ctl'.phase = e.phase /\ ctl'.raised = e.raised /\ ctl'.seat = e.seat
      /\ ctl'.satisfied = e.satisfied /\ ctl'.auditOnly = e.auditOnly
  OBVIOUS
<1>3. Settled(ctl')
  BY <1>1, <1>2 DEF Settled, StopsAgree
<1> QED
  BY <1>1, <1>2, <1>3, Moves DEF Looping, Alive, PlanWanted

LEMMA StopOnRateKeeps ==
  ASSUME LoopInv, StopOnRate
  PROVE  LoopInv'
<1>1. /\ pc = "stop" /\ ctl.stop = "none" /\ UNCHANGED <<job, batch, spent, clock>>
  BY DEF StopOnRate
<1>2. PICK t : t = Transition(ctl, "DRAINING_BUDGET")
  OBVIOUS
<1>3. t \in Controllers /\ ~t.raised /\ t.phase # "RUNNING" /\ t.seat = ctl.seat /\ (t.satisfied => t.auditOnly)
  <2>1. ctl \in Controllers /\ ~ctl.raised /\ (ctl.satisfied => ctl.auditOnly)
    BY LoopFacts DEF Settled, StopsAgree
  <2>2. \/ ctl.phase = "DRAINING_BUDGET"
        \/ "DRAINING_BUDGET" \in AllowedPhases[ctl.phase]
    BY <1>1, UndecidedRuns, AllowedFromRunning
  <2>3. "DRAINING_BUDGET" \in Phases
    BY AllowedFromRunning
  <2>4. ~t.raised
    BY <1>2, <2>1, <2>2, <2>3 DEF Transition
  <2> QED
    BY <1>2, <2>1, <2>3, <2>4, TransitionKeeps
<1>4. ctl' = [t EXCEPT !.stop = "rate"] /\ pc' = "poll" /\ UNCHANGED cut
  <2>1. PICK e : e = IF t.raised THEN t ELSE [t EXCEPT !.stop = "rate"]
    OBVIOUS
  <2>2. e = [t EXCEPT !.stop = "rate"] /\ e.raised = t.raised
    BY <1>3, <2>1
  <2>3. Continue(e, "poll")
    BY <1>2, <2>1 DEF StopOnRate
  <2> QED
    BY <1>3, <2>2, <2>3 DEF Continue
<1> QED
  BY <1>1, <1>3, <1>4, UndecidedRuns, StopsAndPolls DEF Stops

LEMMA StopOnDeadlineKeeps ==
  ASSUME LoopInv, StopOnDeadline
  PROVE  LoopInv'
<1>1. /\ pc = "stop" /\ ctl.stop = "none" /\ spent < Budget /\ UNCHANGED <<job, batch, spent, clock>>
  BY DEF StopOnDeadline, Undecided
<1>2. PICK t : t = Transition(ctl, "DRAINING_EPOCH")
  OBVIOUS
<1>3. t \in Controllers /\ ~t.raised /\ t.phase # "RUNNING" /\ t.seat = ctl.seat /\ (t.satisfied => t.auditOnly)
  <2>1. ctl \in Controllers /\ ~ctl.raised /\ (ctl.satisfied => ctl.auditOnly) /\ spent \in Nat
    BY LoopFacts DEF Settled, StopsAgree
  <2>2. "DRAINING_EPOCH" \in AllowedPhases[ctl.phase]
    BY <1>1, <2>1, UndecidedRuns, AllowedFromRunning, EpochLoopAssumption
  <2>3. "DRAINING_EPOCH" \in Phases
    BY AllowedFromRunning
  <2>4. ~t.raised
    BY <1>2, <2>1, <2>2, <2>3 DEF Transition
  <2> QED
    BY <1>2, <2>1, <2>3, <2>4, TransitionKeeps
<1>4. ctl' = [t EXCEPT !.stop = "epoch"] /\ pc' = "poll" /\ UNCHANGED cut
  <2>1. PICK e : e = IF t.raised THEN t ELSE [t EXCEPT !.stop = "epoch"]
    OBVIOUS
  <2>2. e = [t EXCEPT !.stop = "epoch"] /\ e.raised = t.raised
    BY <1>3, <2>1
  <2>3. Continue(e, "poll")
    BY <1>2, <2>1 DEF StopOnDeadline
  <2> QED
    BY <1>3, <2>2, <2>3 DEF Continue
<1> QED
  BY <1>1, <1>3, <1>4, UndecidedRuns, StopsAndPolls DEF Stops

LEMMA LeavingRunning ==
  ASSUME NEW d, Settled(d), NEW phase \in Phases \ {"RUNNING"}, NEW e, e = FromRunning(d, phase)
  PROVE  /\ e \in Controllers /\ ~e.raised /\ e.phase # "RUNNING" /\ Settled(e)
         /\ e.seat = d.seat /\ (e.satisfied => e.auditOnly) /\ e.stop = d.stop /\ e.needed = d.needed
         /\ (d.phase = "RUNNING" => e.phase = phase) /\ (d.phase # "RUNNING" => e.phase = d.phase)
<1>1. CASE d.phase = "RUNNING"
  <2>1. e = [d EXCEPT !.phase = phase]
    BY <1>1 DEF FromRunning
  <2>2. e \in Controllers /\ e.phase = phase
    BY <2>1 DEF Settled, Controllers
  <2>3. /\ e.raised = d.raised /\ e.seat = d.seat /\ e.satisfied = d.satisfied /\ e.auditOnly = d.auditOnly
        /\ e.stop = d.stop /\ e.needed = d.needed
    BY <2>1
  <2> QED
    BY <1>1, <2>2, <2>3 DEF Settled, StopsAgree
<1>2. CASE d.phase # "RUNNING"
  BY <1>2 DEF FromRunning, Settled, StopsAgree
<1> QED
  BY <1>1, <1>2

LEMMA StopOnBudgetKeeps ==
  ASSUME LoopInv, StopOnBudget
  PROVE  LoopInv'
<1>1. /\ pc = "stop" /\ ctl.stop = "none" /\ spent >= Budget /\ UNCHANGED <<job, batch, spent, clock, cut>>
      /\ pc' = "poll"
  BY DEF StopOnBudget, Undecided
<1>2. PICK e : e = FromRunning(ctl, "DRAINING_BUDGET")
  OBVIOUS
<1>3. /\ e \in Controllers /\ ~e.raised /\ e.phase # "RUNNING" /\ Settled(e)
      /\ e.seat = ctl.seat /\ (e.satisfied => e.auditOnly)
      /\ (ctl.phase = "RUNNING" => e.phase = "DRAINING_BUDGET") /\ (ctl.phase # "RUNNING" => e.phase = ctl.phase)
  BY <1>2, LoopFacts, LeavingRunning, AllowedFromRunning
<1>4. CASE Active = {}
  <2>1. ctl' = [e EXCEPT !.stop = "budget"]
    BY <1>2, <1>4 DEF StopOnBudget, BudgetDrain
  <2> QED
    BY <1>1, <1>3, <2>1, UndecidedRuns, StopsAndPolls DEF Stops
<1>5. CASE Active # {}
  <2>1. ctl' = e
    BY <1>2, <1>5 DEF StopOnBudget, BudgetDrain
  <2>2. e.phase = "DRAINING_BUDGET"
    BY <1>1, <1>3, UndecidedRuns
  <2> QED
    BY <1>1, <1>3, <1>5, <2>1, <2>2, UndecidedRuns, Moves DEF Looping, Turn
<1> QED
  BY <1>4, <1>5

LEMMA DispatchKeeps ==
  ASSUME LoopInv, Dispatch
  PROVE  LoopInv'
<1>1. /\ pc = "stop" /\ ctl.stop = "none" /\ spent < Budget /\ UNCHANGED <<job, batch, spent, clock, cut>>
      /\ pc' = "director"
  BY DEF Dispatch, Undecided
<1>2. ctl.phase = "RUNNING" /\ batch = {} /\ pc \in Looping
  BY <1>1, UndecidedRuns, LoopFacts, EpochLoopAssumption
<1>3. Alive(ctl) \/ ctl.wave \/ Active # {} \/ cut.orphan
  BY <1>1 DEF LoopInv, StaysAlive
<1>4. CASE ctl.wave /\ ~ctl.needed /\ ctl.research = 0 /\ ctl.audits = 0 /\ Active = {}
  <2>1. PICK e : e = [ctl EXCEPT !.wave = FALSE]
    OBVIOUS
  <2>2. ctl' = Request(e, FALSE)
    BY <1>4, <2>1 DEF Dispatch
  <2>3. Alike(ctl, e)
    BY <2>1, LoopFacts DEF Alike, Settled, Controllers
  <2>4. Handled(ctl, e) /\ Settled(e) /\ Handled(e, ctl') /\ PlanWanted(ctl') /\ Settled(ctl')
    BY <2>2, <2>3, LoopFacts, AlikeHandled, RequestHandled
  <2>5. Handled(ctl, ctl')
    BY <2>4, HandledTrans DEF Settled
  <2>6. ctl'.seat = ctl.seat /\ (ctl'.stop = "none" => ctl'.phase = "RUNNING") /\ Alive(ctl')
    BY <1>2, <2>4, <2>5 DEF Handled, Settled, Alive
  <2> QED
    BY <1>1, <1>2, <2>4, <2>6, Moves DEF Looping, Turn
<1>5. CASE ~(ctl.wave /\ ~ctl.needed /\ ctl.research = 0 /\ ctl.audits = 0 /\ Active = {})
  <2>1. ctl' = ctl
    BY <1>5 DEF Dispatch
  <2>2. ctl.research \in Nat /\ ctl.audits \in Nat
    BY LoopFacts DEF Settled, Controllers
  <2>3. Alive(ctl) \/ Active # {} \/ cut.orphan
    BY <1>3, <1>5, <2>2 DEF Alive, PlanWanted
  <2> QED
    BY <1>1, <1>2, <2>1, <2>3, LoopFacts, Moves DEF Looping, Turn
<1> QED
  BY <1>4, <1>5

(* What the invariant says while jobs are launched. *)
LEMMA TurnFacts ==
  ASSUME LoopInv, pc \in Turn
  PROVE  /\ pc \in Looping /\ batch = {} /\ (ctl.stop = "none" => ctl.phase = "RUNNING")
         /\ Alive(ctl) \/ Active # {} \/ cut.orphan
  BY DEF LoopInv, StillRunning, StaysAlive, JobsMatch, Looping, Turn

LEMMA DirectorRefusedKeeps ==
  ASSUME LoopInv, DirectorRefused
  PROVE  LoopInv'
<1>1. /\ pc = "director" /\ UNCHANGED <<job, batch, spent, clock, cut>> /\ pc' = "audits"
      /\ ctl.phase = "RUNNING" /\ ctl.stop = "none"
  BY DEF DirectorRefused, DirectorWanted, CanDispatch
<1>2. PICK r \in {"none", "starved"} : /\ r = (IF ctl.research = 0 /\ ctl.audits = 0 THEN "starved" ELSE ctl.stop)
                                       /\ r = "none" => ctl.research # 0 \/ ctl.audits # 0
  BY <1>1
<1>3. ctl' = [ctl EXCEPT !.needed = FALSE, !.stop = r]
  BY <1>2 DEF DirectorRefused
<1>4. ctl' \in Controllers /\ ctl'.stop = r
  BY <1>3, LoopFacts DEF Settled, Controllers, Stops
<1>5. /\ ctl'.phase = ctl.phase /\ ctl'.raised = ctl.raised /\ ctl'.seat = ctl.seat
      /\ ctl'.satisfied = ctl.satisfied /\ ctl'.auditOnly = ctl.auditOnly /\ ctl'.final = ctl.final
      /\ ctl'.research = ctl.research /\ ctl'.audits = ctl.audits
  BY <1>3
<1>6. Settled(ctl')
  BY <1>1, <1>2, <1>4, <1>5, LoopFacts DEF Settled, StopsAgree
<1>7. Alive(ctl')
  <2>1. ctl'.research \in Nat /\ ctl'.audits \in Nat
    BY <1>4 DEF Controllers
  <2> QED
    BY <1>2, <1>4, <1>5, <2>1 DEF Alive, PlanWanted
<1> QED
  BY <1>1, <1>5, <1>6, <1>7, TurnFacts, Moves DEF Looping, Turn

LEMMA DebouncedKeeps ==
  ASSUME LoopInv, Debounced \/ NoDirector
  PROVE  LoopInv'
<1>1. /\ pc = "director" /\ UNCHANGED <<ctl, job, batch, spent, clock, cut>> /\ pc' = "audits"
  BY DEF Debounced, NoDirector
<1> QED
  BY <1>1, LoopFacts, TurnFacts, Moves DEF Looping, Turn

(* A turn that finds work queued and no tokens for it. *)
LEMMA StarvedKeeps ==
  ASSUME LoopInv, pc \in Turn, pc' \in Turn, UNCHANGED <<job, batch, spent, clock, cut>>,
         \/ ctl' = ctl \/ (ctl' = [ctl EXCEPT !.stop = "starved"] /\ ctl.phase = "RUNNING")
  PROVE  LoopInv'
<1>1. CASE ctl' = ctl
  BY <1>1, LoopFacts, TurnFacts, Moves DEF Looping, Turn
<1>2. CASE ctl' = [ctl EXCEPT !.stop = "starved"] /\ ctl.phase = "RUNNING"
  <2>1. ctl' \in Controllers /\ ctl'.stop = "starved"
    BY <1>2, LoopFacts DEF Settled, Controllers, Stops
  <2>2. /\ ctl'.phase = ctl.phase /\ ctl'.raised = ctl.raised /\ ctl'.seat = ctl.seat
        /\ ctl'.satisfied = ctl.satisfied /\ ctl'.auditOnly = ctl.auditOnly /\ ctl'.final = ctl.final
    BY <1>2
  <2>3. Settled(ctl')
    BY <1>2, <2>1, <2>2, LoopFacts DEF Settled, StopsAgree
  <2> QED
    BY <2>1, <2>2, <2>3, TurnFacts, Moves DEF Looping, Turn, Alive, PlanWanted
<1> QED
  BY <1>1, <1>2

LEMMA AuditsLaunchedKeeps ==
  ASSUME LoopInv, AuditsLaunched
  PROVE  LoopInv'
<1>1. pc \in Turn /\ pc' \in Turn /\ UNCHANGED <<job, batch, spent, clock, cut>>
  BY DEF AuditsLaunched, Turn
<1>2. ctl' = ctl \/ (ctl' = [ctl EXCEPT !.stop = "starved"] /\ ctl.phase = "RUNNING")
  BY DEF AuditsLaunched, CanDispatch
<1> QED
  BY <1>1, <1>2, StarvedKeeps

LEMMA ResearchLaunchedKeeps ==
  ASSUME LoopInv, ResearchLaunched
  PROVE  LoopInv'
<1>1. pc \in Turn /\ pc' \in Turn /\ UNCHANGED <<job, batch, spent, clock, cut>>
  BY DEF ResearchLaunched, Turn
<1>2. ctl' = ctl \/ (ctl' = [ctl EXCEPT !.stop = "starved"] /\ ctl.phase = "RUNNING")
  BY DEF ResearchLaunched, MayResearch, CanDispatch
<1> QED
  BY <1>1, <1>2, StarvedKeeps

LEMMA RejectAtDispatchKeeps ==
  ASSUME LoopInv, RejectAtDispatch
  PROVE  LoopInv'
<1>1. /\ pc = "research" /\ UNCHANGED <<pc, job, batch, spent, clock, cut>> /\ ctl.research > 0
  BY DEF RejectAtDispatch, MayResearch
<1>2. PICK n \in 0..MaxQueue : n = ctl.research - 1
  BY <1>1, LoopFacts, EpochLoopAssumption DEF Settled, Controllers
<1>3. PICK e : e = [ctl EXCEPT !.research = n]
  OBVIOUS
<1>4. ctl' = Request(e, FALSE)
  BY <1>2, <1>3 DEF RejectAtDispatch
<1>5. Alike(ctl, e)
  BY <1>3, LoopFacts DEF Alike, Settled, Controllers
<1>6. Handled(ctl, e) /\ Settled(e) /\ Handled(e, ctl') /\ PlanWanted(ctl') /\ Settled(ctl')
  BY <1>4, <1>5, LoopFacts, AlikeHandled, RequestHandled
<1>7. Handled(ctl, ctl')
  BY <1>6, HandledTrans DEF Settled
<1>8. /\ ctl'.seat = ctl.seat /\ Alive(ctl')
      /\ ctl'.stop = "none" => ctl'.phase = ctl.phase /\ ctl.stop = "none"
  BY <1>6, <1>7 DEF Handled, Settled, Alive
<1>9. pc \in Turn /\ pc' \in Looping /\ pc' # "collect"
  BY <1>1 DEF Turn, Looping
<1> QED
  BY <1>1, <1>6, <1>8, <1>9, TurnFacts, Moves

LEMMA PauseIsolatedKeeps ==
  ASSUME LoopInv, PauseIsolated
  PROVE  LoopInv'
<1>1. /\ pc = "idle" /\ UNCHANGED <<job, batch, spent, clock, cut>> /\ pc' = "poll"
  BY DEF PauseIsolated
<1>2. PICK e : e = FromRunning(ctl, "DRAINING_EPOCH")
  OBVIOUS
<1>3. /\ e \in Controllers /\ ~e.raised /\ e.phase # "RUNNING"
      /\ e.seat = ctl.seat /\ (e.satisfied => e.auditOnly)
  BY <1>2, LoopFacts, LeavingRunning, AllowedFromRunning
<1>4. PICK f : f = [e EXCEPT !.needed = FALSE]
  OBVIOUS
<1>5. /\ f \in Controllers /\ ~f.raised /\ f.phase # "RUNNING"
      /\ f.seat = ctl.seat /\ (f.satisfied => f.auditOnly)
  BY <1>3, <1>4 DEF Controllers
<1>6. ctl' = [f EXCEPT !.stop = "director"]
  BY <1>2, <1>4 DEF PauseIsolated
<1> QED
  BY <1>1, <1>5, <1>6, TurnFacts, StopsAndPolls DEF Turn, Stops

LEMMA SleepKeeps ==
  ASSUME LoopInv, Sleep
  PROVE  LoopInv'
<1>1. /\ pc = "idle" /\ UNCHANGED <<job, batch, spent, clock>>
      /\ ~(ctl.isolated /\ ctl.stop = "none" /\ Active = {})
  BY DEF Sleep
<1>2. PICK d : d = IF Idle(ctl) /\ ctl.batched THEN ReleaseBatch(ctl) ELSE ctl
  OBVIOUS
<1>3. IF Idle(d) THEN ctl' = [d EXCEPT !.failed = TRUE] /\ Leave("idle")
      ELSE ctl' = d /\ pc' = "poll" /\ UNCHANGED cut
  BY <1>2 DEF Sleep
<1>4. /\ Handled(ctl, d) /\ Settled(d)
      /\ Idle(ctl) /\ ctl.batched => PlanWanted(d)
      /\ ~(Idle(ctl) /\ ctl.batched) => d = ctl
  <2>1. CASE Idle(ctl) /\ ctl.batched
    <3>1. PICK e : e = [ctl EXCEPT !.batched = FALSE]
      OBVIOUS
    <3>2. Alike(ctl, e)
      BY <3>1, LoopFacts DEF Alike, Settled, Controllers
    <3>3. d = Request(e, TRUE)
      BY <1>2, <2>1, <3>1 DEF ReleaseBatch
    <3>4. Handled(ctl, e) /\ Settled(e) /\ Handled(e, d) /\ PlanWanted(d) /\ Settled(d)
      BY <3>2, <3>3, LoopFacts, AlikeHandled, RequestHandled
    <3> QED
      BY <2>1, <3>4, HandledTrans DEF Settled
  <2>2. CASE ~(Idle(ctl) /\ ctl.batched)
    BY <1>2, <2>2, LoopFacts, SameHandled
  <2> QED
    BY <2>1, <2>2
<1>5. CASE ~Idle(d)
  <2>1. ctl' = d /\ pc' = "poll" /\ UNCHANGED cut
    BY <1>3, <1>5
  <2>2. Alive(d) \/ Active # {} \/ cut.orphan
    BY <1>1, <1>4, TurnFacts DEF Turn, Alive
  <2>3. d.seat = ctl.seat /\ (d.stop = "none" => d.phase = "RUNNING")
    BY <1>1, <1>4, TurnFacts DEF Handled, Turn, Settled
  <2> QED
    BY <1>1, <1>4, <2>1, <2>2, <2>3, TurnFacts, Moves DEF Turn, Looping
<1>6. CASE Idle(d)
  <2>1. ctl' = [d EXCEPT !.failed = TRUE] /\ pc' = "last" /\ cut' = [cut EXCEPT !.how = "idle"] /\ Active = {}
    BY <1>3, <1>6 DEF Leave, Idle
  <2>2. ctl' \in Controllers
    BY <1>4, <2>1 DEF Settled, Controllers
  <2>3. /\ ctl'.phase = d.phase /\ ctl'.stop = d.stop /\ ctl'.raised = d.raised /\ ctl'.final = d.final
        /\ ctl'.satisfied = d.satisfied /\ ctl'.auditOnly = d.auditOnly
    BY <2>1
  <2>4. Settled(ctl')
    BY <1>4, <2>2, <2>3 DEF Settled, StopsAgree
  <2>5. d.auditOnly \/ cut.orphan \/ d.stop # "none"
    <3>1. d.research = 0 /\ d.audits = 0 /\ ~d.needed
      BY <1>6 DEF Idle
    <3>2. d.stop = "none" => d.phase = "RUNNING" /\ ctl.stop = "none"
      BY <1>1, <1>4, TurnFacts DEF Handled, Turn, Settled
    <3>3. CASE Idle(ctl) /\ ctl.batched
      <4>1. ctl.stop = "none" => ~ctl.isolated
        BY <1>1, <2>1
      <4>2. d.isolated = ctl.isolated
        BY <1>2, <3>3 DEF ReleaseBatch, Request
      <4> QED
        BY <1>4, <3>1, <3>2, <3>3, <4>1, <4>2 DEF PlanWanted
    <3>4. CASE ~(Idle(ctl) /\ ctl.batched)
      <4>1. d = ctl /\ ~ctl.batched
        BY <1>4, <1>6, <3>4
      <4>2. ctl.stop = "none" => ~ctl.isolated
        BY <1>1, <2>1
      <4>3. Alive(ctl) \/ cut.orphan
        BY <1>1, <2>1, TurnFacts DEF Turn
      <4> QED
        BY <3>1, <3>2, <4>1, <4>2, <4>3 DEF Alive, PlanWanted
    <3> QED
      BY <3>3, <3>4
  <2>6. /\ job' \in JobStates /\ spent' \in Nat /\ clock' \in Clocks /\ (job'["director"] = "cancelled" => cut.orphan)
        /\ batch' = {} /\ Active' = {} /\ pc \in Looping
    BY <1>1, <2>1, LoopFacts, TurnFacts DEF LoopInv, JobsMatch, Turn, Active
  <2> QED
    BY <2>1, <2>3, <2>4, <2>5, <2>6, Leaves DEF Ways
<1> QED
  BY <1>5, <1>6

LEMMA StopsOrBreaks ==
  ASSUME LoopInv, StopOnTransport \/ StopForReview \/ Interrupt
  PROVE  LoopInv'
<1>1. /\ pc \in {"poll", "stop"} /\ pc' = "last" /\ UNCHANGED <<ctl, job, batch, spent, clock>>
      /\ \E how \in {"transport", "review", "interrupted"} : cut' = [cut EXCEPT !.how = how]
  BY DEF StopOnTransport, StopForReview, Interrupt, Leave
<1>2. PICK how \in {"transport", "review", "interrupted"} : cut' = [cut EXCEPT !.how = how]
  BY <1>1
<1>3. /\ pc \in Looping /\ batch = {} /\ (job["director"] = "cancelled" => cut.orphan)
  BY <1>1 DEF LoopInv, JobsMatch, Looping
<1> QED
  BY <1>1, <1>2, <1>3, LoopFacts, Leaves DEF Ways

LEMMA StopNowKeeps ==
  ASSUME LoopInv, StopNow
  PROVE  LoopInv'
<1>1. /\ pc = "stop" /\ ctl.stop # "none" /\ Active = {} /\ UNCHANGED <<job, batch, spent, clock>>
  BY DEF StopNow
<1>2. /\ pc \in Looping /\ batch = {} /\ (job["director"] = "cancelled" => cut.orphan)
  BY <1>1 DEF LoopInv, JobsMatch, Looping
<1>3. ctl \in Controllers /\ ~ctl.raised /\ StopsAgree(ctl)
  BY LoopFacts DEF Settled
<1>4. PICK d : d = IF ctl.final \/ ctl.satisfied THEN Transition(ctl, "COMPLETED")
                   ELSE IF ctl.phase \in {"SEALED", "COMPLETED"} THEN ctl
                   ELSE Transition(ctl, "SEALED")
  OBVIOUS
<1>5. IF d.raised THEN Continue(d, "last") ELSE ctl' = d /\ Leave("stopped")
  BY <1>4 DEF StopNow
<1>6. /\ d \in Controllers /\ d.stop = ctl.stop /\ d.final = ctl.final /\ d.satisfied = ctl.satisfied
      /\ d.auditOnly = ctl.auditOnly
      /\ d.raised => d.phase = ctl.phase
      /\ ~d.raised => d.phase \in {"SEALED", "COMPLETED"}
  BY <1>3, <1>4, TransitionKeeps, AllowedFromRunning
<1>7. StopsAgree(d)
  BY <1>3, <1>6 DEF StopsAgree
<1>8. Active' = {}
  BY <1>1 DEF Active
<1>9. CASE d.raised
  <2>1. ctl' = [d EXCEPT !.raised = FALSE, !.failed = TRUE] /\ pc' = "last" /\ cut' = [cut EXCEPT !.how = "error"]
    BY <1>5, <1>9 DEF Continue, Leave
  <2>2. /\ ctl' \in Controllers /\ ctl'.raised = FALSE /\ ctl'.failed = TRUE
    BY <1>6, <2>1 DEF Controllers
  <2>3. /\ ctl'.phase = d.phase /\ ctl'.stop = d.stop /\ ctl'.final = d.final /\ ctl'.satisfied = d.satisfied
        /\ ctl'.auditOnly = d.auditOnly
    BY <2>1
  <2>4. Settled(ctl')
    BY <1>7, <2>2, <2>3 DEF Settled, StopsAgree
  <2>5. ctl'.phase # "RUNNING" \/ ctl'.stop = "starved"
    BY <1>1, <1>3, <1>6, <2>3 DEF StopsAgree
  <2> QED
    BY <1>1, <1>2, <1>8, <2>1, <2>2, <2>4, <2>5, LoopFacts, Leaves DEF Ways
<1>10. CASE ~d.raised
  <2>1. ctl' = d /\ pc' = "last" /\ cut' = [cut EXCEPT !.how = "stopped"]
    BY <1>5, <1>10 DEF Leave
  <2>2. Settled(ctl')
    BY <1>6, <1>7, <1>10, <2>1 DEF Settled
  <2> QED
    BY <1>1, <1>2, <1>8, <2>1, <2>2, LoopFacts, Leaves DEF Ways
<1> QED
  BY <1>9, <1>10

LEMMA Started ==
  ASSUME LoopInv, NEW s \in Slots, job[s] = "none", job' = [job EXCEPT ![s] = "running"]
  PROVE  /\ job' \in JobStates /\ Active' # {} /\ batch \subseteq Active'
         /\ \A x \in Slots : x # s => job'[x] = job[x]
         /\ job'[s] = "running"
<1>1. /\ job' \in JobStates /\ \A x \in Slots : x # s => job'[x] = job[x]
      /\ job'[s] = "running"
  BY LoopFacts DEF JobStates
<1>2. s \in Active' /\ Active \subseteq Active'
  BY <1>1 DEF Active
<1> QED
  BY <1>1, <1>2, LoopFacts

LEMMA SlotsAre ==
  /\ "director" \in Slots /\ Kind("director") = "director"
  /\ \A s \in Research : s \in Slots /\ s # "director" /\ Kind(s) = "research"
  /\ \A s \in Audits : s \in Slots /\ s # "director" /\ Kind(s) = "audit"
  /\ \A s \in Slots : /\ Kind(s) \in {"director", "research", "audit"}
                      /\ Kind(s) = "director" <=> s = "director"
  BY EpochLoopAssumption DEF Slots, Kind

LEMMA LaunchDirectorKeeps ==
  ASSUME LoopInv, LaunchDirector
  PROVE  LoopInv'
<1>1. /\ pc = "director" /\ pc' = "audits" /\ UNCHANGED <<batch, spent, clock, cut>>
      /\ ctl.phase = "RUNNING" /\ ctl.stop = "none" /\ job["director"] = "none"
      /\ ctl' = [ctl EXCEPT !.needed = FALSE, !.seat = TRUE, !.behind = FALSE]
      /\ job' = [job EXCEPT !["director"] = "running"]
  BY DEF LaunchDirector, DirectorWanted, CanDispatch
<1>2. ctl' \in Controllers /\ ctl'.seat = TRUE
  BY <1>1, LoopFacts DEF Settled, Controllers
<1>3. /\ ctl'.phase = ctl.phase /\ ctl'.raised = ctl.raised /\ ctl'.stop = ctl.stop
      /\ ctl'.satisfied = ctl.satisfied /\ ctl'.auditOnly = ctl.auditOnly /\ ctl'.final = ctl.final
  BY <1>1
<1>4. Settled(ctl')
  BY <1>2, <1>3, LoopFacts DEF Settled, StopsAgree
<1>5. /\ job' \in JobStates /\ Active' # {} /\ batch = {} /\ job'["director"] = "running"
      /\ pc \in Looping /\ pc' \in Looping
  BY <1>1, SlotsAre, Started, TurnFacts DEF Turn, Looping
<1>6. StillRunning' /\ StaysAlive' /\ JobsMatch'
  BY <1>1, <1>2, <1>3, <1>4, <1>5 DEF StillRunning, StaysAlive, JobsMatch, Settled, Turn
<1> QED
  BY <1>1, <1>4, <1>5, <1>6, LoopFacts, Stays

(* A launch of research or of an audit takes its task from the queue. *)
LEMMA LaunchKeeps ==
  ASSUME LoopInv, pc \in Turn, UNCHANGED <<pc, batch, spent, clock, cut>>,
         NEW s \in Research \cup Audits, job[s] = "none", job' = [job EXCEPT ![s] = "running"],
         NEW n \in 0..MaxQueue, ctl' = [ctl EXCEPT !.research = n] \/ ctl' = [ctl EXCEPT !.audits = n]
  PROVE  LoopInv'
<1>1. Alike(ctl, ctl')
  <2>1. CASE ctl' = [ctl EXCEPT !.research = n]
    BY <2>1, LoopFacts DEF Alike, Settled, Controllers
  <2>2. CASE ctl' = [ctl EXCEPT !.audits = n]
    BY <2>2, LoopFacts DEF Alike, Settled, Controllers
  <2> QED
    BY <2>1, <2>2
<1>2. Settled(ctl') /\ ctl'.seat = ctl.seat /\ (ctl'.stop = "none" => ctl'.phase = "RUNNING")
  BY <1>1, LoopFacts, AlikeHandled, TurnFacts DEF Alike
<1>3. /\ job' \in JobStates /\ Active' # {} /\ batch = {} /\ job'["director"] = job["director"]
      /\ pc \in Looping /\ pc' \in Looping
  <2>1. s \in Slots /\ "director" \in Slots /\ s # "director"
    BY SlotsAre
  <2>2. /\ job' \in JobStates /\ Active' # {} /\ (\A x \in Slots : x # s => job'[x] = job[x])
    BY <2>1, Started
  <2> QED
    BY <2>1, <2>2, TurnFacts
<1>4. StillRunning' /\ StaysAlive'
  BY <1>2, <1>3 DEF StillRunning, StaysAlive, Settled, Turn
<1>5. JobsMatch'
  BY <1>2, <1>3 DEF LoopInv, JobsMatch
<1> QED
  BY <1>2, <1>3, <1>4, <1>5, LoopFacts, Stays

LEMMA LaunchResearchKeeps ==
  ASSUME LoopInv, NEW s \in Research, LaunchResearch(s)
  PROVE  LoopInv'
<1>1. PICK n \in 0..MaxQueue : n = ctl.research - 1
  BY LoopFacts, EpochLoopAssumption DEF LaunchResearch, MayResearch, Settled, Controllers
<1>2. /\ pc \in Turn /\ UNCHANGED <<pc, batch, spent, clock, cut>>
      /\ job[s] = "none" /\ job' = [job EXCEPT ![s] = "running"] /\ ctl' = [ctl EXCEPT !.research = n]
  BY <1>1 DEF LaunchResearch, FreeSlot, Turn
<1> QED
  BY <1>2, LaunchKeeps

LEMMA LaunchAuditKeeps ==
  ASSUME LoopInv, NEW s \in Audits, LaunchAudit(s)
  PROVE  LoopInv'
<1>1. PICK n \in 0..MaxQueue : n = ctl.audits - 1
  BY LoopFacts, EpochLoopAssumption DEF LaunchAudit, Settled, Controllers
<1>2. /\ pc \in Turn /\ UNCHANGED <<pc, batch, spent, clock, cut>>
      /\ job[s] = "none" /\ job' = [job EXCEPT ![s] = "running"] /\ ctl' = [ctl EXCEPT !.audits = n]
  BY <1>1 DEF LaunchAudit, FreeSlot, Turn
<1> QED
  BY <1>2, LaunchKeeps

LEMMA WorldKeeps ==
  ASSUME LoopInv, Deadline \/ RateLimited
  PROVE  LoopInv'
<1>1. /\ pc = "poll" /\ UNCHANGED <<pc, ctl, job, batch, spent, cut>> /\ clock' \in Clocks
  BY LoopFacts DEF Deadline, RateLimited, Clocks
<1>2. StillRunning' /\ StaysAlive' /\ JobsMatch' /\ Active' = Active
  BY <1>1 DEF LoopInv, StillRunning, StaysAlive, JobsMatch, Active
<1> QED
  BY <1>1, <1>2, LoopFacts, Stays DEF Looping

LEMMA ViolationKeeps ==
  ASSUME LoopInv, Violation
  PROVE  LoopInv'
<1>1. /\ pc = "poll" /\ UNCHANGED <<pc, job, batch, spent, clock, cut>> /\ Active # {}
      /\ ctl' = [ctl EXCEPT !.review = TRUE, !.failed = TRUE]
  BY DEF Violation
<1>2. ctl' \in Controllers
  BY <1>1, LoopFacts DEF Settled, Controllers
<1>3. /\ ctl'.phase = ctl.phase /\ ctl'.stop = ctl.stop /\ ctl'.raised = ctl.raised /\ ctl'.final = ctl.final
      /\ ctl'.satisfied = ctl.satisfied /\ ctl'.auditOnly = ctl.auditOnly /\ ctl'.seat = ctl.seat
  BY <1>1
<1>4. Settled(ctl')
  BY <1>2, <1>3, LoopFacts DEF Settled, StopsAgree
<1>5. batch = {} /\ (ctl.stop = "none" => ctl.phase = "RUNNING" \/ (ctl.phase = "DRAINING_BUDGET" /\ spent >= Budget))
  BY <1>1 DEF LoopInv, StillRunning, JobsMatch, Looping
<1> QED
  BY <1>1, <1>3, <1>4, <1>5, Moves DEF Looping, Turn

(* A finished job was running, so it cannot be one of a stop that waited. *)
LEMMA JobEndsKeeps ==
  ASSUME LoopInv, NEW s \in Slots, JobEnds(s)
  PROVE  LoopInv'
<1>1. /\ pc \in {"poll", "last"} /\ job[s] = "running" /\ job' = [job EXCEPT ![s] = "done"]
      /\ UNCHANGED <<pc, ctl, batch, spent, clock, cut>>
  BY DEF JobEnds
<1>2. /\ job' \in JobStates /\ job'[s] = "done" /\ \A x \in Slots : x # s => job'[x] = job[x]
  BY <1>1, LoopFacts DEF JobStates
<1>3. Active' = Active /\ s \in Active
  BY <1>1, <1>2 DEF Active
<1>4. "director" \in Slots
  BY SlotsAre
<1>5. JobsMatch'
  BY <1>1, <1>2, <1>4 DEF LoopInv, JobsMatch
<1>6. StillRunning' /\ StaysAlive'
  BY <1>1, <1>3 DEF LoopInv, StillRunning, StaysAlive
<1>7. CASE pc = "poll"
  <2>1. pc \in Looping /\ pc' \in Looping
    BY <1>1, <1>7 DEF Looping
  <2> QED
    BY <1>1, <1>2, <1>3, <1>5, <1>6, <2>1, LoopFacts, Stays
<1>8. CASE pc = "last"
  <2>1. LoopTypes'
    BY <1>1, <1>2, <1>3, LoopFacts DEF LoopInv, LoopTypes, LoopTypeOK, JobStates
  <2>2. WasLeft'
    BY <1>1, <1>3 DEF LoopInv, WasLeft
  <2>3. CutOnlyWhen' /\ RaisesOnlyInDrain' /\ IdleOnlyWhen' /\ CompletedIsClean'
    BY <1>1 DEF LoopInv, CutOnlyWhen, RaisesOnlyInDrain, IdleOnlyWhen, CompletedIsClean
  <2> QED
    BY <1>5, <1>6, <2>1, <2>2, <2>3 DEF LoopInv
<1> QED
  BY <1>1, <1>7, <1>8

LEMMA CancelStaleKeeps ==
  ASSUME LoopInv, NEW s \in Slots, NEW answer \in {"done", "no", "raises"}, CancelStale(s, answer)
  PROVE  LoopInv'
<1>1. /\ pc = "collect" /\ batch = {} /\ job[s] = "running" /\ pc' = "stop"
      /\ UNCHANGED <<batch, spent, clock>>
      /\ ctl' = ctl \/ ctl' = [ctl EXCEPT !.review = TRUE]
      /\ job' = IF answer = "done" THEN [job EXCEPT ![s] = "cancelled"] ELSE job
      /\ cut' = [cut EXCEPT !.orphan = @ \/ (answer = "done" /\ s = "director")]
  BY DEF CancelStale, BackendCancel
<1>2. Alike(ctl, ctl') /\ ctl'.research = ctl.research /\ ctl'.audits = ctl.audits
      /\ ctl'.batched = ctl.batched /\ ctl'.wave = ctl.wave /\ ctl'.needed = ctl.needed
  <2>1. CASE ctl' = ctl
    BY <2>1, LoopFacts DEF Alike, Settled
  <2>2. CASE ctl' = [ctl EXCEPT !.review = TRUE]
    BY <2>2, LoopFacts DEF Alike, Settled, Controllers
  <2> QED
    BY <1>1, <2>1, <2>2
<1>3. Settled(ctl')
  BY <1>2, LoopFacts, AlikeHandled
<1>4. /\ job' \in JobStates /\ \A x \in Slots : x # s => job'[x] = job[x]
      /\ job'[s] = (IF answer = "done" THEN "cancelled" ELSE "running")
  BY <1>1, LoopFacts DEF JobStates
<1>5. Active' = Active
  BY <1>1, <1>4 DEF Active
<1>6. PICK b \in BOOLEAN : b <=> (cut.orphan \/ (answer = "done" /\ s = "director"))
  OBVIOUS
<1>7. /\ cut' \in Cuts /\ cut'.how = cut.how /\ cut'.live = cut.live /\ cut'.status = cut.status
      /\ cut'.orphan <=> (cut.orphan \/ (answer = "done" /\ s = "director"))
  BY <1>1, LoopFacts DEF Cuts
<1>8. StillRunning'
  BY <1>1, <1>2, <1>3 DEF LoopInv, StillRunning, Alike, Settled, Looping, Turn
<1>9. StaysAlive'
  BY <1>1, <1>2, <1>5, <1>7 DEF LoopInv, StaysAlive, Alive, PlanWanted, Alike, Turn
<1>10. JobsMatch'
  <2>1. "director" \in Slots
    BY SlotsAre
  <2>2. /\ ~cut'.orphan => (ctl'.seat <=> job'["director"] # "none")
        /\ job'["director"] = "cancelled" => cut'.orphan
    BY <1>1, <1>2, <1>4, <1>7, <2>1 DEF LoopInv, JobsMatch, Alike, Looping
  <2> QED
    BY <1>1, <2>2 DEF JobsMatch
<1> QED
  BY <1>1, <1>3, <1>4, <1>5, <1>7, <1>8, <1>9, <1>10, LoopFacts, Stays DEF Looping

LEMMA CandidateKeeps ==
  ASSUME LoopInv, NEW low \in BOOLEAN, Candidate(low)
  PROVE  LoopInv'
<1> DEFINE last == ctl.policy /\ ctl.cands + 1 >= CandidateLimit
<1>1. pc = "poll" /\ UNCHANGED <<pc, batch, spent, clock, cut>>
  BY DEF Candidate
<1>2. PICK n \in Nat : n = ctl.cands + 1
  BY LoopFacts DEF Settled, Controllers
<1>3. PICK d : d = [ctl EXCEPT !.cands = n]
  OBVIOUS
<1>4. PICK e : e = IF ~last THEN Request(d, TRUE)
                   ELSE IF d.auditOnly THEN d
                   ELSE [d EXCEPT !.auditOnly = TRUE, !.needed = FALSE, !.wave = FALSE,
                                  !.research = 0, !.deferred = 0]
  OBVIOUS
<1>5. ctl' = IF low THEN [e EXCEPT !.batched = TRUE] ELSE [e EXCEPT !.audits = Grow(@, 1)]
  BY <1>2, <1>3, <1>4 DEF Candidate
<1>6. \/ job' = job
      \/ job' = [s \in Slots |-> IF s \in Research /\ job[s] = "running" THEN "cancelled" ELSE job[s]]
  BY DEF Candidate
<1>7. Alike(ctl, d)
  BY <1>2, <1>3, LoopFacts DEF Alike, Settled, Controllers
<1>8. Settled(d) /\ Handled(ctl, d)
  BY <1>7, LoopFacts, AlikeHandled
<1> HIDE DEF last
<1>9. Handled(d, e) /\ Settled(e) /\ PlanWanted(e)
  <2>1. CASE ~last
    BY <1>4, <1>8, <2>1, RequestHandled
  <2>2. CASE last /\ d.auditOnly
    BY <1>4, <1>8, <2>2, SameHandled DEF PlanWanted
  <2>3. CASE last /\ ~d.auditOnly
    <3>1. PICK f : f = [d EXCEPT !.auditOnly = TRUE, !.needed = FALSE, !.wave = FALSE]
      OBVIOUS
    <3>2. f \in Controllers /\ f.auditOnly = TRUE
      BY <1>8, <3>1 DEF Settled, Controllers
    <3>3. /\ f.phase = d.phase /\ f.stop = d.stop /\ f.raised = d.raised /\ f.failed = d.failed
          /\ f.isolated = d.isolated /\ f.final = d.final /\ f.satisfied = d.satisfied /\ f.seat = d.seat
      BY <3>1
    <3>4. 0 \in 0..MaxQueue /\ 0 \in 0..1
      BY EpochLoopAssumption
    <3>5. e = [f EXCEPT !.research = 0, !.deferred = 0]
      BY <1>4, <2>3, <3>1
    <3>6. e \in Controllers
      BY <3>2, <3>4, <3>5 DEF Controllers
    <3>7. /\ e.phase = d.phase /\ e.stop = d.stop /\ e.raised = d.raised /\ e.failed = d.failed
          /\ e.isolated = d.isolated /\ e.final = d.final /\ e.satisfied = d.satisfied /\ e.seat = d.seat
          /\ e.auditOnly = TRUE
      BY <3>2, <3>3, <3>5
    <3> QED
      BY <1>8, <3>6, <3>7 DEF Handled, Settled, StopsAgree, PlanWanted
  <2> QED
    BY <2>1, <2>2, <2>3
<1>10. Handled(e, ctl') /\ Settled(ctl')
  <2>1. CASE low
    <3>1. ctl' = [e EXCEPT !.batched = TRUE]
      BY <1>5, <2>1
    <3>2. Alike(e, ctl')
      BY <1>9, <3>1 DEF Alike, Settled, Controllers
    <3> QED
      BY <1>9, <3>2, AlikeHandled
  <2>2. CASE ~low
    BY <1>5, <1>9, <2>2, RequeueHandled
  <2> QED
    BY <2>1, <2>2
<1>11. Handled(ctl, e)
  BY <1>8, <1>9, HandledTrans DEF Settled
<1>12. Handled(ctl, ctl') /\ PlanWanted(ctl')
  BY <1>9, <1>10, <1>11, HandledTrans DEF Settled, Handled
<1>13. /\ job' \in JobStates /\ job'["director"] = job["director"] /\ Active' = Active
  <2>1. CASE job' = job
    BY <2>1, LoopFacts DEF Active
  <2>2. CASE job' = [s \in Slots |-> IF s \in Research /\ job[s] = "running" THEN "cancelled" ELSE job[s]]
    BY <2>2, LoopFacts, SlotsAre DEF Active, JobStates
  <2> QED
    BY <1>6, <2>1, <2>2
<1>14. StillRunning' /\ StaysAlive'
  BY <1>1, <1>10, <1>12 DEF LoopInv, StillRunning, StaysAlive, Alive, Handled, Settled, Looping, Turn
<1>15. JobsMatch'
  BY <1>1, <1>12, <1>13 DEF LoopInv, JobsMatch, Handled
<1>16. pc \in Looping /\ pc' \in Looping
  BY <1>1 DEF Looping
<1> QED
  BY <1>1, <1>10, <1>13, <1>14, <1>15, <1>16, LoopFacts, Stays

LEMMA GatherHandled ==
  ASSUME NEW d, Settled(d), NEW done
  PROVE  /\ Handled(d, Gather(d, done)) /\ Settled(Gather(d, done))
         /\ done \ {"director"} # {} => PlanWanted(Gather(d, done))
         /\ done \ {"director"} = {} => Gather(d, done) = d
  BY RequestHandled, SameHandled DEF Gather

LEMMA CollectKeeps ==
  ASSUME LoopInv, Collect
  PROVE  LoopInv'
<1>1. /\ pc = "poll" /\ pc' = "collect" /\ UNCHANGED <<job, spent, clock, cut>>
      /\ batch' = {s \in Slots : job[s] \in {"done", "cancelled"}} /\ ctl' = Gather(ctl, batch')
  BY DEF Collect
<1>2. /\ Handled(ctl, ctl') /\ Settled(ctl')
      /\ batch' \ {"director"} # {} => PlanWanted(ctl')
      /\ batch' \ {"director"} = {} => ctl' = ctl
  BY <1>1, LoopFacts, GatherHandled
<1>3. Active' = Active /\ batch' \subseteq Active'
  BY <1>1 DEF Active
<1>4. StillRunning'
  BY <1>1, <1>2 DEF LoopInv, StillRunning, Handled, Settled, Looping, Turn
<1>5. StaysAlive'
  BY <1>1, <1>2, <1>3 DEF LoopInv, StaysAlive, Alive, Turn
<1>6. JobsMatch'
  BY <1>1, <1>2 DEF LoopInv, JobsMatch, Handled, Looping
<1> QED
  BY <1>1, <1>2, <1>3, <1>4, <1>5, <1>6, LoopFacts, Stays DEF Looping

LEMMA CollectedKeeps ==
  ASSUME LoopInv, Collected \/ LoopDone
  PROVE  LoopInv'
<1>1. CASE Collected
  <2>1. pc = "final" /\ pc' = "close" /\ batch = {} /\ UNCHANGED <<ctl, job, batch, spent, clock, cut>>
    BY <1>1 DEF Collected
  <2>2. Active' = Active
    BY <2>1 DEF Active
  <2> QED
    BY <2>1, <2>2 DEF LoopInv, LoopTypes, LoopTypeOK, StillRunning, StaysAlive, JobsMatch, WasLeft, CutOnlyWhen,
      RaisesOnlyInDrain, IdleOnlyWhen, CompletedIsClean, Looping, Turn, Leaving
<1>2. CASE LoopDone
  <2>1. UNCHANGED loopvars
    BY <1>2 DEF LoopDone
  <2>2. Active' = Active
    BY <2>1 DEF Active, loopvars
  <2> QED
    BY <2>1, <2>2 DEF loopvars, LoopInv, LoopTypes, LoopTypeOK, StillRunning, StaysAlive, JobsMatch, WasLeft, CutOnlyWhen,
      RaisesOnlyInDrain, IdleOnlyWhen, CompletedIsClean
<1> QED
  BY <1>1, <1>2

(* The handler of a terminal future starts from the controller as it is,   *)
(* but for the error count and the seat of a Director that has answered.   *)
CollectFrom(d, s) ==
  /\ d.phase = ctl.phase /\ d.stop = ctl.stop /\ d.failed = ctl.failed /\ d.isolated = ctl.isolated
  /\ d.auditOnly = ctl.auditOnly /\ d.needed = ctl.needed /\ (PlanWanted(ctl) <=> PlanWanted(d))
  /\ s = "director" /\ job[s] # "cancelled" => d.seat = FALSE
  /\ s # "director" \/ job[s] = "cancelled" => d.seat = ctl.seat

CollectResult(s, o) ==
  LET d == [ctl EXCEPT !.errors = IF o = "fatal" THEN @ + 1 ELSE 0]
  IN  IF job[s] = "cancelled" THEN d ELSE Accept(d, Active \ {s}, Kind(s), o)

LEMMA CollectHandled ==
  ASSUME LoopInv, NEW s \in batch, NEW a \in AnyResult(s)
  PROVE  /\ \E d : CollectFrom(d, s) /\ Handled(d, CollectResult(s, a[1]))
         /\ s = "director" /\ job[s] # "cancelled" /\ ~CollectResult(s, a[1]).raised
              => GoesOn(CollectResult(s, a[1]), Active \ {s})
         /\ a[2] \in Nat
<1>1. PICK o : o = a[1]
  OBVIOUS
<1>2. s \in Slots /\ Kind(s) \in {"director", "research", "audit"} /\ (Kind(s) = "director" <=> s = "director")
  <2>1. s \in Slots
    BY LoopFacts DEF Active
  <2> QED
    BY <2>1, SlotsAre
<1>3. /\ a[2] \in Nat
      /\ job[s] # "cancelled" => o \in Outcomes(Kind(s)) /\ (o = "priorities" => ctl.audits > 0)
  <2>1. CASE job[s] = "cancelled"
    BY <2>1 DEF AnyResult
  <2>2. CASE job[s] # "cancelled"
    <3>1. MaxUse[Kind(s)] \in Nat
      BY <1>2, EpochLoopAssumption
    <3>2. PICK x \in Outcomes(Kind(s)), y \in 1..MaxUse[Kind(s)] :
            a = <<x, y>> /\ (x = "priorities" => ctl.audits > 0)
      BY <2>2 DEF AnyResult
    <3> QED
      BY <1>1, <3>1, <3>2
  <2> QED
    BY <2>1, <2>2
<1>4. PICK n \in Nat : n = (IF o = "fatal" THEN ctl.errors + 1 ELSE 0)
  BY LoopFacts DEF Settled, Controllers
<1>5. PICK d : d = [ctl EXCEPT !.errors = n]
  OBVIOUS
<1>6. Alike(ctl, d) /\ d.audits = ctl.audits /\ d.needed = ctl.needed
  BY <1>5, LoopFacts DEF Alike, Settled, Controllers
<1>7. Settled(d) /\ (PlanWanted(ctl) <=> PlanWanted(d))
  BY <1>6, LoopFacts, AlikeHandled DEF PlanWanted, Alike
<1>8. CollectResult(s, o) = IF job[s] = "cancelled" THEN d ELSE Accept(d, Active \ {s}, Kind(s), o)
  BY <1>4, <1>5 DEF CollectResult
<1>9. CASE job[s] = "cancelled"
  <2>1. CollectFrom(d, s)
    BY <1>6, <1>7, <1>9 DEF CollectFrom, Alike
  <2>2. Handled(d, d)
    BY <1>7, SameHandled
  <2> QED
    BY <1>1, <1>3, <1>8, <1>9, <2>1, <2>2
<1>10. CASE job[s] # "cancelled" /\ s # "director"
  <2>1. CollectFrom(d, s)
    BY <1>6, <1>7, <1>10 DEF CollectFrom, Alike
  <2>2. Handled(d, Accept(d, Active \ {s}, Kind(s), o))
    BY <1>2, <1>3, <1>6, <1>7, <1>10, AcceptHandled
  <2> QED
    BY <1>1, <1>3, <1>8, <1>10, <2>1, <2>2
<1>11. CASE job[s] # "cancelled" /\ s = "director"
  <2>1. PICK e : e = [d EXCEPT !.seat = FALSE]
    OBVIOUS
  <2>2. e.seat = FALSE
    BY <1>7, <2>1 DEF Settled, Controllers
  <2>3. /\ e.phase = d.phase /\ e.stop = d.stop /\ e.failed = d.failed /\ e.isolated = d.isolated
        /\ e.auditOnly = d.auditOnly /\ e.needed = d.needed
    BY <2>1
  <2>4. CollectFrom(e, s)
    BY <1>6, <1>7, <1>11, <2>2, <2>3 DEF CollectFrom, Alike, PlanWanted
  <2>5. /\ Handled(e, Accept(d, Active \ {s}, Kind(s), o))
        /\ ~Accept(d, Active \ {s}, Kind(s), o).raised => GoesOn(Accept(d, Active \ {s}, Kind(s), o), Active \ {s})
    BY <1>2, <1>3, <1>6, <1>7, <1>11, <2>1, AcceptHandled
  <2> QED
    BY <1>1, <1>3, <1>8, <1>11, <2>4, <2>5
<1> QED
  BY <1>9, <1>10, <1>11

LEMMA CollectOneKeeps ==
  ASSUME LoopInv, NEW s \in batch, NEW a \in AnyResult(s), CollectOne(s, a[1], a[2])
  PROVE  LoopInv'
<1>1. PICK r : r = CollectResult(s, a[1])
  OBVIOUS
<1>2. PICK d : CollectFrom(d, s) /\ Handled(d, r)
  BY <1>1, CollectHandled
<1>3. s = "director" /\ job[s] # "cancelled" /\ ~r.raised => GoesOn(r, Active \ {s})
  BY <1>1, CollectHandled
<1>4. /\ pc \in {"collect", "final"}
      /\ batch' = IF r.raised THEN {} ELSE batch \ {s}
      /\ job' = [job EXCEPT ![s] = "none"] /\ UNCHANGED clock
      /\ IF pc = "collect" THEN Continue(r, "collect")
         ELSE /\ ctl' = [r EXCEPT !.raised = FALSE, !.failed = @ \/ r.raised]
              /\ pc' = "final" /\ UNCHANGED cut
  BY <1>1 DEF CollectOne, CollectResult
<1>5. spent' \in Nat /\ spent' >= spent
  <2>1. a[2] \in Nat /\ spent \in Nat
    BY CollectHandled, LoopFacts
  <2>2. spent' = spent + 0 \/ spent' = spent + a[2]
    BY DEF CollectOne, Record
  <2> QED
    BY <2>1, <2>2
<1>6. s \in Slots /\ job[s] \in {"done", "cancelled"} /\ s \in Active
  BY LoopFacts DEF LoopInv, JobsMatch, Active
<1>7. /\ job' \in JobStates /\ job'[s] = "none" /\ \A x \in Slots : x # s => job'[x] = job[x]
      /\ Active' = Active \ {s}
  <2>1. /\ job' \in JobStates /\ job'[s] = "none" /\ \A x \in Slots : x # s => job'[x] = job[x]
    BY <1>4, <1>6, LoopFacts DEF JobStates
  <2> QED
    BY <2>1 DEF Active
<1>8. /\ batch' \subseteq Active' /\ batch' \subseteq batch \ {s}
      /\ \A x \in batch' : job'[x] \in {"done", "cancelled"}
      /\ job'["director"] = "cancelled" => cut.orphan
  <2>1. batch' \subseteq batch \ {s} /\ batch \subseteq Active /\ Active \subseteq Slots /\ "director" \in Slots
    BY <1>4, LoopFacts, SlotsAre DEF Active
  <2>2. \A x \in batch : job[x] \in {"done", "cancelled"}
    BY DEF LoopInv, JobsMatch
  <2>3. job["director"] = "cancelled" => cut.orphan
    BY DEF LoopInv, JobsMatch
  <2>4. job'["director"] = "cancelled" => job["director"] = "cancelled"
    BY <1>7, <2>1
  <2> QED
    BY <1>7, <2>1, <2>2, <2>3, <2>4
<1>9. CASE pc = "collect" /\ r.raised
  <2>1. ctl' = [r EXCEPT !.raised = FALSE, !.failed = TRUE] /\ pc' = "last" /\ cut' = [cut EXCEPT !.how = "error"]
    BY <1>4, <1>9 DEF Continue, Leave
  <2>2. /\ ctl' \in Controllers /\ ctl'.raised = FALSE /\ ctl'.failed = TRUE
    BY <1>2, <2>1 DEF Handled, Controllers
  <2>3. /\ ctl'.phase = r.phase /\ ctl'.stop = r.stop /\ ctl'.final = r.final /\ ctl'.satisfied = r.satisfied
        /\ ctl'.auditOnly = r.auditOnly
    BY <2>1
  <2>4. Settled(ctl') /\ ctl'.phase # "RUNNING"
    BY <1>2, <1>9, <2>2, <2>3 DEF Handled, Settled, StopsAgree
  <2>5. batch' = {} /\ pc \in Looping /\ clock' \in Clocks
    BY <1>4, <1>9, LoopFacts DEF Looping
  <2> QED
    BY <1>5, <1>7, <1>8, <2>1, <2>2, <2>4, <2>5, Leaves DEF Ways
<1>10. CASE pc = "collect" /\ ~r.raised
  <2>1. ctl' = r /\ pc' = "collect" /\ UNCHANGED <<cut, clock>>
    BY <1>4, <1>10 DEF Continue
  <2>2. Settled(ctl')
    BY <1>2, <1>10, <2>1, HandledSettles
  <2>3. StillRunning'
    <3>1. ctl'.stop = "none" => ctl.stop = "none" /\ ctl'.phase = ctl.phase
      BY <1>2, <1>10, <2>1 DEF CollectFrom, Handled
    <3>2. ctl.stop = "none" => ctl.phase = "RUNNING" \/ (ctl.phase = "DRAINING_BUDGET" /\ spent >= Budget)
      BY <1>10 DEF LoopInv, StillRunning, Looping
    <3>3. spent >= Budget => spent' >= Budget
      BY <1>5, LoopFacts, EpochLoopAssumption
    <3> QED
      BY <2>1, <2>2, <3>1, <3>2, <3>3 DEF StillRunning, Settled, Turn
  <2>4. StaysAlive'
    <3>1. PlanWanted(ctl) => PlanWanted(ctl')
      BY <1>2, <1>10, <2>1 DEF CollectFrom, Handled
    <3>2. batch' \ {"director"} # {} => PlanWanted(ctl')
      BY <1>8, <1>10, <3>1 DEF LoopInv, StaysAlive
    <3>3. CASE s # "director"
      <4>1. PlanWanted(ctl)
        BY <1>10, <3>3 DEF LoopInv, StaysAlive
      <4> QED
        BY <2>1, <3>1, <3>2, <4>1 DEF StaysAlive, Alive, Turn
    <3>4. CASE s = "director" /\ job[s] = "cancelled"
      <4>1. cut'.orphan
        BY <2>1, <3>4 DEF LoopInv, JobsMatch
      <4> QED
        BY <2>1, <3>2, <4>1 DEF StaysAlive, Turn
    <3>5. CASE s = "director" /\ job[s] # "cancelled"
      <4>1. Alive(ctl') \/ ctl'.wave \/ Active' # {}
        BY <1>3, <1>7, <1>10, <2>1, <3>5 DEF GoesOn
      <4> QED
        BY <2>1, <3>2, <4>1 DEF StaysAlive, Turn
    <3> QED
      BY <3>3, <3>4, <3>5
  <2>5. JobsMatch'
    <3>1. "director" \in Slots
      BY SlotsAre
    <3>2. ~cut'.orphan => (ctl'.seat <=> job'["director"] # "none")
      <4>1. ctl'.seat = d.seat
        BY <1>2, <2>1 DEF Handled
      <4>2. CASE s = "director" /\ job[s] # "cancelled"
        BY <1>2, <1>7, <4>1, <4>2 DEF CollectFrom
      <4>3. CASE s = "director" /\ job[s] = "cancelled"
        BY <2>1, <4>3 DEF LoopInv, JobsMatch
      <4>4. CASE s # "director"
        <5>1. ctl'.seat = ctl.seat /\ job'["director"] = job["director"]
          BY <1>2, <1>7, <3>1, <4>1, <4>4 DEF CollectFrom
        <5> QED
          BY <1>10, <2>1, <5>1 DEF LoopInv, JobsMatch, Looping
      <4> QED
        BY <4>2, <4>3, <4>4
    <3> QED
      BY <1>8, <2>1, <3>2 DEF JobsMatch
  <2>6. pc \in Looping /\ pc' \in Looping
    BY <1>10, <2>1 DEF Looping
  <2> QED
    BY <1>5, <1>7, <1>8, <2>1, <2>2, <2>3, <2>4, <2>5, <2>6, LoopFacts, Stays
<1>11. CASE pc = "final"
  <2>1. ctl' = [r EXCEPT !.raised = FALSE, !.failed = @ \/ r.raised] /\ pc' = "final" /\ UNCHANGED <<cut, clock>>
    BY <1>4, <1>11
  <2>2. PICK b \in BOOLEAN : (b <=> (r.failed \/ r.raised)) /\ b = (r.failed \/ r.raised)
    BY Zenon
  <2>3. ctl' = [r EXCEPT !.raised = FALSE, !.failed = b]
    BY <2>1, <2>2
  <2>4. ctl' \in Controllers /\ ctl'.raised = FALSE /\ (r.failed => ctl'.failed)
    BY <1>2, <2>2, <2>3 DEF Handled, Controllers
  <2>5. /\ ctl'.phase = r.phase /\ ctl'.stop = r.stop /\ ctl'.final = r.final /\ ctl'.satisfied = r.satisfied
        /\ ctl'.auditOnly = r.auditOnly
    BY <2>3
  <2>6. StopsAgree(ctl')
    BY <1>2, <2>5 DEF Handled, StopsAgree
  <2>7. LoopTypes'
    <3>1. LoopTypeOK'
      BY <1>7, <1>8, <2>1, <2>4 DEF LoopInv, LoopTypes, LoopTypeOK, JobStates, Controllers
    <3> QED
      BY <1>5, <2>1, <2>4, <3>1 DEF LoopInv, LoopTypes, Leaving
  <2>8. StillRunning' /\ StaysAlive'
    BY <2>1, <2>6 DEF StillRunning, StaysAlive, Looping, Turn
  <2>9. JobsMatch'
    BY <1>8, <2>1 DEF JobsMatch, Looping, Turn
  <2>10. WasLeft'
    <3>1. /\ cut.how = "error" => ctl.failed
          /\ cut.how \notin {"stopped", "idle", "no"} /\ cut.status = "none" /\ cut.live = {}
      BY <1>6, <1>11 DEF LoopInv, WasLeft, Looping, Turn, Leaving
    <3>2. ctl.failed => ctl'.failed
      BY <1>2, <2>4 DEF CollectFrom, Handled
    <3> QED
      BY <2>1, <3>1, <3>2 DEF WasLeft, Looping, Turn, Leaving
  <2>11. CutOnlyWhen' /\ RaisesOnlyInDrain' /\ IdleOnlyWhen' /\ CompletedIsClean'
    <3>1. cut.how # "idle" /\ cut.status = "none" /\ cut.live = {}
      BY <1>6, <1>11 DEF LoopInv, WasLeft, Leaving
    <3> QED
      BY <2>1, <3>1 DEF CutOnlyWhen, RaisesOnlyInDrain, IdleOnlyWhen, CompletedIsClean
  <2> QED
    BY <2>7, <2>8, <2>9, <2>10, <2>11 DEF LoopInv
<1> QED
  BY <1>4, <1>9, <1>10, <1>11

LEMMA LastCollectionKeeps ==
  ASSUME LoopInv, LastCollection
  PROVE  LoopInv'
<1>1. /\ pc = "last" /\ pc' = "final" /\ UNCHANGED <<job, spent, clock, cut>>
      /\ batch' = {s \in Slots : job[s] \in {"done", "cancelled"}} /\ ctl' = Gather(ctl, batch')
  BY DEF LastCollection
<1>2. Handled(ctl, ctl') /\ Settled(ctl') /\ (batch' \ {"director"} = {} => ctl' = ctl)
  BY <1>1, LoopFacts, GatherHandled
<1>3. Active' = Active /\ batch' \subseteq Active'
  BY <1>1 DEF Active
<1>4. LoopTypes'
  BY <1>1, <1>2, <1>3 DEF LoopInv, LoopTypes, LoopTypeOK, Settled, Controllers, Leaving
<1>5. StillRunning' /\ StaysAlive' /\ JobsMatch'
  BY <1>1, <1>2 DEF LoopInv, StillRunning, StaysAlive, JobsMatch, Looping, Turn, Settled
<1>6. WasLeft'
  BY <1>1, <1>2, <1>3 DEF LoopInv, WasLeft, Looping, Turn, Leaving, Handled
<1>7. CutOnlyWhen' /\ RaisesOnlyInDrain' /\ IdleOnlyWhen' /\ CompletedIsClean'
  BY <1>1, <1>2 DEF LoopInv, WasLeft, CutOnlyWhen, RaisesOnlyInDrain, IdleOnlyWhen, CompletedIsClean, Handled
<1> QED
  BY <1>4, <1>5, <1>6, <1>7 DEF LoopInv

LEMMA CancelActiveKeeps ==
  ASSUME LoopInv, CancelActive
  PROVE  LoopInv'
<1>1. /\ pc = "close" /\ pc' = "finish" /\ UNCHANGED <<batch, spent, clock>>
      /\ cut' = [cut EXCEPT !.live = {s \in Slots : job[s] = "running"}]
      /\ job' = [s \in Slots |-> "none"]
  BY DEF CancelActive
<1>2. PICK n \in 0..MaxQueue : ctl' = [ctl EXCEPT !.research = n]
  <2>1. Cardinality(Active \cap Research) \in Nat
    <3>1. IsFiniteSet(Active \cap Research)
      BY EpochLoopAssumption, FS_Subset
    <3> QED
      BY <3>1, FS_CardinalityType
  <2>2. PICK k \in Nat : k = (IF ctl.final THEN 0 ELSE Cardinality(Active \cap Research))
    BY <2>1
  <2>3. Grow(ctl.research, k) \in 0..MaxQueue
    BY LoopFacts, GrowType DEF Settled, Controllers
  <2>4. ctl' = [ctl EXCEPT !.research = Grow(ctl.research, k)]
    BY <2>2 DEF CancelActive
  <2> QED
    BY <2>3, <2>4
<1>3. ctl' \in Controllers
  BY <1>2, LoopFacts DEF Settled, Controllers
<1>4. /\ ctl'.phase = ctl.phase /\ ctl'.stop = ctl.stop /\ ctl'.raised = ctl.raised /\ ctl'.failed = ctl.failed
      /\ ctl'.final = ctl.final /\ ctl'.satisfied = ctl.satisfied /\ ctl'.auditOnly = ctl.auditOnly
  BY <1>2
<1>5. /\ cut' \in Cuts /\ cut'.how = cut.how /\ cut'.orphan = cut.orphan /\ cut'.status = cut.status
      /\ cut'.live = {s \in Slots : job[s] = "running"}
  BY <1>1, LoopFacts DEF Cuts
<1>6. /\ job' \in JobStates /\ Active' = {} /\ job'["director"] = "none" /\ batch = {}
  BY <1>1, SlotsAre DEF JobStates, Active, LoopInv, JobsMatch
<1>7. LoopTypes'
  BY <1>1, <1>3, <1>4, <1>5, <1>6, LoopFacts DEF LoopTypes, LoopTypeOK, JobStates, Controllers, Leaving, Cuts, Settled
<1>8. StillRunning' /\ StaysAlive' /\ JobsMatch'
  BY <1>1, <1>4, <1>6, LoopFacts DEF StillRunning, StaysAlive, JobsMatch, Looping, Turn, Settled, StopsAgree
<1>9. /\ cut.how # "no" /\ cut.status = "none" /\ (cut.how \in {"stopped", "idle"} => Active = {})
      /\ cut.how = "error" => ctl.failed
  BY <1>1 DEF LoopInv, WasLeft, Looping, Turn, Leaving
<1>10. WasLeft'
  BY <1>1, <1>4, <1>5, <1>6, <1>9 DEF WasLeft, Looping, Turn
<1>11. CutOnlyWhen'
  <2>1. cut'.live # {} => Active # {}
    BY <1>5 DEF Active
  <2> QED
    BY <1>5, <1>9, <2>1, LoopFacts DEF CutOnlyWhen, Cuts, Ways
<1>12. RaisesOnlyInDrain' /\ IdleOnlyWhen' /\ CompletedIsClean'
  BY <1>1, <1>4, <1>5, <1>9 DEF LoopInv, RaisesOnlyInDrain, IdleOnlyWhen, CompletedIsClean
<1> QED
  BY <1>7, <1>8, <1>10, <1>11, <1>12 DEF LoopInv

LEMMA FinishKeeps ==
  ASSUME LoopInv, Finish
  PROVE  LoopInv'
<1>1. PICK p : p = FinalPhase(ctl)
  OBVIOUS
<1>2. p \in Phases \ {"RUNNING"}
  BY <1>1, LoopFacts, AllowedFromRunning DEF FinalPhase, Settled, StopsAgree, Controllers
<1>3. /\ pc = "finish" /\ pc' = "done" /\ UNCHANGED <<job, batch, spent, clock>>
      /\ ctl' = [ctl EXCEPT !.phase = p]
  BY <1>1 DEF Finish
<1>4. PICK r \in {"COMPLETED", "STOPPED", "PAUSED"} :
        /\ cut' = [cut EXCEPT !.status = r]
        /\ r = "COMPLETED" => ~ctl.failed /\ p = "COMPLETED"
  BY <1>1 DEF Finish
<1>5. ctl' \in Controllers /\ ctl'.phase = p
  BY <1>2, <1>3, LoopFacts DEF Settled, Controllers
<1>6. /\ ctl'.stop = ctl.stop /\ ctl'.raised = ctl.raised /\ ctl'.failed = ctl.failed
      /\ ctl'.final = ctl.final /\ ctl'.satisfied = ctl.satisfied /\ ctl'.auditOnly = ctl.auditOnly
  BY <1>3
<1>7. /\ cut' \in Cuts /\ cut'.how = cut.how /\ cut'.orphan = cut.orphan /\ cut'.status = r
      /\ cut'.live = cut.live
  BY <1>4, LoopFacts DEF Cuts
<1>8. Active' = Active
  BY <1>3 DEF Active
<1>9. LoopTypes'
  BY <1>3, <1>5, <1>6, <1>7, <1>8, LoopFacts DEF LoopTypes, LoopTypeOK, JobStates, Controllers, Leaving, Cuts, Settled
<1>10. StillRunning' /\ StaysAlive' /\ JobsMatch'
  BY <1>2, <1>3, <1>5, <1>6, <1>7, LoopFacts DEF LoopInv, StillRunning, StaysAlive, JobsMatch, Looping, Turn, Settled, StopsAgree
<1>11. WasLeft'
  BY <1>3, <1>6, <1>7, <1>8 DEF LoopInv, WasLeft, Looping, Turn, Leaving
<1>12. CutOnlyWhen' /\ RaisesOnlyInDrain' /\ IdleOnlyWhen'
  BY <1>3, <1>6, <1>7 DEF LoopInv, CutOnlyWhen, RaisesOnlyInDrain, IdleOnlyWhen
<1>13. CompletedIsClean'
  BY <1>4, <1>5, <1>6, <1>7, LoopFacts DEF LoopInv, WasLeft, CutOnlyWhen, CompletedIsClean
<1> QED
  BY <1>9, <1>10, <1>11, <1>12, <1>13 DEF LoopInv

LEMMA LoopInitInv ==
  ASSUME LoopInit
  PROVE  LoopInv
<1>1. PICK policy \in BOOLEAN :
        ctl = [policy |-> policy, phase |-> "RUNNING", stop |-> "none", raised |-> FALSE,
          review |-> FALSE, failed |-> FALSE, final |-> FALSE, resolved |-> FALSE,
          satisfied |-> FALSE, auditOnly |-> FALSE, transport |-> FALSE,
          needed |-> TRUE, seat |-> FALSE, behind |-> FALSE, retries |-> 0,
          isolated |-> FALSE, wave |-> FALSE, batched |-> FALSE,
          research |-> 0, audits |-> 0, deferred |-> 0, errors |-> 0, cands |-> 0]
  BY DEF LoopInit
<1>2. 0 \in 0..MaxQueue /\ 0 \in 0..MaxRetries /\ 0 \in 0..1 /\ 0 \in Nat /\ "none" \in Stops /\ "RUNNING" \in Phases
  BY EpochLoopAssumption, AllowedFromRunning DEF Stops
<1>3. /\ ctl \in Controllers /\ ctl.raised = FALSE /\ ctl.phase = "RUNNING" /\ ctl.stop = "none"
      /\ ctl.needed = TRUE /\ ctl.seat = FALSE /\ ctl.final = FALSE /\ ctl.satisfied = FALSE
      /\ ctl.research = 0 /\ ctl.audits = 0 /\ ctl.retries = 0
  BY <1>1, <1>2 DEF Controllers
<1>4. /\ pc = "poll" /\ job = [s \in Slots |-> "none"] /\ batch = {} /\ spent = 0 /\ spent \in Nat
      /\ clock \in Clocks /\ cut \in Cuts /\ cut.how = "no" /\ cut.live = {} /\ cut.orphan = FALSE
      /\ cut.status = "none"
  BY DEF LoopInit, Clocks, Cuts
<1>5. LoopTypes
  BY <1>2, <1>3, <1>4 DEF LoopTypes, LoopTypeOK, Looping
<1>6. StillRunning /\ StaysAlive
  BY <1>3, <1>4 DEF StillRunning, StopsAgree, StaysAlive, Alive, PlanWanted, Turn
<1>7. JobsMatch /\ WasLeft
  BY <1>3, <1>4, SlotsAre DEF JobsMatch, WasLeft, Looping, Leaving
<1>8. CutOnlyWhen /\ RaisesOnlyInDrain /\ IdleOnlyWhen /\ CompletedIsClean
  BY <1>4 DEF CutOnlyWhen, RaisesOnlyInDrain, IdleOnlyWhen, CompletedIsClean
<1> QED
  BY <1>5, <1>6, <1>7, <1>8 DEF LoopInv

LEMMA LoopNextInv ==
  ASSUME LoopInv, LoopNext
  PROVE  LoopInv'
<1>1. CASE LoopStep
  <2>1. ASSUME NEW s \in batch, NEW a \in AnyResult(s), CollectOne(s, a[1], a[2])
        PROVE  LoopInv'
    BY <2>1, CollectOneKeeps
  <2>2. ASSUME NEW s \in Audits, LaunchAudit(s)
        PROVE  LoopInv'
    BY <2>2, LaunchAuditKeeps
  <2>3. ASSUME NEW s \in Research, LaunchResearch(s)
        PROVE  LoopInv'
    BY <2>3, LaunchResearchKeeps
  <2> QED
    BY <1>1, <2>1, <2>2, <2>3, CollectKeeps, NothingStaleKeeps, StopsOrBreaks, StopWaitsKeeps, StopNowKeeps,
       StopOnErrorsKeeps, StopOnRateKeeps, StopOnBudgetKeeps, StopOnDeadlineKeeps, DispatchKeeps,
       LaunchDirectorKeeps, DirectorRefusedKeeps, DebouncedKeeps, AuditsLaunchedKeeps, ResearchLaunchedKeeps,
       PauseIsolatedKeeps, SleepKeeps, LastCollectionKeeps, CollectedKeeps, CancelActiveKeeps, FinishKeeps
    DEF LoopStep
<1>2. CASE ~LoopStep
  <2>1. ASSUME NEW s \in Slots, JobEnds(s)
        PROVE  LoopInv'
    BY <2>1, JobEndsKeeps
  <2>2. ASSUME NEW s \in Slots, NEW answer \in {"done", "no", "raises"}, CancelStale(s, answer)
        PROVE  LoopInv'
    BY <2>2, CancelStaleKeeps
  <2>3. ASSUME NEW low \in BOOLEAN, Candidate(low)
        PROVE  LoopInv'
    BY <2>3, CandidateKeeps
  <2> QED
    BY <1>2, <2>1, <2>2, <2>3, WorldKeeps, ViolationKeeps, StopsOrBreaks, DirectorBrokenKeeps, DebouncedKeeps,
       RejectAtDispatchKeeps, CollectedKeeps
    DEF LoopNext
<1> QED
  BY <1>1, <1>2

LEMMA LoopStutters ==
  ASSUME LoopInv, UNCHANGED loopvars
  PROVE  LoopInv'
<1>1. Active' = Active
  BY DEF Active, loopvars
<1> QED
  BY <1>1 DEF loopvars, LoopInv, LoopTypes, LoopTypeOK, StillRunning, StaysAlive, JobsMatch, WasLeft, CutOnlyWhen,
     RaisesOnlyInDrain, IdleOnlyWhen, CompletedIsClean

THEOREM LoopInvariant == LoopSpec => []LoopInv
<1>1. LoopInit => LoopInv
  BY LoopInitInv
<1>2. LoopInv /\ [LoopNext]_loopvars => LoopInv'
  BY LoopNextInv, LoopStutters
<1> QED
  BY <1>1, <1>2, PTL DEF LoopSpec

(* Every epoch is left cleanly (controller.py, run and _finish): jobs in   *)
(* flight are cut off only in the four cases named, a handler raises only  *)
(* once dispatch is over, and a completed campaign had no failure.         *)
THEOREM EpochsAreLeftCleanly == LoopSpec => []LeftCleanly
<1>1. LoopInv => LeftCleanly
  <2>1. LoopInv => SeatIsJob
    BY DEF LoopInv, JobsMatch, SeatIsJob, Looping, Turn
  <2> QED
    BY <2>1 DEF LoopInv, LoopTypes, LeftCleanly
<1> QED
  BY <1>1, LoopInvariant, PTL

(***************************************************************************)
(* What a start commits.                                                   *)
(***************************************************************************)
LEMMA StartFits ==
  ASSUME LoopInv, NEW s \in Slots, job[s] = "none", job' = [job EXCEPT ![s] = "running"], MayStart(Kind(s))
  PROVE  spent + Reserved' <= Budget
<1> DEFINE In(k) == {x \in Active : Kind(x) = k}
<1>1. IsFiniteSet(Slots)
  <2>1. IsFiniteSet({"director"})
    BY FS_Singleton
  <2> QED
    BY <2>1, EpochLoopAssumption, FS_Union DEF Slots
<1>2. Active' = Active \cup {s} /\ s \notin Active
  BY Started, LoopFacts DEF Active, JobStates
<1>3. \A k : IsFiniteSet(In(k)) /\ Cardinality(In(k)) \in Nat
  BY <1>1, FS_Subset, FS_CardinalityType DEF Active
<1>4. \A k : k # Kind(s) => ReservedFor(k)' = ReservedFor(k)
  <2>1. ASSUME NEW k, k # Kind(s)
        PROVE  {x \in Active' : Kind(x) = k} = In(k)
    BY <1>2, <2>1
  <2> QED
    BY <2>1 DEF ReservedFor
<1>5. /\ Estimate["director"] \in Nat /\ Estimate["research"] \in Nat /\ Estimate["audit"] \in Nat
      /\ Estimate[Kind(s)] \in Nat
  BY SlotsAre, EpochLoopAssumption
<1>6. ReservedFor(Kind(s))' = ReservedFor(Kind(s)) + Estimate[Kind(s)]
  <2>1. {x \in Active' : Kind(x) = Kind(s)} = In(Kind(s)) \cup {s} /\ s \notin In(Kind(s))
    BY <1>2
  <2>2. Cardinality({x \in Active' : Kind(x) = Kind(s)}) = Cardinality(In(Kind(s))) + 1
    BY <1>3, <2>1, FS_AddElement
  <2>3. PICK n \in Nat : n = Cardinality(In(Kind(s)))
    BY <1>3
  <2>4. PICK e \in Nat : e = Estimate[Kind(s)]
    BY <1>5
  <2>5. e * (n + 1) = e * n + e
    OBVIOUS
  <2>6. ReservedFor(Kind(s))' = e * (n + 1) /\ ReservedFor(Kind(s)) = e * n
    BY <2>2, <2>3, <2>4 DEF ReservedFor
  <2> QED
    BY <2>4, <2>5, <2>6
<1>7. ReservedFor("director") \in Nat /\ ReservedFor("research") \in Nat /\ ReservedFor("audit") \in Nat
  <2>1. ASSUME NEW k, Estimate[k] \in Nat
        PROVE  ReservedFor(k) \in Nat
    <3>1. PICK n \in Nat : n = Cardinality(In(k))
      BY <1>3
    <3>2. PICK e \in Nat : e = Estimate[k]
      BY <2>1
    <3>3. ReservedFor(k) = e * n
      BY <3>1, <3>2 DEF ReservedFor
    <3> QED
      BY <3>3
  <2> QED
    BY <1>5, <2>1
<1>8. Reserved' = Reserved + Estimate[Kind(s)]
  <2>1. Kind(s) \in {"director", "research", "audit"}
    BY SlotsAre
  <2>2. Reserved' = ReservedFor("director")' + ReservedFor("research")' + ReservedFor("audit")'
    BY DEF Reserved
  <2> QED
    BY <1>4, <1>5, <1>6, <1>7, <2>1, <2>2 DEF Reserved
<1> QED
  BY <1>5, <1>7, <1>8, LoopFacts, EpochLoopAssumption DEF MayStart, Reserved

StartRule == Starts => ctl.phase = "RUNNING" /\ ctl.stop \in {"none", "starved"} /\ spent + Reserved' <= Budget

LEMMA OnlyLaunchesStart ==
  ASSUME LoopInv, LoopNext,
         ~LaunchDirector, ~\E s \in Audits : LaunchAudit(s), ~\E s \in Research : LaunchResearch(s)
  PROVE  ~Starts
<1>1. CASE UNCHANGED job
  BY <1>1 DEF Starts
<1>2. ASSUME NEW s \in batch, NEW a \in AnyResult(s), CollectOne(s, a[1], a[2])
      PROVE  ~Starts
  BY <1>2, LoopFacts DEF CollectOne, Starts, JobStates
<1>3. ASSUME NEW s \in Slots, JobEnds(s)
      PROVE  ~Starts
  BY <1>3, LoopFacts DEF JobEnds, Starts, JobStates
<1>4. ASSUME NEW s \in Slots, NEW answer \in {"done", "no", "raises"}, CancelStale(s, answer)
      PROVE  ~Starts
  BY <1>4, LoopFacts DEF CancelStale, Starts, JobStates
<1>5. ASSUME NEW low \in BOOLEAN, Candidate(low)
      PROVE  ~Starts
  <2>1. \/ job' = job
        \/ job' = [s \in Slots |-> IF s \in Research /\ job[s] = "running" THEN "cancelled" ELSE job[s]]
    BY <1>5 DEF Candidate
  <2> QED
    BY <2>1 DEF Starts
<1>6. CASE CancelActive
  BY <1>6 DEF CancelActive, Starts
<1>7. Collect \/ NothingStale \/ StopOnTransport \/ StopWaits \/ StopNow \/ StopOnErrors \/ StopOnRate
        => UNCHANGED job
  BY DEF Collect, NothingStale, StopOnTransport, StopWaits, StopNow, StopOnErrors, StopOnRate
<1>8. StopForReview \/ StopOnBudget \/ StopOnDeadline \/ Dispatch \/ DirectorRefused \/ NoDirector
        => UNCHANGED job
  BY DEF StopForReview, StopOnBudget, StopOnDeadline, Dispatch, DirectorRefused, NoDirector
<1>9. AuditsLaunched \/ ResearchLaunched \/ PauseIsolated \/ Sleep \/ LastCollection \/ Collected \/ Finish
        => UNCHANGED job
  BY DEF AuditsLaunched, ResearchLaunched, PauseIsolated, Sleep, LastCollection, Collected, Finish
<1>10. Deadline \/ RateLimited \/ Violation \/ Interrupt \/ DirectorBroken \/ Debounced \/ RejectAtDispatch \/ LoopDone
        => UNCHANGED job
  BY DEF Deadline, RateLimited, Violation, Interrupt, DirectorBroken, Debounced, RejectAtDispatch, LoopDone, loopvars
<1> QED
  BY <1>1, <1>2, <1>3, <1>4, <1>5, <1>6, <1>7, <1>8, <1>9, <1>10 DEF LoopNext, LoopStep

LEMMA StartsAreAllowed ==
  ASSUME LoopInv, LoopNext
  PROVE  StartRule
<1>1. ctl.phase = "RUNNING" => ctl.stop \in {"none", "starved"}
  BY LoopFacts DEF Settled, StopsAgree
<1>2. CASE LaunchDirector
  <2>1. ctl.phase = "RUNNING" /\ job["director"] = "none" /\ job' = [job EXCEPT !["director"] = "running"]
        /\ MayStart("director")
    BY <1>2 DEF LaunchDirector, DirectorWanted, CanDispatch
  <2> QED
    BY <1>1, <2>1, SlotsAre, StartFits DEF StartRule
<1>3. ASSUME NEW s \in Audits, LaunchAudit(s)
      PROVE  StartRule
  <2>1. ctl.phase = "RUNNING" /\ job[s] = "none" /\ job' = [job EXCEPT ![s] = "running"] /\ MayStart("audit")
    BY <1>3 DEF LaunchAudit, CanDispatch, FreeSlot
  <2> QED
    BY <1>1, <2>1, SlotsAre, StartFits DEF StartRule
<1>4. ASSUME NEW s \in Research, LaunchResearch(s)
      PROVE  StartRule
  <2>1. ctl.phase = "RUNNING" /\ job[s] = "none" /\ job' = [job EXCEPT ![s] = "running"] /\ MayStart("research")
    BY <1>4 DEF LaunchResearch, MayResearch, CanDispatch, FreeSlot
  <2> QED
    BY <1>1, <2>1, SlotsAre, StartFits DEF StartRule
<1> QED
  BY <1>2, <1>3, <1>4, OnlyLaunchesStart DEF StartRule

(* No job is started once the epoch drains or on tokens it does not have   *)
(* (controller.py, _launch_*; governor.py, may_start).                     *)
THEOREM StartsAreGated == LoopSpec => StartsAllowed
<1>1. LoopInv /\ [LoopNext]_loopvars => [StartRule]_loopvars
  BY StartsAreAllowed
<1>2. [StartRule]_loopvars => [Starts => ctl.phase = "RUNNING" /\ ctl.stop \in {"none", "starved"}]_loopvars
  BY DEF StartRule
<1>3. [StartRule]_loopvars => [Starts => spent + Reserved' <= Budget]_loopvars
  BY DEF StartRule
<1> QED
  BY <1>1, <1>2, <1>3, LoopInvariant, PTL DEF LoopSpec, StartsAllowed, DispatchGate, StartsFit

(***************************************************************************)
(* Requests for a plan.                                                    *)
(***************************************************************************)
ReplanRule ==
  ctl.needed /\ ~ctl'.needed =>
    \/ job["director"] = "none" /\ job'["director"] = "running" /\ ~ctl'.behind
    \/ ctl'.stop # "none" \/ ctl'.auditOnly \/ ctl'.isolated \/ ctl'.failed
    \/ ~MayStart("director")

LEMMA HandledReplans ==
  ASSUME NEW e, Handled(ctl, e), ctl' = e
  PROVE  ReplanRule
  BY DEF Handled, ReplanRule

LEMMA ContinueReplans ==
  ASSUME NEW e, Handled(ctl, e), NEW where, Continue(e, where)
  PROVE  ReplanRule
<1>1. CASE e.raised
  <2>1. ctl' = [e EXCEPT !.raised = FALSE, !.failed = TRUE]
    BY <1>1 DEF Continue
  <2>2. ctl'.failed = TRUE
    BY <2>1 DEF Handled, Controllers
  <2> QED
    BY <2>2 DEF ReplanRule
<1>2. CASE ~e.raised
  BY <1>2, HandledReplans DEF Continue
<1> QED
  BY <1>1, <1>2

LEMMA CollectOneReplans ==
  ASSUME LoopInv, NEW s \in batch, NEW a \in AnyResult(s), CollectOne(s, a[1], a[2])
  PROVE  ReplanRule
<1>1. PICK r : r = CollectResult(s, a[1])
  OBVIOUS
<1>2. PICK d : CollectFrom(d, s) /\ Handled(d, r)
  BY <1>1, CollectHandled
<1>3. IF pc = "collect" THEN Continue(r, "collect")
      ELSE ctl' = [r EXCEPT !.raised = FALSE, !.failed = @ \/ r.raised]
  BY <1>1 DEF CollectOne, CollectResult
<1>4. r \in Controllers /\ (ctl.needed /\ ~r.needed => r.stop # "none" \/ r.auditOnly \/ r.isolated \/ r.failed)
  BY <1>2 DEF Handled, CollectFrom
<1>5. \/ ctl' = r
      \/ ctl' = [r EXCEPT !.raised = FALSE, !.failed = TRUE]
      \/ ctl' = [r EXCEPT !.raised = FALSE, !.failed = r.failed \/ r.raised]
  BY <1>3 DEF Continue
<1>6. CASE ctl' = r
  BY <1>4, <1>6 DEF ReplanRule
<1>7. CASE ctl' = [r EXCEPT !.raised = FALSE, !.failed = TRUE]
  <2>1. ctl'.failed = TRUE
    BY <1>4, <1>7 DEF Controllers
  <2> QED
    BY <2>1 DEF ReplanRule
<1>8. CASE ctl' = [r EXCEPT !.raised = FALSE, !.failed = r.failed \/ r.raised]
  <2>1. PICK b \in BOOLEAN : (b <=> (r.failed \/ r.raised)) /\ b = (r.failed \/ r.raised)
    BY Zenon
  <2>2. ctl' = [r EXCEPT !.raised = FALSE, !.failed = b]
    BY <1>8, <2>1
  <2>3. ctl'.failed = b
    BY <1>4, <2>2 DEF Controllers
  <2>4. ctl'.needed = r.needed /\ ctl'.stop = r.stop /\ ctl'.auditOnly = r.auditOnly /\ ctl'.isolated = r.isolated
    BY <2>2
  <2> QED
    BY <1>4, <2>1, <2>3, <2>4 DEF ReplanRule
<1> QED
  BY <1>5, <1>6, <1>7, <1>8

LEMMA RequestNeeds ==
  ASSUME NEW d \in Controllers, NEW m
  PROVE  d.needed => Request(d, m).needed
<1>1. Request(d, m) = d \/ Request(d, m) = [d EXCEPT !.needed = TRUE, !.behind = @ \/ m]
  BY DEF Request
<1>2. [d EXCEPT !.needed = TRUE, !.behind = @ \/ m].needed = TRUE
  BY DEF Controllers
<1> QED
  BY <1>1, <1>2

LEMMA NeedKept ==
  ASSUME ctl.needed => ctl'.needed
  PROVE  ReplanRule
  BY DEF ReplanRule

(* Steps that keep the request as it is, or leave with a failure. *)
LEMMA ContinueNeeds ==
  ASSUME NEW e \in Controllers, ctl.needed => e.needed, NEW where, Continue(e, where)
  PROVE  ReplanRule
<1>1. ctl' = e \/ ctl' = [e EXCEPT !.raised = FALSE, !.failed = TRUE]
  BY DEF Continue
<1>2. [e EXCEPT !.raised = FALSE, !.failed = TRUE].needed = e.needed
  OBVIOUS
<1> QED
  BY <1>1, <1>2 DEF ReplanRule

LEMMA LeavingLoopReplans ==
  ASSUME LoopInv, Collect \/ LastCollection \/ StopNow \/ StopOnErrors \/ StopOnRate \/ StopOnBudget \/ StopOnDeadline
                  \/ DirectorBroken
  PROVE  ReplanRule
<1>1. ctl \in Controllers /\ ~ctl.raised
  BY LoopFacts DEF Settled
<1>2. CASE Collect \/ LastCollection
  <2>1. ctl' = ctl \/ ctl' = Request(ctl, TRUE)
    BY <1>2 DEF Collect, LastCollection, Gather
  <2> QED
    BY <1>1, <2>1, RequestNeeds DEF ReplanRule
<1>3. CASE StopOnErrors \/ DirectorBroken
  <2>1. Continue(FailureDrain(ctl), "poll") \/ Continue(FailureDrain(ctl), "audits")
    BY <1>3 DEF StopOnErrors, DirectorBroken
  <2> QED
    BY <2>1, LoopFacts, FailureHandled, ContinueReplans
<1>4. CASE StopNow
  <2>1. PICK d : d = IF ctl.final \/ ctl.satisfied THEN Transition(ctl, "COMPLETED")
                     ELSE IF ctl.phase \in {"SEALED", "COMPLETED"} THEN ctl
                     ELSE Transition(ctl, "SEALED")
    OBVIOUS
  <2>2. d \in Controllers /\ d.needed = ctl.needed
    BY <1>1, <2>1, TransitionKeeps, AllowedFromRunning
  <2>3. Continue(d, "last") \/ ctl' = d
    BY <1>4, <2>1 DEF StopNow
  <2> QED
    BY <2>2, <2>3, ContinueNeeds DEF ReplanRule
<1>5. CASE StopOnRate
  <2>1. PICK t : t = Transition(ctl, "DRAINING_BUDGET")
    OBVIOUS
  <2>2. PICK e : e = IF t.raised THEN t ELSE [t EXCEPT !.stop = "rate"]
    OBVIOUS
  <2>3. t \in Controllers /\ t.needed = ctl.needed
    BY <1>1, <2>1, TransitionKeeps, AllowedFromRunning
  <2>4. e \in Controllers /\ e.needed = ctl.needed
    BY <2>2, <2>3 DEF Controllers, Stops
  <2>5. Continue(e, "poll")
    BY <1>5, <2>1, <2>2 DEF StopOnRate
  <2> QED
    BY <2>4, <2>5, ContinueNeeds
<1>6. CASE StopOnDeadline
  <2>1. PICK t : t = Transition(ctl, "DRAINING_EPOCH")
    OBVIOUS
  <2>2. PICK e : e = IF t.raised THEN t ELSE [t EXCEPT !.stop = "epoch"]
    OBVIOUS
  <2>3. t \in Controllers /\ t.needed = ctl.needed
    BY <1>1, <2>1, TransitionKeeps, AllowedFromRunning
  <2>4. e \in Controllers /\ e.needed = ctl.needed
    BY <2>2, <2>3 DEF Controllers, Stops
  <2>5. Continue(e, "poll")
    BY <1>6, <2>1, <2>2 DEF StopOnDeadline
  <2> QED
    BY <2>4, <2>5, ContinueNeeds
<1>7. CASE StopOnBudget
  <2>1. PICK e : e = FromRunning(ctl, "DRAINING_BUDGET")
    OBVIOUS
  <2>2. e.needed = ctl.needed
    BY <2>1 DEF FromRunning
  <2>3. ctl' = e \/ ctl' = [e EXCEPT !.stop = "budget"]
    BY <1>7, <2>1 DEF StopOnBudget, BudgetDrain
  <2>4. ctl'.needed = e.needed
    <3>1. CASE ctl' = e
      BY <3>1
    <3>2. CASE ctl' = [e EXCEPT !.stop = "budget"]
      BY <3>2
    <3> QED
      BY <2>3, <3>1, <3>2
  <2> QED
    BY <2>2, <2>4, NeedKept
<1> QED
  BY <1>2, <1>3, <1>4, <1>5, <1>6, <1>7

LEMMA TurnReplans ==
  ASSUME LoopInv, Dispatch \/ LaunchDirector \/ DirectorRefused \/ (\E s \in Audits : LaunchAudit(s)) \/ AuditsLaunched
                  \/ (\E s \in Research : LaunchResearch(s)) \/ RejectAtDispatch \/ ResearchLaunched
                  \/ PauseIsolated \/ Sleep
  PROVE  ReplanRule
<1>1. ctl \in Controllers
  BY LoopFacts DEF Settled
<1>2. CASE Dispatch
  <2>1. PICK e : e = [ctl EXCEPT !.wave = FALSE]
    OBVIOUS
  <2>2. e \in Controllers /\ e.needed = ctl.needed
    BY <1>1, <2>1 DEF Controllers
  <2>3. ctl' = Request(e, FALSE) \/ ctl' = ctl
    BY <1>2, <2>1 DEF Dispatch
  <2> QED
    BY <2>2, <2>3, RequestNeeds DEF ReplanRule
<1>3. CASE LaunchDirector
  <2>1. /\ job["director"] = "none" /\ job' = [job EXCEPT !["director"] = "running"]
        /\ ctl' = [ctl EXCEPT !.needed = FALSE, !.seat = TRUE, !.behind = FALSE]
    BY <1>3 DEF LaunchDirector, DirectorWanted
  <2>2. job'["director"] = "running"
    BY <2>1, LoopFacts, SlotsAre DEF JobStates
  <2>3. ctl'.behind = FALSE
    BY <1>1, <2>1 DEF Controllers
  <2> QED
    BY <2>1, <2>2, <2>3 DEF ReplanRule
<1>4. CASE DirectorRefused
  BY <1>4 DEF DirectorRefused, ReplanRule
<1>5. CASE (\E s \in Audits : LaunchAudit(s)) \/ (\E s \in Research : LaunchResearch(s)) \/ AuditsLaunched \/ ResearchLaunched
  <2>1. \/ ctl' = ctl \/ ctl' = [ctl EXCEPT !.audits = @ - 1] \/ ctl' = [ctl EXCEPT !.research = @ - 1]
        \/ ctl' = [ctl EXCEPT !.stop = "starved"]
    BY <1>5 DEF LaunchAudit, LaunchResearch, AuditsLaunched, ResearchLaunched
  <2>2. CASE ctl' = [ctl EXCEPT !.audits = @ - 1]
    BY <2>2, NeedKept
  <2>3. CASE ctl' = [ctl EXCEPT !.research = @ - 1]
    BY <2>3, NeedKept
  <2>4. CASE ctl' = [ctl EXCEPT !.stop = "starved"]
    BY <2>4, NeedKept
  <2>5. CASE ctl' = ctl
    BY <2>5, NeedKept
  <2> QED
    BY <2>1, <2>2, <2>3, <2>4, <2>5
<1>6. CASE RejectAtDispatch
  <2>1. PICK n \in 0..MaxQueue : n = ctl.research - 1
    BY <1>1, <1>6, EpochLoopAssumption DEF RejectAtDispatch, MayResearch, Controllers
  <2>2. PICK e : e = [ctl EXCEPT !.research = n]
    OBVIOUS
  <2>3. e \in Controllers /\ e.needed = ctl.needed
    BY <1>1, <2>2 DEF Controllers
  <2>4. ctl' = Request(e, FALSE)
    BY <1>6, <2>1, <2>2 DEF RejectAtDispatch
  <2> QED
    BY <2>3, <2>4, RequestNeeds DEF ReplanRule
<1>7. CASE PauseIsolated
  <2>1. PICK e : e = FromRunning(ctl, "DRAINING_EPOCH")
    OBVIOUS
  <2>2. e.isolated = ctl.isolated
    BY <2>1 DEF FromRunning
  <2>3. ctl' = [e EXCEPT !.needed = FALSE, !.stop = "director"] /\ ctl.isolated
    BY <1>7, <2>1 DEF PauseIsolated
  <2> QED
    BY <2>2, <2>3 DEF ReplanRule
<1>8. CASE Sleep
  <2>1. PICK e : e = [ctl EXCEPT !.batched = FALSE]
    OBVIOUS
  <2>2. e \in Controllers /\ e.needed = ctl.needed
    BY <1>1, <2>1 DEF Controllers
  <2>3. PICK d : d = IF Idle(ctl) /\ ctl.batched THEN Request(e, TRUE) ELSE ctl
    OBVIOUS
  <2>4. ctl.needed => d.needed
    BY <2>2, <2>3, RequestNeeds
  <2>5. ctl' = d \/ ctl' = [d EXCEPT !.failed = TRUE]
    BY <1>8, <2>1, <2>3 DEF Sleep, ReleaseBatch
  <2>6. ctl'.needed = d.needed
    <3>1. CASE ctl' = d
      BY <3>1
    <3>2. CASE ctl' = [d EXCEPT !.failed = TRUE]
      BY <3>2
    <3> QED
      BY <2>5, <3>1, <3>2
  <2> QED
    BY <2>4, <2>6, NeedKept
<1> QED
  BY <1>2, <1>3, <1>4, <1>5, <1>6, <1>7, <1>8

LEMMA CandidateReplans ==
  ASSUME LoopInv, NEW low \in BOOLEAN, Candidate(low)
  PROVE  ReplanRule
<1>1. ctl \in Controllers
  BY LoopFacts DEF Settled
<1>2. PICK n \in Nat : n = ctl.cands + 1
  BY <1>1 DEF Controllers
<1>3. PICK d : d = [ctl EXCEPT !.cands = n]
  OBVIOUS
<1>4. d \in Controllers /\ d.needed = ctl.needed
  BY <1>1, <1>3 DEF Controllers
<1>5. PICK f : f = [d EXCEPT !.auditOnly = TRUE, !.needed = FALSE, !.wave = FALSE, !.research = 0, !.deferred = 0]
  OBVIOUS
<1>6. PICK e \in {Request(d, TRUE), d, f} :
        ctl' = [e EXCEPT !.batched = TRUE] \/ ctl' = [e EXCEPT !.audits = Grow(@, 1)]
  BY <1>2, <1>3, <1>5 DEF Candidate
<1>7. ctl'.needed = e.needed /\ ctl'.auditOnly = e.auditOnly
  <2>1. CASE ctl' = [e EXCEPT !.batched = TRUE]
    BY <2>1
  <2>2. CASE ctl' = [e EXCEPT !.audits = Grow(@, 1)]
    BY <2>2
  <2> QED
    BY <1>6, <2>1, <2>2
<1>8. f.auditOnly = TRUE
  BY <1>4, <1>5 DEF Controllers
<1> QED
  BY <1>4, <1>6, <1>7, <1>8, RequestNeeds DEF ReplanRule

LEMMA RequestsAreKept ==
  ASSUME LoopInv, LoopNext
  PROVE  ReplanRule
<1>1. CASE UNCHANGED ctl
  BY <1>1 DEF ReplanRule
<1>2. ASSUME NEW s \in batch, NEW a \in AnyResult(s), CollectOne(s, a[1], a[2])
      PROVE  ReplanRule
  BY <1>2, CollectOneReplans
<1>3. ASSUME NEW s \in Slots, NEW answer \in {"done", "no", "raises"}, CancelStale(s, answer)
      PROVE  ReplanRule
  <2>1. ctl' = ctl \/ ctl' = [ctl EXCEPT !.review = TRUE]
    BY <1>3 DEF CancelStale, BackendCancel
  <2>2. CASE ctl' = [ctl EXCEPT !.review = TRUE]
    BY <2>2, NeedKept
  <2>3. CASE ctl' = ctl
    BY <2>3, NeedKept
  <2> QED
    BY <2>1, <2>2, <2>3
<1>4. CASE Violation \/ CancelActive \/ Finish
  <2>1. Violation => ctl'.needed = ctl.needed
    BY DEF Violation
  <2>2. ASSUME CancelActive
        PROVE  ctl'.needed = ctl.needed
    <3>1. PICK n : n = Grow(ctl.research, IF ctl.final THEN 0 ELSE Cardinality(Active \cap Research))
      OBVIOUS
    <3>2. ctl' = [ctl EXCEPT !.research = n]
      BY <2>2, <3>1 DEF CancelActive
    <3> QED
      BY <3>2
  <2>3. Finish => ctl'.needed = ctl.needed
    BY DEF Finish
  <2> QED
    BY <1>4, <2>1, <2>2, <2>3, NeedKept
<1>5. (\E s \in Slots : JobEnds(s)) => UNCHANGED ctl
  BY DEF JobEnds
<1>6. NothingStale \/ StopOnTransport \/ StopWaits \/ StopForReview \/ NoDirector \/ Collected => UNCHANGED ctl
  BY DEF NothingStale, StopOnTransport, StopWaits, StopForReview, NoDirector, Collected
<1>7. Deadline \/ RateLimited \/ Interrupt \/ Debounced \/ LoopDone => UNCHANGED ctl
  BY DEF Deadline, RateLimited, Interrupt, Debounced, LoopDone, loopvars
<1> QED
  BY <1>1, <1>2, <1>3, <1>4, <1>5, <1>6, <1>7, LeavingLoopReplans, TurnReplans, CandidateReplans DEF LoopNext, LoopStep

(* A request for a plan is answered by a Director that starts from it, or  *)
(* kept (controller.py, _request_director and its callers), in the cases   *)
(* but those that end planning altogether.                                 *)
THEOREM RequestsForPlansAreKept == LoopSpec => ReplanKept
<1>1. LoopInv /\ [LoopNext]_loopvars => [ReplanRule]_loopvars
  BY RequestsAreKept
<1> QED
  BY <1>1, LoopInvariant, PTL DEF LoopSpec, ReplanKept, ReplanRule

=============================================================================
