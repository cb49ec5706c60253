----------------------- MODULE GuardedControllerProofs -----------------------
(***************************************************************************)
(* Proofs about the transition store and the controller that guards it,    *)
(* for every set of files, every bound and both settings of EditsAnytime   *)
(* and TornAppends.                                                        *)
(*                                                                         *)
(* The first part is about CanonicalTransition alone: its journal is a     *)
(* serial history, with edits at rest no write overwrites anything and the *)
(* store implements CanonicalState.  The second part is about              *)
(* GuardedController, on top of the first: the guard raises no false       *)
(* alarm, and with edits at rest an epoch that ends clean hides no edit    *)
(* and each transition is built on known sources.                          *)
(***************************************************************************)
EXTENDS GuardedController, TLAPS, NaturalsInduction, WellFoundedInduction,
        SequenceTheorems

-----------------------------------------------------------------------------
(* The inductive strengthening of TypeOK and Serial *)

\* How many records are whole lines: a torn one can only be the last.
Whole == IF ledger # <<>> /\ ledger[Len(ledger)].kind = "TORN"
         THEN Len(ledger) - 1 ELSE Len(ledger)

\* PREPARED and COMMITTED alternate, one pair for every hashed seed.
Counted == Whole \in {2 * Len(seeds), 2 * Len(seeds) - 1}

\* What the running call knows of the ledger at each of its control points.
Recovering ==
    pc \in {"check", "install"} =>
        /\ Whole = Len(ledger)
        /\ Len(ledger) = 2 * Len(seeds) - 1
        /\ queue = {Len(ledger)}

Recovered ==
    pc \in {"verify", "plan", "stage", "prepare"} =>
        /\ Whole = Len(ledger)
        /\ Len(ledger) = 2 * Len(seeds)

\* The seed commit() goes on with was never hashed before.
FreshSeed ==
    pc \in {"stage", "prepare"} =>
        \A i \in DOMAIN seeds : seeds[i] # DraftSeed

\* commit() is under way only below the bound, and only it plans and stages.
Budget ==
    /\ Len(seeds) <= MaxTransitions
    /\ call = "commit" => Len(seeds) < MaxTransitions
    /\ pc \in {"plan", "stage", "prepare"} => call = "commit"

\* What is left to install are targets of the transition being installed.
LeftTargets ==
    pc = "install" => left \subseteq DOMAIN ledger[Len(ledger)].after

IInv == /\ TypeOK /\ Serial /\ Counted /\ Recovering /\ Recovered
        /\ FreshSeed /\ Budget /\ LeftTargets

-----------------------------------------------------------------------------
(* What holds besides while nobody edits a file under a running call       *)

Calm == ~EditsAnytime \/ edits = 0

\* A PREPARED record is one that the reader accepts, and leaves the premises
\* of its transition alone.
WellPrepared(r) ==
    /\ ValidPrepared(r)
    /\ DOMAIN r.before = DOMAIN r.after
    /\ DOMAIN r.after \subseteq Files \ Premises
    /\ DOMAIN r.pre = Premises
    /\ \A f \in DOMAIN r.after \ {Trusted} : r.after[f] \in Values

RecordsWell ==
    \A i \in DOMAIN ledger :
        /\ IsPrepared(i) => WellPrepared(ledger[i])
        /\ ledger[i].kind = "TORN" => ledger[i] = Torn

\* The draft of a commit() says what was on the disk, and still is.
Drafting ==
    /\ call = "commit" => draft.new \in Requests /\ DOMAIN draft.pre = Premises
    /\ pc \in {"stage", "prepare"} =>
         draft.before = Read(Targets) /\ draft.pre = Read(Premises)
    /\ pc = "prepare" => draft.staged = draft.before

\* The transition commit() is about to make starts from what the last one left.
OnTop ==
    pc \in {"plan", "stage", "prepare"} /\ ledger # <<>> =>
        \A f \in DOMAIN ledger[Len(ledger) - 1].after :
            live[f] = ledger[Len(ledger) - 1].after[f]

\* While a transition is installed its premises hold, its targets hold the
\* before or the after bytes, and those that are done the after bytes.
Installs ==
    pc = "install" =>
        LET r == ledger[Len(ledger)] IN
        /\ \A f \in DOMAIN r.pre : live[f] = r.pre[f]
        /\ \A f \in DOMAIN r.after : live[f] \in {r.before[f], r.after[f]}
        /\ \A f \in DOMAIN r.after \ left : live[f] = r.after[f]

Known == RecordsWell /\ Chained /\ Drafting /\ OnTop /\ Installs
KInv == IInv /\ (Calm => Known)

\* As long as nothing is disturbed, a pending transition can be recovered, a
\* completed one is still in place, and so are the premises of a draft.
InPlace ==
    /\ Len(ledger) = 2 * Len(seeds) - 1 => Recoverable(ledger[Len(ledger)])
    /\ Len(ledger) = 2 * Len(seeds) /\ ledger # <<>> =>
         \A f \in DOMAIN ledger[Len(ledger) - 1].after :
            live[f] = ledger[Len(ledger) - 1].after[f]
    /\ call = "commit" => draft.pre = Read(Premises)
UInv == Undisturbed => InPlace

-----------------------------------------------------------------------------
(* Lemmas about the data *)

\* The least element of a non-empty set of naturals is an element of it.
LEMMA FirstIn ==
    ASSUME NEW S \in SUBSET Nat, S # {}
    PROVE  First(S) \in S /\ \A j \in S : First(S) <= j
<1>1. PICK m \in S : \A y \in S : ~(<<y, m>> \in OpToRel(<, Nat))
  BY NatLessThanWellFounded, WFMin
<1>2. \A y \in S : ~(y < m)
  BY <1>1, Zenon DEF OpToRel
<1>3. m \in S /\ \A y \in S : m <= y
  BY <1>2
<1>. QED
  BY <1>3 DEF First

\* A function from files to contents is a snapshot, and the other way round.
LEMMA SnapshotIntro ==
    ASSUME NEW T \in SUBSET Files, NEW g \in [T -> Contents]
    PROVE  g \in Snapshot
BY DEF Snapshot

LEMMA SnapshotElim ==
    ASSUME NEW g \in Snapshot
    PROVE  DOMAIN g \in SUBSET Files /\ g \in [DOMAIN g -> Contents]
BY DEF Snapshot

LEMMA EmptyIsSnapshot == Empty \in Snapshot
<1>1. Empty \in [{} -> Contents]
  BY DEF Empty
<1>. QED
  BY <1>1, SnapshotIntro

LEMMA NoDraftIsDraft == NoDraft \in Drafts
BY EmptyIsSnapshot DEF NoDraft, Drafts

\* Reading files gives a snapshot.
LEMMA ReadIsSnapshot ==
    ASSUME TypeOK, NEW T \in SUBSET Files
    PROVE  Read(T) \in Snapshot
<1>1. Read(T) \in [T -> Contents]
  BY DEF Read, TypeOK
<1>. QED
  BY <1>1, SnapshotIntro

-----------------------------------------------------------------------------
(* Lemmas about the ledger *)

\* A whole ledger holds no torn line, and every line is a record.
LEMMA WholeLines ==
    ASSUME TypeOK, Serial, Whole = Len(ledger)
    PROVE  \A i \in DOMAIN ledger :
             /\ ledger[i].id \in Nat
             /\ \/ IsPrepared(i) /\ i = 2 * ledger[i].id - 1
                \/ IsCommitted(i) /\ i = 2 * ledger[i].id
<1>1. ledger \in Seq(Records) /\ DOMAIN ledger = 1 .. Len(ledger) /\ Len(ledger) \in Nat
  BY DEF TypeOK
<1>2. \A i \in DOMAIN ledger : ledger[i].id \in Nat
  BY <1>1, BoundAssumption DEF Records, PreparedRecords, Ids
<1>3. ASSUME NEW i \in DOMAIN ledger, ledger[i].kind = "TORN"
      PROVE  FALSE
  <2>1. i = Len(ledger)
    BY <1>3 DEF Serial
  <2>2. ledger # <<>>
    BY <1>1
  <2>3. Whole = Len(ledger) - 1
    BY <1>3, <2>1, <2>2 DEF Whole
  <2>. QED
    BY <1>1, <2>3
<1>. QED
  BY <1>1, <1>2, <1>3 DEF Serial, IsPrepared, IsCommitted

\* When every pair is complete, every id hashed so far is committed.
LEMMA AllCommitted ==
    ASSUME TypeOK, Serial, Whole = Len(ledger), Len(ledger) = 2 * Len(seeds)
    PROVE  /\ \A i \in DOMAIN seeds : i \in CommittedIds
           /\ Pending = {}
<1>1. /\ DOMAIN ledger = 1 .. Len(ledger) /\ Len(ledger) \in Nat
      /\ DOMAIN seeds = 1 .. Len(seeds) /\ Len(seeds) \in Nat
  BY DEF TypeOK
<1>2. ASSUME NEW i \in DOMAIN seeds
      PROVE  i \in CommittedIds
  <2>1. 2 * i \in DOMAIN ledger
    BY <1>1
  <2>2. IsCommitted(2 * i) /\ ledger[2 * i].id = i
    BY <1>1, <2>1, WholeLines
  <2>. QED
    BY <2>1, <2>2 DEF CommittedIds
<1>3. ASSUME NEW i \in DOMAIN ledger, IsPrepared(i)
      PROVE  ledger[i].id \in DOMAIN seeds
  BY <1>1, <1>3, WholeLines DEF IsPrepared, IsCommitted
<1>. QED
  BY <1>2, <1>3 DEF Pending

\* When the last pair is incomplete, its PREPARED record is the pending one.
LEMMA OnePending ==
    ASSUME TypeOK, Serial, Whole = Len(ledger), Len(ledger) = 2 * Len(seeds) - 1
    PROVE  /\ Len(ledger) \in DOMAIN ledger /\ IsPrepared(Len(ledger))
           /\ ledger[Len(ledger)].id = Len(seeds)
           /\ Pending = {Len(ledger)}
<1>1. /\ DOMAIN ledger = 1 .. Len(ledger) /\ Len(ledger) \in Nat
      /\ DOMAIN seeds = 1 .. Len(seeds) /\ Len(seeds) \in Nat
  BY DEF TypeOK
<1>2. Len(ledger) \in DOMAIN ledger
  BY <1>1
<1>3. IsPrepared(Len(ledger)) /\ ledger[Len(ledger)].id = Len(seeds)
  BY <1>1, <1>2, WholeLines
<1>4. Len(seeds) \notin CommittedIds
  <2>1. ASSUME NEW j \in DOMAIN ledger, IsCommitted(j), ledger[j].id = Len(seeds)
        PROVE  FALSE
    BY <1>1, <2>1, WholeLines DEF IsPrepared, IsCommitted
  <2>. QED
    BY <2>1 DEF CommittedIds
<1>5. ASSUME NEW i \in DOMAIN ledger, IsPrepared(i), i # Len(ledger)
      PROVE  ledger[i].id \in CommittedIds
  <2>1. i + 1 \in DOMAIN ledger /\ i = 2 * ledger[i].id - 1
    BY <1>1, <1>5, WholeLines DEF IsPrepared, IsCommitted
  <2>2. IsCommitted(i + 1) /\ ledger[i + 1].id = ledger[i].id
    BY <1>1, <2>1, WholeLines, SMTT(30)
  <2>. QED
    BY <2>1, <2>2 DEF CommittedIds
<1>. QED
  BY <1>2, <1>3, <1>4, <1>5 DEF Pending

\* A ledger the code accepts is whole.
LEMMA AcceptedIsWhole ==
    ASSUME TypeOK, Counted, ValidLedger
    PROVE  /\ Whole = Len(ledger)
           /\ Len(ledger) \in {2 * Len(seeds), 2 * Len(seeds) - 1}
<1>1. DOMAIN ledger = 1 .. Len(ledger) /\ Len(ledger) \in Nat
  BY DEF TypeOK
<1>2. ledger # <<>> => Len(ledger) \in DOMAIN ledger
  BY <1>1 DEF TypeOK
<1>3. Whole = Len(ledger)
  BY <1>2 DEF Whole, ValidLedger
<1>. QED
  BY <1>3 DEF Counted

-----------------------------------------------------------------------------
(* IInv holds initially and every action preserves it *)

LEMMA InitIInv == Init => IInv
<1>. SUFFICES ASSUME Init PROVE IInv
  OBVIOUS
<1>1. ledger = <<>> /\ seeds = <<>> /\ Len(ledger) = 0 /\ Len(seeds) = 0 /\ DOMAIN ledger = {}
  BY DEF Init
<1>2. TypeOK
  <2>1. live \in [Files -> Contents]
    BY BoundAssumption DEF Init, Contents, Ids
  <2>. QED
    BY <1>1, <2>1, NoDraftIsDraft DEF Init, TypeOK
<1>. QED
  BY <1>1, <1>2, BoundAssumption
  DEF IInv, Init, Serial, Counted, Whole, Recovering, Recovered, FreshSeed, Budget, LeftTargets

\* A step that leaves the durable state alone and ends the call, or parks the
\* process where nothing is assumed, preserves IInv.
LEMMA ParkPreserves ==
    ASSUME IInv, UNCHANGED durable,
           pc' \in {"down", "idle", "load"},
           queue' \subseteq Nat, left' \subseteq Files, draft' \in Drafts,
           call' \in {"none", "recover", "settle"}
             \/ (call' = "commit" /\ Len(seeds) < MaxTransitions),
           result' \in {"none", "ok", "raised"}, faults' \in Nat, edits' \in Nat
    PROVE  IInv'
<1>1. TypeOK'
  BY DEF IInv, TypeOK, durable
<1>2. Serial' /\ Counted'
  BY DEF IInv, Serial, Counted, Whole, durable
<1>. QED
  BY <1>1, <1>2
  DEF IInv, Recovering, Recovered, FreshSeed, Budget, LeftTargets, durable

LEMMA RaisePreserves ==
    ASSUME IInv, Raise, faults' \in Nat, edits' \in Nat
    PROVE  IInv'
BY ParkPreserves, NoDraftIsDraft DEF Raise, End

LEMMA BeginPreserves ==
    ASSUME IInv, BeginRecover \/ (\E new \in Requests : BeginCommit(new))
    PROVE  IInv'
<1>1. CASE BeginRecover
  BY <1>1, ParkPreserves DEF BeginRecover, Goto, IInv, TypeOK
<1>2. ASSUME NEW new \in Requests, BeginCommit(new)
      PROVE  IInv'
  <2>1. new \in Snapshot
    <3>1. PICK T \in SUBSET Files : new \in [T -> Values]
      BY DEF Requests
    <3>2. new \in [T -> Contents]
      BY <3>1 DEF Contents
    <3>. QED
      BY <3>2, SnapshotIntro
  <2>2. Read(Premises) \in Snapshot
    BY ReadIsSnapshot, FilesAssumption DEF IInv
  <2>3. draft' \in Drafts
    BY <1>2, <2>1, <2>2, EmptyIsSnapshot DEF BeginCommit, NoDraft, Drafts
  <2>. QED
    BY <1>2, <2>3, ParkPreserves DEF BeginCommit, Goto, IInv, TypeOK
<1>. QED
  BY <1>1, <1>2

LEMMA LoadPreserves ==
    ASSUME IInv, Load
    PROVE  IInv'
<1>1. CASE ~ValidLedger
  BY <1>1, RaisePreserves DEF Load, IInv, TypeOK
<1>2. CASE ValidLedger
  <2>1. /\ UNCHANGED <<durable, call, left, draft, result, faults, edits>>
        /\ queue' = Pending
        /\ pc = "load"
        /\ pc' = IF Pending = {} THEN "verify" ELSE "check"
    BY <1>2 DEF Load, Goto
  <2>2. /\ Whole = Len(ledger)
        /\ Len(ledger) \in {2 * Len(seeds), 2 * Len(seeds) - 1}
    BY <1>2, AcceptedIsWhole DEF IInv
  <2>3. Pending \subseteq Nat
    BY DEF Pending, IInv, TypeOK
  <2>4. TypeOK'
    BY <2>1, <2>3 DEF IInv, TypeOK, durable
  <2>5. Serial' /\ Counted' /\ Budget'
    BY <2>1 DEF IInv, Serial, Counted, Whole, Budget, durable
  <2>6. CASE Len(ledger) = 2 * Len(seeds)
    BY <2>1, <2>2, <2>4, <2>5, <2>6, AllCommitted
    DEF IInv, Recovering, Recovered, FreshSeed, LeftTargets, Whole, durable
  <2>7. CASE Len(ledger) = 2 * Len(seeds) - 1
    BY <2>1, <2>2, <2>4, <2>5, <2>7, OnePending
    DEF IInv, Recovering, Recovered, FreshSeed, LeftTargets, Whole, durable
  <2>. QED
    BY <2>2, <2>6, <2>7
<1>. QED
  BY <1>1, <1>2

\* The record that the recovering call is about: the last line.
LEMMA Installing ==
    ASSUME IInv, pc \in {"check", "install"}
    PROVE  /\ First(queue) = Len(ledger)
           /\ Len(ledger) \in DOMAIN ledger
           /\ ledger[Len(ledger)] \in PreparedRecords
           /\ ledger[Len(ledger)].id = Len(seeds)
           /\ DOMAIN ledger[Len(ledger)].after \in SUBSET Files
           /\ ledger[Len(ledger)].after \in [DOMAIN ledger[Len(ledger)].after -> Contents]
<1>1. /\ Whole = Len(ledger) /\ Len(ledger) = 2 * Len(seeds) - 1
      /\ queue = {Len(ledger)}
  BY DEF IInv, Recovering
<1>2. /\ Len(ledger) \in DOMAIN ledger /\ IsPrepared(Len(ledger))
      /\ ledger[Len(ledger)].id = Len(seeds)
  BY <1>1, OnePending DEF IInv
<1>3. Len(ledger) \in Nat
  BY DEF IInv, TypeOK
<1>4. First(queue) = Len(ledger)
  BY <1>1, <1>3, FirstIn
<1>5. ledger[Len(ledger)] \in PreparedRecords
  BY <1>2 DEF IInv, TypeOK, Records, IsPrepared
<1>6. ledger[Len(ledger)].after \in Snapshot
  BY <1>5 DEF PreparedRecords
<1>. QED
  BY <1>2, <1>4, <1>5, <1>6, SnapshotElim

LEMMA CheckPreserves ==
    ASSUME IInv, Check
    PROVE  IInv'
<1>1. CASE Raise
  BY <1>1, RaisePreserves DEF Check, IInv, TypeOK
<1>2. CASE ~Raise
  <2>1. /\ pc = "check" /\ pc' = "install"
        /\ left' = DOMAIN ledger[First(queue)].after
        /\ UNCHANGED <<durable, call, queue, draft, result, faults, edits>>
    BY <1>2 DEF Check, Goto
  <2>2. left' = DOMAIN ledger[Len(ledger)].after /\ left' \in SUBSET Files
    BY <2>1, Installing
  <2>3. TypeOK'
    BY <2>1, <2>2 DEF IInv, TypeOK, durable
  <2>. QED
    BY <2>1, <2>2, <2>3
    DEF IInv, Serial, Counted, Whole, Recovering, Recovered, FreshSeed, Budget,
        LeftTargets, durable
<1>. QED
  BY <1>1, <1>2

LEMMA InstallPreserves ==
    ASSUME IInv, Install
    PROVE  IInv'
<1>. DEFINE r == ledger[Len(ledger)]
            f == First(left)
<1>1. /\ pc = "install" /\ left # {} /\ left \subseteq DOMAIN r.after
      /\ live' = [live EXCEPT ![f] = r.after[f]]
      /\ left' = left \ {f}
      /\ UNCHANGED <<ledger, seeds, pc, call, queue, draft, result, faults, edits>>
  BY Installing DEF Install, IInv, LeftTargets
<1>2. f \in left
  BY <1>1, FirstIn, FilesAssumption DEF IInv, TypeOK
<1>3. r.after[f] \in Contents
  BY <1>1, <1>2, Installing
<1>4. live' \in [Files -> Contents]
  BY <1>1, <1>3 DEF IInv, TypeOK
<1>5. TypeOK'
  BY <1>1, <1>4 DEF IInv, TypeOK
<1>6. DraftSeed' = DraftSeed
  BY <1>1 DEF DraftSeed
<1>. QED
  BY <1>1, <1>5, <1>6
  DEF IInv, Serial, Counted, Whole, Recovering, Recovered, FreshSeed, Budget, LeftTargets

LEMMA AppendCommittedPreserves ==
    ASSUME IInv, AppendCommitted
    PROVE  IInv'
<1>. DEFINE n == Len(ledger)
<1>1. /\ pc = "install"
      /\ ledger' = Append(ledger, Committed(Len(seeds)))
      /\ queue' = queue \ {n}
      /\ pc' = IF queue' = {} THEN "verify" ELSE "check"
      /\ UNCHANGED <<live, seeds, call, left, draft, result, faults, edits>>
  BY Installing DEF AppendCommitted, Goto
<1>2. /\ queue = {n} /\ n = 2 * Len(seeds) - 1 /\ Whole = n
  BY <1>1 DEF IInv, Recovering
<1>3. queue' = {} /\ pc' = "verify"
  BY <1>1, <1>2
<1>4. /\ ledger \in Seq(Records) /\ n \in Nat /\ DOMAIN ledger = 1 .. n
      /\ Len(seeds) \in Nat
  BY DEF IInv, TypeOK
<1>5. Committed(Len(seeds)) \in Records
  BY <1>4, BoundAssumption DEF IInv, Budget, Committed, Records, Ids
<1>6. /\ Len(ledger') = n + 1 /\ ledger' \in Seq(Records)
      /\ DOMAIN ledger' = 1 .. n + 1
      /\ ledger'[n + 1] = Committed(Len(seeds))
      /\ \A i \in 1 .. n : ledger'[i] = ledger[i]
  BY <1>1, <1>4, <1>5
<1>7. TypeOK'
  BY <1>1, <1>3, <1>6 DEF IInv, TypeOK
<1>8. Serial'
  <2>1. ASSUME NEW i \in 1 .. n
        PROVE  \/ ledger'[i].kind = "PREPARED" /\ i = 2 * ledger'[i].id - 1
               \/ ledger'[i].kind = "COMMITTED" /\ i = 2 * ledger'[i].id
    BY <1>2, <1>4, <1>6, <2>1, WholeLines DEF IInv, IsPrepared, IsCommitted
  <2>2. ledger'[n + 1].kind = "COMMITTED" /\ n + 1 = 2 * ledger'[n + 1].id
    BY <1>2, <1>4, <1>6 DEF Committed
  <2>. QED
    BY <1>4, <1>6, <2>1, <2>2 DEF Serial
<1>9. Whole' = n + 1
  BY <1>4, <1>6 DEF Whole, Committed
<1>. QED
  BY <1>1, <1>2, <1>3, <1>4, <1>6, <1>7, <1>8, <1>9
  DEF IInv, Counted, Recovering, Recovered, FreshSeed, Budget, LeftTargets

\* The call returns to its caller.
LEMMA ReturnPreserves ==
    ASSUME IInv, Return, UNCHANGED durable, UNCHANGED <<faults, edits>>
    PROVE  IInv'
BY ParkPreserves, NoDraftIsDraft DEF Return, End, IInv, TypeOK

LEMMA VerifyPreserves ==
    ASSUME IInv, Verify
    PROVE  IInv'
<1>1. CASE Raise
  BY <1>1, RaisePreserves DEF Verify, IInv, TypeOK
<1>2. CASE Return /\ UNCHANGED durable
  BY <1>2, ReturnPreserves DEF Verify
<1>3. CASE pc' = "plan"
  <2>1. /\ pc = "verify" /\ call = "commit"
        /\ UNCHANGED <<durable, call, queue, left, draft, result, faults, edits>>
    BY <1>3 DEF Verify, Return, Raise, End, Goto
  <2>2. TypeOK'
    BY <1>3, <2>1 DEF IInv, TypeOK, durable
  <2>. QED
    BY <1>3, <2>1, <2>2
    DEF IInv, Serial, Counted, Whole, Recovering, Recovered, FreshSeed, Budget,
        LeftTargets, durable
<1>. QED
  BY <1>1, <1>2, <1>3 DEF Verify, Goto

\* The files a draft is going to write.
LEMMA DraftTargets ==
    ASSUME IInv
    PROVE  /\ Targets \in SUBSET Files
           /\ \A id \in Ids : After(id) \in Snapshot
<1>1. draft.new \in Snapshot
  BY DEF IInv, TypeOK, Drafts
<1>2. DOMAIN draft.new \in SUBSET Files /\ draft.new \in [DOMAIN draft.new -> Contents]
  BY <1>1, SnapshotElim
<1>3. Targets \in SUBSET Files
  BY <1>2, FilesAssumption DEF Targets
<1>4. ASSUME NEW id \in Ids
      PROVE  After(id) \in Snapshot
  <2>1. After(id) \in [Targets -> Contents]
    BY <1>2 DEF After, Targets, Contents
  <2>. QED
    BY <1>3, <2>1, SnapshotIntro
<1>. QED
  BY <1>3, <1>4

LEMMA PlanPreserves ==
    ASSUME IInv, Plan
    PROVE  IInv'
<1>1. CASE Raise
  BY <1>1, RaisePreserves DEF Plan, IInv, TypeOK
<1>2. CASE Return /\ UNCHANGED durable
  BY <1>2, ReturnPreserves DEF Plan
<1>3. CASE pc' = "stage"
  <2>1. /\ pc = "plan"
        /\ IdOf(PlannedSeed) \notin CommittedIds
        /\ draft' = [draft EXCEPT !.before = Read(Targets)]
        /\ UNCHANGED <<durable, call, queue, left, result, faults, edits>>
    BY <1>3 DEF Plan, Return, Raise, End, Goto
  <2>2. draft \in Drafts /\ Read(Targets) \in Snapshot
    BY ReadIsSnapshot, DraftTargets DEF IInv, TypeOK
  <2>3. draft' \in Drafts
    BY <2>1, <2>2 DEF Drafts
  <2>4. TypeOK'
    BY <1>3, <2>1, <2>3 DEF IInv, TypeOK, durable
  <2>5. DraftSeed' = PlannedSeed
    BY <2>1, <2>2 DEF DraftSeed, PlannedSeed, Drafts
  <2>6. \A i \in DOMAIN seeds : seeds[i] # PlannedSeed
    <3>1. SUFFICES ASSUME NEW i \in DOMAIN seeds, seeds[i] = PlannedSeed
                   PROVE  FALSE
      OBVIOUS
    <3>2. IdOf(PlannedSeed) \in DOMAIN seeds
      BY <3>1 DEF IdOf
    <3>3. IdOf(PlannedSeed) \in CommittedIds
      BY <2>1, <3>2, AllCommitted DEF IInv, Recovered
    <3>. QED
      BY <2>1, <3>3
  <2>. QED
    BY <1>3, <2>1, <2>4, <2>5, <2>6
    DEF IInv, Serial, Counted, Whole, Recovering, Recovered, FreshSeed, Budget,
        LeftTargets, durable
<1>. QED
  BY <1>1, <1>2, <1>3 DEF Plan, Goto

LEMMA StagePreserves ==
    ASSUME IInv, Stage
    PROVE  IInv'
<1>1. /\ pc = "stage" /\ pc' = "prepare"
      /\ draft' = [draft EXCEPT !.staged = Read(Targets)]
      /\ UNCHANGED <<durable, call, queue, left, result, faults, edits>>
  BY DEF Stage, Goto
<1>2. draft \in Drafts /\ Read(Targets) \in Snapshot
  BY ReadIsSnapshot, DraftTargets DEF IInv, TypeOK
<1>3. draft' \in Drafts
  BY <1>1, <1>2 DEF Drafts
<1>4. TypeOK'
  BY <1>1, <1>3 DEF IInv, TypeOK, durable
<1>5. DraftSeed' = DraftSeed
  BY <1>1, <1>2 DEF DraftSeed, Drafts
<1>. QED
  BY <1>1, <1>4, <1>5
  DEF IInv, Serial, Counted, Whole, Recovering, Recovered, FreshSeed, Budget,
      LeftTargets, durable

LEMMA PreparePreserves ==
    ASSUME IInv, Prepare
    PROVE  IInv'
<1>. DEFINE n == Len(ledger)
            m == Len(seeds) + 1
            r == Prepared(m, draft.staged, After(m), draft.pre)
<1>1. pc = "prepare" /\ n = 2 * Len(seeds) /\ Whole = n /\ call = "commit"
  BY DEF Prepare, IInv, Recovered, Budget
<1>2. /\ ledger \in Seq(Records) /\ n \in Nat /\ DOMAIN ledger = 1 .. n
      /\ Len(seeds) \in Nat /\ DOMAIN seeds = 1 .. Len(seeds)
      /\ m \in Ids
  BY <1>1, BoundAssumption DEF IInv, TypeOK, Budget, Ids
<1>3. IdOf(DraftSeed) = m /\ m \notin DOMAIN seeds
  BY <1>1, <1>2 DEF IInv, FreshSeed, IdOf
<1>4. /\ ledger' = Append(ledger, r)
      /\ seeds' = Append(seeds, DraftSeed)
      /\ pc' = "load" /\ call' = "settle"
      /\ UNCHANGED <<live, queue, left, draft, result, faults, edits>>
  BY <1>3 DEF Prepare, Goto
<1>5. draft \in Drafts
  BY DEF IInv, TypeOK
<1>6. r \in Records
  BY <1>2, <1>5, DraftTargets DEF Prepared, Records, PreparedRecords, Drafts
<1>7. DraftSeed \in [before : Snapshot, after : Snapshot, pre : Snapshot]
  BY <1>5 DEF DraftSeed, Drafts
<1>8. /\ Len(ledger') = n + 1 /\ ledger' \in Seq(Records)
      /\ DOMAIN ledger' = 1 .. n + 1
      /\ ledger'[n + 1] = r
      /\ \A i \in 1 .. n : ledger'[i] = ledger[i]
  BY <1>2, <1>4, <1>6
<1>9. /\ seeds' \in Seq([before : Snapshot, after : Snapshot, pre : Snapshot])
      /\ Len(seeds') = m
  BY <1>4, <1>7 DEF IInv, TypeOK
<1>10. TypeOK'
  BY <1>4, <1>8, <1>9 DEF IInv, TypeOK
<1>11. Serial'
  <2>1. ASSUME NEW i \in 1 .. n
        PROVE  \/ ledger'[i].kind = "PREPARED" /\ i = 2 * ledger'[i].id - 1
               \/ ledger'[i].kind = "COMMITTED" /\ i = 2 * ledger'[i].id
    BY <1>1, <1>2, <1>8, <2>1, WholeLines DEF IInv, IsPrepared, IsCommitted
  <2>2. ledger'[n + 1].kind = "PREPARED" /\ n + 1 = 2 * ledger'[n + 1].id - 1
    BY <1>1, <1>2, <1>8 DEF Prepared
  <2>. QED
    BY <1>2, <1>8, <2>1, <2>2 DEF Serial
<1>12. Whole' = n + 1
  BY <1>2, <1>8 DEF Whole, Prepared
<1>. QED
  BY <1>1, <1>2, <1>4, <1>8, <1>9, <1>10, <1>11, <1>12
  DEF IInv, Counted, Recovering, Recovered, FreshSeed, Budget, LeftTargets, Ids

LEMMA CrashPreserves ==
    ASSUME IInv, Crash
    PROVE  IInv'
BY ParkPreserves, NoDraftIsDraft DEF Crash, Die, IInv, TypeOK

LEMMA CrashTornPreserves ==
    ASSUME IInv, CrashTorn
    PROVE  IInv'
<1>. DEFINE n == Len(ledger)
<1>1. /\ pc \in {"prepare", "install"} /\ Die
      /\ ledger' = Append(ledger, Torn)
      /\ UNCHANGED <<live, seeds, edits>>
  BY DEF CrashTorn
<1>2. Whole = n
  BY <1>1 DEF IInv, Recovering, Recovered
<1>3. ledger \in Seq(Records) /\ n \in Nat /\ DOMAIN ledger = 1 .. n
  BY DEF IInv, TypeOK
<1>4. Torn \in Records
  BY BoundAssumption DEF Torn, Records, Ids
<1>5. /\ Len(ledger') = n + 1 /\ ledger' \in Seq(Records)
      /\ DOMAIN ledger' = 1 .. n + 1 /\ ledger' # <<>>
      /\ ledger'[n + 1] = Torn
      /\ \A i \in 1 .. n : ledger'[i] = ledger[i]
  BY <1>1, <1>3, <1>4
<1>6. TypeOK'
  BY <1>1, <1>5, NoDraftIsDraft DEF IInv, TypeOK, Die
<1>7. Serial'
  <2>1. ASSUME NEW i \in 1 .. n
        PROVE  \/ ledger'[i].kind = "PREPARED" /\ i = 2 * ledger'[i].id - 1
               \/ ledger'[i].kind = "COMMITTED" /\ i = 2 * ledger'[i].id
    BY <1>2, <1>3, <1>5, <2>1, WholeLines DEF IInv, IsPrepared, IsCommitted
  <2>. QED
    BY <1>3, <1>5, <2>1 DEF Serial, Torn
<1>8. Whole' = n
  BY <1>3, <1>5 DEF Whole, Torn
<1>. QED
  BY <1>1, <1>2, <1>6, <1>7, <1>8
  DEF IInv, Counted, Recovering, Recovered, FreshSeed, Budget, LeftTargets, Die

LEMMA EditPreserves ==
    ASSUME IInv, NEW f \in Files, NEW c \in Editable(f), Edit(f, c)
    PROVE  IInv'
<1>1. c \in Contents
  BY BoundAssumption DEF IInv, Budget, TypeOK, Editable, Contents, Ids
<1>2. live' \in [Files -> Contents]
  BY <1>1 DEF Edit, IInv, TypeOK
<1>3. TypeOK'
  BY <1>2 DEF Edit, IInv, TypeOK, volatile
<1>. QED
  BY <1>3
  DEF Edit, IInv, Serial, Counted, Whole, Recovering, Recovered, FreshSeed, Budget,
      LeftTargets, DraftSeed, volatile

LEMMA StutterPreserves ==
    ASSUME IInv, UNCHANGED vars
    PROVE  IInv'
BY DEF IInv, TypeOK, Serial, Counted, Whole, Recovering, Recovered, FreshSeed, Budget,
       LeftTargets, DraftSeed, vars, durable, volatile

LEMMA StepIInv == IInv /\ [Next]_vars => IInv'
<1>. SUFFICES ASSUME IInv, [Next]_vars PROVE IInv'
  OBVIOUS
<1>1. CASE WriteFails
  BY <1>1, RaisePreserves DEF WriteFails, IInv, TypeOK
<1>2. CASE Restart
  BY <1>2, ParkPreserves DEF Restart, Goto, IInv, TypeOK, Budget
<1>3. CASE Run
  BY <1>3, LoadPreserves, CheckPreserves, InstallPreserves, AppendCommittedPreserves,
     VerifyPreserves, PlanPreserves, StagePreserves, PreparePreserves
  DEF Run, Recover, Commit
<1>4. CASE \E f \in Files : \E c \in Editable(f) : Edit(f, c)
  BY <1>4, EditPreserves
<1>. QED
  BY <1>1, <1>2, <1>3, <1>4, BeginPreserves, CrashPreserves, CrashTornPreserves,
     StutterPreserves DEF Next

THEOREM Invariance == Spec => []IInv
<1>. QED
  BY InitIInv, StepIInv, PTL DEF Spec

-----------------------------------------------------------------------------
(* Known is preserved as long as the files are calm *)

LEMMA RecordsUnchanged ==
    ASSUME RecordsWell, Chained, UNCHANGED <<ledger, seeds>>
    PROVE  RecordsWell' /\ Chained'
BY DEF RecordsWell, Chained, WellPrepared, ValidPrepared, Seed, IsPrepared

\* A step that leaves the durable state alone and ends the call.
LEMMA QuietKnown ==
    ASSUME Known, UNCHANGED durable, pc' \in {"down", "idle", "load"},
           call' = "commit" => draft'.new \in Requests /\ DOMAIN draft'.pre = Premises
    PROVE  Known'
BY RecordsUnchanged DEF Known, Drafting, OnTop, Installs, durable

LEMMA RaiseKnown ==
    ASSUME Known, Raise
    PROVE  Known'
BY QuietKnown DEF Raise, End

LEMMA BeginKnown ==
    ASSUME Known, BeginRecover \/ (\E new \in Requests : BeginCommit(new))
    PROVE  Known'
<1>1. CASE BeginRecover
  BY <1>1, QuietKnown DEF BeginRecover, Goto
<1>2. ASSUME NEW new \in Requests, BeginCommit(new)
      PROVE  Known'
  <2>1. draft'.new = new /\ draft'.pre = Read(Premises)
    BY <1>2 DEF BeginCommit, NoDraft
  <2>2. DOMAIN Read(Premises) = Premises
    BY DEF Read
  <2>. QED
    BY <1>2, <2>1, <2>2, QuietKnown DEF BeginCommit, Goto
<1>. QED
  BY <1>1, <1>2

LEMMA LoadKnown ==
    ASSUME Known, Load
    PROVE  Known'
<1>1. CASE Raise
  BY <1>1, RaiseKnown
<1>2. CASE ~Raise
  <2>1. /\ pc' \in {"verify", "check"}
        /\ UNCHANGED <<durable, call, left, draft, result>>
    BY <1>2 DEF Load, Goto
  <2>2. RecordsWell' /\ Chained'
    BY <2>1, RecordsUnchanged DEF Known, durable
  <2>. QED
    BY <2>1, <2>2 DEF Known, Drafting, OnTop, Installs, durable
<1>. QED
  BY <1>1, <1>2

LEMMA CheckKnown ==
    ASSUME IInv, Known, Check
    PROVE  Known'
<1>1. CASE Raise
  BY <1>1, RaiseKnown
<1>2. CASE ~Raise
  <2>1. /\ pc = "check" /\ pc' = "install"
        /\ Recoverable(ledger[Len(ledger)])
        /\ left' = DOMAIN ledger[Len(ledger)].after
        /\ UNCHANGED <<durable, call, queue, draft, result>>
    BY <1>2, Installing DEF Check, Goto
  <2>2. RecordsWell' /\ Chained'
    BY <2>1, RecordsUnchanged DEF Known, durable
  <2>3. Installs'
    BY <2>1 DEF Installs, Recoverable, durable
  <2>. QED
    BY <2>1, <2>2, <2>3 DEF Known, Drafting, OnTop, durable
<1>. QED
  BY <1>1, <1>2

\* What one turn of the install loop does.
LEMMA InstallStep ==
    ASSUME IInv, Known, Install
    PROVE  LET r == ledger[Len(ledger)]
               f == First(left)
           IN  /\ pc = "install" /\ f \in left /\ left \subseteq DOMAIN r.after
               /\ f \in Files \ Premises
               /\ WellPrepared(r)
               /\ live' = [live EXCEPT ![f] = r.after[f]]
               /\ left' = left \ {f}
               /\ UNCHANGED <<ledger, seeds, pc, call, queue, draft, result, faults, edits>>
<1>. DEFINE r == ledger[Len(ledger)]
            f == First(left)
<1>1. /\ pc = "install" /\ left # {} /\ left \subseteq DOMAIN r.after
      /\ live' = [live EXCEPT ![f] = r.after[f]]
      /\ left' = left \ {f}
      /\ UNCHANGED <<ledger, seeds, pc, call, queue, draft, result, faults, edits>>
  BY Installing DEF Install, IInv, LeftTargets
<1>2. f \in left
  BY <1>1, FirstIn, FilesAssumption DEF IInv, TypeOK
<1>3. WellPrepared(r)
  BY <1>1, OnePending DEF IInv, Recovering, Known, RecordsWell
<1>. QED
  BY <1>1, <1>2, <1>3 DEF WellPrepared

LEMMA InstallKnown ==
    ASSUME IInv, Known, Install
    PROVE  Known'
<1>. DEFINE r == ledger[Len(ledger)]
            f == First(left)
<1>1. /\ pc = "install" /\ f \in left /\ left \subseteq DOMAIN r.after
      /\ f \in Files \ Premises
      /\ WellPrepared(r)
      /\ live' = [live EXCEPT ![f] = r.after[f]]
      /\ left' = left \ {f}
      /\ UNCHANGED <<ledger, seeds, pc, call, queue, draft, result, faults, edits>>
  BY InstallStep
<1>2. RecordsWell' /\ Chained'
  BY <1>1, RecordsUnchanged DEF Known
<1>3. live \in [Files -> Contents]
  BY DEF IInv, TypeOK
<1>4. /\ DOMAIN r.pre = Premises
      /\ DOMAIN r.after \subseteq Files
  BY <1>1 DEF WellPrepared
<1>5. Installs'
  BY <1>1, <1>3, <1>4, FilesAssumption DEF Known, Installs
<1>. QED
  BY <1>1, <1>2, <1>5 DEF Known, Drafting, OnTop

\* COMMITTED is appended behind a transition that is completely installed.
LEMMA AppendCommittedStep ==
    ASSUME IInv, AppendCommitted
    PROVE  /\ pc = "install" /\ left = {} /\ pc' = "verify"
           /\ Len(ledger) = 2 * Len(seeds) - 1 /\ Len(ledger) \in DOMAIN ledger
           /\ ledger' = Append(ledger, Committed(Len(seeds)))
           /\ UNCHANGED <<live, seeds, call, left, draft, result, faults, edits>>
<1>1. /\ pc = "install" /\ left = {}
      /\ ledger' = Append(ledger, Committed(Len(seeds)))
      /\ queue' = queue \ {Len(ledger)}
      /\ pc' = IF queue' = {} THEN "verify" ELSE "check"
      /\ UNCHANGED <<live, seeds, call, left, draft, result, faults, edits>>
      /\ Len(ledger) \in DOMAIN ledger
  BY Installing DEF AppendCommitted, Goto
<1>2. queue = {Len(ledger)} /\ Len(ledger) = 2 * Len(seeds) - 1
  BY <1>1 DEF IInv, Recovering
<1>. QED
  BY <1>1, <1>2

\* A line that is no PREPARED record, appended to the ledger, leaves the
\* records and their chain as they are.
LEMMA LineAppended ==
    ASSUME TypeOK, RecordsWell, Chained, UNCHANGED seeds, NEW r \in Records,
           r.kind # "PREPARED", r.kind = "TORN" => r = Torn, ledger' = Append(ledger, r)
    PROVE  RecordsWell' /\ Chained'
<1>1. /\ Len(ledger') = Len(ledger) + 1 /\ Len(ledger) \in Nat
      /\ DOMAIN ledger' = 1 .. Len(ledger) + 1 /\ DOMAIN ledger = 1 .. Len(ledger)
      /\ ledger'[Len(ledger) + 1] = r
      /\ \A i \in 1 .. Len(ledger) : ledger'[i] = ledger[i]
  BY DEF TypeOK
<1>2. ASSUME NEW i \in DOMAIN ledger'
      PROVE  \/ i \in DOMAIN ledger /\ ledger'[i] = ledger[i]
             \/ i = Len(ledger) + 1 /\ ledger'[i] = r
  BY <1>1
<1>3. RecordsWell'
  BY <1>2 DEF RecordsWell, WellPrepared, ValidPrepared, Seed, IsPrepared
<1>4. Chained'
  BY <1>2 DEF Chained, IsPrepared
<1>. QED
  BY <1>3, <1>4

LEMMA AppendCommittedKnown ==
    ASSUME IInv, Known, AppendCommitted
    PROVE  Known'
<1>1. /\ pc = "install" /\ pc' = "verify" /\ Len(seeds) \in Ids
      /\ ledger' = Append(ledger, Committed(Len(seeds)))
      /\ UNCHANGED <<live, seeds, call, left, draft, result, faults, edits>>
  BY AppendCommittedStep, BoundAssumption DEF IInv, TypeOK, Budget, Ids
<1>2. Committed(Len(seeds)) \in Records
  BY <1>1 DEF Committed, Records
<1>3. RecordsWell' /\ Chained'
  BY <1>1, <1>2, LineAppended DEF IInv, Known, Committed
<1>. QED
  BY <1>1, <1>3 DEF Known, Drafting, OnTop, Installs

\* Once the last pair is complete, its transition is the latest one.
LEMMA LatestIsLast ==
    ASSUME TypeOK, Serial, Whole = Len(ledger), Len(ledger) = 2 * Len(seeds), ledger # <<>>
    PROVE  /\ LatestCommitted = ledger[Len(ledger) - 1]
           /\ Len(ledger) - 1 \in DOMAIN ledger /\ IsPrepared(Len(ledger) - 1)
           /\ CommittedIds # {}
<1>. DEFINE n == Len(ledger)
            Last(j) == IsCommitted(j) /\ \A k \in DOMAIN ledger : IsCommitted(k) => k <= j
            Match(i) == IsPrepared(i) /\ ledger[i].id = ledger[n].id
<1>1. /\ DOMAIN ledger = 1 .. n /\ n \in Nat /\ Len(seeds) \in Nat
      /\ n \in DOMAIN ledger /\ n - 1 \in DOMAIN ledger
  BY DEF TypeOK
<1>2. IsCommitted(n) /\ IsPrepared(n - 1) /\ ledger[n].id = ledger[n - 1].id
  <2>1. /\ ledger[n].id \in Nat /\ ledger[n - 1].id \in Nat
        /\ \/ IsPrepared(n) /\ n = 2 * ledger[n].id - 1
           \/ IsCommitted(n) /\ n = 2 * ledger[n].id
        /\ \/ IsPrepared(n - 1) /\ n - 1 = 2 * ledger[n - 1].id - 1
           \/ IsCommitted(n - 1) /\ n - 1 = 2 * ledger[n - 1].id
    BY <1>1, WholeLines
  <2>. QED
    BY <1>1, <2>1
<1>3. \A j \in DOMAIN ledger : Last(j) <=> j = n
  BY <1>1, <1>2
<1>4. (CHOOSE j \in DOMAIN ledger : Last(j)) = n
  BY <1>1, <1>3
<1>5. \A i \in DOMAIN ledger : Match(i) <=> i = n - 1
  BY <1>1, <1>2, WholeLines DEF IsPrepared, IsCommitted
<1>6. (CHOOSE i \in DOMAIN ledger : Match(i)) = n - 1
  BY <1>1, <1>5
<1>7. LatestCommitted = ledger[n - 1]
  BY <1>4, <1>6 DEF LatestCommitted
<1>. QED
  BY <1>1, <1>2, <1>7 DEF CommittedIds

\* What verify_current has found out when commit() goes on.
LEMMA CurrentIsOnTop ==
    ASSUME TypeOK, Serial, Whole = Len(ledger), Len(ledger) = 2 * Len(seeds), Current,
           ledger # <<>>
    PROVE  \A f \in DOMAIN ledger[Len(ledger) - 1].after :
               live[f] = ledger[Len(ledger) - 1].after[f]
BY LatestIsLast DEF Current

LEMMA VerifyKnown ==
    ASSUME IInv, Known, Verify
    PROVE  Known'
<1>1. CASE Raise
  BY <1>1, RaiseKnown
<1>2. CASE Return /\ UNCHANGED durable
  BY <1>2, QuietKnown DEF Return, End
<1>3. CASE pc' = "plan"
  <2>1. /\ pc = "verify" /\ Current
        /\ UNCHANGED <<durable, call, queue, left, draft, result>>
    BY <1>3 DEF Verify, Return, Raise, End, Goto
  <2>2. RecordsWell' /\ Chained'
    BY <2>1, RecordsUnchanged DEF Known, durable
  <2>3. OnTop'
    BY <2>1, CurrentIsOnTop DEF IInv, Recovered, OnTop, durable
  <2>. QED
    BY <1>3, <2>1, <2>2, <2>3 DEF Known, Drafting, Installs
<1>. QED
  BY <1>1, <1>2, <1>3 DEF Verify, Goto

LEMMA PlanKnown ==
    ASSUME IInv, Known, Plan
    PROVE  Known'
<1>1. CASE Raise
  BY <1>1, RaiseKnown
<1>2. CASE Return /\ UNCHANGED durable
  BY <1>2, QuietKnown DEF Return, End
<1>3. CASE pc' = "stage"
  <2>1. /\ pc = "plan" /\ Read(Premises) = draft.pre
        /\ draft' = [draft EXCEPT !.before = Read(Targets)]
        /\ UNCHANGED <<durable, call, queue, left, result>>
    BY <1>3 DEF Plan, Return, Raise, End, Goto
  <2>2. RecordsWell' /\ Chained'
    BY <2>1, RecordsUnchanged DEF Known, durable
  <2>3. /\ draft'.new = draft.new /\ draft'.pre = draft.pre
        /\ draft'.before = Read(Targets)
    BY <2>1 DEF IInv, TypeOK, Drafts
  <2>4. Drafting'
    BY <1>3, <2>1, <2>3 DEF Known, Drafting, Read, Targets, durable
  <2>. QED
    BY <1>3, <2>1, <2>2, <2>4 DEF Known, OnTop, Installs, durable
<1>. QED
  BY <1>1, <1>2, <1>3 DEF Plan, Goto

LEMMA StageKnown ==
    ASSUME IInv, Known, Stage
    PROVE  Known'
<1>1. /\ pc = "stage" /\ pc' = "prepare"
      /\ draft' = [draft EXCEPT !.staged = Read(Targets)]
      /\ UNCHANGED <<durable, call, queue, left, result>>
  BY DEF Stage, Goto
<1>2. RecordsWell' /\ Chained'
  BY <1>1, RecordsUnchanged DEF Known, durable
<1>3. /\ draft'.new = draft.new /\ draft'.pre = draft.pre
      /\ draft'.before = draft.before /\ draft'.staged = Read(Targets)
  BY <1>1 DEF IInv, TypeOK, Drafts
<1>4. Drafting'
  BY <1>1, <1>3 DEF Known, Drafting, Read, Targets, durable
<1>. QED
  BY <1>1, <1>2, <1>4 DEF Known, OnTop, Installs, durable

\* What Prepare writes: the next record, made from what is on the disk.
LEMMA PrepareStep ==
    ASSUME IInv, Known, Prepare
    PROVE  LET m == Len(seeds) + 1
           IN  /\ pc = "prepare" /\ pc' = "load" /\ call' = "settle"
               /\ Len(ledger) = 2 * Len(seeds) /\ Whole = Len(ledger) /\ m \in Ids
               /\ draft.new \in Requests /\ draft.pre = Read(Premises)
               /\ ledger' = Append(ledger, Prepared(m, Read(Targets), After(m), draft.pre))
               /\ seeds' = Append(seeds, Seed(Read(Targets), After(m), draft.pre))
               /\ UNCHANGED <<live, draft>>
<1>. DEFINE m == Len(seeds) + 1
<1>1. /\ pc = "prepare" /\ call = "commit"
      /\ Len(ledger) = 2 * Len(seeds) /\ Whole = Len(ledger)
  BY DEF Prepare, IInv, Recovered, Budget
<1>2. Len(seeds) \in Nat /\ DOMAIN seeds = 1 .. Len(seeds) /\ m \in Ids
  BY <1>1, BoundAssumption DEF IInv, TypeOK, Budget, Ids
<1>3. IdOf(DraftSeed) = m /\ m \notin DOMAIN seeds
  BY <1>1, <1>2 DEF IInv, FreshSeed, IdOf
<1>4. /\ draft.new \in Requests /\ draft.pre = Read(Premises)
      /\ draft.before = Read(Targets) /\ draft.staged = Read(Targets)
  BY <1>1 DEF Known, Drafting
<1>5. DraftSeed = Seed(Read(Targets), After(m), draft.pre)
  <2>1. PICK T \in SUBSET (Files \ (Premises \cup {Trusted})) : draft.new \in [T -> Values]
    BY <1>4 DEF Requests
  <2>2. DOMAIN After(m) = T \cup {Trusted} /\ Trusted \notin T
    BY <2>1 DEF After, Targets
  <2>3. \A f \in T : After(m)[f] = draft.new[f]
    BY <2>1, <2>2 DEF After, Targets
  <2>4. draft.new = [f \in DOMAIN After(m) \ {Trusted} |-> After(m)[f]]
    BY <2>1, <2>2, <2>3
  <2>. QED
    BY <1>4, <2>4 DEF DraftSeed, Seed
<1>. QED
  BY <1>1, <1>2, <1>3, <1>4, <1>5 DEF Prepare, Goto

LEMMA PrepareKnown ==
    ASSUME IInv, Known, Prepare
    PROVE  Known'
<1>. DEFINE n == Len(ledger)
            m == Len(seeds) + 1
            r == Prepared(m, Read(Targets), After(m), draft.pre)
            s == Seed(Read(Targets), After(m), draft.pre)
<1>1. /\ pc = "prepare" /\ pc' = "load" /\ call' = "settle"
      /\ n = 2 * Len(seeds) /\ Whole = n /\ m \in Ids
      /\ draft.new \in Requests /\ draft.pre = Read(Premises)
      /\ ledger' = Append(ledger, r)
      /\ seeds' = Append(seeds, s)
      /\ UNCHANGED <<live, draft>>
  BY PrepareStep
<1>2. /\ n \in Nat /\ DOMAIN ledger = 1 .. n
      /\ Len(seeds) \in Nat /\ DOMAIN seeds = 1 .. Len(seeds)
  BY DEF IInv, TypeOK
<1>3. /\ DOMAIN ledger' = 1 .. n + 1
      /\ ledger'[n + 1] = r
      /\ \A i \in 1 .. n : ledger'[i] = ledger[i]
  <2>1. ledger \in Seq(Records) /\ draft.pre \in Snapshot
    BY DEF IInv, TypeOK, Drafts
  <2>2. r \in Records
    BY <1>1, <2>1, DraftTargets, ReadIsSnapshot
    DEF Prepared, Records, PreparedRecords, IInv
  <2>3. n \in Nat /\ ledger' = Append(ledger, r)
    BY <1>1, <1>2
  <2>. HIDE DEF r
  <2>. QED
    BY <2>1, <2>2, <2>3
<1>4. /\ DOMAIN seeds' = 1 .. m
      /\ seeds'[m] = s
      /\ \A i \in DOMAIN seeds : i \in DOMAIN seeds' /\ seeds'[i] = seeds[i]
  BY <1>1, <1>2 DEF IInv, TypeOK
<1>5. PICK T \in SUBSET (Files \ (Premises \cup {Trusted})) :
        Graph \in T /\ draft.new \in [T -> Values]
  BY <1>1 DEF Requests
<1>6. /\ Targets = T \cup {Trusted} /\ Trusted \notin T /\ Trusted \in Files \ Premises
      /\ DOMAIN After(m) = Targets /\ After(m)[Trusted] = m
      /\ \A f \in T : After(m)[f] \in Values
  BY <1>5, FilesAssumption DEF Targets, After
<1>7. DOMAIN Read(Targets) = Targets /\ DOMAIN Read(Premises) = Premises
  BY DEF Read
<1>8. ASSUME NEW i \in 1 .. n + 1, i = n + 1
      PROVE  WellPrepared(ledger[i])'
  <2>1. ledger'[i] = r
    BY <1>3, <1>8
  <2>2. ledger'[i].id = m /\ ledger'[i].before = Read(Targets) /\ ledger'[i].after = After(m)
        /\ ledger'[i].pre = draft.pre
    BY <2>1 DEF Prepared
  <2>3. ValidPrepared(ledger[i])'
    <3>1. seeds'[ledger'[i].id] = Seed(ledger'[i].before, ledger'[i].after, ledger'[i].pre)
      BY <1>4, <2>2
    <3>2. Seed(ledger'[i].before, ledger'[i].after, ledger'[i].pre)
            = Seed(ledger[i].before, ledger[i].after, ledger[i].pre)'
      BY DEF Seed
    <3>. QED
      BY <1>2, <1>4, <1>5, <1>6, <2>2, <3>1, <3>2 DEF ValidPrepared
  <2>. QED
    BY <1>1, <1>6, <1>7, <2>2, <2>3 DEF WellPrepared
<1>9. RecordsWell'
  <2>1. ASSUME NEW i \in 1 .. n
        PROVE  /\ IsPrepared(i)' => WellPrepared(ledger[i])'
               /\ ledger'[i].kind = "TORN" => ledger'[i] = Torn
    <3>1. ledger'[i] = ledger[i] /\ i \in DOMAIN ledger
      BY <1>2, <1>3
    <3>2. ledger[i].kind = "TORN" => ledger[i] = Torn
      BY <3>1 DEF Known, RecordsWell
    <3>3. ASSUME IsPrepared(i)
          PROVE  WellPrepared(ledger[i])'
      <4>1. WellPrepared(ledger[i])
        BY <3>1, <3>3 DEF Known, RecordsWell
      <4>2. ledger[i].id \in DOMAIN seeds'
            /\ seeds'[ledger[i].id] = Seed(ledger[i].before, ledger[i].after, ledger[i].pre)
        BY <1>4, <4>1 DEF WellPrepared, ValidPrepared
      <4>. QED
        BY <3>1, <4>1, <4>2 DEF WellPrepared, ValidPrepared, Seed
    <3>. QED
      BY <3>1, <3>2, <3>3 DEF IsPrepared
  <2>2. ledger'[n + 1].kind # "TORN"
    BY <1>3 DEF Prepared
  <2>. QED
    BY <1>2, <1>3, <1>8, <2>1, <2>2 DEF RecordsWell, IsPrepared
<1>10. Chained'
  <2>1. ASSUME NEW i \in 1 .. n, i + 2 = n + 1, NEW f \in {Graph, Trusted}
        PROVE  r.before[f] = ledger[i].after[f]
    <3>1. f \in DOMAIN ledger[i].after
      <4>1. IsPrepared(n - 1) /\ i = n - 1
        BY <1>1, <1>2, <2>1, WholeLines DEF IInv, IsPrepared, IsCommitted
      <4>. QED
        BY <1>2, <4>1 DEF Known, RecordsWell, WellPrepared, ValidPrepared
    <3>2. live[f] = ledger[i].after[f]
      <4>0. n \in Nat
        BY <1>2
      <4>1. n # 0 /\ i = n - 1
        BY <4>0, <2>1
      <4>2. ledger # <<>>
        BY <4>1
      <4>. QED
        BY <1>1, <3>1, <4>1, <4>2 DEF Known, OnTop
    <3>3. f \in Targets
      BY <1>5, <1>6
    <3>. QED
      BY <3>2, <3>3 DEF Prepared, Read
  <2>. QED
    BY <1>2, <1>3, <2>1 DEF Known, Chained, IsPrepared
<1>. QED
  BY <1>1, <1>9, <1>10 DEF Known, Drafting, OnTop, Installs

LEMMA CrashKnown ==
    ASSUME IInv, Known, Crash \/ CrashTorn
    PROVE  Known'
<1>1. CASE Crash
  BY <1>1, QuietKnown DEF Crash, Die
<1>2. CASE CrashTorn
  <2>1. /\ pc' = "down" /\ call' = "none"
        /\ ledger' = Append(ledger, Torn) /\ UNCHANGED <<live, seeds>>
    BY <1>2 DEF CrashTorn, Die
  <2>2. Torn \in Records /\ Torn.kind # "PREPARED"
    BY BoundAssumption DEF Torn, Records, Ids
  <2>3. RecordsWell' /\ Chained'
    BY <2>1, <2>2, LineAppended DEF IInv, Known
  <2>. QED
    BY <2>1, <2>3 DEF Known, Drafting, OnTop, Installs
<1>. QED
  BY <1>1, <1>2

\* An edit at rest meets no running call.
LEMMA EditKnown ==
    ASSUME IInv, Known, Calm', NEW f \in Files, NEW c \in Editable(f), Edit(f, c)
    PROVE  Known'
<1>1. AtRest /\ UNCHANGED <<ledger, seeds, volatile>>
  BY BoundAssumption DEF Edit, Calm, IInv, TypeOK
<1>2. RecordsWell' /\ Chained'
  BY <1>1, RecordsUnchanged DEF Known
<1>. QED
  BY <1>1, <1>2 DEF Known, Drafting, OnTop, Installs, AtRest, volatile

\* A step counts at most one edit, so that calm is never regained.
LEMMA EditsCount ==
    ASSUME [Next]_vars
    PROVE  edits' = edits \/ edits' = edits + 1
BY DEF Next, BeginRecover, BeginCommit, Run, Recover, Commit, Load, Check, Install,
       AppendCommitted, Verify, Plan, Stage, Prepare, WriteFails, Crash, CrashTorn,
       Restart, Edit, vars

LEMMA CalmBefore ==
    ASSUME IInv, [Next]_vars, Calm'
    PROVE  Calm
BY EditsCount DEF Calm, IInv, TypeOK

LEMMA StepKnown ==
    ASSUME IInv, Known, Calm', [Next]_vars
    PROVE  Known'
<1>1. CASE WriteFails
  BY <1>1, RaiseKnown DEF WriteFails
<1>2. CASE Restart
  BY <1>2, QuietKnown DEF Restart, Goto, Known, Drafting
<1>3. CASE Run
  BY <1>3, LoadKnown, CheckKnown, InstallKnown, AppendCommittedKnown,
     VerifyKnown, PlanKnown, StageKnown, PrepareKnown
  DEF Run, Recover, Commit
<1>4. CASE \E f \in Files : \E c \in Editable(f) : Edit(f, c)
  BY <1>4, EditKnown
<1>5. CASE UNCHANGED vars
  BY <1>5, RecordsUnchanged
  DEF Known, Drafting, OnTop, Installs, Read, Targets, vars, durable, volatile
<1>. QED
  BY <1>1, <1>2, <1>3, <1>4, <1>5, BeginKnown, CrashKnown DEF Next

\* The ledger stays serial, and the files are known as long as they are calm.
THEOREM KnownWhileCalm == Spec => []KInv
<1>1. Init => KInv
  <2>1. Init => Known
    BY DEF Init, Known, RecordsWell, Chained, Drafting, OnTop, Installs
  <2>. QED
    BY <2>1, InitIInv DEF KInv
<1>2. KInv /\ [Next]_vars => KInv'
  BY StepIInv, StepKnown, CalmBefore DEF KInv
<1>. QED
  BY <1>1, <1>2, PTL DEF Spec

-----------------------------------------------------------------------------
(* The safety properties that depend on the files being calm *)

\* A ledger with no torn line, of the records the store writes, is accepted.
LEMMA KnownAccepted ==
    ASSUME IInv, Known
    PROVE  LedgerAccepted
<1>. SUFFICES ASSUME \A i \in DOMAIN ledger : ledger[i] # Torn
              PROVE  ValidLedger
  BY DEF LedgerAccepted
<1>1. \A i \in DOMAIN ledger : ledger[i].kind # "TORN"
  BY DEF Known, RecordsWell
<1>2. /\ DOMAIN ledger = 1 .. Len(ledger) /\ Len(ledger) \in Nat
      /\ ledger # <<>> => Len(ledger) \in DOMAIN ledger
  BY DEF IInv, TypeOK
<1>3. Whole = Len(ledger)
  BY <1>1, <1>2 DEF Whole
<1>4. \A i \in DOMAIN ledger :
        /\ ledger[i].id \in Nat
        /\ \/ IsPrepared(i) /\ i = 2 * ledger[i].id - 1
           \/ IsCommitted(i) /\ i = 2 * ledger[i].id
  BY <1>3, WholeLines DEF IInv
<1>5. \A i \in DOMAIN ledger : IsPrepared(i) => ValidPrepared(ledger[i])
  BY DEF Known, RecordsWell, WellPrepared
<1>6. \A i, j \in DOMAIN ledger :
        i # j /\ ledger[i].kind = ledger[j].kind => ledger[i].id # ledger[j].id
  BY <1>2, <1>4 DEF IsPrepared, IsCommitted
<1>7. ASSUME NEW j \in DOMAIN ledger, IsCommitted(j)
      PROVE  \E i \in 1 .. j - 1 : IsPrepared(i) /\ ledger[i].id = ledger[j].id
  <2>1. /\ ledger[j].id \in Nat /\ j \in Nat /\ j = 2 * ledger[j].id /\ j # 0
        /\ j - 1 \in DOMAIN ledger /\ j - 1 \in 1 .. j - 1
    BY <1>2, <1>4, <1>7 DEF IsPrepared, IsCommitted
  <2>2. IsPrepared(j - 1) /\ ledger[j - 1].id = ledger[j].id
    BY <1>4, <2>1
  <2>. QED
    BY <2>1, <2>2
<1>. QED
  BY <1>1, <1>5, <1>6, <1>7 DEF ValidLedger

\* A step that appends no COMMITTED line commits nothing.
LEMMA NothingCommitted ==
    ASSUME TypeOK, \/ UNCHANGED ledger
                   \/ \E r : r.kind # "COMMITTED" /\ ledger' = Append(ledger, r)
                             /\ ledger' \in Seq(Records)
    PROVE  CommitsWhatIsInstalled
<1>1. \A j \in DOMAIN ledger' : ledger'[j].kind = "COMMITTED" =>
        j \in DOMAIN ledger /\ ledger'[j] = ledger[j]
  <2>1. CASE UNCHANGED ledger
    BY <2>1
  <2>2. ASSUME NEW r, r.kind # "COMMITTED", ledger' = Append(ledger, r),
               ledger' \in Seq(Records)
        PROVE  \A j \in DOMAIN ledger' : ledger'[j].kind = "COMMITTED" =>
                 j \in DOMAIN ledger /\ ledger'[j] = ledger[j]
    BY <2>2 DEF TypeOK
  <2>. QED
    BY <2>1, <2>2
<1>2. CommittedIds' \subseteq CommittedIds
  BY <1>1 DEF CommittedIds, IsCommitted
<1>. QED
  BY <1>2 DEF CommitsWhatIsInstalled, Pending

LEMMA CommitsWell ==
    ASSUME IInv, Known, IInv', [Next]_vars
    PROVE  CommitsWhatIsInstalled
<1>1. CASE AppendCommitted
  <2>1. /\ pc = "install" /\ left = {}
        /\ Len(ledger) = 2 * Len(seeds) - 1 /\ Whole = Len(ledger)
    BY <1>1, AppendCommittedStep DEF IInv, Recovering
  <2>2. Pending = {Len(ledger)}
    BY <2>1, OnePending DEF IInv
  <2>. QED
    BY <2>1, <2>2 DEF CommitsWhatIsInstalled, Known, Installs
<1>2. CASE Prepare
  <2>1. PICK r : r.kind # "COMMITTED" /\ ledger' = Append(ledger, r)
    BY <1>2 DEF Prepare, Prepared
  <2>. QED
    BY <2>1, NothingCommitted DEF IInv, TypeOK
<1>3. CASE CrashTorn
  <2>1. Torn.kind # "COMMITTED" /\ ledger' = Append(ledger, Torn)
    BY <1>3 DEF CrashTorn, Torn
  <2>. QED
    BY <2>1, NothingCommitted DEF IInv, TypeOK
<1>4. CASE ~(AppendCommitted \/ Prepare \/ CrashTorn)
  <2>1. UNCHANGED ledger
    BY <1>4 DEF Next, Run, Recover, Commit, BeginRecover, BeginCommit, Load, Check,
         Install, Verify, Plan, Stage, WriteFails, Crash, Die, Restart, Edit, Return,
         Raise, End, vars, durable
  <2>. QED
    BY <2>1, NothingCommitted DEF IInv
<1>. QED
  BY <1>1, <1>2, <1>3, <1>4

LEMMA WritesWell ==
    ASSUME IInv, Known, [Next]_vars
    PROVE  ReplacesWhatItRead
<1>1. CASE Install
  <2>. DEFINE r == ledger[Len(ledger)]
              f == First(left)
  <2>1. /\ pc = "install" /\ f \in left /\ left \subseteq DOMAIN r.after
        /\ WellPrepared(r)
        /\ live' = [live EXCEPT ![f] = r.after[f]]
    BY <1>1, InstallStep
  <2>2. Pending = {Len(ledger)}
    BY <2>1, OnePending DEF IInv, Recovering
  <2>3. live[f] \in {r.before[f], r.after[f]} /\ f \in DOMAIN r.before
    BY <2>1 DEF Known, Installs, WellPrepared
  <2>4. \A g \in Files : live'[g] # live[g] => g = f
    BY <2>1 DEF IInv, TypeOK
  <2>5. live'[f] # live[f] => live[f] = r.before[f]
    BY <2>1, <2>3 DEF IInv, TypeOK
  <2>. QED
    BY <2>2, <2>3, <2>4, <2>5 DEF ReplacesWhatItRead
<1>2. CASE \E f \in Files : \E c \in Editable(f) : Edit(f, c)
  BY <1>2 DEF Edit, ReplacesWhatItRead, IInv, TypeOK
<1>3. CASE ~Install /\ ~(\E f \in Files : \E c \in Editable(f) : Edit(f, c))
  <2>1. UNCHANGED live
    BY <1>3 DEF Next, Run, Recover, Commit, BeginRecover, BeginCommit, Load, Check,
         AppendCommitted, Verify, Plan, Stage, Prepare, WriteFails, Crash, CrashTorn, Die,
         Restart, Return, Raise, End, vars, durable
  <2>. QED
    BY <2>1 DEF ReplacesWhatItRead
<1>. QED
  BY <1>1, <1>2, <1>3

-----------------------------------------------------------------------------
(* The store implements CanonicalState *)

\* The shape of the ledger at the two kinds of control point, and after a
\* torn line.
LEMMA FinishedView ==
    ASSUME TypeOK, ~Unfinished
    PROVE  Overlay = live
BY DEF Overlay, TypeOK

LEMMA EvenIsFinished ==
    ASSUME TypeOK, Len(ledger) = 2 * Len(seeds)
    PROVE  ~Unfinished
BY DEF Unfinished, TypeOK

LEMMA OddIsUnfinished ==
    ASSUME TypeOK, Serial, Whole = Len(ledger), Len(ledger) = 2 * Len(seeds) - 1
    PROVE  Unfinished
BY OnePending DEF Unfinished, TypeOK

\* The transition of an unfinished ledger.
LEMMA UnfinishedLast ==
    ASSUME IInv, Known, Unfinished
    PROVE  /\ Whole = Len(ledger) /\ Len(ledger) = 2 * Len(seeds) - 1
           /\ Len(ledger) \in DOMAIN ledger
           /\ WellPrepared(ledger[Len(ledger)])
           /\ ledger[Len(ledger)].id = Len(seeds)
<1>1. Len(ledger) \in DOMAIN ledger /\ ledger # <<>>
  BY DEF Unfinished, IInv, TypeOK
<1>2. Whole = Len(ledger)
  BY <1>1 DEF Unfinished, IsPrepared, Whole
<1>3. Len(ledger) = 2 * Len(seeds) - 1
  BY <1>2, EvenIsFinished DEF IInv, Counted
<1>4. ledger[Len(ledger)].id = Len(seeds)
  BY <1>2, <1>3, OnePending DEF IInv
<1>. QED
  BY <1>1, <1>2, <1>3, <1>4 DEF Unfinished, Known, RecordsWell

\* A function on 1 .. n + 1 that continues a sequence of length n.
LEMMA IsAppend ==
    ASSUME NEW S, NEW s \in Seq(S), NEW e, NEW t,
           t = [k \in 1 .. Len(s) + 1 |-> t[k]],
           \A k \in 1 .. Len(s) : t[k] = s[k], t[Len(s) + 1] = e
    PROVE  t = Append(s, e)
<1>. DEFINE U == S \cup {e}
<1>1. s \in Seq(U) /\ e \in U /\ Len(s) \in Nat
  BY SeqDef
<1>2. /\ Append(s, e) \in Seq(U) /\ Len(Append(s, e)) = Len(s) + 1
      /\ \A i \in 1 .. Len(s) : Append(s, e)[i] = s[i]
      /\ Append(s, e)[Len(s) + 1] = e
  BY <1>1, AppendProperties
<1>3. \A k \in 1 .. Len(s) + 1 : t[k] = Append(s, e)[k]
  BY <1>1, <1>2
<1>4. \A k \in 1 .. Len(s) + 1 : Append(s, e)[k] \in U
  BY <1>2, ElementOfSeq
<1>5. t \in [1 .. Len(s) + 1 -> U]
  BY <1>3, <1>4
<1>6. t \in Seq(U) /\ Len(t) = Len(s) + 1
  BY <1>1, <1>5, SeqDef
<1>. QED
  BY <1>1, <1>2, <1>3, <1>6, SeqEqual

\* History is a sequence as long as the hashed seeds.
LEMMA HistoryLength ==
    ASSUME TypeOK
    PROVE  /\ Len(History) = Len(seeds) /\ DOMAIN History = 1 .. Len(seeds)
           /\ \E S : History \in Seq(S)
<1>1. Len(seeds) \in Nat
  BY DEF TypeOK
<1>. DEFINE S == {History[k] : k \in 1 .. Len(seeds)}
<1>2. History \in [1 .. Len(seeds) -> S] /\ DOMAIN History = 1 .. Len(seeds)
  BY DEF History
<1>3. History \in Seq(S)
  BY <1>1, <1>2, SeqDef
<1>4. Len(History) = Len(seeds)
  BY <1>1, <1>2, <1>3
<1>. QED
  BY <1>2, <1>3, <1>4

\* A step that hashes no seed and only appends to the ledger keeps History.
LEMMA HistoryKept ==
    ASSUME IInv, UNCHANGED seeds,
           \A i \in DOMAIN ledger : i \in DOMAIN ledger' /\ ledger'[i] = ledger[i]
    PROVE  History' = History
<1>1. /\ Len(ledger) >= Whole /\ Whole >= 2 * Len(seeds) - 1
      /\ Whole \in Int /\ Len(seeds) \in Nat
      /\ Len(ledger) \in Nat /\ DOMAIN ledger = 1 .. Len(ledger)
  BY DEF IInv, Counted, Whole, TypeOK
<1>2. ASSUME NEW k \in 1 .. Len(seeds)
      PROVE  2 * k - 1 \in DOMAIN ledger
  <2>1. k \in Nat /\ 1 <= k /\ k <= Len(seeds)
    BY <1>1
  <2>2. 2 * k - 1 <= Whole /\ 1 <= 2 * k - 1
    <3>. HIDE DEF Whole
    <3>. QED
      BY <1>1, <2>1
  <2>. QED
    BY <1>1, <2>1, <2>2
<1>3. \A k \in 1 .. Len(seeds) : ledger'[2 * k - 1] = ledger[2 * k - 1]
  BY <1>2
<1>. QED
  BY <1>3 DEF History

LEMMA Stutters ==
    ASSUME Overlay' = Overlay, History' = History
    PROVE  [Abstract!Next]_(Abstract!vars)
BY DEF Abstract!vars

LEMMA SameViewStutters ==
    ASSUME IInv, UNCHANGED <<live, ledger, seeds>>
    PROVE  [Abstract!Next]_(Abstract!vars)
<1>1. Overlay' = Overlay
  BY DEF Overlay, Unfinished, IsPrepared
<1>2. History' = History
  BY HistoryKept
<1>. QED
  BY <1>1, <1>2, Stutters

LEMMA InstallStutters ==
    ASSUME IInv, Known, Install
    PROVE  [Abstract!Next]_(Abstract!vars)
<1>. DEFINE r == ledger[Len(ledger)]
            f == First(left)
<1>1. /\ pc = "install" /\ f \in left /\ left \subseteq DOMAIN r.after
      /\ f \in Files
      /\ live' = [live EXCEPT ![f] = r.after[f]]
      /\ UNCHANGED <<ledger, seeds>>
  BY InstallStep
<1>2. Unfinished /\ Unfinished'
  BY <1>1, OddIsUnfinished DEF IInv, Recovering, Unfinished, IsPrepared
<1>3. live[f] \in {r.before[f], r.after[f]}
  BY <1>1 DEF Known, Installs
<1>4. live \in [Files -> Contents] /\ live' \in [Files -> Contents]
  BY <1>1, Installing DEF IInv, TypeOK
<1>5. \A g \in Files : Overlay'[g] = Overlay[g]
  <2>1. ASSUME NEW g \in Files, g # f
        PROVE  Overlay'[g] = Overlay[g]
    BY <1>1, <1>2, <1>4, <2>1 DEF Overlay
  <2>2. Overlay'[f] = r.after[f] /\ Overlay[f] = r.after[f]
    BY <1>1, <1>2, <1>3, <1>4 DEF Overlay
  <2>. QED
    BY <2>1, <2>2
<1>6. Overlay' = Overlay
  BY <1>5 DEF Overlay
<1>7. History' = History
  BY <1>1, HistoryKept
<1>. QED
  BY <1>6, <1>7, Stutters

\* The line behind a transition that is installed changes nothing to be seen.
LEMMA InstalledView ==
    ASSUME IInv, Known, pc = "install", left = {}
    PROVE  Overlay = live
<1>. DEFINE r == ledger[Len(ledger)]
<1>1. \A f \in DOMAIN r.after : live[f] = r.after[f]
  BY DEF Known, Installs
<1>2. \A f \in Files : Overlay[f] = live[f]
  BY <1>1 DEF Overlay
<1>. QED
  BY <1>2 DEF Overlay, IInv, TypeOK

LEMMA ClosingStutters ==
    ASSUME IInv, Known, IInv', UNCHANGED <<live, seeds>>, Overlay = live,
           NEW r \in Records, r.kind # "PREPARED", ledger' = Append(ledger, r)
    PROVE  [Abstract!Next]_(Abstract!vars)
<1>1. /\ Len(ledger') = Len(ledger) + 1 /\ Len(ledger) \in Nat
      /\ DOMAIN ledger = 1 .. Len(ledger) /\ DOMAIN ledger' = 1 .. Len(ledger) + 1
      /\ ledger'[Len(ledger) + 1] = r
      /\ \A i \in 1 .. Len(ledger) : ledger'[i] = ledger[i]
  BY DEF IInv, TypeOK
<1>2. ~Unfinished'
  BY <1>1 DEF Unfinished, IsPrepared
<1>3. Overlay' = live'
  BY <1>2 DEF Overlay, IInv, TypeOK
<1>4. History' = History
  BY <1>1, HistoryKept
<1>. QED
  BY <1>3, <1>4, Stutters

\* Prepare is the step that makes the transition.
LEMMA PrepareTransits ==
    ASSUME IInv, Known, Prepare
    PROVE  \E new \in Abstract!Requests : Abstract!Transit(new)
<1>. DEFINE n == Len(ledger)
            m == Len(seeds) + 1
            r == Prepared(m, Read(Targets), After(m), draft.pre)
            h == [before |-> Read(Targets), after |-> After(m)]
<1>1. /\ pc = "prepare"
      /\ n = 2 * Len(seeds) /\ Whole = n
      /\ draft.new \in Requests
      /\ ledger' = Append(ledger, r)
      /\ UNCHANGED live
  BY PrepareStep
<1>2. IInv' /\ Len(seeds') = m
  BY PreparePreserves, PrepareStep DEF IInv, TypeOK
<1>3. /\ n \in Nat /\ DOMAIN ledger = 1 .. n /\ Len(seeds) \in Nat
      /\ ledger \in Seq(Records) /\ ledger' \in Seq(Records)
  BY <1>2 DEF IInv, TypeOK
<1>4. /\ Len(ledger') = n + 1 /\ ledger'[n + 1] = r
      /\ \A i \in 1 .. n : ledger'[i] = ledger[i]
  <2>1. ledger' = Append(ledger, r)
    BY <1>1
  <2>. HIDE DEF r
  <2>. QED
    BY <1>3, <2>1
<1>5. Overlay = live
  BY <1>1, EvenIsFinished, FinishedView DEF IInv
<1>6. PICK T \in SUBSET (Files \ (Premises \cup {Trusted})) :
        Graph \in T /\ draft.new \in [T -> Values]
  BY <1>1 DEF Requests
<1>7. /\ Targets = T \cup {Trusted} /\ Targets \subseteq Files
      /\ DOMAIN After(m) = Targets
      /\ Graph \in Targets /\ Trusted \in Targets
  BY <1>6, FilesAssumption DEF Targets, After
<1>8. Len(History) = Len(seeds) /\ DOMAIN History = 1 .. Len(seeds)
  BY HistoryLength DEF IInv
<1>9. Abstract!Untouched
  <2>1. ASSUME History # <<>>, NEW f \in {Graph, Trusted}
        PROVE  Overlay[f] = History[Len(History)].after[f]
    <3>1. Len(seeds) # 0
      BY <1>3, <1>8, <2>1, HistoryLength DEF IInv
    <3>2. n # 0 /\ n - 1 \in DOMAIN ledger /\ 2 * Len(seeds) - 1 = n - 1
          /\ Len(seeds) \in 1 .. Len(seeds)
      BY <1>1, <1>3, <3>1
    <3>3. IsPrepared(n - 1)
      BY <1>1, <1>3, <3>2, LatestIsLast DEF IInv
    <3>4. f \in DOMAIN ledger[n - 1].after
      BY <3>2, <3>3 DEF Known, RecordsWell, WellPrepared, ValidPrepared
    <3>5. live[f] = ledger[n - 1].after[f]
      BY <1>1, <3>2, <3>4 DEF Known, OnTop
    <3>6. History[Len(History)].after = ledger[n - 1].after
      BY <1>8, <3>2 DEF History
    <3>. QED
      BY <1>5, <3>5, <3>6
  <2>. QED
    BY <2>1 DEF Abstract!Untouched
<1>10. History' = Append(History, h)
  <2>1. History' = [k \in 1 .. m |-> [before |-> ledger'[2 * k - 1].before,
                                     after |-> ledger'[2 * k - 1].after]]
    BY <1>2 DEF History
  <2>2. m \in Nat /\ m = Len(seeds) + 1 /\ 2 * m - 1 = n + 1 /\ m \in 1 .. m
    BY <1>1, <1>3
  <2>3. ASSUME NEW k \in 1 .. Len(seeds)
        PROVE  History'[k] = History[k]
    <3>1. 2 * k - 1 \in 1 .. n /\ k \in 1 .. m
      BY <1>1, <1>3
    <3>2. ledger'[2 * k - 1] = ledger[2 * k - 1]
      BY <1>4, <3>1
    <3>. QED
      BY <2>1, <3>1, <3>2 DEF History
  <2>4. History'[m] = h
    <3>1. ledger'[2 * m - 1].before = Read(Targets) /\ ledger'[2 * m - 1].after = After(m)
      BY <1>4, <2>2 DEF Prepared
    <3>2. History'[m] = [before |-> ledger'[2 * m - 1].before,
                         after |-> ledger'[2 * m - 1].after]
      BY <2>1, <2>2
    <3>. QED
      BY <3>1, <3>2
  <2>5. PICK S : History \in Seq(S)
    BY HistoryLength DEF IInv
  <2>. HIDE DEF h
  <2>6. History' = [k \in 1 .. Len(History) + 1 |-> History'[k]]
    BY <1>8, <2>1, <2>2
  <2>. QED
    BY <1>8, <2>2, <2>3, <2>4, <2>5, <2>6, IsAppend
<1>11. Overlay' = [f \in Files |-> IF f \in Targets THEN After(m)[f] ELSE Overlay[f]]
  <2>1. Unfinished'
    BY <1>1, <1>3, <1>4 DEF Unfinished, IsPrepared, Prepared
  <2>2. ledger'[Len(ledger')].before = Read(Targets) /\ ledger'[Len(ledger')].after = After(m)
    BY <1>4 DEF Prepared
  <2>3. \A f \in Targets : Read(Targets)[f] = live[f]
    BY DEF Read
  <2>. QED
    BY <1>1, <1>5, <1>7, <2>1, <2>2, <2>3 DEF Overlay
<1>12. Abstract!Transit(draft.new)
  <2>1. After(m) = [f \in Targets |-> IF f = Trusted THEN Len(History) + 1 ELSE draft.new[f]]
    BY <1>8 DEF After
  <2>2. h.before = [f \in Targets |-> Overlay[f]]
    BY <1>5 DEF Read
  <2>. QED
    BY <1>9, <1>10, <1>11, <2>1, <2>2 DEF Abstract!Transit, Targets
<1>. QED
  BY <1>1, <1>12 DEF Requests, Abstract!Requests

\* An edit of a file that a pending transition has still to write shows that
\* transition's bytes when it puts the before bytes back.
LEMMA EditEdits ==
    ASSUME IInv, Known, IInv', NEW f \in Files, NEW c \in Editable(f), Edit(f, c)
    PROVE  \E d \in Values \cup 0 .. Len(History) : Abstract!Edit(f, d)
<1>. DEFINE r == ledger[Len(ledger)]
            d == Overlay'[f]
<1>1. live' = [live EXCEPT ![f] = c] /\ UNCHANGED <<ledger, seeds>>
  BY DEF Edit
<1>2. History' = History /\ Len(History) = Len(seeds)
  BY <1>1, HistoryKept, HistoryLength DEF IInv
<1>3. live \in [Files -> Contents] /\ Unfinished' = Unfinished
  BY <1>1 DEF IInv, TypeOK, Unfinished, IsPrepared
<1>4. c \in Values \cup 0 .. Len(seeds)
  BY DEF Editable
<1>5. d \in Values \cup 0 .. Len(seeds)
  <2>1. d = c \/ (Unfinished /\ f \in DOMAIN r.after /\ d = r.after[f])
    BY <1>1, <1>3 DEF Overlay
  <2>2. ASSUME Unfinished, f \in DOMAIN r.after
        PROVE  r.after[f] \in Values \cup 0 .. Len(seeds)
    <3>1. WellPrepared(r) /\ r.id = Len(seeds) /\ Len(seeds) \in Nat
      BY <2>2, UnfinishedLast DEF IInv, TypeOK
    <3>. QED
      BY <2>2, <3>1 DEF WellPrepared, ValidPrepared
  <2>. QED
    BY <1>4, <2>1, <2>2
<1>6. Overlay' = [Overlay EXCEPT ![f] = d]
  <2>1. \A g \in Files : g # f => Overlay'[g] = Overlay[g]
    BY <1>1, <1>3 DEF Overlay
  <2>. QED
    BY <2>1 DEF Overlay
<1>. QED
  BY <1>2, <1>5, <1>6 DEF Abstract!Edit

LEMMA StepImplements ==
    ASSUME IInv, Known, IInv', [Next]_vars
    PROVE  [Abstract!Next]_(Abstract!vars)
<1>1. CASE Install
  BY <1>1, InstallStutters
<1>2. CASE AppendCommitted
  <2>1. /\ pc = "install" /\ left = {} /\ UNCHANGED <<live, seeds>>
        /\ ledger' = Append(ledger, Committed(Len(seeds)))
    BY <1>2, AppendCommittedStep
  <2>2. Committed(Len(seeds)) \in Records /\ Committed(Len(seeds)).kind # "PREPARED"
    BY BoundAssumption DEF IInv, TypeOK, Budget, Committed, Records, Ids
  <2>. QED
    BY <2>1, <2>2, InstalledView, ClosingStutters
<1>3. CASE Prepare
  BY <1>3, PrepareTransits DEF Abstract!Next
<1>4. CASE CrashTorn
  <2>1. /\ pc = "prepare" \/ (pc = "install" /\ left = {})
        /\ ledger' = Append(ledger, Torn) /\ UNCHANGED <<live, seeds>>
    BY <1>4 DEF CrashTorn
  <2>2. Torn \in Records /\ Torn.kind # "PREPARED"
    BY BoundAssumption DEF Torn, Records, Ids
  <2>3. Overlay = live
    BY <2>1, InstalledView, EvenIsFinished, FinishedView DEF IInv, Recovered
  <2>. QED
    BY <2>1, <2>2, <2>3, ClosingStutters
<1>5. ASSUME NEW f \in Files, NEW c \in Editable(f), Edit(f, c)
      PROVE  [Abstract!Next]_(Abstract!vars)
  BY <1>5, EditEdits DEF Abstract!Next
<1>6. CASE ~(Install \/ AppendCommitted \/ Prepare \/ CrashTorn)
           /\ ~(\E f \in Files : \E c \in Editable(f) : Edit(f, c))
  <2>1. UNCHANGED <<live, ledger, seeds>>
    BY <1>6 DEF Next, Run, Recover, Commit, BeginRecover, BeginCommit, Load, Check,
         Verify, Plan, Stage, WriteFails, Crash, Die, Restart, Return,
         Raise, End, vars, durable
  <2>. QED
    BY <2>1, SameViewStutters
<1>. QED
  BY <1>1, <1>2, <1>3, <1>4, <1>5, <1>6

LEMMA InitImplements == Init => Abstract!Init
<1>. SUFFICES ASSUME Init PROVE Abstract!Init
  OBVIOUS
<1>1. ledger = <<>> /\ seeds = <<>> /\ Len(ledger) = 0 /\ Len(seeds) = 0
  BY DEF Init
<1>2. Overlay = live
  BY <1>1, InitIInv, EvenIsFinished, FinishedView DEF IInv
<1>3. History = <<>>
  BY <1>1 DEF History
<1>. QED
  BY <1>2, <1>3 DEF Init, Abstract!Init

-----------------------------------------------------------------------------
(* No call refuses as long as nothing is disturbed *)

\* The premises and targets of the two kinds of transition.
LEMMA UndisturbedIsCalm == Undisturbed => Calm
BY DEF Undisturbed, Calm

LEMMA UndisturbedIsWhole ==
    ASSUME IInv, Undisturbed
    PROVE  /\ Whole = Len(ledger)
           /\ Len(ledger) \in {2 * Len(seeds), 2 * Len(seeds) - 1}
<1>1. ledger # <<>> => Len(ledger) \in DOMAIN ledger
  BY DEF IInv, TypeOK
<1>2. Whole = Len(ledger)
  BY <1>1 DEF Undisturbed, Whole
<1>. QED
  BY <1>2 DEF IInv, Counted

LEMMA UndisturbedAccepted ==
    ASSUME IInv, Known, Undisturbed
    PROVE  ValidLedger
BY KnownAccepted DEF LedgerAccepted, Undisturbed, Torn

\* Every call that goes on finds what it checks.
LEMMA RaisesOnlyForWrites ==
    ASSUME IInv, Known, Undisturbed, InPlace, [Next]_vars
    PROVE  RaisesForItsOwnWrites
<1>. SUFFICES ASSUME result' = "raised", result # "raised"
              PROVE  faults' = faults + 1
  BY DEF RaisesForItsOwnWrites
<1>1. ValidLedger
  BY UndisturbedAccepted
<1>2. ~Load
  BY <1>1 DEF Load
<1>3. ASSUME Check PROVE FALSE
  <2>1. pc = "check" /\ Recoverable(ledger[Len(ledger)])
    BY <1>3 DEF Check, IInv, Recovering, InPlace
  <2>. QED
    BY <1>3, <2>1, Installing DEF Check
<1>4. ASSUME pc \in {"verify", "plan"}
      PROVE  Current
  <2>1. Whole = Len(ledger) /\ Len(ledger) = 2 * Len(seeds)
    BY <1>4 DEF IInv, Recovered
  <2>2. CASE ledger = <<>>
    <3>1. CommittedIds = {}
      BY <2>2 DEF CommittedIds
    <3>. QED
      BY <3>1 DEF Current
  <2>3. CASE ledger # <<>>
    BY <2>1, <2>3, LatestIsLast DEF Current, InPlace, IInv
  <2>. QED
    BY <2>2, <2>3
<1>5. ~Verify
  BY <1>1, <1>4 DEF Verify, Return, End
<1>6. ASSUME Plan PROVE FALSE
  <2>1. pc = "plan" /\ draft.pre = Read(Premises)
    BY <1>6 DEF Plan, IInv, Budget, InPlace
  <2>. QED
    BY <1>1, <1>4, <1>6, <2>1 DEF Plan, Return, End
<1>. QED
  BY <1>2, <1>3, <1>5, <1>6
  DEF Next, BeginRecover, BeginCommit, Run, Recover, Commit, Install, AppendCommitted,
      Stage, Prepare, WriteFails, Crash, CrashTorn, Die, Restart, Edit, volatile, vars

\* Disturbance is never undone.
LEMMA UndisturbedBefore ==
    ASSUME IInv, IInv', [Next]_vars, Undisturbed'
    PROVE  /\ Undisturbed /\ edits' = edits
           /\ ~CrashTorn
<1>1. edits' = edits
  BY EditsCount DEF Undisturbed, IInv, TypeOK
<1>2. ~CrashTorn
  <2>1. ASSUME CrashTorn PROVE FALSE
    <3>1. ledger' = Append(ledger, Torn) /\ ledger \in Seq(Records)
      BY <2>1 DEF CrashTorn, IInv, TypeOK
    <3>2. Len(ledger) + 1 \in DOMAIN ledger' /\ ledger'[Len(ledger) + 1] = Torn
      BY <3>1
    <3>. QED
      BY <3>2 DEF Undisturbed, Torn
  <2>. QED
    BY <2>1
<1>3. ASSUME NEW i \in DOMAIN ledger
      PROVE  i \in DOMAIN ledger' /\ ledger'[i] = ledger[i]
  <2>1. UNCHANGED ledger \/ \E r : ledger' = Append(ledger, r)
    BY DEF Next, Run, Recover, Commit, BeginRecover, BeginCommit, Load, Check, Install,
         AppendCommitted, Verify, Plan, Stage, Prepare, WriteFails, Crash, CrashTorn, Die,
         Restart, Edit, Return, Raise, End, vars, durable
  <2>2. ledger \in Seq(Records) /\ ledger' \in Seq(Records)
    BY DEF IInv, TypeOK
  <2>. QED
    BY <2>1, <2>2
<1>4. Undisturbed
  BY <1>1, <1>3 DEF Undisturbed
<1>. QED
  BY <1>1, <1>2, <1>4

LEMMA StepInPlace ==
    ASSUME IInv, Known, IInv', [Next]_vars, Undisturbed, Undisturbed', InPlace
    PROVE  InPlace'
<1>1. edits' = edits /\ ~CrashTorn
  BY UndisturbedBefore
<1>2. CASE Install
  <2>. DEFINE r == ledger[Len(ledger)]
              f == First(left)
  <2>1. /\ pc = "install" /\ f \in left /\ left \subseteq DOMAIN r.after
        /\ f \in Files \ Premises /\ WellPrepared(r)
        /\ live' = [live EXCEPT ![f] = r.after[f]]
        /\ UNCHANGED <<ledger, seeds, call, draft>>
    BY <1>2, InstallStep
  <2>2. Len(ledger) = 2 * Len(seeds) - 1 /\ Len(seeds) \in Nat
    BY <2>1 DEF IInv, Recovering, TypeOK
  <2>3. live \in [Files -> Contents]
    BY DEF IInv, TypeOK
  <2>4. Recoverable(r)
    BY <2>2 DEF InPlace
  <2>5. \A g \in Premises : live'[g] = live[g]
    BY <2>1, <2>3, FilesAssumption
  <2>6. Recoverable(ledger[Len(ledger)])'
    BY <2>1, <2>3, <2>4, <2>5 DEF Recoverable, WellPrepared
  <2>7. Read(Premises)' = Read(Premises)
    BY <2>5 DEF Read
  <2>. QED
    BY <2>1, <2>2, <2>6, <2>7 DEF InPlace
<1>3. CASE AppendCommitted
  <2>. DEFINE n == Len(ledger)
  <2>1. /\ pc = "install" /\ left = {} /\ n = 2 * Len(seeds) - 1 /\ n \in DOMAIN ledger
        /\ ledger' = Append(ledger, Committed(Len(seeds)))
        /\ UNCHANGED <<live, seeds, call, draft>>
    BY <1>3, AppendCommittedStep
  <2>2. n \in Nat /\ Len(seeds) \in Nat /\ DOMAIN ledger = 1 .. n /\ ledger \in Seq(Records)
    BY DEF IInv, TypeOK
  <2>3. Len(ledger') = n + 1 /\ ledger'[n] = ledger[n]
    BY <2>1, <2>2
  <2>4. \A f \in DOMAIN ledger[n].after : live[f] = ledger[n].after[f]
    BY <2>1 DEF Known, Installs
  <2>5. Len(ledger') = 2 * Len(seeds') /\ Len(ledger') # 2 * Len(seeds') - 1
        /\ Len(ledger') - 1 = n
    BY <2>1, <2>2, <2>3
  <2>6. \A f \in DOMAIN ledger'[n].after : live'[f] = ledger'[n].after[f]
    BY <2>1, <2>3, <2>4
  <2>. QED
    BY <2>1, <2>5, <2>6 DEF InPlace, Read
<1>4. CASE Prepare
  <2>. DEFINE n == Len(ledger)
              m == Len(seeds) + 1
              r == Prepared(m, Read(Targets), After(m), draft.pre)
  <2>1. /\ n = 2 * Len(seeds) /\ draft.pre = Read(Premises)
        /\ ledger' = Append(ledger, r) /\ call' = "settle"
        /\ UNCHANGED live
    BY <1>4, PrepareStep
  <2>2. Len(seeds') = m /\ n \in Nat /\ Len(seeds) \in Nat
        /\ ledger \in Seq(Records) /\ ledger' \in Seq(Records)
    BY <1>4, PrepareStep DEF IInv, TypeOK
  <2>3. Len(ledger') = n + 1 /\ ledger'[n + 1] = r
    <3>1. ledger' = Append(ledger, r)
      BY <2>1
    <3>. HIDE DEF r
    <3>. QED
      BY <2>2, <3>1
  <2>4. DOMAIN After(m) = Targets
    BY DEF After
  <2>5. ASSUME NEW i, i = n + 1
        PROVE  Recoverable(ledger[i])'
    <3>1. /\ ledger'[i].before = Read(Targets) /\ ledger'[i].after = After(m)
          /\ ledger'[i].pre = Read(Premises)
      BY <2>1, <2>3, <2>5 DEF Prepared
    <3>. QED
      BY <2>1, <2>4, <3>1 DEF Recoverable, Read
  <2>6. Recoverable(ledger[Len(ledger)])'
    BY <2>3, <2>5 DEF Recoverable
  <2>7. Len(ledger') # 2 * Len(seeds')
    BY <2>1, <2>2, <2>3
  <2>. QED
    BY <2>1, <2>6, <2>7 DEF InPlace
<1>5. CASE \E new \in Requests : BeginCommit(new)
  <2>1. /\ draft'.pre = Read(Premises) /\ UNCHANGED durable
    BY <1>5 DEF BeginCommit, NoDraft
  <2>. QED
    BY <2>1 DEF InPlace, Recoverable, Read, durable
<1>6. CASE ~(Install \/ AppendCommitted \/ Prepare) /\ ~(\E new \in Requests : BeginCommit(new))
  <2>1. /\ UNCHANGED durable
        /\ call' = "commit" => call = "commit" /\ draft'.pre = draft.pre
    BY <1>1, <1>6 DEF Next, Run, Recover, Commit, BeginRecover, Load, Check, Verify, Plan,
         Stage, WriteFails, Crash, Die, Restart, Edit, Return, Raise, End, Goto, vars,
         durable, volatile, IInv, TypeOK, Drafts
  <2>. QED
    BY <2>1 DEF InPlace, Recoverable, Read, durable
<1>. QED
  BY <1>2, <1>3, <1>4, <1>5, <1>6

LEMMA InitInPlace == Init => InPlace
<1>. SUFFICES ASSUME Init PROVE InPlace
  OBVIOUS
<1>1. ledger = <<>> /\ Len(ledger) = 0 /\ Len(seeds) = 0 /\ call = "none"
  BY DEF Init
<1>. QED
  BY <1>1 DEF InPlace

-----------------------------------------------------------------------------
(* Theorems *)

\* The type invariant of the store.
THEOREM TypeCorrect == Spec => []TypeOK
<1>1. IInv => TypeOK
  BY DEF IInv
<1>. QED
  BY <1>1, Invariance, PTL

\* The ledger is a serial history whatever crashes, fails, tears or is edited.
THEOREM SerialHistory == Spec => []Serial
<1>1. IInv => Serial
  BY DEF IInv
<1>. QED
  BY <1>1, Invariance, PTL

\* With edits at rest, a ledger that no crash has torn is one its own reader
\* accepts, and every transition in it starts from what the last one left.
THEOREM LedgerIsSound ==
    ASSUME EditsAnytime = FALSE
    PROVE  Spec => []LedgerSound
<1>1. KInv => LedgerSound
  BY KnownAccepted DEF KInv, Calm, Known, LedgerSound
<1>. QED
  BY <1>1, KnownWhileCalm, PTL

\* With edits at rest, COMMITTED is written only behind a transition that is
\* installed on its premises, and no edit is overwritten.
THEOREM WritesAreSafe ==
    ASSUME EditsAnytime = FALSE
    PROVE  Spec => WritesSafe
<1>1. KInv /\ KInv' /\ [Next]_vars
        => CommitsWhatIsInstalled /\ ReplacesWhatItRead
  BY CommitsWell, WritesWell DEF KInv, Calm
<1>2. Spec => [][CommitsWhatIsInstalled]_vars /\ [][ReplacesWhatItRead]_vars
  BY <1>1, KnownWhileCalm, PTL DEF Spec
<1>. QED
  BY <1>2 DEF WritesSafe, CommitsInstalled, EditsSurvive

\* With edits at rest, whatever crashes or fails, the canonical files change
\* atomically: the store implements CanonicalState.
THEOREM StoreIsAtomic ==
    ASSUME EditsAnytime = FALSE
    PROVE  Spec => AtomicTransitions
<1>1. KInv /\ KInv' /\ [Next]_vars
        => [Abstract!Next]_(Abstract!vars)
  BY StepImplements DEF KInv, Calm
<1>2. Spec => Abstract!Init /\ [][Abstract!Next]_(Abstract!vars)
  BY <1>1, InitImplements, KnownWhileCalm, PTL DEF Spec
<1>. QED
  BY <1>2 DEF AtomicTransitions, Abstract!Spec

\* As long as nobody has edited a file and no line is torn, a call raises
\* only when a write of its own fails: what a crash or a failed write leaves
\* behind, however often, the next call accepts and completes.
THEOREM CrashesAreRecoverable == Spec => CrashRecoverable
<1>1. Init => UInv
  BY InitInPlace DEF UInv
<1>2. KInv /\ KInv' /\ UInv /\ [Next]_vars => UInv'
  BY StepInPlace, UndisturbedBefore, UndisturbedIsCalm DEF KInv, UInv
<1>3. KInv /\ UInv /\ [Next]_vars => RaisesForItsOwnWrites
  <2>1. CASE Undisturbed
    BY <2>1, RaisesOnlyForWrites, UndisturbedIsCalm DEF KInv, UInv
  <2>2. CASE ~Undisturbed
    BY <2>2 DEF RaisesForItsOwnWrites
  <2>. QED
    BY <2>1, <2>2
<1>4. Spec => [][RaisesForItsOwnWrites]_vars
  BY <1>1, <1>2, <1>3, KnownWhileCalm, PTL DEF Spec
<1>. QED
  BY <1>4 DEF CrashRecoverable

-----------------------------------------------------------------------------
(* The controller's inductive invariant, on top of the store's *)

\* What a transition of the claim state writes.
Claim == {Graph, Trusted} \cup Views

\* The last line of the ledger, or the last but one, and its after bytes.
Odd == ledger # <<>> /\ IsPrepared(Len(ledger))
Even == ledger # <<>> /\ IsCommitted(Len(ledger))
Last == ledger[Len(ledger)].after
Latest == ledger[Len(ledger) - 1].after

\* Every transition in the ledger is complete.
Complete == Whole = Len(ledger) /\ Len(ledger) = 2 * Len(seeds)

\* How the store's call and the attempt correspond.
Phases ==
    /\ phase = "none" => pc \in {"down", "idle"}
    /\ pc = "down" => phase = "none" /\ result = "none"
    /\ phase \in {"running", "stopping"} => pc = "idle"
    /\ phase \in {"reload", "refresh", "assert", "sealing"} => call \in {"none", "recover"}
    /\ phase = "reload" => epoch = "none"
    /\ phase \notin {"none", "reload"} => epoch = "open"
    /\ call = "none" <=> pc \in {"down", "idle"}
    /\ phase # "none" /\ pc = "idle" => result # "none"

\* Memory and disk have one baseline, and an open epoch has its sources.
Bases ==
    /\ phase # "none" => base = baseFile
    /\ phase # "none" \/ epoch = "open" => baseFile \in [Guarded -> Contents]
    /\ epoch = "open" => frozen \in [Files -> Contents]

\* A transition writes every view, and each with the new ClaimGraph.
ShowsGraph(new) == \A f \in Views : new[f] = new[Graph]
WritesViews(r) == DOMAIN r.after = Claim /\ ShowsGraph(r.after)
RecordsWriteViews == \A i \in DOMAIN ledger : IsPrepared(i) => WritesViews(ledger[i])
DraftWritesViews ==
    call = "commit" => DOMAIN draft.new = Claim \ {Trusted} /\ ShowsGraph(draft.new)

Touches ==
    /\ touched \subseteq Claim
    /\ touched # {} => ledger # <<>>
    /\ phase = "reload" => touched = {}

\* When nothing is pending.
Completes ==
    /\ epoch = "none" => Complete
    /\ phase = "running" => Complete
    /\ pc = "idle" /\ result = "ok" => Complete
    /\ call = "commit" => Complete

Control ==
    /\ GuardTypeOK /\ Phases /\ Bases /\ RecordsWriteViews /\ DraftWritesViews
    /\ Touches /\ Completes

-----------------------------------------------------------------------------
(* What holds besides while the files are calm *)

\* A call that returned has seen the latest transition in place.
SeenInPlace ==
    phase \notin {"none", "running"} /\ pc = "idle" /\ result = "ok" /\ ledger # <<>> =>
        \A f \in Claim : live[f] = Latest[f]

\* What the store wrote is owed, file by file while a transition is pending.
OwedPending ==
    phase # "none" /\ Odd => \A f \in Views : live[f] = Last[f] => owed[f] = live[f]
OwedLatest == epoch = "open" /\ Even => \A f \in Views : owed[f] = Latest[f]

\* Files that no transition has written are owed what the baseline says.
Plain == {f \in Guarded : f \notin Views \/ ledger = <<>>}
OwedBase == phase # "none" \/ epoch = "open" => \A f \in Plain : owed[f] = baseFile[f]
CheckedBase == phase = "sealing" /\ verdict = "none" => \A f \in Plain : live[f] = owed[f]
Reloading == phase = "reload" => \A f \in Guarded : live[f] = baseFile[f] /\ owed[f] = baseFile[f]

\* ClaimGraphs of the ledger, and that the baseline holds only known ones, so
\* that a pending transition writes none of them.
InLedger(v) ==
    \E i \in DOMAIN ledger : IsPrepared(i) /\ v \in {ledger[i].before[Graph], ledger[i].after[Graph]}
BaseKnown ==
    epoch = "open" => \A f \in Views : baseFile[f] = frozen[Graph] \/ InLedger(baseFile[f])
Anchored ==
    epoch = "open" /\ (\E i \in DOMAIN ledger : IsPrepared(i)) => InLedger(frozen[Graph])
PendingNew == Odd => \A f \in Views : baseFile[f] # Last[f]

\* What a commit may rely on until its PREPARED line is written.
Source(f) ==
    \/ live[f] = frozen[f]
    \/ \E i \in DOMAIN ledger : IsPrepared(i) /\ f \in DOMAIN ledger[i].after /\ ledger[i].after[f] = live[f]
FromKnown ==
    call = "commit" =>
        /\ \A f \in Claim : Source(f)
        /\ ledger = <<>> => live[Graph] = frozen[Graph]
        /\ \A f \in Views : baseFile[f] # draft.new[Graph] /\ live[f] # draft.new[Graph]

Trust ==
    /\ SeenInPlace /\ OwedPending /\ OwedLatest /\ OwedBase /\ CheckedBase
    /\ Reloading /\ BaseKnown /\ Anchored /\ PendingNew /\ FromKnown

-----------------------------------------------------------------------------
(* What holds besides before the first fault and the first edit *)

Quiet == faults = 0 /\ edits = 0
NoTorn == \A i \in DOMAIN ledger : ledger[i].kind # "TORN"
Smooth == result # "raised" /\ NoTorn /\ (Odd => call = "settle")

\* The baseline lags behind the files by the transition being committed only.
Accounted(f) ==
    \/ baseFile[f] = live[f]
    \/ phase = "commit" /\ (f \in touched \/ (pc = "install" /\ f \in DOMAIN Last))
BaseUpToDate == phase # "none" \/ epoch = "open" => \A f \in Guarded : Accounted(f)
NoAlarm == verdict \notin {"refused", "guard failed"}
Peace == Smooth /\ BaseUpToDate /\ NoAlarm

GInv == KInv /\ UInv /\ Control /\ (Calm => Trust) /\ (Quiet => Peace)

-----------------------------------------------------------------------------
(* The store underneath *)

\* The targets of a new ClaimGraph are what commit() may be asked for.
LEMMA GraphRequest ==
    ASSUME NEW g \in Values, NEW S \in SUBSET Views
    PROVE  [f \in S \cup {Graph} |-> g] \in Requests
<1>1. S \cup {Graph} \in {U \in SUBSET (Files \ (Premises \cup {Trusted})) : Graph \in U}
  BY ViewsAssumption, FilesAssumption
<1>2. [f \in S \cup {Graph} |-> g] \in [S \cup {Graph} -> Values]
  OBVIOUS
<1> QED BY <1>1, <1>2 DEF Requests

\* Every step of the controller is a step of its store, or none.
LEMMA GuardedStep == [GNext]_allVars => [Next]_vars
<1> SUFFICES ASSUME [GNext]_allVars PROVE [Next]_vars
  OBVIOUS
<1>1. CASE Attempt
  <2>1. CASE StartEpoch
    BY <2>1 DEF StartEpoch, Start, Next
  <2>2. CASE Freeze \/ ReloadFails \/ Refreshed \/ Asserted \/ AcceptTargets \/ Seal
    BY <2>2 DEF Freeze, ReloadFails, Refreshed, Asserted, AcceptTargets, Seal
  <2>3. CASE Resume
    BY <2>3 DEF Resume, Start, Next
  <2>4. CASE AssertSources \/ Finish
    BY <2>4 DEF AssertSources, Finish, Start, Next
  <2>5. ASSUME NEW g \in Values, CommitClaimState(g)
        PROVE  Next
    <3>1. BeginCommit([f \in {h \in Views : live[h] # g} \cup {Graph} |-> g])
      BY <2>5 DEF CommitClaimState
    <3>2. {h \in Views : live[h] # g} \in SUBSET Views
      OBVIOUS
    <3> QED BY <3>1, <3>2, GraphRequest DEF Next
  <2> QED BY <1>1, <2>1, <2>2, <2>3, <2>4, <2>5 DEF Attempt
<1>2. CASE StoreStep
  BY <1>2 DEF StoreStep, Next, Run, Recover
<1>3. CASE ControllerDies \/ ControllerRestarts
  BY <1>3 DEF ControllerDies, ControllerRestarts, Next
<1>4. CASE SomebodyEdits
  BY <1>4 DEF SomebodyEdits, Next
<1>5. CASE UNCHANGED allVars
  BY <1>5 DEF allVars
<1> QED BY <1>1, <1>2, <1>3, <1>4, <1>5 DEF GNext

\* All that is proved of the store holds of the store of a controller.
THEOREM StoreUnderneath == GSpec => Spec
<1>1. GInit => Init
  BY DEF GInit
<1> QED BY <1>1, GuardedStep, PTL DEF GSpec, Spec

-----------------------------------------------------------------------------
(* The shape of the ledger *)

\* A pending transition is the last line; when nothing is pending, the last
\* two lines are those of the latest transition.
LEMMA Shapes ==
    ASSUME IInv
    PROVE  /\ Odd => Len(ledger) = 2 * Len(seeds) - 1 /\ Whole = Len(ledger)
           /\ Odd => Len(ledger) \in DOMAIN ledger
           /\ Even => Complete
           /\ Complete => ~Odd
           /\ Complete /\ ledger # <<>> =>
                /\ Even /\ Len(ledger) - 1 \in DOMAIN ledger
                /\ IsPrepared(Len(ledger) - 1)
           /\ Complete => NoTorn
<1>1. /\ DOMAIN ledger = 1 .. Len(ledger) /\ Len(ledger) \in Nat /\ Len(seeds) \in Nat
      /\ ledger # <<>> => Len(ledger) \in DOMAIN ledger
  BY DEF IInv, TypeOK
<1>2. TypeOK /\ Serial /\ Counted
  BY DEF IInv
<1>3. Odd \/ Even => Whole = Len(ledger)
  BY <1>1 DEF Odd, Even, Whole, IsPrepared, IsCommitted
<1>4. Odd => Len(ledger) = 2 * ledger[Len(ledger)].id - 1 /\ ledger[Len(ledger)].id \in Nat
  BY <1>1, <1>2, <1>3, WholeLines DEF Odd, IsPrepared, IsCommitted
<1>5. Even => Len(ledger) = 2 * ledger[Len(ledger)].id /\ ledger[Len(ledger)].id \in Nat
  BY <1>1, <1>2, <1>3, WholeLines DEF Even, IsPrepared, IsCommitted
<1>6. Odd => Len(ledger) = 2 * Len(seeds) - 1
  BY <1>1, <1>2, <1>3, <1>4 DEF Counted
<1>7. Even => Complete
  <2> SUFFICES ASSUME Even PROVE Complete
    OBVIOUS
  <2>1. PICK n \in Nat : Len(ledger) = 2 * n
    BY <1>5
  <2>2. Whole = Len(ledger)
    BY <1>3
  <2>3. Len(ledger) \in {2 * Len(seeds), 2 * Len(seeds) - 1}
    BY <1>2, <2>2 DEF Counted
  <2>4. Len(ledger) = 2 * Len(seeds)
    BY <1>1, <2>1, <2>3
  <2> QED BY <2>2, <2>4 DEF Complete
<1>8. Complete => ~Odd
  BY <1>1, <1>6 DEF Complete
<1>9. ASSUME Complete, ledger # <<>>
      PROVE  Even /\ Len(ledger) - 1 \in DOMAIN ledger /\ IsPrepared(Len(ledger) - 1)
  <2>1. Len(ledger) \in DOMAIN ledger /\ Len(ledger) - 1 \in DOMAIN ledger
        /\ Len(ledger) = 2 * Len(seeds)
    BY <1>1, <1>9 DEF Complete
  <2>2. IsCommitted(Len(ledger)) /\ IsPrepared(Len(ledger) - 1)
    <3>1. \A i \in DOMAIN ledger :
            /\ ledger[i].id \in Nat
            /\ \/ IsPrepared(i) /\ i = 2 * ledger[i].id - 1
               \/ IsCommitted(i) /\ i = 2 * ledger[i].id
      BY <1>2, <1>9, WholeLines DEF Complete
    <3>2. \A m \in Nat : Len(ledger) # 2 * m - 1 /\ Len(ledger) - 1 # 2 * m
      BY <1>1, <2>1
    <3> QED BY <2>1, <3>1, <3>2
  <2> QED BY <1>9, <2>1, <2>2 DEF Even
<1>10. Complete => NoTorn
  BY <1>2, WholeLines DEF Complete, NoTorn, IsPrepared, IsCommitted
<1> QED BY <1>1, <1>3, <1>6, <1>7, <1>8, <1>9, <1>10 DEF Odd

\* In the middle of an install the last line is the pending transition.
LEMMA InstallsOdd ==
    ASSUME IInv, pc \in {"check", "install"}
    PROVE  Odd /\ ~Complete /\ First(queue) = Len(ledger)
<1>1. Len(ledger) \in DOMAIN ledger /\ First(queue) = Len(ledger)
  BY Installing
<1>2. Whole = Len(ledger) /\ Len(ledger) = 2 * Len(seeds) - 1 /\ Len(seeds) \in Nat
  BY DEF IInv, Recovering, TypeOK
<1>3. IsPrepared(Len(ledger)) /\ ledger # <<>>
  BY <1>1, <1>2, OnePending DEF IInv, TypeOK
<1> QED BY <1>1, <1>2, <1>3 DEF Odd, Complete

\* While a call verifies, plans and stages, nothing is pending.
LEMMA PlansComplete ==
    ASSUME IInv, pc \in {"verify", "plan", "stage", "prepare"}
    PROVE  Complete
BY DEF IInv, Recovered, Complete

\* The ledger as it was: all that is said about it as it was.
LEMMA LedgerSame ==
    ASSUME UNCHANGED <<ledger, seeds>>
    PROVE  /\ Odd' = Odd /\ Even' = Even /\ Last' = Last /\ Latest' = Latest
           /\ Complete' = Complete /\ NoTorn' = NoTorn
           /\ RecordsWriteViews' = RecordsWriteViews
           /\ \A i \in DOMAIN ledger : IsPrepared(i)' = IsPrepared(i)
BY DEF Odd, Even, Last, Latest, Complete, NoTorn, RecordsWriteViews, Whole, IsPrepared, IsCommitted, WritesViews, ShowsGraph

\* A line at the end of the ledger.
LEMMA LineAtEnd ==
    ASSUME ledger \in Seq(Records), NEW r \in Records, ledger' = Append(ledger, r)
    PROVE  /\ Len(ledger') = Len(ledger) + 1 /\ Len(ledger) \in Nat
           /\ DOMAIN ledger = 1 .. Len(ledger) /\ DOMAIN ledger' = 1 .. Len(ledger')
           /\ ledger' # <<>> /\ ledger'[Len(ledger')] = r
           /\ \A i \in DOMAIN ledger : ledger'[i] = ledger[i]
           /\ DOMAIN ledger \subseteq DOMAIN ledger'
           /\ \A i \in DOMAIN ledger' : i \in DOMAIN ledger \/ ledger'[i] = r
OBVIOUS

-----------------------------------------------------------------------------
(* Control is preserved *)

LEMMA PhasesKept ==
    ASSUME IInv, Phases, GNext
    PROVE  Phases'
<1>1. CASE StartEpoch \/ AssertSources \/ Finish
  BY <1>1 DEF StartEpoch, AssertSources, Finish, Start, BeginRecover, Goto, Phases
<1>2. CASE Freeze \/ ReloadFails \/ Refreshed
  BY <1>2 DEF Freeze, ReloadFails, Refreshed, Idle, vars, volatile, Phases
<1>3. CASE Resume
  BY <1>3 DEF Resume, Start, BeginRecover, Goto, Idle, vars, volatile, Phases
<1>4. ASSUME NEW g \in Values, CommitClaimState(g) PROVE Phases'
  BY <1>4 DEF CommitClaimState, BeginCommit, Goto, Phases
<1>5. CASE Asserted \/ AcceptTargets \/ Seal
  BY <1>5 DEF Asserted, AcceptTargets, Seal, Idle, vars, volatile, Phases
<1>6. CASE StoreStep
  <2>1. UNCHANGED <<phase, epoch>>
    BY <1>6 DEF StoreStep
  <2>2. pc \in {"plan", "stage", "prepare"} => call = "commit"
    BY DEF IInv, Budget
  <2>3. CASE AppendCommitted \/ Load \/ Check \/ Install
    BY <2>1, <2>3 DEF AppendCommitted, Load, Check, Install, Goto, Raise, End, Phases
  <2>4. CASE Verify \/ WriteFails
    BY <2>1, <2>4 DEF Verify, WriteFails, Goto, Raise, Return, End, Phases
  <2>5. CASE Commit
    BY <2>1, <2>2, <2>5 DEF Commit, Plan, Stage, Prepare, Goto, Raise, Return, End, Phases
  <2> QED BY <1>6, <2>3, <2>4, <2>5 DEF StoreStep
<1>7. CASE ControllerDies
  BY <1>7 DEF ControllerDies, Crash, CrashTorn, Die, Phases
<1>8. CASE ControllerRestarts
  BY <1>8 DEF ControllerRestarts, Restart, Goto, gvars, Phases
<1>9. CASE SomebodyEdits
  BY <1>9 DEF SomebodyEdits, Edit, volatile, gvars, Phases
<1> QED BY <1>1, <1>2, <1>3, <1>4, <1>5, <1>6, <1>7, <1>8, <1>9 DEF GNext, Attempt

\* Most steps leave the ledger alone.
LEMMA LedgerSteps ==
    ASSUME GNext
    PROVE  \/ UNCHANGED <<ledger, seeds>>
           \/ AppendCommitted /\ StoreStep
           \/ Prepare /\ StoreStep
           \/ CrashTorn /\ ControllerDies
<1>1. CASE Attempt
  BY <1>1 DEF Attempt, StartEpoch, Freeze, ReloadFails, Resume, Refreshed, AssertSources,
     CommitClaimState, Asserted, AcceptTargets, Finish, Seal, Start, BeginRecover, BeginCommit,
     vars, durable
<1>2. CASE StoreStep
  BY <1>2 DEF StoreStep, Load, Check, Install, Verify, Commit, Plan, Stage, WriteFails, Raise, durable
<1>3. CASE ControllerDies
  BY <1>3 DEF ControllerDies, Crash, durable
<1>4. CASE ControllerRestarts \/ SomebodyEdits
  BY <1>4 DEF ControllerRestarts, Restart, SomebodyEdits, Edit, durable
<1> QED BY <1>1, <1>2, <1>3, <1>4 DEF GNext

LEMMA CompletesKept ==
    ASSUME IInv, IInv', Control, Phases', GNext
    PROVE  Completes'
<1>1. CASE AppendCommitted /\ StoreStep
  <2>1. pc' = "verify"
    BY <1>1, AppendCommittedStep
  <2>2. Complete'
    BY <2>1 DEF IInv, Recovered, Complete
  <2> QED BY <2>2 DEF Completes
<1>2. CASE Prepare /\ StoreStep
  BY <1>2 DEF Prepare, StoreStep, Goto, Control, IInv, Budget, Phases, Completes
<1>3. CASE CrashTorn /\ ControllerDies
  <2>1. pc = "prepare" \/ pc = "install"
    BY <1>3 DEF CrashTorn
  <2>2. epoch = "open"
    BY <2>1, InstallsOdd DEF Control, IInv, Budget, Phases, Completes, GuardTypeOK
  <2> QED BY <1>3, <2>2 DEF ControllerDies, Crash, CrashTorn, Die, Completes
<1>4. CASE UNCHANGED <<ledger, seeds>>
  <2>1. Complete' = Complete
    BY <1>4, LedgerSame
  <2>2. SourcesHold => result = "ok"
    BY DEF SourcesHold
  <2>3. Completes
    BY DEF Control
  <2>4. CASE Attempt
    BY <2>1, <2>2, <2>3, <2>4
    DEF Attempt, StartEpoch, Freeze, ReloadFails, Resume, Refreshed, AssertSources, Idle,
        CommitClaimState, Asserted, AcceptTargets, Finish, Seal, Start, BeginRecover, BeginCommit,
        vars, volatile, Completes, Control, Phases, Goto
  <2>5. CASE StoreStep
    <3>1. UNCHANGED <<phase, epoch>>
      BY <2>5 DEF StoreStep
    <3>2. call' = "commit" => call = "commit"
      BY <2>5 DEF StoreStep, AppendCommitted, Load, Check, Install, Verify, Commit, Plan, Stage,
         Prepare, WriteFails, Raise, Return, End
    <3>3. pc' = "idle" /\ result' = "ok" => pc \in {"verify", "plan"}
      BY <2>5 DEF StoreStep, AppendCommitted, Load, Check, Install, Verify, Commit, Plan, Stage,
         Prepare, WriteFails, Raise, Return, End, Goto
    <3> QED BY <2>1, <2>3, <3>1, <3>2, <3>3, PlansComplete DEF Completes
  <2>6. CASE ControllerDies
    BY <2>1, <2>3, <2>6 DEF ControllerDies, Crash, CrashTorn, Die, Completes
  <2>7. CASE ControllerRestarts
    BY <2>1, <2>3, <2>7 DEF ControllerRestarts, Restart, Goto, gvars, Completes, Control, Phases,
       IInv, TypeOK
  <2>8. CASE SomebodyEdits
    BY <2>1, <2>3, <2>8 DEF SomebodyEdits, Edit, volatile, gvars, Completes
  <2> QED BY <2>4, <2>5, <2>6, <2>7, <2>8 DEF GNext
<1> QED BY <1>1, <1>2, <1>3, <1>4, LedgerSteps

\* The records of a longer ledger.
LEMMA RecordsGrow ==
    ASSUME ledger \in Seq(Records), RecordsWriteViews,
           NEW r \in Records, r.kind = "PREPARED" => WritesViews(r),
           ledger' = Append(ledger, r)
    PROVE  RecordsWriteViews'
<1>1. \A i \in DOMAIN ledger' : (i \in DOMAIN ledger /\ ledger'[i] = ledger[i]) \/ ledger'[i] = r
  BY LineAtEnd
<1> QED BY <1>1 DEF RecordsWriteViews, IsPrepared, WritesViews, ShowsGraph

LEMMA AppendedCommitted ==
    ASSUME IInv, AppendCommitted
    PROVE  /\ Committed(Len(seeds)) \in Records
           /\ ledger' = Append(ledger, Committed(Len(seeds)))
<1>1. Len(seeds) \in Ids
  BY BoundAssumption DEF IInv, TypeOK, Budget, Ids
<1> QED BY <1>1, AppendCommittedStep DEF Committed, Records

LEMMA TornIsRecord == Torn \in Records
BY BoundAssumption DEF Torn, Records, Ids

LEMMA RecordsKept ==
    ASSUME IInv, IInv', Control, GNext
    PROVE  RecordsWriteViews'
<1>1. ledger \in Seq(Records) /\ ledger' \in Seq(Records) /\ RecordsWriteViews
  BY DEF IInv, TypeOK, Control
<1>2. CASE AppendCommitted
  BY <1>1, <1>2, AppendedCommitted, RecordsGrow DEF Committed
<1>3. CASE Prepare
  <2>1. PICK n : ledger' = Append(ledger, Prepared(n, draft.staged, After(n), draft.pre))
    BY <1>3 DEF Prepare
  <2>2. call = "commit"
    BY <1>3 DEF Prepare, IInv, Budget
  <2>3. WritesViews(Prepared(n, draft.staged, After(n), draft.pre))
    <3>1. DOMAIN draft.new = Claim \ {Trusted} /\ ShowsGraph(draft.new)
      BY <2>2 DEF Control, DraftWritesViews
    <3>2. Graph # Trusted /\ Trusted \notin Views /\ Graph \in Claim /\ Trusted \in Claim
      BY FilesAssumption, ViewsAssumption DEF Claim
    <3>3. After(n) = [f \in Claim |-> IF f = Trusted THEN n ELSE draft.new[f]]
      BY <3>1, <3>2 DEF After, Targets
    <3>4. Views \subseteq Claim
      BY DEF Claim
    <3> QED BY <3>1, <3>2, <3>3, <3>4 DEF WritesViews, ShowsGraph, Prepared
  <2>4. Prepared(n, draft.staged, After(n), draft.pre) \in Records
    <3>1. Len(ledger') \in DOMAIN ledger' /\ ledger'[Len(ledger')] = Prepared(n, draft.staged, After(n), draft.pre)
      BY <1>1, <2>1
    <3> QED BY <1>1, <3>1
  <2> QED BY <1>1, <2>1, <2>3, <2>4, RecordsGrow
<1>4. CASE CrashTorn
  <2>1. ledger' = Append(ledger, Torn)
    BY <1>4 DEF CrashTorn
  <2> QED BY <1>1, <2>1, TornIsRecord, RecordsGrow DEF Torn
<1>5. CASE UNCHANGED <<ledger, seeds>>
  BY <1>1, <1>5, LedgerSame
<1> QED BY <1>2, <1>3, <1>4, <1>5, LedgerSteps

\* Who changes the draft: a commit that begins, and its later steps, which
\* leave the request alone.
LEMMA DraftSteps ==
    ASSUME IInv, GNext, call' = "commit"
    PROVE  \/ call = "commit" /\ draft'.new = draft.new
           \/ \E g \in Values : CommitClaimState(g)
<1>1. draft \in Drafts
  BY DEF IInv, TypeOK
<1>2. CASE Attempt
  BY <1>2 DEF Attempt, StartEpoch, Freeze, ReloadFails, Resume, Refreshed, AssertSources,
     Asserted, AcceptTargets, Finish, Seal, Start, BeginRecover, vars, volatile
<1>3. CASE StoreStep
  <2>1. CASE Plan \/ Stage
    BY <1>1, <2>1 DEF Plan, Stage, Raise, Return, End, Drafts
  <2>2. CASE AppendCommitted \/ Load \/ Check \/ Install \/ Verify \/ Prepare \/ WriteFails
    BY <2>2 DEF AppendCommitted, Load, Check, Install, Verify, Prepare, WriteFails, Raise, Return, End
  <2> QED BY <1>3, <2>1, <2>2 DEF StoreStep, Commit
<1>4. CASE ControllerDies \/ ControllerRestarts \/ SomebodyEdits
  BY <1>4 DEF ControllerDies, Crash, CrashTorn, Die, ControllerRestarts, Restart, SomebodyEdits,
     Edit, volatile
<1> QED BY <1>2, <1>3, <1>4 DEF GNext

\* A commit of the claim state: the sources hold, the ClaimGraph is new and
\* every view, which shows the old one, is a target.
LEMMA CommitStep ==
    ASSUME IInv, Control, NEW g \in Values, CommitClaimState(g)
    PROVE  /\ phase = "assert" /\ phase' = "commit" /\ pc = "idle" /\ result = "ok"
           /\ pc' = "load" /\ call' = "commit" /\ touched' = {} /\ SourcesHold /\ NewGraph(g)
           /\ draft'.new = [f \in Claim \ {Trusted} |-> g]
           /\ \A f \in Views : live[f] = live[Graph]
           /\ UNCHANGED <<live, ledger, seeds, baseFile, base, frozen, epoch, epochs, verdict, owed>>
<1>1. \A f \in Views : live[f] = live[Graph]
  BY DEF CommitClaimState, SourcesHold, ViewsShowGraph
<1>2. g # live[Graph]
  BY DEF CommitClaimState, NewGraph
<1>3. {f \in Views : live[f] # g} = Views
  BY <1>1, <1>2
<1>4. Views \cup {Graph} = Claim \ {Trusted}
  BY FilesAssumption, ViewsAssumption DEF Claim
<1>5. draft' = [NoDraft EXCEPT !.new = [f \in Claim \ {Trusted} |-> g], !.pre = Read(Premises)]
  BY <1>3, <1>4 DEF CommitClaimState, BeginCommit
<1>6. draft'.new = [f \in Claim \ {Trusted} |-> g]
  BY <1>5 DEF NoDraft
<1> QED BY <1>1, <1>6 DEF CommitClaimState, BeginCommit, SourcesHold, Goto, durable

LEMMA DraftKept ==
    ASSUME IInv, Control, GNext
    PROVE  DraftWritesViews'
<1> SUFFICES ASSUME call' = "commit"
             PROVE  DOMAIN draft'.new = Claim \ {Trusted} /\ \A f \in Views : draft'.new[f] = draft'.new[Graph]
  BY DEF DraftWritesViews, ShowsGraph, Claim
<1>1. CASE call = "commit" /\ draft'.new = draft.new
  BY <1>1 DEF Control, DraftWritesViews, ShowsGraph
<1>2. ASSUME NEW g \in Values, CommitClaimState(g)
      PROVE  DOMAIN draft'.new = Claim \ {Trusted} /\ \A f \in Views : draft'.new[f] = draft'.new[Graph]
  <2>1. draft'.new = [f \in Claim \ {Trusted} |-> g]
    BY <1>2, CommitStep
  <2>2. Views \subseteq Claim \ {Trusted} /\ Graph \in Claim \ {Trusted}
    BY FilesAssumption, ViewsAssumption DEF Claim
  <2> QED BY <2>1, <2>2
<1> QED BY <1>1, <1>2, DraftSteps

LEMMA TouchesKept ==
    ASSUME IInv, Control, GNext
    PROVE  Touches'
<1>1. touched \subseteq Claim /\ (touched # {} => ledger # <<>>) /\ (phase = "reload" => touched = {})
  BY DEF Control, Touches
<1>2. CASE StoreStep
  <2>1. CASE AppendCommitted
    <3>1. pc = "install"
      BY <2>1 DEF AppendCommitted
    <3>2. Odd /\ ~Complete /\ First(queue) = Len(ledger) /\ Len(ledger) \in DOMAIN ledger
      BY <3>1, InstallsOdd, Shapes
    <3>3. DOMAIN ledger[Len(ledger)].after = Claim
      BY <3>2 DEF Control, RecordsWriteViews, WritesViews, Odd
    <3>4. touched' \in {touched, touched \cup Claim} /\ phase' = phase
      BY <1>2, <3>2, <3>3 DEF StoreStep
    <3>5. phase # "reload"
      BY <3>2 DEF Control, Completes, Phases
    <3>6. ledger' # <<>>
      BY <2>1, AppendedCommitted, LineAtEnd DEF IInv, TypeOK
    <3> QED BY <1>1, <3>4, <3>5, <3>6 DEF Touches, Claim
  <2>2. CASE ~AppendCommitted
    <3>1. UNCHANGED <<touched, phase>>
      BY <1>2, <2>2 DEF StoreStep
    <3>2. ledger # <<>> => ledger' # <<>>
      <4>1. CASE Prepare
        BY <4>1 DEF Prepare, IInv, TypeOK
      <4>2. CASE UNCHANGED <<ledger, seeds>>
        BY <4>2
      <4>3. ~CrashTorn \/ ledger' = Append(ledger, Torn)
        BY DEF CrashTorn
      <4> QED BY <2>2, <4>1, <4>2, <4>3, LedgerSteps DEF IInv, TypeOK
    <3> QED BY <1>1, <3>1, <3>2 DEF Touches, Claim
  <2> QED BY <2>1, <2>2
<1>3. CASE Attempt
  <2>1. ledger' = ledger
    BY <1>3 DEF Attempt, StartEpoch, Freeze, ReloadFails, Resume, Refreshed, AssertSources,
       CommitClaimState, Asserted, AcceptTargets, Finish, Seal, Start, BeginRecover, BeginCommit,
       vars, durable
  <2>2. touched' \in {touched, {}}
    BY <1>3 DEF Attempt, StartEpoch, Freeze, ReloadFails, Resume, Refreshed, AssertSources,
       CommitClaimState, Asserted, AcceptTargets, Finish, Seal, Start
  <2>3. phase' = "reload" => touched' = {}
    BY <1>3 DEF Attempt, StartEpoch, Freeze, ReloadFails, Resume, Refreshed, AssertSources,
       CommitClaimState, Asserted, AcceptTargets, Finish, Seal, Start
  <2> QED BY <1>1, <2>1, <2>2, <2>3 DEF Touches, Claim
<1>4. CASE ControllerDies
  BY <1>4 DEF ControllerDies, Touches, Claim
<1>5. CASE ControllerRestarts \/ SomebodyEdits
  BY <1>1, <1>5 DEF ControllerRestarts, Restart, SomebodyEdits, Edit, gvars, durable, Touches, Claim
<1> QED BY <1>2, <1>3, <1>4, <1>5 DEF GNext

LEMMA ReadGuarded ==
    ASSUME TypeOK
    PROVE  Read(Guarded) \in [Guarded -> Contents]
BY ViewsAssumption DEF Read, TypeOK

LEMMA AcceptGives ==
    ASSUME TypeOK, base = baseFile, baseFile \in [Guarded -> Contents], NEW T, Accept(T)
    PROVE  /\ base' = baseFile'
           /\ baseFile' = [f \in Guarded |-> IF f \in T THEN live[f] ELSE baseFile[f]]
           /\ baseFile' \in [Guarded -> Contents]
BY ViewsAssumption DEF Accept, TypeOK

LEMMA BasesKept ==
    ASSUME TypeOK, TypeOK', Control, Phases', GNext
    PROVE  Bases'
<1>1. /\ phase # "none" => base = baseFile
      /\ phase # "none" \/ epoch = "open" => baseFile \in [Guarded -> Contents]
      /\ epoch = "open" => frozen \in [Files -> Contents]
      /\ phase = "reload" => epoch = "none"
      /\ phase \notin {"none", "reload"} => epoch = "open"
  BY DEF Control, Bases, Phases
<1>2. live \in [Files -> Contents]
  BY DEF TypeOK
<1>3. CASE StartEpoch
  BY <1>1, <1>3, ReadGuarded DEF StartEpoch, Bases
<1>4. CASE Freeze
  BY <1>1, <1>2, <1>4, AcceptGives DEF Freeze, Bases
<1>5. CASE AcceptTargets
  <2>1. CASE result = "ok"
    BY <1>1, <1>5, <2>1, AcceptGives DEF AcceptTargets, Bases
  <2>2. CASE result # "ok"
    BY <1>1, <1>5, <2>2 DEF AcceptTargets, Bases
  <2> QED BY <2>1, <2>2
<1>6. CASE Attempt /\ ~StartEpoch /\ ~Freeze /\ ~AcceptTargets
  BY <1>1, <1>6 DEF Attempt, ReloadFails, Resume, Refreshed, AssertSources,
     CommitClaimState, Asserted, Finish, Seal, Bases
<1>7. CASE StoreStep
  BY <1>1, <1>7 DEF StoreStep, Bases
<1>8. CASE ControllerDies
  BY <1>1, <1>8 DEF ControllerDies, Bases
<1>9. CASE ControllerRestarts \/ SomebodyEdits
  BY <1>1, <1>9 DEF ControllerRestarts, SomebodyEdits, gvars, Bases
<1> QED BY <1>3, <1>4, <1>5, <1>6, <1>7, <1>8, <1>9 DEF GNext

\* What is owed after a step of the store.
LEMMA OwedAfter ==
    ASSUME TypeOK, TypeOK', GuardTypeOK, StoreStep
    PROVE  /\ owed' = [f \in Guarded |-> IF live'[f] # live[f] THEN live'[f] ELSE owed[f]]
           /\ owed' \in [Guarded -> Contents]
           /\ live' = live => owed' = owed
<1>1. owed' = [f \in Guarded |-> IF live'[f] # live[f] THEN live'[f] ELSE owed[f]]
  BY DEF StoreStep
<1>2. owed \in [Guarded -> Contents] /\ live' \in [Files -> Contents] /\ Guarded \subseteq Files
  BY ViewsAssumption DEF GuardTypeOK, TypeOK
<1> QED BY <1>1, <1>2

LEMMA GuardTypeKept ==
    ASSUME TypeOK, TypeOK', Control, Phases', Bases', Touches', GNext
    PROVE  GuardTypeOK'
<1>1. GuardTypeOK /\ MaxEpochs \in Nat
  BY EpochsAssumption DEF Control
<1>2. touched' \subseteq Files
  <2>1. Claim \subseteq Files
    BY FilesAssumption, ViewsAssumption DEF Claim
  <2> QED BY <2>1 DEF Touches, Claim
<1>3. phase' \in {"none", "reload", "refresh", "running", "assert", "commit", "stopping", "sealing"}
      /\ epoch' \in {"none", "open"}
      /\ verdict' \in {"none", "bootstrap failed", "refused", "guard failed", "seal failed", "clean"}
  BY <1>1 DEF GNext, Attempt, StartEpoch, Freeze, ReloadFails, Resume, Refreshed, AssertSources,
     CommitClaimState, Asserted, AcceptTargets, Finish, Seal, StoreStep, ControllerDies,
     ControllerRestarts, SomebodyEdits, gvars, GuardTypeOK
<1>4. epochs' \in 0 .. MaxEpochs
  <2>1. epochs \in 0 .. MaxEpochs
    BY <1>1 DEF GuardTypeOK
  <2>2. CASE StartEpoch
    BY <1>1, <2>1, <2>2 DEF StartEpoch
  <2>3. CASE UNCHANGED epochs
    BY <2>1, <2>3
  <2>4. StartEpoch \/ UNCHANGED epochs
    BY DEF GNext, Attempt, Freeze, ReloadFails, Resume, Refreshed, AssertSources,
       CommitClaimState, Asserted, AcceptTargets, Finish, Seal, StoreStep, ControllerDies,
       ControllerRestarts, SomebodyEdits, gvars
  <2> QED BY <2>2, <2>3, <2>4
<1>5. owed' \in [Guarded -> Contents]
  <2>1. CASE StoreStep
    BY <1>1, <2>1, OwedAfter
  <2>2. CASE StartEpoch
    BY <2>2, ReadGuarded DEF StartEpoch
  <2>3. CASE UNCHANGED owed
    BY <1>1, <2>3 DEF GuardTypeOK
  <2>4. StoreStep \/ StartEpoch \/ UNCHANGED owed
    BY DEF GNext, Attempt, Freeze, ReloadFails, Resume, Refreshed, AssertSources,
       CommitClaimState, Asserted, AcceptTargets, Finish, Seal, ControllerDies,
       ControllerRestarts, SomebodyEdits, gvars
  <2> QED BY <2>1, <2>2, <2>3, <2>4
<1>6. baseFile' \in Baselines /\ base' \in Baselines /\ frozen' \in {Nothing} \cup [Files -> Contents]
  <2>1. /\ baseFile \in Baselines /\ base \in Baselines /\ frozen \in {Nothing} \cup [Files -> Contents]
    BY <1>1 DEF GuardTypeOK
  <2>2. live \in [Files -> Contents] /\ Read(Guarded) \in Baselines
    BY ReadGuarded DEF TypeOK, Baselines
  <2>3. CASE Freeze \/ AcceptTargets
    <3>1. base = baseFile /\ baseFile \in [Guarded -> Contents]
      BY <2>3 DEF Freeze, AcceptTargets, Control, Bases
    <3>2. baseFile' \in Baselines /\ base' \in Baselines
      BY <2>1, <2>3, <3>1, AcceptGives DEF Freeze, AcceptTargets, Baselines
    <3> QED BY <2>1, <2>2, <2>3, <3>2 DEF Freeze, AcceptTargets
  <2>4. CASE ~Freeze /\ ~AcceptTargets
    BY <2>1, <2>2, <2>4 DEF GNext, Attempt, StartEpoch, ReloadFails, Resume, Refreshed, AssertSources,
       CommitClaimState, Asserted, Finish, Seal, StoreStep, ControllerDies,
       ControllerRestarts, SomebodyEdits, gvars, Baselines
  <2> QED BY <2>3, <2>4
<1> QED BY <1>2, <1>3, <1>4, <1>5, <1>6 DEF GuardTypeOK, Baselines

LEMMA ControlKept ==
    ASSUME IInv, IInv', Control, GNext
    PROVE  Control'
<1>1. TypeOK /\ TypeOK' /\ Phases
  BY DEF IInv, Control
<1>2. Phases'
  BY <1>1, PhasesKept
<1>3. Touches' /\ Bases'
  BY <1>1, <1>2, TouchesKept, BasesKept
<1> QED BY <1>1, <1>2, <1>3, GuardTypeKept, RecordsKept, DraftKept, CompletesKept DEF Control

-----------------------------------------------------------------------------
(* Trust is preserved while the files are calm *)

\* Functions of the ledger in longer ledgers.
LEMMA InLedgerGrows ==
    ASSUME ledger \in Seq(Records), NEW r \in Records, ledger' = Append(ledger, r)
    PROVE  /\ \A v : InLedger(v) => InLedger(v)'
           /\ \A f : Source(f) /\ UNCHANGED <<live, frozen>> => Source(f)'
           /\ r.kind # "PREPARED" =>
                ((\E i \in DOMAIN ledger' : ledger'[i].kind = "PREPARED")
                   => \E i \in DOMAIN ledger : ledger[i].kind = "PREPARED")
<1>1. /\ \A i \in DOMAIN ledger : i \in DOMAIN ledger' /\ ledger'[i] = ledger[i]
      /\ \A i \in DOMAIN ledger' : i \in DOMAIN ledger \/ ledger'[i] = r
  BY LineAtEnd
<1>2. ASSUME NEW v, InLedger(v)
      PROVE  \E i \in DOMAIN ledger' : /\ ledger'[i].kind = "PREPARED"
                                      /\ v \in {ledger'[i].before[Graph], ledger'[i].after[Graph]}
  BY <1>1, <1>2 DEF InLedger, IsPrepared
<1>3. ASSUME NEW f, Source(f), UNCHANGED <<live, frozen>>
      PROVE  \/ live'[f] = frozen'[f]
             \/ \E i \in DOMAIN ledger' : /\ ledger'[i].kind = "PREPARED" /\ f \in DOMAIN ledger'[i].after
                                         /\ ledger'[i].after[f] = live'[f]
  BY <1>1, <1>3 DEF Source, IsPrepared
<1> QED BY <1>1, <1>2, <1>3 DEF InLedger, Source, IsPrepared

\* A step that leaves files, ledger and baseline alone.
LEMMA StillTrust ==
    ASSUME Trust, Control,
           UNCHANGED <<live, ledger, seeds, owed, baseFile, frozen, epoch>>,
           phase' \in {phase, "none"}, phase' # "none" => UNCHANGED verdict,
           call' = "commit" => call = "commit" /\ draft'.new = draft.new,
           SeenInPlace'
    PROVE  Trust'
<1>1. /\ Odd' = Odd /\ Even' = Even /\ Last' = Last /\ Latest' = Latest
      /\ \A i \in DOMAIN ledger : IsPrepared(i)' = IsPrepared(i)
  BY LedgerSame
<1>2. OwedPending' /\ OwedLatest' /\ PendingNew'
  BY <1>1 DEF Trust, OwedPending, OwedLatest, PendingNew
<1>3. OwedBase' /\ CheckedBase' /\ Reloading'
  BY DEF Trust, Control, Phases, OwedBase, CheckedBase, Reloading, Plain
<1>4. BaseKnown' /\ Anchored'
  BY DEF Trust, BaseKnown, Anchored, InLedger, IsPrepared
<1>5. FromKnown'
  BY DEF Trust, FromKnown, Source, IsPrepared
<1> QED BY <1>2, <1>3, <1>4, <1>5 DEF Trust

\* What a call that verified the ledger found.
LEMMA VerifiedInPlace ==
    ASSUME IInv, Control, Current, Complete, ledger # <<>>
    PROVE  \A f \in Claim : live[f] = Latest[f]
<1>1. \A f \in DOMAIN ledger[Len(ledger) - 1].after : live[f] = ledger[Len(ledger) - 1].after[f]
  BY CurrentIsOnTop DEF IInv, Complete
<1>2. DOMAIN ledger[Len(ledger) - 1].after = Claim
  BY Shapes DEF Control, RecordsWriteViews, WritesViews
<1> QED BY <1>1, <1>2 DEF Latest

LEMMA QuietStepTrust ==
    ASSUME TypeOK', IInv, Trust, Control, StoreStep,
           Load \/ Check \/ Verify \/ Plan \/ Stage \/ WriteFails
    PROVE  Trust'
<1>1. UNCHANGED <<live, ledger, seeds>>
  BY DEF Load, Check, Verify, Plan, Stage, WriteFails, Raise, durable
<1>2. UNCHANGED <<baseFile, frozen, epoch, phase, verdict>>
  BY DEF StoreStep
<1>3. UNCHANGED owed
  BY <1>1, OwedAfter DEF IInv, Control
<1>4. call' = "commit" => call = "commit" /\ draft'.new = draft.new
  <2>1. draft \in Drafts
    BY DEF IInv, TypeOK
  <2>2. CASE Plan \/ Stage
    BY <2>1, <2>2 DEF Plan, Stage, Raise, Return, End, Drafts
  <2>3. CASE Load \/ Check \/ Verify \/ WriteFails
    BY <2>3 DEF Load, Check, Verify, WriteFails, Raise, Return, End
  <2> QED BY <2>2, <2>3
<1>5. SeenInPlace'
  <2> SUFFICES ASSUME pc' = "idle", result' = "ok", ledger # <<>>
               PROVE  \A f \in Claim : live[f] = Latest[f]
    BY <1>1, LedgerSame DEF SeenInPlace, Claim
  <2>1. Current /\ pc \in {"verify", "plan"}
    BY DEF Load, Check, Verify, Plan, Stage, WriteFails, Raise, Return, End, Goto
  <2> QED BY <2>1, PlansComplete, VerifiedInPlace
<1> QED BY <1>1, <1>2, <1>3, <1>4, <1>5, StillTrust

LEMMA CrashTrust ==
    ASSUME IInv, IInv', Trust, Control, ControllerDies
    PROVE  Trust'
<1>1. /\ phase' = "none" /\ call' = "none" /\ pc' = "down"
      /\ UNCHANGED <<live, seeds, owed, baseFile, frozen, epoch>>
  BY DEF ControllerDies, Crash, CrashTorn, Die, durable
<1>2. CASE UNCHANGED ledger
  <2>1. SeenInPlace'
    BY <1>1 DEF SeenInPlace
  <2> QED BY <1>1, <1>2, <2>1, StillTrust
<1>3. CASE CrashTorn
  <2>1. ledger' = Append(ledger, Torn) /\ ledger \in Seq(Records) /\ Torn \in Records
    BY <1>3, TornIsRecord DEF CrashTorn, IInv, TypeOK
  <2>2. ~Odd' /\ ~Even' /\ ledger' # <<>>
    BY <2>1, LineAtEnd DEF Odd, Even, IsPrepared, IsCommitted, Torn
  <2>3. /\ \A v : InLedger(v) => InLedger(v)'
        /\ (\E i \in DOMAIN ledger' : ledger'[i].kind = "PREPARED")
              => \E i \in DOMAIN ledger : ledger[i].kind = "PREPARED"
    BY <2>1, InLedgerGrows DEF Torn
  <2>4. BaseKnown'
    BY <1>1, <2>3 DEF Trust, BaseKnown
  <2>5. Anchored'
    <3>1. PICK v : v = frozen[Graph] /\ v = frozen'[Graph]
      BY <1>1
    <3>2. InLedger(v) => InLedger(v)'
      BY <2>3
    <3>3. InLedger(v)' => InLedger(frozen[Graph])'
      BY <3>1 DEF InLedger
    <3>4. InLedger(frozen[Graph]) => InLedger(v)
      BY <3>1 DEF InLedger
    <3> QED BY <1>1, <2>3, <3>2, <3>3, <3>4 DEF Trust, Anchored, IsPrepared
  <2>6. OwedBase'
    <3>1. epoch = "open" => \A f \in Plain : owed[f] = baseFile[f]
      BY DEF Trust, OwedBase
    <3> QED BY <1>1, <2>2, <3>1 DEF OwedBase, Plain
  <2> QED BY <1>1, <2>2, <2>4, <2>5, <2>6
      DEF Trust, SeenInPlace, OwedPending, OwedLatest, CheckedBase, Reloading, PendingNew, FromKnown
<1> QED BY <1>2, <1>3 DEF ControllerDies, Crash, durable

LEMMA RestartTrust ==
    ASSUME Trust, Control, ControllerRestarts
    PROVE  Trust'
<1>1. UNCHANGED <<live, ledger, seeds, owed, baseFile, frozen, epoch, phase, verdict, call, draft>> /\ phase = "none"
  BY DEF ControllerRestarts, Restart, gvars, durable, Control, Phases
<1>2. SeenInPlace'
  BY <1>1 DEF SeenInPlace
<1> QED BY <1>1, <1>2, StillTrust

LEMMA InstallTrust ==
    ASSUME TypeOK', IInv, Known, Trust, Control, StoreStep, Install
    PROVE  Trust'
<1>1. PICK f : /\ pc = "install" /\ f \in DOMAIN Last
               /\ live' = [live EXCEPT ![f] = Last[f]]
               /\ UNCHANGED <<ledger, seeds, pc, call, draft, result>>
  BY InstallStep DEF Last
<1>2. UNCHANGED <<baseFile, frozen, epoch, phase, verdict>>
  BY DEF StoreStep
<1>3. Odd /\ ~Complete /\ ledger # <<>> /\ Len(ledger) \in DOMAIN ledger
  BY <1>1, InstallsOdd, Shapes DEF Odd
<1>4. f \in Claim
  BY <1>1, <1>3 DEF Control, RecordsWriteViews, WritesViews, Odd, Last
<1>5. /\ Odd' = Odd /\ Even' = Even /\ Last' = Last /\ Latest' = Latest
      /\ \A i \in DOMAIN ledger : IsPrepared(i)' = IsPrepared(i)
  BY <1>1, LedgerSame
<1>6. owed' = [h \in Guarded |-> IF live'[h] # live[h] THEN live'[h] ELSE owed[h]]
  BY OwedAfter DEF IInv, Control
<1>7. \A h \in Plain : live'[h] = live[h] /\ owed'[h] = owed[h]
  <2> SUFFICES ASSUME NEW h \in Plain PROVE live'[h] = live[h] /\ owed'[h] = owed[h]
    OBVIOUS
  <2>1. h \in Guarded /\ h \notin Views
    BY <1>3 DEF Plain
  <2>2. h # f
    BY <1>4, <2>1, ViewsAssumption DEF Claim
  <2> QED BY <1>1, <1>6, <2>1, <2>2, ViewsAssumption DEF IInv, TypeOK
<1>8. Plain' = Plain
  BY <1>1 DEF Plain
<1>9. OwedPending'
  <2> SUFFICES ASSUME phase # "none", NEW h \in Views, live'[h] = Last[h]
               PROVE  owed'[h] = live'[h]
    BY <1>2, <1>5 DEF OwedPending
  <2>1. h \in Guarded
    BY ViewsAssumption
  <2>2. CASE live'[h] # live[h]
    BY <1>6, <2>1, <2>2
  <2>3. CASE live'[h] = live[h]
    BY <1>3, <1>6, <2>1, <2>3 DEF Trust, OwedPending
  <2> QED BY <2>2, <2>3
<1>10. phase # "reload" /\ call # "commit"
  BY <1>3 DEF Control, Completes, Phases
<1>11. SeenInPlace' /\ OwedLatest' /\ PendingNew'
  BY <1>1, <1>2, <1>3, <1>5, Shapes DEF Trust, SeenInPlace, OwedLatest, PendingNew
<1>12. OwedBase' /\ CheckedBase' /\ Reloading'
  BY <1>2, <1>7, <1>8, <1>10 DEF Trust, OwedBase, CheckedBase, Reloading
<1>13. BaseKnown' /\ Anchored'
  BY <1>1, <1>2 DEF Trust, BaseKnown, Anchored, InLedger, IsPrepared
<1>14. FromKnown'
  BY <1>1, <1>10 DEF FromKnown
<1> QED BY <1>9, <1>11, <1>12, <1>13, <1>14 DEF Trust

LEMMA CommittedTrust ==
    ASSUME TypeOK', IInv, IInv', Known, Trust, Control, StoreStep, AppendCommitted
    PROVE  Trust'
<1>1. /\ pc = "install" /\ left = {} /\ pc' = "verify" /\ Len(ledger) \in DOMAIN ledger
      /\ ledger' = Append(ledger, Committed(Len(seeds))) /\ Committed(Len(seeds)) \in Records
      /\ UNCHANGED <<live, seeds, call, draft, result>>
      /\ ledger \in Seq(Records)
  BY AppendCommittedStep, AppendedCommitted DEF IInv, TypeOK
<1>2. UNCHANGED <<baseFile, frozen, epoch, phase, verdict, owed>>
  BY <1>1, OwedAfter DEF StoreStep, IInv, Control
<1>3. Odd /\ ~Complete /\ ledger # <<>>
  BY <1>1, InstallsOdd DEF Odd
<1>4. Complete' /\ ~Odd'
  BY <1>1, PlansComplete, Shapes DEF IInv, Recovered, Complete, Odd, IsPrepared, Committed, TypeOK
<1>5. Latest' = Last /\ ledger' # <<>>
  <2>1. Len(ledger') = Len(ledger) + 1 /\ ledger'[Len(ledger)] = ledger[Len(ledger)] /\ ledger' # <<>>
    BY <1>1, LineAtEnd
  <2>2. Len(ledger') - 1 = Len(ledger)
    BY <1>1, <2>1
  <2> QED BY <2>1, <2>2 DEF Latest, Last
<1>6. \A f \in DOMAIN Last : live[f] = Last[f]
  BY <1>1 DEF Known, Installs, Last
<1>7. Views \subseteq DOMAIN Last
  BY <1>1, <1>3 DEF Control, RecordsWriteViews, WritesViews, Odd, Last, Claim
<1>8. OwedLatest'
  <2>1. phase # "none"
    BY <1>1 DEF Control, Phases
  <2>2. \A f \in Views : owed[f] = Last[f]
    BY <1>3, <1>6, <1>7, <2>1 DEF Trust, OwedPending
  <2> QED BY <1>2, <1>5, <2>2 DEF OwedLatest
<1>9. phase # "reload" /\ call # "commit"
  BY <1>3 DEF Control, Completes, Phases
<1>10. /\ \A v : InLedger(v) => InLedger(v)'
       /\ (\E i \in DOMAIN ledger' : ledger'[i].kind = "PREPARED")
              => \E i \in DOMAIN ledger : ledger[i].kind = "PREPARED"
  BY <1>1, InLedgerGrows DEF Committed
<1>11. BaseKnown'
  BY <1>2, <1>10 DEF Trust, BaseKnown
<1>12. Anchored'
  <2>1. PICK v : v = frozen[Graph] /\ v = frozen'[Graph]
    BY <1>2
  <2>2. InLedger(v) => InLedger(v)'
    BY <1>10
  <2>3. InLedger(v)' => InLedger(frozen[Graph])'
    BY <2>1 DEF InLedger
  <2>4. InLedger(frozen[Graph]) => InLedger(v)
    BY <2>1 DEF InLedger
  <2> QED BY <1>2, <1>10, <2>2, <2>3, <2>4 DEF Trust, Anchored, IsPrepared
<1>13. OwedBase' /\ CheckedBase'
  <2>1. Plain' = Plain
    BY <1>3, <1>5 DEF Plain
  <2> QED BY <1>1, <1>2, <2>1 DEF Trust, OwedBase, CheckedBase
<1> QED BY <1>1, <1>2, <1>4, <1>8, <1>9, <1>11, <1>12, <1>13
    DEF Trust, SeenInPlace, OwedPending, Reloading, PendingNew, FromKnown

\* The PREPARED line starts from what is on the disk.
LEMMA PreparedLine ==
    ASSUME IInv, IInv', Known, Control, Prepare
    PROVE  LET r == ledger'[Len(ledger')] IN
           /\ r \in Records /\ r.kind = "PREPARED" /\ ledger' = Append(ledger, r)
           /\ DOMAIN r.before = Claim /\ \A f \in Claim : r.before[f] = live[f]
           /\ \A f \in Views : r.after[f] = draft.new[Graph]
           /\ call = "commit" /\ phase = "commit" /\ call' = "settle" /\ pc' = "load"
           /\ UNCHANGED live
<1>1. PICK n : /\ ledger' = Append(ledger, Prepared(n, Read(Targets), After(n), draft.pre))
               /\ pc' = "load" /\ call' = "settle" /\ UNCHANGED <<live, draft>>
  BY PrepareStep
<1>2. call = "commit" /\ phase = "commit"
  BY DEF Prepare, IInv, Budget, Control, Phases, GuardTypeOK
<1>3. ledger \in Seq(Records) /\ ledger' \in Seq(Records)
  BY DEF IInv, TypeOK
<1>4. ledger'[Len(ledger')] = Prepared(n, Read(Targets), After(n), draft.pre)
      /\ Len(ledger') \in DOMAIN ledger'
  BY <1>1, <1>3
<1>5. DOMAIN draft.new = Claim \ {Trusted} /\ ShowsGraph(draft.new)
  BY <1>2 DEF Control, DraftWritesViews
<1>6. Graph # Trusted /\ Trusted \notin Views /\ Trusted \in Claim /\ Views \subseteq Claim
  BY FilesAssumption, ViewsAssumption DEF Claim
<1>7. Targets = Claim
  BY <1>5, <1>6 DEF Targets
<1>8. \A f \in Views : After(n)[f] = draft.new[Graph]
  BY <1>5, <1>6, <1>7 DEF After, ShowsGraph
<1>9. DOMAIN Read(Targets) = Claim /\ \A f \in Claim : Read(Targets)[f] = live[f]
  BY <1>7 DEF Read
<1>10. ledger'[Len(ledger')] \in Records
  BY <1>3, <1>4
<1> QED BY <1>1, <1>2, <1>4, <1>8, <1>9, <1>10 DEF Prepared

LEMMA PrepareTrust ==
    ASSUME TypeOK', IInv, IInv', Known, Trust, Control, StoreStep, Prepare
    PROVE  Trust'
<1>1. PICK r \in Records :
           /\ r.kind = "PREPARED" /\ ledger' = Append(ledger, r) /\ r = ledger'[Len(ledger')]
           /\ DOMAIN r.before = Claim /\ \A f \in Claim : r.before[f] = live[f]
           /\ \A f \in Views : r.after[f] = draft.new[Graph]
           /\ call = "commit" /\ phase = "commit" /\ call' = "settle" /\ pc' = "load"
           /\ UNCHANGED live
  BY PreparedLine
<1>2. UNCHANGED <<baseFile, frozen, epoch, phase, verdict, owed>>
  BY <1>1, OwedAfter DEF StoreStep, IInv, Control
<1>3. ledger \in Seq(Records)
  BY DEF IInv, TypeOK
<1>4. Odd' /\ ~Even' /\ Last' = r.after /\ ledger' # <<>>
  BY <1>1, <1>3, LineAtEnd DEF Odd, Even, IsPrepared, IsCommitted, Last
<1>5. \A f \in Views : baseFile[f] # r.after[f] /\ live[f] # r.after[f]
  BY <1>1 DEF Trust, FromKnown
<1>6. OwedPending' /\ OwedLatest' /\ PendingNew'
  BY <1>1, <1>2, <1>4, <1>5 DEF OwedPending, OwedLatest, PendingNew
<1>7. \A v : InLedger(v) => InLedger(v)'
  BY <1>1, <1>3, InLedgerGrows
<1>8. BaseKnown'
  BY <1>2, <1>7 DEF Trust, BaseKnown
<1>9. Anchored'
  <2>1. PICK v : v = frozen[Graph] /\ v = frozen'[Graph]
    BY <1>2
  <2>2. InLedger(v)' => InLedger(frozen[Graph])'
    BY <2>1 DEF InLedger
  <2>3. CASE ledger = <<>>
    <3>1. live[Graph] = v /\ Graph \in Claim
      BY <1>1, <2>1, <2>3 DEF Trust, FromKnown, Claim
    <3>2. Len(ledger') \in DOMAIN ledger'
      BY <1>1, <1>3
    <3>3. ledger'[Len(ledger')].before[Graph] = v
      BY <1>1, <3>1
    <3>4. InLedger(v)'
      BY <1>1, <3>2, <3>3 DEF InLedger, IsPrepared
    <3> QED BY <2>2, <3>4 DEF Anchored
  <2>4. CASE ledger # <<>>
    <3>1. Complete
      BY <1>1 DEF Control, Completes
    <3>2. \E i \in DOMAIN ledger : IsPrepared(i)
      BY <2>4, <3>1, Shapes
    <3>3. epoch = "open" => InLedger(frozen[Graph])
      BY <3>2 DEF Trust, Anchored
    <3>4. InLedger(frozen[Graph]) => InLedger(v)
      BY <2>1 DEF InLedger
    <3> QED BY <1>2, <1>7, <2>2, <3>3, <3>4 DEF Anchored
  <2> QED BY <2>3, <2>4
<1>10. OwedBase'
  BY <1>2, <1>4 DEF Trust, OwedBase, Plain
<1> QED BY <1>1, <1>2, <1>6, <1>8, <1>9, <1>10
    DEF Trust, SeenInPlace, CheckedBase, Reloading, FromKnown

\* With calm files an edit falls between attempts or between the operations
\* of a running one.
LEMMA EditTrust ==
    ASSUME IInv, IInv', Calm', Trust, Control, SomebodyEdits
    PROVE  Trust'
<1>1. /\ phase \in {"none", "running"}
      /\ UNCHANGED <<ledger, seeds, pc, call, draft, result, phase, baseFile, frozen, epoch, verdict, owed>>
  <2>1. edits' = edits + 1 /\ edits \in Nat
    BY DEF SomebodyEdits, Edit, IInv, TypeOK
  <2>2. ~EditsAnytime
    BY <2>1 DEF Calm
  <2> QED BY <2>2 DEF SomebodyEdits, Edit, gvars, volatile
<1>2. /\ Odd' = Odd /\ Even' = Even /\ Last' = Last /\ Latest' = Latest
      /\ \A i \in DOMAIN ledger : IsPrepared(i)' = IsPrepared(i)
  BY <1>1, LedgerSame
<1>3. phase = "running" => ~Odd
  BY Shapes DEF Control, Completes
<1>4. SeenInPlace' /\ OwedPending' /\ OwedLatest' /\ PendingNew'
  BY <1>1, <1>2, <1>3 DEF Trust, SeenInPlace, OwedPending, OwedLatest, PendingNew
<1>5. OwedBase' /\ CheckedBase' /\ Reloading'
  BY <1>1 DEF Trust, OwedBase, CheckedBase, Reloading, Plain
<1>6. BaseKnown' /\ Anchored'
  BY <1>1 DEF Trust, BaseKnown, Anchored, InLedger, IsPrepared
<1>7. FromKnown'
  BY <1>1 DEF FromKnown, Control, Phases
<1> QED BY <1>4, <1>5, <1>6, <1>7 DEF Trust

LEMMA StartTrust ==
    ASSUME IInv, Trust, Control, StartEpoch
    PROVE  Trust'
<1>1. /\ phase' = "reload" /\ epoch' = "none" /\ call' = "recover" /\ pc' = "load"
      /\ UNCHANGED <<live, ledger, seeds>> /\ epoch = "none"
      /\ baseFile' = Read(Guarded) /\ owed' = Read(Guarded)
  BY DEF StartEpoch, Start, BeginRecover, Goto, durable
<1>2. ~Odd'
  BY <1>1, LedgerSame, Shapes DEF Control, Completes
<1>3. OwedBase' /\ Reloading'
  BY <1>1 DEF OwedBase, Reloading, Plain, Read
<1> QED BY <1>1, <1>2, <1>3
    DEF Trust, SeenInPlace, OwedPending, OwedLatest, CheckedBase, BaseKnown, Anchored, PendingNew, FromKnown

LEMMA FreezeTrust ==
    ASSUME IInv, Trust, Control, Freeze
    PROVE  Trust'
<1>1. /\ phase = "reload" /\ pc = "idle" /\ result = "ok" /\ ViewsShowGraph
      /\ frozen' = live /\ epoch' = "open" /\ phase' = "running" /\ Accept(touched)
      /\ UNCHANGED <<live, ledger, seeds, call, pc, result, verdict, owed>>
  BY DEF Freeze, Idle, vars, durable, volatile
<1>2. touched = {} /\ base = baseFile /\ baseFile \in [Guarded -> Contents]
  BY <1>1 DEF Control, Touches, Bases
<1>3. baseFile' = baseFile
  BY <1>1, <1>2, AcceptGives DEF IInv
<1>4. \A f \in Guarded : live[f] = baseFile[f] /\ owed[f] = baseFile[f]
  BY <1>1 DEF Trust, Reloading
<1>5. Complete /\ ~Odd /\ Odd' = Odd /\ Even' = Even /\ Latest' = Latest
  BY <1>1, LedgerSame, Shapes DEF Control, Completes
<1>6. ledger # <<>> => \A f \in Claim : live[f] = Latest[f]
  BY <1>1 DEF Trust, SeenInPlace
<1>7. OwedLatest'
  <2> SUFFICES ASSUME Even, NEW f \in Views PROVE owed[f] = Latest[f]
    BY <1>1, <1>5 DEF OwedLatest
  <2>1. f \in Claim /\ f \in Guarded /\ ledger # <<>>
    BY ViewsAssumption DEF Claim, Even
  <2> QED BY <1>4, <1>6, <2>1
<1>8. OwedBase'
  BY <1>1, <1>3, <1>4 DEF OwedBase, Plain
<1>9. BaseKnown'
  <2>1. \A f \in Views : baseFile[f] = live[Graph]
    BY <1>1, <1>4, ViewsAssumption DEF ViewsShowGraph
  <2> QED BY <1>1, <1>3, <2>1 DEF BaseKnown
<1>10. Anchored'
  <2> SUFFICES ASSUME NEW i \in DOMAIN ledger, IsPrepared(i)
               PROVE  \E j \in DOMAIN ledger : ledger[j].kind = "PREPARED"
                                  /\ live[Graph] \in {ledger[j].before[Graph], ledger[j].after[Graph]}
    BY <1>1 DEF Anchored, InLedger, IsPrepared
  <2>1. ledger # <<>>
    BY DEF IInv, TypeOK
  <2>2. Len(ledger) - 1 \in DOMAIN ledger /\ IsPrepared(Len(ledger) - 1)
    BY <1>5, <2>1, Shapes
  <2>3. live[Graph] = ledger[Len(ledger) - 1].after[Graph]
    BY <1>6, <2>1 DEF Latest, Claim
  <2> QED BY <2>2, <2>3 DEF IsPrepared
<1> QED BY <1>1, <1>5, <1>7, <1>8, <1>9, <1>10
    DEF Trust, SeenInPlace, OwedPending, CheckedBase, Reloading, PendingNew, FromKnown, Control, Phases

\* Steps of the attempt that leave the files, the ledger and the baseline
\* alone and begin no commit.
LEMMA AttemptTrust ==
    ASSUME Trust, Control,
           ReloadFails \/ Refreshed \/ AssertSources \/ Asserted \/ Seal
    PROVE  Trust'
<1>1. UNCHANGED <<live, ledger, seeds, owed, baseFile, frozen>> /\ call' # "commit"
  BY DEF ReloadFails, Refreshed, AssertSources, Asserted, Seal, Start, BeginRecover, Idle, vars,
     durable, volatile, Control, Phases
<1>2. /\ phase # "none" /\ phase' \in {"none", "running", "assert", "stopping"}
      /\ epoch' \in {epoch, "none"} /\ (phase' # "none" => epoch = "open" /\ epoch' = "open")
  BY DEF ReloadFails, Refreshed, AssertSources, Asserted, Seal, Control, Phases
<1>3. /\ Odd' = Odd /\ Even' = Even /\ Last' = Last /\ Latest' = Latest
      /\ \A i \in DOMAIN ledger : IsPrepared(i)' = IsPrepared(i)
  BY <1>1, LedgerSame
<1>4. SeenInPlace'
  <2>1. CASE Asserted
    BY <1>1, <1>3, <2>1 DEF Asserted, Trust, SeenInPlace, vars, volatile
  <2>2. CASE AssertSources
    BY <2>2 DEF AssertSources, Start, BeginRecover, Goto, SeenInPlace
  <2>3. CASE ReloadFails \/ Refreshed \/ Seal
    BY <2>3 DEF ReloadFails, Refreshed, Seal, SeenInPlace
  <2> QED BY <2>1, <2>2, <2>3
<1>5. OwedPending' /\ OwedLatest' /\ PendingNew'
  BY <1>1, <1>2, <1>3 DEF Trust, OwedPending, OwedLatest, PendingNew
<1>6. OwedBase' /\ CheckedBase' /\ Reloading'
  BY <1>1, <1>2 DEF Trust, OwedBase, CheckedBase, Reloading, Plain
<1>7. BaseKnown' /\ Anchored'
  BY <1>1, <1>2 DEF Trust, BaseKnown, Anchored, InLedger, IsPrepared
<1> QED BY <1>1, <1>4, <1>5, <1>6, <1>7 DEF Trust, FromKnown

\* A resumed epoch finds the protected files as the baseline has them, which
\* no pending transition would write.
LEMMA ResumeTrust ==
    ASSUME Trust, Control, Resume
    PROVE  Trust'
<1>1. /\ UNCHANGED <<live, ledger, seeds, owed, baseFile, frozen, epoch>>
      /\ call' # "commit" /\ epoch = "open" /\ phase' \in {"none", "refresh"}
      /\ phase' = "refresh" => pc' = "load" /\ Changed(baseFile) = {}
  BY DEF Resume, Start, BeginRecover, Goto, Idle, vars, durable, volatile, Control, Phases
<1>2. /\ Odd' = Odd /\ Even' = Even /\ Last' = Last /\ Latest' = Latest
  BY <1>1, LedgerSame
<1>3. OwedPending'
  <2> SUFFICES ASSUME phase' = "refresh", Odd, NEW f \in Views, live[f] = Last[f]
               PROVE  FALSE
    BY <1>1, <1>2 DEF OwedPending
  <2>1. baseFile[f] = live[f]
    BY <1>1, ViewsAssumption DEF Changed
  <2> QED BY <2>1 DEF Trust, PendingNew
<1>4. SeenInPlace' /\ OwedLatest' /\ PendingNew'
  BY <1>1, <1>2 DEF Trust, SeenInPlace, OwedLatest, PendingNew
<1>5. OwedBase' /\ CheckedBase' /\ Reloading'
  BY <1>1 DEF Trust, OwedBase, CheckedBase, Reloading, Plain
<1>6. BaseKnown' /\ Anchored'
  BY <1>1 DEF Trust, BaseKnown, Anchored, InLedger, IsPrepared
<1> QED BY <1>1, <1>3, <1>4, <1>5, <1>6 DEF Trust, FromKnown

\* Sources that hold come from the start of the epoch or from a transition.
LEMMA SourcesKnown ==
    ASSUME IInv, SourcesHold, Complete
    PROVE  /\ \A f \in Claim : Source(f)
           /\ ledger = <<>> => live[Graph] = frozen[Graph]
<1>1. CommittedIds # {} => ledger # <<>>
  BY DEF CommittedIds
<1>2. CommittedIds # {} =>
        /\ LatestCommitted = ledger[Len(ledger) - 1]
        /\ Len(ledger) - 1 \in DOMAIN ledger /\ IsPrepared(Len(ledger) - 1)
  BY <1>1, LatestIsLast DEF IInv, Complete
<1>3. \A f : Authorized(f) => Source(f)
  BY <1>2 DEF Authorized, Source
<1>4. \A f : live[f] = frozen[f] => Source(f)
  BY DEF Source
<1>5. \A f \in Views : Source(f)
  BY <1>3, <1>4 DEF SourcesHold, SourcesUnchanged
<1>6. \A f \in {Graph, Trusted} : Source(f)
  BY <1>3, <1>4 DEF SourcesHold, ClaimStateUnchanged
<1>7. ledger = <<>> => live[Graph] = frozen[Graph]
  BY <1>1 DEF SourcesHold, ClaimStateUnchanged
<1> QED BY <1>5, <1>6, <1>7 DEF Claim

\* A new ClaimGraph is none that the ledger or the baseline knows.
LEMMA CommitTrust ==
    ASSUME IInv, Trust, Control, NEW g \in Values, CommitClaimState(g)
    PROVE  Trust'
<1>1. /\ phase = "assert" /\ phase' = "commit" /\ pc = "idle" /\ result = "ok" /\ pc' = "load"
      /\ SourcesHold /\ NewGraph(g) /\ draft'.new = [f \in Claim \ {Trusted} |-> g]
      /\ \A f \in Views : live[f] = live[Graph]
      /\ UNCHANGED <<live, ledger, seeds, baseFile, frozen, epoch, owed>>
  BY CommitStep
<1>2. Complete /\ epoch = "open"
  BY <1>1 DEF Control, Completes, Phases
<1>3. /\ Odd' = Odd /\ Even' = Even /\ Last' = Last /\ Latest' = Latest
      /\ \A i \in DOMAIN ledger : IsPrepared(i)' = IsPrepared(i)
  BY <1>1, LedgerSame
<1>4. ~Odd
  BY <1>2, Shapes
<1>5. \A v : InLedger(v) => v # g
  BY <1>1 DEF NewGraph, InLedger
<1>6. (\A f \in Claim : Source(f)) /\ (ledger = <<>> => live[Graph] = frozen[Graph])
  BY <1>1, <1>2, SourcesKnown
<1>7. frozen[Graph] # g /\ live[Graph] # g
  <2>1. live[Graph] # g
    BY <1>1 DEF NewGraph
  <2>2. ledger # <<>> => InLedger(frozen[Graph])
    BY <1>2, Shapes DEF Trust, Anchored
  <2> QED BY <1>5, <1>6, <2>1, <2>2
<1>8. \A f \in Views : baseFile[f] # g
  BY <1>2, <1>5, <1>7 DEF Trust, BaseKnown
<1>9. draft'.new[Graph] = g
  BY <1>1, FilesAssumption DEF Claim
<1>10. FromKnown'
  <2>1. \A f \in Claim : \/ live'[f] = frozen'[f]
                         \/ \E i \in DOMAIN ledger' : /\ ledger'[i].kind = "PREPARED"
                                                      /\ f \in DOMAIN ledger'[i].after
                                                      /\ ledger'[i].after[f] = live'[f]
    BY <1>1, <1>6 DEF Source, IsPrepared
  <2> QED BY <1>1, <1>6, <1>7, <1>8, <1>9, <2>1 DEF FromKnown, Source, IsPrepared, Claim
<1>11. SeenInPlace' /\ OwedPending' /\ OwedLatest' /\ PendingNew'
  BY <1>1, <1>3, <1>4 DEF Trust, SeenInPlace, OwedPending, OwedLatest, PendingNew
<1>12. OwedBase' /\ CheckedBase' /\ Reloading'
  BY <1>1, <1>2 DEF Trust, OwedBase, CheckedBase, Reloading, Plain
<1>13. BaseKnown' /\ Anchored'
  BY <1>1 DEF Trust, BaseKnown, Anchored, InLedger, IsPrepared
<1> QED BY <1>10, <1>11, <1>12, <1>13 DEF Trust

\* What is accepted is in place, and the ledger knows it.
LEMMA AcceptTrust ==
    ASSUME IInv, Trust, Control, AcceptTargets
    PROVE  Trust'
<1>1. /\ phase = "commit" /\ phase' \in {"running", "stopping"} /\ pc = "idle" /\ epoch = "open"
      /\ UNCHANGED <<live, ledger, seeds, frozen, epoch, owed, call, pc, result>> /\ call = "none"
  BY DEF AcceptTargets, Idle, vars, durable, volatile, Control, Phases
<1>2. /\ Odd' = Odd /\ Even' = Even /\ Last' = Last /\ Latest' = Latest
      /\ \A i \in DOMAIN ledger : IsPrepared(i)' = IsPrepared(i)
  BY <1>1, LedgerSame
<1>3. Anchored' /\ FromKnown' /\ CheckedBase' /\ Reloading'
  BY <1>1 DEF Trust, Anchored, InLedger, IsPrepared, FromKnown, CheckedBase, Reloading
<1>4. SeenInPlace' /\ OwedPending' /\ OwedLatest'
  BY <1>1, <1>2 DEF AcceptTargets, Trust, SeenInPlace, OwedPending, OwedLatest
<1>5. CASE result # "ok"
  <2>1. baseFile' = baseFile
    BY <1>5 DEF AcceptTargets
  <2>2. OwedBase' /\ BaseKnown' /\ PendingNew'
    BY <1>1, <1>2, <2>1 DEF Trust, OwedBase, Plain, BaseKnown, InLedger, IsPrepared, PendingNew
  <2> QED BY <1>3, <1>4, <2>2 DEF Trust
<1>6. CASE result = "ok"
  <2>1. baseFile' = [f \in Guarded |-> IF f \in touched THEN live[f] ELSE baseFile[f]]
    BY <1>1, <1>6, AcceptGives DEF AcceptTargets, IInv, Control, Bases
  <2>2. Complete /\ ~Odd
    BY <1>1, <1>6, Shapes DEF Control, Completes
  <2>3. touched \subseteq Claim /\ (touched # {} => ledger # <<>>)
    BY DEF Control, Touches
  <2>4. OwedBase'
    <3>1. \A f \in Plain : f \notin touched
      BY <2>3, ViewsAssumption DEF Plain, Claim
    <3>2. \A f \in Plain : owed[f] = baseFile[f] /\ f \in Guarded
      BY <1>1 DEF Trust, OwedBase, Plain
    <3> QED BY <1>1, <2>1, <3>1, <3>2 DEF OwedBase, Plain
  <2>5. BaseKnown'
    <3>1. ASSUME NEW f \in Views
          PROVE  baseFile'[f] = frozen[Graph] \/ InLedger(baseFile'[f])
      <4>1. f \in Guarded /\ f \in Claim /\ Graph \in Claim
        BY ViewsAssumption DEF Claim
      <4>2. CASE f \notin touched
        BY <1>1, <2>1, <4>1, <4>2 DEF Trust, BaseKnown
      <4>3. CASE f \in touched
        <5>1. Len(ledger) - 1 \in DOMAIN ledger /\ IsPrepared(Len(ledger) - 1) /\ ledger # <<>>
          BY <2>2, <2>3, <4>3, Shapes
        <5>2. live[f] = Latest[f] /\ Latest[f] = Latest[Graph]
          BY <1>1, <1>6, <4>1, <5>1
          DEF Trust, SeenInPlace, Control, RecordsWriteViews, WritesViews, ShowsGraph, Latest
        <5> QED BY <2>1, <4>1, <4>3, <5>1, <5>2 DEF InLedger, Latest
      <4> QED BY <4>2, <4>3
    <3>2. \A f \in Views : \/ baseFile'[f] = frozen'[Graph]
                           \/ \E i \in DOMAIN ledger' :
                                /\ ledger'[i].kind = "PREPARED"
                                /\ baseFile'[f] \in {ledger'[i].before[Graph], ledger'[i].after[Graph]}
      BY <1>1, <3>1 DEF InLedger, IsPrepared
    <3> QED BY <3>2 DEF BaseKnown, InLedger, IsPrepared
  <2>6. PendingNew'
    BY <1>2, <2>2 DEF PendingNew
  <2> QED BY <1>3, <1>4, <2>4, <2>5, <2>6 DEF Trust
<1> QED BY <1>5, <1>6

LEMMA FinishTrust ==
    ASSUME Trust, Control, Finish
    PROVE  Trust'
<1>1. /\ UNCHANGED <<live, ledger, seeds, owed, baseFile, frozen, epoch>>
      /\ call' = "recover" /\ pc' = "load" /\ phase' = "sealing" /\ phase \in {"running", "stopping"}
      /\ verdict' = "none" => Changed(base) = {}
  BY DEF Finish, Start, BeginRecover, Goto, durable
<1>2. base = baseFile
  BY <1>1 DEF Control, Bases
<1>3. /\ Odd' = Odd /\ Even' = Even /\ Last' = Last /\ Latest' = Latest
  BY <1>1, LedgerSame
<1>4. CheckedBase'
  <2>1. \A f \in Plain : f \in Guarded /\ owed[f] = baseFile[f]
    BY <1>1 DEF Trust, OwedBase, Plain
  <2>2. verdict' = "none" => \A f \in Guarded : baseFile[f] = live[f]
    BY <1>1, <1>2 DEF Changed
  <2> QED BY <1>1, <2>1, <2>2 DEF CheckedBase, Plain
<1>5. SeenInPlace' /\ OwedPending' /\ OwedLatest' /\ PendingNew'
  BY <1>1, <1>3 DEF Trust, SeenInPlace, OwedPending, OwedLatest, PendingNew
<1>6. OwedBase' /\ Reloading'
  BY <1>1 DEF Trust, OwedBase, Reloading, Plain
<1>7. BaseKnown' /\ Anchored'
  BY <1>1 DEF Trust, BaseKnown, Anchored, InLedger, IsPrepared
<1> QED BY <1>1, <1>4, <1>5, <1>6, <1>7 DEF Trust, FromKnown

LEMMA TrustKept ==
    ASSUME IInv, IInv', Known, Calm', Trust, Control, GNext
    PROVE  Trust'
<1>1. TypeOK'
  BY DEF IInv
<1>2. CASE Attempt
  BY <1>2, StartTrust, FreezeTrust, AttemptTrust, ResumeTrust, CommitTrust, AcceptTrust, FinishTrust
  DEF Attempt
<1>3. CASE StoreStep
  BY <1>1, <1>3, QuietStepTrust, InstallTrust, CommittedTrust, PrepareTrust DEF StoreStep, Commit
<1>4. CASE ControllerDies \/ ControllerRestarts \/ SomebodyEdits
  BY <1>4, CrashTrust, RestartTrust, EditTrust
<1> QED BY <1>2, <1>3, <1>4 DEF GNext

-----------------------------------------------------------------------------
(* Peace is preserved until the first fault or edit *)

LEMMA QuietBefore ==
    ASSUME IInv, GNext, Quiet'
    PROVE  /\ Quiet /\ Calm /\ Calm' /\ faults' = faults
           /\ ~WriteFails /\ ~ControllerDies /\ ~SomebodyEdits
<1>1. faults \in Nat /\ edits \in Nat /\ faults' = 0 /\ edits' = 0
  BY DEF IInv, TypeOK, Quiet
<1>2. ~WriteFails /\ ~ControllerDies /\ ~SomebodyEdits
  BY <1>1 DEF WriteFails, ControllerDies, Crash, CrashTorn, Die, SomebodyEdits, Edit
<1>3. Attempt => UNCHANGED <<faults, edits>>
  BY DEF Attempt, StartEpoch, Freeze, ReloadFails, Resume, Refreshed, AssertSources,
     CommitClaimState, Asserted, AcceptTargets, Finish, Seal, Start, BeginRecover, BeginCommit, vars
<1>4. StoreStep => UNCHANGED <<faults, edits>>
  BY <1>2 DEF StoreStep, AppendCommitted, Load, Check, Install, Verify, Commit, Plan, Stage, Prepare
<1>5. ControllerRestarts => UNCHANGED <<faults, edits>>
  BY DEF ControllerRestarts, Restart
<1>6. faults' = faults /\ edits' = edits
  BY <1>2, <1>3, <1>4, <1>5 DEF GNext
<1> QED BY <1>1, <1>2, <1>6 DEF Quiet, Calm

\* No call raises, and nothing is left pending.
LEMMA SmoothKept ==
    ASSUME KInv, UInv, IInv', Control, Smooth, Quiet', GNext
    PROVE  Smooth'
<1>1. IInv /\ Quiet /\ faults' = faults /\ ~WriteFails /\ ~ControllerDies /\ ~SomebodyEdits /\ Known
  BY QuietBefore DEF KInv
<1>2. Undisturbed /\ InPlace
  BY <1>1 DEF Undisturbed, Smooth, NoTorn, Quiet, UInv
<1>3. result' # "raised"
  <2>1. [Next]_vars
    BY GuardedStep
  <2>2. RaisesForItsOwnWrites
    BY <1>1, <1>2, <2>1, RaisesOnlyForWrites
  <2> QED BY <1>1, <1>2, <2>2 DEF RaisesForItsOwnWrites, Smooth, Quiet
<1>4. CASE AppendCommitted /\ StoreStep
  <2>1. /\ ledger' = Append(ledger, Committed(Len(seeds))) /\ ledger \in Seq(Records)
        /\ Committed(Len(seeds)) \in Records
    BY <1>1, <1>4, AppendedCommitted DEF IInv, TypeOK
  <2>2. ~Odd' /\ NoTorn'
    BY <2>1, LineAtEnd DEF Smooth, Odd, NoTorn, IsPrepared, Committed
  <2> QED BY <1>3, <2>2 DEF Smooth
<1>5. CASE Prepare /\ StoreStep
  <2>1. PICK r \in Records : r.kind = "PREPARED" /\ ledger' = Append(ledger, r) /\ call' = "settle"
    BY <1>1, <1>5, PreparedLine
  <2>2. NoTorn'
    BY <1>1, <2>1, LineAtEnd DEF Smooth, NoTorn, IInv, TypeOK
  <2> QED BY <1>3, <2>1, <2>2 DEF Smooth
<1>6. CASE UNCHANGED <<ledger, seeds>>
  <2>1. Odd' = Odd /\ NoTorn' = NoTorn
    BY <1>6, LedgerSame
  <2>2. Odd => pc \notin {"idle", "verify", "plan", "stage", "prepare"}
    BY <1>1, Shapes, PlansComplete DEF Control, Phases, Smooth
  <2>3. Odd => call' = "settle"
    <3> SUFFICES ASSUME Odd PROVE call' = "settle"
      OBVIOUS
    <3>1. call = "settle" /\ pc # "down"
      BY DEF Smooth, Control, Phases
    <3>2. StoreStep
      BY <1>1, <2>2, <3>1 DEF GNext, Attempt, StartEpoch, Freeze, ReloadFails, Resume, Refreshed,
         AssertSources, CommitClaimState, Asserted, AcceptTargets, Finish, Seal, Start, BeginRecover,
         BeginCommit, Idle, ControllerRestarts, Restart
    <3> QED BY <1>1, <1>3, <2>2, <3>1, <3>2 DEF StoreStep, AppendCommitted, Load, Check, Install,
            Verify, Commit, Plan, Stage, Prepare, Raise, End
  <2> QED BY <1>3, <2>1, <2>3 DEF Smooth
<1> QED BY <1>1, <1>4, <1>5, <1>6, LedgerSteps

\* Only a commit installs, and what it installs is accepted afterwards.
LEMMA BaseKept ==
    ASSUME KInv, IInv', Control, Smooth, BaseUpToDate, Quiet', GNext
    PROVE  BaseUpToDate'
<1>1. IInv /\ ~WriteFails /\ ~ControllerDies /\ ~SomebodyEdits /\ Known
  BY QuietBefore DEF KInv
<1>2. phase # "none" \/ epoch = "open" =>
        \A f \in Guarded :
           \/ baseFile[f] = live[f]
           \/ phase = "commit" /\ (f \in touched \/ (pc = "install" /\ f \in DOMAIN Last))
  BY DEF BaseUpToDate, Accounted
<1>3. CASE StartEpoch
  BY <1>3 DEF StartEpoch, Start, BeginRecover, durable, BaseUpToDate, Accounted, Read
<1>4. CASE Freeze \/ AcceptTargets
  <2>1. /\ pc = "idle" /\ phase # "none" /\ result # "raised" /\ result # "none"
        /\ base = baseFile /\ baseFile \in [Guarded -> Contents]
        /\ UNCHANGED live
    BY <1>4 DEF Freeze, AcceptTargets, Idle, vars, durable, Smooth, Control, Phases, Bases
  <2>2. Accept(touched)
    BY <1>1, <1>4, <2>1 DEF Freeze, AcceptTargets, IInv, TypeOK
  <2>3. baseFile' = [f \in Guarded |-> IF f \in touched THEN live[f] ELSE baseFile[f]]
    BY <1>1, <2>1, <2>2, AcceptGives DEF IInv
  <2>4. \A f \in Guarded : baseFile'[f] = live'[f]
    BY <1>2, <2>1, <2>3
  <2> QED BY <2>4 DEF BaseUpToDate, Accounted
<1>5. CASE Attempt /\ ~StartEpoch /\ ~Freeze /\ ~AcceptTargets
  <2>1. /\ UNCHANGED <<live, ledger, baseFile>> /\ phase # "commit"
        /\ (phase' # "none" \/ epoch' = "open") => (phase # "none" \/ epoch = "open")
    BY <1>5 DEF Attempt, ReloadFails, Resume, Refreshed, AssertSources,
       CommitClaimState, Asserted, Finish, Seal, Start, BeginRecover, BeginCommit, vars, durable
  <2> QED BY <1>2, <2>1 DEF BaseUpToDate, Accounted
<1>6. CASE StoreStep
  <2>1. UNCHANGED <<phase, epoch, baseFile>>
    BY <1>6 DEF StoreStep
  <2>2. CASE AppendCommitted
    <3>1. pc = "install" /\ pc' = "verify" /\ UNCHANGED live
      BY <1>1, <2>2, AppendCommittedStep
    <3>2. First(queue) = Len(ledger)
      BY <1>1, <3>1, InstallsOdd
    <3>3. touched' = touched \cup DOMAIN Last
      <4>1. ~Install
        BY <2>2 DEF AppendCommitted, Install
      <4>2. ~Load /\ ~Check /\ ~Verify /\ ~Commit
        BY <3>1 DEF Load, Check, Verify, Commit, Plan, Stage, Prepare
      <4> QED BY <1>1, <1>6, <3>2, <4>1, <4>2 DEF StoreStep, Last
    <3> QED BY <1>2, <2>1, <3>1, <3>3 DEF BaseUpToDate, Accounted
  <2>3. CASE Install
    <3>1. PICK f : /\ pc = "install" /\ f \in DOMAIN Last
                   /\ live' = [live EXCEPT ![f] = Last[f]]
                   /\ UNCHANGED <<ledger, seeds, pc, call>>
      BY <1>1, <2>3, InstallStep DEF Last
    <3>2. Odd
      BY <1>1, <3>1, InstallsOdd
    <3>3. phase = "commit"
      BY <3>1, <3>2 DEF Smooth, Control, Phases, GuardTypeOK
    <3>4. Last' = Last
      BY <3>1, LedgerSame
    <3>5. touched \subseteq touched'
      BY <1>6 DEF StoreStep
    <3>6. live \in [Files -> Contents] /\ Guarded \subseteq Files
      BY <1>1, ViewsAssumption DEF IInv, TypeOK
    <3>7. \A h \in Guarded : h = f \/ live'[h] = live[h]
      BY <3>1, <3>6
    <3> QED BY <1>2, <2>1, <3>1, <3>3, <3>4, <3>5, <3>7 DEF BaseUpToDate, Accounted
  <2>4. CASE Load \/ Check \/ Verify \/ Commit
    <3>1. UNCHANGED <<live, touched>> /\ pc # "install"
      BY <1>6, <2>4 DEF StoreStep, AppendCommitted, Load, Check, Verify, Commit, Plan, Stage, Prepare, Raise, durable
    <3> QED BY <1>2, <2>1, <3>1 DEF BaseUpToDate, Accounted
  <2> QED BY <1>1, <1>6, <2>2, <2>3, <2>4 DEF StoreStep
<1>7. CASE ControllerRestarts
  <2>1. UNCHANGED <<live, ledger, baseFile, touched, phase, epoch>> /\ pc = "down"
    BY <1>7 DEF ControllerRestarts, Restart, gvars, durable
  <2> QED BY <1>2, <2>1 DEF BaseUpToDate, Accounted
<1> QED BY <1>1, <1>3, <1>4, <1>5, <1>6, <1>7 DEF GNext

\* So neither a resume nor the end of an attempt sees a change.
LEMMA AlarmKept ==
    ASSUME Control, Peace, GNext
    PROVE  NoAlarm'
<1>1. CASE Resume
  <2>1. phase = "none" /\ epoch = "open"
    BY <1>1 DEF Resume
  <2>2. Changed(baseFile) = {}
    BY <2>1 DEF Peace, BaseUpToDate, Accounted, Changed
  <2> QED BY <1>1, <2>2 DEF Resume, NoAlarm
<1>2. CASE Finish
  <2>1. phase \in {"running", "stopping"} /\ base = baseFile
    BY <1>2 DEF Finish, Control, Bases
  <2>2. Changed(base) = {}
    BY <2>1 DEF Peace, BaseUpToDate, Accounted, Changed
  <2> QED BY <1>2, <2>2 DEF Finish, NoAlarm
<1>3. CASE ~Resume /\ ~Finish
  BY <1>3 DEF GNext, Attempt, StartEpoch, Freeze, ReloadFails, Refreshed, AssertSources,
     CommitClaimState, Asserted, AcceptTargets, Seal, StoreStep, ControllerDies,
     ControllerRestarts, SomebodyEdits, gvars, Peace, NoAlarm
<1> QED BY <1>1, <1>2, <1>3

-----------------------------------------------------------------------------
(* The invariant, and what follows from it *)

LEMMA GuardInit == GInit => GInv
<1> SUFFICES ASSUME GInit PROVE GInv
  OBVIOUS
<1>1. Init
  BY DEF GInit
<1>2. IInv
  BY <1>1, InitIInv
<1>3. Known /\ UInv
  BY <1>1, InitInPlace DEF Init, Known, RecordsWell, Chained, Drafting, OnTop, Installs, UInv
<1>4. /\ ledger = <<>> /\ seeds = <<>> /\ Len(ledger) = 0 /\ Len(seeds) = 0 /\ DOMAIN ledger = {}
      /\ pc = "down" /\ call = "none" /\ result = "none"
  BY <1>1 DEF Init
<1>5. Control
  <2>1. GuardTypeOK
    BY <1>2, ReadGuarded, EpochsAssumption DEF GInit, GuardTypeOK, Baselines, IInv
  <2>2. Phases /\ Bases /\ Touches
    BY <1>4 DEF GInit, Phases, Bases, Touches
  <2>3. RecordsWriteViews /\ DraftWritesViews /\ Completes
    BY <1>4 DEF RecordsWriteViews, DraftWritesViews, Completes, Complete, Whole
  <2> QED BY <2>1, <2>2, <2>3 DEF Control
<1>6. Trust
  BY <1>4 DEF GInit, Trust, SeenInPlace, OwedPending, OwedLatest, OwedBase, CheckedBase, Reloading,
     BaseKnown, Anchored, PendingNew, FromKnown, Odd, Even
<1>7. Peace
  BY <1>4 DEF GInit, Peace, Smooth, NoTorn, Odd, BaseUpToDate, NoAlarm
<1> QED BY <1>2, <1>3, <1>5, <1>6, <1>7 DEF GInv, KInv

LEMMA GuardNext == GInv /\ [GNext]_allVars => GInv'
<1> SUFFICES ASSUME GInv, [GNext]_allVars PROVE GInv'
  OBVIOUS
<1>1. [Next]_vars
  BY GuardedStep
<1>2. IInv /\ IInv'
  BY <1>1, StepIInv DEF GInv, KInv
<1>3. KInv'
  BY <1>1, <1>2, StepKnown, CalmBefore DEF GInv, KInv
<1>4. UInv'
  BY <1>1, <1>2, StepInPlace, UndisturbedBefore, UndisturbedIsCalm DEF GInv, KInv, UInv
<1>5. CASE GNext
  <2>1. Control'
    BY <1>2, <1>5, ControlKept DEF GInv
  <2>2. Calm' => Trust'
    BY <1>1, <1>2, <1>5, TrustKept, CalmBefore DEF GInv, KInv
  <2>3. Quiet' => Peace'
    <3> SUFFICES ASSUME Quiet' PROVE Peace'
      OBVIOUS
    <3>1. Peace
      BY <1>2, <1>5, QuietBefore DEF GInv
    <3> QED BY <1>2, <1>5, <3>1, SmoothKept, BaseKept, AlarmKept DEF GInv, Peace
  <2> QED BY <1>3, <1>4, <2>1, <2>2, <2>3 DEF GInv
<1>6. CASE UNCHANGED allVars
  <2>1. UNCHANGED <<live, ledger, seeds, pc, call, queue, left, draft, result, faults, edits>>
    BY <1>6 DEF allVars, vars, durable, volatile
  <2>2. UNCHANGED <<phase, baseFile, base, frozen, touched, epoch, epochs, verdict, owed>>
    BY <1>6 DEF allVars, gvars
  <2>3. /\ Odd' = Odd /\ Even' = Even /\ Last' = Last /\ Latest' = Latest /\ Complete' = Complete
        /\ RecordsWriteViews' = RecordsWriteViews /\ NoTorn' = NoTorn
    BY <2>1, LedgerSame
  <2>4. Control'
    <3>1. GuardTypeOK' /\ Phases'
      BY <2>1, <2>2, ZenonT(40) DEF GInv, Control, GuardTypeOK, Phases, Baselines
    <3>2. Bases' /\ Touches' /\ Completes'
      BY <2>1, <2>2, <2>3 DEF GInv, Control, Bases, Touches, Completes, Claim
    <3>3. RecordsWriteViews' /\ DraftWritesViews'
      BY <2>1, <2>3 DEF GInv, Control, DraftWritesViews, ShowsGraph, Claim
    <3> QED BY <3>1, <3>2, <3>3 DEF Control
  <2>5. Calm => Trust'
    <3> SUFFICES ASSUME Calm PROVE Trust'
      OBVIOUS
    <3>1. SeenInPlace'
      BY <2>1, <2>2, <2>3 DEF GInv, Trust, SeenInPlace
    <3> QED BY <2>1, <2>2, <3>1, StillTrust DEF GInv
  <2>6. Quiet => Peace'
    BY <2>1, <2>2, <2>3 DEF GInv, Peace, Smooth, BaseUpToDate, Accounted, NoAlarm
  <2> QED BY <1>3, <1>4, <2>1, <2>4, <2>5, <2>6 DEF GInv, Calm, Quiet
<1> QED BY <1>5, <1>6

THEOREM GuardInvariance == GSpec => []GInv
BY GuardInit, GuardNext, PTL DEF GSpec

\* The guard knows of all that the transition store installs: before the first
\* fault and the first edit it neither refuses a resume nor fails an epoch.
\* (_accept_authorized_canonical_targets, CanonicalGuard.verify)
THEOREM GuardIsSound == GSpec => []GuardSound
<1>1. GInv => GuardSound
  <2> SUFFICES ASSUME GInv PROVE GuardSound
    OBVIOUS
  <2>1. GuardTypeOK /\ faults \in Nat /\ edits \in Nat
    BY DEF GInv, Control, KInv, IInv, TypeOK
  <2>2. Quiet \/ faults + edits > 0
    BY <2>1 DEF Quiet
  <2>3. NoFalseAlarm
    BY <2>2 DEF GInv, Peace, NoAlarm, NoFalseAlarm
  <2> QED BY <2>1, <2>3 DEF GuardSound
<1> QED BY <1>1, GuardInvariance, PTL

\* With edits at rest, an epoch that ends clean leaves in every protected file
\* what it held at the start of the epoch or what a transition wrote since.
THEOREM NothingIsSmuggledIn ==
    ASSUME EditsAnytime = FALSE
    PROVE  GSpec => NothingSmuggledIn
<1>1. GInv /\ [GNext]_allVars
        => [verdict' = "clean" /\ verdict # "clean" => Read(Guarded) = owed]_allVars
  <2> SUFFICES ASSUME GInv, GNext, verdict' = "clean", verdict # "clean"
               PROVE  Read(Guarded) = owed
    BY DEF allVars, gvars
  <2>1. /\ Seal /\ verdict = "none" /\ SourcesHold
    BY DEF GNext, Attempt, StartEpoch, Freeze, ReloadFails, Resume, Refreshed, AssertSources,
       CommitClaimState, Asserted, AcceptTargets, Finish, Seal, StoreStep, ControllerDies,
       ControllerRestarts, SomebodyEdits, gvars
  <2>2. phase = "sealing" /\ pc = "idle" /\ result = "ok"
    BY <2>1 DEF Seal, Idle, SourcesHold
  <2>3. Trust /\ Control /\ IInv
    BY DEF GInv, KInv, Calm
  <2>4. \A f \in Plain : live[f] = owed[f]
    BY <2>1, <2>2, <2>3 DEF Trust, CheckedBase
  <2>5. ASSUME NEW f \in Guarded, f \notin Plain
        PROVE  live[f] = owed[f]
    <3>1. f \in Views /\ ledger # <<>> /\ f \in Claim
      BY <2>5 DEF Plain, Claim
    <3>2. Complete /\ epoch = "open"
      BY <2>2, <2>3 DEF Control, Completes, Phases
    <3>3. Even
      BY <2>3, <3>1, <3>2, Shapes
    <3>4. live[f] = Latest[f]
      BY <2>2, <2>3, <3>1 DEF Trust, SeenInPlace
    <3>5. owed[f] = Latest[f]
      BY <2>3, <3>1, <3>2, <3>3 DEF Trust, OwedLatest
    <3> QED BY <3>4, <3>5
  <2>6. \A f \in Guarded : live[f] = owed[f]
    BY <2>4, <2>5
  <2>7. owed \in [Guarded -> Contents]
    BY <2>3 DEF Control, GuardTypeOK
  <2> QED BY <2>6, <2>7 DEF Read
<1> QED BY <1>1, GuardInvariance, PTL DEF GSpec, NothingSmuggledIn

\* With edits at rest, a transition reads as its before bytes what the sources
\* of the epoch held or what an earlier transition wrote.
THEOREM SourcesAreKnown ==
    ASSUME EditsAnytime = FALSE
    PROVE  GSpec => BuiltOnKnownSources
<1> DEFINE Built ==
      \A f \in {Graph, Trusted} \cup Views :
         /\ pc = "prepare" /\ Len(ledger') > Len(ledger)
         /\ ledger'[Len(ledger')] # Torn
         /\ f \in DOMAIN ledger'[Len(ledger')].before
         => LET b == ledger'[Len(ledger')].before[f] IN
              b = frozen[f] \/ \E i \in DOMAIN ledger : IsPrepared(i) /\
                                 f \in DOMAIN ledger[i].after /\ ledger[i].after[f] = b
<1>1. GInv /\ GInv' /\ [GNext]_allVars => [Built]_allVars
  <2> SUFFICES ASSUME GInv, GInv', GNext, pc = "prepare", Len(ledger') > Len(ledger),
                      ledger'[Len(ledger')] # Torn, NEW f \in Claim
               PROVE  LET b == ledger'[Len(ledger')].before[f] IN
                        b = frozen[f] \/ \E i \in DOMAIN ledger : IsPrepared(i) /\
                                 f \in DOMAIN ledger[i].after /\ ledger[i].after[f] = b
    BY DEF Claim
  <2>1. Trust /\ Control /\ IInv /\ IInv' /\ Known
    BY DEF GInv, KInv, Calm
  <2>2. Prepare
    <3>1. ~AppendCommitted
      BY DEF AppendCommitted
    <3>2. ~CrashTorn
      <4>1. Torn \in Records /\ ledger \in Seq(Records)
        BY <2>1, TornIsRecord DEF IInv, TypeOK
      <4> QED BY <4>1, LineAtEnd DEF CrashTorn
    <3>3. ~UNCHANGED ledger
      BY <2>1 DEF IInv, TypeOK
    <3> QED BY <3>1, <3>2, <3>3, LedgerSteps
  <2>3. call = "commit" /\ ledger'[Len(ledger')].before[f] = live[f]
    BY <2>1, <2>2, PreparedLine
  <2>4. Source(f)
    BY <2>1, <2>3 DEF Trust, FromKnown
  <2> QED BY <2>3, <2>4 DEF Source
<1> QED BY <1>1, GuardInvariance, PTL DEF GSpec, BuiltOnKnownSources

=============================================================================
