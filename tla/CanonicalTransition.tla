------------------------ MODULE CanonicalTransition ------------------------
(***************************************************************************)
(* CanonicalTransitionStore (canonical_transition.py): the append-only     *)
(* journal through which every change of the ClaimGraph, the trusted state *)
(* and the marked Markdown views reaches the project.                      *)
(*                                                                         *)
(* A transition stages the before and after bytes of its targets in a      *)
(* bundle, appends a PREPARED record, installs the after bytes one file at *)
(* a time and appends COMMITTED.  The process may die between any two of   *)
(* these steps, a write may fail, and somebody may edit a file.            *)
(*                                                                         *)
(* Files are numbered in the order of their project URIs, the order in     *)
(* which the code sorts its targets.  File content is abstract; the only   *)
(* structure kept is that of the trusted state, whose content is the id    *)
(* of the transition it names in "last_transition_id" (0 for the trusted   *)
(* state of a project that never had one).                                 *)
(***************************************************************************)
EXTENDS Naturals, Sequences, FiniteSets

CONSTANTS
    Files,          \* canonical files, as numbers in URI order
    Graph,          \* the ClaimGraph
    Trusted,        \* the trusted state
    Premises,       \* files a transition depends on but never writes
    Values,         \* contents of the files other than the trusted state
    MaxTransitions, \* bound: transitions prepared in a behaviour
    MaxFaults,      \* bound: crashes and failed writes in a behaviour
    MaxEdits,       \* bound: edits made by somebody else
    EditsAnytime,   \* TRUE: edits also land in the middle of an operation
    TornAppends     \* TRUE: a crash may leave half a record in the ledger

ASSUME FilesAssumption ==
    /\ Files \subseteq Nat
    /\ {Graph, Trusted} \subseteq Files \ Premises
    /\ Graph # Trusted
    /\ Premises \subseteq Files

ASSUME BoundAssumption ==
    /\ MaxTransitions \in Nat /\ MaxFaults \in Nat /\ MaxEdits \in Nat
    /\ EditsAnytime \in BOOLEAN /\ TornAppends \in BOOLEAN

VARIABLES
    live,    \* durable: content of every canonical file
    ledger,  \* durable: TRANSITIONS.jsonl
    seeds,   \* the seeds hashed into a ledger; a transition id is a position
    pc,      \* control point of the process that owns the store
    call,    \* what the running recover() was called for
    queue,   \* ledger positions recover() still has to complete
    left,    \* targets of the first of them that are not installed yet
    draft,   \* the transition commit() is working on
    result,  \* outcome of the last call
    faults,  \* crashes and failed writes so far
    edits    \* edits so far

durable == <<live, ledger, seeds>>
volatile == <<pc, call, queue, left, draft, result>>
vars == <<durable, volatile, faults, edits>>

-----------------------------------------------------------------------------
(* Data *)

Ids == 0 .. MaxTransitions
Contents == Values \cup Ids
Snapshot == UNION {[T -> Contents] : T \in SUBSET Files}

\* The part of the live files that lies in T.
Read(T) == [f \in T |-> live[f]]

\* What stable_hash() is applied to: the digest of the trusted state that is
\* being written is left out, because that content names the id.
Seed(before, after, pre) ==
    [before |-> before,
     after  |-> [f \in DOMAIN after \ {Trusted} |-> after[f]],
     pre    |-> pre]

\* stable_hash, as an injective numbering: equal seeds, equal ids.
IdOf(seed) ==
    IF \E i \in DOMAIN seeds : seeds[i] = seed
    THEN CHOOSE i \in DOMAIN seeds : seeds[i] = seed
    ELSE Len(seeds) + 1

Prepared(id, before, after, pre) ==
    [kind |-> "PREPARED", id |-> id, before |-> before, after |-> after, pre |-> pre]

\* Mutant: a terminal status that the reader does not know.
CommittedUnknown(id) == [kind |-> "DONE", id |-> id]

Committed(id) == [kind |-> "COMMITTED", id |-> id]
Torn == [kind |-> "TORN", id |-> 0]

Empty == [f \in {} |-> f]
NoDraft == [new |-> Empty, pre |-> Empty, before |-> Empty, staged |-> Empty]

-----------------------------------------------------------------------------
(* Reading the ledger *)

IsPrepared(i) == ledger[i].kind = "PREPARED"
IsCommitted(i) == ledger[i].kind = "COMMITTED"

\* _validate_prepared_record: the trusted target names the record's id, and
\* the id is the hash of what the record and its bundle say.
ValidPrepared(r) ==
    /\ {Graph, Trusted} \subseteq DOMAIN r.after
    /\ r.after[Trusted] = r.id
    /\ r.id \in DOMAIN seeds
    /\ seeds[r.id] = Seed(r.before, r.after, r.pre)

\* read_jsonl and _validated_ledger(verify_current=False).
ValidLedger ==
    /\ \A i \in DOMAIN ledger : ledger[i].kind # "TORN"
    /\ \A i \in DOMAIN ledger : IsPrepared(i) => ValidPrepared(ledger[i])
    /\ \A i, j \in DOMAIN ledger :
         i # j /\ ledger[i].kind = ledger[j].kind => ledger[i].id # ledger[j].id
    /\ \A j \in DOMAIN ledger : IsCommitted(j) =>
         \E i \in 1 .. j - 1 : IsPrepared(i) /\ ledger[i].id = ledger[j].id

CommittedIds == {ledger[j].id : j \in {k \in DOMAIN ledger : IsCommitted(k)}}

\* Mutant: recover() finds nothing to do.
NothingPending == {}

\* Positions of the PREPARED records that have no COMMITTED record.
Pending == {i \in DOMAIN ledger : IsPrepared(i) /\ ledger[i].id \notin CommittedIds}

\* The PREPARED record of the last transition that committed.
LatestCommitted ==
    LET last == CHOOSE j \in DOMAIN ledger :
                  IsCommitted(j) /\ \A k \in DOMAIN ledger : IsCommitted(k) => k <= j
    IN  ledger[CHOOSE i \in DOMAIN ledger :
                 IsPrepared(i) /\ ledger[i].id = ledger[last].id]

\* Mutant: the live files are not compared with the ledger.
CurrentUnchecked == TRUE

\* verify_current: only the targets of the latest committed transition are
\* compared with the live files.
Current ==
    CommittedIds # {} =>
        LET r == LatestCommitted IN \A f \in DOMAIN r.after : live[f] = r.after[f]

First(S) == CHOOSE i \in S : \A j \in S : i <= j

-----------------------------------------------------------------------------
(* Calls and their ends *)

Goto(p) == pc' = p

\* A call that returns, or that raises ValueError or OSError to its caller.
End(r) ==
    /\ pc' = "idle" /\ result' = r /\ call' = "none"
    /\ queue' = {} /\ left' = {} /\ draft' = NoDraft

Return == End("ok")
Raise == End("raised") /\ UNCHANGED durable

\* recover() and the reads that start with it: verified_committed_records,
\* current_target_digests, target_paths.
BeginRecover ==
    /\ pc = "idle"
    /\ Goto("load") /\ call' = "recover" /\ result' = "none"
    /\ UNCHANGED <<durable, queue, left, draft, faults, edits>>

\* What a caller of commit() may ask for: a new ClaimGraph (which may be the
\* old one) and any of the other files that no transition depends on.
Requests ==
    UNION {[T -> Values] : T \in {U \in SUBSET (Files \ (Premises \cup {Trusted})) :
                                    Graph \in U}}

\* commit(): the caller has just checked its premises, and passes the digests.
BeginCommit(new) ==
    /\ pc = "idle"
    /\ Len(seeds) < MaxTransitions
    /\ Goto("load") /\ call' = "commit" /\ result' = "none"
    /\ draft' = [NoDraft EXCEPT !.new = new, !.pre = Read(Premises)]
    /\ UNCHANGED <<durable, queue, left, faults, edits>>

-----------------------------------------------------------------------------
(* recover() *)

Load ==
    /\ pc = "load"
    /\ IF ValidLedger
         THEN /\ queue' = Pending
              /\ Goto(IF Pending = {} THEN "verify" ELSE "check")
              /\ UNCHANGED <<durable, call, left, draft, result>>
         ELSE Raise
    /\ UNCHANGED <<faults, edits>>

\* Mutants: recovery looks at the premises only, or refuses an install that
\* was interrupted.
RecoverableBlind(r) == \A f \in DOMAIN r.pre : live[f] = r.pre[f]

RecoverableOnce(r) ==
    /\ \A f \in DOMAIN r.pre : live[f] = r.pre[f]
    /\ \A f \in DOMAIN r.after : live[f] = r.before[f]

\* The preconditions and all targets of the next pending transition are
\* checked before the first file is written.
Recoverable(r) ==
    /\ \A f \in DOMAIN r.pre : live[f] = r.pre[f]
    /\ \A f \in DOMAIN r.after : live[f] \in {r.before[f], r.after[f]}

Check ==
    /\ pc = "check"
    /\ LET r == ledger[First(queue)] IN
         IF Recoverable(r)
           THEN /\ left' = DOMAIN r.after
                /\ Goto("install")
                /\ UNCHANGED <<durable, call, queue, draft, result>>
           ELSE Raise
    /\ UNCHANGED <<faults, edits>>

\* Mutant: the install loop stops after its first file.
InstallOne ==
    /\ pc = "install" /\ left # {}
    /\ LET r == ledger[First(queue)]
           f == First(left)
       IN  live' = [live EXCEPT ![f] = r.after[f]]
    /\ left' = {}
    /\ UNCHANGED <<ledger, seeds, pc, call, queue, draft, result, faults, edits>>

\* One atomic_write_bytes of the install loop, in URI order.
Install ==
    /\ pc = "install" /\ left # {}
    /\ LET r == ledger[First(queue)]
           f == First(left)
       IN  /\ live' = [live EXCEPT ![f] = r.after[f]]
           /\ left' = left \ {f}
    /\ UNCHANGED <<ledger, seeds, pc, call, queue, draft, result, faults, edits>>

\* A write of the bundle, of the ledger or of a target fails before it has
\* any effect (no space, no permission), and the call raises half-way.
WriteFails ==
    /\ pc \in {"stage", "prepare", "install"}
    /\ faults < MaxFaults /\ faults' = faults + 1
    /\ Raise
    /\ UNCHANGED edits

AppendCommitted ==
    /\ pc = "install" /\ left = {}
    /\ LET i == First(queue) IN
         /\ ledger' = Append(ledger, Committed(ledger[i].id))
         /\ queue' = queue \ {i}
    /\ Goto(IF queue' = {} THEN "verify" ELSE "check")
    /\ UNCHANGED <<live, seeds, call, left, draft, result, faults, edits>>

\* verify_current at the end of recover(), and what the caller does next.
Verify ==
    /\ pc = "verify"
    /\ \/ /\ ValidLedger /\ Current /\ call = "commit"
          /\ Goto("plan")
          /\ UNCHANGED <<durable, call, queue, left, draft, result>>
       \/ /\ ValidLedger /\ Current /\ call # "commit"
          /\ Return /\ UNCHANGED durable
       \/ ~(ValidLedger /\ Current) /\ Raise
    /\ UNCHANGED <<faults, edits>>

-----------------------------------------------------------------------------
(* commit(), between its two calls of recover() *)

Targets == DOMAIN draft.new \cup {Trusted}

After(id) == [f \in Targets |-> IF f = Trusted THEN id ELSE draft.new[f]]
DraftSeed == [before |-> draft.before, after |-> draft.new, pre |-> draft.pre]
PlannedSeed == [DraftSeed EXCEPT !.before = Read(Targets)]

\* Mutant: no early return for an id that is COMMITTED already.
PlanAgain ==
    /\ pc = "plan"
    /\ IF Read(Premises) # draft.pre
         THEN Raise
         ELSE /\ draft' = [draft EXCEPT !.before = Read(Targets)]
              /\ Goto("stage")
              /\ UNCHANGED <<durable, call, queue, left, result>>
    /\ UNCHANGED <<faults, edits>>

\* Preconditions, before-hashes, transition id, and the early return for an
\* id that has a COMMITTED record already.
Plan ==
    /\ pc = "plan"
    /\ \/ /\ Read(Premises) # draft.pre
          /\ Raise
       \/ /\ Read(Premises) = draft.pre
          /\ IdOf(PlannedSeed) \notin CommittedIds
          /\ draft' = [draft EXCEPT !.before = Read(Targets)]
          /\ Goto("stage")
          /\ UNCHANGED <<durable, call, queue, left, result>>
       \/ /\ Read(Premises) = draft.pre
          /\ IdOf(PlannedSeed) \in CommittedIds
          /\ IF ValidLedger /\ Current THEN Return /\ UNCHANGED durable ELSE Raise
    /\ UNCHANGED <<faults, edits>>

\* The bundle: every target is read a second time for its before-snapshot.
Stage ==
    /\ pc = "stage"
    /\ draft' = [draft EXCEPT !.staged = Read(Targets)]
    /\ Goto("prepare")
    /\ UNCHANGED <<durable, call, queue, left, result, faults, edits>>

\* The PREPARED record is appended; the second recover() follows.
Prepare ==
    /\ pc = "prepare"
    /\ LET id == IdOf(DraftSeed) IN
         /\ ledger' = Append(ledger, Prepared(id, draft.staged, After(id), draft.pre))
         /\ seeds' = IF id \in DOMAIN seeds THEN seeds ELSE Append(seeds, DraftSeed)
    /\ Goto("load") /\ call' = "settle"
    /\ UNCHANGED <<live, queue, left, draft, result, faults, edits>>

-----------------------------------------------------------------------------
(* Faults, and the world outside *)

Die ==
    /\ pc # "down"
    /\ faults < MaxFaults /\ faults' = faults + 1
    /\ pc' = "down" /\ call' = "none" /\ queue' = {} /\ left' = {}
    /\ draft' = NoDraft /\ result' = "none"

Crash == Die /\ UNCHANGED <<durable, edits>>

\* append_jsonl is one os.write whose result nobody looks at: a crash or a
\* full disk leaves a prefix of the line.
CrashTorn ==
    /\ TornAppends
    /\ pc = "prepare" \/ (pc = "install" /\ left = {})
    /\ Die
    /\ ledger' = Append(ledger, Torn)
    /\ UNCHANGED <<live, seeds, edits>>

\* The next controller (or amr reconcile, validate) starts.
Restart ==
    /\ pc = "down"
    /\ Goto("idle")
    /\ UNCHANGED <<durable, call, queue, left, draft, result, faults, edits>>

AtRest == pc \in {"down", "idle"}

Edit(f, c) ==
    /\ edits < MaxEdits /\ edits' = edits + 1
    /\ EditsAnytime \/ AtRest
    /\ live[f] # c
    /\ live' = [live EXCEPT ![f] = c]
    /\ UNCHANGED <<ledger, seeds, volatile, faults>>

\* An editor can write anything it has seen, which for the trusted state
\* includes the trusted states of earlier transitions.
Editable(f) == IF f = Trusted THEN Values \cup 0 .. Len(seeds) ELSE Values

-----------------------------------------------------------------------------

Init ==
    /\ live \in {l \in [Files -> Values \cup {0}] :
                  \A f \in Files : IF f = Trusted THEN l[f] = 0 ELSE l[f] \in Values}
    /\ ledger = <<>> /\ seeds = <<>>
    /\ pc = "down" /\ call = "none" /\ queue = {} /\ left = {}
    /\ draft = NoDraft /\ result = "none"
    /\ faults = 0 /\ edits = 0

Recover == Load \/ Check \/ Install \/ AppendCommitted \/ Verify
Commit == Plan \/ Stage \/ Prepare
Run == Recover \/ Commit

Next ==
    \/ BeginRecover
    \/ \E new \in Requests : BeginCommit(new)
    \/ Run
    \/ WriteFails \/ Crash \/ CrashTorn \/ Restart
    \/ \E f \in Files : \E c \in Editable(f) : Edit(f, c)

Spec == Init /\ [][Next]_vars

\* A call runs to its end, a controller that died is started again, and the
\* store is read again and again (every start and every Director snapshot do).
Fairness == WF_vars(Run) /\ WF_vars(Restart) /\ WF_vars(BeginRecover)

FairSpec == Spec /\ Fairness

-----------------------------------------------------------------------------
(* Properties *)

Drafts == [new : Snapshot, pre : Snapshot, before : Snapshot, staged : Snapshot]
PreparedRecords ==
    [kind : {"PREPARED"}, id : Ids, before : Snapshot, after : Snapshot, pre : Snapshot]
Records == PreparedRecords \cup [kind : {"COMMITTED", "TORN"}, id : Ids]

\* The type of every variable.
TypeOK ==
    /\ live \in [Files -> Contents]
    /\ ledger \in Seq(Records)
    /\ seeds \in Seq([before : Snapshot, after : Snapshot, pre : Snapshot])
    /\ pc \in {"down", "idle", "load", "check", "install", "verify",
               "plan", "stage", "prepare"}
    /\ call \in {"none", "recover", "commit", "settle"}
    /\ queue \subseteq Nat
    /\ left \subseteq Files
    /\ draft \in Drafts
    /\ result \in {"none", "ok", "raised"}
    /\ faults \in Nat /\ edits \in Nat

\* Whatever crashes, fails or is edited, the ledger is a serial history: the
\* k-th transition has id k, its PREPARED record is at position 2k-1 and its
\* COMMITTED record, if there is one, at 2k.  So no id is prepared or
\* committed twice, at most one transition is unfinished, and none starts
\* before its predecessor is COMMITTED.  A torn line can only be the last.
Serial ==
    \A i \in DOMAIN ledger :
        \/ ledger[i].kind = "TORN" /\ i = Len(ledger)
        \/ ledger[i].kind = "PREPARED" /\ i = 2 * ledger[i].id - 1
        \/ ledger[i].kind = "COMMITTED" /\ i = 2 * ledger[i].id

\* The ledger the code wrote is one that the code accepts, unless a crash tore
\* its last line (and as long as nobody edits a target between the two reads
\* of it that commit() makes).
LedgerAccepted == (\A i \in DOMAIN ledger : ledger[i] # Torn) => ValidLedger

\* Transitions chain: each starts from the ClaimGraph and the trusted state
\* its predecessor left, so that no outside edit of either is ever taken in
\* as the basis of a trusted transition.
Chained ==
    \A i, j \in DOMAIN ledger :
        IsPrepared(i) /\ IsPrepared(j) /\ j = i + 2 =>
            \A f \in {Graph, Trusted} : ledger[j].before[f] = ledger[i].after[f]

\* COMMITTED is appended only when every target holds its after bytes and
\* every premise is what it was when the transition was prepared, even if the
\* install was interrupted and the files were edited meanwhile.
CommitsWhatIsInstalled ==
    \A i \in Pending :
        ledger[i].id \in CommittedIds' =>
            /\ \A f \in DOMAIN ledger[i].after : live[f] = ledger[i].after[f]
            /\ \A f \in DOMAIN ledger[i].pre : live[f] = ledger[i].pre[f]
CommitsInstalled == [][CommitsWhatIsInstalled]_vars

\* An edit of a canonical file is never overwritten unseen: a write of the
\* store replaces only the before bytes of the transition it installs.
ReplacesWhatItRead ==
    \A f \in Files : live'[f] # live[f] /\ edits' = edits =>
        \E i \in Pending : f \in DOMAIN ledger[i].before
                           /\ live[f] = ledger[i].before[f]
EditsSurvive == [][ReplacesWhatItRead]_vars

\* No line of the ledger is torn, and nobody has edited a canonical file.
Undisturbed == edits = 0 /\ \A i \in DOMAIN ledger : ledger[i].kind # "TORN"

\* Without edits and torn lines the store never refuses to work after a
\* crash or a failed write: a call raises only when a write of its own fails.
RaisesForItsOwnWrites ==
    Undisturbed /\ result' = "raised" /\ result # "raised" => faults' = faults + 1
CrashRecoverable == [][RaisesForItsOwnWrites]_vars

\* The store implements CanonicalState.  A transition takes place when its
\* PREPARED line is written: from then on a file that still holds the before
\* bytes counts as holding the after bytes.
Unfinished == Len(ledger) % 2 = 1 /\ IsPrepared(Len(ledger))
Overlay ==
    [f \in Files |->
        IF Unfinished /\ f \in DOMAIN ledger[Len(ledger)].after
                      /\ live[f] = ledger[Len(ledger)].before[f]
        THEN ledger[Len(ledger)].after[f]
        ELSE live[f]]
History ==
    [k \in 1 .. Len(seeds) |->
        [before |-> ledger[2 * k - 1].before, after |-> ledger[2 * k - 1].after]]

Abstract == INSTANCE CanonicalState WITH state <- Overlay, history <- History

\* Whatever crashes, fails or is edited at rest, the canonical files change
\* atomically (see CanonicalState).
AtomicTransitions == Abstract!Spec

\* Every transition that reached the ledger is completed in the end, unless
\* somebody edits a canonical file or a crash tears a line of the ledger.
PreparedCommits ==
    \A n \in 1 .. MaxTransitions :
        (\E i \in DOMAIN ledger : IsPrepared(i) /\ ledger[i].id = n)
            ~> (Undisturbed => n \in CommittedIds)

\* The ledger that was written through crashes, failed writes and edits at
\* rest is accepted by its own reader, and its transitions form one chain.
LedgerSound == LedgerAccepted /\ Chained

\* Neither a COMMITTED line nor a written file runs ahead of what the store
\* found on the disk: edits survive, and what is committed is installed.
WritesSafe == CommitsInstalled /\ EditsSurvive

\* What is left of a call that died is recovered by the next one, as long as
\* nothing was edited or torn: no call refuses, every transition completes.
Recovers == CrashRecoverable /\ PreparedCommits

=============================================================================
