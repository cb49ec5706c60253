--------------------------- MODULE CandidateInbox ---------------------------
(* The way of a candidate from a research worker to the audit frontier: the  *)
(* worker's helper writes an event file into the inbox of its task           *)
(* (emit_event.py), the controller polls the inbox, admits, rejects or       *)
(* deduplicates what it finds, and archives the file (eventing.py,           *)
(* controller.py).  The helper is a process of its own; the controller may   *)
(* die between any two of its writes and is resumed.                         *)
EXTENDS Integers, Sequences, FiniteSets

CONSTANTS
    Events,    \* event files: [id, fp, task, root, form], see below
    Quota,     \* max_accepted_candidates of the completion policy
    MaxSends,  \* bound: times the same event file is submitted
    MaxTurns,  \* bound: turns of a task
    MaxCrashes \* bound: deaths of the controller

(* id and fp are the event id and the fingerprint, task is the producer the  *)
(* event names, root the task whose inbox it is written to (root and id are  *)
(* numbers, for the order of the paths), and form says what the gates make   *)
(* of it: "good", "bad" (rejected) or "broken" (does not validate).          *)
ASSUME InboxAssumption ==
    /\ \A e \in Events : e.form \in {"good", "bad", "broken"} /\ e.root \in Nat /\ e.id \in Nat
    /\ \A e, f \in Events : e.root = f.root /\ e.id = f.id => e.fp # f.fp \/ e = f

Tasks == {e.root : e \in Events} \cup {e.task : e \in Events}
Prints == {e.fp : e \in Events}

VARIABLES
    worker,   \* a task's job: idle or working, and its turns
    started,  \* tasks with a JOB_STARTED event
    inbox,    \* files in the inbox
    sent,     \* how often each file was submitted
    gone,     \* files archived, unlinked or quarantined
    emitted,  \* CANDIDATE_EMITTED lines by fingerprint
    durable,  \* candidate files: the event each fingerprint was stored with
    committed,\* committed CANDIDATE_REGISTERED transitions by fingerprint
    logged,   \* fingerprints with CANDIDATE_PROCESSED in the run's events
    rejected, \* fingerprints with CANDIDATE_REJECTED
    accepted, \* fingerprints with CANDIDATE_ACCEPTED
    ctl,      \* up, down or recovering
    crashes,
    todo,     \* processed fingerprints that recover() has still to restore
    queue,    \* candidate_queue: what the last poll found
    at,       \* the step the controller has reached with the head of the queue
    turn,     \* tasks whose completed turn waits for its directive
    processed, gate, audits, \* inbox.processed, audit_gate.states, queued audits
    sources   \* inbox.sources: event id to the root of its file

worklog == <<emitted, durable, committed, logged, rejected, accepted>>
memory == <<processed, gate, audits, sources>>
vars == <<worker, started, inbox, sent, gone, worklog, ctl, crashes, todo,
          queue, at, turn, memory>>

Init ==
    /\ worker = [t \in Tasks |-> [working |-> FALSE, turns |-> 0]]
    /\ started = {} /\ inbox = {} /\ gone = {}
    /\ sent = [e \in Events |-> 0]
    /\ emitted = [f \in Prints |-> 0] /\ committed = [f \in Prints |-> 0]
    /\ durable = {} /\ logged = {} /\ rejected = {} /\ accepted = {}
    /\ ctl = "up" /\ crashes = 0 /\ todo = {}
    /\ queue = <<>> /\ at = "idle" /\ turn = {}
    /\ processed = {} /\ gate = {} /\ audits = {} /\ sources = <<>>

Idle == ctl = "up" /\ queue = <<>> /\ at = "idle"
Head1 == Head(queue)
At(step) == ctl = "up" /\ queue # <<>> /\ at = step

(***************************************************************************)
(* The worker.                                                             *)
(***************************************************************************)
StartJob(t) ==
    /\ Idle /\ turn = {} /\ ~worker[t].working /\ worker[t].turns < MaxTurns
    /\ worker' = [worker EXCEPT ![t] = [working |-> TRUE, turns |-> @.turns + 1]]
    /\ started' = started \cup {t}
    /\ UNCHANGED <<inbox, sent, gone, worklog, ctl, crashes, todo, queue, at, turn, memory>>

\* submit() refuses to replace a file of the same name.
Blocked(e) == \E f \in inbox : f.root = e.root /\ f.id = e.id

Submit(e) ==
    /\ worker[e.root].working /\ sent[e] < MaxSends /\ ~Blocked(e)
    /\ inbox' = inbox \cup {e}
    /\ sent' = [sent EXCEPT ![e] = @ + 1]
    /\ UNCHANGED <<worker, started, gone, worklog, ctl, crashes, todo, queue, at, turn, memory>>

(***************************************************************************)
(* The poll.  It remembers, by event id, the path it read last.            *)
(***************************************************************************)
Before(e, f) == e.root < f.root \/ (e.root = f.root /\ e.id < f.id)
Earlier(S, e) == Cardinality({f \in S : Before(f, e)})
InPathOrder(S) == [i \in 1 .. Cardinality(S) |-> CHOOSE e \in S : Earlier(S, e) = i - 1]
Valid(S) == {e \in S : e.form # "broken"}
\* Mutant: the poll drops files of fingerprints that were processed.
FoundNew == {e \in Valid(inbox) : e.fp \notin processed}

Found == Valid(inbox)
Remembered(S) ==
    [i \in DOMAIN sources \cup {e.id : e \in S} |->
        LET here == {e.root : e \in {f \in S : f.id = i}} IN
        IF here = {} THEN sources[i] ELSE CHOOSE r \in here : \A q \in here : q <= r]

PollInbox ==
    /\ queue' = InPathOrder(Found)
    /\ at' = IF Found = {} THEN "idle" ELSE "decide"
    /\ sources' = Remembered(Valid(inbox))
    /\ gone' = gone \cup (inbox \ Valid(inbox))
    /\ inbox' = Valid(inbox)
    /\ UNCHANGED <<sent, started, worklog, ctl, crashes, todo, processed, gate, audits>>

\* The run loop polls when it comes round; so does the end of a turn.
Poll == Idle /\ turn = {} /\ inbox # {} /\ PollInbox /\ UNCHANGED <<worker, turn>>
\* Mutant: the end of a turn leaves the files to the run loop.
PollNothing ==
    UNCHANGED <<sent, started, inbox, gone, worklog, ctl, crashes, todo, queue, at, memory>>

PollAtTurn == PollInbox

TurnEnds(t) ==
    /\ Idle /\ turn = {} /\ worker[t].working
    /\ worker' = [worker EXCEPT ![t].working = FALSE]
    /\ turn' = {t}
    /\ PollAtTurn

Stored == {e.fp : e \in durable}
AcceptedOf(t) == \E e \in durable : e.task = t /\ e.fp \in accepted

\* The directive: a task with an accepted candidate stops; another may get
\* one more turn on its thread.
Decide(t) ==
    /\ Idle /\ t \in turn
    /\ turn' = {}
    /\ \/ UNCHANGED worker
       \/ /\ ~AcceptedOf(t) /\ worker[t].turns < MaxTurns
          /\ worker' = [worker EXCEPT ![t] = [working |-> TRUE, turns |-> @.turns + 1]]
    /\ UNCHANGED <<started, inbox, sent, gone, worklog, ctl, crashes, todo, queue, at, memory>>

(***************************************************************************)
(* One candidate of the queue.                                             *)
(***************************************************************************)
Known(fp) == fp \in processed \cup accepted

\* The file must lie in the inbox of the task the event names, and that task
\* must have been started.
FromItsProducer(e) ==
    e.id \in DOMAIN sources /\ sources[e.id] = e.task /\ e.task \in started
QuotaReached(fp) == fp \notin gate /\ Cardinality(gate) >= Quota
Admissible(e) == e.form = "good" /\ FromItsProducer(e) /\ ~QuotaReached(e.fp)

Step(step) == at' = step /\ UNCHANGED <<worker, started, sent, ctl, crashes, todo, queue, turn>>

Deduplicate ==
    /\ At("decide") /\ Known(Head1.fp)
    /\ processed' = processed \cup {Head1.fp}
    /\ Step("archive")
    /\ UNCHANGED <<inbox, gone, worklog, gate, audits, sources>>

Reject ==
    /\ At("decide") /\ ~Known(Head1.fp) /\ ~Admissible(Head1)
    /\ rejected' = rejected \cup {Head1.fp}
    /\ processed' = processed \cup {Head1.fp}
    /\ Step("archive")
    /\ UNCHANGED <<inbox, gone, emitted, durable, committed, logged, accepted, gate,
                   audits, sources>>

\* persist(): the ledger line, then the file; nothing when the file is there.
Emit ==
    /\ At("decide") /\ ~Known(Head1.fp) /\ Admissible(Head1)
    /\ emitted' = [emitted EXCEPT ![Head1.fp] = @ + IF Head1.fp \in Stored THEN 0 ELSE 1]
    /\ Step("persist")
    /\ UNCHANGED <<inbox, gone, durable, committed, logged, rejected, accepted, memory>>

Persist ==
    /\ At("persist")
    /\ durable' = durable \cup {e \in {Head1} : e.fp \notin Stored}
    /\ Step("register")
    /\ UNCHANGED <<inbox, gone, emitted, committed, logged, rejected, accepted, memory>>

Register ==
    /\ At("register")
    /\ gate' = gate \cup {Head1.fp}
    /\ committed' = [committed EXCEPT ![Head1.fp] = @ + 1]
    /\ Step("log")
    /\ UNCHANGED <<inbox, gone, emitted, durable, logged, rejected, accepted, processed,
                   audits, sources>>

LogProcessed ==
    /\ At("log")
    /\ logged' = logged \cup {Head1.fp}
    /\ Step("accept")
    /\ UNCHANGED <<inbox, gone, emitted, durable, committed, rejected, accepted, memory>>

\* mark_processed(accepted=True), up to the files.
MarkAccepted ==
    /\ At("accept")
    /\ processed' = processed \cup {Head1.fp}
    /\ accepted' = accepted \cup {Head1.fp}
    /\ Step("archive")
    /\ UNCHANGED <<inbox, gone, emitted, durable, committed, logged, rejected, gate,
                   audits, sources>>

\* Every file with the event's id goes, and the event leaves the queue; an
\* accepted one gets its audit.
Named(e) == {f \in inbox : f.id = e.id}

Audited(e) == {e.fp} \cap gate
Archive ==
    /\ At("archive")
    /\ gone' = gone \cup Named(Head1)
    /\ inbox' = inbox \ Named(Head1)
    /\ sources' = [i \in DOMAIN sources \ {Head1.id} |-> sources[i]]
    /\ audits' = audits \cup Audited(Head1)
    /\ queue' = Tail(queue)
    /\ at' = IF Len(queue) = 1 THEN "idle" ELSE "decide"
    /\ UNCHANGED <<worker, started, sent, worklog, ctl, crashes, todo, turn, processed, gate>>

(***************************************************************************)
(* The controller dies, with its jobs, and is resumed.                     *)
(***************************************************************************)
Crash ==
    /\ ctl # "down" /\ crashes < MaxCrashes
    /\ ctl' = "down" /\ crashes' = crashes + 1
    /\ worker' = [t \in Tasks |-> [worker[t] EXCEPT !.working = FALSE]]
    /\ todo' = {} /\ queue' = <<>> /\ at' = "idle" /\ turn' = {}
    /\ processed' = {} /\ gate' = {} /\ audits' = {} /\ sources' = <<>>
    /\ UNCHANGED <<started, inbox, sent, gone, worklog>>

Restart ==
    /\ ctl = "down"
    /\ ctl' = "recovering" /\ todo' = logged
    /\ UNCHANGED <<worker, started, inbox, sent, gone, worklog, crashes, queue, at, turn, memory>>

\* Mutant: a candidate with an accepted line is not registered again.
RestoredIfNew(e) == {e.fp} \ accepted

\* One CANDIDATE_PROCESSED event of the log, with the stored candidate.
Restored(e) == {e.fp}
RecoverOne(e) ==
    /\ ctl = "recovering" /\ e \in durable /\ e.fp \in todo
    /\ todo' = todo \ {e.fp}
    /\ processed' = processed \cup {e.fp}
    /\ gate' = gate \cup Restored(e)
    /\ accepted' = accepted \cup {e.fp}
    /\ inbox' = inbox \ Named(e)
    /\ gone' = gone \cup Named(e)
    /\ UNCHANGED <<worker, started, sent, emitted, durable, committed, logged, rejected,
                   ctl, crashes, queue, at, turn, audits, sources>>

Recovered ==
    /\ ctl = "recovering" /\ todo = {}
    /\ ctl' = "up" /\ audits' = gate
    /\ UNCHANGED <<worker, started, inbox, sent, gone, worklog, crashes, todo, queue, at,
                   turn, processed, gate, sources>>

Process == Deduplicate \/ Reject \/ Emit \/ Persist \/ Register \/ LogProcessed
           \/ MarkAccepted \/ Archive

Next ==
    \/ \E t \in Tasks : StartJob(t) \/ TurnEnds(t) \/ Decide(t)
    \/ \E e \in Events : Submit(e) \/ RecoverOne(e)
    \/ Poll \/ Process \/ Crash \/ Restart \/ Recovered

Spec == Init /\ [][Next]_vars

\* The loop comes round while its process lives; a resume is the operator's.
FairSpec ==
    /\ Spec
    /\ WF_vars(Poll \/ Process \/ Recovered \/ \E e \in Events : RecoverOne(e))
    /\ WF_vars(\E t \in Tasks : Decide(t))

-----------------------------------------------------------------------------
TypeOK ==
    /\ inbox \subseteq Events /\ gone \subseteq Events
    /\ \A e, f \in inbox : e.root = f.root /\ e.id = f.id => e = f
    /\ worker \in [Tasks -> [working : BOOLEAN, turns : Nat]] /\ turn \subseteq Tasks
    /\ emitted \in [Prints -> Nat] /\ committed \in [Prints -> Nat]
    /\ queue \in Seq(Events)
    /\ durable \subseteq Events /\ \A e, f \in durable : e.fp = f.fp => e = f
    /\ logged \cup rejected \cup accepted \subseteq Prints
    /\ processed \cup gate \subseteq Prints /\ audits \subseteq gate
    /\ todo \subseteq logged
    /\ ctl \in {"up", "down", "recovering"}
    /\ at \in {"idle", "decide", "persist", "register", "log", "accept", "archive"}
    /\ at # "idle" <=> queue # <<>>

\* What is durable is found in the order a resume relies on: an accepted
\* candidate has its processed event, its committed registration, its file
\* and its ledger line, wherever the controller died.
Traceable ==
    /\ accepted \subseteq logged
    /\ \A f \in logged : f \in Stored /\ committed[f] > 0
    /\ \A f \in Stored : emitted[f] > 0

\* No file leaves the inbox unread: its fingerprint is decided, or it was
\* quarantined.
NothingUnread == \A e \in gone : e.form = "broken" \/ e.fp \in logged \cup rejected

\* When the controller is idle every admitted candidate is in the audit gate
\* with its audit asked for, also after a crash between any two writes.
AdmittedIsAudited == Idle => \A f \in logged : f \in gate /\ f \in audits

\* A turn's directive is given when everything its worker wrote in the turn
\* is decided.
TurnSeesCandidates ==
    [][\A t \in turn \ turn' : ctl' = "up" =>
          \A e \in inbox : e.root # t]_vars

\* No file is stranded: it is read and archived unless the controller dies.
InboxEmpties == \A e \in Events : (e \in inbox) ~> (e \notin inbox \/ ctl = "down")

\* A candidate has one committed registration: what the verification of
\* semantic receipts and the lookup of a candidate's producer require.
RegisteredOnce == \A f \in Prints : committed[f] <= 1

\* Wherever the controller died, a candidate is durable in the order a resume
\* relies on: nothing is lost unread, nothing admitted lacks its audit.
CandidatesSound == TypeOK /\ Traceable /\ NothingUnread /\ AdmittedIsAudited

=============================================================================
