------------------------ MODULE CandidateInboxProofs ------------------------
(***************************************************************************)
(* Proofs about CandidateInbox, for any events, quota and bounds: a        *)
(* candidate is durable in the order a resume relies on, an admitted one   *)
(* has its audit, a turn is not judged before what its worker wrote is     *)
(* decided, and, when an event id names one candidate, no file leaves the  *)
(* inbox unread.                                                           *)
(*                                                                         *)
(* The invariant IInv adds to these what each step of the controller has   *)
(* made durable about the head of its queue (StepSound), what memory may   *)
(* claim (MemorySound) and where the files of an ended turn are            *)
(* (TurnQueued).                                                           *)
(***************************************************************************)
EXTENDS CandidateInbox, FiniteSetTheorems, SequenceTheorems, TLAPS

(***************************************************************************)
(* The inductive invariant.                                                *)
(***************************************************************************)
InQueue(e) == \E i \in 1 .. Len(queue) : queue[i] = e

Files ==
  /\ TypeOK /\ IsFiniteSet(inbox)
  /\ queue \in Seq(Valid(Events)) /\ durable \subseteq Valid(Events)

\* What is durable, and decided, about the candidate at the head.
StepSound ==
  /\ at = "persist" => emitted[Head1.fp] > 0
  /\ at = "register" => Head1.fp \in Stored
  /\ at = "log" => Head1.fp \in Stored /\ committed[Head1.fp] > 0 /\ Head1.fp \in gate
  /\ at = "accept" => Head1.fp \in logged
  /\ at = "archive" => Head1.fp \in logged \cup rejected

\* An admitted candidate whose audit is not yet asked for is the head.
AtHead(f) == at \in {"accept", "archive"} /\ f = Head1.fp
MemorySound ==
  /\ processed \subseteq logged \cup rejected
  /\ ctl = "up" => logged \subseteq gate /\ \A f \in logged : f \in audits \/ AtHead(f)
  /\ ctl = "recovering" => logged \ todo \subseteq gate
  /\ ctl # "up" => at = "idle" /\ turn = {}

\* What the worker of an ended turn wrote waits in the queue.
TurnQueued ==
  \A t \in turn : ~worker[t].working /\ \A e \in inbox : e.root = t => InQueue(e)

IInv == Files /\ Traceable /\ StepSound /\ MemorySound /\ TurnQueued

(***************************************************************************)
(* Events, and the order of their paths.                                   *)
(***************************************************************************)
LEMMA EventFacts ==
  /\ \A e \in Events : e.fp \in Prints /\ e.root \in Tasks /\ e.task \in Tasks
  /\ \A e \in Events : e.root \in Nat /\ e.id \in Nat
  /\ \A S : S \subseteq Events => Valid(S) \subseteq S /\ Valid(S) \subseteq Valid(Events)
BY InboxAssumption DEF Prints, Tasks, Valid

OnePerPath(S) == \A e, f \in S : e.root = f.root /\ e.id = f.id => e = f

\* The place of a file in the order is the number of files before it; no two
\* files share one, and every place below the number of files is taken.
LEMMA Places ==
  ASSUME NEW S, S \subseteq Events, IsFiniteSet(S), OnePerPath(S)
  PROVE  /\ Cardinality(S) \in Nat
         /\ \A e \in S : Earlier(S, e) \in 0 .. Cardinality(S) - 1
         /\ \A e, f \in S : Earlier(S, e) = Earlier(S, f) => e = f
         /\ \A i \in 1 .. Cardinality(S) : \E e \in S : Earlier(S, e) = i - 1
<1> DEFINE n == Cardinality(S)
           Below(e) == {f \in S : Before(f, e)}
<1>1. n \in Nat
  BY FS_CardinalityType
<1>2. \A e \in S : IsFiniteSet(Below(e)) /\ Cardinality(Below(e)) \in Nat
  <2> TAKE e \in S
  <2>1. Below(e) \in SUBSET S
    OBVIOUS
  <2> QED BY <2>1, FS_Subset, FS_CardinalityType
<1>3. \A e \in S : Cardinality(Below(e)) < n
  <2> TAKE e \in S
  <2>1. Below(e) \in SUBSET S /\ e \notin Below(e)
    BY EventFacts DEF Before
  <2>2. Cardinality(Below(e)) <= n /\ (n = Cardinality(Below(e)) => S = Below(e))
    BY <2>1, FS_Subset
  <2> QED BY <2>1, <2>2, <1>1, <1>2
<1>4. \A e, f \in S : Before(e, f) => Cardinality(Below(e)) < Cardinality(Below(f))
  <2> SUFFICES ASSUME NEW e \in S, NEW f \in S, Before(e, f)
               PROVE  Cardinality(Below(e)) < Cardinality(Below(f))
    OBVIOUS
  <2>1. Below(e) \in SUBSET Below(f)
    BY EventFacts DEF Before
  <2>2. e \in Below(f) /\ e \notin Below(e)
    BY EventFacts DEF Before
  <2>3. IsFiniteSet(Below(f))
    BY <1>2
  <2>4. /\ Cardinality(Below(e)) <= Cardinality(Below(f))
        /\ Cardinality(Below(f)) = Cardinality(Below(e)) => Below(f) = Below(e)
    BY <2>1, <2>3, FS_Subset
  <2> QED BY <2>2, <2>4, <1>2
<1> DEFINE c == [e \in S |-> Cardinality(Below(e))]
<1>5. /\ \A e \in S : c[e] = Earlier(S, e) /\ c[e] \in Nat /\ c[e] < n
      /\ \A e, f \in S : Before(e, f) => c[e] < c[f]
  BY <1>2, <1>3, <1>4 DEF Earlier
<1> HIDE DEF c, Below
<1>6. \A e, f \in S : c[e] = c[f] => e = f
  <2> SUFFICES ASSUME NEW e \in S, NEW f \in S, c[e] = c[f]
               PROVE  e = f
    OBVIOUS
  <2>1. ~Before(e, f) /\ ~Before(f, e)
    BY <1>5
  <2>2. e.root = f.root /\ e.id = f.id
    BY <2>1, EventFacts DEF Before
  <2> QED BY <2>2 DEF OnePerPath
<1> DEFINE place == [e \in S |-> c[e] + 1]
<1>7. place \in Injection(S, 1 .. n)
  <2>1. place \in [S -> 1 .. n]
    BY <1>1, <1>5
  <2>2. \A e, f \in S : place[e] = place[f] => e = f
    BY <1>5, <1>6
  <2> QED BY <2>1, <2>2 DEF Injection, IsInjective
<1>8. IsFiniteSet(1 .. n) /\ Cardinality(1 .. n) = n
  <2>1. 1 \in Int /\ n \in Int
    BY <1>1
  <2> QED BY <2>1, <1>1, FS_Interval
<1>9. place \in Surjection(S, 1 .. n)
  BY <1>7, <1>8, FS_Injection
<1>10. \A i \in 1 .. n : \E e \in S : place[e] = i
  BY <1>9 DEF Surjection
<1>11. \A i \in 1 .. n : \E e \in S : c[e] = i - 1
  BY <1>5, <1>10
<1> HIDE DEF n
<1> QED BY <1>1, <1>5, <1>6, <1>11 DEF n

\* The path order of a set of files is a sequence of them with all of them in it.
LEMMA PathOrder ==
  ASSUME NEW S, S \subseteq Events, IsFiniteSet(S), OnePerPath(S)
  PROVE  /\ InPathOrder(S) \in Seq(S)
         /\ InPathOrder(S) = <<>> <=> S = {}
         /\ \A e \in S : \E i \in 1 .. Len(InPathOrder(S)) : InPathOrder(S)[i] = e
<1> DEFINE n == Cardinality(S)
           q == InPathOrder(S)
<1>1. /\ n \in Nat
      /\ \A e \in S : Earlier(S, e) \in 0 .. n - 1
      /\ \A e, f \in S : Earlier(S, e) = Earlier(S, f) => e = f
      /\ \A i \in 1 .. n : \E e \in S : Earlier(S, e) = i - 1
  BY Places
<1>2. q = [i \in 1 .. n |-> CHOOSE e \in S : Earlier(S, e) = i - 1]
  BY DEF InPathOrder
<1>3. \A i \in 1 .. n : q[i] \in S /\ Earlier(S, q[i]) = i - 1
  BY <1>1, <1>2
<1>4. q \in Seq(S) /\ Len(q) = n
  BY <1>1, <1>2, <1>3
<1>5. \A e \in S : \E i \in 1 .. n : q[i] = e
  <2> TAKE e \in S
  <2>1. Earlier(S, e) + 1 \in 1 .. n
    BY <1>1
  <2>2. Earlier(S, q[Earlier(S, e) + 1]) = Earlier(S, e) /\ q[Earlier(S, e) + 1] \in S
    BY <2>1, <1>1, <1>3
  <2> QED BY <2>1, <2>2, <1>1
<1>6. n = 0 <=> S = {}
  BY FS_EmptySet
<1>7. q = <<>> <=> S = {}
  BY <1>4, <1>6
<1> HIDE DEF q
<1> QED BY <1>4, <1>5, <1>7 DEF q

(***************************************************************************)
(* The actions, each preserves the invariant.                              *)
(***************************************************************************)
LEMMA InitInv == Init => IInv
<1> SUFFICES ASSUME Init PROVE IInv
  OBVIOUS
<1>1. Files
  BY FS_EmptySet DEF Init, Files, TypeOK, Valid
<1>2. Traceable
  BY DEF Init, Traceable, Stored
<1> QED BY <1>1, <1>2 DEF Init, IInv, StepSound, MemorySound, TurnQueued

LEMMA StartJobInv ==
  ASSUME IInv, NEW t \in Tasks, StartJob(t)
  PROVE  IInv'
<1> USE DEF StartJob, worklog, memory
<1>1. Files'
  BY DEF IInv, Files, TypeOK
<1>2. Traceable'
  BY DEF IInv, Traceable, Stored
<1>3. StepSound' /\ MemorySound'
  BY DEF IInv, StepSound, MemorySound, AtHead, Head1, Stored
<1>4. TurnQueued'
  BY DEF Idle, TurnQueued
<1> QED BY <1>1, <1>2, <1>3, <1>4 DEF IInv

LEMMA SubmitInv ==
  ASSUME IInv, NEW e \in Events, Submit(e)
  PROVE  IInv'
<1> USE DEF Submit, worklog, memory
<1>1. IsFiniteSet(inbox')
  BY FS_AddElement DEF IInv, Files
<1>2. TypeOK'
  BY DEF IInv, Files, TypeOK, Blocked
<1>3. Files'
  BY <1>1, <1>2 DEF IInv, Files
<1>4. Traceable'
  BY DEF IInv, Traceable, Stored
<1>5. StepSound' /\ MemorySound'
  BY DEF IInv, StepSound, MemorySound, AtHead, Head1, Stored
<1>6. TurnQueued'
  BY DEF IInv, TurnQueued, InQueue
<1> QED BY <1>3, <1>4, <1>5, <1>6 DEF IInv

\* What a poll leaves: every valid file of the inbox is in the queue.
LEMMA PollFacts ==
  ASSUME IInv, Idle, PollInbox, turn' \subseteq Tasks,
         worker' \in [Tasks -> [working : BOOLEAN, turns : Nat]],
         \A t \in turn' : ~worker'[t].working
  PROVE  IInv'
<1> USE DEF PollInbox, worklog, memory
<1>1. /\ inbox' = Found /\ Found \subseteq Events /\ Found \subseteq inbox
      /\ Found \subseteq Valid(Events) /\ IsFiniteSet(Found) /\ OnePerPath(Found)
  <2>1. inbox \subseteq Events /\ IsFiniteSet(inbox) /\ OnePerPath(inbox)
    BY DEF IInv, Files, TypeOK, OnePerPath
  <2>2. Found \in SUBSET inbox /\ Found \subseteq Valid(Events)
    BY <2>1 DEF Found, Valid
  <2> QED BY <2>1, <2>2, FS_Subset DEF Found, OnePerPath
<1>2. /\ queue' \in Seq(Found) /\ (queue' = <<>> <=> Found = {})
      /\ \A e \in Found : \E i \in 1 .. Len(queue') : queue'[i] = e
  BY <1>1, PathOrder
<1>3. queue' \in Seq(Events) /\ queue' \in Seq(Valid(Events))
  BY <1>1, <1>2
<1>4. Files'
  BY <1>1, <1>2, <1>3 DEF IInv, Files, TypeOK, OnePerPath, Idle
<1>5. Traceable'
  BY DEF IInv, Traceable, Stored
<1>6. at' \in {"idle", "decide"} /\ ctl' = "up"
  BY DEF Idle
<1>7. StepSound'
  BY <1>6 DEF StepSound
<1>8. MemorySound'
  BY <1>6 DEF IInv, MemorySound, AtHead, Idle
<1>9. TurnQueued'
  BY <1>1, <1>2 DEF TurnQueued, InQueue
<1> QED BY <1>4, <1>5, <1>7, <1>8, <1>9 DEF IInv

LEMMA PollInv ==
  ASSUME IInv, Poll
  PROVE  IInv'
BY PollFacts DEF IInv, Files, TypeOK, Poll

LEMMA TurnEndsInv ==
  ASSUME IInv, NEW t \in Tasks, TurnEnds(t)
  PROVE  IInv'
<1>1. /\ worker' \in [Tasks -> [working : BOOLEAN, turns : Nat]]
      /\ worker'[t].working = FALSE
  <2> DEFINE w == [worker[t] EXCEPT !.working = FALSE]
  <2>1. worker \in [Tasks -> [working : BOOLEAN, turns : Nat]]
    BY DEF IInv, Files, TypeOK
  <2>2. w \in [working : BOOLEAN, turns : Nat] /\ w.working = FALSE
    BY <2>1
  <2>3. worker' = [worker EXCEPT ![t] = w]
    BY DEF TurnEnds
  <2> HIDE DEF w
  <2> QED BY <2>1, <2>2, <2>3
<1> QED BY <1>1, PollFacts DEF TurnEnds, PollAtTurn

LEMMA DecideInv ==
  ASSUME IInv, NEW t \in Tasks, Decide(t)
  PROVE  IInv'
<1> USE DEF Decide, worklog, memory
<1>0. worker' \in [Tasks -> [working : BOOLEAN, turns : Nat]]
  <2>1. worker \in [Tasks -> [working : BOOLEAN, turns : Nat]]
    BY DEF IInv, Files, TypeOK
  <2>2. CASE worker' = worker
    BY <2>1, <2>2
  <2>3. CASE worker' = [worker EXCEPT ![t] = [working |-> TRUE, turns |-> @.turns + 1]]
    BY <2>1, <2>3
  <2> QED BY <2>2, <2>3
<1>1. Files'
  BY <1>0 DEF IInv, Files, TypeOK
<1>2. Traceable'
  BY DEF IInv, Traceable, Stored
<1>3. StepSound' /\ MemorySound'
  BY DEF IInv, StepSound, MemorySound, AtHead, Head1, Stored
<1>4. TurnQueued'
  BY DEF TurnQueued
<1> QED BY <1>1, <1>2, <1>3, <1>4 DEF IInv

\* The candidate at the head of the queue.
LEMMA HeadFacts ==
  ASSUME IInv, queue # <<>>
  PROVE  /\ Head1 \in Events /\ Head1 \in Valid(Events) /\ Head1.fp \in Prints
         /\ at # "idle"
BY EventFacts DEF IInv, Files, TypeOK, Head1

\* A step with the head of the queue that leaves the files where they are.
LEMMA TurnsKept ==
  ASSUME IInv, UNCHANGED <<inbox, queue, turn, worker>>
  PROVE  TurnQueued'
BY DEF IInv, TurnQueued, InQueue

LEMMA DeduplicateInv ==
  ASSUME IInv, Deduplicate
  PROVE  IInv'
<1> USE DEF Deduplicate, At, Step, worklog
<1>1. Head1.fp \in Prints /\ Head1' = Head1
  BY HeadFacts DEF Head1
<1>2. Head1.fp \in logged \cup rejected
  BY DEF IInv, MemorySound, Traceable, Known
<1>3. Files'
  BY <1>1 DEF IInv, Files, TypeOK
<1>4. Traceable'
  BY DEF IInv, Traceable, Stored
<1>5. StepSound'
  BY <1>1, <1>2 DEF StepSound
<1>6. MemorySound'
  BY <1>2 DEF IInv, MemorySound, AtHead
<1>7. TurnQueued'
  BY TurnsKept
<1> QED BY <1>3, <1>4, <1>5, <1>6, <1>7 DEF IInv

LEMMA RejectInv ==
  ASSUME IInv, Reject
  PROVE  IInv'
<1> USE DEF Reject, At, Step
<1>1. Head1.fp \in Prints /\ Head1' = Head1
  BY HeadFacts DEF Head1
<1>3. Files'
  BY <1>1 DEF IInv, Files, TypeOK
<1>4. Traceable'
  BY DEF IInv, Traceable, Stored
<1>5. StepSound'
  BY <1>1 DEF StepSound
<1>6. MemorySound'
  BY DEF IInv, MemorySound, AtHead
<1>7. TurnQueued'
  BY TurnsKept
<1> QED BY <1>3, <1>4, <1>5, <1>6, <1>7 DEF IInv

LEMMA EmitInv ==
  ASSUME IInv, Emit
  PROVE  IInv'
<1> USE DEF Emit, At, Step, memory
<1>1. Head1.fp \in Prints /\ Head1' = Head1
  BY HeadFacts DEF Head1
<1>2. PICK k \in 0 .. 1 : /\ emitted' = [emitted EXCEPT ![Head1.fp] = @ + k]
                          /\ Head1.fp \notin Stored => k = 1
  <2> DEFINE inc == IF Head1.fp \in Stored THEN 0 ELSE 1
  <2>1. inc \in 0 .. 1 /\ (Head1.fp \notin Stored => inc = 1)
    OBVIOUS
  <2>2. emitted' = [emitted EXCEPT ![Head1.fp] = @ + inc]
    OBVIOUS
  <2> HIDE DEF inc
  <2> QED BY <2>1, <2>2
<1>3. /\ emitted' \in [Prints -> Nat] /\ emitted'[Head1.fp] > 0
      /\ \A f \in Prints : emitted[f] > 0 => emitted'[f] > 0
  <2>1. emitted \in [Prints -> Nat] /\ (Head1.fp \in Stored => emitted[Head1.fp] > 0)
    BY DEF IInv, Files, TypeOK, Traceable
  <2>2. emitted' \in [Prints -> Nat] /\ emitted'[Head1.fp] = emitted[Head1.fp] + k
    BY <1>1, <1>2, <2>1
  <2>3. \A f \in Prints : emitted'[f] >= emitted[f]
    BY <1>1, <1>2, <2>1
  <2> QED BY <1>1, <1>2, <2>1, <2>2, <2>3
<1>4. Files'
  BY <1>3 DEF IInv, Files, TypeOK
<1>5. Stored' = Stored /\ Stored \subseteq Prints
  BY EventFacts DEF IInv, Files, TypeOK, Stored
<1>6. Traceable'
  BY <1>3, <1>5 DEF IInv, Traceable
<1>7. StepSound'
  BY <1>1, <1>3 DEF StepSound
<1>8. MemorySound'
  BY DEF IInv, MemorySound, AtHead
<1>9. TurnQueued'
  BY TurnsKept
<1> QED BY <1>4, <1>6, <1>7, <1>8, <1>9 DEF IInv

LEMMA PersistInv ==
  ASSUME IInv, Persist
  PROVE  IInv'
<1> USE DEF Persist, At, Step, memory
<1>1. /\ Head1 \in Events /\ Head1 \in Valid(Events) /\ Head1.fp \in Prints
      /\ Head1' = Head1 /\ emitted[Head1.fp] > 0
  BY HeadFacts DEF Head1, IInv, StepSound
<1>2. Stored' = Stored \cup {Head1.fp}
  BY DEF Stored
<1>3. durable' \subseteq Events /\ durable' \subseteq Valid(Events)
  BY <1>1 DEF IInv, Files, TypeOK
<1>4. \A e, f \in durable' : e.fp = f.fp => e = f
  BY DEF IInv, Files, TypeOK, Stored
<1>5. Files'
  BY <1>3, <1>4 DEF IInv, Files, TypeOK
<1>6. Traceable'
  BY <1>1, <1>2 DEF IInv, Traceable
<1>7. StepSound'
  BY <1>1, <1>2 DEF StepSound
<1>8. MemorySound'
  BY DEF IInv, MemorySound, AtHead
<1>9. TurnQueued'
  BY TurnsKept
<1> QED BY <1>5, <1>6, <1>7, <1>8, <1>9 DEF IInv

LEMMA RegisterInv ==
  ASSUME IInv, Register
  PROVE  IInv'
<1> USE DEF Register, At, Step
<1>1. Head1.fp \in Prints /\ Head1' = Head1 /\ Head1.fp \in Stored
  BY HeadFacts DEF Head1, IInv, StepSound
<1>2. /\ committed' \in [Prints -> Nat] /\ committed'[Head1.fp] > 0
      /\ \A f \in Prints : committed[f] > 0 => committed'[f] > 0
  <2>1. committed \in [Prints -> Nat]
    BY DEF IInv, Files, TypeOK
  <2> QED BY <1>1, <2>1
<1>3. Files'
  BY <1>1, <1>2 DEF IInv, Files, TypeOK
<1>4. Stored' = Stored /\ logged \subseteq Prints
  BY DEF IInv, Files, TypeOK, Stored
<1>5. Traceable'
  BY <1>2, <1>4 DEF IInv, Traceable
<1>6. StepSound'
  BY <1>1, <1>2, <1>4 DEF StepSound
<1>7. MemorySound'
  BY DEF IInv, MemorySound, AtHead
<1>8. TurnQueued'
  BY TurnsKept
<1> QED BY <1>3, <1>5, <1>6, <1>7, <1>8 DEF IInv

LEMMA LogProcessedInv ==
  ASSUME IInv, LogProcessed
  PROVE  IInv'
<1> USE DEF LogProcessed, At, Step, memory
<1>1. /\ Head1.fp \in Prints /\ Head1' = Head1
      /\ Head1.fp \in Stored /\ committed[Head1.fp] > 0 /\ Head1.fp \in gate
  BY HeadFacts DEF Head1, IInv, StepSound
<1>2. Files'
  BY <1>1 DEF IInv, Files, TypeOK
<1>3. Stored' = Stored
  BY DEF Stored
<1>4. Traceable'
  BY <1>1, <1>3 DEF IInv, Traceable
<1>5. StepSound'
  BY <1>1 DEF StepSound
<1>6. MemorySound'
  BY <1>1 DEF IInv, MemorySound, AtHead
<1>7. TurnQueued'
  BY TurnsKept
<1> QED BY <1>2, <1>4, <1>5, <1>6, <1>7 DEF IInv

LEMMA MarkAcceptedInv ==
  ASSUME IInv, MarkAccepted
  PROVE  IInv'
<1> USE DEF MarkAccepted, At, Step
<1>1. Head1.fp \in Prints /\ Head1' = Head1 /\ Head1.fp \in logged
  BY HeadFacts DEF Head1, IInv, StepSound
<1>2. Files'
  BY <1>1 DEF IInv, Files, TypeOK
<1>3. Traceable'
  BY <1>1 DEF IInv, Traceable, Stored
<1>4. StepSound'
  BY <1>1 DEF StepSound
<1>5. MemorySound'
  BY <1>1 DEF IInv, MemorySound, AtHead
<1>6. TurnQueued'
  BY TurnsKept
<1> QED BY <1>2, <1>3, <1>4, <1>5, <1>6 DEF IInv

LEMMA TailFacts ==
  ASSUME NEW S, NEW q \in Seq(S), q # <<>>
  PROVE  Tail(q) \in Seq(S) /\ (Tail(q) = <<>> <=> Len(q) = 1)
<1>1. Tail(q) \in Seq(S) /\ Len(q) \in Nat \ {0} /\ Len(Tail(q)) = Len(q) - 1
  OBVIOUS
<1> DEFINE r == Tail(q)
<1>2. r \in Seq(S) /\ Len(r) = Len(q) - 1
  BY <1>1
<1> HIDE DEF r
<1>3. r = <<>> <=> Len(r) = 0
  BY <1>2, EmptySeq
<1> QED BY <1>1, <1>2, <1>3 DEF r

LEMMA ArchiveInv ==
  ASSUME IInv, Archive
  PROVE  IInv'
<1> USE DEF Archive, At, worklog
<1>1. /\ queue \in Seq(Events) /\ queue \in Seq(Valid(Events)) /\ queue # <<>>
      /\ Head1 = queue[1] /\ Head1 \in Events /\ Head1.fp \in Prints
  BY HeadFacts DEF IInv, Files, TypeOK, Head1
<1>2. /\ queue' \in Seq(Events) /\ queue' \in Seq(Valid(Events))
      /\ (queue' = <<>> <=> Len(queue) = 1)
  BY <1>1, TailFacts
<1>3. \A e : InQueue(e) /\ e # Head1 => \E i \in 1 .. Len(queue') : queue'[i] = e
  <2> SUFFICES ASSUME NEW i \in 1 .. Len(queue), queue[i] # Head1
               PROVE  \E k \in 1 .. Len(queue') : queue'[k] = queue[i]
    BY DEF InQueue
  <2>1. i - 1 \in 1 .. Len(queue') /\ queue'[i - 1] = queue[i]
    BY <1>1
  <2> QED BY <2>1
<1>4. /\ inbox' \in SUBSET inbox /\ Head1 \notin inbox' /\ inbox \subseteq Events
      /\ inbox' \subseteq Events /\ gone' \subseteq Events
  BY DEF IInv, Files, TypeOK, Named
<1>5. IsFiniteSet(inbox')
  BY <1>4, FS_Subset DEF IInv, Files
<1>6. audits' \subseteq gate
  BY DEF IInv, Files, TypeOK, Audited
<1>7. Files'
  BY <1>2, <1>4, <1>5, <1>6 DEF IInv, Files, TypeOK
<1>8. Traceable'
  BY DEF IInv, Traceable, Stored
<1>9. StepSound'
  BY DEF StepSound
<1>10. MemorySound'
  BY DEF IInv, MemorySound, AtHead, Audited
<1>11. TurnQueued'
  BY <1>3, <1>4 DEF IInv, TurnQueued, InQueue
<1> QED BY <1>7, <1>8, <1>9, <1>10, <1>11 DEF IInv

LEMMA CrashInv ==
  ASSUME IInv, Crash
  PROVE  IInv'
<1> USE DEF Crash, worklog
<1>1. worker' \in [Tasks -> [working : BOOLEAN, turns : Nat]]
  <2>1. worker \in [Tasks -> [working : BOOLEAN, turns : Nat]]
    BY DEF IInv, Files, TypeOK
  <2>2. \A t \in Tasks : [worker[t] EXCEPT !.working = FALSE] \in [working : BOOLEAN, turns : Nat]
    BY <2>1
  <2> QED BY <2>2
<1>2. Files'
  BY <1>1 DEF IInv, Files, TypeOK
<1>3. Traceable'
  BY DEF IInv, Traceable, Stored
<1>4. StepSound' /\ MemorySound' /\ TurnQueued'
  BY DEF StepSound, MemorySound, TurnQueued
<1> QED BY <1>2, <1>3, <1>4 DEF IInv

LEMMA RestartInv ==
  ASSUME IInv, Restart
  PROVE  IInv'
<1> USE DEF Restart, worklog, memory
<1>1. Files'
  BY DEF IInv, Files, TypeOK
<1>2. Traceable'
  BY DEF IInv, Traceable, Stored
<1>3. StepSound' /\ MemorySound' /\ TurnQueued'
  BY DEF IInv, StepSound, MemorySound, TurnQueued
<1> QED BY <1>1, <1>2, <1>3 DEF IInv

LEMMA RecoverOneInv ==
  ASSUME IInv, NEW e \in Events, RecoverOne(e)
  PROVE  IInv'
<1> USE DEF RecoverOne
<1>1. e.fp \in Prints /\ e.fp \in logged
  BY EventFacts DEF IInv, Files, TypeOK
<1>2. inbox' \in SUBSET inbox /\ Named(e) \subseteq Events
  BY DEF IInv, Files, TypeOK, Named
<1>3. IsFiniteSet(inbox')
  BY <1>2, FS_Subset DEF IInv, Files
<1>4. Files'
  BY <1>1, <1>2, <1>3 DEF IInv, Files, TypeOK, Restored
<1>5. Traceable'
  BY <1>1 DEF IInv, Traceable, Stored
<1>6. at' = "idle" /\ turn' = {} /\ ctl' = "recovering"
  BY DEF IInv, MemorySound
<1>7. StepSound' /\ TurnQueued'
  BY <1>6 DEF StepSound, TurnQueued
<1>8. MemorySound'
  BY <1>1, <1>6 DEF IInv, MemorySound, Restored
<1> QED BY <1>4, <1>5, <1>7, <1>8 DEF IInv

LEMMA RecoveredInv ==
  ASSUME IInv, Recovered
  PROVE  IInv'
<1> USE DEF Recovered, worklog
<1>1. Files'
  BY DEF IInv, Files, TypeOK
<1>2. Traceable'
  BY DEF IInv, Traceable, Stored
<1>3. at' = "idle" /\ turn' = {}
  BY DEF IInv, MemorySound
<1>4. StepSound' /\ TurnQueued'
  BY <1>3 DEF StepSound, TurnQueued
<1>5. MemorySound'
  BY DEF IInv, MemorySound
<1> QED BY <1>1, <1>2, <1>4, <1>5 DEF IInv

LEMMA StutterInv ==
  ASSUME IInv, UNCHANGED vars
  PROVE  IInv'
<1> USE DEF vars, worklog, memory
<1>1. Files'
  BY DEF IInv, Files, TypeOK
<1>2. Traceable' /\ StepSound' /\ MemorySound'
  BY DEF IInv, Traceable, StepSound, MemorySound, AtHead, Head1, Stored
<1>3. TurnQueued'
  BY TurnsKept
<1> QED BY <1>1, <1>2, <1>3 DEF IInv

LEMMA NextInv ==
  ASSUME IInv, [Next]_vars
  PROVE  IInv'
<1>1. ASSUME NEW t \in Tasks, StartJob(t) \/ TurnEnds(t) \/ Decide(t)
      PROVE  IInv'
  BY <1>1, StartJobInv, TurnEndsInv, DecideInv
<1>2. ASSUME NEW e \in Events, Submit(e) \/ RecoverOne(e)
      PROVE  IInv'
  BY <1>2, SubmitInv, RecoverOneInv
<1>3. CASE Process
  BY <1>3, DeduplicateInv, RejectInv, EmitInv, PersistInv, RegisterInv, LogProcessedInv,
     MarkAcceptedInv, ArchiveInv DEF Process
<1>4. CASE Poll \/ Crash \/ Restart \/ Recovered
  BY <1>4, PollInv, CrashInv, RestartInv, RecoveredInv
<1>5. CASE UNCHANGED vars
  BY <1>5, StutterInv
<1> QED BY <1>1, <1>2, <1>3, <1>4, <1>5 DEF Next

(***************************************************************************)
(* The theorems.                                                           *)
(***************************************************************************)
\* The invariant holds of every reachable state (eventing.py, the poll;
\* controller.py, what becomes of a candidate and its recovery).
THEOREM Invariance == Spec => []IInv
BY InitInv, NextInv, PTL DEF Spec

\* Wherever the controller died, an accepted candidate has its processed
\* event, its committed registration, its file and its ledger line; and
\* whenever the controller is idle, each admitted candidate is in the audit
\* gate with its audit asked for.
THEOREM AdmittedSound == Spec => [](TypeOK /\ Traceable /\ AdmittedIsAudited)
<1>1. IInv => TypeOK /\ Traceable /\ AdmittedIsAudited
  BY DEF IInv, Files, MemorySound, AdmittedIsAudited, AtHead, Idle
<1> QED BY <1>1, Invariance, PTL

\* The directive of an ended turn is given when every file its worker wrote
\* is decided and gone from the inbox.
THEOREM TurnsSee == Spec => TurnSeesCandidates
<1>1. IInv /\ [Next]_vars =>
        [\A t \in turn \ turn' : ctl' = "up" => \A e \in inbox : e.root # t]_vars
  <2> SUFFICES ASSUME IInv, [Next]_vars, NEW t \in turn \ turn', ctl' = "up",
                      NEW e \in inbox, e.root = t
               PROVE  FALSE
    OBVIOUS
  <2>1. turn' # turn
    OBVIOUS
  <2>2. queue = <<>>
    <3>1. CASE UNCHANGED vars
      BY <2>1, <3>1 DEF vars
    <3>2. ASSUME NEW u \in Tasks, StartJob(u) \/ TurnEnds(u) \/ Decide(u)
          PROVE  queue = <<>>
      BY <3>2 DEF StartJob, TurnEnds, Decide, Idle
    <3>3. ASSUME NEW f \in Events, Submit(f) \/ RecoverOne(f)
          PROVE  queue = <<>>
      BY <3>3, <2>1 DEF Submit, RecoverOne
    <3>4. CASE Process
      BY <3>4, <2>1 DEF Process, Deduplicate, Reject, Emit, Persist, Register, LogProcessed,
         MarkAccepted, Archive, Step
    <3>5. CASE Poll \/ Crash \/ Restart \/ Recovered
      BY <3>5, <2>1 DEF Poll, Crash, Restart, Recovered
    <3> QED BY <3>1, <3>2, <3>3, <3>4, <3>5 DEF Next
  <2>3. InQueue(e)
    BY DEF IInv, TurnQueued
  <2> QED BY <2>2, <2>3 DEF InQueue
<1> QED BY <1>1, Invariance, PTL DEF Spec, TurnSeesCandidates

(***************************************************************************)
(* No file is lost unread.  Archiving takes every file with the event's    *)
(* id, so this needs that an event id names one candidate.                 *)
(***************************************************************************)
IdsNameOne ==
  \A e, f \in Valid(Events) : e.id = f.id => e.fp = f.fp

LEMMA NamedDecided ==
  ASSUME IdsNameOne, inbox \subseteq Events, NEW h \in Valid(Events),
         h.fp \in logged \cup rejected
  PROVE  \A e \in Named(h) : e.form = "broken" \/ e.fp \in logged \cup rejected
BY DEF IdsNameOne, Named, Valid

LEMMA NextUnread ==
  ASSUME IdsNameOne, IInv, NothingUnread, [Next]_vars
  PROVE  NothingUnread'
<1>1. ASSUME gone' = gone, logged \subseteq logged', rejected \subseteq rejected'
      PROVE  NothingUnread'
  BY <1>1 DEF NothingUnread
<1>2. ASSUME NEW h \in Valid(Events), h.fp \in logged \cup rejected,
             gone' = gone \cup Named(h), logged' = logged, rejected' = rejected
      PROVE  NothingUnread'
  BY <1>2, NamedDecided DEF NothingUnread, IInv, Files, TypeOK
<1>3. ASSUME PollInbox PROVE NothingUnread'
  BY <1>3 DEF NothingUnread, PollInbox, worklog, Valid
<1>4. ASSUME NEW t \in Tasks, StartJob(t) \/ TurnEnds(t) \/ Decide(t)
      PROVE  NothingUnread'
  BY <1>1, <1>3, <1>4 DEF StartJob, TurnEnds, PollAtTurn, Decide, worklog
<1>5. ASSUME NEW e \in Events, Submit(e) PROVE NothingUnread'
  BY <1>1, <1>5 DEF Submit, worklog
<1>6. ASSUME NEW e \in Events, RecoverOne(e) PROVE NothingUnread'
  <2>1. e \in Valid(Events) /\ e.fp \in logged
    BY <1>6 DEF RecoverOne, IInv, Files, TypeOK
  <2> QED BY <1>2, <1>6, <2>1 DEF RecoverOne
<1>7. CASE Archive
  <2>1. Head1 \in Valid(Events) /\ Head1.fp \in logged \cup rejected
    BY <1>7, HeadFacts DEF Archive, At, IInv, StepSound
  <2> QED BY <1>2, <1>7, <2>1 DEF Archive, worklog
<1>8. CASE Process /\ ~Archive
  BY <1>1, <1>8 DEF Process, Deduplicate, Reject, Emit, Persist, Register, LogProcessed,
     MarkAccepted, worklog
<1>9. CASE Poll
  BY <1>3, <1>9 DEF Poll
<1>10. CASE Crash \/ Restart \/ Recovered \/ UNCHANGED vars
  BY <1>1, <1>10 DEF Crash, Restart, Recovered, vars, worklog
<1> QED BY <1>4, <1>5, <1>6, <1>7, <1>8, <1>9, <1>10 DEF Next

\* When an event id names one candidate, a file that leaves the inbox was
\* quarantined or has its fingerprint decided; with the rest, all that the
\* run checks of the candidates.
THEOREM Sound == IdsNameOne => (Spec => []CandidatesSound)
<1> SUFFICES ASSUME IdsNameOne PROVE Spec => []CandidatesSound
  OBVIOUS
<1>1. Init => NothingUnread
  BY DEF Init, NothingUnread
<1>2. IInv /\ NothingUnread /\ [Next]_vars => NothingUnread'
  BY NextUnread
<1>3. Spec => []NothingUnread
  BY <1>1, <1>2, Invariance, PTL DEF Spec
<1>4. Spec => [](TypeOK /\ Traceable /\ AdmittedIsAudited)
  BY AdmittedSound
<1> QED BY <1>3, <1>4, PTL DEF CandidatesSound
=============================================================================
