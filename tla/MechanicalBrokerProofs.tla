-------------------------- MODULE MechanicalBrokerProofs --------------------------
(***************************************************************************)
(* Proofs about MechanicalBroker, for any finite set of requests, any      *)
(* limits and any number of controller processes: a request is one piece   *)
(* of work with one answer, and neither crashes nor retries spend more     *)
(* than they may.                                                          *)
(*                                                                         *)
(* The inductive invariant follows each request.  It is in one place at a  *)
(* time: queued (Held), observed (watch), in the middle of the step        *)
(* (Busy), or still to be recovered (todo); a valid request without a      *)
(* terminal event is in one of them unless the controller is down (Flows). *)
(* A process runs only for the last attempt, and only while that attempt   *)
(* is open or was given up as uncertain, which is never repeated (Alive).  *)
(* An attempt was paid for by the first request, a continuation, a retry   *)
(* that the log counts, or a start of the controller (Counted).            *)
(***************************************************************************)
EXTENDS MechanicalBroker, FiniteSetTheorems, TLAPS

Held(r) == \E i \in DOMAIN pending : pending[i] = r
Busy(r) == step # <<>> /\ step[1].req = r
Busying(r, at) == Busy(r) /\ step[1].at = at
LastOut(r) == log[r].att[Attempts(r)].out
Settled(r) == Attempts(r) = 0 \/ LastOut(r) \notin {"open", "uncertain"}
Unanswered(r) == log[r].requested = "valid" /\ resp[r] = <<>> /\ log[r].term = <<>>

\* A request that no controller has seen.
Untouched(r) ==
    /\ log[r] = NoEvents /\ resp[r] = <<>> /\ mem[r] = Fresh
    /\ ~Held(r) /\ watch[r] = "none" /\ ~Busy(r)

Flows(r) ==
    /\ Held(r) => r \notin todo /\ watch[r] = "none" /\ ~Busy(r) /\ Unanswered(r) /\ Settled(r)
    /\ watch[r] # "none" => r \notin todo /\ ~Busy(r) /\ Unanswered(r) /\ Open(r)
    /\ Busy(r) => r \notin todo /\ log[r].term = <<>>
    /\ Busying(r, "settle") => Unanswered(r) /\ Attempts(r) > 0 /\ LastOut(r) = step[1].status
                               /\ LastOut(r) # "open"
    /\ Busying(r, "respond") =>
         resp[r] = <<>> \/ resp[r] = <<[status |-> step[1].status, used |-> step[1].used]>>
    /\ parent[r] = "idle" \/ (parent[r] = "waiting" /\ r \notin seen) => Untouched(r)
    /\ parent[r] = "waiting" => file[r] # "none"
    /\ log[r].requested = "valid" /\ log[r].term = <<>> =>
         ctl = "down" \/ Held(r) \/ watch[r] # "none" \/ Busy(r) \/ r \in todo
    /\ log[r].requested # "valid" => Attempts(r) = 0

Alive(r) ==
    /\ Len(proc[r]) = Attempts(r)
    /\ \A a \in 1 .. Attempts(r) :
         proc[r][a] = "running" => a = Attempts(r) /\ LastOut(r) \in {"open", "uncertain"}

Grant(r) == (IF log[r].fallback THEN 1 ELSE 0)
              + log[r].retries["transient"] + log[r].retries["protocol"] + starts

Counted(r) ==
    /\ Attempts(r) <= Grant(r)
    /\ Held(r) \/ r \in todo => Attempts(r) < Grant(r)
    /\ log[r].retries["transient"] <= TransientRetries
    /\ log[r].retries["protocol"] <= ProtocolRetries
    /\ Held(r) \/ watch[r] # "none" \/ Busying(r, "settle") =>
         /\ mem[r].fallback = log[r].fallback
         /\ \A c \in {"transient", "protocol"} : log[r].retries[c] <= mem[r].retries[c]

OneResponse(r) == Len(resp[r]) <= 1 /\ Len(log[r].term) <= 1

Stands(r) == Flows(r) /\ Alive(r) /\ Counted(r) /\ OneResponse(r)

\* What the controller is at, and that it queues a request once.
Sound ==
    /\ starts # 0
    /\ todo # {} => ctl = "recovering"
    /\ ctl \in {"down", "finished"} =>
         step = <<>> /\ pending = <<>> /\ \A r \in Requests : watch[r] = "none"
    /\ ctl \in {"down", "recovering", "finished"} => \A r \in Requests : parent[r] # "waiting"
    /\ \A i, j \in DOMAIN pending : pending[i] = pending[j] => i = j

IInv == TypeOK /\ Sound /\ \A r \in Requests : Stands(r)

(***************************************************************************)
(* What was spent: the governor counts every token of a recorded attempt   *)
(* of a request that is recovered, and what was consumed and what an open  *)
(* attempt may still consume are within the budget.                        *)
(***************************************************************************)
Paid(r) ==
    /\ Held(r) \/ watch[r] # "none" \/ Busying(r, "settle") => mem[r].used = UsedBy(r)
    /\ Busy(r) => UsedBy(r) <= step[1].used /\ (step[1].reused => UsedBy(r) = 0)
    /\ log[r].requested = "valid" /\ resp[r] # <<>> => UsedBy(r) <= resp[r][1].used
    /\ log[r].term # <<>> =>
         /\ UsedBy(r) <= log[r].term[1].used
         /\ log[r].term[1].reused => UsedBy(r) = 0

ConsumedOf(S) == UNION {{r} \X Consuming(r) : r \in S}
Owed == {r \in Requests : Open(r) /\ log[r].term = <<>>}

Covered ==
    /\ ctl # "down" => Cardinality(ConsumedOf(Requests \ todo)) <= spent
    /\ Cardinality(ConsumedOf(Requests)) + Cardinality(Owed) <= Budget

MInv == IInv /\ (\A r \in Requests : Paid(r)) /\ Covered

(***************************************************************************)
(* Facts that the steps share.                                             *)
(***************************************************************************)
LEMMA Constants ==
  /\ IsFiniteSet(Requests) /\ Budget \in Nat
  /\ TransientRetries \in Nat /\ ProtocolRetries \in Nat /\ Outcomes \subseteq WorkerOutcomes
BY BrokerAssumption DEF WorkerOutcomes

LEMMA Facts ==
  ASSUME TypeOK, NEW r \in Requests
  PROVE  /\ log[r] \in Logs /\ mem[r] \in Memories /\ proc[r] \in Seq(Processes)
         /\ resp[r] \in Seq(Answers) /\ log[r].att \in Seq(Attempt)
         /\ Attempts(r) \in Nat /\ DOMAIN log[r].att = 1 .. Attempts(r)
         /\ \A a \in 1 .. Attempts(r) : log[r].att[a] \in Attempt
                                        /\ log[r].att[a].out \in Statuses \cup {"open"}
         /\ log[r].term \in Seq(Terminal) /\ log[r].fallback \in BOOLEAN
         /\ log[r].retries \in Retries /\ mem[r].retries \in Retries
         /\ mem[r].used \in Nat /\ mem[r].fallback \in BOOLEAN
         /\ \A c \in {"transient", "protocol"} :
              log[r].retries[c] \in Nat /\ mem[r].retries[c] \in Nat
         /\ starts \in Nat /\ Grant(r) \in Nat
<1>1. /\ log[r] \in Logs /\ mem[r] \in Memories /\ proc[r] \in Seq(Processes)
      /\ resp[r] \in Seq(Answers) /\ starts \in Nat
  BY DEF TypeOK
<1>2. /\ log[r].att \in Seq(Attempt) /\ log[r].term \in Seq(Terminal) /\ log[r].fallback \in BOOLEAN
      /\ log[r].retries \in Retries
  BY <1>1 DEF Logs
<1>3. mem[r].retries \in Retries /\ mem[r].used \in Nat /\ mem[r].fallback \in BOOLEAN
  BY <1>1 DEF Memories
<1>4. Attempts(r) \in Nat /\ DOMAIN log[r].att = 1 .. Attempts(r)
  BY <1>2 DEF Attempts
<1>5. \A a \in 1 .. Attempts(r) : log[r].att[a] \in Attempt
  BY <1>2, <1>4
<1>6. \A a \in 1 .. Attempts(r) : log[r].att[a].out \in Statuses \cup {"open"}
  BY <1>5 DEF Attempt
<1>7. \A c \in {"transient", "protocol"} : log[r].retries[c] \in Nat /\ mem[r].retries[c] \in Nat
  BY <1>2, <1>3 DEF Retries
<1>8. Grant(r) \in Nat
  <2>1. log[r].retries["transient"] \in Nat /\ log[r].retries["protocol"] \in Nat
    BY <1>7
  <2>. QED BY <1>1, <2>1 DEF Grant
<1>. QED BY <1>1, <1>2, <1>3, <1>4, <1>5, <1>6, <1>7, <1>8

\* A request that a step does not touch stands where it stood.
LEMMA Same ==
  ASSUME NEW q \in Requests, Stands(q), starts' = starts,
         log'[q] = log[q], resp'[q] = resp[q], proc'[q] = proc[q], watch'[q] = watch[q],
         mem'[q] = mem[q], file'[q] = file[q], parent'[q] \in {parent[q], "ended"},
         q \in todo' <=> q \in todo, q \in seen' <=> q \in seen,
         Held(q)' <=> Held(q), Busy(q)' <=> Busy(q), Busy(q) => step'[1] = step[1],
         ctl = "down" => ctl' = "down"
  PROVE  Stands(q)' /\ (Paid(q) => Paid(q)') /\ Consuming(q)' = Consuming(q)
<1>1. /\ Attempts(q)' = Attempts(q) /\ LastOut(q)' = LastOut(q) /\ Grant(q)' = Grant(q)
      /\ Finished(q)' = Finished(q)
  BY DEF Attempts, LastOut, Grant, Finished
<1>2. /\ (Unanswered(q)' <=> Unanswered(q)) /\ (Settled(q)' <=> Settled(q)) /\ (Open(q)' <=> Open(q))
      /\ (Untouched(q) => Untouched(q)')
  BY <1>1 DEF Unanswered, Settled, Open, Untouched
<1>3. \A at : Busying(q, at)' <=> Busying(q, at)
  BY DEF Busying
<1>4. Flows(q)'
  <2> USE DEF Stands, Flows
  <2>1. Held(q)' => q \notin todo' /\ watch'[q] = "none" /\ ~Busy(q)' /\ Unanswered(q)' /\ Settled(q)'
    BY <1>2
  <2>2. watch'[q] # "none" => q \notin todo' /\ ~Busy(q)' /\ Unanswered(q)' /\ Open(q)'
    BY <1>2
  <2>3. Busy(q)' => q \notin todo' /\ log'[q].term = <<>>
    OBVIOUS
  <2>4. Busying(q, "settle")' => Unanswered(q)' /\ Attempts(q)' > 0 /\ LastOut(q)' = step'[1].status
                                 /\ LastOut(q)' # "open"
    BY <1>1, <1>2, <1>3 DEF Busying
  <2>5. Busying(q, "respond")' =>
          resp'[q] = <<>> \/ resp'[q] = <<[status |-> step'[1].status, used |-> step'[1].used]>>
    BY <1>3 DEF Busying
  <2>6. parent'[q] = "idle" \/ (parent'[q] = "waiting" /\ q \notin seen') => Untouched(q)'
    BY <1>2
  <2>7. parent'[q] = "waiting" => file'[q] # "none"
    OBVIOUS
  <2>8. log'[q].requested = "valid" /\ log'[q].term = <<>> =>
          ctl' = "down" \/ Held(q)' \/ watch'[q] # "none" \/ Busy(q)' \/ q \in todo'
    OBVIOUS
  <2>9. log'[q].requested # "valid" => Attempts(q)' = 0
    BY <1>1
  <2>. QED BY <2>1, <2>2, <2>3, <2>4, <2>5, <2>6, <2>7, <2>8, <2>9
<1>5. Alive(q)'
  BY <1>1 DEF Stands, Alive
<1>6. Counted(q)'
  BY <1>1, <1>3 DEF Stands, Counted
<1>7. OneResponse(q)'
  BY DEF Stands, OneResponse
<1>8. Consuming(q)' = Consuming(q)
  BY <1>1 DEF Consuming
<1>9. Paid(q) => Paid(q)'
  BY <1>3, <1>8 DEF Paid, UsedBy
<1>. QED BY <1>4, <1>5, <1>6, <1>7, <1>8, <1>9 DEF Stands

LEMMA HeldWith ==
  ASSUME pending \in Seq(Requests), NEW r \in Requests, pending' = Append(pending, r)
  PROVE  /\ pending' \in Seq(Requests) /\ pending' # <<>>
         /\ \A q : Held(q)' <=> Held(q) \/ q = r
         /\ (\A i, j \in DOMAIN pending : pending[i] = pending[j] => i = j) /\ ~Held(r) =>
              \A i, j \in DOMAIN pending' : pending'[i] = pending'[j] => i = j
<1>1. /\ pending' \in Seq(Requests) /\ pending' # <<>> /\ Len(pending) \in Nat
      /\ DOMAIN pending = 1 .. Len(pending) /\ DOMAIN pending' = 1 .. (Len(pending) + 1)
      /\ \A i \in DOMAIN pending : pending'[i] = pending[i]
      /\ pending'[Len(pending) + 1] = r
  OBVIOUS
<1>2. \A i \in DOMAIN pending' : i \in DOMAIN pending \/ i = Len(pending) + 1
  BY <1>1
<1>3. DOMAIN pending \subseteq DOMAIN pending' /\ Len(pending) + 1 \in DOMAIN pending'
  BY <1>1
<1>4. \A q : Held(q)' <=> Held(q) \/ q = r
  BY <1>1, <1>2, <1>3 DEF Held
<1>5. ASSUME \A i, j \in DOMAIN pending : pending[i] = pending[j] => i = j, ~Held(r)
      PROVE  \A i, j \in DOMAIN pending' : pending'[i] = pending'[j] => i = j
  BY <1>1, <1>2, <1>5 DEF Held
<1>. QED BY <1>1, <1>4, <1>5

LEMMA HeldWithout ==
  ASSUME pending \in Seq(Requests), pending # <<>>, pending' = Tail(pending),
         \A i, j \in DOMAIN pending : pending[i] = pending[j] => i = j
  PROVE  /\ Head(pending) \in Requests /\ Held(Head(pending)) /\ pending' \in Seq(Requests)
         /\ \A q : Held(q)' <=> Held(q) /\ q # Head(pending)
         /\ \A i, j \in DOMAIN pending' : pending'[i] = pending'[j] => i = j
<1>1. /\ Head(pending) = pending[1] /\ Len(pending) \in Nat /\ 1 \in DOMAIN pending
      /\ DOMAIN pending = 1 .. Len(pending) /\ pending' \in Seq(Requests)
      /\ DOMAIN pending' = 1 .. (Len(pending) - 1)
      /\ \A i \in DOMAIN pending' : pending'[i] = pending[i + 1] /\ i + 1 \in DOMAIN pending
                                    /\ i + 1 # 1
  OBVIOUS
<1>2. \A i \in DOMAIN pending : i # 1 => i - 1 \in DOMAIN pending' /\ pending'[i - 1] = pending[i]
  BY <1>1
<1>3. Head(pending) \in Requests /\ Held(Head(pending))
  BY <1>1 DEF Held
<1>4. \A q : Held(q)' <=> Held(q) /\ q # Head(pending)
  <2>1. ASSUME NEW q, NEW i \in DOMAIN pending', pending'[i] = q
        PROVE  Held(q) /\ q # Head(pending)
    BY <1>1, <2>1 DEF Held
  <2>2. ASSUME NEW q, NEW i \in DOMAIN pending, pending[i] = q, q # Head(pending)
        PROVE  Held(q)'
    BY <1>1, <1>2, <2>2 DEF Held
  <2>. QED BY <2>1, <2>2 DEF Held
<1>5. \A i, j \in DOMAIN pending' : pending'[i] = pending'[j] => i = j
  <2> SUFFICES ASSUME NEW i \in DOMAIN pending', NEW j \in DOMAIN pending', pending'[i] = pending'[j]
               PROVE  i = j
    OBVIOUS
  <2>1. i + 1 = j + 1 /\ i \in Nat /\ j \in Nat
    BY <1>1
  <2>. QED BY <2>1
<1>. QED BY <1>1, <1>3, <1>4, <1>5

\* The step the controller is in the middle of.
LEMMA Steps ==
  ASSUME NEW s \in Stages, step' = <<s>>
  PROVE  /\ step' \in Seq(Stages) /\ Len(step') <= 1 /\ step' # <<>> /\ step'[1] = s
         /\ \A q : Busy(q)' <=> q = s.req
<1>1. step' \in Seq(Stages) /\ Len(step') <= 1 /\ step' # <<>> /\ step'[1] = s
  OBVIOUS
<1>. QED BY <1>1 DEF Busy

LEMMA StepDone ==
  ASSUME step' = <<>>
  PROVE  /\ step' \in Seq(Stages) /\ Len(step') <= 1
         /\ \A q : ~Busy(q)'
<1>1. step' \in Seq(Stages) /\ Len(step') <= 1
  OBVIOUS
<1>. QED BY <1>1 DEF Busy

LEMMA Idle ==
  ASSUME step = <<>>
  PROVE  \A q : ~Busy(q)
BY DEF Busy

LEMMA InStep ==
  ASSUME TypeOK, step # <<>>
  PROVE  /\ step[1] \in Stages /\ step[1].req \in Requests /\ Busy(step[1].req)
         /\ \A q : Busy(q) <=> q = step[1].req
<1>1. step[1] \in Stages
  BY DEF TypeOK
<1>. QED BY <1>1 DEF Stages, Busy

\* The stage of an answer.
LEMMA Responding ==
  ASSUME NEW r \in Requests, NEW status \in Statuses, NEW used \in Nat, NEW reused \in BOOLEAN,
         Respond(r, status, used, reused)
  PROVE  /\ step' \in Seq(Stages) /\ Len(step') <= 1 /\ step' # <<>>
         /\ step'[1].req = r /\ step'[1].at = "respond" /\ step'[1].status = status
         /\ step'[1].used = used /\ step'[1].reused = reused
         /\ \A q : Busy(q)' <=> q = r
<1>1. Stage(r, "respond", status, used, reused) \in Stages
  BY DEF Stage, Stages
<1>. QED BY <1>1, Steps DEF Respond, Stage

(***************************************************************************)
(* Steps that leave every request where it is.                             *)
(***************************************************************************)
\* The parent's side.
LEMMA AskSound ==
  ASSUME IInv, NEW r \in Requests, NEW form \in Forms, Ask(r, form)
  PROVE  IInv'
<1>1. /\ ctl = "running" /\ step = <<>> /\ parent[r] = "idle"
      /\ parent' = [parent EXCEPT ![r] = "waiting"] /\ file' = [file EXCEPT ![r] = form]
      /\ UNCHANGED <<resp, log, broken, proc, ctl, starts, todo, step, seen, pending, watch, mem,
                     cache, spent>>
  BY DEF Ask, volatile
<1>2. TypeOK /\ Sound /\ Stands(r) /\ form # "none" /\ form \in {"none"} \cup Forms
  BY DEF IInv, Forms
<1>3. /\ parent' \in [Requests -> {"idle", "waiting", "ended"}] /\ parent'[r] = "waiting"
      /\ file' \in [Requests -> {"none"} \cup Forms] /\ file'[r] = form
      /\ \A q \in Requests : q # r => parent'[q] = parent[q] /\ file'[q] = file[q]
  BY <1>1, <1>2 DEF TypeOK
<1>4. TypeOK'
  BY <1>1, <1>2, <1>3 DEF TypeOK
<1>5. Sound'
  BY <1>1, <1>2, <1>3 DEF Sound
<1>6. \A q : (Held(q)' <=> Held(q)) /\ (Busy(q)' <=> Busy(q))
  BY <1>1 DEF Held, Busy
<1>7. ASSUME NEW q \in Requests, q # r
      PROVE  Stands(q)'
  <2>1. Stands(q)
    BY DEF IInv
  <2>. QED BY <1>1, <1>3, <1>6, <1>7, <2>1, Same
<1>8. Stands(r)'
  <2>1. /\ Attempts(r)' = Attempts(r) /\ LastOut(r)' = LastOut(r) /\ Grant(r)' = Grant(r)
    BY <1>1 DEF Attempts, LastOut, Grant
  <2>2. /\ (Unanswered(r)' <=> Unanswered(r)) /\ (Settled(r)' <=> Settled(r)) /\ (Open(r)' <=> Open(r))
        /\ (Untouched(r) => Untouched(r)') /\ \A at : Busying(r, at)' <=> Busying(r, at)
    BY <1>1, <1>6, <2>1 DEF Unanswered, Settled, Open, Untouched, Busying
  <2>3. Untouched(r)
    BY <1>1, <1>2 DEF Stands, Flows
  <2>4. ~Held(r) /\ watch[r] = "none" /\ ~Busy(r) /\ \A at : ~Busying(r, at)
    BY <2>3 DEF Untouched, Busying
  <2>5. Flows(r)'
    BY <1>1, <1>2, <1>3, <1>6, <2>1, <2>2, <2>3, <2>4 DEF Stands, Flows
  <2>6. Alive(r)' /\ Counted(r)' /\ OneResponse(r)'
    BY <1>1, <1>2, <1>6, <2>1, <2>2 DEF Stands, Alive, Counted, OneResponse
  <2>. QED BY <2>5, <2>6 DEF Stands
<1>. QED BY <1>4, <1>5, <1>7, <1>8 DEF IInv

\* Only the controller's state or that of the parents changes.
LEMMA CtlSound ==
  ASSUME IInv, UNCHANGED <<files, proc, starts, volatile>>,
         ctl' \in {"running", "draining", "stopping", "finished"},
         ctl # "down" /\ (ctl \in {"recovering", "finished"} => todo = {}),
         ctl' = "finished" => step = <<>> /\ pending = <<>> /\ \A q \in Requests : watch[q] = "none",
         \/ UNCHANGED parent
         \/ /\ parent' \in [Requests -> {"idle", "waiting", "ended"}]
            /\ \A q \in Requests : parent'[q] \in {parent[q], "ended"},
         ctl' = "finished" => \A q \in Requests : parent'[q] # "waiting"
  PROVE  IInv'
<1>1. UNCHANGED <<file, resp, log, broken, proc, starts, todo, step, seen, pending, watch, mem,
                  cache, spent>>
  BY DEF files, volatile
<1>2. /\ parent' \in [Requests -> {"idle", "waiting", "ended"}]
      /\ \A q \in Requests : parent'[q] \in {parent[q], "ended"}
  BY DEF IInv, TypeOK
<1>3. TypeOK'
  BY <1>1, <1>2 DEF IInv, TypeOK
<1>4. Sound'
  BY <1>1, <1>2 DEF IInv, Sound
<1>5. \A q : (Held(q)' <=> Held(q)) /\ (Busy(q)' <=> Busy(q))
  BY <1>1 DEF Held, Busy
<1>6. ASSUME NEW q \in Requests
      PROVE  Stands(q)'
  <2>1. Stands(q)
    BY DEF IInv
  <2>. QED BY <1>1, <1>2, <1>5, <2>1, Same
<1>. QED BY <1>3, <1>4, <1>6 DEF IInv

LEMMA ParentEndsSound ==
  ASSUME IInv, NEW r \in Requests, ParentEnds(r)
  PROVE  IInv'
<1>1. /\ ctl \in {"running", "draining"} /\ ctl' = ctl
      /\ parent' = [parent EXCEPT ![r] = "ended"] /\ UNCHANGED <<files, proc, starts, volatile>>
  BY DEF ParentEnds
<1>2. /\ parent' \in [Requests -> {"idle", "waiting", "ended"}]
      /\ \A q \in Requests : parent'[q] \in {parent[q], "ended"}
  BY <1>1 DEF IInv, TypeOK
<1>. QED BY <1>1, <1>2, CtlSound

LEMMA DrainSound ==
  ASSUME IInv, BeginDrain \/ Drained \/ Interrupt
  PROVE  IInv'
BY CtlSound DEF BeginDrain, Drained, Interrupt

LEMMA RecoveredSound ==
  ASSUME IInv, Recovered
  PROVE  IInv'
BY CtlSound DEF Recovered

LEMMA FinishSound ==
  ASSUME IInv, Finish
  PROVE  IInv'
<1>1. /\ ctl = "stopping" /\ ctl' = "finished" /\ step = <<>> /\ Running = {} /\ pending = <<>>
      /\ parent' = [q \in Requests |-> IF parent[q] = "idle" THEN "idle" ELSE "ended"]
      /\ UNCHANGED <<files, proc, starts, volatile>>
  BY DEF Finish
<1>2. \A q \in Requests : watch[q] = "none"
  BY <1>1 DEF Running
<1>3. /\ parent' \in [Requests -> {"idle", "waiting", "ended"}]
      /\ \A q \in Requests : parent'[q] \in {parent[q], "ended"} /\ parent'[q] # "waiting"
  BY <1>1
<1>. QED BY <1>1, <1>2, <1>3, CtlSound

LEMMA CrashSound ==
  ASSUME IInv, Crash
  PROVE  IInv'
<1>1. /\ ctl' = "down" /\ todo' = {} /\ step' = <<>> /\ seen' = {} /\ pending' = <<>>
      /\ parent' = [q \in Requests |-> IF parent[q] = "idle" THEN "idle" ELSE "ended"]
      /\ watch' = [q \in Requests |-> "none"] /\ mem' = [q \in Requests |-> Fresh]
      /\ cache' = [p \in DOMAIN cache |-> <<>>] /\ spent' = 0
      /\ UNCHANGED <<file, resp, log, broken, proc, starts>>
  BY DEF Crash, files
<1>2. Fresh \in Memories
  BY DEF Fresh, NoRetries, Memories, Retries
<1>3. TypeOK'
  <2>1. /\ parent' \in [Requests -> {"idle", "waiting", "ended"}]
        /\ cache' \in [{Packet[r] : r \in Requests} -> Seq(Answers)]
        /\ mem' \in [Requests -> Memories] /\ watch' \in [Requests -> {"none", "own", "look", "pid"}]
    BY <1>1, <1>2 DEF IInv, TypeOK
  <2>2. pending' \in Seq(Requests) /\ step' \in Seq(Stages) /\ Len(step') <= 1
    BY <1>1
  <2>. QED BY <1>1, <2>1, <2>2 DEF IInv, TypeOK
<1>4. Sound'
  BY <1>1 DEF IInv, Sound
<1>5. ASSUME NEW r \in Requests
      PROVE  Stands(r)'
  <2>1. Stands(r) /\ TypeOK
    BY DEF IInv
  <2>2. /\ Attempts(r)' = Attempts(r) /\ LastOut(r)' = LastOut(r) /\ Grant(r)' = Grant(r)
    BY <1>1 DEF Attempts, LastOut, Grant
  <2>3. ~Held(r)' /\ ~Busy(r)' /\ \A at : ~Busying(r, at)'
    BY <1>1 DEF Held, Busy, Busying
  <2>4. parent'[r] = "idle" => Untouched(r)'
    BY <1>1, <2>1, <2>3 DEF Stands, Flows, Untouched
  <2>5. parent'[r] # "waiting" /\ r \notin todo' /\ watch'[r] = "none"
    BY <1>1
  <2>6. Flows(r)'
    BY <1>1, <2>1, <2>2, <2>3, <2>4, <2>5 DEF Stands, Flows
  <2>7. Alive(r)' /\ Counted(r)' /\ OneResponse(r)'
    BY <1>1, <2>1, <2>2, <2>3, <2>5 DEF Stands, Alive, Counted, OneResponse
  <2>. QED BY <2>6, <2>7 DEF Stands
<1>. QED BY <1>3, <1>4, <1>5 DEF IInv

LEMMA RestartSound ==
  ASSUME IInv, Restart
  PROVE  IInv'
<1>1. /\ ctl \in {"down", "finished"} /\ ctl' = "recovering" /\ starts' = starts + 1
      /\ todo' = Requests /\ step' = <<>> /\ seen' = {} /\ pending' = <<>>
      /\ watch' = [q \in Requests |-> "none"] /\ mem' = [q \in Requests |-> Fresh]
      /\ cache' = [p \in DOMAIN cache |-> <<>>] /\ spent' = 0
      /\ UNCHANGED <<parent, file, resp, log, broken, proc>>
  BY DEF Restart, files
<1>2. Fresh \in Memories
  BY DEF Fresh, NoRetries, Memories, Retries
<1>3. TypeOK'
  <2>1. /\ cache' \in [{Packet[r] : r \in Requests} -> Seq(Answers)] /\ starts' \in Nat
        /\ mem' \in [Requests -> Memories] /\ watch' \in [Requests -> {"none", "own", "look", "pid"}]
    BY <1>1, <1>2 DEF IInv, TypeOK
  <2>2. pending' \in Seq(Requests) /\ step' \in Seq(Stages) /\ Len(step') <= 1
    BY <1>1
  <2>. QED BY <1>1, <2>1, <2>2 DEF IInv, TypeOK
<1>4. Sound'
  <2>1. starts' # 0
    BY <1>1 DEF IInv, TypeOK
  <2>. QED BY <1>1, <2>1 DEF IInv, Sound
<1>5. ASSUME NEW r \in Requests
      PROVE  Stands(r)'
  <2>1. Stands(r) /\ TypeOK /\ parent[r] # "waiting"
    BY <1>1 DEF IInv, Sound
  <2>2. /\ Attempts(r)' = Attempts(r) /\ LastOut(r)' = LastOut(r) /\ Grant(r)' = Grant(r) + 1
    <3>1. /\ starts \in Nat /\ log[r].retries["transient"] \in Nat
          /\ log[r].retries["protocol"] \in Nat
      BY <2>1, Facts
    <3>. QED BY <1>1, <3>1 DEF Attempts, LastOut, Grant
  <2>3. ~Held(r)' /\ ~Busy(r)' /\ \A at : ~Busying(r, at)'
    BY <1>1 DEF Held, Busy, Busying
  <2>4. parent'[r] = "idle" => Untouched(r)'
    BY <1>1, <2>1, <2>3 DEF Stands, Flows, Untouched
  <2>5. parent'[r] # "waiting" /\ r \in todo' /\ watch'[r] = "none"
    BY <1>1, <2>1
  <2>6. Flows(r)'
    BY <1>1, <2>1, <2>2, <2>3, <2>4, <2>5 DEF Stands, Flows
  <2>7. Counted(r)'
    <3>1. Attempts(r) \in Nat /\ Grant(r) \in Nat
      BY <2>1, Facts
    <3>. QED BY <1>1, <2>1, <2>2, <2>3, <2>5, <3>1 DEF Stands, Counted
  <2>8. Alive(r)' /\ OneResponse(r)'
    BY <1>1, <2>1, <2>2 DEF Stands, Alive, OneResponse
  <2>. QED BY <2>6, <2>7, <2>8 DEF Stands
<1>. QED BY <1>3, <1>4, <1>5 DEF IInv

\* A runner process starts, ends or dies.
LEMMA ProcessSound ==
  ASSUME IInv, NEW r \in Requests, NEW a \in 1 .. Len(proc[r]), NEW x \in Processes,
         proc' = [proc EXCEPT ![r][a] = x],
         x = "running" => a = Attempts(r) /\ watch[r] # "none",
         UNCHANGED <<parent, files, ctl, starts, volatile>>
  PROVE  IInv'
<1>1. UNCHANGED <<parent, file, resp, log, broken, ctl, starts, todo, step, seen, pending, watch,
                  mem, cache, spent>>
  BY DEF files, volatile
<1>2. TypeOK /\ Stands(r) /\ proc[r] \in Seq(Processes)
  BY Facts DEF IInv
<1>3. [proc[r] EXCEPT ![a] = x] \in Seq(Processes)
  BY <1>2
<1>4. /\ proc' \in [Requests -> Seq(Processes)] /\ proc'[r] = [proc[r] EXCEPT ![a] = x]
      /\ \A q \in Requests : q # r => proc'[q] = proc[q]
  BY <1>2, <1>3 DEF TypeOK
<1>5. Len(proc'[r]) = Len(proc[r]) /\ \A b \in 1 .. Len(proc[r]) : proc'[r][b] = IF b = a THEN x ELSE proc[r][b]
  BY <1>2, <1>4
<1>6. TypeOK'
  BY <1>1, <1>2, <1>4 DEF TypeOK
<1>7. Sound'
  BY <1>1 DEF IInv, Sound
<1>8. \A q : (Held(q)' <=> Held(q)) /\ (Busy(q)' <=> Busy(q))
  BY <1>1 DEF Held, Busy
<1>9. ASSUME NEW q \in Requests, q # r
      PROVE  Stands(q)'
  <2>1. Stands(q)
    BY DEF IInv
  <2>. QED BY <1>1, <1>4, <1>8, <1>9, <2>1, Same
<1>10. Alive(r)'
  <2>1. Attempts(r)' = Attempts(r) /\ LastOut(r)' = LastOut(r) /\ Len(proc[r]) = Attempts(r)
    BY <1>1, <1>2 DEF Attempts, LastOut, Stands, Alive
  <2>2. watch[r] # "none" => LastOut(r) = "open"
    BY <1>2 DEF Stands, Flows, Open, LastOut
  <2>. QED BY <1>2, <1>5, <2>1, <2>2 DEF Stands, Alive
<1>11. Flows(r)' /\ Counted(r)' /\ OneResponse(r)'
  <2>1. /\ Attempts(r)' = Attempts(r) /\ LastOut(r)' = LastOut(r) /\ Grant(r)' = Grant(r)
    BY <1>1 DEF Attempts, LastOut, Grant
  <2>2. /\ (Unanswered(r)' <=> Unanswered(r)) /\ (Settled(r)' <=> Settled(r)) /\ (Open(r)' <=> Open(r))
        /\ (Untouched(r)' <=> Untouched(r)) /\ \A at : Busying(r, at)' <=> Busying(r, at)
    BY <1>1, <1>8, <2>1 DEF Unanswered, Settled, Open, Untouched, Busying
  <2>. QED BY <1>1, <1>2, <1>8, <2>1, <2>2 DEF Stands, Flows, Counted, OneResponse
<1>. QED BY <1>6, <1>7, <1>9, <1>10, <1>11 DEF IInv, Stands

LEMMA SpawnSound ==
  ASSUME IInv, NEW r \in Requests, Spawn(r)
  PROVE  IInv'
<1>1. /\ watch[r] # "none" /\ proc' = [proc EXCEPT ![r][Attempts(r)] = "running"]
      /\ UNCHANGED <<parent, files, ctl, starts, volatile>>
  BY DEF Spawn
<1>2. Stands(r) /\ Attempts(r) \in Nat
  BY Facts DEF IInv
<1>3. Attempts(r) \in 1 .. Len(proc[r]) /\ "running" \in Processes
  BY <1>1, <1>2 DEF Stands, Flows, Alive, Open, Processes
<1>. QED BY <1>1, <1>3, ProcessSound

LEMMA WorkerSound ==
  ASSUME IInv, NEW r \in Requests, NEW a \in 1 .. Len(proc[r]),
         WorkerDies(r, a) \/ \E o \in Outcomes : WorkerFinishes(r, a, o)
  PROVE  IInv'
<1>1. PICK x \in Processes \ {"running"} : proc' = [proc EXCEPT ![r][a] = x]
  BY Constants DEF WorkerDies, WorkerFinishes, Processes, WorkerOutcomes
<1>2. UNCHANGED <<parent, files, ctl, starts, volatile>>
  BY DEF WorkerDies, WorkerFinishes
<1>. QED BY <1>1, <1>2, ProcessSound

(***************************************************************************)
(* Terminal responses.                                                     *)
(***************************************************************************)
\* Where a request stands when it is being answered.
LEMMA Answering ==
  ASSUME NEW r \in Requests, NEW status \in Statuses, NEW used \in Nat, NEW reused \in BOOLEAN,
         Respond(r, status, used, reused), ~Held(r)', watch'[r] = "none", r \notin todo',
         log'[r].term = <<>>,
         resp'[r] = <<>> \/ resp'[r] = <<[status |-> status, used |-> used]>>,
         parent'[r] # "idle", parent'[r] = "waiting" => r \in seen' /\ file'[r] # "none",
         log'[r].requested # "valid" => Attempts(r)' = 0
  PROVE  Flows(r)'
<1>1. /\ step' # <<>> /\ step'[1].req = r /\ step'[1].at = "respond" /\ step'[1].status = status
      /\ step'[1].used = used /\ \A q : Busy(q)' <=> q = r
  BY Responding
<1>2. ~Busying(r, "settle")' /\ Busying(r, "respond")'
  BY <1>1 DEF Busying
<1>. QED BY <1>1, <1>2 DEF Flows

LEMMA WriteSound ==
  ASSUME IInv, WriteResponse
  PROVE  IInv' /\ KeepsAnswers
<1>1. PICK s \in Stages : s = step[1]
  BY InStep DEF IInv, WriteResponse
<1>2. PICK r \in Requests : r = s.req
  BY <1>1 DEF Stages
<1>3. PICK a \in Answers : a = [status |-> s.status, used |-> s.used]
  <2>1. s.status \in Statuses /\ s.used \in Nat
    BY DEF Stages
  <2>. QED BY <2>1 DEF Answers
<1>4. /\ step # <<>> /\ s.at = "respond"
      /\ resp' = [resp EXCEPT ![r] = <<a>>] /\ cache' = [cache EXCEPT ![Packet[r]] = <<a>>]
      /\ step' = <<[s EXCEPT !.at = "record"]>>
      /\ UNCHANGED <<parent, file, log, broken, proc, ctl, starts, todo, seen, pending, watch,
                     mem, spent>>
  BY <1>1, <1>2, <1>3 DEF WriteResponse
<1>5. TypeOK /\ Sound /\ Stands(r) /\ Busying(r, "respond") /\ Busy(r)
      /\ \A q : Busy(q) <=> q = r
  BY <1>1, <1>2, <1>4, InStep DEF IInv, Busying
<1>6. [s EXCEPT !.at = "record"] \in Stages /\ [s EXCEPT !.at = "record"].req = r
      /\ [s EXCEPT !.at = "record"].at = "record"
  BY <1>2 DEF Stages
<1>7. /\ step' \in Seq(Stages) /\ Len(step') <= 1 /\ step' # <<>> /\ step'[1].at = "record"
      /\ \A q : Busy(q)' <=> q = r
  BY <1>4, <1>6, Steps
<1>8. /\ resp' \in [Requests -> Seq(Answers)] /\ resp'[r] = <<a>>
      /\ \A q \in Requests : q # r => resp'[q] = resp[q]
      /\ cache' \in [{Packet[q] : q \in Requests} -> Seq(Answers)]
  <2>1. <<a>> \in Seq(Answers)
    OBVIOUS
  <2>. QED BY <1>4, <1>5, <2>1 DEF TypeOK
<1>9. TypeOK'
  BY <1>4, <1>5, <1>7, <1>8 DEF TypeOK
<1>10. Sound'
  BY <1>4, <1>5 DEF Sound
<1>11. \A q : Held(q)' <=> Held(q)
  BY <1>4 DEF Held
<1>12. ASSUME NEW q \in Requests, q # r
       PROVE  Stands(q)'
  <2>1. Stands(q)
    BY DEF IInv
  <2>. QED BY <1>4, <1>5, <1>7, <1>8, <1>11, <1>12, <2>1, Same
<1>13. ~Held(r) /\ watch[r] = "none" /\ r \notin todo /\ log[r].term = <<>> /\ parent[r] # "idle"
       /\ ~(parent[r] = "waiting" /\ r \notin seen)
  BY <1>5 DEF Stands, Flows, Untouched
<1>14. Attempts(r)' = Attempts(r) /\ LastOut(r)' = LastOut(r) /\ Grant(r)' = Grant(r)
  BY <1>4 DEF Attempts, LastOut, Grant
<1>15. ~Busying(r, "settle")' /\ ~Busying(r, "respond")'
  BY <1>7 DEF Busying
<1>16. Flows(r)'
  BY <1>4, <1>5, <1>7, <1>11, <1>13, <1>14, <1>15 DEF Stands, Flows
<1>17. Alive(r)' /\ Counted(r)' /\ OneResponse(r)'
  BY <1>4, <1>5, <1>8, <1>11, <1>13, <1>14, <1>15 DEF Stands, Alive, Counted, OneResponse
<1>18. KeepsAnswers
  <2>1. resp[r] # <<>> => resp[r] = <<a>>
    BY <1>1, <1>3, <1>5 DEF Stands, Flows
  <2>. QED BY <1>8, <2>1 DEF KeepsAnswers
<1>. QED BY <1>9, <1>10, <1>12, <1>16, <1>17, <1>18 DEF IInv, Stands

\* The log of one request changes.
LEMMA NewLog ==
  ASSUME TypeOK, NEW r \in Requests, NEW l \in Logs, log' = [log EXCEPT ![r] = l]
  PROVE  /\ log' \in [Requests -> Logs] /\ log'[r] = l
         /\ \A q \in Requests : q # r => log'[q] = log[q]
BY DEF TypeOK

LEMMA NewMem ==
  ASSUME TypeOK, NEW r \in Requests, NEW m \in Memories, mem' = [mem EXCEPT ![r] = m]
  PROVE  /\ mem' \in [Requests -> Memories] /\ mem'[r] = m
         /\ \A q \in Requests : q # r => mem'[q] = mem[q]
BY DEF TypeOK

LEMMA NewWatch ==
  ASSUME TypeOK, NEW r \in Requests, NEW w \in {"none", "own", "look", "pid"},
         watch' = [watch EXCEPT ![r] = w]
  PROVE  /\ watch' \in [Requests -> {"none", "own", "look", "pid"}] /\ watch'[r] = w
         /\ \A q \in Requests : q # r => watch'[q] = watch[q]
BY DEF TypeOK

LEMMA RecordSound ==
  ASSUME IInv, RecordTerminal
  PROVE  IInv'
<1>1. PICK s \in Stages : s = step[1]
  BY InStep DEF IInv, RecordTerminal
<1>2. PICK r \in Requests : r = s.req
  BY <1>1 DEF Stages
<1>3. PICK t \in Terminal : t = [status |-> s.status, used |-> s.used, reused |-> s.reused]
  <2>1. s.status \in Statuses /\ s.used \in Nat /\ s.reused \in BOOLEAN
    BY DEF Stages
  <2>. QED BY <2>1 DEF Terminal
<1>4. /\ step # <<>> /\ ctl' \in {ctl, "draining"} /\ (ctl' # ctl => ctl = "running")
      /\ log' = [log EXCEPT ![r].term = Append(@, t)]
      /\ mem' = [mem EXCEPT ![r] = Fresh] /\ step' = <<>>
      /\ UNCHANGED <<parent, file, resp, broken, proc, starts, todo, seen, pending, watch,
                     cache, spent>>
  BY <1>1, <1>2, <1>3 DEF RecordTerminal, QuotaPause
<1>5. TypeOK /\ Sound /\ Stands(r) /\ Busy(r) /\ \A q : Busy(q) <=> q = r
  BY <1>1, <1>2, <1>4, InStep DEF IInv
<1> DEFINE l == [log[r] EXCEPT !.term = Append(@, t)]
<1>6. log[r].term = <<>> /\ log[r] \in Logs /\ log \in [Requests -> Logs]
  BY <1>5, Facts DEF Stands, Flows, TypeOK
<1>7. /\ l \in Logs /\ l.term = <<t>> /\ l.att = log[r].att /\ l.requested = log[r].requested
      /\ l.term # <<>> /\ Len(l.term) <= 1 /\ l.fallback = log[r].fallback /\ l.retries = log[r].retries
  <2>1. Append(<<>>, t) = <<t>> /\ <<t>> \in Seq(Terminal) /\ <<t>> # <<>> /\ Len(<<t>>) <= 1
    OBVIOUS
  <2>. QED BY <1>6, <2>1 DEF Logs
<1>8. log' = [log EXCEPT ![r] = l]
  BY <1>4, <1>6
<1> HIDE DEF l
<1>9. log' \in [Requests -> Logs] /\ log'[r] = l /\ \A q \in Requests : q # r => log'[q] = log[q]
  BY <1>5, <1>7, <1>8, NewLog
<1>10. Fresh \in Memories
  BY DEF Fresh, NoRetries, Memories, Retries
<1>11. mem' \in [Requests -> Memories] /\ \A q \in Requests : q # r => mem'[q] = mem[q]
  BY <1>4, <1>5, <1>10, NewMem
<1>12. step' \in Seq(Stages) /\ Len(step') <= 1 /\ \A q : ~Busy(q)'
  BY <1>4, StepDone
<1>13. TypeOK'
  BY <1>4, <1>5, <1>9, <1>11, <1>12 DEF TypeOK
<1>14. Sound'
  BY <1>4, <1>5 DEF Sound
<1>15. \A q : Held(q)' <=> Held(q)
  BY <1>4 DEF Held
<1>16. ASSUME NEW q \in Requests, q # r
       PROVE  Stands(q)'
  <2>1. Stands(q)
    BY DEF IInv
  <2>. QED BY <1>4, <1>5, <1>9, <1>11, <1>12, <1>15, <1>16, <2>1, Same
<1>17. ~Held(r) /\ watch[r] = "none" /\ r \notin todo /\ parent[r] # "idle"
       /\ ~(parent[r] = "waiting" /\ r \notin seen)
  BY <1>5 DEF Stands, Flows, Untouched
<1>18. Attempts(r)' = Attempts(r) /\ LastOut(r)' = LastOut(r) /\ Grant(r)' = Grant(r)
  BY <1>4, <1>7, <1>9 DEF Attempts, LastOut, Grant
<1>19. ~Busying(r, "settle")' /\ ~Busying(r, "respond")' /\ log'[r].term # <<>>
       /\ Len(log'[r].term) <= 1
  BY <1>7, <1>9, <1>12 DEF Busying
<1>20. Flows(r)'
  BY <1>4, <1>5, <1>7, <1>9, <1>12, <1>15, <1>17, <1>18, <1>19 DEF Stands, Flows
<1>21. Alive(r)' /\ OneResponse(r)'
  BY <1>4, <1>5, <1>7, <1>9, <1>18, <1>19 DEF Stands, Alive, OneResponse
<1>22. Counted(r)'
  BY <1>4, <1>5, <1>7, <1>9, <1>15, <1>17, <1>18, <1>19 DEF Stands, Counted
<1>. QED BY <1>13, <1>14, <1>16, <1>20, <1>21, <1>22 DEF IInv, Stands

(***************************************************************************)
(* The queue.                                                              *)
(***************************************************************************)
LEMMA PollSound ==
  ASSUME IInv, NEW r \in Requests, PollRequest(r)
  PROVE  IInv'
<1>1. /\ ctl \in {"running", "draining"} /\ step = <<>> /\ parent[r] = "waiting" /\ r \notin seen
      /\ seen' = seen \cup {r} /\ log' = [log EXCEPT ![r].requested = file[r]]
      /\ UNCHANGED <<parent, file, resp, broken, proc, ctl, starts, todo, watch, mem, cache, spent>>
  BY DEF PollRequest
<1>2. TypeOK /\ Sound /\ Stands(r) /\ file[r] \in Forms
  BY <1>1 DEF IInv, Stands, Flows, TypeOK, Forms
<1>3. Untouched(r) /\ todo = {}
  BY <1>1, <1>2 DEF Stands, Flows, Sound
<1>4. /\ log[r] \in Logs /\ log \in [Requests -> Logs] /\ log[r].att = <<>> /\ log[r].term = <<>>
      /\ resp[r] = <<>> /\ ~Held(r) /\ watch[r] = "none" /\ Attempts(r) = 0
      /\ mem[r].fallback = log[r].fallback /\ mem[r].retries = log[r].retries
  <2>1. log[r] \in Logs /\ log \in [Requests -> Logs]
    BY <1>2 DEF TypeOK
  <2>2. log[r] = NoEvents /\ mem[r] = Fresh /\ resp[r] = <<>> /\ ~Held(r) /\ watch[r] = "none"
    BY <1>3 DEF Untouched
  <2>3. NoEvents.att = <<>> /\ NoEvents.term = <<>> /\ Fresh.fallback = NoEvents.fallback
        /\ Fresh.retries = NoEvents.retries
    BY DEF NoEvents, Fresh
  <2>. QED BY <2>1, <2>2, <2>3 DEF Attempts
<1> DEFINE l == [log[r] EXCEPT !.requested = file[r]]
<1>5. /\ l \in Logs /\ l.term = <<>> /\ l.att = log[r].att /\ l.requested = file[r]
      /\ l.fallback = log[r].fallback /\ l.retries = log[r].retries
      /\ log' = [log EXCEPT ![r] = l]
  BY <1>1, <1>2, <1>4 DEF Logs
<1> HIDE DEF l
<1>6. log' \in [Requests -> Logs] /\ log'[r] = l /\ \A q \in Requests : q # r => log'[q] = log[q]
  BY <1>2, <1>5, NewLog
<1>7. Attempts(r)' = 0 /\ Grant(r)' = Grant(r) /\ \A q : ~Busy(q)
  BY <1>1, <1>4, <1>5, <1>6, Idle DEF Attempts, Grant
<1>8. Alive(r)' /\ OneResponse(r)' /\ Len(log'[r].term) <= 1
  BY <1>1, <1>2, <1>4, <1>5, <1>6, <1>7 DEF Stands, Alive, OneResponse
<1>9. 0 < Grant(r) /\ 0 <= Grant(r)
  <2>1. starts \in Nat /\ starts # 0 /\ \A c \in {"transient", "protocol"} : log[r].retries[c] \in Nat
    BY <1>2, Facts DEF Sound
  <2>. QED BY <2>1 DEF Grant
<1>10. /\ \A c \in {"transient", "protocol"} : log'[r].retries[c] <= mem'[r].retries[c]
       /\ mem'[r].fallback = log'[r].fallback
       /\ log'[r].retries["transient"] <= TransientRetries
       /\ log'[r].retries["protocol"] <= ProtocolRetries
  <2>1. \A c \in {"transient", "protocol"} : log[r].retries[c] \in Nat
    BY <1>2, Facts
  <2>. QED BY <1>1, <1>2, <1>4, <1>5, <1>6, <2>1 DEF Stands, Counted
<1>11. CASE UNCHANGED pending /\ \E status \in Statuses, used \in Nat, reused \in BOOLEAN :
              Respond(r, status, used, reused)
  <2>1. PICK status \in Statuses, used \in Nat, reused \in BOOLEAN :
          Respond(r, status, used, reused)
    BY <1>11
  <2>2. /\ step' \in Seq(Stages) /\ Len(step') <= 1 /\ \A q : Busy(q)' <=> q = r
    BY <2>1, Responding
  <2>3. \A q : Held(q)' <=> Held(q)
    BY <1>11 DEF Held
  <2>4. TypeOK'
    BY <1>1, <1>2, <1>6, <1>11, <2>2 DEF TypeOK
  <2>5. Sound'
    BY <1>1, <1>2, <1>3, <1>11 DEF Sound
  <2>6. ASSUME NEW q \in Requests, q # r
        PROVE  Stands(q)'
    <3>1. Stands(q)
      BY DEF IInv
    <3>. QED BY <1>1, <1>6, <1>7, <2>2, <2>3, <2>6, <3>1, Same
  <2>7. Flows(r)'
    <3>1. log'[r].term = <<>> /\ resp'[r] = <<>> /\ ~Held(r)' /\ watch'[r] = "none" /\ r \notin todo'
      BY <1>1, <1>3, <1>4, <1>5, <1>6, <2>3
    <3>2. parent'[r] = "waiting" /\ r \in seen' /\ file'[r] # "none"
      BY <1>1, <1>2 DEF Forms
    <3>. QED BY <1>7, <2>1, <3>1, <3>2, Answering
  <2>8. Counted(r)'
    <3>1. ~Held(r)' /\ watch'[r] = "none" /\ r \notin todo'
      BY <1>1, <1>3, <1>4, <2>3
    <3>. QED BY <1>7, <1>9, <1>10, <3>1 DEF Counted
  <2>. QED BY <1>8, <2>4, <2>5, <2>6, <2>7, <2>8 DEF IInv, Stands
<1>12. CASE file[r] = "valid" /\ pending' = Append(pending, r) /\ UNCHANGED step
  <2>1. /\ pending' \in Seq(Requests) /\ pending' # <<>> /\ \A q : Held(q)' <=> Held(q) \/ q = r
        /\ \A i, j \in DOMAIN pending' : pending'[i] = pending'[j] => i = j
    BY <1>2, <1>4, <1>12, HeldWith DEF TypeOK, Sound
  <2>2. \A q : ~Busy(q)'
    BY <1>1, <1>12, StepDone
  <2>3. TypeOK'
    BY <1>1, <1>2, <1>6, <1>12, <2>1 DEF TypeOK
  <2>4. Sound'
    BY <1>1, <1>2, <1>3, <1>12, <2>1 DEF Sound
  <2>5. ASSUME NEW q \in Requests, q # r
        PROVE  Stands(q)'
    <3>1. Stands(q)
      BY DEF IInv
    <3>. QED BY <1>1, <1>6, <1>7, <2>1, <2>2, <2>5, <3>1, Same
  <2>6. Unanswered(r)' /\ Settled(r)' /\ \A at : ~Busying(r, at)'
    BY <1>1, <1>4, <1>5, <1>6, <1>7, <1>12, <2>2 DEF Unanswered, Settled, Busying
  <2>7. Flows(r)'
    <3>1. Held(r)' /\ watch'[r] = "none" /\ r \notin todo' /\ r \in seen' /\ parent'[r] = "waiting"
          /\ file'[r] # "none" /\ log'[r].requested = "valid"
      BY <1>1, <1>3, <1>4, <1>5, <1>6, <1>12, <2>1
    <3>. QED BY <2>2, <2>6, <3>1 DEF Flows
  <2>8. Counted(r)'
    BY <1>7, <1>9, <1>10 DEF Counted
  <2>. QED BY <1>8, <2>3, <2>4, <2>5, <2>7, <2>8 DEF IInv, Stands
<1>13. "rejected" \in Statuses /\ 0 \in Nat
  BY DEF Statuses
<1>14. ASSUME cache[Packet[r]] # <<>>
       PROVE  cache[Packet[r]][1].status \in Statuses /\ cache[Packet[r]][1].used \in Nat
  <2>1. cache[Packet[r]] \in Seq(Answers)
    BY <1>2 DEF TypeOK
  <2>2. cache[Packet[r]][1] \in Answers
    BY <1>14, <2>1
  <2>. QED BY <2>2 DEF Answers
<1>. QED BY <1>2, <1>11, <1>12, <1>13, <1>14 DEF PollRequest, Reuse, Forms

\* A request at the head of the queue: where it stands.
LEMMA AtHead ==
  ASSUME IInv, NEW r \in Requests, pending # <<>>, r = Head(pending), pending' = Tail(pending)
  PROVE  /\ Held(r) /\ watch[r] = "none" /\ r \notin todo /\ ~Busy(r) /\ Unanswered(r) /\ Settled(r)
         /\ parent[r] # "idle" /\ (parent[r] = "waiting" => r \in seen /\ file[r] # "none")
         /\ ctl \notin {"down", "finished"}
         /\ pending' \in Seq(Requests) /\ \A q : Held(q)' <=> Held(q) /\ q # r
         /\ \A i, j \in DOMAIN pending' : pending'[i] = pending'[j] => i = j
<1>1. TypeOK /\ Sound /\ Stands(r) /\ pending \in Seq(Requests)
  BY DEF IInv, TypeOK
<1>2. /\ Held(r) /\ pending' \in Seq(Requests) /\ \A q : Held(q)' <=> Held(q) /\ q # r
      /\ \A i, j \in DOMAIN pending' : pending'[i] = pending'[j] => i = j
  BY <1>1, HeldWithout DEF Sound
<1>3. watch[r] = "none" /\ r \notin todo /\ ~Busy(r) /\ Unanswered(r) /\ Settled(r)
  BY <1>1, <1>2 DEF Stands, Flows
<1>4. parent[r] # "idle" /\ (parent[r] = "waiting" => r \in seen /\ file[r] # "none")
  BY <1>1, <1>2 DEF Stands, Flows, Untouched
<1>5. ctl \notin {"down", "finished"}
  BY <1>1 DEF Sound
<1>. QED BY <1>2, <1>3, <1>4, <1>5

LEMMA RejectSound ==
  ASSUME IInv, NEW r \in Requests, step = <<>>, pending # <<>>, r = Head(pending),
         pending' = Tail(pending), NEW status \in Statuses, Respond(r, status, mem[r].used, FALSE),
         UNCHANGED <<parent, file, resp, log, broken, proc, ctl, starts, todo, seen, watch, mem,
                     cache, spent>>
  PROVE  IInv'
<1>1. TypeOK /\ Sound /\ Stands(r) /\ mem[r].used \in Nat
  BY Facts DEF IInv
<1>2. step' \in Seq(Stages) /\ Len(step') <= 1 /\ \A q : (Busy(q)' <=> q = r) /\ ~Busy(q)
  BY <1>1, Responding, Idle
<1>3. /\ watch[r] = "none" /\ r \notin todo /\ Unanswered(r)
      /\ parent[r] # "idle" /\ (parent[r] = "waiting" => r \in seen /\ file[r] # "none")
      /\ ctl \notin {"down", "finished"}
      /\ pending' \in Seq(Requests) /\ \A q : Held(q)' <=> Held(q) /\ q # r
      /\ \A i, j \in DOMAIN pending' : pending'[i] = pending'[j] => i = j
  BY AtHead
<1>4. TypeOK'
  BY <1>1, <1>2, <1>3 DEF TypeOK
<1>5. Sound'
  BY <1>1, <1>3 DEF Sound
<1>6. ASSUME NEW q \in Requests, q # r
      PROVE  Stands(q)'
  <2>1. Stands(q)
    BY DEF IInv
  <2>. QED BY <1>2, <1>3, <1>6, <2>1, Same
<1>7. Attempts(r)' = Attempts(r) /\ LastOut(r)' = LastOut(r) /\ Grant(r)' = Grant(r)
  BY DEF Attempts, LastOut, Grant
<1>8. Flows(r)'
  <2>1. log'[r].term = <<>> /\ resp'[r] = <<>> /\ log'[r].requested = "valid"
    BY <1>3 DEF Unanswered
  <2>2. ~Held(r)' /\ watch'[r] = "none" /\ r \notin todo'
    BY <1>3
  <2>. QED BY <1>1, <1>3, <2>1, <2>2, Answering
<1>9. Alive(r)' /\ OneResponse(r)'
  BY <1>1, <1>7 DEF Stands, Alive, OneResponse
<1>10. Counted(r)'
  <2>1. ~Busying(r, "settle")' /\ ~Held(r)' /\ watch'[r] = "none" /\ r \notin todo'
    BY <1>1, <1>3, Responding DEF Busying
  <2>. QED BY <1>1, <1>7, <2>1 DEF Stands, Counted
<1>. QED BY <1>4, <1>5, <1>6, <1>8, <1>9, <1>10 DEF IInv, Stands

LEMMA RejectPendingSound ==
  ASSUME IInv, RejectPending
  PROVE  IInv'
<1>1. PICK r \in Requests : r = Head(pending)
  BY DEF RejectPending, IInv, TypeOK
<1>2. "stopped" \in Statuses
  BY DEF Statuses
<1>. QED BY <1>1, <1>2, RejectSound DEF RejectPending, files

LEMMA LaunchSound ==
  ASSUME IInv, NEW r \in Requests, Launch(r)
  PROVE  IInv'
<1>1. /\ step = <<>> /\ pending # <<>> /\ r = Head(pending) /\ pending' = Tail(pending)
      /\ UNCHANGED <<parent, file, resp, broken, ctl, starts, todo, seen, mem, cache, spent>>
  BY DEF Launch
<1>2. TypeOK /\ Sound /\ Stands(r) /\ "rejected" \in Statuses
  BY DEF IInv, Statuses
<1>3. CASE Respond(r, "rejected", mem[r].used, FALSE) /\ UNCHANGED <<log, proc, watch>>
  BY <1>1, <1>2, <1>3, RejectSound
<1>4. CASE /\ log' = [log EXCEPT ![r].att = Append(@,
                        [route |-> IF mem[r].fallback THEN "fallback" ELSE "primary", out |-> "open"])]
           /\ proc' = [proc EXCEPT ![r] = Append(@, "unborn")]
           /\ watch' = [watch EXCEPT ![r] = "own"]
           /\ UNCHANGED step
  <2>1. /\ Held(r) /\ watch[r] = "none" /\ r \notin todo /\ Unanswered(r) /\ Settled(r)
        /\ parent[r] # "idle" /\ (parent[r] = "waiting" => r \in seen /\ file[r] # "none")
        /\ ctl \notin {"down", "finished"}
        /\ pending' \in Seq(Requests) /\ \A q : Held(q)' <=> Held(q) /\ q # r
        /\ \A i, j \in DOMAIN pending' : pending'[i] = pending'[j] => i = j
    BY <1>1, AtHead
  <2>2. PICK a \in Attempt : /\ a = [route |-> IF mem[r].fallback THEN "fallback" ELSE "primary",
                                     out |-> "open"]
                             /\ a.out = "open"
    <3>1. PICK route \in {"primary", "fallback"} :
            route = IF mem[r].fallback THEN "fallback" ELSE "primary"
      OBVIOUS
    <3>2. [route |-> route, out |-> "open"] \in Attempt /\ [route |-> route, out |-> "open"].out = "open"
      BY DEF Attempt
    <3>. QED BY <3>1, <3>2
  <2> DEFINE l == [log[r] EXCEPT !.att = Append(@, a)]
  <2>3. log[r] \in Logs /\ log \in [Requests -> Logs] /\ log[r].att \in Seq(Attempt)
    BY <1>2, Facts DEF TypeOK
  <2>4. Append(log[r].att, a) \in Seq(Attempt)
    BY <2>3
  <2>5. /\ l \in Logs /\ l.att = Append(log[r].att, a) /\ l.requested = log[r].requested
        /\ l.term = log[r].term /\ l.fallback = log[r].fallback /\ l.retries = log[r].retries
        /\ log' = [log EXCEPT ![r] = l]
    BY <1>4, <2>2, <2>3, <2>4 DEF Logs
  <2> HIDE DEF l
  <2>6. log' \in [Requests -> Logs] /\ log'[r] = l /\ \A q \in Requests : q # r => log'[q] = log[q]
    BY <1>2, <2>5, NewLog
  <2>7. /\ Attempts(r) \in Nat /\ Attempts(r)' = Attempts(r) + 1 /\ LastOut(r)' = "open"
        /\ Grant(r)' = Grant(r) /\ Grant(r) \in Nat
    <3>1. Attempts(r) \in Nat /\ Grant(r) \in Nat
      BY <1>2, Facts
    <3>2. Attempts(r)' = Attempts(r) + 1 /\ Len(l.att) = Attempts(r) + 1
      BY <2>3, <2>5, <2>6 DEF Attempts
    <3>3. l.att[Attempts(r) + 1] = a
      BY <2>3, <2>5 DEF Attempts
    <3>4. LastOut(r)' = "open"
      BY <2>2, <2>6, <3>2, <3>3 DEF LastOut
    <3>5. Grant(r)' = Grant(r)
      BY <1>1, <2>5, <2>6 DEF Grant
    <3>. QED BY <3>1, <3>2, <3>4, <3>5
  <2>8. /\ proc' \in [Requests -> Seq(Processes)] /\ Len(proc'[r]) = Attempts(r) + 1
        /\ proc'[r][Attempts(r) + 1] = "unborn"
        /\ \A b \in 1 .. Attempts(r) : proc'[r][b] = proc[r][b]
        /\ \A q \in Requests : q # r => proc'[q] = proc[q]
    <3>1. proc[r] \in Seq(Processes) /\ Len(proc[r]) = Attempts(r) /\ "unborn" \in Processes
      BY <1>2, Facts DEF Stands, Alive, Processes
    <3>2. Append(proc[r], "unborn") \in Seq(Processes)
      BY <3>1
    <3>. QED BY <1>2, <1>4, <3>1, <3>2 DEF TypeOK
  <2>9. /\ watch' \in [Requests -> {"none", "own", "look", "pid"}] /\ watch'[r] = "own"
        /\ \A q \in Requests : q # r => watch'[q] = watch[q]
    BY <1>2, <1>4, NewWatch
  <2>10. TypeOK'
    BY <1>1, <1>2, <1>4, <2>1, <2>6, <2>8, <2>9 DEF TypeOK
  <2>11. Sound'
    BY <1>1, <1>2, <2>1 DEF Sound
  <2>12. \A q : ~Busy(q) /\ ~Busy(q)'
    BY <1>1, <1>4, Idle, StepDone
  <2>13. ASSUME NEW q \in Requests, q # r
         PROVE  Stands(q)'
    <3>1. Stands(q)
      BY DEF IInv
    <3>. QED BY <1>1, <2>1, <2>6, <2>8, <2>9, <2>12, <2>13, <3>1, Same
  <2>14. Unanswered(r)' /\ Open(r)' /\ \A at : ~Busying(r, at)'
    <3>1. Unanswered(r)'
      BY <1>1, <2>1, <2>5, <2>6 DEF Unanswered
    <3>2. Open(r)'
      BY <2>7 DEF Open, LastOut
    <3>. QED BY <2>12, <3>1, <3>2 DEF Busying
  <2>15. Flows(r)'
    <3>1. ~Held(r)' /\ watch'[r] = "own" /\ r \notin todo' /\ parent'[r] # "idle"
          /\ (parent'[r] = "waiting" => r \in seen' /\ file'[r] # "none")
      BY <1>1, <2>1, <2>9
    <3>. QED BY <2>12, <2>14, <3>1 DEF Flows, Unanswered
  <2>16. Alive(r)'
    <3>1. \A b \in 1 .. Attempts(r) : proc[r][b] # "running"
      BY <1>2, <2>1, <2>7 DEF Stands, Alive, Settled
    <3>. QED BY <2>7, <2>8, <3>1 DEF Alive
  <2>17. Counted(r)'
    <3>1. Attempts(r)' <= Grant(r)'
      BY <1>2, <2>1, <2>7 DEF Stands, Counted
    <3>2. ~Held(r)' /\ r \notin todo'
      BY <1>1, <2>1
    <3>3. log'[r].fallback = log[r].fallback /\ log'[r].retries = log[r].retries
          /\ mem'[r] = mem[r]
      BY <1>1, <2>5, <2>6
    <3>. QED BY <1>2, <2>1, <3>1, <3>2, <3>3 DEF Stands, Counted
  <2>18. OneResponse(r)'
    BY <1>1, <1>2, <2>5, <2>6 DEF Stands, OneResponse
  <2>. QED BY <2>10, <2>11, <2>13, <2>15, <2>16, <2>17, <2>18 DEF IInv, Stands
<1>. QED BY <1>3, <1>4 DEF Launch

(***************************************************************************)
(* The outcome of an attempt.                                              *)
(***************************************************************************)
\* What is observed is one open attempt.
LEMMA Watched ==
  ASSUME IInv, NEW r \in Requests, watch[r] # "none"
  PROVE  /\ r \notin todo /\ ~Busy(r) /\ ~Held(r) /\ Unanswered(r) /\ Open(r)
         /\ parent[r] # "idle" /\ (parent[r] = "waiting" => r \in seen /\ file[r] # "none")
         /\ ctl \notin {"down", "finished"}
         /\ Attempts(r) \in Nat /\ Attempts(r) > 0 /\ Attempts(r) \in 1 .. Attempts(r)
         /\ Len(proc[r]) = Attempts(r) /\ Last(r) \in Processes
<1>1. TypeOK /\ Sound /\ Stands(r)
  BY DEF IInv
<1>2. /\ r \notin todo /\ ~Busy(r) /\ ~Held(r) /\ Unanswered(r) /\ Open(r)
      /\ parent[r] # "idle" /\ (parent[r] = "waiting" => r \in seen /\ file[r] # "none")
  BY <1>1 DEF Stands, Flows, Untouched
<1>3. ctl \notin {"down", "finished"}
  BY <1>1 DEF Sound
<1>4. Attempts(r) \in Nat /\ Attempts(r) > 0 /\ Attempts(r) \in 1 .. Attempts(r)
  BY <1>1, <1>2, Facts DEF Open
<1>5. Len(proc[r]) = Attempts(r) /\ proc[r] \in Seq(Processes)
  BY <1>1, Facts DEF Stands, Alive
<1>6. Last(r) \in Processes
  BY <1>4, <1>5 DEF Last
<1>. QED BY <1>2, <1>3, <1>4, <1>5, <1>6

\* One process of a request changes.
LEMMA NewProc ==
  ASSUME IInv, NEW r \in Requests, watch[r] # "none", NEW x \in Processes,
         proc' = [proc EXCEPT ![r][Attempts(r)] = x]
  PROVE  /\ proc' \in [Requests -> Seq(Processes)] /\ Len(proc'[r]) = Attempts(r)
         /\ proc'[r][Attempts(r)] = x
         /\ \A b \in 1 .. Attempts(r) : b # Attempts(r) => proc'[r][b] = proc[r][b]
         /\ \A q \in Requests : q # r => proc'[q] = proc[q]
<1>1. TypeOK /\ proc[r] \in Seq(Processes) /\ Len(proc[r]) = Attempts(r)
      /\ Attempts(r) \in 1 .. Attempts(r) /\ Attempts(r) \in Nat
  BY Facts, Watched DEF IInv
<1>2. [proc[r] EXCEPT ![Attempts(r)] = x] \in Seq(Processes)
  BY <1>1
<1>. QED BY <1>1, <1>2 DEF TypeOK

LEMMA CollectedSound ==
  ASSUME IInv, NEW r \in Requests, NEW o \in Statuses, watch[r] # "none", step = <<>>,
         Collected(r, o), NEW x \in Processes, proc' = [proc EXCEPT ![r][Attempts(r)] = x],
         x = "running" => o = "uncertain"
  PROVE  IInv'
<1>1. PICK n \in Nat : n = Attempts(r)
  BY Watched
<1>2. TypeOK /\ Sound /\ Stands(r) /\ n \in 1 .. n /\ n > 0 /\ DOMAIN log[r].att = 1 .. n
      /\ log[r] \in Logs /\ log \in [Requests -> Logs] /\ log[r].att \in Seq(Attempt)
  BY <1>1, Watched, Facts DEF IInv, TypeOK
<1>3. PICK a \in Attempt : a = [route |-> RouteTaken(r, n), out |-> o] /\ a.out = o
  <2>1. log[r].att[n] \in Attempt
    BY <1>2
  <2>2. PICK route \in {"primary", "fallback", "skipped"} : route = RouteTaken(r, n)
    BY <2>1 DEF Attempt, RouteTaken
  <2>3. [route |-> route, out |-> o] \in Attempt /\ [route |-> route, out |-> o].out = o
    BY DEF Attempt
  <2>. QED BY <2>2, <2>3
<1>4. PICK u \in Nat : u = mem[r].used + Tokens(o)
  BY <1>2, Facts DEF Tokens
<1>5. /\ log' = [log EXCEPT ![r].att[n] = a] /\ watch' = [watch EXCEPT ![r] = "none"]
      /\ mem' = [mem EXCEPT ![r].used = u] /\ spent' = spent + Tokens(o)
      /\ step' = <<Stage(r, "settle", o, u, FALSE)>>
      /\ UNCHANGED <<parent, file, resp, broken, ctl, starts, todo, seen, pending, cache>>
  <2>1. mem \in [Requests -> Memories]
    BY <1>2 DEF TypeOK
  <2>. QED BY <1>1, <1>3, <1>4, <2>1 DEF Collected
<1> DEFINE l == [log[r] EXCEPT !.att = [@ EXCEPT ![n] = a]]
           m == [mem[r] EXCEPT !.used = u]
<1>6. [log[r].att EXCEPT ![n] = a] \in Seq(Attempt) /\ Len([log[r].att EXCEPT ![n] = a]) = n
      /\ [log[r].att EXCEPT ![n] = a][n] = a
  BY <1>1, <1>2 DEF Attempts
<1>7. /\ l \in Logs /\ l.requested = log[r].requested /\ l.term = log[r].term
      /\ l.fallback = log[r].fallback /\ l.retries = log[r].retries
      /\ Len(l.att) = n /\ l.att[n] = a /\ log' = [log EXCEPT ![r] = l]
  BY <1>2, <1>5, <1>6 DEF Logs
<1>8. /\ m \in Memories /\ m.fallback = mem[r].fallback /\ m.retries = mem[r].retries
      /\ mem' = [mem EXCEPT ![r] = m]
  <2>1. mem[r] \in Memories /\ mem \in [Requests -> Memories]
    BY <1>2 DEF TypeOK
  <2>. QED BY <1>5, <2>1 DEF Memories
<1> HIDE DEF l, m
<1>9. log' \in [Requests -> Logs] /\ log'[r] = l /\ \A q \in Requests : q # r => log'[q] = log[q]
  BY <1>2, <1>7, NewLog
<1>10. mem' \in [Requests -> Memories] /\ mem'[r] = m /\ \A q \in Requests : q # r => mem'[q] = mem[q]
  BY <1>2, <1>8, NewMem
<1>11. /\ watch' \in [Requests -> {"none", "own", "look", "pid"}] /\ watch'[r] = "none"
       /\ \A q \in Requests : q # r => watch'[q] = watch[q]
  BY <1>2, <1>5, NewWatch
<1>12. Attempts(r)' = n /\ LastOut(r)' = o /\ Grant(r)' = Grant(r)
  BY <1>3, <1>5, <1>7, <1>9 DEF Attempts, LastOut, Grant
<1>13. /\ step' \in Seq(Stages) /\ Len(step') <= 1 /\ step' # <<>> /\ step'[1].at = "settle"
       /\ step'[1].status = o /\ \A q : (Busy(q)' <=> q = r) /\ ~Busy(q)
  <2>1. Stage(r, "settle", o, u, FALSE) \in Stages
    BY DEF Stage, Stages
  <2>. QED BY <1>5, <2>1, Steps, Idle DEF Stage
<1>14. /\ proc' \in [Requests -> Seq(Processes)] /\ Len(proc'[r]) = n /\ proc'[r][n] = x
       /\ \A b \in 1 .. n : b # n => proc'[r][b] = proc[r][b]
       /\ \A q \in Requests : q # r => proc'[q] = proc[q]
  <2>1. /\ proc' \in [Requests -> Seq(Processes)] /\ Len(proc'[r]) = Attempts(r)
        /\ proc'[r][Attempts(r)] = x
        /\ \A b \in 1 .. Attempts(r) : b # Attempts(r) => proc'[r][b] = proc[r][b]
        /\ \A q \in Requests : q # r => proc'[q] = proc[q]
    BY NewProc
  <2>. QED BY <1>1, <2>1
<1>15. spent' \in Nat
  BY <1>2, <1>5 DEF TypeOK, Tokens
<1>16. TypeOK'
  BY <1>2, <1>5, <1>9, <1>10, <1>11, <1>13, <1>14, <1>15 DEF TypeOK
<1>17. Sound' /\ \A q : Held(q)' <=> Held(q)
  BY <1>2, <1>5, Watched DEF Sound, Held
<1>18. ASSUME NEW q \in Requests, q # r
       PROVE  Stands(q)'
  <2>1. Stands(q)
    BY DEF IInv
  <2>. QED BY <1>5, <1>9, <1>10, <1>11, <1>13, <1>14, <1>17, <1>18, <2>1, Same
<1>19. /\ ~Held(r)' /\ r \notin todo' /\ parent'[r] # "idle"
       /\ (parent'[r] = "waiting" => r \in seen' /\ file'[r] # "none")
  BY <1>5, <1>17, Watched
<1>20. Unanswered(r)' /\ o # "open"
  <2>1. Unanswered(r)
    BY Watched
  <2>. QED BY <1>5, <1>7, <1>9, <2>1 DEF Unanswered, Statuses, WorkerOutcomes
<1>21. Flows(r)'
  BY <1>2, <1>11, <1>12, <1>13, <1>19, <1>20 DEF Flows, Busying, Unanswered
<1>22. Alive(r)'
  BY <1>1, <1>2, <1>12, <1>14 DEF Stands, Alive
<1>23. Counted(r)'
  <2>1. /\ mem'[r].fallback = mem[r].fallback /\ mem'[r].retries = mem[r].retries
        /\ log'[r].fallback = log[r].fallback /\ log'[r].retries = log[r].retries
    BY <1>7, <1>8, <1>9, <1>10
  <2>. QED BY <1>1, <1>2, <1>12, <1>19, <2>1 DEF Stands, Counted
<1>24. OneResponse(r)'
  BY <1>2, <1>5, <1>7, <1>9 DEF Stands, OneResponse
<1>. QED BY <1>16, <1>17, <1>18, <1>21, <1>22, <1>23, <1>24 DEF IInv, Stands

\* The observer turns to the other thing it looks at.
LEMMA TurnSound ==
  ASSUME IInv, NEW r \in Requests, watch[r] # "none", NEW w \in {"look", "pid"},
         watch' = [watch EXCEPT ![r] = w],
         UNCHANGED <<parent, files, proc, ctl, starts, todo, step, seen, pending, mem, cache, spent>>
  PROVE  IInv'
<1>1. UNCHANGED <<parent, file, resp, log, broken, proc, ctl, starts, todo, step, seen, pending,
                  mem, cache, spent>>
  BY DEF files
<1>2. TypeOK /\ Sound /\ Stands(r)
  BY DEF IInv
<1>3. /\ watch' \in [Requests -> {"none", "own", "look", "pid"}] /\ watch'[r] = w /\ w # "none"
      /\ \A q \in Requests : q # r => watch'[q] = watch[q]
  BY <1>2, NewWatch
<1>4. TypeOK'
  BY <1>1, <1>2, <1>3 DEF TypeOK
<1>5. Sound' /\ \A q : (Held(q)' <=> Held(q)) /\ (Busy(q)' <=> Busy(q))
  BY <1>1, <1>2, Watched DEF Sound, Held, Busy
<1>6. ASSUME NEW q \in Requests, q # r
      PROVE  Stands(q)'
  <2>1. Stands(q)
    BY DEF IInv
  <2>. QED BY <1>1, <1>3, <1>5, <1>6, <2>1, Same
<1>7. /\ Attempts(r)' = Attempts(r) /\ LastOut(r)' = LastOut(r) /\ Grant(r)' = Grant(r)
  BY <1>1 DEF Attempts, LastOut, Grant
<1>8. /\ (Unanswered(r)' <=> Unanswered(r)) /\ (Settled(r)' <=> Settled(r)) /\ (Open(r)' <=> Open(r))
      /\ \A at : Busying(r, at)' <=> Busying(r, at)
  BY <1>1, <1>5, <1>7 DEF Unanswered, Settled, Open, Busying
<1>9. /\ r \notin todo /\ ~Busy(r) /\ ~Held(r) /\ Unanswered(r) /\ Open(r) /\ parent[r] # "idle"
      /\ (parent[r] = "waiting" => r \in seen /\ file[r] # "none")
      /\ \A at : ~Busying(r, at)
  BY Watched DEF Busying
<1>10. Flows(r)'
  BY <1>1, <1>2, <1>3, <1>5, <1>7, <1>8, <1>9 DEF Flows, Unanswered
<1>11. Alive(r)' /\ Counted(r)' /\ OneResponse(r)'
  BY <1>1, <1>2, <1>3, <1>5, <1>7, <1>8, <1>9 DEF Stands, Alive, Counted, OneResponse
<1>. QED BY <1>4, <1>5, <1>6, <1>10, <1>11 DEF IInv, Stands

\* The process of a closed attempt, and that of a terminated one.
LEMMA Ends ==
  ASSUME IInv, NEW r \in Requests, watch[r] # "none"
  PROVE  /\ Closed(r) => \E x \in Processes : /\ proc' = [proc EXCEPT ![r][Attempts(r)] = x]
                                              /\ x = "running" => Last(r) = "running"
         /\ Kill(r) => \E x \in Processes : /\ proc' = [proc EXCEPT ![r][Attempts(r)] = x]
                                            /\ x # "running"
<1>1. Last(r) \in Processes /\ TypeOK /\ Attempts(r) \in 1 .. Len(proc[r])
  BY Watched DEF IInv
<1>2. proc \in [Requests -> Seq(Processes)] /\ proc[r] \in Seq(Processes)
  BY <1>1 DEF TypeOK
<1>3. ASSUME Closed(r)
      PROVE  \E x \in Processes : /\ proc' = [proc EXCEPT ![r][Attempts(r)] = x]
                                  /\ x = "running" => Last(r) = "running"
  <2>1. proc' = [proc EXCEPT ![r][Attempts(r)] = IF Last(r) = "running" THEN "running" ELSE "dead"]
    BY <1>2, <1>3 DEF Closed, Last
  <2>2. PICK x \in {"running", "dead"} : x = IF Last(r) = "running" THEN "running" ELSE "dead"
    OBVIOUS
  <2>. QED BY <2>1, <2>2 DEF Processes
<1>4. ASSUME Kill(r)
      PROVE  \E x \in Processes : /\ proc' = [proc EXCEPT ![r][Attempts(r)] = x] /\ x # "running"
  <2>1. proc' = [proc EXCEPT ![r][Attempts(r)] =
                   IF Last(r) \in {"running", "unborn"} THEN "dead" ELSE Last(r)]
    BY <1>2, <1>4 DEF Kill, Last
  <2>2. PICK x \in Processes \ {"running"} :
          x = IF Last(r) \in {"running", "unborn"} THEN "dead" ELSE Last(r)
    <3>1. "dead" \in Processes \ {"running"}
      BY DEF Processes
    <3>2. CASE Last(r) \in {"running", "unborn"}
      BY <3>1, <3>2
    <3>3. CASE Last(r) \notin {"running", "unborn"}
      <4>1. Last(r) # "running" /\ Last(r) \in Processes \ {"running"}
        BY <1>1, <3>3
      <4>. QED BY <3>3, <4>1
    <3>. QED BY <3>2, <3>3
  <2>. QED BY <2>1, <2>2
<1>. QED BY <1>3, <1>4

LEMMA ObserveSound ==
  ASSUME IInv, NEW r \in Requests,
         \/ Collect(r) \/ EnvelopeOver(r) \/ LookForFiles(r) \/ LookAtProcess(r)
         \/ \E fresh \in BOOLEAN : LeaseOver(r, fresh)
  PROVE  IInv'
<1>1. watch[r] # "none" /\ step = <<>>
  BY DEF Collect, EnvelopeOver, LookForFiles, LookAtProcess, LeaseOver, Live
<1>2. WorkerOutcomes \cup {"nodir", "envelope", "unknown", "uncertain"} \subseteq Statuses
      /\ "running" \notin WorkerOutcomes
  BY DEF Statuses, WorkerOutcomes
<1>3. ASSUME NEW o \in Statuses, Collected(r, o), Closed(r), Last(r) = "running" => o = "uncertain"
      PROVE  IInv'
  BY <1>1, <1>3, Ends, CollectedSound
<1>4. ASSUME NEW o \in Statuses, Collected(r, o), Kill(r)
      PROVE  IInv'
  BY <1>1, <1>4, Ends, CollectedSound
<1>5. CASE Collect(r)
  <2>1. PICK o \in Statuses : Collected(r, o) /\ Closed(r) /\ Last(r) # "running"
    BY <1>2, <1>5 DEF Collect
  <2>. QED BY <1>3, <2>1
<1>6. CASE EnvelopeOver(r)
  BY <1>2, <1>4, <1>6 DEF EnvelopeOver
<1>7. CASE LookForFiles(r)
  BY <1>1, <1>2, <1>3, <1>7, TurnSound DEF LookForFiles
<1>8. CASE LookAtProcess(r)
  BY <1>1, <1>2, <1>3, <1>8, TurnSound DEF LookAtProcess
<1>9. ASSUME NEW fresh \in BOOLEAN, LeaseOver(r, fresh)
      PROVE  IInv'
  BY <1>2, <1>3, <1>4, <1>9 DEF LeaseOver
<1>. QED BY <1>5, <1>6, <1>7, <1>8, <1>9

LEMMA CancelSound ==
  ASSUME IInv, NEW r \in Requests, CancelActive(r)
  PROVE  IInv'
<1>1. /\ ctl = "stopping" /\ step = <<>> /\ watch[r] # "none" /\ Kill(r)
      /\ watch' = [watch EXCEPT ![r] = "none"] /\ Respond(r, "cancelled", mem[r].used, FALSE)
      /\ UNCHANGED <<parent, file, resp, log, broken, ctl, starts, todo, seen, pending, mem, cache,
                     spent>>
  BY DEF CancelActive, files
<1>2. TypeOK /\ Sound /\ Stands(r) /\ mem[r].used \in Nat /\ "cancelled" \in Statuses
  BY Facts DEF IInv, Statuses
<1>3. PICK x \in Processes : proc' = [proc EXCEPT ![r][Attempts(r)] = x] /\ x # "running"
  BY <1>1, Ends
<1>4. /\ proc' \in [Requests -> Seq(Processes)] /\ Len(proc'[r]) = Attempts(r)
      /\ proc'[r][Attempts(r)] = x
      /\ \A b \in 1 .. Attempts(r) : b # Attempts(r) => proc'[r][b] = proc[r][b]
      /\ \A q \in Requests : q # r => proc'[q] = proc[q]
  BY <1>1, <1>3, NewProc
<1>5. /\ watch' \in [Requests -> {"none", "own", "look", "pid"}] /\ watch'[r] = "none"
      /\ \A q \in Requests : q # r => watch'[q] = watch[q]
  BY <1>1, <1>2, NewWatch
<1>6. step' \in Seq(Stages) /\ Len(step') <= 1 /\ \A q : (Busy(q)' <=> q = r) /\ ~Busy(q)
  BY <1>1, <1>2, Responding, Idle
<1>7. TypeOK'
  BY <1>1, <1>2, <1>4, <1>5, <1>6 DEF TypeOK
<1>8. Sound' /\ \A q : Held(q)' <=> Held(q)
  BY <1>1, <1>2 DEF Sound, Held
<1>9. ASSUME NEW q \in Requests, q # r
      PROVE  Stands(q)'
  <2>1. Stands(q)
    BY DEF IInv
  <2>. QED BY <1>1, <1>4, <1>5, <1>6, <1>8, <1>9, <2>1, Same
<1>10. /\ r \notin todo /\ ~Held(r) /\ Unanswered(r) /\ parent[r] # "idle"
       /\ (parent[r] = "waiting" => r \in seen /\ file[r] # "none")
  BY <1>1, Watched
<1>11. Attempts(r)' = Attempts(r) /\ LastOut(r)' = LastOut(r) /\ Grant(r)' = Grant(r)
  BY <1>1 DEF Attempts, LastOut, Grant
<1>12. Flows(r)'
  <2>1. log'[r].term = <<>> /\ resp'[r] = <<>> /\ log'[r].requested = "valid"
    BY <1>1, <1>10 DEF Unanswered
  <2>. QED BY <1>1, <1>2, <1>5, <1>8, <1>10, <2>1, Answering
<1>13. Alive(r)' /\ OneResponse(r)'
  BY <1>1, <1>2, <1>3, <1>4, <1>11 DEF Stands, Alive, OneResponse
<1>14. Counted(r)'
  <2>1. ~Busying(r, "settle")' /\ ~Held(r)' /\ watch'[r] = "none" /\ r \notin todo'
    BY <1>1, <1>2, <1>5, <1>8, <1>10, Responding DEF Busying
  <2>. QED BY <1>1, <1>2, <1>11, <2>1 DEF Stands, Counted
<1>. QED BY <1>7, <1>8, <1>9, <1>12, <1>13, <1>14 DEF IInv, Stands

(***************************************************************************)
(* Decisions about an attempt that has its outcome.                        *)
(***************************************************************************)
GrantOf(l) == (IF l.fallback THEN 1 ELSE 0) + l.retries["transient"] + l.retries["protocol"] + starts

\* What a decision leaves in the log and in the memory of a request.
Decided(r, l, m) ==
    /\ log' = [log EXCEPT ![r] = l] /\ mem' = [mem EXCEPT ![r] = m]
    /\ l.att = log[r].att /\ l.requested = log[r].requested /\ l.term = log[r].term
    /\ l.retries["transient"] <= TransientRetries /\ l.retries["protocol"] <= ProtocolRetries

\* Where a request is that a decision is made about.
AtDecision(r) ==
    /\ ~Held(r) /\ watch[r] = "none" /\ Unanswered(r) /\ parent[r] # "idle"
    /\ parent[r] = "waiting" => r \in seen /\ file[r] # "none"
    /\ ctl \notin {"down", "finished"}
    /\ \A q : Busy(q) => q = r

Leaves(r) ==
    /\ r \notin todo' /\ todo' \in {todo, todo \ {r}} /\ seen' \in {seen, seen \cup {r}}
    /\ spent' \in Nat /\ broken' \in BOOLEAN
    /\ UNCHANGED <<parent, file, resp, proc, ctl, starts, cache>>

\* A decision leaves the others where they are.
LEMMA DecisionOthers ==
  ASSUME IInv, NEW r \in Requests, NEW l \in Logs, NEW m \in Memories, Decided(r, l, m),
         AtDecision(r), Leaves(r),
         \A q \in Requests : q # r => (Held(q)' <=> Held(q)) /\ ~Busy(q)' /\ watch'[q] = watch[q]
  PROVE  \A q \in Requests : q # r => Stands(q)'
<1> SUFFICES ASSUME NEW q \in Requests, q # r
             PROVE  Stands(q)'
  OBVIOUS
<1>1. TypeOK /\ Stands(q)
  BY DEF IInv
<1>2. log'[q] = log[q] /\ mem'[q] = mem[q]
  BY <1>1, NewLog, NewMem DEF Decided
<1>3. (q \in todo' <=> q \in todo) /\ (q \in seen' <=> q \in seen) /\ ~Busy(q)
  BY DEF Leaves, AtDecision
<1>. QED BY <1>1, <1>2, <1>3, Same DEF Leaves

\* What a decision leaves as it was.
LEMMA DecisionKeeps ==
  ASSUME IInv, NEW r \in Requests, NEW l \in Logs, NEW m \in Memories, Decided(r, l, m),
         AtDecision(r), Leaves(r)
  PROVE  /\ log' \in [Requests -> Logs] /\ log'[r] = l /\ mem' \in [Requests -> Memories] /\ mem'[r] = m
         /\ Attempts(r)' = Attempts(r) /\ LastOut(r)' = LastOut(r) /\ Grant(r)' = GrantOf(l)
         /\ Unanswered(r)' /\ (Settled(r)' <=> Settled(r)) /\ (Open(r)' <=> Open(r))
         /\ Alive(r)' /\ OneResponse(r)'
<1>1. TypeOK /\ Stands(r)
  BY DEF IInv
<1>2. log' \in [Requests -> Logs] /\ log'[r] = l /\ mem' \in [Requests -> Memories] /\ mem'[r] = m
  BY <1>1, NewLog, NewMem DEF Decided
<1>3. resp' = resp /\ proc' = proc /\ starts' = starts /\ l.att = log[r].att
      /\ l.requested = log[r].requested /\ l.term = log[r].term
  BY DEF Decided, Leaves
<1>4. Attempts(r)' = Attempts(r) /\ LastOut(r)' = LastOut(r) /\ Grant(r)' = GrantOf(l)
  BY <1>2, <1>3 DEF Attempts, LastOut, Grant, GrantOf
<1>5. Unanswered(r)' /\ (Settled(r)' <=> Settled(r)) /\ (Open(r)' <=> Open(r))
  BY <1>2, <1>3, <1>4 DEF AtDecision, Unanswered, Settled, Open
<1>6. Alive(r)' /\ OneResponse(r)'
  BY <1>1, <1>2, <1>3, <1>4 DEF Stands, Alive, OneResponse
<1>. QED BY <1>2, <1>4, <1>5, <1>6

LEMMA RequeueSound ==
  ASSUME IInv, NEW r \in Requests, NEW l \in Logs, NEW m \in Memories, Decided(r, l, m),
         AtDecision(r), Leaves(r), Settled(r), Attempts(r) < GrantOf(l),
         m.fallback = l.fallback, \A c \in {"transient", "protocol"} : l.retries[c] <= m.retries[c],
         pending' = Append(pending, r), step' = <<>>, UNCHANGED watch
  PROVE  IInv'
<1>1. TypeOK /\ Sound /\ Stands(r) /\ ~Held(r) /\ watch[r] = "none" /\ ctl \notin {"down", "finished"}
  BY DEF IInv, AtDecision
<1>2. /\ pending' \in Seq(Requests) /\ \A q : Held(q)' <=> Held(q) \/ q = r
      /\ \A i, j \in DOMAIN pending' : pending'[i] = pending'[j] => i = j
  BY <1>1, HeldWith DEF TypeOK, Sound
<1>3. step' \in Seq(Stages) /\ Len(step') <= 1 /\ \A q : ~Busy(q)'
  BY StepDone
<1>4. \A q \in Requests : q # r => Stands(q)'
  BY <1>2, <1>3, DecisionOthers
<1>5. /\ log' \in [Requests -> Logs] /\ log'[r] = l /\ mem' \in [Requests -> Memories] /\ mem'[r] = m
      /\ Attempts(r)' = Attempts(r) /\ Grant(r)' = GrantOf(l) /\ Unanswered(r)' /\ Settled(r)'
      /\ Alive(r)' /\ OneResponse(r)'
  BY DecisionKeeps
<1>6. TypeOK'
  BY <1>1, <1>2, <1>3, <1>5 DEF TypeOK, Leaves
<1>7. Sound'
  BY <1>1, <1>2 DEF Sound, Leaves
<1>8. Flows(r)'
  <2>1. /\ r \notin todo' /\ watch'[r] = "none" /\ parent'[r] # "idle" /\ Held(r)'
        /\ (parent'[r] = "waiting" => r \in seen' /\ file'[r] # "none")
    BY <1>1, <1>2 DEF Leaves, AtDecision
  <2>. QED BY <1>3, <1>5, <2>1 DEF Flows, Busying, Unanswered
<1>9. Counted(r)'
  <2>1. Attempts(r)' < Grant(r)' /\ Attempts(r)' <= Grant(r)'
    <3>1. Attempts(r) \in Nat /\ GrantOf(l) \in Nat
      <4>1. l.retries["transient"] \in Nat /\ l.retries["protocol"] \in Nat
        BY DEF Logs, Retries
      <4>2. starts \in Nat /\ Attempts(r) \in Nat
        BY <1>1, Facts
      <4>. QED BY <4>1, <4>2 DEF GrantOf
    <3>. QED BY <1>5, <3>1
  <2>. QED BY <1>5, <2>1 DEF Counted, Decided
<1>. QED BY <1>4, <1>5, <1>6, <1>7, <1>8, <1>9 DEF IInv, Stands

LEMMA RespondSound ==
  ASSUME IInv, NEW r \in Requests, NEW l \in Logs, NEW m \in Memories, Decided(r, l, m),
         ~Held(r), watch[r] = "none", log[r].requested = "valid", log[r].term = <<>>, parent[r] # "idle",
         parent[r] = "waiting" => r \in seen /\ file[r] # "none", ctl \notin {"down", "finished"},
         \A q : Busy(q) => q = r, Leaves(r), Attempts(r) <= GrantOf(l),
         NEW status \in Statuses, NEW used \in Nat, Respond(r, status, used, FALSE),
         resp[r] = <<>> \/ resp[r] = <<[status |-> status, used |-> used]>>,
         UNCHANGED <<pending, watch>>
  PROVE  IInv'
<1>1. TypeOK /\ Sound /\ Stands(r)
  BY DEF IInv
<1>2. \A q : Held(q)' <=> Held(q)
  BY DEF Held
<1>3. step' \in Seq(Stages) /\ Len(step') <= 1 /\ \A q : Busy(q)' <=> q = r
  BY Responding
<1>4. log' \in [Requests -> Logs] /\ log'[r] = l /\ \A q \in Requests : q # r => log'[q] = log[q]
  BY <1>1, NewLog DEF Decided
<1>5. mem' \in [Requests -> Memories] /\ \A q \in Requests : q # r => mem'[q] = mem[q]
  BY <1>1, NewMem DEF Decided
<1>6. TypeOK'
  BY <1>1, <1>3, <1>4, <1>5 DEF TypeOK, Leaves
<1>7. Sound'
  BY <1>1 DEF Sound, Leaves
<1>8. ASSUME NEW q \in Requests, q # r
      PROVE  Stands(q)'
  <2>1. Stands(q) /\ ~Busy(q) /\ ~Busy(q)'
    BY <1>3, <1>8 DEF IInv
  <2>2. (q \in todo' <=> q \in todo) /\ (q \in seen' <=> q \in seen)
    BY <1>8 DEF Leaves
  <2>. QED BY <1>2, <1>4, <1>5, <1>8, <2>1, <2>2, Same DEF Leaves
<1>9. resp' = resp /\ proc' = proc /\ starts' = starts /\ l.att = log[r].att
      /\ l.requested = log[r].requested /\ l.term = log[r].term
  BY DEF Decided, Leaves
<1>10. Attempts(r)' = Attempts(r) /\ LastOut(r)' = LastOut(r) /\ Grant(r)' = GrantOf(l)
  BY <1>4, <1>9 DEF Attempts, LastOut, Grant, GrantOf
<1>11. Flows(r)'
  <2>1. /\ ~Held(r)' /\ watch'[r] = "none" /\ r \notin todo' /\ parent'[r] # "idle"
        /\ (parent'[r] = "waiting" => r \in seen' /\ file'[r] # "none")
    BY <1>2 DEF Leaves
  <2>2. log'[r].term = <<>> /\ log'[r].requested = "valid"
    BY <1>4, <1>9
  <2>. QED BY <1>9, <2>1, <2>2, Answering
<1>12. Alive(r)' /\ OneResponse(r)'
  BY <1>1, <1>4, <1>9, <1>10 DEF Stands, Alive, OneResponse
<1>13. Counted(r)'
  <2>1. ~Busying(r, "settle")' /\ ~Held(r)' /\ watch'[r] = "none" /\ r \notin todo'
    BY <1>2, Responding DEF Busying, Leaves
  <2>. QED BY <1>4, <1>10, <2>1 DEF Counted, Decided
<1>. QED BY <1>6, <1>7, <1>8, <1>11, <1>12, <1>13 DEF IInv, Stands

LEMMA SettleSound ==
  ASSUME IInv, Settle
  PROVE  IInv'
<1>1. PICK s \in Stages : s = step[1]
  BY InStep DEF IInv, Settle
<1>2. PICK r \in Requests : r = s.req
  BY <1>1 DEF Stages
<1>3. PICK o \in Statuses : o = s.status
  BY DEF Stages
<1>4. PICK c \in {"transient", "protocol"} : c = Class(o)
  BY DEF Class
<1>5. PICK route : route = log[r].att[Attempts(r)].route
  OBVIOUS
<1>6. PICK offered \in BOOLEAN : offered = (Continues(route, o) \/ route = "skipped")
  BY DEF Continues
<1>7. TypeOK /\ Stands(r) /\ Busy(r) /\ Busying(r, "settle") /\ step # <<>> /\ s.used \in Nat
      /\ \A q : Busy(q) => q = r
  BY <1>1, <1>2, InStep DEF IInv, Settle, Busying, Stages
<1>8. /\ ~Held(r) /\ watch[r] = "none" /\ Unanswered(r) /\ r \notin todo /\ Attempts(r) > 0
      /\ LastOut(r) = o /\ o # "open" /\ parent[r] # "idle"
      /\ (parent[r] = "waiting" => r \in seen /\ file[r] # "none")
  BY <1>1, <1>3, <1>7 DEF Stands, Flows, Untouched
<1>9. ctl \notin {"down", "finished"}
  BY <1>7 DEF IInv, Sound
<1>10. /\ log[r] \in Logs /\ mem[r] \in Memories /\ log \in [Requests -> Logs]
       /\ mem \in [Requests -> Memories] /\ Attempts(r) \in Nat /\ starts \in Nat
       /\ log[r].fallback \in BOOLEAN /\ mem[r].fallback \in BOOLEAN
       /\ log[r].retries \in Retries /\ mem[r].retries \in Retries
       /\ \A d \in {"transient", "protocol"} : log[r].retries[d] \in Nat /\ mem[r].retries[d] \in Nat
  BY <1>7, Facts DEF TypeOK
<1>11. /\ Attempts(r) <= Grant(r) /\ mem[r].fallback = log[r].fallback
       /\ \A d \in {"transient", "protocol"} : log[r].retries[d] <= mem[r].retries[d]
       /\ log[r].retries["transient"] <= TransientRetries
       /\ log[r].retries["protocol"] <= ProtocolRetries
  BY <1>7 DEF Stands, Counted
<1>12. AtDecision(r) /\ Leaves(r)
  BY <1>1, <1>2, <1>7, <1>8, <1>9 DEF AtDecision, Leaves, Settle, TypeOK, Persisted, Breaks
<1>13. UNCHANGED watch
  BY DEF Settle
<1>14. CASE /\ Continues(route, o) /\ ~mem[r].fallback
            /\ log' = [log EXCEPT ![r].fallback = TRUE] /\ mem' = [mem EXCEPT ![r].fallback = TRUE]
            /\ pending' = Append(pending, r) /\ step' = <<>>
  <2> DEFINE l == [log[r] EXCEPT !.fallback = TRUE]
             m == [mem[r] EXCEPT !.fallback = TRUE]
  <2>1. /\ l \in Logs /\ l.att = log[r].att /\ l.requested = log[r].requested
        /\ l.term = log[r].term /\ l.fallback = TRUE /\ l.retries = log[r].retries
        /\ log' = [log EXCEPT ![r] = l]
    BY <1>10, <1>14 DEF Logs
  <2>2. m \in Memories /\ m.fallback = TRUE /\ m.retries = mem[r].retries
        /\ mem' = [mem EXCEPT ![r] = m]
    BY <1>10, <1>14 DEF Memories
  <2> HIDE DEF l, m
  <2>3. Decided(r, l, m)
    BY <1>11, <2>1, <2>2 DEF Decided
  <2>4. Attempts(r) < GrantOf(l)
    BY <1>10, <1>11, <1>14, <2>1 DEF Grant, GrantOf
  <2>5. Settled(r)
    BY <1>8, <1>14 DEF Settled, Continues
  <2>. QED BY <1>11, <1>12, <1>13, <1>14, <2>1, <2>2, <2>3, <2>4, <2>5, RequeueSound
<1>15. CASE /\ o \in Retryable /\ mem[r].retries[c] < Allowed(c)
            /\ log' = [log EXCEPT ![r].fallback = @ \/ offered,
                                  ![r].retries[c] = Max2(@, mem[r].retries[c] + 1)]
            /\ mem' = [mem EXCEPT ![r].fallback = @ \/ offered,
                                  ![r].retries[c] = mem[r].retries[c] + 1]
            /\ pending' = Append(pending, r) /\ step' = <<>>
  <2>1. PICK x \in Nat : x = mem[r].retries[c] + 1
    BY <1>10
  <2>2. Max2(log[r].retries[c], x) = x /\ log[r].retries[c] < x /\ x <= Allowed(c)
    <3>1. Allowed(c) \in Nat
      BY Constants DEF Allowed
    <3>2. /\ log[r].retries[c] \in Nat /\ mem[r].retries[c] \in Nat
          /\ log[r].retries[c] <= mem[r].retries[c] /\ mem[r].retries[c] < Allowed(c)
      BY <1>10, <1>11, <1>15
    <3>. QED BY <2>1, <3>1, <3>2 DEF Max2
  <2>3. PICK f \in BOOLEAN : f = (log[r].fallback \/ offered)
    OBVIOUS
  <2> DEFINE l == [log[r] EXCEPT !.fallback = f, !.retries = [@ EXCEPT ![c] = x]]
             m == [mem[r] EXCEPT !.fallback = f, !.retries = [@ EXCEPT ![c] = x]]
  <2>4. /\ l \in Logs /\ l.att = log[r].att /\ l.requested = log[r].requested
        /\ l.term = log[r].term /\ l.fallback = f /\ l.retries = [log[r].retries EXCEPT ![c] = x]
    BY <1>10 DEF Logs, Retries
  <2>5. log' = [log EXCEPT ![r] = l]
    BY <1>10, <1>15, <2>1, <2>2, <2>3
  <2>6. m \in Memories /\ m.fallback = f /\ m.retries = [mem[r].retries EXCEPT ![c] = x]
    BY <1>10 DEF Memories, Retries
  <2>7. mem' = [mem EXCEPT ![r] = m]
    BY <1>10, <1>11, <1>15, <2>1, <2>3
  <2> HIDE DEF l, m
  <2>8. /\ l.retries[c] = x /\ m.retries[c] = x
        /\ \A d \in {"transient", "protocol"} : d # c =>
             l.retries[d] = log[r].retries[d] /\ m.retries[d] = mem[r].retries[d]
    BY <1>10, <2>4, <2>6 DEF Retries
  <2>9. l.retries["transient"] <= TransientRetries /\ l.retries["protocol"] <= ProtocolRetries
    BY <1>11, <2>2, <2>8 DEF Allowed
  <2>10. Decided(r, l, m)
    BY <2>4, <2>5, <2>7, <2>9 DEF Decided
  <2>11. Attempts(r) < GrantOf(l)
    <3>1. l.retries["transient"] + l.retries["protocol"]
            > log[r].retries["transient"] + log[r].retries["protocol"]
          /\ l.retries["transient"] \in Nat /\ l.retries["protocol"] \in Nat
      BY <1>10, <2>2, <2>8
    <3>2. log[r].fallback => l.fallback
      BY <2>3, <2>4
    <3>. QED BY <1>10, <1>11, <3>1, <3>2 DEF Grant, GrantOf
  <2>12. Settled(r)
    BY <1>8, <1>15 DEF Settled, Retryable
  <2>13. \A d \in {"transient", "protocol"} : l.retries[d] <= m.retries[d]
    BY <1>11, <2>8
  <2>. QED BY <1>12, <1>13, <1>15, <2>4, <2>6, <2>10, <2>11, <2>12, <2>13, RequeueSound
<1>16. CASE /\ log' = [log EXCEPT ![r].fallback = @ \/ offered]
            /\ mem' = [mem EXCEPT ![r].fallback = @ \/ offered]
            /\ Respond(r, o, s.used, FALSE) /\ UNCHANGED pending
  <2>1. PICK f \in BOOLEAN : f = (log[r].fallback \/ offered)
    OBVIOUS
  <2> DEFINE l == [log[r] EXCEPT !.fallback = f]
             m == [mem[r] EXCEPT !.fallback = f]
  <2>2. /\ l \in Logs /\ l.att = log[r].att /\ l.requested = log[r].requested
        /\ l.term = log[r].term /\ l.fallback = f /\ l.retries = log[r].retries
        /\ log' = [log EXCEPT ![r] = l]
    BY <1>10, <1>16, <2>1 DEF Logs
  <2>3. m \in Memories /\ mem' = [mem EXCEPT ![r] = m]
    BY <1>10, <1>11, <1>16, <2>1 DEF Memories
  <2> HIDE DEF l, m
  <2>4. Decided(r, l, m)
    BY <1>11, <2>2, <2>3 DEF Decided
  <2>5. Attempts(r) <= GrantOf(l)
    BY <1>10, <1>11, <2>1, <2>2 DEF Grant, GrantOf
  <2>. QED BY <1>7, <1>8, <1>9, <1>12, <1>13, <1>16, <2>2, <2>3, <2>4, <2>5, RespondSound DEF Unanswered
<1>. QED BY <1>1, <1>2, <1>3, <1>4, <1>5, <1>6, <1>14, <1>15, <1>16 DEF Settle

(***************************************************************************)
(* The recovery of one request.                                            *)
(***************************************************************************)
LEMMA InRecovery ==
  ASSUME IInv, NEW r \in Requests, Recovering(r)
  PROVE  /\ TypeOK /\ Sound /\ Stands(r) /\ step = <<>> /\ r \in todo /\ \A q : ~Busy(q)
         /\ ~Held(r) /\ watch[r] = "none" /\ ctl = "recovering" /\ parent[r] # "waiting"
         /\ log[r].requested = "valid" => parent[r] # "idle"
         /\ Attempts(r) < Grant(r)
<1>1. TypeOK /\ Sound /\ Stands(r) /\ step = <<>> /\ r \in todo /\ ctl = "recovering"
  BY DEF IInv, Recovering
<1>2. ~Held(r) /\ watch[r] = "none" /\ parent[r] # "waiting"
  BY <1>1 DEF Stands, Flows, Sound
<1>3. log[r].requested = "valid" => parent[r] # "idle"
  <2>1. NoEvents.requested # "valid"
    BY DEF NoEvents
  <2>. QED BY <1>1, <2>1 DEF Stands, Flows, Untouched
<1>4. Attempts(r) < Grant(r)
  BY <1>1 DEF Stands, Counted
<1>. QED BY <1>1, <1>2, <1>3, <1>4, Idle

\* The attempts of a request that count for a budget are finitely many.
LEMMA Counting ==
  ASSUME TypeOK, NEW r \in Requests
  PROVE  /\ IsFiniteSet(Finished(r)) /\ IsFiniteSet(Consuming(r)) /\ UsedBy(r) \in Nat
         /\ \A c : Failures(r, c) \in Nat
         /\ Finished(r) \subseteq 1 .. Attempts(r) /\ UsedBy(r) <= Attempts(r)
<1>1. Attempts(r) \in Nat
  BY Facts
<1>2. IsFiniteSet(1 .. Attempts(r)) /\ Cardinality(1 .. Attempts(r)) = Attempts(r)
  BY <1>1, FS_Interval
<1>3. \A S \in SUBSET (1 .. Attempts(r)) :
        IsFiniteSet(S) /\ Cardinality(S) \in Nat /\ Cardinality(S) <= Attempts(r)
  BY <1>2, FS_Subset, FS_CardinalityType
<1>4. Finished(r) \subseteq 1 .. Attempts(r) /\ Consuming(r) \subseteq 1 .. Attempts(r)
  BY DEF Finished, Consuming
<1>5. \A c : {a \in Finished(r) : log[r].att[a].out \in Retryable /\ Class(log[r].att[a].out) = c}
               \subseteq 1 .. Attempts(r)
  BY <1>4
<1>. QED BY <1>3, <1>4, <1>5 DEF UsedBy, Failures

\* A request that needs no more than a note is left where it is.
LEMMA DismissedSound ==
  ASSUME IInv, NEW r \in Requests, Recovering(r),
         log[r].requested # "valid" \/ log[r].term # <<>>,
         todo' = todo \ {r}, spent' \in Nat,
         cache' \in [{Packet[q] : q \in Requests} -> Seq(Answers)],
         UNCHANGED <<parent, files, proc, ctl, starts, step, seen, pending, watch, mem>>
  PROVE  IInv'
<1>1. TypeOK /\ Sound /\ Stands(r) /\ \A q : ~Busy(q)
  BY InRecovery
<1>2. UNCHANGED <<parent, file, resp, log, broken, proc, ctl, starts, step, seen, pending, watch, mem>>
  BY DEF files
<1>3. TypeOK'
  BY <1>1, <1>2 DEF TypeOK
<1>4. Sound'
  BY <1>1, <1>2 DEF Sound
<1>5. \A q : (Held(q)' <=> Held(q)) /\ (Busy(q)' <=> Busy(q))
  BY <1>2 DEF Held, Busy
<1>6. ASSUME NEW q \in Requests, q # r
      PROVE  Stands(q)'
  <2>1. Stands(q) /\ ~Busy(q) /\ (q \in todo' <=> q \in todo) /\ (q \in seen' <=> q \in seen)
    BY <1>1, <1>2, <1>6 DEF IInv
  <2>. QED BY <1>2, <1>5, <2>1, Same
<1>7. Attempts(r)' = Attempts(r) /\ LastOut(r)' = LastOut(r) /\ Grant(r)' = Grant(r)
      /\ \A at : Busying(r, at)' <=> Busying(r, at)
  BY <1>2 DEF Attempts, LastOut, Grant, Busying, Busy
<1>8. (Unanswered(r)' <=> Unanswered(r)) /\ (Settled(r)' <=> Settled(r)) /\ (Open(r)' <=> Open(r))
      /\ (Untouched(r)' <=> Untouched(r))
  BY <1>2, <1>5, <1>7 DEF Unanswered, Settled, Open, Untouched
<1>9. Flows(r)'
  BY <1>1, <1>2, <1>5, <1>7, <1>8 DEF Stands, Flows
<1>10. Alive(r)' /\ OneResponse(r)' /\ Counted(r)'
  BY <1>1, <1>2, <1>5, <1>7 DEF Stands, Alive, OneResponse, Counted
<1>. QED BY <1>3, <1>4, <1>6, <1>9, <1>10 DEF IInv, Stands

LEMMA RecoverNothingSound ==
  ASSUME IInv, NEW r \in Requests, RecoverNothing(r)
  PROVE  IInv'
<1>1. TypeOK
  BY DEF IInv
<1>. QED BY <1>1, DismissedSound DEF RecoverNothing, TypeOK

LEMMA RecoverTerminalSound ==
  ASSUME IInv, NEW r \in Requests, RecoverTerminal(r)
  PROVE  IInv'
<1>1. TypeOK /\ log[r].term \in Seq(Terminal) /\ log[r].term # <<>>
  BY Facts DEF IInv, RecoverTerminal
<1>2. PICK t \in Terminal : t = log[r].term[Len(log[r].term)]
  BY <1>1
<1>3. PICK a \in Answers : a = [status |-> t.status, used |-> t.used]
  BY DEF Terminal, Answers
<1>4. /\ cache' = [cache EXCEPT ![Packet[r]] = <<a>>]
      /\ spent' = spent + (IF t.reused THEN 0 ELSE t.used)
  BY <1>2, <1>3 DEF RecoverTerminal
<1>5. spent' \in Nat
  BY <1>1, <1>4 DEF TypeOK, Terminal
<1>6. cache' \in [{Packet[q] : q \in Requests} -> Seq(Answers)]
  <2>1. <<a>> \in Seq(Answers)
    OBVIOUS
  <2>. QED BY <1>1, <1>4, <2>1 DEF TypeOK
<1>. QED BY <1>5, <1>6, DismissedSound DEF RecoverTerminal

LEMMA RecoverResponseSound ==
  ASSUME IInv, NEW r \in Requests, RecoverResponse(r)
  PROVE  IInv'
<1>1. TypeOK /\ Stands(r) /\ resp[r] \in Seq(Answers) /\ resp[r] # <<>> /\ Len(resp[r]) <= 1
      /\ log[r] \in Logs /\ mem[r] \in Memories
  BY Facts DEF IInv, RecoverResponse, Stands, OneResponse
<1>2. PICK a \in Answers : resp[r] = <<a>>
  BY <1>1
<1>3. PICK status \in Statuses, used \in Nat : a = [status |-> status, used |-> used]
  BY DEF Answers
<1>4. /\ log[r].requested = "valid" /\ log[r].term = <<>> /\ todo' = todo \ {r}
      /\ spent' = spent + used /\ Respond(r, status, used, FALSE)
      /\ UNCHANGED <<parent, file, resp, log, broken, proc, ctl, starts, seen, pending, watch, mem, cache>>
  <2>1. resp[r][1].status = status /\ resp[r][1].used = used
    BY <1>2, <1>3
  <2>. QED BY <2>1 DEF RecoverResponse, files
<1>5. /\ ~Held(r) /\ watch[r] = "none" /\ ctl = "recovering" /\ parent[r] # "waiting"
      /\ parent[r] # "idle" /\ Attempts(r) < Grant(r) /\ \A q : ~Busy(q)
  BY <1>4, InRecovery DEF RecoverResponse
<1>6. PICK l \in Logs : l = log[r]
  BY <1>1
<1>7. PICK m \in Memories : m = mem[r]
  BY <1>1
<1>8. Decided(r, l, m)
  <2>1. log' = [log EXCEPT ![r] = l] /\ mem' = [mem EXCEPT ![r] = m]
    BY <1>1, <1>4, <1>6, <1>7 DEF TypeOK
  <2>. QED BY <1>1, <1>6, <2>1 DEF Decided, Stands, Counted
<1>9. Leaves(r)
  BY <1>1, <1>4 DEF Leaves, TypeOK
<1>10. Attempts(r) <= GrantOf(l)
  <2>1. Attempts(r) \in Nat /\ Grant(r) \in Nat /\ Grant(r) = GrantOf(l)
    BY <1>1, <1>6, Facts DEF Grant, GrantOf
  <2>. QED BY <1>5, <2>1
<1>. QED BY <1>2, <1>3, <1>4, <1>5, <1>8, <1>9, <1>10, RespondSound

LEMMA ReattachSound ==
  ASSUME IInv, NEW r \in Requests, Reattach(r)
  PROVE  IInv'
<1>1. /\ log[r].requested = "valid" /\ log[r].term = <<>> /\ resp[r] = <<>> /\ Open(r)
      /\ todo' = todo \ {r} /\ seen' = seen \cup {r} /\ watch' = [watch EXCEPT ![r] = "look"]
      /\ mem' = [mem EXCEPT ![r] = Remembered(r)] /\ spent' = spent + UsedBy(r)
      /\ UNCHANGED <<parent, file, resp, log, broken, proc, ctl, starts, step, pending, cache>>
  BY DEF Reattach, files
<1>2. /\ TypeOK /\ Sound /\ Stands(r) /\ ~Held(r) /\ ctl = "recovering" /\ parent[r] # "waiting"
      /\ parent[r] # "idle" /\ \A q : ~Busy(q)
  BY <1>1, InRecovery DEF Reattach
<1>3. UsedBy(r) \in Nat /\ log[r].fallback \in BOOLEAN /\ log[r].retries \in Retries
      /\ \A c \in {"transient", "protocol"} : log[r].retries[c] \in Nat
  BY <1>2, Counting, Facts
<1>4. /\ Remembered(r) \in Memories /\ Remembered(r).fallback = log[r].fallback
      /\ Remembered(r).retries = log[r].retries
  BY <1>3 DEF Remembered, Memories
<1>5. /\ mem' \in [Requests -> Memories] /\ mem'[r] = Remembered(r)
      /\ \A q \in Requests : q # r => mem'[q] = mem[q]
  BY <1>1, <1>2, <1>4, NewMem
<1>6. /\ watch' \in [Requests -> {"none", "own", "look", "pid"}] /\ watch'[r] = "look"
      /\ \A q \in Requests : q # r => watch'[q] = watch[q]
  BY <1>1, <1>2, NewWatch
<1>7. TypeOK'
  BY <1>1, <1>2, <1>3, <1>5, <1>6 DEF TypeOK
<1>8. Sound'
  BY <1>1, <1>2 DEF Sound
<1>9. \A q : (Held(q)' <=> Held(q)) /\ ~Busy(q)'
  BY <1>1, <1>2 DEF Held, Busy
<1>10. ASSUME NEW q \in Requests, q # r
       PROVE  Stands(q)'
  <2>1. Stands(q) /\ ~Busy(q) /\ (q \in todo' <=> q \in todo) /\ (q \in seen' <=> q \in seen)
    BY <1>1, <1>2, <1>10 DEF IInv
  <2>. QED BY <1>1, <1>5, <1>6, <1>9, <1>10, <2>1, Same
<1>11. Attempts(r)' = Attempts(r) /\ LastOut(r)' = LastOut(r) /\ Grant(r)' = Grant(r)
       /\ \A at : ~Busying(r, at)'
  BY <1>1, <1>9 DEF Attempts, LastOut, Grant, Busying
<1>12. Unanswered(r)' /\ Open(r)'
  BY <1>1, <1>11 DEF Unanswered, Open
<1>13. Flows(r)'
  <2>1. r \notin todo' /\ ~Held(r)' /\ watch'[r] = "look" /\ parent'[r] # "idle" /\ parent'[r] # "waiting"
        /\ log'[r].requested = "valid"
    BY <1>1, <1>2, <1>6, <1>9
  <2>. QED BY <1>9, <1>11, <1>12, <2>1 DEF Flows
<1>14. Alive(r)' /\ OneResponse(r)'
  BY <1>1, <1>2, <1>11 DEF Stands, Alive, OneResponse
<1>15. Counted(r)'
  <2>1. r \notin todo' /\ ~Held(r)'
    BY <1>1, <1>2, <1>9
  <2>2. Attempts(r)' <= Grant(r)'
    BY <1>2, <1>11 DEF Stands, Counted
  <2>3. /\ mem'[r].fallback = log'[r].fallback
        /\ \A c \in {"transient", "protocol"} : log'[r].retries[c] <= mem'[r].retries[c]
    BY <1>1, <1>3, <1>4, <1>5
  <2>. QED BY <1>1, <1>2, <2>1, <2>2, <2>3 DEF Stands, Counted
<1>. QED BY <1>7, <1>8, <1>10, <1>13, <1>14, <1>15 DEF IInv, Stands

\* What the recovery decides about the outcome of the last attempt.
LEMMA UndecidedFacts ==
  ASSUME TypeOK, NEW r \in Requests, NEW n \in 1 .. Attempts(r), log[r].att[n].out # "open"
  PROVE  /\ Undecided(r, n).class \in {"transient", "protocol"}
         /\ Undecided(r, n).out = log[r].att[n].out /\ Undecided(r, n).out \in Statuses
         /\ Undecided(r, n).retries \in Nat
         /\ Undecided(r, n).retries >= log[r].retries[Undecided(r, n).class]
         /\ Undecided(r, n).counts \in BOOLEAN
         /\ Undecided(r, n).counts => Undecided(r, n).retries <= Allowed(Undecided(r, n).class)
         /\ Undecided(r, n).requeue => log[r].att[n].out # "uncertain"
<1> DEFINE last == log[r].att[n]
           c == Class(last.out)
           failures == Failures(r, c)
           used == Max2(log[r].retries[c], Max2(0, failures - 1))
           queued == last.out \in Retryable /\ failures > 0 /\ used >= failures
           again == last.out \in Retryable /\ used < Allowed(c)
<1>1. Undecided(r, n) =
        [class |-> c, out |-> last.out, counts |-> again /\ ~queued,
         retries |-> IF again /\ ~queued THEN used + 1 ELSE used,
         requeue |-> Continues(last.route, last.out) \/ queued \/ again]
  BY DEF Undecided
<1>2. c \in {"transient", "protocol"} /\ last.out \in Statuses
  BY Facts DEF Class
<1>3. failures \in Nat /\ log[r].retries[c] \in Nat /\ Allowed(c) \in Nat
  BY <1>2, Counting, Facts, Constants DEF Allowed
<1>4. used \in Nat /\ used >= log[r].retries[c]
  BY <1>3 DEF Max2
<1>5. Continues(last.route, last.out) \/ queued \/ again => last.out # "uncertain"
  BY DEF Continues, Retryable
<1>6. again => used + 1 <= Allowed(c)
  BY <1>3, <1>4
<1>7. PICK b \in BOOLEAN : b = (again /\ ~queued)
  OBVIOUS
<1>8. PICK e \in BOOLEAN : e = (Continues(last.route, last.out) \/ queued \/ again)
  BY DEF Continues
<1>9. Undecided(r, n) =
        [class |-> c, out |-> last.out, counts |-> b,
         retries |-> IF b THEN used + 1 ELSE used, requeue |-> e]
  BY <1>1, <1>7, <1>8
<1>10. e => last.out # "uncertain"
  BY <1>5, <1>8
<1>11. b => used + 1 <= Allowed(c)
  BY <1>6, <1>7
<1>12. last.out = log[r].att[n].out
  OBVIOUS
<1> HIDE DEF last, c, failures, used, queued, again
<1>13. /\ Undecided(r, n).class = c /\ Undecided(r, n).out = last.out
       /\ Undecided(r, n).counts = b /\ Undecided(r, n).requeue = e
       /\ Undecided(r, n).retries = IF b THEN used + 1 ELSE used
  BY <1>9
<1>14. CASE b
  BY <1>2, <1>4, <1>10, <1>11, <1>12, <1>13, <1>14, <1>3
<1>15. CASE ~b
  BY <1>2, <1>4, <1>10, <1>12, <1>13, <1>15, <1>3
<1>. QED BY <1>14, <1>15

LEMMA RedecideSound ==
  ASSUME IInv, NEW r \in Requests, Redecide(r)
  PROVE  IInv'
<1>1. /\ log[r].requested = "valid" /\ log[r].term = <<>> /\ resp[r] = <<>> /\ ~Open(r)
      /\ todo' = todo \ {r} /\ spent' = spent + UsedBy(r)
      /\ UNCHANGED <<parent, file, resp, broken, proc, ctl, starts, watch, cache>>
  BY DEF Redecide
<1>2. /\ TypeOK /\ Sound /\ Stands(r) /\ ~Held(r) /\ watch[r] = "none" /\ ctl = "recovering"
      /\ parent[r] # "waiting" /\ parent[r] # "idle" /\ Attempts(r) < Grant(r) /\ \A q : ~Busy(q)
  BY <1>1, InRecovery DEF Redecide
<1>3. /\ UsedBy(r) \in Nat /\ log[r].fallback \in BOOLEAN /\ log[r].retries \in Retries
      /\ log[r] \in Logs /\ Attempts(r) \in Nat /\ Grant(r) \in Nat /\ starts \in Nat
      /\ log \in [Requests -> Logs]
      /\ \A c \in {"transient", "protocol"} : log[r].retries[c] \in Nat
      /\ log[r].retries["transient"] <= TransientRetries
      /\ log[r].retries["protocol"] <= ProtocolRetries
  BY <1>2, Counting, Facts DEF TypeOK, Stands, Counted
<1>4. PICK n \in Nat : n = Attempts(r)
  BY <1>3
<1>5. PICK used \in Nat : used = UsedBy(r)
  BY <1>3
<1>6. PICK k \in Memories : k = Remembered(r)
  BY <1>3 DEF Remembered, Memories
<1>7. k.fallback = log[r].fallback /\ k.retries = log[r].retries
  BY <1>6 DEF Remembered
<1>8. AtDecision(r)
  BY <1>1, <1>2 DEF AtDecision, Unanswered
<1>9. CASE n = 0
  <2>1. /\ mem' = [mem EXCEPT ![r] = k] /\ log' = log
        /\ pending' = Append(pending, r) /\ seen' = seen \cup {r} /\ step' = <<>>
    <3>1. step = <<>> /\ Attempts(r) = 0
      BY <1>4, <1>9 DEF Redecide, Recovering
    <3>. QED BY <1>6, <3>1 DEF Redecide
  <2>2. PICK l \in Logs : l = log[r]
    BY <1>3
  <2>3. Decided(r, l, k)
    <3>1. log' = [log EXCEPT ![r] = l]
      BY <1>3, <2>1, <2>2
    <3>. QED BY <1>3, <2>1, <2>2, <3>1 DEF Decided
  <2>4. Leaves(r)
    BY <1>1, <1>2, <1>3, <2>1 DEF Leaves, TypeOK
  <2>5. Settled(r) /\ Attempts(r) < GrantOf(l)
    BY <1>2, <1>4, <1>9, <2>2 DEF Settled, Grant, GrantOf
  <2>6. k.fallback = l.fallback /\ \A c \in {"transient", "protocol"} : l.retries[c] <= k.retries[c]
    BY <1>3, <1>7, <2>2
  <2>. QED BY <1>1, <1>8, <2>1, <2>3, <2>4, <2>5, <2>6, RequeueSound
<1>10. CASE n # 0
  <2>1. n \in 1 .. Attempts(r) /\ log[r].att[n].out # "open" /\ log[r].att[n].out = LastOut(r)
    BY <1>1, <1>3, <1>4, <1>10 DEF Open, LastOut
  <2>2. PICK c \in {"transient", "protocol"}, o \in Statuses, x \in Nat, counts \in BOOLEAN,
             d \in {Undecided(r, n)} :
          /\ c = d.class /\ o = d.out /\ x = d.retries /\ counts = d.counts
          /\ o = LastOut(r) /\ x >= log[r].retries[c] /\ (counts => x <= Allowed(c))
          /\ (d.requeue => o # "uncertain")
    BY <1>2, <2>1, UndecidedFacts
  <2>3. /\ mem' = [mem EXCEPT ![r] = [k EXCEPT !.retries[c] = x]]
        /\ log' = IF counts THEN [log EXCEPT ![r].retries[c] = Max2(@, x)] ELSE log
        /\ IF d.requeue
           THEN pending' = Append(pending, r) /\ seen' = seen \cup {r} /\ UNCHANGED step
           ELSE Respond(r, o, used, FALSE) /\ UNCHANGED <<pending, seen>>
    <3>1. Attempts(r) = n /\ ~(n = 0) /\ n > 0
      BY <1>4, <1>10
    <3>2. mem' = [mem EXCEPT ![r] = [k EXCEPT !.retries[c] = x]]
      BY <1>6, <2>2, <3>1 DEF Redecide
    <3>3. log' = IF counts THEN [log EXCEPT ![r].retries[c] = Max2(@, x)] ELSE log
      BY <2>2, <3>1 DEF Redecide
    <3>4. IF d.requeue
          THEN pending' = Append(pending, r) /\ seen' = seen \cup {r} /\ UNCHANGED step
          ELSE Respond(r, o, used, FALSE) /\ UNCHANGED <<pending, seen>>
      BY <1>5, <2>2, <3>1 DEF Redecide
    <3>. QED BY <3>2, <3>3, <3>4
  <2>4. Max2(log[r].retries[c], x) = x
    BY <1>3, <2>2 DEF Max2
  <2> DEFINE m == [k EXCEPT !.retries = [@ EXCEPT ![c] = x]]
             l == IF counts THEN [log[r] EXCEPT !.retries = [@ EXCEPT ![c] = x]] ELSE log[r]
  <2>5. m \in Memories /\ m.fallback = log[r].fallback /\ mem' = [mem EXCEPT ![r] = m]
        /\ m.retries = [log[r].retries EXCEPT ![c] = x]
    BY <1>3, <1>7, <2>3 DEF Memories, Retries
  <2>6. /\ l \in Logs /\ l.att = log[r].att /\ l.requested = log[r].requested
        /\ l.term = log[r].term /\ l.fallback = log[r].fallback
        /\ l.retries \in {log[r].retries, [log[r].retries EXCEPT ![c] = x]}
        /\ (~counts => l.retries = log[r].retries)
    <3>1. CASE counts
      <4>1. [log[r].retries EXCEPT ![c] = x] \in Retries
        BY <1>3 DEF Retries
      <4>. QED BY <1>3, <3>1, <4>1 DEF Logs
    <3>2. CASE ~counts
      BY <1>3, <3>2
    <3>. QED BY <3>1, <3>2
  <2>7. log' = [log EXCEPT ![r] = l]
    BY <1>3, <2>3, <2>4
  <2> HIDE DEF l, m
  <2>8. /\ m.retries[c] = x /\ l.retries[c] \in {log[r].retries[c], x}
        /\ (~counts => l.retries[c] = log[r].retries[c])
        /\ \A d1 \in {"transient", "protocol"} : d1 # c =>
             l.retries[d1] = log[r].retries[d1] /\ m.retries[d1] = log[r].retries[d1]
    BY <1>3, <2>5, <2>6 DEF Retries
  <2>9. \A d1 \in {"transient", "protocol"} :
          /\ l.retries[d1] \in Nat /\ l.retries[d1] <= m.retries[d1]
          /\ l.retries[d1] >= log[r].retries[d1]
    BY <1>3, <2>2, <2>8
  <2>10. l.retries["transient"] <= TransientRetries /\ l.retries["protocol"] <= ProtocolRetries
    BY <1>3, <2>2, <2>8 DEF Allowed
  <2>11. Decided(r, l, m)
    BY <2>5, <2>6, <2>7, <2>10 DEF Decided
  <2>12. Attempts(r) < GrantOf(l) /\ Attempts(r) <= GrantOf(l)
    BY <1>2, <1>3, <2>6, <2>9 DEF Grant, GrantOf
  <2>13. CASE d.requeue
    <3>1. /\ pending' = Append(pending, r) /\ seen' = seen \cup {r} /\ step' = <<>>
      BY <2>3, <2>13 DEF Redecide, Recovering
    <3>2. Leaves(r)
      BY <1>1, <1>2, <1>3, <3>1 DEF Leaves, TypeOK
    <3>3. Settled(r)
      BY <2>1, <2>2, <2>13 DEF Settled
    <3>. QED BY <1>1, <1>8, <2>5, <2>6, <2>9, <2>11, <2>12, <3>1, <3>2, <3>3, RequeueSound
  <2>14. CASE ~d.requeue
    <3>1. Respond(r, o, used, FALSE) /\ UNCHANGED <<pending, seen>>
      BY <2>3, <2>14
    <3>2. Leaves(r)
      BY <1>1, <1>2, <1>3, <3>1 DEF Leaves, TypeOK
    <3>3. /\ ctl \notin {"down", "finished"} /\ (\A q : Busy(q) => q = r)
          /\ UNCHANGED <<pending, watch>>
          /\ (parent[r] = "waiting" => r \in seen /\ file[r] # "none")
          /\ (resp[r] = <<>> \/ resp[r] = <<[status |-> o, used |-> used]>>)
      BY <1>1, <1>2, <3>1
    <3>. QED BY <1>1, <1>2, <2>5, <2>6, <2>11, <2>12, <3>1, <3>2, <3>3, RespondSound
  <2>. QED BY <2>13, <2>14
<1>. QED BY <1>9, <1>10
(***************************************************************************)
(* The invariant, and what a step does to an answer.                       *)
(***************************************************************************)
LEMMA InitSound == Init => IInv
<1> SUFFICES ASSUME Init
             PROVE  IInv
  OBVIOUS
<1>1. Fresh \in Memories /\ NoEvents \in Logs
  <2>1. <<>> \in Seq(Attempt) /\ <<>> \in Seq(Terminal) /\ NoRetries \in Retries
    BY DEF NoRetries, Retries
  <2>. QED BY <2>1 DEF Fresh, NoEvents, Memories, Logs
<1>2. <<>> \in Seq(Answers) /\ <<>> \in Seq(Processes) /\ <<>> \in Seq(Stages) /\ Len(<<>>) <= 1
      /\ <<>> \in Seq(Requests)
  OBVIOUS
<1>3. TypeOK
  BY <1>1, <1>2 DEF Init, TypeOK
<1>4. Sound
  BY DEF Init, Sound
<1>5. ASSUME NEW r \in Requests
      PROVE  Stands(r)
  <2>1. /\ log[r] = NoEvents /\ resp[r] = <<>> /\ mem[r] = Fresh /\ watch[r] = "none" /\ r \notin todo
        /\ parent[r] = "idle" /\ proc[r] = <<>> /\ starts = 1
    BY DEF Init
  <2>2. ~Held(r) /\ ~Busy(r)
    BY DEF Init, Held, Busy
  <2>3. /\ NoEvents.requested = "none" /\ NoEvents.att = <<>> /\ NoEvents.term = <<>>
        /\ NoEvents.fallback = FALSE /\ NoEvents.retries["transient"] = 0
        /\ NoEvents.retries["protocol"] = 0
    BY DEF NoEvents, NoRetries
  <2>4. Attempts(r) = 0 /\ Grant(r) = 1
    BY <2>1, <2>3 DEF Attempts, Grant
  <2>5. Flows(r)
    BY <2>1, <2>2, <2>3, <2>4 DEF Flows, Untouched, Busying
  <2>6. Alive(r) /\ OneResponse(r)
    BY <2>1, <2>3, <2>4 DEF Alive, OneResponse
  <2>7. Counted(r)
    BY <2>1, <2>2, <2>3, <2>4, Constants DEF Counted, Busying
  <2>. QED BY <2>5, <2>6, <2>7 DEF Stands
<1>. QED BY <1>3, <1>4, <1>5 DEF IInv

LEMMA StutterSound ==
  ASSUME IInv, UNCHANGED vars
  PROVE  IInv'
<1>1. UNCHANGED <<parent, file, resp, log, broken, proc, ctl, starts, todo, step, seen, pending,
                  watch, mem, cache, spent>>
  BY DEF vars, files, volatile
<1>2. \A q : (Held(q)' <=> Held(q)) /\ (Busy(q)' <=> Busy(q))
  BY <1>1 DEF Held, Busy
<1>3. ASSUME NEW q \in Requests
      PROVE  Stands(q)'
  <2>1. Stands(q) /\ (q \in todo' <=> q \in todo) /\ (q \in seen' <=> q \in seen)
    BY <1>1 DEF IInv
  <2>. QED BY <1>1, <1>2, <2>1, Same
<1>4. TypeOK' /\ Sound'
  BY <1>1 DEF IInv, TypeOK, Sound
<1>. QED BY <1>3, <1>4 DEF IInv

LEMMA NextSound ==
  ASSUME IInv, [Next]_vars
  PROVE  IInv'
<1>1. CASE ClientStep
  BY <1>1, AskSound, ParentEndsSound DEF ClientStep
<1>2. CASE WorkerStep
  BY <1>2, SpawnSound, WorkerSound DEF WorkerStep
<1>3. CASE LoopStep
  BY <1>3, WriteSound, RecordSound, SettleSound, PollSound, LaunchSound, ObserveSound DEF LoopStep
<1>4. CASE EndStep
  BY <1>4, DrainSound, RejectPendingSound, FinishSound, CancelSound DEF EndStep
<1>5. CASE RecoveryStep
  BY <1>5, CrashSound, RestartSound, RecoveredSound, RecoverNothingSound, RecoverTerminalSound,
     RecoverResponseSound, ReattachSound, RedecideSound DEF RecoveryStep, RecoverRequest
<1>6. CASE UNCHANGED vars \/ Stopped
  BY <1>6, StutterSound DEF Stopped
<1>. QED BY <1>1, <1>2, <1>3, <1>4, <1>5, <1>6 DEF Next

\* Only the step that writes an answer changes a response file.
LEMMA OnlyWrites ==
  ASSUME [Next]_vars
  PROVE  WriteResponse \/ UNCHANGED resp
<1>1. CASE ClientStep
  BY <1>1 DEF ClientStep, Ask, ParentEnds, files
<1>2. CASE WorkerStep
  BY <1>2 DEF WorkerStep, Spawn, WorkerFinishes, WorkerDies, files
<1>3. ASSUME NEW r \in Requests, PollRequest(r) \/ Launch(r) \/ Collect(r) \/ EnvelopeOver(r)
      PROVE  UNCHANGED resp
  BY <1>3 DEF PollRequest, Launch, Collect, EnvelopeOver, Collected
<1>4. ASSUME NEW r \in Requests,
             LookForFiles(r) \/ LookAtProcess(r) \/ \E fresh \in BOOLEAN : LeaseOver(r, fresh)
      PROVE  UNCHANGED resp
  BY <1>4 DEF LookForFiles, LookAtProcess, LeaseOver, Collected, files
<1>5. CASE LoopStep
  BY <1>3, <1>4, <1>5 DEF LoopStep, RecordTerminal, Settle
<1>6. CASE EndStep
  BY <1>6 DEF EndStep, BeginDrain, Drained, Interrupt, RejectPending, Finish, CancelActive, files
<1>7. CASE RecoveryStep
  BY <1>7 DEF RecoveryStep, Crash, Restart, Recovered, RecoverRequest, RecoverNothing, RecoverTerminal,
     RecoverResponse, Reattach, Redecide, files
<1>8. CASE UNCHANGED vars \/ Stopped
  BY <1>8 DEF Stopped, vars, files
<1>. QED BY <1>1, <1>2, <1>5, <1>6, <1>7, <1>8 DEF Next

(***************************************************************************)
(* The inductive invariant holds for every reachable state.                *)
(***************************************************************************)
THEOREM Invariance == Spec => []IInv
<1>1. IInv /\ [Next]_vars => IInv'
  BY NextSound
<1>. QED BY InitSound, <1>1, PTL DEF Spec

(***************************************************************************)
(* A request is one piece of work with one answer: never two live runners, *)
(* never two terminal events, and none without one when the run is sealed, *)
(* whatever crashed, was retried and was recovered (recover, _collect and  *)
(* _finish of the controller).                                             *)
(***************************************************************************)
THEOREM OneAnswer == Spec => []RequestsSound
<1>1. IInv => RequestsSound
  <2> SUFFICES ASSUME IInv
               PROVE  RequestsSound
    OBVIOUS
  <2>1. TypeOK /\ Sound /\ \A r \in Requests : Stands(r)
    BY DEF IInv
  <2>2. Observed
    BY <2>1 DEF Observed, Stands, Flows, Alive
  <2>3. ASSUME NEW r \in Requests
        PROVE  Cardinality({a \in 1 .. Len(proc[r]) : proc[r][a] = "running"}) <= 1
    <3>1. {a \in 1 .. Len(proc[r]) : proc[r][a] = "running"} \subseteq {Attempts(r)}
      BY <2>1 DEF Stands, Alive
    <3>2. IsFiniteSet({Attempts(r)}) /\ Cardinality({Attempts(r)}) = 1
      BY FS_Singleton
    <3>. QED BY <3>1, <3>2, FS_Subset
  <2>4. OneTerminal
    BY <2>1 DEF OneTerminal, Stands, OneResponse
  <2>5. FinishClean
    <3> SUFFICES ASSUME ctl = "finished", NEW r \in Requests, log[r].requested = "valid"
                 PROVE  log[r].term # <<>>
      BY DEF FinishClean
    <3>1. ~Held(r) /\ watch[r] = "none" /\ ~Busy(r) /\ r \notin todo
      BY <2>1 DEF Sound, Held, Busy
    <3>. QED BY <2>1, <3>1 DEF Stands, Flows
  <2>. QED BY <2>1, <2>2, <2>3, <2>4, <2>5 DEF RequestsSound, SingleRunner
<1>. QED BY <1>1, Invariance, PTL

(***************************************************************************)
(* What a parent may have read stays what it read: the response file is    *)
(* never replaced by another answer (_write_mechanical_response and the    *)
(* recovery of a response without its event).                              *)
(***************************************************************************)
THEOREM AnswersKept == Spec => ResponseKept
<1>1. IInv /\ [Next]_vars => [KeepsAnswers]_vars
  BY OnlyWrites, WriteSound DEF KeepsAnswers
<1>. QED BY <1>1, Invariance, PTL DEF Spec, ResponseKept

(***************************************************************************)
(* One request costs a bounded number of attempts: the first, one          *)
(* continuation, the retries of each class, and one for each time the      *)
(* controller was started again.                                           *)
(***************************************************************************)
THEOREM AttemptsAreBounded == Spec => []AttemptsBounded
<1>1. IInv => AttemptsBounded
  <2> SUFFICES ASSUME IInv, NEW r \in Requests
               PROVE  Attempts(r) <= 2 + TransientRetries + ProtocolRetries + (starts - 1)
    BY DEF AttemptsBounded
  <2>1. Attempts(r) \in Nat /\ starts \in Nat
        /\ log[r].retries["transient"] \in Nat /\ log[r].retries["protocol"] \in Nat
    BY Facts DEF IInv
  <2>2. Attempts(r) <= Grant(r) /\ log[r].retries["transient"] <= TransientRetries
        /\ log[r].retries["protocol"] <= ProtocolRetries
    BY DEF IInv, Stands, Counted
  <2>. QED BY <2>1, <2>2, Constants DEF Grant
<1>. QED BY <1>1, Invariance, PTL

(***************************************************************************)
(* What is spent.                                                          *)
(***************************************************************************)
\* The tokens that a set of requests consumed.
LEMMA ConsumedFinite ==
  ASSUME TypeOK, NEW S \in SUBSET Requests
  PROVE  IsFiniteSet(ConsumedOf(S)) /\ Cardinality(ConsumedOf(S)) \in Nat
<1> DEFINE T == {{r} \X Consuming(r) : r \in S}
           f == [r \in S |-> {r} \X Consuming(r)]
<1>1. IsFiniteSet(S)
  BY Constants, FS_Subset
<1>2. f \in Surjection(S, T)
  BY DEF Surjection
<1>3. IsFiniteSet(T)
  BY <1>1, <1>2, FS_Surjection
<1>4. \A t \in T : IsFiniteSet(t)
  <2>1. ASSUME NEW r \in S
        PROVE  IsFiniteSet({r} \X Consuming(r))
    BY Counting, FS_Singleton, FS_Product
  <2>. QED BY <2>1
<1>5. IsFiniteSet(UNION T)
  BY <1>3, <1>4, FS_UNION
<1>6. IsFiniteSet(ConsumedOf(S))
  BY <1>5 DEF ConsumedOf
<1>. QED BY <1>6, FS_CardinalityType

LEMMA ConsumedMore ==
  ASSUME TypeOK, NEW S \in SUBSET Requests, NEW r \in Requests
  PROVE  Cardinality(ConsumedOf(S \cup {r})) <= Cardinality(ConsumedOf(S)) + UsedBy(r)
<1> DEFINE C == {r} \X Consuming(r)
<1>1. IsFiniteSet(C) /\ Cardinality(C) = UsedBy(r) /\ UsedBy(r) \in Nat
  <2>1. IsFiniteSet({r}) /\ Cardinality({r}) = 1 /\ IsFiniteSet(Consuming(r)) /\ UsedBy(r) \in Nat
    BY Counting, FS_Singleton
  <2>2. IsFiniteSet(C) /\ Cardinality(C) = Cardinality({r}) * Cardinality(Consuming(r))
    BY <2>1, FS_Product
  <2>. QED BY <2>1, <2>2 DEF UsedBy
<1>2. ConsumedOf(S \cup {r}) = ConsumedOf(S) \cup C
  BY DEF ConsumedOf
<1>3. IsFiniteSet(ConsumedOf(S)) /\ Cardinality(ConsumedOf(S)) \in Nat
  BY ConsumedFinite
<1>4. Cardinality(ConsumedOf(S) \cap C) \in Nat
  BY <1>1, FS_Subset, FS_CardinalityType
<1> HIDE DEF C
<1>5. Cardinality(ConsumedOf(S) \cup C)
        = Cardinality(ConsumedOf(S)) + Cardinality(C) - Cardinality(ConsumedOf(S) \cap C)
  BY <1>1, <1>3, FS_Union
<1>6. Cardinality(ConsumedOf(S) \cup C) <= Cardinality(ConsumedOf(S)) + UsedBy(r)
  <2>1. \A a, b, k \in Nat : a + b - k <= a + b
    OBVIOUS
  <2>. QED BY <1>1, <1>3, <1>4, <1>5, <2>1
<1>. QED BY <1>2, <1>6

LEMMA OwedFinite ==
  /\ IsFiniteSet(Owed) /\ Cardinality(Owed) \in Nat
  /\ IsFiniteSet(Running) /\ Cardinality(Running) \in Nat
<1>1. Owed \in SUBSET Requests /\ Running \in SUBSET Requests
  BY DEF Owed, Running
<1>. QED BY <1>1, Constants, FS_Subset, FS_CardinalityType

\* A request pays as before.
Spares(q) == (Paid(q) => Paid(q)') /\ Consuming(q)' = Consuming(q)

LEMMA Consumes ==
  ASSUME NEW q \in Requests, log'[q].att = log[q].att
  PROVE  /\ Consuming(q)' = Consuming(q) /\ UsedBy(q)' = UsedBy(q)
         /\ Attempts(q)' = Attempts(q) /\ (Open(q)' <=> Open(q))
<1>1. Attempts(q)' = Attempts(q) /\ Finished(q)' = Finished(q) /\ (Open(q)' <=> Open(q))
  BY DEF Attempts, Finished, Open
<1>2. Consuming(q)' = Consuming(q)
  BY <1>1 DEF Consuming
<1>. QED BY <1>1, <1>2 DEF UsedBy

LEMMA Spared ==
  ASSUME NEW q \in Requests, log'[q] = log[q], resp'[q] = resp[q], mem'[q] = mem[q],
         watch'[q] # "none" => watch[q] # "none", Held(q)' => Held(q),
         Busy(q)' => Busy(q) /\ step' = step
  PROVE  Spares(q)
<1>1. Consuming(q)' = Consuming(q) /\ UsedBy(q)' = UsedBy(q)
  BY Consumes
<1>2. Busying(q, "settle")' => Busying(q, "settle")
  BY DEF Busying
<1>. QED BY <1>1, <1>2 DEF Spares, Paid

\* A step about one request spares the others.
LEMMA Others ==
  ASSUME TypeOK, NEW r \in Requests, \A q : Busy(q)' => q = r,
         \/ UNCHANGED pending
         \/ pending' = Append(pending, r)
         \/ pending # <<>> /\ pending' = Tail(pending),
         \A q \in Requests : q # r =>
           log'[q] = log[q] /\ resp'[q] = resp[q] /\ mem'[q] = mem[q] /\ watch'[q] = watch[q]
  PROVE  \A q \in Requests : q # r => Spares(q)
<1>1. \A q : q # r => (Held(q)' => Held(q))
  <2>1. pending \in Seq(Requests)
    BY DEF TypeOK
  <2>2. CASE UNCHANGED pending
    BY <2>2 DEF Held
  <2>3. CASE pending' = Append(pending, r)
    BY <2>1, <2>3, HeldWith
  <2>4. CASE pending # <<>> /\ pending' = Tail(pending)
    BY <2>1, <2>4 DEF Held
  <2>. QED BY <2>2, <2>3, <2>4
<1>. QED BY <1>1, Spared

\* No step but the record of an outcome and the launch of an attempt costs
\* anything.
LEMMA CoveredKept ==
  ASSUME IInv, IInv', Covered, \A q \in Requests : Consuming(q)' = Consuming(q),
         \A q \in Requests : Open(q)' /\ log'[q].term = <<>> => Open(q) /\ log[q].term = <<>>,
         \/ ctl' = "down"
         \/ todo' = Requests /\ spent' = 0
         \/ ctl # "down" /\ todo' = todo /\ spent' = spent
         \/ ctl # "down" /\ \E r \in todo : todo' = todo \ {r} /\ spent' >= spent + UsedBy(r)
  PROVE  Covered'
<1>1. TypeOK /\ todo \subseteq Requests /\ spent \in Nat /\ spent' \in Nat /\ TypeOK'
  BY DEF IInv, TypeOK
<1>2. ASSUME NEW S \in SUBSET Requests
      PROVE  ConsumedOf(S)' = ConsumedOf(S)
  BY DEF ConsumedOf
<1>3. Cardinality(Owed)' <= Cardinality(Owed) /\ Cardinality(Owed) \in Nat /\ Cardinality(Owed)' \in Nat
  <2>1. Owed' \in SUBSET Owed
    BY DEF Owed
  <2>. QED BY <2>1, OwedFinite, FS_Subset, FS_CardinalityType
<1>4. ConsumedOf(Requests)' = ConsumedOf(Requests) /\ Cardinality(ConsumedOf(Requests)) \in Nat
  BY <1>1, <1>2, ConsumedFinite
<1>5. Cardinality(ConsumedOf(Requests)') + Cardinality(Owed)' <= Budget
  BY <1>3, <1>4, Constants DEF Covered
<1>6. ctl' # "down" => Cardinality(ConsumedOf(Requests \ todo)') <= spent'
  <2> SUFFICES ASSUME ctl' # "down"
               PROVE  Cardinality(ConsumedOf(Requests \ todo)') <= spent'
    OBVIOUS
  <2>1. CASE todo' = Requests /\ spent' = 0
    <3>1. ConsumedOf(Requests \ todo)' = {}
      BY <2>1 DEF ConsumedOf
    <3>2. Cardinality(ConsumedOf(Requests \ todo)') = 0
      BY <3>1, FS_EmptySet, Zenon
    <3>. QED BY <2>1, <3>2
  <2>2. CASE ctl # "down" /\ todo' = todo /\ spent' = spent
    <3>1. ConsumedOf(Requests \ todo)' = ConsumedOf(Requests \ todo)
      BY <2>2 DEF ConsumedOf
    <3>. QED BY <2>2, <3>1 DEF Covered
  <2>3. ASSUME ctl # "down", NEW r \in todo, todo' = todo \ {r}, spent' >= spent + UsedBy(r)
        PROVE  Cardinality(ConsumedOf(Requests \ todo)') <= spent'
    <3> DEFINE S == Requests \ todo
    <3>1. r \in Requests /\ S \in SUBSET Requests /\ Requests \ todo' = S \cup {r}
      BY <1>1, <2>3
    <3>2. ConsumedOf(Requests \ todo)' = ConsumedOf(S \cup {r})
      BY <3>1 DEF ConsumedOf
    <3>3. Cardinality(ConsumedOf(S \cup {r})) <= Cardinality(ConsumedOf(S)) + UsedBy(r)
      BY <1>1, <3>1, ConsumedMore
    <3>4. /\ Cardinality(ConsumedOf(S)) \in Nat /\ Cardinality(ConsumedOf(S \cup {r})) \in Nat
          /\ UsedBy(r) \in Nat
      BY <1>1, <3>1, ConsumedFinite, Counting
    <3>5. Cardinality(ConsumedOf(S)) <= spent
      BY <2>3 DEF Covered
    <3> HIDE DEF S
    <3>. QED BY <1>1, <2>3, <3>2, <3>3, <3>4, <3>5
  <2>. QED BY <2>1, <2>2, <2>3
<1>. QED BY <1>5, <1>6 DEF Covered

\* The books: what is not proved for a step in IInv'.
Books == (\A q \in Requests : Paid(q)) /\ Covered

\* Steps that concern no attempt and no answer.
LEMMA NoCost ==
  ASSUME MInv, IInv', UNCHANGED <<log, resp, mem, step, pending, todo, spent>>,
         \A q \in Requests : watch'[q] # "none" => watch[q] # "none",
         ctl' = "down" \/ ctl # "down"
  PROVE  Books'
<1>1. \A q \in Requests : Spares(q)
  BY Spared DEF Held, Busy
<1>2. \A q \in Requests : Paid(q)' /\ Consuming(q)' = Consuming(q)
  BY <1>1 DEF MInv, Spares
<1>3. \A q \in Requests : Open(q)' <=> Open(q)
  BY Consumes
<1>4. Covered'
  BY <1>2, <1>3, CoveredKept DEF MInv
<1>. QED BY <1>2, <1>4 DEF Books

LEMMA QuietBooks ==
  ASSUME MInv, IInv', \/ ClientStep \/ WorkerStep \/ Recovered \/ Finish \/ BeginDrain \/ Drained
                      \/ Interrupt \/ Stopped \/ UNCHANGED vars
  PROVE  Books'
<1>1. CASE ClientStep
  BY <1>1, NoCost DEF ClientStep, Ask, ParentEnds, files, volatile
<1>2. CASE WorkerStep
  <2>1. UNCHANGED <<log, resp, mem, step, pending, todo, spent, watch, ctl>>
    BY <1>2 DEF WorkerStep, Spawn, WorkerFinishes, WorkerDies, files, volatile
  <2>. QED BY <1>2, <2>1, NoCost DEF WorkerStep, Spawn, WorkerFinishes, WorkerDies, MInv, IInv, Sound
<1>3. CASE Recovered \/ Finish \/ BeginDrain \/ Drained \/ Interrupt
  BY <1>3, NoCost DEF Recovered, Finish, BeginDrain, Drained, Interrupt, files, volatile
<1>4. CASE Stopped \/ UNCHANGED vars
  <2>1. UNCHANGED <<log, resp, mem, step, pending, todo, spent, watch, ctl>>
    BY <1>4 DEF Stopped, vars, files, volatile
  <2>. QED BY <2>1, NoCost
<1>. QED BY <1>1, <1>2, <1>3, <1>4

\* The controller dies, or is started again.
LEMMA DeathBooks ==
  ASSUME MInv, IInv', Crash \/ Restart
  PROVE  Books'
<1>1. /\ UNCHANGED <<log, resp>> /\ step' = <<>> /\ pending' = <<>>
      /\ watch' = [r \in Requests |-> "none"]
      /\ ctl' = "down" \/ (todo' = Requests /\ spent' = 0)
  BY DEF Crash, Restart, files
<1>2. ASSUME NEW q \in Requests
      PROVE  Paid(q)' /\ Consuming(q)' = Consuming(q) /\ (Open(q)' <=> Open(q))
  <2>1. ~Held(q)' /\ watch'[q] = "none" /\ ~Busy(q)' /\ ~Busying(q, "settle")'
    BY <1>1 DEF Held, Busy, Busying
  <2>2. Consuming(q)' = Consuming(q) /\ UsedBy(q)' = UsedBy(q) /\ (Open(q)' <=> Open(q))
    BY <1>1, Consumes
  <2>. QED BY <1>1, <2>1, <2>2 DEF MInv, Paid
<1>3. Covered'
  BY <1>1, <1>2, CoveredKept DEF MInv
<1>. QED BY <1>2, <1>3 DEF Books

LEMMA WriteBooks ==
  ASSUME MInv, IInv', WriteResponse
  PROVE  Books'
<1>1. PICK s \in Stages : s = step[1]
  BY InStep DEF MInv, IInv, WriteResponse
<1>2. PICK r \in Requests : r = s.req
  BY <1>1 DEF Stages
<1>3. /\ resp' = [resp EXCEPT ![r] = <<[status |-> s.status, used |-> s.used]>>]
      /\ step' = <<[s EXCEPT !.at = "record"]>> /\ step # <<>>
      /\ UNCHANGED <<log, ctl, todo, pending, watch, mem, spent>>
  BY <1>1, <1>2 DEF WriteResponse
<1>4. /\ [s EXCEPT !.at = "record"] \in Stages /\ [s EXCEPT !.at = "record"].req = r
      /\ [s EXCEPT !.at = "record"].at = "record" /\ [s EXCEPT !.at = "record"].used = s.used
      /\ [s EXCEPT !.at = "record"].reused = s.reused
  BY <1>2 DEF Stages
<1>5. /\ step' # <<>> /\ step'[1].at = "record" /\ step'[1].used = s.used
      /\ step'[1].reused = s.reused /\ \A q : Busy(q)' <=> q = r
  BY <1>3, <1>4, Steps
<1>6. TypeOK /\ Busy(r) /\ Stands(r) /\ Paid(r)
  BY <1>1, <1>2, <1>3, InStep DEF MInv, IInv
<1>7. /\ resp'[r] = <<[status |-> s.status, used |-> s.used]>> /\ resp'[r][1].used = s.used
      /\ \A q \in Requests : q # r => resp'[q] = resp[q]
  BY <1>3, <1>6 DEF TypeOK
<1>8. \A q \in Requests : q # r => Spares(q)
  BY <1>3, <1>5, <1>6, <1>7, Others
<1>9. \A q \in Requests : /\ Consuming(q)' = Consuming(q) /\ UsedBy(q)' = UsedBy(q)
                          /\ (Open(q)' <=> Open(q))
  BY <1>3, Consumes
<1>10. ~Held(r)' /\ watch'[r] = "none" /\ ~Busying(r, "settle")' /\ log[r].term = <<>>
  BY <1>3, <1>5, <1>6 DEF Stands, Flows, Held, Busying
<1>11. UsedBy(r) <= s.used /\ (s.reused => UsedBy(r) = 0)
  BY <1>1, <1>6 DEF Paid
<1>12. Paid(r)'
  BY <1>3, <1>5, <1>7, <1>9, <1>10, <1>11 DEF Paid
<1>13. Covered'
  <2>1. ctl # "down"
    BY <1>3 DEF MInv, IInv, Sound
  <2>. QED BY <1>3, <1>9, <2>1, CoveredKept DEF MInv
<1>. QED BY <1>8, <1>12, <1>13 DEF Books, MInv, Spares

LEMMA RecordBooks ==
  ASSUME MInv, IInv', RecordTerminal
  PROVE  Books'
<1>1. PICK s \in Stages : s = step[1]
  BY InStep DEF MInv, IInv, RecordTerminal
<1>2. PICK r \in Requests : r = s.req
  BY <1>1 DEF Stages
<1>3. /\ log' = [log EXCEPT ![r].term =
                   Append(@, [status |-> s.status, used |-> s.used, reused |-> s.reused])]
      /\ mem' = [mem EXCEPT ![r] = Fresh] /\ step' = <<>> /\ step # <<>>
      /\ UNCHANGED <<resp, todo, pending, watch, spent>>
  BY <1>1, <1>2 DEF RecordTerminal
<1>4. TypeOK /\ Busy(r) /\ Stands(r) /\ Paid(r) /\ ctl # "down" /\ \A q : ~Busy(q)'
  BY <1>1, <1>2, <1>3, InStep, StepDone DEF MInv, IInv, Sound
<1>5. log[r] \in Logs /\ log[r].term = <<>> /\ log \in [Requests -> Logs]
      /\ mem \in [Requests -> Memories]
  BY <1>4 DEF Stands, Flows, TypeOK
<1>6. /\ log'[r].att = log[r].att /\ log'[r].requested = log[r].requested
      /\ log'[r].term = <<[status |-> s.status, used |-> s.used, reused |-> s.reused]>>
      /\ \A q \in Requests : q # r => log'[q] = log[q] /\ mem'[q] = mem[q]
  BY <1>3, <1>5 DEF Logs
<1>7. log'[r].term # <<>> /\ log'[r].term[1].used = s.used /\ log'[r].term[1].reused = s.reused
  BY <1>6
<1>8. \A q \in Requests : q # r => Spares(q)
  BY <1>3, <1>4, <1>6, Others
<1>9. Consuming(r)' = Consuming(r) /\ UsedBy(r)' = UsedBy(r)
  BY <1>6, Consumes
<1>10. ~Held(r)' /\ watch'[r] = "none" /\ ~Busying(r, "settle")'
  BY <1>3, <1>4 DEF Stands, Flows, Held, Busying
<1>11. UsedBy(r) <= s.used /\ (s.reused => UsedBy(r) = 0)
  BY <1>1, <1>4 DEF Paid
<1>12. log'[r].requested = "valid" /\ resp'[r] # <<>> => UsedBy(r)' <= resp'[r][1].used
  BY <1>3, <1>4, <1>6, <1>9 DEF Paid
<1>13. Paid(r)'
  BY <1>4, <1>7, <1>9, <1>10, <1>11, <1>12 DEF Paid
<1>14. \A q \in Requests : Open(q)' /\ log'[q].term = <<>> => Open(q) /\ log[q].term = <<>>
  BY <1>6, <1>7, Consumes
<1>15. Covered'
  BY <1>3, <1>4, <1>8, <1>9, <1>14, CoveredKept DEF MInv, Spares
<1>. QED BY <1>8, <1>13, <1>15 DEF Books, MInv, Spares

\* An answer that charges what the request has used.
Charged(r) ==
    /\ step'[1].at = "respond" /\ UsedBy(r) <= step'[1].used
    /\ step'[1].reused => UsedBy(r) = 0
    /\ \A q : Busy(q)' <=> q = r

LEMMA Charging ==
  ASSUME NEW r \in Requests, NEW status \in Statuses, NEW used \in Nat, UsedBy(r) <= used
  PROVE  /\ Respond(r, status, used, FALSE) => Charged(r)
         /\ UsedBy(r) = 0 => \A reused \in BOOLEAN : Respond(r, status, used, reused) => Charged(r)
<1>1. ASSUME NEW reused \in BOOLEAN, Respond(r, status, used, reused), reused => UsedBy(r) = 0
      PROVE  Charged(r)
  BY <1>1, Responding DEF Charged
<1>. QED BY <1>1

LEMMA RespondBooks ==
  ASSUME MInv, IInv', NEW r \in Requests, Charged(r), ~Held(r)', watch'[r] = "none", UNCHANGED resp, log'[r].att = log[r].att, log'[r].term = <<>>, log[r].term = <<>>,
         log'[r].requested = log[r].requested \/ resp[r] = <<>>,
         \A q \in Requests : q # r =>
           log'[q] = log[q] /\ resp'[q] = resp[q] /\ mem'[q] = mem[q] /\ watch'[q] = watch[q],
         UNCHANGED pending \/ (pending # <<>> /\ pending' = Tail(pending)),
         ctl # "down",
         \/ todo' = todo /\ spent' = spent
         \/ r \in todo /\ todo' = todo \ {r} /\ spent' >= spent + UsedBy(r)
  PROVE  Books'
<1>1. TypeOK /\ Paid(r)
  BY DEF MInv, IInv
<1>2. /\ step'[1].at = "respond" /\ UsedBy(r) <= step'[1].used
      /\ (step'[1].reused => UsedBy(r) = 0) /\ \A q : Busy(q)' <=> q = r
  BY DEF Charged
<1>3. \A q \in Requests : q # r => Spares(q)
  BY <1>1, <1>2, Others
<1>4. Consuming(r)' = Consuming(r) /\ UsedBy(r)' = UsedBy(r) /\ (Open(r)' <=> Open(r))
  BY Consumes
<1>5. ~Busying(r, "settle")'
  BY <1>2 DEF Busying
<1>6. log'[r].requested = "valid" /\ resp'[r] # <<>> => UsedBy(r)' <= resp'[r][1].used
  BY <1>1, <1>4 DEF Paid
<1>7. Paid(r)'
  BY <1>2, <1>4, <1>5, <1>6 DEF Paid
<1>8. \A q \in Requests : Open(q)' /\ log'[q].term = <<>> => Open(q) /\ log[q].term = <<>>
  BY <1>4, Consumes
<1>9. Covered'
  BY <1>3, <1>4, <1>8, CoveredKept DEF MInv, Spares
<1>. QED BY <1>3, <1>7, <1>9 DEF Books, MInv, Spares

\* A request that is queued and has its tokens in memory.
LEMMA QueueBooks ==
  ASSUME MInv, IInv', NEW r \in Requests, ~Busy(r)', mem'[r].used = UsedBy(r), resp'[r] = <<>>,
         \A q : Busy(q)' => q = r,
         log'[r].att = log[r].att, log'[r].term = <<>>, log[r].term = <<>>,
         \A q \in Requests : q # r =>
           log'[q] = log[q] /\ resp'[q] = resp[q] /\ mem'[q] = mem[q] /\ watch'[q] = watch[q],
         UNCHANGED pending \/ pending' = Append(pending, r), ctl # "down",
         \/ todo' = todo /\ spent' = spent
         \/ r \in todo /\ todo' = todo \ {r} /\ spent' >= spent + UsedBy(r)
  PROVE  Books'
<1>1. TypeOK
  BY DEF MInv, IInv
<1>2. \A q \in Requests : q # r => Spares(q)
  BY <1>1, Others
<1>3. Consuming(r)' = Consuming(r) /\ UsedBy(r)' = UsedBy(r) /\ (Open(r)' <=> Open(r))
  BY Consumes
<1>4. Paid(r)'
  BY <1>3 DEF Paid
<1>5. \A q \in Requests : Open(q)' /\ log'[q].term = <<>> => Open(q) /\ log[q].term = <<>>
  BY <1>3, Consumes
<1>6. Covered'
  BY <1>2, <1>3, <1>5, CoveredKept DEF MInv, Spares
<1>. QED BY <1>2, <1>4, <1>6 DEF Books, MInv, Spares

LEMMA PollBooks ==
  ASSUME MInv, IInv', NEW r \in Requests, PollRequest(r)
  PROVE  Books'
<1>1. /\ ctl \in {"running", "draining"} /\ step = <<>> /\ parent[r] = "waiting" /\ r \notin seen
      /\ log' = [log EXCEPT ![r].requested = file[r]]
      /\ UNCHANGED <<resp, todo, watch, mem, spent>>
  BY DEF PollRequest
<1>2. TypeOK /\ Stands(r) /\ file[r] \in Forms
  BY <1>1 DEF MInv, IInv, Stands, Flows, TypeOK, Forms
<1>3. /\ log[r] = NoEvents /\ resp[r] = <<>> /\ mem[r] = Fresh /\ ~Held(r) /\ watch[r] = "none"
  BY <1>1, <1>2 DEF Stands, Flows, Untouched
<1>4. NoEvents.att = <<>> /\ NoEvents.term = <<>> /\ Fresh.used = 0
  BY DEF NoEvents, Fresh
<1>5. UsedBy(r) = 0
  <2>1. Attempts(r) = 0
    BY <1>3, <1>4 DEF Attempts
  <2>. QED BY <1>2, <2>1, Counting
<1>6. log[r] \in Logs /\ log \in [Requests -> Logs]
  BY <1>2 DEF TypeOK
<1>7. /\ log'[r].att = log[r].att /\ log'[r].term = log[r].term
      /\ \A q \in Requests : q # r => log'[q] = log[q]
  BY <1>1, <1>6 DEF Logs
<1>8. ASSUME UNCHANGED pending, NEW status \in Statuses, NEW used \in Nat, NEW reused \in BOOLEAN,
             Respond(r, status, used, reused)
      PROVE  Books'
  <2>1. ~Held(r)' /\ watch'[r] = "none" /\ UsedBy(r) <= used
    BY <1>1, <1>3, <1>5, <1>8 DEF Held
  <2>2. Charged(r)
    BY <1>5, <1>8, <2>1, Charging
  <2>3. log[r].term = <<>> /\ log'[r].term = <<>> /\ ctl # "down"
    BY <1>1, <1>3, <1>4, <1>7
  <2>. QED BY <1>1, <1>3, <1>7, <1>8, <2>1, <2>2, <2>3, RespondBooks
<1>9. CASE pending' = Append(pending, r) /\ UNCHANGED step
  <2>1. \A q : ~Busy(q)'
    BY <1>1, <1>9 DEF Busy
  <2>. QED BY <1>1, <1>3, <1>4, <1>5, <1>7, <1>9, <2>1, QueueBooks
<1>10. "rejected" \in Statuses /\ 0 \in Nat
  BY DEF Statuses
<1>11. ASSUME cache[Packet[r]] # <<>>
       PROVE  cache[Packet[r]][1].status \in Statuses /\ cache[Packet[r]][1].used \in Nat
  <2>1. cache[Packet[r]] \in Seq(Answers)
    BY <1>2 DEF TypeOK
  <2>2. cache[Packet[r]][1] \in Answers
    BY <1>11, <2>1
  <2>. QED BY <2>2 DEF Answers
<1>. QED BY <1>8, <1>9, <1>10, <1>11 DEF PollRequest, Reuse

LEMMA RejectBooks ==
  ASSUME MInv, IInv', NEW r \in Requests, pending # <<>>, r = Head(pending),
         pending' = Tail(pending), NEW status \in Statuses, Respond(r, status, mem[r].used, FALSE),
         UNCHANGED <<resp, log, ctl, todo, watch, mem, spent>>
  PROVE  Books'
<1>1. TypeOK /\ Paid(r) /\ mem[r].used \in Nat /\ Sound
  BY Facts DEF MInv, IInv
<1>2. Held(r) /\ watch[r] = "none" /\ log[r].term = <<>>
  BY AtHead DEF MInv, Unanswered
<1>3. ~Held(r)'
  BY <1>1, HeldWithout DEF TypeOK, Sound
<1>4. UsedBy(r) = mem[r].used /\ ctl # "down"
  BY <1>1, <1>2 DEF Paid, Sound
<1>5. Charged(r)
  <2>1. UsedBy(r) <= mem[r].used
    BY <1>1, <1>4
  <2>2. Respond(r, status, mem[r].used, FALSE) => Charged(r)
    BY <1>1, <2>1, Charging
  <2>. QED BY <2>2
<1>. QED BY <1>2, <1>3, <1>4, <1>5, RespondBooks

LEMMA RejectPendingBooks ==
  ASSUME MInv, IInv', RejectPending
  PROVE  Books'
<1>1. PICK r \in Requests : r = Head(pending)
  <2>1. pending \in Seq(Requests) /\ pending # <<>>
    BY DEF MInv, IInv, TypeOK, RejectPending
  <2>. QED BY <2>1
<1>2. "stopped" \in Statuses
  BY DEF Statuses
<1>. QED BY <1>1, <1>2, RejectBooks DEF RejectPending, files

LEMMA CancelBooks ==
  ASSUME MInv, IInv', NEW r \in Requests, CancelActive(r)
  PROVE  Books'
<1>1. /\ watch' = [watch EXCEPT ![r] = "none"] /\ watch[r] # "none" /\ ctl = "stopping"
      /\ Respond(r, "cancelled", mem[r].used, FALSE)
      /\ UNCHANGED <<resp, log, ctl, todo, pending, mem, spent>>
  BY DEF CancelActive, files
<1>2. TypeOK /\ Paid(r) /\ mem[r].used \in Nat
  BY Facts DEF MInv, IInv
<1>3. ~Held(r) /\ log[r].term = <<>>
  BY <1>1, Watched DEF MInv, Unanswered
<1>4. UsedBy(r) = mem[r].used
  BY <1>1, <1>2 DEF Paid
<1>5. watch'[r] = "none" /\ \A q \in Requests : q # r => watch'[q] = watch[q]
  BY <1>1, <1>2, NewWatch
<1>6. "cancelled" \in Statuses /\ ~Held(r)'
  BY <1>1, <1>3 DEF Statuses, Held
<1>7. Charged(r)
  <2>1. UsedBy(r) <= mem[r].used
    BY <1>2, <1>4
  <2>2. Respond(r, "cancelled", mem[r].used, FALSE) => Charged(r)
    BY <1>2, <1>6, <2>1, Charging
  <2>. QED BY <1>1, <2>2
<1>. QED BY <1>1, <1>3, <1>5, <1>6, <1>7, RespondBooks

LEMMA SettleBooks ==
  ASSUME MInv, IInv', Settle
  PROVE  Books'
<1>1. PICK s \in Stages : s = step[1]
  BY InStep DEF MInv, IInv, Settle
<1>2. PICK r \in Requests : r = s.req
  BY <1>1 DEF Stages
<1>3. /\ step # <<>> /\ s.at = "settle" /\ s.used \in Nat /\ s.status \in Statuses
      /\ UNCHANGED <<resp, ctl, todo, watch, spent>>
  BY <1>1 DEF Settle, Stages
<1>4. TypeOK /\ Stands(r) /\ Busy(r) /\ Paid(r) /\ Busying(r, "settle") /\ Sound
  BY <1>1, <1>2, <1>3, InStep DEF MInv, IInv, Busying
<1>5. /\ ~Held(r) /\ watch[r] = "none" /\ log[r].term = <<>> /\ resp[r] = <<>> /\ ctl # "down"
      /\ mem[r].used = UsedBy(r) /\ UsedBy(r) <= s.used
  BY <1>1, <1>3, <1>4 DEF Stands, Flows, Unanswered, Sound, Paid
<1>6. /\ log'[r].att = log[r].att /\ log'[r].term = log[r].term
      /\ log'[r].requested = log[r].requested /\ mem'[r].used = mem[r].used
      /\ \A q \in Requests : q # r => log'[q] = log[q] /\ mem'[q] = mem[q]
  <2>1. log[r] \in Logs /\ log \in [Requests -> Logs] /\ mem[r] \in Memories
        /\ mem \in [Requests -> Memories]
    BY <1>4 DEF TypeOK
  <2>2. PICK c \in {"transient", "protocol"} : c = Class(s.status)
    BY DEF Class
  <2>3. PICK offered \in BOOLEAN : offered = (Continues(log[r].att[Attempts(r)].route, s.status)
                                    \/ log[r].att[Attempts(r)].route = "skipped")
    BY DEF Continues
  <2>4. \/ log' = [log EXCEPT ![r].fallback = TRUE] /\ mem' = [mem EXCEPT ![r].fallback = TRUE]
        \/ /\ log' = [log EXCEPT ![r].fallback = @ \/ offered,
                                  ![r].retries[c] = Max2(@, mem[r].retries[c] + 1)]
           /\ mem' = [mem EXCEPT ![r].fallback = @ \/ offered,
                                 ![r].retries[c] = mem[r].retries[c] + 1]
        \/ /\ log' = [log EXCEPT ![r].fallback = @ \/ offered]
           /\ mem' = [mem EXCEPT ![r].fallback = @ \/ offered]
    BY <1>1, <1>2, <2>2, <2>3 DEF Settle
  <2>5. PICK f, g, x, y :
          /\ f = (log[r].fallback \/ offered) /\ g = (mem[r].fallback \/ offered)
          /\ y = mem[r].retries[c] + 1 /\ x = Max2(log[r].retries[c], mem[r].retries[c] + 1)
    OBVIOUS
  <2>6. /\ log' \in {[log EXCEPT ![r].fallback = TRUE], [log EXCEPT ![r].fallback = f],
                    [log EXCEPT ![r].fallback = f, ![r].retries[c] = x]}
        /\ mem' \in {[mem EXCEPT ![r].fallback = TRUE], [mem EXCEPT ![r].fallback = g],
                    [mem EXCEPT ![r].fallback = g, ![r].retries[c] = y]}
    <3>1. CASE log' = [log EXCEPT ![r].fallback = TRUE] /\ mem' = [mem EXCEPT ![r].fallback = TRUE]
      BY <3>1
    <3>2. CASE /\ log' = [log EXCEPT ![r].fallback = @ \/ offered,
                                    ![r].retries[c] = Max2(@, mem[r].retries[c] + 1)]
               /\ mem' = [mem EXCEPT ![r].fallback = @ \/ offered,
                                    ![r].retries[c] = mem[r].retries[c] + 1]
      <4>1. log' = [log EXCEPT ![r].fallback = f, ![r].retries[c] = x]
        BY <2>1, <2>5, <3>2
      <4>2. mem' = [mem EXCEPT ![r].fallback = g, ![r].retries[c] = y]
        BY <2>1, <2>5, <3>2
      <4>. QED BY <4>1, <4>2
    <3>3. CASE /\ log' = [log EXCEPT ![r].fallback = @ \/ offered]
               /\ mem' = [mem EXCEPT ![r].fallback = @ \/ offered]
      BY <2>5, <3>3
    <3>. QED BY <2>4, <3>1, <3>2, <3>3
  <2>7. \A q \in Requests : q # r => log'[q] = log[q] /\ mem'[q] = mem[q]
    BY <2>1, <2>6
  <2>8. mem'[r].used = mem[r].used
    BY <2>1, <2>6 DEF Memories
  <2>9. /\ log'[r].att = log[r].att /\ log'[r].term = log[r].term
        /\ log'[r].requested = log[r].requested
    BY <2>1, <2>6 DEF Logs
  <2>. QED BY <2>7, <2>8, <2>9
<1>7. CASE pending' = Append(pending, r) /\ step' = <<>>
  <2>1. \A q : ~Busy(q)'
    BY <1>7, StepDone
  <2>. QED BY <1>3, <1>5, <1>6, <1>7, <2>1, QueueBooks
<1>8. CASE UNCHANGED pending /\ Respond(r, s.status, s.used, FALSE)
  <2>1. ~Held(r)'
    BY <1>5, <1>8 DEF Held
  <2>2. Charged(r)
    BY <1>3, <1>5, <1>8, Charging
  <2>. QED BY <1>3, <1>5, <1>6, <1>8, <2>1, <2>2, RespondBooks
<1>. QED BY <1>1, <1>2, <1>7, <1>8 DEF Settle

(***************************************************************************)
(* The recovery counts what the request has used.                          *)
(***************************************************************************)
\* A request that is only taken note of.
LEMMA DismissedBooks ==
  ASSUME MInv, IInv', NEW r \in Requests, Recovering(r), todo' = todo \ {r},
         spent' >= spent + UsedBy(r),
         UNCHANGED <<log, resp, mem, step, pending, watch>>
  PROVE  Books'
<1>1. \A q \in Requests : Spares(q)
  BY Spared DEF Held, Busy
<1>2. \A q \in Requests : Paid(q)' /\ Consuming(q)' = Consuming(q)
  BY <1>1 DEF MInv, Spares
<1>3. \A q \in Requests : Open(q)' <=> Open(q)
  BY Consumes
<1>4. Covered'
  BY <1>2, <1>3, CoveredKept DEF MInv, Recovering
<1>. QED BY <1>2, <1>4 DEF Books

LEMMA RecoverBooks ==
  ASSUME MInv, IInv', NEW r \in Requests, RecoverRequest(r)
  PROVE  Books'
<1>1. Recovering(r) /\ todo' = todo \ {r} /\ UNCHANGED resp
  BY DEF RecoverRequest, RecoverNothing, RecoverTerminal, RecoverResponse, Reattach, Redecide, files
<1>2. /\ TypeOK /\ Stands(r) /\ Paid(r) /\ ~Held(r) /\ watch[r] = "none" /\ ctl # "down" /\ step = <<>>
      /\ r \in todo /\ \A q : ~Busy(q)
  BY <1>1, InRecovery DEF MInv
<1>3. UsedBy(r) \in Nat /\ spent \in Nat /\ mem[r] \in Memories /\ mem \in [Requests -> Memories]
      /\ log[r] \in Logs /\ log \in [Requests -> Logs] /\ log[r].fallback \in BOOLEAN
      /\ log[r].retries \in Retries
  BY <1>2, Counting, Facts DEF TypeOK
<1>4. CASE RecoverNothing(r)
  <2>1. Attempts(r) = 0
    BY <1>2, <1>4 DEF RecoverNothing, Stands, Flows
  <2>2. UsedBy(r) = 0
    BY <1>2, <1>3, <2>1, Counting
  <2>3. UNCHANGED <<log, resp, mem, step, pending, watch, spent>>
    BY <1>4 DEF RecoverNothing, files
  <2>. QED BY <1>1, <1>3, <2>2, <2>3, DismissedBooks
<1>5. CASE RecoverTerminal(r)
  <2>1. log[r].term \in Seq(Terminal) /\ log[r].term # <<>> /\ Len(log[r].term) <= 1
    BY <1>2, <1>5, Facts DEF RecoverTerminal, Stands, OneResponse
  <2>2. PICK t \in Terminal : t = log[r].term[1] /\ log[r].term[Len(log[r].term)] = t
    BY <2>1
  <2>3. UsedBy(r) <= t.used /\ (t.reused => UsedBy(r) = 0) /\ t.used \in Nat /\ t.reused \in BOOLEAN
    BY <1>2, <2>1, <2>2 DEF Paid, Terminal
  <2>4. spent' = spent + (IF t.reused THEN 0 ELSE t.used)
    BY <1>5, <2>2 DEF RecoverTerminal
  <2>5. spent' >= spent + UsedBy(r)
    BY <1>3, <2>3, <2>4
  <2>6. UNCHANGED <<log, resp, mem, step, pending, watch>>
    BY <1>5 DEF RecoverTerminal, files
  <2>. QED BY <1>1, <2>5, <2>6, DismissedBooks
<1>6. CASE RecoverResponse(r)
  <2>1. resp[r] \in Seq(Answers) /\ resp[r] # <<>> /\ log[r].requested = "valid" /\ log[r].term = <<>>
    BY <1>2, <1>6, Facts DEF RecoverResponse
  <2>2. PICK status \in Statuses, used \in Nat : resp[r][1].status = status /\ resp[r][1].used = used
    <3>1. resp[r][1] \in Answers
      BY <2>1
    <3>. QED BY <3>1 DEF Answers
  <2>3. UsedBy(r) <= used
    BY <1>2, <2>1, <2>2 DEF Paid
  <2>4. /\ Respond(r, status, used, FALSE) /\ spent' = spent + used
        /\ UNCHANGED <<log, mem, pending, watch>>
    BY <1>6, <2>2 DEF RecoverResponse, files
  <2>5. ~Held(r)' /\ watch'[r] = "none" /\ spent' >= spent + UsedBy(r)
    BY <1>2, <1>3, <2>3, <2>4 DEF Held
  <2>6. Charged(r)
    BY <2>3, <2>4, Charging
  <2>. QED BY <1>1, <1>2, <2>1, <2>4, <2>5, <2>6, RespondBooks
<1>7. CASE Reattach(r)
  <2>1. /\ log[r].term = <<>> /\ resp[r] = <<>> /\ watch' = [watch EXCEPT ![r] = "look"]
        /\ mem' = [mem EXCEPT ![r] = Remembered(r)] /\ spent' = spent + UsedBy(r)
        /\ UNCHANGED <<log, pending, step>>
    BY <1>7 DEF Reattach, files
  <2>2. mem'[r].used = UsedBy(r) /\ \A q \in Requests : q # r => mem'[q] = mem[q]
    BY <1>3, <2>1 DEF Remembered
  <2>3. \A q \in Requests : q # r => watch'[q] = watch[q]
    BY <1>2, <2>1, NewWatch
  <2>4. \A q : ~Busy(q)'
    BY <1>2, <2>1, StepDone
  <2>5. spent' >= spent + UsedBy(r)
    BY <1>3, <2>1
  <2>. QED BY <1>1, <1>2, <2>1, <2>2, <2>3, <2>4, <2>5, QueueBooks
<1>8. CASE Redecide(r)
  <2>1. /\ log[r].term = <<>> /\ resp[r] = <<>> /\ spent' = spent + UsedBy(r) /\ UNCHANGED watch
        /\ log[r].requested = "valid" /\ ~Open(r)
    BY <1>8 DEF Redecide
  <2>2. PICK used \in Nat : used = UsedBy(r)
    BY <1>3
  <2>3. Remembered(r) \in Memories /\ Remembered(r).used = used
    BY <1>3, <2>2 DEF Remembered, Memories
  <2>4. /\ mem'[r].used = used
        /\ \A q \in Requests : q # r => mem'[q] = mem[q]
    BY <1>3, <1>8, <2>3 DEF Redecide, Memories
  <2>5. /\ log'[r].att = log[r].att /\ log'[r].term = log[r].term
        /\ log'[r].requested = log[r].requested
        /\ \A q \in Requests : q # r => log'[q] = log[q]
    BY <1>3, <1>8 DEF Redecide, Logs
  <2>6. spent' >= spent + UsedBy(r)
    BY <1>3, <2>1
  <2>7. CASE pending' = Append(pending, r) /\ UNCHANGED step
    <3>1. \A q : ~Busy(q)'
      BY <1>2, <2>7, StepDone
    <3>. QED BY <1>1, <1>2, <2>1, <2>2, <2>4, <2>5, <2>6, <2>7, <3>1, QueueBooks
  <2>8. ASSUME NEW o \in Statuses, Respond(r, o, used, FALSE), UNCHANGED pending
        PROVE  Books'
    <3>1. ~Held(r)' /\ watch'[r] = "none"
      BY <1>2, <2>1, <2>8 DEF Held
    <3>2. Charged(r)
      <4>1. UsedBy(r) <= used
        BY <1>3, <2>2
      <4>2. Respond(r, o, used, FALSE) => Charged(r)
        BY <4>1, Charging
      <4>. QED BY <2>8, <4>2
    <3>. QED BY <1>1, <1>2, <2>1, <2>4, <2>5, <2>6, <2>8, <3>1, <3>2, RespondBooks
  <2>9. \/ pending' = Append(pending, r) /\ UNCHANGED step
        \/ /\ Attempts(r) # 0 /\ Respond(r, Undecided(r, Attempts(r)).out, used, FALSE)
           /\ UNCHANGED pending
    BY <1>8, <2>2 DEF Redecide
  <2>10. Attempts(r) # 0 => Undecided(r, Attempts(r)).out \in Statuses
    <3> SUFFICES ASSUME Attempts(r) # 0
                 PROVE  Undecided(r, Attempts(r)).out \in Statuses
      OBVIOUS
    <3>1. Attempts(r) \in 1 .. Attempts(r) /\ log[r].att[Attempts(r)].out # "open"
      BY <1>2, <2>1, Facts DEF Open
    <3>. QED BY <1>2, <3>1, UndecidedFacts
  <2>. QED BY <2>7, <2>8, <2>9, <2>10
<1>. QED BY <1>4, <1>5, <1>6, <1>7, <1>8 DEF RecoverRequest

(***************************************************************************)
(* An attempt starts: it may cost what the governor has left.              *)
(***************************************************************************)
LEMMA LaunchBooks ==
  ASSUME MInv, IInv', NEW r \in Requests, Launch(r)
  PROVE  Books'
<1>1. /\ ctl = "running" /\ step = <<>> /\ pending # <<>> /\ r = Head(pending)
      /\ pending' = Tail(pending)
      /\ UNCHANGED <<resp, ctl, todo, mem, spent>>
  BY DEF Launch
<1>2. /\ TypeOK /\ Paid(r) /\ Held(r) /\ watch[r] = "none" /\ Unanswered(r) /\ Settled(r) /\ todo = {}
      /\ mem[r].used = UsedBy(r)
  <2>1. TypeOK /\ Paid(r) /\ todo = {}
    BY <1>1 DEF MInv, IInv, Sound
  <2>2. Held(r) /\ watch[r] = "none" /\ Unanswered(r) /\ Settled(r)
    BY <1>1, AtHead DEF MInv
  <2>. QED BY <2>1, <2>2 DEF Paid
<1>3. CASE Respond(r, "rejected", mem[r].used, FALSE) /\ UNCHANGED <<log, proc, watch>>
  <2>1. "rejected" \in Statuses
    BY DEF Statuses
  <2>. QED BY <1>1, <1>3, <2>1, RejectBooks
<1>4. ASSUME ~(spent + Cardinality(Running) + 1 > Budget), NEW route \in {"primary", "fallback"},
             log' = [log EXCEPT ![r].att = Append(@, [route |-> route, out |-> "open"])],
             watch' = [watch EXCEPT ![r] = "own"], UNCHANGED step
      PROVE  Books'
  <2>1. /\ log[r] \in Logs /\ log \in [Requests -> Logs] /\ log[r].att \in Seq(Attempt)
        /\ Attempts(r) \in Nat
    BY <1>2, Facts DEF TypeOK
  <2>2. PICK n \in Nat : n = Attempts(r)
    BY <2>1
  <2>3. /\ log'[r].att = Append(log[r].att, [route |-> route, out |-> "open"])
        /\ log'[r].term = log[r].term /\ log'[r].requested = log[r].requested
        /\ \A q \in Requests : q # r => log'[q] = log[q]
    BY <1>4, <2>1 DEF Logs
  <2>4. /\ Attempts(r)' = n + 1 /\ log'[r].att[n + 1].out = "open"
        /\ \A a \in 1 .. n : log'[r].att[a] = log[r].att[a]
    BY <2>1, <2>2, <2>3 DEF Attempts
  <2>5. Consuming(r)' = Consuming(r)
    <3>1. \A a : a \in 1 .. (n + 1) <=> a \in 1 .. n \/ a = n + 1
      BY <2>2
    <3>2. Finished(r)' = Finished(r)
      BY <2>2, <2>4, <3>1 DEF Finished
    <3>3. Finished(r) \subseteq 1 .. n
      BY <2>2 DEF Finished
    <3>. QED BY <2>4, <3>2, <3>3 DEF Consuming
  <2>6. UsedBy(r)' = UsedBy(r)
    BY <2>5 DEF UsedBy
  <2>7. \A q \in Requests : q # r => watch'[q] = watch[q]
    BY <1>2, <1>4, NewWatch
  <2>8. \A q : ~Busy(q)'
    BY <1>1, <1>4, StepDone
  <2>9. \A q \in Requests : q # r => Spares(q)
    BY <1>1, <1>2, <2>3, <2>7, <2>8, Others
  <2>10. Paid(r)'
    BY <1>1, <1>2, <2>3, <2>6, <2>8 DEF Paid, Unanswered
  <2>11. Owed \subseteq Running
    <3> SUFFICES ASSUME NEW q \in Requests, Open(q), log[q].term = <<>>
                 PROVE  watch[q] # "none"
      BY DEF Owed, Running
    <3>1. Stands(q) /\ ~Busy(q) /\ q \notin todo /\ ctl # "down"
      BY <1>1, <1>2 DEF MInv, IInv, Busy
    <3>2. ~Settled(q) /\ Attempts(q) # 0
      BY <1>2, Facts DEF Open, Settled, LastOut
    <3>. QED BY <3>1, <3>2 DEF Stands, Flows
  <2>12. Cardinality(Owed)' <= Cardinality(Running) + 1
         /\ Cardinality(Owed)' \in Nat /\ Cardinality(Running) \in Nat
    <3>1. Owed' \subseteq Running \cup {r}
      <4> SUFFICES ASSUME NEW q \in Requests, q # r, Open(q)', log'[q].term = <<>>
                   PROVE  q \in Running
        BY DEF Owed
      <4>1. Open(q) /\ log[q].term = <<>>
        BY <2>3, Consumes
      <4>. QED BY <2>11, <4>1 DEF Owed
    <3>2. /\ IsFiniteSet(Running) /\ Cardinality(Running) \in Nat
          /\ IsFiniteSet(Running \cup {r})
          /\ Cardinality(Running \cup {r}) \in {Cardinality(Running), Cardinality(Running) + 1}
      BY OwedFinite, FS_AddElement
    <3>3. IsFiniteSet(Owed') /\ Cardinality(Owed') <= Cardinality(Running \cup {r})
      BY <3>1, <3>2, FS_Subset
    <3>4. Cardinality(Owed') \in Nat
      BY <3>3, FS_CardinalityType
    <3>. QED BY <3>2, <3>3, <3>4
  <2>13. \A q \in Requests : Consuming(q)' = Consuming(q)
    BY <2>5, <2>9 DEF Spares
  <2>14. /\ ConsumedOf(Requests)' = ConsumedOf(Requests)
         /\ ConsumedOf(Requests \ todo)' = ConsumedOf(Requests)
    BY <1>1, <1>2, <2>13 DEF ConsumedOf
  <2>15. Cardinality(ConsumedOf(Requests)) \in Nat /\ Cardinality(ConsumedOf(Requests)) <= spent
         /\ spent \in Nat
    <3>1. Cardinality(ConsumedOf(Requests)) \in Nat /\ spent \in Nat
      BY <1>2, ConsumedFinite DEF TypeOK
    <3>2. Requests \ todo = Requests
      BY <1>2
    <3>3. Cardinality(ConsumedOf(Requests)) <= spent
      BY <1>1, <3>2 DEF MInv, Covered
    <3>. QED BY <3>1, <3>3
  <2>16. Cardinality(ConsumedOf(Requests)') + Cardinality(Owed)' <= Budget
    BY <1>4, <2>12, <2>14, <2>15, Constants
  <2>17. Covered'
    BY <1>1, <2>14, <2>15, <2>16 DEF Covered
  <2>. QED BY <2>9, <2>10, <2>17 DEF Books, MInv, Spares
<1>. QED BY <1>3, <1>4 DEF Launch

(***************************************************************************)
(* The outcome of an attempt is recorded: it costs what it used.           *)
(***************************************************************************)
LEMMA CollectedBooks ==
  ASSUME MInv, IInv', NEW r \in Requests, NEW o \in Statuses, watch[r] # "none", Collected(r, o)
  PROVE  Books'
<1>1. PICK n : n = Attempts(r)
  OBVIOUS
<1>2. PICK x \in {0, 1} : x = Tokens(o)
  BY DEF Tokens
<1>3. PICK route \in {"primary", "fallback", "skipped"} : route = RouteTaken(r, n)
  <2>1. TypeOK /\ Open(r)
    BY Watched DEF MInv, IInv
  <2>2. n \in 1 .. Attempts(r)
    BY <1>1, <2>1, Facts DEF Open
  <2>3. log[r].att[n] \in Attempt
    BY <2>1, <2>2, Facts
  <2>. QED BY <2>3 DEF RouteTaken, Attempt
<1>4. /\ log' = [log EXCEPT ![r].att[n] = [route |-> route, out |-> o]]
      /\ watch' = [watch EXCEPT ![r] = "none"] /\ mem' = [mem EXCEPT ![r].used = @ + x]
      /\ spent' = spent + x
      /\ step' = <<Stage(r, "settle", o, mem[r].used + x, FALSE)>>
      /\ UNCHANGED <<resp, ctl, todo, pending>>
  BY <1>1, <1>2, <1>3 DEF Collected
<1>5. /\ TypeOK /\ Paid(r) /\ r \notin todo /\ ~Held(r) /\ Unanswered(r) /\ Open(r)
      /\ mem[r].used = UsedBy(r) /\ ctl # "down"
  <2>1. TypeOK /\ Paid(r) /\ r \notin todo /\ ~Held(r) /\ Unanswered(r) /\ Open(r) /\ ctl # "down"
    BY Watched DEF MInv, IInv, Sound
  <2>. QED BY <2>1 DEF Paid
<1>6. /\ log[r] \in Logs /\ log \in [Requests -> Logs] /\ log[r].att \in Seq(Attempt)
      /\ n \in Nat /\ n \in 1 .. n /\ DOMAIN log[r].att = 1 .. n /\ mem[r] \in Memories
      /\ mem \in [Requests -> Memories] /\ mem[r].used \in Nat /\ spent \in Nat /\ UsedBy(r) \in Nat
      /\ IsFiniteSet(Consuming(r)) /\ n \notin Consuming(r)
  <2>1. /\ log[r] \in Logs /\ log \in [Requests -> Logs] /\ log[r].att \in Seq(Attempt)
        /\ n \in Nat /\ DOMAIN log[r].att = 1 .. n /\ mem[r] \in Memories
        /\ mem \in [Requests -> Memories] /\ mem[r].used \in Nat /\ spent \in Nat
        /\ UsedBy(r) \in Nat /\ IsFiniteSet(Consuming(r))
    BY <1>1, <1>5, Facts, Counting DEF TypeOK
  <2>2. n > 0 /\ log[r].att[n].out = "open"
    BY <1>1, <1>5 DEF Open
  <2>. QED BY <2>1, <2>2 DEF Consuming, Finished
<1>7. /\ log'[r].att = [log[r].att EXCEPT ![n] = [route |-> route, out |-> o]]
      /\ log'[r].term = log[r].term /\ log'[r].requested = log[r].requested
      /\ mem'[r].used = mem[r].used + x
      /\ \A q \in Requests : q # r => log'[q] = log[q] /\ mem'[q] = mem[q]
  BY <1>4, <1>6 DEF Logs, Memories
<1>8. /\ Attempts(r)' = n /\ log'[r].att[n].out = o
      /\ \A a \in 1 .. n : a # n => log'[r].att[a] = log[r].att[a]
  BY <1>1, <1>6, <1>7 DEF Attempts
<1>9. o # "open"
  BY DEF Statuses, WorkerOutcomes
<1>10. Consuming(r)' = IF x = 1 THEN Consuming(r) \cup {n} ELSE Consuming(r)
  <2>1. Finished(r)' = Finished(r) \cup {n}
    BY <1>1, <1>6, <1>8, <1>9 DEF Finished
  <2>2. Finished(r) \subseteq 1 .. n
    BY <1>1 DEF Finished
  <2>3. \A a \in Finished(r) : a # n => Tokens(log'[r].att[a].out) = Tokens(log[r].att[a].out)
    BY <1>8, <2>2
  <2>4. n \notin Finished(r)
    BY <1>1, <1>5 DEF Finished, Open
  <2>5. Tokens(log'[r].att[n].out) = x
    BY <1>2, <1>8
  <2>. QED BY <1>2, <2>1, <2>3, <2>4, <2>5 DEF Consuming
<1>11. UsedBy(r)' = UsedBy(r) + x
  <2>1. Cardinality(Consuming(r) \cup {n}) = Cardinality(Consuming(r)) + 1
    BY <1>6, FS_AddElement
  <2>. QED BY <1>6, <1>10, <2>1 DEF UsedBy
<1>12. /\ watch'[r] = "none" /\ \A q \in Requests : q # r => watch'[q] = watch[q]
  BY <1>4, <1>5, NewWatch
<1>13. /\ step'[1].at = "settle" /\ step'[1].used = mem[r].used + x /\ step'[1].reused = FALSE
       /\ \A q : Busy(q)' <=> q = r
  BY <1>4 DEF Stage, Busy
<1>14. \A q \in Requests : q # r => Spares(q)
  BY <1>4, <1>5, <1>7, <1>12, <1>13, Others
<1>15. Paid(r)'
  <2>1. resp'[r] = <<>> /\ log'[r].term = <<>>
    BY <1>4, <1>5, <1>7 DEF Unanswered
  <2>2. /\ mem'[r].used = UsedBy(r)' /\ step'[1].used = UsedBy(r)' /\ UsedBy(r)' \in Nat
        /\ step'[1].reused = FALSE
    BY <1>5, <1>6, <1>7, <1>11, <1>13
  <2>. QED BY <2>1, <2>2 DEF Paid
<1>16. ASSUME NEW S \in SUBSET Requests
       PROVE  /\ Cardinality(ConsumedOf(S)') <= Cardinality(ConsumedOf(S)) + x
              /\ Cardinality(ConsumedOf(S)') \in Nat /\ Cardinality(ConsumedOf(S)) \in Nat
  <2>1. ConsumedOf(S)' \subseteq (IF x = 1 THEN ConsumedOf(S) \cup {<<r, n>>} ELSE ConsumedOf(S))
    <3>1. \A q \in S : Consuming(q)' \subseteq Consuming(q) \cup
                         (IF q = r /\ x = 1 THEN {n} ELSE {})
      BY <1>10, <1>14 DEF Spares
    <3>. QED BY <3>1 DEF ConsumedOf
  <2>2. IsFiniteSet(ConsumedOf(S)) /\ Cardinality(ConsumedOf(S)) \in Nat
    BY <1>5, ConsumedFinite
  <2>3. /\ IsFiniteSet(ConsumedOf(S) \cup {<<r, n>>})
        /\ Cardinality(ConsumedOf(S) \cup {<<r, n>>}) \in
             {Cardinality(ConsumedOf(S)), Cardinality(ConsumedOf(S)) + 1}
    BY <2>2, FS_AddElement
  <2>4. CASE x = 1
    <3>1. /\ IsFiniteSet(ConsumedOf(S)')
          /\ Cardinality(ConsumedOf(S)') <= Cardinality(ConsumedOf(S) \cup {<<r, n>>})
      BY <2>1, <2>3, <2>4, FS_Subset
    <3>2. Cardinality(ConsumedOf(S)') \in Nat
      BY <3>1, FS_CardinalityType
    <3>. QED BY <2>2, <2>3, <2>4, <3>1, <3>2
  <2>5. CASE x = 0
    <3>1. /\ IsFiniteSet(ConsumedOf(S)')
          /\ Cardinality(ConsumedOf(S)') <= Cardinality(ConsumedOf(S))
      BY <2>1, <2>2, <2>5, FS_Subset
    <3>2. Cardinality(ConsumedOf(S)') \in Nat
      BY <3>1, FS_CardinalityType
    <3>. QED BY <2>2, <2>5, <3>1, <3>2
  <2>. QED BY <2>4, <2>5
<1>17. /\ Cardinality(Owed)' + 1 <= Cardinality(Owed) /\ Cardinality(Owed)' \in Nat
       /\ Cardinality(Owed) \in Nat
  <2>1. r \in Owed
    BY <1>5 DEF Owed, Unanswered
  <2>2. Owed' \subseteq Owed \ {r}
    <3> SUFFICES ASSUME NEW q \in Requests, Open(q)', log'[q].term = <<>>
                 PROVE  q # r /\ Open(q) /\ log[q].term = <<>>
      BY DEF Owed
    <3>1. ~Open(r)'
      BY <1>8, <1>9 DEF Open
    <3>2. q # r
      BY <3>1
    <3>. QED BY <1>7, <3>2, Consumes
  <2>3. IsFiniteSet(Owed) /\ Cardinality(Owed) \in Nat
    BY OwedFinite
  <2>4. IsFiniteSet(Owed \ {r}) /\ Cardinality(Owed \ {r}) = Cardinality(Owed) - 1
    BY <2>1, <2>3, FS_RemoveElement
  <2>5. IsFiniteSet(Owed') /\ Cardinality(Owed') <= Cardinality(Owed \ {r})
    BY <2>2, <2>4, FS_Subset
  <2>6. Cardinality(Owed') \in Nat
    BY <2>5, FS_CardinalityType
  <2>. QED BY <2>3, <2>4, <2>5, <2>6
<1>18. Cardinality(ConsumedOf(Requests \ todo)') <= spent'
  <2>1. Cardinality(ConsumedOf(Requests \ todo)) <= spent
    BY <1>5 DEF MInv, Covered
  <2>2. PICK S \in SUBSET Requests : S = Requests \ todo
    OBVIOUS
  <2>3. ConsumedOf(Requests \ todo)' = ConsumedOf(S)' /\ ConsumedOf(Requests \ todo) = ConsumedOf(S)
    <3>1. S' = S /\ todo' = todo
      BY <1>4
    <3>. QED BY <2>2, <3>1 DEF ConsumedOf
  <2>. QED BY <1>4, <1>6, <1>16, <2>1, <2>3
<1>19. Cardinality(ConsumedOf(Requests)') + Cardinality(Owed)' <= Budget
  <2>1. Cardinality(ConsumedOf(Requests)) + Cardinality(Owed) <= Budget
    BY DEF MInv, Covered
  <2>. QED BY <1>16, <1>17, <2>1, Constants
<1>20. Covered'
  BY <1>18, <1>19 DEF Covered
<1>. QED BY <1>14, <1>15, <1>20 DEF Books, MInv, Spares

LEMMA ObserveBooks ==
  ASSUME MInv, IInv', NEW r \in Requests,
         \/ Collect(r) \/ EnvelopeOver(r) \/ LookForFiles(r) \/ LookAtProcess(r)
         \/ \E fresh \in BOOLEAN : LeaseOver(r, fresh)
  PROVE  Books'
<1>1. {"nodir", "envelope", "unknown", "uncertain"} \cup WorkerOutcomes \subseteq Statuses
  BY DEF Statuses
<1>2. ASSUME NEW w \in {"look", "pid"}, watch' = [watch EXCEPT ![r] = w], watch[r] # "none",
             UNCHANGED <<files, mem, step, pending, todo, spent, ctl>>
      PROVE  Books'
  <2>1. \A q \in Requests : watch'[q] # "none" => watch[q] # "none"
    BY <1>2, NewWatch DEF MInv, IInv
  <2>2. ctl # "down"
    BY <1>2 DEF MInv, IInv, Sound
  <2>. QED BY <1>2, <2>1, <2>2, NoCost DEF files
<1>3. CASE Collect(r)
  <2>1. Last(r) # "dead" => Last(r) \in WorkerOutcomes
    BY <1>3 DEF Collect
  <2>. QED BY <1>1, <1>3, <2>1, CollectedBooks DEF Collect
<1>4. CASE EnvelopeOver(r)
  BY <1>1, <1>4, CollectedBooks DEF EnvelopeOver
<1>5. CASE LookForFiles(r)
  BY <1>1, <1>2, <1>5, CollectedBooks DEF LookForFiles
<1>6. CASE LookAtProcess(r)
  BY <1>1, <1>2, <1>6, CollectedBooks DEF LookAtProcess
<1>7. ASSUME NEW fresh \in BOOLEAN, LeaseOver(r, fresh)
      PROVE  Books'
  BY <1>1, <1>7, CollectedBooks DEF LeaseOver
<1>. QED BY <1>3, <1>4, <1>5, <1>6, <1>7

LEMMA InitBooks == Init => MInv
<1> SUFFICES ASSUME Init
             PROVE  MInv
  OBVIOUS
<1>1. IInv /\ TypeOK
  BY InitSound DEF IInv
<1>2. ASSUME NEW q \in Requests
      PROVE  UsedBy(q) = 0 /\ Consuming(q) = {} /\ ~Open(q) /\ log[q].term = <<>> /\ resp[q] = <<>>
             /\ mem[q].used = 0 /\ ~Busy(q)
  <2>1. log[q] = NoEvents /\ resp[q] = <<>> /\ mem[q] = Fresh /\ step = <<>>
    BY DEF Init
  <2>2. Attempts(q) = 0
    BY <2>1 DEF Attempts, NoEvents
  <2>3. Consuming(q) = {} /\ ~Open(q)
    BY <2>2 DEF Consuming, Finished, Open
  <2>. QED BY <2>1, <2>3, FS_EmptySet DEF UsedBy, NoEvents, Fresh, Busy
<1>3. \A q \in Requests : Paid(q)
  BY <1>2 DEF Paid
<1>4. ConsumedOf(Requests) = {} /\ ConsumedOf(Requests \ todo) = {} /\ Owed = {} /\ spent = 0
  BY <1>2 DEF ConsumedOf, Owed, Init
<1>5. Covered
  BY <1>4, FS_EmptySet, Constants DEF Covered
<1>. QED BY <1>1, <1>3, <1>5 DEF MInv

LEMMA NextBooks ==
  ASSUME MInv, [Next]_vars
  PROVE  MInv'
<1>1. IInv'
  BY NextSound DEF MInv
<1>2. CASE ClientStep \/ WorkerStep \/ Stopped \/ UNCHANGED vars
  BY <1>1, <1>2, QuietBooks DEF MInv, Books
<1>3. CASE LoopStep
  BY <1>1, <1>3, WriteBooks, RecordBooks, SettleBooks, PollBooks, LaunchBooks, ObserveBooks
     DEF LoopStep, MInv, Books
<1>4. CASE EndStep
  BY <1>1, <1>4, QuietBooks, RejectPendingBooks, CancelBooks DEF EndStep, MInv, Books
<1>5. CASE RecoveryStep
  BY <1>1, <1>5, QuietBooks, DeathBooks, RecoverBooks DEF RecoveryStep, MInv, Books
<1>. QED BY <1>2, <1>3, <1>4, <1>5 DEF Next

(***************************************************************************)
(* The tokens that were consumed, and one more for every attempt that      *)
(* still runs, never exceed the budget of the run, and the governor, which *)
(* a restart builds again from the log, never counts fewer than were used; *)
(* the attempts of a request are bounded as well (recover and the dispatch *)
(* of the controller).                                                     *)
(***************************************************************************)
THEOREM SpendingIsBounded == Spec => []SpendingBounded
<1>1. MInv => BudgetKept
  <2> SUFFICES ASSUME MInv, ctl \in {"running", "draining", "stopping"}
               PROVE  Consumed <= spent /\ Consumed + Cardinality(Running) <= Budget
    BY DEF BudgetKept
  <2>1. TypeOK /\ Requests \ todo = Requests
    BY DEF MInv, IInv, Sound
  <2>2. Consumed = Cardinality(ConsumedOf(Requests)) /\ Consumed \in Nat
    BY <2>1, ConsumedFinite DEF Consumed, ConsumedOf
  <2>3. Running \subseteq Owed
    BY Watched DEF Running, Owed, MInv, Unanswered
  <2>4. Cardinality(Running) <= Cardinality(Owed) /\ Cardinality(Running) \in Nat
        /\ Cardinality(Owed) \in Nat
    BY <2>3, OwedFinite, FS_Subset
  <2>5. Consumed <= spent
    BY <2>1, <2>2 DEF MInv, Covered
  <2>6. Consumed + Cardinality(Owed) <= Budget
    BY <2>2 DEF MInv, Covered
  <2>. QED BY <2>2, <2>4, <2>5, <2>6, Constants
<1>2. MInv /\ [Next]_vars => MInv'
  BY NextBooks
<1>. QED BY <1>1, <1>2, InitBooks, AttemptsAreBounded, PTL DEF Spec, SpendingBounded
=============================================================================
