-------------------------- MODULE MechanicalBroker --------------------------
(* The broker that runs one-shot mechanical subtasks for the model jobs: the *)
(* client in the parent's workspace (delegate_mechanical_task.py), the       *)
(* controller's queue, dispatch, retry and fallback policy (controller.py),  *)
(* the runner process with its result files and lease                        *)
(* (mechanical/__init__.py, run_worker.py), and the recovery of all that     *)
(* from the event log after the controller died.  The runner has its own     *)
(* session: it survives the controller.                                      *)
EXTENDS Integers, Sequences, FiniteSets

CONSTANTS
    Requests,         \* (parent job, subtask) pairs
    Packet,           \* the (parent task, subtask, packet hash) of a request
    Capacity,         \* subtasks that may run at once
    MaxQueue,         \* queued and running subtasks before backpressure
    TransientRetries, \* retries of a transient failure
    ProtocolRetries,  \* retries of a malformed result
    Budget,           \* tokens of the mechanical governor; an attempt costs one
    Outcomes,         \* bound: the outcomes of a worker that are enumerated
    MaxStarts         \* bound: controller processes of one run

ASSUME BrokerAssumption ==
    /\ IsFiniteSet(Requests)
    /\ TransientRetries \in Nat /\ ProtocolRetries \in Nat /\ Budget \in Nat
    /\ Outcomes \subseteq {"ok", "timeout", "protocol", "unavailable", "quota", "failed"}

VARIABLES
    parent,  \* the job that asks: idle, waiting, ended
    file,    \* the request file: none, valid, invalid
    resp,    \* the response file, <<>> or <<response>>
    log,     \* the run's events, by request
    proc,    \* the runner processes of a request, by attempt
    broken,  \* the primary route is recorded as unavailable
    ctl,     \* the controller: down, recovering, running, draining, stopping, finished
    starts,  \* controller processes so far
    todo,    \* requests recover() has not looked at yet
    step,    \* what the controller is in the middle of, <<>> or <<stage>>
    seen,    \* _mechanical_request_keys
    pending, \* pending_mechanical
    watch,   \* active_mechanical: how a request's attempt is observed, or none
    mem,     \* MechanicalRequestState by request
    cache,   \* _mechanical_result_cache by packet, <<>> or <<response>>
    spent    \* tokens recorded by the governor

files == <<file, resp, log, broken>>
volatile == <<todo, step, seen, pending, watch, mem, cache, spent>>
vars == <<parent, files, proc, ctl, starts, volatile>>

Max2(a, b) == IF a > b THEN a ELSE b

(***************************************************************************)
(* What an attempt comes to.  The runner writes the first six; the         *)
(* controller makes up the others when there is no result.                 *)
(***************************************************************************)
WorkerOutcomes == {"ok", "timeout", "protocol", "unavailable", "quota", "failed"}
Retryable == {"timeout", "protocol", "envelope", "unknown"}
Class(o) == IF o = "protocol" THEN "protocol" ELSE "transient"
Allowed(c) == IF c = "protocol" THEN ProtocolRetries ELSE TransientRetries
Tokens(o) == IF o \in WorkerOutcomes THEN 1 ELSE 0

\* The runner asks for one continuation on the other route.
Continues(route, o) == route = "primary" /\ o \in {"timeout", "unavailable", "quota"}

NoRetries == [c \in {"transient", "protocol"} |-> 0]
Fresh == [fallback |-> FALSE, retries |-> NoRetries, recovered |-> FALSE, used |-> 0]
NoEvents == [requested |-> "none", att |-> <<>>, fallback |-> FALSE,
             retries |-> NoRetries, term |-> <<>>]

Running == {r \in Requests : watch[r] # "none"}
Attempts(r) == Len(log[r].att)
Open(r) == Attempts(r) > 0 /\ log[r].att[Attempts(r)].out = "open"

Init ==
    /\ parent = [r \in Requests |-> "idle"]
    /\ file = [r \in Requests |-> "none"]
    /\ resp = [r \in Requests |-> <<>>]
    /\ log = [r \in Requests |-> NoEvents]
    /\ proc = [r \in Requests |-> <<>>]
    /\ broken = FALSE
    /\ ctl = "running"
    /\ starts = 1
    /\ todo = {}
    /\ step = <<>>
    /\ seen = {}
    /\ pending = <<>>
    /\ watch = [r \in Requests |-> "none"]
    /\ mem = [r \in Requests |-> Fresh]
    /\ cache = [p \in {Packet[r] : r \in Requests} |-> <<>>]
    /\ spent = 0

(* The verdict of validate_mechanical_request and of the packet check it     *)
(* calls: a request is accepted as it stands or refused as a whole.        *)
Forms == {"valid", "invalid"}

(***************************************************************************)
(* The parent job: its client writes one request file and polls for the    *)
(* response.  A later job of the same task is started only when the        *)
(* earlier one has ended, and asks for the same packet again.              *)
(***************************************************************************)
Ask(r, form) ==
    /\ ctl = "running" /\ step = <<>> /\ parent[r] = "idle"
    /\ \A q \in Requests \ {r} : Packet[q] = Packet[r] => parent[q] # "waiting"
    /\ parent' = [parent EXCEPT ![r] = "waiting"]
    /\ file' = [file EXCEPT ![r] = form]
    /\ UNCHANGED <<resp, log, broken, proc, ctl, starts, volatile>>

\* The client has its answer, or its deadline passes; then the job ends.
ParentEnds(r) ==
    /\ parent[r] = "waiting" /\ ctl \in {"running", "draining"} /\ step = <<>>
    /\ parent' = [parent EXCEPT ![r] = "ended"]
    /\ UNCHANGED <<files, proc, ctl, starts, volatile>>

(***************************************************************************)
(* Terminal responses: the response file first, then the terminal event.   *)
(***************************************************************************)
Stage(r, at, status, used, reused) ==
    [req |-> r, at |-> at, status |-> status, used |-> used, reused |-> reused]
Respond(r, status, used, reused) == step' = <<Stage(r, "respond", status, used, reused)>>

WriteResponse ==
    /\ step # <<>> /\ step[1].at = "respond"
    /\ LET s == step[1]
           a == [status |-> s.status, used |-> s.used] IN
       /\ resp' = [resp EXCEPT ![s.req] = <<a>>]
       /\ cache' = [cache EXCEPT ![Packet[s.req]] = <<a>>]
       /\ step' = <<[s EXCEPT !.at = "record"]>>
    /\ UNCHANGED <<parent, file, log, broken, proc, ctl, starts, todo, seen, pending,
                   watch, mem, spent>>

\* _pause_for_mechanical_provider_quota: the epoch drains, once.
QuotaPause(s) == IF s.status = "quota" /\ ~s.reused /\ ctl = "running" THEN "draining" ELSE ctl

RecordTerminal ==
    /\ step # <<>> /\ step[1].at = "record"
    /\ LET s == step[1] IN
       /\ log' = [log EXCEPT ![s.req].term =
                    Append(@, [status |-> s.status, used |-> s.used, reused |-> s.reused])]
       /\ ctl' = QuotaPause(s)
       /\ mem' = [mem EXCEPT ![s.req] = Fresh]
    /\ step' = <<>>
    /\ UNCHANGED <<parent, file, resp, broken, proc, starts, todo, seen, pending,
                   watch, cache, spent>>

(***************************************************************************)
(* The controller's loop.                                                  *)
(***************************************************************************)
QueueFull == Len(pending) + Cardinality(Running) >= MaxQueue

\* An answer to the same packet is given again.
Reuse(r, answer) == Respond(r, answer.status, answer.used, TRUE)

PollRequest(r) ==
    /\ ctl \in {"running", "draining"} /\ step = <<>>
    /\ parent[r] = "waiting" /\ r \notin seen
    /\ seen' = seen \cup {r}
    /\ log' = [log EXCEPT ![r].requested = file[r]]
    /\ LET known == cache[Packet[r]] IN
       IF file[r] = "invalid"
       THEN Respond(r, "rejected", 0, FALSE) /\ UNCHANGED pending
       ELSE IF known # <<>>
       THEN Reuse(r, known[1]) /\ UNCHANGED pending
       ELSE IF QueueFull
       THEN Respond(r, "rejected", 0, FALSE) /\ UNCHANGED pending
       ELSE pending' = Append(pending, r) /\ UNCHANGED step
    /\ UNCHANGED <<parent, file, resp, broken, proc, ctl, starts, todo, watch, mem,
                   cache, spent>>

\* Nothing is dispatched outside RUNNING; a request that cannot start any
\* more is rejected when it reaches the head of the queue.
Launch(r) ==
    /\ ctl = "running" /\ step = <<>> /\ pending # <<>> /\ r = Head(pending)
    /\ Cardinality(Running) < Capacity
    /\ pending' = Tail(pending)
    /\ IF \/ ~mem[r].recovered /\ parent[r] = "ended"
          \/ spent + Cardinality(Running) + 1 > Budget
       THEN /\ Respond(r, "rejected", mem[r].used, FALSE)
            /\ UNCHANGED <<log, proc, watch>>
       ELSE /\ log' = [log EXCEPT ![r].att = Append(@,
                         [route |-> IF mem[r].fallback THEN "fallback" ELSE "primary",
                          out |-> "open"])]
            /\ proc' = [proc EXCEPT ![r] = Append(@, "unborn")]
            /\ watch' = [watch EXCEPT ![r] = "own"]
            /\ UNCHANGED step
    /\ UNCHANGED <<parent, file, resp, broken, ctl, starts, todo, seen, mem, cache, spent>>

\* The task created by Launch runs at the next await: the runner process.
Spawn(r) ==
    /\ watch[r] = "own" /\ proc[r][Attempts(r)] = "unborn"
    /\ ctl \in {"running", "draining"}
    /\ proc' = [proc EXCEPT ![r][Attempts(r)] = "running"]
    /\ UNCHANGED <<parent, files, ctl, starts, volatile>>

\* The runner writes its result files and exits, whoever is watching.
WorkerFinishes(r, a, o) ==
    /\ a \in 1 .. Len(proc[r]) /\ proc[r][a] = "running"
    /\ proc' = [proc EXCEPT ![r][a] = o]
    /\ UNCHANGED <<parent, files, ctl, starts, volatile>>

WorkerDies(r, a) ==
    /\ a \in 1 .. Len(proc[r]) /\ proc[r][a] = "running"
    /\ proc' = [proc EXCEPT ![r][a] = "dead"]
    /\ UNCHANGED <<parent, files, ctl, starts, volatile>>

\* The attempt's status seed: a route that is recorded as unavailable is skipped.
RouteTaken(r, n) ==
    IF log[r].att[n].route = "primary" /\ broken THEN "skipped" ELSE log[r].att[n].route

\* ATTEMPT_FINISHED is appended before anything is decided about the attempt.
Collected(r, o) ==
    LET n == Attempts(r)
        route == RouteTaken(r, n) IN
    /\ log' = [log EXCEPT ![r].att[n] = [route |-> route, out |-> o]]
    /\ watch' = [watch EXCEPT ![r] = "none"]
    /\ mem' = [mem EXCEPT ![r].used = @ + Tokens(o)]
    /\ spent' = spent + Tokens(o)
    /\ step' = <<Stage(r, "settle", o, mem[r].used + Tokens(o), FALSE)>>
    /\ UNCHANGED <<parent, file, resp, broken, ctl, starts, todo, seen, pending, cache>>

\* A process whose attempt is closed: only whether it still runs matters.
Closed(r) == proc' = [proc EXCEPT ![r][Attempts(r)] =
                        IF @ = "running" THEN "running" ELSE "dead"]
Live == ctl \in {"running", "draining", "stopping"} /\ step = <<>>
Last(r) == proc[r][Attempts(r)]
Kill(r) == proc' = [proc EXCEPT ![r][Attempts(r)] =
                      IF @ \in {"running", "unborn"} THEN "dead" ELSE @]

Collect(r) ==
    /\ Live /\ watch[r] = "own" /\ Last(r) \in WorkerOutcomes \cup {"dead"}
    /\ Collected(r, IF Last(r) = "dead" THEN "nodir" ELSE Last(r))
    /\ Closed(r)

\* run(): the envelope of the attempt is over; the process tree is terminated.
EnvelopeOver(r) ==
    /\ Live /\ watch[r] = "own" /\ Last(r) = "running"
    /\ Kill(r) /\ Collected(r, "envelope")

(***************************************************************************)
(* recover() of the runner: observe a process an earlier controller left.  *)
(* Each turn of its loop looks for the result files and then, later, at    *)
(* the process.                                                            *)
(***************************************************************************)
LookForFiles(r) ==
    /\ Live /\ watch[r] = "look"
    /\ \/ Last(r) \in WorkerOutcomes /\ Collected(r, Last(r)) /\ Closed(r)
       \/ /\ Last(r) \in {"running", "dead"}
          /\ watch' = [watch EXCEPT ![r] = "pid"]
          /\ UNCHANGED <<parent, files, proc, ctl, starts, todo, step, seen, pending,
                         mem, cache, spent>>

\* Mutant: a process without result files is taken for dead.
LookAtProcessNever(r) ==
    /\ Live /\ watch[r] = "pid"
    /\ Collected(r, "unknown") /\ Closed(r)

LookAtProcess(r) ==
    /\ Live /\ watch[r] = "pid"
    /\ \/ Last(r) # "running" /\ Collected(r, "unknown") /\ Closed(r)
       \/ /\ Last(r) = "running"
          /\ watch' = [watch EXCEPT ![r] = "look"]
          /\ UNCHANGED <<parent, files, proc, ctl, starts, todo, step, seen, pending,
                         mem, cache, spent>>

\* The lease ends: a fresh process is terminated; a stale, ambiguous or
\* missing one is left alone and the attempt is not repeated.
LeaseOver(r, fresh) ==
    /\ Live /\ watch[r] = "look" /\ Last(r) \in {"running", "dead", "unborn"}
    /\ fresh => Last(r) = "running"
    /\ IF fresh THEN Kill(r) /\ Collected(r, "envelope")
                ELSE Collected(r, "uncertain") /\ Closed(r)

(***************************************************************************)
(* After an attempt: the circuit breaker, one continuation on the other    *)
(* route, a bounded retry, or the terminal response.                       *)
(***************************************************************************)
\* _remember_metadata_unavailable, persist_unavailable: only the controller writes
\* the circuit breaker, for the route an attempt of its own found unavailable.
Breaks(route, o) == route = "primary" /\ o = "unavailable"
Persisted(route, o) == broken \/ Breaks(route, o)

Settle ==
    /\ step # <<>> /\ step[1].at = "settle"
    /\ LET r == step[1].req
           o == step[1].status
           route == log[r].att[Attempts(r)].route
           c == Class(o)
           offered == Continues(route, o) \/ route = "skipped"
           first == ~mem[r].fallback
           counted == mem[r].retries[c] + 1 IN
       /\ broken' = Persisted(route, o)
       /\ IF Continues(route, o) /\ first
          THEN /\ log' = [log EXCEPT ![r].fallback = TRUE]
               /\ mem' = [mem EXCEPT ![r].fallback = TRUE]
               /\ pending' = Append(pending, r)
               /\ step' = <<>>
          ELSE IF o \in Retryable /\ mem[r].retries[c] < Allowed(c)
          THEN /\ log' = [log EXCEPT ![r].fallback = @ \/ offered,
                                     ![r].retries[c] = Max2(@, counted)]
               /\ mem' = [mem EXCEPT ![r].fallback = @ \/ offered,
                                     ![r].retries[c] = counted]
               /\ pending' = Append(pending, r)
               /\ step' = <<>>
          ELSE /\ log' = [log EXCEPT ![r].fallback = @ \/ offered]
               /\ mem' = [mem EXCEPT ![r].fallback = @ \/ offered]
               /\ Respond(r, o, step[1].used, FALSE)
               /\ UNCHANGED pending
    /\ UNCHANGED <<parent, file, resp, proc, ctl, starts, todo, seen, watch, cache, spent>>

(***************************************************************************)
(* The end of the run: drain, or an interrupt that cancels what is left.   *)
(***************************************************************************)
BeginDrain ==
    /\ ctl = "running" /\ step = <<>>
    /\ ctl' = "draining"
    /\ UNCHANGED <<parent, files, proc, starts, volatile>>

Drained ==
    /\ ctl = "draining" /\ step = <<>> /\ Running = {}
    /\ \A r \in Requests : parent[r] \in {"idle", "ended"}
    /\ ctl' = "stopping"
    /\ UNCHANGED <<parent, files, proc, starts, volatile>>

Interrupt ==
    /\ ctl \in {"running", "draining"} /\ step = <<>>
    /\ ctl' = "stopping"
    /\ UNCHANGED <<parent, files, proc, starts, volatile>>

CancelActive(r) ==
    /\ ctl = "stopping" /\ step = <<>> /\ watch[r] # "none"
    /\ Kill(r)
    /\ watch' = [watch EXCEPT ![r] = "none"]
    /\ Respond(r, "cancelled", mem[r].used, FALSE)
    /\ UNCHANGED <<parent, files, ctl, starts, todo, seen, pending, mem, cache, spent>>

RejectPending ==
    /\ ctl = "stopping" /\ step = <<>> /\ Running = {} /\ pending # <<>>
    /\ pending' = Tail(pending)
    /\ Respond(Head(pending), "stopped", mem[Head(pending)].used, FALSE)
    /\ UNCHANGED <<parent, files, proc, ctl, starts, todo, seen, watch, mem, cache, spent>>

Finish ==
    /\ ctl = "stopping" /\ step = <<>> /\ Running = {} /\ pending = <<>>
    /\ ctl' = "finished"
    /\ parent' = [r \in Requests |-> IF parent[r] = "idle" THEN "idle" ELSE "ended"]
    /\ UNCHANGED <<files, proc, starts, volatile>>

Crash ==
    /\ ctl \notin {"down", "finished"}
    /\ ctl' = "down"
    /\ parent' = [r \in Requests |-> IF parent[r] = "idle" THEN "idle" ELSE "ended"]
    /\ todo' = {} /\ step' = <<>> /\ seen' = {} /\ pending' = <<>>
    /\ watch' = [r \in Requests |-> "none"]
    /\ mem' = [r \in Requests |-> Fresh]
    /\ cache' = [p \in DOMAIN cache |-> <<>>]
    /\ spent' = 0
    /\ UNCHANGED <<files, proc, starts>>

\* The run is resumed: after a crash, or after it was stopped.
Restart ==
    /\ ctl \in {"down", "finished"} /\ starts < MaxStarts
    /\ ctl' = "recovering"
    /\ starts' = starts + 1
    /\ todo' = Requests
    /\ step' = <<>> /\ seen' = {} /\ pending' = <<>>
    /\ watch' = [r \in Requests |-> "none"]
    /\ mem' = [r \in Requests |-> Fresh]
    /\ cache' = [p \in DOMAIN cache |-> <<>>]
    /\ spent' = 0
    /\ UNCHANGED <<parent, files, proc>>

(***************************************************************************)
(* recover(): one request.                                                 *)
(***************************************************************************)
Recovering(r) == ctl = "recovering" /\ step = <<>> /\ r \in todo
Finished(r) == {a \in 1 .. Attempts(r) : log[r].att[a].out # "open"}

Consuming(r) == {a \in Finished(r) : Tokens(log[r].att[a].out) = 1}
UsedBy(r) == Cardinality(Consuming(r))
Failures(r, c) == Cardinality({a \in Finished(r) :
    log[r].att[a].out \in Retryable /\ Class(log[r].att[a].out) = c})

RecoverNothing(r) ==
    /\ Recovering(r) /\ log[r].requested # "valid" /\ log[r].term = <<>>
    /\ todo' = todo \ {r}
    /\ UNCHANGED <<parent, files, proc, ctl, starts, step, seen, pending, watch, mem,
                   cache, spent>>

\* A terminal event restores the cached response and its tokens.
RecoverTerminal(r) ==
    /\ Recovering(r) /\ log[r].term # <<>>
    /\ LET t == log[r].term[Len(log[r].term)] IN
       /\ cache' = [cache EXCEPT ![Packet[r]] =
                       <<[status |-> t.status, used |-> t.used]>>]
       /\ spent' = spent + (IF t.reused THEN 0 ELSE t.used)
    /\ todo' = todo \ {r}
    /\ UNCHANGED <<parent, files, proc, ctl, starts, step, seen, pending, watch, mem>>

\* Mutant: a response without its terminal event is replaced by a guess.
RecoverResponseUnknown(r) ==
    /\ Recovering(r) /\ log[r].requested = "valid" /\ log[r].term = <<>>
    /\ resp[r] # <<>>
    /\ todo' = todo \ {r}
    /\ spent' = spent + resp[r][1].used
    /\ Respond(r, "unknown", resp[r][1].used, FALSE)
    /\ UNCHANGED <<parent, files, proc, ctl, starts, seen, pending, watch, mem, cache>>

\* A response file without its event: the response is recorded now.
RecoverResponse(r) ==
    /\ Recovering(r) /\ log[r].requested = "valid" /\ log[r].term = <<>>
    /\ resp[r] # <<>>
    /\ todo' = todo \ {r}
    /\ spent' = spent + resp[r][1].used
    /\ Respond(r, resp[r][1].status, resp[r][1].used, FALSE)
    /\ UNCHANGED <<parent, files, proc, ctl, starts, seen, pending, watch, mem, cache>>

\* Mutant: the recovered request has forgotten its retries and its fallback.
RememberedNothing(r) == [Fresh EXCEPT !.recovered = TRUE, !.used = UsedBy(r)]

Remembered(r) ==
    [fallback |-> log[r].fallback, retries |-> log[r].retries,
     recovered |-> TRUE, used |-> UsedBy(r)]

\* Mutant: the surviving attempt is not observed.
ReattachBlind(r) ==
    /\ Recovering(r) /\ log[r].requested = "valid"
    /\ log[r].term = <<>> /\ resp[r] = <<>> /\ Open(r)
    /\ todo' = todo \ {r}
    /\ spent' = spent + UsedBy(r)
    /\ UNCHANGED <<parent, files, proc, ctl, starts, step, seen, pending, watch, mem, cache>>

\* The last attempt has no outcome: observe it, never start another one.
Reattach(r) ==
    /\ Recovering(r) /\ log[r].requested = "valid"
    /\ log[r].term = <<>> /\ resp[r] = <<>> /\ Open(r)
    /\ todo' = todo \ {r}
    /\ seen' = seen \cup {r}
    /\ watch' = [watch EXCEPT ![r] = "look"]
    /\ mem' = [mem EXCEPT ![r] = Remembered(r)]
    /\ spent' = spent + UsedBy(r)
    /\ UNCHANGED <<parent, files, proc, ctl, starts, step, pending, cache>>

\* What the last of n finished attempts calls for: a retry it counts now, or
\* one that was counted before the crash.
Undecided(r, n) ==
    LET last == log[r].att[n]
        c == Class(last.out)
        failures == Failures(r, c)
        used == Max2(log[r].retries[c], Max2(0, failures - 1))
        queued == last.out \in Retryable /\ failures > 0 /\ used >= failures
        again == last.out \in Retryable /\ used < Allowed(c)
    IN  [class |-> c, out |-> last.out, counts |-> again /\ ~queued,
         retries |-> IF again /\ ~queued THEN used + 1 ELSE used,
         requeue |-> Continues(last.route, last.out) \/ queued \/ again]

\* Every attempt has an outcome: decide again what the crash left undecided.
Redecide(r) ==
    /\ Recovering(r) /\ log[r].requested = "valid"
    /\ log[r].term = <<>> /\ resp[r] = <<>> /\ ~Open(r)
    /\ todo' = todo \ {r}
    /\ spent' = spent + UsedBy(r)
    /\ LET n == Attempts(r)
           d == Undecided(r, n) IN
       /\ mem' = [mem EXCEPT ![r] =
                    IF n = 0 THEN Remembered(r)
                    ELSE [Remembered(r) EXCEPT !.retries[d.class] = d.retries]]
       /\ log' = IF n > 0 /\ d.counts
                 THEN [log EXCEPT ![r].retries[d.class] = Max2(@, d.retries)] ELSE log
       /\ IF n = 0 \/ d.requeue
          THEN pending' = Append(pending, r) /\ seen' = seen \cup {r} /\ UNCHANGED step
          ELSE Respond(r, d.out, UsedBy(r), FALSE) /\ UNCHANGED <<pending, seen>>
    /\ UNCHANGED <<parent, file, resp, broken, proc, ctl, starts, watch, cache>>

RecoverRequest(r) ==
    RecoverNothing(r) \/ RecoverTerminal(r) \/ RecoverResponse(r)
        \/ Reattach(r) \/ Redecide(r)

Recovered ==
    /\ ctl = "recovering" /\ step = <<>> /\ todo = {}
    /\ ctl' = "running"
    /\ UNCHANGED <<parent, files, proc, starts, volatile>>

Stopped ==
    /\ ctl \in {"down", "finished"} /\ starts = MaxStarts
    /\ UNCHANGED vars

ClientStep ==
    \/ \E r \in Requests, form \in Forms : Ask(r, form)
    \/ \E r \in Requests : ParentEnds(r)

WorkerStep ==
    \/ \E r \in Requests : Spawn(r)
    \/ \E r \in Requests : \E a \in 1 .. Len(proc[r]), o \in Outcomes :
          WorkerFinishes(r, a, o)
    \/ \E r \in Requests : \E a \in 1 .. Len(proc[r]) : WorkerDies(r, a)

LoopStep ==
    \/ WriteResponse \/ RecordTerminal \/ Settle
    \/ \E r \in Requests : PollRequest(r)
    \/ \E r \in Requests : Launch(r)
    \/ \E r \in Requests : Collect(r)
    \/ \E r \in Requests : EnvelopeOver(r)
    \/ \E r \in Requests : LookForFiles(r)
    \/ \E r \in Requests : LookAtProcess(r)
    \/ \E r \in Requests, fresh \in BOOLEAN : LeaseOver(r, fresh)

EndStep ==
    \/ BeginDrain \/ Drained \/ Interrupt \/ RejectPending \/ Finish
    \/ \E r \in Requests : CancelActive(r)

RecoveryStep ==
    \/ Crash \/ Restart \/ Recovered
    \/ \E r \in Requests : RecoverRequest(r)

Next == ClientStep \/ WorkerStep \/ LoopStep \/ EndStep \/ RecoveryStep \/ Stopped

Spec == Init /\ [][Next]_vars

(***************************************************************************)
(* Fairness: the loop and its awaits go on, a drained or interrupted run   *)
(* goes through its finally block, and a parent's client gives up at its   *)
(* deadline.  Nothing is assumed of the worker: the controller has an      *)
(* envelope for it.  A crash and a restart are never forced.               *)
(***************************************************************************)
Progress ==
    \/ LoopStep \/ Drained \/ RejectPending \/ Finish \/ Recovered
    \/ \E r \in Requests :
          ParentEnds(r) \/ Spawn(r) \/ CancelActive(r) \/ RecoverRequest(r)

Fairness ==
    /\ WF_vars(Progress)
    /\ \A r \in Requests : SF_vars(\E fresh \in BOOLEAN : LeaseOver(r, fresh))

FairSpec == Spec /\ Fairness

-----------------------------------------------------------------------------
Statuses == WorkerOutcomes \cup
    {"nodir", "envelope", "unknown", "uncertain", "cancelled", "rejected", "stopped"}
Answers == [status : Statuses, used : Nat]
Retries == [{"transient", "protocol"} -> Nat]
Attempt == [route : {"primary", "fallback", "skipped"}, out : Statuses \cup {"open"}]
Terminal == [status : Statuses, used : Nat, reused : BOOLEAN]
Logs ==
    [requested : {"none"} \cup Forms, att : Seq(Attempt), fallback : BOOLEAN,
     retries : Retries, term : Seq(Terminal)]
Processes == {"unborn", "running", "dead"} \cup WorkerOutcomes
Memories == [fallback : BOOLEAN, retries : Retries, recovered : BOOLEAN, used : Nat]
Stages ==
    [req : Requests, at : {"settle", "respond", "record"}, status : Statuses, used : Nat,
     reused : BOOLEAN]

\* Types: what each part of the broker may hold (models the dataclasses and
\* the event payloads of the broker).
TypeOK ==
    /\ parent \in [Requests -> {"idle", "waiting", "ended"}]
    /\ file \in [Requests -> {"none"} \cup Forms]
    /\ resp \in [Requests -> Seq(Answers)] /\ log \in [Requests -> Logs]
    /\ proc \in [Requests -> Seq(Processes)]
    /\ broken \in BOOLEAN /\ starts \in Nat
    /\ ctl \in {"down", "recovering", "running", "draining", "stopping", "finished"}
    /\ todo \subseteq Requests /\ seen \subseteq Requests /\ pending \in Seq(Requests)
    /\ step \in Seq(Stages) /\ Len(step) <= 1
    /\ watch \in [Requests -> {"none", "own", "look", "pid"}]
    /\ mem \in [Requests -> Memories]
    /\ cache \in [{Packet[r] : r \in Requests} -> Seq(Answers)] /\ spent \in Nat

\* Each attempt has its process, and what is observed is an attempt that has
\* no outcome yet.
Observed ==
    \A r \in Requests : Len(proc[r]) = Attempts(r) /\ (watch[r] # "none" => Open(r))

\* A request never has two live runner processes, whatever crashed and was
\* retried: the recovery observes the surviving one ("do not duplicate
\* dispatch").
SingleRunner ==
    \A r \in Requests :
        Cardinality({a \in 1 .. Len(proc[r]) : proc[r][a] = "running"}) <= 1

\* A request gets at most one terminal event, across crashes between the
\* response file and the event, cancellations and resumes.
OneTerminal == \A r \in Requests : Len(log[r].term) <= 1

\* When the run is sealed every request that was accepted as valid is
\* terminal: what _finish() checks of mechanical_lifecycle_metrics.
FinishClean ==
    ctl = "finished" =>
        \A r \in Requests : log[r].requested = "valid" => log[r].term # <<>>

Consumed == Cardinality(UNION {{r} \X Consuming(r) : r \in Requests})

\* The tokens of recorded attempts and the reservations of running ones stay
\* within the budget, and the governor never counts fewer than were used,
\* also after it was rebuilt from the log.
BudgetKept ==
    ctl \in {"running", "draining", "stopping"} =>
        /\ Consumed <= spent
        /\ Consumed + Cardinality(Running) <= Budget

\* One request costs a bounded number of attempts: the first, one
\* continuation and the retries of each class.  A restart adds one at most: a
\* controller that dies after the outcome of an attempt on the primary route
\* and before it records the continuation repeats the primary route.
AttemptsBounded ==
    \A r \in Requests : Attempts(r) <= 2 + TransientRetries + ProtocolRetries + (starts - 1)

\* What a parent may have read stays what it read: a response file is never
\* replaced by another answer, also when the controller died right after it
\* was written and recovers the request.
KeepsAnswers == \A r \in Requests : resp[r] # <<>> => resp'[r] = resp[r]
ResponseKept == [][KeepsAnswers]_vars

\* Every accepted request comes to a terminal event unless the controller
\* dies and is not restarted, through drains, interrupts and restarts.
EveryRequestEnds ==
    \A r \in Requests :
        (log[r].requested = "valid") ~> (log[r].term # <<>> \/ ctl = "down")

\* One request is one piece of work with one answer: never two runners, never
\* two terminal events, none without one at the seal.
RequestsSound == TypeOK /\ Observed /\ SingleRunner /\ OneTerminal /\ FinishClean

\* Crashes cost no tokens beyond the budget, and one attempt each at most.
SpendingBounded == BudgetKept /\ AttemptsBounded

=============================================================================
