---------------------------- MODULE TurnOwnership ----------------------------
(* One controller process and the App Server it drives over stdio: a job     *)
(* runs turns on a thread of its own (backend.py), each a turn/start request *)
(* whose result arrives as notifications (app_server.py).  The server, which *)
(* is not in the repository, may stream a turn under another id than the one *)
(* it answers with, repeat a notification, start a turn nobody asked for, be *)
(* slow for ever, or close its end.                                          *)
EXTENDS Integers, Sequences, FiniteSets

CONSTANTS
    Threads,     \* one thread per job
    MaxTurns,    \* bound: turns of a thread
    MaxExtras    \* bound: notifications sent again, and jobs cancelled

ASSUME TurnAssumption == MaxTurns \in Nat \ {0} /\ MaxExtras \in Nat

None == <<0, "none">>
Asked == <<0, "cancel">>               \* marks an interrupt that backend.cancel sent
Foreign == <<0, "stream">>             \* the turn the server starts by itself
Stream(k) == <<k, "stream">>           \* the id the notifications of turn k carry
Ids == {None, Foreign} \cup ((1 .. MaxTurns) \X {"stream", "answer"})

VARIABLES
    link,      \* "up"; "stalled" after a request timed out; "closed" after EOF or close()
    failed,    \* the controller fails closed: no further turn is granted
    extras,    \* counts them
    wire,      \* per thread: what the server wrote and the client has not read
    server,    \* per thread: the server's view
    call,      \* per thread: the coroutine of start_turn (blind: it interrupted before
               \* it had read a start)
    open,      \* threads with a controller turn (TurnOwnershipRegistry)
    owned, count, unmanaged, \* the registry's ids and its counter
    notified,  \* _notification_turn_by_thread
    buffered,  \* _completed_turns and _completed_thread_turns
    retired,   \* _retired_turn_ids_by_thread
    messages,  \* turn ids with buffered output
    results,   \* per thread: what its calls returned
    interrupts,\* turn/interrupt requests on their way: [thread, turn, for]
    first      \* history: the first start the client saw in this call

registry == <<open, owned, count, unmanaged>>
buffers == <<notified, buffered, retired, messages>>
ownershipvars == <<link, failed, extras, wire, server, call, registry, buffers,
          results, interrupts, first>>

NoCall == [at |-> "idle", turn |-> 0, reply |-> "none", answer |-> None,
           key |-> None, waiter |-> "none", with |-> None, blind |-> FALSE]

OwnershipInit ==
    /\ link = "up" /\ failed = FALSE /\ extras = 0
    /\ wire = [t \in Threads |-> <<>>]
    /\ server = [t \in Threads |-> [turn |-> 0, state |-> "none", answered |-> TRUE,
                                    native |-> "no"]]
    /\ call = [t \in Threads |-> NoCall]
    /\ open = {} /\ owned = [t \in Threads |-> {}] /\ count = [t \in Threads |-> 0]
    /\ unmanaged = [t \in Threads |-> {}]
    /\ notified = [t \in Threads |-> None] /\ buffered = [t \in Threads |-> None]
    /\ retired = [t \in Threads |-> {}] /\ messages = [t \in Threads |-> {}]
    /\ results = [t \in Threads |-> <<>>] /\ interrupts = {}
    /\ first = [t \in Threads |-> None]

(***************************************************************************)
(* The server.  It runs one turn of a thread at a time.                    *)
(***************************************************************************)
Serving == link # "closed"
Alive == link = "up"                   \* transport_available
Message(kind, id) == [kind |-> kind, id |-> id]

Sends(t, ms) ==
    /\ wire' = [wire EXCEPT ![t] = @ \o ms]
    /\ UNCHANGED <<link, failed, extras, call, registry, buffers, results,
                   interrupts, first>>

\* What the server has said of the turns that were requested on the thread.
Said(t) ==
    {m \in {Message(kind, Stream(k)) : kind \in {"started", "completed"}, k \in 1 .. server[t].turn} :
       m.id = Stream(server[t].turn) =>
         server[t].state \in (IF m.kind = "started" THEN {"running", "ended"} ELSE {"ended"})}

ServerStarts(t) ==
    /\ Serving /\ server[t].state = "asked" /\ server[t].native # "running"
    /\ server' = [server EXCEPT ![t].state = "running"]
    /\ Sends(t, <<Message("started", Stream(server[t].turn))>>)

\* The answer may overtake the turn or come after its end, and may carry
\* another id than the notifications.
ServerAnswers(t, id) ==
    /\ Serving /\ ~server[t].answered
    /\ id \in {Stream(server[t].turn), <<server[t].turn, "answer">>}
    /\ server' = [server EXCEPT ![t].answered = TRUE]
    /\ Sends(t, <<Message(IF server[t].state = "ended" THEN "answeredEnded" ELSE "answered", id)>>)

ServerRejects(t) ==
    /\ Serving /\ ~server[t].answered
    /\ server' = [server EXCEPT ![t].answered = TRUE,
                                ![t].state = IF @ = "asked" THEN "none" ELSE @]
    /\ Sends(t, <<Message("rejected", None)>>)

ServerEnds(t) ==
    /\ Serving /\ server[t].state = "running"
    /\ server' = [server EXCEPT ![t].state = "ended"]
    /\ Sends(t, <<Message("completed", Stream(server[t].turn))>>)

\* A native continuation of an ended turn, which the controller did not request.
ServerContinues(t) ==
    /\ Serving /\ server[t].native = "no" /\ server[t].state = "ended"
    /\ server' = [server EXCEPT ![t].native = "running"]
    /\ Sends(t, <<Message("started", Foreign)>>)

ServerEndsNative(t) ==
    /\ Serving /\ server[t].native = "running"
    /\ server' = [server EXCEPT ![t].native = "ended"]
    /\ Sends(t, <<Message("completed", Foreign)>>)

ServerRepeats(t, note) ==
    /\ Serving /\ extras < MaxExtras /\ note \in Said(t)
    /\ extras' = extras + 1
    /\ wire' = [wire EXCEPT ![t] = Append(@, note)]
    /\ UNCHANGED <<link, failed, server, call, registry, buffers, results, interrupts, first>>

\* A turn/interrupt stops the turn it names, and is answered either way.
ServerInterrupts(t, i) ==
    /\ Serving /\ i \in interrupts /\ i.thread = t
    /\ interrupts' = interrupts \ {i}
    /\ LET own == i.turn = Stream(server[t].turn) /\ server[t].state = "running"
           native == i.turn = Foreign /\ server[t].native = "running"
           stop == IF own \/ native THEN <<Message("completed", i.turn)>> ELSE <<>>
           back == IF i.for = None THEN <<Message("interrupted", None)>> ELSE <<>> IN
         /\ server' = [server EXCEPT ![t].state = IF own THEN "ended" ELSE @,
                                     ![t].native = IF native THEN "ended" ELSE @]
         /\ wire' = [wire EXCEPT ![t] = @ \o stop \o back]
    /\ UNCHANGED <<link, failed, extras, call, registry, buffers, results, first>>

\* Mutant: only the waiters are failed.
FailPendingWaiters ==
    call' = [t \in Threads |->
               [call[t] EXCEPT !.waiter = IF @ = "pending" THEN "closed" ELSE @]]

(***************************************************************************)
(* The transport.  Every future that is pending on it fails with it.       *)
(***************************************************************************)
FailPending ==
    call' = [t \in Threads |->
               [call[t] EXCEPT !.reply = IF @ = "pending" THEN "closed" ELSE @,
                               !.waiter = IF @ = "pending" THEN "closed" ELSE @]]

\* stdout closes: what was not read is gone.
TransportLost ==
    /\ link # "closed" /\ link' = "closed" /\ FailPending
    /\ wire' = [t \in Threads |-> <<>>]
    /\ UNCHANGED <<failed, extras, server, registry, buffers, results, interrupts, first>>

\* A request stalls; its co-tenants fail with it, but the reader still reads.
RequestTimesOut(t) ==
    /\ Alive /\ call[t].reply = "pending"
    /\ link' = "stalled" /\ FailPending
    /\ UNCHANGED <<failed, extras, wire, server, registry, buffers, results, interrupts, first>>

(***************************************************************************)
(* start_turn.                                                             *)
(***************************************************************************)
Begin(t) ==
    /\ call[t].at = "idle" /\ call[t].turn < MaxTurns /\ ~failed
    /\ notified' = [notified EXCEPT ![t] = None]
    /\ buffered' = [buffered EXCEPT ![t] = None]
    /\ first' = [first EXCEPT ![t] = None]
    /\ IF unmanaged[t] # {} \/ ~Alive
       THEN /\ call' = [call EXCEPT ![t] = [NoCall EXCEPT !.at = "over", !.turn = call[t].turn]]
            /\ UNCHANGED <<open, owned, count, server>>
       ELSE /\ open' = open \cup {t}
            /\ owned' = [owned EXCEPT ![t] = {}] /\ count' = [count EXCEPT ![t] = 0]
            /\ LET k == call[t].turn + 1 IN
                 /\ call' = [call EXCEPT ![t].at = "starting", ![t].turn = k,
                                         ![t].reply = "pending"]
                 /\ server' = [server EXCEPT ![t].turn = k, ![t].state = "asked",
                                             ![t].answered = FALSE]
    /\ UNCHANGED <<link, failed, extras, wire, unmanaged, retired, messages, results,
                   interrupts>>

Over(t, next) ==   \* finish_controller_turn, and what the job does next
    /\ open' = open \ {t}
    /\ owned' = [owned EXCEPT ![t] = {}] /\ count' = [count EXCEPT ![t] = 0]
    /\ call' = [call EXCEPT ![t] = [NoCall EXCEPT !.at = next, !.turn = call[t].turn,
                                                  !.key = call[t].key, !.blind = call[t].blind]]
    /\ UNCHANGED <<link, failed, extras, wire, server, unmanaged, notified, first>>

\* Mutant: nothing is retired.
RetireNothing(t, ids) == UNCHANGED retired

Retire(t, ids) == retired' = [retired EXCEPT ![t] = @ \cup (ids \ {None})]
Discard(t) == buffered' = [buffered EXCEPT ![t] = None]
NotReturned == UNCHANGED results

\* The newest streamed id, else the id the caller holds (steer and interrupt
\* go through the alias, which is the same id).
Target(t, id) == IF notified[t] # None THEN notified[t] ELSE id

\* An interrupt request: none is sent when the transport is gone.
Interrupt(t, id, at) ==
    /\ call' = [call EXCEPT ![t].at = at, ![t].reply = IF Alive THEN "pending" ELSE "closed",
                             ![t].blind = notified[t] = None]
    /\ interrupts' = IF Alive
                     THEN interrupts \cup {[thread |-> t, turn |-> Target(t, id), for |-> None]}
                     ELSE interrupts
    /\ UNCHANGED <<link, failed, extras, wire, server, registry, buffers, results, first>>

\* The job is cancelled while turn/start is outstanding.
CancelStart(t) ==
    /\ call[t].at = "starting"
    /\ IF notified[t] # None
       THEN Interrupt(t, notified[t], "stopping")
       ELSE Over(t, "over") /\ UNCHANGED <<buffered, retired, messages, interrupts>> /\ NotReturned

\* ... and its interrupt request is answered, fails, or is cancelled as well.
Stopped(t) ==
    /\ call[t].at = "stopping"
    /\ Over(t, "over") /\ Retire(t, {notified[t]})
    /\ UNCHANGED <<buffered, messages, interrupts>> /\ NotReturned

StartLost(t) ==
    /\ call[t].at = "starting" /\ call[t].reply = "closed"
    /\ Over(t, "over") /\ Retire(t, {notified[t]}) /\ Discard(t)
    /\ messages' = [messages EXCEPT ![t] = @ \ {notified[t]}]
    /\ UNCHANGED interrupts /\ NotReturned

\* Mutant: the remote turn is left alone.
StartRefusedSilently(t) ==
    /\ call[t].at = "starting" /\ call[t].reply = "rejected"
    /\ Over(t, "over") /\ Retire(t, {notified[t]}) /\ Discard(t)
    /\ UNCHANGED <<messages, interrupts>> /\ NotReturned

\* turn/start is refused, possibly after the remote turn began.
StartRefused(t) ==
    /\ call[t].at = "starting" /\ call[t].reply = "rejected"
    /\ IF notified[t] # None
       THEN Interrupt(t, notified[t], "refused")
       ELSE Over(t, "over") /\ Discard(t) /\ UNCHANGED <<retired, messages, interrupts>> /\ NotReturned

Refused(t) ==
    /\ call[t].at = "refused" /\ call[t].reply # "pending"
    /\ Over(t, "over") /\ Retire(t, {notified[t]}) /\ Discard(t)
    /\ UNCHANGED <<messages, interrupts>> /\ NotReturned

\* The answer: the waiter is registered under the newest id and under the
\* thread, and takes a completion that was read before the answer.
Started(t) ==
    /\ call[t].at = "starting" /\ call[t].reply \in {"answered", "answeredEnded"}
    /\ owned' = [owned EXCEPT ![t] = @ \cup {call[t].answer}]
    /\ LET early == IF call[t].reply = "answeredEnded" THEN call[t].answer ELSE buffered[t] IN
         call' = [call EXCEPT ![t].at = "waiting", ![t].reply = "none",
                              ![t].key = Target(t, call[t].answer),
                              ![t].waiter = IF early # None THEN "done" ELSE "pending",
                              ![t].with = early]
    /\ Discard(t)
    /\ UNCHANGED <<link, failed, extras, wire, server, open, count, unmanaged, notified,
                   retired, messages, results, interrupts, first>>

\* The ids of a call, and the first of them that has buffered output.
CallIds(t, done) == <<done, call[t].key, call[t].answer>>
Text(t, done) ==
    LET have == {i \in 1 .. 3 : CallIds(t, done)[i] \in messages[t]} IN
      IF have = {} THEN None
      ELSE CallIds(t, done)[CHOOSE i \in have : \A j \in have : i <= j]

\* The end of a turn that was waited for: the ids are retired and every
\* buffer of theirs is emptied.
Return(t, done, next) ==
    /\ Over(t, next)
    /\ Retire(t, {done, call[t].key, call[t].answer})
    /\ messages' = [messages EXCEPT ![t] = @ \ {done, call[t].key, call[t].answer}]
    /\ UNCHANGED <<buffered, interrupts>>

Completes(t) ==
    /\ call[t].at = "waiting" /\ call[t].waiter = "done"
    /\ \E next \in {"idle", "over"} : Return(t, call[t].with, next)
    /\ results' = [results EXCEPT ![t] =
         Append(@, [call |-> call[t].turn, done |-> call[t].with, text |-> Text(t, call[t].with),
                   mistaken |-> first[t] = Foreign])]

WaitLost(t) ==
    /\ call[t].at = "waiting" /\ call[t].waiter = "closed"
    /\ Return(t, Target(t, call[t].key), "over") /\ NotReturned

\* The job is cancelled while it waits: nothing is retired.
CancelWait(t) ==
    /\ call[t].at = "waiting" /\ Interrupt(t, call[t].key, "abandoning")

Abandoned(t) ==
    /\ call[t].at = "abandoning"
    /\ Over(t, "over") /\ UNCHANGED <<buffered, retired, messages, interrupts>> /\ NotReturned

\* The turn's timeout: interrupt, then 15 s of grace for its completion.
TurnTimesOut(t) ==
    /\ call[t].at = "waiting" /\ call[t].waiter = "pending"
    /\ Interrupt(t, call[t].key, "timed_out")

Grace(t) ==
    /\ call[t].at = "timed_out" /\ call[t].reply # "pending"
    /\ call' = [call EXCEPT ![t].at = "grace"]
    /\ UNCHANGED <<link, failed, extras, wire, server, registry, buffers, results,
                   interrupts, first>>

GraceOver(t) ==
    /\ call[t].at = "grace"
    /\ Return(t, IF call[t].waiter = "done" THEN call[t].with ELSE Target(t, call[t].key), "over")
    /\ NotReturned

\* A second cancellation, or one that comes after the timeout: nothing is
\* retired, and a refused start keeps its ownership.
CancelAgain(t) ==
    /\ call[t].at \in {"refused", "timed_out", "grace"}
    /\ IF call[t].at = "refused"
       THEN /\ call' = [call EXCEPT ![t] = [NoCall EXCEPT !.at = "over", !.turn = call[t].turn]]
            /\ UNCHANGED <<link, failed, extras, wire, server, registry, notified, first>>
       ELSE Over(t, "over")
    /\ UNCHANGED <<buffered, retired, messages, interrupts>> /\ NotReturned

\* backend.cancel(job): an interrupt of the thread's newest turn, if any was bound.
BackendCancel(t) ==
    /\ Alive /\ call[t].at # "over" /\ call[t].key # None /\ extras < MaxExtras
    /\ LET i == [thread |-> t, turn |-> Target(t, call[t].key), for |-> Asked] IN
         interrupts' = interrupts \cup {i}
    /\ extras' = extras + 1
    /\ UNCHANGED <<link, failed, wire, server, call, registry, buffers, results, first>>

(***************************************************************************)
(* _dispatch_message and _handle_notification: the reader's next message.  *)
(***************************************************************************)
\* _report_unmanaged_turn: a background interrupt, and the controller fails closed.
Report(t, id) ==
    /\ unmanaged' = [unmanaged EXCEPT ![t] = @ \cup {id}]
    /\ failed' = TRUE
    /\ interrupts' = IF Alive
                     THEN interrupts \cup {[thread |-> t, turn |-> Target(t, id), for |-> id]}
                     ELSE interrupts
    /\ UNCHANGED <<call, open, owned, count, buffers, first>>

Quiet == UNCHANGED <<failed, unmanaged, interrupts>>

Reply(t, m) ==
    /\ call' = IF /\ call[t].reply = "pending"
                  /\ (m.kind = "interrupted") = (call[t].at # "starting")
               THEN [call EXCEPT ![t].reply = m.kind, ![t].answer = IF m.id # None THEN m.id ELSE @]
               ELSE call
    /\ Quiet /\ UNCHANGED <<open, owned, count, buffers, first>>

ObserveStarted(t, id) ==
    IF t \in open /\ (count[t] = 0 \/ id \in owned[t])
    THEN /\ count' = [count EXCEPT ![t] = 1]
         /\ owned' = [owned EXCEPT ![t] = @ \cup {id}]
         /\ notified' = [notified EXCEPT ![t] = id]
         /\ first' = [first EXCEPT ![t] = IF @ = None THEN id ELSE @]
         /\ Quiet /\ UNCHANGED <<open, call, buffered, retired, messages>>
    ELSE Report(t, id)

ObserveCompleted(t, id) ==
    IF t \notin open
    THEN Quiet /\ UNCHANGED <<open, owned, count, call, buffers, first>>
    ELSE IF count[t] > 0 /\ id \notin owned[t]
    THEN Report(t, id)
    ELSE /\ owned' = [owned EXCEPT ![t] = @ \cup {id}]
         /\ notified' = [notified EXCEPT ![t] = id]
         /\ first' = [first EXCEPT ![t] = IF @ = None THEN id ELSE @]
         /\ call' = IF call[t].waiter = "pending"
                    THEN [call EXCEPT ![t].waiter = "done", ![t].with = id] ELSE call
         /\ buffered' = IF call[t].waiter = "none" THEN [buffered EXCEPT ![t] = id] ELSE buffered
         /\ messages' = [messages EXCEPT ![t] = @ \cup {id}]
         /\ Quiet /\ UNCHANGED <<open, count, retired>>

Deliver(t) ==
    /\ wire[t] # <<>>
    /\ wire' = [wire EXCEPT ![t] = Tail(@)]
    /\ LET m == Head(wire[t]) IN
         CASE m.kind \in {"answered", "answeredEnded", "rejected", "interrupted"} -> Reply(t, m)
           [] m.kind \in {"started", "completed"} /\ m.id \in retired[t] ->
                Quiet /\ UNCHANGED <<open, owned, count, call, buffers, first>>
           [] m.kind = "started" /\ m.id \notin retired[t] -> ObserveStarted(t, m.id)
           [] m.kind = "completed" /\ m.id \notin retired[t] -> ObserveCompleted(t, m.id)
    /\ UNCHANGED <<link, extras, server, results>>

ServerStep(t) ==
    \/ ServerStarts(t) \/ ServerRejects(t) \/ ServerEnds(t)
    \/ \E id \in Ids : ServerAnswers(t, id)
    \/ ServerContinues(t) \/ ServerEndsNative(t)
    \/ \E note \in Said(t) : ServerRepeats(t, note)
    \/ \E i \in interrupts : ServerInterrupts(t, i)

CallStep(t) ==
    \/ Stopped(t) \/ StartLost(t) \/ StartRefused(t) \/ Refused(t)
    \/ Started(t) \/ Completes(t) \/ WaitLost(t) \/ Abandoned(t)
    \/ TurnTimesOut(t) \/ Grace(t) \/ GraceOver(t)

OwnershipNext ==
    \/ TransportLost
    \/ \E t \in Threads : \/ ServerStep(t) \/ RequestTimesOut(t)
                          \/ Begin(t) \/ CancelStart(t) \/ CancelWait(t)
                          \/ CancelAgain(t) \/ BackendCancel(t)
                          \/ CallStep(t) \/ Deliver(t)

OwnershipSpec == OwnershipInit /\ [][OwnershipNext]_ownershipvars

(* Nothing is asked of the server.  The event loop runs what is ready and    *)
(* reads what has arrived, and asyncio's timers fire.                        *)
OwnershipFairSpec ==
    OwnershipSpec /\ \A t \in Threads : /\ WF_ownershipvars(CallStep(t))
                                      /\ WF_ownershipvars(RequestTimesOut(t))
                                      /\ WF_ownershipvars(Deliver(t))

(***************************************************************************)
(* Properties.                                                             *)
(***************************************************************************)
Replies == {"none", "pending", "closed", "answered", "answeredEnded", "rejected", "interrupted"}

OwnershipTypeOK ==
    /\ link \in {"up", "stalled", "closed"} /\ failed \in BOOLEAN /\ extras \in 0 .. MaxExtras
    /\ \A t \in Threads :
         /\ server[t].turn = call[t].turn
         /\ call[t].reply \in Replies /\ {call[t].answer, call[t].key, call[t].with} \subseteq Ids
         /\ call[t].waiter \in {"none", "pending", "done", "closed"}
         /\ {notified[t], buffered[t], first[t]} \subseteq Ids
         /\ owned[t] \cup unmanaged[t] \cup retired[t] \cup messages[t] \subseteq Ids \ {None}
    /\ open \subseteq Threads /\ interrupts \subseteq [thread : Threads, turn : Ids, for : Ids \cup {Asked}]

\* The client took a native continuation for the turn it had requested, in
\* this call or in one before it: its start was the first one the call saw.
\* The turn it had requested is then neither owned nor retired, and the next
\* call may take it for its own in turn.
Misled(t) == first[t] = Foreign \/ \E i \in DOMAIN results[t] : results[t][i].mistaken

\* A call returns the completion and the output of its own turn, never those
\* of the turn before it on the thread, whatever arrives late, twice, before
\* the answer or under another id (AppServerClient.start_turn, architecture.md
\* "Turn completion is correlated by both turn id and thread").
OwnResult ==
    \A t \in Threads : \A i \in DOMAIN results[t] :
      LET r == results[t][i] IN
        \/ \E j \in 1 .. i : results[t][j].mistaken
        \/ r.done[1] = r.call /\ r.text[1] \in {0, r.call}

\* A completion ends at most one call of its thread.
CompletionOnce ==
    \A t \in Threads : \A i, j \in DOMAIN results[t] :
      i # j => results[t][i].done # results[t][j].done

\* What start_turn interrupts is its own turn.
InterruptsOwn ==
    \A i \in interrupts : i.for = None /\ call[i.thread].at # "over" =>
      i.turn[1] = call[i.thread].turn \/ Misled(i.thread)

\* When a call gave up on a turn whose start it had read, that turn has
\* ended or an interrupt that names it is on its way (architecture.md
\* "Cancellation and a failed turn/start response attempt to interrupt any
\* remote turn already observed before releasing controller ownership").
Contained ==
    \A t \in Threads :
      call[t].at = "over" /\ notified[t] = Stream(server[t].turn) /\ link = "up"
        /\ server[t].state = "running" /\ ~Misled(t) /\ ~call[t].blind
        => \E i \in interrupts : i.thread = t /\ i.turn = Stream(server[t].turn)

\* Every start_turn comes to an end, whatever the server does or does not do.
TurnsEnd ==
    \A t \in Threads : call[t].at = "starting" ~> call[t].at \in {"idle", "over"}

\* The interrupt that contains an unmanaged turn names that turn
\* (_interrupt_unmanaged_turn, app_server.py "interrupt_and_fail_closed").
ContainsUnmanaged ==
    \A i \in interrupts : i.for \in unmanaged[i.thread] => i.turn = i.for

\* The turns of a thread are kept apart: each call takes its own completion
\* and its own output, and interrupts its own turn.
TurnsSeparate == OwnershipTypeOK /\ OwnResult /\ CompletionOnce /\ InterruptsOwn

=============================================================================
