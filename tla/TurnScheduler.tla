--------------------------- MODULE TurnScheduler ---------------------------
(***************************************************************************)
(* The execution owner of one session (crates/astrcode-server/src/          *)
(* turn_scheduler*, turn_registry.rs, delivery_gates.rs, queue_drains.rs,   *)
(* task_utils.rs): inputs are delivered under a gate, a turn is reserved    *)
(* before any I/O, started outside the gate, watched until it ends and      *)
(* settled; queued inputs start the next turn.  Aborts, closing the session,*)
(* shutdown, failing stores and process crashes interleave with all of it.  *)
(*                                                                         *)
(* A caller, a completion watcher (named by its turn), the queue retry and  *)
(* the server shutdown are actors; call[a] is where an actor is.            *)
(***************************************************************************)
EXTENDS Integers, Sequences, FiniteSets, SequencesExt

CONSTANTS
    Callers,      \* tasks that deliver inputs or issue session commands
    Kinds,        \* what they may ask for, see AllKinds
    Inputs,       \* user inputs, each delivered at most once
    MaxTurns,     \* turn ids 1..MaxTurns
    MaxPending,   \* MAX_PENDING_INPUTS_PER_SESSION
    MaxGates,     \* gate objects, one more than closes of the session
    MaxFailures,  \* failures of the store, of the start of a turn, of the process
    Stops,        \* how the process may stop: "crash", "shutdown"
    MaxStops,     \* and how often it is shut down
    MaxControls,  \* commands to abort, to repair or to close
    MaxMishaps,   \* failures and such commands together
    Retry, Server, Nobody

AllKinds == {"StartNew", "InjectOnly", "InjectElseStart", "QueueElseStart",
             "InterruptAndStart", "Abort", "Repair", "Close"}

ASSUME TurnSchedulerAssumption ==
    /\ Kinds \subseteq AllKinds
    /\ MaxTurns \in Nat /\ MaxPending \in Nat /\ MaxGates \in Nat \ {0}
    /\ MaxFailures \in Nat /\ MaxStops \in Nat
    /\ MaxControls \in Nat /\ MaxMishaps \in Nat
    /\ Stops \subseteq {"crash", "shutdown"}
    /\ "NoInput" \notin Inputs
    /\ {Retry, Server, Nobody} \cap (Callers \cup 1..MaxTurns) = {}
    /\ Callers \cap (1..MaxTurns) = {}
    /\ Retry # Server /\ Retry # Nobody /\ Server # Nobody

VARIABLES
    log,       \* the projection: phase, unsettled turn, active step, pending inputs
    begun,     \* inputs in the order in which they became a UserMessage
    completed, \* turns with a TurnCompleted of their own in the log
    entry,     \* TurnRegistry: the turn that owns the session
    used,      \* turn ids handed out
    task,      \* the tokio task of each turn
    cancelled, \* turns whose cancellation token is set
    final,     \* TurnFinalization recorded by each task
    gate,      \* SessionDeliveryGate objects
    current,   \* the one in the map
    call,      \* where every actor is
    answer,    \* what the caller of each input was told
    retry,     \* QueueDrainTracker: a retry is scheduled
    exists,    \* the session is neither deleted nor recycled
    accepting, \* OwnedTaskSet accepts tasks
    down,      \* progress of shutdown_background_tasks
    failures, stops, controls

vars == <<log, begun, completed, entry, used, task, cancelled, final, gate, current,
          call, answer, retry, exists, accepting, down, failures, stops, controls>>

Turns == 1..MaxTurns
Actors == Callers \cup Turns \cup {Retry, Server}
NoTurn == 0
NoInput == "NoInput"
NoEntry == [turn |-> NoTurn, state |-> "None"]
Away == [pc |-> "idle", kind |-> "None", gate |-> 1, turn |-> NoTurn,
         input |-> NoInput, queued |-> FALSE]
OpenGate == [holder |-> Nobody, closing |-> FALSE, starts |-> 0]

Init ==
    /\ log = [phase |-> "Idle", unsettled |-> NoTurn, step |-> "None", pending |-> << >>]
    /\ begun = << >> /\ completed = {}
    /\ entry = NoEntry /\ used = 0
    /\ task = [t \in Turns |-> "none"] /\ cancelled = {}
    /\ final = [t \in Turns |-> "none"]
    /\ gate = [g \in 1..MaxGates |-> OpenGate] /\ current = 1
    /\ call = [a \in Actors |-> Away]
    /\ answer = [i \in Inputs |-> "none"]
    /\ retry = FALSE /\ exists = TRUE /\ accepting = TRUE /\ down = "no"
    /\ failures = 0 /\ stops = 0 /\ controls = 0

----------------------------------------------------------------------------
(* The projection of durable events, crates/astrcode-session-projection/.    *)

\* Mutant: the terminal settles every turn but its own.
TurnCompleted_OtherTurn(l, t) ==
    IF t = NoTurn \/ l.unsettled # t
    THEN [l EXCEPT !.phase = "Idle", !.unsettled = NoTurn, !.step = "None"]
    ELSE l

\* TurnCompleted of turn t, or of no turn (NoTurn): it settles the execution
\* unless it belongs to another turn than the unsettled one.
TurnCompleted(l, t) ==
    IF t = NoTurn \/ l.unsettled \in {NoTurn, t}
    THEN [l EXCEPT !.phase = "Idle", !.unsettled = NoTurn, !.step = "None"]
    ELSE l

\* UserInputAccepted, attributed to a turn (inject) or to none (queue).
Accepted(l, i, t) == [l EXCEPT !.pending = Append(@, [input |-> i, turn |-> t])]

\* Mutant: the accepted input is not consumed.
UserMessage_KeepsPending(l, i) ==
    [l EXCEPT !.phase = "Busy"]

\* Vec::retain: the elements of the sequence s at the positions K, in their order.
Retain(s, K) ==
    [j \in 1..Cardinality(K) |-> s[CHOOSE k \in K : Cardinality({m \in K : m <= k}) = j]]

\* UserMessage with the accepted_seq of a pending input, or of none.
UserMessage(l, i) ==
    [l EXCEPT !.phase = "Busy",
              !.pending = Retain(@, {k \in 1..Len(@) : @[k].input # i})]

Busy(l) == l.phase \notin {"Idle", "Error"}
Head1 == Head(log.pending)

\* finalize_turn and finalize_aborted_turn: nothing to do when already idle.
finalize_turn(l, t) == IF l.phase = "Idle" THEN l ELSE TurnCompleted(l, t)

\* repair_turn_protocol_state: a stale phase is closed by an unattributed terminal.
repair_turn_protocol_state(l) == IF Busy(l) THEN TurnCompleted(l, NoTurn) ELSE l

Completing(t) == IF log.phase = "Idle" THEN completed ELSE completed \cup {t}

----------------------------------------------------------------------------
(* TurnRegistry and delivery gates.                                          *)

is_finished == entry.state = "Running" /\ task[entry.turn] \in {"ended", "killed"}
is_running == entry.state = "Running"
Released(g) == [gate EXCEPT ![g].holder = Nobody]
Leased(g) == [gate EXCEPT ![g].holder = Nobody, ![g].starts = @ + 1]
Unleased(g) == [gate EXCEPT ![g].starts = @ - 1]

Goto(a, p) == [call EXCEPT ![a].pc = p]
CanFail == failures < MaxFailures /\ failures + controls < MaxMishaps
Fail == CanFail /\ failures' = failures + 1

Answered(a, word) ==
    IF call[a].input = NoInput THEN answer ELSE [answer EXCEPT ![call[a].input] = word]

\* The operation is over: the gate is released and the caller gets its answer.
Return(a, word) ==
    /\ gate' = Released(call[a].gate)
    /\ call' = [call EXCEPT ![a] = Away]
    /\ answer' = Answered(a, word)

Quiet == UNCHANGED <<used, final, current, exists, accepting, down, stops, controls>>

\* reserve_execution: the registry entry and the start lease are taken before the
\* gate is released; q says whether i is the head of the durable queue.
reserve_execution(a, i, q) ==
    /\ used < MaxTurns
    /\ used' = used + 1
    /\ entry' = [turn |-> used + 1, state |-> "Reserved"]
    /\ gate' = Leased(call[a].gate)
    /\ call' = [call EXCEPT ![a].pc = "starting", ![a].turn = used + 1,
                            ![a].input = i, ![a].queued = q]

\* settle_finished_execution_locked: what the log becomes when turn t, which owns
\* the session, is settled.  A task that recorded its finalization is finalized
\* unless it did so itself; one that was killed leaves a stale phase to repair.
SettledLog(t) ==
    CASE final[t] = "persisted" -> log
      [] final[t] = "unpersisted" -> finalize_turn(log, t)
      [] OTHER -> repair_turn_protocol_state(log)
SettledTurns(t) == IF final[t] = "unpersisted" THEN Completing(t) ELSE completed

----------------------------------------------------------------------------
(* Entering the gate.                                                        *)

\* deliver_input, abort, repair_stale, delete_session / recycle_session: all but
\* abort need an admission to the server's task set.
request(c, k, i) ==
    /\ call[c] = Away
    /\ k \in Kinds
    /\ accepting \/ k = "Abort"
    /\ IF k \in {"Abort", "Repair", "Close"}
       THEN /\ i = NoInput
            /\ controls < MaxControls /\ failures + controls < MaxMishaps
            /\ controls' = controls + 1
       ELSE /\ i \in Inputs /\ answer[i] = "none" /\ \A d \in Callers : call[d].input # i
            /\ UNCHANGED controls
    /\ k = "Close" => current < MaxGates
    /\ call' = [call EXCEPT ![c] = [Away EXCEPT !.pc = "locking", !.kind = k,
                                                !.gate = current, !.input = i]]
    /\ UNCHANGED <<log, begun, completed, entry, used, task, cancelled, final, gate, current,
                   answer, retry, exists, accepting, down, failures, stops>>

\* SessionDeliveryGates::begin: the lock, then the check of the state.  Watchers
\* and the shutdown take the lock without the check.  A session that is gone
\* fails the durability check that follows.
begin(a) ==
    /\ call[a].pc = "locking"
    /\ gate[call[a].gate].holder = Nobody
    /\ IF a \notin Turns \cup {Server} /\ (gate[call[a].gate].closing \/ ~exists)
       THEN call' = [call EXCEPT ![a] = Away] /\ answer' = Answered(a, "refused") /\ UNCHANGED gate
       ELSE /\ gate' = [gate EXCEPT ![call[a].gate].holder = a]
            /\ call' = Goto(a, "gated") /\ UNCHANGED answer
    /\ UNCHANGED <<log, begun, completed, entry, task, cancelled, retry, failures>> /\ Quiet

Gated(c, k) == call[c].pc = "gated" /\ call[c].kind = k

----------------------------------------------------------------------------
(* Delivering an input.                                                      *)

Refuse(c) ==
    Return(c, "refused") /\ UNCHANGED <<log, begun, completed, entry, task, cancelled, retry, failures>> /\ Quiet

\* accept_pending_input (t = NoTurn) and inject_internal (t is the running turn):
\* the input is durable and will be started or absorbed later.
AcceptInput(c, t) ==
    \/ /\ t # NoTurn \/ Len(log.pending) < MaxPending
       /\ log' = Accepted(log, call[c].input, t)
       /\ Return(c, IF t = NoTurn THEN "queued" ELSE "injected")
       /\ UNCHANGED <<begun, completed, entry, task, cancelled, retry, failures>> /\ Quiet
    \/ t = NoTurn /\ Len(log.pending) >= MaxPending /\ Refuse(c)
    \/ /\ Fail /\ Return(c, "refused")
       /\ UNCHANGED <<log, begun, completed, entry, task, cancelled, retry>> /\ Quiet

\* start_detached_in_operation: reserve, leave the gate, start.
StartInput(c) ==
    \/ /\ entry = NoEntry
       /\ reserve_execution(c, call[c].input, FALSE)
       /\ UNCHANGED <<log, begun, completed, task, cancelled, final, current, answer, retry,
                      exists, accepting, down, failures, stops, controls>>
    \/ entry # NoEntry /\ Refuse(c)

\* enqueue_behind_pending_and_start_head, on the log l in which the finished turn
\* has been settled and whose completed turns are done.
EnqueueAndStartHead(c, l, done) ==
    \/ /\ Len(l.pending) < MaxPending
       /\ log' = Accepted(l, call[c].input, NoTurn) /\ completed' = done
       /\ answer' = Answered(c, "queued")
       /\ reserve_execution(c, Head(log'.pending).input, TRUE)
       /\ UNCHANGED <<begun, task, cancelled, final, current, retry, exists, accepting, down,
                      failures, stops, controls>>
    \/ /\ Len(l.pending) >= MaxPending
       /\ log' = l /\ completed' = done /\ entry' = NoEntry
       /\ Return(c, "refused")
       /\ UNCHANGED <<begun, task, cancelled, retry, failures>> /\ Quiet

start_new(c) ==
    /\ Gated(c, "StartNew")
    /\ IF log.pending # << >> THEN Refuse(c) ELSE StartInput(c)

inject_only(c) ==
    /\ Gated(c, "InjectOnly")
    /\ IF is_running /\ ~is_finished THEN AcceptInput(c, entry.turn) ELSE Refuse(c)

inject_if_running_else_start(c) ==
    /\ Gated(c, "InjectElseStart")
    /\ CASE is_finished \/ entry.state = "Reserved" -> AcceptInput(c, NoTurn)
         [] is_running /\ ~is_finished -> AcceptInput(c, entry.turn)
         [] entry = NoEntry /\ log.pending # << >> -> EnqueueAndStartHead(c, log, completed)
         [] OTHER -> StartInput(c)

\* A finished turn that is still registered is settled here, so that the input
\* need not wait for its watcher.
queue_if_running_else_start(c) ==
    /\ Gated(c, "QueueElseStart")
    /\ CASE is_finished ->
                \/ EnqueueAndStartHead(c, SettledLog(entry.turn), SettledTurns(entry.turn))
                \/ CanFail /\ AcceptInput(c, NoTurn)
         [] entry # NoEntry /\ ~is_finished -> AcceptInput(c, NoTurn)
         [] entry = NoEntry /\ log.pending # << >> -> EnqueueAndStartHead(c, log, completed)
         [] OTHER -> StartInput(c)

----------------------------------------------------------------------------
(* Starting a reserved turn, outside the gate.                               *)

Starting(a, p) == call[a].pc = p /\ call[a].turn # NoTurn

\* The lease and, if it is still there, the reservation are dropped.  A queued
\* input is retried later (schedule_queue_retry).
StartFails(a, word) ==
    /\ entry' = IF entry = [turn |-> call[a].turn, state |-> "Reserved"] THEN NoEntry ELSE entry
    /\ gate' = Unleased(call[a].gate)
    /\ call' = IF a \in Turns THEN Goto(a, "done") ELSE [call EXCEPT ![a] = Away]
    /\ answer' = IF call[a].queued THEN answer ELSE Answered(a, word)

\* Mutant: the reservation outlives the rejected start.
start_rejected_Leaks(a) ==
    /\ Starting(a, "starting")
    /\ a \notin Turns /\ ~accepting
    /\ gate' = Unleased(call[a].gate) /\ call' = [call EXCEPT ![a] = Away]
    /\ answer' = Answered(a, "refused") /\ UNCHANGED entry
    /\ UNCHANGED used
    /\ UNCHANGED <<log, begun, completed, task, cancelled, final, current, retry, exists,
                   accepting, down, failures, stops, controls>>

\* start_reserved_*_detached asks for an admission of its own; the watcher has
\* one.  Without it nothing is retried.  An id that nothing was written for goes
\* back to the bound, so that a loop of aborts does not exhaust it.
start_rejected(a) ==
    /\ Starting(a, "starting")
    /\ a \notin Turns /\ ~accepting
    /\ StartFails(a, "refused")
    /\ used' = used - 1
    /\ UNCHANGED <<log, begun, completed, task, cancelled, final, current, retry, exists,
                   accepting, down, failures, stops, controls>>

\* Session::submit: TurnStarted becomes durable.
submit(a) ==
    /\ Starting(a, "starting")
    /\ a \in Turns \/ accepting
    /\ log' = [log EXCEPT !.phase = "Busy", !.unsettled = call[a].turn]
    /\ call' = Goto(a, "submitting")
    /\ UNCHANGED <<begun, completed, entry, task, cancelled, gate, answer, retry, failures>> /\ Quiet

\* The UserMessage becomes durable, the turn is prepared and spawned, and the
\* reservation is activated; its watcher starts with it.
activate(a) ==
    LET t == call[a].turn IN
    /\ Starting(a, "submitting")
    /\ log' = UserMessage(log, call[a].input)
    /\ begun' = Append(begun, call[a].input)
    /\ retry' = IF call[a].queued THEN FALSE ELSE retry
    /\ gate' = Unleased(call[a].gate)
    /\ answer' = IF call[a].queued THEN answer ELSE Answered(a, "started")
    /\ IF entry = [turn |-> t, state |-> "Reserved"]
       THEN /\ entry' = [entry EXCEPT !.state = "Running"]
            /\ task' = [task EXCEPT ![t] = "running"]
            /\ call' = [call EXCEPT ![a] = IF a \in Turns THEN [@ EXCEPT !.pc = "done"] ELSE Away,
                                    ![t] = [Away EXCEPT !.pc = "waiting"]]
       ELSE /\ task' = [task EXCEPT ![t] = "killed"]
            /\ call' = [call EXCEPT ![a] = IF a \in Turns THEN [@ EXCEPT !.pc = "done"] ELSE Away]
            /\ UNCHANGED entry
    /\ UNCHANGED <<completed, cancelled, failures>> /\ Quiet

\* The session cannot be opened, a hook blocks the input, or TurnStarted or the
\* UserMessage cannot be stored.
submit_fails(a) ==
    /\ Starting(a, "starting") \/ Starting(a, "submitting")
    /\ Fail
    /\ StartFails(a, "refused")
    /\ used' = IF call[a].pc = "starting" THEN used - 1 ELSE used
    /\ retry' = (retry \/ (call[a].queued /\ accepting))
    /\ UNCHANGED <<log, begun, completed, task, cancelled, final, current, exists, accepting,
                   down, stops, controls>>

\* prepare_turn_runner fails after the UserMessage: settle_failed_turn_setup
\* writes ErrorOccurred and TurnCompleted, each if the store lets it.
settle_failed_turn_setup(a) ==
    LET t == call[a].turn IN
    /\ Starting(a, "submitting")
    /\ Fail
    /\ begun' = Append(begun, call[a].input)
    /\ \/ /\ log' = TurnCompleted(UserMessage(log, call[a].input), t)
          /\ completed' = completed \cup {t}
       \/ /\ \E p \in {"Error", "Busy"} :
                log' = [UserMessage(log, call[a].input) EXCEPT !.phase = p]
          /\ UNCHANGED completed
    /\ StartFails(a, "refused")
    /\ retry' = (retry \/ (call[a].queued /\ accepting))
    /\ UNCHANGED <<task, cancelled>> /\ Quiet

----------------------------------------------------------------------------
(* The task of a turn (Session::run_and_finalize_turn, TurnLoop).            *)

TurnFrame == UNCHANGED <<entry, used, gate, current, answer, retry, exists, accepting, down, stops, controls>>

\* Where the pending inputs attributed to turn t are, and the inputs.
Own(t) == {k \in 1..Len(log.pending) : log.pending[k].turn = t}
Mine(t) == Retain(log.pending, Own(t))

\* run_one_step: StepStarted, then the inputs attributed to the turn are absorbed
\* as user messages in the order in which they were accepted.
run_one_step(t) ==
    /\ task[t] = "running" /\ t \notin cancelled
    /\ log.step = "None" \/ Own(t) # {}
    /\ log' = [log EXCEPT !.step = "Open",
                          !.pending = Retain(@, (1..Len(@)) \ Own(t))]
    /\ begun' = begun \o [k \in 1..Len(Mine(t)) |-> Mine(t)[k].input]
    /\ UNCHANGED <<completed, task, cancelled, final, call, failures>> /\ TurnFrame

\* The last step ends with a finish reason; not while inputs of the turn wait.
finish_step(t) ==
    /\ task[t] = "running" /\ t \notin cancelled
    /\ log.step = "Open" /\ Own(t) = {}
    /\ log' = [log EXCEPT !.step = "Finished"]
    /\ UNCHANGED <<begun, completed, task, cancelled, final, call, failures>> /\ TurnFrame

\* run_turn returns: finished, cancelled or failed.  The terminal is written, the
\* finalization recorded and the completion sent; the task still has to end.
run_and_finalize_turn(t) ==
    /\ task[t] = "running"
    /\ log.step = "Finished" \/ t \in cancelled \/ CanFail
    /\ \/ /\ log' = finalize_turn(log, t)
          /\ completed' = Completing(t)
          /\ final' = [final EXCEPT ![t] = "persisted"]
          /\ IF log.step = "Finished" \/ t \in cancelled THEN UNCHANGED failures ELSE Fail
       \/ /\ Fail
          /\ final' = [final EXCEPT ![t] = "unpersisted"]
          /\ UNCHANGED <<log, completed>>
    /\ task' = [task EXCEPT ![t] = "sent"]
    /\ cancelled' = cancelled \cup {t}
    /\ UNCHANGED <<begun, call>> /\ TurnFrame

task_ends(t) ==
    /\ task[t] = "sent"
    /\ task' = [task EXCEPT ![t] = "ended"]
    /\ UNCHANGED <<log, begun, completed, cancelled, final, call, failures>> /\ TurnFrame

----------------------------------------------------------------------------
(* The completion watcher of turn t (run_detached_completion_watcher).       *)

\* handle.wait: the completion, or the closed channel of a killed task.
watch(t) ==
    /\ call[t].pc = "waiting" /\ task[t] \in {"sent", "ended", "killed"}
    /\ call' = Goto(t, "finishing")
    /\ UNCHANGED <<log, begun, completed, entry, task, cancelled, gate, answer, retry, failures>> /\ Quiet

\* finish_and_maybe_start_next begins with sync_durable_events_required, which
\* the released lane of a deleted session refuses: the watcher tries for ever.
finish_sync(t) ==
    /\ call[t].pc = "finishing" /\ exists
    /\ call' = [call EXCEPT ![t].pc = "locking", ![t].gate = current]
    /\ UNCHANGED <<log, begun, completed, entry, task, cancelled, gate, answer, retry, failures>> /\ Quiet

\* Under the gate: somebody else settled the turn.
finish_stale(t) ==
    /\ call[t].pc = "gated" /\ entry.turn # t
    /\ gate' = Released(call[t].gate) /\ call' = Goto(t, "done")
    /\ UNCHANGED <<log, begun, completed, entry, task, cancelled, answer, retry, failures>> /\ Quiet

\* Mutant: the newest input is started first.
finish_and_maybe_start_next_Last(t) ==
    /\ call[t].pc = "gated" /\ entry.turn = t
    /\ log' = SettledLog(t) /\ completed' = SettledTurns(t)
    /\ IF gate[call[t].gate].closing \/ ~accepting \/ log'.pending = << >>
       THEN /\ entry' = NoEntry /\ gate' = Released(call[t].gate)
            /\ call' = Goto(t, "done") /\ UNCHANGED used
       ELSE reserve_execution(t, Last(log'.pending).input, TRUE)
    /\ UNCHANGED <<begun, task, cancelled, final, current, answer, retry, exists, accepting,
                   down, failures, stops, controls>>

\* Mutant: the queue is not looked at.
finish_and_maybe_start_next_NoNext(t) ==
    /\ call[t].pc = "gated" /\ entry.turn = t
    /\ log' = SettledLog(t) /\ completed' = SettledTurns(t)
    /\ IF gate[call[t].gate].closing \/ TRUE
       THEN /\ entry' = NoEntry /\ gate' = Released(call[t].gate)
            /\ call' = Goto(t, "done") /\ UNCHANGED used
       ELSE reserve_execution(t, Head(log'.pending).input, TRUE)
    /\ UNCHANGED <<begun, task, cancelled, final, current, answer, retry, exists, accepting,
                   down, failures, stops, controls>>

\* settle_finished_execution_locked, then start_next_after_settle_in_operation:
\* the head of the queue is reserved unless the session closes or the server stops.
finish_and_maybe_start_next(t) ==
    /\ call[t].pc = "gated" /\ entry.turn = t
    /\ log' = SettledLog(t) /\ completed' = SettledTurns(t)
    /\ IF gate[call[t].gate].closing \/ ~accepting \/ log'.pending = << >>
       THEN /\ entry' = NoEntry /\ gate' = Released(call[t].gate)
            /\ call' = Goto(t, "done") /\ UNCHANGED used
       ELSE reserve_execution(t, Head(log'.pending).input, TRUE)
    /\ UNCHANGED <<begun, task, cancelled, final, current, answer, retry, exists, accepting,
                   down, failures, stops, controls>>

\* Mutant: the watcher gives up after one failure.
finish_fails_GivesUp(t) ==
    /\ call[t].pc = "gated" /\ entry.turn = t
    /\ Fail
    /\ gate' = Released(call[t].gate) /\ call' = Goto(t, "done")
    /\ UNCHANGED <<log, begun, completed, entry, task, cancelled, answer, retry>> /\ Quiet

\* The terminal cannot be written: the entry stays and the watcher tries again.
finish_fails(t) ==
    /\ call[t].pc = "gated" /\ entry.turn = t
    /\ Fail
    /\ gate' = Released(call[t].gate) /\ call' = Goto(t, "finishing")
    /\ UNCHANGED <<log, begun, completed, entry, task, cancelled, answer, retry>> /\ Quiet

----------------------------------------------------------------------------
(* Retrying the start of a queued input (queue_drains.rs, run_queue_retry).  *)

run_queue_retry ==
    /\ retry /\ call[Retry] = Away /\ accepting
    /\ retry' = FALSE
    /\ call' = [call EXCEPT ![Retry].pc = "locking", ![Retry].gate = current]
    /\ UNCHANGED <<log, begun, completed, entry, task, cancelled, gate, answer, failures>> /\ Quiet

queue_retry ==
    /\ call[Retry].pc = "gated"
    /\ IF entry # NoEntry \/ log.pending = << >>
       THEN Return(Retry, "none") /\ UNCHANGED <<entry, used>>
       ELSE reserve_execution(Retry, Head1.input, TRUE) /\ UNCHANGED answer
    /\ UNCHANGED <<log, begun, completed, task, cancelled, final, current, retry, exists,
                   accepting, down, failures, stops, controls>>

----------------------------------------------------------------------------
(* Abort and interrupt.                                                      *)

Aborts(c) == call[c].kind \in {"Abort", "InterruptAndStart"}

\* wait_for_starts under the gate: nobody can reserve, and nobody is starting.
abort(c) ==
    /\ call[c].pc = "gated" /\ Aborts(c)
    /\ gate[call[c].gate].starts = 0
    /\ call' = Goto(c, "aborting")
    /\ UNCHANGED <<log, begun, completed, entry, task, cancelled, gate, answer, retry, failures>> /\ Quiet

\* abort_current_in_operation asks the turn to stop ...
request_shutdown(c) ==
    /\ call[c].pc = "aborting" /\ is_running /\ ~is_finished
    /\ entry.turn \notin cancelled
    /\ cancelled' = cancelled \cup {entry.turn}
    /\ UNCHANGED <<log, begun, completed, entry, task, gate, call, answer, retry, failures>> /\ Quiet

\* ... settles it once it has ended ...
abort_settles(c) ==
    /\ call[c].pc = "aborting" /\ is_finished
    /\ \/ /\ log' = IF final[entry.turn] = "persisted" THEN log ELSE finalize_turn(log, entry.turn)
          /\ completed' = IF final[entry.turn] = "persisted" THEN completed ELSE Completing(entry.turn)
          /\ entry' = NoEntry /\ call' = Goto(c, "aborted")
          /\ UNCHANGED <<gate, answer, failures>>
       \/ Fail /\ Return(c, "refused") /\ UNCHANGED <<log, completed, entry>>
    /\ UNCHANGED <<begun, task, cancelled, retry>> /\ Quiet

\* Mutant: the entry goes although the task works on.
force_kill_NoKill(c) ==
    /\ call[c].pc = "aborting" /\ is_running /\ ~is_finished
    /\ entry.turn \in cancelled
    /\ UNCHANGED task
    /\ \/ /\ log' = finalize_turn(log, entry.turn) /\ completed' = Completing(entry.turn)
          /\ entry' = NoEntry /\ call' = Goto(c, "aborted")
          /\ UNCHANGED <<gate, answer, failures>>
       \/ Fail /\ Return(c, "refused") /\ UNCHANGED <<log, completed, entry>>
    /\ UNCHANGED <<begun, cancelled, retry>> /\ Quiet

\* ... or kills it after the grace period and writes the terminal itself
\* (force_kill_if_running, emit_turn_aborted).
force_kill(c) ==
    /\ call[c].pc = "aborting" /\ is_running /\ ~is_finished
    /\ entry.turn \in cancelled
    /\ task' = [task EXCEPT ![entry.turn] = "killed"]
    /\ \/ /\ log' = finalize_turn(log, entry.turn) /\ completed' = Completing(entry.turn)
          /\ entry' = NoEntry /\ call' = Goto(c, "aborted")
          /\ UNCHANGED <<gate, answer, failures>>
       \/ Fail /\ Return(c, "refused") /\ UNCHANGED <<log, completed, entry>>
    /\ UNCHANGED <<begun, cancelled, retry>> /\ Quiet

abort_nothing(c) ==
    /\ call[c].pc = "aborting" /\ entry = NoEntry
    /\ call' = Goto(c, "aborted")
    /\ UNCHANGED <<log, begun, completed, entry, task, cancelled, gate, answer, retry, failures>> /\ Quiet

\* repair_stale_locked closes a phase that no turn owns; then an abort starts the
\* head of the queue and an interrupt starts its own input.
abort_continues(c) ==
    LET l == IF entry = NoEntry THEN repair_turn_protocol_state(log) ELSE log
    IN  /\ call[c].pc = "aborted"
        /\ log' = l
        /\ IF call[c].kind = "InterruptAndStart"
           THEN reserve_execution(c, call[c].input, FALSE) /\ UNCHANGED answer
           ELSE IF l.pending # << >>
                THEN reserve_execution(c, Head(l.pending).input, TRUE) /\ UNCHANGED answer
                ELSE Return(c, "none") /\ UNCHANGED <<entry, used>>
        /\ UNCHANGED <<begun, completed, task, cancelled, final, current, retry, exists,
                       accepting, down, failures, stops, controls>>

----------------------------------------------------------------------------
(* Stale repair after a restart (repair_stale, resume_stale_execution).      *)

Resumable == entry = NoEntry /\ Busy(log) /\ log.unsettled # NoTurn /\ log.step # "None"

\* A turn whose last step is open is driven again, under its own id.
resume_stale_execution(c) ==
    LET t == log.unsettled IN
    /\ Gated(c, "Repair") /\ Resumable /\ log.step = "Open"
    /\ entry' = [turn |-> t, state |-> "Running"]
    /\ task' = [task EXCEPT ![t] = "running"]
    /\ gate' = Released(call[c].gate)
    /\ call' = [call EXCEPT ![c] = Away, ![t] = [Away EXCEPT !.pc = "waiting"]]
    /\ UNCHANGED <<log, begun, completed, cancelled, answer, retry, failures>> /\ Quiet

\* A turn that only lacks its terminal gets it; another stale phase is closed;
\* then the queue goes on.
repair_stale(c) ==
    LET t == log.unsettled
        owed == Resumable /\ log.step = "Finished"
        l == IF owed THEN TurnCompleted(log, t)
             ELSE IF entry = NoEntry THEN repair_turn_protocol_state(log) ELSE log
    IN  /\ Gated(c, "Repair") /\ ~(Resumable /\ log.step = "Open")
        /\ log' = l
        /\ completed' = IF owed THEN completed \cup {t} ELSE completed
        /\ IF l.pending # << >> /\ entry = NoEntry
           THEN reserve_execution(c, Head(l.pending).input, TRUE) /\ UNCHANGED answer
           ELSE Return(c, "none") /\ UNCHANGED <<entry, used>>
        /\ UNCHANGED <<begun, task, cancelled, final, current, retry, exists, accepting, down,
                       failures, stops, controls>>

repair_fails(c) ==
    /\ Gated(c, "Repair") /\ Fail
    /\ Return(c, "none")
    /\ UNCHANGED <<log, begun, completed, entry, task, cancelled, retry>> /\ Quiet

----------------------------------------------------------------------------
(* Closing the session (close_session_tree for a tree of one node).          *)

\* close_operation: the gate is marked and released; nobody begins on it again.
close(c) ==
    /\ Gated(c, "Close")
    /\ gate' = [gate EXCEPT ![call[c].gate].holder = Nobody, ![call[c].gate].closing = TRUE]
    /\ call' = Goto(c, "closing")
    /\ UNCHANGED <<log, begun, completed, entry, task, cancelled, answer, retry, failures>> /\ Quiet

\* Mutant: the running turn is only asked to stop.
CleanUp_NoKill(a, then) ==
    LET t == entry.turn
        kills == is_running /\ ~is_finished
    IN  /\ entry.state # "Reserved"
        /\ task' = task
        /\ cancelled' = IF kills THEN cancelled \cup {t} ELSE cancelled
        /\ \/ /\ log' = IF is_finished THEN SettledLog(t)
                        ELSE IF kills THEN finalize_turn(log, t) ELSE repair_turn_protocol_state(log)
              /\ completed' = IF is_finished THEN SettledTurns(t)
                              ELSE IF kills THEN Completing(t) ELSE completed
              /\ entry' = NoEntry
              /\ call' = Goto(a, then)
              /\ UNCHANGED failures
           \/ /\ Fail
              /\ call' = Goto(a, IF then = "deleting" THEN "closeFails" ELSE "settling")
              /\ UNCHANGED <<log, completed, entry>>

\* cleanup_execution_locked: settle a finished turn, kill a running one, repair a
\* stale phase.  It waits while the turn is only reserved.
CleanUp(a, then) ==
    LET t == entry.turn
        kills == is_running /\ ~is_finished
    IN  /\ entry.state # "Reserved"
        /\ task' = IF kills THEN [task EXCEPT ![t] = "killed"] ELSE task
        /\ cancelled' = IF kills THEN cancelled \cup {t} ELSE cancelled
        /\ \/ /\ log' = IF is_finished THEN SettledLog(t)
                        ELSE IF kills THEN finalize_turn(log, t) ELSE repair_turn_protocol_state(log)
              /\ completed' = IF is_finished THEN SettledTurns(t)
                              ELSE IF kills THEN Completing(t) ELSE completed
              /\ entry' = NoEntry
              /\ call' = Goto(a, then)
              /\ UNCHANGED failures
           \/ /\ Fail
              /\ call' = Goto(a, IF then = "deleting" THEN "closeFails" ELSE "settling")
              /\ UNCHANGED <<log, completed, entry>>

close_cleanup(c) ==
    /\ call[c].pc = "closing"
    /\ gate[call[c].gate].starts = 0
    /\ CleanUp(c, "deleting")
    /\ retry' = FALSE
    /\ UNCHANGED <<begun, gate, answer>> /\ Quiet

\* SessionManager::delete or recycle_session, then SessionClosure::finish: the
\* gate leaves the map whatever the outcome.
close_finish(c) ==
    /\ call[c].pc \in {"deleting", "closeFails"}
    /\ \/ call[c].pc = "deleting" /\ exists' = FALSE /\ UNCHANGED failures
       \/ call[c].pc = "closeFails" /\ UNCHANGED <<exists, failures>>
       \/ call[c].pc = "deleting" /\ Fail /\ UNCHANGED exists
    /\ current' = current + 1
    /\ call' = [call EXCEPT ![c] = Away]
    /\ UNCHANGED <<log, begun, completed, entry, used, task, cancelled, final, gate, answer,
                   retry, accepting, down, stops, controls>>

----------------------------------------------------------------------------
(* Shutdown of the server (shutdown_background_tasks, OwnedTaskSet).         *)

DownFrame == UNCHANGED <<begun, used, final, current, answer, exists>>

\* stop_task_admission, background_shutdown.cancel, request_all_turn_shutdowns.
stop_task_admission ==
    /\ "shutdown" \in Stops /\ stops < MaxStops /\ stops' = stops + 1 /\ UNCHANGED controls
    /\ down = "no"
    /\ accepting' = FALSE /\ down' = "stopping"
    /\ cancelled' = IF is_running THEN cancelled \cup {entry.turn} ELSE cancelled
    /\ UNCHANGED <<log, completed, entry, task, gate, call, retry, failures>> /\ DownFrame

\* wait_for_admissions: admitted callers and watchers that start a turn are done.
wait_for_task_admissions ==
    /\ down = "stopping"
    /\ \A c \in Callers : call[c] = Away \/ call[c].kind \in {"Abort", "Close"}
    /\ \A a \in Actors : ~Starting(a, "submitting") /\ (a \in Turns => ~Starting(a, "starting"))
    /\ down' = "settling"
    /\ cancelled' = IF is_running THEN cancelled \cup {entry.turn} ELSE cancelled
    /\ call' = [call EXCEPT ![Server].pc = "settling"]
    /\ UNCHANGED <<log, completed, entry, task, gate, retry, accepting, failures>> /\ DownFrame /\ UNCHANGED <<stops, controls>>

\* settle_all_active_turns_for_shutdown: while a turn is registered, lock the gate
\* and clean up.
settle_lock ==
    /\ call[Server].pc = "settling" /\ entry # NoEntry
    /\ call' = [call EXCEPT ![Server].pc = "locking", ![Server].gate = current]
    /\ UNCHANGED <<log, completed, entry, task, cancelled, gate, retry, accepting, down, failures>>
    /\ DownFrame /\ UNCHANGED <<stops, controls>>

settle_active_turn ==
    /\ call[Server].pc = "gated"
    /\ gate[call[Server].gate].starts = 0
    /\ CleanUp(Server, "settling")
    /\ gate' = Released(call[Server].gate)
    /\ UNCHANGED <<retry, accepting, down>> /\ DownFrame /\ UNCHANGED <<stops, controls>>

\* close_and_wait: the tracker is empty when every watcher, retry and close ended.
close_and_wait ==
    /\ call[Server].pc = "settling" /\ entry = NoEntry
    /\ \A t \in Turns : call[t].pc \in {"idle", "done"}
    /\ call[Retry] = Away
    /\ \A c \in Callers : call[c].kind # "Close"
    /\ down' = "done" /\ call' = [call EXCEPT ![Server] = Away]
    /\ UNCHANGED <<log, completed, entry, task, cancelled, gate, retry, accepting, failures>>
    /\ DownFrame /\ UNCHANGED <<stops, controls>>

\* The process dies: only the log is left.  A new process starts with it.
crash ==
    /\ "crash" \in Stops /\ Fail /\ UNCHANGED <<stops, controls>>
    /\ entry' = NoEntry /\ cancelled' = {}
    /\ task' = [t \in Turns |-> "none"] /\ final' = [t \in Turns |-> "none"]
    /\ gate' = [g \in 1..MaxGates |-> OpenGate]
    /\ call' = [a \in Actors |-> Away]
    /\ retry' = FALSE /\ accepting' = TRUE /\ down' = "no"
    /\ UNCHANGED <<log, begun, completed, used, current, answer, exists>>

CallerStep(c) ==
    \/ begin(c) \/ start_new(c) \/ inject_only(c) \/ inject_if_running_else_start(c)
    \/ queue_if_running_else_start(c)
    \/ abort(c) \/ request_shutdown(c) \/ abort_settles(c) \/ force_kill(c)
    \/ abort_nothing(c) \/ abort_continues(c)
    \/ resume_stale_execution(c) \/ repair_stale(c) \/ repair_fails(c)
    \/ close(c) \/ close_cleanup(c) \/ close_finish(c)

StartStep(a) ==
    start_rejected(a) \/ submit(a) \/ activate(a) \/ submit_fails(a) \/ settle_failed_turn_setup(a)

TaskStep(t) == run_one_step(t) \/ finish_step(t) \/ run_and_finalize_turn(t) \/ task_ends(t)

WatchStep(t) ==
    \/ watch(t) \/ finish_sync(t) \/ begin(t) \/ finish_stale(t)
    \/ finish_and_maybe_start_next(t) \/ finish_fails(t)

RetryStep == run_queue_retry \/ begin(Retry) \/ queue_retry

ServerStep ==
    \/ wait_for_task_admissions \/ settle_lock \/ begin(Server) \/ settle_active_turn
    \/ close_and_wait

Next ==
    \/ \E c \in Callers, k \in Kinds, i \in Inputs \cup {NoInput} : request(c, k, i)
    \/ \E c \in Callers : CallerStep(c)
    \/ \E a \in Callers \cup Turns \cup {Retry} : StartStep(a)
    \/ \E t \in Turns : TaskStep(t) \/ WatchStep(t)
    \/ RetryStep \/ stop_task_admission \/ ServerStep
    \/ crash

\* Every task that runs is scheduled, a turn ends or is killed, and I/O returns.
\* The gate is a tokio mutex, which serves its waiters in order: hence strong
\* fairness of whoever may wait for it.  The shutdown looks at the registry again
\* and again: users who abort without end do not place a new reservation under
\* every look.  Nothing else is assumed of users, crashes or failures.
Fairness ==
    /\ \A c \in Callers : SF_vars(CallerStep(c))
    /\ \A a \in Callers \cup Turns \cup {Retry} :
            WF_vars(start_rejected(a) \/ submit(a) \/ activate(a))
    /\ \A t \in Turns : WF_vars(TaskStep(t)) /\ SF_vars(WatchStep(t))
    /\ SF_vars(RetryStep) /\ SF_vars(ServerStep) /\ SF_vars(close_and_wait)

Spec == Init /\ [][Next]_vars
FairSpec == Spec /\ Fairness

----------------------------------------------------------------------------
Words == {"none", "started", "injected", "queued", "refused"}

TypeOK ==
    /\ log.phase \in {"Idle", "Busy", "Error"} /\ log.unsettled \in 0..MaxTurns
    /\ log.step \in {"None", "Open", "Finished"}
    /\ \A k \in 1..Len(log.pending) : log.pending[k] \in [input : Inputs, turn : 0..MaxTurns]
    /\ entry \in [turn : 0..MaxTurns, state : {"None", "Reserved", "Running"}]
    /\ task \in [Turns -> {"none", "running", "sent", "ended", "killed"}]
    /\ answer \in [Inputs -> Words]
    /\ \A g \in 1..MaxGates :
            gate[g].holder \in Actors \cup {Nobody} /\ gate[g].starts \in 0..Cardinality(Actors)
    /\ current \in 1..MaxGates

\* At most one turn of a session works at a time, whatever starts, aborts, repairs
\* and closes overlap.
OneTurnRuns == Cardinality({t \in Turns : task[t] = "running"}) <= 1

\* A registered turn is on its way: a reserved one is being started, a running one
\* has a watcher that has not given up.  Otherwise the session is busy for ever.
EveryTurnIsWatched ==
    /\ entry.state = "Reserved" =>
            \E a \in Actors : call[a].turn = entry.turn /\ call[a].pc \in {"starting", "submitting"}
    /\ entry.state = "Running" => call[entry.turn].pc \notin {"idle", "done"}

\* What callers were told is true: an input acknowledged as injected or queued is
\* still pending or has become a user message, never both and exactly once, and a
\* refused one leaves nothing in the queue to be executed later, so that the caller
\* may send it again.
AnswersAreTrue ==
    LET waiting == {log.pending[k].input : k \in 1..Len(log.pending)}
    IN  /\ \A i \in Inputs : answer[i] \in {"injected", "queued"} => i \in waiting \cup Range(begun)
        /\ waiting \cap Range(begun) = {}
        /\ \A j, k \in 1..Len(begun) : begun[j] = begun[k] => j = k
        /\ \A i \in waiting : answer[i] # "refused"

Quiescent == entry.state # "Running" /\ \A t \in Turns : task[t] # "running"

\* Once the session is deleted or recycled no turn of it works, and none works later.
StoppedIsQuiet == ~exists => Quiescent

\* A turn whose terminal is in the log never works again, also after a restart.
CompletedStaysCompleted ==
    [][\A t \in completed : task'[t] = "running" => task[t] = "running"]_vars

\* The head of the queue is the next queued input to be started: queued inputs
\* are executed in the order in which they were acknowledged.
StartsInOrder ==
    [][\A a \in Actors :
          call[a].pc = "submitting" /\ call[a].queued /\ begun' = Append(begun, call[a].input)
              => Head(log.pending).input = call[a].input]_vars

\* A queued or injected input does not stay behind: it is started, unless the
\* session is closed or the server stops.
PendingIsStarted ==
    \A i \in Inputs : (\E k \in 1..Len(log.pending) : log.pending[k].input = i)
                          ~> (Contains(begun, i) \/ ~exists \/ down # "no")

\* task_utils.rs: shutdown "closes and drains the tracker", so it returns, and
\* leaves no turn at work.
ShutdownReturns == down = "stopping" ~> down = "no" \/ (down = "done" /\ Quiescent)
=============================================================================
