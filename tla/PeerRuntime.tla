---------------------------- MODULE PeerRuntime ----------------------------
(***************************************************************************)
(* The S5R peer runtime: the driver that the host and an extension worker  *)
(* each run over one connection.  A call is put on the driver's command    *)
(* queue, written by the only frame writer, executed by a task at the      *)
(* other peer and answered with a result or with stream events.  A caller  *)
(* that is dropped cancels its call; the driver then keeps a tombstone for *)
(* the answer that may already be on its way.  Host calls are made by the  *)
(* host; nested calls are made by the worker's handlers while they run.    *)
(* Every request identifier is used once.                                  *)
(***************************************************************************)
EXTENDS Naturals, Sequences, FiniteSets, SequencesExt

CONSTANTS
    HostCalls,      \* calls the host makes to the worker
    NestedCalls,    \* calls a worker's handler makes back to the host
    Streams,        \* the calls that are answered with a stream of events
    NoParent,       \* no invocation
    MaxInFlight,    \* permits of each peer, in each direction
    Tombstones,     \* how many cancelled requests a driver remembers
    WriteCapacity,  \* frames in the write queue
    PipeCapacity,   \* frames the transport holds
    ForwardCapacity,\* stream events between the driver and the consumer
    MaxEvents,      \* non-terminal events of a stream
    Shutdowns       \* the peers that may be shut down, or lose the transport

Requests == HostCalls \cup NestedCalls

ASSUME PeerRuntimeAssumption ==
    /\ HostCalls \cap NestedCalls = {}
    /\ Streams \subseteq Requests
    /\ NoParent \notin Requests
    /\ {MaxInFlight, Tombstones, WriteCapacity, PipeCapacity, ForwardCapacity}
         \subseteq Nat \ {0}
    /\ MaxEvents \in Nat
    /\ Shutdowns \subseteq {"host", "worker"}

VARIABLES
    \* the callers
    caller,         \* caller[r]: "idle", "permit", "queued", "sent",
                    \*            "answered", "failed" or "dropped"
    parent,         \* parent[n]: the invocation whose handler made nested call n
    forward,        \* forward[r]: stream events on the way to the consumer
    closed,         \* the streams whose forwarding task has given up
    \* each peer's driver
    alive,          \* alive[p]: "running", or why driver p stopped
    permits,        \* permits[p]: outbound permits that are free
    commands,       \* commands[p]: requests for driver p to send
    controls,       \* controls[p]: requests for driver p to cancel
    pending,        \* pending[p]: requests that wait for their answer
    cancelling,     \* stream requests the driver has itself asked to cancel
    tombstones,     \* tombstones[p]: remembered cancelled requests, oldest first
    forgotten,      \* the requests whose tombstone was evicted
    writes,         \* writes[p]: the frames queued at p's writer
    wire,           \* wire[p]: the frames from p that are in transit
    \* the tasks of the invocations, at the peer that executes them
    task,           \* task[r]: "none", "running", "cancelled", "streaming",
                    \*          "stopping", "writing" or "done"
    emitted         \* emitted[r]: non-terminal events of stream r so far

callers == << caller, parent, forward, closed >>
driver  == << permits, pending, cancelling, tombstones, forgotten >>
queues  == << commands, controls, writes, wire >>
tasks   == << task, emitted >>
vars    == << callers, alive, driver, queues, tasks >>

Peers == {"host", "worker"}
Other(p) == IF p = "host" THEN "worker" ELSE "host"
Origin(r) == IF r \in HostCalls THEN "host" ELSE "worker"
Executor(r) == Other(Origin(r))

Settled == {"answered", "failed", "dropped"}
Working == {"running", "cancelled", "streaming", "stopping", "writing"}

Frame(t, r) == [type |-> t, id |-> r]

Running(p) == alive[p] = "running"
CanWrite(p) == Len(writes[p]) < WriteCapacity

(* The executor's inbound permits that are taken.                          *)
Inbound(p) == {r \in Requests : Executor(r) = p /\ task[r] \in Working}

---------------------------------------------------------------------------
(* The driver stops: its invocation tasks are aborted (and the calls their *)
(* handlers made are dropped), the pending calls and the queued commands   *)
(* are released with an error, and the writer is aborted.                  *)

Orphans(p) == {n \in NestedCalls : p = "worker" /\ caller[n] \in {"permit", "queued", "sent"}}

Stop_LeavesQueued(p, why) ==
    /\ alive' = [alive EXCEPT ![p] = why]
    /\ caller' = [r \in Requests |->
          IF r \in Orphans(p) THEN "dropped"
          ELSE IF r \in pending[p] /\ caller[r] \in {"queued", "sent"} /\ forward[r] = <<>>
          THEN "failed" ELSE caller[r]]
    /\ closed' = closed \cup {r \in Streams : Origin(r) = p}
    /\ task' = [r \in Requests |->
          IF Executor(r) = p /\ task[r] \in Working THEN "done" ELSE task[r]]
    /\ pending' = [pending EXCEPT ![p] = {}]
    /\ permits' = [permits EXCEPT ![p] = MaxInFlight]
    /\ commands' = [commands EXCEPT ![p] = <<>>]
    /\ controls' = [controls EXCEPT ![p] = <<>>]
    /\ writes' = [writes EXCEPT ![p] = <<>>]
    /\ UNCHANGED << parent, forward, cancelling, tombstones, forgotten, wire, emitted >>

Stop(p, why) ==
    /\ alive' = [alive EXCEPT ![p] = why]
    /\ caller' = [r \in Requests |->
          IF r \in Orphans(p) THEN "dropped"
          ELSE IF Origin(r) = p /\ caller[r] \in {"queued", "sent"} /\ forward[r] = <<>>
          THEN "failed" ELSE caller[r]]
    /\ closed' = closed \cup {r \in Streams : Origin(r) = p}
    /\ task' = [r \in Requests |->
          IF Executor(r) = p /\ task[r] \in Working THEN "done" ELSE task[r]]
    /\ pending' = [pending EXCEPT ![p] = {}]
    /\ permits' = [permits EXCEPT ![p] = MaxInFlight]
    /\ commands' = [commands EXCEPT ![p] = <<>>]
    /\ controls' = [controls EXCEPT ![p] = <<>>]
    /\ writes' = [writes EXCEPT ![p] = <<>>]
    /\ UNCHANGED << parent, forward, cancelling, tombstones, forgotten, wire, emitted >>

shutdown(p) == Running(p) /\ p \in Shutdowns /\ Stop(p, "shutdown")

(* End of file: the other end is closed and everything it sent was read.   *)
read_eof(p) ==
    Running(p) /\ ~Running(Other(p)) /\ wire[Other(p)] = <<>> /\ Stop(p, "eof")

(* The transport refuses a frame: the other end is closed.                 *)
write_fails(p) ==
    Running(p) /\ ~Running(Other(p)) /\ writes[p] # <<>> /\ Stop(p, "transport")

---------------------------------------------------------------------------
(* Callers.                                                                *)

invoke(r) ==
    /\ caller[r] = "idle"
    /\ IF r \in HostCalls
       THEN UNCHANGED parent
       ELSE \E h \in HostCalls : /\ task[h] = "running"
                                 /\ parent' = [parent EXCEPT ![r] = h]
    /\ caller' = [caller EXCEPT ![r] = "permit"]
    /\ UNCHANGED << forward, closed, alive, driver, queues, tasks >>

(* A top-level call waits for a permit, a nested one is refused when there *)
(* is none; the command queue has room for every permit.                   *)
acquire_outbound_permit(r) ==
    LET p == Origin(r) IN
    /\ caller[r] = "permit"
    /\ \/ /\ permits[p] > 0 /\ Running(p)
          /\ permits' = [permits EXCEPT ![p] = @ - 1]
          /\ commands' = [commands EXCEPT ![p] = Append(@, r)]
          /\ caller' = [caller EXCEPT ![r] = "queued"]
       \/ /\ IF permits[p] = 0 THEN r \in NestedCalls ELSE ~Running(p)
          /\ caller' = [caller EXCEPT ![r] = "failed"]
          /\ UNCHANGED << permits, commands >>
    /\ UNCHANGED << parent, forward, closed, alive, pending, cancelling, tombstones,
                    forgotten, controls, writes, wire, tasks >>

(* CancelOnDrop and PeerStream's drop: the caller's future goes away.      *)
DropAll(gone) ==
    /\ caller' = [r \in Requests |-> IF r \in gone THEN "dropped" ELSE caller[r]]
    /\ \E order \in [1..Cardinality(gone) -> gone] :
          /\ ToSet(order) = gone
          /\ controls' = [p \in Peers |->
                controls[p] \o IF Running(p)
                               THEN SelectSeq(order, LAMBDA r : Origin(r) = p
                                                        /\ caller[r] # "permit")
                               ELSE <<>>]

drop_caller(r) ==
    /\ caller[r] \in {"permit", "queued", "sent"}
    /\ DropAll({r})
    /\ UNCHANGED << parent, forward, closed, alive, driver, commands, writes, wire, tasks >>

(* The consumer of a stream takes an event; the terminal one ends it.      *)
next_event(r) ==
    /\ caller[r] = "sent"
    /\ forward[r] # <<>>
    /\ forward' = [forward EXCEPT ![r] = Tail(@)]
    /\ caller' = IF Head(forward[r]) = "end" THEN [caller EXCEPT ![r] = "answered"] ELSE caller
    /\ UNCHANGED << parent, closed, alive, driver, queues, tasks >>

(* TerminalStream: a stream that ends without a terminal event reports a   *)
(* failure, the recorded one or its own.                                   *)
stream_closed(r) ==
    /\ caller[r] = "sent"
    /\ r \in Streams
    /\ forward[r] = <<>>
    /\ r \in closed \/ r \notin pending[Origin(r)]
    /\ caller' = [caller EXCEPT ![r] = "failed"]
    /\ UNCHANGED << parent, forward, closed, alive, driver, queues, tasks >>

(* forward_stream: the consumer does not take an event in time.            *)
backpressure_timeout(r) ==
    LET p == Origin(r) IN
    /\ caller[r] = "sent"
    /\ forward[r] # <<>>
    /\ r \notin closed
    /\ Running(p)
    /\ closed' = closed \cup {r}
    /\ forward' = [forward EXCEPT ![r] = <<>>]
    /\ controls' = [controls EXCEPT ![p] = Append(@, r)]
    /\ UNCHANGED << caller, parent, alive, driver, commands, writes, wire, tasks >>

---------------------------------------------------------------------------
(* The driver's loop.                                                      *)

(* The request leaves the driver: its permit is free again.                *)
Release(p, r) ==
    /\ pending' = [pending EXCEPT ![p] = @ \ {r}]
    /\ permits' = [permits EXCEPT ![p] = @ + 1]

(* handle_command: a call whose caller is gone is skipped; one whose       *)
(* parent invocation has ended or that finds the write queue full is       *)
(* refused; the others become pending and are queued for the writer.       *)
handle_command(p) ==
    LET r == Head(commands[p])
        refused == \/ r \in NestedCalls /\ task[parent[r]] \notin Working
                   \/ ~CanWrite(p)
    IN
    /\ Running(p)
    /\ commands[p] # <<>>
    /\ commands' = [commands EXCEPT ![p] = Tail(@)]
    /\ \/ /\ caller[r] = "dropped" \/ refused
          /\ permits' = [permits EXCEPT ![p] = @ + 1]
          /\ caller' = IF caller[r] = "queued" THEN [caller EXCEPT ![r] = "failed"] ELSE caller
          /\ UNCHANGED << pending, writes >>
       \/ /\ caller[r] = "queued" /\ ~refused
          /\ pending' = [pending EXCEPT ![p] = @ \cup {r}]
          /\ writes' = [writes EXCEPT ![p] = Append(@, Frame("invoke", r))]
          /\ UNCHANGED << permits, caller >>
    /\ UNCHANGED << parent, forward, closed, alive, cancelling, tombstones, forgotten,
                    controls, wire, tasks >>

Remember_Newest(p, r) ==
    LET full == Len(tombstones[p]) >= Tombstones IN
    /\ tombstones' = IF full THEN tombstones ELSE [tombstones EXCEPT ![p] = Append(@, r)]
    /\ UNCHANGED forgotten

(* CancelledRequests::insert forgets the oldest when it is full.           *)
Remember(p, r) ==
    LET full == Len(tombstones[p]) >= Tombstones IN
    /\ tombstones' = [tombstones EXCEPT
          ![p] = Append(IF full THEN Tail(@) ELSE @, r)]
    /\ forgotten' = IF full THEN forgotten \cup {Head(tombstones[p])} ELSE forgotten

(* handle_control: a cancel of a pending call leaves a tombstone and is    *)
(* sent to the executor; a full write queue stops the driver.              *)
handle_control(p) ==
    LET r == Head(controls[p]) IN
    /\ Running(p)
    /\ controls[p] # <<>>
    /\ \/ /\ r \notin pending[p]
          /\ controls' = [controls EXCEPT ![p] = Tail(@)]
          /\ UNCHANGED << callers, alive, driver, commands, writes, wire, tasks >>
       \/ /\ r \in pending[p] /\ CanWrite(p)
          /\ controls' = [controls EXCEPT ![p] = Tail(@)]
          /\ Release(p, r)
          /\ Remember(p, r)
          /\ writes' = [writes EXCEPT ![p] = Append(@, Frame("cancel", r))]
          /\ UNCHANGED << callers, alive, cancelling, commands, wire, tasks >>
       \/ r \in pending[p] /\ ~CanWrite(p) /\ Stop(p, "write_queue_full")

(* run_write_pump: the oldest frame is written; an invoke's receipt goes   *)
(* to its caller, and the task of a final answer ends with its receipt.    *)
write_frame(p) ==
    LET f == Head(writes[p]) IN
    /\ Running(p) /\ Running(Other(p))
    /\ writes[p] # <<>>
    /\ Len(wire[p]) < PipeCapacity
    /\ writes' = [writes EXCEPT ![p] = Tail(@)]
    /\ wire' = [wire EXCEPT ![p] = Append(@, f)]
    /\ caller' = IF f.type = "invoke" /\ caller[f.id] = "queued"
                 THEN [caller EXCEPT ![f.id] = "sent"] ELSE caller
    /\ task' = IF f.type \in {"result", "end"} /\ task[f.id] = "writing"
               THEN [task EXCEPT ![f.id] = "done"] ELSE task
    /\ UNCHANGED << parent, forward, closed, alive, driver, commands, controls, emitted >>

---------------------------------------------------------------------------
(* handle_message: one action per kind of frame, from the head of the wire.*)

Reads(p, type) ==
    /\ Running(p)
    /\ wire[Other(p)] # <<>>
    /\ Head(wire[Other(p)]).type = type

Consumed(p) == wire' = [wire EXCEPT ![Other(p)] = Tail(@)]

(* A nested call needs its parent to be pending here, and every call an    *)
(* inbound permit; a refusal is answered at once, and stops the driver     *)
(* when the write queue is full.                                           *)
read_invoke(p) ==
    LET r == Head(wire[Other(p)]).id
        refused == \/ r \in NestedCalls /\ parent[r] \notin pending[p]
                   \/ Cardinality(Inbound(p)) >= MaxInFlight
    IN
    /\ Reads(p, "invoke")
    /\ \/ /\ ~refused
          /\ Consumed(p)
          /\ task' = [task EXCEPT ![r] = "running"]
          /\ UNCHANGED << callers, alive, driver, commands, controls, writes, emitted >>
       \/ /\ refused /\ CanWrite(p)
          /\ Consumed(p)
          /\ writes' = [writes EXCEPT ![p] = Append(@, Frame("result", r))]
          /\ UNCHANGED << callers, alive, driver, commands, controls, tasks >>
       \/ refused /\ ~CanWrite(p) /\ Stop(p, "write_queue_full")

read_cancel_Streaming(p) ==
    LET r == Head(wire[Other(p)]).id IN
    /\ Reads(p, "cancel")
    /\ Consumed(p)
    /\ task' = [task EXCEPT ![r] = IF @ = "streaming" THEN "stopping" ELSE @]
    /\ UNCHANGED << callers, alive, driver, commands, controls, writes, emitted >>

(* The cancel reaches the handler, or the stream, if it is still at work.  *)
read_cancel(p) ==
    LET r == Head(wire[Other(p)]).id IN
    /\ Reads(p, "cancel")
    /\ Consumed(p)
    /\ task' = [task EXCEPT ![r] = CASE @ = "running"   -> "cancelled"
                                     [] @ = "streaming" -> "stopping"
                                     [] OTHER           -> @]
    /\ UNCHANGED << callers, alive, driver, commands, controls, writes, emitted >>

(* CancelledRequests::remove of a request that is remembered, once.        *)
Forget(p, r) ==
    \E i \in 1..Len(tombstones[p]) :
        /\ tombstones[p][i] = r
        /\ tombstones' = [tombstones EXCEPT ![p] = RemoveAt(@, i)]

(* route_result: a tombstone absorbs the result, a pending call gets it,   *)
(* anything else is a protocol error.                                      *)
read_result(p) ==
    LET r == Head(wire[Other(p)]).id IN
    /\ Reads(p, "result")
    /\ \/ /\ r \in ToSet(tombstones[p])
          /\ Forget(p, r)
          /\ Consumed(p)
          /\ UNCHANGED << caller, pending, permits >>
          /\ UNCHANGED << parent, forward, closed, alive, cancelling, forgotten,
                          commands, controls, writes, tasks >>
       \/ /\ r \notin ToSet(tombstones[p]) /\ r \in pending[p]
          /\ Release(p, r)
          /\ Consumed(p)
          /\ caller' = IF caller[r] = "sent" /\ r \notin Streams
                       THEN [caller EXCEPT ![r] = "answered"] ELSE caller
          /\ UNCHANGED << parent, forward, closed, alive, cancelling, tombstones,
                          forgotten, commands, controls, writes, tasks >>
       \/ r \notin ToSet(tombstones[p]) \cup pending[p] /\ Stop(p, "unknown_request")

(* route_stream: a tombstone absorbs the event and goes with the terminal  *)
(* one; a queue that is full or closed makes the driver cancel the stream. *)
read_stream(p) ==
    LET f == Head(wire[Other(p)])
        r == f.id
        full == r \in closed \/ Len(forward[r]) >= ForwardCapacity
    IN
    /\ Reads(p, "event") \/ Reads(p, "end")
    /\ \/ /\ r \in ToSet(tombstones[p])
          /\ IF f.type = "end" THEN Forget(p, r) ELSE UNCHANGED tombstones
          /\ Consumed(p)
          /\ UNCHANGED << callers, alive, permits, pending, cancelling, forgotten,
                          commands, controls, writes, tasks >>
       \/ /\ r \notin ToSet(tombstones[p]) /\ r \in pending[p] \cap cancelling
          /\ Consumed(p)
          /\ UNCHANGED << callers, alive, driver, commands, controls, writes, tasks >>
       \/ /\ r \notin ToSet(tombstones[p]) /\ r \in pending[p] \ cancelling /\ full
          /\ cancelling' = cancelling \cup {r}
          /\ controls' = [controls EXCEPT ![p] = Append(@, r)]
          /\ Consumed(p)
          /\ UNCHANGED << callers, alive, permits, pending, tombstones, forgotten,
                          commands, writes, tasks >>
       \/ /\ r \notin ToSet(tombstones[p]) /\ r \in pending[p] \ cancelling /\ ~full
          /\ forward' = [forward EXCEPT ![r] = Append(@, f.type)]
          /\ IF f.type = "end" THEN Release(p, r) ELSE UNCHANGED << pending, permits >>
          /\ Consumed(p)
          /\ UNCHANGED << caller, parent, closed, alive, cancelling, tombstones,
                          forgotten, commands, controls, writes, tasks >>
       \/ r \notin ToSet(tombstones[p]) \cup pending[p] /\ Stop(p, "unknown_request")

---------------------------------------------------------------------------
(* run_inbound: the task of an invocation.                                 *)

Nested(r) == {n \in NestedCalls : parent[n] = r /\ caller[n] \in {"permit", "queued", "sent"}}

(* The handler returns, its own calls done, possibly just as the cancel    *)
(* arrives: the answer still goes out.  A stream call whose handler fails  *)
(* is answered with a result.                                              *)
respond(r) ==
    LET p == Executor(r) IN
    /\ Running(p)
    /\ task[r] \in {"running", "cancelled"}
    /\ Nested(r) = {}
    /\ \/ /\ r \in Streams
          /\ task' = [task EXCEPT ![r] = IF @ = "running" THEN "streaming" ELSE "stopping"]
          /\ UNCHANGED writes
       \/ /\ CanWrite(p)
          /\ writes' = [writes EXCEPT ![p] = Append(@, Frame("result", r))]
          /\ task' = [task EXCEPT ![r] = "writing"]
    /\ UNCHANGED << callers, alive, driver, commands, controls, wire, emitted >>

(* A cancelled handler is dropped, and the calls it was waiting for with   *)
(* it; no answer is sent.                                                  *)
cancelled(r) ==
    /\ Running(Executor(r))
    /\ task[r] \in {"cancelled", "stopping"}
    /\ DropAll(Nested(r))
    /\ task' = [task EXCEPT ![r] = "done"]
    /\ UNCHANGED << parent, forward, closed, alive, driver, commands, writes, wire, emitted >>

(* The next event of a stream is queued once the previous one is written;  *)
(* a producer that closes or stays idle yields a terminal event.           *)
stream_event(r) ==
    LET p == Executor(r) IN
    /\ Running(p)
    /\ task[r] = "streaming"
    /\ CanWrite(p)
    /\ \A i \in 1..Len(writes[p]) : writes[p][i].id # r
    /\ \/ /\ emitted[r] < MaxEvents
          /\ emitted' = [emitted EXCEPT ![r] = @ + 1]
          /\ writes' = [writes EXCEPT ![p] = Append(@, Frame("event", r))]
          /\ UNCHANGED task
       \/ /\ writes' = [writes EXCEPT ![p] = Append(@, Frame("end", r))]
          /\ task' = [task EXCEPT ![r] = "writing"]
          /\ UNCHANGED emitted
    /\ UNCHANGED << callers, alive, driver, commands, controls, wire >>

---------------------------------------------------------------------------
Init ==
    /\ caller = [r \in Requests |-> "idle"]
    /\ parent = [n \in NestedCalls |-> NoParent]
    /\ forward = [r \in Requests |-> <<>>]
    /\ closed = {}
    /\ alive = [p \in Peers |-> "running"]
    /\ permits = [p \in Peers |-> MaxInFlight]
    /\ commands = [p \in Peers |-> <<>>]
    /\ controls = [p \in Peers |-> <<>>]
    /\ pending = [p \in Peers |-> {}]
    /\ cancelling = {}
    /\ tombstones = [p \in Peers |-> <<>>]
    /\ forgotten = {}
    /\ writes = [p \in Peers |-> <<>>]
    /\ wire = [p \in Peers |-> <<>>]
    /\ task = [r \in Requests |-> "none"]
    /\ emitted = [r \in Requests |-> 0]

DriverStep(p) ==
    \/ handle_command(p) \/ handle_control(p) \/ write_frame(p)
    \/ read_invoke(p) \/ read_cancel(p) \/ read_result(p) \/ read_stream(p)
    \/ read_eof(p) \/ write_fails(p)

Next ==
    \/ \E r \in Requests : \/ invoke(r) \/ acquire_outbound_permit(r) \/ drop_caller(r)
                           \/ next_event(r) \/ stream_closed(r) \/ backpressure_timeout(r)
                           \/ respond(r) \/ cancelled(r) \/ stream_event(r)
    \/ \E p \in Peers : DriverStep(p) \/ shutdown(p)

(* The select loop is fair to each of its branches, the writer and every   *)
(* task run, and a waiting caller gets a free permit.  A consumer takes    *)
(* its events or meets the backpressure deadline.  Nothing is assumed of   *)
(* the handlers: one may run, or stream, for ever.                         *)
Fairness ==
    /\ \A p \in Peers :
          /\ WF_vars(handle_command(p)) /\ WF_vars(handle_control(p))
          /\ WF_vars(write_frame(p)) /\ WF_vars(read_eof(p))
          /\ WF_vars(read_invoke(p) \/ read_cancel(p) \/ read_result(p) \/ read_stream(p))
    /\ \A r \in Requests :
          /\ WF_vars(acquire_outbound_permit(r))
          /\ WF_vars(next_event(r) \/ backpressure_timeout(r)) /\ WF_vars(stream_closed(r))
          /\ WF_vars(cancelled(r))

Spec == Init /\ [][Next]_vars

FairSpec == Spec /\ Fairness

---------------------------------------------------------------------------
(* Properties.                                                             *)

(* An answer that is late because its call was cancelled, whether a result *)
(* or a stream event, never stops the driver as a protocol error, unless   *)
(* its own tombstone had to make room for newer ones (the frame a stopped  *)
(* driver could not route is still the first of the wire).                 *)
LateAnswersAbsorbed ==
    \A p \in Peers : alive[p] = "unknown_request" => Head(wire[Other(p)]).id \in forgotten

(* Dropping a call reaches the executor: wherever the call was in the      *)
(* queues when its caller went away, its task is in the end over for good. *)
(* A request is used once, so one "for good" serves all requests.          *)
CancelReaches ==
    <>[](\A r \in Requests : caller[r] = "dropped" => task[r] \in {"none", "done"})

(* Every call returns, with an answer or an error, also when the drivers   *)
(* stop and when all permits are taken: a caller that waits for ever waits *)
(* for a handler that runs for ever, its own or one that holds a permit.   *)
CallsReturn ==
    LET AtWork(r) == caller[r] \in {"queued", "sent"} /\ task[r] \in {"running", "streaming"} IN
    <>[](\A r \in Requests :
            \/ caller[r] \in {"idle"} \cup Settled
            \/ AtWork(r)
            \/ caller[r] = "permit" /\ \E q \in Requests : Origin(q) = Origin(r) /\ AtWork(q))

============================================================================
