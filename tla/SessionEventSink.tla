-------------------------- MODULE SessionEventSink --------------------------
(***************************************************************************)
(* The ordered publication of the events of ONE session                     *)
(* (crates/astrcode-session/src/session_event_sink.rs): the lane (a bounded *)
(* queue and the task that drains it), its creation, release, reactivation  *)
(* and shutdown, the deferred publication used while a session is being     *)
(* created, and the two ways a live event takes to the observer.            *)
(*                                                                         *)
(* The journal behind the lane is the contract of SessionJournal: an append *)
(* is all or nothing for readers, a failed fsync leaves a doubt that refuses *)
(* everything until it is retried.  Events are numbered as they are issued. *)
(***************************************************************************)
EXTENDS Integers, Sequences

CONSTANTS
    Callers,    \* tasks that publish events of the session
    Ops,        \* the operations the callers use
    Manager,    \* the task that releases and reactivates the session
    Sink,       \* the task that shuts the sink down
    Nobody,     \* no reply is expected
    MaxEvents,  \* bound: events issued
    MaxLanes,   \* bound: lanes started for the session
    MaxBatch,   \* bound: events of one commit (MAX_DURABLE_BATCH_SIZE)
    Capacity,   \* bound: queue of a lane (EVENT_PUBLISH_CAPACITY)
    MaxDefers   \* bound: uses of defer_publication

ASSUME BoundsAssumption ==
    /\ MaxEvents \in Nat /\ MaxDefers \in Nat
    /\ MaxLanes \in Nat \ {0} /\ MaxBatch \in Nat \ {0} /\ Capacity \in Nat \ {0}
ASSUME TasksAssumption ==
    /\ Nobody \notin Callers /\ Manager \notin Callers \cup {Nobody}
    /\ Sink \notin Callers \cup {Nobody, Manager}

VARIABLES
    closed,     \* SinkState.closed
    inactive,   \* the session is in SinkState.inactive_sessions
    current,    \* the lane in SinkState.lanes, 0 for none
    lane,       \* every lane started so far
    log,        \* journal: the events readers can see, in seq order
    durable,    \* journal: how many of them an fsync covers
    doubt,      \* journal: the uncertain-durability marker
    deferred,   \* PublicationState.deferred for the session
    guard,      \* the SessionEventPublicationGuard
    caller,     \* what each caller is doing
    manager,    \* progress of release / activate
    sink,       \* progress of shutdown
    \* history
    published,  \* events the observer received, in order
    issued,     \* who issued each event, and how
    acked       \* events whose caller got Ok

journal == <<log, durable, doubt>>
state   == <<closed, inactive, current>>
vars    == <<state, lane, journal, deferred, guard, caller, manager, sink, published, issued, acked>>

Lanes       == 1..MaxLanes
ElementsOf(s) == {s[i] : i \in 1..Len(s)}
DurableOps  == {"create", "append", "append_and_sync"}
EventOps    == DurableOps \cup {"live", "live_required"}
CommandOps  == DurableOps \cup {"live", "sync", "retry", "shutdown"}
Repliers    == Callers \cup {Manager, Sink, Nobody}

NoDoubt == [kind |-> "None", batch |-> << >>, through |-> 0]
Fresh   == [phase |-> "unused", receiving |-> FALSE, queue |-> << >>, pending |-> << >>,
            step |-> "recv", out |-> << >>]
Idle    == [st |-> "idle", lane |-> 0, cmd |-> << >>]
Command(op, ev, from, arg) == [op |-> op, ev |-> ev, from |-> from, arg |-> arg]

Init ==
    /\ closed = FALSE /\ inactive = FALSE /\ current = 0
    /\ lane = [l \in Lanes |-> Fresh]
    /\ log = << >> /\ durable = 0 /\ doubt = NoDoubt
    /\ deferred = [on |-> FALSE, events |-> << >>]
    /\ guard = [st |-> "none", out |-> << >>, used |-> 0, lost |-> {}]
    /\ caller = [c \in Callers |-> Idle]
    /\ manager = [st |-> "idle", lane |-> 0]
    /\ sink = [st |-> "idle", lane |-> 0]
    /\ published = << >> /\ issued = << >> /\ acked = {}

-----------------------------------------------------------------------------
(* Callers: lane() and SessionEventLane::request. *)

Started == {l \in Lanes : lane[l].phase # "unused"}

\* SinkState.lanes.entry().or_insert_with(SessionEventLane::start)
LaneFor(l) ==
    /\ ~closed /\ ~inactive
    /\ \/ current = l /\ UNCHANGED <<current, lane>>
       \/ /\ current = 0 /\ lane[l].phase = "unused" /\ l - 1 \in Started \cup {0}
          /\ current' = l
          /\ lane' = [lane EXCEPT ![l].phase = "running", ![l].receiving = TRUE]

Issue(c, op) ==
    /\ Len(issued) < MaxEvents
    /\ issued' = Append(issued, [from |-> c, op |-> op])

\* create, append, append_and_sync, publish_live_required: the event and its lane.
publish_ordered(c, op, l) ==
    /\ caller[c] = Idle
    /\ Issue(c, op)
    /\ LaneFor(l)
    /\ LET kind == IF op = "live_required" THEN "live" ELSE op
           from == IF op = "live_required" THEN Nobody ELSE c
       IN caller' = [caller EXCEPT ![c] =
                        [st |-> "send", lane |-> l,
                         cmd |-> <<Command(kind, Len(issued'), from, 0)>>]]
    /\ UNCHANGED <<closed, inactive, journal, deferred, guard, manager, sink, published, acked>>

\* sync, and retry_uncertain_sync for the boundary that recover_durability_for_operation read.
request_barrier(c, op, l) ==
    /\ caller[c] = Idle
    /\ op = "retry" => doubt.kind # "None"
    /\ LaneFor(l)
    /\ caller' = [caller EXCEPT ![c] =
                     [st |-> "send", lane |-> l, cmd |-> <<Command(op, 0, c, doubt.through)>>]]
    /\ UNCHANGED <<closed, inactive, journal, deferred, guard, manager, sink, published, issued, acked>>

\* The bounded channel of the lane.
HasRoom(l) == Len(lane[l].queue) < Capacity

Enqueue(l, cmd) == lane' = [lane EXCEPT ![l].queue = Append(@, cmd)]

\* commands.send(..).await: waits for capacity, fails once the receiver is closed.
send(c) ==
    /\ caller[c].st = "send"
    /\ LET l == caller[c].lane
           cmd == caller[c].cmd[1]
       IN \/ /\ lane[l].receiving /\ HasRoom(l)
             /\ Enqueue(l, cmd)
             /\ IF cmd.from = Nobody
                THEN /\ caller' = [caller EXCEPT ![c] = Idle]
                     /\ acked' = acked \cup {cmd.ev}
                ELSE /\ caller' = [caller EXCEPT ![c] = [st |-> "wait", lane |-> l, cmd |-> <<cmd>>]]
                     /\ UNCHANGED acked
          \/ /\ ~lane[l].receiving
             /\ caller' = [caller EXCEPT ![c] = Idle]
             /\ UNCHANGED <<lane, acked>>
    /\ UNCHANGED <<state, journal, deferred, guard, manager, sink, published, issued>>

-----------------------------------------------------------------------------
(* publish_live: past the lane, straight to the publication state. *)

publish_live_check(c) ==
    /\ caller[c] = Idle
    /\ ~closed /\ ~inactive
    /\ Issue(c, "live")
    /\ caller' = [caller EXCEPT ![c] =
                     [st |-> "live_route", lane |-> 0, cmd |-> <<Command("live", Len(issued'), Nobody, 0)>>]]
    /\ UNCHANGED <<state, lane, journal, deferred, guard, manager, sink, published, acked>>

\* PublicationState::publish, under the deferred lock.
publish_live_route(c) ==
    /\ caller[c].st = "live_route"
    /\ LET ev == caller[c].cmd[1].ev
       IN IF deferred.on
          THEN /\ deferred' = [deferred EXCEPT !.events = Append(@, ev)]
               /\ caller' = [caller EXCEPT ![c] = Idle]
               /\ acked' = acked \cup {ev}
          ELSE /\ caller' = [caller EXCEPT ![c].st = "live_deliver"]
               /\ UNCHANGED <<deferred, acked>>
    /\ UNCHANGED <<state, lane, journal, guard, manager, sink, published, issued>>

\* PublicationState::publish, after the lock: the observer.
publish_live_deliver(c) ==
    /\ caller[c].st = "live_deliver"
    /\ LET ev == caller[c].cmd[1].ev
       IN /\ published' = Append(published, ev)
          /\ acked' = acked \cup {ev}
    /\ caller' = [caller EXCEPT ![c] = Idle]
    /\ UNCHANGED <<state, lane, journal, deferred, guard, manager, sink, issued>>

-----------------------------------------------------------------------------
(* Replies. *)

\* Ok reaches the caller of a durable event (a retry has no event of its own).
Acked(head) ==
    acked' = IF \E c \in Callers : head.from = c /\ caller[c].st = "wait" /\ caller[c].cmd[1].ev = head.ev
             THEN acked \cup {head.ev} ELSE acked

\* The callers in cmds get their reply, whatever it is.
Reply(cmds) ==
    caller' = [c \in Callers |->
                  IF \E i \in 1..Len(cmds) : cmds[i].from = c THEN Idle ELSE caller[c]]

-----------------------------------------------------------------------------
(* run_lane. *)

\* The next command: the one put aside by the last batch, or the queue's head.
Waiting(l) == lane[l].pending \o lane[l].queue

CanReceive(l) == lane[l].phase = "running" /\ lane[l].step = "recv" /\ Waiting(l) # << >>

Receives(l, op) == CanReceive(l) /\ Waiting(l)[1].op = op

\* The lane after it took n commands; what it publishes next is out.
AfterTaking(l, n, out) ==
    [lane[l] EXCEPT !.pending = << >>,
                    !.queue = SubSeq(Waiting(l), n + 1, Len(Waiting(l))),
                    !.out = out,
                    !.step = IF out = << >> THEN "recv" ELSE "route"]

Publishing(cmds) == [i \in 1..Len(cmds) |-> [ev |-> cmds[i].ev, from |-> cmds[i].from]]

\* DurableCommit::Create commits alone; the journal accepts only one.
recv_create(l) ==
    /\ Receives(l, "create")
    /\ LET cmd == <<Waiting(l)[1]>>
       IN \/ /\ log = << >>
             /\ log' = <<cmd[1].ev>> /\ durable' = 1
             /\ lane' = [lane EXCEPT ![l] = AfterTaking(l, 1, Publishing(cmd))]
             /\ UNCHANGED caller
          \/ /\ lane' = [lane EXCEPT ![l] = AfterTaking(l, 1, << >>)]
             /\ Reply(cmd)
             /\ UNCHANGED <<log, durable>>
    /\ UNCHANGED <<state, doubt, deferred, guard, manager, sink, published, issued, acked>>

\* The batch that try_recv gathers behind the first command.
BatchSize(l) ==
    CHOOSE n \in 1..MaxBatch :
        /\ n <= Len(Waiting(l))
        /\ \A i \in 1..n : Waiting(l)[i].op = Waiting(l)[1].op
        /\ n = MaxBatch \/ n = Len(Waiting(l)) \/ Waiting(l)[n + 1].op # Waiting(l)[1].op

\* Definitions whose names end in _Word are plausible bugs in the definition
\* that follows them; only mutation runs use them.
PutAside_Dropped(w, n, found) == IF found THEN SubSeq(w, n + 2, Len(w)) ELSE SubSeq(w, n + 1, Len(w))

\* The first command of another kind is put aside, not lost.
PutAside(w, n, found) == SubSeq(w, n + 1, Len(w))

AfterBatch(l, n, out) ==
    LET found == n < MaxBatch /\ n < Len(Waiting(l))
        rest  == PutAside(Waiting(l), n, found)
        aside == IF found /\ rest # << >> THEN 1 ELSE 0
    IN [lane[l] EXCEPT !.pending = SubSeq(rest, 1, aside),
                       !.queue = SubSeq(rest, aside + 1, Len(rest)),
                       !.out = out,
                       !.step = IF out = << >> THEN "recv" ELSE "route"]

Ready == log # << >> /\ doubt.kind = "None"

FailedBatch_Published(batch) == Publishing(batch)

\* A batch that the journal refused is not published.
FailedBatch(batch) == << >>

\* append_events or append_events_and_sync of a batch, and the fate of it: visible
\* (and synced), refused, or in doubt.
recv_durable(l) ==
    /\ Receives(l, "append") \/ Receives(l, "append_and_sync")
    /\ LET n      == BatchSize(l)
           batch  == SubSeq(Waiting(l), 1, n)
           events == [i \in 1..n |-> batch[i].ev]
           synced == Waiting(l)[1].op = "append_and_sync"
       IN \/ /\ Ready
             /\ log' = log \o events
             /\ durable' = IF synced THEN Len(log') ELSE durable
             /\ lane' = [lane EXCEPT ![l] = AfterBatch(l, n, Publishing(batch))]
             /\ UNCHANGED <<doubt, caller>>
          \/ /\ lane' = [lane EXCEPT ![l] = AfterBatch(l, n, FailedBatch(batch))]
             /\ Reply(batch)
             /\ \/ UNCHANGED doubt
                \/ /\ Ready /\ synced
                   /\ doubt' = [kind |-> "PendingProjection", batch |-> events,
                                through |-> Len(log) + n]
             /\ UNCHANGED <<log, durable>>
    /\ UNCHANGED <<state, deferred, guard, manager, sink, published, issued, acked>>

recv_live(l) ==
    /\ Receives(l, "live")
    /\ lane' = [lane EXCEPT ![l] = AfterTaking(l, 1, Publishing(<<Waiting(l)[1]>>))]
    /\ UNCHANGED <<state, journal, deferred, guard, caller, manager, sink, published, issued, acked>>

\* sync_durable_events of the journal: fsync, or a doubt about everything visible.
SyncOk   == Ready /\ durable' = Len(log) /\ UNCHANGED doubt
SyncFails ==
    /\ \/ Ready /\ durable < Len(log)
          /\ doubt' = [kind |-> "Published", batch |-> << >>, through |-> Len(log)]
       \/ UNCHANGED doubt
    /\ UNCHANGED durable

recv_sync(l) ==
    /\ Receives(l, "sync")
    /\ SyncOk \/ SyncFails
    /\ Reply(<<Waiting(l)[1]>>)
    /\ lane' = [lane EXCEPT ![l] = AfterTaking(l, 1, << >>)]
    /\ UNCHANGED <<state, log, deferred, guard, manager, sink, published, issued, acked>>

\* The batch a retry confirmed; the retry is answered after the last of it.
Confirmed(from) ==
    [i \in 1..Len(doubt.batch) |->
        [ev |-> doubt.batch[i], from |-> IF i = Len(doubt.batch) THEN from ELSE Nobody]]

\* retry_uncertain_sync: the confirmed batch is published, then the caller hears of it.
recv_retry(l) ==
    /\ Receives(l, "retry")
    /\ LET cmd == Waiting(l)[1]
       IN \/ /\ doubt.kind # "None" /\ doubt.through = cmd.arg
             /\ log' = log \o doubt.batch
             /\ durable' = Len(log')
             /\ doubt' = NoDoubt
             /\ lane' = [lane EXCEPT ![l] = AfterTaking(l, 1, Confirmed(cmd.from))]
             /\ IF doubt.batch = << >> THEN Reply(<<cmd>>) ELSE UNCHANGED caller
          \/ /\ lane' = [lane EXCEPT ![l] = AfterTaking(l, 1, << >>)]
             /\ Reply(<<cmd>>)
             /\ UNCHANGED journal
    /\ UNCHANGED <<state, deferred, guard, manager, sink, published, issued, acked>>

\* Shutdown closes the receiver; the loop goes on with what was accepted.
recv_shutdown(l) ==
    /\ Receives(l, "shutdown")
    /\ lane' = [lane EXCEPT ![l] = [AfterTaking(l, 1, << >>) EXCEPT !.receiving = FALSE]]
    /\ UNCHANGED <<state, journal, deferred, guard, caller, manager, sink, published, issued, acked>>

\* publish_durable under the deferred lock.
lane_route(l) ==
    /\ lane[l].step = "route"
    /\ IF deferred.on
       THEN LET head == <<lane[l].out[1]>>
            IN /\ deferred' = [deferred EXCEPT !.events = Append(@, head[1].ev)]
               /\ lane' = [lane EXCEPT ![l].out = Tail(@),
                                       ![l].step = IF Len(lane[l].out) = 1 THEN "recv" ELSE "route"]
               /\ Reply(head) /\ Acked(head[1])
       ELSE /\ lane' = [lane EXCEPT ![l].step = "deliver"]
            /\ UNCHANGED <<deferred, caller, acked>>
    /\ UNCHANGED <<state, journal, guard, manager, sink, published, issued>>

\* publish_durable past the lock: the observer, then the reply.
lane_deliver(l) ==
    /\ lane[l].step = "deliver"
    /\ LET head == <<lane[l].out[1]>>
       IN /\ published' = Append(published, head[1].ev)
          /\ Reply(head) /\ Acked(head[1])
    /\ lane' = [lane EXCEPT ![l].out = Tail(@),
                            ![l].step = IF Len(lane[l].out) = 1 THEN "recv" ELSE "route"]
    /\ UNCHANGED <<state, journal, deferred, guard, manager, sink, issued>>

Drained_AtOnce(l) == TRUE

\* recv returned None: the receiver is closed and empty.
Drained(l) == Waiting(l) = << >>

FinalSync_Skipped == UNCHANGED <<durable, doubt>>

FinalSync == SyncOk

\* The loop has ended: the final fsync, whose result answers the shutdown.
lane_stops(l) ==
    /\ lane[l].phase = "running" /\ lane[l].step = "recv"
    /\ ~lane[l].receiving /\ Drained(l)
    /\ lane' = [lane EXCEPT ![l].phase = "stopped"]
    /\ \E ok \in BOOLEAN :
         /\ IF ok THEN FinalSync ELSE SyncFails
         /\ IF manager.lane = l
            THEN /\ manager' = [st |-> IF ok THEN "released" ELSE "idle", lane |-> 0]
                 /\ inactive' = (ok \/ closed)
            ELSE UNCHANGED <<manager, inactive>>
    /\ sink' = IF sink.lane = l THEN [st |-> "done", lane |-> 0] ELSE sink
    /\ UNCHANGED <<closed, current, log, deferred, guard, caller, published, issued, acked>>

-----------------------------------------------------------------------------
(* release, activate and shutdown. *)

InactiveOnRelease == TRUE

\* The session is inactive and without a lane from here on.
release_with_lane ==
    /\ manager.st = "idle" /\ current # 0
    /\ inactive' = InactiveOnRelease
    /\ current' = 0
    /\ manager' = [st |-> "send", lane |-> current]
    /\ UNCHANGED <<closed, lane, journal, deferred, guard, caller, sink, published, issued, acked>>

\* Without a lane the journal is synced directly.
release_without_lane ==
    /\ manager.st = "idle" /\ current = 0
    /\ \/ SyncOk /\ inactive' = TRUE /\ manager' = [manager EXCEPT !.st = "released"]
       \/ SyncFails /\ inactive' = closed /\ UNCHANGED manager
    /\ UNCHANGED <<closed, current, lane, log, deferred, guard, caller, sink, published, issued, acked>>

\* lane.shutdown(): the Shutdown command queues like any other.
release_send ==
    /\ manager.st = "send"
    /\ HasRoom(manager.lane)
    /\ Enqueue(manager.lane, Command("shutdown", 0, Manager, 0))
    /\ manager' = [manager EXCEPT !.st = "drain"]
    /\ UNCHANGED <<state, journal, deferred, guard, caller, sink, published, issued, acked>>

\* A failed delete or a later open lets the session publish again.
activate ==
    /\ manager.st = "released"
    /\ ~closed
    /\ inactive' = FALSE
    /\ manager' = [st |-> "idle", lane |-> 0]
    /\ UNCHANGED <<closed, current, lane, journal, deferred, guard, caller, sink, published, issued, acked>>

shutdown ==
    /\ sink.st = "idle"
    /\ closed' = TRUE
    /\ current' = 0
    /\ sink' = [st |-> IF current = 0 THEN "done" ELSE "send", lane |-> current]
    /\ UNCHANGED <<inactive, lane, journal, deferred, guard, caller, manager, published, issued, acked>>

shutdown_send ==
    /\ sink.st = "send"
    /\ HasRoom(sink.lane)
    /\ Enqueue(sink.lane, Command("shutdown", 0, Sink, 0))
    /\ sink' = [sink EXCEPT !.st = "drain"]
    /\ UNCHANGED <<state, journal, deferred, guard, caller, manager, published, issued, acked>>

-----------------------------------------------------------------------------
(* Deferred publication. *)

defer_publication ==
    /\ ~deferred.on
    /\ guard.st = "none" /\ guard.used < MaxDefers
    /\ deferred' = [on |-> TRUE, events |-> << >>]
    /\ guard' = [guard EXCEPT !.st = "open", !.used = @ + 1]
    /\ UNCHANGED <<state, lane, journal, caller, manager, sink, published, issued, acked>>

\* commit begins; the loop of commit_deferred follows.
guard_commit ==
    /\ guard.st = "open"
    /\ guard' = [guard EXCEPT !.st = "take"]
    /\ UNCHANGED <<state, lane, journal, deferred, caller, manager, sink, published, issued, acked>>

EntryAfterTake_Removed == FALSE

\* The entry stays while the taken events are on their way to the observer.
EntryAfterTake == TRUE

\* One round, under the deferred lock: take what there is, or remove the entry.
commit_deferred_take ==
    /\ guard.st = "take"
    /\ IF deferred.events = << >>
       THEN /\ deferred' = [on |-> FALSE, events |-> << >>]
            /\ guard' = [guard EXCEPT !.st = "none"]
       ELSE /\ deferred' = [on |-> EntryAfterTake, events |-> << >>]
            /\ guard' = [guard EXCEPT !.st = "publish", !.out = deferred.events]
    /\ UNCHANGED <<state, lane, journal, caller, manager, sink, published, issued, acked>>

AfterRound_Done == "none"

\* commit_deferred loops until it finds the buffer empty.
AfterRound == "take"

\* The taken events, one by one, without the lock.
commit_deferred_publish ==
    /\ guard.st = "publish"
    /\ published' = Append(published, guard.out[1])
    /\ guard' = [guard EXCEPT !.out = Tail(@), !.st = IF Len(guard.out) = 1 THEN AfterRound ELSE "publish"]
    /\ UNCHANGED <<state, lane, journal, deferred, caller, manager, sink, issued, acked>>

\* A guard dropped before commit: the session was not created after all.
discard_deferred ==
    /\ guard.st = "open"
    /\ deferred' = [on |-> FALSE, events |-> << >>]
    /\ guard' = [guard EXCEPT !.st = "none", !.lost = @ \cup ElementsOf(deferred.events)]
    /\ UNCHANGED <<state, lane, journal, caller, manager, sink, published, issued, acked>>

-----------------------------------------------------------------------------

LaneStep(l) ==
    \/ recv_create(l) \/ recv_durable(l) \/ recv_live(l) \/ recv_sync(l) \/ recv_retry(l)
    \/ recv_shutdown(l) \/ lane_route(l) \/ lane_deliver(l) \/ lane_stops(l)

CallerStep(c) ==
    \/ \E op \in Ops \cap (EventOps \ {"live"}), l \in Lanes : publish_ordered(c, op, l)
    \/ \E op \in Ops \cap {"sync", "retry"}, l \in Lanes : request_barrier(c, op, l)
    \/ send(c)
    \/ "live" \in Ops /\ publish_live_check(c)
    \/ publish_live_route(c)
    \/ publish_live_deliver(c)

ManagerStep == release_with_lane \/ release_without_lane \/ release_send \/ activate

SinkStep == shutdown \/ shutdown_send

GuardStep ==
    \/ defer_publication \/ guard_commit \/ commit_deferred_take \/ commit_deferred_publish
    \/ discard_deferred

Next ==
    \/ \E c \in Callers : CallerStep(c)
    \/ \E l \in Lanes : LaneStep(l)
    \/ ManagerStep \/ SinkStep \/ GuardStep

\* Every lane's task keeps running, and a Shutdown finds room in the queue.
Spec ==
    /\ Init /\ [][Next]_vars
    /\ \A l \in Lanes : WF_vars(LaneStep(l))
    /\ SF_vars(release_send) /\ SF_vars(shutdown_send)

-----------------------------------------------------------------------------
(* Properties. *)

QueuedCommand == [op : CommandOps, ev : 0..MaxEvents, from : Repliers, arg : Nat]

\* The variables keep their types and the queue of a lane its capacity.
TypeOK ==
    /\ closed \in BOOLEAN /\ inactive \in BOOLEAN /\ current \in 0..MaxLanes
    /\ \A l \in Lanes :
          /\ lane[l].phase \in {"unused", "running", "stopped"}
          /\ lane[l].step \in {"recv", "route", "deliver"}
          /\ lane[l].receiving \in BOOLEAN
          /\ lane[l].queue \in Seq(QueuedCommand) /\ Len(lane[l].queue) <= Capacity
          /\ lane[l].pending \in Seq(QueuedCommand) /\ Len(lane[l].pending) <= 1
          /\ lane[l].step = "recv" <=> lane[l].out = << >>
    /\ log \in Seq(1..MaxEvents) /\ published \in Seq(1..MaxEvents) /\ acked \subseteq 1..MaxEvents
    /\ durable \in 0..Len(log)
    /\ doubt.kind \in {"None", "PendingProjection", "Published"}

IsDurable(e) == issued[e].op \in DurableOps

\* The observer sees durable events only after the journal accepted them, each
\* at most once and in seq order: through deferral and its commit, a release
\* and a new lane, a retried fsync.
PublishedInLogOrder ==
    \A j \in 1..Len(published) : \A i \in 1..j :
        IsDurable(published[i]) /\ IsDurable(published[j]) =>
            \E b \in 1..Len(log) : \E a \in 1..b :
                /\ log[a] = published[i] /\ log[b] = published[j]
                /\ i < j => a < b

\* On the way to the observer, or given up by a guard that was dropped.
OnTheWay ==
    ElementsOf(published) \cup ElementsOf(guard.out) \cup guard.lost
        \cup (IF guard.st = "none" THEN {} ELSE ElementsOf(deferred.events))
        \cup UNION {{lane[l].out[i].ev : i \in 1..Len(lane[l].out)} : l \in Lanes}

\* Every event readers can find in the read model is published, or will be, or
\* belongs to a creation that was rolled back.  None slips between the buffer of
\* a deferral and the observer.
CommittedIsOnTheWay == ElementsOf(log) \subseteq OnTheWay

\* publish_live: "the order in which one thread produces events is kept (a sender
\* of a durable event awaits its commit before it sends the next live event)".
DurableBeforeLater ==
    \A j \in 1..Len(published) : \A e \in acked :
        (IsDurable(e) /\ e < published[j] /\ issued[e].from = issued[published[j]].from) =>
            e \in guard.lost \cup {published[i] : i \in 1..j}

\* A release that returned Ok leaves nothing of the session to be written: what
\* any caller committed before is fsynced, and nobody can commit more.
ReleasedIsDurable ==
    manager.st = "released" /\ ~closed => durable = Len(log) /\ doubt.kind = "None"

\* Nobody waits for a lane for ever, whatever the journal does: a command that
\* the lane accepted gets its answer also when it was queued behind the Shutdown
\* or put aside by a batch, and release returns.
EveryoneIsAnswered ==
    /\ \A c \in Callers : caller[c].st = "wait" ~> caller[c].st # "wait"
    /\ manager.st \in {"send", "drain"} ~> manager.st \in {"released", "idle"}

=============================================================================
