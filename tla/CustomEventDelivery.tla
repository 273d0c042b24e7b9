------------------------ MODULE CustomEventDelivery ------------------------
(***************************************************************************)
(* Delivery of the durable custom events of ONE session to ONE extension    *)
(* subscription: the delivery lanes and their replay, retry and quarantine  *)
(* (crates/astrcode-extensions/src/runner/custom_event_delivery.rs), the    *)
(* operator's pause / resume / replay / skip (custom_event_control.rs), and *)
(* the persisted consumer state with its compare-and-swap on the revision   *)
(* (crates/astrcode-storage/src/session_repo/store.rs, consumer_state.rs).  *)
(*                                                                         *)
(* A lane is a task keyed by the extension view's generation; a reload that *)
(* retains the extension starts a second lane beside the first.  Every      *)
(* await point of a lane and of a control request is a separate step.       *)
(*                                                                         *)
(* Data abstraction: a log record is the number of its event and whether    *)
(* the subscription matches it; its seq is its position less one.  Storage  *)
(* errors are choices; live (not persisted) custom events are left out.     *)
(***************************************************************************)
EXTENDS Integers, Sequences, FiniteSets

CONSTANTS
    Lanes,            \* delivery lane tasks
    Admins,           \* control requests that may run at the same time
    MaxEvents,        \* bound: events issued after SessionStarted
    MaxGeneration,    \* bound: generations of the extension view
    MaxRevision,      \* bound: checkpoint resets
    MaxCrashes,       \* bound: process crashes and power losses
    MaxQuiesces,      \* bound: attempts to delete or recycle the session
    QuarantineAfter,  \* CUSTOM_EVENT_QUARANTINE_AFTER (20 in the code)
    Resets,           \* the resets an operator asks for
    PowerLoss         \* whether the machine may lose power

ASSUME ResetsAssumption == Resets \subseteq {"Beginning", "StreamHead"}
ASSUME LimitAssumption  == QuarantineAfter \in Nat \ {0}
ASSUME BoundAssumption  == MaxEvents \in Nat

VARIABLES
    log,         \* the session's event log
    stable,      \* leading records of log that survive a power loss
    consumer,    \* the persisted EventConsumerState
    generation,  \* generation of the published extension view
    lane,        \* the delivery lane tasks
    quiescing,   \* the session is in CustomEventQuiescing
    quiesces,    \* attempts to delete or recycle the session so far
    taken,       \* lanes that quiesce_custom_event_session waits for
    unobserved,  \* seqs committed but not yet published to the observer
    replay_due,  \* replay_custom_events is still to run after start or reload
    admin,       \* control requests in progress
    \* history
    issued,      \* number of the last event appended
    crashes,     \* crashes so far
    accounted    \* events acked, quarantined or skipped since the last replay

vars == <<log, stable, consumer, generation, lane, quiescing, quiesces, taken, unobserved,
          replay_due, admin, issued, crashes, accounted>>

None == -1              \* no checkpoint, no replay head
Full == MaxEvents + 1   \* ReconcileDurable without a through_seq

NoLane ==
    [phase |-> "gone", generation |-> 0, cancelled |-> FALSE, mapped |-> FALSE,
     queue |-> << >>, full_queued |-> FALSE,
     through |-> Full, revision |-> 0, from |-> None, pending |-> << >>, head |-> None,
     invocation_revision |-> 0]

NoRequest == [phase |-> "idle", previous |-> FALSE, reset |-> "none"]

Init ==
    /\ log = <<[ev |-> 0, match |-> FALSE]>> /\ stable = 1
    /\ consumer = [checkpoint |-> None, paused |-> FALSE, revision |-> 0, failures |-> 0,
                   quarantined |-> {}, quarantined_count |-> 0, skipped_count |-> 0]
    /\ generation = 1
    /\ lane = [l \in Lanes |-> NoLane]
    /\ quiescing = FALSE /\ quiesces = 0 /\ taken = {}
    /\ unobserved = {} /\ replay_due = TRUE
    /\ admin = [a \in Admins |-> NoRequest]
    /\ issued = 0 /\ crashes = 0 /\ accounted = {}

HeadSeq == Len(log) - 1

Alive(l) == lane[l].phase # "gone"

-----------------------------------------------------------------------------
(* The persisted consumer state. *)

\* Definitions whose names end in _Word are plausible bugs in the definition
\* they follow the name of; only mutation runs use them.
BeyondCheckpoint_Unchecked(seq) == TRUE

\* The checkpoint only moves forward: an event at or before it is consumed.
BeyondCheckpoint(seq) == seq > consumer.checkpoint

\* The compare-and-swap against a reset since the revision was read.
RevisionMatches(revision) == consumer.revision = revision

\* checkpoint_event_consumer: the state it leaves.
Checkpointed(revision, seq) ==
    IF RevisionMatches(revision) /\ BeyondCheckpoint(seq)
    THEN [consumer EXCEPT !.checkpoint = seq, !.failures = 0]
    ELSE consumer

\* The quarantine and the checkpoint past it are one replacement of the file.
QuarantineCheckpoint(seq) == seq

\* record_quarantine: at most one audit record per seq and revision.
Quarantined(c, seq) ==
    IF <<seq, c.revision>> \in c.quarantined
    THEN c
    ELSE [c EXCEPT !.quarantined = @ \cup {<<seq, c.revision>>},
                   !.quarantined_count = @ + 1]

QuarantineLimit(dead_letter) == IF dead_letter THEN 1 ELSE QuarantineAfter

FailureQuarantines(revision, seq, dead_letter) ==
    /\ RevisionMatches(revision)
    /\ BeyondCheckpoint(seq)
    /\ consumer.failures + 1 >= QuarantineLimit(dead_letter)

\* Quarantined or AlreadyConsumed: the lane may go on to the next event.
FailureConsumes(revision, seq, dead_letter) ==
    /\ RevisionMatches(revision)
    /\ \/ ~BeyondCheckpoint(seq)
       \/ consumer.failures + 1 >= QuarantineLimit(dead_letter)

\* record_event_consumer_failure: the state it leaves.
FailureRecorded(revision, seq, dead_letter) ==
    IF FailureQuarantines(revision, seq, dead_letter)
    THEN [Quarantined(consumer, seq) EXCEPT !.checkpoint = QuarantineCheckpoint(seq),
                                            !.failures = 0]
    ELSE IF RevisionMatches(revision) /\ BeyondCheckpoint(seq)
         THEN [consumer EXCEPT !.failures = @ + 1]
         ELSE consumer

\* A reset invalidates every result computed under the old revision.
RevisionAfterReset == consumer.revision + 1

\* reset_event_consumer_checkpoint: the state it leaves.
ResetTo(reset) ==
    LET to == IF reset = "Beginning" THEN None ELSE HeadSeq
    IN [consumer EXCEPT
            !.checkpoint = to,
            !.revision = RevisionAfterReset,
            !.failures = 0,
            !.skipped_count = IF reset = "StreamHead" /\ to # consumer.checkpoint
                              THEN @ + 1 ELSE @]

-----------------------------------------------------------------------------
(* Waking a lane. *)

ClearFullFlag_Late(through) == FALSE

\* The lane clears full_reconciliation_queued when it takes the command, before
\* it reads anything.
ClearFullFlag(through) == through = Full

\* One queued full reconciliation serves every wake-up until it is taken.
AlreadyQueued(l, through) == through = Full /\ lane[l].full_queued

\* A new lane in the map, with its first command.
StartLane(through) ==
    \E l \in Lanes :
        /\ ~Alive(l)
        /\ lane' = [lane EXCEPT ![l] =
                      [NoLane EXCEPT !.phase = "recv", !.generation = generation,
                                     !.mapped = TRUE, !.queue = <<through>>,
                                     !.full_queued = (through = Full)]]

\* custom_event_lane followed by signal_durable_custom_events: nothing while the
\* session quiesces; the live lane of this generation, or else a new one.
Signal(through) ==
    LET live == {l \in Lanes : Alive(l) /\ lane[l].mapped /\ lane[l].generation = generation}
    IN \/ /\ quiescing
          /\ UNCHANGED lane
       \/ /\ ~quiescing /\ live # {}
          /\ \E l \in live :
               lane' = IF AlreadyQueued(l, through)
                       THEN lane
                       ELSE [lane EXCEPT ![l].queue = Append(@, through),
                                         ![l].full_queued = @ \/ through = Full]
       \/ /\ ~quiescing /\ live = {}
          /\ StartLane(through)

\* The journal commits an event; the sink will publish it (SessionEventSink).
append(match) ==
    /\ issued < MaxEvents
    /\ issued' = issued + 1
    /\ log' = Append(log, [ev |-> issued + 1, match |-> match])
    /\ unobserved' = IF match THEN unobserved \cup {Len(log)} ELSE unobserved
    /\ UNCHANGED <<stable, consumer, generation, lane, quiescing, quiesces, taken, replay_due, admin,
                   crashes, accounted>>

\* The event sink confirms the durability of the log (turn boundary).
sync ==
    /\ PowerLoss /\ stable < Len(log)
    /\ stable' = Len(log)
    /\ UNCHANGED <<log, consumer, generation, lane, quiescing, quiesces, taken, unobserved, replay_due,
                   admin, issued, crashes, accounted>>

\* observe_custom_event for the committed event seq; events arrive in order.
observe_custom_event ==
    /\ unobserved # {}
    /\ LET seq == CHOOSE s \in unobserved : \A r \in unobserved : s <= r
       IN Signal(seq) /\ unobserved' = unobserved \ {seq}
    /\ UNCHANGED <<log, stable, consumer, generation, quiescing, quiesces, taken, replay_due, admin,
                   issued, crashes, accounted>>

\* replay_custom_events, after the start of the server and after a reload.
reconcile_custom_events ==
    /\ replay_due
    /\ replay_due' = FALSE
    /\ Signal(Full)
    /\ UNCHANGED <<log, stable, consumer, generation, quiescing, quiesces, taken, unobserved, admin,
                   issued, crashes, accounted>>

\* A reload publishes a new extension view, then replays.
reload_extensions ==
    /\ generation < MaxGeneration
    /\ generation' = generation + 1
    /\ replay_due' = TRUE
    /\ UNCHANGED <<log, stable, consumer, lane, quiescing, quiesces, taken, unobserved, admin,
                   issued, crashes, accounted>>

\* The generation the lane belongs to is retired: only then its tasks are
\* cancelled.  A retained extension keeps its lanes of older generations.
retire(l) ==
    /\ Alive(l) /\ lane[l].generation < generation /\ ~lane[l].cancelled
    /\ lane' = [lane EXCEPT ![l].cancelled = TRUE]
    /\ UNCHANGED <<log, stable, consumer, generation, quiescing, quiesces, taken, unobserved, replay_due,
                   admin, issued, crashes, accounted>>

-----------------------------------------------------------------------------
(* One delivery lane: run_custom_event_lane. *)

OnlyLane == UNCHANGED <<log, stable, generation, quiescing, quiesces, taken, unobserved, replay_due,
                        admin, issued, crashes>>

Goto(l, phase) == lane' = [lane EXCEPT ![l].phase = phase]

\* The command is done and drops its Arc of the lane: with no other command in
\* the queue nobody can reach the lane any more and its task ends.
finish(l) ==
    /\ lane[l].phase = "done"
    /\ lane' = [lane EXCEPT ![l] = IF @.queue = << >> THEN NoLane ELSE
                                     [@ EXCEPT !.phase = "recv", !.through = Full, !.revision = 0,
                                               !.pending = << >>, !.head = None]]
    /\ OnlyLane /\ UNCHANGED <<consumer, accounted>>

\* The select is biased: cancellation wins over a queued command.
recv(l) ==
    /\ lane[l].phase = "recv" /\ ~lane[l].cancelled
    /\ LET through == Head(lane[l].queue)
       IN lane' = [lane EXCEPT ![l].phase = "read",
                               ![l].queue = Tail(@),
                               ![l].through = through,
                               ![l].full_queued = @ /\ ~ClearFullFlag(through)]
    /\ OnlyLane /\ UNCHANGED <<consumer, accounted>>

\* The lane observes its cancellation: waiting for a command, for a permit, or
\* in a backoff sleep.
stop(l) ==
    /\ lane[l].cancelled
    /\ \/ lane[l].phase \in {"recv", "read"}
       \/ lane[l].phase = "next" /\ lane[l].pending # << >>
    /\ lane' = [lane EXCEPT ![l] = NoLane]
    /\ OnlyLane /\ UNCHANGED <<consumer, accounted>>

\* reconcile_durable_custom_events_once reads the consumer state.  An error
\* there is a retry of the same step.
read_state(l) ==
    /\ lane[l].phase = "read"
    /\ IF consumer.paused
       THEN Goto(l, "done")
       ELSE lane' = [lane EXCEPT ![l].phase = "replay",
                                 ![l].revision = consumer.revision,
                                 ![l].from = consumer.checkpoint]
    /\ OnlyLane /\ UNCHANGED <<consumer, accounted>>

ReplayedSeqs(l) == {s \in 0..HeadSeq : s > lane[l].from /\ s <= lane[l].through}

InOrder(S) == [i \in 1..Cardinality(S) |->
                 CHOOSE s \in S : Cardinality({r \in S : r < s}) = i - 1]

ReplayHead_StreamHead(l) == HeadSeq

\* The last event of the replay, whether the subscription matches it or not.
ReplayHead(l) ==
    IF ReplayedSeqs(l) = {} THEN None
    ELSE CHOOSE s \in ReplayedSeqs(l) : \A r \in ReplayedSeqs(l) : r <= s

\* The events after the checkpoint that was read, up to the command's bound.
replay(l) ==
    /\ lane[l].phase = "replay"
    /\ lane' = [lane EXCEPT
                  ![l].phase = "next",
                  ![l].from = None,
                  ![l].pending = InOrder({s \in ReplayedSeqs(l) : log[s + 1].match}),
                  ![l].head = ReplayHead(l)]
    /\ OnlyLane /\ UNCHANGED <<consumer, accounted>>

\* reconcile_durable_custom_events_once returned false: it starts again.
Restarted(l) ==
    [lane EXCEPT ![l] = [@ EXCEPT !.phase = "read", !.pending = << >>, !.head = None,
                                  !.from = None, !.revision = 0]]

\* The replay, or building the invocation, fails: back off and start again.
reconcile_fails(l) ==
    /\ lane[l].phase \in {"replay", "next"}
    /\ lane[l].phase = "next" => lane[l].pending # << >>
    /\ lane' = Restarted(l)
    /\ OnlyLane /\ UNCHANGED <<consumer, accounted>>

\* A permit is acquired and run_custom_event_invocation counts the delivery.
begin_invocation(l) ==
    /\ lane[l].phase = "next" /\ lane[l].pending # << >>
    /\ Goto(l, "invoke")
    /\ OnlyLane /\ UNCHANGED <<consumer, accounted>>

Consumed(l) == [lane EXCEPT ![l].phase = "next", ![l].pending = Tail(@),
                            ![l].invocation_revision = 0]

Retried(l) == [lane EXCEPT ![l] = [@ EXCEPT !.phase = "next", !.invocation_revision = 0]]

Seq0(l) == Head(lane[l].pending)

\* The invocation reads the consumer state again before it calls the handler.
check_state(l) ==
    /\ lane[l].phase = "invoke"
    /\ \/ /\ consumer.paused
          /\ Goto(l, "done")
       \/ /\ ~consumer.paused /\ ~BeyondCheckpoint(Seq0(l))
          /\ lane' = Consumed(l)
       \/ /\ ~consumer.paused /\ BeyondCheckpoint(Seq0(l))
          /\ lane' = [lane EXCEPT ![l].phase = "handling",
                                  ![l].invocation_revision = consumer.revision]
    /\ OnlyLane /\ UNCHANGED <<consumer, accounted>>

check_state_fails(l) ==
    /\ lane[l].phase = "invoke"
    /\ lane' = Retried(l)
    /\ OnlyLane /\ UNCHANGED <<consumer, accounted>>

\* The handler returns; an error or a cancelled call counts as Retry.
handle(l, disposition) ==
    /\ lane[l].phase = "handling"
    /\ Goto(l, disposition)
    /\ accounted' = IF disposition = "ack" THEN accounted \cup {log[Seq0(l) + 1].ev} ELSE accounted
    /\ OnlyLane /\ UNCHANGED consumer

\* Ack: the checkpoint is committed; a stale revision is retried.
checkpoint_event_consumer(l) ==
    /\ lane[l].phase = "ack"
    /\ consumer' = Checkpointed(lane[l].invocation_revision, Seq0(l))
    /\ lane' = IF RevisionMatches(lane[l].invocation_revision) THEN Consumed(l) ELSE Retried(l)
    /\ OnlyLane /\ UNCHANGED accounted

\* Retry or DeadLetter: the failure is recorded, at the limit as a quarantine.
record_event_consumer_failure(l) ==
    /\ lane[l].phase \in {"retry", "dead_letter"}
    /\ LET dead == lane[l].phase = "dead_letter"
           rev  == lane[l].invocation_revision
       IN /\ consumer' = FailureRecorded(rev, Seq0(l), dead)
          /\ lane' = IF FailureConsumes(rev, Seq0(l), dead) THEN Consumed(l) ELSE Retried(l)
          /\ accounted' = IF FailureQuarantines(rev, Seq0(l), dead)
                          THEN accounted \cup {log[Seq0(l) + 1].ev} ELSE accounted
    /\ OnlyLane

\* The store returns an error, before or after the new state file is in place:
\* the delivery is retried.
settle_fails(l) ==
    /\ lane[l].phase \in {"ack", "retry", "dead_letter"}
    /\ lane' = Retried(l)
    /\ LET dead == lane[l].phase = "dead_letter"
           rev  == lane[l].invocation_revision
       IN \/ UNCHANGED <<consumer, accounted>>
          \/ /\ lane[l].phase = "ack"
             /\ consumer' = Checkpointed(rev, Seq0(l))
             /\ UNCHANGED accounted
          \/ /\ lane[l].phase # "ack"
             /\ consumer' = FailureRecorded(rev, Seq0(l), dead)
             /\ accounted' = IF FailureQuarantines(rev, Seq0(l), dead)
                             THEN accounted \cup {log[Seq0(l) + 1].ev} ELSE accounted
    /\ OnlyLane

HeadRevision_Reread(l) == consumer.revision

\* The revision that was read before the replay.
HeadRevision(l) == lane[l].revision

\* Every replayed event is settled: the checkpoint moves to the replay head,
\* past the events the subscription does not match.
checkpoint_replay_head(l) ==
    /\ lane[l].phase = "next" /\ lane[l].pending = << >>
    /\ IF lane[l].head = None
       THEN UNCHANGED consumer /\ Goto(l, "done")
       ELSE /\ consumer' = Checkpointed(HeadRevision(l), lane[l].head)
            /\ IF RevisionMatches(HeadRevision(l)) THEN Goto(l, "done") ELSE lane' = Restarted(l)
    /\ OnlyLane /\ UNCHANGED accounted

checkpoint_replay_head_fails(l) ==
    /\ lane[l].phase = "next" /\ lane[l].pending = << >> /\ lane[l].head # None
    /\ lane' = Restarted(l)
    /\ consumer' \in {consumer, Checkpointed(HeadRevision(l), lane[l].head)}
    /\ OnlyLane /\ UNCHANGED accounted

-----------------------------------------------------------------------------
(* Control requests. *)

OnlyAdmin == UNCHANGED <<log, stable, generation, quiescing, quiesces, taken, unobserved, replay_due,
                         issued, crashes>>

AdminGoto(a, phase) == admin' = [admin EXCEPT ![a].phase = phase]

pause(a) ==
    /\ admin[a] = NoRequest /\ ~consumer.paused
    /\ consumer' = [consumer EXCEPT !.paused = TRUE]
    /\ OnlyAdmin /\ UNCHANGED <<lane, admin, accounted>>

resume(a) ==
    /\ admin[a] = NoRequest /\ consumer.paused
    /\ consumer' = [consumer EXCEPT !.paused = FALSE]
    /\ AdminGoto(a, "wake")
    /\ OnlyAdmin /\ UNCHANGED <<lane, accounted>>

\* reset_custom_event_consumer reads the state, to restore paused from it later.
reset_begin(a, reset) ==
    /\ admin[a] = NoRequest /\ consumer.revision < MaxRevision
    /\ admin' = [admin EXCEPT ![a] = [phase |-> "pausing", previous |-> consumer.paused,
                                      reset |-> reset]]
    /\ OnlyAdmin /\ UNCHANGED <<consumer, lane, accounted>>

reset_pause(a) ==
    /\ admin[a].phase = "pausing"
    /\ consumer' = [consumer EXCEPT !.paused = TRUE]
    /\ AdminGoto(a, "waiting")
    /\ OnlyAdmin /\ UNCHANGED <<lane, accounted>>

active_deliveries_Untracked == {l \in Lanes : lane[l].phase \in {"ack", "retry", "dead_letter"}}

\* The deliveries that track_delivery counts.
active_deliveries ==
    {l \in Lanes : lane[l].phase \in {"invoke", "handling", "ack", "retry", "dead_letter"}}

\* wait_until_idle: no delivery of this consumer is active.
wait_until_idle(a) ==
    /\ admin[a].phase = "waiting"
    /\ active_deliveries = {}
    /\ AdminGoto(a, "resetting")
    /\ OnlyAdmin /\ UNCHANGED <<consumer, lane, accounted>>

\* The wait times out (ConsumerBusy), or the reset fails in the store: the
\* request goes to recover_custom_event_consumer.
reset_gives_up(a) ==
    /\ admin[a].phase \in {"waiting", "resetting"}
    /\ AdminGoto(a, "restoring")
    /\ OnlyAdmin /\ UNCHANGED <<consumer, lane, accounted>>

reset_event_consumer_checkpoint(a) ==
    /\ admin[a].phase = "resetting"
    /\ consumer' = ResetTo(admin[a].reset)
    /\ accounted' = IF admin[a].reset = "Beginning"
                    THEN {}
                    ELSE accounted \cup {log[i].ev : i \in 1..Len(log)}
    /\ AdminGoto(a, "restoring")
    /\ OnlyAdmin /\ UNCHANGED lane

\* paused gets back the value it had when the request read it.
restore_paused(a) ==
    /\ admin[a].phase = "restoring"
    /\ consumer' = [consumer EXCEPT !.paused = admin[a].previous]
    /\ admin' = [admin EXCEPT ![a] = IF admin[a].previous THEN NoRequest
                                     ELSE [NoRequest EXCEPT !.phase = "wake"]]
    /\ OnlyAdmin /\ UNCHANGED <<lane, accounted>>

\* A store error while pausing or restoring ends the request; after a reset the
\* consumer stays paused.
control_fails(a) ==
    /\ admin[a].phase \in {"pausing", "restoring"}
    /\ admin' = [admin EXCEPT ![a] = NoRequest]
    /\ OnlyAdmin /\ UNCHANGED <<consumer, lane, accounted>>

wake_custom_event_consumer(a) ==
    /\ admin[a].phase = "wake"
    /\ Signal(Full)
    /\ admin' = [admin EXCEPT ![a] = NoRequest]
    /\ OnlyAdmin /\ UNCHANGED <<consumer, accounted>>

-----------------------------------------------------------------------------
(* Quiescence, crashes. *)

TakenLanes_Current == {l \in Lanes : Alive(l) /\ lane[l].mapped /\ lane[l].generation = generation}

\* take_custom_event_session_lanes: the lanes of every generation.
TakenLanes == {l \in Lanes : Alive(l) /\ lane[l].mapped}

\* The session is about to be deleted or recycled: admission stops, every lane
\* is taken out of the map and cancelled.
quiesce_custom_event_session ==
    /\ ~quiescing /\ quiesces < MaxQuiesces
    /\ quiescing' = TRUE
    /\ quiesces' = quiesces + 1
    /\ taken' = TakenLanes
    /\ lane' = [l \in Lanes |-> IF l \in taken'
                                THEN [lane[l] EXCEPT !.cancelled = TRUE, !.mapped = FALSE]
                                ELSE lane[l]]
    /\ UNCHANGED <<log, stable, consumer, generation, unobserved, replay_due, admin,
                   issued, crashes, accounted>>

\* Every taken lane has dropped its stop guard.
Quiesced == quiescing /\ \A l \in taken : ~Alive(l)

\* The storage operation failed: admission opens again and everything is
\* reconciled, under the generation that is current.
resume_custom_event_session ==
    /\ Quiesced
    /\ quiescing' = FALSE /\ taken' = {}
    /\ StartLane(Full)
    /\ UNCHANGED <<log, stable, consumer, generation, quiesces, unobserved, replay_due, admin,
                   issued, crashes, accounted>>

\* The bootstrap runs replay_custom_events.
ReplayAfterStart == TRUE

LoseMemory ==
    /\ crashes < MaxCrashes
    /\ crashes' = crashes + 1
    /\ generation' = 1
    /\ lane' = [l \in Lanes |-> NoLane]
    /\ quiescing' = FALSE /\ taken' = {}
    /\ unobserved' = {} /\ replay_due' = ReplayAfterStart
    /\ admin' = [a \in Admins |-> NoRequest]
    /\ UNCHANGED <<consumer, quiesces, issued>>

process_crash ==
    /\ LoseMemory
    /\ UNCHANGED <<log, stable, accounted>>

\* The consumer state was fsynced when it was replaced; the tail of the log may
\* not have been.
power_loss ==
    /\ PowerLoss
    /\ LoseMemory
    /\ \E n \in stable..Len(log) : log' = SubSeq(log, 1, n) /\ stable' = n
    /\ UNCHANGED accounted

-----------------------------------------------------------------------------

LaneProgress(l) ==
    \/ recv(l) \/ finish(l) \/ stop(l) \/ begin_invocation(l)
    \/ \E d \in {"ack", "retry", "dead_letter"} : handle(l, d)

StoreSucceeds(l) ==
    \/ read_state(l) \/ replay(l) \/ check_state(l)
    \/ checkpoint_event_consumer(l) \/ record_event_consumer_failure(l)
    \/ checkpoint_replay_head(l)

StoreFails(l) ==
    \/ reconcile_fails(l) \/ check_state_fails(l) \/ settle_fails(l)
    \/ checkpoint_replay_head_fails(l)

AdminRequest(a) ==
    \/ pause(a) \/ resume(a)
    \/ \E reset \in Resets : reset_begin(a, reset)

AdminProgress(a) ==
    \/ reset_pause(a) \/ wait_until_idle(a) \/ reset_gives_up(a)
    \/ reset_event_consumer_checkpoint(a) \/ restore_paused(a) \/ control_fails(a)
    \/ wake_custom_event_consumer(a)

Next ==
    \/ \E match \in BOOLEAN : append(match)
    \/ sync
    \/ observe_custom_event
    \/ reconcile_custom_events
    \/ reload_extensions
    \/ \E l \in Lanes : retire(l) \/ LaneProgress(l) \/ StoreSucceeds(l) \/ StoreFails(l)
    \/ \E a \in Admins : AdminRequest(a) \/ AdminProgress(a)
    \/ quiesce_custom_event_session
    \/ resume_custom_event_session
    \/ process_crash
    \/ power_loss

Spec == Init /\ [][Next]_vars

\* Tasks keep running, handlers return (every call has a timeout), a published
\* event reaches the observer, and at some point the store stops failing.
Fairness ==
    /\ WF_vars(observe_custom_event)
    /\ WF_vars(reconcile_custom_events)
    /\ WF_vars(resume_custom_event_session)
    /\ \A l \in Lanes : WF_vars(LaneProgress(l) \/ StoreSucceeds(l))
    /\ \A a \in Admins : WF_vars(AdminProgress(a))
    /\ <>[][\A l \in Lanes : ~StoreFails(l)]_vars

FairSpec == Spec /\ Fairness

-----------------------------------------------------------------------------
(* Properties. *)

LaneState ==
    [phase : {"gone", "recv", "read", "replay", "next", "invoke", "handling",
              "ack", "retry", "dead_letter", "done"},
     generation : 0..MaxGeneration, cancelled : BOOLEAN, mapped : BOOLEAN,
     queue : Seq(0..Full), full_queued : BOOLEAN,
     through : 0..Full, revision : 0..MaxRevision, from : None..MaxEvents,
     pending : Seq(0..MaxEvents), head : None..MaxEvents,
     invocation_revision : 0..MaxRevision]

\* Types; a lane's queue holds at most one full reconciliation, so the unbounded
\* channel does not grow with the number of wake-ups.
TypeOK ==
    /\ consumer.checkpoint \in None..MaxEvents
    /\ consumer.failures \in 0..(QuarantineAfter - 1)
    /\ lane \in [Lanes -> LaneState]
    /\ \A l \in Lanes : Cardinality({i \in DOMAIN lane[l].queue : lane[l].queue[i] = Full})
                          <= (IF lane[l].full_queued THEN 1 ELSE 0)
    /\ unobserved \subseteq 0..MaxEvents

\* The record has not taken the place of one that a power loss took.
InPlace(i) == log[i].ev = i - 1

\* At-least-once delivery: no event that the subscription matches lies at or
\* before the checkpoint unless its handler acked it, it was quarantined, or an
\* operator skipped it (since the last replay from the beginning).  Records that
\* a power loss spared keep the promise; the ones written in the place of lost
\* records, which the fsynced checkpoint may already be past, do not have it.
NothingSkipped ==
    \A i \in 1..Len(log) :
        log[i].match /\ InPlace(i) /\ i - 1 <= consumer.checkpoint => log[i].ev \in accounted

\* The event at the checkpoint was itself settled since the last reset: the work
\* that a lane did under an older revision never moves the new checkpoint.
CheckpointEarned ==
    \A i \in 2..Len(log) :
        log[i].match /\ InPlace(i) /\ i - 1 = consumer.checkpoint => log[i].ev \in accounted

\* traits.rs: "Monotonically advances an at-least-once event consumer
\* checkpoint": only a reset, which changes the revision, moves it backwards,
\* whatever the interleaving of the lanes of two generations.
CheckpointMonotone ==
    [][ consumer'.revision = consumer.revision
          => consumer'.checkpoint >= consumer.checkpoint ]_vars

\* When a request has paused the consumer and seen it idle, no handler runs, so
\* the reset does not race one (one control request at a time).
ResetExclusive ==
    \A a \in Admins : admin[a].phase = "resetting" =>
        \A l \in Lanes : lane[l].phase \notin {"handling", "ack", "retry", "dead_letter"}

\* Once quiesce_custom_event_session has returned no lane of any generation is
\* left to touch the session's storage, and none can start.
QuiescedMeansStopped == Quiesced => \A l \in Lanes : ~Alive(l)

\* Every matching event is consumed, unless the consumer is paused or a power loss
\* took the event: no wake-up is lost between observer, reload, resume,
\* quiescence and crash.
EventuallyConsumed ==
    \A s \in 1..MaxEvents :
        (s <= HeadSeq /\ log[s + 1].match)
            ~> (consumer.checkpoint >= s \/ consumer.paused \/ s > HeadSeq)

=============================================================================
