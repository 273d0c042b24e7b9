--------------------------- MODULE SessionJournal ---------------------------
(***************************************************************************)
(* The durable journal of ONE session: the JSONL event log and its writer   *)
(* (crates/astrcode-storage/src/event_log.rs), the in-memory SessionMeta    *)
(* that owns the log and the read model (session_repo/mod.rs), the journal  *)
(* operations (session_repo/journal.rs) and the sticky state machine for an *)
(* fsync with an unknown outcome (session_repo/durability.rs).              *)
(*                                                                         *)
(* Several tasks call the journal.  The commit lane (a one-permit           *)
(* semaphore) serialises them; every await point inside the lane is a       *)
(* separate step here, so that a process crash or a power loss can hit      *)
(* between any two of them.                                                *)
(*                                                                         *)
(* Data abstraction: an event is a number, 0 being SessionStarted; a stored *)
(* record is that number with the seq the read model gave it.  The file is  *)
(* the sequence of its complete (newline-terminated) records; torn says     *)
(* that bytes without a newline follow them.  stable is how many leading    *)
(* records an fsync has made safe against power loss.                      *)
(***************************************************************************)
EXTENDS Integers, Sequences

CONSTANTS
    Tasks,      \* callers of the journal
    NoTask,     \* the commit lane has its permit
    MaxEvents,  \* bound: events issued in one behaviour
    MaxBatch    \* bound: events of one append (MAX_DURABLE_BATCH_SIZE is 32)

ASSUME NoTaskAssumption == NoTask \notin Tasks
ASSUME BoundsAssumption == MaxEvents \in Nat /\ MaxBatch \in Nat \ {0}

VARIABLES
    exists,       \* the log file exists
    file,         \* its complete records, as the operating system sees them
    torn,         \* bytes without a terminating newline follow the records
    stable,       \* number of leading records that survive a power loss
    opened,       \* a SessionMeta for the session is cached in this process
    next_seq,     \* WriterState.next_seq, published through the AtomicU64
    dirty,        \* WriterState.dirty
    poisoned,     \* WriterState.poisoned
    projection,   \* the records applied to the session read model
    uncertain,    \* SessionMeta.uncertain_durability
    commit_lane,  \* the task that holds the commit lane's permit
    task,         \* what each task is doing inside the lane
    \* history
    issued,       \* number of the last event handed to the journal
    sync_events,  \* events handed to append_events_and_sync
    rolled_back,  \* events of an append that failed and was undone
    reported,     \* through_seqs reported as DurabilityUncertain
    confirmed     \* records some caller was told are durable

disk    == <<exists, file, torn, stable>>
writer  == <<next_seq, dirty, poisoned>>
history == <<issued, sync_events, rolled_back, reported, confirmed>>
vars    == <<disk, opened, writer, projection, uncertain, commit_lane, task, history>>

Record      == [seq : Nat, ev : Nat]
MarkerKinds == {"None", "PendingProjection", "Published"}
Ops         == {"none", "append", "append_and_sync", "sync", "retry"}
Phases      == {"idle", "append", "appended", "sync", "synced"}

NoMarker == [kind |-> "None", batch |-> << >>, through_seq |-> 0]
Idle     == [op |-> "none", phase |-> "idle", batch |-> << >>, through_seq |-> 0]
Started  == [seq |-> 0, ev |-> 0]

Records(s)   == {s[i] : i \in 1..Len(s)}
EventsOf(s)  == {s[i].ev : i \in 1..Len(s)}
UpTo(s, seq) == {r \in Records(s) : r.seq <= seq}

Init ==
    /\ exists = FALSE /\ file = << >> /\ torn = FALSE /\ stable = 0
    /\ opened = FALSE
    /\ next_seq = 0 /\ dirty = FALSE /\ poisoned = FALSE
    /\ projection = << >>
    /\ uncertain = NoMarker
    /\ commit_lane = NoTask
    /\ task = [t \in Tasks |-> Idle]
    /\ issued = 0 /\ sync_events = {} /\ rolled_back = {} /\ reported = {} /\ confirmed = {}

-----------------------------------------------------------------------------
(* Creating and opening the log. *)

\* SessionMeta::new over a log whose replay gave the records s.
OpenMeta(s) ==
    /\ opened' = TRUE
    /\ next_seq' = s[Len(s)].seq + 1
    /\ dirty' = FALSE
    /\ poisoned' = FALSE
    /\ projection' = s
    /\ UNCHANGED <<uncertain, commit_lane, task>>

\* create_at_path writes SessionStarted as seq 0 and fsyncs it.
create_session ==
    /\ ~exists
    /\ exists' = TRUE /\ file' = <<Started>> /\ torn' = FALSE /\ stable' = 1
    /\ OpenMeta(<<Started>>)
    /\ UNCHANGED history

\* A write or fsync error leaves the file behind, whatever it holds: the later
\* create_new fails on it, an open may accept it.
create_session_fails ==
    /\ ~exists
    /\ exists' = TRUE
    /\ \/ file' = << >> /\ torn' \in BOOLEAN /\ stable' = 0
       \/ file' = <<Started>> /\ torn' = FALSE /\ stable' \in 0..1
    /\ UNCHANGED <<opened, writer, projection, uncertain, commit_lane, task, history>>

\* EventStreamValidator: the stream starts with SessionStarted and is gapless.
ValidStream(s) ==
    /\ s # << >>
    /\ s[1].ev = 0
    /\ \A i \in 1..Len(s) : s[i].seq = i - 1 /\ (i > 1 => s[i].ev # 0)

\* Definitions whose names end in _Word are plausible bugs in the definition
\* that follows them; only mutation runs use them.
StableAfterOpen_Unsynced == stable

\* sync_existing_log: nothing is replayed before the whole file is durable.
StableAfterOpen == Len(file)

\* A cold open: recover_incomplete_tail cuts the torn tail, sync_existing_log
\* fsyncs what is left, and the read model is replayed from it.
get_or_open_meta ==
    /\ exists /\ ~opened
    /\ ValidStream(file)
    /\ torn' = FALSE
    /\ stable' = StableAfterOpen
    /\ OpenMeta(file)
    /\ UNCHANGED <<exists, file, history>>

\* The open fails in its I/O, after the torn tail was cut or before.
get_or_open_meta_fails ==
    /\ exists /\ ~opened
    /\ torn' \in (IF file = << >> THEN {torn} ELSE {torn, FALSE})
    /\ stable' \in stable..Len(file)
    /\ UNCHANGED <<exists, file, opened, writer, projection, uncertain, commit_lane, task, history>>

-----------------------------------------------------------------------------
(* The commit lane. *)

acquire_commit_lane(t) ==
    /\ opened
    /\ commit_lane = NoTask
    /\ task[t] = Idle

ensure_no_uncertain_durability_Skipped == TRUE

ensure_no_uncertain_durability == uncertain.kind = "None"

acquire_confirmed_commit_lane(t) ==
    /\ acquire_commit_lane(t)
    /\ ensure_no_uncertain_durability

Enter(t, step) ==
    /\ commit_lane' = t
    /\ task' = [task EXCEPT ![t] = step]

Release_Leaked(t) ==
    /\ commit_lane' = commit_lane
    /\ task' = [task EXCEPT ![t] = Idle]

Release(t) ==
    /\ commit_lane' = NoTask
    /\ task' = [task EXCEPT ![t] = Idle]

Goto(t, phase) ==
    /\ task' = [task EXCEPT ![t].phase = phase]
    /\ UNCHANGED commit_lane

-----------------------------------------------------------------------------
(* append_events and append_events_and_sync. *)

\* prepare_batch numbers the events from the read model's last_seq.
FirstSeq == projection[Len(projection)].seq + 1

Prepared(n) == [i \in 1..n |-> [seq |-> FirstSeq + i - 1, ev |-> issued + i]]

\* ensure_log_positioned_for
LogPositioned == next_seq = FirstSeq

\* Both operations up to the command sent to the writer.  A batch that
\* prepare_batch rejects returns its error without any change.
BeginAppend(t, op, n) ==
    /\ acquire_confirmed_commit_lane(t)
    /\ issued + n <= MaxEvents
    /\ LogPositioned
    /\ issued' = issued + n
    /\ Enter(t, [op |-> op, phase |-> "append", batch |-> Prepared(n), through_seq |-> 0])
    /\ UNCHANGED <<disk, opened, writer, projection, uncertain, rolled_back, reported, confirmed>>

append_events(t, n) ==
    /\ BeginAppend(t, "append", n)
    /\ UNCHANGED sync_events

append_events_and_sync(t, n) ==
    /\ BeginAppend(t, "append_and_sync", n)
    /\ sync_events' = sync_events \cup ((issued + 1)..(issued + n))

WriterAccepts_Poisoned(batch) == batch[1].seq = next_seq

WriterAccepts(batch) == ~poisoned /\ batch[1].seq = next_seq

DirtyAfterAppend == TRUE

\* append_stored_batch: the whole batch is one write_all of the file.
append_stored_batch(t) ==
    /\ task[t].phase = "append"
    /\ WriterAccepts(task[t].batch)
    /\ file' = file \o task[t].batch
    /\ next_seq' = next_seq + Len(task[t].batch)
    /\ dirty' = DirtyAfterAppend
    /\ Goto(t, "appended")
    /\ UNCHANGED <<exists, torn, stable, opened, poisoned, projection, uncertain, history>>

RolledBackFile_Kept(batch) == file \o SubSeq(batch, 1, Len(batch) - 1)

\* rollback_partial_write truncates to committed_len.
RolledBackFile(batch) == file

\* The write fails and the rollback undoes it, or the writer refuses the batch
\* (poisoned, or a seq that is not next_seq): the error reaches the caller.
append_fails(t) ==
    /\ task[t].phase = "append"
    /\ file' = RolledBackFile(task[t].batch)
    /\ rolled_back' = rolled_back \cup EventsOf(task[t].batch)
    /\ Release(t)
    /\ UNCHANGED <<exists, torn, stable, opened, writer, projection, uncertain,
                   issued, sync_events, reported, confirmed>>

\* The write fails part-way and so does the rollback: the bytes stay, the
\* writer is poisoned and refuses every later append.
append_poisons(t) ==
    /\ task[t].phase = "append"
    /\ WriterAccepts(task[t].batch)
    /\ \E k \in 0..(Len(task[t].batch) - 1) : file' = file \o SubSeq(task[t].batch, 1, k)
    /\ torn' \in BOOLEAN
    /\ poisoned' = TRUE
    /\ Release(t)
    /\ UNCHANGED <<exists, stable, opened, next_seq, dirty, projection, uncertain, history>>

apply_committed_Forgotten(t) ==
    /\ task[t].phase = "appended"
    /\ task[t].op = "append"
    /\ Release(t)
    /\ UNCHANGED <<disk, opened, writer, projection, uncertain, history>>

\* append_events: apply_committed publishes the batch to the read model.
apply_committed(t) ==
    /\ task[t].phase = "appended"
    /\ task[t].op = "append"
    /\ projection' = projection \o task[t].batch
    /\ Release(t)
    /\ UNCHANGED <<disk, opened, writer, uncertain, history>>

set_uncertain_Published(t) ==
    /\ task[t].phase = "appended"
    /\ task[t].op = "append_and_sync"
    /\ LET batch == task[t].batch
           through == batch[Len(batch)].seq
       IN /\ uncertain' = [kind |-> "Published", batch |-> << >>, through_seq |-> through]
          /\ projection' = projection \o batch
          /\ task' = [task EXCEPT ![t].phase = "sync", ![t].through_seq = through]
    /\ UNCHANGED <<disk, opened, writer, commit_lane, history>>

\* append_events_and_sync registers the pending batch before it asks for fsync.
set_uncertain(t) ==
    /\ task[t].phase = "appended"
    /\ task[t].op = "append_and_sync"
    /\ LET batch == task[t].batch
           through == batch[Len(batch)].seq
       IN /\ uncertain' = [kind |-> "PendingProjection", batch |-> batch, through_seq |-> through]
          /\ task' = [task EXCEPT ![t].phase = "sync", ![t].through_seq = through]
    /\ UNCHANGED <<disk, opened, writer, projection, commit_lane, history>>

-----------------------------------------------------------------------------
(* fsync and its confirmation. *)

\* The durability barrier for events that are already visible.
sync_durable_events(t) ==
    /\ acquire_confirmed_commit_lane(t)
    /\ uncertain' = [kind |-> "Published", batch |-> << >>, through_seq |-> next_seq - 1]
    /\ Enter(t, [op |-> "sync", phase |-> "sync", batch |-> << >>, through_seq |-> next_seq - 1])
    /\ UNCHANGED <<disk, opened, writer, projection, history>>

RetryMatches(through) == uncertain.kind # "None" /\ uncertain.through_seq = through

\* retry_uncertain_sync with a marker for exactly the expected boundary; a
\* different boundary is an error that changes nothing.
retry_uncertain_sync(t, through) ==
    /\ acquire_commit_lane(t)
    /\ RetryMatches(through)
    /\ Enter(t, [op |-> "retry", phase |-> "sync", batch |-> << >>, through_seq |-> through])
    /\ UNCHANGED <<disk, opened, writer, projection, uncertain, history>>

\* Without a marker the boundary counts as confirmed when the log and the read
\* model both end there.
retry_already_confirmed(t, through) ==
    /\ acquire_commit_lane(t)
    /\ uncertain.kind = "None"
    /\ next_seq = through + 1
    /\ projection[Len(projection)].seq = through
    /\ confirmed' = confirmed \cup UpTo(projection, through)
    /\ UNCHANGED <<disk, opened, writer, projection, uncertain, commit_lane, task,
                   issued, sync_events, rolled_back, reported>>

\* flush_and_sync succeeds; with nothing dirty it does nothing.
flush_and_sync(t) ==
    /\ task[t].phase = "sync"
    /\ stable' = IF dirty THEN Len(file) ELSE stable
    /\ dirty' = FALSE
    /\ Goto(t, "synced")
    /\ UNCHANGED <<exists, file, torn, opened, next_seq, poisoned, projection, uncertain, history>>

DirtyAfterFailedSync_Cleared == FALSE

DirtyAfterFailedSync == dirty

\* fsync fails: how much of the file reached the device is unknown, and
\* fail_uncertain leaves the marker for retry_uncertain_sync.
flush_and_sync_fails(t) ==
    /\ task[t].phase = "sync"
    /\ dirty
    /\ stable' \in stable..Len(file)
    /\ dirty' = DirtyAfterFailedSync
    /\ reported' = reported \cup {task[t].through_seq}
    /\ Release(t)
    /\ UNCHANGED <<exists, file, torn, opened, next_seq, poisoned, projection, uncertain,
                   issued, sync_events, rolled_back, confirmed>>

\* take_uncertain: only the expected boundary may be taken.
MarkerFor(t) == uncertain.kind # "None" /\ uncertain.through_seq = task[t].through_seq

MarkerAfterConfirmation == NoMarker

\* apply_confirmed_projection (and, for sync_durable_events, take_uncertain):
\* a pending batch becomes visible now, a published one only loses its marker.
\* A marker or a position that does not fit is an error that changes nothing.
apply_confirmed_projection(t) ==
    /\ task[t].phase = "synced"
    /\ IF /\ MarkerFor(t)
          /\ uncertain.kind = "PendingProjection"
               => next_seq = uncertain.through_seq + 1 /\ FirstSeq = uncertain.batch[1].seq
       THEN /\ projection' = projection \o uncertain.batch
            /\ confirmed' = confirmed \cup UpTo(projection', uncertain.through_seq)
            /\ uncertain' = MarkerAfterConfirmation
       ELSE UNCHANGED <<projection, confirmed, uncertain>>
    /\ Release(t)
    /\ UNCHANGED <<disk, opened, writer, issued, sync_events, rolled_back, reported>>

-----------------------------------------------------------------------------
(* Failures of the process and of the machine. *)

\* What the writer may be writing when the process stops.
InFlight ==
    IF commit_lane # NoTask /\ task[commit_lane].phase = "append"
       /\ WriterAccepts(task[commit_lane].batch)
    THEN task[commit_lane].batch
    ELSE << >>

LoseMemory ==
    /\ opened' = FALSE
    /\ next_seq' = 0 /\ dirty' = FALSE /\ poisoned' = FALSE
    /\ projection' = << >>
    /\ uncertain' = NoMarker
    /\ commit_lane' = NoTask
    /\ task' = [t \in Tasks |-> Idle]
    /\ reported' = {}
    /\ UNCHANGED <<issued, sync_events, rolled_back, confirmed>>

\* The process dies; the page cache keeps every byte written so far.
process_crash ==
    /\ \E k \in 0..Len(InFlight) :
         /\ file' = file \o SubSeq(InFlight, 1, k)
         /\ torn' \in (IF k < Len(InFlight) THEN BOOLEAN ELSE {torn})
    /\ LoseMemory
    /\ UNCHANGED <<exists, stable>>

\* The machine dies: any prefix that keeps the stable records may survive.
power_loss ==
    /\ \E k \in 0..Len(InFlight) :
         LET full == file \o SubSeq(InFlight, 1, k)
         IN \E n \in stable..Len(full) :
              /\ file' = SubSeq(full, 1, n)
              /\ stable' = n
              /\ torn' \in (IF n < Len(full) \/ k < Len(InFlight) THEN BOOLEAN ELSE {torn})
    /\ LoseMemory
    /\ UNCHANGED exists

-----------------------------------------------------------------------------

TaskStep(t) ==
    \/ \E n \in 1..MaxBatch : append_events(t, n)
    \/ \E n \in 1..MaxBatch : append_events_and_sync(t, n)
    \/ append_stored_batch(t)
    \/ append_fails(t)
    \/ append_poisons(t)
    \/ apply_committed(t)
    \/ set_uncertain(t)
    \/ sync_durable_events(t)
    \/ \E through \in reported : retry_uncertain_sync(t, through)
    \/ \E through \in reported : retry_already_confirmed(t, through)
    \/ flush_and_sync(t)
    \/ flush_and_sync_fails(t)
    \/ apply_confirmed_projection(t)

Next ==
    \/ create_session
    \/ create_session_fails
    \/ get_or_open_meta
    \/ get_or_open_meta_fails
    \/ \E t \in Tasks : TaskStep(t)
    \/ process_crash
    \/ power_loss

\* The step of the task inside the lane: its command is in the writer's queue,
\* the reply of the writer is waiting for it, or it has only memory to update.
LaneStep ==
    \E t \in Tasks :
        \/ append_stored_batch(t) \/ append_fails(t) \/ append_poisons(t)
        \/ apply_committed(t) \/ set_uncertain(t)
        \/ flush_and_sync(t) \/ flush_and_sync_fails(t)
        \/ apply_confirmed_projection(t)

\* The writer actor and the task inside the lane keep running.
Spec == Init /\ [][Next]_vars /\ WF_vars(LaneStep)

-----------------------------------------------------------------------------
(* Properties. *)

Marker ==
    [kind : MarkerKinds, batch : Seq(Record), through_seq : Nat]

TaskState ==
    [op : Ops, phase : Phases, batch : Seq(Record), through_seq : Nat]

Flags ==
    /\ exists \in BOOLEAN /\ torn \in BOOLEAN /\ opened \in BOOLEAN
    /\ dirty \in BOOLEAN /\ poisoned \in BOOLEAN

\* The variables keep their types; in particular every seq that prepare_batch
\* assigns and every boundary a marker records is a natural number.
TypeOK ==
    /\ Flags
    /\ file \in Seq(Record) /\ stable \in Nat /\ next_seq \in Nat
    /\ projection \in Seq(Record)
    /\ uncertain \in Marker
    /\ commit_lane \in Tasks \cup {NoTask}
    /\ task \in [Tasks -> TaskState]
    /\ issued \in Nat
    /\ sync_events \subseteq Nat /\ rolled_back \subseteq Nat
    /\ reported \subseteq Nat /\ confirmed \subseteq Record

\* Whatever crashed, was rolled back or was left behind by a failed rollback,
\* the complete records of the log are SessionStarted at seq 0 and then other
\* events at 1, 2, 3, ...: EventStreamValidator never rejects a log that this
\* code wrote, so a created session can always be opened again.
LogStaysValid == file # << >> => ValidStream(file)

\* The read model is a prefix of the log, and once the lane is free and no
\* fsync is in doubt both end at the same event: ensure_log_positioned_for
\* never fails, so no append is refused with CorruptLog.
ProjectionFollowsLog ==
    opened =>
        /\ Len(projection) <= Len(file)
        /\ \A i \in 1..Len(projection) : projection[i] = file[i]
        /\ commit_lane = NoTask /\ uncertain.kind = "None" => LogPositioned

\* A record whose durability a caller was told about (append_events_and_sync,
\* sync_durable_events or retry_uncertain_sync returned Ok) stays in the log at
\* its seq through every later crash, power loss, failed write and reopen.
ConfirmedSurvives ==
    \A r \in confirmed : r.seq < stable /\ stable <= Len(file) /\ file[r.seq + 1] = r

\* Events of append_events_and_sync are visible in the read model only once
\* they are on stable storage, also when a restart replays records whose fsync
\* had failed before the crash.
VisibleOnlyWhenDurable ==
    \A i \in 1..Len(projection) : projection[i].ev \in sync_events => i <= stable

\* An append that failed and was rolled back leaves none of its events in the
\* log, not even after a restart.
RolledBackNeverLogged == rolled_back \cap EventsOf(file) = {}

\* While an fsync is in doubt the log does not grow and the read model does not
\* move, except that the doubt itself is resolved or the process dies.
StickyUntilConfirmed ==
    [][ uncertain.kind # "None" /\ opened' =>
            /\ file' = file
            /\ (projection' # projection \/ uncertain' # uncertain) => uncertain' = NoMarker ]_vars

\* A task inside the commit lane leaves it, whatever the outcome of its writes.
CommitLaneReleased == commit_lane # NoTask ~> commit_lane = NoTask

\* The file store keeps the contract of the trait SessionEventJournal, with the
\* complete records of the file as the log and the fsynced prefix as durable:
\* every step of every operation, failure and restart is a step of the contract.
Contract == INSTANCE JournalContract WITH
                running <- opened,
                stored  <- file,
                visible <- Len(projection),
                durable <- stable,
                doubt   <- uncertain.kind # "None"

\* The refinement, as a property of the journal.
ImplementsContract == Contract!Spec

-----------------------------------------------------------------------------
(* The inductive invariant behind the safety properties. *)

\* Only the task that holds the permit is inside the lane.
LaneInv ==
    /\ \A t \in Tasks : task[t].phase = "idle" => task[t] = Idle
    /\ \A t \in Tasks : task[t].phase # "idle" => commit_lane = t /\ opened
    /\ commit_lane # NoTask => task[commit_lane].phase # "idle"

\* The read model ends where the log does.
Positioned == next_seq = Len(projection)

\* The batch is in the log, right after the records of the read model.
Pending(batch) ==
    /\ Len(batch) > 0
    /\ next_seq = Len(projection) + Len(batch)
    /\ \A i \in 1..Len(batch) : file[Len(projection) + i] = batch[i]

\* A batch that no writer has seen: its seqs continue the read model and its
\* events are nowhere else.
Fresh(batch) ==
    /\ Len(batch) > 0
    /\ \A i \in 1..Len(batch) :
          /\ batch[i].seq = Len(projection) + i - 1
          /\ batch[i].ev \in 1..issued
          /\ batch[i].ev \notin rolled_back
          /\ \A j \in 1..Len(file) : file[j].ev # batch[i].ev

\* What is known at each await point inside the lane.
AtPhase(t) ==
    /\ task[t].phase \in {"append", "appended"} =>
          /\ task[t].op \in {"append", "append_and_sync"}
          /\ uncertain.kind = "None"
          /\ task[t].op = "append" => EventsOf(task[t].batch) \cap sync_events = {}
    /\ task[t].phase = "append" => Positioned /\ Fresh(task[t].batch)
    /\ task[t].phase = "appended" => Pending(task[t].batch) /\ dirty
    /\ task[t].phase \in {"sync", "synced"} => MarkerFor(t)
    /\ task[t].phase = "synced" => stable >= next_seq

PhaseInv == \A t \in Tasks : AtPhase(t)

\* The marker names the end of the log, and its batch if that is not visible.
MarkerInv ==
    /\ uncertain.kind = "None" => uncertain = NoMarker
    /\ uncertain.kind # "None" => opened /\ uncertain.through_seq = next_seq - 1
    /\ uncertain.kind = "PendingProjection" => Pending(uncertain.batch)
    /\ uncertain.kind = "Published" => uncertain.batch = << >> /\ Positioned

\* The writer's counter, the file, the read model and the fsynced prefix.
OpenInv ==
    /\ opened =>
        /\ exists
        /\ 1 <= Len(projection) /\ Len(projection) <= next_seq /\ next_seq <= Len(file)
        /\ ~poisoned => next_seq = Len(file)
        /\ ~dirty => stable >= next_seq
        /\ \A i \in 1..Len(projection) : projection[i] = file[i]
        /\ commit_lane = NoTask /\ uncertain.kind = "None" => Positioned
    /\ ~opened => projection = << >> /\ reported = {}

DiskInv ==
    /\ stable <= Len(file)
    /\ ~exists => file = << >>
    /\ LogStaysValid

\* What callers were told, and which events are where.
HistoryInv ==
    /\ \A i \in 1..Len(file) : file[i].ev <= issued /\ file[i].ev \notin rolled_back
    /\ sync_events \subseteq 1..issued
    /\ rolled_back \subseteq 1..issued
    /\ ConfirmedSurvives
    /\ VisibleOnlyWhenDurable
    /\ \A s \in reported : s < stable \/ (uncertain.kind # "None" /\ uncertain.through_seq = s)

\* Every part is needed for some action to preserve the safety properties; the
\* conjunction is preserved by every action.
IndInv == TypeOK /\ LaneInv /\ PhaseInv /\ MarkerInv /\ OpenInv /\ DiskInv /\ HistoryInv

=============================================================================
