-------------------------- MODULE SessionManager --------------------------
(***************************************************************************)
(* The durable life cycle of one session: the transaction that creates it  *)
(* (root or fork), open, delete, recycle and restore, serialised by the    *)
(* per-session transition guard, and the table that holds the session's    *)
(* in-process runtime.  Runtimes are numbered; 0 stands for none.          *)
(* A session is known to openers and closers once its first event is on    *)
(* disk: until then nobody else has its freshly generated identifier.      *)
(***************************************************************************)
EXTENDS Naturals, FiniteSets

CONSTANTS
    Openers,        \* tasks that call open and may be cancelled while they wait
    Closers,        \* tasks that delete, recycle or restore the session
    Creator,        \* the owned task that runs the creation transaction
    Nobody,         \* no holder of the transition
    MaxRuntimes     \* bound on the runtimes ever put in the table

ASSUME SessionManagerAssumption ==
    /\ MaxRuntimes \in Nat \ {0}
    /\ Creator \notin Openers \cup Closers
    /\ Nobody \notin Openers \cup Closers \cup {Creator}
    /\ Openers \cap Closers = {}

VARIABLES
    disk,           \* "absent", "active" or "recycled": the session directory
    entry,          \* the runtime in the resource table, 0 when vacant
    runtimes,       \* how many runtimes were made
    creation,       \* creation[r]: "ready", "pending" or "failed"
    initialized,    \* the runtimes whose start or resume hooks have succeeded
    transition,     \* the holder of the session's transition, or Nobody
    inactive,       \* the event sink refuses the session's events
    quiesced,       \* custom-event admission is closed for the session
    kind,           \* what is created: a "root", a "fork" or a "child"
    guard,          \* the creator still holds its creation guard
    link,           \* the child's entry in its parent: "none", "running", "settled"
    rt,             \* rt[a]: the runtime task a holds, 0 for none
    current,        \* the tasks whose handle was obtained after the last close
    pc              \* pc[a]: where task a is

table == << entry, runtimes >>
sink  == << inactive, quiesced >>
vars  == << disk, entry, runtimes, creation, initialized, transition,
            inactive, quiesced, kind, guard, link, rt, current, pc >>

Tasks == Openers \cup Closers \cup {Creator}
Runtimes == 1..MaxRuntimes

---------------------------------------------------------------------------
(* The resource table.                                                     *)

(* runtime_for: the runtime in the table, or a new one put there.          *)
runtime_for(a) ==
    IF entry # 0
    THEN rt' = [rt EXCEPT ![a] = entry] /\ UNCHANGED table
    ELSE /\ runtimes < MaxRuntimes
         /\ runtimes' = runtimes + 1
         /\ entry' = runtimes + 1
         /\ rt' = [rt EXCEPT ![a] = runtimes + 1]

(* What Arc::strong_count sees: the table, every task with a handle, and   *)
(* the creation guard, which keeps its own reference.                      *)
strong_count(r) ==
    (IF entry = r THEN 1 ELSE 0)
      + Cardinality({a \in Tasks : rt[a] = r})
      + (IF guard /\ rt[Creator] = r THEN 1 ELSE 0)

(* cleanup_if_unshared removes the caller's own runtime from the table     *)
(* only when the caller is the last other holder.                          *)
cleanup_if_unshared(a) ==
    entry' = IF entry = rt[a] /\ strong_count(entry) = 2 THEN 0 ELSE entry

---------------------------------------------------------------------------
(* The transition guard: begin takes the free slot, a waiter tries again   *)
(* when the holder is done, and leaving by any path frees it.              *)

begin(a) == transition = Nobody /\ transition' = a

complete(a) == transition' = IF transition = a THEN Nobody ELSE transition

Goto(a, where) == pc' = [pc EXCEPT ![a] = where]

---------------------------------------------------------------------------
(* open                                                                    *)

open(o) ==
    /\ pc[o] = "idle"
    /\ disk # "absent" \/ inactive
    /\ runtime_for(o)
    /\ Goto(o, "wait")
    /\ UNCHANGED << disk, creation, initialized, transition, sink, guard, link, current >>

wait_for_creation_Any(o) ==
    /\ pc[o] = "wait"
    /\ Goto(o, "begin")
    /\ UNCHANGED << disk, table, creation, initialized, transition, sink, guard, link,
                    rt, current >>

(* wait_for_creation looks at the runtime captured above: it passes when   *)
(* the creation committed, and fails when it was given up or when the wait *)
(* times out.  This error leaves open at once, without the clean-up.       *)
wait_for_creation(o) ==
    /\ pc[o] = "wait"
    /\ \/ creation[rt[o]] = "ready" /\ Goto(o, "begin") /\ UNCHANGED rt
       \/ creation[rt[o]] # "ready" /\ Goto(o, "idle") /\ rt' = [rt EXCEPT ![o] = 0]
    /\ UNCHANGED << disk, table, creation, initialized, transition, sink, guard, link, current >>

begin_open(o) ==
    /\ pc[o] = "begin"
    /\ begin(o)
    /\ Goto(o, "store")
    /\ UNCHANGED << disk, table, creation, initialized, sink, guard, link, rt, current >>

(* Session::open asks the store; on success the sink is activated in the   *)
(* same step.  An error drops the transition guard first.                  *)
store_open(o) ==
    /\ pc[o] = "store"
    /\ \/ /\ disk = "active"
          /\ inactive' = FALSE
          /\ Goto(o, "resume")
          /\ UNCHANGED transition
       \/ complete(o) /\ Goto(o, "cleanup") /\ UNCHANGED inactive
    /\ UNCHANGED << disk, table, creation, initialized, quiesced, guard, link, rt, current >>

(* The SessionResume hooks run unless the runtime was initialised before;  *)
(* success completes the transition and hands the session out.             *)
ensure_lifecycle_initialized(o) ==
    /\ pc[o] = "resume"
    /\ \/ /\ initialized' = initialized \cup {rt[o]}
          /\ Goto(o, "opened")
          /\ current' = current \cup {o}
       \/ /\ rt[o] \notin initialized
          /\ Goto(o, "cleanup")
          /\ UNCHANGED << initialized, current >>
    /\ complete(o)
    /\ UNCHANGED << disk, table, creation, sink, guard, link, rt >>

open_failed(o) ==
    /\ pc[o] = "cleanup"
    /\ cleanup_if_unshared(o)
    /\ Goto(o, "opened")
    /\ UNCHANGED << disk, runtimes, creation, initialized, transition, sink, guard, link,
                    rt, current >>

(* The task drops the session (or, after an error, its runtime) and is     *)
(* free to open again.                                                     *)
drop_session(o) ==
    /\ pc[o] = "opened"
    /\ rt' = [rt EXCEPT ![o] = 0]
    /\ current' = current \ {o}
    /\ Goto(o, "idle")
    /\ UNCHANGED << disk, table, creation, initialized, transition, sink, guard, link >>

(* The caller is cancelled at an await point: the guard's drop frees the   *)
(* transition and the runtime is let go without the clean-up.              *)
cancel_open(o) ==
    /\ pc[o] \in {"wait", "begin", "store", "resume"}
    /\ complete(o)
    /\ rt' = [rt EXCEPT ![o] = 0]
    /\ Goto(o, "idle")
    /\ UNCHANGED << disk, table, creation, initialized, sink, guard, link, current >>

---------------------------------------------------------------------------
(* delete and recycle (close_session), and restore.                        *)

(* delete_session does not find a directory that was recycled.             *)
Deleted == IF disk = "active" THEN "absent" ELSE disk

(* Recycle and restore are asked for by the session's owner, which learns  *)
(* the identifier when the creation returns; any listed session can be     *)
(* deleted.                                                                *)
HandedOver == pc[Creator] \in {"opened", "gone"} /\ creation[1] = "ready"

begin_session_transition(k) ==
    /\ pc[k] = "idle"
    /\ disk # "absent"
    /\ begin(k)
    /\ \/ Goto(k, "delete")
       \/ HandedOver /\ \E op \in {"recycle", "restore"} : Goto(k, op)
    /\ UNCHANGED << disk, table, creation, initialized, sink, guard, link, rt, current >>

emit_session_shutdown_Keeps(k) ==
    /\ pc[k] \in {"delete", "recycle"}
    /\ \/ /\ disk = "active"
          /\ Goto(k, IF pc[k] = "delete" THEN "delete_release" ELSE "recycle_release")
       \/ Goto(k, "idle")
    /\ UNCHANGED << disk, table, creation, initialized, transition, sink, guard, link,
                    rt, current >>

(* The shutdown hooks need the session's read model and may fail; their    *)
(* error, or the cancellation of the caller, ends the close.               *)
emit_session_shutdown(k) ==
    /\ pc[k] \in {"delete", "recycle"}
    /\ \/ /\ disk = "active"
          /\ Goto(k, IF pc[k] = "delete" THEN "delete_release" ELSE "recycle_release")
          /\ UNCHANGED transition
       \/ complete(k) /\ Goto(k, "idle")
    /\ UNCHANGED << disk, table, creation, initialized, sink, guard, link, rt, current >>

(* The spawned task: release the event lane; an error there reactivates    *)
(* the session inside the sink and ends the task.                          *)
release(k) ==
    /\ pc[k] \in {"delete_release", "recycle_release"}
    /\ \/ /\ inactive' = TRUE
          /\ quiesced' = TRUE
          /\ Goto(k, IF pc[k] = "delete_release" THEN "delete_disk" ELSE "recycle_disk")
          /\ UNCHANGED transition
       \/ inactive' = FALSE /\ complete(k) /\ Goto(k, "idle") /\ UNCHANGED quiesced
    /\ UNCHANGED << disk, table, creation, initialized, guard, link, rt, current >>

close_store_StaysReleased(k) ==
    /\ pc[k] \in {"delete_disk", "recycle_disk"}
    /\ \/ /\ disk' = IF pc[k] = "recycle_disk" /\ kind = "child" THEN "recycled" ELSE Deleted
          /\ current' = {}
          /\ Goto(k, "forget")
          /\ UNCHANGED transition
       \/ complete(k) /\ Goto(k, "idle") /\ UNCHANGED << disk, current >>
    /\ UNCHANGED << table, creation, initialized, sink, guard, link, rt >>

(* The store operation; on error the lane and custom-event admission are   *)
(* opened again.                                                           *)
close_store(k) ==
    /\ pc[k] \in {"delete_disk", "recycle_disk"}
    /\ \/ /\ disk' = IF pc[k] = "recycle_disk" /\ kind = "child" THEN "recycled" ELSE Deleted
          /\ current' = {}
          /\ Goto(k, "forget")
          /\ UNCHANGED << transition, sink >>
       \/ /\ inactive' = FALSE
          /\ quiesced' = FALSE
          /\ complete(k)
          /\ Goto(k, "idle")
          /\ UNCHANGED << disk, current >>
    /\ UNCHANGED << table, creation, initialized, guard, link, rt >>

(* forget_custom_event_session, detach and the unconditional clean-up of   *)
(* the resource table, then the transition guard is dropped.               *)
close_cleanup(k) ==
    /\ pc[k] = "forget"
    /\ quiesced' = FALSE
    /\ entry' = 0
    /\ complete(k)
    /\ Goto(k, "idle")
    /\ UNCHANGED << disk, runtimes, creation, initialized, inactive, guard, link, rt, current >>

restore_session(k) ==
    /\ pc[k] = "restore"
    /\ disk' \in IF disk = "recycled" THEN {"active", "recycled"} ELSE {disk}
    /\ complete(k)
    /\ Goto(k, "idle")
    /\ UNCHANGED << table, creation, initialized, sink, guard, link, rt, current >>

---------------------------------------------------------------------------
(* The creation transaction of a root session, a fork or a child.          *)

(* runtime_for and begin_creation run without an await.                    *)
begin_creation ==
    /\ pc[Creator] = "idle"
    /\ runtime_for(Creator)
    /\ creation' = [creation EXCEPT ![rt'[Creator]] = "pending"]
    /\ guard' = TRUE
    /\ Goto(Creator, "create")
    /\ UNCHANGED << disk, initialized, transition, sink, link, current >>

(* The first event may be committed, may be on disk although its           *)
(* publication failed, or nothing was written at all.  An error before the *)
(* sink is asked only clears the table.                                    *)
create_with_params ==
    /\ pc[Creator] = "create"
    /\ \/ /\ disk' = "active"
          /\ Goto(Creator, IF kind = "fork" THEN "forked" ELSE "start")
          /\ UNCHANGED entry
       \/ disk' \in {"absent", "active"} /\ Goto(Creator, "discard") /\ UNCHANGED entry
       \/ entry' = 0 /\ Goto(Creator, "unwind") /\ UNCHANGED disk
    /\ UNCHANGED << runtimes, creation, initialized, transition, sink, guard, link,
                    rt, current >>

(* A fork appends the transcript it inherits before the start hooks; its   *)
(* failure is compensated without the shutdown hooks.                      *)
emit_forked ==
    /\ pc[Creator] = "forked"
    /\ \/ ~inactive /\ Goto(Creator, "start")
       \/ Goto(Creator, "discard")
    /\ UNCHANGED << disk, table, creation, initialized, transition, sink, guard, link,
                    rt, current >>

start_hooks ==
    /\ pc[Creator] = "start"
    /\ \/ initialized' = initialized \cup {rt[Creator]} /\ Goto(Creator, "sync")
       \/ Goto(Creator, "shutdown") /\ UNCHANGED initialized
    /\ UNCHANGED << disk, table, creation, transition, sink, guard, link, rt, current >>

sync_durable_events ==
    /\ pc[Creator] = "sync"
    /\ \/ ~inactive /\ Goto(Creator, IF kind = "child" THEN "link" ELSE "commit")
       \/ Goto(Creator, "shutdown")
    /\ UNCHANGED << disk, table, creation, initialized, transition, sink, guard, link,
                    rt, current >>

(* A child becomes visible in its parent with AgentSessionSpawned, which   *)
(* is then made durable; after that a failure has the link to settle.      *)
emit_spawned ==
    /\ pc[Creator] = "link"
    /\ \/ link' = "running" /\ Goto(Creator, "link_sync")
       \/ Goto(Creator, "shutdown") /\ UNCHANGED link
    /\ UNCHANGED << disk, table, creation, initialized, transition, sink, guard,
                    rt, current >>

sync_parent_Unlinked ==
    /\ pc[Creator] = "link_sync"
    /\ \E next \in {"commit", "shutdown"} : Goto(Creator, next)
    /\ UNCHANGED << disk, table, creation, initialized, transition, sink, guard, link,
                    rt, current >>

sync_parent ==
    /\ pc[Creator] = "link_sync"
    /\ \E next \in {"commit", "settle"} : Goto(Creator, next)
    /\ UNCHANGED << disk, table, creation, initialized, transition, sink, guard, link,
                    rt, current >>

(* SessionCreationGuard::commit wakes the waiting openers; the session is  *)
(* then the caller's.                                                      *)
commit_creation ==
    /\ pc[Creator] = "commit"
    /\ creation' = [creation EXCEPT ![rt[Creator]] = "ready"]
    /\ guard' = FALSE
    /\ current' = current \cup {Creator}
    /\ Goto(Creator, "opened")
    /\ UNCHANGED << disk, table, initialized, transition, sink, link, rt >>

(* A panic, in the prompt or start hooks that extensions supply, unwinds   *)
(* the guards first; the compensation then looks the runtime up again and  *)
(* shuts the session down if it can be opened.                             *)
panic ==
    /\ pc[Creator] \in {"create", "start"}
    /\ creation' = [creation EXCEPT ![rt[Creator]] = "failed"]
    /\ guard' = FALSE
    /\ rt' = [rt EXCEPT ![Creator] = 0]
    /\ Goto(Creator, "panicked")
    /\ disk' \in IF pc[Creator] = "create" THEN {disk, "active"} ELSE {disk}
    /\ UNCHANGED << table, initialized, transition, sink, link, current >>

(* Whether the parent lists the child as running is read from the parent;  *)
(* when it cannot be read the link is taken to be there.                   *)
compensate_panicked_creation ==
    /\ pc[Creator] = "panicked"
    /\ runtime_for(Creator)
    /\ \/ /\ disk = "active"
          /\ \/ kind = "child" /\ Goto(Creator, "settle")
             \/ link # "running" /\ Goto(Creator, "shutdown")
       \/ Goto(Creator, "discard")
    /\ UNCHANGED << disk, creation, initialized, transition, sink, guard, link, current >>

(* The parent's link is closed with a durable AgentSessionFailed; if that  *)
(* fails the child is kept, so that the link still leads somewhere.        *)
settle_parent_link ==
    /\ pc[Creator] = "settle"
    /\ \/ link' = "settled" /\ Goto(Creator, "shutdown")
       \/ Goto(Creator, "unwind") /\ UNCHANGED link
    /\ UNCHANGED << disk, table, creation, initialized, transition, sink, guard,
                    rt, current >>

(* The shutdown hooks of a failed creation: their error or panic is only   *)
(* reported.                                                               *)
discard_failed_lifecycle_start ==
    /\ pc[Creator] = "shutdown"
    /\ Goto(Creator, "discard")
    /\ UNCHANGED << disk, table, creation, initialized, transition, sink, guard, link,
                    rt, current >>

(* A root or a fork is discarded inside a transition, a child without.     *)
discard_failed_creation ==
    /\ pc[Creator] = "discard"
    /\ IF kind = "child" THEN UNCHANGED transition ELSE begin(Creator)
    /\ Goto(Creator, "discard_release")
    /\ UNCHANGED << disk, table, creation, initialized, sink, guard, link, rt, current >>

(* For a child the store is asked to delete even when the lane could not   *)
(* be released, and custom-event admission is not touched.                 *)
discard_release ==
    /\ pc[Creator] = "discard_release"
    /\ \/ inactive' = TRUE /\ quiesced' = (kind # "child" \/ quiesced)
          /\ Goto(Creator, "discard_disk") /\ UNCHANGED transition
       \/ /\ inactive' = FALSE
          /\ IF kind = "child" THEN Goto(Creator, "discard_disk") /\ UNCHANGED transition
                               ELSE Goto(Creator, "unwind") /\ complete(Creator)
          /\ UNCHANGED quiesced
    /\ UNCHANGED << disk, table, creation, initialized, guard, link, rt, current >>

(* A child whose directory could not be deleted keeps its lane released.   *)
discard_store ==
    /\ pc[Creator] = "discard_disk"
    /\ \/ /\ disk' = Deleted
          /\ current' = {}
          /\ Goto(Creator, "discard_forget")
          /\ UNCHANGED << transition, sink >>
       \/ /\ IF kind = "child" THEN UNCHANGED sink
                                ELSE inactive' = FALSE /\ quiesced' = FALSE
          /\ complete(Creator)
          /\ Goto(Creator, "unwind")
          /\ UNCHANGED << disk, current >>
    /\ UNCHANGED << table, creation, initialized, guard, link, rt >>

discard_cleanup ==
    /\ pc[Creator] = "discard_forget"
    /\ quiesced' = (kind = "child" /\ quiesced)
    /\ entry' = 0
    /\ complete(Creator)
    /\ Goto(Creator, "unwind")
    /\ UNCHANGED << disk, runtimes, creation, initialized, inactive, guard, link, rt, current >>

(* The transaction returns its error: the creation guard marks its runtime *)
(* failed unless it already did.                                           *)
unwind ==
    /\ pc[Creator] = "unwind"
    /\ creation' = [creation EXCEPT ![rt[Creator]] = IF guard THEN "failed" ELSE @]
    /\ guard' = FALSE
    /\ rt' = [rt EXCEPT ![Creator] = 0]
    /\ Goto(Creator, "gone")
    /\ UNCHANGED << disk, table, initialized, transition, sink, link, current >>

(* The client that asked for the session lets its handle go.               *)
drop_created ==
    /\ pc[Creator] = "opened"
    /\ rt' = [rt EXCEPT ![Creator] = 0]
    /\ current' = current \ {Creator}
    /\ Goto(Creator, "gone")
    /\ UNCHANGED << disk, table, creation, initialized, transition, sink, guard, link >>

---------------------------------------------------------------------------
Init ==
    /\ disk = "absent"
    /\ entry = 0
    /\ runtimes = 0
    /\ creation = [r \in Runtimes |-> "ready"]
    /\ initialized = {}
    /\ transition = Nobody
    /\ inactive = FALSE
    /\ quiesced = FALSE
    /\ kind \in {"root", "fork", "child"}
    /\ guard = FALSE
    /\ link = "none"
    /\ rt = [a \in Tasks |-> 0]
    /\ current = {}
    /\ pc = [a \in Tasks |-> "idle"]

OpenerStep(o) ==
    /\ \/ open(o) \/ wait_for_creation(o) \/ begin_open(o) \/ store_open(o)
       \/ ensure_lifecycle_initialized(o) \/ open_failed(o) \/ drop_session(o)
       \/ cancel_open(o)
    /\ UNCHANGED kind

CloserStep(k) ==
    /\ \/ begin_session_transition(k) \/ emit_session_shutdown(k) \/ release(k)
       \/ close_store(k) \/ close_cleanup(k) \/ restore_session(k)
    /\ UNCHANGED kind

CreationStep ==
    /\ \/ begin_creation \/ create_with_params \/ emit_forked \/ start_hooks
       \/ sync_durable_events \/ emit_spawned \/ sync_parent \/ commit_creation
       \/ panic \/ compensate_panicked_creation \/ settle_parent_link \/ discard_failed_lifecycle_start
       \/ discard_failed_creation \/ discard_release \/ discard_store
       \/ discard_cleanup \/ unwind \/ drop_created
    /\ UNCHANGED kind

Next ==
    \/ \E o \in Openers : OpenerStep(o)
    \/ \E k \in Closers : CloserStep(k)
    \/ CreationStep

(* A task that has begun goes on: the store, the hooks (time-limited) and  *)
(* the event lane all answer.  A waiter is not promised the transition     *)
(* ahead of newcomers, but it is when the slot is free infinitely often.   *)
Fairness ==
    /\ \A o \in Openers : WF_vars(pc[o] # "idle" /\ OpenerStep(o))
    /\ \A k \in Closers : WF_vars(pc[k] # "idle" /\ CloserStep(k))
    /\ WF_vars(CreationStep)
    /\ SF_vars(pc[Creator] = "discard" /\ CreationStep)

Spec == Init /\ [][Next]_vars

FairSpec == Spec /\ Fairness

---------------------------------------------------------------------------
(* Properties.                                                             *)

(* A session that somebody refers to is there.  What open handed out since *)
(* the last close is on disk and the creation of its runtime has           *)
(* committed: neither a creation that is still running nor one being       *)
(* compensated, nor a close that overtook the open, leaves a caller with a *)
(* session that is not there.  And a child whose creation is compensated   *)
(* is deleted only when its parent does not list it as running.            *)
ReferencedIsThere ==
    /\ \A o \in Openers \cap current : disk = "active" /\ creation[rt[o]] = "ready"
    /\ pc[Creator] \in {"discard_disk", "discard_forget"} => link # "running"

(* With no transition in progress, a session that a caller has open takes  *)
(* events and delivers custom events, whichever step of a close or of a    *)
(* compensation failed on the way; and custom-event admission is never     *)
(* left closed.                                                            *)
OpenTakesEvents ==
    transition = Nobody => ~quiesced /\ (current \cap Openers # {} => ~inactive)

(* The transition is always given back and a creation is always settled,   *)
(* on every error, panic and cancellation path: nobody waits for a guard   *)
(* that is never dropped.                                                  *)
GuardsReleased ==
    /\ transition # Nobody ~> transition = Nobody
    /\ guard ~> ~guard

===========================================================================
