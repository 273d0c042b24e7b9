----------------------- MODULE SessionManagerProofs -----------------------
(***************************************************************************)
(* Proofs about SessionManager for any number of openers, closers and      *)
(* runtimes: what open handed out is there (ReferencedIsThere) and takes   *)
(* events (OpenTakesEvents).                                               *)
(***************************************************************************)
EXTENDS SessionManager, TLAPS

OpenerPlaces == {"idle", "wait", "begin", "store", "resume", "cleanup", "opened"}

CloserPlaces == {"idle", "delete", "recycle", "restore", "delete_release",
                 "recycle_release", "delete_disk", "recycle_disk", "forget"}

(* The places of a creation that may still succeed, of one that is being   *)
(* compensated, and of one inside the discard of its directory.            *)
Creating == {"create", "forked", "start", "sync", "link", "link_sync", "commit"}

Discarding == {"discard_release", "discard_disk", "discard_forget"}

Failing == {"panicked", "settle", "shutdown", "discard", "unwind"} \cup Discarding

CreatorPlaces == {"idle", "opened", "gone"} \cup Creating \cup Failing

(* The places of a close whose lane is released.                           *)
Released == {"delete_disk", "recycle_disk", "forget"}

(* The openers past wait_for_creation.                                     *)
Admitted == {"begin", "store", "resume", "cleanup", "opened"}

Types ==
    /\ disk \in {"absent", "active", "recycled"}
    /\ runtimes \in 0..MaxRuntimes
    /\ entry \in 0..runtimes
    /\ creation \in [Runtimes -> {"ready", "pending", "failed"}]
    /\ transition \in Tasks \cup {Nobody}
    /\ inactive \in BOOLEAN
    /\ quiesced \in BOOLEAN
    /\ kind \in {"root", "fork", "child"}
    /\ guard \in BOOLEAN
    /\ link \in {"none", "running", "settled"}
    /\ rt \in [Tasks -> 0..runtimes]
    /\ current \in SUBSET Tasks
    /\ pc \in [Tasks -> OpenerPlaces \cup CloserPlaces \cup CreatorPlaces]

PlaceInv ==
    /\ \A o \in Openers : pc[o] \in OpenerPlaces
    /\ \A k \in Closers : pc[k] \in CloserPlaces
    /\ pc[Creator] \in CreatorPlaces

(* Who holds the transition: a task at a place inside one.                 *)
HolderInv ==
    /\ \A o \in Openers : transition = o <=> pc[o] \in {"store", "resume"}
    /\ \A k \in Closers : transition = k <=> pc[k] # "idle"
    /\ transition = Creator <=> kind # "child" /\ pc[Creator] \in Discarding

(* Before the first event is on disk nobody else knows the session.        *)
UnknownInv ==
    pc[Creator] \in {"idle", "create"} =>
        /\ disk = "absent"
        /\ ~inactive
        /\ \A a \in Openers \cup Closers : pc[a] = "idle" /\ rt[a] = 0
        /\ pc[Creator] = "idle" => entry = 0 /\ runtimes = 0
        /\ pc[Creator] = "create" => entry = 1

(* The creation is that of runtime 1, pending while the guard is held.     *)
CreationInv ==
    /\ guard => rt[Creator] = 1 /\ creation[1] = "pending"
    /\ pc[Creator] \in Creating => guard
    /\ pc[Creator] = "panicked" => ~guard
    /\ pc[Creator] \in {"idle", "opened"} => creation[1] = "ready"
    /\ creation[1] = "ready" => pc[Creator] \in {"idle", "opened", "gone"}
    /\ \A r \in Runtimes : r # 1 => creation[r] = "ready"
    /\ \A k \in Closers : pc[k] \in {"recycle", "restore", "recycle_release", "recycle_disk"} =>
          creation[1] = "ready" /\ pc[Creator] # "idle"

(* While the creation has not committed, a directory that is there is      *)
(* reached only through runtime 1, where openers wait.                     *)
WaitInv ==
    /\ \A o \in Openers : pc[o] # "idle" => rt[o] # 0
    /\ \A o \in Openers : pc[o] \in Admitted => creation[rt[o]] = "ready"
    /\ creation[1] # "ready" /\ disk = "active" =>
          entry = 1 /\ \A o \in Openers : rt[o] \in {0, 1}

(* What a close and a discard leave behind.                                *)
CloseInv ==
    /\ \A k \in Closers : pc[k] = "forget" => disk # "active" /\ current \cap Openers = {}
    /\ pc[Creator] = "discard_forget" => disk # "active"
    /\ quiesced => \/ \E k \in Closers : pc[k] \in Released
                   \/ kind # "child" /\ pc[Creator] \in {"discard_disk", "discard_forget"}

(* The openers that have, or are about to be given, the session.           *)
OpenInv ==
    /\ \A o \in Openers : pc[o] = "resume" => disk = "active" /\ ~inactive
    /\ \A o \in Openers \cap current :
          /\ pc[o] = "opened"
          /\ disk = "active"
          /\ inactive => \E k \in Closers : pc[k] \in {"delete_disk", "recycle_disk"}

(* The parent's link runs from its publication to the end of the creation, *)
(* or until a compensation has settled it.                                 *)
LinkInv ==
    link = "running" =>
        pc[Creator] \in {"link_sync", "commit", "settle", "unwind", "opened", "gone"}

IndInv ==
    /\ Types
    /\ PlaceInv
    /\ HolderInv
    /\ UnknownInv
    /\ CreationInv
    /\ WaitInv
    /\ CloseInv
    /\ OpenInv
    /\ LinkInv

---------------------------------------------------------------------------
(* open.  An opener that comes in while runtime 1 is being created either *)
(* gets runtime 1 or finds the directory gone.                             *)
LEMMA OpenKeeps ==
    ASSUME IndInv, NEW o \in Openers, open(o), kind' = kind
    PROVE  IndInv'
<1> USE SessionManagerAssumption
    DEF IndInv, Types, PlaceInv, Tasks, Runtimes, table, sink, open, runtime_for, Goto,
        OpenerPlaces, CloserPlaces, CreatorPlaces, Creating, Failing, Discarding,
        Released, Admitted
<1>1. Types'
  OBVIOUS
<1>2. PlaceInv'
  OBVIOUS
<1>3. HolderInv'
  BY DEF HolderInv
<1>4. UnknownInv'
  BY DEF UnknownInv
<1>5. CreationInv'
  BY DEF CreationInv
<1>6. WaitInv'
  BY DEF WaitInv
<1>7. CloseInv'
  BY DEF CloseInv
<1>8. OpenInv'
  BY DEF OpenInv
<1>9. LinkInv'
  BY DEF LinkInv
<1>. QED  BY <1>1, <1>2, <1>3, <1>4, <1>5, <1>6, <1>7, <1>8, <1>9

(* Only openers of a ready runtime are admitted.                           *)
LEMMA WaitForCreationKeeps ==
    ASSUME IndInv, NEW o \in Openers, wait_for_creation(o), kind' = kind
    PROVE  IndInv'
<1> USE SessionManagerAssumption
    DEF IndInv, Types, PlaceInv, Tasks, Runtimes, table, sink, wait_for_creation, Goto,
        OpenerPlaces, CloserPlaces, CreatorPlaces, Creating, Failing, Discarding,
        Released, Admitted
<1>1. Types'
  OBVIOUS
<1>2. PlaceInv'
  <2>1. CASE creation[rt[o]] = "ready" /\ pc' = [pc EXCEPT ![o] = "begin"]
    BY <2>1
  <2>2. CASE pc' = [pc EXCEPT ![o] = "idle"]
    BY <2>2
  <2>. QED  BY <2>1, <2>2
<1>3. HolderInv'
  BY DEF HolderInv
<1>4. UnknownInv'
  BY DEF UnknownInv
<1>5. CreationInv'
  BY DEF CreationInv
<1>6. WaitInv'
  BY DEF WaitInv
<1>7. CloseInv'
  BY DEF CloseInv
<1>8. OpenInv'
  BY DEF OpenInv
<1>9. LinkInv'
  BY DEF LinkInv
<1>. QED  BY <1>1, <1>2, <1>3, <1>4, <1>5, <1>6, <1>7, <1>8, <1>9

LEMMA BeginOpenKeeps ==
    ASSUME IndInv, NEW o \in Openers, begin_open(o), kind' = kind
    PROVE  IndInv'
<1> USE SessionManagerAssumption
    DEF IndInv, Types, PlaceInv, Tasks, Runtimes, table, sink, begin_open, begin, Goto,
        OpenerPlaces, CloserPlaces, CreatorPlaces, Creating, Failing, Discarding,
        Released, Admitted
<1>1. Types'
  OBVIOUS
<1>2. PlaceInv'
  OBVIOUS
<1>3. HolderInv'
  BY DEF HolderInv
<1>4. UnknownInv'
  BY DEF UnknownInv
<1>5. CreationInv'
  BY DEF CreationInv
<1>6. WaitInv'
  BY DEF WaitInv
<1>7. CloseInv'
  BY DEF CloseInv
<1>8. OpenInv'
  BY DEF OpenInv
<1>9. LinkInv'
  BY DEF LinkInv
<1>. QED  BY <1>1, <1>2, <1>3, <1>4, <1>5, <1>6, <1>7, <1>8, <1>9

(* The holder sees an active directory and activates the sink.             *)
LEMMA StoreOpenKeeps ==
    ASSUME IndInv, NEW o \in Openers, store_open(o), kind' = kind
    PROVE  IndInv'
<1> USE SessionManagerAssumption
    DEF IndInv, Types, PlaceInv, Tasks, Runtimes, table, sink, store_open, complete, Goto,
        OpenerPlaces, CloserPlaces, CreatorPlaces, Creating, Failing, Discarding,
        Released, Admitted
<1>1. Types'
  <2>1. disk' \in {"absent", "active", "recycled"}
    OBVIOUS
  <2>2. runtimes' \in 0..MaxRuntimes
    OBVIOUS
  <2>3. entry' \in 0..runtimes'
    OBVIOUS
  <2>4. creation' \in [Runtimes -> {"ready", "pending", "failed"}]
    OBVIOUS
  <2>5. transition' \in Tasks \cup {Nobody}
    OBVIOUS
  <2>6. inactive' \in BOOLEAN /\ quiesced' \in BOOLEAN
    OBVIOUS
  <2>7. guard' \in BOOLEAN /\ link' \in {"none", "running", "settled"}
    OBVIOUS
  <2>8. rt' \in [Tasks -> 0..runtimes']
    OBVIOUS
  <2>9. current' \in SUBSET Tasks
    OBVIOUS
  <2>10. pc' \in [Tasks -> OpenerPlaces \cup CloserPlaces \cup CreatorPlaces]
    OBVIOUS
  <2>. QED  BY <2>1, <2>2, <2>3, <2>4, <2>5, <2>6, <2>7, <2>8, <2>9, <2>10
<1>2. PlaceInv'
  OBVIOUS
<1>3. HolderInv'
  BY DEF HolderInv
<1>4. UnknownInv'
  BY DEF UnknownInv
<1>5. CreationInv'
  BY DEF CreationInv
<1>6. WaitInv'
  BY DEF WaitInv
<1>7. CloseInv'
  BY DEF CloseInv
<1>8. OpenInv'
  BY DEF OpenInv
<1>9. LinkInv'
  BY DEF LinkInv
<1>. QED  BY <1>1, <1>2, <1>3, <1>4, <1>5, <1>6, <1>7, <1>8, <1>9

(* The handle is given out under the transition, directory and sink as the *)
(* store left them.                                                        *)
LEMMA EnsureLifecycleInitializedKeeps ==
    ASSUME IndInv, NEW o \in Openers, ensure_lifecycle_initialized(o), kind' = kind
    PROVE  IndInv'
<1> USE SessionManagerAssumption
    DEF IndInv, Types, PlaceInv, Tasks, Runtimes, table, sink, ensure_lifecycle_initialized, complete, Goto,
        OpenerPlaces, CloserPlaces, CreatorPlaces, Creating, Failing, Discarding,
        Released, Admitted
<1>1. Types'
  OBVIOUS
<1>2. PlaceInv'
  OBVIOUS
<1>3. HolderInv'
  BY DEF HolderInv
<1>4. UnknownInv'
  BY DEF UnknownInv
<1>5. CreationInv'
  BY DEF CreationInv
<1>6. WaitInv'
  BY DEF WaitInv
<1>7. CloseInv'
  BY DEF HolderInv, CloseInv
<1>8. OpenInv'
  BY DEF OpenInv
<1>9. LinkInv'
  BY DEF LinkInv
<1>. QED  BY <1>1, <1>2, <1>3, <1>4, <1>5, <1>6, <1>7, <1>8, <1>9

(* Clearing the table is harmless: the opener's runtime is ready, so either *)
(* the creation has committed or the directory is gone.                    *)
LEMMA OpenFailedKeeps ==
    ASSUME IndInv, NEW o \in Openers, open_failed(o), kind' = kind
    PROVE  IndInv'
<1> USE SessionManagerAssumption
    DEF IndInv, Types, PlaceInv, Tasks, Runtimes, table, sink, open_failed, cleanup_if_unshared, Goto,
        OpenerPlaces, CloserPlaces, CreatorPlaces, Creating, Failing, Discarding,
        Released, Admitted
<1>1. Types'
  OBVIOUS
<1>2. PlaceInv'
  OBVIOUS
<1>3. HolderInv'
  BY DEF HolderInv
<1>4. UnknownInv'
  BY DEF UnknownInv
<1>5. CreationInv'
  BY DEF CreationInv
<1>6. WaitInv'
  BY DEF WaitInv
<1>7. CloseInv'
  BY DEF CloseInv
<1>8. OpenInv'
  BY DEF OpenInv
<1>9. LinkInv'
  BY DEF LinkInv
<1>. QED  BY <1>1, <1>2, <1>3, <1>4, <1>5, <1>6, <1>7, <1>8, <1>9

LEMMA DropSessionKeeps ==
    ASSUME IndInv, NEW o \in Openers, drop_session(o), kind' = kind
    PROVE  IndInv'
<1> USE SessionManagerAssumption
    DEF IndInv, Types, PlaceInv, Tasks, Runtimes, table, sink, drop_session, Goto,
        OpenerPlaces, CloserPlaces, CreatorPlaces, Creating, Failing, Discarding,
        Released, Admitted
<1>1. Types'
  OBVIOUS
<1>2. PlaceInv'
  OBVIOUS
<1>3. HolderInv'
  BY DEF HolderInv
<1>4. UnknownInv'
  BY DEF UnknownInv
<1>5. CreationInv'
  BY DEF CreationInv
<1>6. WaitInv'
  BY DEF WaitInv
<1>7. CloseInv'
  BY DEF CloseInv
<1>8. OpenInv'
  BY DEF OpenInv
<1>9. LinkInv'
  BY DEF LinkInv
<1>. QED  BY <1>1, <1>2, <1>3, <1>4, <1>5, <1>6, <1>7, <1>8, <1>9

LEMMA CancelOpenKeeps ==
    ASSUME IndInv, NEW o \in Openers, cancel_open(o), kind' = kind
    PROVE  IndInv'
<1> USE SessionManagerAssumption
    DEF IndInv, Types, PlaceInv, Tasks, Runtimes, table, sink, cancel_open, complete, Goto,
        OpenerPlaces, CloserPlaces, CreatorPlaces, Creating, Failing, Discarding,
        Released, Admitted
<1>1. Types'
  OBVIOUS
<1>2. PlaceInv'
  OBVIOUS
<1>3. HolderInv'
  BY DEF HolderInv
<1>4. UnknownInv'
  BY DEF UnknownInv
<1>5. CreationInv'
  BY DEF CreationInv
<1>6. WaitInv'
  BY DEF WaitInv
<1>7. CloseInv'
  BY DEF CloseInv
<1>8. OpenInv'
  BY DEF OpenInv
<1>9. LinkInv'
  BY DEF LinkInv
<1>. QED  BY <1>1, <1>2, <1>3, <1>4, <1>5, <1>6, <1>7, <1>8, <1>9

---------------------------------------------------------------------------
(* Closers.  Each of them is inside the transition from its first step.    *)
LEMMA BeginSessionTransitionKeeps ==
    ASSUME IndInv, NEW k \in Closers, begin_session_transition(k), kind' = kind
    PROVE  IndInv'
<1> USE SessionManagerAssumption
    DEF IndInv, Types, PlaceInv, Tasks, Runtimes, table, sink, begin_session_transition, begin, Goto, HandedOver,
        OpenerPlaces, CloserPlaces, CreatorPlaces, Creating, Failing, Discarding,
        Released, Admitted
<1>1. Types'
  OBVIOUS
<1>2. PlaceInv'
  OBVIOUS
<1>3. HolderInv'
  BY DEF HolderInv
<1>4. UnknownInv'
  BY DEF UnknownInv
<1>5. CreationInv'
  BY DEF CreationInv
<1>6. WaitInv'
  BY DEF WaitInv
<1>7. CloseInv'
  BY DEF CloseInv
<1>8. OpenInv'
  BY DEF OpenInv
<1>9. LinkInv'
  BY DEF LinkInv
<1>. QED  BY <1>1, <1>2, <1>3, <1>4, <1>5, <1>6, <1>7, <1>8, <1>9

LEMMA EmitSessionShutdownKeeps ==
    ASSUME IndInv, NEW k \in Closers, emit_session_shutdown(k), kind' = kind
    PROVE  IndInv'
<1> USE SessionManagerAssumption
    DEF IndInv, Types, PlaceInv, Tasks, Runtimes, table, sink, emit_session_shutdown, complete, Goto,
        OpenerPlaces, CloserPlaces, CreatorPlaces, Creating, Failing, Discarding,
        Released, Admitted
<1>1. Types'
  OBVIOUS
<1>2. PlaceInv'
  OBVIOUS
<1>3. HolderInv'
  BY DEF HolderInv
<1>4. UnknownInv'
  BY DEF UnknownInv
<1>5. CreationInv'
  BY DEF CreationInv
<1>6. WaitInv'
  BY DEF WaitInv
<1>7. CloseInv'
  BY DEF CloseInv
<1>8. OpenInv'
  BY DEF OpenInv
<1>9. LinkInv'
  BY DEF LinkInv
<1>. QED  BY <1>1, <1>2, <1>3, <1>4, <1>5, <1>6, <1>7, <1>8, <1>9

(* The lane is released while callers still have the session open.         *)
LEMMA ReleaseKeeps ==
    ASSUME IndInv, NEW k \in Closers, release(k), kind' = kind
    PROVE  IndInv'
<1> USE SessionManagerAssumption
    DEF IndInv, Types, PlaceInv, Tasks, Runtimes, table, sink, release, complete, Goto,
        OpenerPlaces, CloserPlaces, CreatorPlaces, Creating, Failing, Discarding,
        Released, Admitted
<1>1. Types'
  <2>1. disk' \in {"absent", "active", "recycled"}
    OBVIOUS
  <2>2. runtimes' \in 0..MaxRuntimes
    OBVIOUS
  <2>3. entry' \in 0..runtimes'
    OBVIOUS
  <2>4. creation' \in [Runtimes -> {"ready", "pending", "failed"}]
    OBVIOUS
  <2>5. transition' \in Tasks \cup {Nobody}
    OBVIOUS
  <2>6. inactive' \in BOOLEAN /\ quiesced' \in BOOLEAN
    OBVIOUS
  <2>7. guard' \in BOOLEAN /\ link' \in {"none", "running", "settled"}
    OBVIOUS
  <2>8. rt' \in [Tasks -> 0..runtimes']
    OBVIOUS
  <2>9. current' \in SUBSET Tasks
    OBVIOUS
  <2>10. pc' \in [Tasks -> OpenerPlaces \cup CloserPlaces \cup CreatorPlaces]
    OBVIOUS
  <2>. QED  BY <2>1, <2>2, <2>3, <2>4, <2>5, <2>6, <2>7, <2>8, <2>9, <2>10
<1>2. PlaceInv'
  OBVIOUS
<1>3. HolderInv'
  BY DEF HolderInv
<1>4. UnknownInv'
  BY DEF UnknownInv
<1>5. CreationInv'
  BY DEF CreationInv
<1>6. WaitInv'
  BY DEF WaitInv
<1>7. CloseInv'
  BY DEF CloseInv
<1>8. OpenInv'
  BY DEF HolderInv, OpenInv
<1>9. LinkInv'
  BY DEF LinkInv
<1>. QED  BY <1>1, <1>2, <1>3, <1>4, <1>5, <1>6, <1>7, <1>8, <1>9

(* Either the handles of all callers are void or the lane is open again.   *)
LEMMA CloseStoreKeeps ==
    ASSUME IndInv, NEW k \in Closers, close_store(k), kind' = kind
    PROVE  IndInv'
<1> USE SessionManagerAssumption
    DEF IndInv, Types, PlaceInv, Tasks, Runtimes, table, sink, close_store, complete, Goto, Deleted,
        OpenerPlaces, CloserPlaces, CreatorPlaces, Creating, Failing, Discarding,
        Released, Admitted
<1>1. Types'
  <2>1. disk' \in {"absent", "active", "recycled"}
    OBVIOUS
  <2>2. runtimes' \in 0..MaxRuntimes
    OBVIOUS
  <2>3. entry' \in 0..runtimes'
    OBVIOUS
  <2>4. creation' \in [Runtimes -> {"ready", "pending", "failed"}]
    OBVIOUS
  <2>5. transition' \in Tasks \cup {Nobody}
    OBVIOUS
  <2>6. inactive' \in BOOLEAN /\ quiesced' \in BOOLEAN
    OBVIOUS
  <2>7. guard' \in BOOLEAN /\ link' \in {"none", "running", "settled"}
    OBVIOUS
  <2>8. rt' \in [Tasks -> 0..runtimes']
    OBVIOUS
  <2>9. current' \in SUBSET Tasks
    OBVIOUS
  <2>10. pc' \in [Tasks -> OpenerPlaces \cup CloserPlaces \cup CreatorPlaces]
    OBVIOUS
  <2>. QED  BY <2>1, <2>2, <2>3, <2>4, <2>5, <2>6, <2>7, <2>8, <2>9, <2>10
<1>2. PlaceInv'
  OBVIOUS
<1>3. HolderInv'
  BY DEF HolderInv
<1>4. UnknownInv'
  BY DEF UnknownInv
<1>5. CreationInv'
  BY DEF CreationInv
<1>6. WaitInv'
  BY DEF WaitInv
<1>7. CloseInv'
  BY DEF CloseInv
<1>8. OpenInv'
  BY DEF HolderInv, OpenInv
<1>9. LinkInv'
  BY DEF LinkInv
<1>. QED  BY <1>1, <1>2, <1>3, <1>4, <1>5, <1>6, <1>7, <1>8, <1>9

(* The table is cleared only once the directory is gone.                   *)
LEMMA CloseCleanupKeeps ==
    ASSUME IndInv, NEW k \in Closers, close_cleanup(k), kind' = kind
    PROVE  IndInv'
<1> USE SessionManagerAssumption
    DEF IndInv, Types, PlaceInv, Tasks, Runtimes, table, sink, close_cleanup, complete, Goto,
        OpenerPlaces, CloserPlaces, CreatorPlaces, Creating, Failing, Discarding,
        Released, Admitted
<1>1. Types'
  <2>1. disk' \in {"absent", "active", "recycled"}
    OBVIOUS
  <2>2. runtimes' \in 0..MaxRuntimes
    OBVIOUS
  <2>3. entry' \in 0..runtimes'
    OBVIOUS
  <2>4. creation' \in [Runtimes -> {"ready", "pending", "failed"}]
    OBVIOUS
  <2>5. transition' \in Tasks \cup {Nobody}
    OBVIOUS
  <2>6. inactive' \in BOOLEAN /\ quiesced' \in BOOLEAN
    OBVIOUS
  <2>7. guard' \in BOOLEAN /\ link' \in {"none", "running", "settled"}
    OBVIOUS
  <2>8. rt' \in [Tasks -> 0..runtimes']
    OBVIOUS
  <2>9. current' \in SUBSET Tasks
    OBVIOUS
  <2>10. pc' \in [Tasks -> OpenerPlaces \cup CloserPlaces \cup CreatorPlaces]
    OBVIOUS
  <2>. QED  BY <2>1, <2>2, <2>3, <2>4, <2>5, <2>6, <2>7, <2>8, <2>9, <2>10
<1>2. PlaceInv'
  OBVIOUS
<1>3. HolderInv'
  BY DEF HolderInv
<1>4. UnknownInv'
  BY DEF UnknownInv
<1>5. CreationInv'
  BY DEF CreationInv
<1>6. WaitInv'
  BY DEF WaitInv, CloseInv
<1>7. CloseInv'
  BY DEF CloseInv
<1>8. OpenInv'
  BY DEF OpenInv
<1>9. LinkInv'
  BY DEF LinkInv
<1>. QED  BY <1>1, <1>2, <1>3, <1>4, <1>5, <1>6, <1>7, <1>8, <1>9

LEMMA RestoreSessionKeeps ==
    ASSUME IndInv, NEW k \in Closers, restore_session(k), kind' = kind
    PROVE  IndInv'
<1> USE SessionManagerAssumption
    DEF IndInv, Types, PlaceInv, Tasks, Runtimes, table, sink, restore_session, complete, Goto,
        OpenerPlaces, CloserPlaces, CreatorPlaces, Creating, Failing, Discarding,
        Released, Admitted
<1>1. Types'
  OBVIOUS
<1>2. PlaceInv'
  OBVIOUS
<1>3. HolderInv'
  BY DEF HolderInv
<1>4. UnknownInv'
  BY DEF UnknownInv
<1>5. CreationInv'
  BY DEF CreationInv
<1>6. WaitInv'
  BY DEF CreationInv, WaitInv
<1>7. CloseInv'
  BY DEF HolderInv, CreationInv, CloseInv
<1>8. OpenInv'
  BY DEF OpenInv
<1>9. LinkInv'
  BY DEF LinkInv
<1>. QED  BY <1>1, <1>2, <1>3, <1>4, <1>5, <1>6, <1>7, <1>8, <1>9

---------------------------------------------------------------------------
(* The creation transaction.                                               *)
LEMMA BeginCreationKeeps ==
    ASSUME IndInv, begin_creation, kind' = kind
    PROVE  IndInv'
<1> USE SessionManagerAssumption
    DEF IndInv, Types, PlaceInv, Tasks, Runtimes, table, sink, begin_creation, runtime_for, Goto,
        OpenerPlaces, CloserPlaces, CreatorPlaces, Creating, Failing, Discarding,
        Released, Admitted
<1>1. Types'
  OBVIOUS
<1>2. PlaceInv'
  OBVIOUS
<1>3. HolderInv'
  BY DEF HolderInv
<1>4. UnknownInv'
  BY DEF UnknownInv
<1>5. CreationInv'
  BY DEF UnknownInv, CreationInv
<1>6. WaitInv'
  BY DEF UnknownInv, WaitInv
<1>7. CloseInv'
  BY DEF CloseInv
<1>8. OpenInv'
  BY DEF OpenInv
<1>9. LinkInv'
  BY DEF LinkInv
<1>. QED  BY <1>1, <1>2, <1>3, <1>4, <1>5, <1>6, <1>7, <1>8, <1>9

LEMMA CreateWithParamsKeeps ==
    ASSUME IndInv, create_with_params, kind' = kind
    PROVE  IndInv'
<1> USE SessionManagerAssumption
    DEF IndInv, Types, PlaceInv, Tasks, Runtimes, table, sink, create_with_params, Goto,
        OpenerPlaces, CloserPlaces, CreatorPlaces, Creating, Failing, Discarding,
        Released, Admitted
<1>1. Types'
  OBVIOUS
<1>2. PlaceInv'
  OBVIOUS
<1>3. HolderInv'
  BY DEF HolderInv
<1>4. UnknownInv'
  BY DEF UnknownInv
<1>5. CreationInv'
  BY DEF CreationInv
<1>6. WaitInv'
  BY DEF UnknownInv, WaitInv
<1>7. CloseInv'
  BY DEF UnknownInv, CloseInv
<1>8. OpenInv'
  BY DEF CreationInv, WaitInv, OpenInv
<1>9. LinkInv'
  BY DEF LinkInv
<1>. QED  BY <1>1, <1>2, <1>3, <1>4, <1>5, <1>6, <1>7, <1>8, <1>9

LEMMA EmitForkedKeeps ==
    ASSUME IndInv, emit_forked, kind' = kind
    PROVE  IndInv'
<1> USE SessionManagerAssumption
    DEF IndInv, Types, PlaceInv, Tasks, Runtimes, table, sink, emit_forked, Goto,
        OpenerPlaces, CloserPlaces, CreatorPlaces, Creating, Failing, Discarding,
        Released, Admitted
<1>1. Types'
  OBVIOUS
<1>2. PlaceInv'
  OBVIOUS
<1>3. HolderInv'
  BY DEF HolderInv
<1>4. UnknownInv'
  BY DEF UnknownInv
<1>5. CreationInv'
  BY DEF CreationInv
<1>6. WaitInv'
  BY DEF WaitInv
<1>7. CloseInv'
  BY DEF CloseInv
<1>8. OpenInv'
  BY DEF OpenInv
<1>9. LinkInv'
  BY DEF LinkInv
<1>. QED  BY <1>1, <1>2, <1>3, <1>4, <1>5, <1>6, <1>7, <1>8, <1>9

LEMMA StartHooksKeeps ==
    ASSUME IndInv, start_hooks, kind' = kind
    PROVE  IndInv'
<1> USE SessionManagerAssumption
    DEF IndInv, Types, PlaceInv, Tasks, Runtimes, table, sink, start_hooks, Goto,
        OpenerPlaces, CloserPlaces, CreatorPlaces, Creating, Failing, Discarding,
        Released, Admitted
<1>1. Types'
  OBVIOUS
<1>2. PlaceInv'
  OBVIOUS
<1>3. HolderInv'
  BY DEF HolderInv
<1>4. UnknownInv'
  BY DEF UnknownInv
<1>5. CreationInv'
  BY DEF CreationInv
<1>6. WaitInv'
  BY DEF WaitInv
<1>7. CloseInv'
  BY DEF CloseInv
<1>8. OpenInv'
  BY DEF OpenInv
<1>9. LinkInv'
  BY DEF LinkInv
<1>. QED  BY <1>1, <1>2, <1>3, <1>4, <1>5, <1>6, <1>7, <1>8, <1>9

LEMMA SyncDurableEventsKeeps ==
    ASSUME IndInv, sync_durable_events, kind' = kind
    PROVE  IndInv'
<1> USE SessionManagerAssumption
    DEF IndInv, Types, PlaceInv, Tasks, Runtimes, table, sink, sync_durable_events, Goto,
        OpenerPlaces, CloserPlaces, CreatorPlaces, Creating, Failing, Discarding,
        Released, Admitted
<1>1. Types'
  OBVIOUS
<1>2. PlaceInv'
  OBVIOUS
<1>3. HolderInv'
  BY DEF HolderInv
<1>4. UnknownInv'
  BY DEF UnknownInv
<1>5. CreationInv'
  BY DEF CreationInv
<1>6. WaitInv'
  BY DEF WaitInv
<1>7. CloseInv'
  BY DEF CloseInv
<1>8. OpenInv'
  BY DEF OpenInv
<1>9. LinkInv'
  BY DEF LinkInv
<1>. QED  BY <1>1, <1>2, <1>3, <1>4, <1>5, <1>6, <1>7, <1>8, <1>9

LEMMA EmitSpawnedKeeps ==
    ASSUME IndInv, emit_spawned, kind' = kind
    PROVE  IndInv'
<1> USE SessionManagerAssumption
    DEF IndInv, Types, PlaceInv, Tasks, Runtimes, table, sink, emit_spawned, Goto,
        OpenerPlaces, CloserPlaces, CreatorPlaces, Creating, Failing, Discarding,
        Released, Admitted
<1>1. Types'
  OBVIOUS
<1>2. PlaceInv'
  OBVIOUS
<1>3. HolderInv'
  BY DEF HolderInv
<1>4. UnknownInv'
  BY DEF UnknownInv
<1>5. CreationInv'
  BY DEF CreationInv
<1>6. WaitInv'
  BY DEF WaitInv
<1>7. CloseInv'
  BY DEF CloseInv
<1>8. OpenInv'
  BY DEF OpenInv
<1>9. LinkInv'
  BY DEF LinkInv
<1>. QED  BY <1>1, <1>2, <1>3, <1>4, <1>5, <1>6, <1>7, <1>8, <1>9

LEMMA SyncParentKeeps ==
    ASSUME IndInv, sync_parent, kind' = kind
    PROVE  IndInv'
<1> USE SessionManagerAssumption
    DEF IndInv, Types, PlaceInv, Tasks, Runtimes, table, sink, sync_parent, Goto,
        OpenerPlaces, CloserPlaces, CreatorPlaces, Creating, Failing, Discarding,
        Released, Admitted
<1>1. Types'
  OBVIOUS
<1>2. PlaceInv'
  OBVIOUS
<1>3. HolderInv'
  BY DEF HolderInv
<1>4. UnknownInv'
  BY DEF UnknownInv
<1>5. CreationInv'
  BY DEF CreationInv
<1>6. WaitInv'
  BY DEF WaitInv
<1>7. CloseInv'
  BY DEF CloseInv
<1>8. OpenInv'
  BY DEF OpenInv
<1>9. LinkInv'
  BY DEF LinkInv
<1>. QED  BY <1>1, <1>2, <1>3, <1>4, <1>5, <1>6, <1>7, <1>8, <1>9

(* Runtime 1 becomes ready; its waiters are admitted.                      *)
LEMMA CommitCreationKeeps ==
    ASSUME IndInv, commit_creation, kind' = kind
    PROVE  IndInv'
<1> USE SessionManagerAssumption
    DEF IndInv, Types, PlaceInv, Tasks, Runtimes, table, sink, commit_creation, Goto,
        OpenerPlaces, CloserPlaces, CreatorPlaces, Creating, Failing, Discarding,
        Released, Admitted
<1>1. Types'
  OBVIOUS
<1>2. PlaceInv'
  OBVIOUS
<1>3. HolderInv'
  BY DEF HolderInv
<1>4. UnknownInv'
  BY DEF UnknownInv
<1>5. CreationInv'
  BY DEF CreationInv
<1>6. WaitInv'
  BY DEF WaitInv
<1>7. CloseInv'
  BY DEF CloseInv
<1>8. OpenInv'
  BY DEF OpenInv
<1>9. LinkInv'
  BY DEF LinkInv
<1>. QED  BY <1>1, <1>2, <1>3, <1>4, <1>5, <1>6, <1>7, <1>8, <1>9

LEMMA PanicKeeps ==
    ASSUME IndInv, panic, kind' = kind
    PROVE  IndInv'
<1> USE SessionManagerAssumption
    DEF IndInv, Types, PlaceInv, Tasks, Runtimes, table, sink, panic, Goto,
        OpenerPlaces, CloserPlaces, CreatorPlaces, Creating, Failing, Discarding,
        Released, Admitted
<1>1. Types'
  <2>1. disk' \in {"absent", "active", "recycled"}
    OBVIOUS
  <2>2. runtimes' \in 0..MaxRuntimes
    OBVIOUS
  <2>3. entry' \in 0..runtimes'
    OBVIOUS
  <2>4. creation' \in [Runtimes -> {"ready", "pending", "failed"}]
    OBVIOUS
  <2>5. transition' \in Tasks \cup {Nobody}
    OBVIOUS
  <2>6. inactive' \in BOOLEAN /\ quiesced' \in BOOLEAN
    OBVIOUS
  <2>7. guard' \in BOOLEAN /\ link' \in {"none", "running", "settled"}
    OBVIOUS
  <2>8. rt' \in [Tasks -> 0..runtimes']
    OBVIOUS
  <2>9. current' \in SUBSET Tasks
    OBVIOUS
  <2>10. pc' \in [Tasks -> OpenerPlaces \cup CloserPlaces \cup CreatorPlaces]
    OBVIOUS
  <2>. QED  BY <2>1, <2>2, <2>3, <2>4, <2>5, <2>6, <2>7, <2>8, <2>9, <2>10
<1>2. PlaceInv'
  OBVIOUS
<1>3. HolderInv'
  BY DEF HolderInv
<1>4. UnknownInv'
  BY DEF UnknownInv
<1>5. CreationInv'
  BY DEF CreationInv
<1>6. WaitInv'
  BY DEF UnknownInv, CreationInv, WaitInv
<1>7. CloseInv'
  BY DEF UnknownInv, CloseInv
<1>8. OpenInv'
  BY DEF OpenInv
<1>9. LinkInv'
  BY DEF LinkInv
<1>. QED  BY <1>1, <1>2, <1>3, <1>4, <1>5, <1>6, <1>7, <1>8, <1>9

(* After a panic the guard is gone, and a runtime looked up anew is not    *)
(* one that openers of an existing directory use.                          *)
LEMMA CompensatePanickedCreationKeeps ==
    ASSUME IndInv, compensate_panicked_creation, kind' = kind
    PROVE  IndInv'
<1> USE SessionManagerAssumption
    DEF IndInv, Types, PlaceInv, Tasks, Runtimes, table, sink, compensate_panicked_creation, runtime_for, Goto,
        OpenerPlaces, CloserPlaces, CreatorPlaces, Creating, Failing, Discarding,
        Released, Admitted
<1>1. Types'
  OBVIOUS
<1>2. PlaceInv'
  <2>1. PICK p \in {"settle", "shutdown", "discard"} : pc' = [pc EXCEPT ![Creator] = p]
    OBVIOUS
  <2>. QED  BY <2>1
<1>3. HolderInv'
  BY DEF HolderInv
<1>4. UnknownInv'
  BY DEF UnknownInv
<1>5. CreationInv'
  BY DEF CreationInv
<1>6. WaitInv'
  BY DEF WaitInv
<1>7. CloseInv'
  BY DEF CloseInv
<1>8. OpenInv'
  BY DEF OpenInv
<1>9. LinkInv'
  BY DEF LinkInv
<1>. QED  BY <1>1, <1>2, <1>3, <1>4, <1>5, <1>6, <1>7, <1>8, <1>9

LEMMA SettleParentLinkKeeps ==
    ASSUME IndInv, settle_parent_link, kind' = kind
    PROVE  IndInv'
<1> USE SessionManagerAssumption
    DEF IndInv, Types, PlaceInv, Tasks, Runtimes, table, sink, settle_parent_link, Goto,
        OpenerPlaces, CloserPlaces, CreatorPlaces, Creating, Failing, Discarding,
        Released, Admitted
<1>1. Types'
  OBVIOUS
<1>2. PlaceInv'
  OBVIOUS
<1>3. HolderInv'
  BY DEF HolderInv
<1>4. UnknownInv'
  BY DEF UnknownInv
<1>5. CreationInv'
  BY DEF CreationInv
<1>6. WaitInv'
  BY DEF WaitInv
<1>7. CloseInv'
  BY DEF CloseInv
<1>8. OpenInv'
  BY DEF OpenInv
<1>9. LinkInv'
  BY DEF LinkInv
<1>. QED  BY <1>1, <1>2, <1>3, <1>4, <1>5, <1>6, <1>7, <1>8, <1>9

LEMMA DiscardFailedLifecycleStartKeeps ==
    ASSUME IndInv, discard_failed_lifecycle_start, kind' = kind
    PROVE  IndInv'
<1> USE SessionManagerAssumption
    DEF IndInv, Types, PlaceInv, Tasks, Runtimes, table, sink, discard_failed_lifecycle_start, Goto,
        OpenerPlaces, CloserPlaces, CreatorPlaces, Creating, Failing, Discarding,
        Released, Admitted
<1>1. Types'
  OBVIOUS
<1>2. PlaceInv'
  OBVIOUS
<1>3. HolderInv'
  BY DEF HolderInv
<1>4. UnknownInv'
  BY DEF UnknownInv
<1>5. CreationInv'
  BY DEF CreationInv
<1>6. WaitInv'
  BY DEF WaitInv
<1>7. CloseInv'
  BY DEF CloseInv
<1>8. OpenInv'
  BY DEF OpenInv
<1>9. LinkInv'
  BY DEF LinkInv
<1>. QED  BY <1>1, <1>2, <1>3, <1>4, <1>5, <1>6, <1>7, <1>8, <1>9

LEMMA DiscardFailedCreationKeeps ==
    ASSUME IndInv, discard_failed_creation, kind' = kind
    PROVE  IndInv'
<1> USE SessionManagerAssumption
    DEF IndInv, Types, PlaceInv, Tasks, Runtimes, table, sink, discard_failed_creation, begin, Goto,
        OpenerPlaces, CloserPlaces, CreatorPlaces, Creating, Failing, Discarding,
        Released, Admitted
<1>1. Types'
  OBVIOUS
<1>2. PlaceInv'
  OBVIOUS
<1>3. HolderInv'
  BY DEF HolderInv
<1>4. UnknownInv'
  BY DEF UnknownInv
<1>5. CreationInv'
  BY DEF CreationInv
<1>6. WaitInv'
  BY DEF WaitInv
<1>7. CloseInv'
  BY DEF CloseInv
<1>8. OpenInv'
  BY DEF OpenInv
<1>9. LinkInv'
  BY DEF LinkInv
<1>. QED  BY <1>1, <1>2, <1>3, <1>4, <1>5, <1>6, <1>7, <1>8, <1>9

(* A child is released without the transition: nobody has it open, because *)
(* its runtime is not ready.                                               *)
LEMMA DiscardReleaseKeeps ==
    ASSUME IndInv, discard_release, kind' = kind
    PROVE  IndInv'
<1> USE SessionManagerAssumption
    DEF IndInv, Types, PlaceInv, Tasks, Runtimes, table, sink, discard_release, complete, Goto,
        OpenerPlaces, CloserPlaces, CreatorPlaces, Creating, Failing, Discarding,
        Released, Admitted
<1>1. Types'
  <2>1. disk' \in {"absent", "active", "recycled"}
    OBVIOUS
  <2>2. runtimes' \in 0..MaxRuntimes
    OBVIOUS
  <2>3. entry' \in 0..runtimes'
    OBVIOUS
  <2>4. creation' \in [Runtimes -> {"ready", "pending", "failed"}]
    OBVIOUS
  <2>5. transition' \in Tasks \cup {Nobody}
    OBVIOUS
  <2>6. inactive' \in BOOLEAN /\ quiesced' \in BOOLEAN
    OBVIOUS
  <2>7. guard' \in BOOLEAN /\ link' \in {"none", "running", "settled"}
    OBVIOUS
  <2>8. rt' \in [Tasks -> 0..runtimes']
    OBVIOUS
  <2>9. current' \in SUBSET Tasks
    OBVIOUS
  <2>10. pc' \in [Tasks -> OpenerPlaces \cup CloserPlaces \cup CreatorPlaces]
    OBVIOUS
  <2>. QED  BY <2>1, <2>2, <2>3, <2>4, <2>5, <2>6, <2>7, <2>8, <2>9, <2>10
<1>2. PlaceInv'
  OBVIOUS
<1>3. HolderInv'
  BY DEF HolderInv
<1>4. UnknownInv'
  BY DEF UnknownInv
<1>5. CreationInv'
  BY DEF CreationInv
<1>6. WaitInv'
  BY DEF WaitInv
<1>7. CloseInv'
  BY DEF CloseInv
<1>8. OpenInv'
  BY DEF CreationInv, WaitInv, OpenInv
<1>9. LinkInv'
  BY DEF LinkInv
<1>. QED  BY <1>1, <1>2, <1>3, <1>4, <1>5, <1>6, <1>7, <1>8, <1>9

LEMMA DiscardStoreKeeps ==
    ASSUME IndInv, discard_store, kind' = kind
    PROVE  IndInv'
<1> USE SessionManagerAssumption
    DEF IndInv, Types, PlaceInv, Tasks, Runtimes, table, sink, discard_store, complete, Goto, Deleted,
        OpenerPlaces, CloserPlaces, CreatorPlaces, Creating, Failing, Discarding,
        Released, Admitted
<1>1. Types'
  <2>1. disk' \in {"absent", "active", "recycled"}
    OBVIOUS
  <2>2. runtimes' \in 0..MaxRuntimes
    OBVIOUS
  <2>3. entry' \in 0..runtimes'
    OBVIOUS
  <2>4. creation' \in [Runtimes -> {"ready", "pending", "failed"}]
    OBVIOUS
  <2>5. transition' \in Tasks \cup {Nobody}
    OBVIOUS
  <2>6. inactive' \in BOOLEAN /\ quiesced' \in BOOLEAN
    OBVIOUS
  <2>7. guard' \in BOOLEAN /\ link' \in {"none", "running", "settled"}
    OBVIOUS
  <2>8. rt' \in [Tasks -> 0..runtimes']
    OBVIOUS
  <2>9. current' \in SUBSET Tasks
    OBVIOUS
  <2>10. pc' \in [Tasks -> OpenerPlaces \cup CloserPlaces \cup CreatorPlaces]
    OBVIOUS
  <2>. QED  BY <2>1, <2>2, <2>3, <2>4, <2>5, <2>6, <2>7, <2>8, <2>9, <2>10
<1>2. PlaceInv'
  OBVIOUS
<1>3. HolderInv'
  BY DEF HolderInv
<1>4. UnknownInv'
  BY DEF UnknownInv
<1>5. CreationInv'
  BY DEF CreationInv
<1>6. WaitInv'
  BY DEF WaitInv
<1>7. CloseInv'
  BY DEF CloseInv
<1>8. OpenInv'
  BY DEF CreationInv, WaitInv, OpenInv
<1>9. LinkInv'
  BY DEF LinkInv
<1>. QED  BY <1>1, <1>2, <1>3, <1>4, <1>5, <1>6, <1>7, <1>8, <1>9

LEMMA DiscardCleanupKeeps ==
    ASSUME IndInv, discard_cleanup, kind' = kind
    PROVE  IndInv'
<1> USE SessionManagerAssumption
    DEF IndInv, Types, PlaceInv, Tasks, Runtimes, table, sink, discard_cleanup, complete, Goto,
        OpenerPlaces, CloserPlaces, CreatorPlaces, Creating, Failing, Discarding,
        Released, Admitted
<1>1. Types'
  OBVIOUS
<1>2. PlaceInv'
  OBVIOUS
<1>3. HolderInv'
  BY DEF HolderInv
<1>4. UnknownInv'
  BY DEF UnknownInv
<1>5. CreationInv'
  BY DEF CreationInv
<1>6. WaitInv'
  BY DEF WaitInv, CloseInv
<1>7. CloseInv'
  BY DEF CloseInv
<1>8. OpenInv'
  BY DEF OpenInv
<1>9. LinkInv'
  BY DEF LinkInv
<1>. QED  BY <1>1, <1>2, <1>3, <1>4, <1>5, <1>6, <1>7, <1>8, <1>9

(* A guard that is still held marks runtime 1 failed.                      *)
LEMMA UnwindKeeps ==
    ASSUME IndInv, unwind, kind' = kind
    PROVE  IndInv'
<1> USE SessionManagerAssumption
    DEF IndInv, Types, PlaceInv, Tasks, Runtimes, table, sink, unwind, Goto,
        OpenerPlaces, CloserPlaces, CreatorPlaces, Creating, Failing, Discarding,
        Released, Admitted
<1>1. Types'
  <2>1. disk' \in {"absent", "active", "recycled"}
    OBVIOUS
  <2>2. runtimes' \in 0..MaxRuntimes
    OBVIOUS
  <2>3. entry' \in 0..runtimes'
    OBVIOUS
  <2>4. creation' \in [Runtimes -> {"ready", "pending", "failed"}]
    OBVIOUS
  <2>5. transition' \in Tasks \cup {Nobody}
    OBVIOUS
  <2>6. inactive' \in BOOLEAN /\ quiesced' \in BOOLEAN
    OBVIOUS
  <2>7. guard' \in BOOLEAN /\ link' \in {"none", "running", "settled"}
    OBVIOUS
  <2>8. rt' \in [Tasks -> 0..runtimes']
    OBVIOUS
  <2>9. current' \in SUBSET Tasks
    OBVIOUS
  <2>10. pc' \in [Tasks -> OpenerPlaces \cup CloserPlaces \cup CreatorPlaces]
    OBVIOUS
  <2>. QED  BY <2>1, <2>2, <2>3, <2>4, <2>5, <2>6, <2>7, <2>8, <2>9, <2>10
<1>2. PlaceInv'
  OBVIOUS
<1>3. HolderInv'
  BY DEF HolderInv
<1>4. UnknownInv'
  BY DEF UnknownInv
<1>5. CreationInv'
  BY DEF CreationInv
<1>6. WaitInv'
  BY DEF CreationInv, WaitInv
<1>7. CloseInv'
  BY DEF CloseInv
<1>8. OpenInv'
  BY DEF OpenInv
<1>9. LinkInv'
  BY DEF LinkInv
<1>. QED  BY <1>1, <1>2, <1>3, <1>4, <1>5, <1>6, <1>7, <1>8, <1>9

LEMMA DropCreatedKeeps ==
    ASSUME IndInv, drop_created, kind' = kind
    PROVE  IndInv'
<1> USE SessionManagerAssumption
    DEF IndInv, Types, PlaceInv, Tasks, Runtimes, table, sink, drop_created, Goto,
        OpenerPlaces, CloserPlaces, CreatorPlaces, Creating, Failing, Discarding,
        Released, Admitted
<1>1. Types'
  OBVIOUS
<1>2. PlaceInv'
  OBVIOUS
<1>3. HolderInv'
  BY DEF HolderInv
<1>4. UnknownInv'
  BY DEF UnknownInv
<1>5. CreationInv'
  BY DEF CreationInv
<1>6. WaitInv'
  BY DEF WaitInv
<1>7. CloseInv'
  BY DEF CloseInv
<1>8. OpenInv'
  BY DEF OpenInv
<1>9. LinkInv'
  BY DEF LinkInv
<1>. QED  BY <1>1, <1>2, <1>3, <1>4, <1>5, <1>6, <1>7, <1>8, <1>9

---------------------------------------------------------------------------
(* The invariant and the properties.                                       *)

LEMMA InitInv == Init => IndInv
<1> SUFFICES ASSUME Init PROVE IndInv
  OBVIOUS
<1> USE SessionManagerAssumption DEF Init, Tasks, Runtimes, OpenerPlaces, CloserPlaces,
        CreatorPlaces, Creating, Failing, Discarding, Released, Admitted
<1>1. Types
  <2>1. creation \in [Runtimes -> {"ready", "pending", "failed"}]
    OBVIOUS
  <2>2. runtimes \in 0..MaxRuntimes /\ entry \in 0..runtimes /\ rt \in [Tasks -> 0..runtimes]
    OBVIOUS
  <2>3. pc \in [Tasks -> OpenerPlaces \cup CloserPlaces \cup CreatorPlaces]
    OBVIOUS
  <2>4. transition \in Tasks \cup {Nobody} /\ current \in SUBSET Tasks
    OBVIOUS
  <2>. QED  BY <2>1, <2>2, <2>3, <2>4 DEF Types
<1>2. PlaceInv /\ HolderInv
  BY DEF PlaceInv, HolderInv
<1>3. UnknownInv /\ CreationInv
  BY DEF UnknownInv, CreationInv
<1>4. WaitInv /\ CloseInv
  BY DEF WaitInv, CloseInv
<1>5. OpenInv /\ LinkInv
  BY DEF OpenInv, LinkInv
<1>. QED  BY <1>1, <1>2, <1>3, <1>4, <1>5 DEF IndInv

LEMMA NextInv == IndInv /\ [Next]_vars => IndInv'
<1> SUFFICES ASSUME IndInv, [Next]_vars PROVE IndInv'
  OBVIOUS
<1>1. ASSUME NEW o \in Openers, OpenerStep(o) PROVE IndInv'
  <2>1. CASE open(o)
    BY <1>1, <2>1, OpenKeeps DEF OpenerStep
  <2>2. CASE wait_for_creation(o)
    BY <1>1, <2>2, WaitForCreationKeeps DEF OpenerStep
  <2>3. CASE begin_open(o)
    BY <1>1, <2>3, BeginOpenKeeps DEF OpenerStep
  <2>4. CASE store_open(o)
    BY <1>1, <2>4, StoreOpenKeeps DEF OpenerStep
  <2>5. CASE ensure_lifecycle_initialized(o)
    BY <1>1, <2>5, EnsureLifecycleInitializedKeeps DEF OpenerStep
  <2>6. CASE open_failed(o)
    BY <1>1, <2>6, OpenFailedKeeps DEF OpenerStep
  <2>7. CASE drop_session(o)
    BY <1>1, <2>7, DropSessionKeeps DEF OpenerStep
  <2>8. CASE cancel_open(o)
    BY <1>1, <2>8, CancelOpenKeeps DEF OpenerStep
  <2>. QED  BY <1>1, <2>1, <2>2, <2>3, <2>4, <2>5, <2>6, <2>7, <2>8 DEF OpenerStep
<1>2. ASSUME NEW k \in Closers, CloserStep(k) PROVE IndInv'
  <2>1. CASE begin_session_transition(k)
    BY <1>2, <2>1, BeginSessionTransitionKeeps DEF CloserStep
  <2>2. CASE emit_session_shutdown(k)
    BY <1>2, <2>2, EmitSessionShutdownKeeps DEF CloserStep
  <2>3. CASE release(k)
    BY <1>2, <2>3, ReleaseKeeps DEF CloserStep
  <2>4. CASE close_store(k)
    BY <1>2, <2>4, CloseStoreKeeps DEF CloserStep
  <2>5. CASE close_cleanup(k)
    BY <1>2, <2>5, CloseCleanupKeeps DEF CloserStep
  <2>6. CASE restore_session(k)
    BY <1>2, <2>6, RestoreSessionKeeps DEF CloserStep
  <2>. QED  BY <1>2, <2>1, <2>2, <2>3, <2>4, <2>5, <2>6 DEF CloserStep
<1>3. CASE CreationStep
  <2>1. CASE begin_creation
    BY <1>3, <2>1, BeginCreationKeeps DEF CreationStep
  <2>2. CASE create_with_params
    BY <1>3, <2>2, CreateWithParamsKeeps DEF CreationStep
  <2>3. CASE emit_forked
    BY <1>3, <2>3, EmitForkedKeeps DEF CreationStep
  <2>4. CASE start_hooks
    BY <1>3, <2>4, StartHooksKeeps DEF CreationStep
  <2>5. CASE sync_durable_events
    BY <1>3, <2>5, SyncDurableEventsKeeps DEF CreationStep
  <2>6. CASE emit_spawned
    BY <1>3, <2>6, EmitSpawnedKeeps DEF CreationStep
  <2>7. CASE sync_parent
    BY <1>3, <2>7, SyncParentKeeps DEF CreationStep
  <2>8. CASE commit_creation
    BY <1>3, <2>8, CommitCreationKeeps DEF CreationStep
  <2>9. CASE panic
    BY <1>3, <2>9, PanicKeeps DEF CreationStep
  <2>10. CASE compensate_panicked_creation
    BY <1>3, <2>10, CompensatePanickedCreationKeeps DEF CreationStep
  <2>11. CASE settle_parent_link
    BY <1>3, <2>11, SettleParentLinkKeeps DEF CreationStep
  <2>12. CASE discard_failed_lifecycle_start
    BY <1>3, <2>12, DiscardFailedLifecycleStartKeeps DEF CreationStep
  <2>13. CASE discard_failed_creation
    BY <1>3, <2>13, DiscardFailedCreationKeeps DEF CreationStep
  <2>14. CASE discard_release
    BY <1>3, <2>14, DiscardReleaseKeeps DEF CreationStep
  <2>15. CASE discard_store
    BY <1>3, <2>15, DiscardStoreKeeps DEF CreationStep
  <2>16. CASE discard_cleanup
    BY <1>3, <2>16, DiscardCleanupKeeps DEF CreationStep
  <2>17. CASE unwind
    BY <1>3, <2>17, UnwindKeeps DEF CreationStep
  <2>18. CASE drop_created
    BY <1>3, <2>18, DropCreatedKeeps DEF CreationStep
  <2>. QED  BY <1>3, <2>1, <2>2, <2>3, <2>4, <2>5, <2>6, <2>7, <2>8, <2>9, <2>10, <2>11, <2>12, <2>13, <2>14, <2>15, <2>16, <2>17, <2>18 DEF CreationStep
<1>4. CASE UNCHANGED vars
  BY <1>4 DEF vars, IndInv, Types, PlaceInv, HolderInv, UnknownInv, CreationInv, WaitInv,
              CloseInv, OpenInv, LinkInv
<1>. QED  BY <1>1, <1>2, <1>3, <1>4 DEF Next

(* Every state that the life cycle of a session reaches satisfies the      *)
(* invariant.                                                              *)
THEOREM ManagerInvariant == Spec => []IndInv
BY InitInv, NextInv, PTL DEF Spec

(* A session that somebody refers to is there: what open handed out since  *)
(* the last close is on disk and its creation committed, and a child whose *)
(* creation is compensated is deleted only when its parent does not list   *)
(* it as running.                                                          *)
THEOREM ReferencedIsThereAlways == Spec => []ReferencedIsThere
<1>1. IndInv => ReferencedIsThere
  <2> SUFFICES ASSUME IndInv PROVE ReferencedIsThere
    OBVIOUS
  <2>1. ASSUME NEW o \in Openers \cap current
        PROVE  disk = "active" /\ creation[rt[o]] = "ready"
    BY <2>1 DEF IndInv, OpenInv, WaitInv, Admitted
  <2>2. pc[Creator] \in {"discard_disk", "discard_forget"} => link # "running"
    BY DEF IndInv, LinkInv
  <2>. QED  BY <2>1, <2>2 DEF ReferencedIsThere
<1>. QED  BY ManagerInvariant, <1>1, PTL

(* With no transition in progress custom-event admission is open, and a    *)
(* session that a caller has open takes events, whichever step of a close  *)
(* or of a compensation failed on the way.                                 *)
THEOREM OpenTakesEventsAlways == Spec => []OpenTakesEvents
<1>1. IndInv => OpenTakesEvents
  <2> SUFFICES ASSUME IndInv, transition = Nobody
               PROVE  ~quiesced /\ (current \cap Openers # {} => ~inactive)
    BY DEF OpenTakesEvents
  <2>1. \A k \in Closers : pc[k] = "idle"
    BY SessionManagerAssumption DEF IndInv, HolderInv
  <2>2. ~quiesced
    BY <2>1, SessionManagerAssumption DEF IndInv, HolderInv, CloseInv, Released, Discarding
  <2>3. ASSUME NEW o \in current \cap Openers PROVE ~inactive
    BY <2>1, <2>3 DEF IndInv, OpenInv
  <2>. QED  BY <2>2, <2>3
<1>. QED  BY ManagerInvariant, <1>1, PTL

===========================================================================
