-------------------------- MODULE JournalContract --------------------------
(***************************************************************************)
(* What the trait SessionEventJournal (crates/astrcode-storage/src/         *)
(* traits.rs) promises the callers of one session's journal, whatever       *)
(* implements it: a log that only grows while it is in use, a read model    *)
(* that shows a prefix of it, a durable prefix that nothing takes back, and *)
(* a doubt after an ambiguous fsync that freezes both until it is resolved. *)
(*                                                                         *)
(* The trait says "atomically" of a batch; here a batch may be cut short by *)
(* a failure, which is what a store of single records can promise.          *)
(***************************************************************************)
EXTENDS Integers, Sequences

VARIABLES
    running,  \* a process serves the session
    stored,   \* the records a restart would find
    visible,  \* how many of them the read model shows
    durable,  \* how many of them survive the loss of the machine
    doubt     \* the outcome of an fsync is not known

vars == <<running, stored, visible, durable, doubt>>

Init ==
    /\ ~running /\ ~doubt
    /\ stored = << >> /\ visible = 0 /\ durable = 0

\* The records are numbered from 0 in the order in which they were accepted.
Numbered(s) == \A i \in 1..Len(s) : s[i].seq = i - 1

\* Two logs that agree as far as both go.
Agree(s, u) == \A i \in 1..Len(s) : i <= Len(u) => s[i] = u[i]

\* Records are added behind the others, never while a doubt is open.  They are
\* not visible yet; the first record of a session may become durable with it.
Write ==
    /\ ~doubt
    /\ Len(stored') >= Len(stored) /\ Agree(stored, stored') /\ Numbered(stored')
    /\ durable' \in durable..Len(stored')
    /\ UNCHANGED <<running, visible, doubt>>

\* More of the log reaches the device, whether anybody is told or not.
Harden ==
    /\ durable' \in durable..Len(stored)
    /\ UNCHANGED <<running, stored, visible, doubt>>

\* append_events: the read model advances over stored records.
Publish ==
    /\ running /\ ~doubt
    /\ visible' \in visible..Len(stored)
    /\ UNCHANGED <<running, stored, durable, doubt>>

\* append_events_and_sync or sync_durable_events asks for an fsync.
Doubt ==
    /\ running /\ ~doubt
    /\ doubt'
    /\ UNCHANGED <<running, stored, visible, durable>>

\* The fsync, or its retry, succeeded: whatever the read model shows from now on
\* is durable, the batch that was held back included.
Resolve ==
    /\ running /\ doubt
    /\ ~doubt'
    /\ visible' \in visible..durable
    /\ UNCHANGED <<running, stored, durable>>

\* create_session, or the open of a log that is there: every record is visible,
\* and only because it is durable.
Open ==
    /\ ~running /\ ~doubt
    /\ running' /\ ~doubt'
    /\ Len(stored') >= Len(stored) /\ Agree(stored, stored') /\ Numbered(stored')
    /\ visible' = Len(stored') /\ durable' = Len(stored')

\* The process or the machine dies.  An append in flight may add records, a
\* power loss may take the ones that are not durable.
Stop ==
    /\ ~running' /\ ~doubt'
    /\ visible' = 0
    /\ Agree(stored, stored') /\ Numbered(stored')
    /\ durable' \in durable..Len(stored')

Next == Write \/ Harden \/ Publish \/ Doubt \/ Resolve \/ Open \/ Stop

Spec == Init /\ [][Next]_vars

=============================================================================
