------------------------ MODULE TurnSchedulerProofs ------------------------
(* The theorems about TurnScheduler: one turn works at a time, a registered   *)
(* turn is always on its way, callers are told the truth, queued inputs start *)
(* in their order, and nothing works in a session that is gone.               *)
EXTENDS TurnScheduler, FiniteSetTheorems, SequenceTheorems, TLAPS

Deliveries == {"StartNew", "InjectOnly", "InjectElseStart", "QueueElseStart", "InterruptAndStart"}

CallerPcs == {"idle", "locking", "gated", "aborting", "aborted", "starting", "submitting",
              "closing", "deleting", "closeFails"}
RetryPcs == {"idle", "locking", "gated", "starting", "submitting"}
ServerPcs == {"idle", "settling", "locking", "gated"}
TurnPcs == {"idle", "waiting", "finishing", "locking", "gated", "starting", "submitting", "done"}

PendingType == [input : Inputs, turn : 0..MaxTurns]
LogType == [phase : {"Idle", "Busy", "Error"}, unsettled : 0..MaxTurns,
            step : {"None", "Open", "Finished"}, pending : Seq(PendingType)]
GateType == [holder : Actors \cup {Nobody}, closing : BOOLEAN, starts : Int]
CallType == [pc : CallerPcs \cup RetryPcs \cup ServerPcs \cup TurnPcs,
             kind : AllKinds \cup {"None"}, gate : 1..MaxGates, turn : 0..MaxTurns,
             input : Inputs \cup {NoInput}, queued : BOOLEAN]

Types ==
    /\ log \in LogType /\ begun \in Seq(Inputs) /\ completed \subseteq Turns
    /\ entry \in [turn : 0..MaxTurns, state : {"None", "Reserved", "Running"}]
    /\ used \in 0..MaxTurns
    /\ task \in [Turns -> {"none", "running", "sent", "ended", "killed"}]
    /\ gate \in [1..MaxGates -> GateType] /\ current \in 1..MaxGates
    /\ call \in [Actors -> CallType]
    /\ answer \in [Inputs -> Words]
    /\ exists \in BOOLEAN

Held(a) == call[a].pc \in {"gated", "aborting", "aborted"}
Waits(a) == call[a].pc = "locking"
Starter(a) == call[a].pc \in {"starting", "submitting"}
Closer(a) == call[a].pc \in {"closing", "deleting", "closeFails"}

\* Who may be where, and what a caller carries.
RoleInv ==
    /\ \A c \in Callers : call[c].pc \in CallerPcs
    /\ \A t \in Turns : call[t].pc \in TurnPcs
    /\ call[Retry].pc \in RetryPcs /\ call[Server].pc \in ServerPcs
    /\ \A c \in Callers : Held(c) \/ Waits(c) =>
            IF call[c].kind \in Deliveries THEN call[c].input \in Inputs ELSE call[c].input = NoInput
    /\ \A c \in Callers : call[c].pc \in {"aborting", "aborted"} => Aborts(c)
    /\ \A c \in Callers : Closer(c) => call[c].kind = "Close" /\ call[c].input = NoInput
    /\ Held(Retry) \/ Waits(Retry) => call[Retry].input = NoInput

GateInv ==
    /\ \A a \in Actors : Held(a) => gate[call[a].gate].holder = a
    /\ \A a \in Actors : Held(a) \/ Waits(a) =>
            \/ call[a].gate = current
            \/ call[a].gate < current /\ gate[call[a].gate].closing
    /\ \A a \in Callers \cup {Retry} : Held(a) => ~gate[call[a].gate].closing
    /\ \A a \in Callers : Closer(a) => call[a].gate = current /\ gate[current].closing
    /\ \A a, b \in Callers : Closer(a) /\ Closer(b) => a = b
    /\ \A a \in Callers : call[a].kind = "Close" => call[a].gate < MaxGates

EntryInv ==
    /\ IF entry.state = "None" THEN entry.turn = NoTurn ELSE entry.turn \in 1..used
    /\ \A c \in Callers : call[c].pc \in {"aborted", "deleting"} => entry = NoEntry
    /\ ~exists => entry = NoEntry /\ \A a \in Callers \cup {Retry} : ~Held(a)

StartInv ==
    /\ \A a \in Actors : Starter(a) =>
            /\ entry.state = "Reserved" /\ entry.turn = call[a].turn /\ call[a].turn = used
            /\ call[a].input \in Inputs
    /\ \A a, b \in Actors : Starter(a) /\ Starter(b) => a = b
    /\ entry.state = "Reserved" => \E a \in Actors : Starter(a)

FreshInv ==
    /\ \A t \in Turns : t > used \/ (entry.state = "Reserved" /\ entry.turn = t) =>
            task[t] = "none" /\ call[t].pc = "idle" /\ t \notin completed
    /\ log.unsettled \in 0..used
    /\ \A a \in Actors : call[a].pc = "starting" => log.unsettled # used

RunInv ==
    /\ \A t \in Turns : task[t] = "running" => entry.state = "Running" /\ entry.turn = t
    /\ \A t \in Turns : call[t].pc \in {"finishing", "locking", "gated"} =>
            task[t] \in {"sent", "ended", "killed"}
    /\ entry.state = "Running" => call[entry.turn].pc \notin {"idle", "done"}

CompletedInv == log.unsettled \notin completed

Waiting == {log.pending[k].input : k \in 1..Len(log.pending)}
Distinct(s) == \A j, k \in 1..Len(s) : s[j] = s[k] => j = k
InHand(c) == call[c].input # NoInput /\ (Held(c) \/ Waits(c) \/ (Starter(c) /\ ~call[c].queued))

QueueInv ==
    /\ \A i \in Inputs : answer[i] = "none" => i \notin Waiting \cup Range(begun)
    /\ \A i \in Inputs : answer[i] \in {"injected", "queued"} => i \in Waiting \cup Range(begun)
    /\ \A i \in Waiting : answer[i] \in {"injected", "queued"} /\ i \notin Range(begun)
    /\ Distinct(begun)
    /\ \A j, k \in 1..Len(log.pending) : log.pending[j].input = log.pending[k].input => j = k

HandInv ==
    /\ \A c \in Callers : InHand(c) => answer[call[c].input] = "none"
    /\ \A c, d \in Callers : InHand(c) /\ InHand(d) /\ call[c].input = call[d].input => c = d
    /\ \A a \in Turns \cup {Retry} : Starter(a) => call[a].queued
    /\ \A a \in Actors : Starter(a) /\ call[a].queued =>
            log.pending # << >> /\ log.pending[1].input = call[a].input

IndInv ==
    /\ Types /\ RoleInv /\ GateInv /\ EntryInv /\ StartInv /\ FreshInv /\ RunInv
    /\ CompletedInv /\ QueueInv /\ HandInv

----------------------------------------------------------------------------
(* Retain: the rank of a position among the retained ones is a bijection.    *)

\* q lists the elements of s at the positions K, each position once.
Lists(q, s, K) ==
    \E n \in Nat : \E e \in [1..n -> K] :
        /\ \A i, j \in 1..n : e[i] = e[j] => i = j
        /\ \A k \in K : \E j \in 1..n : e[j] = k
        /\ Len(q) = n
        /\ \A j \in 1..n : q[j] = s[e[j]]

\* What Retain returns.
LEMMA RetainFacts ==
    ASSUME NEW S, NEW s \in Seq(S), NEW K, K \subseteq 1..Len(s)
    PROVE  Retain(s, K) \in Seq(S) /\ Lists(Retain(s, K), s, K)
<1> DEFINE Upto(k) == {m \in K : m <= k}
           n == Cardinality(K)
           r == [k \in K |-> Cardinality(Upto(k))]
           e == [j \in 1..n |-> CHOOSE k \in K : Cardinality(Upto(k)) = j]
<1>0. Len(s) \in Nat /\ \A k \in 1..Len(s) : s[k] \in S
  BY LenProperties
<1>1. IsFiniteSet(K) /\ n \in Nat
  <2>1. IsFiniteSet(1..Len(s))
    BY <1>0, FS_Interval
  <2> QED BY <2>1, FS_Subset, FS_CardinalityType
<1>2. \A k \in K : IsFiniteSet(Upto(k)) /\ Cardinality(Upto(k)) \in 1..n
  <2> TAKE k \in K
  <2>1. Upto(k) \in SUBSET K /\ k \in Upto(k)
    BY <1>0
  <2>2. IsFiniteSet(Upto(k)) /\ Cardinality(Upto(k)) <= n
    BY <1>1, <2>1, FS_Subset
  <2>3. Cardinality(Upto(k)) \in Nat /\ Cardinality(Upto(k)) # 0
    BY <2>1, <2>2, FS_CardinalityType, FS_EmptySet
  <2> HIDE DEF Upto, n
  <2> QED BY <1>1, <2>2, <2>3
<1>3. \A k, l \in K : k < l => Cardinality(Upto(k)) < Cardinality(Upto(l))
  <2> SUFFICES ASSUME NEW k \in K, NEW l \in K, k < l
               PROVE  Cardinality(Upto(k)) < Cardinality(Upto(l))
    OBVIOUS
  <2>0. \A m \in K : m \in Int
    BY <1>0
  <2>1. Upto(k) \in SUBSET Upto(l) /\ l \in Upto(l) /\ l \notin Upto(k)
    <3>1. \A m \in K : m <= k => m <= l
      BY <2>0
    <3>2. l <= l /\ ~(l <= k)
      BY <2>0
    <3> QED BY <3>1, <3>2
  <2>2. Cardinality(Upto(k)) <= Cardinality(Upto(l)) /\ Cardinality(Upto(l)) # Cardinality(Upto(k))
    BY <1>2, <2>1, FS_Subset
  <2> HIDE DEF Upto, n
  <2> QED BY <1>2, <2>2
<1>4. r \in [K -> 1..n]
  BY <1>2
<1>5. \A k, l \in K : r[k] = r[l] => k = l
  <2> SUFFICES ASSUME NEW k \in K, NEW l \in K, k # l PROVE r[k] # r[l]
    OBVIOUS
  <2>1. k < l \/ l < k
    BY <1>0
  <2>2. r[k] = Cardinality(Upto(k)) /\ r[l] = Cardinality(Upto(l))
    OBVIOUS
  <2>3. Cardinality(Upto(k)) \in 1..n /\ Cardinality(Upto(l)) \in 1..n
    BY <1>2
  <2> HIDE DEF Upto, n, r
  <2> QED BY <1>1, <1>3, <2>1, <2>2, <2>3
<1>6. \A j \in 1..n : \E k \in K : r[k] = j
  <2>1. r \in Injection(K, 1..n)
    BY <1>4, <1>5 DEF Injection, IsInjective
  <2>2. IsFiniteSet(1..n) /\ Cardinality(1..n) = n
    BY <1>1, FS_Interval
  <2>3. r \in Surjection(K, 1..n)
    <3> HIDE DEF r, n
    <3>1. n = Cardinality(K)
      BY DEF n
    <3> QED BY <2>1, <2>2, <3>1, FS_Injection
  <2> HIDE DEF r, n
  <2> QED BY <2>3 DEF Surjection
<1>7. \A j \in 1..n : e[j] \in K /\ r[e[j]] = j
  <2> TAKE j \in 1..n
  <2>1. \E k \in K : Cardinality(Upto(k)) = j
    BY <1>6
  <2>2. e[j] \in K /\ Cardinality(Upto(e[j])) = j
    BY <2>1
  <2> QED BY <2>2
<1>8. e \in [1..n -> K]
  BY <1>7
<1>9. \A i, j \in 1..n : e[i] = e[j] => i = j
  <2> HIDE DEF e, r, n
  <2> QED BY <1>7
<1>10. \A k \in K : \E j \in 1..n : e[j] = k
  <2> TAKE k \in K
  <2>1. r[k] \in 1..n
    BY <1>4
  <2>2. e[r[k]] = k
    <3> HIDE DEF e, r, n
    <3> QED BY <1>5, <1>7, <2>1
  <2> HIDE DEF e, r, n
  <2> QED BY <2>1, <2>2
<1>11. Retain(s, K) = [j \in 1..n |-> s[e[j]]]
  BY DEF Retain
<1>12. Retain(s, K) \in Seq(S) /\ Len(Retain(s, K)) = n /\ \A j \in 1..n : Retain(s, K)[j] = s[e[j]]
  <2>1. \A j \in 1..n : s[e[j]] \in S
    BY <1>0, <1>7
  <2> HIDE DEF e, n
  <2> QED BY <1>1, <1>11, <2>1
<1> HIDE DEF e, n
<1> QED BY <1>1, <1>8, <1>9, <1>10, <1>12 DEF Lists

----------------------------------------------------------------------------
(* The log.                                                                  *)

\* What the log and the set of completed turns may become when turn t is settled.
Settled(l, done, t) ==
    /\ l \in LogType /\ l.pending = log.pending
    /\ l.unsettled \in {log.unsettled, NoTurn} /\ l.unsettled \notin done
    /\ completed \subseteq done /\ done \subseteq completed \cup {t}

\* Writing one field of the log.
LEMMA SetPhase ==
    ASSUME NEW l \in LogType, NEW p \in {"Idle", "Busy", "Error"}
    PROVE  /\ [l EXCEPT !.phase = p] \in LogType
           /\ [l EXCEPT !.phase = p].unsettled = l.unsettled
           /\ [l EXCEPT !.phase = p].pending = l.pending
BY DEF LogType

LEMMA SetUnsettled ==
    ASSUME NEW l \in LogType, NEW u \in 0..MaxTurns
    PROVE  /\ [l EXCEPT !.unsettled = u] \in LogType
           /\ [l EXCEPT !.unsettled = u].unsettled = u
           /\ [l EXCEPT !.unsettled = u].pending = l.pending
BY DEF LogType

LEMMA SetStep ==
    ASSUME NEW l \in LogType, NEW w \in {"None", "Open", "Finished"}
    PROVE  /\ [l EXCEPT !.step = w] \in LogType
           /\ [l EXCEPT !.step = w].unsettled = l.unsettled
           /\ [l EXCEPT !.step = w].pending = l.pending
BY DEF LogType

LEMMA SetPending ==
    ASSUME NEW l \in LogType, NEW q \in Seq(PendingType)
    PROVE  /\ [l EXCEPT !.pending = q] \in LogType
           /\ [l EXCEPT !.pending = q].unsettled = l.unsettled
           /\ [l EXCEPT !.pending = q].pending = q
BY DEF LogType

\* TurnCompleted returns a log in which its own turn is not unsettled.
LEMMA TurnCompletedFacts ==
    ASSUME NEW l \in LogType, NEW t \in 0..MaxTurns
    PROVE  /\ TurnCompleted(l, t) \in LogType /\ TurnCompleted(l, t).pending = l.pending
           /\ TurnCompleted(l, t).unsettled \in {l.unsettled, NoTurn}
           /\ t # NoTurn => TurnCompleted(l, t).unsettled # t
           /\ t = NoTurn => TurnCompleted(l, t).unsettled = NoTurn
<1>1. MaxTurns \in Nat
  BY TurnSchedulerAssumption
<1> DEFINE r == [l EXCEPT !.phase = "Idle", !.unsettled = NoTurn, !.step = "None"]
<1>2. r \in LogType /\ r.pending = l.pending /\ r.unsettled = NoTurn
  <2> DEFINE l1 == [l EXCEPT !.phase = "Idle"]
             l2 == [l1 EXCEPT !.unsettled = NoTurn]
             l3 == [l2 EXCEPT !.step = "None"]
  <2>1. r = l3
    OBVIOUS
  <2>2. l1 \in LogType /\ l1.pending = l.pending
    BY SetPhase
  <2>3. l2 \in LogType /\ l2.pending = l.pending /\ l2.unsettled = NoTurn
    <3> HIDE DEF l1
    <3> QED BY <1>1, <2>2, SetUnsettled DEF NoTurn
  <2>4. l3 \in LogType /\ l3.pending = l.pending /\ l3.unsettled = NoTurn
    <3> HIDE DEF l2
    <3> QED BY <2>3, SetStep
  <2> HIDE DEF r, l3
  <2> QED BY <2>1, <2>4
<1>4. TurnCompleted(l, t) = IF t = NoTurn \/ l.unsettled \in {NoTurn, t} THEN r ELSE l
  BY DEF TurnCompleted
<1> HIDE DEF r
<1> QED BY <1>2, <1>4

\* A terminal of turn t settles it.
LEMMA TerminalSettles ==
    ASSUME Types, CompletedInv, NEW t \in Turns
    PROVE  Settled(TurnCompleted(log, t), completed \cup {t}, t)
<1>1. MaxTurns \in Nat /\ t \in 0..MaxTurns /\ t # NoTurn /\ NoTurn \notin Turns
  BY TurnSchedulerAssumption DEF Turns, NoTurn
<1>2. log \in LogType /\ completed \subseteq Turns
  BY DEF Types
<1> QED BY <1>1, <1>2, TurnCompletedFacts DEF Settled, CompletedInv

\* finalize_turn and what it adds to the completed turns.
LEMMA FinalizeSettles ==
    ASSUME Types, CompletedInv, NEW t \in Turns
    PROVE  Settled(finalize_turn(log, t), Completing(t), t)
<1>1. CASE log.phase = "Idle"
  BY <1>1 DEF Settled, finalize_turn, Completing, Types, CompletedInv
<1>2. CASE log.phase # "Idle"
  BY <1>2, TerminalSettles DEF finalize_turn, Completing
<1> QED BY <1>1, <1>2

\* repair_turn_protocol_state closes the phase and completes no turn.
LEMMA RepairSettles ==
    ASSUME Types, CompletedInv, NEW t
    PROVE  Settled(repair_turn_protocol_state(log), completed, t) /\ Settled(log, completed, t)
<1>1. log \in LogType /\ completed \subseteq Turns /\ NoTurn \in 0..MaxTurns /\ NoTurn \notin Turns
  BY TurnSchedulerAssumption DEF Types, Turns, NoTurn
<1>2. Settled(log, completed, t)
  BY <1>1 DEF Settled, CompletedInv
<1>3. Settled(TurnCompleted(log, NoTurn), completed, t)
  <2>1. TurnCompleted(log, NoTurn).unsettled = NoTurn /\ TurnCompleted(log, NoTurn) \in LogType
        /\ TurnCompleted(log, NoTurn).pending = log.pending
    BY <1>1, TurnCompletedFacts
  <2> QED BY <1>1, <2>1 DEF Settled
<1> QED BY <1>2, <1>3 DEF repair_turn_protocol_state

\* settle_finished_execution_locked.
LEMMA SettledLogSettles ==
    ASSUME Types, CompletedInv, NEW t \in Turns
    PROVE  Settled(SettledLog(t), SettledTurns(t), t)
<1>1. CASE final[t] = "unpersisted"
  BY <1>1, FinalizeSettles DEF SettledLog, SettledTurns
<1>2. CASE final[t] # "unpersisted"
  BY <1>2, RepairSettles DEF SettledLog, SettledTurns
<1> QED BY <1>1, <1>2

\* The initial state satisfies the invariant.
LEMMA InitInv == Init => IndInv
<1> SUFFICES ASSUME Init PROVE IndInv
  OBVIOUS
<1> USE TurnSchedulerAssumption
<1>0. MaxTurns \in Nat /\ MaxGates \in Nat \ {0} /\ Retry \in Actors /\ Server \in Actors
      /\ Callers \subseteq Actors /\ Turns \subseteq Actors /\ NoTurn \notin Turns
  BY DEF Actors, Turns, NoTurn
<1>1. Away \in CallType /\ OpenGate \in GateType
  BY <1>0 DEF Away, CallType, OpenGate, GateType, CallerPcs, NoTurn
<1>2. Types
  <2>1. log \in LogType
    BY <1>0 DEF Init, LogType, NoTurn
  <2> QED BY <1>0, <1>1, <2>1 DEF Init, Types, NoEntry, NoTurn, Words
<1>3. \A a \in Actors : call[a] = Away /\ call[a].pc = "idle" /\ call[a].kind = "None"
                        /\ call[a].input = NoInput
  BY DEF Init, Away
<1>4. RoleInv
  BY <1>0, <1>3 DEF RoleInv, Held, Waits, Closer, CallerPcs, RetryPcs, ServerPcs, TurnPcs
<1>5. GateInv
  BY <1>0, <1>3 DEF GateInv, Held, Waits, Closer
<1>6. EntryInv /\ StartInv
  BY <1>0, <1>3 DEF Init, EntryInv, StartInv, Held, Starter, NoEntry
<1>7. FreshInv /\ RunInv /\ CompletedInv
  BY <1>0, <1>3 DEF Init, FreshInv, RunInv, CompletedInv, NoEntry, NoTurn
<1>8. QueueInv
  <2>1. log.pending = << >> /\ begun = << >>
    BY DEF Init
  <2>2. Waiting = {} /\ Range(begun) = {} /\ Distinct(begun)
    BY <2>1 DEF Waiting, Range, Distinct
  <2> QED BY <2>1, <2>2 DEF Init, QueueInv
<1>9. HandInv
  BY <1>0, <1>3 DEF HandInv, InHand, Held, Waits, Starter
<1> QED BY <1>2, <1>4, <1>5, <1>6, <1>7, <1>8, <1>9 DEF IndInv

----------------------------------------------------------------------------
(* The parts that steps have in common.                                      *)

CoreInv == RoleInv /\ GateInv /\ EntryInv /\ StartInv /\ FreshInv /\ RunInv /\ CompletedInv
TalkInv == QueueInv /\ HandInv

\* Only actor a moves.
Others(a) == \A b \in Actors \ {a} : call'[b] = call[b]

\* The registered turn stays, or goes when it no longer works.
EntryDrop ==
    \/ entry' = entry
    \/ /\ entry' = NoEntry /\ entry.state # "Reserved"
       /\ entry.state = "Running" => task'[entry.turn] # "running"

\* Tasks stay, or the registered one is killed.
TaskKill ==
    \/ task' = task
    \/ entry.state = "Running" /\ task' = [task EXCEPT ![entry.turn] = "killed"]

\* The log settles at most a turn that is not about to start.
LogCore ==
    /\ log'.unsettled \in {log.unsettled, NoTurn} /\ log'.unsettled \notin completed'
    /\ completed \subseteq completed'
    /\ \A t \in completed' : t \in completed \/ (t \in 1..used /\ entry.state # "Reserved")

\* No start begins or ends; watchers give up only what is not theirs.
SteadyCalls ==
    /\ \A b \in Actors : Starter(b) \/ Starter(b)' => call'[b] = call[b]
    /\ \A t \in Turns : call'[t].pc = "idle" <=> call[t].pc = "idle"
    /\ \A t \in Turns : call'[t].pc \in {"finishing", "locking", "gated"} =>
            task'[t] \in {"sent", "ended", "killed"}
    /\ \A t \in Turns : call'[t].pc = "done" => call[t].pc = "done" \/ entry'.turn # t

LEMMA ActorFacts ==
    /\ MaxTurns \in Nat /\ MaxGates \in Nat \ {0}
    /\ Callers \subseteq Actors /\ Turns \subseteq Actors /\ Retry \in Actors /\ Server \in Actors
    /\ Actors = Callers \cup Turns \cup {Retry, Server}
    /\ Callers \cap Turns = {} /\ Retry \notin Callers \cup Turns /\ Server \notin Callers \cup Turns
    /\ Nobody \notin Actors /\ Retry # Server
    /\ \A t \in Turns : t \in Nat /\ t # NoTurn /\ t # 0 /\ t \in 0..MaxTurns
    /\ NoInput \notin Inputs
BY TurnSchedulerAssumption DEF Actors, Turns, NoTurn, NoInput

\* What a step that starts nothing keeps of the registry and of the turns.
LEMMA SteadyInv ==
    ASSUME Types, CoreInv, Types', EntryDrop, TaskKill, LogCore, SteadyCalls, used' = used
    PROVE  /\ StartInv' /\ FreshInv' /\ RunInv' /\ CompletedInv'
           /\ IF entry'.state = "None" THEN entry'.turn = NoTurn ELSE entry'.turn \in 1..used'
           /\ entry = NoEntry => entry' = NoEntry
<1> USE ActorFacts
<1>1. entry'.state # "None" => entry' = entry
  BY DEF EntryDrop, NoEntry
<1>2. entry'.state = "None" => entry.state # "Reserved"
  BY DEF EntryDrop
<1>2a. entry.state = "Reserved" => entry' = entry
  BY DEF EntryDrop
<1>3. IF entry'.state = "None" THEN entry'.turn = NoTurn ELSE entry'.turn \in 1..used'
  BY DEF EntryDrop, NoEntry, CoreInv, EntryInv
<1>4. StartInv'
  <2>1. \A a \in Actors : Starter(a)' => Starter(a) /\ call'[a] = call[a]
    BY DEF SteadyCalls, Starter
  <2>2. \A a \in Actors : Starter(a) => Starter(a)' /\ call'[a] = call[a]
    BY DEF SteadyCalls, Starter
  <2>3. StartInv
    BY DEF CoreInv
  <2> QED BY <1>1, <1>2a, <2>1, <2>2, <2>3 DEF StartInv
<1>5. FreshInv'
  <2>1. \A t \in Turns : t > used \/ (entry'.state = "Reserved" /\ entry'.turn = t) =>
            task'[t] = "none" /\ call'[t].pc = "idle" /\ t \notin completed'
    <3> SUFFICES ASSUME NEW t \in Turns, t > used \/ (entry'.state = "Reserved" /\ entry'.turn = t)
                 PROVE  task'[t] = "none" /\ call'[t].pc = "idle" /\ t \notin completed'
      OBVIOUS
    <3>1. t > used \/ (entry.state = "Reserved" /\ entry.turn = t)
      BY <1>1
    <3>2. task[t] = "none" /\ call[t].pc = "idle" /\ t \notin completed
      BY <3>1 DEF CoreInv, FreshInv
    <3>3. t \notin completed'
      BY <3>1, <3>2 DEF LogCore, Types
    <3>4. task'[t] = "none"
      <4>1. entry.state = "Running" => entry.turn # t
        BY <3>1 DEF CoreInv, EntryInv, Types
      <4> QED BY <3>2, <4>1 DEF TaskKill, Types
    <3> QED BY <3>2, <3>3, <3>4 DEF SteadyCalls
  <2>2. log'.unsettled \in 0..used
    BY DEF LogCore, CoreInv, FreshInv, NoTurn, Types
  <2>3. \A a \in Actors : call'[a].pc = "starting" => log'.unsettled # used
    <3> SUFFICES ASSUME NEW a \in Actors, call'[a].pc = "starting" PROVE log'.unsettled # used
      OBVIOUS
    <3>1. call[a].pc = "starting"
      BY DEF SteadyCalls, Starter
    <3>2. log.unsettled # used /\ used = entry.turn /\ entry.state = "Reserved"
      BY <3>1 DEF CoreInv, FreshInv, StartInv, Starter
    <3>3. used # NoTurn
      BY <3>2 DEF CoreInv, EntryInv, NoTurn
    <3> QED BY <3>2, <3>3 DEF LogCore
  <2> QED BY <2>1, <2>2, <2>3 DEF FreshInv
<1>6. RunInv'
  <2>1. \A t \in Turns : task'[t] = "running" => entry'.state = "Running" /\ entry'.turn = t
    <3> SUFFICES ASSUME NEW t \in Turns, task'[t] = "running"
                 PROVE  entry'.state = "Running" /\ entry'.turn = t
      OBVIOUS
    <3>1. task[t] = "running"
      BY DEF TaskKill, Types
    <3>2. entry.state = "Running" /\ entry.turn = t
      BY <3>1 DEF CoreInv, RunInv
    <3> QED BY <3>2 DEF EntryDrop
  <2>2. entry'.state = "Running" => call'[entry'.turn].pc \notin {"idle", "done"}
    <3> SUFFICES ASSUME entry'.state = "Running" PROVE call'[entry'.turn].pc \notin {"idle", "done"}
      OBVIOUS
    <3>1. entry' = entry /\ entry.turn \in Turns
      BY <1>1 DEF CoreInv, EntryInv, Types, Turns
    <3>2. call[entry.turn].pc \notin {"idle", "done"}
      BY <3>1 DEF CoreInv, RunInv
    <3> QED BY <3>1, <3>2 DEF SteadyCalls
  <2> QED BY <2>1, <2>2 DEF RunInv, SteadyCalls
<1>7. CompletedInv'
  BY DEF LogCore, CompletedInv
<1> QED BY <1>3, <1>4, <1>5, <1>6, <1>7 DEF EntryDrop

\* Actor a leaves the gate it holds; the registered turn may have been settled.
LEMMA LeaveInv ==
    ASSUME Types, CoreInv, Types', EntryDrop, TaskKill, LogCore,
           NEW a \in Actors, Held(a), Others(a), gate' = Released(call[a].gate),
           current' = current, exists' = exists, used' = used,
           a \in Callers \cup {Retry} => call'[a].pc = "idle" /\ call'[a].kind = "None",
           a \in Turns => call'[a].pc \in {"done", "finishing"}
                          /\ (call'[a].pc = "done" => entry'.turn # a),
           a = Server => call'[a].pc = "settling"
    PROVE  CoreInv'
<1> USE ActorFacts
<1>1. call'[a].pc \in {"idle", "done", "finishing", "settling"}
  OBVIOUS
<1>2. ~Starter(a) /\ ~Starter(a)' /\ ~Held(a)' /\ ~Waits(a)' /\ ~Closer(a)'
  BY <1>1 DEF Held, Starter, Waits, Closer
<1>3. SteadyCalls
  <2>1. \A t \in Turns : call'[t].pc \in {"finishing", "locking", "gated"} =>
            task[t] \in {"sent", "ended", "killed"}
    <3> SUFFICES ASSUME NEW t \in Turns, call'[t].pc \in {"finishing", "locking", "gated"}
                 PROVE  task[t] \in {"sent", "ended", "killed"}
      OBVIOUS
    <3>1. CASE t = a
      <4>1. call[t].pc = "gated"
        BY <3>1 DEF Held, CoreInv, RoleInv, TurnPcs
      <4> QED BY <4>1 DEF CoreInv, RunInv
    <3>2. CASE t # a
      BY <3>2 DEF Others, CoreInv, RunInv
    <3> QED BY <3>1, <3>2
  <2>2. \A t \in Turns : call'[t].pc \in {"finishing", "locking", "gated"} =>
            task'[t] \in {"sent", "ended", "killed"}
    BY <2>1 DEF TaskKill, Types
  <2>3. \A b \in Actors : Starter(b) \/ Starter(b)' => call'[b] = call[b]
    BY <1>2 DEF Others
  <2>4. \A t \in Turns : call'[t].pc = "idle" <=> call[t].pc = "idle"
    BY DEF Others, Held
  <2>5. \A t \in Turns : call'[t].pc = "done" => call[t].pc = "done" \/ entry'.turn # t
    BY DEF Others
  <2> QED BY <2>2, <2>3, <2>4, <2>5 DEF SteadyCalls
<1>4. /\ StartInv' /\ FreshInv' /\ RunInv' /\ CompletedInv'
      /\ IF entry'.state = "None" THEN entry'.turn = NoTurn ELSE entry'.turn \in 1..used'
      /\ entry = NoEntry => entry' = NoEntry
  BY <1>3, SteadyInv
<1>5. \A g \in 1..MaxGates : gate'[g].closing = gate[g].closing
  BY DEF Released, Types, GateType
<1>6. \A g \in 1..MaxGates : g # call[a].gate => gate'[g] = gate[g]
  BY DEF Released, Types, GateType
<1>7. \A b \in Actors : call[b].gate \in 1..MaxGates /\ call'[b].gate \in 1..MaxGates
  BY DEF Types, CallType
<1>8. GateInv'
  <2>1. \A b \in Actors : Held(b)' => gate'[call'[b].gate].holder = b
    <3> SUFFICES ASSUME NEW b \in Actors, Held(b)' PROVE gate'[call'[b].gate].holder = b
      OBVIOUS
    <3>1. b # a /\ call'[b] = call[b] /\ Held(b)
      BY <1>2 DEF Others, Held
    <3>2. gate[call[b].gate].holder = b /\ gate[call[a].gate].holder = a
      BY <3>1 DEF CoreInv, GateInv
    <3> QED BY <1>6, <1>7, <3>1, <3>2
  <2>2. \A b \in Actors \ {a} : Held(b)' = Held(b) /\ Waits(b)' = Waits(b) /\ Closer(b)' = Closer(b)
                                /\ call'[b] = call[b]
    BY DEF Others, Held, Waits, Closer
  <2>3. GateInv
    BY DEF CoreInv
  <2>4. \A b \in Actors : Held(b)' \/ Waits(b)' =>
            \/ call'[b].gate = current
            \/ call'[b].gate < current /\ gate'[call'[b].gate].closing
    BY <1>2, <1>5, <1>7, <2>2, <2>3 DEF GateInv
  <2>5. \A b \in Callers \cup {Retry} : Held(b)' => ~gate'[call'[b].gate].closing
    BY <1>2, <1>5, <1>7, <2>2, <2>3 DEF GateInv
  <2>6. \A b \in Callers : Closer(b)' => call'[b].gate = current /\ gate'[current].closing
    BY <1>2, <1>5, <1>7, <2>2, <2>3 DEF GateInv
  <2>7. \A b, c \in Callers : Closer(b)' /\ Closer(c)' => b = c
    BY <1>2, <2>2, <2>3 DEF GateInv
  <2>8. \A b \in Callers : call'[b].kind = "Close" => call'[b].gate < MaxGates
    BY <2>2, <2>3 DEF GateInv
  <2> QED BY <2>1, <2>4, <2>5, <2>6, <2>7, <2>8 DEF GateInv
<1>9. RoleInv'
  BY <1>2 DEF CoreInv, RoleInv, Others, Held, Waits, Closer, Aborts, CallerPcs, RetryPcs, ServerPcs, TurnPcs
<1>10. EntryInv'
  <2>1. \A c \in Callers : call'[c].pc \in {"aborted", "deleting"} => entry = NoEntry
    BY <1>1 DEF CoreInv, EntryInv, Others
  <2>2. ~exists => entry = NoEntry /\ \A b \in Callers \cup {Retry} : ~Held(b)'
    BY <1>2 DEF CoreInv, EntryInv, Others, Held
  <2> QED BY <1>4, <2>1, <2>2 DEF EntryInv
<1> QED BY <1>4, <1>8, <1>9, <1>10 DEF CoreInv

\* What reserve_execution writes.
LEMMA ReserveFacts ==
    ASSUME Types, NEW a \in Actors, NEW i \in Inputs, NEW q \in BOOLEAN, reserve_execution(a, i, q)
    PROVE  /\ used' = used + 1 /\ used' \in 1..MaxTurns /\ used \in Nat
           /\ entry' \in [turn : 0..MaxTurns, state : {"None", "Reserved", "Running"}]
           /\ entry'.turn = used + 1 /\ entry'.state = "Reserved"
           /\ gate' \in [1..MaxGates -> GateType]
           /\ \A g \in 1..MaxGates : gate'[g].closing = gate[g].closing
           /\ \A g \in 1..MaxGates : g # call[a].gate => gate'[g] = gate[g]
           /\ call' \in [Actors -> CallType] /\ Others(a)
           /\ call'[a].pc = "starting" /\ call'[a].turn = used + 1 /\ call'[a].input = i
           /\ call'[a].queued = q /\ call'[a].kind = call[a].kind /\ call'[a].gate = call[a].gate
<1> USE ActorFacts
<1>1. used' = used + 1 /\ used' \in 1..MaxTurns /\ used \in Nat
  BY DEF reserve_execution, Types
<1>2. /\ entry' \in [turn : 0..MaxTurns, state : {"None", "Reserved", "Running"}]
      /\ entry'.turn = used + 1 /\ entry'.state = "Reserved"
  BY <1>1 DEF reserve_execution
<1>3. call[a].gate \in 1..MaxGates /\ call[a] \in CallType
  BY DEF Types, CallType
<1>4. /\ gate' \in [1..MaxGates -> GateType]
      /\ \A g \in 1..MaxGates : gate'[g].closing = gate[g].closing
      /\ \A g \in 1..MaxGates : g # call[a].gate => gate'[g] = gate[g]
  <2> DEFINE g == call[a].gate
             r == [gate[g] EXCEPT !.holder = Nobody]
             s == [r EXCEPT !.starts = @ + 1]
             h == [gate EXCEPT ![g].holder = Nobody]
  <2>2. gate[g] \in GateType
    BY <1>3 DEF Types
  <2>3. r \in GateType /\ r.closing = gate[g].closing
    BY <2>2 DEF GateType
  <2>1. gate' = [h EXCEPT ![g].starts = @ + 1]
    BY DEF reserve_execution, Leased
  <2>1a. h \in [1..MaxGates -> GateType] /\ h[g] = r /\ \A f \in 1..MaxGates : f # g => h[f] = gate[f]
    <3>1. h = [gate EXCEPT ![g] = r]
      BY <1>3 DEF Types
    <3> HIDE DEF h, r
    <3> QED BY <1>3, <2>3, <3>1 DEF Types
  <2>4. s \in GateType /\ s.closing = gate[g].closing
    <3> HIDE DEF r
    <3> QED BY <2>3 DEF GateType
  <2>5. gate' = [h EXCEPT ![g] = s]
    <3> HIDE DEF h, r
    <3> QED BY <1>3, <2>1, <2>1a
  <2> HIDE DEF s, h
  <2> QED BY <1>3, <2>1a, <2>4, <2>5
<1>5. /\ call' \in [Actors -> CallType] /\ Others(a)
      /\ call'[a].pc = "starting" /\ call'[a].turn = used + 1 /\ call'[a].input = i
      /\ call'[a].queued = q /\ call'[a].kind = call[a].kind /\ call'[a].gate = call[a].gate
  <2> DEFINE r1 == [call[a] EXCEPT !.pc = "starting"]
             r2 == [r1 EXCEPT !.turn = used + 1]
             r3 == [r2 EXCEPT !.input = i]
             r4 == [r3 EXCEPT !.queued = q]
  <2>1. call' = [call EXCEPT ![a] = r4]
    BY DEF reserve_execution, Types
  <2>2. r1 \in CallType /\ r1.pc = "starting" /\ r1.kind = call[a].kind /\ r1.gate = call[a].gate
    BY <1>3 DEF CallType, CallerPcs
  <2>3. r2 \in CallType /\ r2.pc = "starting" /\ r2.kind = call[a].kind /\ r2.gate = call[a].gate
        /\ r2.turn = used + 1
    <3> HIDE DEF r1
    <3> QED BY <1>1, <2>2 DEF CallType
  <2>4. r3 \in CallType /\ r3.pc = "starting" /\ r3.kind = call[a].kind /\ r3.gate = call[a].gate
        /\ r3.turn = used + 1 /\ r3.input = i
    <3> HIDE DEF r2
    <3> QED BY <2>3 DEF CallType
  <2>5. r4 \in CallType /\ r4.pc = "starting" /\ r4.kind = call[a].kind /\ r4.gate = call[a].gate
        /\ r4.turn = used + 1 /\ r4.input = i /\ r4.queued = q
    <3> HIDE DEF r3
    <3> QED BY <2>4 DEF CallType
  <2> HIDE DEF r4
  <2> QED BY <2>1, <2>5 DEF Types, Others
<1> QED BY <1>1, <1>2, <1>4, <1>5

\* The part of the type invariant that reserve_execution writes.
LEMMA ReserveTypes ==
    ASSUME Types, NEW a \in Actors, NEW i \in Inputs, NEW q \in BOOLEAN, reserve_execution(a, i, q)
    PROVE  /\ used' \in 0..MaxTurns /\ gate' \in [1..MaxGates -> GateType]
           /\ call' \in [Actors -> CallType]
           /\ entry' \in [turn : 0..MaxTurns, state : {"None", "Reserved", "Running"}]
<1>1. used' \in 1..MaxTurns
  BY ReserveFacts
<1>2. used' \in 0..MaxTurns
  BY <1>1, ActorFacts
<1> QED BY <1>2, ReserveFacts

\* An actor that holds an open gate holds the current one.
LEMMA OpenIsCurrent ==
    ASSUME Types, GateInv, NEW a \in Actors, Held(a), ~gate[call[a].gate].closing
    PROVE  call[a].gate = current
BY DEF GateInv

\* The gate keeps reservations apart: under an open gate nobody else holds it as an
\* aborter, and no close has gone past it.
LEMMA HolderAlone ==
    ASSUME Types, GateInv, EntryInv, NEW a \in Actors, Held(a), ~gate[call[a].gate].closing
    PROVE  /\ \A c \in Callers : c # a => call[c].pc \notin {"gated", "aborting", "aborted"}
           /\ \A c \in Callers : call[c].pc # "deleting"
<1> USE ActorFacts
<1>1. call[a].gate = current /\ gate[current].holder = a
  BY OpenIsCurrent DEF GateInv
<1>2. \A c \in Callers : Held(c) => c = a
  BY <1>1 DEF GateInv
<1>3. \A c \in Callers : ~Closer(c)
  BY <1>1 DEF GateInv
<1> QED BY <1>2, <1>3 DEF Held, Closer

\* reserve_execution under an open gate, when no turn of the registry works.
LEMMA ReserveInv ==
    ASSUME Types, CoreInv, Types', LogCore,
           NEW a \in Callers \cup Turns \cup {Retry}, call[a].pc \in {"gated", "aborted"},
           NEW i \in Inputs, NEW q \in BOOLEAN, reserve_execution(a, i, q),
           ~gate[call[a].gate].closing, a \in Turns => entry # NoEntry,
           entry.state # "Reserved", entry.state = "Running" => task[entry.turn] # "running",
           task' = task, current' = current, exists' = exists
    PROVE  CoreInv'
<1> USE ActorFacts
<1>0. a \in Actors /\ Held(a) /\ a # Server
  BY DEF Held
<1>1. /\ used' = used + 1 /\ used' \in 1..MaxTurns /\ used \in Nat
      /\ entry'.turn = used + 1 /\ entry'.state = "Reserved"
      /\ \A g \in 1..MaxGates : gate'[g].closing = gate[g].closing
      /\ \A g \in 1..MaxGates : g # call[a].gate => gate'[g] = gate[g]
      /\ Others(a)
      /\ call'[a].pc = "starting" /\ call'[a].turn = used + 1 /\ call'[a].input = i
      /\ call'[a].kind = call[a].kind /\ call'[a].gate = call[a].gate
  BY <1>0, ReserveFacts
<1>2. \A b \in Actors : ~Starter(b)
  BY DEF CoreInv, StartInv
<1>3. exists
  BY <1>0 DEF CoreInv, EntryInv
<1>4. Starter(a)' /\ ~Held(a)' /\ ~Waits(a)' /\ ~Closer(a)'
  BY <1>1 DEF Held, Starter, Waits, Closer
<1>5. \A b \in Actors : call[b].gate \in 1..MaxGates /\ call'[b].gate \in 1..MaxGates
  BY DEF Types, CallType
<1>6. \A b \in Actors \ {a} : Held(b)' = Held(b) /\ Waits(b)' = Waits(b) /\ Closer(b)' = Closer(b)
                              /\ call'[b] = call[b] /\ ~Starter(b)'
  BY <1>1, <1>2 DEF Others, Held, Waits, Closer, Starter
<1>7. GateInv'
  <2>1. \A b \in Actors : Held(b)' => gate'[call'[b].gate].holder = b
    <3> SUFFICES ASSUME NEW b \in Actors, Held(b)' PROVE gate'[call'[b].gate].holder = b
      OBVIOUS
    <3>1. b # a /\ call'[b] = call[b] /\ Held(b)
      BY <1>4, <1>6
    <3>2. gate[call[b].gate].holder = b /\ gate[call[a].gate].holder = a
      BY <1>0, <3>1 DEF CoreInv, GateInv
    <3> QED BY <1>1, <1>5, <3>1, <3>2
  <2>3. GateInv
    BY DEF CoreInv
  <2>4. \A b \in Actors : Held(b)' \/ Waits(b)' =>
            \/ call'[b].gate = current
            \/ call'[b].gate < current /\ gate'[call'[b].gate].closing
    BY <1>1, <1>4, <1>5, <1>6, <2>3 DEF GateInv
  <2>5. \A b \in Callers \cup {Retry} : Held(b)' => ~gate'[call'[b].gate].closing
    BY <1>1, <1>4, <1>5, <1>6, <2>3 DEF GateInv
  <2>6. \A b \in Callers : Closer(b)' => call'[b].gate = current /\ gate'[current].closing
    BY <1>1, <1>4, <1>5, <1>6, <2>3 DEF GateInv
  <2>7. \A b, c \in Callers : Closer(b)' /\ Closer(c)' => b = c
    BY <1>4, <1>6, <2>3 DEF GateInv
  <2>8. \A b \in Callers : call'[b].kind = "Close" => call'[b].gate < MaxGates
    BY <1>1, <1>6, <2>3 DEF GateInv
  <2> QED BY <2>1, <2>4, <2>5, <2>6, <2>7, <2>8 DEF GateInv
<1>8. RoleInv'
  BY <1>1, <1>4 DEF CoreInv, RoleInv, Others, Held, Waits, Closer, Aborts, CallerPcs, RetryPcs, ServerPcs, TurnPcs
<1>9. EntryInv'
  <2>1. GateInv /\ EntryInv
    BY DEF CoreInv
  <2>2. \A c \in Callers : c # a => call[c].pc \notin {"gated", "aborting", "aborted"}
    BY <1>0, <2>1, HolderAlone
  <2>2a. \A c \in Callers : call[c].pc # "deleting"
    BY <1>0, <2>1, HolderAlone
  <2>3. \A c \in Callers : call'[c].pc \notin {"aborted", "deleting"}
    BY <1>1, <2>2, <2>2a DEF Others
  <2> QED BY <1>1, <1>3, <2>3 DEF EntryInv
<1>10. StartInv'
  BY <1>0, <1>1, <1>4, <1>6 DEF StartInv
<1>11. FreshInv'
  <2>1. used + 1 \in Turns /\ call[used + 1].pc = "idle" /\ used + 1 # a
    BY <1>0, <1>1 DEF CoreInv, FreshInv, Turns, Held
  <2>2. \A t \in Turns : t >= used + 1 => task'[t] = "none" /\ call'[t].pc = "idle" /\ t \notin completed'
    <3> SUFFICES ASSUME NEW t \in Turns, t >= used + 1
                 PROVE  task'[t] = "none" /\ call'[t].pc = "idle" /\ t \notin completed'
      OBVIOUS
    <3>1. task[t] = "none" /\ call[t].pc = "idle" /\ t \notin completed
      BY <1>1 DEF CoreInv, FreshInv
    <3>2. t # a
      BY <1>0, <3>1 DEF Held
    <3>3. t \notin completed'
      BY <1>1, <3>1 DEF LogCore
    <3> QED BY <3>1, <3>2, <3>3, <1>6
  <2>3. log'.unsettled \in 0..used
    BY <1>1 DEF CoreInv, FreshInv, LogCore, NoTurn
  <2> QED BY <1>1, <2>2, <2>3 DEF FreshInv
<1>12. RunInv'
  <2>1. \A t \in Turns : task[t] # "running"
    BY DEF CoreInv, RunInv
  <2> QED BY <1>1, <1>6, <2>1 DEF CoreInv, RunInv
<1>13. CompletedInv'
  BY DEF LogCore, CompletedInv
<1> QED BY <1>7, <1>8, <1>9, <1>10, <1>11, <1>12, <1>13 DEF CoreInv

\* What Goto and leaving (Away) write.
LEMMA GotoFacts ==
    ASSUME Types, NEW a \in Actors,
           NEW p \in CallerPcs \cup RetryPcs \cup ServerPcs \cup TurnPcs, call' = Goto(a, p)
    PROVE  /\ call' \in [Actors -> CallType] /\ Others(a) /\ call'[a].pc = p
           /\ call'[a].kind = call[a].kind /\ call'[a].gate = call[a].gate
           /\ call'[a].turn = call[a].turn /\ call'[a].input = call[a].input
           /\ call'[a].queued = call[a].queued
<1> DEFINE r == [call[a] EXCEPT !.pc = p]
<1>1. call' = [call EXCEPT ![a] = r]
  BY DEF Goto, Types
<1>2. r \in CallType /\ r.pc = p /\ r.kind = call[a].kind /\ r.gate = call[a].gate
      /\ r.turn = call[a].turn /\ r.input = call[a].input /\ r.queued = call[a].queued
  <2>1. call[a] \in CallType
    BY DEF Types
  <2> QED BY <2>1 DEF CallType
<1> HIDE DEF r
<1> QED BY <1>1, <1>2 DEF Types, Others

LEMMA AwayType ==
    Away \in CallType /\ Away.pc = "idle" /\ Away.kind = "None" /\ Away.input = NoInput
BY ActorFacts DEF Away, CallType, CallerPcs, NoTurn

LEMMA AwayFacts ==
    ASSUME Types, NEW a \in Actors, call' = [call EXCEPT ![a] = Away]
    PROVE  /\ call' \in [Actors -> CallType] /\ Others(a) /\ call'[a].pc = "idle"
           /\ call'[a].kind = "None" /\ call'[a].input = NoInput
BY AwayType DEF Types, Others

LEMMA ReleasedFacts ==
    ASSUME Types, NEW g \in 1..MaxGates
    PROVE  Released(g) \in [1..MaxGates -> GateType]
<1>1. gate[g] \in GateType
  BY DEF Types
<1>2. [gate[g] EXCEPT !.holder = Nobody] \in GateType
  BY <1>1 DEF GateType
<1>3. Released(g) = [gate EXCEPT ![g] = [gate[g] EXCEPT !.holder = Nobody]]
  BY DEF Released, Types
<1> QED BY <1>2, <1>3 DEF Types

\* A caller goes on under the gate it holds, or with the close it began.
LEMMA StayInv ==
    ASSUME Types, CoreInv, Types', EntryDrop, TaskKill, LogCore,
           NEW c \in Callers, Others(c), call'[c].kind = call[c].kind,
           call'[c].gate = call[c].gate, call'[c].input = call[c].input,
           \/ Held(c) /\ Aborts(c) /\ call'[c].pc \in {"aborting", "aborted"}
           \/ Closer(c) /\ call'[c].pc \in {"deleting", "closeFails"},
           call'[c].pc \in {"aborted", "deleting"} => entry' = NoEntry,
           gate' = gate, current' = current, exists' = exists, used' = used
    PROVE  CoreInv'
<1> USE ActorFacts
<1>1. ~Starter(c) /\ ~Starter(c)' /\ ~Waits(c)' /\ Held(c)' = Held(c) /\ Closer(c)' = Closer(c)
  BY DEF Held, Starter, Waits, Closer
<1>2. SteadyCalls
  <2>1. \A t \in Turns : call'[t] = call[t]
    BY DEF Others
  <2>2. \A t \in Turns : call'[t].pc \in {"finishing", "locking", "gated"} =>
            task'[t] \in {"sent", "ended", "killed"}
    BY <2>1 DEF TaskKill, Types, CoreInv, RunInv
  <2>3. \A b \in Actors : Starter(b) \/ Starter(b)' => call'[b] = call[b]
    BY <1>1 DEF Others
  <2> QED BY <2>1, <2>2, <2>3 DEF SteadyCalls
<1>3. /\ StartInv' /\ FreshInv' /\ RunInv' /\ CompletedInv'
      /\ IF entry'.state = "None" THEN entry'.turn = NoTurn ELSE entry'.turn \in 1..used'
      /\ entry = NoEntry => entry' = NoEntry
  BY <1>2, SteadyInv
<1>4. \A b \in Actors : /\ Held(b)' = Held(b) /\ Closer(b)' = Closer(b) /\ (Waits(b)' => Waits(b))
                        /\ call'[b].gate = call[b].gate /\ call'[b].kind = call[b].kind
                        /\ call'[b].input = call[b].input
  BY <1>1 DEF Others, Held, Closer, Waits
<1>5. GateInv'
  BY <1>4 DEF CoreInv, GateInv
<1>6. RoleInv'
  BY <1>4 DEF CoreInv, RoleInv, Others, Held, Waits, Closer, Aborts, CallerPcs, RetryPcs, ServerPcs, TurnPcs
<1>7. EntryInv'
  <2>1. \A b \in Callers : call'[b].pc \in {"aborted", "deleting"} => entry' = NoEntry
    BY <1>3 DEF CoreInv, EntryInv, Others
  <2> QED BY <1>3, <1>4, <2>1 DEF CoreInv, EntryInv
<1> QED BY <1>3, <1>5, <1>6, <1>7 DEF CoreInv

----------------------------------------------------------------------------
(* What callers are told.                                                    *)

LEMMA PendingFacts ==
    ASSUME Types
    PROVE  /\ log.pending \in Seq(PendingType) /\ Len(log.pending) \in Nat
           /\ \A k \in 1..Len(log.pending) : log.pending[k] \in PendingType /\ log.pending[k].input \in Inputs
           /\ Waiting \subseteq Inputs
<1>1. log.pending \in Seq(PendingType)
  BY DEF Types, LogType
<1>2. Len(log.pending) \in Nat /\ \A k \in 1..Len(log.pending) : log.pending[k] \in PendingType
  BY <1>1, LenProperties
<1> QED BY <1>1, <1>2 DEF Waiting, PendingType

\* Neither the queue nor an answer changes, and nobody takes an input in hand.
LEMMA TalkFrame ==
    ASSUME Types, TalkInv, log'.pending = log.pending, begun' = begun, answer' = answer,
           \A c \in Callers : InHand(c)' => InHand(c) /\ call'[c].input = call[c].input,
           \A a \in Actors : Starter(a)' => Starter(a) /\ call'[a].input = call[a].input
                                            /\ call'[a].queued = call[a].queued
    PROVE  TalkInv'
<1> USE ActorFacts
<1>1. QueueInv'
  BY DEF TalkInv, QueueInv, Waiting, Distinct
<1>2. HandInv'
  BY DEF TalkInv, HandInv
<1> QED BY <1>1, <1>2 DEF TalkInv

\* A caller is refused: its input is in nobody's hands and not in the queue.
LEMMA TalkRefuse ==
    ASSUME Types, TalkInv, Types', log'.pending = log.pending, begun' = begun,
           NEW c \in Callers, Others(c), ~InHand(c)', ~Starter(c)',
           call[c].input # NoInput => InHand(c), answer' = Answered(c, "refused")
    PROVE  TalkInv'
<1> USE ActorFacts
<1>1. \A d \in Callers : InHand(d)' => d # c /\ InHand(d) /\ call'[d].input = call[d].input
  BY DEF Others, InHand, Held, Waits, Starter
<1>2. \A a \in Actors : Starter(a)' => Starter(a) /\ call'[a].input = call[a].input
                                       /\ call'[a].queued = call[a].queued
  BY DEF Others, Starter
<1>3. CASE call[c].input = NoInput
  BY <1>1, <1>2, <1>3, TalkFrame DEF Answered
<1>4. CASE call[c].input # NoInput
  <2> DEFINE i == call[c].input
  <2>1. InHand(c) /\ i \in Inputs /\ answer[i] = "none"
    BY <1>4 DEF TalkInv, HandInv, Types, CallType
  <2>2. answer' = [answer EXCEPT ![i] = "refused"]
    BY <1>4 DEF Answered
  <2>3. answer'[i] = "refused" /\ \A j \in Inputs : j # i => answer'[j] = answer[j]
    BY <2>1, <2>2 DEF Types
  <2>4. i \notin Waiting
    BY <2>1 DEF TalkInv, QueueInv
  <2>5. QueueInv'
    <3>1. Waiting' = Waiting /\ Waiting \subseteq Inputs
      BY PendingFacts DEF Waiting
    <3> HIDE DEF i
    <3>2. QueueInv
      BY DEF TalkInv
    <3>3. \A j \in Inputs : answer'[j] = "none" => j \notin Waiting' \cup Range(begun')
      BY <2>3, <3>1, <3>2 DEF QueueInv
    <3>4. \A j \in Inputs : answer'[j] \in {"injected", "queued"} => j \in Waiting' \cup Range(begun')
      BY <2>3, <3>1, <3>2 DEF QueueInv
    <3>5. \A j \in Waiting' : answer'[j] \in {"injected", "queued"} /\ j \notin Range(begun')
      BY <2>3, <2>4, <3>1, <3>2 DEF QueueInv
    <3> QED BY <3>2, <3>3, <3>4, <3>5 DEF QueueInv, Distinct
  <2>6. HandInv'
    <3>1. \A d \in Callers : InHand(d)' => answer'[call'[d].input] = "none"
      <4> SUFFICES ASSUME NEW d \in Callers, InHand(d)' PROVE answer'[call'[d].input] = "none"
        OBVIOUS
      <4>1. InHand(d) /\ d # c /\ call'[d].input = call[d].input
        BY <1>1
      <4>2. call[d].input # i /\ answer[call[d].input] = "none" /\ call[d].input \in Inputs
        BY <2>1, <4>1 DEF TalkInv, HandInv, InHand, Types, CallType
      <4> QED BY <2>3, <4>1, <4>2
    <3>2. \A d, e \in Callers : InHand(d)' /\ InHand(e)' /\ call'[d].input = call'[e].input => d = e
      BY <1>1 DEF TalkInv, HandInv
    <3> QED BY <1>2, <3>1, <3>2 DEF TalkInv, HandInv
  <2> QED BY <2>5, <2>6 DEF TalkInv
<1> QED BY <1>3, <1>4

\* An input that nobody knows goes to the end of the queue and its caller is told so.
LEMMA QueueAccept ==
    ASSUME Types, TalkInv, Types', begun' = begun, NEW i \in Inputs, NEW t \in 0..MaxTurns,
           answer[i] = "none", log'.pending = Append(log.pending, [input |-> i, turn |-> t]),
           NEW w \in {"injected", "queued"}, answer' = [answer EXCEPT ![i] = w]
    PROVE  /\ QueueInv'
           /\ \A j \in Inputs : j # i => answer'[j] = answer[j]
           /\ log'.pending # << >>
           /\ log.pending # << >> => log'.pending[1] = log.pending[1]
<1> DEFINE n == Len(log.pending)
           p == [input |-> i, turn |-> t]
<1>0. QueueInv
  BY DEF TalkInv
<1>1. log.pending \in Seq(PendingType) /\ n \in Nat /\ p \in PendingType /\ Waiting \subseteq Inputs
  BY PendingFacts DEF PendingType
<1>2. Len(log'.pending) = n + 1 /\ log'.pending[n + 1] = p
      /\ \A k \in 1..n : log'.pending[k] = log.pending[k]
  <2>1. log'.pending = Append(log.pending, p)
    OBVIOUS
  <2> HIDE DEF p
  <2> QED BY <1>1, <2>1
<1>3. log'.pending # << >> /\ (log.pending # << >> => log'.pending[1] = log.pending[1])
  <2>1. log.pending # << >> => 1 \in 1..n
    BY <1>1
  <2> HIDE DEF n, p
  <2> QED BY <1>1, <1>2, <2>1
<1>4. answer'[i] = w /\ \A j \in Inputs : j # i => answer'[j] = answer[j]
  BY DEF Types
<1>5. Waiting' = Waiting \cup {i}
  <2>1. p.input = i
    OBVIOUS
  <2>2. \A k \in 1..(n + 1) : k \in 1..n \/ k = n + 1
    BY <1>1
  <2>3. \A k \in 1..n : k \in 1..(n + 1)
    BY <1>1
  <2>4. n + 1 \in 1..(n + 1)
    BY <1>1
  <2>5. Waiting' = {log'.pending[k].input : k \in 1..(n + 1)} /\ Waiting = {log.pending[k].input : k \in 1..n}
    BY <1>2 DEF Waiting
  <2> HIDE DEF n, p
  <2> QED BY <1>2, <2>1, <2>2, <2>3, <2>4, <2>5
<1>6. i \notin Waiting /\ i \notin Range(begun)
  BY <1>0 DEF QueueInv
<1>7. \A j, k \in 1..Len(log'.pending) : log'.pending[j].input = log'.pending[k].input => j = k
  <2> SUFFICES ASSUME NEW j \in 1..(n + 1), NEW k \in 1..(n + 1),
                      log'.pending[j].input = log'.pending[k].input, j # k
               PROVE  FALSE
    BY <1>2
  <2>1. \A m \in 1..n : log.pending[m].input # i
    BY <1>6 DEF Waiting
  <2>2. p.input = i
    OBVIOUS
  <2>3. j \in 1..n \/ j = n + 1
    BY <1>1
  <2>4. k \in 1..n \/ k = n + 1
    BY <1>1
  <2>5. \A l, m \in 1..n : log.pending[l].input = log.pending[m].input => l = m
    BY <1>0 DEF QueueInv
  <2> HIDE DEF n, p
  <2> QED BY <1>2, <2>1, <2>2, <2>3, <2>4, <2>5
<1>8. QueueInv'
  <2>1. \A j \in Inputs : answer'[j] = "none" => j \notin Waiting' \cup Range(begun')
    BY <1>0, <1>4, <1>5 DEF QueueInv
  <2>2. \A j \in Inputs : answer'[j] \in {"injected", "queued"} => j \in Waiting' \cup Range(begun')
    BY <1>0, <1>4, <1>5 DEF QueueInv
  <2>3. \A j \in Waiting' : answer'[j] \in {"injected", "queued"} /\ j \notin Range(begun')
    BY <1>0, <1>1, <1>4, <1>5, <1>6 DEF QueueInv
  <2> QED BY <1>0, <1>7, <2>1, <2>2, <2>3 DEF QueueInv, Distinct
<1> QED BY <1>3, <1>4, <1>8

\* accept_pending_input and inject_internal: the caller leaves, the input is queued.
LEMMA TalkAccept ==
    ASSUME Types, TalkInv, Types', begun' = begun, NEW c \in Callers, InHand(c), Others(c),
           ~InHand(c)', ~Starter(c)', NEW t \in 0..MaxTurns,
           log'.pending = Append(log.pending, [input |-> call[c].input, turn |-> t]),
           NEW w \in {"injected", "queued"}, answer' = [answer EXCEPT ![call[c].input] = w]
    PROVE  TalkInv'
<1> USE ActorFacts
<1>1. \A d \in Callers : InHand(d)' => d # c /\ InHand(d) /\ call'[d].input = call[d].input
  BY DEF Others, InHand, Held, Waits, Starter
<1>2. \A a \in Actors : Starter(a)' => Starter(a) /\ call'[a].input = call[a].input
                                       /\ call'[a].queued = call[a].queued
  BY DEF Others, Starter
<1> DEFINE i == call[c].input
<1>3. i \in Inputs /\ answer[i] = "none"
  BY DEF TalkInv, HandInv, InHand, Types, CallType
<1>4. /\ QueueInv' /\ log'.pending # << >>
      /\ \A j \in Inputs : j # i => answer'[j] = answer[j]
      /\ log.pending # << >> => log'.pending[1] = log.pending[1]
  BY <1>3, QueueAccept
<1>5. HandInv'
  <2>1. \A d \in Callers : InHand(d)' => answer'[call'[d].input] = "none"
    <3> SUFFICES ASSUME NEW d \in Callers, InHand(d)' PROVE answer'[call'[d].input] = "none"
      OBVIOUS
    <3>1. InHand(d) /\ d # c /\ call'[d].input = call[d].input
      BY <1>1
    <3>2. call[d].input # i /\ answer[call[d].input] = "none" /\ call[d].input \in Inputs
      BY <3>1 DEF TalkInv, HandInv, InHand, Types, CallType
    <3> QED BY <1>4, <3>1, <3>2
  <2>2. \A d, e \in Callers : InHand(d)' /\ InHand(e)' /\ call'[d].input = call'[e].input => d = e
    BY <1>1 DEF TalkInv, HandInv
  <2> HIDE DEF i
  <2> QED BY <1>2, <1>4, <2>1, <2>2 DEF TalkInv, HandInv
<1> QED BY <1>4, <1>5 DEF TalkInv

\* A start is reserved for the head of the queue or for the caller's own input.
LEMMA TalkReserve ==
    ASSUME Types, TalkInv, StartInv, Types', entry.state # "Reserved",
           log'.pending = log.pending, begun' = begun, answer' = answer,
           NEW a \in Callers \cup Turns \cup {Retry}, NEW i \in Inputs, NEW q \in BOOLEAN,
           reserve_execution(a, i, q),
           q => log.pending # << >> /\ i = log.pending[1].input,
           ~q => a \in Callers /\ InHand(a) /\ i = call[a].input
    PROVE  TalkInv'
<1> USE ActorFacts
<1>1. /\ Others(a) /\ call'[a].pc = "starting" /\ call'[a].input = i /\ call'[a].queued = q
  BY ReserveFacts
<1>2. \A b \in Actors : Starter(b)' => b = a
  BY <1>1 DEF StartInv, Others, Starter
<1>3. \A d \in Callers : InHand(d)' => InHand(d) /\ call'[d].input = call[d].input
  BY <1>1 DEF InHand, Held, Waits, Starter, Others
<1>4. QueueInv'
  BY DEF TalkInv, QueueInv, Waiting, Distinct
<1>5. HandInv'
  BY <1>1, <1>2, <1>3 DEF TalkInv, HandInv
<1> QED BY <1>4, <1>5 DEF TalkInv

\* The caller's input is queued and the head of the queue is reserved in one step.
LEMMA TalkEnqueue ==
    ASSUME Types, TalkInv, StartInv, Types', entry.state # "Reserved", begun' = begun,
           NEW c \in Callers, InHand(c),
           log'.pending = Append(log.pending, [input |-> call[c].input, turn |-> NoTurn]),
           answer' = [answer EXCEPT ![call[c].input] = "queued"],
           reserve_execution(c, log'.pending[1].input, TRUE)
    PROVE  TalkInv'
<1> USE ActorFacts
<1> DEFINE i == call[c].input
<1>1. i \in Inputs /\ answer[i] = "none" /\ NoTurn \in 0..MaxTurns
  BY DEF TalkInv, HandInv, InHand, Types, CallType, NoTurn
<1>2. /\ QueueInv' /\ log'.pending # << >>
      /\ \A j \in Inputs : j # i => answer'[j] = answer[j]
  BY <1>1, QueueAccept
<1>3. log'.pending[1].input \in Inputs
  <2>1. log'.pending \in Seq(PendingType)
    BY DEF Types, LogType
  <2>2. log'.pending[1] \in PendingType
    BY <1>2, <2>1
  <2> QED BY <2>2 DEF PendingType
<1>4. /\ Others(c) /\ call'[c].pc = "starting" /\ call'[c].input = log'.pending[1].input
      /\ call'[c].queued = TRUE
  BY <1>3, ReserveFacts
<1>5. \A b \in Actors : Starter(b)' => b = c
  BY <1>4 DEF StartInv, Others, Starter
<1>6. \A d \in Callers : InHand(d)' => d # c /\ InHand(d) /\ call'[d].input = call[d].input
  BY <1>4 DEF InHand, Held, Waits, Starter, Others
<1>7. HandInv'
  <2>1. \A d \in Callers : InHand(d)' => answer'[call'[d].input] = "none"
    <3> SUFFICES ASSUME NEW d \in Callers, InHand(d)' PROVE answer'[call'[d].input] = "none"
      OBVIOUS
    <3>1. InHand(d) /\ d # c /\ call'[d].input = call[d].input
      BY <1>6
    <3>2. call[d].input # i /\ answer[call[d].input] = "none" /\ call[d].input \in Inputs
      BY <3>1 DEF TalkInv, HandInv, InHand, Types, CallType
    <3> QED BY <1>2, <3>1, <3>2
  <2>2. \A d, e \in Callers : InHand(d)' /\ InHand(e)' /\ call'[d].input = call'[e].input => d = e
    BY <1>6 DEF TalkInv, HandInv
  <2> HIDE DEF i
  <2> QED BY <1>2, <1>4, <1>5, <2>1, <2>2 DEF HandInv
<1> QED BY <1>2, <1>7 DEF TalkInv

\* What is left of the queue when the inputs at some positions are taken out of it.
LEMMA QueueRetain ==
    ASSUME Types, NEW K, K \subseteq 1..Len(log.pending), NEW q, q = Retain(log.pending, K),
           \A j, k \in 1..Len(log.pending) : log.pending[j].input = log.pending[k].input => j = k
    PROVE  /\ q \in Seq(PendingType)
           /\ {q[k].input : k \in 1..Len(q)} = {log.pending[k].input : k \in K}
           /\ \A j, k \in 1..Len(q) : q[j].input = q[k].input => j = k
<1>1. log.pending \in Seq(PendingType)
  BY PendingFacts
<1>2. q \in Seq(PendingType) /\ Lists(q, log.pending, K)
  BY <1>1, RetainFacts
<1>2a. PICK n \in Nat : \E e \in [1..n -> K] :
             /\ \A i, j \in 1..n : e[i] = e[j] => i = j
             /\ \A k \in K : \E j \in 1..n : e[j] = k
             /\ Len(q) = n
             /\ \A j \in 1..n : q[j] = log.pending[e[j]]
  BY <1>2, Zenon DEF Lists
<1>3. PICK e \in [1..n -> K] :
             /\ \A i, j \in 1..n : e[i] = e[j] => i = j
             /\ \A k \in K : \E j \in 1..n : e[j] = k
             /\ Len(q) = n
             /\ \A j \in 1..n : q[j] = log.pending[e[j]]
  BY <1>2a, Zenon
<1>4. \A j \in 1..n : q[j].input = log.pending[e[j]].input /\ e[j] \in K
  BY <1>3
<1>5. \A j \in 1..n : \E k \in K : q[j].input = log.pending[k].input
  BY <1>4
<1>6. \A k \in K : \E j \in 1..n : q[j].input = log.pending[k].input
  BY <1>3, <1>4
<1>7. \A j, k \in 1..n : q[j].input = q[k].input => j = k
  <2> SUFFICES ASSUME NEW j \in 1..n, NEW k \in 1..n, q[j].input = q[k].input PROVE j = k
    OBVIOUS
  <2>1. log.pending[e[j]].input = log.pending[e[k]].input
    BY <1>4
  <2>2. e[j] \in 1..Len(log.pending) /\ e[k] \in 1..Len(log.pending)
    BY <1>4
  <2>3. e[j] = e[k]
    BY <2>1, <2>2
  <2> QED BY <1>3, <2>3
<1>8. Len(q) = n
  BY <1>3
<1>9. {q[k].input : k \in 1..n} = {log.pending[k].input : k \in K}
  <2> DEFINE A == {q[k].input : k \in 1..n}
             B == {log.pending[k].input : k \in K}
  <2>1. \A x \in A : x \in B
    <3> SUFFICES ASSUME NEW j \in 1..n PROVE q[j].input \in B
      BY Zenon
    <3>1. PICK k \in K : q[j].input = log.pending[k].input
      BY <1>5, Zenon
    <3> QED BY <3>1, Zenon
  <2>2. \A x \in B : x \in A
    <3> SUFFICES ASSUME NEW k \in K PROVE log.pending[k].input \in A
      BY Zenon
    <3>1. PICK j \in 1..n : q[j].input = log.pending[k].input
      BY <1>6, Zenon
    <3>2. q[j].input \in A
      BY Zenon
    <3> QED BY <3>1, <3>2, Zenon
  <2> HIDE DEF A, B
  <2>3. A = B
    BY <2>1, <2>2
  <2> QED BY <2>3 DEF A, B
<1> QED BY <1>2, <1>7, <1>8, <1>9

\* Joining user messages that are new to the ones that became durable before.
LEMMA DistinctConcat ==
    ASSUME NEW s \in Seq(Inputs), NEW r \in Seq(Inputs), Distinct(s), Distinct(r),
           Range(s) \cap Range(r) = {}
    PROVE  Range(s \o r) = Range(s) \cup Range(r) /\ Distinct(s \o r)
<1> DEFINE m == Len(s)
           n == Len(r)
           q == s \o r
<1>1. m \in Nat /\ n \in Nat /\ q \in Seq(Inputs) /\ Len(q) = m + n
      /\ DOMAIN s = 1..m /\ DOMAIN r = 1..n /\ DOMAIN q = 1..(m + n)
  BY LenProperties, ConcatProperties
<1>2. \A k \in 1..(m + n) : q[k] = IF k <= m THEN s[k] ELSE r[k - m]
  BY ConcatProperties
<1>3. \A k \in 1..m : k \in 1..(m + n) /\ q[k] = s[k]
  BY <1>1, <1>2
<1>4. \A k \in 1..n : k + m \in 1..(m + n) /\ q[k + m] = r[k]
  BY <1>1, <1>2
<1>4a. \A k \in 1..(m + n) : k - m \in 1..n => q[k] = r[k - m]
  BY <1>1, <1>2
<1>5. \A k \in 1..(m + n) : k \in 1..m \/ (k - m \in 1..n /\ k = (k - m) + m)
  BY <1>1
<1>6. Range(s) = {s[k] : k \in 1..m} /\ Range(r) = {r[k] : k \in 1..n} /\ Range(q) = {q[k] : k \in 1..(m + n)}
  BY <1>1 DEF Range
<1> HIDE DEF m, n, q
<1>7. Range(q) = Range(s) \cup Range(r)
  <2>1. \A x \in Range(q) : x \in Range(s) \cup Range(r)
    BY <1>3, <1>4, <1>5, <1>6
  <2>2. \A x \in Range(s) : x \in Range(q)
    BY <1>3, <1>6
  <2>3. \A x \in Range(r) : x \in Range(q)
    BY <1>4, <1>6
  <2> QED BY <2>1, <2>2, <2>3
<1>8. Distinct(q)
  <2> SUFFICES ASSUME NEW j \in 1..(m + n), NEW k \in 1..(m + n), q[j] = q[k] PROVE j = k
    BY <1>1 DEF Distinct, q
  <2>1. \A i, l \in 1..m : s[i] = s[l] => i = l
    BY DEF Distinct, m
  <2>2. \A i, l \in 1..n : r[i] = r[l] => i = l
    BY DEF Distinct, n
  <2>3. \A i \in 1..m, l \in 1..n : s[i] # r[l]
    BY <1>6
  <2>4. CASE j \in 1..m /\ k \in 1..m
    BY <1>3, <2>1, <2>4
  <2>5. CASE j \in 1..m /\ k - m \in 1..n
    BY <1>3, <1>4a, <2>3, <2>5
  <2>6. CASE j - m \in 1..n /\ k \in 1..m
    BY <1>3, <1>4a, <2>3, <2>6
  <2>7. CASE j - m \in 1..n /\ k - m \in 1..n
    <3>1. r[j - m] = r[k - m]
      BY <1>4a, <2>7
    <3>2. j - m = k - m
      BY <2>2, <2>7, <3>1
    <3> QED BY <1>1, <3>2
  <2> QED BY <1>5, <2>4, <2>5, <2>6, <2>7
<1> QED BY <1>7, <1>8 DEF q

\* A reserved start consumes its input: it leaves the queue, if it was there, and
\* becomes a user message.
LEMMA TalkConsume ==
    ASSUME Types, TalkInv, StartInv, Types', NEW a \in Callers \cup Turns \cup {Retry}, Starter(a),
           \A b \in Actors : ~Starter(b)',
           \A c \in Callers : InHand(c)' => c # a /\ InHand(c) /\ call'[c].input = call[c].input,
           log'.pending = Retain(log.pending, {k \in 1..Len(log.pending) : log.pending[k].input # call[a].input}),
           begun' = Append(begun, call[a].input),
           NEW w \in {"started", "refused"},
           answer' = IF call[a].queued THEN answer ELSE [answer EXCEPT ![call[a].input] = w]
    PROVE  TalkInv'
<1> USE ActorFacts
<1> DEFINE i == call[a].input
           K == {k \in 1..Len(log.pending) : log.pending[k].input # i}
<1>0. QueueInv /\ HandInv
  BY DEF TalkInv
<1>1. i \in Inputs /\ a \in Actors
  BY DEF StartInv
<1>2. IF call[a].queued
      THEN i \in Waiting /\ answer[i] \in {"injected", "queued"}
      ELSE a \in Callers /\ InHand(a) /\ answer[i] = "none" /\ i \notin Waiting
  <2>1. CASE call[a].queued
    <3>1. log.pending # << >> /\ log.pending[1].input = i
      BY <1>0, <1>1, <2>1 DEF HandInv
    <3>2. 1 \in 1..Len(log.pending)
      BY <3>1, PendingFacts
    <3>3. i \in Waiting
      BY <3>1, <3>2 DEF Waiting
    <3> QED BY <1>0, <2>1, <3>3 DEF QueueInv
  <2>2. CASE ~call[a].queued
    <3>1. a \in Callers
      BY <1>0, <2>2 DEF HandInv
    <3>2. InHand(a)
      BY <1>1, <2>2 DEF InHand
    <3> QED BY <1>0, <1>1, <2>2, <3>1, <3>2 DEF HandInv, QueueInv
  <2> QED BY <2>1, <2>2
<1>3. i \notin Range(begun)
  BY <1>0, <1>1, <1>2 DEF QueueInv
<1>4. Range(begun') = Range(begun) \cup {i} /\ Distinct(begun')
  <2>1. begun \in Seq(Inputs) /\ <<i>> \in Seq(Inputs)
    BY <1>1 DEF Types
  <2>2. begun' = begun \o <<i>>
    BY <2>1
  <2>3. Range(<<i>>) = {i} /\ Distinct(<<i>>)
    BY DEF Range, Distinct
  <2>4. Distinct(begun)
    BY <1>0 DEF QueueInv
  <2> HIDE DEF i
  <2>5. Range(begun) \cap Range(<<i>>) = {}
    BY <1>3, <2>3
  <2>6. Range(begun \o <<i>>) = Range(begun) \cup Range(<<i>>) /\ Distinct(begun \o <<i>>)
    BY <2>1, <2>3, <2>4, <2>5, DistinctConcat
  <2> QED BY <2>2, <2>3, <2>6
<1>5. /\ Waiting' = Waiting \ {i}
      /\ \A j, k \in 1..Len(log'.pending) : log'.pending[j].input = log'.pending[k].input => j = k
  <2>1. /\ {log'.pending[k].input : k \in 1..Len(log'.pending)} = {log.pending[k].input : k \in K}
        /\ \A j, k \in 1..Len(log'.pending) : log'.pending[j].input = log'.pending[k].input => j = k
    BY <1>0, QueueRetain DEF QueueInv
  <2>2. {log.pending[k].input : k \in K} = Waiting \ {i}
    BY DEF Waiting
  <2> QED BY <2>1, <2>2 DEF Waiting
<1>6. \A j \in Inputs : j # i => answer'[j] = answer[j]
  BY <1>1 DEF Types
<1>7. answer'[i] = IF call[a].queued THEN answer[i] ELSE w
  BY <1>1 DEF Types
<1>8. Waiting \subseteq Inputs
  BY PendingFacts
<1> HIDE DEF i, K
<1>9. QueueInv'
  <2>1. \A j \in Inputs : answer'[j] = "none" => j \notin Waiting' \cup Range(begun')
    BY <1>0, <1>2, <1>4, <1>5, <1>6, <1>7 DEF QueueInv
  <2>2. \A j \in Inputs : answer'[j] \in {"injected", "queued"} => j \in Waiting' \cup Range(begun')
    BY <1>0, <1>2, <1>4, <1>5, <1>6, <1>7 DEF QueueInv
  <2>3. \A j \in Waiting' : answer'[j] \in {"injected", "queued"} /\ j \notin Range(begun')
    BY <1>0, <1>4, <1>5, <1>6, <1>8 DEF QueueInv
  <2> QED BY <1>4, <1>5, <2>1, <2>2, <2>3 DEF QueueInv
<1>10. HandInv'
  <2>1. \A d \in Callers : InHand(d)' => answer'[call'[d].input] = "none"
    <3> SUFFICES ASSUME NEW d \in Callers, InHand(d)' PROVE answer'[call'[d].input] = "none"
      OBVIOUS
    <3>1. InHand(d) /\ d # a /\ call'[d].input = call[d].input
      OBVIOUS
    <3>2. answer[call[d].input] = "none" /\ call[d].input \in Inputs
      BY <1>0, <3>1 DEF HandInv, InHand, Types, CallType
    <3>3. call[d].input # i
      BY <1>0, <1>2, <3>1, <3>2 DEF HandInv, i
    <3> QED BY <1>6, <3>1, <3>2, <3>3
  <2>2. \A d, e \in Callers : InHand(d)' /\ InHand(e)' /\ call'[d].input = call'[e].input => d = e
    BY <1>0 DEF HandInv
  <2> QED BY <2>1, <2>2 DEF HandInv
<1> QED BY <1>9, <1>10 DEF TalkInv

----------------------------------------------------------------------------
(* The steps of a caller under the gate.                                     *)

LEMMA IndInvParts ==
    /\ IndInv <=> Types /\ CoreInv /\ TalkInv
    /\ IndInv' <=> Types' /\ CoreInv' /\ TalkInv'
BY DEF IndInv, CoreInv, TalkInv

LEMMA LogSame ==
    ASSUME CoreInv, log'.unsettled = log.unsettled, completed' = completed
    PROVE  LogCore
BY DEF CoreInv, CompletedInv, LogCore

\* A settled log is one that LogCore allows.
LEMMA LogSettled ==
    ASSUME NEW t \in Turns, Settled(log', completed', t), t <= used,
           entry.state # "Reserved"
    PROVE  LogCore /\ log' \in LogType /\ log'.pending = log.pending
BY DEF Settled, LogCore, Turns

LEMMA ReturnFacts ==
    ASSUME Types, NEW a \in Callers \cup {Retry}, NEW w \in Words, Return(a, w)
    PROVE  /\ gate' = Released(call[a].gate) /\ gate' \in [1..MaxGates -> GateType]
           /\ call' \in [Actors -> CallType] /\ Others(a) /\ call'[a].pc = "idle"
           /\ call'[a].kind = "None" /\ call'[a].input = NoInput
           /\ answer' \in [Inputs -> Words]
           /\ ~InHand(a)' /\ ~Starter(a)'
<1> USE ActorFacts
<1>1. /\ call' \in [Actors -> CallType] /\ Others(a) /\ call'[a].pc = "idle"
      /\ call'[a].kind = "None" /\ call'[a].input = NoInput
  BY AwayFacts DEF Return
<1>2. call[a] \in CallType
  BY DEF Types
<1>3. gate' = Released(call[a].gate) /\ gate' \in [1..MaxGates -> GateType]
  BY <1>2, ReleasedFacts DEF Return, CallType
<1>4. answer' \in [Inputs -> Words]
  BY <1>2 DEF Return, Answered, Types, CallType
<1> QED BY <1>1, <1>3, <1>4 DEF InHand, Starter

LEMMA RefuseStep ==
    ASSUME IndInv, NEW c \in Callers, Held(c), Return(c, "refused"),
           UNCHANGED <<log, begun, completed, entry, task>>, Quiet
    PROVE  IndInv'
<1> USE ActorFacts, IndInvParts
<1>1. /\ log' = log /\ begun' = begun /\ completed' = completed /\ entry' = entry /\ task' = task
      /\ used' = used /\ current' = current /\ exists' = exists
  BY DEF Quiet
<1>2. Types'
  BY <1>1, ReturnFacts DEF Types, Words
<1>3. "refused" \in Words
  BY DEF Words
<1>4. LogCore /\ EntryDrop /\ TaskKill
  BY <1>1, LogSame DEF EntryDrop, TaskKill
<1>5. CoreInv'
  BY <1>1, <1>2, <1>3, <1>4, ReturnFacts, LeaveInv
<1>6. TalkInv'
  BY <1>1, <1>2, <1>3, ReturnFacts, TalkRefuse DEF InHand, Return
<1> QED BY <1>2, <1>5, <1>6

LEMMA AcceptInputStep ==
    ASSUME IndInv, NEW c \in Callers, Held(c), call[c].input \in Inputs,
           NEW t \in 0..MaxTurns, AcceptInput(c, t)
    PROVE  IndInv'
<1> USE ActorFacts, IndInvParts
<1>1. CASE /\ t # NoTurn \/ Len(log.pending) < MaxPending
           /\ log' = Accepted(log, call[c].input, t)
           /\ Return(c, IF t = NoTurn THEN "queued" ELSE "injected")
           /\ UNCHANGED <<begun, completed, entry, task, cancelled, retry, failures>> /\ Quiet
  <2> DEFINE w == IF t = NoTurn THEN "queued" ELSE "injected"
             p == [input |-> call[c].input, turn |-> t]
  <2>1. /\ begun' = begun /\ completed' = completed /\ entry' = entry /\ task' = task
        /\ used' = used /\ current' = current /\ exists' = exists
    BY <1>1 DEF Quiet
  <2>2. w \in Words /\ w \in {"injected", "queued"} /\ Return(c, w)
    BY <1>1 DEF Words
  <2>3. p \in PendingType /\ log.pending \in Seq(PendingType) /\ log \in LogType
    BY PendingFacts DEF PendingType, Types
  <2>4. Append(log.pending, p) \in Seq(PendingType)
    <3> HIDE DEF p
    <3> QED BY <2>3
  <2>5. log' = [log EXCEPT !.pending = Append(log.pending, p)]
    BY <1>1 DEF Accepted
  <2>6. log' \in LogType /\ log'.pending = Append(log.pending, p) /\ log'.unsettled = log.unsettled
    <3> HIDE DEF p
    <3> QED BY <2>3, <2>4, <2>5, SetPending
  <2> HIDE DEF w
  <2>7. Types'
    BY <2>1, <2>2, <2>6, ReturnFacts DEF Types
  <2>8. LogCore /\ EntryDrop /\ TaskKill
    BY <2>1, <2>6, LogSame DEF EntryDrop, TaskKill
  <2>9. CoreInv'
    BY <2>1, <2>2, <2>7, <2>8, ReturnFacts, LeaveInv
  <2>10. call[c].input # NoInput /\ InHand(c)
    BY DEF InHand
  <2>11. answer' = [answer EXCEPT ![call[c].input] = w]
    BY <2>2, <2>10 DEF Return, Answered
  <2>12. Others(c) /\ ~InHand(c)' /\ ~Starter(c)'
    BY <2>2, ReturnFacts
  <2>13. TalkInv'
    BY <2>1, <2>2, <2>6, <2>7, <2>10, <2>11, <2>12, TalkAccept
  <2> QED BY <2>7, <2>9, <2>13
<1>2. CASE Refuse(c)
  BY <1>2, RefuseStep DEF Refuse
<1>3. CASE /\ Fail /\ Return(c, "refused")
           /\ UNCHANGED <<log, begun, completed, entry, task, cancelled, retry>> /\ Quiet
  BY <1>3, RefuseStep
<1> QED BY <1>1, <1>2, <1>3 DEF AcceptInput

LEMMA StartInputStep ==
    ASSUME IndInv, NEW c \in Callers, call[c].pc = "gated", call[c].input \in Inputs, StartInput(c)
    PROVE  IndInv'
<1> USE ActorFacts, IndInvParts
<1>0. Held(c) /\ call[c].input # NoInput /\ InHand(c)
  BY DEF Held, InHand
<1>1. CASE /\ entry = NoEntry
           /\ reserve_execution(c, call[c].input, FALSE)
           /\ UNCHANGED <<log, begun, completed, task, cancelled, final, current, answer, retry,
                          exists, accepting, down, failures, stops, controls>>
  <2>1. /\ log' = log /\ begun' = begun /\ completed' = completed /\ task' = task
        /\ current' = current /\ exists' = exists /\ answer' = answer
    BY <1>1
  <2>2. Types'
    BY <1>1, <2>1, ReserveTypes DEF Types
  <2>3. LogCore
    BY <2>1, LogSame
  <2>4. ~gate[call[c].gate].closing /\ entry.state = "None"
    BY <1>0, <1>1 DEF CoreInv, GateInv, NoEntry
  <2>5. CoreInv'
    BY <1>1, <2>1, <2>2, <2>3, <2>4, ReserveInv
  <2>6. TalkInv'
    BY <1>0, <1>1, <2>1, <2>2, <2>4, TalkReserve DEF CoreInv
  <2> QED BY <2>2, <2>5, <2>6
<1>2. CASE entry # NoEntry /\ Refuse(c)
  BY <1>0, <1>2, RefuseStep DEF Refuse
<1> QED BY <1>1, <1>2 DEF StartInput

LEMMA RunningFacts ==
    ASSUME Types, CoreInv, entry.state = "Running"
    PROVE  entry.turn \in Turns /\ entry.turn <= used /\ entry # NoEntry /\ exists
BY ActorFacts DEF CoreInv, EntryInv, Types, Turns, NoEntry

\* What settling a finished turn, or nothing, makes of the log.
LEMMA SettleFacts ==
    ASSUME Types, CoreInv, NEW l, NEW done,
           \/ entry = NoEntry /\ l = log /\ done = completed
           \/ is_finished /\ l = SettledLog(entry.turn) /\ done = SettledTurns(entry.turn)
    PROVE  /\ l \in LogType /\ l.pending = log.pending /\ done \subseteq Turns
           /\ entry.state # "Reserved" /\ (entry.state = "Running" => task[entry.turn] # "running")
           /\ \A m : m.unsettled = l.unsettled /\ log' = m /\ completed' = done => LogCore
<1> USE ActorFacts
<1>1. CASE entry = NoEntry /\ l = log /\ done = completed
  BY <1>1, LogSame DEF Types, NoEntry
<1>2. CASE is_finished /\ l = SettledLog(entry.turn) /\ done = SettledTurns(entry.turn)
  <2>1. entry.state = "Running" /\ task[entry.turn] # "running"
    BY <1>2 DEF is_finished
  <2>2. entry.turn \in Turns /\ entry.turn <= used
    BY <2>1, RunningFacts
  <2>3. Settled(l, done, entry.turn)
    BY <1>2, <2>2, SettledLogSettles DEF CoreInv
  <2>4. l \in LogType /\ l.pending = log.pending /\ done \subseteq Turns
    BY <2>2, <2>3 DEF Settled, Types
  <2>5. ASSUME NEW m, m.unsettled = l.unsettled, log' = m, completed' = done PROVE LogCore
    <3>1. \A t \in done : t \in completed \/ (t \in 1..used /\ entry.state # "Reserved")
      BY <2>1, <2>2, <2>3 DEF Settled, Turns
    <3> QED BY <2>3, <2>5, <3>1 DEF Settled, LogCore
  <2> QED BY <2>1, <2>4, <2>5
<1> QED BY <1>1, <1>2

LEMMA EnqueueStep ==
    ASSUME IndInv, NEW c \in Callers, call[c].pc = "gated", call[c].input \in Inputs,
           NEW l, NEW done, EnqueueAndStartHead(c, l, done),
           \/ entry = NoEntry /\ l = log /\ done = completed
           \/ is_finished /\ l = SettledLog(entry.turn) /\ done = SettledTurns(entry.turn)
    PROVE  IndInv'
<1> USE ActorFacts, IndInvParts
<1>0. Held(c) /\ call[c].input # NoInput /\ InHand(c)
  BY DEF Held, InHand
<1>1. /\ l \in LogType /\ l.pending = log.pending /\ done \subseteq Turns
      /\ entry.state # "Reserved" /\ (entry.state = "Running" => task[entry.turn] # "running")
      /\ \A m : m.unsettled = l.unsettled /\ log' = m /\ completed' = done => LogCore
  BY SettleFacts
<1>2. CASE /\ Len(l.pending) < MaxPending
           /\ log' = Accepted(l, call[c].input, NoTurn) /\ completed' = done
           /\ answer' = Answered(c, "queued")
           /\ reserve_execution(c, Head(log'.pending).input, TRUE)
           /\ UNCHANGED <<begun, task, cancelled, final, current, retry, exists, accepting, down,
                          failures, stops, controls>>
  <2> DEFINE p == [input |-> call[c].input, turn |-> NoTurn]
  <2>1. begun' = begun /\ task' = task /\ current' = current /\ exists' = exists
    BY <1>2
  <2>2. p \in PendingType /\ log.pending \in Seq(PendingType)
    BY PendingFacts DEF PendingType, NoTurn
  <2>3. Append(log.pending, p) \in Seq(PendingType) /\ Append(log.pending, p) # << >>
    <3> HIDE DEF p
    <3> QED BY <2>2
  <2>4. log' = [l EXCEPT !.pending = Append(log.pending, p)]
    BY <1>1, <1>2 DEF Accepted
  <2>5. log' \in LogType /\ log'.pending = Append(log.pending, p) /\ log'.unsettled = l.unsettled
    <3> HIDE DEF p
    <3> QED BY <1>1, <2>3, <2>4, SetPending
  <2>6. log'.pending[1] \in PendingType /\ Head(log'.pending) = log'.pending[1]
    <3> HIDE DEF p
    <3> QED BY <2>3, <2>5
  <2>7. log'.pending[1].input \in Inputs /\ reserve_execution(c, log'.pending[1].input, TRUE)
    BY <1>2, <2>6 DEF PendingType
  <2>8. answer' = [answer EXCEPT ![call[c].input] = "queued"]
    BY <1>0, <1>2 DEF Answered
  <2>9. Types'
    <3>1. answer' \in [Inputs -> Words]
      BY <2>8 DEF Types, Words
    <3> QED BY <1>1, <1>2, <2>1, <2>5, <2>7, <3>1, ReserveTypes DEF Types
  <2>10. LogCore
    BY <1>1, <1>2, <2>5
  <2>11. ~gate[call[c].gate].closing
    BY <1>0 DEF CoreInv, GateInv
  <2>12. CoreInv'
    BY <1>1, <2>1, <2>7, <2>9, <2>10, <2>11, ReserveInv
  <2>13. TalkInv'
    BY <1>0, <1>1, <2>1, <2>5, <2>7, <2>8, <2>9, TalkEnqueue DEF CoreInv
  <2> QED BY <2>9, <2>12, <2>13
<1>3. CASE /\ Len(l.pending) >= MaxPending
           /\ log' = l /\ completed' = done /\ entry' = NoEntry
           /\ Return(c, "refused")
           /\ UNCHANGED <<begun, task, cancelled, retry, failures>> /\ Quiet
  <2>1. begun' = begun /\ task' = task /\ current' = current /\ exists' = exists /\ used' = used
    BY <1>3 DEF Quiet
  <2>2. "refused" \in Words /\ NoEntry \in [turn : 0..MaxTurns, state : {"None", "Reserved", "Running"}]
    BY DEF Words, NoEntry, NoTurn
  <2>3. Types'
    BY <1>1, <1>3, <2>1, <2>2, ReturnFacts DEF Types
  <2>4. LogCore /\ EntryDrop /\ TaskKill
    BY <1>1, <1>3, <2>1 DEF EntryDrop, TaskKill
  <2>5. CoreInv'
    BY <1>0, <1>3, <2>1, <2>2, <2>3, <2>4, ReturnFacts, LeaveInv
  <2>6. TalkInv'
    BY <1>0, <1>1, <1>3, <2>1, <2>2, <2>3, ReturnFacts, TalkRefuse DEF Return
  <2> QED BY <2>3, <2>5, <2>6
<1> QED BY <1>2, <1>3 DEF EnqueueAndStartHead

LEMMA DeliverInHand ==
    ASSUME IndInv, NEW c \in Callers, NEW k \in Deliveries, Gated(c, k)
    PROVE  call[c].pc = "gated" /\ Held(c) /\ call[c].input \in Inputs
BY DEF Gated, IndInv, RoleInv, Held

LEMMA StartNewStep ==
    ASSUME IndInv, NEW c \in Callers, start_new(c) PROVE IndInv'
<1>1. call[c].pc = "gated" /\ Held(c) /\ call[c].input \in Inputs
  BY DeliverInHand DEF start_new, Deliveries
<1> QED BY <1>1, RefuseStep, StartInputStep DEF start_new, Refuse

LEMMA InjectOnlyStep ==
    ASSUME IndInv, NEW c \in Callers, inject_only(c) PROVE IndInv'
<1>1. call[c].pc = "gated" /\ Held(c) /\ call[c].input \in Inputs
  BY DeliverInHand DEF inject_only, Deliveries
<1>2. entry.turn \in 0..MaxTurns
  BY DEF IndInv, Types
<1> QED BY <1>1, <1>2, RefuseStep, AcceptInputStep DEF inject_only, Refuse

LEMMA InjectElseStartStep ==
    ASSUME IndInv, NEW c \in Callers, inject_if_running_else_start(c) PROVE IndInv'
<1>1. call[c].pc = "gated" /\ Held(c) /\ call[c].input \in Inputs
  BY DeliverInHand DEF inject_if_running_else_start, Deliveries
<1>2. entry.turn \in 0..MaxTurns /\ NoTurn \in 0..MaxTurns
  BY ActorFacts DEF IndInv, Types, NoTurn
<1>3. \/ AcceptInput(c, NoTurn) \/ AcceptInput(c, entry.turn)
      \/ (entry = NoEntry /\ EnqueueAndStartHead(c, log, completed)) \/ StartInput(c)
  BY DEF inject_if_running_else_start
<1> QED BY <1>1, <1>2, <1>3, AcceptInputStep, EnqueueStep, StartInputStep

LEMMA QueueElseStartStep ==
    ASSUME IndInv, NEW c \in Callers, queue_if_running_else_start(c) PROVE IndInv'
<1>1. call[c].pc = "gated" /\ Held(c) /\ call[c].input \in Inputs
  BY DeliverInHand DEF queue_if_running_else_start, Deliveries
<1>2. NoTurn \in 0..MaxTurns
  BY ActorFacts DEF NoTurn
<1>3. \/ AcceptInput(c, NoTurn)
      \/ is_finished /\ EnqueueAndStartHead(c, SettledLog(entry.turn), SettledTurns(entry.turn))
      \/ (entry = NoEntry /\ EnqueueAndStartHead(c, log, completed)) \/ StartInput(c)
  BY DEF queue_if_running_else_start
<1> QED BY <1>1, <1>2, <1>3, AcceptInputStep, EnqueueStep, StartInputStep

----------------------------------------------------------------------------
(* Entering the gate.                                                        *)

LEMMA RequestStep ==
    ASSUME IndInv, NEW c \in Callers, NEW k \in Kinds, NEW i \in Inputs \cup {NoInput}, request(c, k, i)
    PROVE  IndInv'
<1> USE ActorFacts, IndInvParts
<1>1. UNCHANGED <<log, begun, completed, entry, used, task, gate, current, answer, exists>>
  BY DEF request
<1>1a. k \in AllKinds /\ k \in AllKinds \cup {"None"}
  BY TurnSchedulerAssumption
<1>2. /\ call' \in [Actors -> CallType] /\ Others(c) /\ call'[c].pc = "locking"
      /\ call'[c].kind = k /\ call'[c].gate = current /\ call'[c].input = i
  <2> DEFINE r1 == [Away EXCEPT !.pc = "locking"]
             r2 == [r1 EXCEPT !.kind = k]
             r3 == [r2 EXCEPT !.gate = current]
             r4 == [r3 EXCEPT !.input = i]
  <2>1. call' = [call EXCEPT ![c] = r4]
    BY DEF request
  <2>2. r1 \in CallType /\ r1.pc = "locking"
    BY AwayType DEF CallType, CallerPcs
  <2>3. r2 \in CallType /\ r2.pc = "locking" /\ r2.kind = k
    <3> HIDE DEF r1
    <3> QED BY <1>1a, <2>2 DEF CallType
  <2>4. r3 \in CallType /\ r3.pc = "locking" /\ r3.kind = k /\ r3.gate = current
    <3> HIDE DEF r2
    <3>1. current \in 1..MaxGates
      BY DEF Types
    <3> QED BY <2>3, <3>1 DEF CallType
  <2>5. r4 \in CallType /\ r4.pc = "locking" /\ r4.kind = k /\ r4.gate = current /\ r4.input = i
    <3> HIDE DEF r3
    <3> QED BY <2>4 DEF CallType
  <2> HIDE DEF r4
  <2> QED BY <2>1, <2>5 DEF Types, Others
<1>3. call[c] = Away /\ call[c].pc = "idle"
  BY DEF request, Away
<1>4. IF k \in Deliveries THEN i \in Inputs ELSE i = NoInput
  BY <1>1a DEF request, Deliveries, AllKinds
<1>5. Types'
  BY <1>1, <1>2 DEF Types
<1>6. \A b \in Actors : /\ Starter(b)' = Starter(b) /\ Held(b)' = Held(b) /\ Closer(b)' = Closer(b)
                        /\ (Waits(b)' => Waits(b) \/ b = c) /\ (b # c => call'[b] = call[b])
  BY <1>2, <1>3 DEF Others, Starter, Held, Closer, Waits
<1>6a. ~Held(c)' /\ ~Closer(c)' /\ ~Starter(c)'
  BY <1>2 DEF Starter, Held, Closer
<1>7. LogCore /\ EntryDrop /\ TaskKill
  BY <1>1, LogSame DEF EntryDrop, TaskKill
<1>8. SteadyCalls
  <2>1. \A t \in Turns : call'[t] = call[t]
    BY <1>6
  <2> QED BY <1>1, <1>6, <1>6a, <2>1 DEF SteadyCalls, CoreInv, RunInv
<1>9. /\ StartInv' /\ FreshInv' /\ RunInv' /\ CompletedInv'
      /\ IF entry'.state = "None" THEN entry'.turn = NoTurn ELSE entry'.turn \in 1..used'
  BY <1>1, <1>5, <1>7, <1>8, SteadyInv
<1>10. EntryInv'
  BY <1>1, <1>2, <1>6, <1>9 DEF CoreInv, EntryInv
<1>11. GateInv'
  <2>1. k = "Close" => current < MaxGates
    BY DEF request
  <2> QED BY <1>1, <1>2, <1>6, <1>6a, <2>1 DEF CoreInv, GateInv
<1>12. RoleInv'
  BY <1>2, <1>4, <1>6, <1>6a DEF CoreInv, RoleInv, Aborts, Others, Held, Waits, CallerPcs
<1>13. TalkInv'
  <2>1. QueueInv'
    BY <1>1 DEF TalkInv, QueueInv, Waiting, Distinct
  <2>2. i # NoInput => answer[i] = "none" /\ \A d \in Callers : call[d].input # i
    BY DEF request
  <2>3. \A d \in Callers : d # c => (InHand(d)' => InHand(d) /\ call'[d].input = call[d].input)
    BY <1>6 DEF InHand, Held, Waits, Starter
  <2>4. InHand(c)' => i # NoInput
    BY <1>2 DEF InHand
  <2>5. \A d \in Callers : InHand(d)' => answer'[call'[d].input] = "none"
    BY <1>1, <1>2, <2>2, <2>3, <2>4 DEF TalkInv, HandInv
  <2>6. \A d, e \in Callers : InHand(d)' /\ InHand(e)' /\ call'[d].input = call'[e].input => d = e
    BY <1>1, <1>2, <2>2, <2>3, <2>4 DEF TalkInv, HandInv
  <2>7. \A b \in Actors : Starter(b)' => Starter(b) /\ call'[b] = call[b]
    BY <1>6, <1>6a
  <2> QED BY <1>1, <2>1, <2>5, <2>6, <2>7 DEF TalkInv, HandInv
<1> QED BY <1>5, <1>9, <1>10, <1>11, <1>12, <1>13 DEF CoreInv

\* begin: refused, or the gate is taken.
LEMMA BeginStep ==
    ASSUME IndInv, NEW a \in Actors, begin(a)
    PROVE  IndInv'
<1> USE ActorFacts, IndInvParts
<1>1. UNCHANGED <<log, begun, completed, entry, used, task, current, exists>> /\ call[a].pc = "locking"
  BY DEF begin, Quiet
<1>1a. call[a] \in CallType /\ call[a].gate \in 1..MaxGates
  BY DEF Types, CallType
<1>2. LogCore /\ EntryDrop /\ TaskKill
  BY <1>1, LogSame DEF EntryDrop, TaskKill
<1>3. ~Starter(a) /\ Waits(a) /\ ~Held(a) /\ ~Closer(a)
  BY <1>1 DEF Starter, Waits, Held, Closer
<1>4. CASE /\ a \notin Turns \cup {Server}
           /\ call' = [call EXCEPT ![a] = Away] /\ answer' = Answered(a, "refused") /\ UNCHANGED gate
  <2>1. /\ call' \in [Actors -> CallType] /\ Others(a) /\ call'[a].pc = "idle"
        /\ call'[a].kind = "None" /\ call'[a].input = NoInput
    BY <1>4, AwayFacts
  <2>2. ~Held(a)' /\ ~Waits(a)' /\ ~Closer(a)' /\ ~Starter(a)' /\ ~InHand(a)'
    BY <2>1 DEF Starter, Waits, Held, Closer, InHand
  <2>3. Types'
    <3>1. answer' \in [Inputs -> Words]
      BY <1>1a, <1>4 DEF Answered, Types, Words, CallType
    <3> QED BY <1>1, <1>4, <2>1, <3>1 DEF Types
  <2>4. \A b \in Actors : /\ Starter(b)' = Starter(b) /\ Held(b)' = Held(b) /\ Closer(b)' = Closer(b)
                          /\ (Waits(b)' => Waits(b)) /\ (b # a => call'[b] = call[b])
    BY <1>3, <2>1, <2>2 DEF Others, Starter, Held, Closer, Waits
  <2>5. SteadyCalls
    <3>1. \A t \in Turns : call'[t] = call[t]
      BY <1>4, <2>4
    <3> QED BY <1>1, <2>2, <2>4, <3>1 DEF SteadyCalls, CoreInv, RunInv
  <2>6. /\ StartInv' /\ FreshInv' /\ RunInv' /\ CompletedInv'
        /\ IF entry'.state = "None" THEN entry'.turn = NoTurn ELSE entry'.turn \in 1..used'
    BY <1>1, <1>2, <2>3, <2>5, SteadyInv
  <2>7. EntryInv'
    BY <1>1, <1>4, <2>1, <2>4, <2>6 DEF CoreInv, EntryInv
  <2>8. GateInv'
    BY <1>1, <1>4, <2>1, <2>2, <2>4 DEF CoreInv, GateInv
  <2>9. RoleInv'
    BY <1>4, <2>1, <2>2 DEF CoreInv, RoleInv, Aborts, Others, Held, Waits, Closer, CallerPcs, RetryPcs
  <2>10. TalkInv'
    <3>1. CASE a \in Callers
      BY <1>1, <1>3, <1>4, <2>1, <2>2, <2>3, <3>1, TalkRefuse DEF InHand
    <3>2. CASE a = Retry
      <4>1. answer' = answer
        BY <1>3, <1>4, <3>2 DEF CoreInv, RoleInv, Answered
      <4>2. \A d \in Callers : InHand(d)' => InHand(d) /\ call'[d].input = call[d].input
        BY <2>4, <3>2 DEF InHand, Held, Waits, Starter
      <4> QED BY <1>1, <2>2, <2>4, <4>1, <4>2, TalkFrame
    <3> QED BY <1>4, <3>1, <3>2
  <2> QED BY <2>3, <2>6, <2>7, <2>8, <2>9, <2>10 DEF CoreInv
<1>5. CASE /\ a \in Turns \cup {Server} \/ (~gate[call[a].gate].closing /\ exists)
           /\ gate[call[a].gate].holder = Nobody
           /\ gate' = [gate EXCEPT ![call[a].gate].holder = a]
           /\ call' = Goto(a, "gated") /\ UNCHANGED answer
  <2>1. /\ call' \in [Actors -> CallType] /\ Others(a) /\ call'[a].pc = "gated"
        /\ call'[a].kind = call[a].kind /\ call'[a].gate = call[a].gate
        /\ call'[a].input = call[a].input
    BY <1>5, GotoFacts DEF CallerPcs
  <2>2. /\ gate' \in [1..MaxGates -> GateType]
        /\ \A g \in 1..MaxGates : gate'[g].closing = gate[g].closing
        /\ \A g \in 1..MaxGates : g # call[a].gate => gate'[g] = gate[g]
        /\ gate'[call[a].gate].holder = a
    <3> DEFINE r == [gate[call[a].gate] EXCEPT !.holder = a]
    <3>1. gate[call[a].gate] \in GateType
      BY <1>1a DEF Types
    <3>2. r \in GateType /\ r.closing = gate[call[a].gate].closing /\ r.holder = a
      BY <3>1 DEF GateType
    <3>3. gate' = [gate EXCEPT ![call[a].gate] = r]
      BY <1>5 DEF Types
    <3> HIDE DEF r
    <3> QED BY <1>1a, <3>2, <3>3 DEF Types
  <2>3. Held(a)' /\ ~Waits(a)' /\ ~Closer(a)' /\ ~Starter(a)'
    BY <2>1 DEF Starter, Waits, Held, Closer
  <2>4. Types'
    BY <1>1, <1>5, <2>1, <2>2 DEF Types
  <2>5. \A b \in Actors : /\ Starter(b)' = Starter(b) /\ (Held(b)' => Held(b) \/ b = a)
                          /\ Closer(b)' = Closer(b) /\ (Waits(b)' => Waits(b))
                          /\ (b # a => call'[b] = call[b])
    BY <1>3, <2>1, <2>3 DEF Others, Starter, Held, Closer, Waits
  <2>6. SteadyCalls
    <3>1. \A t \in Turns : t # a => call'[t] = call[t]
      BY <2>5
    <3> QED BY <1>1, <2>1, <2>3, <2>5, <3>1 DEF SteadyCalls, CoreInv, RunInv
  <2>7. /\ StartInv' /\ FreshInv' /\ RunInv' /\ CompletedInv'
        /\ IF entry'.state = "None" THEN entry'.turn = NoTurn ELSE entry'.turn \in 1..used'
    BY <1>1, <1>2, <2>4, <2>6, SteadyInv
  <2>8. EntryInv'
    BY <1>1, <1>5, <2>1, <2>5, <2>7 DEF CoreInv, EntryInv
  <2>9. GateInv'
    <3>1. GateInv
      BY DEF CoreInv
    <3>2. \A b \in Actors : call[b].gate \in 1..MaxGates /\ call'[b].gate \in 1..MaxGates
                            /\ call'[b].gate = call[b].gate /\ call'[b].kind = call[b].kind
      BY <2>1, <2>5 DEF Types, CallType
    <3>3. \A b \in Actors : Held(b)' => gate'[call'[b].gate].holder = b
      <4> SUFFICES ASSUME NEW b \in Actors, Held(b)', b # a PROVE gate'[call[b].gate].holder = b
        BY <2>2, <3>2
      <4>1. gate[call[b].gate].holder = b
        BY <2>5, <3>1 DEF GateInv
      <4>2. call[b].gate # call[a].gate
        BY <1>5, <4>1
      <4> QED BY <2>2, <3>2, <4>1, <4>2
    <3>4. \A b \in Actors : Held(b)' \/ Waits(b)' =>
            \/ call'[b].gate = current
            \/ call'[b].gate < current /\ gate'[call'[b].gate].closing
      BY <1>3, <2>2, <2>5, <3>1, <3>2 DEF GateInv
    <3>5. \A b \in Callers \cup {Retry} : Held(b)' => ~gate'[call'[b].gate].closing
      BY <1>5, <2>2, <2>5, <3>1, <3>2 DEF GateInv
    <3>6. \A b \in Callers : Closer(b)' => call'[b].gate = current /\ gate'[current].closing
      BY <2>2, <2>5, <3>1, <3>2 DEF GateInv
    <3>7. \A b, c \in Callers : Closer(b)' /\ Closer(c)' => b = c
      BY <2>5, <3>1 DEF GateInv
    <3>8. \A b \in Callers : call'[b].kind = "Close" => call'[b].gate < MaxGates
      BY <3>1, <3>2 DEF GateInv
    <3> QED BY <1>1, <3>3, <3>4, <3>5, <3>6, <3>7, <3>8 DEF GateInv
  <2>10. RoleInv'
    BY <1>3, <2>1, <2>3 DEF CoreInv, RoleInv, Aborts, Others, Held, Waits, Closer, CallerPcs, RetryPcs, ServerPcs, TurnPcs
  <2>11. TalkInv'
    <3>1. \A d \in Callers : InHand(d)' => InHand(d) /\ call'[d].input = call[d].input
      BY <1>3, <2>1, <2>5 DEF InHand, Held, Waits, Starter
    <3>2. \A b \in Actors : Starter(b)' => Starter(b) /\ call'[b] = call[b]
      BY <2>3, <2>5
    <3> QED BY <1>1, <1>5, <3>1, <3>2, TalkFrame
  <2> QED BY <2>4, <2>7, <2>8, <2>9, <2>10, <2>11 DEF CoreInv
<1> QED BY <1>4, <1>5 DEF begin

----------------------------------------------------------------------------
(* Starting a reserved turn.                                                 *)

LEMMA UnleasedFacts ==
    ASSUME Types, NEW g \in 1..MaxGates
    PROVE  /\ Unleased(g) \in [1..MaxGates -> GateType]
           /\ \A f \in 1..MaxGates : Unleased(g)[f].holder = gate[f].holder
                                     /\ Unleased(g)[f].closing = gate[f].closing
<1> DEFINE r == [gate[g] EXCEPT !.starts = @ - 1]
<1>1. gate[g] \in GateType
  BY DEF Types
<1>2. r \in GateType /\ r.holder = gate[g].holder /\ r.closing = gate[g].closing
  BY <1>1 DEF GateType
<1>3. Unleased(g) = [gate EXCEPT ![g] = r]
  BY DEF Unleased, Types
<1> HIDE DEF r
<1> QED BY <1>2, <1>3 DEF Types

\* A start owns the registry until it ends, and its turn is new.
LEMMA StarterFacts ==
    ASSUME Types, CoreInv, NEW a \in Actors, Starter(a)
    PROVE  /\ a \in Callers \cup Turns \cup {Retry}
           /\ entry.state = "Reserved" /\ entry.turn = used /\ call[a].turn = used
           /\ entry = [turn |-> call[a].turn, state |-> "Reserved"]
           /\ used \in Turns /\ call[a].input \in Inputs /\ exists
           /\ \A b \in Actors : Starter(b) => b = a
           /\ task[used] = "none" /\ call[used].pc = "idle" /\ used \notin completed /\ a # used
           /\ \A t \in Turns : task[t] # "running"
           /\ call[a].gate \in 1..MaxGates
<1> USE ActorFacts
<1>1. /\ entry.state = "Reserved" /\ entry.turn = call[a].turn /\ call[a].turn = used
      /\ call[a].input \in Inputs
  BY DEF CoreInv, StartInv
<1>2. used \in Turns /\ exists
  BY <1>1 DEF CoreInv, EntryInv, Types, Turns, NoEntry
<1>3. task[used] = "none" /\ call[used].pc = "idle" /\ used \notin completed
  BY <1>1, <1>2 DEF CoreInv, FreshInv
<1>4. a # used
  BY <1>3 DEF Starter
<1>5. entry = [turn |-> call[a].turn, state |-> "Reserved"]
  BY <1>1 DEF Types
<1>6. \A t \in Turns : task[t] # "running"
  BY <1>1 DEF CoreInv, RunInv
<1>7. a # Server
  BY DEF CoreInv, RoleInv, Starter, ServerPcs
<1> QED BY <1>1, <1>2, <1>3, <1>4, <1>5, <1>6, <1>7 DEF CoreInv, StartInv, Types, CallType

\* What an ended start does to the actor and to its gate.
LEMMA EndedFacts ==
    ASSUME Types, NEW a \in Callers \cup Turns \cup {Retry},
           call' = IF a \in Turns THEN Goto(a, "done") ELSE [call EXCEPT ![a] = Away]
    PROVE  /\ call' \in [Actors -> CallType] /\ Others(a)
           /\ call'[a].pc = IF a \in Turns THEN "done" ELSE "idle"
           /\ a \notin Turns => call'[a].kind = "None" /\ call'[a].input = NoInput
<1>1. CASE a \in Turns
  BY <1>1, ActorFacts, GotoFacts DEF TurnPcs
<1>2. CASE a \notin Turns
  BY <1>2, ActorFacts, AwayFacts
<1> QED BY <1>1, <1>2

\* The reservation of a failed start is dropped, an id that was not used is free again.
LEMMA StartFailsInv ==
    ASSUME Types, CoreInv, Types', NEW a \in Actors, Starter(a), NEW w, StartFails(a, w),
           task' = task, current' = current, exists' = exists,
           log'.unsettled \in {log.unsettled, NoTurn}, log'.unsettled \notin completed',
           completed' \subseteq completed \cup {used},
           \/ used' = used
           \/ used' = used - 1 /\ call[a].pc = "starting" /\ completed' = completed
    PROVE  CoreInv'
<1> USE ActorFacts
<1>0. /\ a \in Callers \cup Turns \cup {Retry}
      /\ entry.state = "Reserved" /\ entry.turn = used /\ call[a].turn = used
      /\ entry = [turn |-> call[a].turn, state |-> "Reserved"]
      /\ used \in Turns /\ call[a].input \in Inputs /\ exists
      /\ \A b \in Actors : Starter(b) => b = a
      /\ task[used] = "none" /\ call[used].pc = "idle" /\ used \notin completed /\ a # used
      /\ \A t \in Turns : task[t] # "running"
      /\ call[a].gate \in 1..MaxGates
  BY StarterFacts
<1>1. entry' = NoEntry /\ entry'.state = "None" /\ entry'.turn = NoTurn
  BY <1>0 DEF StartFails, NoEntry
<1>2. /\ call' \in [Actors -> CallType] /\ Others(a)
      /\ call'[a].pc = IF a \in Turns THEN "done" ELSE "idle"
      /\ a \notin Turns => call'[a].kind = "None" /\ call'[a].input = NoInput
  BY <1>0, EndedFacts DEF StartFails
<1>3. ~Held(a)' /\ ~Waits(a)' /\ ~Closer(a)' /\ ~Starter(a)'
  BY <1>2 DEF Starter, Waits, Held, Closer
<1>4. \A b \in Actors : /\ (b # a => call'[b] = call[b]) /\ ~Starter(b)'
                        /\ (Held(b)' => Held(b)) /\ (Waits(b)' => Waits(b)) /\ (Closer(b)' => Closer(b))
  BY <1>0, <1>2, <1>3 DEF Others, Starter, Held, Closer, Waits
<1>5. \A f \in 1..MaxGates : gate'[f].holder = gate[f].holder /\ gate'[f].closing = gate[f].closing
  BY <1>0, UnleasedFacts DEF StartFails
<1>6. GateInv'
  <2>1. GateInv /\ \A b \in Actors : call[b].gate \in 1..MaxGates /\ current \in 1..MaxGates
    BY DEF CoreInv, Types, CallType
  <2>2. \A b \in Actors : Held(b)' \/ Waits(b)' \/ Closer(b)' => call'[b] = call[b]
    BY <1>3, <1>4
  <2>3. \A b \in Callers : call'[b].kind = "Close" => call'[b].gate < MaxGates
    BY <1>2, <1>4, <2>1 DEF GateInv
  <2> QED BY <1>4, <1>5, <2>1, <2>2, <2>3 DEF GateInv
<1>7. RoleInv'
  BY <1>0, <1>2, <1>3 DEF CoreInv, RoleInv, Aborts, Others, Held, Waits, Closer, CallerPcs, RetryPcs, ServerPcs, TurnPcs
<1>8. EntryInv'
  BY <1>0, <1>1 DEF EntryInv
<1>9. StartInv'
  BY <1>1, <1>4 DEF StartInv
<1>10. FreshInv'
  <2>1. \A t \in Turns : t > used \/ t = used =>
            task[t] = "none" /\ call[t].pc = "idle" /\ t \notin completed
    BY <1>0 DEF CoreInv, FreshInv
  <2>2. \A t \in Turns : t > used' => task'[t] = "none" /\ call'[t].pc = "idle" /\ t \notin completed'
    <3> SUFFICES ASSUME NEW t \in Turns, t > used'
                 PROVE  task'[t] = "none" /\ call'[t].pc = "idle" /\ t \notin completed'
      OBVIOUS
    <3>1. t > used \/ t = used
      BY DEF Types
    <3>2. t \notin completed'
      BY <2>1, <3>1
    <3>3. t # a
      BY <2>1, <3>1 DEF Starter
    <3> QED BY <1>4, <2>1, <3>1, <3>2, <3>3
  <2>3. log'.unsettled \in 0..used'
    <3>1. log.unsettled \in 0..used /\ (call[a].pc = "starting" => log.unsettled # used)
      BY DEF CoreInv, FreshInv
    <3> QED BY <1>0, <3>1 DEF NoTurn, Turns
  <2>4. \A b \in Actors : call'[b].pc # "starting"
    BY <1>4 DEF Starter
  <2> QED BY <1>1, <2>2, <2>3, <2>4 DEF FreshInv
<1>11. RunInv'
  <2>1. \A t \in Turns : call'[t].pc \in {"finishing", "locking", "gated"} =>
            task'[t] \in {"sent", "ended", "killed"}
    BY <1>2, <1>4 DEF CoreInv, RunInv
  <2> QED BY <1>0, <1>1, <2>1 DEF RunInv
<1>12. CompletedInv'
  BY DEF CompletedInv
<1> QED BY <1>6, <1>7, <1>8, <1>9, <1>10, <1>11, <1>12 DEF CoreInv

\* After a failed start nobody starts, and nothing is in the failed caller's hands.
LEMMA FailedHands ==
    ASSUME Types, CoreInv, NEW a \in Actors, Starter(a), NEW w, StartFails(a, w)
    PROVE  /\ Others(a) /\ \A b \in Actors : ~Starter(b)'
           /\ ~InHand(a)'
           /\ \A c \in Callers : InHand(c)' => c # a /\ InHand(c) /\ call'[c].input = call[c].input
<1> USE ActorFacts
<1>1. /\ a \in Callers \cup Turns \cup {Retry} /\ \A b \in Actors : Starter(b) => b = a
  BY StarterFacts
<1>2. /\ Others(a) /\ call'[a].pc = IF a \in Turns THEN "done" ELSE "idle"
  BY <1>1, EndedFacts DEF StartFails
<1> QED BY <1>1, <1>2 DEF Others, InHand, Held, Waits, Starter

\* The types of what a failed start writes.
LEMMA StartFailsTypes ==
    ASSUME Types, CoreInv, NEW a \in Actors, Starter(a), StartFails(a, "refused")
    PROVE  /\ entry' = NoEntry
           /\ entry' \in [turn : 0..MaxTurns, state : {"None", "Reserved", "Running"}]
           /\ gate' \in [1..MaxGates -> GateType] /\ call' \in [Actors -> CallType]
           /\ answer' \in [Inputs -> Words]
           /\ answer' = IF call[a].queued THEN answer
                        ELSE [answer EXCEPT ![call[a].input] = "refused"]
<1> USE ActorFacts
<1>1. /\ a \in Callers \cup Turns \cup {Retry} /\ call[a].gate \in 1..MaxGates
      /\ entry = [turn |-> call[a].turn, state |-> "Reserved"] /\ call[a].input \in Inputs
  BY StarterFacts
<1>2. entry' = NoEntry
  BY <1>1 DEF StartFails
<1>3. entry' \in [turn : 0..MaxTurns, state : {"None", "Reserved", "Running"}]
  BY <1>2 DEF NoEntry, NoTurn
<1>4. gate' \in [1..MaxGates -> GateType]
  BY <1>1, UnleasedFacts DEF StartFails
<1>5. call' \in [Actors -> CallType]
  BY <1>1, EndedFacts DEF StartFails
<1>6. answer' = IF call[a].queued THEN answer ELSE [answer EXCEPT ![call[a].input] = "refused"]
  BY <1>1 DEF StartFails, Answered
<1>7. answer' \in [Inputs -> Words]
  BY <1>1, <1>6 DEF Types, Words
<1> QED BY <1>2, <1>3, <1>4, <1>5, <1>6, <1>7

\* A start that fails before the user message is durable.
LEMMA StartFailsStep ==
    ASSUME IndInv, NEW a \in Actors, Starter(a), StartFails(a, "refused"),
           UNCHANGED <<log, begun, completed, task, current, exists>>,
           used' = IF call[a].pc = "starting" THEN used - 1 ELSE used
    PROVE  IndInv'
<1> USE ActorFacts, IndInvParts
<1>1. /\ used \in Turns /\ call[a].input \in Inputs /\ a \in Callers \cup Turns \cup {Retry}
  BY StarterFacts
<1>2. used' \in 0..MaxTurns
  BY <1>1 DEF Turns
<1>3. Types'
  BY <1>2, StartFailsTypes DEF Types
<1>4. CoreInv'
  <2>1. CompletedInv
    BY DEF CoreInv
  <2> QED BY <1>3, <2>1, StartFailsInv DEF CompletedInv
<1>5. /\ Others(a) /\ \A b \in Actors : ~Starter(b)'
      /\ ~InHand(a)'
      /\ \A c \in Callers : InHand(c)' => c # a /\ InHand(c) /\ call'[c].input = call[c].input
  BY FailedHands
<1>6. answer' = IF call[a].queued THEN answer ELSE [answer EXCEPT ![call[a].input] = "refused"]
  BY StartFailsTypes
<1>7. TalkInv'
  <2>1. CASE call[a].queued
    BY <1>5, <1>6, <2>1, TalkFrame
  <2>2. CASE ~call[a].queued
    <3>1. a \in Callers /\ InHand(a)
      BY <1>1, <2>2 DEF TalkInv, HandInv, InHand
    <3>2. answer' = Answered(a, "refused")
      BY <1>1, <1>6, <2>2 DEF Answered
    <3> QED BY <1>3, <1>5, <3>1, <3>2, TalkRefuse
  <2> QED BY <2>1, <2>2
<1> QED BY <1>3, <1>4, <1>7

LEMMA StartRejectedStep ==
    ASSUME IndInv, NEW a \in Actors, start_rejected(a) PROVE IndInv'
<1>1. Starter(a) /\ call[a].pc = "starting"
  BY DEF start_rejected, Starting, Starter
<1> QED BY <1>1, StartFailsStep DEF start_rejected

LEMMA SubmitFailsStep ==
    ASSUME IndInv, NEW a \in Actors, submit_fails(a) PROVE IndInv'
<1>1. Starter(a)
  BY DEF submit_fails, Starting, Starter
<1> QED BY <1>1, StartFailsStep DEF submit_fails

\* UserMessage takes its input out of the queue.
LEMMA UserMessageFacts ==
    ASSUME Types, QueueInv, NEW i
    PROVE  /\ UserMessage(log, i) \in LogType
           /\ UserMessage(log, i).unsettled = log.unsettled
           /\ UserMessage(log, i).pending =
                Retain(log.pending, {k \in 1..Len(log.pending) : log.pending[k].input # i})
<1> DEFINE K == {k \in 1..Len(log.pending) : log.pending[k].input # i}
           l1 == [log EXCEPT !.phase = "Busy"]
           l2 == [l1 EXCEPT !.pending = Retain(log.pending, K)]
<1>1. log \in LogType /\ l1 \in LogType /\ l1.unsettled = log.unsettled /\ l1.pending = log.pending
  BY SetPhase DEF Types
<1>2. Retain(log.pending, K) \in Seq(PendingType)
  BY QueueRetain DEF QueueInv
<1>3. l2 \in LogType /\ l2.unsettled = log.unsettled /\ l2.pending = Retain(log.pending, K)
  <2> HIDE DEF K, l1
  <2> QED BY <1>1, <1>2, SetPending
<1>4. UserMessage(log, i) = l2
  BY <1>1 DEF UserMessage, LogType
<1> HIDE DEF l2
<1> QED BY <1>3, <1>4

LEMMA SettleFailedStep ==
    ASSUME IndInv, NEW a \in Actors, settle_failed_turn_setup(a) PROVE IndInv'
<1> USE ActorFacts, IndInvParts
<1>1. Starter(a) /\ call[a].pc = "submitting" /\ StartFails(a, "refused")
      /\ UNCHANGED <<task, used, current, exists>>
      /\ begun' = Append(begun, call[a].input)
  BY DEF settle_failed_turn_setup, Starting, Starter, Quiet
<1>2. /\ used \in Turns /\ call[a].input \in Inputs /\ a \in Callers \cup Turns \cup {Retry}
      /\ call[a].turn = used
  BY <1>1, StarterFacts
<1> DEFINE l == UserMessage(log, call[a].input)
           q == Retain(log.pending, {k \in 1..Len(log.pending) : log.pending[k].input # call[a].input})
<1>3. l \in LogType /\ l.unsettled = log.unsettled /\ l.pending = q
  BY UserMessageFacts DEF TalkInv
<1>4. /\ log' \in LogType /\ log'.pending = q
      /\ log'.unsettled \in {log.unsettled, NoTurn} /\ log'.unsettled \notin completed'
      /\ completed' \subseteq completed \cup {used}
  <2>0. log.unsettled \notin completed /\ NoTurn \notin Turns /\ completed \subseteq Turns
    BY DEF CoreInv, CompletedInv, Types
  <2>1. CASE log' = TurnCompleted(l, used) /\ completed' = completed \cup {used}
    <3> HIDE DEF l, q
    <3>1. /\ TurnCompleted(l, used) \in LogType /\ TurnCompleted(l, used).pending = l.pending
          /\ TurnCompleted(l, used).unsettled \in {l.unsettled, NoTurn}
          /\ TurnCompleted(l, used).unsettled # used
      BY <1>2, <1>3, TurnCompletedFacts
    <3> QED BY <1>2, <1>3, <2>0, <2>1, <3>1
  <2>2. CASE (\E p \in {"Error", "Busy"} : log' = [l EXCEPT !.phase = p]) /\ completed' = completed
    <3> HIDE DEF l, q
    <3>1. log' \in LogType /\ log'.unsettled = l.unsettled /\ log'.pending = l.pending
      BY <1>3, <2>2, SetPhase
    <3> QED BY <1>3, <2>0, <2>2, <3>1
  <2> QED BY <1>2, <2>1, <2>2 DEF settle_failed_turn_setup
<1>5. Types'
  <2>1. begun' \in Seq(Inputs)
    BY <1>1, <1>2 DEF Types
  <2>2. completed' \subseteq Turns
    BY <1>2, <1>4 DEF Types
  <2> QED BY <1>1, <1>4, <2>1, <2>2, StartFailsTypes DEF Types
<1>6. CoreInv'
  BY <1>1, <1>4, <1>5, StartFailsInv
<1>7. /\ Others(a) /\ \A b \in Actors : ~Starter(b)'
      /\ \A c \in Callers : InHand(c)' => c # a /\ InHand(c) /\ call'[c].input = call[c].input
  BY <1>1, FailedHands
<1>8. answer' = IF call[a].queued THEN answer ELSE [answer EXCEPT ![call[a].input] = "refused"]
  BY <1>1, StartFailsTypes
<1>9. TalkInv'
  BY <1>1, <1>2, <1>4, <1>5, <1>7, <1>8, TalkConsume DEF CoreInv
<1> QED BY <1>5, <1>6, <1>9

\* TurnStarted is durable: the new turn is the unsettled one.
LEMMA SubmitStep ==
    ASSUME IndInv, NEW a \in Actors, submit(a) PROVE IndInv'
<1> USE ActorFacts, IndInvParts
<1>1. /\ Starter(a) /\ call[a].pc = "starting" /\ call' = Goto(a, "submitting")
      /\ UNCHANGED <<begun, completed, entry, task, gate, answer, used, current, exists>>
  BY DEF submit, Starting, Starter, Quiet
<1>2. /\ used \in Turns /\ call[a].turn = used /\ used \notin completed
      /\ a \in Callers \cup Turns \cup {Retry} /\ \A b \in Actors : Starter(b) => b = a
      /\ entry.state = "Reserved" /\ entry.turn = used /\ call[used].pc = "idle"
  BY <1>1, StarterFacts
<1>3. log' \in LogType /\ log'.pending = log.pending /\ log'.unsettled = used
  <2> DEFINE l1 == [log EXCEPT !.phase = "Busy"]
             l2 == [l1 EXCEPT !.unsettled = used]
  <2>1. log' = l2
    BY <1>2 DEF submit
  <2>2. l1 \in LogType /\ l1.pending = log.pending
    BY SetPhase DEF Types
  <2>3. l2 \in LogType /\ l2.pending = log.pending /\ l2.unsettled = used
    <3> HIDE DEF l1
    <3> QED BY <1>2, <2>2, SetUnsettled
  <2> HIDE DEF l2
  <2> QED BY <2>1, <2>3
<1>4. /\ call' \in [Actors -> CallType] /\ Others(a) /\ call'[a].pc = "submitting"
      /\ call'[a].kind = call[a].kind /\ call'[a].gate = call[a].gate
      /\ call'[a].turn = call[a].turn /\ call'[a].input = call[a].input
      /\ call'[a].queued = call[a].queued
  BY <1>1, GotoFacts DEF CallerPcs
<1>5. Types'
  BY <1>1, <1>3, <1>4 DEF Types
<1>6. /\ Starter(a)' /\ ~Held(a)' /\ ~Waits(a)' /\ ~Closer(a)'
      /\ ~Held(a) /\ ~Waits(a) /\ ~Closer(a)
  BY <1>1, <1>4 DEF Starter, Held, Waits, Closer
<1>7. \A b \in Actors : /\ Starter(b)' = Starter(b) /\ Held(b)' = Held(b) /\ Closer(b)' = Closer(b)
                        /\ Waits(b)' = Waits(b) /\ (b # a => call'[b] = call[b])
                        /\ call'[b].kind = call[b].kind /\ call'[b].gate = call[b].gate
                        /\ call'[b].turn = call[b].turn /\ call'[b].input = call[b].input
                        /\ call'[b].queued = call[b].queued
  BY <1>1, <1>4, <1>6 DEF Others, Starter, Held, Closer, Waits
<1>8. RoleInv'
  BY <1>2, <1>4, <1>6, <1>7 DEF CoreInv, RoleInv, Aborts, CallerPcs, RetryPcs, TurnPcs
<1>9. GateInv'
  BY <1>1, <1>7 DEF CoreInv, GateInv
<1>10. EntryInv'
  BY <1>1, <1>4, <1>7 DEF CoreInv, EntryInv
<1>11. StartInv'
  BY <1>1, <1>7 DEF CoreInv, StartInv
<1>12. FreshInv'
  <2>1. \A b \in Actors : call'[b].pc # "starting"
    BY <1>2, <1>4, <1>7 DEF Starter
  <2>2. \A t \in Turns : call'[t].pc = "idle" <=> call[t].pc = "idle"
    BY <1>1, <1>4, <1>7
  <2> QED BY <1>1, <1>2, <1>3, <2>1, <2>2 DEF CoreInv, FreshInv, Turns
<1>13. RunInv'
  BY <1>1, <1>2, <1>4, <1>7 DEF CoreInv, RunInv
<1>14. CompletedInv'
  BY <1>1, <1>2, <1>3 DEF CompletedInv
<1>15. TalkInv'
  BY <1>1, <1>3, <1>7, TalkFrame DEF InHand
<1> QED BY <1>5, <1>8, <1>9, <1>10, <1>11, <1>12, <1>13, <1>14, <1>15 DEF CoreInv

\* The turn starts to work and its watcher waits for it.
LEMMA ActivateStep ==
    ASSUME IndInv, NEW a \in Actors, activate(a) PROVE IndInv'
<1> USE ActorFacts, IndInvParts
<1>1. Starter(a) /\ call[a].pc = "submitting" /\ UNCHANGED <<completed, used, current, exists>>
  BY DEF activate, Starting, Starter, Quiet
<1>2. /\ used \in Turns /\ call[a].turn = used /\ used \notin completed /\ a # used
      /\ a \in Callers \cup Turns \cup {Retry} /\ \A b \in Actors : Starter(b) => b = a
      /\ entry.state = "Reserved" /\ entry.turn = used /\ call[used].pc = "idle"
      /\ entry = [turn |-> call[a].turn, state |-> "Reserved"]
      /\ task[used] = "none" /\ \A t \in Turns : task[t] # "running"
      /\ call[a].gate \in 1..MaxGates /\ call[a].input \in Inputs /\ exists
  BY <1>1, StarterFacts
<1> DEFINE x == IF a \in Turns THEN [call[a] EXCEPT !.pc = "done"] ELSE Away
           y == [Away EXCEPT !.pc = "waiting"]
<1>3. /\ log' = UserMessage(log, call[a].input) /\ begun' = Append(begun, call[a].input)
      /\ gate' = Unleased(call[a].gate)
      /\ answer' = IF call[a].queued THEN answer ELSE [answer EXCEPT ![call[a].input] = "started"]
      /\ entry' = [entry EXCEPT !.state = "Running"]
      /\ task' = [task EXCEPT ![used] = "running"]
      /\ call' = [call EXCEPT ![a] = x, ![used] = y]
  BY <1>2 DEF activate, Answered
<1>4. x \in CallType /\ x.pc = IF a \in Turns THEN "done" ELSE "idle"
  <2>1. call[a] \in CallType
    BY DEF Types
  <2> QED BY <2>1, AwayType DEF CallType, TurnPcs
<1>4a. a \notin Turns => x.kind = "None" /\ x.input = NoInput
  BY AwayType
<1>5. y \in CallType /\ y.pc = "waiting"
  BY AwayType DEF CallType, TurnPcs
<1>6. /\ call' \in [Actors -> CallType] /\ call'[a] = x /\ call'[used] = y
      /\ \A b \in Actors : b # a /\ b # used => call'[b] = call[b]
  <2> HIDE DEF x, y
  <2>1. call' = [call EXCEPT ![a] = x, ![used] = y]
    BY <1>3
  <2>2. call \in [Actors -> CallType] /\ used \in Actors
    BY <1>2 DEF Types
  <2> QED BY <1>2, <1>4, <1>5, <2>1, <2>2
<1> HIDE DEF x, y
<1>7. \A b \in Actors : /\ ~Starter(b)' /\ (Held(b)' => Held(b)) /\ (Waits(b)' => Waits(b))
                        /\ (Closer(b)' => Closer(b))
                        /\ (Held(b)' \/ Waits(b)' \/ Closer(b)' => call'[b] = call[b])
  <2>1. \A b \in Actors : b # a /\ b # used => ~Starter(b)
    BY <1>2
  <2> QED BY <1>2, <1>4, <1>5, <1>6, <2>1 DEF Starter, Held, Waits, Closer
<1>8. /\ log' \in LogType /\ log'.unsettled = log.unsettled
      /\ log'.pending = Retain(log.pending, {k \in 1..Len(log.pending) : log.pending[k].input # call[a].input})
  BY <1>3, UserMessageFacts DEF TalkInv
<1>9. entry'.state = "Running" /\ entry'.turn = used /\ entry' # NoEntry
      /\ entry' \in [turn : 0..MaxTurns, state : {"None", "Reserved", "Running"}]
  BY <1>2, <1>3 DEF Types, NoEntry
<1>10. /\ gate' \in [1..MaxGates -> GateType]
       /\ \A f \in 1..MaxGates : gate'[f].holder = gate[f].holder /\ gate'[f].closing = gate[f].closing
  BY <1>2, <1>3, UnleasedFacts
<1>11. Types'
  <2>1. begun' \in Seq(Inputs)
    BY <1>2, <1>3 DEF Types
  <2>2. answer' \in [Inputs -> Words]
    BY <1>2, <1>3 DEF Types, Words
  <2>3. task' \in [Turns -> {"none", "running", "sent", "ended", "killed"}]
    BY <1>3 DEF Types
  <2> QED BY <1>1, <1>6, <1>8, <1>9, <1>10, <2>1, <2>2, <2>3 DEF Types
<1>12. RoleInv'
  <2>1. \A c \in Callers : c # used
    BY <1>2
  <2>2. Retry # used /\ Server # used /\ Server # a
    BY <1>2
  <2> QED BY <1>2, <1>4, <1>5, <1>6, <1>7, <2>1, <2>2 DEF CoreInv, RoleInv, Aborts, CallerPcs, RetryPcs, TurnPcs, Held, Waits, Closer
<1>13. GateInv'
  <2>1. GateInv /\ \A b \in Actors : call[b].gate \in 1..MaxGates /\ current \in 1..MaxGates
    BY DEF CoreInv, Types, CallType
  <2>2. \A b \in Callers : call'[b].kind = "Close" => call'[b] = call[b]
    BY <1>2, <1>4a, <1>6
  <2> QED BY <1>1, <1>7, <1>10, <2>1, <2>2 DEF GateInv
<1>14. EntryInv'
  <2>1. entry'.turn \in 1..used'
    BY <1>1, <1>2, <1>9 DEF Turns
  <2>2. \A c \in Callers : call'[c].pc \notin {"aborted", "deleting"}
    <3>1. \A c \in Callers : call[c].pc \notin {"aborted", "deleting"}
      BY <1>2 DEF CoreInv, EntryInv, NoEntry
    <3> QED BY <1>2, <1>4, <1>6, <3>1
  <2> QED BY <1>1, <1>2, <1>9, <2>1, <2>2 DEF EntryInv
<1>15. StartInv'
  BY <1>7, <1>9 DEF StartInv
<1>16. FreshInv'
  <2>1. \A t \in Turns : t > used' => task'[t] = "none" /\ call'[t].pc = "idle" /\ t \notin completed'
    <3> SUFFICES ASSUME NEW t \in Turns, t > used
                 PROVE  task'[t] = "none" /\ call'[t].pc = "idle" /\ t \notin completed
      BY <1>1
    <3>1. task[t] = "none" /\ call[t].pc = "idle" /\ t \notin completed
      BY DEF CoreInv, FreshInv
    <3>2. t # used /\ t # a
      BY <1>1, <1>2, <3>1 DEF Starter
    <3>3. task'[t] = task[t]
      BY <1>3, <3>2 DEF Types
    <3> QED BY <1>6, <3>1, <3>2, <3>3
  <2>2. \A b \in Actors : call'[b].pc # "starting"
    BY <1>7 DEF Starter
  <2> QED BY <1>1, <1>8, <1>9, <2>1, <2>2 DEF CoreInv, FreshInv
<1>17. RunInv'
  <2>1. \A t \in Turns : t # used => task'[t] = task[t]
    BY <1>3 DEF Types
  <2>2. \A t \in Turns : task'[t] = "running" => t = used
    BY <1>2, <2>1
  <2>3. \A t \in Turns : call'[t].pc \in {"finishing", "locking", "gated"} =>
            task'[t] \in {"sent", "ended", "killed"}
    <3> SUFFICES ASSUME NEW t \in Turns, call'[t].pc \in {"finishing", "locking", "gated"}
                 PROVE  task'[t] \in {"sent", "ended", "killed"}
      OBVIOUS
    <3>1. t # used /\ t # a
      BY <1>4, <1>5, <1>6
    <3>2. call'[t] = call[t]
      BY <1>6, <3>1
    <3> QED BY <2>1, <3>1, <3>2 DEF CoreInv, RunInv
  <2> QED BY <1>5, <1>6, <1>9, <2>2, <2>3 DEF RunInv
<1>18. CompletedInv'
  BY <1>1, <1>8 DEF CoreInv, CompletedInv
<1>19. TalkInv'
  <2>1. \A c \in Callers : InHand(c)' => c # a /\ InHand(c) /\ call'[c].input = call[c].input
    <3>1. \A c \in Callers : InHand(c)' => Held(c)' \/ Waits(c)'
      BY <1>7 DEF InHand
    <3>2. ~Held(a) /\ ~Waits(a)
      BY <1>1 DEF Held, Waits
    <3> QED BY <1>7, <3>1, <3>2 DEF InHand
  <2> QED BY <1>1, <1>2, <1>3, <1>7, <1>8, <1>11, <2>1, TalkConsume DEF CoreInv
<1> QED BY <1>11, <1>12, <1>13, <1>14, <1>15, <1>16, <1>17, <1>18, <1>19 DEF CoreInv

----------------------------------------------------------------------------
(* The steps of the task of a turn.                                          *)

\* The task of turn t goes on; no actor moves and the registry keeps its entry.
LEMMA TaskInv ==
    ASSUME Types, CoreInv, Types', LogCore, NEW t \in Turns, task[t] \in {"running", "sent"},
           NEW w \in {"running", "sent", "ended"}, w = "running" => task[t] = "running",
           task' = [task EXCEPT ![t] = w],
           UNCHANGED <<call, gate, entry, used, current, exists>>
    PROVE  CoreInv'
<1> USE ActorFacts
<1>1. call' = call /\ gate' = gate /\ entry' = entry /\ used' = used /\ current' = current /\ exists' = exists
  OBVIOUS
<1>2. \A u \in Turns : IF u = t THEN task'[u] = w ELSE task'[u] = task[u]
  BY DEF Types
<1>3. RoleInv' /\ GateInv' /\ EntryInv' /\ StartInv'
  BY <1>1 DEF CoreInv, RoleInv, GateInv, EntryInv, StartInv, Held, Waits, Starter, Closer, Aborts
<1>4. FreshInv'
  <2>1. \A u \in Turns : u > used \/ (entry.state = "Reserved" /\ entry.turn = u) =>
            task'[u] = "none" /\ call[u].pc = "idle" /\ u \notin completed'
    <3> SUFFICES ASSUME NEW u \in Turns, u > used \/ (entry.state = "Reserved" /\ entry.turn = u)
                 PROVE  task'[u] = "none" /\ call[u].pc = "idle" /\ u \notin completed'
      OBVIOUS
    <3>1. task[u] = "none" /\ call[u].pc = "idle" /\ u \notin completed
      BY DEF CoreInv, FreshInv
    <3>2. u # t
      BY <3>1
    <3>3. u \notin completed'
      BY <3>1 DEF LogCore, Types
    <3> QED BY <1>2, <3>1, <3>2, <3>3
  <2>2. log'.unsettled \in 0..used
    BY DEF LogCore, CoreInv, FreshInv, NoTurn, Types
  <2>3. \A a \in Actors : call[a].pc = "starting" => log'.unsettled # used
    <3> SUFFICES ASSUME NEW a \in Actors, call[a].pc = "starting" PROVE log'.unsettled # used
      OBVIOUS
    <3>1. log.unsettled # used
      BY DEF CoreInv, FreshInv
    <3>2. used # NoTurn
      BY StarterFacts DEF Starter
    <3> QED BY <3>1, <3>2 DEF LogCore
  <2> QED BY <1>1, <2>1, <2>2, <2>3 DEF FreshInv
<1>5. RunInv'
  BY <1>1, <1>2 DEF CoreInv, RunInv
<1>6. CompletedInv'
  BY DEF LogCore, CompletedInv
<1> QED BY <1>3, <1>4, <1>5, <1>6 DEF CoreInv

\* The inputs attributed to a turn become user messages at once.
LEMMA TalkAbsorb ==
    ASSUME Types, TalkInv, StartInv, entry.state # "Reserved", UNCHANGED <<call, answer>>,
           NEW t, log'.pending = Retain(log.pending, (1..Len(log.pending)) \ Own(t)),
           begun' = begun \o [k \in 1..Len(Mine(t)) |-> Mine(t)[k].input]
    PROVE  TalkInv' /\ begun' \in Seq(Inputs) /\ log'.pending \in Seq(PendingType)
<1> USE ActorFacts
<1> DEFINE D == 1..Len(log.pending)
           O == Own(t)
           q == Retain(log.pending, O)
           r == [k \in 1..Len(q) |-> q[k].input]
           taken == {log.pending[k].input : k \in O}
<1>0. QueueInv /\ HandInv /\ O \subseteq D
  BY DEF TalkInv, Own
<1>1. /\ q \in Seq(PendingType)
      /\ {q[k].input : k \in 1..Len(q)} = taken
      /\ \A j, k \in 1..Len(q) : q[j].input = q[k].input => j = k
  BY <1>0, QueueRetain DEF QueueInv
<1>2. /\ log'.pending \in Seq(PendingType)
      /\ Waiting' = {log.pending[k].input : k \in D \ O}
      /\ \A j, k \in 1..Len(log'.pending) : log'.pending[j].input = log'.pending[k].input => j = k
  BY <1>0, QueueRetain DEF QueueInv, Waiting
<1>3. Waiting \subseteq Inputs
  BY PendingFacts
<1>4. Waiting = {log.pending[k].input : k \in D}
  BY DEF Waiting
<1>5. \A j, k \in D : log.pending[j].input = log.pending[k].input => j = k
  BY <1>0 DEF QueueInv
<1>6. begun' = begun \o r
  BY DEF Mine
<1> HIDE DEF D, O, q
<1>7. Waiting' = Waiting \ taken /\ taken \subseteq Waiting
  BY <1>0, <1>2, <1>4, <1>5
<1>8. r \in Seq(Inputs) /\ Len(r) = Len(q) /\ Range(r) = taken /\ Distinct(r)
  <2>0. Len(q) \in Nat /\ \A k \in 1..Len(q) : q[k] \in PendingType
    BY <1>1, LenProperties
  <2>1. \A k \in 1..Len(q) : q[k].input \in Inputs
    BY <2>0 DEF PendingType
  <2>2. r \in Seq(Inputs) /\ Len(r) = Len(q) /\ DOMAIN r = 1..Len(q)
    BY <2>0, <2>1
  <2>3. \A k \in 1..Len(q) : r[k] = q[k].input
    OBVIOUS
  <2>4. Range(r) = {q[k].input : k \in 1..Len(q)}
    BY <2>2, <2>3 DEF Range
  <2> HIDE DEF r, taken
  <2>5. Distinct(r)
    BY <1>1, <2>2, <2>3 DEF Distinct
  <2> QED BY <1>1, <2>2, <2>4, <2>5
<1> HIDE DEF r, taken
<1>9. Range(begun') = Range(begun) \cup taken /\ Distinct(begun') /\ begun' \in Seq(Inputs)
  <2>1. begun \in Seq(Inputs) /\ Distinct(begun) /\ Range(begun) \cap Range(r) = {}
    BY <1>0, <1>7, <1>8 DEF Types, QueueInv
  <2>2. begun \o r \in Seq(Inputs)
    BY <1>8, <2>1
  <2>3. Range(begun \o r) = Range(begun) \cup Range(r) /\ Distinct(begun \o r)
    BY <1>8, <2>1, DistinctConcat
  <2> QED BY <1>6, <1>8, <2>2, <2>3
<1>10. QueueInv'
  BY <1>0, <1>2, <1>3, <1>7, <1>9 DEF QueueInv
<1>11. HandInv'
  <2>1. \A a \in Actors : ~Starter(a)
    BY DEF StartInv
  <2> QED BY <1>0, <2>1 DEF HandInv, InHand, Held, Waits, Starter
<1> QED BY <1>2, <1>9, <1>10, <1>11 DEF TalkInv

LEMMA RunOneStepStep ==
    ASSUME IndInv, NEW t \in Turns, run_one_step(t) PROVE IndInv'
<1> USE ActorFacts, IndInvParts
<1>1. /\ UNCHANGED <<completed, task, call, entry, used, gate, current, answer, exists>>
      /\ task[t] = "running" /\ entry.state = "Running"
  BY DEF run_one_step, TurnFrame, CoreInv, RunInv
<1> DEFINE q == Retain(log.pending, (1..Len(log.pending)) \ Own(t))
           l1 == [log EXCEPT !.step = "Open"]
           l2 == [l1 EXCEPT !.pending = q]
<1>2. log \in LogType /\ l1 \in LogType /\ l1.unsettled = log.unsettled /\ l1.pending = log.pending
  BY SetStep DEF Types
<1>3. q \in Seq(PendingType)
  BY QueueRetain DEF TalkInv, QueueInv
<1>4. log' = l2
  BY <1>2 DEF run_one_step, LogType
<1>5. log' \in LogType /\ log'.unsettled = log.unsettled /\ log'.pending = q
  <2> HIDE DEF q, l1
  <2> QED BY <1>2, <1>3, <1>4, SetPending
<1> HIDE DEF l2, l1
<1>6. TalkInv' /\ begun' \in Seq(Inputs)
  BY <1>1, <1>5, TalkAbsorb DEF run_one_step, CoreInv
<1>7. Types'
  BY <1>1, <1>5, <1>6 DEF Types
<1>8. LogCore
  BY <1>1, <1>5, LogSame
<1>9. task' = [task EXCEPT ![t] = "running"]
  BY <1>1 DEF Types
<1>10. CoreInv'
  BY <1>1, <1>7, <1>8, <1>9, TaskInv
<1> QED BY <1>6, <1>7, <1>10

LEMMA FinishStepStep ==
    ASSUME IndInv, NEW t \in Turns, finish_step(t) PROVE IndInv'
<1> USE ActorFacts, IndInvParts
<1>1. /\ UNCHANGED <<begun, completed, task, call, entry, used, gate, current, answer, exists>>
      /\ task[t] = "running" /\ log' = [log EXCEPT !.step = "Finished"]
  BY DEF finish_step, TurnFrame
<1>2. log' \in LogType /\ log'.unsettled = log.unsettled /\ log'.pending = log.pending
  BY <1>1, SetStep DEF Types
<1>3. Types'
  BY <1>1, <1>2 DEF Types
<1>4. task' = [task EXCEPT ![t] = "running"]
  BY <1>1 DEF Types
<1>5. CoreInv'
  BY <1>1, <1>2, <1>3, <1>4, LogSame, TaskInv
<1>6. TalkInv'
  BY <1>1, <1>2, TalkFrame DEF InHand, Held, Waits, Starter
<1> QED BY <1>3, <1>5, <1>6

LEMMA RunAndFinalizeStep ==
    ASSUME IndInv, NEW t \in Turns, run_and_finalize_turn(t) PROVE IndInv'
<1> USE ActorFacts, IndInvParts
<1>1. /\ UNCHANGED <<begun, call, entry, used, gate, current, answer, exists>>
      /\ task[t] = "running" /\ task' = [task EXCEPT ![t] = "sent"]
  BY DEF run_and_finalize_turn, TurnFrame
<1>2. entry.state = "Running" /\ entry.turn = t /\ t <= used
  BY <1>1, RunningFacts DEF CoreInv, RunInv
<1>3. Settled(log', completed', t)
  <2>1. CASE log' = finalize_turn(log, t) /\ completed' = Completing(t)
    BY <2>1, FinalizeSettles DEF CoreInv
  <2>2. CASE log' = log /\ completed' = completed
    BY <2>2, RepairSettles DEF CoreInv
  <2> QED BY <2>1, <2>2 DEF run_and_finalize_turn
<1>4. LogCore /\ log' \in LogType /\ log'.pending = log.pending
  BY <1>2, <1>3, LogSettled
<1>5. Types'
  <2>1. completed' \subseteq Turns
    BY <1>3 DEF Settled, Types
  <2>2. task' \in [Turns -> {"none", "running", "sent", "ended", "killed"}]
    BY <1>1 DEF Types
  <2> QED BY <1>1, <1>4, <2>1, <2>2 DEF Types
<1>6. CoreInv'
  BY <1>1, <1>4, <1>5, TaskInv
<1>7. TalkInv'
  BY <1>1, <1>4, TalkFrame DEF InHand, Held, Waits, Starter
<1> QED BY <1>5, <1>6, <1>7

LEMMA TaskEndsStep ==
    ASSUME IndInv, NEW t \in Turns, task_ends(t) PROVE IndInv'
<1> USE ActorFacts, IndInvParts
<1>1. /\ UNCHANGED <<log, begun, completed, call, entry, used, gate, current, answer, exists>>
      /\ task[t] = "sent" /\ task' = [task EXCEPT ![t] = "ended"]
  BY DEF task_ends, TurnFrame
<1>2. task' \in [Turns -> {"none", "running", "sent", "ended", "killed"}]
  BY <1>1 DEF Types
<1>3. Types'
  BY <1>1, <1>2 DEF Types
<1>4. CoreInv'
  BY <1>1, <1>3, LogSame, TaskInv
<1>5. TalkInv'
  BY <1>1, TalkFrame DEF InHand, Held, Waits, Starter
<1> QED BY <1>3, <1>4, <1>5

----------------------------------------------------------------------------
(* The steps of watchers, of the retry and of the server outside a gate.     *)

\* An actor that is no caller goes on outside the gate, or asks for the current one.
LEMMA MoveInv ==
    ASSUME Types, CoreInv, Types', NEW a \in Turns \cup {Retry, Server}, Others(a),
           UNCHANGED <<log, completed, entry, used, task, gate, current, exists>>,
           ~Starter(a), ~Held(a)', ~Starter(a)', ~Closer(a)',
           Waits(a)' => call'[a].gate = current,
           a = Retry => call'[a].pc \in RetryPcs /\ call'[a].input = NoInput,
           a = Server => call'[a].pc \in ServerPcs,
           a \in Turns => /\ call[a].pc \in {"waiting", "finishing"}
                          /\ call'[a].pc \in {"finishing", "locking"}
                          /\ task[a] \in {"sent", "ended", "killed"}
    PROVE  CoreInv'
<1> USE ActorFacts
<1>1. /\ log' = log /\ completed' = completed /\ entry' = entry /\ used' = used /\ task' = task
      /\ gate' = gate /\ current' = current /\ exists' = exists
  OBVIOUS
<1>2. \A b \in Actors : /\ (b # a => call'[b] = call[b]) /\ Starter(b)' = Starter(b)
                        /\ (Held(b)' => Held(b) /\ b # a)
                        /\ (Starter(b) \/ Starter(b)' => call'[b] = call[b])
  BY DEF Others, Starter, Held
<1>3. \A c \in Callers : call'[c] = call[c]
  BY DEF Others
<1>4. LogCore /\ EntryDrop /\ TaskKill
  BY <1>1, LogSame DEF EntryDrop, TaskKill
<1>5. SteadyCalls
  <2>1. \A t \in Turns : IF t = a THEN /\ call[t].pc \in {"waiting", "finishing"}
                                       /\ call'[t].pc \in {"finishing", "locking"}
                                       /\ task[t] \in {"sent", "ended", "killed"}
                                  ELSE call'[t] = call[t]
    BY <1>2
  <2> QED BY <1>1, <1>2, <2>1 DEF SteadyCalls, CoreInv, RunInv
<1>6. /\ StartInv' /\ FreshInv' /\ RunInv' /\ CompletedInv'
      /\ IF entry'.state = "None" THEN entry'.turn = NoTurn ELSE entry'.turn \in 1..used'
  BY <1>1, <1>4, <1>5, SteadyInv
<1>7. EntryInv'
  BY <1>1, <1>2, <1>3, <1>6 DEF CoreInv, EntryInv
<1>8. GateInv'
  <2>1. GateInv /\ \A b \in Callers : Closer(b)' = Closer(b)
    BY <1>3 DEF CoreInv, Closer
  <2>2. \A b \in Actors : Waits(b)' => (b = a /\ call'[b].gate = current) \/ (call'[b] = call[b] /\ Waits(b))
    BY <1>2 DEF Waits
  <2> QED BY <1>1, <1>2, <1>3, <2>1, <2>2 DEF GateInv
<1>9. RoleInv'
  <2>1. \A c \in Callers : Held(c)' = Held(c) /\ Waits(c)' = Waits(c) /\ Closer(c)' = Closer(c) /\ Aborts(c)' = Aborts(c)
    BY <1>3 DEF Held, Waits, Closer, Aborts
  <2>2. RoleInv
    BY DEF CoreInv
  <2>3. \A t \in Turns : call'[t].pc \in TurnPcs
    BY <1>2, <2>2 DEF RoleInv, TurnPcs
  <2>4. call'[Retry].pc \in RetryPcs /\ call'[Server].pc \in ServerPcs
    BY <1>2, <2>2 DEF RoleInv
  <2>5. Held(Retry)' \/ Waits(Retry)' => call'[Retry].input = NoInput
    BY <1>2, <2>2 DEF RoleInv, Held, Waits
  <2> QED BY <1>3, <2>1, <2>2, <2>3, <2>4, <2>5 DEF RoleInv
<1> QED BY <1>6, <1>7, <1>8, <1>9 DEF CoreInv

\* An actor asks for the current gate.
LEMMA LockFacts ==
    ASSUME Types, NEW a \in Actors,
           call' = [call EXCEPT ![a].pc = "locking", ![a].gate = current]
    PROVE  /\ call' \in [Actors -> CallType] /\ Others(a) /\ call'[a].pc = "locking"
           /\ call'[a].gate = current /\ call'[a].input = call[a].input
<1> DEFINE r1 == [call[a] EXCEPT !.pc = "locking"]
           r2 == [r1 EXCEPT !.gate = current]
<1>1. call[a] \in CallType /\ call \in [Actors -> CallType] /\ current \in 1..MaxGates
  BY DEF Types
<1>2. r1 \in CallType /\ r1.pc = "locking" /\ r1.input = call[a].input
  BY <1>1 DEF CallType, CallerPcs
<1>3. r2 \in CallType /\ r2.pc = "locking" /\ r2.input = call[a].input /\ r2.gate = current
  <2> HIDE DEF r1
  <2> QED BY <1>1, <1>2 DEF CallType
<1>4. call' = [call EXCEPT ![a] = r2]
  BY <1>1
<1> HIDE DEF r2
<1> QED BY <1>1, <1>3, <1>4 DEF Others

\* What MoveInv leaves to say: the queue is not touched.
LEMMA MoveStep ==
    ASSUME IndInv, NEW a \in Turns \cup {Retry, Server}, call' \in [Actors -> CallType], Others(a),
           UNCHANGED <<log, begun, completed, entry, used, task, gate, current, answer, exists>>,
           ~Starter(a), ~Held(a)', ~Starter(a)', ~Closer(a)',
           Waits(a)' => call'[a].gate = current,
           a = Retry => call'[a].pc \in RetryPcs /\ call'[a].input = NoInput,
           a = Server => call'[a].pc \in ServerPcs,
           a \in Turns => /\ call[a].pc \in {"waiting", "finishing"}
                          /\ call'[a].pc \in {"finishing", "locking"}
                          /\ task[a] \in {"sent", "ended", "killed"}
    PROVE  IndInv'
<1> USE ActorFacts, IndInvParts
<1>1. Types'
  BY DEF Types
<1>2. CoreInv'
  BY <1>1, MoveInv
<1>3. \A b \in Actors : b # a => call'[b] = call[b]
  BY DEF Others
<1>4. \A b \in Actors : Starter(b)' => Starter(b) /\ call'[b] = call[b]
  BY <1>3 DEF Starter
<1>5. \A c \in Callers : InHand(c)' => InHand(c) /\ call'[c].input = call[c].input
  BY <1>3 DEF InHand, Held, Waits, Starter
<1>6. TalkInv'
  BY <1>4, <1>5, TalkFrame
<1> QED BY <1>1, <1>2, <1>6

LEMMA WatchStepStep ==
    ASSUME IndInv, NEW t \in Turns, watch(t) PROVE IndInv'
<1> USE ActorFacts, IndInvParts
<1>1. /\ UNCHANGED <<log, begun, completed, entry, used, task, gate, current, answer, exists>>
      /\ call[t].pc = "waiting" /\ task[t] \in {"sent", "ended", "killed"} /\ call' = Goto(t, "finishing")
  BY DEF watch, Quiet
<1>2. call' \in [Actors -> CallType] /\ Others(t) /\ call'[t].pc = "finishing"
  BY <1>1, GotoFacts DEF TurnPcs
<1>3. ~Starter(t) /\ ~Held(t)' /\ ~Starter(t)' /\ ~Closer(t)' /\ ~Waits(t)'
  BY <1>1, <1>2 DEF Held, Starter, Closer, Waits
<1> QED BY <1>1, <1>2, <1>3, MoveStep

LEMMA FinishSyncStep ==
    ASSUME IndInv, NEW t \in Turns, finish_sync(t) PROVE IndInv'
<1> USE ActorFacts, IndInvParts
<1>1. /\ UNCHANGED <<log, begun, completed, entry, used, task, gate, current, answer, exists>>
      /\ call[t].pc = "finishing"
      /\ call' = [call EXCEPT ![t].pc = "locking", ![t].gate = current]
  BY DEF finish_sync, Quiet
<1>2. call' \in [Actors -> CallType] /\ Others(t) /\ call'[t].pc = "locking" /\ call'[t].gate = current
  BY <1>1, LockFacts
<1>3. ~Starter(t) /\ ~Held(t)' /\ ~Starter(t)' /\ ~Closer(t)'
  BY <1>1, <1>2 DEF Held, Starter, Closer
<1>4. task[t] \in {"sent", "ended", "killed"}
  BY <1>1 DEF CoreInv, RunInv
<1> QED BY <1>1, <1>2, <1>3, <1>4, MoveStep

LEMMA RunQueueRetryStep ==
    ASSUME IndInv, run_queue_retry PROVE IndInv'
<1> USE ActorFacts, IndInvParts
<1>1. /\ UNCHANGED <<log, begun, completed, entry, used, task, gate, current, answer, exists>>
      /\ call[Retry].pc = "idle" /\ call[Retry].input = NoInput
      /\ call' = [call EXCEPT ![Retry].pc = "locking", ![Retry].gate = current]
  BY AwayType DEF run_queue_retry, Quiet
<1>2. /\ call' \in [Actors -> CallType] /\ Others(Retry) /\ call'[Retry].pc = "locking"
      /\ call'[Retry].gate = current /\ call'[Retry].input = NoInput
  BY <1>1, LockFacts
<1>3. ~Starter(Retry) /\ ~Held(Retry)' /\ ~Starter(Retry)' /\ ~Closer(Retry)'
  BY <1>1, <1>2 DEF Held, Starter, Closer
<1> QED BY <1>1, <1>2, <1>3, MoveStep DEF RetryPcs

LEMMA WaitForAdmissionsStep ==
    ASSUME IndInv, wait_for_task_admissions PROVE IndInv'
<1> USE ActorFacts, IndInvParts
<1>1. /\ UNCHANGED <<log, begun, completed, entry, used, task, gate, current, answer, exists>>
      /\ call' = Goto(Server, "settling")
  BY DEF wait_for_task_admissions, DownFrame, Goto
<1>2. call' \in [Actors -> CallType] /\ Others(Server) /\ call'[Server].pc = "settling"
  BY <1>1, GotoFacts DEF ServerPcs
<1>3. ~Starter(Server) /\ ~Held(Server)' /\ ~Starter(Server)' /\ ~Closer(Server)' /\ ~Waits(Server)'
  BY <1>2 DEF CoreInv, RoleInv, ServerPcs, Held, Starter, Closer, Waits
<1> QED BY <1>1, <1>2, <1>3, MoveStep DEF ServerPcs

LEMMA SettleLockStep ==
    ASSUME IndInv, settle_lock PROVE IndInv'
<1> USE ActorFacts, IndInvParts
<1>1. /\ UNCHANGED <<log, begun, completed, entry, used, task, gate, current, answer, exists>>
      /\ call[Server].pc = "settling"
      /\ call' = [call EXCEPT ![Server].pc = "locking", ![Server].gate = current]
  BY DEF settle_lock, DownFrame
<1>2. /\ call' \in [Actors -> CallType] /\ Others(Server) /\ call'[Server].pc = "locking"
      /\ call'[Server].gate = current
  BY <1>1, LockFacts
<1>3. ~Starter(Server) /\ ~Held(Server)' /\ ~Starter(Server)' /\ ~Closer(Server)'
  BY <1>1, <1>2 DEF Held, Starter, Closer
<1> QED BY <1>1, <1>2, <1>3, MoveStep DEF ServerPcs

LEMMA CloseAndWaitStep ==
    ASSUME IndInv, close_and_wait PROVE IndInv'
<1> USE ActorFacts, IndInvParts
<1>1. /\ UNCHANGED <<log, begun, completed, entry, used, task, gate, current, answer, exists>>
      /\ call[Server].pc = "settling" /\ call' = [call EXCEPT ![Server] = Away]
  BY DEF close_and_wait, DownFrame
<1>2. call' \in [Actors -> CallType] /\ Others(Server) /\ call'[Server].pc = "idle"
  BY <1>1, AwayFacts
<1>3. ~Starter(Server) /\ ~Held(Server)' /\ ~Starter(Server)' /\ ~Closer(Server)' /\ ~Waits(Server)'
  BY <1>1, <1>2 DEF Held, Starter, Closer, Waits
<1> QED BY <1>1, <1>2, <1>3, MoveStep DEF ServerPcs

----------------------------------------------------------------------------
(* The steps of watchers and of the retry under the gate.                    *)

\* A watcher leaves its gate; it gives up only a turn that is not its own any more.
LEMMA WatcherLeavesStep ==
    ASSUME IndInv, NEW t \in Turns, call[t].pc = "gated", gate' = Released(call[t].gate),
           NEW p \in {"done", "finishing"}, call' = Goto(t, p),
           p = "done" => entry'.turn # t,
           LogCore, log' \in LogType, log'.pending = log.pending, completed' \subseteq Turns,
           EntryDrop, UNCHANGED <<begun, used, task, current, answer, exists>>
    PROVE  IndInv'
<1> USE ActorFacts, IndInvParts
<1>1. call' \in [Actors -> CallType] /\ Others(t) /\ call'[t].pc = p
  BY GotoFacts DEF TurnPcs
<1>2. gate' \in [1..MaxGates -> GateType]
  BY ReleasedFacts DEF Types, CallType
<1>3. entry' \in [turn : 0..MaxTurns, state : {"None", "Reserved", "Running"}]
  BY DEF EntryDrop, Types, NoEntry, NoTurn
<1>4. Types'
  BY <1>1, <1>2, <1>3 DEF Types
<1>5. Held(t) /\ TaskKill
  BY DEF Held, TaskKill
<1>6. CoreInv'
  BY <1>1, <1>4, <1>5, LeaveInv
<1>7. \A b \in Actors : b # t => call'[b] = call[b]
  BY <1>1 DEF Others
<1>8. \A b \in Actors : Starter(b)' => Starter(b) /\ call'[b] = call[b]
  BY <1>1, <1>7 DEF Starter
<1>9. \A c \in Callers : InHand(c)' => InHand(c) /\ call'[c].input = call[c].input
  BY <1>7 DEF InHand, Held, Waits, Starter
<1>10. TalkInv'
  BY <1>8, <1>9, TalkFrame
<1> QED BY <1>4, <1>6, <1>10

LEMMA FinishStaleStep ==
    ASSUME IndInv, NEW t \in Turns, finish_stale(t) PROVE IndInv'
<1> USE ActorFacts, IndInvParts
<1>1. /\ UNCHANGED <<log, begun, completed, entry, used, task, current, answer, exists>>
      /\ call[t].pc = "gated" /\ entry.turn # t
      /\ gate' = Released(call[t].gate) /\ call' = Goto(t, "done")
  BY DEF finish_stale, Quiet
<1>2. LogCore /\ EntryDrop /\ log' \in LogType /\ completed' \subseteq Turns
  BY <1>1, LogSame DEF EntryDrop, Types
<1> QED BY <1>1, <1>2, WatcherLeavesStep

LEMMA FinishFailsStep ==
    ASSUME IndInv, NEW t \in Turns, finish_fails(t) PROVE IndInv'
<1> USE ActorFacts, IndInvParts
<1>1. /\ UNCHANGED <<log, begun, completed, entry, used, task, current, answer, exists>>
      /\ call[t].pc = "gated"
      /\ gate' = Released(call[t].gate) /\ call' = Goto(t, "finishing")
  BY DEF finish_fails, Quiet
<1>2. LogCore /\ EntryDrop /\ log' \in LogType /\ completed' \subseteq Turns
  BY <1>1, LogSame DEF EntryDrop, Types
<1> QED BY <1>1, <1>2, WatcherLeavesStep

\* The head of the queue is reserved by an actor that carries no input of its own.
LEMMA ReserveHeadStep ==
    ASSUME IndInv, NEW a \in Callers \cup Turns \cup {Retry}, call[a].pc \in {"gated", "aborted"},
           LogCore, log' \in LogType, log'.pending = log.pending, completed' \subseteq Turns,
           log.pending # << >>, reserve_execution(a, Head(log.pending).input, TRUE),
           ~gate[call[a].gate].closing, a \in Turns => entry # NoEntry,
           entry.state # "Reserved", entry.state = "Running" => task[entry.turn] # "running",
           UNCHANGED <<begun, task, current, answer, exists>>
    PROVE  IndInv'
<1> USE ActorFacts, IndInvParts
<1>1. Head(log.pending) = log.pending[1] /\ log.pending[1].input \in Inputs
  <2>1. 1 \in 1..Len(log.pending) /\ log.pending \in Seq(PendingType)
    BY PendingFacts
  <2> QED BY <2>1, PendingFacts
<1> DEFINE i == log.pending[1].input
<1>2. reserve_execution(a, i, TRUE) /\ i \in Inputs
  BY <1>1
<1> HIDE DEF i
<1>3. Types'
  BY <1>2, ReserveTypes DEF Types
<1>4. CoreInv'
  BY <1>2, <1>3, ReserveInv
<1>5. TalkInv'
  BY <1>2, <1>3, TalkReserve DEF CoreInv, i
<1> QED BY <1>3, <1>4, <1>5

LEMMA FinishAndMaybeStartNextStep ==
    ASSUME IndInv, NEW t \in Turns, finish_and_maybe_start_next(t) PROVE IndInv'
<1> USE ActorFacts, IndInvParts
<1>1. /\ UNCHANGED <<begun, task, current, answer, exists>>
      /\ call[t].pc = "gated" /\ entry.turn = t
      /\ log' = SettledLog(t) /\ completed' = SettledTurns(t)
  BY DEF finish_and_maybe_start_next
<1>2. entry.state = "Running" /\ task[t] # "running"
  <2>1. entry.state # "None"
    BY <1>1 DEF CoreInv, EntryInv
  <2>2. entry.state # "Reserved"
    BY <1>1 DEF CoreInv, FreshInv
  <2>3. task[t] # "running"
    BY <1>1 DEF CoreInv, RunInv
  <2> QED BY <2>1, <2>2, <2>3 DEF Types
<1>3. Settled(log', completed', t) /\ t <= used /\ entry # NoEntry
  BY <1>1, <1>2, SettledLogSettles, RunningFacts DEF CoreInv
<1>4. LogCore /\ log' \in LogType /\ log'.pending = log.pending /\ completed' \subseteq Turns
  <2>1. completed' \subseteq Turns
    BY <1>3 DEF Settled, Types
  <2> QED BY <1>2, <1>3, <2>1, LogSettled
<1>5. CASE entry' = NoEntry /\ gate' = Released(call[t].gate) /\ call' = Goto(t, "done") /\ UNCHANGED used
  <2>1. EntryDrop /\ entry'.turn # t
    BY <1>1, <1>2, <1>5 DEF EntryDrop, NoEntry
  <2> QED BY <1>1, <1>4, <1>5, <2>1, WatcherLeavesStep
<1>6. CASE /\ ~gate[call[t].gate].closing /\ log'.pending # << >>
           /\ reserve_execution(t, Head(log'.pending).input, TRUE)
  BY <1>1, <1>2, <1>3, <1>4, <1>6, ReserveHeadStep
<1> QED BY <1>5, <1>6 DEF finish_and_maybe_start_next

\* An actor that carries no input returns: nobody is told anything.
LEMMA SilentReturnStep ==
    ASSUME IndInv, NEW a \in Callers \cup {Retry}, Held(a), call[a].input = NoInput,
           NEW w \in Words, Return(a, w),
           LogCore, log' \in LogType, log'.pending = log.pending, completed' \subseteq Turns,
           EntryDrop, TaskKill, task' \in [Turns -> {"none", "running", "sent", "ended", "killed"}],
           UNCHANGED <<begun, used, current, exists>>
    PROVE  IndInv'
<1> USE ActorFacts, IndInvParts
<1>1. /\ gate' = Released(call[a].gate) /\ gate' \in [1..MaxGates -> GateType]
      /\ call' \in [Actors -> CallType] /\ Others(a) /\ call'[a].pc = "idle"
      /\ call'[a].kind = "None" /\ call'[a].input = NoInput
      /\ ~InHand(a)' /\ ~Starter(a)'
  BY ReturnFacts
<1>2. answer' = answer
  BY DEF Return, Answered
<1>3. entry' \in [turn : 0..MaxTurns, state : {"None", "Reserved", "Running"}]
  BY DEF EntryDrop, Types, NoEntry, NoTurn
<1>4. Types'
  BY <1>1, <1>2, <1>3 DEF Types
<1>5. CoreInv'
  BY <1>1, <1>4, LeaveInv
<1>6. \A b \in Actors : b # a => call'[b] = call[b]
  BY <1>1 DEF Others
<1>7. \A b \in Actors : Starter(b)' => Starter(b) /\ call'[b] = call[b]
  BY <1>1, <1>6 DEF Starter
<1>8. \A c \in Callers : InHand(c)' => InHand(c) /\ call'[c].input = call[c].input
  BY <1>1, <1>6 DEF InHand, Held, Waits, Starter
<1>9. TalkInv'
  BY <1>2, <1>7, <1>8, TalkFrame
<1> QED BY <1>4, <1>5, <1>9

LEMMA QueueRetryStep ==
    ASSUME IndInv, queue_retry PROVE IndInv'
<1> USE ActorFacts, IndInvParts
<1>1. /\ UNCHANGED <<log, begun, completed, task, current, exists>> /\ call[Retry].pc = "gated"
      /\ Held(Retry)
  BY DEF queue_retry, Held
<1>2. call[Retry].input = NoInput /\ ~gate[call[Retry].gate].closing
  BY <1>1 DEF CoreInv, RoleInv, GateInv
<1>3. LogCore /\ log' \in LogType /\ completed' \subseteq Turns
  BY <1>1, LogSame DEF Types
<1>4. CASE Return(Retry, "none") /\ UNCHANGED <<entry, used>>
  <2>1. EntryDrop /\ TaskKill /\ "none" \in Words
    BY <1>1, <1>4 DEF EntryDrop, TaskKill, Words
  <2>2. task' \in [Turns -> {"none", "running", "sent", "ended", "killed"}]
    BY <1>1 DEF Types
  <2> QED BY <1>1, <1>2, <1>3, <1>4, <2>1, <2>2, SilentReturnStep
<1>5. CASE /\ entry = NoEntry /\ log.pending # << >>
           /\ reserve_execution(Retry, Head(log.pending).input, TRUE) /\ UNCHANGED answer
  <2>1. entry.state = "None"
    BY <1>5 DEF NoEntry
  <2> QED BY <1>1, <1>2, <1>3, <1>5, <2>1, ReserveHeadStep
<1> QED BY <1>4, <1>5 DEF queue_retry, Head1

----------------------------------------------------------------------------
(* Abort, interrupt and repair.                                              *)

\* A caller goes on under its gate, or with the close it began; no input is touched.
LEMMA StayStep ==
    ASSUME IndInv, NEW c \in Callers,
           NEW p \in {"aborting", "aborted", "deleting", "closeFails"}, call' = Goto(c, p),
           \/ Held(c) /\ Aborts(c) /\ p \in {"aborting", "aborted"}
           \/ Closer(c) /\ p \in {"deleting", "closeFails"},
           p \in {"aborted", "deleting"} => entry' = NoEntry,
           LogCore, log' \in LogType, log'.pending = log.pending, completed' \subseteq Turns,
           EntryDrop, TaskKill, task' \in [Turns -> {"none", "running", "sent", "ended", "killed"}],
           UNCHANGED <<begun, gate, answer, used, current, exists>>
    PROVE  IndInv'
<1> USE ActorFacts, IndInvParts
<1>1. /\ call' \in [Actors -> CallType] /\ Others(c) /\ call'[c].pc = p
      /\ call'[c].kind = call[c].kind /\ call'[c].gate = call[c].gate
      /\ call'[c].input = call[c].input
  BY GotoFacts DEF CallerPcs
<1>2. entry' \in [turn : 0..MaxTurns, state : {"None", "Reserved", "Running"}]
  BY DEF EntryDrop, Types, NoEntry, NoTurn
<1>3. Types'
  BY <1>1, <1>2 DEF Types
<1>4. CoreInv'
  BY <1>1, <1>3, StayInv
<1>5. \A b \in Actors : b # c => call'[b] = call[b]
  BY <1>1 DEF Others
<1>6. \A b \in Actors : Starter(b)' => Starter(b) /\ call'[b] = call[b]
  BY <1>1, <1>5 DEF Starter
<1>7. InHand(c)' => InHand(c)
  <2>1. CASE Held(c)
    BY <1>1, <2>1 DEF InHand
  <2>2. CASE Closer(c)
    BY <1>1, <2>2 DEF InHand, CoreInv, RoleInv
  <2> QED BY <2>1, <2>2
<1>8. \A d \in Callers : InHand(d)' => InHand(d) /\ call'[d].input = call[d].input
  BY <1>1, <1>5, <1>7 DEF InHand, Held, Waits, Starter
<1>9. TalkInv'
  BY <1>6, <1>8, TalkFrame
<1> QED BY <1>3, <1>4, <1>9

LEMMA AbortStep ==
    ASSUME IndInv, NEW c \in Callers, abort(c) PROVE IndInv'
<1> USE IndInvParts
<1>1. /\ UNCHANGED <<log, begun, completed, entry, used, task, gate, current, answer, exists>>
      /\ Held(c) /\ Aborts(c) /\ call' = Goto(c, "aborting")
  BY DEF abort, Quiet, Held
<1>2. LogCore /\ EntryDrop /\ TaskKill
  BY <1>1, LogSame DEF EntryDrop, TaskKill
<1>3. /\ log' \in LogType /\ completed' \subseteq Turns
      /\ task' \in [Turns -> {"none", "running", "sent", "ended", "killed"}]
  BY <1>1 DEF Types
<1> QED BY <1>1, <1>2, <1>3, StayStep

\* A step that moves no actor and changes only what the invariant does not speak of.
LEMMA UnchangedStep ==
    ASSUME IndInv, UNCHANGED <<log, begun, completed, entry, used, task, gate, current, call, answer, exists>>
    PROVE  IndInv'
BY DEF IndInv, Types, RoleInv, GateInv, EntryInv, StartInv, FreshInv, RunInv, CompletedInv, QueueInv,
       HandInv, Held, Waits, Starter, Closer, Aborts, InHand, Waiting, Distinct

LEMMA RequestShutdownStep ==
    ASSUME IndInv, NEW c \in Callers, request_shutdown(c) PROVE IndInv'
BY UnchangedStep DEF request_shutdown, Quiet

LEMMA StopAdmissionStep ==
    ASSUME IndInv, stop_task_admission PROVE IndInv'
BY UnchangedStep DEF stop_task_admission, DownFrame

LEMMA AborterFacts ==
    ASSUME IndInv, NEW c \in Callers, call[c].pc \in {"aborting", "aborted"}
    PROVE  Held(c) /\ Aborts(c) /\ ~gate[call[c].gate].closing
           /\ (call[c].kind = "InterruptAndStart" => call[c].input \in Inputs)
           /\ (call[c].kind # "InterruptAndStart" => call[c].input = NoInput)
<1> USE IndInvParts
<1>1. Held(c) /\ Aborts(c)
  BY DEF Held, CoreInv, RoleInv
<1>2. ~gate[call[c].gate].closing
  BY <1>1 DEF CoreInv, GateInv
<1> QED BY <1>1, <1>2 DEF CoreInv, RoleInv, Aborts, Deliveries

\* The aborted turn is settled: the registry forgets it, its task works no more.
LEMMA AbortedStep ==
    ASSUME IndInv, NEW c \in Callers, call[c].pc = "aborting", entry.state = "Running",
           Settled(log', completed', entry.turn), entry' = NoEntry, call' = Goto(c, "aborted"),
           TaskKill, task'[entry.turn] # "running",
           UNCHANGED <<begun, gate, answer, used, current, exists>>
    PROVE  IndInv'
<1> USE IndInvParts
<1>1. Held(c) /\ Aborts(c)
  BY AborterFacts
<1>2. entry.turn \in Turns /\ entry.turn <= used
  BY RunningFacts
<1>3. LogCore /\ log' \in LogType /\ log'.pending = log.pending
  BY <1>2, LogSettled
<1>4. completed' \subseteq Turns
  BY <1>2 DEF Settled, Types
<1>5. EntryDrop
  BY DEF EntryDrop
<1>6. task' \in [Turns -> {"none", "running", "sent", "ended", "killed"}]
  BY DEF Types, TaskKill
<1> QED BY <1>1, <1>3, <1>4, <1>5, <1>6, StayStep

\* The abort fails: a killed task stays registered, its watcher settles it.
LEMMA AbortFailsStep ==
    ASSUME IndInv, NEW c \in Callers, call[c].pc = "aborting", Return(c, "refused"), TaskKill,
           UNCHANGED <<log, begun, completed, entry, used, current, exists>>
    PROVE  IndInv'
<1> USE ActorFacts, IndInvParts
<1>1. Held(c) /\ Aborts(c)
  BY AborterFacts
<1>2. LogCore /\ EntryDrop
  BY LogSame DEF EntryDrop
<1>3. task' \in [Turns -> {"none", "running", "sent", "ended", "killed"}]
  BY DEF Types, TaskKill
<1>4. /\ gate' = Released(call[c].gate) /\ gate' \in [1..MaxGates -> GateType]
      /\ call' \in [Actors -> CallType] /\ Others(c) /\ call'[c].pc = "idle"
      /\ call'[c].kind = "None" /\ call'[c].input = NoInput
      /\ answer' \in [Inputs -> Words] /\ ~InHand(c)' /\ ~Starter(c)'
  BY ReturnFacts DEF Words
<1>5. Types'
  BY <1>3, <1>4 DEF Types
<1>6. CoreInv'
  BY <1>1, <1>2, <1>4, <1>5, LeaveInv
<1>7. TalkInv'
  BY <1>1, <1>4, <1>5, TalkRefuse DEF InHand, Return
<1> QED BY <1>5, <1>6, <1>7

LEMMA AbortSettlesStep ==
    ASSUME IndInv, NEW c \in Callers, abort_settles(c) PROVE IndInv'
<1> USE IndInvParts
<1>1. /\ UNCHANGED <<begun, task, used, current, exists>> /\ call[c].pc = "aborting" /\ TaskKill
      /\ entry.state = "Running" /\ task'[entry.turn] # "running"
  BY DEF abort_settles, Quiet, is_finished, TaskKill
<1>2. CASE /\ log' = IF final[entry.turn] = "persisted" THEN log ELSE finalize_turn(log, entry.turn)
           /\ completed' = IF final[entry.turn] = "persisted" THEN completed ELSE Completing(entry.turn)
           /\ entry' = NoEntry /\ call' = Goto(c, "aborted") /\ UNCHANGED <<gate, answer>>
  <2>1. Settled(log', completed', entry.turn)
    BY <1>1, <1>2, RunningFacts, FinalizeSettles, RepairSettles DEF CoreInv
  <2> QED BY <1>1, <1>2, <2>1, AbortedStep
<1>3. CASE Return(c, "refused") /\ UNCHANGED <<log, completed, entry>>
  BY <1>1, <1>3, AbortFailsStep
<1> QED BY <1>2, <1>3 DEF abort_settles

LEMMA ForceKillStep ==
    ASSUME IndInv, NEW c \in Callers, force_kill(c) PROVE IndInv'
<1> USE IndInvParts
<1>1. /\ UNCHANGED <<begun, used, current, exists>> /\ call[c].pc = "aborting"
      /\ entry.state = "Running" /\ task' = [task EXCEPT ![entry.turn] = "killed"]
  BY DEF force_kill, Quiet, is_running
<1>2. entry.turn \in Turns /\ TaskKill /\ task'[entry.turn] # "running"
  <2>1. entry.turn \in Turns
    BY <1>1, RunningFacts
  <2> QED BY <1>1, <2>1 DEF TaskKill, Types
<1>3. CASE /\ log' = finalize_turn(log, entry.turn) /\ completed' = Completing(entry.turn)
           /\ entry' = NoEntry /\ call' = Goto(c, "aborted") /\ UNCHANGED <<gate, answer>>
  <2>1. Settled(log', completed', entry.turn)
    BY <1>2, <1>3, FinalizeSettles DEF CoreInv
  <2> QED BY <1>1, <1>2, <1>3, <2>1, AbortedStep
<1>4. CASE Return(c, "refused") /\ UNCHANGED <<log, completed, entry>>
  BY <1>1, <1>2, <1>4, AbortFailsStep
<1> QED BY <1>3, <1>4 DEF force_kill

LEMMA AbortNothingStep ==
    ASSUME IndInv, NEW c \in Callers, abort_nothing(c) PROVE IndInv'
<1> USE IndInvParts
<1>1. /\ UNCHANGED <<log, begun, completed, entry, used, task, gate, current, answer, exists>>
      /\ call[c].pc = "aborting" /\ entry = NoEntry /\ call' = Goto(c, "aborted")
  BY DEF abort_nothing, Quiet
<1>2. LogCore /\ EntryDrop /\ TaskKill
  BY <1>1, LogSame DEF EntryDrop, TaskKill
<1>3. /\ log' \in LogType /\ completed' \subseteq Turns
      /\ task' \in [Turns -> {"none", "running", "sent", "ended", "killed"}]
  BY <1>1 DEF Types
<1> QED BY <1>1, <1>2, <1>3, AborterFacts, StayStep

\* Closing a stale phase that no turn owns.
LEMMA RepairedLog ==
    ASSUME Types, CoreInv, entry = NoEntry, log' = repair_turn_protocol_state(log), completed' = completed
    PROVE  LogCore /\ log' \in LogType /\ log'.pending = log.pending
<1>1. Settled(log', completed', 1)
  BY RepairSettles DEF CoreInv
<1> QED BY <1>1 DEF Settled, LogCore, NoEntry

LEMMA AbortContinuesStep ==
    ASSUME IndInv, NEW c \in Callers, abort_continues(c) PROVE IndInv'
<1> USE ActorFacts, IndInvParts
<1>1. UNCHANGED <<begun, completed, task, current, exists>> /\ call[c].pc = "aborted"
  BY DEF abort_continues
<1>2. entry = NoEntry /\ entry.state = "None"
  BY <1>1 DEF CoreInv, EntryInv, NoEntry
<1>3. log' = repair_turn_protocol_state(log)
  BY <1>2 DEF abort_continues
<1>4. LogCore /\ log' \in LogType /\ log'.pending = log.pending /\ completed' \subseteq Turns
  BY <1>1, <1>2, <1>3, RepairedLog DEF Types
<1>5. /\ Held(c) /\ ~gate[call[c].gate].closing
      /\ (call[c].kind = "InterruptAndStart" => call[c].input \in Inputs)
      /\ (call[c].kind # "InterruptAndStart" => call[c].input = NoInput)
  BY <1>1, AborterFacts
<1>6. CASE /\ call[c].kind = "InterruptAndStart"
           /\ reserve_execution(c, call[c].input, FALSE) /\ UNCHANGED answer
  <2>1. Types'
    BY <1>1, <1>4, <1>5, <1>6, ReserveTypes DEF Types
  <2>2. CoreInv'
    BY <1>1, <1>2, <1>4, <1>5, <1>6, <2>1, ReserveInv
  <2>3. InHand(c)
    BY <1>5, <1>6 DEF InHand
  <2>4. TalkInv'
    BY <1>1, <1>2, <1>4, <1>5, <1>6, <2>1, <2>3, TalkReserve DEF CoreInv
  <2> QED BY <2>1, <2>2, <2>4
<1>7. CASE /\ log.pending # << >>
           /\ reserve_execution(c, Head(log.pending).input, TRUE) /\ UNCHANGED answer
  BY <1>1, <1>2, <1>4, <1>5, <1>7, ReserveHeadStep
<1>8. CASE /\ call[c].kind # "InterruptAndStart" /\ Return(c, "none") /\ UNCHANGED <<entry, used>>
  <2>1. EntryDrop /\ TaskKill /\ "none" \in Words
    BY <1>1, <1>8 DEF EntryDrop, TaskKill, Words
  <2>2. task' \in [Turns -> {"none", "running", "sent", "ended", "killed"}]
    BY <1>1 DEF Types
  <2> QED BY <1>1, <1>4, <1>5, <1>8, <2>1, <2>2, SilentReturnStep
<1>9. \/ call[c].kind = "InterruptAndStart" /\ reserve_execution(c, call[c].input, FALSE) /\ UNCHANGED answer
      \/ log'.pending # << >> /\ reserve_execution(c, Head(log'.pending).input, TRUE) /\ UNCHANGED answer
      \/ call[c].kind # "InterruptAndStart" /\ Return(c, "none") /\ UNCHANGED <<entry, used>>
  BY <1>2, <1>3 DEF abort_continues
<1> QED BY <1>4, <1>6, <1>7, <1>8, <1>9

\* A caller that repairs holds the open gate and carries no input.
LEMMA RepairerFacts ==
    ASSUME IndInv, NEW c \in Callers, NEW k \in {"Repair", "Close"}, Gated(c, k)
    PROVE  /\ call[c].pc = "gated" /\ Held(c) /\ call[c].input = NoInput
           /\ ~gate[call[c].gate].closing /\ call[c].gate = current /\ exists
<1> USE ActorFacts, IndInvParts
<1>1. call[c].pc = "gated" /\ Held(c)
  BY DEF Gated, Held
<1>2. call[c].input = NoInput
  BY <1>1 DEF CoreInv, RoleInv, Gated, Deliveries
<1>3. ~gate[call[c].gate].closing /\ exists
  BY <1>1 DEF CoreInv, GateInv, EntryInv
<1>4. call[c].gate = current
  BY <1>1, <1>3, OpenIsCurrent DEF CoreInv
<1> QED BY <1>1, <1>2, <1>3, <1>4

\* A stale turn is driven again: nobody else works, and its terminal is not written.
LEMMA ResumeStaleStep ==
    ASSUME IndInv, NEW c \in Callers, resume_stale_execution(c) PROVE IndInv'
<1> USE ActorFacts, IndInvParts
<1> DEFINE t == log.unsettled
           y == [Away EXCEPT !.pc = "waiting"]
<1>1. /\ Gated(c, "Repair") /\ entry = NoEntry /\ t # NoTurn
      /\ entry' = [turn |-> t, state |-> "Running"] /\ task' = [task EXCEPT ![t] = "running"]
      /\ gate' = Released(call[c].gate) /\ call' = [call EXCEPT ![c] = Away, ![t] = y]
      /\ UNCHANGED <<log, begun, completed, answer, used, current, exists>>
  BY DEF resume_stale_execution, Resumable, Quiet
<1>2. /\ call[c].pc = "gated" /\ Held(c) /\ call[c].input = NoInput
      /\ ~gate[call[c].gate].closing /\ call[c].gate = current /\ exists
  BY <1>1, RepairerFacts
<1>3. t \in Turns /\ t \in 1..used /\ t \notin completed /\ t # c
  <2>1. t \in 0..used /\ t \notin completed /\ used \in 0..MaxTurns
    BY DEF CoreInv, FreshInv, CompletedInv, Types
  <2> QED BY <1>1, <2>1 DEF Turns, NoTurn
<1>4. y \in CallType /\ y.pc = "waiting"
  BY AwayType DEF CallType, TurnPcs
<1>5. /\ call' \in [Actors -> CallType] /\ call'[c] = Away /\ call'[t] = y
      /\ \A b \in Actors : b # c /\ b # t => call'[b] = call[b]
  <2> HIDE DEF y, t
  <2>1. call \in [Actors -> CallType] /\ t \in Actors
    BY <1>3 DEF Types
  <2> QED BY <1>1, <1>3, <1>4, <2>1, AwayType
<1>6. entry.state = "None" /\ entry'.state = "Running" /\ entry'.turn = t /\ t \in 0..MaxTurns
  BY <1>1, <1>3 DEF NoEntry
<1> HIDE DEF y, t
<1>7. \A b \in Actors : ~Starter(b)
  BY <1>6 DEF CoreInv, StartInv
<1>8. \A b \in Actors : /\ ~Starter(b)'
                        /\ (Held(b)' => b # c /\ Held(b)) /\ (Waits(b)' => Waits(b)) /\ (Closer(b)' => Closer(b))
                        /\ (Held(b)' \/ Waits(b)' \/ Closer(b)' => call'[b] = call[b])
  BY <1>4, <1>5, <1>7, AwayType DEF Starter, Held, Waits, Closer
<1>9. /\ gate' \in [1..MaxGates -> GateType]
      /\ \A g \in 1..MaxGates : gate'[g].closing = gate[g].closing
      /\ \A g \in 1..MaxGates : g # call[c].gate => gate'[g] = gate[g]
  <2>1. call[c].gate \in 1..MaxGates /\ gate[call[c].gate] \in GateType
    BY DEF Types, CallType
  <2>2. gate' \in [1..MaxGates -> GateType]
    BY <1>1, <2>1, ReleasedFacts
  <2> QED BY <1>1, <2>1, <2>2 DEF Released, Types, GateType
<1>10. Types'
  <2>1. entry' \in [turn : 0..MaxTurns, state : {"None", "Reserved", "Running"}]
    BY <1>1, <1>6
  <2>2. task' \in [Turns -> {"none", "running", "sent", "ended", "killed"}]
    BY <1>1 DEF Types
  <2> QED BY <1>1, <1>5, <1>9, <2>1, <2>2 DEF Types
<1>11. RoleInv'
  <2>1. \A b \in Callers : b # t
    BY <1>3
  <2>2. Retry # t /\ Server # t /\ Retry # c /\ Server # c
    BY <1>3
  <2>3. Away.pc \in CallerPcs /\ y.pc \in TurnPcs
    BY <1>4, AwayType DEF CallerPcs, TurnPcs
  <2>4. RoleInv
    BY DEF CoreInv
  <2>5. \A b \in Callers : Held(b)' \/ Waits(b)' \/ Closer(b)' => Aborts(b)' = Aborts(b)
    BY <1>8 DEF Aborts
  <2>6. \A b \in Callers : call'[b].pc \in CallerPcs
    BY <1>5, <2>1, <2>3, <2>4 DEF RoleInv
  <2>7. \A b \in Turns : call'[b].pc \in TurnPcs
    BY <1>5, <2>3, <2>4 DEF RoleInv
  <2>8. call'[Retry] = call[Retry] /\ call'[Server] = call[Server]
    BY <1>5, <2>2
  <2> QED BY <1>8, <2>4, <2>5, <2>6, <2>7, <2>8 DEF RoleInv, Held, Waits
<1>12. GateInv'
  <2>1. GateInv /\ \A b \in Actors : call[b].gate \in 1..MaxGates /\ current \in 1..MaxGates
    BY DEF CoreInv, Types, CallType
  <2>2. \A b \in Callers : call'[b].kind = "Close" => call'[b] = call[b]
    BY <1>3, <1>5, AwayType
  <2>3. \A b \in Actors : Held(b)' => call[b].gate # call[c].gate
    BY <1>2, <1>8, <2>1 DEF GateInv
  <2>4. \A b \in Actors : Held(b)' => gate'[call'[b].gate].holder = b
    BY <1>8, <1>9, <2>1, <2>3 DEF GateInv
  <2>5. \A b \in Actors : Held(b)' \/ Waits(b)' =>
            \/ call'[b].gate = current
            \/ call'[b].gate < current /\ gate'[call'[b].gate].closing
    BY <1>8, <1>9, <2>1 DEF GateInv
  <2>6. \A b \in Callers \cup {Retry} : Held(b)' => ~gate'[call'[b].gate].closing
    BY <1>8, <1>9, <2>1 DEF GateInv
  <2>7. \A b \in Callers : Closer(b)' => call'[b].gate = current /\ gate'[current].closing
    BY <1>8, <1>9, <2>1 DEF GateInv
  <2>8. \A b \in Callers : call'[b].kind = "Close" => call'[b].gate < MaxGates
    BY <2>1, <2>2 DEF GateInv
  <2>9. \A b, d \in Callers : Closer(b)' /\ Closer(d)' => b = d
    BY <1>8, <2>1 DEF GateInv
  <2>10. current' = current
    BY <1>1
  <2> QED BY <2>4, <2>5, <2>6, <2>7, <2>8, <2>9, <2>10 DEF GateInv
<1>13. EntryInv'
  <2>1. \A b \in Callers : b # c => call[b].pc # "aborted"
    BY <1>2, HolderAlone DEF CoreInv
  <2>2. \A b \in Callers : call[b].pc # "deleting"
    BY <1>2, HolderAlone DEF CoreInv
  <2>3. \A b \in Callers : call'[b].pc \notin {"aborted", "deleting"}
    BY <1>3, <1>5, <2>1, <2>2, AwayType
  <2> QED BY <1>1, <1>2, <1>3, <1>6, <2>3 DEF EntryInv
<1>14. StartInv'
  BY <1>6, <1>8 DEF StartInv
<1>15. FreshInv'
  <2>1. \A u \in Turns : u > used => task'[u] = "none" /\ call'[u].pc = "idle" /\ u \notin completed
    <3> SUFFICES ASSUME NEW u \in Turns, u > used
                 PROVE  task'[u] = "none" /\ call'[u].pc = "idle" /\ u \notin completed
      OBVIOUS
    <3>1. task[u] = "none" /\ call[u].pc = "idle" /\ u \notin completed
      BY DEF CoreInv, FreshInv
    <3>2. u # t /\ u # c
      BY <1>3 DEF Types
    <3> QED BY <1>1, <1>5, <3>1, <3>2 DEF Types
  <2>2. \A b \in Actors : call'[b].pc # "starting"
    BY <1>8 DEF Starter
  <2> QED BY <1>1, <1>6, <2>1, <2>2 DEF CoreInv, FreshInv
<1>16. RunInv'
  <2>1. \A u \in Turns : u # t => task'[u] = task[u] /\ task[u] # "running"
    BY <1>1, <1>6 DEF Types, CoreInv, RunInv
  <2>2. \A u \in Turns : call'[u].pc \in {"finishing", "locking", "gated"} =>
            u # t /\ call'[u] = call[u]
    BY <1>4, <1>5
  <2> QED BY <1>4, <1>5, <1>6, <2>1, <2>2 DEF CoreInv, RunInv
<1>17. CompletedInv'
  BY <1>1 DEF CoreInv, CompletedInv
<1>18. TalkInv'
  <2>1. \A d \in Callers : InHand(d)' => InHand(d) /\ call'[d].input = call[d].input
    BY <1>8 DEF InHand
  <2> QED BY <1>1, <1>8, <2>1, TalkFrame
<1> QED BY <1>10, <1>11, <1>12, <1>13, <1>14, <1>15, <1>16, <1>17, <1>18 DEF CoreInv

LEMMA RepairStaleStep ==
    ASSUME IndInv, NEW c \in Callers, repair_stale(c) PROVE IndInv'
<1> USE ActorFacts, IndInvParts
<1> DEFINE t == log.unsettled
           owed == Resumable /\ log.step = "Finished"
           l == IF owed THEN TurnCompleted(log, t)
                ELSE IF entry = NoEntry THEN repair_turn_protocol_state(log) ELSE log
<1>1. /\ Gated(c, "Repair") /\ UNCHANGED <<begun, task, current, exists>>
      /\ log' = l /\ completed' = IF owed THEN completed \cup {t} ELSE completed
      /\ IF l.pending # << >> /\ entry = NoEntry
         THEN reserve_execution(c, Head(l.pending).input, TRUE) /\ UNCHANGED answer
         ELSE Return(c, "none") /\ UNCHANGED <<entry, used>>
  BY DEF repair_stale
<1>2. /\ call[c].pc = "gated" /\ Held(c) /\ call[c].input = NoInput /\ ~gate[call[c].gate].closing
  BY <1>1, RepairerFacts
<1>3. LogCore /\ log' \in LogType /\ log'.pending = log.pending /\ completed' \subseteq Turns
  <2>1. CASE owed
    <3>1. entry = NoEntry /\ t # NoTurn
      BY <2>1 DEF Resumable
    <3>2. t \in Turns /\ t <= used /\ entry.state # "Reserved"
      <4>1. t \in 0..used /\ used \in 0..MaxTurns
        BY DEF CoreInv, FreshInv, Types
      <4> QED BY <3>1, <4>1 DEF Turns, NoTurn, NoEntry
    <3>3. Settled(log', completed', t)
      BY <1>1, <2>1, <3>2, TerminalSettles DEF CoreInv
    <3>4. completed' \subseteq Turns
      BY <3>2, <3>3 DEF Settled, Types
    <3> HIDE DEF t, owed, l
    <3> QED BY <3>2, <3>3, <3>4, LogSettled
  <2>2. CASE ~owed /\ entry = NoEntry
    BY <1>1, <2>2, RepairedLog DEF Types
  <2>3. CASE ~owed /\ entry # NoEntry
    BY <1>1, <2>3, LogSame DEF Types
  <2> QED BY <2>1, <2>2, <2>3
<1> HIDE DEF l, owed, t
<1>4. CASE log.pending # << >> /\ entry = NoEntry
  <2>1. entry.state = "None" /\ reserve_execution(c, Head(log.pending).input, TRUE) /\ UNCHANGED answer
    BY <1>1, <1>3, <1>4 DEF NoEntry
  <2> QED BY <1>1, <1>2, <1>3, <1>4, <2>1, ReserveHeadStep
<1>5. CASE ~(log.pending # << >> /\ entry = NoEntry)
  <2>1. Return(c, "none") /\ UNCHANGED <<entry, used>>
    BY <1>1, <1>3, <1>5
  <2>2. EntryDrop /\ TaskKill /\ "none" \in Words
    BY <1>1, <2>1 DEF EntryDrop, TaskKill, Words
  <2>3. task' \in [Turns -> {"none", "running", "sent", "ended", "killed"}]
    BY <1>1 DEF Types
  <2> QED BY <1>1, <1>2, <1>3, <2>1, <2>2, <2>3, SilentReturnStep
<1> QED BY <1>4, <1>5

LEMMA RepairFailsStep ==
    ASSUME IndInv, NEW c \in Callers, repair_fails(c) PROVE IndInv'
<1> USE ActorFacts, IndInvParts
<1>1. /\ Gated(c, "Repair") /\ UNCHANGED <<log, begun, completed, entry, used, task, current, exists>>
      /\ Return(c, "none")
  BY DEF repair_fails, Quiet
<1>2. Held(c) /\ call[c].input = NoInput
  BY <1>1, RepairerFacts
<1>3. LogCore /\ EntryDrop /\ TaskKill /\ "none" \in Words
  BY <1>1, LogSame DEF EntryDrop, TaskKill, Words
<1>4. /\ log' \in LogType /\ completed' \subseteq Turns
      /\ task' \in [Turns -> {"none", "running", "sent", "ended", "killed"}]
  BY <1>1 DEF Types
<1> QED BY <1>1, <1>2, <1>3, <1>4, SilentReturnStep

----------------------------------------------------------------------------
(* Closing the session, shutdown and crash.                                  *)

\* close marks the current gate: whoever held it was the closer itself.
LEMMA CloseStep ==
    ASSUME IndInv, NEW c \in Callers, close(c) PROVE IndInv'
<1> USE ActorFacts, IndInvParts
<1> DEFINE g == call[c].gate
           h == [gate[g] EXCEPT !.holder = Nobody]
           r == [h EXCEPT !.closing = TRUE]
<1>1. /\ Gated(c, "Close") /\ call' = Goto(c, "closing")
      /\ gate' = [gate EXCEPT ![g].holder = Nobody, ![g].closing = TRUE]
      /\ UNCHANGED <<log, begun, completed, entry, used, task, answer, current, exists>>
  BY DEF close, Quiet
<1>2. /\ call[c].pc = "gated" /\ Held(c) /\ call[c].input = NoInput /\ call[c].kind = "Close"
      /\ ~gate[g].closing /\ g = current /\ exists
  BY <1>1, RepairerFacts DEF Gated
<1>3. /\ call' \in [Actors -> CallType] /\ Others(c) /\ call'[c].pc = "closing"
      /\ call'[c].kind = call[c].kind /\ call'[c].gate = g /\ call'[c].input = call[c].input
  BY <1>1, GotoFacts DEF CallerPcs
<1>4. g \in 1..MaxGates /\ gate[g] \in GateType /\ gate \in [1..MaxGates -> GateType]
  BY DEF Types, CallType
<1>5. h \in GateType
  BY <1>4 DEF GateType
<1>6. r \in GateType /\ r.closing = TRUE
  <2> HIDE DEF h
  <2> QED BY <1>5 DEF GateType
<1>7. gate' = [gate EXCEPT ![g] = r]
  BY <1>1, <1>4
<1> HIDE DEF r, h
<1>8. /\ gate' \in [1..MaxGates -> GateType] /\ gate'[g].closing
      /\ \A f \in 1..MaxGates : f # g => gate'[f] = gate[f]
  BY <1>4, <1>6, <1>7
<1>9. Types'
  BY <1>1, <1>3, <1>8 DEF Types
<1>10. ~Held(c)' /\ ~Waits(c)' /\ ~Starter(c)' /\ Closer(c)' /\ ~Starter(c) /\ ~InHand(c)'
  BY <1>2, <1>3 DEF Held, Waits, Starter, Closer, InHand
<1>11. \A b \in Actors : /\ (b # c => call'[b] = call[b]) /\ Starter(b)' = Starter(b)
                         /\ (Held(b)' => Held(b) /\ b # c) /\ (Waits(b)' => Waits(b) /\ b # c)
                         /\ (Closer(b)' => Closer(b) \/ b = c)
  BY <1>3, <1>10 DEF Others, Held, Waits, Starter, Closer
<1>12. LogCore /\ EntryDrop /\ TaskKill
  BY <1>1, LogSame DEF EntryDrop, TaskKill
<1>13. SteadyCalls
  <2>1. \A t \in Turns : call'[t] = call[t]
    BY <1>11
  <2> QED BY <1>1, <1>10, <1>11, <2>1 DEF SteadyCalls, CoreInv, RunInv
<1>14. /\ StartInv' /\ FreshInv' /\ RunInv' /\ CompletedInv'
       /\ IF entry'.state = "None" THEN entry'.turn = NoTurn ELSE entry'.turn \in 1..used'
  BY <1>1, <1>9, <1>12, <1>13, SteadyInv
<1>15. EntryInv'
  BY <1>1, <1>2, <1>3, <1>11, <1>14 DEF CoreInv, EntryInv
<1> HIDE DEF g
<1>16. GateInv'
  <2>1. GateInv /\ \A b \in Actors : call[b].gate \in 1..MaxGates /\ current \in 1..MaxGates
    BY DEF CoreInv, Types, CallType
  <2>2. \A b \in Actors : Held(b)' => call[b].gate # g
    BY <1>2, <1>11, <2>1 DEF GateInv, g
  <2>3. \A b \in Callers : ~Closer(b)
    BY <1>2, <2>1 DEF GateInv, g
  <2>4. \A b \in Actors : Held(b)' => gate'[call'[b].gate].holder = b
    BY <1>8, <1>11, <2>1, <2>2 DEF GateInv
  <2>5. \A b \in Actors : Held(b)' \/ Waits(b)' =>
            \/ call'[b].gate = current
            \/ call'[b].gate < current /\ gate'[call'[b].gate].closing
    BY <1>2, <1>8, <1>11, <2>1 DEF GateInv
  <2>6. \A b \in Callers \cup {Retry} : Held(b)' => ~gate'[call'[b].gate].closing
    BY <1>8, <1>11, <2>1, <2>2 DEF GateInv
  <2>7. \A b \in Callers : Closer(b)' => b = c
    BY <1>11, <2>3
  <2>8. \A b \in Callers : call'[b].kind = "Close" => call'[b].gate < MaxGates
    BY <1>2, <1>3, <1>11, <2>1 DEF GateInv, g
  <2> QED BY <1>1, <1>2, <1>3, <1>8, <2>4, <2>5, <2>6, <2>7, <2>8 DEF GateInv
<1>17. RoleInv'
  <2>1. RoleInv
    BY DEF CoreInv
  <2>2. \A b \in Actors : b # c => Aborts(b)' = Aborts(b)
    BY <1>11 DEF Aborts
  <2>3. c # Retry /\ c # Server /\ c \notin Turns
    OBVIOUS
  <2>4. \A b \in Callers : call'[b].pc \in CallerPcs
    BY <1>3, <1>11, <2>1 DEF RoleInv, CallerPcs
  <2>5. \A b \in Callers : Held(b)' \/ Waits(b)' =>
            IF call'[b].kind \in Deliveries THEN call'[b].input \in Inputs ELSE call'[b].input = NoInput
    BY <1>11, <2>1 DEF RoleInv
  <2>6. \A b \in Callers : call'[b].pc \in {"aborting", "aborted"} => Aborts(b)'
    BY <1>3, <1>11, <2>1, <2>2 DEF RoleInv
  <2>7. \A b \in Callers : Closer(b)' => call'[b].kind = "Close" /\ call'[b].input = NoInput
    BY <1>2, <1>3, <1>11, <2>1 DEF RoleInv
  <2>8. call'[Retry] = call[Retry] /\ call'[Server] = call[Server] /\ \A t \in Turns : call'[t] = call[t]
    BY <1>11, <2>3
  <2> QED BY <2>1, <2>4, <2>5, <2>6, <2>7, <2>8 DEF RoleInv, Held, Waits
<1>18. TalkInv'
  <2>1. \A d \in Callers : InHand(d)' => InHand(d) /\ call'[d].input = call[d].input
    BY <1>10, <1>11 DEF InHand
  <2>2. \A b \in Actors : Starter(b)' => Starter(b) /\ call'[b] = call[b]
    BY <1>10, <1>11
  <2> QED BY <1>1, <2>1, <2>2, TalkFrame
<1> QED BY <1>9, <1>14, <1>15, <1>16, <1>17, <1>18 DEF CoreInv

\* cleanup_execution_locked: afterwards the registered turn, if any was settled,
\* works no more.
LEMMA CleanUpFacts ==
    ASSUME IndInv, NEW a, NEW then, CleanUp(a, then)
    PROVE  /\ LogCore /\ log' \in LogType /\ log'.pending = log.pending /\ completed' \subseteq Turns
           /\ EntryDrop /\ TaskKill
           /\ task' \in [Turns -> {"none", "running", "sent", "ended", "killed"}]
           /\ \/ entry' = NoEntry /\ call' = Goto(a, then)
              \/ call' = Goto(a, IF then = "deleting" THEN "closeFails" ELSE "settling")
<1> USE ActorFacts, IndInvParts
<1> DEFINE t == entry.turn
           kills == is_running /\ ~is_finished
<1>1. /\ entry.state # "Reserved" /\ task' = IF kills THEN [task EXCEPT ![t] = "killed"] ELSE task
  BY DEF CleanUp
<1>2. entry.state = "Running" => t \in Turns /\ t <= used
  BY RunningFacts
<1>3. TaskKill /\ task' \in [Turns -> {"none", "running", "sent", "ended", "killed"}]
  BY <1>1, <1>2 DEF TaskKill, Types, is_running
<1>4. CASE /\ log' = IF is_finished THEN SettledLog(t)
                     ELSE IF kills THEN finalize_turn(log, t) ELSE repair_turn_protocol_state(log)
           /\ completed' = IF is_finished THEN SettledTurns(t)
                           ELSE IF kills THEN Completing(t) ELSE completed
           /\ entry' = NoEntry /\ call' = Goto(a, then)
  <2>1. CASE is_finished
    <3>1. entry.state = "Running" /\ task[t] # "running" /\ task' = task
      BY <1>1, <2>1 DEF is_finished
    <3>2. Settled(log', completed', t)
      BY <1>2, <1>4, <2>1, <3>1, SettledLogSettles DEF CoreInv
    <3>3. completed' \subseteq Turns
      BY <1>2, <3>1, <3>2 DEF Settled, Types
    <3>4. EntryDrop
      BY <1>1, <1>4, <3>1 DEF EntryDrop
    <3>5. LogCore /\ log' \in LogType /\ log'.pending = log.pending
      BY <1>1, <1>2, <3>1, <3>2, LogSettled
    <3> QED BY <1>3, <1>4, <3>3, <3>4, <3>5
  <2>2. CASE kills
    <3>1. entry.state = "Running"
      BY <2>2 DEF is_running
    <3>2. Settled(log', completed', t)
      BY <1>2, <1>4, <2>2, <3>1, FinalizeSettles DEF CoreInv
    <3>3. completed' \subseteq Turns
      BY <1>2, <3>1, <3>2 DEF Settled, Types
    <3>4. task'[t] # "running"
      BY <1>1, <1>2, <2>2, <3>1 DEF Types
    <3>5. EntryDrop
      BY <1>1, <1>4, <3>4 DEF EntryDrop
    <3>6. LogCore /\ log' \in LogType /\ log'.pending = log.pending
      BY <1>1, <1>2, <3>1, <3>2, LogSettled
    <3> QED BY <1>3, <1>4, <3>3, <3>5, <3>6
  <2>3. CASE ~is_finished /\ ~kills
    <3>1. entry.state = "None"
      BY <1>1, <2>3 DEF is_running, Types
    <3>2. entry = NoEntry
      BY <3>1 DEF CoreInv, EntryInv, Types, NoEntry
    <3>3. LogCore /\ log' \in LogType /\ log'.pending = log.pending
      BY <1>4, <2>3, <3>2, RepairedLog
    <3>4. EntryDrop /\ completed' \subseteq Turns
      BY <1>4, <2>3, <3>2 DEF EntryDrop, Types
    <3> QED BY <1>3, <1>4, <3>3, <3>4
  <2> QED BY <2>1, <2>2, <2>3
<1>5. CASE /\ call' = Goto(a, IF then = "deleting" THEN "closeFails" ELSE "settling")
           /\ UNCHANGED <<log, completed, entry>>
  BY <1>3, <1>5, LogSame DEF EntryDrop, Types
<1> QED BY <1>4, <1>5 DEF CleanUp

LEMMA CloseCleanupStep ==
    ASSUME IndInv, NEW c \in Callers, close_cleanup(c) PROVE IndInv'
<1> USE IndInvParts
<1>1. /\ CleanUp(c, "deleting") /\ Closer(c) /\ UNCHANGED <<begun, gate, answer, used, current, exists>>
  BY DEF close_cleanup, Closer, Quiet
<1>2. /\ LogCore /\ log' \in LogType /\ log'.pending = log.pending /\ completed' \subseteq Turns
      /\ EntryDrop /\ TaskKill
      /\ task' \in [Turns -> {"none", "running", "sent", "ended", "killed"}]
      /\ \/ entry' = NoEntry /\ call' = Goto(c, "deleting")
         \/ call' = Goto(c, "closeFails")
  BY <1>1, CleanUpFacts
<1>3. CASE entry' = NoEntry /\ call' = Goto(c, "deleting")
  BY <1>1, <1>2, <1>3, StayStep
<1>4. CASE call' = Goto(c, "closeFails")
  BY <1>1, <1>2, <1>4, StayStep
<1> QED BY <1>2, <1>3, <1>4

LEMMA SettleActiveTurnStep ==
    ASSUME IndInv, settle_active_turn PROVE IndInv'
<1> USE ActorFacts, IndInvParts
<1>1. /\ CleanUp(Server, "settling") /\ call[Server].pc = "gated" /\ Held(Server)
      /\ gate' = Released(call[Server].gate) /\ UNCHANGED <<begun, used, current, answer, exists>>
  BY DEF settle_active_turn, DownFrame, Held
<1>2. /\ LogCore /\ log' \in LogType /\ log'.pending = log.pending /\ completed' \subseteq Turns
      /\ EntryDrop /\ TaskKill
      /\ task' \in [Turns -> {"none", "running", "sent", "ended", "killed"}]
      /\ call' = Goto(Server, "settling")
  BY <1>1, CleanUpFacts
<1>3. call' \in [Actors -> CallType] /\ Others(Server) /\ call'[Server].pc = "settling"
  BY <1>2, GotoFacts DEF ServerPcs
<1>4. gate' \in [1..MaxGates -> GateType]
  BY <1>1, ReleasedFacts DEF Types, CallType
<1>5. entry' \in [turn : 0..MaxTurns, state : {"None", "Reserved", "Running"}]
  BY <1>2 DEF EntryDrop, Types, NoEntry, NoTurn
<1>6. Types'
  BY <1>1, <1>2, <1>3, <1>4, <1>5 DEF Types
<1>7. CoreInv'
  BY <1>1, <1>2, <1>3, <1>6, LeaveInv
<1>8. \A b \in Actors : b # Server => call'[b] = call[b]
  BY <1>3 DEF Others
<1>9. \A b \in Actors : Starter(b)' => Starter(b) /\ call'[b] = call[b]
  BY <1>3, <1>8 DEF Starter
<1>10. \A d \in Callers : InHand(d)' => InHand(d) /\ call'[d].input = call[d].input
  BY <1>8 DEF InHand, Held, Waits, Starter
<1>11. TalkInv'
  BY <1>1, <1>2, <1>9, <1>10, TalkFrame
<1> QED BY <1>6, <1>7, <1>11

\* The closed gate leaves the map; whoever waits for it or holds it is behind.
LEMMA CloseFinishStep ==
    ASSUME IndInv, NEW c \in Callers, close_finish(c) PROVE IndInv'
<1> USE ActorFacts, IndInvParts
<1>1. /\ UNCHANGED <<log, begun, completed, entry, used, task, gate, answer>>
      /\ current' = current + 1 /\ call' = [call EXCEPT ![c] = Away] /\ Closer(c)
      /\ (exists' = exists \/ (call[c].pc = "deleting" /\ exists' = FALSE))
  BY DEF close_finish, Closer
<1>2. /\ call' \in [Actors -> CallType] /\ Others(c) /\ call'[c].pc = "idle"
      /\ call'[c].kind = "None" /\ call'[c].input = NoInput
  BY <1>1, AwayFacts
<1>3. call[c].gate = current /\ gate[current].closing /\ call[c].kind = "Close" /\ current < MaxGates
  BY <1>1 DEF CoreInv, GateInv, RoleInv
<1>4. Types'
  <2>1. current' \in 1..MaxGates
    BY <1>1, <1>3 DEF Types
  <2>2. exists' \in BOOLEAN
    BY <1>1 DEF Types
  <2> QED BY <1>1, <1>2, <2>1, <2>2 DEF Types
<1>5. ~Held(c)' /\ ~Waits(c)' /\ ~Starter(c)' /\ ~Closer(c)' /\ ~InHand(c)' /\ ~Starter(c)
  BY <1>1, <1>2 DEF Held, Waits, Starter, Closer, InHand
<1>6. \A b \in Actors : /\ (b # c => call'[b] = call[b]) /\ Starter(b)' = Starter(b)
                        /\ (Held(b)' => Held(b) /\ b # c) /\ (Waits(b)' => Waits(b) /\ b # c)
                        /\ (Closer(b)' => Closer(b) /\ b # c)
  BY <1>2, <1>5 DEF Others, Held, Waits, Starter, Closer
<1>7. LogCore /\ EntryDrop /\ TaskKill
  BY <1>1, LogSame DEF EntryDrop, TaskKill
<1>8. SteadyCalls
  <2>1. \A t \in Turns : call'[t] = call[t]
    BY <1>6
  <2> QED BY <1>1, <1>5, <1>6, <2>1 DEF SteadyCalls, CoreInv, RunInv
<1>9. /\ StartInv' /\ FreshInv' /\ RunInv' /\ CompletedInv'
      /\ IF entry'.state = "None" THEN entry'.turn = NoTurn ELSE entry'.turn \in 1..used'
  BY <1>1, <1>4, <1>7, <1>8, SteadyInv
<1>10. GateInv /\ \A b \in Actors : call[b].gate \in 1..MaxGates /\ current \in 1..MaxGates
  BY DEF CoreInv, Types, CallType
<1>11. \A b \in Callers \cup {Retry} : ~Held(b)
  BY <1>3, <1>10 DEF GateInv
<1>12. EntryInv'
  <2>1. call[c].pc = "deleting" => entry = NoEntry
    BY DEF CoreInv, EntryInv
  <2>2. ~exists' => entry' = NoEntry
    BY <1>1, <2>1 DEF CoreInv, EntryInv
  <2>3. \A b \in Callers : call'[b].pc \in {"aborted", "deleting"} => entry' = NoEntry
    BY <1>1, <1>2, <1>6 DEF CoreInv, EntryInv
  <2>4. \A b \in Callers \cup {Retry} : ~Held(b)'
    BY <1>6, <1>11
  <2> QED BY <1>9, <2>2, <2>3, <2>4 DEF EntryInv
<1>13. GateInv'
  <2>1. \A b \in Actors : Held(b)' => gate'[call'[b].gate].holder = b
    BY <1>1, <1>6, <1>10 DEF GateInv
  <2>2. \A b \in Actors : Held(b)' \/ Waits(b)' => call'[b].gate < current' /\ gate'[call'[b].gate].closing
    BY <1>1, <1>3, <1>6, <1>10 DEF GateInv
  <2>3. \A b \in Callers : ~Closer(b)'
    BY <1>1, <1>6, <1>10 DEF GateInv
  <2>4. \A b \in Callers \cup {Retry} : ~Held(b)'
    BY <1>6, <1>11
  <2>5. \A b \in Callers : call'[b].kind = "Close" => call'[b].gate < MaxGates
    BY <1>2, <1>6, <1>10 DEF GateInv
  <2> QED BY <2>1, <2>2, <2>3, <2>4, <2>5 DEF GateInv
<1>14. RoleInv'
  <2>1. RoleInv
    BY DEF CoreInv
  <2>2. \A b \in Actors : b # c => Aborts(b)' = Aborts(b)
    BY <1>6 DEF Aborts
  <2>3. c # Retry /\ c # Server /\ c \notin Turns
    OBVIOUS
  <2>4. \A b \in Callers : call'[b].pc \in CallerPcs
    BY <1>2, <1>6, <2>1 DEF RoleInv, CallerPcs
  <2>5. \A b \in Callers : Held(b)' \/ Waits(b)' =>
            IF call'[b].kind \in Deliveries THEN call'[b].input \in Inputs ELSE call'[b].input = NoInput
    BY <1>6, <2>1 DEF RoleInv
  <2>6. \A b \in Callers : call'[b].pc \in {"aborting", "aborted"} => Aborts(b)'
    BY <1>2, <1>6, <2>1, <2>2 DEF RoleInv
  <2>7. \A b \in Callers : Closer(b)' => call'[b].kind = "Close" /\ call'[b].input = NoInput
    BY <1>6, <2>1 DEF RoleInv
  <2>8. call'[Retry] = call[Retry] /\ call'[Server] = call[Server] /\ \A t \in Turns : call'[t] = call[t]
    BY <1>6, <2>3
  <2> QED BY <2>1, <2>4, <2>5, <2>6, <2>7, <2>8 DEF RoleInv, Held, Waits
<1>15. TalkInv'
  <2>1. \A d \in Callers : InHand(d)' => InHand(d) /\ call'[d].input = call[d].input
    BY <1>5, <1>6 DEF InHand
  <2>2. \A b \in Actors : Starter(b)' => Starter(b) /\ call'[b] = call[b]
    BY <1>5, <1>6
  <2> QED BY <1>1, <2>1, <2>2, TalkFrame
<1> QED BY <1>4, <1>9, <1>12, <1>13, <1>14, <1>15 DEF CoreInv

\* After a crash nobody works; the log, the ids and the answers are as they were.
LEMMA CrashStep ==
    ASSUME IndInv, crash PROVE IndInv'
<1> USE ActorFacts, IndInvParts
<1>1. /\ UNCHANGED <<log, begun, completed, used, current, answer, exists>>
      /\ entry' = NoEntry /\ task' = [t \in Turns |-> "none"]
      /\ gate' = [g \in 1..MaxGates |-> OpenGate] /\ call' = [a \in Actors |-> Away]
  BY DEF crash
<1>2. OpenGate \in GateType
  BY DEF OpenGate, GateType
<1>3. \A a \in Actors : call'[a] = Away
  BY <1>1
<1>4. \A a \in Actors : call'[a].pc = "idle" /\ call'[a].kind = "None" /\ call'[a].input = NoInput
  BY <1>3, AwayType
<1>5. \A a \in Actors : ~Held(a)' /\ ~Waits(a)' /\ ~Starter(a)' /\ ~Closer(a)' /\ ~InHand(a)'
  BY <1>4 DEF Held, Waits, Starter, Closer, InHand
<1>6. entry'.state = "None" /\ entry'.turn = NoTurn
  BY <1>1 DEF NoEntry
<1>7. Types'
  <2>1. call' \in [Actors -> CallType]
    BY <1>1, AwayType
  <2>2. gate' \in [1..MaxGates -> GateType]
    BY <1>1, <1>2
  <2>3. entry' \in [turn : 0..MaxTurns, state : {"None", "Reserved", "Running"}]
    BY <1>1 DEF NoEntry, NoTurn
  <2>4. task' \in [Turns -> {"none", "running", "sent", "ended", "killed"}]
    BY <1>1
  <2> QED BY <1>1, <2>1, <2>2, <2>3, <2>4 DEF Types
<1>8. RoleInv'
  BY <1>4, <1>5 DEF RoleInv, CallerPcs, RetryPcs, ServerPcs, TurnPcs
<1>9. GateInv'
  BY <1>4, <1>5 DEF GateInv
<1>10. EntryInv' /\ StartInv'
  BY <1>1, <1>4, <1>5, <1>6 DEF EntryInv, StartInv
<1>11. FreshInv'
  <2>1. \A t \in Turns : t > used => t \notin completed
    BY DEF CoreInv, FreshInv
  <2> QED BY <1>1, <1>4, <1>6, <2>1 DEF CoreInv, FreshInv
<1>12. RunInv' /\ CompletedInv'
  BY <1>1, <1>4, <1>6 DEF RunInv, CoreInv, CompletedInv
<1>13. TalkInv'
  BY <1>1, <1>5, TalkFrame
<1> QED BY <1>7, <1>8, <1>9, <1>10, <1>11, <1>12, <1>13 DEF CoreInv

----------------------------------------------------------------------------
(* Every step keeps the invariant.                                           *)

LEMMA NextInv == IndInv /\ [Next]_vars => IndInv'
<1> SUFFICES ASSUME IndInv, [Next]_vars PROVE IndInv'
  OBVIOUS
<1> USE ActorFacts
<1>1. ASSUME NEW c \in Callers, NEW k \in Kinds, NEW i \in Inputs \cup {NoInput}, request(c, k, i)
      PROVE  IndInv'
  BY <1>1, RequestStep
<1>2. ASSUME NEW c \in Callers, CallerStep(c) PROVE IndInv'
  <2>1. CASE \/ begin(c) \/ start_new(c) \/ inject_only(c) \/ inject_if_running_else_start(c)
             \/ queue_if_running_else_start(c)
    BY <2>1, BeginStep, StartNewStep, InjectOnlyStep, InjectElseStartStep, QueueElseStartStep
  <2>2. CASE \/ abort(c) \/ request_shutdown(c) \/ abort_settles(c) \/ force_kill(c)
             \/ abort_nothing(c) \/ abort_continues(c)
    BY <2>2, AbortStep, RequestShutdownStep, AbortSettlesStep, ForceKillStep, AbortNothingStep,
       AbortContinuesStep
  <2>3. CASE resume_stale_execution(c) \/ repair_stale(c) \/ repair_fails(c)
    BY <2>3, ResumeStaleStep, RepairStaleStep, RepairFailsStep
  <2>4. CASE close(c) \/ close_cleanup(c) \/ close_finish(c)
    BY <2>4, CloseStep, CloseCleanupStep, CloseFinishStep
  <2> QED BY <1>2, <2>1, <2>2, <2>3, <2>4 DEF CallerStep
<1>3. ASSUME NEW a \in Callers \cup Turns \cup {Retry}, StartStep(a) PROVE IndInv'
  BY <1>3, StartRejectedStep, SubmitStep, ActivateStep, SubmitFailsStep, SettleFailedStep DEF StartStep
<1>4. ASSUME NEW t \in Turns, TaskStep(t) PROVE IndInv'
  BY <1>4, RunOneStepStep, FinishStepStep, RunAndFinalizeStep, TaskEndsStep DEF TaskStep
<1>5. ASSUME NEW t \in Turns, WatchStep(t) PROVE IndInv'
  BY <1>5, WatchStepStep, FinishSyncStep, BeginStep, FinishStaleStep, FinishAndMaybeStartNextStep,
     FinishFailsStep DEF WatchStep
<1>6. CASE RetryStep
  BY <1>6, RunQueueRetryStep, BeginStep, QueueRetryStep DEF RetryStep
<1>7. CASE stop_task_admission
  BY <1>7, StopAdmissionStep
<1>8. CASE ServerStep
  BY <1>8, WaitForAdmissionsStep, SettleLockStep, BeginStep, SettleActiveTurnStep, CloseAndWaitStep
     DEF ServerStep
<1>9. CASE crash
  BY <1>9, CrashStep
<1>10. CASE UNCHANGED vars
  BY <1>10, UnchangedStep DEF vars
<1> QED BY <1>1, <1>2, <1>3, <1>4, <1>5, <1>6, <1>7, <1>8, <1>9, <1>10 DEF Next

LEMMA Invariance == Spec => []IndInv
BY InitInv, NextInv, PTL DEF Spec

----------------------------------------------------------------------------
(* The theorems.                                                             *)

\* At most one turn of a session works at a time, however many callers start, abort,
\* repair and close it, whatever fails and whenever the process crashes: a task works
\* only as the registered turn, and the delivery gate admits one reservation.
THEOREM OneTurnRunsAlways == Spec => []OneTurnRuns
<1>1. IndInv => OneTurnRuns
  <2> SUFFICES ASSUME IndInv PROVE OneTurnRuns
    OBVIOUS
  <2> DEFINE S == {t \in Turns : task[t] = "running"}
  <2>1. S \in SUBSET {entry.turn}
    BY DEF IndInv, RunInv
  <2>2. IsFiniteSet({entry.turn}) /\ Cardinality({entry.turn}) = 1
    BY FS_Singleton
  <2>3. IsFiniteSet(S) /\ Cardinality(S) <= Cardinality({entry.turn})
    BY <2>1, <2>2, FS_Subset
  <2> QED BY <2>2, <2>3 DEF OneTurnRuns
<1> QED BY <1>1, Invariance, PTL

\* A registered turn is on its way: its reservation is in the hands of an actor that is
\* starting it, or its watcher has not given up; the session is never busy for ever
\* with a turn that nobody settles.
THEOREM EveryTurnIsWatchedAlways == Spec => []EveryTurnIsWatched
<1>1. IndInv => EveryTurnIsWatched
  BY DEF IndInv, StartInv, RunInv, Starter, EveryTurnIsWatched
<1> QED BY <1>1, Invariance, PTL

\* What callers were told is true: an input acknowledged as queued or injected waits in
\* the log or became a user message, never both and once, and a refused one is not in
\* the queue, through failed starts, aborts, repairs and crashes.
THEOREM AnswersAreTrueAlways == Spec => []AnswersAreTrue
<1>1. IndInv => AnswersAreTrue
  <2> SUFFICES ASSUME IndInv PROVE AnswersAreTrue
    OBVIOUS
  <2>1. QueueInv
    BY DEF IndInv
  <2>2. \A j, k \in 1..Len(begun) : begun[j] = begun[k] => j = k
    BY <2>1 DEF QueueInv, Distinct
  <2>3. \A i \in Inputs : answer[i] \in {"injected", "queued"} => i \in Waiting \cup Range(begun)
    BY <2>1 DEF QueueInv
  <2>4. Waiting \cap Range(begun) = {} /\ \A i \in Waiting : answer[i] # "refused"
    BY <2>1 DEF QueueInv
  <2> QED BY <2>2, <2>3, <2>4 DEF AnswersAreTrue, Waiting
<1> QED BY <1>1, Invariance, PTL

\* Nothing of a session works once it is deleted or recycled.
THEOREM StoppedIsQuietAlways == Spec => []StoppedIsQuiet
<1>1. IndInv => StoppedIsQuiet
  BY DEF IndInv, EntryInv, RunInv, NoEntry, StoppedIsQuiet, Quiescent
<1> QED BY <1>1, Invariance, PTL

\* The steps that set a task to work: the activation of a reserved turn and the
\* resumption of a stale one.
LEMMA OnlyStartsRun ==
    ASSUME IndInv, [Next]_vars
    PROVE  \/ \A t \in Turns : task'[t] = "running" => task[t] = "running"
           \/ \E a \in Actors : activate(a)
           \/ \E c \in Callers : resume_stale_execution(c)
<1> USE ActorFacts
<1> DEFINE Calm == \A t \in Turns : task'[t] = "running" => task[t] = "running"
<1>0. task \in [Turns -> {"none", "running", "sent", "ended", "killed"}]
  BY DEF IndInv, Types
<1>a. task' = task => Calm
  OBVIOUS
<1>b. ASSUME NEW t, NEW w \in {"sent", "ended", "killed"}, task' = [task EXCEPT ![t] = w] PROVE Calm
  BY <1>0, <1>b
<1> SUFFICES Calm \/ (\E a \in Actors : activate(a)) \/ (\E c \in Callers : resume_stale_execution(c))
  OBVIOUS
<1> HIDE DEF Calm
<1>1. ASSUME NEW c \in Callers, NEW k, NEW i, request(c, k, i) PROVE Calm
  BY <1>1, <1>a DEF request
<1>2. ASSUME NEW c \in Callers, CallerStep(c) PROVE Calm \/ resume_stale_execution(c)
  <2>1. CASE begin(c) \/ start_new(c) \/ inject_only(c) \/ inject_if_running_else_start(c)
             \/ queue_if_running_else_start(c)
    <3>1. task' = task
      BY <2>1 DEF begin, start_new, inject_only, inject_if_running_else_start,
         queue_if_running_else_start, Refuse, AcceptInput, StartInput, EnqueueAndStartHead
    <3> QED BY <1>a, <3>1
  <2>2. CASE \/ abort(c) \/ request_shutdown(c) \/ abort_settles(c) \/ abort_nothing(c)
             \/ abort_continues(c) \/ repair_stale(c) \/ repair_fails(c) \/ close(c) \/ close_finish(c)
    <3>1. task' = task
      BY <2>2 DEF abort, request_shutdown, abort_settles, abort_nothing, abort_continues,
         repair_stale, repair_fails, close, close_finish
    <3> QED BY <1>a, <3>1
  <2>3. CASE force_kill(c)
    BY <1>b, <2>3 DEF force_kill
  <2>4. CASE close_cleanup(c)
    BY <1>a, <1>b, <2>4 DEF close_cleanup, CleanUp
  <2> QED BY <1>2, <2>1, <2>2, <2>3, <2>4 DEF CallerStep
<1>3. ASSUME NEW a \in Callers \cup Turns \cup {Retry}, StartStep(a) PROVE Calm \/ activate(a)
  BY <1>3, <1>a DEF StartStep, start_rejected, submit, submit_fails, settle_failed_turn_setup
<1>4. ASSUME NEW t \in Turns, TaskStep(t) PROVE Calm
  BY <1>4, <1>a, <1>b DEF TaskStep, run_one_step, finish_step, run_and_finalize_turn, task_ends
<1>5. ASSUME NEW t \in Turns, WatchStep(t) PROVE Calm
  BY <1>5, <1>a DEF WatchStep, watch, finish_sync, begin, finish_stale, finish_and_maybe_start_next,
     finish_fails
<1>6. CASE RetryStep
  BY <1>6, <1>a DEF RetryStep, run_queue_retry, begin, queue_retry
<1>7. CASE stop_task_admission
  BY <1>7, <1>a DEF stop_task_admission
<1>8. CASE ServerStep
  <2>1. CASE wait_for_task_admissions \/ settle_lock \/ begin(Server) \/ close_and_wait
    BY <1>a, <2>1 DEF wait_for_task_admissions, settle_lock, begin, close_and_wait
  <2>2. CASE settle_active_turn
    BY <1>a, <1>b, <2>2 DEF settle_active_turn, CleanUp
  <2> QED BY <1>8, <2>1, <2>2 DEF ServerStep
<1>9. CASE crash
  BY <1>9 DEF crash, Calm
<1>10. CASE UNCHANGED vars
  BY <1>10, <1>a DEF vars
<1> QED BY <1>1, <1>2, <1>3, <1>4, <1>5, <1>6, <1>7, <1>8, <1>9, <1>10 DEF Next

\* A turn whose terminal is in the log never works again, not after a restart either: a
\* new turn has a new id, and only the unsettled turn is resumed.
THEOREM CompletedStaysCompletedAlways == Spec => CompletedStaysCompleted
<1> DEFINE A == \A t \in completed : task'[t] = "running" => task[t] = "running"
<1>1. IndInv /\ [Next]_vars => [A]_vars
  <2> SUFFICES ASSUME IndInv, [Next]_vars PROVE A
    OBVIOUS
  <2> USE IndInvParts
  <2>0. completed \subseteq Turns /\ task \in [Turns -> {"none", "running", "sent", "ended", "killed"}]
    BY DEF Types
  <2>1. CASE \A t \in Turns : task'[t] = "running" => task[t] = "running"
    BY <2>0, <2>1
  <2>2. ASSUME NEW a \in Actors, activate(a) PROVE A
    <3>1. Starter(a)
      BY <2>2 DEF activate, Starting, Starter
    <3>2. /\ call[a].turn \notin completed /\ call[a].turn = used
          /\ entry = [turn |-> call[a].turn, state |-> "Reserved"]
      BY <3>1, StarterFacts
    <3>3. task' = [task EXCEPT ![call[a].turn] = "running"]
      BY <2>2, <3>2 DEF activate
    <3> QED BY <2>0, <3>2, <3>3
  <2>3. ASSUME NEW c \in Callers, resume_stale_execution(c) PROVE A
    <3>1. log.unsettled \notin completed
      BY DEF CoreInv, CompletedInv
    <3>2. task' = [task EXCEPT ![log.unsettled] = "running"]
      BY <2>3 DEF resume_stale_execution
    <3> QED BY <2>0, <3>1, <3>2
  <2> HIDE DEF A
  <2> QED BY <2>1, <2>2, <2>3, OnlyStartsRun
<1>2. Spec => [][A]_vars
  BY <1>1, Invariance, PTL DEF Spec
<1> QED BY <1>2 DEF CompletedStaysCompleted

\* Queued inputs become user messages in the order in which they were acknowledged:
\* the start that is reserved for the queue carries its head until it is consumed.
THEOREM StartsInOrderAlways == Spec => StartsInOrder
<1> DEFINE A == \A a \in Actors :
                    call[a].pc = "submitting" /\ call[a].queued /\ begun' = Append(begun, call[a].input)
                        => Head(log.pending).input = call[a].input
<1>1. IndInv => A
  <2> SUFFICES ASSUME IndInv, NEW a \in Actors, call[a].pc = "submitting", call[a].queued
               PROVE  Head(log.pending).input = call[a].input
    OBVIOUS
  <2>1. log.pending # << >> /\ log.pending[1].input = call[a].input
    BY DEF IndInv, HandInv, Starter
  <2>2. log.pending \in Seq(PendingType)
    BY PendingFacts DEF IndInv
  <2> QED BY <2>1, <2>2
<1>2. Spec => [][A]_vars
  <2>1. IndInv /\ [Next]_vars => [A]_vars
    BY <1>1
  <2> QED BY <2>1, Invariance, PTL DEF Spec
<1> QED BY <1>2 DEF StartsInOrder

=============================================================================
