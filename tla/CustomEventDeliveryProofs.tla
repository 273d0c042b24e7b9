--------------------- MODULE CustomEventDeliveryProofs ---------------------
(***************************************************************************)
(* Proofs about CustomEventDelivery for any number of lanes, generations,   *)
(* events, crashes and power losses.                                        *)
(***************************************************************************)
EXTENDS CustomEventDelivery, TLAPS, FiniteSetTheorems, FunctionTheorems, SequenceTheorems,
        NaturalsInduction, WellFoundedInduction

ConsumerType ==
    [checkpoint : Int, paused : BOOLEAN, revision : Nat, failures : Nat,
     quarantined : SUBSET (Nat \X Nat), quarantined_count : Nat, skipped_count : Nat]

Delivering == {"handling", "ack", "retry", "dead_letter"}

\* The phases with a replay in hand.
Working == {"next", "invoke"} \cup Delivering

Phases == {"gone", "recv", "read", "replay", "done"} \cup Working

LaneType ==
    [phase : Phases, generation : Nat, cancelled : BOOLEAN, mapped : BOOLEAN,
     queue : Seq(Int), full_queued : BOOLEAN, through : Int, revision : Nat, from : Int,
     pending : Seq(Nat), head : Int, invocation_revision : Nat]

RequestType ==
    [phase : {"idle", "pausing", "waiting", "resetting", "restoring", "wake"},
     previous : BOOLEAN, reset : Resets \cup {"none"}]

RecordType == [ev : Nat, match : BOOLEAN]

Types ==
    /\ log \in Seq(RecordType)
    /\ stable \in 0..Len(log)
    /\ consumer \in ConsumerType
    /\ generation \in Nat
    /\ lane \in [Lanes -> LaneType]
    /\ quiescing \in BOOLEAN
    /\ unobserved \in SUBSET Nat
    /\ admin \in [Admins -> RequestType]
    /\ issued \in Nat

\* An event has the number of its place or, after a power loss, a later one; the
\* checkpoint is the place of an event that was issued.
LogInv ==
    /\ Len(log) - 1 <= issued
    /\ consumer.checkpoint <= issued

\* A lane that is alive can be reached, or quiescence waits for it.
LaneReachable(l) == Alive(l) => IF quiescing THEN l \in taken ELSE lane[l].mapped

\* What a lane r carries: a command to take, a checkpoint that was read, or a replay
\* in hand: ascending, up to its head, which it ends with if the head matches.
Ascending(q) == \A i, j \in 1..Len(q) : i < j => q[i] < q[j]

LaneHolds(r) ==
    /\ r.phase = "recv" => r.queue # << >>
    /\ r.phase = "replay" => r.from <= issued
    /\ r.phase \in Working =>
         /\ r.head < Len(log)
         /\ \A i \in 1..Len(r.pending) : r.pending[i] <= r.head
         /\ Ascending(r.pending)
         /\ r.pending # << >> /\ log[r.head + 1].match => r.pending[Len(r.pending)] = r.head
    /\ r.phase \in Working \ {"next"} => r.pending # << >>

\* Revisions that were read are not ahead, and what was settled under the current
\* one is accounted for.
LaneEarned(r) ==
    /\ r.revision <= consumer.revision
    /\ r.invocation_revision <= consumer.revision
    /\ r.phase = "ack" /\ r.invocation_revision = consumer.revision =>
         log[Head(r.pending) + 1].ev \in accounted
    /\ /\ r.phase \in Working /\ r.pending = << >>
       /\ r.revision = consumer.revision
       /\ r.head >= 0 /\ r.head > consumer.checkpoint
       /\ log[r.head + 1].match
       => log[r.head + 1].ev \in accounted

LaneInv(l) == LaneReachable(l) /\ LaneHolds(lane[l]) /\ LaneEarned(lane[l])

IndInv ==
    /\ Types
    /\ LogInv
    /\ \A l \in Lanes : LaneInv(l)
    /\ CheckpointEarned

\* Without resets to the beginning: everything up to n is accounted for.
Settled(n) ==
    \A i \in 1..Len(log) : log[i].match /\ InPlace(i) /\ i - 1 <= n => log[i].ev \in accounted

LaneSettled(r) ==
    /\ r.phase = "replay" => Settled(r.from)
    /\ r.phase \in Working =>
         \A i \in 1..Len(log) :
             log[i].match /\ InPlace(i) /\ i - 1 <= r.head =>
                 \/ log[i].ev \in accounted
                 \/ \E k \in 1..Len(r.pending) : r.pending[k] = i - 1

SkipInv == Settled(consumer.checkpoint) /\ \A l \in Lanes : LaneSettled(lane[l])

\* With one control request at a time: while it waits the consumer is paused.
PauseInv ==
    \A a \in Admins : admin[a].phase \in {"waiting", "resetting"} => consumer.paused

NoReplay == "Beginning" \notin Resets

Monotone == consumer'.revision = consumer.revision => consumer.checkpoint <= consumer'.checkpoint

\* What a step has to keep.
Kept == IndInv' /\ Monotone /\ (NoReplay /\ SkipInv => SkipInv')

-----------------------------------------------------------------------------
(* Frames. *)

\* The parts of a lane that its invariant speaks of, and the head of its replay.
LEMMA LaneTypes ==
    ASSUME NEW r \in LaneType
    PROVE  /\ r.from \in Int /\ r.head \in Int /\ r.pending \in Seq(Nat) /\ r.phase \in Phases
           /\ r.revision \in Nat /\ r.invocation_revision \in Nat
           /\ r.queue \in Seq(Int) /\ r.through \in Int
BY DEF LaneType

LEMMA NonEmpty ==
    ASSUME NEW S, NEW q \in Seq(S), q # << >>
    PROVE  /\ Len(q) \in Nat /\ Len(q) >= 1 /\ Head(q) = q[1] /\ Head(q) \in S
           /\ Tail(q) \in Seq(S) /\ Len(Tail(q)) = Len(q) - 1
           /\ \A i \in 1..(Len(q) - 1) : Tail(q)[i] = q[i + 1]
<1>1. Len(q) \in Nat /\ Len(q) # 0
  BY EmptySeq, LenProperties
<1> QED BY <1>1, HeadTailProperties

LEMMA PendingHead ==
    ASSUME Types, NEW r \in LaneType, LaneHolds(r), r.phase \in Working, r.pending # << >>
    PROVE  /\ Head(r.pending) \in Nat /\ Head(r.pending) = r.pending[1]
           /\ Head(r.pending) <= r.head /\ r.head < Len(log) /\ r.head \in Nat
<1>1. r.pending \in Seq(Nat) /\ r.head \in Int
  BY LaneTypes
<1>2. Len(r.pending) >= 1 /\ Len(r.pending) \in Nat /\ Head(r.pending) = r.pending[1] /\ Head(r.pending) \in Nat
  BY <1>1, NonEmpty
<1>3. r.pending[1] <= r.head /\ r.head < Len(log)
  BY <1>2 DEF LaneHolds
<1> QED BY <1>1, <1>2, <1>3

\* The log has grown or stayed as it is.
LogGrows ==
    /\ Len(log) <= Len(log')
    /\ \A i \in 1..Len(log) : log'[i] = log[i]
    /\ issued <= issued'

LEMMA HoldsFrame ==
    ASSUME Types, Types', LogGrows, NEW r \in LaneType, LaneHolds(r)
    PROVE  LaneHolds(r)'
<1>0. /\ issued \in Nat /\ issued' \in Nat /\ Len(log) \in Nat /\ Len(log') \in Nat
      /\ r.from \in Int /\ r.head \in Int
  BY LaneTypes DEF Types
<1>1. r.phase = "replay" => r.from <= issued'
  BY <1>0 DEF LaneHolds, LogGrows
<1>2. ASSUME r.phase \in Working
      PROVE  /\ r.head < Len(log')
             /\ r.pending # << >> /\ log'[r.head + 1].match => r.pending[Len(r.pending)] = r.head
  <2>1. r.head < Len(log')
    BY <1>0, <1>2 DEF LaneHolds, LogGrows
  <2>2. ASSUME r.pending # << >> PROVE log'[r.head + 1] = log[r.head + 1]
    BY <1>0, <1>2, <2>2, PendingHead DEF LogGrows
  <2> QED BY <1>2, <2>1, <2>2 DEF LaneHolds
<1> QED BY <1>1, <1>2 DEF LaneHolds, Ascending

LEMMA EarnedFrame ==
    ASSUME Types, Types', LogGrows, NEW r \in LaneType, LaneHolds(r), LaneEarned(r),
           \/ /\ consumer'.revision = consumer.revision
              /\ consumer.checkpoint <= consumer'.checkpoint
              /\ accounted \subseteq accounted'
           \/ consumer.revision < consumer'.revision
    PROVE  LaneEarned(r)'
<1>0. /\ Len(log) \in Nat /\ r.head \in Int /\ r.revision \in Nat /\ r.invocation_revision \in Nat
      /\ consumer.revision \in Nat /\ consumer'.revision \in Nat
      /\ consumer.checkpoint \in Int /\ consumer'.checkpoint \in Int
  BY LaneTypes DEF Types, ConsumerType
<1>1. r.revision <= consumer'.revision /\ r.invocation_revision <= consumer'.revision
  BY <1>0 DEF LaneEarned
<1>2. ASSUME r.phase = "ack", r.invocation_revision = consumer'.revision
      PROVE  log'[Head(r.pending) + 1].ev \in accounted'
  <2>1. r.pending # << >> /\ r.phase \in Working
    BY <1>2 DEF LaneHolds, Working, Delivering
  <2>2. log'[Head(r.pending) + 1] = log[Head(r.pending) + 1]
    BY <1>0, <2>1, PendingHead DEF LogGrows
  <2>3. log[Head(r.pending) + 1].ev \in accounted /\ accounted \subseteq accounted'
    BY <1>0, <1>2 DEF LaneEarned
  <2> QED BY <2>2, <2>3
<1>3. ASSUME r.phase \in Working, r.pending = << >>, r.revision = consumer'.revision,
             r.head >= 0, r.head > consumer'.checkpoint, log'[r.head + 1].match
      PROVE  log'[r.head + 1].ev \in accounted'
  <2>1. log'[r.head + 1] = log[r.head + 1]
    BY <1>0, <1>3 DEF LogGrows, LaneHolds
  <2>2. r.revision = consumer.revision /\ r.head > consumer.checkpoint /\ accounted \subseteq accounted'
    BY <1>0, <1>3 DEF LaneEarned
  <2> QED BY <1>3, <2>1, <2>2 DEF LaneEarned
<1> QED BY <1>1, <1>2, <1>3 DEF LaneEarned

\* The place that a new event takes was not reached by a checkpoint.
LogGrowsAfresh ==
    LogGrows /\ \A i \in 1..Len(log') : i > Len(log) => log'[i].ev = issued + 1

LEMMA SettledUpToFrame ==
    ASSUME Types, Types', LogGrowsAfresh, NEW n \in Int, n <= issued, Settled(n),
           accounted \subseteq accounted'
    PROVE  Settled(n)'
<1>0. issued \in Nat /\ Len(log) \in Nat /\ Len(log') \in Nat
  BY DEF Types
<1> SUFFICES ASSUME NEW i \in 1..Len(log'), log'[i].match, log'[i].ev = i - 1, i - 1 <= n
             PROVE  log'[i].ev \in accounted'
  BY DEF Settled, InPlace
<1>1. i <= Len(log)
  BY <1>0 DEF LogGrowsAfresh
<1>2. log'[i] = log[i] /\ i \in 1..Len(log)
  BY <1>0, <1>1 DEF LogGrowsAfresh, LogGrows
<1>3. log[i].match /\ log[i].ev = i - 1
  BY <1>2
<1> QED BY <1>2, <1>3 DEF Settled, InPlace

LEMMA SettledFrame ==
    ASSUME Types, Types', LogGrowsAfresh, NEW r \in LaneType, LaneHolds(r), LaneSettled(r),
           accounted \subseteq accounted'
    PROVE  LaneSettled(r)'
<1>0. /\ r.from \in Int /\ r.head \in Int /\ issued \in Nat /\ Len(log) \in Nat /\ Len(log') \in Nat
  BY LaneTypes DEF Types
<1>1. ASSUME r.phase = "replay" PROVE Settled(r.from)'
  BY <1>0, <1>1, SettledUpToFrame DEF LaneHolds, LaneSettled
<1>2. ASSUME r.phase \in Working, NEW i \in 1..Len(log'), log'[i].match, InPlace(i)', i - 1 <= r.head
      PROVE  \/ log'[i].ev \in accounted'
             \/ \E k \in 1..Len(r.pending) : r.pending[k] = i - 1
  <2>1. i <= Len(log)
    BY <1>0, <1>2 DEF LaneHolds
  <2>2. log'[i] = log[i] /\ i \in 1..Len(log)
    BY <1>0, <2>1 DEF LogGrowsAfresh, LogGrows
  <2>3. log[i].match /\ InPlace(i)
    BY <1>2, <2>2 DEF InPlace
  <2>4. log[i].ev \in accounted \/ \E k \in 1..Len(r.pending) : r.pending[k] = i - 1
    BY <1>2, <2>2, <2>3 DEF LaneSettled
  <2> QED BY <2>2, <2>4
<1> QED BY <1>1, <1>2 DEF LaneSettled

LEMMA EarnedCheckpointFrame ==
    ASSUME IndInv, Types', LogGrowsAfresh, consumer'.checkpoint = consumer.checkpoint,
           accounted \subseteq accounted'
    PROVE  CheckpointEarned'
<1>0. issued \in Nat /\ Len(log) \in Nat /\ Len(log') \in Nat /\ consumer.checkpoint \in Int
      /\ consumer.checkpoint <= issued
  BY DEF IndInv, LogInv, Types, ConsumerType
<1> SUFFICES ASSUME NEW i \in 2..Len(log'), log'[i].match, log'[i].ev = i - 1,
                    i - 1 = consumer.checkpoint
             PROVE  log'[i].ev \in accounted'
  BY DEF CheckpointEarned, InPlace
<1>1. i <= Len(log)
  BY <1>0 DEF LogGrowsAfresh
<1>2. log'[i] = log[i] /\ i \in 2..Len(log)
  BY <1>0, <1>1 DEF LogGrowsAfresh, LogGrows
<1> QED BY <1>2 DEF IndInv, CheckpointEarned, InPlace

\* The log, and who waits for which lanes, stay as they are.
SameLog ==
    /\ log' = log /\ issued' = issued /\ stable' = stable
    /\ quiescing' = quiescing /\ taken' = taken

LEMMA SameLogGrows ==
    ASSUME Types, SameLog PROVE LogGrowsAfresh
BY DEF Types, SameLog, LogGrowsAfresh, LogGrows

LEMMA OtherLane ==
    ASSUME IndInv, Types', SameLog, NEW m \in Lanes, lane'[m] = lane[m],
           \/ /\ consumer'.revision = consumer.revision
              /\ consumer.checkpoint <= consumer'.checkpoint
              /\ accounted \subseteq accounted'
           \/ consumer.revision < consumer'.revision
    PROVE  LaneInv(m)'
<1> DEFINE r == lane[m]
<1>1. r \in LaneType /\ Types /\ LaneHolds(r) /\ LaneEarned(r) /\ LaneReachable(m)
  BY DEF IndInv, LaneInv, Types
<1>2. LogGrows
  BY <1>1, SameLogGrows DEF LogGrowsAfresh
<1>3. LaneReachable(m)'
  BY <1>1 DEF LaneReachable, Alive, SameLog
<1>4. lane'[m] = r
  OBVIOUS
<1> HIDE DEF r
<1>5. LaneHolds(lane[m])'
  <2> SUFFICES ASSUME NEW q, q = r PROVE LaneHolds(q)'
    BY <1>4 DEF LaneHolds
  <2> QED BY <1>1, <1>2, HoldsFrame
<1>6. LaneEarned(lane[m])'
  <2> SUFFICES ASSUME NEW q, q = r PROVE LaneEarned(q)'
    BY <1>4 DEF LaneEarned
  <2> QED BY <1>1, <1>2, EarnedFrame
<1> QED BY <1>3, <1>5, <1>6 DEF LaneInv

LEMMA OtherLaneSettled ==
    ASSUME IndInv, Types', SameLog, NEW m \in Lanes, lane'[m] = lane[m], LaneSettled(lane[m]),
           accounted \subseteq accounted'
    PROVE  LaneSettled(lane[m])'
<1> DEFINE r == lane[m]
<1>1. r \in LaneType /\ Types /\ LaneHolds(r) /\ LaneSettled(r)
  BY DEF IndInv, LaneInv, Types
<1>2. LogGrowsAfresh
  BY <1>1, SameLogGrows
<1>3. lane'[m] = r
  OBVIOUS
<1> HIDE DEF r
<1> SUFFICES ASSUME NEW q, q = r PROVE LaneSettled(q)'
  BY <1>3 DEF LaneSettled, Settled, InPlace
<1> QED BY <1>1, <1>2, SettledFrame

\* A step of lane l that leaves the record q: what has to be shown about q and about
\* the checkpoint.
LEMMA LaneStep ==
    ASSUME IndInv, NEW l \in Lanes, NEW q \in LaneType, lane' = [lane EXCEPT ![l] = q], OnlyLane,
           q.phase = "gone" \/ (Alive(l) /\ q.mapped = lane[l].mapped),
           consumer' \in ConsumerType, consumer'.revision = consumer.revision,
           consumer.checkpoint <= consumer'.checkpoint, consumer'.checkpoint <= issued,
           accounted \subseteq accounted',
           CheckpointEarned', LaneHolds(q), LaneEarned(q)',
           NoReplay /\ SkipInv => Settled(consumer.checkpoint)' /\ LaneSettled(q)'
    PROVE  Kept
<1>1. Types'
  BY DEF IndInv, Types, OnlyLane
<1>2. SameLog
  BY DEF OnlyLane, SameLog
<1>3. LogInv'
  BY DEF IndInv, LogInv, OnlyLane
<1>4. lane'[l] = q /\ \A m \in Lanes : m # l => lane'[m] = lane[m]
  BY DEF IndInv, Types
<1>5. ASSUME NEW m \in Lanes PROVE LaneInv(m)'
  <2>1. CASE m # l
    BY <1>1, <1>2, <1>4, <2>1, OtherLane
  <2>2. CASE m = l
    <3>1. LaneReachable(l)'
      BY <1>4 DEF IndInv, LaneInv, LaneReachable, Alive, OnlyLane
    <3>2. LaneHolds(lane[l])'
      BY <1>4 DEF LaneHolds, OnlyLane
    <3>3. LaneEarned(lane[l])'
      BY <1>4 DEF LaneEarned
    <3> QED BY <2>2, <3>1, <3>2, <3>3 DEF LaneInv
  <2> QED BY <2>1, <2>2
<1>6. ASSUME NoReplay, SkipInv, NEW m \in Lanes PROVE LaneSettled(lane[m])'
  <2>1. CASE m # l
    BY <1>1, <1>2, <1>4, <1>6, <2>1, OtherLaneSettled DEF SkipInv
  <2>2. CASE m = l
    BY <1>4, <1>6, <2>2 DEF LaneSettled
  <2> QED BY <2>1, <2>2
<1> QED BY <1>1, <1>3, <1>5, <1>6 DEF Kept, IndInv, SkipInv, Monotone

\* The same for a step that leaves the consumer alone.
LEMMA QuietLaneStep ==
    ASSUME IndInv, NEW l \in Lanes, NEW q \in LaneType, lane' = [lane EXCEPT ![l] = q], OnlyLane,
           q.phase = "gone" \/ (Alive(l) /\ q.mapped = lane[l].mapped),
           consumer' = consumer, accounted \subseteq accounted',
           LaneHolds(q), LaneEarned(q)', NoReplay /\ SkipInv => LaneSettled(q)'
    PROVE  Kept
<1>1. Types /\ Types' /\ consumer \in ConsumerType /\ consumer.checkpoint \in Int
  BY DEF IndInv, Types, OnlyLane, ConsumerType
<1>2. LogGrowsAfresh /\ consumer.checkpoint <= issued
  BY <1>1, SameLogGrows DEF OnlyLane, SameLog, IndInv, LogInv
<1>3. CheckpointEarned'
  BY <1>1, <1>2, EarnedCheckpointFrame
<1>4. SkipInv => Settled(consumer.checkpoint)'
  <2> SUFFICES ASSUME NEW n \in Int, n = consumer.checkpoint, Settled(n) PROVE Settled(n)'
    BY <1>1 DEF SkipInv, Settled
  <2> QED BY <1>1, <1>2, SettledUpToFrame
<1>5. /\ consumer' \in ConsumerType /\ consumer'.revision = consumer.revision
      /\ consumer.checkpoint <= consumer'.checkpoint /\ consumer'.checkpoint <= issued
  BY <1>1, <1>2
<1> QED BY <1>3, <1>4, <1>5, LaneStep

\* A record without a replay in hand satisfies the invariant at once.
LEMMA NoReplayInHand ==
    ASSUME Types, NEW r \in LaneType, LaneEarned(r), NEW q \in LaneType,
           q.phase \notin Working \cup {"replay"}, q.phase = "recv" => q.queue # << >>,
           q.revision \in {r.revision, 0},
           q.invocation_revision \in {r.invocation_revision, 0}
    PROVE  LaneHolds(q) /\ LaneEarned(q) /\ LaneSettled(q)
<1>1. q.phase # "ack"
  BY DEF Working, Delivering
<1>2. LaneHolds(q)
  BY DEF LaneHolds
<1>3. consumer.revision \in Nat
  BY DEF Types, ConsumerType
<1>4. LaneEarned(q)
  BY <1>1, <1>3 DEF LaneEarned
<1> QED BY <1>2, <1>4 DEF LaneSettled

\* With the same consumer and at least the same accounts the invariant of a record
\* that the step leaves can be shown in the old state.
LEMMA QuietRecord ==
    ASSUME OnlyLane, consumer' = consumer, accounted' = accounted, NEW q
    PROVE  (LaneEarned(q) => LaneEarned(q)') /\ (LaneSettled(q) => LaneSettled(q)')
<1>1. LaneEarned(q) => LaneEarned(q)'
  BY DEF LaneEarned, OnlyLane
<1>2. LaneSettled(q) => LaneSettled(q)'
  BY DEF LaneSettled, Settled, InPlace, OnlyLane
<1> QED BY <1>1, <1>2

LEMMA LaneFacts ==
    ASSUME IndInv, NEW l \in Lanes
    PROVE  /\ Types /\ lane[l] \in LaneType
           /\ LaneHolds(lane[l]) /\ LaneEarned(lane[l])
           /\ SkipInv => LaneSettled(lane[l]) /\ Settled(consumer.checkpoint)
BY DEF IndInv, Types, LaneInv, SkipInv

-----------------------------------------------------------------------------
(* Lane steps that leave the consumer alone. *)

LEMMA RetireKept ==
    ASSUME IndInv, NEW l \in Lanes, retire(l)
    PROVE  Kept
<1> DEFINE q == [lane[l] EXCEPT !.cancelled = TRUE]
<1>1. /\ q \in LaneType /\ q.phase = lane[l].phase /\ q.mapped = lane[l].mapped
      /\ q.queue = lane[l].queue /\ q.from = lane[l].from /\ q.head = lane[l].head
      /\ q.pending = lane[l].pending /\ q.revision = lane[l].revision
      /\ q.invocation_revision = lane[l].invocation_revision
  BY LaneFacts DEF LaneType
<1>2. lane' = [lane EXCEPT ![l] = q]
  BY DEF retire
<1>3. OnlyLane /\ consumer' = consumer /\ accounted' = accounted /\ Alive(l)
  BY DEF retire, OnlyLane
<1> HIDE DEF q
<1>4. LaneHolds(q) /\ LaneEarned(q) /\ (SkipInv => LaneSettled(q))
  BY <1>1, LaneFacts DEF LaneHolds, LaneEarned, LaneSettled
<1> QED BY <1>1, <1>2, <1>3, <1>4, QuietRecord, QuietLaneStep

LEMMA FinishKept ==
    ASSUME IndInv, NEW l \in Lanes, finish(l)
    PROVE  Kept
<1> DEFINE r == lane[l]
           w == [r EXCEPT !.phase = "recv", !.through = Full, !.revision = 0,
                          !.pending = << >>, !.head = None]
           q == IF r.queue = << >> THEN NoLane ELSE w
<1>1. /\ w \in LaneType /\ w.phase = "recv" /\ w.mapped = r.mapped /\ w.queue = r.queue
      /\ w.revision = 0 /\ w.invocation_revision = r.invocation_revision
  <2>1. Full \in Int /\ None \in Int /\ << >> \in Seq(Nat) /\ "recv" \in Phases
    BY BoundAssumption DEF Full, None, Phases
  <2>2. r \in LaneType
    BY LaneFacts
  <2> HIDE DEF r
  <2> QED BY <2>1, <2>2 DEF LaneType
<1>2. NoLane \in LaneType /\ NoLane.phase = "gone" /\ NoLane.revision = 0 /\ NoLane.invocation_revision = 0
  BY BoundAssumption DEF NoLane, LaneType, Phases, Full, None
<1>3. lane' = [lane EXCEPT ![l] = q]
  BY DEF finish
<1>4. OnlyLane /\ consumer' = consumer /\ accounted' = accounted /\ Alive(l)
  BY DEF finish, OnlyLane, Alive
<1> HIDE DEF w
<1>5. /\ q \in LaneType /\ q.revision = 0 /\ q.invocation_revision \in {r.invocation_revision, 0}
      /\ q.phase = "gone" \/ (q.phase = "recv" /\ q.queue # << >> /\ q.mapped = r.mapped)
  BY <1>1, <1>2
<1> HIDE DEF q
<1>6. LaneHolds(q) /\ LaneEarned(q) /\ LaneSettled(q)
  BY <1>5, LaneFacts, NoReplayInHand DEF Working, Delivering
<1> QED BY <1>3, <1>4, <1>5, <1>6, QuietRecord, QuietLaneStep

LEMMA RecvKept ==
    ASSUME IndInv, NEW l \in Lanes, recv(l)
    PROVE  Kept
<1> DEFINE r == lane[l]
           t == Head(r.queue)
           q == [r EXCEPT !.phase = "read", !.queue = Tail(r.queue), !.through = t,
                          !.full_queued = r.full_queued /\ ~ClearFullFlag(t)]
<1>0. r \in LaneType /\ LaneHolds(r) /\ r.phase = "recv"
  BY LaneFacts DEF recv
<1>1. /\ q \in LaneType /\ q.phase = "read" /\ q.mapped = r.mapped
      /\ q.revision = r.revision /\ q.invocation_revision = r.invocation_revision
  <2>1. r.queue \in Seq(Int) /\ r.queue # << >>
    BY <1>0, LaneTypes DEF LaneHolds
  <2>2. t \in Int /\ Tail(r.queue) \in Seq(Int)
    BY <2>1, NonEmpty
  <2>3. "read" \in Phases /\ (r.full_queued /\ ~ClearFullFlag(t)) \in BOOLEAN
    BY DEF Phases
  <2> HIDE DEF r, t
  <2> QED BY <1>0, <2>2, <2>3 DEF LaneType
<1>2. lane' = [lane EXCEPT ![l] = q]
  <2>1. lane' = [lane EXCEPT ![l].phase = "read", ![l].queue = Tail(@), ![l].through = t,
                             ![l].full_queued = @ /\ ~ClearFullFlag(t)]
    BY DEF recv
  <2> HIDE DEF t
  <2> QED BY <1>0, <2>1 DEF IndInv, Types, LaneType
<1>3. OnlyLane /\ consumer' = consumer /\ accounted' = accounted /\ Alive(l)
  BY DEF recv, OnlyLane, Alive
<1> HIDE DEF q
<1>4. LaneHolds(q) /\ LaneEarned(q) /\ LaneSettled(q)
  BY <1>1, LaneFacts, NoReplayInHand DEF Working, Delivering
<1> QED BY <1>1, <1>2, <1>3, <1>4, QuietRecord, QuietLaneStep

LEMMA StopKept ==
    ASSUME IndInv, NEW l \in Lanes, stop(l)
    PROVE  Kept
<1> DEFINE q == NoLane
<1>1. q \in LaneType /\ q.phase = "gone" /\ q.revision = 0 /\ q.invocation_revision = 0
  BY BoundAssumption DEF NoLane, LaneType, Phases, Full, None
<1>2. lane' = [lane EXCEPT ![l] = q] /\ OnlyLane /\ consumer' = consumer /\ accounted' = accounted
  BY DEF stop, OnlyLane
<1> HIDE DEF q
<1>3. LaneHolds(q) /\ LaneEarned(q) /\ LaneSettled(q)
  BY <1>1, LaneFacts, NoReplayInHand DEF Working, Delivering
<1> QED BY <1>1, <1>2, <1>3, QuietRecord, QuietLaneStep

\* A step that only moves l on, outside of a replay or inside of one.
LEMMA GotoKept ==
    ASSUME IndInv, NEW l \in Lanes, NEW p, p \in {"done", "invoke", "handling", "retry", "dead_letter"},
           lane[l].phase \in {"read"} \cup Working,
           p # "done" => lane[l].phase \in Working /\ lane[l].pending # << >>,
           Goto(l, p), OnlyLane, consumer' = consumer, accounted' = accounted
    PROVE  Kept
<1> DEFINE q == [lane[l] EXCEPT !.phase = p]
<1>0. p \in Phases /\ p # "gone" /\ Alive(l)
  BY DEF Phases, Working, Delivering, Alive
<1>1. /\ q \in LaneType /\ q.phase = p /\ q.mapped = lane[l].mapped
      /\ q.queue = lane[l].queue /\ q.from = lane[l].from /\ q.head = lane[l].head
      /\ q.pending = lane[l].pending /\ q.revision = lane[l].revision
      /\ q.invocation_revision = lane[l].invocation_revision
  BY <1>0, LaneFacts DEF LaneType
<1>2. lane' = [lane EXCEPT ![l] = q]
  BY DEF Goto
<1> HIDE DEF q
<1>3. CASE p = "done"
  <2>1. LaneHolds(q) /\ LaneEarned(q) /\ LaneSettled(q)
    BY <1>1, <1>3, LaneFacts, NoReplayInHand DEF Working, Delivering
  <2> QED BY <1>0, <1>1, <1>2, <2>1, QuietRecord, QuietLaneStep
<1>4. CASE p # "done"
  <2>1. q.phase # "recv" /\ q.phase # "replay" /\ q.phase # "ack"
    BY <1>1
  <2>2. LaneHolds(q) /\ LaneEarned(q) /\ (SkipInv => LaneSettled(q))
    BY <1>1, <1>4, <2>1, LaneFacts DEF LaneHolds, LaneEarned, LaneSettled
  <2> QED BY <1>0, <1>1, <1>2, <2>2, QuietRecord, QuietLaneStep
<1> QED BY <1>3, <1>4

LEMMA ReadStateKept ==
    ASSUME IndInv, NEW l \in Lanes, read_state(l)
    PROVE  Kept
<1>0. OnlyLane /\ consumer' = consumer /\ accounted' = accounted /\ Alive(l) /\ lane[l].phase = "read"
  BY DEF read_state, OnlyLane, Alive
<1>1. CASE consumer.paused
  BY <1>0, <1>1, GotoKept DEF read_state
<1>2. CASE ~consumer.paused
  <2> DEFINE r == lane[l]
             n == consumer.revision
             c == consumer.checkpoint
             q == [r EXCEPT !.phase = "replay", !.revision = n, !.from = c]
  <2>1. n \in Nat /\ c \in Int /\ c <= issued /\ "replay" \in Phases /\ r \in LaneType
    BY LaneFacts DEF IndInv, Types, LogInv, ConsumerType, Phases
  <2>2. /\ q \in LaneType /\ q.phase = "replay" /\ q.mapped = r.mapped /\ q.from = c
        /\ q.revision = n /\ q.invocation_revision = r.invocation_revision
    <3> HIDE DEF r, n, c
    <3> QED BY <2>1 DEF LaneType
  <2>3. lane' = [lane EXCEPT ![l] = q]
    <3>1. lane' = [lane EXCEPT ![l].phase = "replay", ![l].revision = n, ![l].from = c]
      BY <1>2 DEF read_state
    <3> HIDE DEF n, c
    <3> QED BY <2>1, <3>1 DEF IndInv, Types, LaneType
  <2> HIDE DEF q
  <2>4. LaneHolds(q) /\ LaneEarned(q)
    BY <2>1, <2>2, LaneFacts DEF LaneHolds, LaneEarned, Working, Delivering
  <2>5. SkipInv => LaneSettled(q)
    BY <2>2 DEF SkipInv, LaneSettled, Working, Delivering
  <2> QED BY <1>0, <2>2, <2>3, <2>4, <2>5, QuietRecord, QuietLaneStep
<1> QED BY <1>1, <1>2

-----------------------------------------------------------------------------
(* The replay. *)

\* InOrder lists a finite set of seqs, each once and in ascending order.
LEMMA InOrderFacts ==
    ASSUME NEW S, S \subseteq Nat, IsFiniteSet(S)
    PROVE  /\ InOrder(S) \in Seq(S) /\ Ascending(InOrder(S))
           /\ \A s \in S : \E k \in 1..Len(InOrder(S)) : InOrder(S)[k] = s
<1> DEFINE Below(s) == {x \in S : x < s}
           n == Cardinality(S)
           rank == [s \in S |-> Cardinality(Below(s)) + 1]
           e == [i \in 1..n |-> CHOOSE s \in S : Cardinality(Below(s)) = i - 1]
<1>1. n \in Nat
  BY FS_CardinalityType
<1>2. \A s \in S : IsFiniteSet(Below(s)) /\ Cardinality(Below(s)) \in 0..(n - 1)
  <2> TAKE s \in S
  <2>1. Below(s) \in SUBSET S /\ s \notin Below(s)
    OBVIOUS
  <2>2. IsFiniteSet(Below(s)) /\ Cardinality(Below(s)) <= n /\ Cardinality(Below(s)) # n
    BY <2>1, FS_Subset
  <2>3. Cardinality(Below(s)) \in Nat
    BY <2>2, FS_CardinalityType
  <2> HIDE DEF Below, n
  <2> QED BY <1>1, <2>2, <2>3
<1>3. \A s, t \in S : s < t => Cardinality(Below(s)) < Cardinality(Below(t))
  <2> SUFFICES ASSUME NEW s \in S, NEW t \in S, s < t
               PROVE  Cardinality(Below(s)) < Cardinality(Below(t))
    OBVIOUS
  <2>1. Below(s) \in SUBSET Below(t)
    <3>1. \A x \in S : x < s => x < t
      OBVIOUS
    <3> QED BY <3>1
  <2>2. s \in Below(t) /\ s \notin Below(s)
    OBVIOUS
  <2>3. Cardinality(Below(s)) <= Cardinality(Below(t)) /\ Cardinality(Below(t)) # Cardinality(Below(s))
    BY <1>2, <2>1, <2>2, FS_Subset
  <2> HIDE DEF Below, n
  <2> QED BY <1>1, <1>2, <2>3
<1>4. rank \in [S -> 1..n]
  <2>1. \A s \in S : Cardinality(Below(s)) + 1 \in 1..n
    <3> HIDE DEF Below, n
    <3> QED BY <1>1, <1>2
  <2> QED BY <2>1
<1>5. \A s, t \in S : s < t => rank[s] < rank[t]
  <2> SUFFICES ASSUME NEW s \in S, NEW t \in S, s < t PROVE rank[s] < rank[t]
    OBVIOUS
  <2>1. rank[s] = Cardinality(Below(s)) + 1 /\ rank[t] = Cardinality(Below(t)) + 1
    OBVIOUS
  <2>2. Cardinality(Below(s)) \in 0..(n - 1) /\ Cardinality(Below(t)) \in 0..(n - 1)
    BY <1>2
  <2> HIDE DEF Below, n, rank
  <2> QED BY <1>1, <1>3, <2>1, <2>2
<1>6. \A s, t \in S : rank[s] = rank[t] => s = t
  <2>1. \A s, t \in S : s < t \/ t < s \/ s = t
    OBVIOUS
  <2>2. \A s \in S : rank[s] \in Nat
    <3> HIDE DEF rank, n
    <3> QED BY <1>1, <1>4
  <2> HIDE DEF rank
  <2> QED BY <1>5, <2>1, <2>2
<1>7. \A i \in 1..n : \E s \in S : rank[s] = i
  <2>1. rank \in Injection(S, 1..n)
    BY <1>4, <1>6 DEF Injection, IsInjective
  <2>2. IsFiniteSet(1..n) /\ Cardinality(1..n) = n
    BY <1>1, FS_Interval
  <2>3. rank \in Surjection(S, 1..n)
    <3> HIDE DEF rank, n
    <3>1. n = Cardinality(S)
      BY DEF n
    <3> QED BY <2>1, <2>2, <3>1, FS_Injection
  <2> HIDE DEF rank, n
  <2> QED BY <2>3 DEF Surjection
<1>8. \A i \in 1..n : e[i] \in S /\ rank[e[i]] = i
  <2> TAKE i \in 1..n
  <2>1. PICK s \in S : rank[s] = i
    BY <1>7
  <2>2. Cardinality(Below(s)) + 1 = i
    BY <2>1
  <2>3. Cardinality(Below(s)) = i - 1
    <3>1. Cardinality(Below(s)) \in 0..(n - 1)
      BY <1>2
    <3> HIDE DEF Below, n
    <3> QED BY <1>1, <2>2, <3>1
  <2>4. e[i] \in S /\ Cardinality(Below(e[i])) = i - 1
    BY <2>3
  <2>5. rank[e[i]] = Cardinality(Below(e[i])) + 1
    BY <2>4
  <2> HIDE DEF e, rank, Below, n
  <2> QED BY <1>1, <2>4, <2>5
<1>9. InOrder(S) = e
  BY DEF InOrder
<1> HIDE DEF e, rank, n, Below
<1>10. \A i \in 1..n : e[i] \in S
  BY <1>8
<1>11. e \in Seq(S) /\ Len(e) = n
  BY <1>1, <1>10 DEF e
<1>12. Ascending(e)
  <2> SUFFICES ASSUME NEW i \in 1..n, NEW j \in 1..n, i < j PROVE e[i] < e[j]
    BY <1>11 DEF Ascending
  <2>1. e[i] \in S /\ e[j] \in S /\ rank[e[i]] = i /\ rank[e[j]] = j
    BY <1>8
  <2>2. e[i] \in Nat /\ e[j] \in Nat /\ i \in Nat /\ j \in Nat
    <3>1. i \in Nat /\ j \in Nat
      BY <1>1
    <3>2. e[i] \in Nat /\ e[j] \in Nat
      BY <2>1, Zenon
    <3> QED BY <3>1, <3>2
  <2>3. e[i] # e[j]
    BY <2>1, <2>2
  <2>4. ~(e[j] < e[i])
    <3> SUFFICES ASSUME e[j] < e[i] PROVE FALSE
      OBVIOUS
    <3>1. rank[e[j]] < rank[e[i]]
      BY <1>5, <2>1
    <3> QED BY <2>1, <2>2, <3>1
  <2> QED BY <2>2, <2>3, <2>4
<1>13. \A s \in S : \E k \in 1..n : e[k] = s
  <2> TAKE s \in S
  <2>1. rank[s] \in 1..n
    BY <1>4
  <2>2. e[rank[s]] = s
    BY <1>6, <1>8, <2>1
  <2> QED BY <2>1, <2>2
<1> QED BY <1>9, <1>11, <1>12, <1>13

\* The head of the replay is its last event.
LEMMA ReplayHeadFacts ==
    ASSUME Types, NEW l \in Lanes
    PROVE  /\ ReplayedSeqs(l) \subseteq 0..HeadSeq
           /\ ReplayHead(l) \in Int /\ ReplayHead(l) < Len(log)
           /\ \A s \in ReplayedSeqs(l) : s <= ReplayHead(l)
           /\ ReplayHead(l) \in ReplayedSeqs(l) \/ ReplayHead(l) = None
<1> DEFINE S == ReplayedSeqs(l)
<1>1. Len(log) \in Nat /\ HeadSeq = Len(log) - 1
  BY DEF Types, HeadSeq
<1>2. S \subseteq 0..HeadSeq
  BY DEF ReplayedSeqs
<1>3. CASE S = {}
  BY <1>1, <1>3 DEF ReplayHead, None
<1>4. CASE S # {}
  <2>1. \E s \in S : \A x \in S : x <= s
    <3>1. IsFiniteSet(0..HeadSeq)
      BY <1>1, FS_Interval
    <3>2. IsFiniteSet(S)
      BY <1>2, <3>1, FS_Subset
    <3> DEFINE q == InOrder(S)
               n == Len(q)
    <3> HIDE DEF S
    <3>2a. S \subseteq Nat
      BY <1>1, <1>2
    <3>3. q \in Seq(S) /\ Ascending(q) /\ \A s \in S : \E k \in 1..n : q[k] = s
      BY <3>2, <3>2a, InOrderFacts
    <3>4. n \in Nat /\ n # 0
      BY <1>4, <3>3
    <3>5. q[n] \in S
      BY <3>3, <3>4
    <3>6. ASSUME NEW x \in S PROVE x <= q[n]
      <4>1. PICK k \in 1..n : q[k] = x
        BY <3>3
      <4>2. k = n \/ q[k] < q[n]
        BY <3>3, <3>4 DEF Ascending
      <4>3. x \in Nat /\ q[n] \in Nat
        BY <3>2a, <3>5
      <4> HIDE DEF q, n
      <4> QED BY <4>1, <4>2, <4>3
    <3> QED BY <3>5, <3>6
  <2>2. ReplayHead(l) \in S /\ \A x \in S : x <= ReplayHead(l)
    BY <1>4, <2>1 DEF ReplayHead
  <2> QED BY <1>1, <1>2, <2>2
<1> QED BY <1>2, <1>3, <1>4

LEMMA ReplayKept ==
    ASSUME IndInv, NEW l \in Lanes, replay(l)
    PROVE  Kept
<1> DEFINE r == lane[l]
           S == {s \in ReplayedSeqs(l) : log[s + 1].match}
           p == InOrder(S)
           h == ReplayHead(l)
           q == [r EXCEPT !.phase = "next", !.from = None, !.pending = p, !.head = h]
<1>0. /\ OnlyLane /\ consumer' = consumer /\ accounted' = accounted /\ Alive(l)
      /\ r.phase = "replay" /\ Types /\ r \in LaneType /\ Len(log) \in Nat
  <2>1. Types /\ r \in LaneType
    BY LaneFacts
  <2>2. Len(log) \in Nat
    BY <2>1 DEF Types
  <2> QED BY <2>1, <2>2 DEF replay, OnlyLane, Alive
<1>1. /\ ReplayedSeqs(l) \subseteq 0..(Len(log) - 1) /\ h \in Int /\ h < Len(log)
      /\ \A s \in ReplayedSeqs(l) : s <= h
      /\ h \in ReplayedSeqs(l) \/ h = None
  BY <1>0, ReplayHeadFacts DEF HeadSeq
<1>2. /\ p \in Seq(S) /\ Ascending(p)
      /\ \A s \in S : \E k \in 1..Len(p) : p[k] = s
  <2>1. IsFiniteSet(0..(Len(log) - 1))
    BY <1>0, FS_Interval
  <2>2. IsFiniteSet(S) /\ S \subseteq Nat
    BY <1>1, <2>1, FS_Subset
  <2> HIDE DEF S
  <2> QED BY <2>2, InOrderFacts
<1>3. Len(p) \in Nat /\ \A k \in 1..Len(p) : p[k] \in Nat /\ p[k] <= h /\ p[k] \in S
  <2>1. Len(p) \in Nat /\ \A k \in 1..Len(p) : p[k] \in S
    <3> HIDE DEF p, S
    <3> QED BY <1>2
  <2>2. \A s \in S : s \in Nat /\ s <= h
    BY <1>0, <1>1
  <2> QED BY <2>1, <2>2
<1>4. p \in Seq(Nat)
  <2> HIDE DEF p, S, h
  <2>1. p = [k \in 1..Len(p) |-> p[k]]
    BY <1>2
  <2> QED BY <1>3, <2>1
<1>5. lane' = [lane EXCEPT ![l] = q]
  <2>1. lane' = [lane EXCEPT ![l].phase = "next", ![l].from = None, ![l].pending = p, ![l].head = h]
    BY DEF replay
  <2> HIDE DEF p, h
  <2> QED BY <1>0, <2>1 DEF IndInv, Types, LaneType
<1>6. /\ q \in LaneType /\ q.phase = "next" /\ q.mapped = r.mapped /\ q.pending = p /\ q.head = h
      /\ q.revision = r.revision /\ q.invocation_revision = r.invocation_revision
  <2>1. None \in Int /\ "next" \in Phases
    BY DEF None, Phases, Working
  <2> HIDE DEF p, h, r
  <2> QED BY <1>0, <1>1, <1>4, <2>1 DEF LaneType
<1>7. ASSUME h >= 0, log[h + 1].match PROVE Len(p) >= 1 /\ p[Len(p)] = h
  <2>1. h \in S
    BY <1>1, <1>7 DEF None
  <2>2. PICK k \in 1..Len(p) : p[k] = h
    BY <1>2, <2>1
  <2>3. k = Len(p)
    <3> SUFFICES ASSUME k < Len(p) PROVE FALSE
      BY <1>3
    <3>1. p[k] < p[Len(p)] /\ p[Len(p)] <= h
      BY <1>2, <1>3 DEF Ascending
    <3> HIDE DEF p, h
    <3> QED BY <1>1, <1>3, <2>2, <3>1
  <2> QED BY <1>3, <2>2, <2>3
<1>8. LaneHolds(q)
  <2>1. p # << >> => h >= 0
    <3>1. p # << >> => Len(p) >= 1
      BY <1>4, NonEmpty
    <3> HIDE DEF p, h
    <3> QED BY <1>1, <1>3, <3>1
  <2> HIDE DEF q, p, h
  <2> QED BY <1>1, <1>2, <1>3, <1>6, <1>7, <2>1 DEF LaneHolds
<1>9. LaneEarned(q)
  <2>1. p = << >> => Len(p) = 0
    OBVIOUS
  <2> HIDE DEF q, p, h
  <2> QED BY <1>6, <1>7, <2>1, LaneFacts DEF LaneEarned
<1>10. ASSUME SkipInv PROVE LaneSettled(q)
  <2>1. Settled(r.from)
    BY <1>0, <1>10, LaneFacts DEF LaneSettled
  <2>2. ASSUME NEW i \in 1..Len(log), log[i].match, InPlace(i), i - 1 <= h, log[i].ev \notin accounted
        PROVE  \E k \in 1..Len(p) : p[k] = i - 1
    <3>1. r.from \in Int /\ r.through \in Int
      BY <1>0, LaneTypes
    <3>2. i - 1 > r.from
      BY <2>1, <2>2, <3>1 DEF Settled
    <3>3. h \in ReplayedSeqs(l)
      BY <1>0, <1>1, <2>2 DEF None
    <3>4. h <= r.through
      BY <3>3 DEF ReplayedSeqs
    <3>5. i - 1 \in ReplayedSeqs(l)
      BY <1>0, <1>1, <2>2, <3>1, <3>2, <3>4 DEF ReplayedSeqs, HeadSeq
    <3>6. log[(i - 1) + 1].match
      BY <2>2
    <3> QED BY <1>2, <3>5, <3>6
  <2> HIDE DEF q, p, h
  <2> QED BY <1>6, <2>2 DEF LaneSettled
<1> HIDE DEF q
<1> QED BY <1>0, <1>5, <1>6, <1>8, <1>9, <1>10, QuietRecord, QuietLaneStep

-----------------------------------------------------------------------------
(* The persisted consumer state. *)

LEMMA ConsumerTypes ==
    ASSUME NEW c \in ConsumerType
    PROVE  /\ c.checkpoint \in Int /\ c.revision \in Nat /\ c.failures \in Nat
           /\ c.paused \in BOOLEAN /\ c.quarantined \in SUBSET (Nat \X Nat)
           /\ c.quarantined_count \in Nat /\ c.skipped_count \in Nat
BY DEF ConsumerType

LEMMA SetCheckpoint ==
    ASSUME NEW c \in ConsumerType, NEW s \in Int
    PROVE  LET d == [c EXCEPT !.checkpoint = s, !.failures = 0]
           IN  /\ d \in ConsumerType /\ d.checkpoint = s
               /\ d.revision = c.revision /\ d.paused = c.paused
BY DEF ConsumerType

LEMMA SetFailures ==
    ASSUME NEW c \in ConsumerType, NEW n \in Nat
    PROVE  LET d == [c EXCEPT !.failures = n]
           IN  /\ d \in ConsumerType /\ d.checkpoint = c.checkpoint
               /\ d.revision = c.revision /\ d.paused = c.paused
BY DEF ConsumerType

LEMMA QuarantinedFacts ==
    ASSUME NEW c \in ConsumerType, NEW s \in Nat
    PROVE  /\ Quarantined(c, s) \in ConsumerType
           /\ Quarantined(c, s).revision = c.revision /\ Quarantined(c, s).paused = c.paused
<1> DEFINE Q == c.quarantined \cup {<<s, c.revision>>}
           n == c.quarantined_count + 1
           d == [c EXCEPT !.quarantined = Q, !.quarantined_count = n]
<1>1. Q \in SUBSET (Nat \X Nat) /\ n \in Nat
  BY ConsumerTypes
<1>2. Quarantined(c, s) = c \/ Quarantined(c, s) = d
  BY DEF Quarantined
<1> HIDE DEF Q, n
<1>3. d \in ConsumerType /\ d.revision = c.revision /\ d.paused = c.paused
  BY <1>1 DEF ConsumerType
<1> QED BY <1>2, <1>3

\* checkpoint_event_consumer moves the checkpoint forward or does nothing.
LEMMA CheckpointedFacts ==
    ASSUME consumer \in ConsumerType, NEW v, NEW s \in Int
    PROVE  LET c == Checkpointed(v, s)
           IN  /\ c \in ConsumerType /\ c.revision = consumer.revision /\ c.paused = consumer.paused
               /\ \/ c = consumer /\ (consumer.revision = v => s <= consumer.checkpoint)
                  \/ consumer.revision = v /\ s > consumer.checkpoint /\ c.checkpoint = s
<1>1. consumer.checkpoint \in Int
  BY ConsumerTypes
<1>2. CASE RevisionMatches(v) /\ BeyondCheckpoint(s)
  BY <1>2, SetCheckpoint DEF Checkpointed, RevisionMatches, BeyondCheckpoint
<1>3. CASE ~(RevisionMatches(v) /\ BeyondCheckpoint(s))
  BY <1>1, <1>3 DEF Checkpointed, RevisionMatches, BeyondCheckpoint
<1> QED BY <1>2, <1>3

\* So does record_event_consumer_failure, and only when it quarantines the event.
LEMMA FailureFacts ==
    ASSUME consumer \in ConsumerType, NEW v, NEW s \in Nat, NEW dead \in BOOLEAN
    PROVE  LET c == FailureRecorded(v, s, dead)
           IN  /\ c \in ConsumerType /\ c.revision = consumer.revision /\ c.paused = consumer.paused
               /\ \/ ~FailureQuarantines(v, s, dead) /\ c.checkpoint = consumer.checkpoint
                  \/ /\ FailureQuarantines(v, s, dead)
                     /\ s > consumer.checkpoint /\ c.checkpoint = s
<1>1. consumer.checkpoint \in Int /\ consumer.failures \in Nat
  BY ConsumerTypes
<1>2. CASE FailureQuarantines(v, s, dead)
  <2> DEFINE d == Quarantined(consumer, s)
  <2>1. d \in ConsumerType /\ d.revision = consumer.revision /\ d.paused = consumer.paused
    BY QuarantinedFacts
  <2>2. FailureRecorded(v, s, dead) = [d EXCEPT !.checkpoint = s, !.failures = 0]
    BY <1>2 DEF FailureRecorded, QuarantineCheckpoint
  <2>3. s > consumer.checkpoint
    BY <1>2 DEF FailureQuarantines, BeyondCheckpoint
  <2> DEFINE c == [d EXCEPT !.checkpoint = s, !.failures = 0]
  <2>4. /\ c \in ConsumerType /\ c.checkpoint = s
        /\ c.revision = d.revision /\ c.paused = d.paused
    <3>1. s \in Int
      OBVIOUS
    <3> SUFFICES ASSUME NEW b \in ConsumerType, b = d
                 PROVE  LET x == [b EXCEPT !.checkpoint = s, !.failures = 0]
                        IN  /\ x \in ConsumerType /\ x.checkpoint = s
                            /\ x.revision = b.revision /\ x.paused = b.paused
      BY <2>1
    <3> QED BY <3>1, SetCheckpoint
  <2> HIDE DEF d, c
  <2> QED BY <1>2, <2>1, <2>2, <2>3, <2>4 DEF c
<1>3. CASE ~FailureQuarantines(v, s, dead)
  <2>1. \/ FailureRecorded(v, s, dead) = [consumer EXCEPT !.failures = consumer.failures + 1]
        \/ FailureRecorded(v, s, dead) = consumer
    BY <1>3 DEF FailureRecorded
  <2> DEFINE n == consumer.failures + 1
             c == [consumer EXCEPT !.failures = n]
  <2>2. n \in Nat
    BY <1>1
  <2>3. /\ c \in ConsumerType /\ c.checkpoint = consumer.checkpoint
        /\ c.revision = consumer.revision /\ c.paused = consumer.paused
    <3> HIDE DEF n
    <3> QED BY <2>2, SetFailures
  <2>4. FailureRecorded(v, s, dead) = c \/ FailureRecorded(v, s, dead) = consumer
    BY <2>1
  <2> HIDE DEF c
  <2> QED BY <1>3, <2>3, <2>4
<1> QED BY <1>2, <1>3

-----------------------------------------------------------------------------
(* One delivery. *)

\* The first event of the replay in hand, r, is settled: what follows for the
\* checkpoint.
LEMMA CheckpointAtHead ==
    ASSUME IndInv, OnlyLane, NEW r \in LaneType, LaneHolds(r), r.phase \in Working, r.pending # << >>,
           consumer.checkpoint \in Int, consumer' \in ConsumerType, accounted \subseteq accounted',
           \/ consumer'.checkpoint = consumer.checkpoint
           \/ /\ consumer'.checkpoint = Head(r.pending) /\ Head(r.pending) > consumer.checkpoint
              /\ log[Head(r.pending) + 1].ev \in accounted'
    PROVE  /\ consumer.checkpoint <= consumer'.checkpoint /\ consumer'.checkpoint <= issued
           /\ CheckpointEarned'
           /\ SkipInv /\ LaneSettled(r) => Settled(consumer.checkpoint)'
<1> DEFINE s == Head(r.pending)
<1>0. /\ Types /\ Len(log) \in Nat /\ issued \in Nat /\ Len(log) - 1 <= issued
      /\ consumer.checkpoint <= issued /\ log' = log
  BY DEF IndInv, Types, LogInv, OnlyLane
<1>1. s \in Nat /\ s = r.pending[1] /\ s <= r.head /\ r.head < Len(log) /\ r.head \in Nat
  BY <1>0, PendingHead
<1>2. r.pending \in Seq(Nat) /\ Len(r.pending) >= 1 /\ Len(r.pending) \in Nat
  BY LaneTypes, NonEmpty
<1> HIDE DEF s
<1>3. consumer.checkpoint <= consumer'.checkpoint /\ consumer'.checkpoint <= issued
  BY <1>0, <1>1 DEF s
<1>4. CheckpointEarned'
  <2> SUFFICES ASSUME NEW i \in 2..Len(log), log[i].match, InPlace(i), i - 1 = consumer'.checkpoint
               PROVE  log[i].ev \in accounted'
    BY <1>0 DEF CheckpointEarned, InPlace
  <2>1. CASE consumer'.checkpoint = consumer.checkpoint
    BY <2>1 DEF IndInv, CheckpointEarned
  <2>2. CASE consumer'.checkpoint = s /\ log[s + 1].ev \in accounted'
    BY <1>0, <1>1, <2>2
  <2> QED BY <2>1, <2>2 DEF s
<1>5. ASSUME SkipInv, LaneSettled(r) PROVE Settled(consumer.checkpoint)'
  <2> SUFFICES ASSUME NEW i \in 1..Len(log), log[i].match, InPlace(i), i - 1 <= consumer'.checkpoint
               PROVE  log[i].ev \in accounted'
    BY <1>0 DEF Settled, InPlace
  <2>1. CASE consumer'.checkpoint = consumer.checkpoint
    BY <1>5, <2>1 DEF SkipInv, Settled
  <2>2. CASE consumer'.checkpoint = s /\ log[s + 1].ev \in accounted'
    <3> SUFFICES ASSUME log[i].ev \notin accounted PROVE log[i].ev \in accounted'
      OBVIOUS
    <3>1. i - 1 <= r.head
      BY <1>1, <2>2
    <3>2. PICK k \in 1..Len(r.pending) : r.pending[k] = i - 1
      BY <1>5, <3>1 DEF LaneSettled
    <3>3. k = 1
      <4> SUFFICES ASSUME 1 < k PROVE FALSE
        BY <1>2
      <4>1. r.pending[1] < r.pending[k]
        BY <1>2 DEF LaneHolds, Ascending
      <4> QED BY <1>1, <2>2, <3>2, <4>1
    <3>4. s + 1 = i
      BY <1>1, <3>2, <3>3
    <3> QED BY <2>2, <3>4
  <2> QED BY <2>1, <2>2 DEF s
<1> QED BY <1>3, <1>4, <1>5

\* The delivery of the first event is to be repeated.
LEMMA RetriedRecord ==
    ASSUME NEW r \in LaneType, LaneHolds(r), LaneEarned(r), r.phase \in Working, Types,
           NEW q, q = [r EXCEPT !.phase = "next", !.invocation_revision = 0]
    PROVE  /\ q \in LaneType /\ q.phase = "next" /\ q.mapped = r.mapped
           /\ LaneHolds(q) /\ LaneEarned(q) /\ (LaneSettled(r) => LaneSettled(q))
<1>1. "next" \in Phases /\ "next" \in Working /\ consumer.revision \in Nat
  BY ConsumerTypes DEF Phases, Working, Types
<1>2. /\ q \in LaneType /\ q.phase = "next" /\ q.mapped = r.mapped
      /\ q.from = r.from /\ q.head = r.head /\ q.pending = r.pending /\ q.queue = r.queue
      /\ q.revision = r.revision /\ q.invocation_revision = 0
  BY <1>1 DEF LaneType
<1>3. LaneHolds(q)
  BY <1>1, <1>2 DEF LaneHolds
<1>4. LaneEarned(q)
  BY <1>1, <1>2 DEF LaneEarned
<1>5. LaneSettled(r) => LaneSettled(q)
  BY <1>1, <1>2 DEF LaneSettled
<1> QED BY <1>2, <1>3, <1>4, <1>5

IsTail(t, s) == Len(t) = Len(s) - 1 /\ \A i \in 1..(Len(s) - 1) : t[i] = s[i + 1]

\* The first event is done with: it was accounted for, or the checkpoint is past it.
LEMMA ConsumedRecord ==
    ASSUME NEW r \in LaneType, LaneHolds(r), LaneEarned(r), r.phase \in Working, r.pending # << >>,
           Types, OnlyLane, consumer' \in ConsumerType, consumer'.revision = consumer.revision,
           consumer.checkpoint <= consumer'.checkpoint, accounted \subseteq accounted',
           log[Head(r.pending) + 1].ev \in accounted' \/ Head(r.pending) <= consumer'.checkpoint,
           NEW t \in Seq(Nat), IsTail(t, r.pending),
           NEW q, q = [r EXCEPT !.phase = "next", !.pending = t, !.invocation_revision = 0]
    PROVE  /\ q \in LaneType /\ q.phase = "next" /\ q.mapped = r.mapped
           /\ LaneHolds(q) /\ LaneEarned(q)'
           /\ LaneSettled(r) /\ Settled(consumer.checkpoint)' => LaneSettled(q)'
<1> DEFINE n == Len(r.pending)
           s == Head(r.pending)
<1>0. /\ "next" \in Phases /\ "next" \in Working /\ consumer.revision \in Nat
      /\ consumer.checkpoint \in Int /\ consumer'.checkpoint \in Int /\ log' = log
      /\ Len(log) \in Nat
  BY ConsumerTypes DEF Phases, Working, Types, OnlyLane
<1>1. /\ n \in Nat /\ n >= 1 /\ Len(t) = n - 1
      /\ \A i \in 1..(n - 1) : t[i] = r.pending[i + 1]
  BY LaneTypes, NonEmpty DEF IsTail
<1>1a. s \in Nat /\ s = r.pending[1] /\ s <= r.head /\ r.head < Len(log) /\ r.head \in Nat
  BY PendingHead
<1>1b. r.pending \in Seq(Nat)
  BY LaneTypes
<1>2. /\ q \in LaneType /\ q.phase = "next" /\ q.mapped = r.mapped
      /\ q.head = r.head /\ q.pending = t
      /\ q.revision = r.revision /\ q.invocation_revision = 0
  <2> SUFFICES ASSUME NEW x, x = [r EXCEPT !.phase = "next", !.pending = t, !.invocation_revision = 0]
               PROVE  /\ x \in LaneType /\ x.phase = "next" /\ x.mapped = r.mapped
                      /\ x.head = r.head /\ x.pending = t
                      /\ x.revision = r.revision /\ x.invocation_revision = 0
    OBVIOUS
  <2> QED BY <1>0 DEF LaneType
<1>2a. Ascending(r.pending) /\ \A i \in 1..n : r.pending[i] \in Nat /\ r.pending[i] <= r.head
  BY <1>1b DEF LaneHolds
<1> HIDE DEF n, s
<1>3. LaneHolds(q)
  <2>1. \A i \in 1..Len(t) : t[i] <= q.head
    <3> TAKE i \in 1..Len(t)
    <3>1. i + 1 \in 1..n /\ t[i] = r.pending[i + 1]
      BY <1>1
    <3> QED BY <1>2, <1>2a, <3>1
  <2>2. Ascending(t)
    <3> SUFFICES ASSUME NEW i \in 1..Len(t), NEW j \in 1..Len(t), i < j PROVE t[i] < t[j]
      BY DEF Ascending
    <3>1. /\ i + 1 \in 1..n /\ j + 1 \in 1..n /\ i + 1 < j + 1
          /\ i \in 1..(n - 1) /\ j \in 1..(n - 1)
      BY <1>1
    <3>2. t[i] = r.pending[i + 1] /\ t[j] = r.pending[j + 1]
      BY <1>1, <3>1
    <3> QED BY <1>2a, <3>1, <3>2 DEF Ascending, n
  <2>3. ASSUME t # << >>, log[q.head + 1].match PROVE t[Len(t)] = q.head
    <3>1. Len(t) >= 1
      BY <1>1, <2>3, NonEmpty
    <3>2. Len(t) \in 1..(n - 1) /\ Len(t) + 1 = n
      BY <1>1, <3>1
    <3>3. t[Len(t)] = r.pending[n]
      BY <1>1, <3>2
    <3> QED BY <1>2, <2>3, <3>3 DEF LaneHolds, n
  <2> QED BY <1>0, <1>1a, <1>2, <2>1, <2>2, <2>3 DEF LaneHolds
<1>4. LaneEarned(q)'
  <2>1. q.revision <= consumer'.revision /\ q.invocation_revision <= consumer'.revision
    BY <1>0, <1>2 DEF LaneEarned
  <2>2. ASSUME t = << >>, q.head > consumer'.checkpoint, log[q.head + 1].match
        PROVE  log[q.head + 1].ev \in accounted'
    <3>1. Len(t) = 0 /\ n = 1
      BY <1>1, <2>2
    <3>2. r.pending[n] = q.head
      BY <1>2, <2>2 DEF LaneHolds, n
    <3>3. s = q.head
      BY <1>1a, <3>1, <3>2
    <3> QED BY <1>0, <1>1a, <2>2, <3>3 DEF s
  <2> QED BY <1>0, <1>2, <2>1, <2>2 DEF LaneEarned
<1>5. ASSUME LaneSettled(r), Settled(consumer.checkpoint)' PROVE LaneSettled(q)'
  <2> SUFFICES ASSUME NEW i \in 1..Len(log), log[i].match, InPlace(i), i - 1 <= r.head,
                      log[i].ev \notin accounted'
               PROVE  \E k \in 1..Len(t) : t[k] = i - 1
    BY <1>0, <1>2 DEF LaneSettled, InPlace
  <2>1. PICK k \in 1..n : r.pending[k] = i - 1
    BY <1>5 DEF LaneSettled, n
  <2>2. ~(i - 1 <= consumer'.checkpoint)
    BY <1>0, <1>5 DEF Settled, InPlace
  <2>3. k # 1
    <3> SUFFICES ASSUME k = 1 PROVE FALSE
      OBVIOUS
    <3>1. s = i - 1 /\ s + 1 = i
      BY <1>1a, <2>1
    <3> QED BY <2>2, <3>1 DEF s
  <2>4. k - 1 \in 1..Len(t) /\ t[k - 1] = r.pending[k]
    <3>1. k - 1 \in 1..(n - 1) /\ (k - 1) + 1 = k
      BY <1>1, <2>3
    <3> QED BY <1>1, <3>1
  <2> QED BY <2>1, <2>4
<1> QED BY <1>2, <1>3, <1>4, <1>5

\* A delivery of lane l is settled, and its first event consumed or kept.
LEMMA SettleStep ==
    ASSUME IndInv, NEW l \in Lanes, OnlyLane, lane[l].phase \in Working, lane[l].pending # << >>,
           lane' = Consumed(l) \/ lane' = Retried(l),
           consumer' \in ConsumerType, consumer'.revision = consumer.revision,
           accounted \subseteq accounted',
           \/ consumer'.checkpoint = consumer.checkpoint
           \/ /\ consumer'.checkpoint = Seq0(l) /\ Seq0(l) > consumer.checkpoint
              /\ log[Seq0(l) + 1].ev \in accounted',
           \/ lane' = Retried(l)
           \/ log[Seq0(l) + 1].ev \in accounted'
           \/ Seq0(l) <= consumer'.checkpoint
    PROVE  Kept
<1> DEFINE r == lane[l]
           t == Tail(r.pending)
           c == [r EXCEPT !.phase = "next", !.pending = t, !.invocation_revision = 0]
           w == [r EXCEPT !.phase = "next", !.invocation_revision = 0]
<1>0. /\ Types /\ r \in LaneType /\ LaneHolds(r) /\ LaneEarned(r) /\ (SkipInv => LaneSettled(r))
      /\ r.phase \in Working /\ r.pending # << >> /\ Seq0(l) = Head(r.pending)
  BY LaneFacts DEF Seq0
<1>1. consumer.checkpoint \in Int /\ consumer \in ConsumerType /\ Alive(l)
  BY <1>0, ConsumerTypes DEF Types, Alive, Working, Delivering
<1>2. Consumed(l) = [lane EXCEPT ![l] = c] /\ Retried(l) = [lane EXCEPT ![l] = w]
  <2>1. Consumed(l) = [lane EXCEPT ![l] = c]
    BY <1>0 DEF Consumed, Types, LaneType
  <2>2. Retried(l) = [lane EXCEPT ![l] = w]
    BY DEF Retried
  <2> QED BY <2>1, <2>2
<1>4. /\ consumer.checkpoint <= consumer'.checkpoint /\ consumer'.checkpoint <= issued
      /\ CheckpointEarned'
      /\ SkipInv => Settled(consumer.checkpoint)'
  <2> HIDE DEF r
  <2> QED BY <1>0, <1>1, CheckpointAtHead
<1>5. CASE lane' = Retried(l)
  <2> SUFFICES ASSUME NEW q, q = w PROVE Kept
    OBVIOUS
  <2>1. /\ q \in LaneType /\ q.phase = "next" /\ q.mapped = r.mapped
        /\ LaneHolds(q) /\ LaneEarned(q) /\ (SkipInv => LaneSettled(q))
    BY <1>0, RetriedRecord
  <2>2. lane' = [lane EXCEPT ![l] = q]
    BY <1>2, <1>5
  <2> HIDE DEF w
  <2>3. Types' /\ LogGrowsAfresh
    <3>1. Types'
      BY <1>0, <2>1, <2>2 DEF Types, OnlyLane
    <3>2. SameLog
      BY DEF OnlyLane, SameLog
    <3> QED BY <1>0, <3>1, <3>2, SameLogGrows
  <2>4. LaneEarned(q)'
    BY <1>0, <1>4, <2>1, <2>3, EarnedFrame DEF LogGrowsAfresh
  <2>5. SkipInv => LaneSettled(q)'
    BY <1>0, <2>1, <2>3, SettledFrame
  <2> QED BY <1>1, <1>4, <2>1, <2>2, <2>4, <2>5, LaneStep
<1>6. CASE lane' = Consumed(l) /\ (log[Seq0(l) + 1].ev \in accounted' \/ Seq0(l) <= consumer'.checkpoint)
  <2> SUFFICES ASSUME NEW q, q = c PROVE Kept
    OBVIOUS
  <2>1. /\ q \in LaneType /\ q.phase = "next" /\ q.mapped = r.mapped
        /\ LaneHolds(q) /\ LaneEarned(q)'
        /\ LaneSettled(r) /\ Settled(consumer.checkpoint)' => LaneSettled(q)'
    <3>1. t \in Seq(Nat) /\ IsTail(t, r.pending)
      BY <1>0, LaneTypes, NonEmpty DEF IsTail
    <3> HIDE DEF r, t
    <3> QED BY <1>0, <1>4, <1>6, <3>1, ConsumedRecord
  <2>2. lane' = [lane EXCEPT ![l] = q]
    BY <1>2, <1>6
  <2> HIDE DEF c
  <2> QED BY <1>0, <1>1, <1>4, <2>1, <2>2, LaneStep
<1> QED BY <1>5, <1>6

LEMMA BeginInvocationKept ==
    ASSUME IndInv, NEW l \in Lanes, begin_invocation(l)
    PROVE  Kept
<1>1. lane[l].phase \in Working
  BY DEF begin_invocation, Working
<1> QED BY <1>1, GotoKept DEF begin_invocation, OnlyLane

\* While l delivers, its replay is not empty.
LEMMA DeliveringFacts ==
    ASSUME IndInv, NEW l \in Lanes, lane[l].phase \in {"invoke"} \cup Delivering
    PROVE  /\ Types /\ lane[l].phase \in Working /\ lane[l].pending # << >>
           /\ Seq0(l) \in Nat /\ Seq0(l) < Len(log) /\ Alive(l)
           /\ consumer \in ConsumerType /\ consumer.checkpoint \in Int
<1>1. /\ lane[l].phase \in Working /\ lane[l].phase \in Working \ {"next"} /\ Alive(l)
  BY DEF Working, Delivering, Alive
<1>2. Types /\ lane[l] \in LaneType /\ LaneHolds(lane[l])
  BY LaneFacts
<1>3. lane[l].pending # << >>
  BY <1>1, <1>2 DEF LaneHolds
<1>4. Seq0(l) \in Nat /\ Seq0(l) <= lane[l].head /\ lane[l].head < Len(log) /\ lane[l].head \in Nat
  BY <1>1, <1>2, <1>3, PendingHead DEF Seq0
<1>5. Len(log) \in Nat /\ consumer \in ConsumerType
  BY <1>2 DEF Types
<1> QED BY <1>1, <1>2, <1>3, <1>4, <1>5, ConsumerTypes

LEMMA CheckStateKept ==
    ASSUME IndInv, NEW l \in Lanes, check_state(l)
    PROVE  Kept
<1>0. lane[l].phase = "invoke" /\ OnlyLane /\ consumer' = consumer /\ accounted' = accounted
  BY DEF check_state, OnlyLane
<1>1. /\ Types /\ lane[l].phase \in Working /\ lane[l].pending # << >> /\ Alive(l)
      /\ Seq0(l) \in Nat /\ consumer \in ConsumerType /\ consumer.checkpoint \in Int
  BY <1>0, DeliveringFacts
<1>2. CASE Goto(l, "done")
  BY <1>0, <1>1, <1>2, GotoKept
<1>3. CASE ~BeyondCheckpoint(Seq0(l)) /\ lane' = Consumed(l)
  <2>1. Seq0(l) <= consumer'.checkpoint
    BY <1>0, <1>1, <1>3 DEF BeyondCheckpoint
  <2> QED BY <1>0, <1>1, <1>3, <2>1, SettleStep
<1>4. CASE lane' = [lane EXCEPT ![l].phase = "handling", ![l].invocation_revision = consumer.revision]
  <2> DEFINE r == lane[l]
             n == consumer.revision
             q == [r EXCEPT !.phase = "handling", !.invocation_revision = n]
  <2>1. n \in Nat /\ "handling" \in Phases /\ "handling" \in Working /\ r \in LaneType
    BY <1>1, LaneFacts, ConsumerTypes DEF Phases, Working, Delivering
  <2>2. /\ q \in LaneType /\ q.phase = "handling" /\ q.mapped = r.mapped
        /\ q.from = r.from /\ q.head = r.head /\ q.pending = r.pending /\ q.queue = r.queue
        /\ q.revision = r.revision /\ q.invocation_revision = n
    <3> HIDE DEF r, n
    <3> QED BY <2>1 DEF LaneType
  <2>3. lane' = [lane EXCEPT ![l] = q]
    BY <1>1, <1>4 DEF Types, LaneType
  <2> HIDE DEF q
  <2>4. LaneHolds(q) /\ LaneEarned(q) /\ (SkipInv => LaneSettled(q))
    BY <1>1, <2>1, <2>2, LaneFacts DEF LaneHolds, LaneEarned, LaneSettled
  <2> QED BY <1>0, <1>1, <2>2, <2>3, <2>4, QuietRecord, QuietLaneStep
<1> QED BY <1>2, <1>3, <1>4 DEF check_state

LEMMA CheckStateFailsKept ==
    ASSUME IndInv, NEW l \in Lanes, check_state_fails(l)
    PROVE  Kept
<1>0. lane[l].phase = "invoke" /\ OnlyLane /\ consumer' = consumer /\ accounted' = accounted /\ lane' = Retried(l)
  BY DEF check_state_fails, OnlyLane
<1> QED BY <1>0, DeliveringFacts, SettleStep

LEMMA HandleKept ==
    ASSUME IndInv, NEW l \in Lanes, NEW d \in {"ack", "retry", "dead_letter"}, handle(l, d)
    PROVE  Kept
<1>0. /\ lane[l].phase = "handling" /\ OnlyLane /\ consumer' = consumer
      /\ accounted' = IF d = "ack" THEN accounted \cup {log[Seq0(l) + 1].ev} ELSE accounted
  BY DEF handle, OnlyLane
<1>1. /\ Types /\ lane[l].phase \in Working /\ lane[l].pending # << >> /\ Alive(l)
  BY <1>0, DeliveringFacts DEF Delivering
<1>2. CASE d # "ack"
  BY <1>0, <1>1, <1>2, GotoKept DEF handle
<1>3. CASE d = "ack"
  <2> SUFFICES ASSUME NEW q, q = [lane[l] EXCEPT !.phase = "ack"] PROVE Kept
    OBVIOUS
  <2>0. "ack" \in Phases /\ "ack" \in Working /\ lane[l] \in LaneType
    BY LaneFacts DEF Phases, Working, Delivering
  <2>1. /\ q \in LaneType /\ q.phase = "ack" /\ q.mapped = lane[l].mapped
        /\ q.from = lane[l].from /\ q.head = lane[l].head
        /\ q.pending = lane[l].pending /\ q.revision = lane[l].revision
        /\ q.invocation_revision = lane[l].invocation_revision
    BY <2>0 DEF LaneType
  <2>2. lane' = [lane EXCEPT ![l] = q]
    BY <1>3 DEF handle, Goto
  <2>3. LaneHolds(q)
    BY <1>1, <2>0, <2>1, LaneFacts DEF LaneHolds
  <2>4. log' = log /\ log[Head(q.pending) + 1].ev \in accounted' /\ accounted \subseteq accounted'
    BY <1>0, <1>3, <2>1 DEF Seq0, OnlyLane
  <2>5. LaneEarned(q)'
    BY <1>0, <1>1, <2>1, <2>4, LaneFacts DEF LaneEarned
  <2>6. SkipInv => LaneSettled(q)'
    <3>1. SkipInv => LaneSettled(q)
      BY <1>1, <2>1, LaneFacts DEF LaneSettled
    <3> QED BY <2>4, <3>1 DEF LaneSettled, Settled, InPlace
  <2> QED BY <1>0, <1>1, <2>1, <2>2, <2>3, <2>4, <2>5, <2>6, QuietLaneStep
<1> QED BY <1>2, <1>3

LEMMA CheckpointEventConsumerKept ==
    ASSUME IndInv, NEW l \in Lanes, checkpoint_event_consumer(l)
    PROVE  Kept
<1> DEFINE v == lane[l].invocation_revision
<1>0. /\ lane[l].phase = "ack" /\ OnlyLane /\ accounted' = accounted
      /\ consumer' = Checkpointed(v, Seq0(l))
      /\ lane' = IF RevisionMatches(v) THEN Consumed(l) ELSE Retried(l)
  BY DEF checkpoint_event_consumer, OnlyLane
<1>1. /\ Types /\ lane[l].phase \in Working /\ lane[l].pending # << >>
      /\ Seq0(l) \in Nat /\ consumer \in ConsumerType /\ consumer.checkpoint \in Int
  BY <1>0, DeliveringFacts DEF Delivering
<1>2. consumer.revision = v => log[Seq0(l) + 1].ev \in accounted
  BY <1>0, LaneFacts DEF LaneEarned, Seq0
<1>3. /\ consumer' \in ConsumerType /\ consumer'.revision = consumer.revision
      /\ \/ consumer' = consumer
         \/ consumer.revision = v /\ Seq0(l) > consumer.checkpoint /\ consumer'.checkpoint = Seq0(l)
  <2>1. Seq0(l) \in Int
    BY <1>1
  <2> HIDE DEF v
  <2> QED BY <1>0, <1>1, <2>1, CheckpointedFacts
<1> HIDE DEF v
<1> QED BY <1>0, <1>1, <1>2, <1>3, SettleStep DEF RevisionMatches

LEMMA RecordFailureKept ==
    ASSUME IndInv, NEW l \in Lanes, record_event_consumer_failure(l)
    PROVE  Kept
<1> DEFINE v == lane[l].invocation_revision
           dead == lane[l].phase = "dead_letter"
<1>0. /\ lane[l].phase \in {"retry", "dead_letter"} /\ OnlyLane
      /\ consumer' = FailureRecorded(v, Seq0(l), dead)
      /\ lane' = IF FailureConsumes(v, Seq0(l), dead) THEN Consumed(l) ELSE Retried(l)
      /\ accounted' = IF FailureQuarantines(v, Seq0(l), dead)
                      THEN accounted \cup {log[Seq0(l) + 1].ev} ELSE accounted
  BY DEF record_event_consumer_failure, OnlyLane
<1>1. /\ Types /\ lane[l].phase \in Working /\ lane[l].pending # << >>
      /\ Seq0(l) \in Nat /\ consumer \in ConsumerType /\ consumer.checkpoint \in Int
  BY <1>0, DeliveringFacts DEF Delivering
<1>2. dead \in BOOLEAN
  OBVIOUS
<1> HIDE DEF v, dead
<1>3. /\ consumer' \in ConsumerType /\ consumer'.revision = consumer.revision
      /\ \/ ~FailureQuarantines(v, Seq0(l), dead) /\ consumer'.checkpoint = consumer.checkpoint
         \/ /\ FailureQuarantines(v, Seq0(l), dead)
            /\ Seq0(l) > consumer.checkpoint /\ consumer'.checkpoint = Seq0(l)
  BY <1>0, <1>1, <1>2, FailureFacts
<1>4. FailureConsumes(v, Seq0(l), dead) =>
        FailureQuarantines(v, Seq0(l), dead) \/ Seq0(l) <= consumer.checkpoint
  BY <1>1 DEF FailureConsumes, FailureQuarantines, BeyondCheckpoint
<1> QED BY <1>0, <1>1, <1>3, <1>4, SettleStep

LEMMA SettleFailsKept ==
    ASSUME IndInv, NEW l \in Lanes, settle_fails(l)
    PROVE  Kept
<1> DEFINE v == lane[l].invocation_revision
           dead == lane[l].phase = "dead_letter"
<1>0. lane[l].phase \in {"ack", "retry", "dead_letter"} /\ OnlyLane /\ lane' = Retried(l)
  BY DEF settle_fails, OnlyLane
<1>1. /\ Types /\ lane[l].phase \in Working /\ lane[l].pending # << >>
      /\ Seq0(l) \in Nat /\ consumer \in ConsumerType /\ consumer.checkpoint \in Int
  BY <1>0, DeliveringFacts DEF Delivering
<1>2. CASE consumer' = consumer /\ accounted' = accounted
  BY <1>0, <1>1, <1>2, SettleStep
<1>3. CASE lane[l].phase = "ack" /\ consumer' = Checkpointed(v, Seq0(l)) /\ accounted' = accounted
  <2>1. consumer.revision = v => log[Seq0(l) + 1].ev \in accounted
    BY <1>3, LaneFacts DEF LaneEarned, Seq0
  <2>2. Seq0(l) \in Int
    BY <1>1
  <2> HIDE DEF v
  <2>3. /\ consumer' \in ConsumerType /\ consumer'.revision = consumer.revision
        /\ \/ consumer' = consumer
           \/ consumer.revision = v /\ Seq0(l) > consumer.checkpoint /\ consumer'.checkpoint = Seq0(l)
    BY <1>1, <1>3, <2>2, CheckpointedFacts
  <2> QED BY <1>0, <1>1, <1>3, <2>1, <2>3, SettleStep
<1>4. CASE /\ consumer' = FailureRecorded(v, Seq0(l), dead)
           /\ accounted' = IF FailureQuarantines(v, Seq0(l), dead)
                           THEN accounted \cup {log[Seq0(l) + 1].ev} ELSE accounted
  <2>1. dead \in BOOLEAN
    OBVIOUS
  <2> HIDE DEF v, dead
  <2>2. /\ consumer' \in ConsumerType /\ consumer'.revision = consumer.revision
        /\ \/ ~FailureQuarantines(v, Seq0(l), dead) /\ consumer'.checkpoint = consumer.checkpoint
           \/ /\ FailureQuarantines(v, Seq0(l), dead)
              /\ Seq0(l) > consumer.checkpoint /\ consumer'.checkpoint = Seq0(l)
    BY <1>1, <1>4, <2>1, FailureFacts
  <2> QED BY <1>0, <1>1, <1>4, <2>2, SettleStep
<1> QED BY <1>2, <1>3, <1>4 DEF settle_fails

\* A lane that starts again carries nothing.
LEMMA RestartedRecord ==
    ASSUME NEW r \in LaneType,
           NEW q, q = [r EXCEPT !.phase = "read", !.pending = << >>, !.head = None,
                                !.from = None, !.revision = 0]
    PROVE  /\ q \in LaneType /\ q.phase = "read" /\ q.mapped = r.mapped
           /\ q.revision = 0 /\ q.invocation_revision = r.invocation_revision
<1>1. None \in Int /\ << >> \in Seq(Nat) /\ "read" \in Phases
  BY DEF None, Phases
<1> QED BY <1>1 DEF LaneType

LEMMA ReconcileFailsKept ==
    ASSUME IndInv, NEW l \in Lanes, reconcile_fails(l)
    PROVE  Kept
<1> DEFINE q == [lane[l] EXCEPT !.phase = "read", !.pending = << >>, !.head = None,
                                !.from = None, !.revision = 0]
<1>0. OnlyLane /\ consumer' = consumer /\ accounted' = accounted /\ Alive(l)
  BY DEF reconcile_fails, OnlyLane, Alive
<1>1. /\ q \in LaneType /\ q.phase = "read" /\ q.mapped = lane[l].mapped
      /\ q.revision = 0 /\ q.invocation_revision = lane[l].invocation_revision
  BY LaneFacts, RestartedRecord
<1>2. lane' = [lane EXCEPT ![l] = q]
  BY DEF reconcile_fails, Restarted
<1> HIDE DEF q
<1>3. LaneHolds(q) /\ LaneEarned(q) /\ LaneSettled(q)
  BY <1>1, LaneFacts, NoReplayInHand DEF Working, Delivering
<1> QED BY <1>0, <1>1, <1>2, <1>3, QuietRecord, QuietLaneStep

\* The replay in hand is done: the checkpoint moves to its head or stays, and the
\* lane goes on without a replay.
LEMMA HeadStep ==
    ASSUME IndInv, NEW l \in Lanes, lane[l].phase = "next", lane[l].pending = << >>, OnlyLane,
           consumer' \in {consumer, Checkpointed(lane[l].revision, lane[l].head)},
           accounted' = accounted, Goto(l, "done") \/ lane' = Restarted(l)
    PROVE  Kept
<1> DEFINE r == lane[l]
<1>0. /\ Types /\ r \in LaneType /\ LaneHolds(r) /\ LaneEarned(r) /\ (SkipInv => LaneSettled(r))
      /\ r.phase \in Working /\ Alive(l)
  BY LaneFacts DEF Working, Alive
<1>1. /\ consumer \in ConsumerType /\ consumer.checkpoint \in Int /\ r.head \in Int
      /\ consumer.revision \in Nat /\ r.revision \in Nat /\ r.invocation_revision \in Nat
      /\ Len(log) \in Nat /\ issued \in Nat /\ Len(log) - 1 <= issued /\ consumer.checkpoint <= issued
      /\ r.head < Len(log) /\ log' = log
  <2>1. consumer \in ConsumerType /\ Len(log) \in Nat /\ issued \in Nat
    BY <1>0 DEF Types
  <2>2. Len(log) - 1 <= issued /\ consumer.checkpoint <= issued /\ log' = log
    BY DEF IndInv, LogInv, OnlyLane
  <2> QED BY <1>0, <2>1, <2>2, ConsumerTypes, LaneTypes DEF LaneHolds
<1>2. /\ consumer' \in ConsumerType /\ consumer'.revision = consumer.revision
      /\ \/ consumer' = consumer
         \/ consumer.revision = r.revision /\ r.head > consumer.checkpoint /\ consumer'.checkpoint = r.head
  BY <1>1, CheckpointedFacts
<1>3. CheckpointEarned'
  <2> SUFFICES ASSUME NEW i \in 2..Len(log), log[i].match, InPlace(i), i - 1 = consumer'.checkpoint
               PROVE  log[i].ev \in accounted
    BY <1>1 DEF CheckpointEarned, InPlace
  <2>1. CASE consumer' = consumer
    BY <2>1 DEF IndInv, CheckpointEarned
  <2>2. CASE consumer.revision = r.revision /\ r.head > consumer.checkpoint /\ consumer'.checkpoint = r.head
    <3>1. r.head + 1 = i /\ r.head >= 0
      BY <1>1, <2>2
    <3> QED BY <1>0, <2>2, <3>1 DEF LaneEarned
  <2> QED BY <1>2, <2>1, <2>2
<1>4. ASSUME SkipInv PROVE Settled(consumer.checkpoint)'
  <2> SUFFICES ASSUME NEW i \in 1..Len(log), log[i].match, InPlace(i), i - 1 <= consumer'.checkpoint
               PROVE  log[i].ev \in accounted
    BY <1>1 DEF Settled, InPlace
  <2>1. CASE consumer' = consumer
    BY <1>4, <2>1 DEF SkipInv, Settled
  <2>2. CASE consumer'.checkpoint = r.head
    <3>1. Len(r.pending) = 0
      OBVIOUS
    <3> QED BY <1>0, <1>4, <2>2, <3>1 DEF LaneSettled
  <2> QED BY <1>2, <2>1, <2>2
<1> SUFFICES ASSUME NEW q \in LaneType, lane' = [lane EXCEPT ![l] = q],
                    q.phase \in {"done", "read"}, q.mapped = r.mapped,
                    q.revision \in {r.revision, 0}, q.invocation_revision = r.invocation_revision
             PROVE  Kept
  <2>1. CASE Goto(l, "done")
    <3> DEFINE x == [lane[l] EXCEPT !.phase = "done"]
    <3>1. "done" \in Phases
      BY DEF Phases
    <3>2. /\ x \in LaneType /\ x.phase = "done" /\ x.mapped = r.mapped
          /\ x.revision = r.revision /\ x.invocation_revision = r.invocation_revision
      BY <1>0, <3>1 DEF LaneType
    <3>3. lane' = [lane EXCEPT ![l] = x]
      BY <2>1 DEF Goto
    <3> HIDE DEF x
    <3> QED BY <3>2, <3>3
  <2>2. CASE lane' = Restarted(l)
    <3> DEFINE x == [lane[l] EXCEPT !.phase = "read", !.pending = << >>, !.head = None,
                                    !.from = None, !.revision = 0]
    <3>1. /\ x \in LaneType /\ x.phase = "read" /\ x.mapped = r.mapped
          /\ x.revision = 0 /\ x.invocation_revision = r.invocation_revision
      BY <1>0, RestartedRecord
    <3>2. lane' = [lane EXCEPT ![l] = x]
      BY <2>2 DEF Restarted
    <3> HIDE DEF x
    <3> QED BY <3>1, <3>2
  <2> QED BY <2>1, <2>2
<1>5. q.phase \notin Working /\ q.phase # "replay" /\ q.phase # "ack" /\ q.phase # "recv"
  BY DEF Working, Delivering
<1>6. LaneHolds(q)
  BY <1>5 DEF LaneHolds
<1>7. LaneEarned(q)'
  BY <1>0, <1>1, <1>2, <1>5 DEF LaneEarned
<1>8. LaneSettled(q)'
  BY <1>5 DEF LaneSettled
<1>9. consumer.checkpoint <= consumer'.checkpoint /\ consumer'.checkpoint <= issued
  BY <1>1, <1>2
<1> QED BY <1>0, <1>2, <1>3, <1>4, <1>6, <1>7, <1>8, <1>9, LaneStep

LEMMA CheckpointReplayHeadKept ==
    ASSUME IndInv, NEW l \in Lanes, checkpoint_replay_head(l) \/ checkpoint_replay_head_fails(l)
    PROVE  Kept
<1>1. CASE checkpoint_replay_head(l)
  BY <1>1, HeadStep DEF checkpoint_replay_head, OnlyLane, HeadRevision
<1>2. CASE checkpoint_replay_head_fails(l)
  BY <1>2, HeadStep DEF checkpoint_replay_head_fails, OnlyLane, HeadRevision
<1> QED BY <1>1, <1>2

-----------------------------------------------------------------------------
(* Steps of everybody else. *)

\* The lane keeps what it has in hand.
SameHand(r, q) ==
    /\ q.phase = r.phase /\ q.from = r.from /\ q.head = r.head /\ q.pending = r.pending
    /\ q.revision = r.revision /\ q.invocation_revision = r.invocation_revision
    /\ r.queue # << >> => q.queue # << >>

\* The lane is gone, or new with its first command.
Fresh(q) ==
    /\ q.phase = "gone" \/ (q.phase = "recv" /\ q.queue # << >>)
    /\ q.revision = 0 /\ q.invocation_revision = 0

\* A step that settles nothing and leaves every lane with what it has in hand, or
\* fresh.
LEMMA SystemStep ==
    ASSUME IndInv, Types', LogInv', LogGrowsAfresh,
           consumer'.checkpoint = consumer.checkpoint, consumer'.revision = consumer.revision,
           accounted' = accounted,
           \A m \in Lanes : LaneReachable(m)',
           \A m \in Lanes : SameHand(lane[m], lane'[m]) \/ Fresh(lane'[m])
    PROVE  Kept
<1>0. Types /\ consumer.checkpoint \in Int /\ consumer.revision \in Nat /\ LogGrows
      /\ consumer.checkpoint <= issued
  BY DEF IndInv, Types, ConsumerType, LogGrowsAfresh, LogInv
<1>1. CheckpointEarned'
  BY EarnedCheckpointFrame
<1>2. Monotone
  BY <1>0 DEF Monotone
<1>3. SkipInv => Settled(consumer.checkpoint)'
  <2> SUFFICES ASSUME NEW n \in Int, n = consumer.checkpoint, Settled(n) PROVE Settled(n)'
    BY <1>0 DEF SkipInv, Settled
  <2> QED BY <1>0, SettledUpToFrame
<1>4. ASSUME NEW m \in Lanes
      PROVE  /\ LaneHolds(lane[m])' /\ LaneEarned(lane[m])'
             /\ SkipInv => LaneSettled(lane[m])'
  <2> SUFFICES ASSUME NEW q, q = lane'[m]
               PROVE  LaneHolds(q)' /\ LaneEarned(q)' /\ (SkipInv => LaneSettled(q)')
    BY DEF LaneHolds, LaneEarned, LaneSettled, Settled, InPlace
  <2>1. CASE Fresh(q)
    <3>1. q.phase \notin Working /\ q.phase # "replay" /\ q.phase # "ack"
      BY <2>1 DEF Fresh, Working, Delivering
    <3> QED BY <1>0, <2>1, <3>1 DEF Fresh, LaneHolds, LaneEarned, LaneSettled
  <2>2. CASE SameHand(lane[m], q)
    <3> SUFFICES ASSUME NEW r \in LaneType, r = lane[m], SameHand(r, q)
                 PROVE  LaneHolds(q)' /\ LaneEarned(q)' /\ (SkipInv => LaneSettled(q)')
      BY <2>2, LaneFacts
    <3>1. LaneHolds(r) /\ LaneEarned(r) /\ (SkipInv => LaneSettled(r))
      BY LaneFacts
    <3>2. LaneHolds(r)'
      BY <1>0, <3>1, HoldsFrame
    <3>3. LaneEarned(r)'
      BY <1>0, <3>1, EarnedFrame
    <3>4. SkipInv => LaneSettled(r)'
      BY <1>0, <3>1, SettledFrame
    <3>5. LaneHolds(q)'
      BY <3>2 DEF LaneHolds, SameHand
    <3>6. LaneEarned(q)'
      BY <3>3 DEF LaneEarned, SameHand
    <3>7. LaneSettled(r)' => LaneSettled(q)'
      BY DEF LaneSettled, SameHand
    <3> QED BY <3>4, <3>5, <3>6, <3>7
  <2> QED BY <2>1, <2>2
<1> QED BY <1>1, <1>2, <1>3, <1>4 DEF Kept, IndInv, LaneInv, SkipInv

\* The same for a step that leaves the lanes alone.
LEMMA NoLaneStep ==
    ASSUME IndInv, Types', LogInv', LogGrowsAfresh,
           consumer'.checkpoint = consumer.checkpoint, consumer'.revision = consumer.revision,
           accounted' = accounted, lane' = lane, quiescing' = quiescing, taken' = taken
    PROVE  Kept
<1>1. \A m \in Lanes : LaneReachable(m)'
  BY DEF IndInv, LaneInv, LaneReachable, Alive
<1>2. \A m \in Lanes : SameHand(lane[m], lane'[m])
  BY DEF SameHand
<1> QED BY <1>1, <1>2, SystemStep

LEMMA AppendKept ==
    ASSUME IndInv, NEW match \in BOOLEAN, append(match)
    PROVE  Kept
<1> DEFINE e == [ev |-> issued + 1, match |-> match]
<1>1. issued \in Nat /\ log \in Seq(RecordType) /\ e \in RecordType
      /\ log' = Append(log, e) /\ issued' = issued + 1 /\ e.ev = issued + 1
  BY DEF IndInv, Types, RecordType, append
<1> HIDE DEF e
<1>2. /\ log' \in Seq(RecordType) /\ Len(log) \in Nat /\ Len(log') = Len(log) + 1
      /\ \A i \in 1..Len(log) : log'[i] = log[i]
      /\ log'[Len(log) + 1] = e
  BY <1>1, AppendProperties, LenProperties
<1>3. LogGrowsAfresh
  BY <1>1, <1>2 DEF LogGrowsAfresh, LogGrows
<1>4. unobserved' \in SUBSET Nat
  BY <1>2 DEF IndInv, Types, append
<1>5. Types'
  BY <1>1, <1>2, <1>4 DEF IndInv, Types, append
<1>6. LogInv'
  BY <1>1, <1>2 DEF IndInv, Types, ConsumerType, LogInv, append
<1> QED BY <1>3, <1>5, <1>6, NoLaneStep DEF append

LEMMA SyncKept ==
    ASSUME IndInv, sync
    PROVE  Kept
<1>1. Types' /\ LogInv' /\ LogGrowsAfresh
  BY DEF IndInv, Types, LogInv, LogGrowsAfresh, LogGrows, sync
<1> QED BY <1>1, NoLaneStep DEF sync

LEMMA ReloadKept ==
    ASSUME IndInv, reload_extensions
    PROVE  Kept
<1>1. Types' /\ LogInv' /\ LogGrowsAfresh
  BY DEF IndInv, Types, LogInv, LogGrowsAfresh, LogGrows, reload_extensions
<1> QED BY <1>1, NoLaneStep DEF reload_extensions

LEMMA StutterKept ==
    ASSUME IndInv, UNCHANGED vars
    PROVE  Kept
<1>1. Types' /\ LogInv' /\ LogGrowsAfresh
  BY DEF IndInv, Types, LogInv, LogGrowsAfresh, LogGrows, vars
<1> QED BY <1>1, NoLaneStep DEF vars

\* Requests that change paused at most.
LEMMA AdminStep ==
    ASSUME IndInv, OnlyAdmin, lane' = lane, accounted' = accounted, admin' \in [Admins -> RequestType],
           \/ consumer' = consumer
           \/ \E b \in BOOLEAN : consumer' = [consumer EXCEPT !.paused = b]
    PROVE  Kept
<1>1. /\ consumer' \in ConsumerType
      /\ consumer'.checkpoint = consumer.checkpoint /\ consumer'.revision = consumer.revision
  <2>1. consumer \in ConsumerType
    BY DEF IndInv, Types
  <2> QED BY <2>1 DEF ConsumerType
<1>2. Types' /\ LogInv' /\ LogGrowsAfresh
  BY <1>1 DEF IndInv, Types, LogInv, LogGrowsAfresh, LogGrows, OnlyAdmin
<1> QED BY <1>1, <1>2, NoLaneStep DEF OnlyAdmin

LEMMA AdminTypes ==
    ASSUME Types, NEW a \in Admins
    PROVE  /\ admin[a] \in RequestType /\ NoRequest \in RequestType
           /\ admin[a].previous \in BOOLEAN
           /\ \A p : p \in {"waiting", "resetting", "restoring", "wake"} /\ AdminGoto(a, p)
                       => admin' \in [Admins -> RequestType]
<1>1. admin[a] \in RequestType /\ NoRequest \in RequestType
  BY DEF Types, RequestType, NoRequest
<1>2. admin[a].previous \in BOOLEAN
  BY <1>1 DEF RequestType
<1>3. ASSUME NEW p \in {"waiting", "resetting", "restoring", "wake"}, AdminGoto(a, p)
      PROVE  admin' \in [Admins -> RequestType]
  <2>1. [admin[a] EXCEPT !.phase = p] \in RequestType
    BY <1>1 DEF RequestType
  <2>2. admin' = [admin EXCEPT ![a] = [admin[a] EXCEPT !.phase = p]]
    BY <1>3 DEF AdminGoto
  <2> QED BY <2>1, <2>2 DEF Types
<1> QED BY <1>1, <1>2, <1>3

LEMMA AdminRequestKept ==
    ASSUME IndInv, NEW a \in Admins, AdminRequest(a)
    PROVE  Kept
<1>0. Types
  BY DEF IndInv
<1>1. CASE pause(a)
  BY <1>0, <1>1, AdminStep DEF pause, Types
<1>2. CASE resume(a)
  BY <1>0, <1>2, AdminStep, AdminTypes DEF resume
<1>3. ASSUME NEW reset \in Resets, reset_begin(a, reset) PROVE Kept
  <2>1. [phase |-> "pausing", previous |-> consumer.paused, reset |-> reset] \in RequestType
    BY <1>0 DEF Types, ConsumerType, RequestType
  <2>2. admin' \in [Admins -> RequestType]
    BY <1>0, <1>3, <2>1 DEF reset_begin, Types
  <2> QED BY <1>3, <2>2, AdminStep DEF reset_begin
<1> QED BY <1>1, <1>2, <1>3 DEF AdminRequest

\* A non-empty set of naturals has a least member.
LEMMA LeastMember ==
    ASSUME NEW T, T \subseteq Nat, T # {}
    PROVE  \E n \in T : \A m \in T : n <= m
<1> DEFINE R == {p \in Nat \X Nat : p[1] < p[2]}
<1>1. IsWellFoundedOn(R, Nat)
  BY NatLessThanWellFounded DEF OpToRel
<1>2. \A x, y \in Nat : y < x => <<y, x>> \in R
  OBVIOUS
<1> HIDE DEF R
<1>3. \E x \in T : \A y \in T : <<y, x>> \notin R
  BY <1>1, WFMin
<1>4. \E x \in T : \A y \in T : ~(y < x)
  BY <1>2, <1>3, Zenon
<1> QED BY <1>4

\* What the step puts in the place of a lane that is gone.
LEMMA StartedFacts ==
    ASSUME Types, NEW t \in Int, NEW q,
           q = [NoLane EXCEPT !.phase = "recv", !.generation = generation, !.mapped = TRUE,
                              !.queue = <<t>>, !.full_queued = (t = Full)]
    PROVE  q \in LaneType /\ q.mapped = TRUE /\ Fresh(q)
<1> DEFINE b == (t = Full)
           s == <<t>>
<1>1. /\ NoLane \in LaneType /\ NoLane.revision = 0 /\ NoLane.invocation_revision = 0
  BY BoundAssumption DEF NoLane, LaneType, Phases, Full, None
<1>2. generation \in Nat /\ "recv" \in Phases
  BY DEF Types, Phases
<1>3. b \in BOOLEAN /\ s \in Seq(Int) /\ s # << >>
  OBVIOUS
<1> SUFFICES ASSUME NEW r \in LaneType, r.revision = 0, r.invocation_revision = 0,
                    q = [r EXCEPT !.phase = "recv", !.generation = generation, !.mapped = TRUE,
                                  !.queue = s, !.full_queued = b]
             PROVE  q \in LaneType /\ q.mapped = TRUE /\ Fresh(q)
  BY <1>1
<1> HIDE DEF b, s
<1> QED BY <1>2, <1>3 DEF LaneType, Fresh

LEMMA StartLaneFacts ==
    ASSUME Types, NEW t \in Int, StartLane(t)
    PROVE  /\ lane' \in [Lanes -> LaneType]
           /\ \A m \in Lanes : SameHand(lane[m], lane'[m]) \/ Fresh(lane'[m])
           /\ \A m \in Lanes : lane'[m] = lane[m] \/ lane'[m].mapped
<1>1. PICK l \in Lanes :
        lane' = [lane EXCEPT ![l] =
                   [NoLane EXCEPT !.phase = "recv", !.generation = generation, !.mapped = TRUE,
                                  !.queue = <<t>>, !.full_queued = (t = Full)]]
  BY DEF StartLane
<1> DEFINE q == [NoLane EXCEPT !.phase = "recv", !.generation = generation, !.mapped = TRUE,
                               !.queue = <<t>>, !.full_queued = (t = Full)]
<1>2. q \in LaneType /\ q.mapped = TRUE /\ Fresh(q)
  BY StartedFacts
<1>3. lane' = [lane EXCEPT ![l] = q]
  BY <1>1
<1> HIDE DEF q
<1>4. lane \in [Lanes -> LaneType]
  BY DEF Types
<1> QED BY <1>2, <1>3, <1>4 DEF SameHand

LEMMA SignalFacts ==
    ASSUME Types, NEW t \in Int, Signal(t)
    PROVE  /\ lane' \in [Lanes -> LaneType]
           /\ \A m \in Lanes : SameHand(lane[m], lane'[m]) \/ Fresh(lane'[m])
           /\ \A m \in Lanes : \/ lane'[m].phase = lane[m].phase /\ lane'[m].mapped = lane[m].mapped
                               \/ ~quiescing /\ lane'[m].mapped
<1>0. lane \in [Lanes -> LaneType]
  BY DEF Types
<1>1. CASE lane' = lane
  BY <1>0, <1>1 DEF SameHand
<1>2. CASE \E l \in Lanes : lane' = [lane EXCEPT ![l].queue = Append(@, t),
                                                ![l].full_queued = @ \/ t = Full]
  <2>1. PICK l \in Lanes : lane' = [lane EXCEPT ![l].queue = Append(@, t),
                                                ![l].full_queued = @ \/ t = Full]
    BY <1>2
  <2> SUFFICES ASSUME NEW r \in LaneType, r = lane[l]
               PROVE  /\ lane' \in [Lanes -> LaneType]
                      /\ \A m \in Lanes : SameHand(lane[m], lane'[m])
                      /\ \A m \in Lanes : lane'[m].phase = lane[m].phase
                                          /\ lane'[m].mapped = lane[m].mapped
    BY <1>0, <2>1
  <2> DEFINE q == [r EXCEPT !.queue = Append(r.queue, t), !.full_queued = r.full_queued \/ t = Full]
  <2>2. Append(r.queue, t) \in Seq(Int) /\ Append(r.queue, t) # << >>
    <3>1. r.queue \in Seq(Int) /\ Len(r.queue) \in Nat
      BY LaneTypes, LenProperties
    <3>2. Append(r.queue, t) \in Seq(Int) /\ Len(Append(r.queue, t)) = Len(r.queue) + 1
      BY <3>1, AppendProperties
    <3> QED BY <3>1, <3>2
  <2>3. (r.full_queued \/ t = Full) \in BOOLEAN
    OBVIOUS
  <2>4. q \in LaneType /\ SameHand(r, q) /\ q.phase = r.phase /\ q.mapped = r.mapped
    BY <2>2, <2>3 DEF LaneType, SameHand
  <2>5. lane' = [lane EXCEPT ![l] = q]
    BY <1>0, <2>1 DEF LaneType
  <2> HIDE DEF q
  <2> QED BY <1>0, <2>4, <2>5 DEF SameHand
<1>3. CASE ~quiescing /\ StartLane(t)
  BY <1>3, StartLaneFacts
<1> QED BY <1>1, <1>2, <1>3 DEF Signal

\* A step that wakes a lane.
LEMMA SignalKept ==
    ASSUME IndInv, NEW t \in Int, Signal(t),
           log' = log, issued' = issued, stable' = stable, consumer' = consumer,
           generation' = generation, quiescing' = quiescing, taken' = taken,
           unobserved' \in SUBSET Nat, admin' \in [Admins -> RequestType], accounted' = accounted
    PROVE  Kept
<1>0. Types
  BY DEF IndInv
<1>1. Types' /\ LogInv' /\ LogGrowsAfresh
  BY <1>0, SignalFacts DEF IndInv, Types, LogInv, LogGrowsAfresh, LogGrows
<1>2. \A m \in Lanes : LaneReachable(m)'
  BY <1>0, SignalFacts DEF IndInv, LaneInv, LaneReachable, Alive
<1>3. \A m \in Lanes : SameHand(lane[m], lane'[m]) \/ Fresh(lane'[m])
  BY <1>0, SignalFacts
<1> QED BY <1>1, <1>2, <1>3, SystemStep

LEMMA ObserveKept ==
    ASSUME IndInv, observe_custom_event
    PROVE  Kept
<1> DEFINE seq == CHOOSE s \in unobserved : \A r \in unobserved : s <= r
<1>1. unobserved \in SUBSET Nat /\ unobserved # {} /\ admin \in [Admins -> RequestType]
  BY DEF IndInv, Types, observe_custom_event
<1>2. seq \in unobserved
  BY <1>1, LeastMember
<1>3. Signal(seq) /\ unobserved' = unobserved \ {seq}
  BY DEF observe_custom_event
<1> HIDE DEF seq
<1>4. seq \in Int /\ unobserved' \in SUBSET Nat
  BY <1>1, <1>2, <1>3
<1> QED BY <1>1, <1>3, <1>4, SignalKept DEF observe_custom_event

LEMMA ReconcileKept ==
    ASSUME IndInv, reconcile_custom_events
    PROVE  Kept
<1>1. Full \in Int /\ unobserved' \in SUBSET Nat /\ admin' \in [Admins -> RequestType]
  BY BoundAssumption DEF Full, IndInv, Types, reconcile_custom_events
<1> QED BY <1>1, SignalKept DEF reconcile_custom_events

LEMMA WakeKept ==
    ASSUME IndInv, NEW a \in Admins, wake_custom_event_consumer(a)
    PROVE  Kept
<1>1. Full \in Int /\ unobserved' \in SUBSET Nat
  BY BoundAssumption DEF Full, IndInv, Types, wake_custom_event_consumer, OnlyAdmin
<1>2. admin' \in [Admins -> RequestType]
  BY AdminTypes DEF IndInv, Types, wake_custom_event_consumer
<1> QED BY <1>1, <1>2, SignalKept DEF wake_custom_event_consumer, OnlyAdmin

LEMMA ResetFacts ==
    ASSUME IndInv, NEW reset
    PROVE  /\ ResetTo(reset) \in ConsumerType
           /\ ResetTo(reset).revision = consumer.revision + 1
           /\ ResetTo(reset).checkpoint = IF reset = "Beginning" THEN -1 ELSE Len(log) - 1
<1>1. consumer \in ConsumerType /\ Len(log) - 1 \in Int
  BY LenProperties DEF IndInv, Types
<1> SUFFICES ASSUME NEW to \in Int, to = IF reset = "Beginning" THEN -1 ELSE Len(log) - 1
             PROVE  /\ ResetTo(reset) \in ConsumerType
                    /\ ResetTo(reset).revision = consumer.revision + 1
                    /\ ResetTo(reset).checkpoint = to
  BY <1>1
<1> DEFINE k == IF reset = "StreamHead" /\ to # consumer.checkpoint
                THEN consumer.skipped_count + 1 ELSE consumer.skipped_count
<1>2. k \in Nat /\ consumer.revision + 1 \in Nat
  BY <1>1 DEF ConsumerType
<1>3. ResetTo(reset) = [consumer EXCEPT !.checkpoint = to, !.revision = consumer.revision + 1,
                                        !.failures = 0, !.skipped_count = k]
  BY DEF ResetTo, RevisionAfterReset, HeadSeq, None
<1> DEFINE v == consumer.revision + 1
           d == ResetTo(reset)
<1>4. v \in Nat /\ d = [consumer EXCEPT !.checkpoint = to, !.revision = v, !.failures = 0,
                                        !.skipped_count = k]
  BY <1>2, <1>3
<1> HIDE DEF k, v, d
<1>5. d \in ConsumerType /\ d.revision = v /\ d.checkpoint = to
  BY <1>1, <1>2, <1>4 DEF ConsumerType
<1> QED BY <1>5 DEF v, d

LEMMA ResetKept ==
    ASSUME IndInv, NEW a \in Admins, reset_event_consumer_checkpoint(a)
    PROVE  Kept
<1> DEFINE reset == admin[a].reset
<1>0. /\ Types /\ consumer.revision \in Nat /\ consumer.checkpoint \in Int
      /\ Len(log) \in Nat /\ issued \in Nat /\ Len(log) - 1 <= issued
      /\ reset \in Resets \cup {"none"}
  BY LenProperties, AdminTypes DEF IndInv, Types, ConsumerType, LogInv, RequestType
<1>1. /\ consumer' \in ConsumerType /\ consumer'.revision = consumer.revision + 1
      /\ consumer'.checkpoint = IF reset = "Beginning" THEN -1 ELSE Len(log) - 1
  BY ResetFacts DEF reset_event_consumer_checkpoint
<1>2. admin' \in [Admins -> RequestType]
  BY <1>0, AdminTypes DEF reset_event_consumer_checkpoint
<1>3. SameLog /\ lane' = lane
  BY DEF reset_event_consumer_checkpoint, OnlyAdmin, SameLog
<1>4. accounted' = IF reset = "Beginning" THEN {} ELSE accounted \cup {log[i].ev : i \in 1..Len(log)}
  BY DEF reset_event_consumer_checkpoint
<1> HIDE DEF reset
<1>5. Types'
  BY <1>1, <1>2 DEF IndInv, Types, reset_event_consumer_checkpoint, OnlyAdmin
<1>6. LogInv'
  BY <1>0, <1>1, <1>3 DEF LogInv, SameLog
<1>7. consumer.revision < consumer'.revision
  BY <1>0, <1>1
<1>8. ASSUME NEW m \in Lanes PROVE LaneInv(m)'
  BY <1>3, <1>5, <1>7, OtherLane
<1>9. CheckpointEarned'
  <2>1. CASE reset = "Beginning"
    <3>1. consumer'.checkpoint = -1
      BY <1>1, <2>1
    <3>2. ASSUME NEW i \in 2..Len(log'), i - 1 = -1 PROVE FALSE
      BY <3>2
    <3> QED BY <3>1, <3>2 DEF CheckpointEarned
  <2>2. CASE reset # "Beginning"
    <3>1. \A i \in 2..Len(log) : log[i].ev \in accounted'
      BY <1>0, <1>4, <2>2
    <3> QED BY <1>3, <3>1 DEF CheckpointEarned, SameLog
  <2> QED BY <2>1, <2>2
<1>10. Monotone
  BY <1>0, <1>7 DEF Monotone
<1>11. ASSUME NoReplay, SkipInv PROVE SkipInv'
  <2>1. reset # "Beginning"
    BY <1>0, <1>11, "Beginning" # "none" DEF NoReplay
  <2>2. accounted \subseteq accounted' /\ \A i \in 1..Len(log) : log[i].ev \in accounted'
    BY <1>4, <2>1
  <2>3. Settled(consumer.checkpoint)'
    BY <1>3, <2>2 DEF Settled, SameLog
  <2>4. \A m \in Lanes : LaneSettled(lane[m])'
    BY <1>3, <1>5, <1>11, <2>2, OtherLaneSettled DEF SkipInv
  <2> QED BY <2>3, <2>4 DEF SkipInv
<1> QED BY <1>5, <1>6, <1>8, <1>9, <1>10, <1>11 DEF Kept, IndInv

LEMMA AdminProgressKept ==
    ASSUME IndInv, NEW a \in Admins, AdminProgress(a)
    PROVE  Kept
<1>0. Types
  BY DEF IndInv
<1>1. CASE reset_pause(a)
  BY <1>0, <1>1, AdminStep, AdminTypes DEF reset_pause
<1>2. CASE wait_until_idle(a)
  BY <1>0, <1>2, AdminStep, AdminTypes DEF wait_until_idle
<1>3. CASE reset_gives_up(a)
  BY <1>0, <1>3, AdminStep, AdminTypes DEF reset_gives_up
<1>4. CASE restore_paused(a)
  <2>1. [NoRequest EXCEPT !.phase = "wake"] \in RequestType
    BY DEF NoRequest, RequestType
  <2>2. admin' \in [Admins -> RequestType]
    BY <1>0, <1>4, <2>1, AdminTypes DEF restore_paused, Types
  <2>3. admin[a].previous \in BOOLEAN /\ consumer' = [consumer EXCEPT !.paused = admin[a].previous]
    BY <1>0, <1>4, AdminTypes DEF restore_paused
  <2> QED BY <1>4, <2>2, <2>3, AdminStep DEF restore_paused
<1>5. CASE control_fails(a)
  <2>1. admin' \in [Admins -> RequestType]
    BY <1>0, <1>5, AdminTypes DEF control_fails, Types
  <2> QED BY <1>5, <2>1, AdminStep DEF control_fails
<1> QED BY <1>1, <1>2, <1>3, <1>4, <1>5, ResetKept, WakeKept DEF AdminProgress

LEMMA QuiesceKept ==
    ASSUME IndInv, quiesce_custom_event_session
    PROVE  Kept
<1> DEFINE f(r) == [r EXCEPT !.cancelled = TRUE, !.mapped = FALSE]
<1>0. Types /\ lane \in [Lanes -> LaneType]
  BY DEF IndInv, Types
<1>1. ASSUME NEW r \in LaneType PROVE f(r) \in LaneType /\ SameHand(r, f(r)) /\ f(r).phase = r.phase
  BY DEF LaneType, SameHand
<1>2. /\ lane' = [m \in Lanes |-> IF m \in TakenLanes THEN f(lane[m]) ELSE lane[m]]
      /\ quiescing' = TRUE /\ taken' = TakenLanes /\ ~quiescing
  BY DEF quiesce_custom_event_session
<1> HIDE DEF f
<1>3. ASSUME NEW m \in Lanes
      PROVE  lane'[m] \in LaneType /\ SameHand(lane[m], lane'[m]) /\ lane'[m].phase = lane[m].phase
  <2>1. lane'[m] = f(lane[m]) \/ lane'[m] = lane[m]
    BY <1>2
  <2> QED BY <1>0, <1>1, <2>1 DEF SameHand
<1>4. lane' \in [Lanes -> LaneType]
  BY <1>2, <1>3
<1>5. Types' /\ LogInv' /\ LogGrowsAfresh
  <2>1. quiescing' \in BOOLEAN
    BY <1>2
  <2>2. /\ log' = log /\ stable' = stable /\ consumer' = consumer /\ generation' = generation
        /\ unobserved' = unobserved /\ admin' = admin /\ issued' = issued
    BY DEF quiesce_custom_event_session
  <2> QED BY <1>0, <1>4, <2>1, <2>2 DEF IndInv, Types, LogInv, LogGrowsAfresh, LogGrows
<1>6. \A m \in Lanes : LaneReachable(m)'
  BY <1>2, <1>3 DEF IndInv, LaneInv, LaneReachable, Alive, TakenLanes
<1> QED BY <1>3, <1>5, <1>6, SystemStep DEF quiesce_custom_event_session

LEMMA QuiescedStopped ==
    ASSUME IndInv
    PROVE  QuiescedMeansStopped
BY DEF IndInv, LaneInv, LaneReachable, QuiescedMeansStopped, Quiesced

LEMMA ResumeSessionKept ==
    ASSUME IndInv, resume_custom_event_session
    PROVE  Kept
<1>0. Types /\ Full \in Int
  BY BoundAssumption DEF IndInv, Full
<1>1. StartLane(Full) /\ quiescing' = FALSE
  BY DEF resume_custom_event_session
<1>2. Types' /\ LogInv' /\ LogGrowsAfresh
  <2>1. quiescing' \in BOOLEAN
    BY <1>1
  <2> QED BY <1>0, <1>1, <2>1, StartLaneFacts
          DEF IndInv, Types, LogInv, LogGrowsAfresh, LogGrows, resume_custom_event_session
<1>3. \A m \in Lanes : ~Alive(m)
  BY QuiescedStopped DEF QuiescedMeansStopped, resume_custom_event_session
<1>4. \A m \in Lanes : LaneReachable(m)'
  BY <1>0, <1>1, <1>3, StartLaneFacts DEF LaneReachable, Alive
<1>5. \A m \in Lanes : SameHand(lane[m], lane'[m]) \/ Fresh(lane'[m])
  BY <1>0, <1>1, StartLaneFacts
<1> QED BY <1>2, <1>4, <1>5, SystemStep DEF resume_custom_event_session

LEMMA MemoryLost ==
    ASSUME IndInv, LoseMemory
    PROVE  /\ lane' \in [Lanes -> LaneType] /\ admin' \in [Admins -> RequestType]
           /\ \A m \in Lanes : Fresh(lane'[m]) /\ ~Alive(m)'
<1>1. NoLane \in LaneType /\ Fresh(NoLane) /\ NoLane.phase = "gone"
  BY BoundAssumption DEF NoLane, LaneType, Phases, Full, None, Fresh
<1>2. NoRequest \in RequestType
  BY DEF NoRequest, RequestType
<1> QED BY <1>1, <1>2 DEF LoseMemory, Alive

LEMMA CrashKept ==
    ASSUME IndInv, process_crash
    PROVE  Kept
<1>0. LoseMemory /\ Types
  BY DEF process_crash, IndInv
<1>1. Types' /\ LogInv' /\ LogGrowsAfresh
  <2>1. quiescing' \in BOOLEAN
    BY <1>0 DEF LoseMemory
  <2>2. /\ log' = log /\ stable' = stable /\ consumer' = consumer /\ generation' \in Nat
        /\ unobserved' \in SUBSET Nat /\ issued' = issued
    BY <1>0 DEF process_crash, LoseMemory
  <2> QED BY <1>0, <2>1, <2>2, MemoryLost DEF IndInv, Types, LogInv, LogGrowsAfresh, LogGrows
<1>2. \A m \in Lanes : LaneReachable(m)'
  BY <1>0, MemoryLost DEF LaneReachable
<1> QED BY <1>0, <1>1, <1>2, MemoryLost, SystemStep DEF process_crash, LoseMemory

\* A power loss takes records from the end; what is left keeps its place.
LEMMA PowerLossKept ==
    ASSUME IndInv, power_loss
    PROVE  Kept
<1>0. LoseMemory /\ Types /\ accounted' = accounted /\ consumer' = consumer /\ issued' = issued
      /\ consumer.checkpoint \in Int
  BY DEF power_loss, IndInv, LoseMemory, Types, ConsumerType
<1>1. PICK n \in stable..Len(log) : log' = SubSeq(log, 1, n) /\ stable' = n
  BY DEF power_loss
<1>2. n \in 0..Len(log) /\ log \in Seq(RecordType) /\ Len(log) \in Nat
  BY <1>0, <1>1, LenProperties DEF Types
<1>3. /\ log' \in Seq(RecordType) /\ Len(log') = n
      /\ \A i \in 1..n : log'[i] = log[i] /\ i \in 1..Len(log)
  BY <1>1, <1>2, SubSeqProperties
<1>4. Types'
  <2>1. quiescing' \in BOOLEAN
    BY <1>0 DEF LoseMemory
  <2>2. generation' \in Nat /\ unobserved' \in SUBSET Nat
    BY <1>0 DEF LoseMemory
  <2> QED BY <1>0, <1>1, <1>2, <1>3, <2>1, <2>2, MemoryLost DEF Types
<1>5. LogInv'
  BY <1>0, <1>2, <1>3 DEF IndInv, LogInv, Types
<1>6. CheckpointEarned'
  <2> SUFFICES ASSUME NEW i \in 2..Len(log'), log'[i].match, log'[i].ev = i - 1,
                      i - 1 = consumer.checkpoint
               PROVE  log'[i].ev \in accounted
    BY <1>0 DEF CheckpointEarned, InPlace
  <2>1. log'[i] = log[i] /\ i \in 2..Len(log)
    BY <1>2, <1>3
  <2> QED BY <2>1 DEF IndInv, CheckpointEarned, InPlace
<1>7. ASSUME NEW m \in Lanes PROVE LaneInv(m)' /\ LaneSettled(lane[m])'
  <2>1. Fresh(lane'[m]) /\ ~Alive(m)'
    BY <1>0, MemoryLost
  <2>2. lane'[m].phase \notin Working /\ lane'[m].phase # "replay" /\ lane'[m].phase # "ack"
    BY <2>1 DEF Fresh, Working, Delivering
  <2>3. LaneHolds(lane[m])' /\ LaneSettled(lane[m])' /\ LaneReachable(m)'
    BY <2>1, <2>2 DEF LaneHolds, LaneSettled, LaneReachable, Fresh
  <2>4. LaneEarned(lane[m])'
    BY <1>0, <2>1, <2>2 DEF LaneEarned, Fresh, Types, ConsumerType
  <2> QED BY <2>3, <2>4 DEF LaneInv
<1>8. SkipInv => Settled(consumer.checkpoint)'
  <2> SUFFICES ASSUME SkipInv, NEW i \in 1..Len(log'), log'[i].match, log'[i].ev = i - 1,
                      i - 1 <= consumer.checkpoint
               PROVE  log'[i].ev \in accounted
    BY <1>0 DEF Settled, InPlace
  <2>1. log'[i] = log[i] /\ i \in 1..Len(log)
    BY <1>2, <1>3
  <2> QED BY <2>1 DEF SkipInv, Settled, InPlace
<1> QED BY <1>0, <1>4, <1>5, <1>6, <1>7, <1>8 DEF Kept, IndInv, SkipInv, Monotone

-----------------------------------------------------------------------------
(* The invariant. *)

LEMMA InitInv ==
    ASSUME Init PROVE IndInv /\ SkipInv
<1>1. Types
  <2>1. [ev |-> 0, match |-> FALSE] \in RecordType
    BY DEF RecordType
  <2>2. log \in Seq(RecordType) /\ Len(log) = 1
    BY <2>1 DEF Init
  <2>3. consumer \in ConsumerType
    BY DEF Init, ConsumerType, None
  <2>4. NoLane \in LaneType
    BY BoundAssumption DEF NoLane, LaneType, Phases, Full, None
  <2>5. NoRequest \in RequestType
    BY DEF NoRequest, RequestType
  <2>6. quiescing \in BOOLEAN
    BY DEF Init
  <2>7. stable = 1 /\ generation = 1 /\ lane = [l \in Lanes |-> NoLane] /\ unobserved = {}
        /\ admin = [a \in Admins |-> NoRequest] /\ issued = 0
    BY DEF Init
  <2> QED BY <2>2, <2>3, <2>4, <2>5, <2>6, <2>7 DEF Types
<1>2. Len(log) = 1 /\ issued = 0 /\ consumer.checkpoint = -1 /\ consumer.revision = 0
  BY DEF Init, None
<1>3. LogInv
  BY <1>2 DEF LogInv
<1>4. ASSUME NEW l \in Lanes PROVE LaneInv(l) /\ LaneSettled(lane[l])
  <2>1. lane[l].phase = "gone" /\ lane[l].revision = 0 /\ lane[l].invocation_revision = 0
    BY DEF Init, NoLane
  <2>2. lane[l].phase \notin Working
    BY <2>1 DEF Working, Delivering
  <2> QED BY <1>2, <2>1, <2>2
          DEF LaneInv, LaneReachable, Alive, LaneHolds, LaneEarned, LaneSettled
<1>5. CheckpointEarned
  BY <1>2 DEF CheckpointEarned
<1>6. Settled(consumer.checkpoint)
  BY <1>2 DEF Settled
<1> QED BY <1>1, <1>3, <1>4, <1>5, <1>6 DEF IndInv, SkipInv

LEMMA LaneNextKept ==
    ASSUME IndInv, NEW l \in Lanes, retire(l) \/ LaneProgress(l) \/ StoreSucceeds(l) \/ StoreFails(l)
    PROVE  Kept
<1>1. CASE LaneProgress(l)
  BY <1>1, RecvKept, FinishKept, StopKept, BeginInvocationKept, HandleKept DEF LaneProgress
<1>2. CASE StoreSucceeds(l)
  BY <1>2, ReadStateKept, ReplayKept, CheckStateKept, CheckpointEventConsumerKept, RecordFailureKept,
     CheckpointReplayHeadKept DEF StoreSucceeds
<1>3. CASE StoreFails(l)
  BY <1>3, ReconcileFailsKept, CheckStateFailsKept, SettleFailsKept, CheckpointReplayHeadKept
     DEF StoreFails
<1> QED BY <1>1, <1>2, <1>3, RetireKept

LEMMA NextKept ==
    ASSUME IndInv, [Next]_vars PROVE Kept
<1>1. CASE \E match \in BOOLEAN : append(match)
  BY <1>1, AppendKept
<1>2. CASE \E l \in Lanes : retire(l) \/ LaneProgress(l) \/ StoreSucceeds(l) \/ StoreFails(l)
  BY <1>2, LaneNextKept
<1>3. CASE \E a \in Admins : AdminRequest(a) \/ AdminProgress(a)
  BY <1>3, AdminRequestKept, AdminProgressKept
<1> QED BY <1>1, <1>2, <1>3, SyncKept, ObserveKept, ReconcileKept, ReloadKept, QuiesceKept,
           ResumeSessionKept, CrashKept, PowerLossKept, StutterKept DEF Next

\* The inductive invariant: lanes can be reached or are waited for, a replay in
\* hand is ascending and ends at its head, and what a lane has settled under the
\* current revision is accounted for (custom_event_delivery.rs, store.rs).
THEOREM DeliveryInvariant == Spec => []IndInv
<1>1. Init => IndInv
  BY InitInv
<1>2. IndInv /\ [Next]_vars => IndInv'
  BY NextKept DEF Kept
<1> QED BY <1>1, <1>2, PTL DEF Spec

\* The event at the checkpoint was settled since the last reset, whatever lanes of
\* older generations and of older revisions still do, across crashes and power
\* losses, with any number of concurrent control requests
\* (checkpoint_event_consumer's compare-and-swap on the revision).
THEOREM CheckpointEarnedAlways == Spec => []CheckpointEarned
<1>1. IndInv => CheckpointEarned
  BY DEF IndInv
<1> QED BY <1>1, DeliveryInvariant, PTL

\* Once quiesce_custom_event_session has returned, no lane of any generation is
\* left and none starts.
THEOREM QuiescedMeansStoppedAlways == Spec => []QuiescedMeansStopped
<1>1. IndInv => QuiescedMeansStopped
  BY QuiescedStopped
<1> QED BY <1>1, DeliveryInvariant, PTL

\* Only a reset, which changes the revision, moves the checkpoint backwards.
THEOREM CheckpointMonotoneAlways == Spec => CheckpointMonotone
<1>1. IndInv /\ [Next]_vars =>
        [consumer'.revision = consumer.revision => consumer'.checkpoint >= consumer.checkpoint]_vars
  <2> SUFFICES ASSUME IndInv, [Next]_vars, consumer'.revision = consumer.revision
               PROVE  consumer'.checkpoint >= consumer.checkpoint
    OBVIOUS
  <2>1. consumer.checkpoint <= consumer'.checkpoint /\ IndInv'
    BY NextKept DEF Kept, Monotone
  <2>2. consumer.checkpoint \in Int /\ consumer'.checkpoint \in Int
    BY <2>1 DEF IndInv, Types, ConsumerType
  <2> QED BY <2>1, <2>2
<1> QED BY <1>1, DeliveryInvariant, PTL DEF Spec, CheckpointMonotone

\* At-least-once delivery: while no operator asks for a replay from the beginning,
\* every matching event at or before the checkpoint was acked, quarantined or
\* skipped by an operator, across reloads, crashes, power losses, quiescence,
\* store errors and concurrent lanes.
THEOREM NothingSkippedAlways ==
    ASSUME "Beginning" \notin Resets
    PROVE  Spec => []NothingSkipped
<1>0. NoReplay
  BY DEF NoReplay
<1>1. Init => IndInv /\ SkipInv
  BY InitInv
<1>2. IndInv /\ SkipInv /\ [Next]_vars => (IndInv /\ SkipInv)'
  BY <1>0, NextKept DEF Kept
<1>3. SkipInv => NothingSkipped
  BY DEF SkipInv, Settled, NothingSkipped
<1> QED BY <1>1, <1>2, <1>3, PTL DEF Spec

-----------------------------------------------------------------------------
(* One control request at a time. *)

\* A step of lane l leaves paused alone and starts a delivery only unpaused.
Unpaused(l) ==
    /\ consumer'.paused = consumer.paused /\ admin' = admin
    /\ \A m \in Lanes \ {l} : lane'[m] = lane[m]
    /\ lane'[l].phase \in Delivering => lane[l].phase \in Delivering \/ ~consumer.paused

LEMMA GotoUnpaused ==
    ASSUME Types, NEW l \in Lanes, NEW p, Goto(l, p), OnlyLane, consumer' = consumer,
           p \in Delivering => lane[l].phase \in Delivering
    PROVE  Unpaused(l)
<1>1. lane'[l].phase = p /\ \A m \in Lanes \ {l} : lane'[m] = lane[m]
  BY DEF Goto, Types, LaneType
<1> QED BY <1>1 DEF Unpaused, OnlyLane

LEMMA PhasesAfter ==
    ASSUME Types, NEW l \in Lanes
    PROVE  /\ lane' = Consumed(l) => lane'[l].phase = "next" /\ \A m \in Lanes \ {l} : lane'[m] = lane[m]
           /\ lane' = Retried(l) => lane'[l].phase = "next" /\ \A m \in Lanes \ {l} : lane'[m] = lane[m]
           /\ lane' = Restarted(l) => lane'[l].phase = "read" /\ \A m \in Lanes \ {l} : lane'[m] = lane[m]
<1>0. lane \in [Lanes -> LaneType] /\ lane[l] \in LaneType
  BY DEF Types
<1>1. ASSUME lane' = Consumed(l)
      PROVE  lane'[l].phase = "next" /\ \A m \in Lanes \ {l} : lane'[m] = lane[m]
  BY <1>0, <1>1 DEF Consumed, LaneType
<1>2. ASSUME lane' = Retried(l)
      PROVE  lane'[l].phase = "next" /\ \A m \in Lanes \ {l} : lane'[m] = lane[m]
  BY <1>0, <1>2 DEF Retried, LaneType
<1>3. ASSUME lane' = Restarted(l)
      PROVE  lane'[l].phase = "read" /\ \A m \in Lanes \ {l} : lane'[m] = lane[m]
  <2> DEFINE q == [lane[l] EXCEPT !.phase = "read", !.pending = << >>, !.head = None,
                                  !.from = None, !.revision = 0]
  <2>1. q.phase = "read"
    BY <1>0, RestartedRecord
  <2>2. lane' = [lane EXCEPT ![l] = q]
    BY <1>3 DEF Restarted
  <2> HIDE DEF q
  <2> QED BY <1>0, <2>1, <2>2
<1> QED BY <1>1, <1>2, <1>3

LEMMA ProgressUnpaused ==
    ASSUME IndInv, NEW l \in Lanes, retire(l) \/ LaneProgress(l)
    PROVE  Unpaused(l)
<1>0. Types /\ lane \in [Lanes -> LaneType] /\ lane[l] \in LaneType
  BY DEF IndInv, Types
<1>1. CASE retire(l)
  <2>1. lane'[l].phase = lane[l].phase /\ \A m \in Lanes \ {l} : lane'[m] = lane[m]
    BY <1>0, <1>1 DEF retire, LaneType
  <2> QED BY <1>1, <2>1 DEF Unpaused, retire
<1>2. CASE recv(l)
  <2>1. lane'[l].phase = "read" /\ \A m \in Lanes \ {l} : lane'[m] = lane[m]
    BY <1>0, <1>2 DEF recv, LaneType
  <2> QED BY <1>2, <2>1 DEF Unpaused, recv, OnlyLane, Delivering
<1>3. CASE finish(l) \/ stop(l)
  <2> DEFINE q == lane'[l]
  <2>1. \A m \in Lanes \ {l} : lane'[m] = lane[m]
    BY <1>0, <1>3 DEF finish, stop
  <2>2. lane'[l].phase \in {"gone", "recv"}
    <3>1. NoLane.phase = "gone"
      BY DEF NoLane
    <3>2. [lane[l] EXCEPT !.phase = "recv", !.through = Full, !.revision = 0,
                          !.pending = << >>, !.head = None].phase = "recv"
      BY <1>0 DEF LaneType
    <3> QED BY <1>0, <1>3, <3>1, <3>2 DEF finish, stop
  <2> QED BY <1>3, <2>1, <2>2 DEF Unpaused, finish, stop, OnlyLane, Delivering
<1>4. CASE begin_invocation(l)
  BY <1>0, <1>4, GotoUnpaused DEF begin_invocation, Delivering
<1>5. ASSUME NEW d \in {"ack", "retry", "dead_letter"}, handle(l, d) PROVE Unpaused(l)
  BY <1>0, <1>5, GotoUnpaused DEF handle, Delivering
<1> QED BY <1>1, <1>2, <1>3, <1>4, <1>5 DEF LaneProgress

LEMMA StoreUnpaused ==
    ASSUME IndInv, NEW l \in Lanes, StoreSucceeds(l) \/ StoreFails(l)
    PROVE  Unpaused(l)
<1>0. Types /\ lane \in [Lanes -> LaneType] /\ lane[l] \in LaneType /\ consumer \in ConsumerType
  BY DEF IndInv, Types
<1>1. ASSUME OnlyLane, consumer'.paused = consumer.paused,
             lane' = Consumed(l) \/ lane' = Retried(l) \/ lane' = Restarted(l)
      PROVE  Unpaused(l)
  BY <1>0, <1>1, PhasesAfter DEF Unpaused, OnlyLane, Delivering
<1>2. ASSUME NEW v, NEW s \in Int, consumer' = Checkpointed(v, s) PROVE consumer'.paused = consumer.paused
  BY <1>0, <1>2, CheckpointedFacts
<1>3. ASSUME lane[l].phase \in {"ack", "retry", "dead_letter"} PROVE Seq0(l) \in Nat
  BY <1>3, DeliveringFacts DEF Delivering
<1>4. CASE read_state(l)
  <2>1. CASE consumer.paused
    BY <1>0, <1>4, <2>1, GotoUnpaused DEF read_state, Delivering
  <2>2. CASE ~consumer.paused
    <3>1. \A m \in Lanes \ {l} : lane'[m] = lane[m]
      BY <1>0, <1>4, <2>2 DEF read_state
    <3> QED BY <1>4, <2>2, <3>1 DEF Unpaused, read_state, OnlyLane
  <2> QED BY <2>1, <2>2
<1>5. CASE replay(l)
  <2> DEFINE P == InOrder({s \in ReplayedSeqs(l) : log[s + 1].match})
             h == ReplayHead(l)
  <2>1. lane' = [lane EXCEPT ![l].phase = "next", ![l].from = None, ![l].pending = P, ![l].head = h]
    BY <1>5 DEF replay
  <2> HIDE DEF P, h
  <2>2. lane'[l].phase = "next" /\ \A m \in Lanes \ {l} : lane'[m] = lane[m]
    BY <1>0, <2>1 DEF LaneType
  <2> QED BY <1>5, <2>2 DEF Unpaused, replay, OnlyLane, Delivering
<1>6. CASE check_state(l)
  <2>1. CASE Goto(l, "done")
    BY <1>0, <1>6, <2>1, GotoUnpaused DEF check_state, Delivering
  <2>2. CASE lane' = Consumed(l)
    BY <1>1, <1>6, <2>2 DEF check_state
  <2>3. CASE /\ ~consumer.paused
             /\ lane' = [lane EXCEPT ![l].phase = "handling",
                                     ![l].invocation_revision = consumer.revision]
    <3>1. \A m \in Lanes \ {l} : lane'[m] = lane[m]
      BY <1>0, <2>3
    <3> QED BY <1>6, <2>3, <3>1 DEF Unpaused, check_state, OnlyLane
  <2> QED BY <1>6, <2>1, <2>2, <2>3 DEF check_state
<1>7. CASE checkpoint_event_consumer(l)
  BY <1>1, <1>2, <1>3, <1>7 DEF checkpoint_event_consumer
<1>8. ASSUME lane[l].phase \in {"retry", "dead_letter"}, NEW dead \in BOOLEAN,
             consumer' = FailureRecorded(lane[l].invocation_revision, Seq0(l), dead)
      PROVE  consumer'.paused = consumer.paused
  BY <1>0, <1>3, <1>8, FailureFacts
<1>9. CASE record_event_consumer_failure(l)
  <2>1. consumer'.paused = consumer.paused
    BY <1>8, <1>9 DEF record_event_consumer_failure
  <2> QED BY <1>1, <1>9, <2>1 DEF record_event_consumer_failure
<1>10. CASE checkpoint_replay_head(l)
  <2>1. CASE Goto(l, "done") /\ consumer' = consumer
    BY <1>0, <1>10, <2>1, GotoUnpaused DEF checkpoint_replay_head, Delivering
  <2>2. lane[l].head \in Int
    BY <1>0, LaneTypes
  <2>3. CASE Goto(l, "done") /\ consumer' = Checkpointed(HeadRevision(l), lane[l].head)
    <3>1. lane'[l].phase = "done" /\ \A m \in Lanes \ {l} : lane'[m] = lane[m]
      BY <1>0, <2>3 DEF Goto, LaneType
    <3> QED BY <1>2, <1>10, <2>2, <2>3, <3>1 DEF Unpaused, checkpoint_replay_head, OnlyLane, Delivering
  <2>4. CASE lane' = Restarted(l) /\ consumer' = Checkpointed(HeadRevision(l), lane[l].head)
    BY <1>1, <1>2, <1>10, <2>2, <2>4 DEF checkpoint_replay_head
  <2> QED BY <1>10, <2>1, <2>3, <2>4 DEF checkpoint_replay_head
<1>11. CASE reconcile_fails(l) \/ check_state_fails(l)
  BY <1>1, <1>11 DEF reconcile_fails, check_state_fails
<1>12. CASE settle_fails(l)
  <2>1. consumer'.paused = consumer.paused
    <3>1. CASE lane[l].phase = "ack" /\ consumer' = Checkpointed(lane[l].invocation_revision, Seq0(l))
      BY <1>2, <1>3, <3>1
    <3>2. CASE /\ lane[l].phase \in {"retry", "dead_letter"}
               /\ consumer' = FailureRecorded(lane[l].invocation_revision, Seq0(l),
                                              lane[l].phase = "dead_letter")
      BY <1>8, <3>2
    <3> QED BY <1>12, <3>1, <3>2 DEF settle_fails
  <2> QED BY <1>1, <1>12, <2>1 DEF settle_fails
<1>13. CASE checkpoint_replay_head_fails(l)
  <2>1. lane[l].head \in Int
    BY <1>0, LaneTypes
  <2>2. consumer'.paused = consumer.paused
    BY <1>2, <1>13, <2>1 DEF checkpoint_replay_head_fails
  <2> QED BY <1>1, <1>13, <2>2 DEF checkpoint_replay_head_fails
<1> QED BY <1>4, <1>5, <1>6, <1>7, <1>9, <1>10, <1>11, <1>12, <1>13 DEF StoreSucceeds, StoreFails

LEMMA ExclusiveKept ==
    ASSUME IndInv, PauseInv, ResetExclusive, [Next]_vars, \A a, b \in Admins : a = b
    PROVE  PauseInv' /\ ResetExclusive'
<1>0. /\ Types /\ Types' /\ admin \in [Admins -> RequestType] /\ consumer \in ConsumerType
  BY NextKept DEF IndInv, Types, Kept
<1>1. ASSUME NEW l \in Lanes, Unpaused(l) PROVE PauseInv' /\ ResetExclusive'
  <2>1. PauseInv'
    BY <1>1 DEF PauseInv, Unpaused
  <2>2. ResetExclusive'
    <3> SUFFICES ASSUME NEW a \in Admins, admin[a].phase = "resetting", NEW m \in Lanes,
                        lane'[m].phase \in Delivering
                 PROVE  FALSE
      BY <1>1 DEF ResetExclusive, Delivering, Unpaused
    <3>1. consumer.paused /\ lane[m].phase \notin Delivering /\ lane[l].phase \notin Delivering
      BY DEF PauseInv, ResetExclusive, Delivering
    <3> QED BY <1>1, <3>1 DEF Unpaused
  <2> QED BY <2>1, <2>2
<1>2. ASSUME admin' = admin, consumer' = consumer,
             \A m \in Lanes : lane'[m].phase = lane[m].phase \/ lane'[m].phase \in {"gone", "recv"}
      PROVE  PauseInv' /\ ResetExclusive'
  BY <1>2 DEF PauseInv, ResetExclusive
<1>3. ASSUME \A a \in Admins : admin'[a].phase \notin {"waiting", "resetting"}
      PROVE  PauseInv' /\ ResetExclusive'
  BY <1>3 DEF PauseInv, ResetExclusive
<1>4. ASSUME NEW t \in Int, Signal(t)
      PROVE  \A m \in Lanes : lane'[m].phase = lane[m].phase \/ lane'[m].phase \in {"gone", "recv"}
  <2>1. \A m \in Lanes : SameHand(lane[m], lane'[m]) \/ Fresh(lane'[m])
    BY <1>0, <1>4, SignalFacts
  <2>2. \A m \in Lanes : Fresh(lane'[m]) => lane'[m].phase \in {"gone", "recv"}
    BY DEF Fresh
  <2> QED BY <2>1, <2>2 DEF SameHand
<1>5. ASSUME NEW a \in Admins, AdminRequest(a) PROVE PauseInv' /\ ResetExclusive'
  <2>0. /\ admin[a] = NoRequest /\ NoRequest.phase = "idle"
        /\ \A b \in Admins : b = a
    BY <1>5 DEF AdminRequest, pause, resume, reset_begin, NoRequest
  <2>1. CASE pause(a)
    BY <1>3, <2>0, <2>1 DEF pause
  <2>2. CASE resume(a)
    <3>1. admin'[a].phase = "wake"
      BY <1>0, <2>2 DEF resume, AdminGoto, RequestType
    <3> QED BY <1>3, <2>0, <3>1
  <2>3. ASSUME NEW reset \in Resets, reset_begin(a, reset) PROVE PauseInv' /\ ResetExclusive'
    <3>1. admin'[a].phase = "pausing"
      BY <1>0, <2>3 DEF reset_begin
    <3> QED BY <1>3, <2>0, <3>1
  <2> QED BY <1>5, <2>1, <2>2, <2>3 DEF AdminRequest
<1>6. ASSUME NEW a \in Admins, AdminProgress(a) PROVE PauseInv' /\ ResetExclusive'
  <2>0. admin[a] \in RequestType /\ \A b \in Admins : b = a
    BY <1>0
  <2>1. CASE reset_pause(a)
    <3>1. admin'[a].phase = "waiting" /\ consumer'.paused
      BY <1>0, <2>0, <2>1 DEF reset_pause, AdminGoto, RequestType, ConsumerType
    <3> QED BY <2>0, <3>1 DEF PauseInv, ResetExclusive
  <2>2. CASE wait_until_idle(a)
    <3>1. admin[a].phase = "waiting" /\ consumer' = consumer /\ lane' = lane
      BY <2>2 DEF wait_until_idle
    <3>2. \A l \in Lanes : lane[l].phase \notin {"handling", "ack", "retry", "dead_letter"}
      BY <2>2 DEF wait_until_idle, active_deliveries
    <3> QED BY <2>0, <3>1, <3>2 DEF PauseInv, ResetExclusive
  <2>3. CASE reset_gives_up(a) \/ reset_event_consumer_checkpoint(a)
    <3>1. admin'[a].phase = "restoring"
      BY <1>0, <2>0, <2>3
         DEF reset_gives_up, reset_event_consumer_checkpoint, AdminGoto, RequestType
    <3> QED BY <1>3, <2>0, <3>1
  <2>4. CASE restore_paused(a) \/ control_fails(a) \/ wake_custom_event_consumer(a)
    <3>1. NoRequest.phase = "idle" /\ [NoRequest EXCEPT !.phase = "wake"].phase = "wake"
      BY DEF NoRequest
    <3>2. admin'[a].phase \in {"idle", "wake"}
      BY <1>0, <2>4, <3>1 DEF restore_paused, control_fails, wake_custom_event_consumer
    <3> QED BY <1>3, <2>0, <3>2
  <2> QED BY <1>6, <2>1, <2>2, <2>3, <2>4 DEF AdminProgress
<1>7. CASE \E l \in Lanes : retire(l) \/ LaneProgress(l) \/ StoreSucceeds(l) \/ StoreFails(l)
  BY <1>1, <1>7, ProgressUnpaused, StoreUnpaused
<1>8. CASE \E match \in BOOLEAN : append(match)
  BY <1>2, <1>8 DEF append
<1>9. CASE sync \/ reload_extensions \/ UNCHANGED vars
  BY <1>2, <1>9 DEF sync, reload_extensions, vars
<1>10. CASE observe_custom_event
  <2> DEFINE seq == CHOOSE s \in unobserved : \A r \in unobserved : s <= r
  <2>1. unobserved \in SUBSET Nat /\ unobserved # {}
    BY <1>0, <1>10 DEF Types, observe_custom_event
  <2>2. seq \in unobserved
    BY <2>1, LeastMember
  <2>3. Signal(seq)
    BY <1>10 DEF observe_custom_event
  <2> HIDE DEF seq
  <2>4. seq \in Int
    BY <2>1, <2>2
  <2>5. admin' = admin /\ consumer' = consumer
    BY <1>10 DEF observe_custom_event
  <2> QED BY <1>2, <1>4, <2>3, <2>4, <2>5
<1>11. CASE reconcile_custom_events
  <2>1. Full \in Int
    BY BoundAssumption DEF Full
  <2> QED BY <1>2, <1>4, <1>11, <2>1 DEF reconcile_custom_events
<1>12. CASE quiesce_custom_event_session
  <2>1. \A m \in Lanes : lane'[m].phase = lane[m].phase
    <3> SUFFICES ASSUME NEW m \in Lanes PROVE lane'[m].phase = lane[m].phase
      OBVIOUS
    <3>1. lane[m] \in LaneType
      BY <1>0 DEF Types
    <3>2. [lane[m] EXCEPT !.cancelled = TRUE, !.mapped = FALSE].phase = lane[m].phase
      BY <3>1 DEF LaneType
    <3> QED BY <1>12, <3>2 DEF quiesce_custom_event_session
  <2> QED BY <1>2, <1>12, <2>1 DEF quiesce_custom_event_session
<1>13. CASE resume_custom_event_session
  <2>1. Full \in Int
    BY BoundAssumption DEF Full
  <2>2. \A m \in Lanes : SameHand(lane[m], lane'[m]) \/ Fresh(lane'[m])
    BY <1>0, <1>13, <2>1, StartLaneFacts DEF resume_custom_event_session
  <2>3. \A m \in Lanes : Fresh(lane'[m]) => lane'[m].phase \in {"gone", "recv"}
    BY DEF Fresh
  <2> QED BY <1>2, <1>13, <2>2, <2>3 DEF SameHand, resume_custom_event_session
<1>14. CASE process_crash \/ power_loss
  <2>1. NoRequest.phase = "idle"
    BY DEF NoRequest
  <2>2. \A a \in Admins : admin'[a] = NoRequest
    BY <1>14 DEF process_crash, power_loss, LoseMemory
  <2> QED BY <1>3, <2>1, <2>2
<1> QED BY <1>5, <1>6, <1>7, <1>8, <1>9, <1>10, <1>11, <1>12, <1>13, <1>14 DEF Next

\* With one control request at a time (the operator's command is not run twice at
\* once) the reset of the checkpoint never races a handler or the settlement of its
\* result: the request paused the consumer and then saw it idle.
THEOREM ResetExclusiveAlways ==
    ASSUME \A a, b \in Admins : a = b
    PROVE  Spec => []ResetExclusive
<1>1. Init => PauseInv /\ ResetExclusive
  BY DEF Init, NoRequest, PauseInv, ResetExclusive
<1>2. IndInv /\ PauseInv /\ ResetExclusive /\ [Next]_vars => (PauseInv /\ ResetExclusive)'
  BY ExclusiveKept
<1> QED BY <1>1, <1>2, DeliveryInvariant, PTL DEF Spec

=============================================================================
