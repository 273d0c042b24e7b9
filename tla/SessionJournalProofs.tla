------------------------ MODULE SessionJournalProofs ------------------------
(* Proofs that the journal of a session keeps its safety properties for any  *)
(* set of callers and any bounds, by the inductive invariant IndInv.         *)
EXTENDS SessionJournal, SequenceTheorems, TLAPS

\* Every record of a grown log was there before or comes from the batch.
LEMMA GrownIndex ==
    ASSUME NEW s, NEW b, NEW g, NEW k \in Nat, Len(s) \in Nat, Len(g) = Len(s) + k,
           \A i \in 1..Len(s) : g[i] = s[i],
           \A i \in 1..k : g[Len(s) + i] = b[i]
    PROVE  \A i \in 1..Len(g) :
              \/ i \in 1..Len(s) /\ g[i] = s[i]
              \/ i - Len(s) \in 1..k /\ g[i] = b[i - Len(s)]
<1> SUFFICES ASSUME NEW i \in 1..Len(g), i \notin 1..Len(s)
             PROVE  i - Len(s) \in 1..k /\ g[i] = b[i - Len(s)]
  OBVIOUS
<1>1. Len(s) + (i - Len(s)) = i
  OBVIOUS
<1> QED BY <1>1

\* Appending a prefix of a batch: what the log holds afterwards.
LEMMA GrownLog ==
    ASSUME NEW s \in Seq(Record), NEW b \in Seq(Record), NEW k \in 0..Len(b)
    PROVE  LET g == s \o SubSeq(b, 1, k)
           IN /\ g \in Seq(Record)
              /\ Len(g) = Len(s) + k
              /\ \A i \in 1..Len(s) : g[i] = s[i]
              /\ \A i \in 1..k : g[Len(s) + i] = b[i]
              /\ \A i \in 1..Len(g) :
                    \/ i \in 1..Len(s) /\ g[i] = s[i]
                    \/ i - Len(s) \in 1..k /\ g[i] = b[i - Len(s)]
<1> DEFINE g == s \o SubSeq(b, 1, k)
<1>1. /\ SubSeq(b, 1, k) \in Seq(Record)
      /\ Len(SubSeq(b, 1, k)) = k
      /\ \A i \in 1..k : SubSeq(b, 1, k)[i] = b[i]
  <2>1. CASE k = 0
    BY <2>1, SubSeqProperties
  <2>2. CASE k > 0
    BY <2>2, SubSeqProperties
  <2> QED BY <2>1, <2>2
<1>2. /\ g \in Seq(Record)
      /\ Len(g) = Len(s) + k
      /\ \A i \in 1..Len(s) : g[i] = s[i]
      /\ \A i \in 1..k : g[Len(s) + i] = b[i]
  BY <1>1, ConcatProperties
<1> HIDE DEF g
<1>3. \A i \in 1..Len(g) :
        \/ i \in 1..Len(s) /\ g[i] = s[i]
        \/ i - Len(s) \in 1..k /\ g[i] = b[i - Len(s)]
  BY <1>2, GrownIndex
<1> QED BY <1>2, <1>3 DEF g

\* Appending a whole batch.
LEMMA WholeBatch ==
    ASSUME NEW s \in Seq(Record), NEW b \in Seq(Record)
    PROVE  /\ s \o b \in Seq(Record)
           /\ Len(s \o b) = Len(s) + Len(b)
           /\ \A i \in 1..Len(s) : (s \o b)[i] = s[i]
           /\ \A i \in 1..Len(b) : (s \o b)[Len(s) + i] = b[i]
           /\ \A i \in 1..Len(s \o b) :
                 \/ i \in 1..Len(s) /\ (s \o b)[i] = s[i]
                 \/ i - Len(s) \in 1..Len(b) /\ (s \o b)[i] = b[i - Len(s)]
<1> DEFINE g == s \o b
<1>1. /\ g \in Seq(Record)
      /\ Len(g) = Len(s) + Len(b)
      /\ \A i \in 1..Len(s) : g[i] = s[i]
      /\ \A i \in 1..Len(b) : g[Len(s) + i] = b[i]
  BY ConcatProperties
<1> HIDE DEF g
<1>2. \A i \in 1..Len(g) :
        \/ i \in 1..Len(s) /\ g[i] = s[i]
        \/ i - Len(s) \in 1..Len(b) /\ g[i] = b[i - Len(s)]
  BY <1>1, GrownIndex
<1> QED BY <1>1, <1>2 DEF g

\* Cutting a log back to its first n records.
LEMMA CutLog ==
    ASSUME NEW s \in Seq(Record), NEW n \in 0..Len(s)
    PROVE  /\ SubSeq(s, 1, n) \in Seq(Record)
           /\ Len(SubSeq(s, 1, n)) = n
           /\ \A i \in 1..n : SubSeq(s, 1, n)[i] = s[i]
<1>1. CASE n = 0
  BY <1>1, SubSeqProperties
<1>2. CASE n > 0
  BY <1>2, SubSeqProperties
<1> QED BY <1>1, <1>2

LEMMA InitInv == Init => IndInv
<1> SUFFICES ASSUME Init PROVE IndInv
  OBVIOUS
<1>1. TypeOK
  <2>1. uncertain \in Marker /\ task \in [Tasks -> TaskState]
    BY DEF Init, Marker, TaskState, NoMarker, Idle, MarkerKinds, Ops, Phases
  <2>2. Flags
    BY Zenon DEF Init, Flags
  <2> QED BY <2>1, <2>2 DEF Init, TypeOK
<1>2. LaneInv /\ PhaseInv
  BY DEF Init, LaneInv, PhaseInv, AtPhase, Idle, NoMarker
<1>3. MarkerInv /\ OpenInv /\ DiskInv
  BY DEF Init, MarkerInv, OpenInv, DiskInv, LogStaysValid, NoMarker
<1>4. HistoryInv
  BY DEF Init, HistoryInv, ConfirmedSurvives, VisibleOnlyWhenDurable
<1> QED BY <1>1, <1>2, <1>3, <1>4 DEF IndInv

LEMMA RecordFields == \A r \in Record : r.seq \in Nat /\ r.ev \in Nat
BY DEF Record

\* The sizes and elements that the arithmetic of every step is about.
LEMMA Sizes ==
    ASSUME IndInv
    PROVE  /\ file \in Seq(Record) /\ projection \in Seq(Record)
           /\ Len(file) \in Nat /\ Len(projection) \in Nat
           /\ stable \in Nat /\ next_seq \in Nat /\ issued \in Nat
           /\ stable <= Len(file)
           /\ \A i \in 1..Len(file) : file[i] \in Record /\ file[i].seq \in Nat /\ file[i].ev \in Nat
           /\ \A r \in confirmed : r.seq \in Nat
<1>1. /\ file \in Seq(Record) /\ projection \in Seq(Record)
      /\ stable \in Nat /\ next_seq \in Nat /\ issued \in Nat
      /\ stable <= Len(file) /\ confirmed \subseteq Record
  BY DEF IndInv, TypeOK, DiskInv
<1>2. \A i \in 1..Len(file) : file[i] \in Record
  BY <1>1
<1> QED BY <1>1, <1>2, RecordFields

\* A log that only grows keeps its confirmed records.
LEMMA ConfirmedGrows ==
    ASSUME IndInv, confirmed' = confirmed, stable' = stable,
           Len(file') \in Nat, Len(file) <= Len(file'),
           \A i \in 1..Len(file) : file'[i] = file[i]
    PROVE  ConfirmedSurvives'
<1>1. /\ Len(file) \in Nat /\ stable \in Nat /\ stable <= Len(file)
      /\ \A r \in confirmed : r.seq \in Nat
  BY Sizes
<1>2. \A r \in confirmed : r.seq < stable /\ file[r.seq + 1] = r
  BY DEF IndInv, HistoryInv, ConfirmedSurvives
<1>3. ASSUME NEW r \in confirmed
      PROVE  r.seq < stable /\ stable <= Len(file') /\ file'[r.seq + 1] = r
  <2>1. r.seq + 1 \in 1..Len(file)
    BY <1>1, <1>2
  <2>2. file'[r.seq + 1] = file[r.seq + 1]
    BY <2>1
  <2> QED BY <2>2, <1>1, <1>2
<1> QED BY <1>3 DEF ConfirmedSurvives

\* What is known about the batch a task is about to write.
LEMMA AppendFacts ==
    ASSUME IndInv, NEW t \in Tasks, task[t].phase = "append"
    PROVE  LET b == task[t].batch
           IN /\ b \in Seq(Record) /\ Len(b) \in Nat /\ Len(b) > 0
              /\ commit_lane = t /\ opened /\ uncertain.kind = "None"
              /\ next_seq = Len(projection)
              /\ \A i \in 1..Len(b) :
                    /\ b[i] \in Record
                    /\ b[i].seq = next_seq + i - 1
                    /\ b[i].ev \in 1..issued
                    /\ b[i].ev \notin rolled_back
                    /\ \A j \in 1..Len(file) : file[j].ev # b[i].ev
<1>1. /\ task[t].batch \in Seq(Record) /\ Len(task[t].batch) \in Nat
      /\ \A i \in 1..Len(task[t].batch) : task[t].batch[i] \in Record
  BY DEF IndInv, TypeOK, TaskState
<1> QED BY <1>1 DEF IndInv, LaneInv, PhaseInv, AtPhase, Fresh, Positioned

\* The task inside the lane is the only one that is doing anything.
LEMMA HoldsLane ==
    ASSUME IndInv, NEW t \in Tasks, task[t].phase # "idle"
    PROVE  /\ commit_lane = t /\ commit_lane # NoTask /\ opened
           /\ task[t] \in TaskState
           /\ \A u \in Tasks \ {t} : task[u] = Idle
BY NoTaskAssumption DEF IndInv, TypeOK, LaneInv

LEMMA IdleState == Idle \in TaskState /\ Idle.phase = "idle"
BY DEF Idle, TaskState, Ops, Phases

\* Nobody is inside the lane: the lane and the phases need no further facts.
LEMMA AllIdle ==
    ASSUME \A u \in Tasks : task[u] = Idle, commit_lane = NoTask
    PROVE  LaneInv /\ PhaseInv
BY IdleState DEF LaneInv, PhaseInv, AtPhase

LEMMA ReleaseLane ==
    ASSUME IndInv, NEW t \in Tasks, task[t].phase # "idle", Release(t)
    PROVE  /\ commit_lane' = NoTask /\ commit_lane' \in Tasks \cup {NoTask}
           /\ task' \in [Tasks -> TaskState]
           /\ LaneInv' /\ PhaseInv'
<1>1. /\ \A u \in Tasks : task'[u] = Idle
      /\ task' \in [Tasks -> TaskState]
      /\ commit_lane' = NoTask
  BY HoldsLane, IdleState DEF IndInv, TypeOK, Release
<1>2. (LaneInv /\ PhaseInv)'
  BY <1>1, IdleState DEF LaneInv, PhaseInv, AtPhase
<1> QED BY <1>1, <1>2

LEMMA MoveOn ==
    ASSUME IndInv, NEW t \in Tasks, task[t].phase # "idle",
           NEW p \in Phases \ {"idle"}, Goto(t, p), opened' = opened
    PROVE  /\ commit_lane' = commit_lane /\ commit_lane' # NoTask
           /\ task' \in [Tasks -> TaskState]
           /\ task'[t].phase = p /\ task'[t].op = task[t].op
           /\ task'[t].batch = task[t].batch /\ task'[t].through_seq = task[t].through_seq
           /\ LaneInv'
           /\ AtPhase(t)' => PhaseInv'
<1>1. /\ \A u \in Tasks \ {t} : task'[u] = Idle
      /\ task'[t] = [task[t] EXCEPT !.phase = p]
      /\ commit_lane' = t /\ opened'
  BY HoldsLane DEF IndInv, TypeOK, Goto
<1>2. /\ task'[t] \in TaskState /\ task'[t].phase = p /\ task'[t].op = task[t].op
      /\ task'[t].batch = task[t].batch /\ task'[t].through_seq = task[t].through_seq
  BY <1>1, HoldsLane DEF TaskState
<1>3. task' \in [Tasks -> TaskState]
  BY <1>1, <1>2, IdleState DEF IndInv, TypeOK, Goto
<1>4. LaneInv'
  BY <1>1, <1>2, IdleState DEF LaneInv
<1>5. \A u \in Tasks \ {t} : AtPhase(u)'
  BY <1>1, IdleState DEF AtPhase
<1> QED BY <1>1, <1>2, <1>3, <1>4, <1>5, HoldsLane DEF PhaseInv

LEMMA EnterLane ==
    ASSUME IndInv, NEW t \in Tasks, acquire_commit_lane(t),
           NEW step \in TaskState, step.phase # "idle", Enter(t, step), opened' = opened
    PROVE  /\ commit_lane' = t /\ commit_lane' # NoTask
           /\ task' \in [Tasks -> TaskState]
           /\ task'[t] = step
           /\ LaneInv'
           /\ AtPhase(t)' => PhaseInv'
<1>1. \A u \in Tasks : task[u] = Idle
  BY NoTaskAssumption DEF IndInv, LaneInv, acquire_commit_lane
<1>2. /\ \A u \in Tasks \ {t} : task'[u] = Idle
      /\ task'[t] = step /\ task' \in [Tasks -> TaskState]
      /\ commit_lane' = t /\ opened' /\ commit_lane' # NoTask
  BY <1>1, NoTaskAssumption DEF IndInv, TypeOK, Enter, acquire_commit_lane
<1>3. LaneInv'
  BY <1>2, IdleState DEF LaneInv
<1>4. \A u \in Tasks \ {t} : AtPhase(u)'
  BY <1>2, IdleState DEF AtPhase
<1> QED BY <1>2, <1>3, <1>4 DEF PhaseInv

LEMMA AppendStoredBatchInv ==
    ASSUME IndInv, NEW t \in Tasks, append_stored_batch(t)
    PROVE  IndInv'
<1> DEFINE b == task[t].batch
           n == Len(file)
           m == Len(b)
<1>a. /\ b \in Seq(Record) /\ m \in Nat /\ m > 0
      /\ commit_lane = t /\ opened /\ uncertain.kind = "None"
      /\ Len(projection) = n /\ next_seq = n /\ ~poisoned
  BY AppendFacts DEF IndInv, OpenInv, append_stored_batch, WriterAccepts
<1>b. \A i \in 1..m : /\ b[i].seq = n + i - 1
                       /\ b[i].ev \in 1..issued
                       /\ b[i].ev \notin rolled_back
  BY <1>a, AppendFacts DEF append_stored_batch
<1>s. /\ file \in Seq(Record) /\ n \in Nat /\ stable \in Nat /\ issued \in Nat /\ stable <= n
      /\ \A r \in confirmed : r.seq \in Nat
  BY Sizes
<1>o. /\ exists /\ 1 <= n
      /\ \A i \in 1..n : projection[i] = file[i]
  BY <1>a DEF IndInv, OpenInv
<1>f. /\ file' \in Seq(Record)
      /\ Len(file') = n + m
      /\ \A i \in 1..n : file'[i] = file[i]
      /\ \A i \in 1..m : file'[n + i] = b[i]
      /\ \A i \in 1..Len(file') :
            \/ i \in 1..n /\ file'[i] = file[i]
            \/ i - n \in 1..m /\ file'[i] = b[i - n]
  BY <1>a, <1>s, WholeBatch DEF append_stored_batch
<1>u. /\ exists' = exists /\ torn' = torn /\ stable' = stable /\ opened' = opened
      /\ poisoned' = poisoned /\ projection' = projection /\ uncertain' = uncertain
      /\ issued' = issued /\ sync_events' = sync_events /\ rolled_back' = rolled_back
      /\ reported' = reported /\ confirmed' = confirmed /\ commit_lane' = commit_lane
      /\ next_seq' = n + m /\ dirty' = TRUE
      /\ task' = [task EXCEPT ![t].phase = "appended"]
  BY <1>a DEF append_stored_batch, Goto, history, DirtyAfterAppend
<1>t. /\ commit_lane' # NoTask /\ task' \in [Tasks -> TaskState]
      /\ task'[t].phase = "appended" /\ task'[t].op = task[t].op /\ task'[t].batch = b
      /\ LaneInv' /\ (AtPhase(t)' => PhaseInv')
  BY <1>u, MoveOn DEF append_stored_batch, Phases
<1>q. /\ task[t].op \in {"append", "append_and_sync"}
      /\ task[t].op = "append" => EventsOf(b) \cap sync_events = {}
  BY DEF IndInv, PhaseInv, AtPhase, append_stored_batch
<1>2. TypeOK'
  <2>1. Flags'
    BY <1>u, Zenon DEF IndInv, TypeOK, Flags
  <2> QED BY <2>1, <1>a, <1>s, <1>f, <1>u, <1>t DEF IndInv, TypeOK
<1> HIDE DEF b, n, m
<1>4. PhaseInv'
  <2>1. /\ next_seq' = Len(projection') + m
        /\ \A i \in 1..m : file'[Len(projection') + i] = b[i]
    BY <1>a, <1>f, <1>u
  <2>2. Pending(task[t].batch)'
    BY <2>1, <1>a, <1>t DEF Pending, m
  <2>3. AtPhase(t)'
    BY <1>a, <1>u, <1>t, <1>q, <2>2 DEF AtPhase, EventsOf
  <2> QED BY <2>3, <1>t
<1>5. MarkerInv'
  BY <1>a, <1>u DEF IndInv, MarkerInv
<1>6. OpenInv'
  <2>2. /\ 1 <= Len(projection') /\ Len(projection') <= next_seq' /\ next_seq' = Len(file')
    BY <1>a, <1>o, <1>f, <1>u, <1>s
  <2>3. \A i \in 1..Len(projection') : projection'[i] = file'[i]
    BY <1>a, <1>o, <1>f, <1>u, <1>s
  <2> QED BY <2>2, <2>3, <1>a, <1>o, <1>u, <1>s, <1>t DEF OpenInv
<1>7. DiskInv'
  <2>1. /\ file[1].ev = 0
        /\ \A i \in 1..n : file[i].seq = i - 1 /\ (i > 1 => file[i].ev # 0)
    BY <1>o DEF IndInv, DiskInv, LogStaysValid, ValidStream, n
  <2>2. \A i \in 1..Len(file') : file'[i].seq = i - 1 /\ (i > 1 => file'[i].ev # 0)
    <3> SUFFICES ASSUME NEW i \in 1..Len(file')
                 PROVE  file'[i].seq = i - 1 /\ (i > 1 => file'[i].ev # 0)
      OBVIOUS
    <3>1. CASE i \in 1..n /\ file'[i] = file[i]
      BY <3>1, <2>1
    <3>2. CASE i - n \in 1..m /\ file'[i] = b[i - n]
      BY <3>2, <1>a, <1>b, <1>s
    <3> QED BY <3>1, <3>2, <1>f
  <2>3. file'[1].ev = 0
    BY <2>1, <1>f, <1>o, <1>s
  <2> QED BY <1>a, <1>f, <1>u, <1>o, <1>s, <2>2, <2>3 DEF DiskInv, LogStaysValid, ValidStream
<1>8. HistoryInv'
  <2>1. \A i \in 1..n : file[i].ev <= issued /\ file[i].ev \notin rolled_back
    BY DEF IndInv, HistoryInv, n
  <2>2. \A i \in 1..Len(file') : file'[i].ev <= issued' /\ file'[i].ev \notin rolled_back'
    <3> SUFFICES ASSUME NEW i \in 1..Len(file')
                 PROVE  file'[i].ev <= issued /\ file'[i].ev \notin rolled_back
      BY <1>u
    <3>1. CASE i \in 1..n /\ file'[i] = file[i]
      BY <3>1, <2>1
    <3>2. CASE i - n \in 1..m /\ file'[i] = b[i - n]
      BY <3>2, <1>b, <1>s
    <3> QED BY <3>1, <3>2, <1>f
  <2>3. ConfirmedSurvives'
    BY <1>a, <1>f, <1>u, <1>s, ConfirmedGrows DEF n
  <2>4. VisibleOnlyWhenDurable'
    BY <1>u DEF IndInv, HistoryInv, VisibleOnlyWhenDurable
  <2> QED BY <1>u, <2>2, <2>3, <2>4 DEF IndInv, HistoryInv
<1> QED BY <1>t, <1>2, <1>4, <1>5, <1>6, <1>7, <1>8 DEF IndInv

LEMMA AppendFailsInv ==
    ASSUME IndInv, NEW t \in Tasks, append_fails(t)
    PROVE  IndInv'
<1> DEFINE b == task[t].batch
<1>a. /\ b \in Seq(Record) /\ uncertain.kind = "None" /\ next_seq = Len(projection)
      /\ \A i \in 1..Len(b) : /\ b[i].ev \in 1..issued
                              /\ \A j \in 1..Len(file) : file[j].ev # b[i].ev
  BY AppendFacts DEF append_fails
<1>u. /\ exists' = exists /\ torn' = torn /\ stable' = stable /\ opened' = opened
      /\ poisoned' = poisoned /\ projection' = projection /\ uncertain' = uncertain
      /\ issued' = issued /\ sync_events' = sync_events /\ file' = file
      /\ reported' = reported /\ confirmed' = confirmed
      /\ next_seq' = next_seq /\ dirty' = dirty
      /\ rolled_back' = rolled_back \cup EventsOf(b)
  BY DEF append_fails, RolledBackFile, writer
<1>t. /\ commit_lane' = NoTask /\ task' \in [Tasks -> TaskState] /\ LaneInv' /\ PhaseInv'
  BY ReleaseLane DEF append_fails
<1>1. EventsOf(b) \subseteq 1..issued
  BY <1>a DEF EventsOf
<1>2. TypeOK'
  <2>1. Flags'
    BY <1>u, Zenon DEF IndInv, TypeOK, Flags
  <2>2. rolled_back' \subseteq Nat
    <3>1. rolled_back \subseteq Nat /\ issued \in Nat
      BY DEF IndInv, TypeOK
    <3>2. EventsOf(b) \subseteq Nat
      BY <3>1, <1>1
    <3> QED BY <3>1, <3>2, <1>u
  <2> QED BY <2>1, <2>2, <1>u, <1>t DEF IndInv, TypeOK
<1>3. MarkerInv' /\ DiskInv'
  BY <1>a, <1>u DEF IndInv, MarkerInv, DiskInv, LogStaysValid, ValidStream
<1>4. OpenInv'
  BY <1>a, <1>u DEF IndInv, OpenInv, Positioned
<1>5. HistoryInv'
  <2>1. \A i \in 1..Len(file) : file[i].ev \notin EventsOf(b)
    BY <1>a DEF EventsOf
  <2> QED BY <2>1, <1>1, <1>u DEF IndInv, HistoryInv, ConfirmedSurvives, VisibleOnlyWhenDurable
<1> QED BY <1>t, <1>2, <1>3, <1>4, <1>5 DEF IndInv

LEMMA ApplyCommittedInv ==
    ASSUME IndInv, NEW t \in Tasks, apply_committed(t)
    PROVE  IndInv'
<1> DEFINE b == task[t].batch
           n == Len(projection)
           m == Len(b)
<1>a. /\ b \in Seq(Record) /\ m \in Nat /\ n \in Nat /\ m > 0 /\ opened
      /\ uncertain.kind = "None" /\ next_seq = n + m
      /\ \A i \in 1..m : file[n + i] = b[i]
      /\ \A i \in 1..m : b[i].ev \notin sync_events
  <2>1. task[t] \in TaskState /\ opened /\ AtPhase(t)
    BY HoldsLane DEF IndInv, PhaseInv, apply_committed
  <2>2. b \in Seq(Record)
    BY <2>1 DEF TaskState
  <2>3. n \in Nat /\ m \in Nat
    BY <2>2, Sizes
  <2>4. Pending(b) /\ uncertain.kind = "None" /\ EventsOf(b) \cap sync_events = {}
    BY <2>1 DEF AtPhase, apply_committed
  <2> QED BY <2>1, <2>2, <2>3, <2>4 DEF Pending, EventsOf
<1>s. /\ projection \in Seq(Record) /\ stable \in Nat /\ 1 <= n
      /\ next_seq <= Len(file) /\ Len(file) \in Nat
      /\ \A i \in 1..n : projection[i] = file[i]
      /\ \A i \in 1..n : projection[i].ev \in sync_events => i <= stable
  BY <1>a, Sizes DEF IndInv, OpenInv, HistoryInv, VisibleOnlyWhenDurable
<1>f. /\ projection' \in Seq(Record)
      /\ Len(projection') = n + m
      /\ \A i \in 1..Len(projection') :
            \/ i \in 1..n /\ projection'[i] = projection[i]
            \/ i - n \in 1..m /\ projection'[i] = b[i - n]
  BY <1>a, <1>s, WholeBatch DEF apply_committed
<1>u. /\ exists' = exists /\ torn' = torn /\ stable' = stable /\ opened' = opened
      /\ poisoned' = poisoned /\ file' = file /\ uncertain' = uncertain
      /\ issued' = issued /\ sync_events' = sync_events /\ rolled_back' = rolled_back
      /\ reported' = reported /\ confirmed' = confirmed
      /\ next_seq' = next_seq /\ dirty' = dirty
  BY DEF apply_committed, disk, writer, history
<1>t. /\ commit_lane' = NoTask /\ task' \in [Tasks -> TaskState] /\ LaneInv' /\ PhaseInv'
  BY ReleaseLane DEF apply_committed
<1>2. TypeOK'
  <2>1. Flags'
    BY <1>u, Zenon DEF IndInv, TypeOK, Flags
  <2> QED BY <2>1, <1>f, <1>u, <1>t DEF IndInv, TypeOK
<1>3. MarkerInv' /\ DiskInv'
  BY <1>a, <1>u DEF IndInv, MarkerInv, DiskInv, LogStaysValid, ValidStream
<1> HIDE DEF b, n, m
<1>4. OpenInv'
  <2>1. \A i \in 1..Len(projection') : projection'[i] = file'[i]
    <3> SUFFICES ASSUME NEW i \in 1..Len(projection') PROVE projection'[i] = file[i]
      BY <1>u
    <3>1. CASE i \in 1..n /\ projection'[i] = projection[i]
      BY <3>1, <1>s
    <3>2. CASE i - n \in 1..m /\ projection'[i] = b[i - n]
      <4>1. i = n + (i - n)
        BY <1>a, <1>f
      <4> QED BY <3>2, <4>1, <1>a
    <3> QED BY <3>1, <3>2, <1>f
  <2>2. Positioned' /\ 1 <= Len(projection') /\ Len(projection') <= next_seq'
    BY <1>a, <1>s, <1>f, <1>u DEF Positioned
  <2> QED BY <2>1, <2>2, <1>a, <1>u DEF IndInv, OpenInv
<1>5. HistoryInv'
  <2>1. VisibleOnlyWhenDurable'
    <3> SUFFICES ASSUME NEW i \in 1..Len(projection'), projection'[i].ev \in sync_events
                 PROVE  i <= stable
      BY <1>u DEF VisibleOnlyWhenDurable
    <3>1. CASE i \in 1..n /\ projection'[i] = projection[i]
      BY <3>1, <1>s
    <3>2. CASE i - n \in 1..m /\ projection'[i] = b[i - n]
      BY <3>2, <1>a
    <3> QED BY <3>1, <3>2, <1>f
  <2> QED BY <2>1, <1>u DEF IndInv, HistoryInv, ConfirmedSurvives
<1> QED BY <1>t, <1>2, <1>3, <1>4, <1>5 DEF IndInv

\* The read model's next seq is its length, so a positioned log means the log
\* has no record the read model does not have.
LEMMA FirstSeqIsLength ==
    ASSUME IndInv, opened
    PROVE  FirstSeq = Len(projection)
<1>1. /\ Len(projection) \in Nat /\ 1 <= Len(projection) /\ Len(projection) <= Len(file)
      /\ projection[Len(projection)] = file[Len(projection)]
      /\ Len(file) \in Nat
  BY Sizes DEF IndInv, OpenInv
<1>2. file[Len(projection)].seq = Len(projection) - 1
  <2>1. file # << >>
    BY <1>1
  <2> QED BY <2>1, <1>1 DEF IndInv, DiskInv, LogStaysValid, ValidStream
<1> QED BY <1>1, <1>2 DEF FirstSeq

LEMMA BeginAppendInv ==
    ASSUME IndInv, NEW t \in Tasks, NEW k \in Nat \ {0},
           NEW op \in {"append", "append_and_sync"}, BeginAppend(t, op, k),
           sync_events' = (IF op = "append" THEN sync_events
                           ELSE sync_events \cup ((issued + 1)..(issued + k)))
    PROVE  IndInv'
<1> DEFINE b == Prepared(k)
           n == Len(projection)
           step == [op |-> op, phase |-> "append", batch |-> b, through_seq |-> 0]
<1>a. /\ opened /\ uncertain.kind = "None" /\ acquire_commit_lane(t) /\ Enter(t, step)
      /\ FirstSeq = n /\ next_seq = n
  BY FirstSeqIsLength DEF BeginAppend, acquire_confirmed_commit_lane, acquire_commit_lane,
     ensure_no_uncertain_durability, LogPositioned
<1>s. /\ n \in Nat /\ issued \in Nat /\ Len(file) \in Nat
      /\ \A i \in 1..Len(file) : file[i].ev \in Nat /\ file[i].ev <= issued
      /\ \A i \in 1..n : projection[i] = file[i] /\ n <= Len(file)
      /\ sync_events \subseteq 1..issued /\ rolled_back \subseteq 1..issued
      /\ \A i \in 1..n : projection[i].ev \in sync_events => i <= stable
  BY <1>a, Sizes DEF IndInv, HistoryInv, OpenInv, VisibleOnlyWhenDurable
<1>b. /\ b \in Seq(Record) /\ Len(b) = k
      /\ \A i \in 1..k : b[i] = [seq |-> n + i - 1, ev |-> issued + i]
  <2>1. b = [i \in 1..k |-> [seq |-> n + i - 1, ev |-> issued + i]]
    BY <1>a DEF Prepared
  <2>2. \A i \in 1..k : [seq |-> n + i - 1, ev |-> issued + i] \in Record
    BY <1>s DEF Record
  <2> HIDE DEF b
  <2> QED BY <2>1, <2>2
<1>u. /\ exists' = exists /\ torn' = torn /\ stable' = stable /\ opened' = opened
      /\ poisoned' = poisoned /\ file' = file /\ uncertain' = uncertain
      /\ projection' = projection /\ rolled_back' = rolled_back
      /\ reported' = reported /\ confirmed' = confirmed
      /\ next_seq' = next_seq /\ dirty' = dirty /\ issued' = issued + k
  BY DEF BeginAppend, disk, writer
<1> HIDE DEF b
<1>t. /\ commit_lane' \in Tasks /\ commit_lane' # NoTask
      /\ task' \in [Tasks -> TaskState] /\ task'[t] = step
      /\ LaneInv' /\ (AtPhase(t)' => PhaseInv')
  <2>1. step \in TaskState /\ step.phase # "idle"
    BY <1>b DEF TaskState, Ops, Phases
  <2> QED BY <2>1, <1>a, <1>u, EnterLane
<1>e. sync_events' \subseteq 1..issued'
  BY <1>s, <1>u
<1>2. TypeOK'
  <2>1. Flags'
    BY <1>u, Zenon DEF IndInv, TypeOK, Flags
  <2>2. sync_events' \subseteq Nat /\ issued' \in Nat
    BY <1>e, <1>s, <1>u
  <2> QED BY <2>1, <2>2, <1>u, <1>t DEF IndInv, TypeOK
<1>3. MarkerInv' /\ DiskInv'
  BY <1>a, <1>u DEF IndInv, MarkerInv, DiskInv, LogStaysValid, ValidStream
<1>4. OpenInv'
  BY <1>a, <1>u, <1>t DEF IndInv, OpenInv
<1>5. PhaseInv'
  <2>1. \A i \in 1..k : /\ b[i].seq = n + i - 1
                        /\ b[i].ev = issued + i
    BY <1>b
  <2>2. Fresh(task[t].batch)'
    <3>1. \A i \in 1..k : /\ b[i].ev \in 1..issued'
                          /\ b[i].ev \notin rolled_back
                          /\ \A j \in 1..Len(file) : file[j].ev # b[i].ev
      BY <2>1, <1>s, <1>u
    <3>2. task'[t].batch = b
      BY <1>t
    <3> QED BY <3>1, <3>2, <2>1, <1>b, <1>u DEF Fresh
  <2>3. op = "append" => EventsOf(task'[t].batch) \cap sync_events' = {}
    BY <2>1, <1>b, <1>s, <1>t DEF EventsOf
  <2>4. Positioned'
    BY <1>a, <1>u DEF Positioned
  <2>5. task'[t].op = op /\ task'[t].phase = "append"
    BY <1>t
  <2> QED BY <2>2, <2>3, <2>4, <2>5, <1>a, <1>u, <1>t DEF AtPhase, EventsOf
<1>6. HistoryInv'
  <2>1. \A i \in 1..Len(file) : file[i].ev <= issued' /\ rolled_back \subseteq 1..issued'
    BY <1>s, <1>u
  <2>2. \A i \in 1..n : projection[i].ev \in sync_events' => projection[i].ev \in sync_events
    BY <1>s
  <2>3. VisibleOnlyWhenDurable'
    BY <2>2, <1>s, <1>u DEF VisibleOnlyWhenDurable
  <2> QED BY <2>1, <2>3, <1>e, <1>s, <1>u DEF IndInv, HistoryInv, ConfirmedSurvives
<1> QED BY <1>t, <1>2, <1>3, <1>4, <1>5, <1>6 DEF IndInv

\* The log after the first k records of the batch were written.
Grown(t, k) == file \o SubSeq(task[t].batch, 1, k)

\* A log that grows by a prefix of the batch being written keeps its shape:
\* it stays valid, keeps its confirmed records and holds no rolled back event.
LEMMA GrowingLog ==
    ASSUME IndInv, NEW t \in Tasks, task[t].phase = "append", WriterAccepts(task[t].batch),
           NEW k \in 0..Len(task[t].batch)
    PROVE  /\ Grown(t, k) \in Seq(Record) /\ Len(Grown(t, k)) = Len(file) + k
           /\ \A i \in 1..Len(file) : Grown(t, k)[i] = file[i]
           /\ ValidStream(Grown(t, k))
           /\ \A i \in 1..Len(Grown(t, k)) :
                 Grown(t, k)[i].ev <= issued /\ Grown(t, k)[i].ev \notin rolled_back
<1> DEFINE b == task[t].batch
           n == Len(file)
           g == Grown(t, k)
<1>a. /\ b \in Seq(Record) /\ Len(b) \in Nat /\ k \in Nat /\ k <= Len(b)
      /\ next_seq = n /\ 1 <= n
  BY AppendFacts DEF IndInv, OpenInv, WriterAccepts
<1>b. \A i \in 1..k : /\ b[i].seq = n + i - 1
                      /\ b[i].ev \in 1..issued
                      /\ b[i].ev \notin rolled_back
  <2> SUFFICES ASSUME NEW i \in 1..k
               PROVE  b[i].seq = n + i - 1 /\ b[i].ev \in 1..issued /\ b[i].ev \notin rolled_back
    OBVIOUS
  <2>1. \A m \in 1..Len(b) : /\ b[m].seq = next_seq + m - 1
                             /\ b[m].ev \in 1..issued
                             /\ b[m].ev \notin rolled_back
    BY AppendFacts
  <2>2. i \in 1..Len(b)
    BY <1>a
  <2> HIDE DEF b, n
  <2> QED BY <2>1, <2>2, <1>a
<1>s. /\ file \in Seq(Record) /\ n \in Nat /\ issued \in Nat
      /\ file[1].ev = 0
      /\ \A i \in 1..n : file[i].seq = i - 1 /\ (i > 1 => file[i].ev # 0)
      /\ \A i \in 1..n : file[i].ev <= issued /\ file[i].ev \notin rolled_back
  <2>1. file # << >> /\ file \in Seq(Record) /\ n \in Nat /\ issued \in Nat
    BY <1>a, Sizes
  <2> QED BY <2>1 DEF IndInv, DiskInv, LogStaysValid, ValidStream, HistoryInv
<1>f. /\ g \in Seq(Record) /\ Len(g) = n + k
      /\ \A i \in 1..n : g[i] = file[i]
      /\ \A i \in 1..Len(g) :
            \/ i \in 1..n /\ g[i] = file[i]
            \/ i - n \in 1..k /\ g[i] = b[i - n]
  BY <1>a, <1>s, GrownLog DEF Grown
<1> HIDE DEF b, n, g
<1>1. \A i \in 1..Len(g) : g[i].seq = i - 1 /\ (i > 1 => g[i].ev # 0)
  <2> SUFFICES ASSUME NEW i \in 1..Len(g)
               PROVE  g[i].seq = i - 1 /\ (i > 1 => g[i].ev # 0)
    OBVIOUS
  <2>1. CASE i \in 1..n /\ g[i] = file[i]
    BY <2>1, <1>s
  <2>2. CASE i - n \in 1..k /\ g[i] = b[i - n]
    <3>1. b[i - n].seq = n + (i - n) - 1 /\ b[i - n].ev \in 1..issued
      BY <2>2, <1>b
    <3> QED BY <3>1, <2>2, <1>s, <1>f
  <2> QED BY <2>1, <2>2, <1>f
<1>2. \A i \in 1..Len(g) : g[i].ev <= issued /\ g[i].ev \notin rolled_back
  <2> SUFFICES ASSUME NEW i \in 1..Len(g)
               PROVE  g[i].ev <= issued /\ g[i].ev \notin rolled_back
    OBVIOUS
  <2>1. CASE i \in 1..n /\ g[i] = file[i]
    BY <2>1, <1>s
  <2>2. CASE i - n \in 1..k /\ g[i] = b[i - n]
    <3>1. b[i - n].ev \in 1..issued /\ b[i - n].ev \notin rolled_back
      BY <2>2, <1>b
    <3> QED BY <3>1, <2>2, <1>s
  <2> QED BY <2>1, <2>2, <1>f
<1>3. g[1].ev = 0 /\ g # << >>
  BY <1>a, <1>f, <1>s
<1> QED BY <1>1, <1>2, <1>3, <1>f DEF ValidStream, n, g

LEMMA AppendPoisonsInv ==
    ASSUME IndInv, NEW t \in Tasks, append_poisons(t)
    PROVE  IndInv'
<1>1. PICK k \in 0..(Len(task[t].batch) - 1) : file' = file \o SubSeq(task[t].batch, 1, k)
  BY DEF append_poisons
<1>a. /\ task[t].phase = "append" /\ WriterAccepts(task[t].batch)
      /\ opened /\ uncertain.kind = "None" /\ next_seq = Len(projection)
      /\ k \in 0..Len(task[t].batch)
  BY <1>1, AppendFacts DEF append_poisons
<1>f. /\ file' \in Seq(Record) /\ Len(file') = Len(file) + k /\ k \in Nat
      /\ \A i \in 1..Len(file) : file'[i] = file[i]
      /\ ValidStream(file')
      /\ \A i \in 1..Len(file') : file'[i].ev <= issued /\ file'[i].ev \notin rolled_back
  <2>1. file' = Grown(t, k) /\ k \in Nat
    BY <1>1, <1>a DEF Grown
  <2> QED BY <2>1, <1>a, GrowingLog
<1>u. /\ exists' = exists /\ stable' = stable /\ opened' = opened
      /\ projection' = projection /\ uncertain' = uncertain
      /\ issued' = issued /\ sync_events' = sync_events /\ rolled_back' = rolled_back
      /\ reported' = reported /\ confirmed' = confirmed
      /\ next_seq' = next_seq /\ dirty' = dirty
      /\ torn' \in BOOLEAN /\ poisoned' = TRUE
  BY DEF append_poisons, history
<1>s. /\ Len(file) \in Nat /\ stable \in Nat /\ stable <= Len(file)
      /\ \A r \in confirmed : r.seq \in Nat
      /\ next_seq \in Nat /\ Len(projection) \in Nat
  BY Sizes
<1>t. /\ commit_lane' = NoTask /\ task' \in [Tasks -> TaskState] /\ LaneInv' /\ PhaseInv'
  BY ReleaseLane DEF append_poisons
<1>2. TypeOK'
  <2>1. Flags'
    BY <1>u, Zenon DEF IndInv, TypeOK, Flags
  <2> QED BY <2>1, <1>f, <1>u, <1>t DEF IndInv, TypeOK
<1>3. MarkerInv'
  BY <1>a, <1>u DEF IndInv, MarkerInv
<1>4. DiskInv'
  BY <1>a, <1>f, <1>s, <1>u DEF IndInv, OpenInv, DiskInv, LogStaysValid, ValidStream
<1>5. OpenInv'
  <2>1. /\ exists /\ 1 <= Len(projection) /\ Len(projection) <= Len(file)
        /\ ~dirty => stable >= next_seq
        /\ \A i \in 1..Len(projection) : projection[i] = file[i]
    BY <1>a, <1>s DEF IndInv, OpenInv
  <2>2. \A i \in 1..Len(projection) : projection[i] = file'[i]
    BY <2>1, <1>f, <1>s
  <2>3. Len(projection) <= Len(file')
    BY <2>1, <1>f, <1>s
  <2> QED BY <2>1, <2>2, <2>3, <1>a, <1>f, <1>u, <1>s DEF OpenInv, Positioned
<1>6. HistoryInv'
  <2>1. ConfirmedSurvives'
    BY <1>f, <1>s, <1>u, ConfirmedGrows
  <2> QED BY <2>1, <1>f, <1>u DEF IndInv, HistoryInv, VisibleOnlyWhenDurable
<1> QED BY <1>t, <1>2, <1>3, <1>4, <1>5, <1>6 DEF IndInv

LEMMA SetUncertainInv ==
    ASSUME IndInv, NEW t \in Tasks, set_uncertain(t)
    PROVE  IndInv'
<1> DEFINE b == task[t].batch
           th == b[Len(b)].seq
<1>a. /\ task[t] \in TaskState /\ b \in Seq(Record) /\ Pending(b)
      /\ commit_lane = t /\ commit_lane # NoTask /\ opened
      /\ \A u \in Tasks \ {t} : task[u] = Idle
  <2>1. /\ task[t] \in TaskState /\ AtPhase(t) /\ commit_lane = t /\ commit_lane # NoTask /\ opened
        /\ \A u \in Tasks \ {t} : task[u] = Idle
    BY HoldsLane DEF IndInv, PhaseInv, set_uncertain
  <2> QED BY <2>1 DEF TaskState, AtPhase, set_uncertain
<1>s. /\ Len(projection) \in Nat /\ Len(b) \in Nat /\ next_seq = Len(projection) + Len(b)
      /\ Len(b) > 0 /\ next_seq <= Len(file) /\ Len(file) \in Nat
      /\ b[Len(b)] = file[Len(projection) + Len(b)]
  <2>1. /\ Len(b) \in Nat /\ Len(projection) \in Nat /\ Len(file) \in Nat
        /\ Len(b) > 0 /\ next_seq = Len(projection) + Len(b)
    BY <1>a, Sizes DEF Pending
  <2>2. b[Len(b)] = file[Len(projection) + Len(b)]
    BY <1>a, <2>1 DEF Pending
  <2>3. next_seq <= Len(file)
    BY <1>a DEF IndInv, OpenInv
  <2> QED BY <2>1, <2>2, <2>3
<1>h. th = next_seq - 1 /\ th \in Nat
  <2>1. file # << >> /\ next_seq \in 1..Len(file)
    BY <1>s
  <2>2. file[next_seq].seq = next_seq - 1
    BY <2>1 DEF IndInv, DiskInv, LogStaysValid, ValidStream
  <2> QED BY <2>2, <1>s
<1>u. /\ exists' = exists /\ torn' = torn /\ stable' = stable /\ opened' = opened
      /\ poisoned' = poisoned /\ projection' = projection /\ file' = file
      /\ issued' = issued /\ sync_events' = sync_events /\ rolled_back' = rolled_back
      /\ reported' = reported /\ confirmed' = confirmed /\ commit_lane' = commit_lane
      /\ next_seq' = next_seq /\ dirty' = dirty
      /\ uncertain' = [kind |-> "PendingProjection", batch |-> b, through_seq |-> th]
      /\ task' = [task EXCEPT ![t].phase = "sync", ![t].through_seq = th]
  BY DEF set_uncertain, disk, writer, history
<1> HIDE DEF th, b
<1>t. /\ \A u \in Tasks \ {t} : task'[u] = Idle
      /\ task'[t] = [task[t] EXCEPT !.phase = "sync", !.through_seq = th]
  BY <1>a, <1>u DEF IndInv, TypeOK
<1>p. /\ task'[t] \in TaskState /\ task'[t].phase = "sync" /\ task'[t].through_seq = th
  BY <1>a, <1>t, <1>h DEF TaskState, Phases
<1>2. TypeOK'
  <2>1. Flags'
    BY <1>u, Zenon DEF IndInv, TypeOK, Flags
  <2>2. uncertain' \in Marker
    BY <1>a, <1>h, <1>u DEF Marker, MarkerKinds
  <2>3. task' \in [Tasks -> TaskState]
    BY <1>t, <1>p, <1>u, IdleState DEF IndInv, TypeOK
  <2> QED BY <2>1, <2>2, <2>3, <1>u DEF IndInv, TypeOK
<1>3. LaneInv'
  BY <1>a, <1>t, <1>p, <1>u, IdleState DEF LaneInv
<1>4. PhaseInv'
  <2>1. AtPhase(t)'
    BY <1>p, <1>u DEF AtPhase, MarkerFor
  <2>2. \A u \in Tasks \ {t} : AtPhase(u)'
    BY <1>t, IdleState DEF AtPhase
  <2> QED BY <2>1, <2>2 DEF PhaseInv
<1>5. MarkerInv'
  <2>1. Pending(uncertain.batch)'
    BY <1>a, <1>u DEF Pending
  <2> QED BY <2>1, <1>a, <1>h, <1>u DEF MarkerInv
<1>6. OpenInv' /\ DiskInv'
  BY <1>a, <1>u DEF IndInv, OpenInv, DiskInv, LogStaysValid, ValidStream
<1>7. HistoryInv'
  <2>1. \A r \in reported : r < stable
    BY DEF IndInv, PhaseInv, AtPhase, HistoryInv, set_uncertain
  <2> QED BY <2>1, <1>u DEF IndInv, HistoryInv, ConfirmedSurvives, VisibleOnlyWhenDurable
<1> QED BY <1>2, <1>3, <1>4, <1>5, <1>6, <1>7 DEF IndInv

LEMMA SyncDurableEventsInv ==
    ASSUME IndInv, NEW t \in Tasks, sync_durable_events(t)
    PROVE  IndInv'
<1> DEFINE step == [op |-> "sync", phase |-> "sync", batch |-> << >>, through_seq |-> next_seq - 1]
<1>a. /\ acquire_commit_lane(t) /\ opened /\ uncertain.kind = "None" /\ Positioned
      /\ Enter(t, step) /\ next_seq - 1 \in Nat /\ next_seq \in Nat
  <2>1. /\ acquire_commit_lane(t) /\ opened /\ uncertain.kind = "None" /\ commit_lane = NoTask
        /\ Enter(t, step)
    BY DEF sync_durable_events, acquire_confirmed_commit_lane, acquire_commit_lane,
       ensure_no_uncertain_durability
  <2> QED BY <2>1, Sizes DEF IndInv, OpenInv
<1>u. /\ exists' = exists /\ torn' = torn /\ stable' = stable /\ opened' = opened
      /\ poisoned' = poisoned /\ projection' = projection /\ file' = file
      /\ issued' = issued /\ sync_events' = sync_events /\ rolled_back' = rolled_back
      /\ reported' = reported /\ confirmed' = confirmed
      /\ next_seq' = next_seq /\ dirty' = dirty
      /\ uncertain' = [kind |-> "Published", batch |-> << >>, through_seq |-> next_seq - 1]
  BY DEF sync_durable_events, disk, writer, history
<1>t. /\ commit_lane' = t /\ commit_lane' # NoTask
      /\ task' \in [Tasks -> TaskState] /\ task'[t] = step
      /\ LaneInv' /\ (AtPhase(t)' => PhaseInv')
  <2>1. step \in TaskState /\ step.phase # "idle"
    BY <1>a DEF TaskState, Ops, Phases
  <2> QED BY <2>1, <1>a, <1>u, EnterLane
<1>2. TypeOK'
  <2>1. Flags'
    BY <1>u, Zenon DEF IndInv, TypeOK, Flags
  <2>2. uncertain' \in Marker
    BY <1>a, <1>u DEF Marker, MarkerKinds
  <2> QED BY <2>1, <2>2, <1>u, <1>t DEF IndInv, TypeOK
<1>3. PhaseInv'
  BY <1>t, <1>u DEF AtPhase, MarkerFor
<1>4. MarkerInv'
  BY <1>a, <1>u DEF MarkerInv, Positioned
<1>5. OpenInv' /\ DiskInv'
  BY <1>a, <1>u, <1>t DEF IndInv, OpenInv, DiskInv, LogStaysValid, ValidStream
<1>6. HistoryInv'
  <2>1. \A r \in reported : r < stable
    BY <1>a DEF IndInv, HistoryInv
  <2> QED BY <2>1, <1>u DEF IndInv, HistoryInv, ConfirmedSurvives, VisibleOnlyWhenDurable
<1> QED BY <1>t, <1>2, <1>3, <1>4, <1>5, <1>6 DEF IndInv

LEMMA RetryInv ==
    ASSUME IndInv, NEW t \in Tasks, NEW through \in reported, retry_uncertain_sync(t, through)
    PROVE  IndInv'
<1> DEFINE step == [op |-> "retry", phase |-> "sync", batch |-> << >>, through_seq |-> through]
<1>a. /\ acquire_commit_lane(t) /\ opened /\ Enter(t, step) /\ through \in Nat
      /\ uncertain.kind # "None" /\ uncertain.through_seq = through
  BY DEF IndInv, TypeOK, retry_uncertain_sync, acquire_commit_lane, RetryMatches
<1>u. /\ exists' = exists /\ torn' = torn /\ stable' = stable /\ opened' = opened
      /\ poisoned' = poisoned /\ projection' = projection /\ file' = file
      /\ issued' = issued /\ sync_events' = sync_events /\ rolled_back' = rolled_back
      /\ reported' = reported /\ confirmed' = confirmed
      /\ next_seq' = next_seq /\ dirty' = dirty /\ uncertain' = uncertain
  BY DEF retry_uncertain_sync, disk, writer, history
<1>t. /\ commit_lane' = t /\ commit_lane' # NoTask
      /\ task' \in [Tasks -> TaskState] /\ task'[t] = step
      /\ LaneInv' /\ (AtPhase(t)' => PhaseInv')
  <2>1. step \in TaskState /\ step.phase # "idle"
    BY <1>a DEF TaskState, Ops, Phases
  <2> QED BY <2>1, <1>a, <1>u, EnterLane
<1>2. TypeOK'
  <2>1. Flags'
    BY <1>u, Zenon DEF IndInv, TypeOK, Flags
  <2> QED BY <2>1, <1>u, <1>t DEF IndInv, TypeOK
<1>3. PhaseInv'
  BY <1>a, <1>t, <1>u DEF AtPhase, MarkerFor
<1>4. MarkerInv'
  BY <1>u DEF IndInv, MarkerInv, Pending, Positioned
<1>5. OpenInv' /\ DiskInv'
  BY <1>a, <1>u, <1>t DEF IndInv, OpenInv, DiskInv, LogStaysValid, ValidStream
<1>6. HistoryInv'
  BY <1>u DEF IndInv, HistoryInv, ConfirmedSurvives, VisibleOnlyWhenDurable
<1> QED BY <1>t, <1>2, <1>3, <1>4, <1>5, <1>6 DEF IndInv

\* Facts that only depend on what a step leaves alone.
Untouched ==
    /\ exists' = exists /\ file' = file /\ opened' = opened /\ next_seq' = next_seq
    /\ poisoned' = poisoned /\ issued' = issued /\ sync_events' = sync_events
    /\ rolled_back' = rolled_back

LEMMA RetryAlreadyConfirmedInv ==
    ASSUME IndInv, NEW t \in Tasks, NEW through \in reported, retry_already_confirmed(t, through)
    PROVE  IndInv'
<1>a. /\ opened /\ uncertain.kind = "None" /\ through \in Nat /\ next_seq = through + 1
      /\ through < stable
  BY DEF IndInv, TypeOK, HistoryInv, retry_already_confirmed, acquire_commit_lane
<1>u. /\ Untouched /\ torn' = torn /\ stable' = stable /\ projection' = projection
      /\ reported' = reported /\ dirty' = dirty /\ uncertain' = uncertain
      /\ commit_lane' = commit_lane /\ task' = task
      /\ confirmed' = confirmed \cup UpTo(projection, through)
  BY DEF retry_already_confirmed, disk, writer, Untouched
<1>s. /\ file \in Seq(Record) /\ projection \in Seq(Record)
      /\ Len(file) \in Nat /\ Len(projection) \in Nat
      /\ stable \in Nat /\ stable <= Len(file) /\ Len(projection) <= Len(file)
      /\ \A i \in 1..Len(projection) : projection[i] = file[i]
      /\ \A i \in 1..Len(file) : file[i] \in Record /\ file[i].seq = i - 1
  <2>1. /\ file \in Seq(Record) /\ projection \in Seq(Record)
        /\ Len(file) \in Nat /\ Len(projection) \in Nat /\ next_seq \in Nat
        /\ stable \in Nat /\ stable <= Len(file)
        /\ \A i \in 1..Len(file) : file[i] \in Record
    BY Sizes
  <2>2. /\ Len(projection) <= next_seq /\ next_seq <= Len(file) /\ 1 <= Len(projection)
        /\ \A i \in 1..Len(projection) : projection[i] = file[i]
    BY <1>a DEF IndInv, OpenInv
  <2>3. file # << >>
    BY <2>1, <2>2
  <2>4. \A i \in 1..Len(file) : file[i].seq = i - 1
    BY <2>3 DEF IndInv, DiskInv, LogStaysValid, ValidStream
  <2> QED BY <2>1, <2>2, <2>4
<1>c. \A r \in UpTo(projection, through) : r \in Record /\ r.seq < stable /\ file[r.seq + 1] = r
  <2> SUFFICES ASSUME NEW r \in UpTo(projection, through)
               PROVE  r \in Record /\ r.seq < stable /\ file[r.seq + 1] = r
    OBVIOUS
  <2>1. PICK i \in 1..Len(projection) : r = projection[i] /\ r.seq <= through
    BY DEF UpTo, Records
  <2>2. i \in 1..Len(file) /\ r = file[i] /\ r.seq = i - 1
    BY <2>1, <1>s
  <2>3. r.seq + 1 = i
    BY <2>2
  <2> QED BY <2>1, <2>2, <2>3, <1>a, <1>s
<1>2. TypeOK'
  <2>1. Flags'
    BY <1>u, Zenon DEF IndInv, TypeOK, Flags, Untouched
  <2> QED BY <2>1, <1>u, <1>c DEF IndInv, TypeOK, Untouched
<1>3. LaneInv' /\ PhaseInv'
  BY <1>u DEF IndInv, LaneInv, PhaseInv, AtPhase, Pending, Positioned, Fresh, MarkerFor,
     EventsOf, Untouched
<1>4. MarkerInv' /\ OpenInv' /\ DiskInv'
  BY <1>u DEF IndInv, MarkerInv, OpenInv, DiskInv, Pending, Positioned, LogStaysValid,
     ValidStream, Untouched
<1>5. HistoryInv'
  <2>1. ConfirmedSurvives'
    BY <1>c, <1>s, <1>u DEF IndInv, HistoryInv, ConfirmedSurvives, Untouched
  <2> QED BY <2>1, <1>u DEF IndInv, HistoryInv, VisibleOnlyWhenDurable, Untouched
<1> QED BY <1>2, <1>3, <1>4, <1>5 DEF IndInv

LEMMA FlushAndSyncInv ==
    ASSUME IndInv, NEW t \in Tasks, flush_and_sync(t)
    PROVE  IndInv'
<1>a. /\ task[t].phase = "sync" /\ opened /\ MarkerFor(t)
  BY HoldsLane DEF IndInv, PhaseInv, AtPhase, flush_and_sync
<1>u. /\ Untouched /\ torn' = torn /\ projection' = projection
      /\ reported' = reported /\ confirmed' = confirmed /\ uncertain' = uncertain
      /\ dirty' = FALSE /\ stable' = IF dirty THEN Len(file) ELSE stable
  BY DEF flush_and_sync, history, Untouched
<1>t. /\ commit_lane' = commit_lane /\ commit_lane' # NoTask /\ task' \in [Tasks -> TaskState]
      /\ task'[t].phase = "synced" /\ task'[t].through_seq = task[t].through_seq
      /\ LaneInv' /\ (AtPhase(t)' => PhaseInv')
  BY <1>a, <1>u, MoveOn DEF flush_and_sync, Phases, Untouched
<1>s. /\ Len(file) \in Nat /\ stable \in Nat /\ stable <= Len(file)
      /\ next_seq \in Nat /\ next_seq <= Len(file)
      /\ \A r \in confirmed : r.seq \in Nat
  BY <1>a, Sizes DEF IndInv, OpenInv
<1>g. stable' \in Nat /\ stable <= stable' /\ stable' <= Len(file) /\ next_seq <= stable'
  <2>1. CASE dirty
    BY <2>1, <1>u, <1>s
  <2>2. CASE ~dirty
    BY <2>2, <1>a, <1>u, <1>s DEF IndInv, OpenInv
  <2> QED BY <2>1, <2>2
<1>2. TypeOK'
  <2>1. Flags'
    BY <1>u, Zenon DEF IndInv, TypeOK, Flags, Untouched
  <2> QED BY <2>1, <1>u, <1>t, <1>g DEF IndInv, TypeOK, Untouched
<1>3. PhaseInv'
  BY <1>a, <1>t, <1>u, <1>g DEF AtPhase, MarkerFor, Untouched
<1>4. MarkerInv' /\ DiskInv'
  BY <1>u, <1>g DEF IndInv, MarkerInv, DiskInv, Pending, Positioned, LogStaysValid,
     ValidStream, Untouched
<1>5. OpenInv'
  BY <1>a, <1>u, <1>t, <1>g DEF IndInv, OpenInv, Untouched
<1>6. HistoryInv'
  <2>1. ConfirmedSurvives'
    BY <1>u, <1>g, <1>s DEF IndInv, HistoryInv, ConfirmedSurvives, Untouched
  <2>2. VisibleOnlyWhenDurable'
    <3>1. Len(projection) \in Nat
      BY Sizes
    <3> QED BY <3>1, <1>u, <1>g, <1>s DEF IndInv, HistoryInv, VisibleOnlyWhenDurable, Untouched
  <2>3. reported \subseteq Nat
    BY DEF IndInv, TypeOK
  <2> QED BY <2>1, <2>2, <2>3, <1>u, <1>g, <1>s DEF IndInv, HistoryInv, Untouched
<1> QED BY <1>t, <1>2, <1>3, <1>4, <1>5, <1>6 DEF IndInv

LEMMA FlushAndSyncFailsInv ==
    ASSUME IndInv, NEW t \in Tasks, flush_and_sync_fails(t)
    PROVE  IndInv'
<1>a. /\ task[t].phase = "sync" /\ opened /\ dirty /\ task[t] \in TaskState
      /\ uncertain.kind # "None" /\ uncertain.through_seq = task[t].through_seq
  BY HoldsLane DEF IndInv, PhaseInv, AtPhase, MarkerFor, flush_and_sync_fails
<1>u. /\ Untouched /\ torn' = torn /\ projection' = projection
      /\ confirmed' = confirmed /\ uncertain' = uncertain /\ dirty' = dirty
      /\ reported' = reported \cup {task[t].through_seq}
      /\ stable' \in stable..Len(file)
  BY DEF flush_and_sync_fails, Untouched, DirtyAfterFailedSync
<1>t. /\ commit_lane' = NoTask /\ task' \in [Tasks -> TaskState] /\ LaneInv' /\ PhaseInv'
  BY <1>a, ReleaseLane DEF flush_and_sync_fails
<1>s. /\ Len(file) \in Nat /\ stable \in Nat /\ Len(projection) \in Nat
      /\ \A r \in confirmed : r.seq \in Nat
  BY Sizes
<1>g. stable' \in Nat /\ stable <= stable' /\ stable' <= Len(file)
  BY <1>u, <1>s
<1>r. reported \subseteq Nat /\ task[t].through_seq \in Nat
  BY <1>a DEF IndInv, TypeOK, TaskState
<1>2. TypeOK'
  <2>1. Flags'
    BY <1>u, Zenon DEF IndInv, TypeOK, Flags, Untouched
  <2> QED BY <2>1, <1>u, <1>t, <1>g, <1>r DEF IndInv, TypeOK, Untouched
<1>4. MarkerInv' /\ DiskInv'
  BY <1>u, <1>g DEF IndInv, MarkerInv, DiskInv, Pending, Positioned, LogStaysValid,
     ValidStream, Untouched
<1>5. OpenInv'
  BY <1>a, <1>u, <1>t, <1>g DEF IndInv, OpenInv, Untouched
<1>6. HistoryInv'
  <2>1. ConfirmedSurvives'
    BY <1>u, <1>g, <1>s DEF IndInv, HistoryInv, ConfirmedSurvives, Untouched
  <2>2. VisibleOnlyWhenDurable'
    BY <1>u, <1>g, <1>s DEF IndInv, HistoryInv, VisibleOnlyWhenDurable, Untouched
  <2>3. \A s \in reported' : s < stable' \/ (uncertain'.kind # "None" /\ uncertain'.through_seq = s)
    BY <1>a, <1>u, <1>g, <1>s, <1>r DEF IndInv, HistoryInv
  <2> QED BY <2>1, <2>2, <2>3, <1>u DEF IndInv, HistoryInv, Untouched
<1> QED BY <1>t, <1>2, <1>4, <1>5, <1>6 DEF IndInv

\* A record of a valid log is found again at its own seq.
LEMMA ValidIndex ==
    ASSUME IndInv, opened
    PROVE  /\ Len(file) \in Nat /\ Len(projection) \in Nat /\ next_seq \in Nat
           /\ stable \in Nat /\ stable <= Len(file)
           /\ 1 <= Len(projection) /\ Len(projection) <= next_seq /\ next_seq <= Len(file)
           /\ file \in Seq(Record) /\ projection \in Seq(Record)
           /\ \A i \in 1..Len(projection) : projection[i] = file[i]
           /\ \A i \in 1..Len(file) : file[i] \in Record /\ file[i].seq = i - 1
<1>1. /\ file \in Seq(Record) /\ projection \in Seq(Record)
      /\ Len(file) \in Nat /\ Len(projection) \in Nat /\ next_seq \in Nat
      /\ stable \in Nat /\ stable <= Len(file)
      /\ \A i \in 1..Len(file) : file[i] \in Record
  BY Sizes
<1>2. /\ Len(projection) <= next_seq /\ next_seq <= Len(file) /\ 1 <= Len(projection)
      /\ \A i \in 1..Len(projection) : projection[i] = file[i]
  BY DEF IndInv, OpenInv
<1>3. file # << >>
  BY <1>1, <1>2
<1>4. \A i \in 1..Len(file) : file[i].seq = i - 1
  BY <1>3 DEF IndInv, DiskInv, LogStaysValid, ValidStream
<1> QED BY <1>1, <1>2, <1>4

LEMMA ApplyConfirmedProjectionInv ==
    ASSUME IndInv, NEW t \in Tasks, apply_confirmed_projection(t)
    PROVE  IndInv'
<1> DEFINE b == uncertain.batch
           m == Len(b)
           p == Len(projection)
<1>a. /\ task[t].phase = "synced" /\ opened /\ uncertain.kind # "None"
      /\ uncertain.through_seq = task[t].through_seq
      /\ stable >= next_seq /\ uncertain \in Marker /\ uncertain.through_seq = next_seq - 1
  BY HoldsLane DEF IndInv, TypeOK, PhaseInv, AtPhase, MarkerFor, MarkerInv,
     apply_confirmed_projection
<1>v. /\ Len(file) \in Nat /\ p \in Nat /\ next_seq \in Nat
      /\ stable \in Nat /\ stable <= Len(file)
      /\ 1 <= p /\ p <= next_seq /\ next_seq <= Len(file)
      /\ file \in Seq(Record) /\ projection \in Seq(Record)
      /\ \A i \in 1..p : projection[i] = file[i]
      /\ \A i \in 1..Len(file) : file[i] \in Record /\ file[i].seq = i - 1
  BY <1>a, ValidIndex
<1>b. /\ b \in Seq(Record) /\ m \in Nat /\ next_seq = p + m
      /\ \A i \in 1..m : file[p + i] = b[i]
      /\ uncertain.kind = "PendingProjection" => m > 0
  <2>1. b \in Seq(Record) /\ m \in Nat /\ uncertain.kind \in MarkerKinds
    BY <1>a DEF Marker
  <2>2. CASE uncertain.kind = "PendingProjection"
    BY <2>1, <2>2 DEF IndInv, MarkerInv, Pending
  <2>3. CASE uncertain.kind = "Published"
    BY <2>1, <2>3, <1>v DEF IndInv, MarkerInv, Positioned
  <2> QED BY <2>1, <2>2, <2>3, <1>a DEF MarkerKinds
<1>k. /\ MarkerFor(t)
      /\ uncertain.kind = "PendingProjection"
            => next_seq = uncertain.through_seq + 1 /\ FirstSeq = b[1].seq
  <2>1. MarkerFor(t) /\ next_seq = uncertain.through_seq + 1
    BY <1>a, <1>v DEF MarkerFor
  <2>2. FirstSeq = p
    BY <1>v DEF FirstSeq
  <2>3. ASSUME uncertain.kind = "PendingProjection" PROVE b[1].seq = p
    <3>1. m > 0 /\ file[p + 1] = b[1] /\ p + 1 \in 1..Len(file)
      BY <2>3, <1>b, <1>v
    <3>2. file[p + 1].seq = p
      BY <3>1, <1>v
    <3> QED BY <3>1, <3>2
  <2> QED BY <2>1, <2>2, <2>3
<1>u. /\ Untouched /\ torn' = torn /\ stable' = stable /\ dirty' = dirty
      /\ reported' = reported /\ uncertain' = NoMarker
      /\ projection' = projection \o b
      /\ confirmed' = confirmed \cup UpTo(projection', uncertain.through_seq)
  BY <1>k DEF apply_confirmed_projection, disk, writer, Untouched, MarkerAfterConfirmation
<1>t. /\ commit_lane' = NoTask /\ task' \in [Tasks -> TaskState] /\ LaneInv' /\ PhaseInv'
  BY <1>a, ReleaseLane DEF apply_confirmed_projection
<1>f. /\ projection' \in Seq(Record)
      /\ Len(projection') = p + m
      /\ \A i \in 1..p : projection'[i] = projection[i]
      /\ \A i \in 1..Len(projection') :
            \/ i \in 1..p /\ projection'[i] = projection[i]
            \/ i - p \in 1..m /\ projection'[i] = b[i - p]
  BY <1>b, <1>v, <1>u, WholeBatch
<1> HIDE DEF b, m, p
<1>g. \A i \in 1..Len(projection') : projection'[i] = file[i] /\ i \in 1..Len(file) /\ i <= stable
  <2> SUFFICES ASSUME NEW i \in 1..Len(projection')
               PROVE  projection'[i] = file[i] /\ i \in 1..Len(file) /\ i <= stable
    OBVIOUS
  <2>0. i \in 1..Len(file) /\ i <= stable
    BY <1>a, <1>b, <1>f, <1>v
  <2>1. CASE i \in 1..p /\ projection'[i] = projection[i]
    BY <2>0, <2>1, <1>v
  <2>2. CASE i - p \in 1..m /\ projection'[i] = b[i - p]
    <3>1. file[p + (i - p)] = b[i - p] /\ p + (i - p) = i
      BY <2>2, <1>b, <1>v
    <3> QED BY <2>0, <2>2, <3>1
  <2> QED BY <2>1, <2>2, <1>f
<1>c. \A r \in UpTo(projection', uncertain.through_seq) :
         r \in Record /\ r.seq < stable /\ file[r.seq + 1] = r
  <2> SUFFICES ASSUME NEW r \in UpTo(projection', uncertain.through_seq)
               PROVE  r \in Record /\ r.seq < stable /\ file[r.seq + 1] = r
    OBVIOUS
  <2>1. PICK i \in 1..Len(projection') : r = projection'[i]
    BY DEF UpTo, Records
  <2>2. i \in 1..Len(file) /\ r = file[i] /\ i <= stable
    BY <2>1, <1>g
  <2>3. r \in Record /\ r.seq = i - 1
    BY <2>2, <1>v
  <2>4. r.seq + 1 = i
    BY <2>2, <2>3
  <2> QED BY <2>2, <2>3, <2>4, <1>v
<1>2. TypeOK'
  <2>1. Flags'
    BY <1>u, Zenon DEF IndInv, TypeOK, Flags, Untouched
  <2>2. uncertain' \in Marker
    BY <1>u DEF Marker, NoMarker, MarkerKinds
  <2> QED BY <2>1, <2>2, <1>u, <1>c, <1>t, <1>f DEF IndInv, TypeOK, Untouched
<1>3. MarkerInv' /\ DiskInv'
  BY <1>u DEF IndInv, MarkerInv, DiskInv, NoMarker, LogStaysValid, ValidStream, Untouched
<1>4. OpenInv'
  <2>1. 1 <= Len(projection') /\ next_seq' = Len(projection')
    BY <1>b, <1>f, <1>u, <1>v DEF Untouched
  <2>2. \A i \in 1..Len(projection') : projection'[i] = file'[i]
    BY <1>g, <1>u DEF Untouched
  <2>3. exists /\ (~poisoned => next_seq = Len(file)) /\ (~dirty => stable >= next_seq)
    BY <1>a DEF IndInv, OpenInv
  <2>4. /\ opened' /\ exists'
        /\ Len(projection') <= next_seq' /\ next_seq' <= Len(file')
        /\ ~poisoned' => next_seq' = Len(file')
        /\ ~dirty' => stable' >= next_seq'
    <3>1. /\ opened' = opened /\ exists' = exists /\ next_seq' = next_seq /\ file' = file
          /\ poisoned' = poisoned /\ stable' = stable /\ dirty' = dirty
      BY <1>u DEF Untouched
    <3>2. Len(projection') <= next_seq'
      BY <2>1, <1>v, <3>1
    <3> QED BY <3>1, <3>2, <2>3, <1>a, <1>v
  <2> QED BY <2>1, <2>2, <2>4 DEF OpenInv, Positioned
<1>5. HistoryInv'
  <2>1. ConfirmedSurvives'
    BY <1>c, <1>v, <1>u DEF IndInv, HistoryInv, ConfirmedSurvives, Untouched
  <2>2. VisibleOnlyWhenDurable'
    BY <1>g, <1>u DEF VisibleOnlyWhenDurable
  <2>3. \A s \in reported' : s < stable'
    <3>1. reported \subseteq Nat
      BY DEF IndInv, TypeOK
    <3>2. \A s \in reported : s < stable \/ s = next_seq - 1
      BY <1>a DEF IndInv, HistoryInv
    <3> QED BY <3>1, <3>2, <1>a, <1>u, <1>v
  <2> QED BY <2>1, <2>2, <2>3, <1>u DEF IndInv, HistoryInv, Untouched
<1> QED BY <1>t, <1>2, <1>3, <1>4, <1>5 DEF IndInv

\* Before a session is opened nobody is inside the lane and nothing is in doubt.
LEMMA ClosedFacts ==
    ASSUME IndInv, ~opened
    PROVE  /\ uncertain = NoMarker /\ uncertain.kind = "None"
           /\ commit_lane = NoTask /\ \A t \in Tasks : task[t] = Idle
           /\ projection = << >> /\ reported = {}
<1>1. /\ \A t \in Tasks : task[t] = Idle
      /\ commit_lane \in Tasks \cup {NoTask}
  BY DEF IndInv, TypeOK, LaneInv
<1>2. commit_lane = NoTask
  BY <1>1, IdleState DEF IndInv, LaneInv
<1> QED BY <1>1, <1>2 DEF IndInv, MarkerInv, OpenInv, NoMarker

\* Opening a log that holds the records s establishes everything the lane relies on.
LEMMA OpenMetaInv ==
    ASSUME IndInv, ~opened, NEW s \in Seq(Record), OpenMeta(s),
           exists', file' = s, stable' = Len(s), torn' = FALSE, ValidStream(s),
           UNCHANGED history,
           \A i \in 1..Len(s) : s[i].ev <= issued /\ s[i].ev \notin rolled_back,
           \A r \in confirmed : r.seq < Len(s) /\ s[r.seq + 1] = r
    PROVE  IndInv'
<1>a. /\ uncertain = NoMarker /\ uncertain.kind = "None" /\ commit_lane = NoTask
      /\ \A t \in Tasks : task[t] = Idle
      /\ reported = {}
  BY ClosedFacts
<1>s. /\ Len(s) \in Nat /\ 1 <= Len(s) /\ s[Len(s)].seq + 1 = Len(s)
  <2>1. Len(s) \in Nat /\ Len(s) # 0
    BY DEF ValidStream
  <2>2. Len(s) \in 1..Len(s)
    BY <2>1
  <2> QED BY <2>1, <2>2 DEF ValidStream
<1>u. /\ opened' /\ next_seq' = Len(s) /\ dirty' = FALSE /\ poisoned' = FALSE /\ projection' = s
      /\ opened' = TRUE
      /\ uncertain' = uncertain /\ commit_lane' = commit_lane /\ task' = task
      /\ issued' = issued /\ sync_events' = sync_events /\ rolled_back' = rolled_back
      /\ reported' = reported /\ confirmed' = confirmed
  BY <1>s DEF OpenMeta, history
<1>x. exists' \in BOOLEAN
  OBVIOUS
<1>2. TypeOK'
  <2>1. Flags'
    BY <1>u, <1>x, Zenon DEF Flags
  <2> QED BY <2>1, <1>u, <1>s DEF IndInv, TypeOK
<1>3. LaneInv' /\ PhaseInv'
  BY <1>a, <1>u, IdleState DEF LaneInv, PhaseInv, AtPhase
<1>4. MarkerInv' /\ DiskInv'
  BY <1>a, <1>u, <1>s DEF MarkerInv, DiskInv, LogStaysValid, ValidStream
<1>5. OpenInv'
  BY <1>a, <1>u, <1>s DEF OpenInv, Positioned
<1>6. HistoryInv'
  <2>1. ConfirmedSurvives' /\ VisibleOnlyWhenDurable'
    BY <1>u, <1>s DEF ConfirmedSurvives, VisibleOnlyWhenDurable
  <2> QED BY <2>1, <1>a, <1>u DEF IndInv, HistoryInv
<1> QED BY <1>2, <1>3, <1>4, <1>5, <1>6 DEF IndInv

LEMMA StartedLog ==
    /\ <<Started>> \in Seq(Record) /\ Len(<<Started>>) = 1 /\ ValidStream(<<Started>>)
    /\ \A i \in 1..Len(<<Started>>) : <<Started>>[i].ev = 0
BY DEF Started, Record, ValidStream

\* Before the file exists nothing has been confirmed or rolled back.
LEMMA NoFileFacts ==
    ASSUME IndInv, ~exists
    PROVE  /\ ~opened /\ file = << >> /\ confirmed = {}
           /\ 0 <= issued /\ 0 \notin rolled_back
<1>1. ~opened /\ file = << >> /\ stable <= 0 /\ stable \in Nat
  BY DEF IndInv, TypeOK, OpenInv, DiskInv
<1>2. confirmed = {}
  BY <1>1, Sizes DEF IndInv, HistoryInv, ConfirmedSurvives
<1> QED BY <1>1, <1>2, Sizes DEF IndInv, HistoryInv

LEMMA CreateSessionInv ==
    ASSUME IndInv, create_session
    PROVE  IndInv'
<1> DEFINE s == <<Started>>
<1>1. /\ ~opened /\ confirmed = {} /\ 0 <= issued /\ 0 \notin rolled_back
  BY NoFileFacts DEF create_session
<1>2. /\ s \in Seq(Record) /\ Len(s) = 1 /\ ValidStream(s)
      /\ \A i \in 1..Len(s) : s[i].ev = 0
  BY StartedLog
<1>3. /\ OpenMeta(s) /\ exists' /\ file' = s /\ stable' = 1 /\ torn' = FALSE /\ UNCHANGED history
  BY DEF create_session
<1> HIDE DEF s
<1>4. stable' = Len(s)
  BY <1>2, <1>3
<1>5. /\ \A i \in 1..Len(s) : s[i].ev <= issued /\ s[i].ev \notin rolled_back
      /\ \A r \in confirmed : r.seq < Len(s) /\ s[r.seq + 1] = r
  BY <1>1, <1>2
<1> QED BY <1>1, <1>2, <1>3, <1>4, <1>5, OpenMetaInv

LEMMA GetOrOpenMetaInv ==
    ASSUME IndInv, get_or_open_meta
    PROVE  IndInv'
<1>1. /\ file \in Seq(Record) /\ stable \in Nat /\ Len(file) \in Nat /\ stable <= Len(file)
      /\ \A r \in confirmed : r.seq \in Nat
  BY Sizes
<1>2. /\ ~opened /\ exists' /\ file' = file /\ stable' = Len(file) /\ torn' = FALSE
      /\ ValidStream(file) /\ OpenMeta(file) /\ UNCHANGED history
  BY DEF get_or_open_meta, StableAfterOpen
<1>3. /\ \A i \in 1..Len(file) : file[i].ev <= issued /\ file[i].ev \notin rolled_back
      /\ \A r \in confirmed : r.seq < stable /\ file[r.seq + 1] = r
  BY DEF IndInv, HistoryInv, ConfirmedSurvives
<1>4. \A r \in confirmed : r.seq < Len(file) /\ file[r.seq + 1] = r
  BY <1>1, <1>3
<1> QED BY <1>1, <1>2, <1>3, <1>4, OpenMetaInv

\* A step while the session is closed, or one that closes it, only has to keep
\* the file valid and the stable part of it.
LEMMA ClosedInv ==
    ASSUME IndInv,
           exists' \in BOOLEAN, torn' \in BOOLEAN, opened' = FALSE, dirty' \in BOOLEAN,
           poisoned' \in BOOLEAN, next_seq' \in Nat,
           file' \in Seq(Record), stable' \in Nat, stable' <= Len(file'),
           ~exists' => file' = << >>,
           LogStaysValid',
           \A i \in 1..Len(file') : file'[i].ev <= issued /\ file'[i].ev \notin rolled_back,
           \A r \in confirmed : r.seq < stable' /\ file'[r.seq + 1] = r,
           projection' = << >>, uncertain' = NoMarker, commit_lane' = NoTask,
           task' = [t \in Tasks |-> Idle], reported' = {},
           issued' = issued, sync_events' = sync_events, rolled_back' = rolled_back,
           confirmed' = confirmed
    PROVE  IndInv'
<1>1. TypeOK'
  <2>1. Flags'
    BY Zenon DEF Flags
  <2>2. uncertain' \in Marker /\ task' \in [Tasks -> TaskState]
    BY IdleState DEF Marker, NoMarker, MarkerKinds
  <2> QED BY <2>1, <2>2 DEF IndInv, TypeOK
<1>2. LaneInv' /\ PhaseInv'
  BY IdleState DEF LaneInv, PhaseInv, AtPhase
<1>3. MarkerInv' /\ OpenInv' /\ DiskInv'
  BY DEF MarkerInv, OpenInv, DiskInv, NoMarker
<1>4. HistoryInv'
  BY DEF IndInv, HistoryInv, ConfirmedSurvives, VisibleOnlyWhenDurable
<1> QED BY <1>1, <1>2, <1>3, <1>4 DEF IndInv

\* What a failed create or open leaves alone.
LEMMA StillClosed ==
    ASSUME IndInv, ~opened,
           UNCHANGED <<opened, writer, projection, uncertain, commit_lane, task, history>>
    PROVE  /\ opened' = FALSE /\ dirty' \in BOOLEAN /\ poisoned' \in BOOLEAN /\ next_seq' \in Nat
           /\ projection' = << >> /\ uncertain' = NoMarker /\ commit_lane' = NoTask
           /\ task' = [t \in Tasks |-> Idle] /\ reported' = {}
           /\ issued' = issued /\ sync_events' = sync_events /\ rolled_back' = rolled_back
           /\ confirmed' = confirmed
<1>1. /\ opened' = opened /\ dirty' = dirty /\ poisoned' = poisoned /\ next_seq' = next_seq
      /\ projection' = projection /\ uncertain' = uncertain /\ commit_lane' = commit_lane
      /\ task' = task /\ reported' = reported
      /\ issued' = issued /\ sync_events' = sync_events /\ rolled_back' = rolled_back
      /\ confirmed' = confirmed
  BY DEF writer, history
<1>2. opened \in BOOLEAN /\ dirty \in BOOLEAN /\ poisoned \in BOOLEAN
  BY Zenon DEF IndInv, TypeOK, Flags
<1>3. next_seq \in Nat /\ task \in [Tasks -> TaskState]
  BY DEF IndInv, TypeOK
<1>4. task = [t \in Tasks |-> Idle]
  BY <1>3, ClosedFacts
<1> QED BY <1>1, <1>2, <1>3, <1>4, ClosedFacts

LEMMA CreateSessionFailsInv ==
    ASSUME IndInv, create_session_fails
    PROVE  IndInv'
<1>1. /\ ~opened /\ confirmed = {} /\ 0 <= issued /\ 0 \notin rolled_back
  BY NoFileFacts DEF create_session_fails
<1>2. exists' = TRUE /\ exists' \in BOOLEAN /\ torn' \in BOOLEAN
  BY DEF create_session_fails
<1>3. /\ file' \in Seq(Record) /\ stable' \in Nat /\ stable' <= Len(file')
      /\ LogStaysValid'
      /\ \A i \in 1..Len(file') : file'[i].ev = 0
  <2>1. CASE file' = << >> /\ stable' = 0
    BY <2>1 DEF LogStaysValid
  <2>2. CASE file' = <<Started>> /\ stable' \in 0..1
    BY <2>2, StartedLog DEF LogStaysValid, ValidStream
  <2> QED BY <2>1, <2>2 DEF create_session_fails
<1>4. UNCHANGED <<opened, writer, projection, uncertain, commit_lane, task, history>>
  BY DEF create_session_fails
<1>5. /\ \A i \in 1..Len(file') : file'[i].ev <= issued /\ file'[i].ev \notin rolled_back
      /\ \A r \in confirmed : r.seq < stable' /\ file'[r.seq + 1] = r
  BY <1>1, <1>3
<1>6. ~exists' => file' = << >>
  BY <1>2
<1> QED BY <1>1, <1>2, <1>3, <1>4, <1>5, <1>6, StillClosed, ClosedInv

LEMMA GetOrOpenMetaFailsInv ==
    ASSUME IndInv, get_or_open_meta_fails
    PROVE  IndInv'
<1>1. /\ file \in Seq(Record) /\ stable \in Nat /\ Len(file) \in Nat /\ stable <= Len(file)
      /\ \A r \in confirmed : r.seq \in Nat
  BY Sizes
<1>2. /\ ~opened /\ exists /\ exists' = exists /\ file' = file
      /\ stable' \in stable..Len(file)
      /\ UNCHANGED <<opened, writer, projection, uncertain, commit_lane, task, history>>
  BY DEF get_or_open_meta_fails
<1>3. torn' \in BOOLEAN /\ exists' \in BOOLEAN
  <2>1. torn \in BOOLEAN /\ exists \in BOOLEAN
    BY Zenon DEF IndInv, TypeOK, Flags
  <2>2. torn' = torn \/ torn' = FALSE
    BY DEF get_or_open_meta_fails
  <2> QED BY <2>1, <2>2, <1>2, Zenon
<1>4. /\ \A i \in 1..Len(file) : file[i].ev <= issued /\ file[i].ev \notin rolled_back
      /\ \A r \in confirmed : r.seq < stable /\ file[r.seq + 1] = r
      /\ LogStaysValid
  BY DEF IndInv, HistoryInv, ConfirmedSurvives, DiskInv
<1>5. stable' \in Nat /\ stable <= stable' /\ stable' <= Len(file)
  BY <1>1, <1>2
<1>6. LogStaysValid' /\ (~exists' => file' = << >>)
  BY <1>2, <1>4 DEF LogStaysValid, ValidStream
<1>7. /\ \A r \in confirmed : r.seq < stable' /\ file'[r.seq + 1] = r
      /\ \A i \in 1..Len(file') : file'[i].ev <= issued /\ file'[i].ev \notin rolled_back
      /\ file' \in Seq(Record) /\ stable' <= Len(file')
  BY <1>1, <1>2, <1>4, <1>5
<1> QED BY <1>2, <1>3, <1>5, <1>6, <1>7, StillClosed, ClosedInv

\* Whatever part of the batch in flight was written when the process stops, the
\* log has the shape that the next open expects.
LEMMA InterruptedLog ==
    ASSUME IndInv, NEW k \in 0..Len(InFlight)
    PROVE  LET g == file \o SubSeq(InFlight, 1, k)
           IN /\ g \in Seq(Record) /\ Len(g) \in Nat /\ Len(file) <= Len(g)
              /\ \A i \in 1..Len(file) : g[i] = file[i]
              /\ g # << >> => ValidStream(g)
              /\ \A i \in 1..Len(g) : g[i].ev <= issued /\ g[i].ev \notin rolled_back
              /\ ~exists => g = << >>
<1> DEFINE writing == /\ commit_lane # NoTask /\ task[commit_lane].phase = "append"
                      /\ WriterAccepts(task[commit_lane].batch)
<1>s. file \in Seq(Record) /\ Len(file) \in Nat
  BY Sizes
<1>1. CASE writing
  <2>1. /\ InFlight = task[commit_lane].batch /\ commit_lane \in Tasks
    BY <1>1 DEF InFlight, IndInv, TypeOK
  <2> DEFINE g == Grown(commit_lane, k)
  <2>2. /\ g \in Seq(Record) /\ Len(g) = Len(file) + k
        /\ \A i \in 1..Len(file) : g[i] = file[i]
        /\ ValidStream(g)
        /\ \A i \in 1..Len(g) : g[i].ev <= issued /\ g[i].ev \notin rolled_back
    BY <1>1, <2>1, GrowingLog
  <2>3. exists
    BY <1>1, <2>1, HoldsLane DEF IndInv, OpenInv
  <2>4. g = file \o SubSeq(InFlight, 1, k)
    BY <2>1 DEF Grown
  <2>5. k \in Nat
    <3>1. Len(InFlight) \in Nat
      BY <1>1, <2>1, AppendFacts
    <3> QED BY <3>1
  <2> HIDE DEF g
  <2>6. Len(g) \in Nat /\ Len(file) <= Len(g)
    BY <2>2, <2>5, <1>s
  <2> QED BY <2>2, <2>3, <2>4, <2>6
<1>2. CASE ~writing
  <2>1. InFlight = << >>
    BY <1>2 DEF InFlight
  <2>2. k = 0 /\ << >> \in Seq(Record)
    BY <2>1
  <2>3. SubSeq(<< >>, 1, 0) = << >>
    OBVIOUS
  <2>4. file \o << >> = file
    BY <1>s
  <2>5. file \o SubSeq(InFlight, 1, k) = file
    BY <2>1, <2>2, <2>3, <2>4
  <2>6. /\ file # << >> => ValidStream(file)
        /\ \A i \in 1..Len(file) : file[i].ev <= issued /\ file[i].ev \notin rolled_back
        /\ ~exists => file = << >>
    BY DEF IndInv, DiskInv, LogStaysValid, HistoryInv
  <2> DEFINE g == file \o SubSeq(InFlight, 1, k)
  <2>7. g = file
    BY <2>5
  <2> HIDE DEF g
  <2>8. /\ g \in Seq(Record) /\ Len(g) \in Nat /\ Len(file) <= Len(g)
        /\ \A i \in 1..Len(file) : g[i] = file[i]
        /\ g # << >> => ValidStream(g)
        /\ \A i \in 1..Len(g) : g[i].ev <= issued /\ g[i].ev \notin rolled_back
        /\ ~exists => g = << >>
    BY <2>6, <2>7, <1>s
  <2> QED BY <2>8 DEF g
<1> QED BY <1>1, <1>2

LEMMA LostMemory ==
    ASSUME LoseMemory
    PROVE  /\ opened' = FALSE /\ dirty' \in BOOLEAN /\ poisoned' \in BOOLEAN /\ next_seq' \in Nat
           /\ projection' = << >> /\ uncertain' = NoMarker /\ commit_lane' = NoTask
           /\ task' = [t \in Tasks |-> Idle] /\ reported' = {}
           /\ issued' = issued /\ sync_events' = sync_events /\ rolled_back' = rolled_back
           /\ confirmed' = confirmed
BY DEF LoseMemory

LEMMA ProcessCrashInv ==
    ASSUME IndInv, process_crash
    PROVE  IndInv'
<1>1. PICK k \in 0..Len(InFlight) :
        /\ file' = file \o SubSeq(InFlight, 1, k)
        /\ torn' \in (IF k < Len(InFlight) THEN BOOLEAN ELSE {torn})
  BY DEF process_crash
<1>2. LoseMemory /\ exists' = exists /\ stable' = stable
  BY DEF process_crash
<1>3. exists' \in BOOLEAN /\ torn' \in BOOLEAN
  <2>1. exists \in BOOLEAN /\ torn \in BOOLEAN
    BY Zenon DEF IndInv, TypeOK, Flags
  <2>2. torn' \in BOOLEAN \/ torn' = torn
    BY <1>1
  <2> QED BY <2>1, <2>2, <1>2, Zenon
<1>4. /\ file' \in Seq(Record) /\ Len(file') \in Nat /\ Len(file) <= Len(file')
      /\ \A i \in 1..Len(file) : file'[i] = file[i]
      /\ file' # << >> => ValidStream(file')
      /\ \A i \in 1..Len(file') : file'[i].ev <= issued /\ file'[i].ev \notin rolled_back
      /\ ~exists => file' = << >>
  BY <1>1, InterruptedLog
<1>5. /\ stable \in Nat /\ Len(file) \in Nat /\ stable <= Len(file)
      /\ \A r \in confirmed : r.seq \in Nat
  BY Sizes
<1>6. \A r \in confirmed : r.seq < stable' /\ file'[r.seq + 1] = r
  <2>1. \A r \in confirmed : r.seq < stable /\ file[r.seq + 1] = r
    BY DEF IndInv, HistoryInv, ConfirmedSurvives
  <2>2. \A r \in confirmed : r.seq + 1 \in 1..Len(file)
    BY <2>1, <1>5
  <2> QED BY <2>1, <2>2, <1>2, <1>4
<1>7. LogStaysValid' /\ stable' \in Nat /\ stable' <= Len(file')
  BY <1>2, <1>4, <1>5 DEF LogStaysValid, ValidStream
<1> QED BY <1>2, <1>3, <1>4, <1>6, <1>7, LostMemory, ClosedInv

LEMMA PowerLossInv ==
    ASSUME IndInv, power_loss
    PROVE  IndInv'
<1>1. PICK k \in 0..Len(InFlight) :
        LET full == file \o SubSeq(InFlight, 1, k)
        IN \E n \in stable..Len(full) :
             /\ file' = SubSeq(full, 1, n)
             /\ stable' = n
             /\ torn' \in (IF n < Len(full) \/ k < Len(InFlight) THEN BOOLEAN ELSE {torn})
  BY DEF power_loss
<1> DEFINE full == file \o SubSeq(InFlight, 1, k)
<1>2. PICK n \in stable..Len(full) :
        /\ file' = SubSeq(full, 1, n)
        /\ stable' = n
        /\ torn' \in (IF n < Len(full) \/ k < Len(InFlight) THEN BOOLEAN ELSE {torn})
  BY <1>1
<1>m. LoseMemory /\ exists' = exists
  BY DEF power_loss
<1>3. exists' \in BOOLEAN /\ torn' \in BOOLEAN
  <2>1. exists \in BOOLEAN /\ torn \in BOOLEAN
    BY Zenon DEF IndInv, TypeOK, Flags
  <2>2. torn' \in BOOLEAN \/ torn' = torn
    BY <1>2
  <2> QED BY <2>1, <2>2, <1>m, Zenon
<1>4. /\ full \in Seq(Record) /\ Len(full) \in Nat /\ Len(file) <= Len(full)
      /\ \A i \in 1..Len(file) : full[i] = file[i]
      /\ full # << >> => ValidStream(full)
      /\ \A i \in 1..Len(full) : full[i].ev <= issued /\ full[i].ev \notin rolled_back
      /\ ~exists => full = << >>
  BY InterruptedLog
<1> HIDE DEF full
<1>5. /\ stable \in Nat /\ Len(file) \in Nat /\ stable <= Len(file)
      /\ \A r \in confirmed : r.seq \in Nat
  BY Sizes
<1>6. n \in Nat /\ n \in 0..Len(full) /\ stable <= n
  BY <1>4, <1>5
<1>7. /\ file' \in Seq(Record) /\ Len(file') = n
      /\ \A i \in 1..n : file'[i] = full[i]
  BY <1>2, <1>4, <1>6, CutLog
<1>8. LogStaysValid'
  <2> SUFFICES ASSUME file' # << >> PROVE ValidStream(file')
    BY DEF LogStaysValid, ValidStream
  <2>1. n >= 1 /\ full # << >>
    BY <1>4, <1>6, <1>7
  <2>2. 1 \in 1..n /\ \A i \in 1..n : i \in 1..Len(full)
    BY <2>1, <1>4, <1>6
  <2> QED BY <2>1, <2>2, <1>4, <1>7 DEF ValidStream
<1>9. /\ \A i \in 1..Len(file') : file'[i].ev <= issued /\ file'[i].ev \notin rolled_back
      /\ ~exists' => file' = << >>
  <2>1. \A i \in 1..n : i \in 1..Len(full)
    BY <1>4, <1>6
  <2>2. ~exists => n = 0
    BY <1>4, <1>6
  <2> QED BY <2>1, <2>2, <1>4, <1>6, <1>7, <1>m
<1>10. \A r \in confirmed : r.seq < stable' /\ file'[r.seq + 1] = r
  <2>1. \A r \in confirmed : r.seq < stable /\ file[r.seq + 1] = r
    BY DEF IndInv, HistoryInv, ConfirmedSurvives
  <2>2. \A r \in confirmed : r.seq + 1 \in 1..Len(file) /\ r.seq + 1 \in 1..n /\ r.seq < n
    BY <2>1, <1>5, <1>6
  <2> QED BY <2>1, <2>2, <1>2, <1>4, <1>7
<1>11. stable' \in Nat /\ stable' <= Len(file')
  BY <1>2, <1>6, <1>7
<1> QED BY <1>m, <1>3, <1>7, <1>8, <1>9, <1>10, <1>11, LostMemory, ClosedInv

LEMMA StutterInv ==
    ASSUME IndInv, UNCHANGED vars
    PROVE  IndInv'
<1>u. /\ Untouched /\ torn' = torn /\ stable' = stable /\ projection' = projection
      /\ reported' = reported /\ dirty' = dirty /\ uncertain' = uncertain
      /\ commit_lane' = commit_lane /\ task' = task /\ confirmed' = confirmed
  BY DEF vars, disk, writer, history, Untouched
<1>1. TypeOK'
  <2>1. Flags'
    BY <1>u, Zenon DEF IndInv, TypeOK, Flags, Untouched
  <2> QED BY <2>1, <1>u DEF IndInv, TypeOK, Untouched
<1>2. LaneInv' /\ PhaseInv'
  <2>1. LaneInv'
    BY <1>u DEF IndInv, LaneInv, Untouched
  <2>2. ASSUME NEW t \in Tasks PROVE AtPhase(t)'
    <3>1. AtPhase(t)
      BY DEF IndInv, PhaseInv
    <3> QED BY <3>1, <1>u DEF AtPhase, Pending, Positioned, Fresh, MarkerFor, EventsOf, Untouched
  <2> QED BY <2>1, <2>2 DEF PhaseInv
<1>3. MarkerInv' /\ OpenInv' /\ DiskInv'
  BY <1>u DEF IndInv, MarkerInv, OpenInv, DiskInv, Pending, Positioned, LogStaysValid,
     ValidStream, Untouched
<1>4. HistoryInv'
  BY <1>u DEF IndInv, HistoryInv, ConfirmedSurvives, VisibleOnlyWhenDurable, Untouched
<1> QED BY <1>1, <1>2, <1>3, <1>4 DEF IndInv

\* Every operation, every failure and every crash preserves the invariant.
LEMMA StepInv == IndInv /\ [Next]_vars => IndInv'
<1> SUFFICES ASSUME IndInv, [Next]_vars PROVE IndInv'
  OBVIOUS
<1>1. CASE create_session
  BY <1>1, CreateSessionInv
<1>2. CASE create_session_fails
  BY <1>2, CreateSessionFailsInv
<1>3. CASE get_or_open_meta
  BY <1>3, GetOrOpenMetaInv
<1>4. CASE get_or_open_meta_fails
  BY <1>4, GetOrOpenMetaFailsInv
<1>5. ASSUME NEW t \in Tasks, TaskStep(t) PROVE IndInv'
  <2>1. ASSUME NEW n \in 1..MaxBatch, append_events(t, n) PROVE IndInv'
    BY <2>1, BoundsAssumption, BeginAppendInv DEF append_events
  <2>2. ASSUME NEW n \in 1..MaxBatch, append_events_and_sync(t, n) PROVE IndInv'
    BY <2>2, BoundsAssumption, BeginAppendInv DEF append_events_and_sync
  <2>3. CASE append_stored_batch(t)
    BY <2>3, AppendStoredBatchInv
  <2>4. CASE append_fails(t)
    BY <2>4, AppendFailsInv
  <2>5. CASE append_poisons(t)
    BY <2>5, AppendPoisonsInv
  <2>6. CASE apply_committed(t)
    BY <2>6, ApplyCommittedInv
  <2>7. CASE set_uncertain(t)
    BY <2>7, SetUncertainInv
  <2>8. CASE sync_durable_events(t)
    BY <2>8, SyncDurableEventsInv
  <2>9. ASSUME NEW through \in reported, retry_uncertain_sync(t, through) PROVE IndInv'
    BY <2>9, RetryInv
  <2>10. ASSUME NEW through \in reported, retry_already_confirmed(t, through) PROVE IndInv'
    BY <2>10, RetryAlreadyConfirmedInv
  <2>11. CASE flush_and_sync(t)
    BY <2>11, FlushAndSyncInv
  <2>12. CASE flush_and_sync_fails(t)
    BY <2>12, FlushAndSyncFailsInv
  <2>13. CASE apply_confirmed_projection(t)
    BY <2>13, ApplyConfirmedProjectionInv
  <2> QED BY <1>5, <2>1, <2>2, <2>3, <2>4, <2>5, <2>6, <2>7, <2>8, <2>9, <2>10, <2>11,
             <2>12, <2>13 DEF TaskStep
<1>6. CASE process_crash
  BY <1>6, ProcessCrashInv
<1>7. CASE power_loss
  BY <1>7, PowerLossInv
<1>8. CASE UNCHANGED vars
  BY <1>8, StutterInv
<1> QED BY <1>1, <1>2, <1>3, <1>4, <1>5, <1>6, <1>7, <1>8 DEF Next

\* IndInv holds in every reachable state, for any callers and any bounds.
THEOREM JournalInvariant == Spec => []IndInv
<1>1. Init => IndInv
  BY InitInv
<1>2. IndInv /\ [Next]_vars => IndInv'
  BY StepInv
<1> QED BY <1>1, <1>2, PTL DEF Spec

\* The state of the journal is always well typed.
THEOREM TypeCorrect == Spec => []TypeOK
<1>1. IndInv => TypeOK
  BY DEF IndInv
<1> QED BY <1>1, JournalInvariant, PTL

\* EventStreamValidator accepts every log this code leaves behind, whatever
\* failed or crashed while it was written.
THEOREM LogAlwaysValid == Spec => []LogStaysValid
<1>1. IndInv => LogStaysValid
  BY DEF IndInv, DiskInv
<1> QED BY <1>1, JournalInvariant, PTL

\* The read model is a prefix of the log and both end together when nobody is
\* inside the lane and no fsync is in doubt.
THEOREM ProjectionIsPrefix == Spec => []ProjectionFollowsLog
<1>1. IndInv => ProjectionFollowsLog
  <2> SUFFICES ASSUME IndInv, opened
               PROVE  /\ Len(projection) <= Len(file)
                      /\ \A i \in 1..Len(projection) : projection[i] = file[i]
                      /\ commit_lane = NoTask /\ uncertain.kind = "None" => LogPositioned
    BY DEF ProjectionFollowsLog
  <2>1. /\ Len(projection) \in Nat /\ next_seq \in Nat /\ Len(file) \in Nat
        /\ Len(projection) <= next_seq /\ next_seq <= Len(file)
        /\ \A i \in 1..Len(projection) : projection[i] = file[i]
    BY ValidIndex
  <2>2. FirstSeq = Len(projection)
    BY FirstSeqIsLength
  <2>3. commit_lane = NoTask /\ uncertain.kind = "None" => next_seq = Len(projection)
    BY DEF IndInv, OpenInv, Positioned
  <2> QED BY <2>1, <2>2, <2>3 DEF LogPositioned
<1> QED BY <1>1, JournalInvariant, PTL

\* No crash, power loss, failed write or reopen takes back a record whose
\* durability was confirmed to a caller.
THEOREM ConfirmedStays == Spec => []ConfirmedSurvives
<1>1. IndInv => ConfirmedSurvives
  BY DEF IndInv, HistoryInv
<1> QED BY <1>1, JournalInvariant, PTL

\* The read model never shows an event of append_events_and_sync that a power
\* loss could still take away.
THEOREM VisibleIsDurable == Spec => []VisibleOnlyWhenDurable
<1>1. IndInv => VisibleOnlyWhenDurable
  BY DEF IndInv, HistoryInv
<1> QED BY <1>1, JournalInvariant, PTL

\* The events of a rolled back append never show up in the log.
THEOREM RollbackIsComplete == Spec => []RolledBackNeverLogged
<1>1. IndInv => RolledBackNeverLogged
  BY DEF IndInv, HistoryInv, RolledBackNeverLogged, EventsOf
<1> QED BY <1>1, JournalInvariant, PTL

\* What StickyUntilConfirmed asks of one step.
StickyStep ==
    uncertain.kind # "None" /\ opened' =>
        /\ file' = file
        /\ (projection' # projection \/ uncertain' # uncertain) => uncertain' = NoMarker

\* While an fsync is in doubt only its retry can move the read model; the log
\* does not grow behind the doubt.
THEOREM DoubtIsSticky == Spec => StickyUntilConfirmed
<1>1. IndInv /\ [Next]_vars => [StickyStep]_vars
  <2> SUFFICES ASSUME IndInv, Next PROVE StickyStep
    OBVIOUS
  <2>0. ~opened => uncertain.kind = "None"
    BY ClosedFacts
  <2>1. ASSUME ~opened PROVE StickyStep
    BY <2>0, <2>1 DEF StickyStep
  <2>2. CASE create_session \/ create_session_fails
    BY <2>1, <2>2, NoFileFacts DEF create_session, create_session_fails
  <2>3. CASE get_or_open_meta \/ get_or_open_meta_fails
    BY <2>1, <2>3 DEF get_or_open_meta, get_or_open_meta_fails
  <2>4. ASSUME NEW t \in Tasks, TaskStep(t) PROVE StickyStep
    <3>a. task[t].phase \in {"append", "appended"} => uncertain.kind = "None"
      BY DEF IndInv, PhaseInv, AtPhase
    <3>1. ASSUME NEW n \in 1..MaxBatch, append_events(t, n) \/ append_events_and_sync(t, n)
          PROVE  StickyStep
      BY <3>1 DEF append_events, append_events_and_sync, BeginAppend,
         acquire_confirmed_commit_lane, ensure_no_uncertain_durability, StickyStep
    <3>2. CASE \/ append_stored_batch(t) \/ append_fails(t) \/ append_poisons(t)
               \/ apply_committed(t) \/ set_uncertain(t)
      BY <3>2, <3>a DEF append_stored_batch, append_fails, append_poisons, apply_committed,
         set_uncertain, StickyStep
    <3>3. CASE sync_durable_events(t)
      BY <3>3 DEF sync_durable_events, acquire_confirmed_commit_lane,
         ensure_no_uncertain_durability, StickyStep
    <3>4. ASSUME NEW through \in reported,
                 retry_uncertain_sync(t, through) \/ retry_already_confirmed(t, through)
          PROVE  StickyStep
      BY <3>4 DEF retry_uncertain_sync, retry_already_confirmed, disk, StickyStep
    <3>5. CASE flush_and_sync(t) \/ flush_and_sync_fails(t)
      BY <3>5 DEF flush_and_sync, flush_and_sync_fails, StickyStep
    <3>6. CASE apply_confirmed_projection(t)
      BY <3>6 DEF apply_confirmed_projection, disk, MarkerAfterConfirmation, StickyStep
    <3> QED BY <2>4, <3>1, <3>2, <3>3, <3>4, <3>5, <3>6 DEF TaskStep
  <2>5. CASE process_crash \/ power_loss
    BY <2>5 DEF process_crash, power_loss, LoseMemory, StickyStep
  <2> QED BY <2>2, <2>3, <2>4, <2>5 DEF Next
<1>2. [StickyStep]_vars => [ uncertain.kind # "None" /\ opened' =>
            /\ file' = file
            /\ (projection' # projection \/ uncertain' # uncertain) => uncertain' = NoMarker ]_vars
  BY DEF StickyStep
<1> QED BY <1>1, <1>2, JournalInvariant, PTL DEF Spec, StickyUntilConfirmed

-----------------------------------------------------------------------------
(* The file store implements the contract of the trait SessionEventJournal: *)
(* every step of SessionJournal is a step of JournalContract, or leaves its *)
(* variables unchanged, for any callers and any bounds.                     *)

ContractStep == Contract!Next \/ UNCHANGED Contract!vars

\* What both ends of a step say about the log.
LEMMA LogFacts ==
    ASSUME IndInv
    PROVE  /\ Len(file) \in Nat /\ Len(projection) \in Nat /\ stable \in Nat /\ next_seq \in Nat
           /\ stable <= Len(file)
           /\ Contract!Numbered(file)
           /\ opened => Len(projection) <= Len(file) /\ Len(projection) <= next_seq
           /\ ~opened => projection = << >> /\ Len(projection) = 0 /\ uncertain.kind = "None"
<1>1. /\ file \in Seq(Record) /\ Len(file) \in Nat /\ Len(projection) \in Nat
      /\ stable \in Nat /\ next_seq \in Nat /\ stable <= Len(file)
  BY Sizes
<1>2. Contract!Numbered(file)
  <2>1. CASE file = << >>
    BY <2>1 DEF Contract!Numbered
  <2>2. CASE file # << >>
    BY <2>2 DEF IndInv, DiskInv, LogStaysValid, ValidStream, Contract!Numbered
  <2> QED BY <2>1, <2>2
<1>3. opened => Len(projection) <= Len(file) /\ Len(projection) <= next_seq
  BY <1>1, ValidIndex
<1>4. ~opened => projection = << >> /\ Len(projection) = 0 /\ uncertain.kind = "None"
  BY ClosedFacts
<1> QED BY <1>1, <1>2, <1>3, <1>4

\* The same after the step.
LEMMA LogFactsAfter ==
    ASSUME IndInv'
    PROVE  /\ Len(file') \in Nat /\ Len(projection') \in Nat /\ stable' \in Nat /\ next_seq' \in Nat
           /\ stable' <= Len(file')
           /\ Contract!Numbered(file')
           /\ opened' => Len(projection') <= Len(file') /\ Len(projection') <= next_seq'
           /\ ~opened' => projection' = << >> /\ Len(projection') = 0
<1>1. /\ file' \in Seq(Record) /\ projection' \in Seq(Record)
      /\ stable' \in Nat /\ next_seq' \in Nat /\ stable' <= Len(file')
  BY DEF IndInv, TypeOK, DiskInv
<1>2. Contract!Numbered(file')
  <2>1. CASE file' = << >>
    BY <2>1 DEF Contract!Numbered
  <2>2. CASE file' # << >>
    <3>1. ValidStream(file')
      BY <2>2 DEF IndInv, DiskInv, LogStaysValid, ValidStream
    <3> QED BY <3>1 DEF ValidStream, Contract!Numbered
  <2> QED BY <2>1, <2>2
<1>3. Len(file') \in Nat /\ Len(projection') \in Nat
  BY <1>1
<1>4. opened' => Len(projection') <= Len(file') /\ Len(projection') <= next_seq'
  <2>1. opened' => Len(projection') <= next_seq' /\ next_seq' <= Len(file')
    BY DEF IndInv, OpenInv
  <2> QED BY <2>1, <1>1, <1>3
<1>5. ~opened' => projection' = << >> /\ Len(projection') = 0
  BY DEF IndInv, OpenInv
<1> QED BY <1>1, <1>2, <1>3, <1>4, <1>5

\* create_session and get_or_open_meta: the records become visible and durable.
LEMMA OpenStep ==
    ASSUME IndInv, IndInv', create_session \/ get_or_open_meta
    PROVE  Contract!Open
<1>1. CASE create_session
  <2>1. /\ ~opened /\ file = << >> /\ uncertain.kind = "None" /\ Len(file) = 0
    BY <1>1, NoFileFacts, LogFacts DEF create_session
  <2>2. /\ opened' = TRUE /\ file' = <<Started>> /\ projection' = <<Started>> /\ stable' = 1
        /\ uncertain' = uncertain
    BY <1>1 DEF create_session, OpenMeta
  <2>3. Contract!Numbered(file') /\ Contract!Agree(file, file')
    BY <2>1, LogFactsAfter DEF Contract!Agree
  <2>4. Len(file') = 1 /\ Len(projection') = 1
    BY <2>2
  <2> QED BY <2>1, <2>2, <2>3, <2>4 DEF Contract!Open
<1>2. CASE get_or_open_meta
  <2>1. ~opened /\ uncertain.kind = "None" /\ Len(file) \in Nat
    BY <1>2, LogFacts DEF get_or_open_meta
  <2>2. /\ opened' = TRUE /\ file' = file /\ projection' = file /\ stable' = Len(file)
        /\ uncertain' = uncertain
    BY <1>2 DEF get_or_open_meta, OpenMeta, StableAfterOpen
  <2>3. Contract!Numbered(file') /\ Contract!Agree(file, file')
    BY <2>2, LogFactsAfter DEF Contract!Agree
  <2> QED BY <2>1, <2>2, <2>3 DEF Contract!Open
<1> QED BY <1>1, <1>2

\* A file that a failed creation leaves behind, and a write of the whole batch
\* or of a part of it: the log grows behind what is there.
LEMMA WriteStep ==
    ASSUME IndInv, IndInv', uncertain.kind = "None", uncertain' = uncertain,
           opened' = opened, projection' = projection,
           stable <= stable', Len(file) <= Len(file'),
           \A i \in 1..Len(file) : file'[i] = file[i]
    PROVE  Contract!Write
<1>1. Contract!Agree(file, file')
  BY DEF Contract!Agree
<1>2. stable' \in stable..Len(file')
  BY LogFacts, LogFactsAfter
<1> QED BY <1>1, <1>2, LogFactsAfter DEF Contract!Write

\* More records reach the device: fsync, with or without success, and the
\* fsync of an open that fails afterwards.
LEMMA HardenStep ==
    ASSUME IndInv, IndInv', opened' = opened, file' = file, projection' = projection,
           uncertain' = uncertain, stable <= stable'
    PROVE  Contract!Harden
<1>1. stable' \in stable..Len(file)
  BY LogFacts, LogFactsAfter
<1> QED BY <1>1 DEF Contract!Harden

\* A crash keeps the durable records and at most the append in flight.
LEMMA StopStep ==
    ASSUME IndInv, IndInv', process_crash \/ power_loss
    PROVE  Contract!Stop
<1>1. opened' = FALSE /\ uncertain' = NoMarker
  BY DEF process_crash, power_loss, LoseMemory
<1>2. Len(projection') = 0 /\ uncertain'.kind = "None"
  BY <1>1, LogFactsAfter DEF NoMarker
<1>3. \A i \in 1..Len(file) : i <= Len(file') => file[i] = file'[i]
  <2>1. CASE process_crash
    <3>1. PICK k \in 0..Len(InFlight) : file' = file \o SubSeq(InFlight, 1, k)
      BY <2>1 DEF process_crash
    <3> QED BY <3>1, InterruptedLog
  <2>2. CASE power_loss
    <3>1. PICK k \in 0..Len(InFlight) :
            LET full == file \o SubSeq(InFlight, 1, k)
            IN \E n \in stable..Len(full) : file' = SubSeq(full, 1, n) /\ stable' = n
      BY <2>2 DEF power_loss
    <3> DEFINE full == file \o SubSeq(InFlight, 1, k)
    <3>2. PICK n \in stable..Len(full) : file' = SubSeq(full, 1, n)
      BY <3>1
    <3>3. /\ full \in Seq(Record) /\ Len(full) \in Nat
          /\ \A i \in 1..Len(file) : full[i] = file[i]
      BY InterruptedLog
    <3> HIDE DEF full
    <3>4. n \in 0..Len(full)
      BY <3>3, LogFacts
    <3>5. Len(file') = n /\ \A i \in 1..n : file'[i] = full[i]
      BY <3>2, <3>3, <3>4, CutLog
    <3> QED BY <3>3, <3>4, <3>5, LogFacts
  <2> QED BY <2>1, <2>2
<1>4. stable <= stable'
  <2>1. CASE process_crash
    BY <2>1, LogFacts DEF process_crash
  <2>2. CASE power_loss
    <3>1. PICK k \in 0..Len(InFlight) : stable' \in stable..Len(file \o SubSeq(InFlight, 1, k))
      BY <2>2 DEF power_loss
    <3> QED BY <3>1, LogFacts, LogFactsAfter
  <2> QED BY <2>1, <2>2
<1>5. Contract!Agree(file, file') /\ stable' \in stable..Len(file')
  BY <1>3, <1>4, LogFacts, LogFactsAfter DEF Contract!Agree
<1> QED BY <1>1, <1>2, <1>5, LogFactsAfter DEF Contract!Stop

\* The operations of a task under the commit lane.
LEMMA TaskContractStep ==
    ASSUME IndInv, IndInv', NEW t \in Tasks, TaskStep(t)
    PROVE  ContractStep
<1> DEFINE Same == /\ opened' = opened /\ file' = file /\ projection' = projection
                   /\ stable' = stable /\ uncertain' = uncertain
<1>s. ASSUME Same PROVE ContractStep
  BY <1>s DEF ContractStep, Contract!vars
<1>1. ASSUME NEW n \in 1..MaxBatch, append_events(t, n) \/ append_events_and_sync(t, n)
      PROVE  ContractStep
  BY <1>1, <1>s DEF append_events, append_events_and_sync, BeginAppend, disk
<1>2. CASE append_stored_batch(t)
  <2>1. /\ task[t].phase = "append" /\ WriterAccepts(task[t].batch)
        /\ file' = file \o task[t].batch /\ stable' = stable /\ opened' = opened
        /\ projection' = projection /\ uncertain' = uncertain
    BY <1>2 DEF append_stored_batch
  <2>2. /\ file \in Seq(Record) /\ task[t].batch \in Seq(Record) /\ uncertain.kind = "None"
        /\ Len(task[t].batch) \in Nat /\ Len(file) \in Nat
    BY <2>1, AppendFacts, Sizes
  <2>3. /\ Len(file') = Len(file) + Len(task[t].batch)
        /\ \A i \in 1..Len(file) : file'[i] = file[i]
    BY <2>1, <2>2
  <2>4. Len(file) <= Len(file') /\ stable <= stable'
    BY <2>1, <2>2, <2>3, LogFacts
  <2> QED BY <2>1, <2>2, <2>3, <2>4, WriteStep DEF ContractStep, Contract!Next
<1>3. CASE append_fails(t)
  BY <1>3, <1>s DEF append_fails, RolledBackFile
<1>4. CASE append_poisons(t)
  <2>1. /\ task[t].phase = "append" /\ WriterAccepts(task[t].batch)
        /\ stable' = stable /\ opened' = opened
        /\ projection' = projection /\ uncertain' = uncertain
    BY <1>4 DEF append_poisons
  <2>2. PICK k \in 0..(Len(task[t].batch) - 1) : file' = file \o SubSeq(task[t].batch, 1, k)
    BY <1>4 DEF append_poisons
  <2>3. /\ uncertain.kind = "None" /\ Len(task[t].batch) \in Nat /\ Len(file) \in Nat
    BY <2>1, AppendFacts, Sizes
  <2>4. k \in 0..Len(task[t].batch) /\ k \in Nat
    BY <2>3
  <2>5. file' = Grown(t, k)
    BY <2>2 DEF Grown
  <2>6. Len(file') = Len(file) + k /\ \A i \in 1..Len(file) : file'[i] = file[i]
    BY <2>1, <2>4, <2>5, GrowingLog
  <2>7. Len(file) <= Len(file') /\ stable <= stable'
    BY <2>1, <2>3, <2>4, <2>6, LogFacts
  <2> QED BY <2>1, <2>3, <2>6, <2>7, WriteStep DEF ContractStep, Contract!Next
<1>5. CASE apply_committed(t)
  <2>1. /\ task[t].phase = "appended" /\ projection' = projection \o task[t].batch
        /\ file' = file /\ stable' = stable /\ opened' = opened /\ uncertain' = uncertain
    BY <1>5 DEF apply_committed, disk
  <2>2. opened /\ task[t] \in TaskState /\ uncertain.kind = "None"
    BY <2>1, HoldsLane DEF IndInv, PhaseInv, AtPhase
  <2>3. /\ projection \in Seq(Record) /\ task[t].batch \in Seq(Record)
        /\ Len(projection) \in Nat /\ Len(task[t].batch) \in Nat
    BY <2>2, Sizes DEF TaskState
  <2>4. Len(projection') = Len(projection) + Len(task[t].batch)
    BY <2>1, <2>3
  <2>5. Len(projection') \in Len(projection)..Len(file)
    BY <2>1, <2>2, <2>3, <2>4, LogFacts, LogFactsAfter
  <2> QED BY <2>1, <2>2, <2>5 DEF ContractStep, Contract!Next, Contract!Publish
<1>6. CASE set_uncertain(t)
  <2>1. /\ task[t].phase = "appended" /\ uncertain'.kind = "PendingProjection"
        /\ file' = file /\ stable' = stable /\ opened' = opened /\ projection' = projection
    BY <1>6 DEF set_uncertain, disk
  <2>2. opened /\ uncertain.kind = "None"
    BY <2>1, HoldsLane DEF IndInv, PhaseInv, AtPhase
  <2> QED BY <2>1, <2>2 DEF ContractStep, Contract!Next, Contract!Doubt
<1>7. CASE sync_durable_events(t)
  <2>1. /\ opened /\ uncertain.kind = "None" /\ uncertain'.kind = "Published"
        /\ file' = file /\ stable' = stable /\ opened' = opened /\ projection' = projection
    BY <1>7 DEF sync_durable_events, acquire_confirmed_commit_lane, acquire_commit_lane,
       ensure_no_uncertain_durability, disk
  <2> QED BY <2>1 DEF ContractStep, Contract!Next, Contract!Doubt
<1>8. ASSUME NEW through \in reported,
             retry_uncertain_sync(t, through) \/ retry_already_confirmed(t, through)
      PROVE  ContractStep
  BY <1>8, <1>s DEF retry_uncertain_sync, retry_already_confirmed, disk
<1>9. CASE flush_and_sync(t) \/ flush_and_sync_fails(t)
  <2>1. /\ file' = file /\ opened' = opened /\ projection' = projection /\ uncertain' = uncertain
        /\ stable' \in {stable, Len(file)} \cup (stable..Len(file))
    BY <1>9 DEF flush_and_sync, flush_and_sync_fails
  <2>2. stable <= stable'
    BY <2>1, LogFacts
  <2> QED BY <2>1, <2>2, HardenStep DEF ContractStep, Contract!Next
<1>10. CASE apply_confirmed_projection(t)
  <2>1. /\ task[t].phase = "synced" /\ opened' = opened /\ file' = file /\ stable' = stable
        /\ next_seq' = next_seq
    BY <1>10 DEF apply_confirmed_projection, disk, writer
  <2>2. opened /\ uncertain.kind # "None" /\ stable >= next_seq
    BY <2>1, HoldsLane DEF IndInv, PhaseInv, AtPhase, MarkerFor
  <2>3. \/ projection' = projection /\ uncertain' = uncertain
        \/ projection' = projection \o uncertain.batch /\ uncertain' = NoMarker
    BY <1>10 DEF apply_confirmed_projection, MarkerAfterConfirmation
  <2>4. CASE projection' = projection /\ uncertain' = uncertain
    BY <2>1, <2>4, <1>s
  <2>5. CASE projection' = projection \o uncertain.batch /\ uncertain' = NoMarker
    <3>1. /\ projection \in Seq(Record) /\ uncertain.batch \in Seq(Record)
          /\ Len(projection) \in Nat /\ Len(uncertain.batch) \in Nat
      BY Sizes DEF IndInv, TypeOK, Marker
    <3>2. Len(projection') = Len(projection) + Len(uncertain.batch)
      BY <2>5, <3>1
    <3>3. Len(projection') \in Len(projection)..stable
      BY <2>1, <2>2, <3>1, <3>2, LogFacts, LogFactsAfter
    <3>4. uncertain'.kind = "None"
      BY <2>5 DEF NoMarker
    <3> QED BY <2>1, <2>2, <3>3, <3>4 DEF ContractStep, Contract!Next, Contract!Resolve
  <2> QED BY <2>3, <2>4, <2>5
<1> QED BY <1>1, <1>2, <1>3, <1>4, <1>5, <1>6, <1>7, <1>8, <1>9, <1>10 DEF TaskStep

\* Every step of the journal is one that the contract allows.
LEMMA EveryStep == IndInv /\ IndInv' /\ [Next]_vars => [Contract!Next]_Contract!vars
<1> SUFFICES ASSUME IndInv, IndInv', [Next]_vars PROVE ContractStep
  BY DEF ContractStep
<1>1. CASE create_session \/ get_or_open_meta
  BY <1>1, OpenStep DEF ContractStep, Contract!Next
<1>2. CASE create_session_fails
  <2>1. /\ ~opened /\ file = << >> /\ Len(file) = 0 /\ uncertain.kind = "None"
    BY <1>2, NoFileFacts, LogFacts DEF create_session_fails
  <2>2. opened' = opened /\ projection' = projection /\ uncertain' = uncertain
    BY <1>2 DEF create_session_fails
  <2>3. stable = 0 /\ stable <= stable' /\ Len(file) <= Len(file')
    BY <2>1, LogFacts, LogFactsAfter
  <2> QED BY <2>1, <2>2, <2>3, WriteStep DEF ContractStep, Contract!Next
<1>3. CASE get_or_open_meta_fails
  <2>1. /\ opened' = opened /\ projection' = projection /\ uncertain' = uncertain
        /\ file' = file /\ stable' \in stable..Len(file)
    BY <1>3 DEF get_or_open_meta_fails
  <2>2. stable <= stable'
    BY <2>1, LogFacts
  <2> QED BY <2>1, <2>2, HardenStep DEF ContractStep, Contract!Next
<1>4. ASSUME NEW t \in Tasks, TaskStep(t) PROVE ContractStep
  BY <1>4, TaskContractStep
<1>5. CASE process_crash \/ power_loss
  BY <1>5, StopStep DEF ContractStep, Contract!Next
<1>6. CASE UNCHANGED vars
  BY <1>6 DEF vars, disk, ContractStep, Contract!vars
<1> QED BY <1>1, <1>2, <1>3, <1>4, <1>5, <1>6 DEF Next

\* The file store keeps the contract of SessionEventJournal: append-only log,
\* visible prefix, durable prefix that nothing takes back, and a doubt that
\* freezes the log until an fsync resolves it.
THEOREM JournalKeepsContract == Spec => ImplementsContract
<1>1. Init => Contract!Init
  BY DEF Init, Contract!Init, NoMarker
<1>2. IndInv /\ IndInv' /\ [Next]_vars => [Contract!Next]_Contract!vars
  BY EveryStep
<1> QED BY <1>1, <1>2, JournalInvariant, PTL DEF Spec, ImplementsContract, Contract!Spec

=============================================================================
