----------------------- MODULE SessionEventSinkProofs -----------------------
(***************************************************************************)
(* Proofs about SessionEventSink for any set of callers and operations, any *)
(* queue and batch size, and any number of events, lanes and deferrals.     *)
(***************************************************************************)
EXTENDS SessionEventSink, TLAPS, SequenceTheorems, NaturalsInduction, WellFoundedInduction

Evs == 1..Len(issued)
IssueType == [from : Callers, op : EventOps]
CmdType == [op : CommandOps, ev : Nat, from : Repliers, arg : Nat]

\* A command for an event names one that was issued; a live command a live event.
Cmds ==
    {x \in CmdType :
        /\ x.op \in DurableOps \cup {"live"} => x.ev \in Evs
        /\ x.op = "live" => ~IsDurable(x.ev)
        /\ x.from = Nobody => x.op = "live"}
OutType(E) == [ev : E, from : Repliers]
LaneType(C, O) ==
    [phase : {"unused", "running", "stopped"}, receiving : BOOLEAN, queue : Seq(C),
     pending : Seq(C), step : {"recv", "route", "deliver"}, out : Seq(O)]
CallerStates == {"send", "wait", "live_route", "live_deliver"}
CallerType(C) == {Idle} \cup [st : CallerStates, lane : 0..MaxLanes, cmd : {<<x>> : x \in C}]
DoubtType(E) ==
    [kind : {"None", "PendingProjection", "Published"}, batch : Seq(E), through : Nat]
DeferredType(E) == [on : BOOLEAN, events : Seq(E)]
GuardType(E) ==
    [st : {"none", "open", "take", "publish"}, out : Seq(E), used : Nat, lost : SUBSET E]

Types ==
    /\ closed \in BOOLEAN /\ inactive \in BOOLEAN /\ current \in 0..MaxLanes
    /\ issued \in Seq(IssueType) /\ acked \subseteq Evs
    /\ lane \in [Lanes -> LaneType(Cmds, OutType(Evs))]
    /\ log \in Seq(Evs) /\ durable \in Nat /\ doubt \in DoubtType(Evs)
    /\ deferred \in DeferredType(Evs) /\ guard \in GuardType(Evs)
    /\ caller \in [Callers -> CallerType(Cmds)]
    /\ manager \in [st : {"idle", "send", "drain", "released"}, lane : 0..MaxLanes]
    /\ sink \in [st : {"idle", "send", "drain", "done"}, lane : 0..MaxLanes]
    /\ published \in Seq(Evs)

\* A lane runs only while somebody holds it, and at most one of the session, the
\* manager that releases it and the sink that shuts down does.
RunInv ==
    /\ \A l \in Lanes : lane[l].phase = "running" =>
           l = current \/ l = manager.lane \/ l = sink.lane
    /\ \A l \in Lanes : /\ lane[l].step = "recv" <=> lane[l].out = << >>
                        /\ lane[l].step # "recv" => lane[l].phase = "running"
    /\ inactive \/ closed => current = 0
    /\ manager.lane # 0 => inactive /\ sink.lane = 0 /\ manager.st \in {"send", "drain"}
    /\ manager.st = "released" => inactive /\ manager.lane = 0
    /\ manager.st \in {"send", "drain"} => manager.lane # 0
    /\ sink.lane # 0 => closed
    /\ sink.st = "idle" => ~closed
    /\ sink.st \in {"send", "drain"} => sink.lane # 0

\* An entry exists exactly while a guard does, and the guard holds events only
\* between taking and publishing them.
DeferInv ==
    /\ deferred.on <=> guard.st # "none"
    /\ ~deferred.on => deferred.events = << >>
    /\ guard.st = "publish" <=> guard.out # << >>

\* The event x that caller c is busy with is its own and its latest.
Latest(c, x) == x \in Evs /\ issued[x].from = c /\ \A k \in Evs : issued[k].from = c => k <= x

CallerOK(c, r) ==
    /\ r.st \in {"send", "wait"} => r.lane \in Lanes
    /\ \/ Latest(c, r.cmd[1].ev)
       \/ r.cmd[1].ev = 0 /\ r.st \in {"send", "wait"}
    /\ r.st \in {"live_route", "live_deliver"} => ~IsDurable(r.cmd[1].ev)

CallerInv == \A c \in Callers : caller[c] # Idle => CallerOK(c, caller[c])

\* The durable events, and who issued an event.
Dur == {e \in Evs : IsDurable(e)}
From == [e \in Evs |-> issued[e].from]
OutOf(l) == [i \in 1..Len(lane[l].out) |-> lane[l].out[i].ev]

\* x is in the log L before y.
Before(L, x, y) == \E b \in 1..Len(L) : \E a \in 1..(b - 1) : L[a] = x /\ L[b] = y

\* The events of U in s are in the order of L; those of S are before those of T.
Sorted(L, U, s) ==
    \A j \in 1..Len(s) : \A i \in 1..(j - 1) : s[i] \in U /\ s[j] \in U => Before(L, s[i], s[j])
Ahead(L, U, S, T) == \A x \in S \cap U, y \in T \cap U : Before(L, x, y)

\* The way of the durable events U: what a lane still has to publish (O), the
\* buffer of a deferral (D), what the guard took (G), the observer (P).  Nothing
\* overtakes, and a lane that is past the lock of the buffer finds it without
\* durable events.
OrderOK(L, U, P, G, D, O, past) ==
    /\ ElementsOf(P) \cap U \subseteq ElementsOf(L) /\ ElementsOf(G) \cap U \subseteq ElementsOf(L)
    /\ ElementsOf(D) \cap U \subseteq ElementsOf(L) /\ ElementsOf(O) \cap U \subseteq ElementsOf(L)
    /\ Sorted(L, U, P) /\ Sorted(L, U, G) /\ Sorted(L, U, D) /\ Sorted(L, U, O)
    /\ Ahead(L, U, ElementsOf(P), ElementsOf(G)) /\ Ahead(L, U, ElementsOf(P), ElementsOf(D))
    /\ Ahead(L, U, ElementsOf(P), ElementsOf(O)) /\ Ahead(L, U, ElementsOf(G), ElementsOf(D))
    /\ Ahead(L, U, ElementsOf(G), ElementsOf(O)) /\ Ahead(L, U, ElementsOf(D), ElementsOf(O))
    /\ past => ElementsOf(G) \cap U = {} /\ ElementsOf(D) \cap U = {}

OrderInv ==
    \A l \in Lanes :
        OrderOK(log, Dur, published, guard.out, deferred.events, OutOf(l), lane[l].step = "deliver")

\* A are the durable events that were acknowledged, gone those the guard lost, H
\* the events that are past the lock: what a caller had acknowledged comes before
\* what it issued later.
Upto(s, j) == {s[i] : i \in 1..j}
Follower(F, e, f) == e < f /\ F[e] = F[f]
AckOK(A, F, gone, P, G, D, H) ==
    /\ A \subseteq gone \cup ElementsOf(P) \cup ElementsOf(G) \cup ElementsOf(D)
    /\ \A j \in 1..Len(P) : \A e \in A : Follower(F, e, P[j]) => e \in gone \cup Upto(P, j)
    /\ \A j \in 1..Len(G) : \A e \in A :
           Follower(F, e, G[j]) => e \in gone \cup ElementsOf(P) \cup Upto(G, j)
    /\ \A j \in 1..Len(D) : \A e \in A :
           Follower(F, e, D[j]) => e \in gone \cup ElementsOf(P) \cup ElementsOf(G) \cup Upto(D, j)
    /\ \A h \in H : \A e \in A : Follower(F, e, h) => e \in gone \cup ElementsOf(P)

Past ==
    {caller[c].cmd[1].ev : c \in {d \in Callers : caller[d].st = "live_deliver"}}
        \cup {lane[l].out[1].ev : l \in {k \in Lanes : lane[k].step = "deliver"}}

AckInv == AckOK(acked \cap Dur, From, guard.lost, published, guard.out, deferred.events, Past)

IndInv ==
    /\ Types /\ RunInv /\ DeferInv /\ CallerInv /\ OrderInv /\ AckInv
    /\ CommittedIsOnTheWay /\ ReleasedIsDurable

-----------------------------------------------------------------------------
(* Elements of sequences. *)

LEMMA AppendElements ==
    ASSUME NEW S, NEW s \in Seq(S), NEW x \in S
    PROVE  /\ Append(s, x) \in Seq(S)
           /\ ElementsOf(Append(s, x)) = ElementsOf(s) \cup {x}
<1> DEFINE r == Append(s, x)
<1>1. /\ r \in Seq(S) /\ Len(s) \in Nat /\ Len(r) = Len(s) + 1
      /\ \A i \in 1..Len(s) : r[i] = s[i]
      /\ r[Len(s) + 1] = x
  BY AppendProperties, LenProperties
<1> HIDE DEF r
<1>2. 1..Len(r) = 1..Len(s) \cup {Len(s) + 1}
  BY <1>1
<1>3. ElementsOf(r) = ElementsOf(s) \cup {x}
  BY <1>1, <1>2 DEF ElementsOf
<1> QED BY <1>1, <1>3 DEF r

LEMMA TailElements ==
    ASSUME NEW S, NEW s \in Seq(S), s # << >>
    PROVE  /\ Tail(s) \in Seq(S) /\ s[1] \in S /\ Len(s) \in Nat /\ Len(s) >= 1
           /\ Len(Tail(s)) = Len(s) - 1
           /\ ElementsOf(s) = {s[1]} \cup ElementsOf(Tail(s))
<1> DEFINE r == Tail(s)
<1>1. Len(s) \in Nat /\ Len(s) >= 1
  BY EmptySeq
<1>2. /\ r \in Seq(S) /\ Len(r) = Len(s) - 1 /\ s[1] \in S
      /\ \A i \in 1..Len(r) : r[i] = s[i + 1]
  BY <1>1, HeadTailProperties, ElementOfSeq
<1> HIDE DEF r
<1>3. \A i \in 1..Len(r) : i + 1 \in 1..Len(s)
  BY <1>1, <1>2
<1>4. \A i \in 1..Len(s) : i = 1 \/ (i - 1 \in 1..Len(r) /\ (i - 1) + 1 = i)
  BY <1>1, <1>2
<1>5. ElementsOf(s) \subseteq {s[1]} \cup ElementsOf(r)
  <2> SUFFICES ASSUME NEW i \in 1..Len(s), i # 1 PROVE s[i] \in ElementsOf(r)
    BY DEF ElementsOf
  <2>1. i - 1 \in 1..Len(r) /\ r[i - 1] = s[i]
    BY <1>2, <1>4
  <2> QED BY <2>1 DEF ElementsOf
<1>6. ElementsOf(r) \subseteq ElementsOf(s) /\ s[1] \in ElementsOf(s)
  <2>1. 1 \in 1..Len(s)
    BY <1>1
  <2>2. \A i \in 1..Len(r) : r[i] = s[i + 1] /\ i + 1 \in 1..Len(s)
    BY <1>2, <1>3
  <2> QED BY <2>1, <2>2 DEF ElementsOf
<1> QED BY <1>1, <1>2, <1>5, <1>6 DEF r

LEMMA ConcatElements ==
    ASSUME NEW S, NEW s \in Seq(S), NEW t \in Seq(S)
    PROVE  /\ s \o t \in Seq(S) /\ Len(s \o t) = Len(s) + Len(t)
           /\ ElementsOf(s \o t) = ElementsOf(s) \cup ElementsOf(t)
<1> DEFINE r == s \o t
<1>1. /\ r \in Seq(S) /\ Len(s) \in Nat /\ Len(t) \in Nat /\ Len(r) = Len(s) + Len(t)
      /\ \A i \in 1..(Len(s) + Len(t)) : r[i] = IF i <= Len(s) THEN s[i] ELSE t[i - Len(s)]
  BY ConcatProperties, LenProperties
<1> HIDE DEF r
<1>2. \A i \in 1..Len(s) : i \in 1..Len(r) /\ r[i] = s[i]
  BY <1>1
<1>3. \A i \in 1..Len(t) : Len(s) + i \in 1..Len(r) /\ r[Len(s) + i] = t[i]
  <2> TAKE i \in 1..Len(t)
  <2>1. Len(s) + i \in 1..(Len(s) + Len(t)) /\ ~(Len(s) + i <= Len(s)) /\ (Len(s) + i) - Len(s) = i
    BY <1>1
  <2> QED BY <1>1, <2>1
<1>4. \A i \in 1..Len(r) : \/ i \in 1..Len(s) /\ r[i] = s[i]
                           \/ i - Len(s) \in 1..Len(t) /\ r[i] = t[i - Len(s)]
  BY <1>1
<1>5. ElementsOf(r) = ElementsOf(s) \cup ElementsOf(t)
  <2>1. \A i \in 1..Len(r) : r[i] \in ElementsOf(s) \cup ElementsOf(t)
    BY <1>4 DEF ElementsOf
  <2>2. \A i \in 1..Len(s) : s[i] \in ElementsOf(r)
    BY <1>2 DEF ElementsOf
  <2>3. \A i \in 1..Len(t) : t[i] \in ElementsOf(r)
    BY <1>3 DEF ElementsOf
  <2> QED BY <2>1, <2>2, <2>3 DEF ElementsOf
<1> QED BY <1>1, <1>5 DEF r

LEMMA NoElements == Len(<< >>) = 0 /\ ElementsOf(<< >>) = {}
BY DEF ElementsOf

-----------------------------------------------------------------------------
(* Order. *)

LEMMA NothingSorted ==
    ASSUME NEW L, NEW U
    PROVE  Sorted(L, U, << >>)
BY NoElements DEF Sorted

LEMMA AppendSorted ==
    ASSUME NEW L, NEW U, NEW S, NEW s \in Seq(S), NEW x \in S,
           Sorted(L, U, s), Ahead(L, U, ElementsOf(s), {x})
    PROVE  Sorted(L, U, Append(s, x))
<1> DEFINE r == Append(s, x)
<1>1. /\ r \in Seq(S) /\ Len(s) \in Nat /\ Len(r) = Len(s) + 1
      /\ \A i \in 1..Len(s) : r[i] = s[i]
      /\ r[Len(s) + 1] = x
  BY AppendProperties, LenProperties
<1> HIDE DEF r
<1>2. ASSUME NEW j \in 1..Len(r), NEW i \in 1..(j - 1), r[i] \in U, r[j] \in U
      PROVE  Before(L, r[i], r[j])
  <2>0. i \in 1..Len(s) /\ r[i] = s[i]
    BY <1>1
  <2>1. CASE j = Len(s) + 1
    <3>1. s[i] \in ElementsOf(s)
      BY <2>0 DEF ElementsOf
    <3> QED BY <1>1, <1>2, <2>0, <2>1, <3>1 DEF Ahead
  <2>2. CASE j \in 1..Len(s)
    BY <1>1, <1>2, <2>0, <2>2 DEF Sorted
  <2> QED BY <1>1, <2>1, <2>2
<1> QED BY <1>2 DEF Sorted, r

LEMMA TailSorted ==
    ASSUME NEW L, NEW U, NEW S, NEW s \in Seq(S), s # << >>, Sorted(L, U, s)
    PROVE  Sorted(L, U, Tail(s)) /\ Ahead(L, U, {s[1]}, ElementsOf(Tail(s)))
<1> DEFINE r == Tail(s)
<1>1. /\ r \in Seq(S) /\ Len(s) \in Nat /\ Len(s) >= 1 /\ Len(r) = Len(s) - 1
      /\ \A i \in 1..Len(r) : r[i] = s[i + 1]
  BY HeadTailProperties, EmptySeq
<1> HIDE DEF r
<1>2. ASSUME NEW j \in 1..Len(r), NEW i \in 1..(j - 1), r[i] \in U, r[j] \in U
      PROVE  Before(L, r[i], r[j])
  <2>1. j + 1 \in 1..Len(s) /\ i + 1 \in 1..((j + 1) - 1) /\ i \in 1..Len(r)
    BY <1>1
  <2>2. r[j] = s[j + 1] /\ r[i] = s[i + 1]
    BY <1>1, <2>1
  <2> QED BY <1>2, <2>1, <2>2 DEF Sorted
<1>3. ASSUME NEW j \in 1..Len(r), s[1] \in U, r[j] \in U
      PROVE  Before(L, s[1], r[j])
  <2>1. j + 1 \in 1..Len(s) /\ 1 \in 1..((j + 1) - 1) /\ r[j] = s[j + 1]
    BY <1>1
  <2> QED BY <1>3, <2>1 DEF Sorted
<1>4. Sorted(L, U, r)
  BY <1>2 DEF Sorted
<1>5. Ahead(L, U, {s[1]}, ElementsOf(r))
  BY <1>3 DEF Ahead, ElementsOf
<1> QED BY <1>4, <1>5 DEF r

\* A longer log keeps the order, and what it adds is after what it had.
LEMMA LogGrows ==
    ASSUME NEW S, NEW L \in Seq(S), NEW M \in Seq(S), NEW K, K = L \o M
    PROVE  /\ \A x, y : Before(L, x, y) => Before(K, x, y)
           /\ \A U : Sorted(K, U, M)
           /\ \A x \in ElementsOf(L), y \in ElementsOf(M) : Before(K, x, y)
<1>1. /\ Len(L) \in Nat /\ Len(M) \in Nat /\ Len(K) = Len(L) + Len(M)
      /\ \A i \in 1..(Len(L) + Len(M)) : K[i] = IF i <= Len(L) THEN L[i] ELSE M[i - Len(L)]
  BY ConcatProperties, LenProperties
<1>2. \A i \in 1..Len(L) : i \in 1..Len(K) /\ K[i] = L[i]
  BY <1>1
<1>3. \A i \in 1..Len(M) : Len(L) + i \in 1..Len(K) /\ K[Len(L) + i] = M[i]
  <2> TAKE i \in 1..Len(M)
  <2>1. Len(L) + i \in 1..(Len(L) + Len(M)) /\ ~(Len(L) + i <= Len(L)) /\ (Len(L) + i) - Len(L) = i
    BY <1>1
  <2> QED BY <1>1, <2>1
<1>4. ASSUME NEW x, NEW y, Before(L, x, y) PROVE Before(K, x, y)
  <2>1. PICK b \in 1..Len(L) : \E a \in 1..(b - 1) : L[a] = x /\ L[b] = y
    BY <1>4 DEF Before
  <2>2. PICK a \in 1..(b - 1) : L[a] = x /\ L[b] = y
    BY <2>1
  <2>3. a \in 1..Len(L)
    BY <1>1
  <2> QED BY <1>2, <2>2, <2>3 DEF Before
<1>5. ASSUME NEW j \in 1..Len(M), NEW i \in 1..(j - 1) PROVE Before(K, M[i], M[j])
  <2>1. i \in 1..Len(M) /\ Len(L) + i \in 1..((Len(L) + j) - 1)
    BY <1>1
  <2> QED BY <1>3, <2>1 DEF Before
<1>6. ASSUME NEW i \in 1..Len(L), NEW j \in 1..Len(M) PROVE Before(K, L[i], M[j])
  <2>1. i \in 1..((Len(L) + j) - 1)
    BY <1>1
  <2> QED BY <1>2, <1>3, <2>1 DEF Before
<1> QED BY <1>4, <1>5, <1>6 DEF Sorted, ElementsOf

-----------------------------------------------------------------------------
(* The ways an event moves keep the order. *)

\* A lane with nothing to publish.
LEMMA OrderNoLane ==
    ASSUME NEW L, NEW U, NEW P, NEW G, NEW D, NEW O, NEW past, OrderOK(L, U, P, G, D, O, past)
    PROVE  OrderOK(L, U, P, G, D, << >>, FALSE)
BY NoElements, NothingSorted DEF OrderOK, Ahead

\* commit_deferred publishes the next event it took.
LEMMA OrderGuardPublishes ==
    ASSUME NEW L, NEW U, NEW P \in Seq(Nat), NEW G \in Seq(Nat), NEW D, NEW O, NEW past,
           OrderOK(L, U, P, G, D, O, past), G # << >>
    PROVE  OrderOK(L, U, Append(P, G[1]), Tail(G), D, O, past)
<1>1. /\ G[1] \in Nat /\ Tail(G) \in Seq(Nat)
      /\ ElementsOf(G) = {G[1]} \cup ElementsOf(Tail(G))
  BY TailElements
<1>2. ElementsOf(Append(P, G[1])) = ElementsOf(P) \cup {G[1]}
  BY <1>1, AppendElements
<1>3. Sorted(L, U, Tail(G)) /\ Ahead(L, U, {G[1]}, ElementsOf(Tail(G)))
  BY TailSorted DEF OrderOK
<1>4. Sorted(L, U, Append(P, G[1]))
  <2>1. Ahead(L, U, ElementsOf(P), {G[1]})
    BY <1>1 DEF OrderOK, Ahead
  <2> QED BY <1>1, <2>1, AppendSorted DEF OrderOK
<1> DEFINE Q == Append(P, G[1])
           T == Tail(G)
<1> HIDE DEF Q, T
<1>5. /\ ElementsOf(Q) = ElementsOf(P) \cup {G[1]} /\ ElementsOf(G) = {G[1]} \cup ElementsOf(T)
      /\ Sorted(L, U, T) /\ Sorted(L, U, Q) /\ Ahead(L, U, {G[1]}, ElementsOf(T))
  BY <1>1, <1>2, <1>3, <1>4 DEF Q, T
<1>6. OrderOK(L, U, Q, T, D, O, past)
  BY <1>5 DEF OrderOK, Ahead
<1> QED BY <1>6 DEF Q, T

\* commit_deferred takes the buffer.
LEMMA OrderGuardTakes ==
    ASSUME NEW L, NEW U, NEW P, NEW D, NEW O, NEW past, OrderOK(L, U, P, << >>, D, O, past)
    PROVE  OrderOK(L, U, P, D, << >>, O, past)
BY NoElements, NothingSorted DEF OrderOK, Ahead

\* discard_deferred forgets it.
LEMMA OrderDiscards ==
    ASSUME NEW L, NEW U, NEW P, NEW G, NEW D, NEW O, NEW past, OrderOK(L, U, P, G, D, O, past)
    PROVE  OrderOK(L, U, P, G, << >>, O, past)
BY NoElements, NothingSorted DEF OrderOK, Ahead

\* publish_durable of a lane buffers its next event.
LEMMA OrderLaneDefers ==
    ASSUME NEW L, NEW U, NEW P, NEW G, NEW D \in Seq(Nat), NEW O \in Seq(Nat),
           OrderOK(L, U, P, G, D, O, FALSE), O # << >>
    PROVE  OrderOK(L, U, P, G, Append(D, O[1]), Tail(O), FALSE)
<1>1. /\ O[1] \in Nat /\ Tail(O) \in Seq(Nat)
      /\ ElementsOf(O) = {O[1]} \cup ElementsOf(Tail(O))
  BY TailElements
<1>2. ElementsOf(Append(D, O[1])) = ElementsOf(D) \cup {O[1]}
  BY <1>1, AppendElements
<1>3. Sorted(L, U, Tail(O)) /\ Ahead(L, U, {O[1]}, ElementsOf(Tail(O)))
  BY TailSorted DEF OrderOK
<1>4. Sorted(L, U, Append(D, O[1]))
  <2>1. Ahead(L, U, ElementsOf(D), {O[1]})
    BY <1>1 DEF OrderOK, Ahead
  <2> QED BY <1>1, <2>1, AppendSorted DEF OrderOK
<1> DEFINE Q == Append(D, O[1])
           T == Tail(O)
<1> HIDE DEF Q, T
<1>5. /\ ElementsOf(Q) = ElementsOf(D) \cup {O[1]} /\ ElementsOf(O) = {O[1]} \cup ElementsOf(T)
      /\ Sorted(L, U, T) /\ Sorted(L, U, Q) /\ Ahead(L, U, {O[1]}, ElementsOf(T))
  BY <1>1, <1>2, <1>3, <1>4 DEF Q, T
<1>6. OrderOK(L, U, P, G, Q, T, FALSE)
  BY <1>5 DEF OrderOK, Ahead
<1> QED BY <1>6 DEF Q, T

\* publish_durable past the lock: no durable event is in front of this one.
LEMMA OrderLaneDelivers ==
    ASSUME NEW L, NEW U, NEW P \in Seq(Nat), NEW G, NEW D, NEW O \in Seq(Nat),
           OrderOK(L, U, P, G, D, O, TRUE), O # << >>
    PROVE  OrderOK(L, U, Append(P, O[1]), G, D, Tail(O), FALSE)
<1>1. /\ O[1] \in Nat /\ Tail(O) \in Seq(Nat)
      /\ ElementsOf(O) = {O[1]} \cup ElementsOf(Tail(O))
  BY TailElements
<1>2. ElementsOf(Append(P, O[1])) = ElementsOf(P) \cup {O[1]}
  BY <1>1, AppendElements
<1>3. Sorted(L, U, Tail(O)) /\ Ahead(L, U, {O[1]}, ElementsOf(Tail(O)))
  BY TailSorted DEF OrderOK
<1>4. Sorted(L, U, Append(P, O[1]))
  <2>1. Ahead(L, U, ElementsOf(P), {O[1]})
    BY <1>1 DEF OrderOK, Ahead
  <2> QED BY <1>1, <2>1, AppendSorted DEF OrderOK
<1> DEFINE Q == Append(P, O[1])
           T == Tail(O)
<1> HIDE DEF Q, T
<1>5. /\ ElementsOf(Q) = ElementsOf(P) \cup {O[1]} /\ ElementsOf(O) = {O[1]} \cup ElementsOf(T)
      /\ Sorted(L, U, T) /\ Sorted(L, U, Q) /\ Ahead(L, U, {O[1]}, ElementsOf(T))
  BY <1>1, <1>2, <1>3, <1>4 DEF Q, T
<1>6. OrderOK(L, U, Q, G, D, T, FALSE)
  BY <1>5 DEF OrderOK, Ahead
<1> QED BY <1>6 DEF Q, T

\* A live event may be buffered or published anywhere.
LEMMA OrderLive ==
    ASSUME NEW L, NEW U, NEW P \in Seq(Nat), NEW G, NEW D \in Seq(Nat), NEW O, NEW past,
           OrderOK(L, U, P, G, D, O, past), NEW x \in Nat, x \notin U
    PROVE  /\ OrderOK(L, U, Append(P, x), G, D, O, past)
           /\ OrderOK(L, U, P, G, Append(D, x), O, past)
           /\ OrderOK(L, U, P, G, D, <<x>>, FALSE)
<1>1. /\ ElementsOf(Append(P, x)) = ElementsOf(P) \cup {x}
      /\ ElementsOf(Append(D, x)) = ElementsOf(D) \cup {x}
  BY AppendElements
<1>2. \A S : Ahead(L, U, S, {x})
  BY DEF Ahead
<1>3. Sorted(L, U, Append(P, x)) /\ Sorted(L, U, Append(D, x))
  BY <1>2, AppendSorted DEF OrderOK
<1>4. ElementsOf(<<x>>) = {x} /\ Sorted(L, U, <<x>>)
  BY DEF ElementsOf, Sorted
<1> DEFINE Q == Append(P, x)
           T == Append(D, x)
           O1 == <<x>>
<1> HIDE DEF Q, T, O1
<1>5. /\ ElementsOf(Q) = ElementsOf(P) \cup {x} /\ ElementsOf(T) = ElementsOf(D) \cup {x}
      /\ Sorted(L, U, T) /\ Sorted(L, U, Q) /\ ElementsOf(O1) = {x} /\ Sorted(L, U, O1)
  BY <1>1, <1>3, <1>4 DEF Q, T, O1
<1>6. OrderOK(L, U, Q, G, D, O, past)
  BY <1>5 DEF OrderOK, Ahead
<1>7. OrderOK(L, U, P, G, T, O, past)
  BY <1>5 DEF OrderOK, Ahead
<1>8. OrderOK(L, U, P, G, D, O1, FALSE)
  BY <1>5 DEF OrderOK, Ahead
<1> QED BY <1>6, <1>7, <1>8 DEF Q, T, O1

\* The lane goes past the lock while there is no deferral.
LEMMA OrderGoesPast ==
    ASSUME NEW L, NEW U, NEW P, NEW O, NEW past, OrderOK(L, U, P, << >>, << >>, O, past)
    PROVE  OrderOK(L, U, P, << >>, << >>, O, TRUE)
BY NoElements DEF OrderOK

\* The journal takes a batch, which the lane is to publish next.
LEMMA OrderCommits ==
    ASSUME NEW S, NEW L \in Seq(S), NEW M \in Seq(S), NEW U, NEW P, NEW G, NEW D, NEW O, NEW past,
           OrderOK(L, U, P, G, D, O, past)
    PROVE  OrderOK(L \o M, U, P, G, D, M, FALSE)
<1> DEFINE K == L \o M
<1>1. /\ \A x, y : Before(L, x, y) => Before(K, x, y)
      /\ Sorted(K, U, M)
      /\ \A x \in ElementsOf(L), y \in ElementsOf(M) : Before(K, x, y)
  BY LogGrows
<1>2. ElementsOf(K) = ElementsOf(L) \cup ElementsOf(M)
  BY ConcatElements
<1> HIDE DEF K
<1>3. Sorted(K, U, P) /\ Sorted(K, U, G) /\ Sorted(K, U, D)
  BY <1>1 DEF OrderOK, Sorted
<1>4. /\ Ahead(K, U, ElementsOf(P), ElementsOf(G)) /\ Ahead(K, U, ElementsOf(P), ElementsOf(D))
      /\ Ahead(K, U, ElementsOf(G), ElementsOf(D))
  BY <1>1 DEF OrderOK, Ahead
<1>5. /\ Ahead(K, U, ElementsOf(P), ElementsOf(M)) /\ Ahead(K, U, ElementsOf(G), ElementsOf(M))
      /\ Ahead(K, U, ElementsOf(D), ElementsOf(M))
  BY <1>1 DEF OrderOK, Ahead
<1>6. OrderOK(K, U, P, G, D, M, FALSE)
  BY <1>1, <1>2, <1>3, <1>4, <1>5 DEF OrderOK
<1> QED BY <1>6 DEF K

\* An event that was just issued is nowhere yet.
LEMMA OrderIssues ==
    ASSUME NEW L, NEW S, NEW U, NEW V, U \cap S = V \cap S, NEW P \in Seq(S), NEW G \in Seq(S),
           NEW D \in Seq(S), NEW O \in Seq(S), NEW past, OrderOK(L, U, P, G, D, O, past)
    PROVE  OrderOK(L, V, P, G, D, O, past)
<1>1. \A s \in Seq(S) : /\ \A i \in 1..Len(s) : s[i] \in S
                        /\ \A i, j \in Int : j \in 1..Len(s) /\ i \in 1..(j - 1) => i \in 1..Len(s)
  <2> TAKE s \in Seq(S)
  <2>1. Len(s) \in Nat
    BY LenProperties
  <2> QED BY <2>1, ElementOfSeq
<1>2. \A s \in Seq(S) : /\ ElementsOf(s) \subseteq S
                        /\ ElementsOf(s) \cap U = ElementsOf(s) \cap V
  BY <1>1 DEF ElementsOf
<1>3. \A s \in Seq(S) : Sorted(L, U, s) => Sorted(L, V, s)
  <2> SUFFICES ASSUME NEW s \in Seq(S), Sorted(L, U, s), NEW j \in 1..Len(s), NEW i \in 1..(j - 1),
                      s[i] \in V, s[j] \in V
               PROVE  Before(L, s[i], s[j])
    BY DEF Sorted
  <2>1. s[i] \in S /\ s[j] \in S
    BY <1>1
  <2> QED BY <2>1 DEF Sorted
<1>4. \A s, t \in Seq(S) : Ahead(L, U, ElementsOf(s), ElementsOf(t)) => Ahead(L, V, ElementsOf(s), ElementsOf(t))
  BY <1>2 DEF Ahead
<1> QED BY <1>2, <1>3, <1>4 DEF OrderOK

-----------------------------------------------------------------------------
(* The ways an event moves keep what a caller had acknowledged in front. *)

LEMMA UptoAppend ==
    ASSUME NEW S, NEW s \in Seq(S), NEW x \in S
    PROVE  /\ \A j \in 1..Len(s) : Append(s, x)[j] = s[j] /\ Upto(Append(s, x), j) = Upto(s, j)
           /\ Append(s, x)[Len(s) + 1] = x
           /\ Upto(Append(s, x), Len(s) + 1) = ElementsOf(s) \cup {x}
<1> DEFINE r == Append(s, x)
<1>1. /\ Len(s) \in Nat /\ Len(r) = Len(s) + 1 /\ \A i \in 1..Len(s) : r[i] = s[i]
      /\ r[Len(s) + 1] = x
  BY AppendProperties, LenProperties
<1>2. ElementsOf(r) = ElementsOf(s) \cup {x}
  BY AppendElements
<1> HIDE DEF r
<1>3. \A j \in 1..Len(s) : Upto(r, j) = Upto(s, j)
  <2> TAKE j \in 1..Len(s)
  <2>1. \A i \in 1..j : i \in 1..Len(s)
    BY <1>1
  <2> QED BY <1>1, <2>1 DEF Upto
<1>4. Upto(r, Len(s) + 1) = ElementsOf(r)
  BY <1>1 DEF Upto, ElementsOf
<1> QED BY <1>1, <1>2, <1>3, <1>4 DEF r

LEMMA UptoTail ==
    ASSUME NEW S, NEW s \in Seq(S), s # << >>
    PROVE  /\ \A j \in 1..Len(Tail(s)) : /\ j + 1 \in 1..Len(s) /\ Tail(s)[j] = s[j + 1]
                                         /\ Upto(s, j + 1) = {s[1]} \cup Upto(Tail(s), j)
           /\ 1 \in 1..Len(s) /\ Upto(s, 1) = {s[1]}
<1> DEFINE r == Tail(s)
<1>1. /\ Len(s) \in Nat /\ Len(s) >= 1 /\ Len(r) = Len(s) - 1
      /\ \A i \in 1..Len(r) : r[i] = s[i + 1]
  BY HeadTailProperties, EmptySeq
<1> HIDE DEF r
<1>2. ASSUME NEW j \in 1..Len(r)
      PROVE  j + 1 \in 1..Len(s) /\ r[j] = s[j + 1] /\ Upto(s, j + 1) = {s[1]} \cup Upto(r, j)
  <2>1. j + 1 \in 1..Len(s) /\ r[j] = s[j + 1]
    BY <1>1
  <2>2. ASSUME NEW i \in 1..(j + 1) PROVE s[i] = s[1] \/ s[i] \in Upto(r, j)
    <3>1. i = 1 \/ (i - 1 \in 1..j /\ i - 1 \in 1..Len(r) /\ (i - 1) + 1 = i)
      BY <1>1
    <3>2. i # 1 => r[i - 1] = s[i]
      BY <1>1, <3>1
    <3> QED BY <3>1, <3>2 DEF Upto
  <2>3. ASSUME NEW i \in 1..j PROVE r[i] \in Upto(s, j + 1)
    <3>1. i + 1 \in 1..(j + 1) /\ r[i] = s[i + 1]
      BY <1>1
    <3> QED BY <3>1 DEF Upto
  <2>4. s[1] \in Upto(s, j + 1)
    <3>1. 1 \in 1..(j + 1)
      OBVIOUS
    <3> QED BY <3>1 DEF Upto
  <2>5. Upto(s, j + 1) \subseteq {s[1]} \cup Upto(r, j)
    BY <2>2 DEF Upto
  <2>6. Upto(r, j) \subseteq Upto(s, j + 1)
    BY <2>3 DEF Upto
  <2> QED BY <2>1, <2>4, <2>5, <2>6
<1>3. 1 \in 1..Len(s) /\ Upto(s, 1) = {s[1]}
  BY <1>1 DEF Upto
<1> QED BY <1>2, <1>3 DEF r

LEMMA AckGuardPublishes ==
    ASSUME NEW A, NEW F, NEW gone, NEW P \in Seq(Nat), NEW G \in Seq(Nat), NEW D, NEW H,
           AckOK(A, F, gone, P, G, D, H), G # << >>
    PROVE  AckOK(A, F, gone, Append(P, G[1]), Tail(G), D, H)
<1> DEFINE x == G[1]
           Q == Append(P, x)
           T == Tail(G)
<1>1. /\ x \in Nat /\ T \in Seq(Nat) /\ ElementsOf(G) = {x} \cup ElementsOf(T)
  BY TailElements
<1>2. ElementsOf(Q) = ElementsOf(P) \cup {x}
  BY <1>1, AppendElements
<1>3. Len(P) \in Nat /\ Len(Q) = Len(P) + 1
  BY <1>1, AppendProperties, LenProperties
<1>4. /\ \A j \in 1..Len(P) : Q[j] = P[j] /\ Upto(Q, j) = Upto(P, j)
      /\ Q[Len(P) + 1] = x /\ Upto(Q, Len(P) + 1) = ElementsOf(P) \cup {x}
  <2>1. x \in Nat
    BY <1>1
  <2> HIDE DEF x
  <2>2. \A j \in 1..Len(P) : Append(P, x)[j] = P[j] /\ Upto(Append(P, x), j) = Upto(P, j)
    BY <2>1, UptoAppend
  <2>3. Append(P, x)[Len(P) + 1] = x
    BY <2>1, UptoAppend
  <2>4. Upto(Append(P, x), Len(P) + 1) = ElementsOf(P) \cup {x}
    BY <2>1, UptoAppend
  <2> QED BY <2>2, <2>3, <2>4
<1>5. /\ \A j \in 1..Len(T) : /\ j + 1 \in 1..Len(G) /\ T[j] = G[j + 1]
                              /\ Upto(G, j + 1) = {x} \cup Upto(T, j)
      /\ 1 \in 1..Len(G) /\ Upto(G, 1) = {x}
  BY UptoTail
<1>6. G[1] = x
  OBVIOUS
<1> HIDE DEF x, Q, T
<1>7. \A j \in 1..Len(Q) : \A e \in A : Follower(F, e, Q[j]) => e \in gone \cup Upto(Q, j)
  <2> SUFFICES ASSUME NEW j \in 1..Len(Q), NEW e \in A, Follower(F, e, Q[j])
               PROVE  e \in gone \cup Upto(Q, j)
    OBVIOUS
  <2>1. CASE j \in 1..Len(P)
    BY <1>4, <2>1 DEF AckOK
  <2>2. CASE j = Len(P) + 1
    BY <1>4, <1>5, <1>6, <2>2 DEF AckOK
  <2> QED BY <1>3, <2>1, <2>2
<1>8. \A j \in 1..Len(T) : \A e \in A :
        Follower(F, e, T[j]) => e \in gone \cup ElementsOf(Q) \cup Upto(T, j)
  <2> SUFFICES ASSUME NEW j \in 1..Len(T), NEW e \in A, Follower(F, e, T[j])
               PROVE  e \in gone \cup ElementsOf(Q) \cup Upto(T, j)
    OBVIOUS
  <2>1. j + 1 \in 1..Len(G) /\ Follower(F, e, G[j + 1])
    BY <1>5
  <2>2. e \in gone \cup ElementsOf(P) \cup Upto(G, j + 1)
    BY <2>1 DEF AckOK
  <2> QED BY <1>2, <1>5, <2>2
<1>9. AckOK(A, F, gone, Q, T, D, H)
  BY <1>1, <1>2, <1>7, <1>8 DEF AckOK
<1> QED BY <1>9 DEF x, Q, T

LEMMA AckGuardTakes ==
    ASSUME NEW A, NEW F, NEW gone, NEW P, NEW D, NEW H, AckOK(A, F, gone, P, << >>, D, H)
    PROVE  AckOK(A, F, gone, P, D, << >>, H)
BY NoElements DEF AckOK

LEMMA AckDiscards ==
    ASSUME NEW A, NEW F, NEW gone, NEW P, NEW G, NEW D, NEW H, AckOK(A, F, gone, P, G, D, H)
    PROVE  AckOK(A, F, gone \cup ElementsOf(D), P, G, << >>, H)
BY NoElements DEF AckOK

\* An event is buffered: everything acknowledged is in front of it.
LEMMA AckDefers ==
    ASSUME NEW A, NEW F, NEW gone, NEW P, NEW G, NEW D \in Seq(Nat), NEW H,
           AckOK(A, F, gone, P, G, D, H), NEW x \in Nat
    PROVE  AckOK(A, F, gone, P, G, Append(D, x), H)
<1> DEFINE Q == Append(D, x)
<1>1. ElementsOf(Q) = ElementsOf(D) \cup {x} /\ Len(D) \in Nat /\ Len(Q) = Len(D) + 1
  BY AppendElements, AppendProperties, LenProperties
<1>2. /\ \A j \in 1..Len(D) : Q[j] = D[j] /\ Upto(Q, j) = Upto(D, j)
      /\ Q[Len(D) + 1] = x /\ Upto(Q, Len(D) + 1) = ElementsOf(D) \cup {x}
  BY UptoAppend
<1> HIDE DEF Q
<1>3. \A j \in 1..Len(Q) : \A e \in A :
        Follower(F, e, Q[j]) => e \in gone \cup ElementsOf(P) \cup ElementsOf(G) \cup Upto(Q, j)
  <2> SUFFICES ASSUME NEW j \in 1..Len(Q), NEW e \in A, Follower(F, e, Q[j])
               PROVE  e \in gone \cup ElementsOf(P) \cup ElementsOf(G) \cup Upto(Q, j)
    OBVIOUS
  <2>1. CASE j \in 1..Len(D)
    BY <1>2, <2>1 DEF AckOK
  <2>2. CASE j = Len(D) + 1
    BY <1>2, <2>2 DEF AckOK
  <2> QED BY <1>1, <2>1, <2>2
<1>4. AckOK(A, F, gone, P, G, Q, H)
  BY <1>1, <1>3 DEF AckOK
<1> QED BY <1>4 DEF Q

\* An event that was past the lock is published.
LEMMA AckDelivers ==
    ASSUME NEW A, NEW F, NEW gone, NEW P \in Seq(Nat), NEW G, NEW D, NEW H,
           AckOK(A, F, gone, P, G, D, H), NEW x \in H, x \in Nat
    PROVE  AckOK(A, F, gone, Append(P, x), G, D, H)
<1> DEFINE Q == Append(P, x)
<1>1. ElementsOf(Q) = ElementsOf(P) \cup {x} /\ Len(P) \in Nat /\ Len(Q) = Len(P) + 1
  BY AppendElements, AppendProperties, LenProperties
<1>2. /\ \A j \in 1..Len(P) : Q[j] = P[j] /\ Upto(Q, j) = Upto(P, j)
      /\ Q[Len(P) + 1] = x /\ Upto(Q, Len(P) + 1) = ElementsOf(P) \cup {x}
  BY UptoAppend
<1> HIDE DEF Q
<1>3. \A j \in 1..Len(Q) : \A e \in A : Follower(F, e, Q[j]) => e \in gone \cup Upto(Q, j)
  <2> SUFFICES ASSUME NEW j \in 1..Len(Q), NEW e \in A, Follower(F, e, Q[j])
               PROVE  e \in gone \cup Upto(Q, j)
    OBVIOUS
  <2>1. CASE j \in 1..Len(P)
    BY <1>2, <2>1 DEF AckOK
  <2>2. CASE j = Len(P) + 1
    BY <1>2, <2>2 DEF AckOK
  <2> QED BY <1>1, <2>1, <2>2
<1>4. AckOK(A, F, gone, Q, G, D, H)
  BY <1>1, <1>3 DEF AckOK
<1> QED BY <1>4 DEF Q

\* Without a deferral everything acknowledged was published or lost.
LEMMA AckGoesPast ==
    ASSUME NEW A, NEW F, NEW gone, NEW P, NEW H, NEW I, AckOK(A, F, gone, P, << >>, << >>, H)
    PROVE  AckOK(A, F, gone, P, << >>, << >>, I)
BY NoElements DEF AckOK

LEMMA AckFewerPast ==
    ASSUME NEW A, NEW F, NEW gone, NEW P, NEW G, NEW D, NEW H, NEW I, I \subseteq H,
           AckOK(A, F, gone, P, G, D, H)
    PROVE  AckOK(A, F, gone, P, G, D, I)
BY DEF AckOK

\* The latest event of its caller is acknowledged.
LEMMA AckAdds ==
    ASSUME NEW S, NEW A, NEW F, NEW gone, NEW P \in Seq(S), NEW G \in Seq(S), NEW D \in Seq(S),
           NEW H, H \subseteq S, AckOK(A, F, gone, P, G, D, H),
           NEW x, x \in gone \cup ElementsOf(P) \cup ElementsOf(G) \cup ElementsOf(D),
           \A f \in S : ~Follower(F, x, f)
    PROVE  AckOK(A \cup {x}, F, gone, P, G, D, H)
<1>1. /\ \A j \in 1..Len(P) : ~Follower(F, x, P[j])
      /\ \A j \in 1..Len(G) : ~Follower(F, x, G[j])
      /\ \A j \in 1..Len(D) : ~Follower(F, x, D[j])
  BY ElementOfSeq
<1> QED BY <1>1 DEF AckOK

\* A new event has no place yet.
LEMMA AckIssues ==
    ASSUME NEW S, NEW A, A \subseteq S, NEW F, NEW E, \A e \in S : E[e] = F[e], NEW gone,
           NEW P \in Seq(S), NEW G \in Seq(S), NEW D \in Seq(S), NEW H, H \subseteq S,
           AckOK(A, F, gone, P, G, D, H)
    PROVE  AckOK(A, E, gone, P, G, D, H)
<1>1. /\ \A j \in 1..Len(P) : P[j] \in S
      /\ \A j \in 1..Len(G) : G[j] \in S
      /\ \A j \in 1..Len(D) : D[j] \in S
  BY ElementOfSeq
<1>2. \A e \in A, f \in S : Follower(E, e, f) => Follower(F, e, f)
  BY DEF Follower
<1> QED BY <1>1, <1>2 DEF AckOK

-----------------------------------------------------------------------------
(* Types. *)

LEMMA TypeFacts ==
    ASSUME Types
    PROVE  /\ Len(issued) \in Nat /\ Evs \subseteq Nat /\ Dur \subseteq Evs /\ 0 \notin Evs
           /\ log \in Seq(Evs) /\ published \in Seq(Evs) /\ guard.out \in Seq(Evs)
           /\ deferred.events \in Seq(Evs) /\ guard.lost \subseteq Evs /\ doubt.batch \in Seq(Evs)
           /\ Len(log) \in Nat /\ deferred.on \in BOOLEAN
           /\ \A l \in Lanes : /\ lane[l] \in LaneType(Cmds, OutType(Evs))
                               /\ lane[l].out \in Seq(OutType(Evs)) /\ lane[l].queue \in Seq(Cmds)
                               /\ lane[l].pending \in Seq(Cmds)
<1>1. Len(issued) \in Nat
  BY LenProperties DEF Types
<1>2. Evs \subseteq Nat /\ Dur \subseteq Evs /\ 0 \notin Evs
  BY <1>1 DEF Evs, Dur
<1>3. \A l \in Lanes : lane[l] \in LaneType(Cmds, OutType(Evs))
  BY DEF Types
<1>4. /\ log \in Seq(Evs) /\ published \in Seq(Evs) /\ guard.out \in Seq(Evs)
      /\ deferred.events \in Seq(Evs) /\ guard.lost \subseteq Evs /\ doubt.batch \in Seq(Evs)
      /\ deferred.on \in BOOLEAN
  BY DEF Types, GuardType, DeferredType, DoubtType
<1>5. Len(log) \in Nat
  BY <1>4, LenProperties
<1> QED BY <1>1, <1>2, <1>3, <1>4, <1>5 DEF LaneType

LEMMA OutFacts ==
    ASSUME Types, NEW l \in Lanes
    PROVE  /\ OutOf(l) \in Seq(Evs) /\ Len(OutOf(l)) = Len(lane[l].out) /\ Len(lane[l].out) \in Nat
           /\ \A i \in 1..Len(lane[l].out) : /\ lane[l].out[i].ev \in Evs /\ lane[l].out[i].from \in Repliers
                                             /\ OutOf(l)[i] = lane[l].out[i].ev
           /\ lane[l].out = << >> => OutOf(l) = << >>
           /\ lane[l].out # << >> => Len(lane[l].out) >= 1 /\ OutOf(l) # << >>
<1> DEFINE o == lane[l].out
<1>1. o \in Seq(OutType(Evs)) /\ Len(o) \in Nat
  BY TypeFacts, LenProperties
<1>2. \A i \in 1..Len(o) : o[i] \in OutType(Evs)
  BY <1>1, ElementOfSeq
<1>3. \A i \in 1..Len(o) : o[i].ev \in Evs /\ o[i].from \in Repliers
  BY <1>2 DEF OutType
<1>4. OutOf(l) = [i \in 1..Len(o) |-> o[i].ev]
  BY DEF OutOf
<1>5. o = << >> => Len(o) = 0
  OBVIOUS
<1>6. o # << >> => Len(o) >= 1
  BY <1>1, EmptySeq
<1> HIDE DEF o
<1>7. OutOf(l) \in Seq(Evs) /\ Len(OutOf(l)) = Len(o) /\ \A i \in 1..Len(o) : OutOf(l)[i] = o[i].ev
  BY <1>1, <1>3, <1>4
<1>8. OutOf(l) = << >> <=> Len(o) = 0
  BY <1>7, EmptySeq
<1> QED BY <1>1, <1>3, <1>5, <1>6, <1>7, <1>8 DEF o

\* A step that issues nothing.
LEMMA IssuedSame ==
    ASSUME issued' = issued
    PROVE  /\ Evs' = Evs /\ Cmds' = Cmds /\ Dur' = Dur /\ From' = From
           /\ \A x : IsDurable(x)' <=> IsDurable(x)
BY DEF Evs, Cmds, Dur, From, IsDurable

\* The lane record m replaces lane l.
LEMMA SetLane ==
    ASSUME Types, NEW l \in Lanes, NEW m \in LaneType(Cmds, OutType(Evs)),
           lane' = [lane EXCEPT ![l] = m]
    PROVE  /\ lane' \in [Lanes -> LaneType(Cmds, OutType(Evs))] /\ lane'[l] = m
           /\ \A k \in Lanes : k # l => lane'[k] = lane[k]
BY DEF Types

\* Nobody works in a lane of a session that was released and not shut down, and
\* one lane at most runs.
LEMMA OneLane ==
    ASSUME Types, RunInv, NEW l \in Lanes, lane[l].phase = "running"
    PROVE  /\ ~(manager.st = "released" /\ ~closed)
           /\ \A k \in Lanes : k # l =>
                lane[k].phase # "running" /\ lane[k].out = << >> /\ lane[k].step = "recv"
<1>1. l # 0 /\ \A k \in Lanes : k # 0
  BY DEF Lanes
<1> QED BY <1>1 DEF RunInv

LEMMA CallerFacts ==
    ASSUME Types, NEW c \in Callers, caller[c] # Idle
    PROVE  /\ \E x \in Cmds : caller[c].cmd = <<x>> /\ caller[c].cmd[1] = x
           /\ caller[c] \in [st : CallerStates, lane : 0..MaxLanes, cmd : {<<x>> : x \in Cmds}]
<1>1. caller[c] \in [st : CallerStates, lane : 0..MaxLanes, cmd : {<<x>> : x \in Cmds}]
  BY DEF Types, CallerType
<1>2. caller[c].cmd \in {<<x>> : x \in Cmds}
  BY <1>1
<1> QED BY <1>1, <1>2

\* What is past the lock is an event.
LEMMA PastFacts ==
    ASSUME Types, RunInv, CallerInv
    PROVE  Past \subseteq Evs
<1>1. ASSUME NEW c \in Callers, caller[c].st = "live_deliver" PROVE caller[c].cmd[1].ev \in Evs
  <2>1. caller[c] # Idle
    BY <1>1 DEF Idle
  <2> QED BY <1>1, <2>1 DEF CallerInv, CallerOK, Latest
<1>2. ASSUME NEW l \in Lanes, lane[l].step = "deliver" PROVE lane[l].out[1].ev \in Evs
  <2>1. lane[l].out # << >>
    BY <1>2 DEF RunInv
  <2>2. 1 \in 1..Len(lane[l].out)
    BY <2>1, OutFacts
  <2> QED BY <2>2, OutFacts
<1> QED BY <1>1, <1>2 DEF Past

-----------------------------------------------------------------------------
(* Steps that move no event. *)

Quiet ==
    /\ issued' = issued /\ log' = log /\ published' = published
    /\ guard' = guard /\ deferred' = deferred
    /\ \A k \in Lanes : lane'[k].out = lane[k].out /\ lane'[k].step = lane[k].step
    /\ acked' \cap Dur = acked \cap Dur
    /\ \A c \in Callers : caller'[c].st = "live_deliver" => caller'[c] = caller[c]

LEMMA QuietInv ==
    ASSUME IndInv, Quiet
    PROVE  OrderInv' /\ AckInv' /\ CommittedIsOnTheWay' /\ DeferInv'
<1>1. Evs' = Evs /\ Dur' = Dur /\ From' = From
  BY IssuedSame DEF Quiet
<1>2. \A l \in Lanes : OutOf(l)' = OutOf(l)
  BY DEF Quiet, OutOf
<1>3. OrderInv'
  BY <1>1, <1>2 DEF IndInv, OrderInv, Quiet
<1>4. Past' \subseteq Past
  BY DEF Quiet, Past
<1>5. AckInv'
  <2>1. AckOK(acked \cap Dur, From, guard.lost, published, guard.out, deferred.events, Past')
    BY <1>4, AckFewerPast DEF IndInv, AckInv
  <2> QED BY <1>1, <2>1 DEF AckInv, Quiet
<1>6. CommittedIsOnTheWay'
  BY DEF IndInv, CommittedIsOnTheWay, OnTheWay, Quiet
<1>7. DeferInv'
  BY DEF IndInv, DeferInv, Quiet
<1> QED BY <1>3, <1>5, <1>6, <1>7

\* Callers that are answered, or left alone.
LEMMA AnsweredCallers ==
    ASSUME IndInv, issued' = issued, \A c \in Callers : caller'[c] \in {Idle, caller[c]}
    PROVE  CallerInv'
<1>1. Evs' = Evs /\ \A x : IsDurable(x)' <=> IsDurable(x)
  BY IssuedSame
<1>2. \A c \in Callers : \A r : CallerOK(c, r) => CallerOK(c, r)'
  BY <1>1 DEF CallerOK, Latest
<1> QED BY <1>2 DEF IndInv, CallerInv

LEMMA ReplyFacts ==
    ASSUME IndInv, NEW cmds, Reply(cmds)
    PROVE  /\ caller' \in [Callers -> CallerType(Cmds)]
           /\ \A c \in Callers : caller'[c] \in {Idle, caller[c]}
<1>1. Idle \in CallerType(Cmds) /\ \A c \in Callers : caller[c] \in CallerType(Cmds)
  BY DEF IndInv, Types, CallerType
<1> QED BY <1>1 DEF Reply

-----------------------------------------------------------------------------
(* Requests. *)

LEMMA EnqueueFacts ==
    ASSUME Types, NEW l \in Lanes, NEW cmd \in Cmds, Enqueue(l, cmd)
    PROVE  /\ lane' \in [Lanes -> LaneType(Cmds, OutType(Evs))]
           /\ \A k \in Lanes : /\ lane'[k].out = lane[k].out /\ lane'[k].step = lane[k].step
                               /\ lane'[k].phase = lane[k].phase
<1> DEFINE q == Append(lane[l].queue, cmd)
           m == [lane[l] EXCEPT !.queue = q]
<1>1. q \in Seq(Cmds) /\ lane[l] \in LaneType(Cmds, OutType(Evs))
  BY TypeFacts, AppendProperties
<1>2. lane' = [lane EXCEPT ![l] = m]
  BY DEF Enqueue
<1> HIDE DEF q
<1>3. /\ m \in LaneType(Cmds, OutType(Evs)) /\ m.out = lane[l].out /\ m.step = lane[l].step
      /\ m.phase = lane[l].phase
  BY <1>1 DEF LaneType
<1> HIDE DEF m
<1>4. /\ lane' \in [Lanes -> LaneType(Cmds, OutType(Evs))] /\ lane'[l] = m
      /\ \A k \in Lanes : k # l => lane'[k] = lane[k]
  BY <1>2, <1>3, SetLane
<1> QED BY <1>3, <1>4

LEMMA CommandFacts ==
    ASSUME NEW op \in {"sync", "retry", "shutdown"}, NEW from \in Repliers, from # Nobody,
           NEW arg \in Nat
    PROVE  /\ Command(op, 0, from, arg) \in Cmds /\ Command(op, 0, from, arg).ev = 0
<1>1. op \in CommandOps /\ op \notin DurableOps \cup {"live"}
  BY DEF CommandOps, DurableOps
<1> QED BY <1>1 DEF Command, Cmds, CmdType

LEMMA SendInv ==
    ASSUME IndInv, NEW c \in Callers, send(c)
    PROVE  IndInv'
<1>0. /\ Types /\ RunInv /\ CallerInv /\ caller[c].st = "send" /\ caller[c] # Idle
      /\ CallerOK(c, caller[c])
  BY DEF IndInv, send, Idle, CallerInv
<1>1. PICK x \in Cmds : caller[c].cmd = <<x>> /\ caller[c].cmd[1] = x
  BY <1>0, CallerFacts
<1>2. /\ issued' = issued /\ log' = log /\ durable' = durable /\ doubt' = doubt
      /\ published' = published /\ guard' = guard /\ deferred' = deferred
      /\ closed' = closed /\ inactive' = inactive /\ current' = current
      /\ manager' = manager /\ sink' = sink
  BY DEF send, state, journal
<1>3. Evs' = Evs /\ Cmds' = Cmds /\ Dur' = Dur /\ \A y : IsDurable(y)' <=> IsDurable(y)
  BY <1>2, IssuedSame
<1> DEFINE l == caller[c].lane
           w == [st |-> "wait", lane |-> l, cmd |-> <<x>>]
<1>4. /\ \/ lane' = lane \/ Enqueue(l, x)
      /\ \/ caller' = [caller EXCEPT ![c] = Idle] \/ caller' = [caller EXCEPT ![c] = w]
      /\ \/ acked' = acked \/ (x.from = Nobody /\ acked' = acked \cup {x.ev})
  BY <1>1 DEF send
<1>5. l \in Lanes
  BY <1>0 DEF CallerOK
<1>6. w \in CallerType(Cmds) /\ w.cmd = <<x>> /\ w.cmd[1] = x /\ w.st = "wait" /\ w.lane = l
  BY <1>1, <1>5 DEF CallerType, CallerStates, Lanes
<1>7. CallerOK(c, w)
  BY <1>0, <1>1, <1>5, <1>6 DEF CallerOK
<1>8. Idle \in CallerType(Cmds) /\ Idle.st = "idle"
  BY DEF CallerType, Idle
<1> HIDE DEF l, w
<1>9. /\ caller' \in [Callers -> CallerType(Cmds)]
      /\ \A d \in Callers : d # c => caller'[d] = caller[d]
      /\ caller'[c] \in {Idle, w}
  BY <1>0, <1>4, <1>6, <1>8 DEF Types
<1>10. /\ lane' \in [Lanes -> LaneType(Cmds, OutType(Evs))]
       /\ \A k \in Lanes : /\ lane'[k].out = lane[k].out /\ lane'[k].step = lane[k].step
                           /\ lane'[k].phase = lane[k].phase
  <2>1. CASE lane' = lane
    BY <1>0, <2>1 DEF Types
  <2>2. CASE Enqueue(l, x)
    BY <1>0, <1>5, <2>2, EnqueueFacts
  <2> QED BY <1>4, <2>1, <2>2
<1>11. acked' \subseteq Evs /\ acked' \cap Dur = acked \cap Dur
  <2>1. x.from = Nobody => x.ev \in Evs /\ x.ev \notin Dur
    BY DEF Cmds, Dur
  <2>2. acked \subseteq Evs
    BY <1>0 DEF Types
  <2> QED BY <1>4, <2>1, <2>2
<1>12. Types'
  BY <1>0, <1>2, <1>3, <1>9, <1>10, <1>11 DEF Types
<1>13. CallerInv'
  <2>1. \A d \in Callers : \A r : CallerOK(d, r) => CallerOK(d, r)'
    BY <1>2, <1>3 DEF CallerOK, Latest
  <2> QED BY <1>0, <1>7, <1>9, <2>1 DEF CallerInv
<1>14. Quiet
  BY <1>2, <1>6, <1>8, <1>9, <1>10, <1>11 DEF Quiet
<1>15. RunInv'
  BY <1>0, <1>2, <1>10 DEF RunInv
<1>16. ReleasedIsDurable'
  BY <1>2 DEF IndInv, ReleasedIsDurable
<1> QED BY <1>12, <1>13, <1>14, <1>15, <1>16, QuietInv DEF IndInv

\* lane(): the current lane, or a new one.
LEMMA LaneForFacts ==
    ASSUME IndInv, NEW l \in Lanes, LaneFor(l), UNCHANGED <<closed, inactive, manager, sink>>
    PROVE  /\ lane' \in [Lanes -> LaneType(Cmds, OutType(Evs))] /\ current' \in 0..MaxLanes
           /\ \A k \in Lanes : lane'[k].out = lane[k].out /\ lane'[k].step = lane[k].step
           /\ RunInv'
<1>0. Types /\ RunInv /\ ~closed /\ ~inactive /\ l # 0
  BY DEF IndInv, LaneFor, Lanes
<1>1. CASE current = l /\ UNCHANGED <<current, lane>>
  BY <1>0, <1>1 DEF Types, RunInv
<1>2. CASE /\ current = 0 /\ lane[l].phase = "unused" /\ current' = l
           /\ lane' = [lane EXCEPT ![l].phase = "running", ![l].receiving = TRUE]
  <2> DEFINE m0 == [lane[l] EXCEPT !.phase = "running"]
             m == [m0 EXCEPT !.receiving = TRUE]
  <2>1. lane[l] \in LaneType(Cmds, OutType(Evs))
    BY <1>0, TypeFacts
  <2>2. /\ m0 \in LaneType(Cmds, OutType(Evs)) /\ m0.out = lane[l].out /\ m0.step = lane[l].step
        /\ m0.phase = "running"
    BY <2>1 DEF LaneType
  <2>3. lane' = [lane EXCEPT ![l] = m]
    BY <1>0, <1>2, <2>1 DEF LaneType, Types
  <2> HIDE DEF m0
  <2>4. /\ m \in LaneType(Cmds, OutType(Evs)) /\ m.out = lane[l].out /\ m.step = lane[l].step
        /\ m.phase = "running"
    BY <2>2 DEF LaneType
  <2> HIDE DEF m
  <2>5. /\ lane' \in [Lanes -> LaneType(Cmds, OutType(Evs))] /\ lane'[l] = m
        /\ \A k \in Lanes : k # l => lane'[k] = lane[k]
    BY <1>0, <2>3, <2>4, SetLane
  <2>6. current' \in 0..MaxLanes
    BY <1>2 DEF Lanes
  <2>7. \A k \in Lanes : lane'[k].out = lane[k].out /\ lane'[k].step = lane[k].step
    BY <2>4, <2>5
  <2>8. RunInv'
    <3>1. \A k \in Lanes : lane[k].phase = "running" => k = current \/ k = manager.lane \/ k = sink.lane
      BY <1>0 DEF RunInv
    <3>2. manager.lane = 0 /\ sink.lane = 0 /\ \A k \in Lanes : k # 0
      BY <1>0 DEF RunInv, Lanes
    <3>3. \A k \in Lanes : lane'[k].phase = "running" => k = current'
      BY <1>2, <2>4, <2>5, <3>1, <3>2
    <3>4. \A k \in Lanes : /\ lane'[k].step = "recv" <=> lane'[k].out = << >>
                           /\ lane'[k].step # "recv" => lane'[k].phase = "running"
      BY <1>0, <2>4, <2>5, <2>7 DEF RunInv
    <3> QED BY <1>0, <3>3, <3>4 DEF RunInv
  <2> QED BY <2>5, <2>6, <2>7, <2>8
<1> QED BY <1>1, <1>2 DEF LaneFor

LEMMA IssueFacts ==
    ASSUME Types, NEW c \in Callers, NEW op \in EventOps, Issue(c, op)
    PROVE  /\ issued' \in Seq(IssueType) /\ Len(issued') = Len(issued) + 1
           /\ Len(issued') \in Evs' /\ Len(issued') \notin Evs /\ Evs' = Evs \cup {Len(issued')}
           /\ issued'[Len(issued')].from = c /\ issued'[Len(issued')].op = op
           /\ \A e \in Evs : issued'[e] = issued[e] /\ From'[e] = From[e] /\ e < Len(issued')
           /\ Cmds \subseteq Cmds' /\ Dur' \cap Evs = Dur
           /\ \A e \in Evs : IsDurable(e)' <=> IsDurable(e)
<1> DEFINE x == [from |-> c, op |-> op]
           n == Len(issued) + 1
<1>1. x \in IssueType /\ issued' = Append(issued, x) /\ x.from = c /\ x.op = op
  BY DEF Issue, IssueType
<1>2. /\ issued' \in Seq(IssueType) /\ Len(issued) \in Nat /\ Len(issued') = n
      /\ \A i \in 1..Len(issued) : issued'[i] = issued[i]
      /\ issued'[n] = x
  BY <1>1, AppendProperties, TypeFacts DEF Types
<1> HIDE DEF x
<1>3. Evs = 1..Len(issued) /\ Evs' = 1..n /\ n \in Nat /\ Evs' = Evs \cup {n} /\ n \in Evs' /\ n \notin Evs
  BY <1>2 DEF Evs
<1>4. \A e \in Evs : issued'[e] = issued[e] /\ e < n
  BY <1>2, <1>3
<1>5. \A e \in Evs : From'[e] = From[e]
  BY <1>3, <1>4 DEF From
<1>6. \A e \in Evs : IsDurable(e)' <=> IsDurable(e)
  BY <1>4 DEF IsDurable
<1>7. Dur' \cap Evs = Dur
  BY <1>3, <1>6 DEF Dur
<1>8. Cmds \subseteq Cmds'
  <2> SUFFICES ASSUME NEW y \in Cmds PROVE y \in Cmds'
    OBVIOUS
  <2>1. /\ y \in CmdType /\ (y.op \in DurableOps \cup {"live"} => y.ev \in Evs)
        /\ (y.op = "live" => ~IsDurable(y.ev)) /\ (y.from = Nobody => y.op = "live")
    BY DEF Cmds
  <2>2. y.op \in DurableOps \cup {"live"} => y.ev \in Evs'
    BY <1>3, <2>1
  <2>3. y.op = "live" => ~IsDurable(y.ev)'
    BY <1>6, <2>1
  <2> QED BY <2>1, <2>2, <2>3 DEF Cmds
<1> QED BY <1>1, <1>2, <1>3, <1>4, <1>5, <1>6, <1>7, <1>8

\* Types over more events.
LEMMA WiderTypes ==
    ASSUME NEW C, NEW C2, C \subseteq C2, NEW E, NEW E2, E \subseteq E2
    PROVE  /\ \A s \in Seq(E) : s \in Seq(E2)
           /\ LaneType(C, OutType(E)) \subseteq LaneType(C2, OutType(E2))
           /\ CallerType(C) \subseteq CallerType(C2)
           /\ DoubtType(E) \subseteq DoubtType(E2)
           /\ DeferredType(E) \subseteq DeferredType(E2)
           /\ GuardType(E) \subseteq GuardType(E2)
<1>1. \A s \in Seq(E) : s \in Seq(E2)
  BY SeqMonotonic
<1>2. OutType(E) \subseteq OutType(E2)
  BY DEF OutType
<1>3. (\A s \in Seq(C) : s \in Seq(C2)) /\ \A s \in Seq(OutType(E)) : s \in Seq(OutType(E2))
  BY <1>2, SeqMonotonic
<1>4. LaneType(C, OutType(E)) \subseteq LaneType(C2, OutType(E2))
  BY <1>3 DEF LaneType
<1>5. CallerType(C) \subseteq CallerType(C2)
  BY DEF CallerType
<1>6. DoubtType(E) \subseteq DoubtType(E2) /\ DeferredType(E) \subseteq DeferredType(E2)
  BY <1>1 DEF DoubtType, DeferredType
<1>7. GuardType(E) \subseteq GuardType(E2)
  BY <1>1 DEF GuardType
<1> QED BY <1>1, <1>4, <1>5, <1>6, <1>7

\* Issuing an event moves none, and leaves the other callers as they are.
LEMMA IssueInv ==
    ASSUME IndInv, NEW c \in Callers, NEW op \in EventOps, Issue(c, op),
           UNCHANGED <<closed, inactive, journal, deferred, guard, manager, sink, published, acked>>,
           lane' \in [Lanes -> LaneType(Cmds, OutType(Evs))], current' \in 0..MaxLanes,
           \A k \in Lanes : lane'[k].out = lane[k].out /\ lane'[k].step = lane[k].step,
           RunInv', NEW r, caller' = [caller EXCEPT ![c] = r],
           r \in [st : {"send", "live_route"}, lane : 0..MaxLanes, cmd : {<<x>> : x \in Cmds'}],
           r.cmd[1].ev = Len(issued'), r.st = "send" => r.lane \in Lanes,
           r.st = "live_route" => op = "live"
    PROVE  IndInv'
<1>0. Types /\ CallerInv /\ RunInv
  BY DEF IndInv
<1> SUFFICES ASSUME NEW n, n = Len(issued') PROVE IndInv'
  OBVIOUS
<1>1. /\ issued' \in Seq(IssueType) /\ n \in Evs' /\ n \notin Evs /\ Evs' = Evs \cup {n}
      /\ issued'[n].from = c /\ issued'[n].op = op
      /\ \A e \in Evs : issued'[e] = issued[e] /\ From'[e] = From[e] /\ e < n
      /\ Cmds \subseteq Cmds' /\ Dur' \cap Evs = Dur /\ n \in Nat
      /\ \A e \in Evs : IsDurable(e)' <=> IsDurable(e)
  BY <1>0, IssueFacts, TypeFacts
<1>2. /\ closed' = closed /\ inactive' = inactive /\ log' = log /\ durable' = durable /\ doubt' = doubt
      /\ deferred' = deferred /\ guard' = guard /\ manager' = manager /\ sink' = sink
      /\ published' = published /\ acked' = acked
  BY DEF journal
<1>3. /\ caller'[c] = r /\ \A d \in Callers : d # c => caller'[d] = caller[d]
      /\ caller' \in [Callers -> CallerType(Cmds')]
  <2>1. r \in CallerType(Cmds')
    BY DEF CallerType, CallerStates
  <2>2. CallerType(Cmds) \subseteq CallerType(Cmds')
    BY <1>1, WiderTypes
  <2>3. caller \in [Callers -> CallerType(Cmds')]
    BY <1>0, <2>2 DEF Types
  <2> QED BY <2>1, <2>3
<1>4. Types'
  <2>1. /\ LaneType(Cmds, OutType(Evs)) \subseteq LaneType(Cmds', OutType(Evs'))
        /\ \A s \in Seq(Evs) : s \in Seq(Evs')
        /\ DoubtType(Evs) \subseteq DoubtType(Evs')
        /\ DeferredType(Evs) \subseteq DeferredType(Evs') /\ GuardType(Evs) \subseteq GuardType(Evs')
    <3>1. Evs \subseteq Evs'
      BY <1>1
    <3> QED BY <1>1, <3>1, WiderTypes
  <2>2. lane' \in [Lanes -> LaneType(Cmds', OutType(Evs'))]
    BY <2>1
  <2>3. /\ log' \in Seq(Evs') /\ published' \in Seq(Evs') /\ doubt' \in DoubtType(Evs')
        /\ deferred' \in DeferredType(Evs') /\ guard' \in GuardType(Evs') /\ acked' \subseteq Evs'
    BY <1>0, <1>1, <1>2, <2>1 DEF Types
  <2> QED BY <1>0, <1>1, <1>2, <1>3, <2>2, <2>3 DEF Types
<1>5. CallerInv'
  <2>1. ASSUME NEW d \in Callers, d # c, caller[d] # Idle PROVE CallerOK(d, caller[d])'
    <3>1. CallerOK(d, caller[d]) /\ caller'[d] = caller[d]
      BY <1>0, <1>3, <2>1 DEF CallerInv
    <3>2. \A x : Latest(d, x) => Latest(d, x)'
      BY <1>1, <2>1 DEF Latest
    <3>3. caller[d].st \in {"live_route", "live_deliver"} => caller[d].cmd[1].ev \in Evs
      BY <3>1 DEF CallerOK, Latest
    <3> QED BY <1>1, <3>1, <3>2, <3>3 DEF CallerOK
  <2>2. CallerOK(c, caller[c])'
    <3>1. Latest(c, n)'
      <4>1. \A k \in Evs' : k <= n
        BY <1>0, <1>1, TypeFacts
      <4> QED BY <1>1, <4>1 DEF Latest
    <3>2. r.st = "live_route" => ~IsDurable(n)'
      BY <1>1 DEF IsDurable, DurableOps
    <3>3. r.cmd[1].ev = n /\ r.st \in {"send", "live_route"}
      OBVIOUS
    <3> QED BY <1>3, <3>1, <3>2, <3>3 DEF CallerOK
  <2> QED BY <1>3, <2>1, <2>2 DEF CallerInv
<1>6. /\ Evs \subseteq Nat /\ published \in Seq(Evs) /\ guard.out \in Seq(Evs)
      /\ deferred.events \in Seq(Evs)
  BY <1>0, TypeFacts
<1>7. OrderInv'
  <2> SUFFICES ASSUME NEW l \in Lanes
               PROVE  OrderOK(log, Dur', published, guard.out, deferred.events, OutOf(l)', lane'[l].step = "deliver")
    BY <1>2 DEF OrderInv
  <2>1. OutOf(l)' = OutOf(l) /\ OutOf(l) \in Seq(Evs) /\ lane'[l].step = lane[l].step
    BY <1>0, OutFacts DEF OutOf
  <2>2. OrderOK(log, Dur, published, guard.out, deferred.events, OutOf(l), lane[l].step = "deliver")
    BY DEF IndInv, OrderInv
  <2>3. Dur \cap Evs = Dur' \cap Evs
    BY <1>1
  <2> HIDE DEF Dur
  <2>4. OrderOK(log, Dur', published, guard.out, deferred.events, OutOf(l), lane[l].step = "deliver")
    BY <1>6, <2>1, <2>2, <2>3, OrderIssues
  <2> QED BY <2>1, <2>4
<1>8. AckInv'
  <2>1. Past' \subseteq Past /\ Past \subseteq Evs
    <3>1. Past' \subseteq Past
      BY <1>3 DEF Past
    <3> QED BY <1>0, <3>1, PastFacts
  <2>2. AckOK(acked \cap Dur, From, guard.lost, published, guard.out, deferred.events, Past')
    BY <2>1, AckFewerPast DEF IndInv, AckInv
  <2>3. acked \cap Dur \subseteq Evs /\ \A e \in Evs : From'[e] = From[e]
    BY <1>0, <1>1 DEF Types
  <2>4. Past' \subseteq Evs
    BY <2>1
  <2>5. AckOK(acked \cap Dur, From', guard.lost, published, guard.out, deferred.events, Past')
    BY <1>6, <2>2, <2>3, <2>4, AckIssues
  <2>6. acked' \cap Dur' = acked \cap Dur
    BY <1>0, <1>1, <1>2 DEF Types
  <2> QED BY <1>2, <2>5, <2>6 DEF AckInv
<1>9. CommittedIsOnTheWay' /\ DeferInv' /\ ReleasedIsDurable'
  BY <1>2 DEF IndInv, CommittedIsOnTheWay, OnTheWay, DeferInv, ReleasedIsDurable
<1> QED BY <1>4, <1>5, <1>7, <1>8, <1>9 DEF IndInv

LEMMA PublishOrderedInv ==
    ASSUME IndInv, NEW c \in Callers, NEW op \in EventOps \ {"live"}, NEW l \in Lanes,
           publish_ordered(c, op, l)
    PROVE  IndInv'
<1> SUFFICES ASSUME NEW n, n = Len(issued') PROVE IndInv'
  OBVIOUS
<1>0. Types
  BY DEF IndInv
<1>1. Issue(c, op) /\ LaneFor(l)
      /\ UNCHANGED <<closed, inactive, journal, deferred, guard, manager, sink, published, acked>>
  BY DEF publish_ordered
<1>2. /\ n \in Evs' /\ issued'[n].op = op /\ Evs' \subseteq Nat
  BY <1>0, <1>1, IssueFacts, TypeFacts DEF Evs
<1> DEFINE kind == IF op = "live_required" THEN "live" ELSE op
           from == IF op = "live_required" THEN Nobody ELSE c
           x == Command(kind, n, from, 0)
           r == [st |-> "send", lane |-> l, cmd |-> <<x>>]
<1>3. x \in Cmds' /\ x.ev = n
  <2>1. kind \in CommandOps /\ from \in Repliers /\ (from = Nobody => kind = "live")
    BY TasksAssumption DEF CommandOps, EventOps, DurableOps, Repliers
  <2>2. kind = "live" => ~IsDurable(n)'
    BY <1>2 DEF IsDurable, DurableOps
  <2> HIDE DEF kind, from
  <2>3. x \in CmdType /\ x.ev = n /\ x.op = kind /\ x.from = from
    BY <1>2, <2>1 DEF Command, CmdType
  <2> HIDE DEF x
  <2> QED BY <1>2, <2>1, <2>2, <2>3 DEF Cmds
<1>4. caller' = [caller EXCEPT ![c] = r]
  BY DEF publish_ordered
<1> HIDE DEF x
<1>5. /\ r \in [st : {"send", "live_route"}, lane : 0..MaxLanes, cmd : {<<y>> : y \in Cmds'}]
      /\ r.cmd[1].ev = n /\ r.st = "send" /\ r.lane \in Lanes
  BY <1>3 DEF Lanes
<1> HIDE DEF r
<1>6. /\ lane' \in [Lanes -> LaneType(Cmds, OutType(Evs))] /\ current' \in 0..MaxLanes
      /\ \A k \in Lanes : lane'[k].out = lane[k].out /\ lane'[k].step = lane[k].step
      /\ RunInv'
  BY <1>1, LaneForFacts
<1>7. r.cmd[1].ev = Len(issued') /\ (r.st = "live_route" => op = "live")
  BY <1>5
<1> QED BY <1>1, <1>4, <1>5, <1>6, <1>7, IssueInv

LEMMA PublishLiveCheckInv ==
    ASSUME IndInv, NEW c \in Callers, publish_live_check(c)
    PROVE  IndInv'
<1> SUFFICES ASSUME NEW n, n = Len(issued') PROVE IndInv'
  OBVIOUS
<1>0. Types /\ RunInv /\ "live" \in EventOps
  BY DEF IndInv, EventOps
<1>1. /\ Issue(c, "live") /\ lane' = lane /\ current' = current
      /\ UNCHANGED <<closed, inactive, journal, deferred, guard, manager, sink, published, acked>>
  BY DEF publish_live_check, state
<1>2. /\ n \in Evs' /\ issued'[n].op = "live" /\ Evs' \subseteq Nat
  BY <1>0, <1>1, IssueFacts, TypeFacts DEF Evs
<1> DEFINE x == Command("live", n, Nobody, 0)
           r == [st |-> "live_route", lane |-> 0, cmd |-> <<x>>]
<1>3. x \in Cmds' /\ x.ev = n
  <2>1. "live" \in CommandOps /\ Nobody \in Repliers
    BY DEF CommandOps, Repliers
  <2>2. ~IsDurable(n)'
    BY <1>2 DEF IsDurable, DurableOps
  <2>3. x \in CmdType /\ x.ev = n /\ x.op = "live"
    BY <1>2, <2>1 DEF Command, CmdType
  <2> HIDE DEF x
  <2> QED BY <1>2, <2>2, <2>3 DEF Cmds
<1>4. caller' = [caller EXCEPT ![c] = r]
  BY DEF publish_live_check
<1> HIDE DEF x
<1>5. /\ r \in [st : {"send", "live_route"}, lane : 0..MaxLanes, cmd : {<<y>> : y \in Cmds'}]
      /\ r.cmd[1].ev = n /\ r.st = "live_route"
  BY <1>3, BoundsAssumption
<1> HIDE DEF r
<1>6. /\ lane' \in [Lanes -> LaneType(Cmds, OutType(Evs))] /\ current' \in 0..MaxLanes
      /\ \A k \in Lanes : lane'[k].out = lane[k].out /\ lane'[k].step = lane[k].step
      /\ RunInv'
  BY <1>0, <1>1 DEF Types, RunInv
<1>7. r.cmd[1].ev = Len(issued') /\ (r.st = "send" => r.lane \in Lanes)
  BY <1>5
<1> QED BY <1>0, <1>1, <1>4, <1>5, <1>6, <1>7, IssueInv

LEMMA RequestBarrierInv ==
    ASSUME IndInv, NEW c \in Callers, NEW op \in {"sync", "retry"}, NEW l \in Lanes,
           request_barrier(c, op, l)
    PROVE  IndInv'
<1>0. Types /\ CallerInv
  BY DEF IndInv
<1>1. /\ issued' = issued /\ log' = log /\ durable' = durable /\ doubt' = doubt
      /\ published' = published /\ guard' = guard /\ deferred' = deferred
      /\ closed' = closed /\ inactive' = inactive /\ manager' = manager /\ sink' = sink
      /\ acked' = acked /\ LaneFor(l)
  BY DEF request_barrier, journal
<1>2. Evs' = Evs /\ Cmds' = Cmds /\ Dur' = Dur /\ \A y : IsDurable(y)' <=> IsDurable(y)
  BY <1>1, IssuedSame
<1> DEFINE x == Command(op, 0, c, doubt.through)
           r == [st |-> "send", lane |-> l, cmd |-> <<x>>]
<1>3. x \in Cmds /\ x.ev = 0
  <2>1. c \in Repliers /\ c # Nobody /\ doubt.through \in Nat
    BY <1>0, TasksAssumption DEF Repliers, Types, DoubtType
  <2> QED BY <2>1, CommandFacts
<1>4. caller' = [caller EXCEPT ![c] = r]
  BY DEF request_barrier
<1> HIDE DEF x
<1>5. /\ r \in CallerType(Cmds) /\ r.cmd[1] = x /\ r.st = "send" /\ r.lane = l
  BY <1>3 DEF CallerType, CallerStates, Lanes
<1> HIDE DEF r
<1>6. /\ lane' \in [Lanes -> LaneType(Cmds, OutType(Evs))] /\ current' \in 0..MaxLanes
      /\ \A k \in Lanes : lane'[k].out = lane[k].out /\ lane'[k].step = lane[k].step
      /\ RunInv'
  BY <1>1, LaneForFacts
<1>7. /\ caller' \in [Callers -> CallerType(Cmds)] /\ caller'[c] = r
      /\ \A d \in Callers : d # c => caller'[d] = caller[d]
  BY <1>0, <1>4, <1>5 DEF Types
<1>8. Types'
  BY <1>0, <1>1, <1>2, <1>6, <1>7 DEF Types
<1>9. CallerInv'
  <2>1. \A d \in Callers : \A y : CallerOK(d, y) => CallerOK(d, y)'
    BY <1>1, <1>2 DEF CallerOK, Latest
  <2>2. CallerOK(c, r)
    BY <1>3, <1>5 DEF CallerOK
  <2> QED BY <1>0, <1>7, <2>1, <2>2 DEF CallerInv
<1>10. Quiet
  BY <1>1, <1>5, <1>6, <1>7 DEF Quiet
<1>11. ReleasedIsDurable'
  BY <1>1 DEF IndInv, ReleasedIsDurable
<1> QED BY <1>6, <1>8, <1>9, <1>10, <1>11, QuietInv DEF IndInv

-----------------------------------------------------------------------------
(* publish_live. *)

\* The live event of a caller that publishes past the lane.
LEMMA LiveFacts ==
    ASSUME IndInv, NEW c \in Callers, caller[c].st \in {"live_route", "live_deliver"}
    PROVE  /\ caller[c] # Idle /\ caller[c].cmd[1].ev \in Evs /\ caller[c].cmd[1].ev \notin Dur
           /\ caller[c].cmd[1].ev \in Nat
<1>1. caller[c] # Idle
  BY DEF Idle
<1>2. /\ caller[c].cmd[1].ev \in Evs /\ caller[c].cmd[1].ev \notin Dur
  BY <1>1 DEF IndInv, CallerInv, CallerOK, Latest, Dur
<1> QED BY <1>1, <1>2, TypeFacts DEF IndInv

LEMMA PublishLiveRouteInv ==
    ASSUME IndInv, NEW c \in Callers, publish_live_route(c)
    PROVE  IndInv'
<1> DEFINE x == caller[c].cmd[1].ev
<1>0. Types /\ CallerInv /\ RunInv /\ DeferInv /\ caller[c].st = "live_route"
  BY DEF IndInv, publish_live_route
<1>1. /\ issued' = issued /\ log' = log /\ durable' = durable /\ doubt' = doubt /\ lane' = lane
      /\ published' = published /\ guard' = guard
      /\ closed' = closed /\ inactive' = inactive /\ current' = current
      /\ manager' = manager /\ sink' = sink
  BY DEF publish_live_route, state, journal
<1>2. /\ Evs' = Evs /\ Cmds' = Cmds /\ Dur' = Dur /\ From' = From
      /\ \A y : IsDurable(y)' <=> IsDurable(y)
  BY <1>1, IssuedSame
<1>3. caller[c] # Idle /\ x \in Evs /\ x \notin Dur /\ x \in Nat
  BY <1>0, LiveFacts
<1>4. /\ published \in Seq(Nat) /\ deferred.events \in Seq(Nat)
      /\ published \in Seq(Evs) /\ guard.out \in Seq(Evs) /\ deferred.events \in Seq(Evs)
      /\ deferred \in DeferredType(Evs) /\ acked \subseteq Evs
  <2>1. Evs \subseteq Nat /\ published \in Seq(Evs) /\ guard.out \in Seq(Evs) /\ deferred.events \in Seq(Evs)
    BY <1>0, TypeFacts
  <2>2. published \in Seq(Nat) /\ deferred.events \in Seq(Nat)
    BY <2>1, SeqMonotonic
  <2> QED BY <1>0, <2>1, <2>2 DEF Types
<1>5. RunInv' /\ ReleasedIsDurable'
  BY <1>1 DEF IndInv, RunInv, ReleasedIsDurable
<1>6. \A l \in Lanes : OutOf(l)' = OutOf(l)
  BY <1>1 DEF OutOf
<1>7. CASE deferred.on
  <2> DEFINE d == Append(deferred.events, x)
  <2>1. /\ deferred' = [deferred EXCEPT !.events = d] /\ acked' = acked \cup {x}
        /\ caller' = [caller EXCEPT ![c] = Idle]
    BY <1>7 DEF publish_live_route
  <2>2. d \in Seq(Evs) /\ ElementsOf(d) = ElementsOf(deferred.events) \cup {x}
    BY <1>3, <1>4, AppendElements
  <2>3. OrderInv'
    <3> SUFFICES ASSUME NEW l \in Lanes
                 PROVE  OrderOK(log, Dur, published, guard.out, deferred'.events, OutOf(l), lane[l].step = "deliver")
      BY <1>1, <1>2, <1>6 DEF OrderInv
    <3>1. OrderOK(log, Dur, published, guard.out, deferred.events, OutOf(l), lane[l].step = "deliver")
      BY DEF IndInv, OrderInv
    <3>2. OrderOK(log, Dur, published, guard.out, d, OutOf(l), lane[l].step = "deliver")
      <4> HIDE DEF x
      <4> QED BY <1>3, <1>4, <3>1, OrderLive
    <3> HIDE DEF d
    <3>3. deferred'.events = d
      BY <1>4, <2>1 DEF DeferredType
    <3> QED BY <3>2, <3>3
  <2>4. AckOK(acked \cap Dur, From, guard.lost, published, guard.out, d, Past)
    <3>1. AckOK(acked \cap Dur, From, guard.lost, published, guard.out, deferred.events, Past)
      BY DEF IndInv, AckInv
    <3> HIDE DEF x
    <3> QED BY <1>3, <1>4, <3>1, AckDefers
  <2> HIDE DEF d
  <2>5. deferred' \in DeferredType(Evs) /\ deferred'.events = d /\ deferred'.on = deferred.on
    BY <1>4, <2>1, <2>2 DEF DeferredType
  <2>6. /\ caller' \in [Callers -> CallerType(Cmds)]
        /\ \A e \in Callers : caller'[e] \in {Idle, caller[e]}
    BY <1>0, <2>1 DEF Types, CallerType
  <2>7. Types'
    BY <1>0, <1>1, <1>2, <1>3, <1>4, <2>1, <2>5, <2>6 DEF Types
  <2>8. CallerInv'
    BY <1>1, <2>6, AnsweredCallers
  <2>9. AckInv'
    <3>1. Past' \subseteq Past
      <4>1. \A e \in Callers : caller'[e].st = "live_deliver" => caller'[e] = caller[e]
        BY <2>6 DEF Idle
      <4> QED BY <1>1, <4>1 DEF Past
    <3>2. acked' \cap Dur' = acked \cap Dur
      BY <1>2, <1>3, <2>1
    <3>3. AckOK(acked \cap Dur, From, guard.lost, published, guard.out, d, Past')
      BY <2>4, <3>1, AckFewerPast
    <3> QED BY <1>1, <1>2, <2>5, <3>2, <3>3 DEF AckInv
  <2>10. DeferInv'
    BY <1>0, <1>1, <1>7, <2>5 DEF DeferInv
  <2>11. CommittedIsOnTheWay'
    BY <1>1, <2>2, <2>5 DEF IndInv, CommittedIsOnTheWay, OnTheWay
  <2> QED BY <1>5, <2>3, <2>7, <2>8, <2>9, <2>10, <2>11 DEF IndInv
<1>8. CASE ~deferred.on
  <2>1. /\ deferred' = deferred /\ acked' = acked
        /\ caller' = [caller EXCEPT ![c].st = "live_deliver"]
    BY <1>8 DEF publish_live_route
  <2> DEFINE r == [caller[c] EXCEPT !.st = "live_deliver"]
  <2>2. /\ r \in CallerType(Cmds) /\ r.cmd = caller[c].cmd /\ r.st = "live_deliver"
    <3>1. caller[c] \in [st : CallerStates, lane : 0..MaxLanes, cmd : {<<y>> : y \in Cmds}]
      BY <1>0, <1>3, CallerFacts
    <3> QED BY <3>1 DEF CallerType, CallerStates
  <2>3. caller' = [caller EXCEPT ![c] = r]
    BY <2>1
  <2> HIDE DEF r
  <2>4. /\ caller' \in [Callers -> CallerType(Cmds)] /\ caller'[c] = r
        /\ \A e \in Callers : e # c => caller'[e] = caller[e]
    BY <1>0, <2>2, <2>3 DEF Types
  <2>5. Types'
    BY <1>0, <1>1, <1>2, <2>1, <2>4 DEF Types
  <2>6. CallerInv'
    <3>1. \A e \in Callers : \A y : CallerOK(e, y) => CallerOK(e, y)'
      BY <1>1, <1>2 DEF CallerOK, Latest
    <3>2. CallerOK(c, r)
      BY <1>0, <1>3, <2>2 DEF CallerInv, CallerOK
    <3> QED BY <1>0, <2>4, <3>1, <3>2 DEF CallerInv
  <2>7. OrderInv'
    BY <1>1, <1>2, <1>6, <2>1 DEF IndInv, OrderInv
  <2>8. AckInv'
    <3>1. guard.out = << >> /\ deferred.events = << >>
      BY <1>0, <1>8 DEF DeferInv
    <3>2. AckOK(acked \cap Dur, From, guard.lost, published, << >>, << >>, Past)
      BY <3>1 DEF IndInv, AckInv
    <3>3. AckOK(acked \cap Dur, From, guard.lost, published, << >>, << >>, Past')
      BY <3>2, AckGoesPast
    <3> QED BY <1>1, <1>2, <2>1, <3>1, <3>3 DEF AckInv
  <2>9. CommittedIsOnTheWay' /\ DeferInv'
    BY <1>1, <2>1 DEF IndInv, CommittedIsOnTheWay, OnTheWay, DeferInv
  <2> QED BY <1>5, <2>5, <2>6, <2>7, <2>8, <2>9 DEF IndInv
<1>9. deferred.on \in BOOLEAN
  BY <1>0, TypeFacts
<1> QED BY <1>7, <1>8, <1>9

LEMMA PublishLiveDeliverInv ==
    ASSUME IndInv, NEW c \in Callers, publish_live_deliver(c)
    PROVE  IndInv'
<1> DEFINE x == caller[c].cmd[1].ev
           p == Append(published, x)
<1>0. Types /\ CallerInv /\ RunInv /\ DeferInv /\ caller[c].st = "live_deliver"
  BY DEF IndInv, publish_live_deliver
<1>1. /\ issued' = issued /\ log' = log /\ durable' = durable /\ doubt' = doubt /\ lane' = lane
      /\ guard' = guard /\ deferred' = deferred
      /\ closed' = closed /\ inactive' = inactive /\ current' = current
      /\ manager' = manager /\ sink' = sink
      /\ published' = p /\ acked' = acked \cup {x} /\ caller' = [caller EXCEPT ![c] = Idle]
  BY DEF publish_live_deliver, state, journal
<1>2. Evs' = Evs /\ Cmds' = Cmds /\ Dur' = Dur /\ From' = From
  BY <1>1, IssuedSame
<1>3. caller[c] # Idle /\ x \in Evs /\ x \notin Dur /\ x \in Nat
  BY <1>0, LiveFacts
<1>4. /\ published \in Seq(Nat) /\ deferred.events \in Seq(Nat) /\ published \in Seq(Evs)
      /\ acked \subseteq Evs
  <2>1. Evs \subseteq Nat /\ published \in Seq(Evs) /\ deferred.events \in Seq(Evs)
    BY <1>0, TypeFacts
  <2>2. published \in Seq(Nat) /\ deferred.events \in Seq(Nat)
    BY <2>1, SeqMonotonic
  <2> QED BY <1>0, <2>1, <2>2 DEF Types
<1>5. RunInv' /\ ReleasedIsDurable' /\ DeferInv'
  BY <1>1 DEF IndInv, RunInv, ReleasedIsDurable, DeferInv
<1>6. \A l \in Lanes : OutOf(l)' = OutOf(l)
  BY <1>1 DEF OutOf
<1>7. p \in Seq(Evs) /\ ElementsOf(p) = ElementsOf(published) \cup {x}
  BY <1>3, <1>4, AppendElements
<1>8. x \in Past
  BY <1>0 DEF Past
<1>9. OrderInv'
  <2> SUFFICES ASSUME NEW l \in Lanes
               PROVE  OrderOK(log, Dur, p, guard.out, deferred.events, OutOf(l), lane[l].step = "deliver")
    BY <1>1, <1>2, <1>6 DEF OrderInv
  <2>1. OrderOK(log, Dur, published, guard.out, deferred.events, OutOf(l), lane[l].step = "deliver")
    BY DEF IndInv, OrderInv
  <2> HIDE DEF x
  <2> QED BY <1>3, <1>4, <2>1, OrderLive
<1>10. AckOK(acked \cap Dur, From, guard.lost, p, guard.out, deferred.events, Past)
  <2>1. AckOK(acked \cap Dur, From, guard.lost, published, guard.out, deferred.events, Past)
    BY DEF IndInv, AckInv
  <2> HIDE DEF x
  <2> QED BY <1>3, <1>4, <1>8, <2>1, AckDelivers
<1> HIDE DEF p
<1>11. /\ caller' \in [Callers -> CallerType(Cmds)]
       /\ \A e \in Callers : caller'[e] \in {Idle, caller[e]}
  BY <1>0, <1>1 DEF Types, CallerType
<1>12. Types'
  BY <1>0, <1>1, <1>2, <1>3, <1>4, <1>7, <1>11 DEF Types
<1>13. CallerInv'
  BY <1>1, <1>11, AnsweredCallers
<1>14. AckInv'
  <2>1. Past' \subseteq Past
    <3>1. \A e \in Callers : caller'[e].st = "live_deliver" => caller'[e] = caller[e]
      BY <1>11 DEF Idle
    <3> QED BY <1>1, <3>1 DEF Past
  <2>2. acked' \cap Dur' = acked \cap Dur
    BY <1>1, <1>2, <1>3
  <2>3. AckOK(acked \cap Dur, From, guard.lost, p, guard.out, deferred.events, Past')
    BY <1>10, <2>1, AckFewerPast
  <2> QED BY <1>1, <1>2, <2>2, <2>3 DEF AckInv
<1>15. CommittedIsOnTheWay'
  BY <1>1, <1>7 DEF IndInv, CommittedIsOnTheWay, OnTheWay
<1> QED BY <1>5, <1>9, <1>12, <1>13, <1>14, <1>15 DEF IndInv

-----------------------------------------------------------------------------
(* release, activate and shutdown. *)

LEMMA SyncFacts ==
    ASSUME Types, SyncOk \/ SyncFails, log' = log
    PROVE  /\ durable' \in Nat /\ doubt' \in DoubtType(Evs)
           /\ SyncOk => durable' = Len(log) /\ doubt'.kind = "None"
<1>1. CASE SyncOk
  BY <1>1, TypeFacts DEF SyncOk, Types, Ready
<1>2. CASE SyncFails
  <2> DEFINE d == [kind |-> "Published", batch |-> << >>, through |-> Len(log)]
  <2>1. d \in DoubtType(Evs)
    BY TypeFacts DEF DoubtType
  <2>2. doubt' = d \/ doubt' = doubt
    BY <1>2 DEF SyncFails
  <2> HIDE DEF d
  <2>3. durable' \in Nat /\ doubt' \in DoubtType(Evs)
    BY <1>2, <2>1, <2>2 DEF SyncFails, Types
  <2>4. SyncOk => durable' = Len(log) /\ doubt'.kind = "None"
    BY <1>1
  <2> QED BY <2>3, <2>4
<1> QED BY <1>1, <1>2

LEMMA ManagerInv ==
    ASSUME IndInv, ManagerStep
    PROVE  IndInv'
<1>0. /\ Types /\ CallerInv /\ RunInv /\ manager.lane \in 0..MaxLanes /\ MaxLanes \in Nat
      /\ manager \in [st : {"idle", "send", "drain", "released"}, lane : 0..MaxLanes]
  BY BoundsAssumption DEF IndInv, Types
<1>1. /\ issued' = issued /\ log' = log /\ published' = published /\ guard' = guard
      /\ deferred' = deferred /\ closed' = closed /\ sink' = sink /\ acked' = acked /\ caller' = caller
  BY DEF ManagerStep, release_with_lane, release_without_lane, release_send, activate, state, journal
<1>2. Evs' = Evs /\ Cmds' = Cmds
  BY <1>1, IssuedSame
<1>3. CallerInv'
  BY <1>1, AnsweredCallers
<1>4. CASE release_with_lane
  <2>1. /\ manager.st = "idle" /\ current # 0 /\ inactive' = TRUE /\ current' = 0
        /\ manager' = [st |-> "send", lane |-> current]
        /\ lane' = lane /\ durable' = durable /\ doubt' = doubt
    BY <1>4 DEF release_with_lane, InactiveOnRelease, journal
  <2>2. Quiet
    BY <1>1, <2>1 DEF Quiet
  <2>3. /\ inactive' \in BOOLEAN /\ current' \in 0..MaxLanes
        /\ manager' \in [st : {"idle", "send", "drain", "released"}, lane : 0..MaxLanes]
        /\ manager'.lane = current /\ manager'.st = "send"
    BY <1>0, <2>1 DEF Types
  <2>4. Types'
    BY <1>0, <1>1, <1>2, <2>1, <2>3 DEF Types
  <2>5. RunInv'
    BY <1>0, <1>1, <2>1, <2>3 DEF RunInv
  <2>6. ReleasedIsDurable'
    BY <2>3 DEF ReleasedIsDurable
  <2> QED BY <1>3, <2>2, <2>4, <2>5, <2>6, QuietInv DEF IndInv
<1>5. CASE release_without_lane
  <2>1. /\ manager.st = "idle" /\ current = 0 /\ current' = current /\ lane' = lane
        /\ \/ /\ SyncOk /\ inactive' = TRUE /\ manager' = [manager EXCEPT !.st = "released"]
           \/ SyncFails /\ inactive' = closed /\ manager' = manager
    BY <1>5 DEF release_without_lane
  <2>2. Quiet
    BY <1>1, <2>1 DEF Quiet
  <2>3. durable' \in Nat /\ doubt' \in DoubtType(Evs) /\ (SyncOk => durable' = Len(log) /\ doubt'.kind = "None")
    BY <1>0, <1>1, <2>1, SyncFacts
  <2>4. inactive' \in BOOLEAN
    BY <1>0, <2>1 DEF Types
  <2>5. manager.lane = 0
    BY <1>0, <2>1 DEF RunInv
  <2>6. /\ manager' \in [st : {"idle", "send", "drain", "released"}, lane : 0..MaxLanes]
        /\ manager'.lane = 0
        /\ \/ manager'.st = "idle" /\ inactive' = closed
           \/ manager'.st = "released" /\ inactive' /\ SyncOk
    BY <1>0, <2>1, <2>5
  <2>7. Types'
    BY <1>0, <1>1, <1>2, <2>1, <2>3, <2>4, <2>6 DEF Types
  <2>8. RunInv'
    BY <1>0, <1>1, <2>1, <2>5, <2>6 DEF RunInv
  <2>9. ReleasedIsDurable'
    BY <1>1, <2>3, <2>6 DEF ReleasedIsDurable
  <2> QED BY <1>3, <2>2, <2>7, <2>8, <2>9, QuietInv DEF IndInv
<1>6. CASE release_send
  <2> DEFINE x == Command("shutdown", 0, Manager, 0)
  <2>1. /\ manager.st = "send" /\ Enqueue(manager.lane, x)
        /\ manager' = [manager EXCEPT !.st = "drain"]
        /\ current' = current /\ inactive' = inactive /\ durable' = durable /\ doubt' = doubt
    BY <1>6 DEF release_send, state, journal
  <2>2. x \in Cmds
    <3>1. Manager \in Repliers /\ Manager # Nobody
      BY TasksAssumption DEF Repliers
    <3> QED BY <3>1, CommandFacts
  <2>3. manager.lane \in Lanes
    BY <1>0, <2>1 DEF RunInv, Lanes
  <2>4. /\ lane' \in [Lanes -> LaneType(Cmds, OutType(Evs))]
        /\ \A k \in Lanes : /\ lane'[k].out = lane[k].out /\ lane'[k].step = lane[k].step
                            /\ lane'[k].phase = lane[k].phase
    <3> HIDE DEF x
    <3> QED BY <1>0, <2>1, <2>2, <2>3, EnqueueFacts
  <2>5. Quiet
    BY <1>1, <2>4 DEF Quiet
  <2>6. /\ manager' \in [st : {"idle", "send", "drain", "released"}, lane : 0..MaxLanes]
        /\ manager'.lane = manager.lane /\ manager'.st = "drain"
    BY <1>0, <2>1
  <2>7. Types'
    BY <1>0, <1>1, <1>2, <2>1, <2>4, <2>6 DEF Types
  <2>8. RunInv'
    BY <1>0, <1>1, <2>1, <2>4, <2>6 DEF RunInv
  <2>9. ReleasedIsDurable'
    BY <2>6 DEF ReleasedIsDurable
  <2> QED BY <1>3, <2>5, <2>7, <2>8, <2>9, QuietInv DEF IndInv
<1>7. CASE activate
  <2>1. /\ manager.st = "released" /\ ~closed /\ inactive' = FALSE
        /\ manager' = [st |-> "idle", lane |-> 0]
        /\ current' = current /\ lane' = lane /\ durable' = durable /\ doubt' = doubt
    BY <1>7 DEF activate, journal
  <2>2. Quiet
    BY <1>1, <2>1 DEF Quiet
  <2>3. /\ manager' \in [st : {"idle", "send", "drain", "released"}, lane : 0..MaxLanes]
        /\ manager'.lane = 0 /\ manager'.st = "idle"
    BY <1>0, <2>1
  <2>7. inactive' \in BOOLEAN /\ ~inactive'
    BY <2>1, Zenon
  <2>4. Types'
    BY <1>0, <1>1, <1>2, <2>1, <2>3, <2>7 DEF Types
  <2>5. RunInv'
    BY <1>0, <1>1, <2>1, <2>3, <2>7 DEF RunInv
  <2>6. ReleasedIsDurable'
    BY <2>3 DEF ReleasedIsDurable
  <2> QED BY <1>3, <2>2, <2>4, <2>5, <2>6, QuietInv DEF IndInv
<1> QED BY <1>4, <1>5, <1>6, <1>7 DEF ManagerStep

LEMMA SinkInv ==
    ASSUME IndInv, SinkStep
    PROVE  IndInv'
<1>0. /\ Types /\ CallerInv /\ RunInv /\ MaxLanes \in Nat
      /\ sink \in [st : {"idle", "send", "drain", "done"}, lane : 0..MaxLanes]
  BY BoundsAssumption DEF IndInv, Types
<1>1. /\ issued' = issued /\ log' = log /\ published' = published /\ guard' = guard
      /\ deferred' = deferred /\ inactive' = inactive /\ manager' = manager
      /\ acked' = acked /\ caller' = caller /\ durable' = durable /\ doubt' = doubt
  BY DEF SinkStep, shutdown, shutdown_send, state, journal
<1>2. Evs' = Evs /\ Cmds' = Cmds
  BY <1>1, IssuedSame
<1>3. CallerInv'
  BY <1>1, AnsweredCallers
<1>4. CASE shutdown
  <2>1. /\ sink.st = "idle" /\ closed' = TRUE /\ current' = 0 /\ lane' = lane
        /\ sink' = [st |-> IF current = 0 THEN "done" ELSE "send", lane |-> current]
    BY <1>4 DEF shutdown
  <2>2. Quiet
    BY <1>1, <2>1 DEF Quiet
  <2>3. /\ sink' \in [st : {"idle", "send", "drain", "done"}, lane : 0..MaxLanes]
        /\ sink'.lane = current /\ sink'.st # "idle" /\ closed' \in BOOLEAN /\ current' \in 0..MaxLanes
        /\ current = 0 => sink'.st = "done"
    BY <1>0, <2>1 DEF Types
  <2>4. Types'
    BY <1>0, <1>1, <1>2, <2>1, <2>3 DEF Types
  <2>5. RunInv'
    <3>1. sink.lane = 0 /\ ~closed
      BY <1>0, <2>1 DEF RunInv
    <3>2. \A l \in Lanes : l # 0
      BY DEF Lanes
    <3>3. current # 0 => ~inactive
      BY <1>0 DEF RunInv
    <3> QED BY <1>0, <1>1, <2>1, <2>3, <3>1, <3>2, <3>3 DEF RunInv
  <2>6. ReleasedIsDurable'
    BY <2>1 DEF ReleasedIsDurable
  <2> QED BY <1>3, <2>2, <2>4, <2>5, <2>6, QuietInv DEF IndInv
<1>5. CASE shutdown_send
  <2> DEFINE x == Command("shutdown", 0, Sink, 0)
  <2>1. /\ sink.st = "send" /\ Enqueue(sink.lane, x) /\ HasRoom(sink.lane)
        /\ sink' = [sink EXCEPT !.st = "drain"]
        /\ current' = current /\ closed' = closed
    BY <1>5 DEF shutdown_send, state
  <2>2. x \in Cmds
    <3>1. Sink \in Repliers /\ Sink # Nobody
      BY TasksAssumption DEF Repliers
    <3> QED BY <3>1, CommandFacts
  <2>3. sink.lane \in Lanes
    BY <1>0, <2>1 DEF RunInv, Lanes
  <2>4. /\ lane' \in [Lanes -> LaneType(Cmds, OutType(Evs))]
        /\ \A k \in Lanes : /\ lane'[k].out = lane[k].out /\ lane'[k].step = lane[k].step
                            /\ lane'[k].phase = lane[k].phase
    <3> HIDE DEF x
    <3> QED BY <1>0, <2>1, <2>2, <2>3, EnqueueFacts
  <2>5. Quiet
    BY <1>1, <2>4 DEF Quiet
  <2>6. /\ sink' \in [st : {"idle", "send", "drain", "done"}, lane : 0..MaxLanes]
        /\ sink'.lane = sink.lane /\ sink'.st = "drain"
    BY <1>0, <2>1
  <2>7. Types'
    BY <1>0, <1>1, <1>2, <2>1, <2>4, <2>6 DEF Types
  <2>8. RunInv'
    BY <1>0, <1>1, <2>1, <2>4, <2>6 DEF RunInv
  <2>9. ReleasedIsDurable'
    BY <1>1, <2>1 DEF IndInv, ReleasedIsDurable
  <2> QED BY <1>3, <2>5, <2>7, <2>8, <2>9, QuietInv DEF IndInv
<1> QED BY <1>4, <1>5 DEF SinkStep

-----------------------------------------------------------------------------
(* Deferred publication. *)

\* What a step of the guard leaves alone.
LEMMA GuardFrame ==
    ASSUME IndInv, GuardStep
    PROVE  /\ issued' = issued /\ log' = log /\ durable' = durable /\ doubt' = doubt /\ lane' = lane
           /\ closed' = closed /\ inactive' = inactive /\ current' = current
           /\ manager' = manager /\ sink' = sink /\ acked' = acked /\ caller' = caller
           /\ Evs' = Evs /\ Cmds' = Cmds /\ Dur' = Dur /\ From' = From /\ Past' = Past
           /\ \A l \in Lanes : OutOf(l)' = OutOf(l)
           /\ CallerInv' /\ RunInv' /\ ReleasedIsDurable'
<1>1. /\ issued' = issued /\ log' = log /\ durable' = durable /\ doubt' = doubt /\ lane' = lane
      /\ closed' = closed /\ inactive' = inactive /\ current' = current
      /\ manager' = manager /\ sink' = sink /\ acked' = acked /\ caller' = caller
  BY DEF GuardStep, defer_publication, guard_commit, commit_deferred_take, commit_deferred_publish,
         discard_deferred, state, journal
<1>2. Evs' = Evs /\ Cmds' = Cmds /\ Dur' = Dur /\ From' = From
  BY <1>1, IssuedSame
<1>3. CallerInv'
  BY <1>1, AnsweredCallers
<1>4. RunInv' /\ ReleasedIsDurable' /\ Past' = Past /\ \A l \in Lanes : OutOf(l)' = OutOf(l)
  BY <1>1 DEF IndInv, RunInv, ReleasedIsDurable, Past, OutOf
<1> QED BY <1>1, <1>2, <1>3, <1>4

\* A step of the guard, given what it makes of the events.
LEMMA GuardMoves ==
    ASSUME IndInv, GuardStep, published' \in Seq(Evs), deferred' \in DeferredType(Evs),
           guard' \in GuardType(Evs), DeferInv',
           \A l \in Lanes : OrderOK(log, Dur, published', guard'.out, deferred'.events, OutOf(l), lane[l].step = "deliver"),
           AckOK(acked \cap Dur, From, guard'.lost, published', guard'.out, deferred'.events, Past),
           ElementsOf(published) \cup ElementsOf(guard.out) \cup guard.lost \cup ElementsOf(deferred.events)
               \subseteq ElementsOf(published') \cup ElementsOf(guard'.out) \cup guard'.lost
                         \cup (IF guard'.st = "none" THEN {} ELSE ElementsOf(deferred'.events))
    PROVE  IndInv'
<1>0. Types
  BY DEF IndInv
<1>1. /\ issued' = issued /\ log' = log /\ durable' = durable /\ doubt' = doubt /\ lane' = lane
      /\ closed' = closed /\ inactive' = inactive /\ current' = current
      /\ manager' = manager /\ sink' = sink /\ acked' = acked /\ caller' = caller
      /\ Evs' = Evs /\ Cmds' = Cmds /\ Dur' = Dur /\ From' = From /\ Past' = Past
      /\ \A l \in Lanes : OutOf(l)' = OutOf(l)
      /\ CallerInv' /\ RunInv' /\ ReleasedIsDurable'
  BY GuardFrame
<1>2. Types'
  BY <1>0, <1>1 DEF Types
<1>3. OrderInv'
  BY <1>1 DEF OrderInv
<1>4. AckInv'
  BY <1>1 DEF AckInv
<1>5. CommittedIsOnTheWay'
  BY <1>1 DEF IndInv, CommittedIsOnTheWay, OnTheWay
<1> QED BY <1>1, <1>2, <1>3, <1>4, <1>5 DEF IndInv

LEMMA GuardInv ==
    ASSUME IndInv, GuardStep
    PROVE  IndInv'
<1>0. /\ Types /\ DeferInv /\ published \in Seq(Evs) /\ deferred \in DeferredType(Evs)
      /\ guard \in GuardType(Evs) /\ guard.out \in Seq(Evs) /\ deferred.events \in Seq(Evs)
      /\ guard.lost \subseteq Evs /\ deferred.on \in BOOLEAN
  BY TypeFacts DEF IndInv, Types
<1>1. \A l \in Lanes :
        OrderOK(log, Dur, published, guard.out, deferred.events, OutOf(l), lane[l].step = "deliver")
  BY DEF IndInv, OrderInv
<1>2. AckOK(acked \cap Dur, From, guard.lost, published, guard.out, deferred.events, Past)
  BY DEF IndInv, AckInv
<1>3. published \in Seq(Nat) /\ guard.out \in Seq(Nat)
  BY <1>0, TypeFacts, SeqMonotonic
<1>4. ElementsOf(<< >>) = {}
  BY NoElements
<1>5. CASE defer_publication
  <2>1. /\ ~deferred.on /\ guard.st = "none" /\ deferred' = [on |-> TRUE, events |-> << >>]
        /\ guard' = [guard EXCEPT !.st = "open", !.used = guard.used + 1] /\ published' = published
    BY <1>5 DEF defer_publication
  <2>2. /\ guard' \in GuardType(Evs) /\ guard'.st = "open" /\ guard'.out = guard.out
        /\ guard'.lost = guard.lost
    <3> DEFINE u == guard.used + 1
    <3>1. u \in Nat /\ guard' = [guard EXCEPT !.st = "open", !.used = u]
      BY <1>0, <2>1 DEF GuardType
    <3> HIDE DEF u
    <3> QED BY <1>0, <3>1 DEF GuardType
  <2>3. /\ deferred' \in DeferredType(Evs) /\ deferred'.on /\ deferred'.events = << >>
        /\ deferred.events = << >>
    BY <1>0, <2>1 DEF DeferredType, DeferInv
  <2>4. DeferInv'
    BY <1>0, <2>1, <2>2, <2>3 DEF DeferInv
  <2> QED BY <1>0, <1>1, <1>2, <1>4, <2>1, <2>2, <2>3, <2>4, GuardMoves
<1>6. CASE guard_commit
  <2>1. /\ guard.st = "open" /\ deferred' = deferred
        /\ guard' = [guard EXCEPT !.st = "take"] /\ published' = published
    BY <1>6 DEF guard_commit
  <2>2. /\ guard' \in GuardType(Evs) /\ guard'.st = "take" /\ guard'.out = guard.out
        /\ guard'.lost = guard.lost
    BY <1>0, <2>1 DEF GuardType
  <2>3. DeferInv'
    BY <1>0, <2>1, <2>2 DEF DeferInv
  <2> QED BY <1>0, <1>1, <1>2, <2>1, <2>2, <2>3, GuardMoves
<1>7. CASE commit_deferred_take /\ deferred.events = << >>
  <2>1. /\ guard.st = "take" /\ deferred' = [on |-> FALSE, events |-> << >>]
        /\ guard' = [guard EXCEPT !.st = "none"] /\ published' = published
    BY <1>7 DEF commit_deferred_take
  <2>2. /\ guard' \in GuardType(Evs) /\ guard'.st = "none" /\ guard'.out = guard.out
        /\ guard'.lost = guard.lost
    BY <1>0, <2>1 DEF GuardType
  <2>3. deferred' \in DeferredType(Evs) /\ ~deferred'.on /\ deferred'.events = << >>
    BY <1>0, <2>1 DEF DeferredType
  <2>4. DeferInv'
    BY <1>0, <2>1, <2>2, <2>3 DEF DeferInv
  <2> QED BY <1>0, <1>1, <1>2, <1>4, <1>7, <2>1, <2>2, <2>3, <2>4, GuardMoves
<1>8. CASE commit_deferred_take /\ deferred.events # << >>
  <2>1. /\ guard.st = "take" /\ deferred' = [on |-> TRUE, events |-> << >>]
        /\ guard' = [guard EXCEPT !.st = "publish", !.out = deferred.events] /\ published' = published
    BY <1>8 DEF commit_deferred_take, EntryAfterTake
  <2>2. /\ guard' \in GuardType(Evs) /\ guard'.st = "publish" /\ guard'.out = deferred.events
        /\ guard'.lost = guard.lost
    BY <1>0, <2>1 DEF GuardType
  <2>3. deferred' \in DeferredType(Evs) /\ deferred'.on /\ deferred'.events = << >>
    BY <1>0, <2>1 DEF DeferredType
  <2>4. guard.out = << >>
    BY <1>0, <2>1 DEF DeferInv
  <2>5. DeferInv'
    BY <1>8, <2>2, <2>3 DEF DeferInv
  <2>6. \A l \in Lanes :
          OrderOK(log, Dur, published', guard'.out, deferred'.events, OutOf(l), lane[l].step = "deliver")
    BY <1>1, <2>1, <2>2, <2>3, <2>4, OrderGuardTakes
  <2>7. AckOK(acked \cap Dur, From, guard'.lost, published', guard'.out, deferred'.events, Past)
    BY <1>2, <2>1, <2>2, <2>3, <2>4, AckGuardTakes
  <2> QED BY <1>0, <1>4, <2>1, <2>2, <2>3, <2>4, <2>5, <2>6, <2>7, GuardMoves
<1>9. CASE commit_deferred_publish
  <2> DEFINE x == guard.out[1]
             t == Tail(guard.out)
             p == Append(published, x)
  <2>1. /\ guard.st = "publish" /\ published' = p /\ deferred' = deferred
        /\ guard' = [guard EXCEPT !.out = t, !.st = IF Len(guard.out) = 1 THEN "take" ELSE "publish"]
    BY <1>9 DEF commit_deferred_publish, AfterRound
  <2>2. guard.out # << >>
    BY <1>0, <2>1 DEF DeferInv
  <2>3. /\ t \in Seq(Evs) /\ x \in Evs /\ Len(guard.out) \in Nat /\ Len(guard.out) >= 1
        /\ Len(t) = Len(guard.out) - 1 /\ ElementsOf(guard.out) = {x} \cup ElementsOf(t)
    BY <1>0, <2>2, TailElements
  <2>4. p \in Seq(Evs) /\ ElementsOf(p) = ElementsOf(published) \cup {x}
    BY <1>0, <2>3, AppendElements
  <2>5. \A l \in Lanes :
          OrderOK(log, Dur, p, t, deferred.events, OutOf(l), lane[l].step = "deliver")
    BY <1>1, <1>3, <2>2, OrderGuardPublishes
  <2>6. AckOK(acked \cap Dur, From, guard.lost, p, t, deferred.events, Past)
    BY <1>2, <1>3, <2>2, AckGuardPublishes
  <2> HIDE DEF x, t, p
  <2>7. t = << >> <=> Len(guard.out) = 1
    <3>1. t = << >> <=> Len(t) = 0
      BY <2>3, EmptySeq
    <3> QED BY <2>3, <3>1
  <2> DEFINE s == IF Len(guard.out) = 1 THEN "take" ELSE "publish"
  <2>8. s \in {"take", "publish"} /\ (s = "publish" <=> t # << >>)
    BY <2>7
  <2>9. guard' = [guard EXCEPT !.out = t, !.st = s]
    BY <2>1
  <2> HIDE DEF s
  <2>10. /\ guard' \in GuardType(Evs) /\ guard'.st = s /\ guard'.out = t /\ guard'.lost = guard.lost
    BY <1>0, <2>3, <2>8, <2>9 DEF GuardType
  <2>11. DeferInv'
    BY <1>0, <2>1, <2>8, <2>10 DEF DeferInv
  <2>12. guard'.st # "none"
    BY <2>8, <2>10
  <2> QED BY <1>0, <2>1, <2>3, <2>4, <2>5, <2>6, <2>10, <2>11, <2>12, GuardMoves
<1>10. CASE discard_deferred
  <2> DEFINE g == guard.lost \cup ElementsOf(deferred.events)
  <2>1. /\ guard.st = "open" /\ published' = published /\ deferred' = [on |-> FALSE, events |-> << >>]
        /\ guard' = [guard EXCEPT !.st = "none", !.lost = g]
    BY <1>10 DEF discard_deferred
  <2>2. g \subseteq Evs
    BY <1>0, ElementOfSeq DEF ElementsOf
  <2>3. AckOK(acked \cap Dur, From, g, published, guard.out, << >>, Past)
    BY <1>2, AckDiscards
  <2>4. \A l \in Lanes : OrderOK(log, Dur, published, guard.out, << >>, OutOf(l), lane[l].step = "deliver")
    BY <1>1, OrderDiscards
  <2>5. guard.lost \subseteq g /\ ElementsOf(deferred.events) \subseteq g
    OBVIOUS
  <2> HIDE DEF g
  <2>6. /\ guard' \in GuardType(Evs) /\ guard'.st = "none" /\ guard'.out = guard.out /\ guard'.lost = g
    BY <1>0, <2>1, <2>2 DEF GuardType
  <2>7. deferred' \in DeferredType(Evs) /\ ~deferred'.on /\ deferred'.events = << >>
    BY <1>0, <2>1 DEF DeferredType
  <2>8. DeferInv'
    BY <1>0, <2>1, <2>6, <2>7 DEF DeferInv
  <2> QED BY <1>0, <2>1, <2>3, <2>4, <2>5, <2>6, <2>7, <2>8, GuardMoves
<1> QED BY <1>5, <1>6, <1>7, <1>8, <1>9, <1>10 DEF GuardStep

-----------------------------------------------------------------------------
(* run_lane: what it takes and what it has to publish. *)

EvsOf(o) == [i \in 1..Len(o) |-> o[i].ev]

LEMMA EvsOfFacts ==
    ASSUME NEW E, NEW o \in Seq(OutType(E))
    PROVE  /\ EvsOf(o) \in Seq(E) /\ Len(EvsOf(o)) = Len(o)
           /\ \A i \in 1..Len(o) : EvsOf(o)[i] = o[i].ev
           /\ o = << >> => EvsOf(o) = << >>
           /\ o # << >> => /\ EvsOf(o) # << >> /\ EvsOf(o)[1] = o[1].ev
                           /\ EvsOf(Tail(o)) = Tail(EvsOf(o)) /\ Tail(o) \in Seq(OutType(E))
<1>1. Len(o) \in Nat /\ \A i \in 1..Len(o) : o[i] \in OutType(E)
  BY LenProperties, ElementOfSeq
<1>2. \A i \in 1..Len(o) : o[i].ev \in E
  BY <1>1 DEF OutType
<1>3. EvsOf(o) \in Seq(E) /\ Len(EvsOf(o)) = Len(o) /\ \A i \in 1..Len(o) : EvsOf(o)[i] = o[i].ev
  BY <1>1, <1>2 DEF EvsOf
<1>4. o = << >> <=> EvsOf(o) = << >>
  BY <1>1, <1>3, EmptySeq
<1>5. ASSUME o # << >>
      PROVE  /\ EvsOf(o)[1] = o[1].ev /\ EvsOf(Tail(o)) = Tail(EvsOf(o))
             /\ Tail(o) \in Seq(OutType(E))
  <2> DEFINE t == Tail(o)
             v == EvsOf(o)
             w == Tail(v)
  <2>1. Len(o) >= 1
    BY <1>1, <1>5, EmptySeq
  <2>2. /\ t \in Seq(OutType(E)) /\ Len(t) = Len(o) - 1 /\ \A i \in 1..Len(t) : t[i] = o[i + 1]
    BY <1>5, HeadTailProperties
  <2>3. /\ w \in Seq(E) /\ Len(w) = Len(v) - 1 /\ \A i \in 1..Len(w) : w[i] = v[i + 1]
    <3> HIDE DEF v
    <3>1. v \in Seq(E) /\ v # << >>
      BY <1>3, <1>4, <1>5 DEF v
    <3> QED BY <3>1, HeadTailProperties
  <2>4. v \in Seq(E) /\ Len(v) = Len(o) /\ \A i \in 1..Len(o) : v[i] = o[i].ev
    BY <1>3
  <2> HIDE DEF t, v, w
  <2>5. \A i \in 1..Len(t) : t[i].ev = w[i] /\ w[i] \in E
    <3> TAKE i \in 1..Len(t)
    <3>1. i \in 1..Len(w) /\ i + 1 \in 1..Len(o)
      BY <1>1, <2>2, <2>3, <2>4
    <3> QED BY <2>2, <2>3, <2>4, <3>1, ElementOfSeq
  <2>6. /\ EvsOf(t) \in Seq(E) /\ Len(EvsOf(t)) = Len(t)
        /\ \A i \in 1..Len(t) : EvsOf(t)[i] = w[i]
    <3>1. Len(t) \in Nat
      BY <2>2, LenProperties
    <3> QED BY <2>5, <3>1 DEF EvsOf
  <2>7. Len(t) = Len(w)
    BY <2>2, <2>3, <2>4
  <2>8. EvsOf(t) = w
    BY <2>3, <2>6, <2>7, SeqEqual
  <2>9. v[1] = o[1].ev
    BY <1>1, <2>1, <2>4
  <2> QED BY <2>2, <2>8, <2>9 DEF t, v, w
<1> QED BY <1>3, <1>4, <1>5

\* The commands that wait in front of the lane.
LEMMA WaitingFacts ==
    ASSUME Types, NEW l \in Lanes, CanReceive(l)
    PROVE  /\ Waiting(l) \in Seq(Cmds) /\ Len(Waiting(l)) \in Nat /\ Len(Waiting(l)) >= 1
           /\ \A i \in 1..Len(Waiting(l)) : Waiting(l)[i] \in Cmds
           /\ lane[l].phase = "running" /\ lane[l].step = "recv"
<1>1. Waiting(l) \in Seq(Cmds)
  <2>1. lane[l].queue \in Seq(Cmds) /\ lane[l].pending \in Seq(Cmds)
    BY TypeFacts
  <2> QED BY <2>1, ConcatProperties DEF Waiting
<1>2. Waiting(l) # << >> /\ lane[l].phase = "running" /\ lane[l].step = "recv"
  BY DEF CanReceive
<1> HIDE DEF Waiting
<1> QED BY <1>1, <1>2, LenProperties, EmptySeq, ElementOfSeq

\* The lane k after it took some commands: the rest in r and q.
Taken(k, r, q, o) ==
    [k EXCEPT !.pending = r, !.queue = q, !.out = o,
              !.step = IF o = << >> THEN "recv" ELSE "route"]

LEMMA TakenFacts ==
    ASSUME NEW C, NEW O, NEW k \in LaneType(C, O), NEW r \in Seq(C), NEW q \in Seq(C),
           NEW o \in Seq(O), NEW m, m = Taken(k, r, q, o)
    PROVE  /\ m \in LaneType(C, O) /\ m.phase = k.phase /\ m.receiving = k.receiving /\ m.out = o
           /\ m.step = "recv" <=> o = << >>
           /\ m.step # "deliver"
<1> DEFINE s == IF o = << >> THEN "recv" ELSE "route"
<1>1. s \in {"recv", "route", "deliver"} /\ (s = "recv" <=> o = << >>) /\ s # "deliver"
  OBVIOUS
<1>2. m = [k EXCEPT !.pending = r, !.queue = q, !.out = o, !.step = s]
  BY DEF Taken
<1> HIDE DEF s
<1>3. m \in LaneType(C, O) /\ m.phase = k.phase /\ m.receiving = k.receiving /\ m.out = o /\ m.step = s
  BY <1>2, <1>1 DEF LaneType
<1> QED BY <1>1, <1>3

\* A lane that received: what it took is out, and the commands it left are commands.
Received(l, m, o) ==
    /\ m \in LaneType(Cmds, OutType(Evs)) /\ m.phase = "running"
    /\ m.receiving = lane[l].receiving /\ m.out = o
    /\ m.step = "recv" <=> o = << >>
    /\ m.step # "deliver"

LEMMA TakingFacts ==
    ASSUME Types, NEW l \in Lanes, CanReceive(l), NEW o \in Seq(OutType(Evs))
    PROVE  Received(l, AfterTaking(l, 1, o), o)
<1>1. /\ Waiting(l) \in Seq(Cmds) /\ Len(Waiting(l)) \in Nat /\ Len(Waiting(l)) >= 1
      /\ \A i \in 1..Len(Waiting(l)) : Waiting(l)[i] \in Cmds
      /\ lane[l].phase = "running" /\ lane[l] \in LaneType(Cmds, OutType(Evs))
  BY WaitingFacts, TypeFacts
<1> DEFINE q == SubSeq(Waiting(l), 1 + 1, Len(Waiting(l)))
           r == << >>
<1>2. q \in Seq(Cmds) /\ r \in Seq(Cmds)
  <2>1. \A i \in (1 + 1)..Len(Waiting(l)) : Waiting(l)[i] \in Cmds
    BY <1>1
  <2> HIDE DEF Waiting
  <2> QED BY <1>1, <2>1, SubSeqProperties
<1> DEFINE m == AfterTaking(l, 1, o)
<1>3. m = Taken(lane[l], r, q, o)
  BY DEF AfterTaking, Taken
<1> HIDE DEF q, r, m
<1>4. /\ m \in LaneType(Cmds, OutType(Evs)) /\ m.phase = lane[l].phase
      /\ m.receiving = lane[l].receiving /\ m.out = o
      /\ m.step = "recv" <=> o = << >>
      /\ m.step # "deliver"
  BY <1>1, <1>2, <1>3, TakenFacts
<1> QED BY <1>1, <1>4 DEF Received, m

\* A non-empty set of naturals has a least member.
LEMMA LeastMember ==
    ASSUME NEW T, T \subseteq Nat, T # {}
    PROVE  \E n \in T : \A m \in T : n <= m
<1> DEFINE R == {p \in Nat \X Nat : p[1] < p[2]}
<1>1. IsWellFoundedOn(R, Nat)
  BY NatLessThanWellFounded DEF OpToRel
<1>2. \A x, y \in Nat : y < x => <<y, x>> \in R
  OBVIOUS
<1> HIDE DEF R
<1>3. \E x \in T : \A y \in T : <<y, x>> \notin R
  BY <1>1, WFMin
<1>4. \E x \in T : \A y \in T : ~(y < x)
  BY <1>2, <1>3, Zenon
<1> QED BY <1>4

\* The batch: as long as the commands are of one kind, and at most MaxBatch.
LEMMA BatchSizeFacts ==
    ASSUME Types, NEW l \in Lanes, CanReceive(l)
    PROVE  /\ BatchSize(l) \in 1..Len(Waiting(l))
           /\ \A i \in 1..BatchSize(l) : Waiting(l)[i].op = Waiting(l)[1].op
<1> DEFINE w == Waiting(l)
           T == {n \in 1..Len(w) : n = MaxBatch \/ n = Len(w) \/ w[n + 1].op # w[1].op}
           Fits(n) == /\ n <= Len(w)
                      /\ \A i \in 1..n : w[i].op = w[1].op
                      /\ n = MaxBatch \/ n = Len(w) \/ w[n + 1].op # w[1].op
<1>1. Len(w) \in Nat /\ Len(w) >= 1 /\ MaxBatch \in Nat /\ MaxBatch >= 1
  BY WaitingFacts, BoundsAssumption
<1>2. BatchSize(l) = CHOOSE n \in 1..MaxBatch : Fits(n)
  BY DEF BatchSize
<1> HIDE DEF w
<1>3. T \subseteq Nat /\ Len(w) \in T
  BY <1>1
<1>4. PICK n \in T : \A k \in T : n <= k
  <2> HIDE DEF T
  <2> QED BY <1>3, LeastMember
<1>5. n \in 1..MaxBatch
  <2>1. n \in 1..Len(w)
    OBVIOUS
  <2>2. n > MaxBatch => MaxBatch \in T
    BY <1>1, <2>1
  <2>3. n > MaxBatch => n <= MaxBatch
    BY <1>4, <2>2
  <2> QED BY <1>1, <2>1, <2>3
<1>6. \A i \in 1..n : w[i].op = w[1].op
  <2> SUFFICES ASSUME NEW i \in 1..n, i # 1 PROVE w[i].op = w[1].op
    OBVIOUS
  <2>1. n \in 1..Len(w) /\ n \in Nat
    BY <1>1
  <2>2. i - 1 \in 1..Len(w) /\ ~(n <= i - 1) /\ (i - 1) + 1 = i
    BY <1>1, <2>1
  <2>3. i - 1 \notin T
    BY <1>4, <2>2
  <2>4. w[(i - 1) + 1].op = w[1].op
    BY <2>2, <2>3
  <2> QED BY <2>2, <2>4
<1>7. Fits(n)
  BY <1>1, <1>6
<1> HIDE DEF Fits
<1>8. Fits(BatchSize(l)) /\ BatchSize(l) \in 1..MaxBatch
  BY <1>2, <1>5, <1>7, Zenon
<1> QED BY <1>1, <1>8 DEF Fits, w

LEMMA AfterBatchFacts ==
    ASSUME Types, NEW l \in Lanes, CanReceive(l), NEW o \in Seq(OutType(Evs)),
           NEW n \in 1..Len(Waiting(l))
    PROVE  Received(l, AfterBatch(l, n, o), o)
<1>1. /\ Waiting(l) \in Seq(Cmds) /\ Len(Waiting(l)) \in Nat /\ Len(Waiting(l)) >= 1
      /\ \A i \in 1..Len(Waiting(l)) : Waiting(l)[i] \in Cmds
      /\ lane[l].phase = "running" /\ lane[l] \in LaneType(Cmds, OutType(Evs))
  BY WaitingFacts, TypeFacts
<1> DEFINE found == n < MaxBatch /\ n < Len(Waiting(l))
           rest  == SubSeq(Waiting(l), n + 1, Len(Waiting(l)))
           aside == IF found /\ rest # << >> THEN 1 ELSE 0
           r == SubSeq(rest, 1, aside)
           q == SubSeq(rest, aside + 1, Len(rest))
           m == AfterBatch(l, n, o)
<1>2. rest \in Seq(Cmds)
  <2>1. \A i \in (n + 1)..Len(Waiting(l)) : Waiting(l)[i] \in Cmds
    BY <1>1
  <2> HIDE DEF Waiting
  <2> QED BY <1>1, <2>1, SubSeqProperties
<1>3. m = Taken(lane[l], r, q, o)
  BY DEF AfterBatch, PutAside, Taken
<1> HIDE DEF rest, found, m
<1>4. Len(rest) \in Nat /\ (rest # << >> => Len(rest) >= 1) /\ \A i \in 1..Len(rest) : rest[i] \in Cmds
  BY <1>2, LenProperties, EmptySeq, ElementOfSeq
<1>5. aside \in Nat /\ aside <= Len(rest)
  BY <1>4
<1> HIDE DEF aside
<1>6. /\ \A i \in 1..aside : rest[i] \in Cmds
      /\ \A i \in (aside + 1)..Len(rest) : rest[i] \in Cmds
  BY <1>4, <1>5
<1>7. r \in Seq(Cmds)
  BY <1>5, <1>6, SubSeqProperties
<1>8. q \in Seq(Cmds)
  BY <1>4, <1>5, <1>6, SubSeqProperties
<1> HIDE DEF r, q
<1>9. /\ m \in LaneType(Cmds, OutType(Evs)) /\ m.phase = lane[l].phase
      /\ m.receiving = lane[l].receiving /\ m.out = o
      /\ m.step = "recv" <=> o = << >>
      /\ m.step # "deliver"
  BY <1>1, <1>3, <1>7, <1>8, TakenFacts
<1> QED BY <1>1, <1>9 DEF Received, m

\* What is published of the commands in s.
LEMMA PublishingFacts ==
    ASSUME Types, NEW s \in Seq(Cmds), \A i \in 1..Len(s) : s[i].op \in DurableOps \cup {"live"}
    PROVE  /\ Publishing(s) \in Seq(OutType(Evs)) /\ Len(Publishing(s)) = Len(s)
           /\ EvsOf(Publishing(s)) = [i \in 1..Len(s) |-> s[i].ev]
           /\ [i \in 1..Len(s) |-> s[i].ev] \in Seq(Evs)
<1> DEFINE p == Publishing(s)
<1>1. Len(s) \in Nat /\ \A i \in 1..Len(s) : s[i] \in Cmds
  BY LenProperties, ElementOfSeq
<1>2. \A i \in 1..Len(s) : s[i].ev \in Evs /\ s[i].from \in Repliers
  BY <1>1 DEF Cmds, CmdType
<1>3. \A i \in 1..Len(s) : [ev |-> s[i].ev, from |-> s[i].from] \in OutType(Evs)
  BY <1>2 DEF OutType
<1>4. p = [i \in 1..Len(s) |-> [ev |-> s[i].ev, from |-> s[i].from]]
  BY DEF Publishing
<1> HIDE DEF p
<1>5. p \in Seq(OutType(Evs)) /\ Len(p) = Len(s)
  BY <1>1, <1>3, <1>4
<1>6. \A i \in 1..Len(s) : p[i].ev = s[i].ev
  BY <1>4
<1>7. EvsOf(p) = [i \in 1..Len(s) |-> s[i].ev]
  BY <1>5, <1>6 DEF EvsOf
<1>8. [i \in 1..Len(s) |-> s[i].ev] \in Seq(Evs)
  BY <1>1, <1>2
<1> QED BY <1>5, <1>7, <1>8 DEF p

-----------------------------------------------------------------------------
(* run_lane: the steps. *)

\* A lane step that leaves the lane m running, given what it makes of the events.
LEMMA LaneMoves ==
    ASSUME IndInv, NEW l \in Lanes, NEW m \in LaneType(Cmds, OutType(Evs)),
           lane[l].phase = "running", m.phase = "running", m.step = "recv" <=> m.out = << >>,
           lane' = [lane EXCEPT ![l] = m], UNCHANGED <<state, guard, manager, sink, issued>>,
           log' \in Seq(Evs), durable' \in Nat, doubt' \in DoubtType(Evs),
           published' \in Seq(Evs), deferred' \in DeferredType(Evs), acked' \subseteq Evs,
           caller' \in [Callers -> CallerType(Cmds)],
           \A c \in Callers : caller'[c] \in {Idle, caller[c]},
           deferred'.on = deferred.on, ~deferred.on => deferred'.events = << >>,
           OrderOK(log', Dur, published', guard.out, deferred'.events, EvsOf(m.out), m.step = "deliver"),
           AckOK(acked' \cap Dur, From, guard.lost, published', guard.out, deferred'.events,
                 Past \cup (IF m.step = "deliver" THEN {m.out[1].ev} ELSE {})),
           ElementsOf(log') \subseteq ElementsOf(log) \cup ElementsOf(EvsOf(m.out)),
           ElementsOf(published) \cup ElementsOf(deferred.events) \cup ElementsOf(OutOf(l))
               \subseteq ElementsOf(published') \cup ElementsOf(deferred'.events)
                         \cup ElementsOf(EvsOf(m.out))
    PROVE  IndInv'
<1>0. Types /\ RunInv /\ DeferInv
  BY DEF IndInv
<1>1. /\ closed' = closed /\ inactive' = inactive /\ current' = current /\ guard' = guard
      /\ manager' = manager /\ sink' = sink /\ issued' = issued
  BY DEF state
<1>2. Evs' = Evs /\ Cmds' = Cmds /\ Dur' = Dur /\ From' = From
  BY <1>1, IssuedSame
<1>3. /\ lane' \in [Lanes -> LaneType(Cmds, OutType(Evs))] /\ lane'[l] = m
      /\ \A k \in Lanes : k # l => lane'[k] = lane[k]
  BY <1>0, SetLane
<1>4. /\ ~(manager.st = "released" /\ ~closed)
      /\ \A k \in Lanes : k # l =>
           lane[k].phase # "running" /\ lane[k].out = << >> /\ lane[k].step = "recv"
  BY <1>0, OneLane
<1>5. Types'
  BY <1>0, <1>1, <1>2, <1>3 DEF Types
<1>6. RunInv'
  <2>1. \A k \in Lanes : lane'[k].phase = "running" => lane[k].phase = "running"
    BY <1>3
  <2>2. \A k \in Lanes : /\ lane'[k].step = "recv" <=> lane'[k].out = << >>
                         /\ lane'[k].step # "recv" => lane'[k].phase = "running"
    BY <1>0, <1>3 DEF RunInv
  <2> QED BY <1>0, <1>1, <2>1, <2>2 DEF RunInv
<1>7. ReleasedIsDurable'
  BY <1>1, <1>4 DEF ReleasedIsDurable
<1>8. CallerInv'
  BY <1>1, AnsweredCallers
<1>9. DeferInv'
  BY <1>0, <1>1 DEF DeferInv
<1>10. OutOf(l)' = EvsOf(m.out)
  BY <1>3 DEF OutOf, EvsOf
<1>11. OrderInv'
  <2> SUFFICES ASSUME NEW k \in Lanes
               PROVE  OrderOK(log', Dur, published', guard.out, deferred'.events, OutOf(k)', lane'[k].step = "deliver")
    BY <1>1, <1>2 DEF OrderInv
  <2>1. CASE k = l
    BY <1>3, <1>10, <2>1
  <2>2. CASE k # l
    <3>1. lane'[k] = lane[k] /\ lane[k].out = << >> /\ lane[k].step = "recv"
      BY <1>3, <1>4, <2>2
    <3>2. OutOf(k)' = OutOf(k)
      BY <3>1 DEF OutOf
    <3>3. OutOf(k) = << >>
      BY <1>0, <3>1, OutFacts
    <3>4. OrderOK(log', Dur, published', guard.out, deferred'.events, << >>, FALSE)
      BY OrderNoLane
    <3>5. (lane'[k].step = "deliver") = FALSE
      BY <3>1
    <3> QED BY <3>2, <3>3, <3>4, <3>5
  <2> QED BY <2>1, <2>2
<1>12. AckInv'
  <2>1. Past' \subseteq Past \cup (IF m.step = "deliver" THEN {m.out[1].ev} ELSE {})
    <3>1. \A c \in Callers : caller'[c].st = "live_deliver" => caller'[c] = caller[c]
      BY DEF Idle
    <3>2. \A k \in Lanes : lane'[k].step = "deliver" => k = l /\ lane'[k] = m
      BY <1>3, <1>4
    <3> QED BY <3>1, <3>2 DEF Past
  <2>2. AckOK(acked' \cap Dur, From, guard.lost, published', guard.out, deferred'.events, Past')
    BY <2>1, AckFewerPast
  <2> QED BY <1>1, <1>2, <2>2 DEF AckInv
<1>13. CommittedIsOnTheWay'
  <2>1. \A k \in Lanes : k # l => lane[k].out = << >>
    BY <1>4
  <2>2. ASSUME NEW e \in ElementsOf(log)
        PROVE  e \in ElementsOf(published) \cup ElementsOf(guard.out) \cup guard.lost
                     \cup ElementsOf(deferred.events) \cup ElementsOf(OutOf(l))
    <3>1. e \in OnTheWay
      BY <2>2 DEF IndInv, CommittedIsOnTheWay
    <3>2. ASSUME NEW k \in Lanes, NEW i \in 1..Len(lane[k].out), e = lane[k].out[i].ev
          PROVE  e \in ElementsOf(OutOf(l))
      <4>1. k = l
        BY <2>1, <3>2, NoElements
      <4>2. OutOf(l)[i] = e /\ i \in 1..Len(OutOf(l))
        BY <1>0, <3>2, <4>1, OutFacts
      <4> QED BY <4>2 DEF ElementsOf
    <3> QED BY <3>1, <3>2 DEF OnTheWay
  <2>3. ElementsOf(log') \subseteq ElementsOf(published') \cup ElementsOf(guard.out) \cup guard.lost
                     \cup ElementsOf(deferred'.events) \cup ElementsOf(EvsOf(m.out))
    BY <2>2
  <2>4. ElementsOf(EvsOf(m.out)) \subseteq {lane'[l].out[i].ev : i \in 1..Len(lane'[l].out)}
    <3>1. m.out \in Seq(OutType(Evs))
      BY DEF LaneType
    <3>2. Len(EvsOf(m.out)) = Len(m.out) /\ \A i \in 1..Len(m.out) : EvsOf(m.out)[i] = m.out[i].ev
      BY <3>1, EvsOfFacts
    <3> DEFINE v == EvsOf(m.out)
    <3>3. Len(v) = Len(m.out) /\ (\A i \in 1..Len(m.out) : v[i] = m.out[i].ev) /\ lane'[l].out = m.out
      BY <1>3, <3>2
    <3> HIDE DEF v
    <3> DEFINE q == m.out
    <3>5. Len(v) = Len(q) /\ (\A i \in 1..Len(q) : v[i] = q[i].ev)
      BY <3>3
    <3>4. ElementsOf(v) \subseteq {m.out[i].ev : i \in 1..Len(m.out)}
      <4> HIDE DEF q
      <4>1. \A i \in 1..Len(v) : v[i] \in {q[j].ev : j \in 1..Len(q)}
        BY <3>5
      <4>2. ElementsOf(v) \subseteq {q[j].ev : j \in 1..Len(q)}
        BY <4>1 DEF ElementsOf
      <4> QED BY <4>2 DEF q
    <3> QED BY <3>3, <3>4 DEF v
  <2>5. guard.st = "none" => ElementsOf(deferred'.events) = {}
    BY <1>0, NoElements DEF DeferInv
  <2>6. ElementsOf(deferred'.events) \subseteq (IF guard.st = "none" THEN {} ELSE ElementsOf(deferred'.events))
    BY <2>5
  <2>7. {lane'[l].out[i].ev : i \in 1..Len(lane'[l].out)}
          \subseteq UNION {{lane'[k].out[i].ev : i \in 1..Len(lane'[k].out)} : k \in Lanes}
    OBVIOUS
  <2> QED BY <1>1, <2>3, <2>4, <2>6, <2>7 DEF CommittedIsOnTheWay, OnTheWay
<1> QED BY <1>5, <1>6, <1>7, <1>8, <1>9, <1>11, <1>12, <1>13 DEF IndInv

\* A lane that received, given what the journal made of it.
LEMMA ReceiveInv ==
    ASSUME IndInv, NEW l \in Lanes, CanReceive(l), NEW m, NEW o, Received(l, m, o),
           lane' = [lane EXCEPT ![l] = m],
           UNCHANGED <<state, deferred, guard, manager, sink, published, issued, acked>>,
           log' \in Seq(Evs), durable' \in Nat, doubt' \in DoubtType(Evs),
           caller' \in [Callers -> CallerType(Cmds)],
           \A c \in Callers : caller'[c] \in {Idle, caller[c]},
           OrderOK(log', Dur, published, guard.out, deferred.events, EvsOf(o), FALSE),
           ElementsOf(log') \subseteq ElementsOf(log) \cup ElementsOf(EvsOf(o))
    PROVE  IndInv'
<1>0. Types /\ RunInv /\ DeferInv
  BY DEF IndInv
<1>1. /\ m \in LaneType(Cmds, OutType(Evs)) /\ m.phase = "running" /\ m.out = o
      /\ m.step = "recv" <=> m.out = << >>
      /\ m.step # "deliver" /\ lane[l].phase = "running" /\ lane[l].step = "recv"
  BY DEF Received, CanReceive
<1>2. lane[l].out = << >> /\ ElementsOf(OutOf(l)) = {}
  <2>1. lane[l].out = << >>
    BY <1>0, <1>1 DEF RunInv
  <2> QED BY <1>0, <2>1, OutFacts, NoElements
<1>3. /\ published' \in Seq(Evs) /\ deferred' \in DeferredType(Evs) /\ acked' \subseteq Evs
      /\ published' = published /\ deferred' = deferred /\ acked' = acked
      /\ ~deferred.on => deferred'.events = << >>
  BY <1>0 DEF Types, DeferInv
<1>4. UNCHANGED <<state, guard, manager, sink, issued>>
  OBVIOUS
<1>5. (m.step = "deliver") = FALSE
  BY <1>1
<1>6. OrderOK(log', Dur, published', guard.out, deferred'.events, EvsOf(m.out), m.step = "deliver")
  BY <1>1, <1>3, <1>5
<1>7. AckOK(acked' \cap Dur, From, guard.lost, published', guard.out, deferred'.events,
            Past \cup (IF m.step = "deliver" THEN {m.out[1].ev} ELSE {}))
  <2>1. Past \cup (IF m.step = "deliver" THEN {m.out[1].ev} ELSE {}) = Past
    BY <1>1
  <2>2. AckOK(acked \cap Dur, From, guard.lost, published, guard.out, deferred.events, Past)
    BY DEF IndInv, AckInv
  <2> QED BY <1>3, <2>1, <2>2
<1>8. ElementsOf(log') \subseteq ElementsOf(log) \cup ElementsOf(EvsOf(m.out))
  BY <1>1
<1>9. ElementsOf(published) \cup ElementsOf(deferred.events) \cup ElementsOf(OutOf(l))
        \subseteq ElementsOf(published') \cup ElementsOf(deferred'.events) \cup ElementsOf(EvsOf(m.out))
  BY <1>2, <1>3
<1> QED BY <1>1, <1>3, <1>4, <1>6, <1>7, <1>8, <1>9, LaneMoves

\* A lane that received and has nothing to publish: the log is as it was.
LEMMA NothingReceived ==
    ASSUME IndInv, NEW l \in Lanes, CanReceive(l), NEW m, Received(l, m, << >>),
           lane' = [lane EXCEPT ![l] = m],
           UNCHANGED <<state, log, deferred, guard, manager, sink, published, issued, acked>>,
           durable' \in Nat, doubt' \in DoubtType(Evs),
           caller' \in [Callers -> CallerType(Cmds)],
           \A c \in Callers : caller'[c] \in {Idle, caller[c]}
    PROVE  IndInv'
<1>1. log' = log /\ log \in Seq(Evs)
  BY DEF IndInv, Types
<1>2. EvsOf(<< >>) = << >>
  BY DEF EvsOf
<1>3. OrderOK(log, Dur, published, guard.out, deferred.events, << >>, FALSE)
  <2>1. OrderOK(log, Dur, published, guard.out, deferred.events, OutOf(l), lane[l].step = "deliver")
    BY DEF IndInv, OrderInv
  <2> QED BY <2>1, OrderNoLane
<1>4. UNCHANGED <<state, deferred, guard, manager, sink, published, issued, acked>>
  OBVIOUS
<1>5. /\ OrderOK(log', Dur, published, guard.out, deferred.events, EvsOf(<< >>), FALSE)
      /\ ElementsOf(log') \subseteq ElementsOf(log) \cup ElementsOf(EvsOf(<< >>)) /\ log' \in Seq(Evs)
  BY <1>1, <1>2, <1>3
<1> QED BY <1>4, <1>5, ReceiveInv

\* The journal takes the events M, and the lane is to publish them.
LEMMA CommitInv ==
    ASSUME IndInv, NEW l \in Lanes, CanReceive(l), NEW m, NEW o, Received(l, m, o),
           NEW M \in Seq(Evs), EvsOf(o) = M, log' = log \o M,
           lane' = [lane EXCEPT ![l] = m],
           UNCHANGED <<state, deferred, guard, manager, sink, published, issued, acked>>,
           durable' \in Nat, doubt' \in DoubtType(Evs),
           caller' \in [Callers -> CallerType(Cmds)],
           \A c \in Callers : caller'[c] \in {Idle, caller[c]}
    PROVE  IndInv'
<1>1. log \in Seq(Evs)
  BY DEF IndInv, Types
<1>2. log' \in Seq(Evs) /\ ElementsOf(log') = ElementsOf(log) \cup ElementsOf(M)
  BY <1>1, ConcatElements
<1>3. OrderOK(log, Dur, published, guard.out, deferred.events, OutOf(l), lane[l].step = "deliver")
  BY DEF IndInv, OrderInv
<1>4. OrderOK(log', Dur, published, guard.out, deferred.events, M, FALSE)
  <2> HIDE DEF OutOf
  <2> QED BY <1>1, <1>3, OrderCommits
<1>5. /\ OrderOK(log', Dur, published, guard.out, deferred.events, EvsOf(o), FALSE)
      /\ ElementsOf(log') \subseteq ElementsOf(log) \cup ElementsOf(EvsOf(o))
  BY <1>2, <1>4
<1> QED BY <1>2, <1>5, ReceiveInv

LEMMA SameCallers ==
    ASSUME IndInv, caller' = caller
    PROVE  /\ caller' \in [Callers -> CallerType(Cmds)]
           /\ \A c \in Callers : caller'[c] \in {Idle, caller[c]}
BY DEF IndInv, Types

LEMMA RecvCreateInv ==
    ASSUME IndInv, NEW l \in Lanes, recv_create(l)
    PROVE  IndInv'
<1> DEFINE x == Waiting(l)[1]
           s == <<x>>
           p == Publishing(s)
           n == << >>
<1>0. Types /\ CanReceive(l) /\ x.op = "create"
  BY DEF IndInv, recv_create, Receives
<1>1. x \in Cmds
  BY <1>0, WaitingFacts
<1>2. /\ UNCHANGED <<state, deferred, guard, manager, sink, published, issued, acked>>
      /\ doubt' = doubt /\ doubt' \in DoubtType(Evs) /\ log \in Seq(Evs) /\ durable \in Nat
  BY <1>0 DEF recv_create, Types
<1>3. \/ /\ log = << >> /\ log' = <<x.ev>> /\ durable' = 1
         /\ lane' = [lane EXCEPT ![l] = AfterTaking(l, 1, p)] /\ caller' = caller
      \/ /\ lane' = [lane EXCEPT ![l] = AfterTaking(l, 1, n)] /\ Reply(s)
         /\ log' = log /\ durable' = durable
  BY DEF recv_create
<1> HIDE DEF x
<1>4. s \in Seq(Cmds) /\ Len(s) = 1 /\ s[1] = x
  BY <1>1
<1>5. CASE /\ log = << >> /\ log' = <<x.ev>> /\ durable' = 1
           /\ lane' = [lane EXCEPT ![l] = AfterTaking(l, 1, p)] /\ caller' = caller
  <2> DEFINE M == [i \in 1..Len(s) |-> s[i].ev]
             m == AfterTaking(l, 1, p)
  <2>1. \A i \in 1..Len(s) : s[i].op \in DurableOps \cup {"live"}
    BY <1>0, <1>4 DEF DurableOps
  <2>2. p \in Seq(OutType(Evs)) /\ EvsOf(p) = M /\ M \in Seq(Evs)
    <3> HIDE DEF s
    <3> QED BY <1>0, <1>4, <2>1, PublishingFacts
  <2>3. M = <<x.ev>>
    BY <1>4
  <2> HIDE DEF p, s, M
  <2>4. log' = log \o M
    BY <1>5, <2>2, <2>3, ConcatEmptySeq
  <2>5. Received(l, m, p)
    BY <1>0, <2>2, TakingFacts
  <2> HIDE DEF m
  <2>6. lane' = [lane EXCEPT ![l] = m] /\ durable' \in Nat
    BY <1>5 DEF m
  <2> QED BY <1>0, <1>2, <1>5, <2>2, <2>4, <2>5, <2>6, SameCallers, CommitInv
<1>6. CASE /\ lane' = [lane EXCEPT ![l] = AfterTaking(l, 1, n)] /\ Reply(s)
           /\ log' = log /\ durable' = durable
  <2> DEFINE m == AfterTaking(l, 1, n)
  <2>1. n \in Seq(OutType(Evs))
    OBVIOUS
  <2>2. Received(l, m, n)
    <3> HIDE DEF n
    <3> QED BY <1>0, <2>1, TakingFacts
  <2> HIDE DEF m, s
  <2>3. lane' = [lane EXCEPT ![l] = m]
    BY <1>6 DEF m
  <2>4. UNCHANGED <<state, log, deferred, guard, manager, sink, published, issued, acked>>
    BY <1>2, <1>6
  <2>5. durable' \in Nat
    BY <1>2, <1>6
  <2> QED BY <1>0, <1>2, <1>6, <2>2, <2>3, <2>4, <2>5, ReplyFacts, NothingReceived
<1> QED BY <1>3, <1>5, <1>6

LEMMA RecvDurableInv ==
    ASSUME IndInv, NEW l \in Lanes, recv_durable(l)
    PROVE  IndInv'
<1> DEFINE k == BatchSize(l)
           s == SubSeq(Waiting(l), 1, k)
           M == [i \in 1..k |-> s[i].ev]
           p == Publishing(s)
           n == << >>
           d == [kind |-> "PendingProjection", batch |-> M, through |-> Len(log) + k]
<1>0. Types /\ CanReceive(l) /\ Waiting(l)[1].op \in {"append", "append_and_sync"}
  BY DEF IndInv, recv_durable, Receives
<1>1. /\ Len(Waiting(l)) \in Nat /\ \A i \in 1..Len(Waiting(l)) : Waiting(l)[i] \in Cmds
      /\ k \in 1..Len(Waiting(l)) /\ \A i \in 1..k : Waiting(l)[i].op = Waiting(l)[1].op
  BY <1>0, WaitingFacts, BatchSizeFacts
<1>2. /\ UNCHANGED <<state, deferred, guard, manager, sink, published, issued, acked>>
      /\ doubt \in DoubtType(Evs) /\ log \in Seq(Evs) /\ durable \in Nat /\ Len(log) \in Nat
  BY <1>0, TypeFacts DEF recv_durable, Types
<1>3. \/ /\ log' = log \o M /\ durable' \in {Len(log'), durable}
         /\ lane' = [lane EXCEPT ![l] = AfterBatch(l, k, p)] /\ doubt' = doubt /\ caller' = caller
      \/ /\ lane' = [lane EXCEPT ![l] = AfterBatch(l, k, n)] /\ Reply(s)
         /\ doubt' \in {doubt, d} /\ log' = log /\ durable' = durable
  BY DEF recv_durable, FailedBatch
<1>4. /\ s \in Seq(Cmds) /\ Len(s) = k /\ \A i \in 1..k : s[i] = Waiting(l)[i]
  <2> HIDE DEF Waiting, k
  <2>1. /\ k \in Nat /\ k >= 1 /\ \A i \in 1..k : Waiting(l)[i] \in Cmds
    BY <1>1
  <2>2. /\ s \in Seq(Cmds) /\ Len(s) = (IF 1 <= k THEN k - 1 + 1 ELSE 0)
        /\ \A i \in 1..(k - 1 + 1) : s[i] = Waiting(l)[1 + i - 1]
    BY <2>1, SubSeqProperties
  <2>3. k - 1 + 1 = k /\ \A i \in 1..k : 1 + i - 1 = i
    BY <2>1
  <2> QED BY <2>1, <2>2, <2>3
<1>5. \A i \in 1..Len(s) : s[i].op \in DurableOps \cup {"live"}
  <2> HIDE DEF s, k
  <2> QED BY <1>0, <1>1, <1>4 DEF DurableOps
<1>6. k \in Nat
  BY <1>1
<1> HIDE DEF k
<1>7. p \in Seq(OutType(Evs)) /\ EvsOf(p) = M /\ M \in Seq(Evs)
  <2> HIDE DEF s
  <2> QED BY <1>0, <1>4, <1>5, PublishingFacts
<1> HIDE DEF s, M, p
<1>8. CASE /\ log' = log \o M /\ durable' \in {Len(log'), durable}
           /\ lane' = [lane EXCEPT ![l] = AfterBatch(l, k, p)] /\ doubt' = doubt /\ caller' = caller
  <2> DEFINE m == AfterBatch(l, k, p)
  <2>1. Received(l, m, p)
    BY <1>0, <1>1, <1>7, AfterBatchFacts
  <2> HIDE DEF m
  <2>2. lane' = [lane EXCEPT ![l] = m] /\ doubt' \in DoubtType(Evs)
    BY <1>2, <1>8 DEF m
  <2>3. durable' \in Nat
    <3>1. log \o M \in Seq(Evs)
      BY <1>2, <1>7, ConcatElements
    <3>2. Len(log') \in Nat
      BY <1>8, <3>1, LenProperties
    <3> QED BY <1>2, <1>8, <3>2
  <2> QED BY <1>0, <1>2, <1>7, <1>8, <2>1, <2>2, <2>3, SameCallers, CommitInv
<1>9. CASE /\ lane' = [lane EXCEPT ![l] = AfterBatch(l, k, n)] /\ Reply(s)
           /\ doubt' \in {doubt, d} /\ log' = log /\ durable' = durable
  <2> DEFINE m == AfterBatch(l, k, n)
  <2>1. n \in Seq(OutType(Evs))
    OBVIOUS
  <2>2. Received(l, m, n)
    <3> HIDE DEF n
    <3> QED BY <1>0, <1>1, <2>1, AfterBatchFacts
  <2> HIDE DEF m
  <2>3. d \in DoubtType(Evs)
    BY <1>2, <1>6, <1>7 DEF DoubtType
  <2> HIDE DEF d
  <2>4. lane' = [lane EXCEPT ![l] = m] /\ doubt' \in DoubtType(Evs) /\ durable' \in Nat
    BY <1>2, <1>9, <2>3 DEF m
  <2>5. UNCHANGED <<state, log, deferred, guard, manager, sink, published, issued, acked>>
    BY <1>2, <1>9
  <2> QED BY <1>0, <1>9, <2>2, <2>4, <2>5, ReplyFacts, NothingReceived
<1> QED BY <1>3, <1>8, <1>9

LEMMA RecvLiveInv ==
    ASSUME IndInv, NEW l \in Lanes, recv_live(l)
    PROVE  IndInv'
<1> DEFINE x == Waiting(l)[1]
           s == <<x>>
           p == Publishing(s)
           m == AfterTaking(l, 1, p)
           M == [i \in 1..Len(s) |-> s[i].ev]
<1>0. Types /\ CanReceive(l) /\ x.op = "live"
  BY DEF IndInv, recv_live, Receives
<1>1. x \in Cmds
  BY <1>0, WaitingFacts
<1>2. x.ev \in Evs /\ x.ev \notin Dur /\ x.ev \in Nat
  BY <1>0, <1>1, TypeFacts DEF Cmds, Dur
<1>3. /\ UNCHANGED <<state, deferred, guard, manager, sink, published, issued, acked>>
      /\ caller' = caller /\ log' = log /\ log' \in Seq(Evs) /\ durable' \in Nat /\ doubt' \in DoubtType(Evs)
      /\ lane' = [lane EXCEPT ![l] = m]
  BY <1>0 DEF recv_live, Types, journal
<1> HIDE DEF x
<1>4. s \in Seq(Cmds) /\ Len(s) = 1 /\ s[1] = x
  BY <1>1
<1>5. \A i \in 1..Len(s) : s[i].op \in DurableOps \cup {"live"}
  BY <1>0, <1>4
<1>6. p \in Seq(OutType(Evs)) /\ EvsOf(p) = M
  <2> HIDE DEF s
  <2> QED BY <1>0, <1>4, <1>5, PublishingFacts
<1>7. M = <<x.ev>>
  BY <1>4
<1> HIDE DEF p, s, M
<1>8. Received(l, m, p)
  BY <1>0, <1>6, TakingFacts
<1> HIDE DEF m
<1>9. OrderOK(log, Dur, published, guard.out, deferred.events, <<x.ev>>, FALSE)
  <2>1. OrderOK(log, Dur, published, guard.out, deferred.events, OutOf(l), lane[l].step = "deliver")
    BY DEF IndInv, OrderInv
  <2>2. published \in Seq(Nat) /\ deferred.events \in Seq(Nat)
    BY <1>0, TypeFacts, SeqMonotonic
  <2> DEFINE y == x.ev
  <2> HIDE DEF y
  <2>3. y \in Nat /\ y \notin Dur
    BY <1>2 DEF y
  <2>4. OrderOK(log, Dur, published, guard.out, deferred.events, <<y>>, FALSE)
    BY <2>1, <2>2, <2>3, OrderLive
  <2> QED BY <2>4 DEF y
<1>10. /\ OrderOK(log', Dur, published, guard.out, deferred.events, EvsOf(p), FALSE)
       /\ ElementsOf(log') \subseteq ElementsOf(log) \cup ElementsOf(EvsOf(p))
  BY <1>3, <1>6, <1>7, <1>9
<1> QED BY <1>0, <1>3, <1>8, <1>10, SameCallers, ReceiveInv

LEMMA RecvSyncInv ==
    ASSUME IndInv, NEW l \in Lanes, recv_sync(l)
    PROVE  IndInv'
<1> DEFINE s == <<Waiting(l)[1]>>
           n == << >>
           m == AfterTaking(l, 1, n)
<1>0. Types /\ CanReceive(l)
  BY DEF IndInv, recv_sync, Receives
<1>1. /\ UNCHANGED <<state, log, deferred, guard, manager, sink, published, issued, acked>>
      /\ (SyncOk \/ SyncFails) /\ Reply(s) /\ lane' = [lane EXCEPT ![l] = m] /\ log' = log
  BY DEF recv_sync
<1>2. durable' \in Nat /\ doubt' \in DoubtType(Evs)
  BY <1>0, <1>1, SyncFacts
<1>3. n \in Seq(OutType(Evs))
  OBVIOUS
<1>4. Received(l, m, n)
  <2> HIDE DEF n
  <2> QED BY <1>0, <1>3, TakingFacts
<1> HIDE DEF s, m
<1> QED BY <1>0, <1>1, <1>2, <1>4, ReplyFacts, NothingReceived

LEMMA RecvShutdownInv ==
    ASSUME IndInv, NEW l \in Lanes, recv_shutdown(l)
    PROVE  IndInv'
<1> DEFINE n == << >>
           k == AfterTaking(l, 1, n)
           m == [k EXCEPT !.receiving = FALSE]
<1>0. Types /\ RunInv /\ CanReceive(l)
  BY DEF IndInv, recv_shutdown, Receives
<1>1. /\ issued' = issued /\ log' = log /\ published' = published /\ guard' = guard
      /\ deferred' = deferred /\ acked' = acked /\ caller' = caller
      /\ closed' = closed /\ inactive' = inactive /\ current' = current /\ manager' = manager
      /\ sink' = sink /\ durable' = durable /\ doubt' = doubt
      /\ lane' = [lane EXCEPT ![l] = m]
  BY DEF recv_shutdown, state, journal
<1>2. n \in Seq(OutType(Evs))
  OBVIOUS
<1>3. Received(l, k, n)
  <2> HIDE DEF n
  <2> QED BY <1>0, <1>2, TakingFacts
<1> HIDE DEF k
<1>4. k \in LaneType(Cmds, OutType(Evs)) /\ k.phase = "running" /\ k.out = << >> /\ k.step = "recv"
  BY <1>3 DEF Received
<1>5. m \in LaneType(Cmds, OutType(Evs)) /\ m.phase = "running" /\ m.out = << >> /\ m.step = "recv"
  BY <1>4 DEF LaneType
<1> HIDE DEF m
<1>6. /\ lane' \in [Lanes -> LaneType(Cmds, OutType(Evs))] /\ lane'[l] = m
      /\ \A j \in Lanes : j # l => lane'[j] = lane[j]
  BY <1>0, <1>1, <1>5, SetLane
<1>7. lane[l].phase = "running" /\ lane[l].step = "recv" /\ lane[l].out = << >>
  BY <1>0 DEF CanReceive, RunInv
<1>8. \A j \in Lanes : /\ lane'[j].out = lane[j].out /\ lane'[j].step = lane[j].step
                       /\ lane'[j].phase = lane[j].phase
  BY <1>5, <1>6, <1>7
<1>9. Evs' = Evs /\ Cmds' = Cmds
  BY <1>1, IssuedSame
<1>10. Types'
  BY <1>0, <1>1, <1>6, <1>9 DEF Types
<1>11. Quiet
  BY <1>1, <1>8 DEF Quiet
<1>12. RunInv' /\ ReleasedIsDurable'
  BY <1>0, <1>1, <1>8 DEF IndInv, RunInv, ReleasedIsDurable
<1>13. CallerInv'
  BY <1>1, AnsweredCallers
<1> QED BY <1>10, <1>11, <1>12, <1>13, QuietInv DEF IndInv

LEMMA RecvRetryInv ==
    ASSUME IndInv, NEW l \in Lanes, recv_retry(l)
    PROVE  IndInv'
<1> DEFINE x == Waiting(l)[1]
           s == <<x>>
           n == << >>
           b == doubt.batch
           o == Confirmed(x.from)
<1>0. Types /\ CanReceive(l)
  BY DEF IndInv, recv_retry, Receives
<1>1. x \in Cmds /\ x.from \in Repliers
  <2>1. x \in Cmds
    BY <1>0, WaitingFacts
  <2> HIDE DEF x
  <2> QED BY <2>1 DEF Cmds, CmdType
<1>2. /\ UNCHANGED <<state, deferred, guard, manager, sink, published, issued, acked>>
      /\ doubt \in DoubtType(Evs) /\ log \in Seq(Evs) /\ durable \in Nat /\ b \in Seq(Evs)
      /\ Len(b) \in Nat
  BY <1>0, TypeFacts, LenProperties DEF recv_retry, Types
<1>3. \/ /\ log' = log \o b /\ durable' = Len(log') /\ doubt' = NoDoubt
         /\ lane' = [lane EXCEPT ![l] = AfterTaking(l, 1, o)]
         /\ Reply(s) \/ caller' = caller
      \/ /\ lane' = [lane EXCEPT ![l] = AfterTaking(l, 1, n)] /\ Reply(s)
         /\ log' = log /\ durable' = durable /\ doubt' = doubt
  BY DEF recv_retry, journal
<1> HIDE DEF x
<1>4. o \in Seq(OutType(Evs)) /\ EvsOf(o) = b
  <2>1. \A i \in 1..Len(b) : b[i] \in Evs
    BY <1>2, ElementOfSeq
  <2>2. \A i \in 1..Len(b) : [ev |-> b[i], from |-> IF i = Len(b) THEN x.from ELSE Nobody] \in OutType(Evs)
    BY <1>1, <2>1 DEF OutType, Repliers
  <2>3. o = [i \in 1..Len(b) |-> [ev |-> b[i], from |-> IF i = Len(b) THEN x.from ELSE Nobody]]
    BY DEF Confirmed
  <2> HIDE DEF o, b
  <2>4. o \in Seq(OutType(Evs)) /\ Len(o) = Len(b)
    BY <1>2, <2>2, <2>3
  <2>5. \A i \in 1..Len(b) : o[i].ev = b[i]
    BY <2>3
  <2>6. EvsOf(o) \in Seq(Evs) /\ Len(EvsOf(o)) = Len(o) /\ \A i \in 1..Len(o) : EvsOf(o)[i] = o[i].ev
    BY <2>4, EvsOfFacts
  <2> DEFINE v == EvsOf(o)
  <2> HIDE DEF v
  <2>7. v \in Seq(Evs) /\ Len(v) = Len(b) /\ \A i \in 1..Len(v) : v[i] = b[i]
    BY <2>4, <2>5, <2>6 DEF v
  <2>8. v = b
    BY <1>2, <2>7, SeqEqual
  <2> QED BY <2>4, <2>8 DEF v
<1>5. CASE /\ log' = log \o b /\ durable' = Len(log') /\ doubt' = NoDoubt
           /\ lane' = [lane EXCEPT ![l] = AfterTaking(l, 1, o)]
           /\ Reply(s) \/ caller' = caller
  <2> HIDE DEF b, o, s
  <2> DEFINE m == AfterTaking(l, 1, o)
  <2>1. Received(l, m, o)
    BY <1>0, <1>4, TakingFacts
  <2> HIDE DEF m
  <2>2. lane' = [lane EXCEPT ![l] = m] /\ doubt' \in DoubtType(Evs)
    BY <1>5 DEF m, NoDoubt, DoubtType
  <2>3. durable' \in Nat
    <3>1. log \o b \in Seq(Evs)
      BY <1>2, ConcatElements
    <3> QED BY <1>5, <3>1, LenProperties
  <2>4. /\ caller' \in [Callers -> CallerType(Cmds)]
        /\ \A c \in Callers : caller'[c] \in {Idle, caller[c]}
    BY <1>5, ReplyFacts, SameCallers
  <2> QED BY <1>0, <1>2, <1>4, <1>5, <2>1, <2>2, <2>3, <2>4, CommitInv
<1>6. CASE /\ lane' = [lane EXCEPT ![l] = AfterTaking(l, 1, n)] /\ Reply(s)
           /\ log' = log /\ durable' = durable /\ doubt' = doubt
  <2> HIDE DEF b, o, s
  <2> DEFINE m == AfterTaking(l, 1, n)
  <2>1. n \in Seq(OutType(Evs))
    OBVIOUS
  <2>2. Received(l, m, n)
    <3> HIDE DEF n
    <3> QED BY <1>0, <2>1, TakingFacts
  <2> HIDE DEF m
  <2>3. /\ lane' = [lane EXCEPT ![l] = m] /\ doubt' \in DoubtType(Evs) /\ durable' \in Nat
        /\ UNCHANGED <<state, log, deferred, guard, manager, sink, published, issued, acked>>
    BY <1>2, <1>6 DEF m
  <2> QED BY <1>0, <1>6, <2>2, <2>3, ReplyFacts, NothingReceived
<1> QED BY <1>3, <1>5, <1>6

\* A lane that publishes: the head of what it has, and the lane without it.
Headless(l) ==
    [lane[l] EXCEPT !.out = Tail(lane[l].out),
                    !.step = IF Len(lane[l].out) = 1 THEN "recv" ELSE "route"]

LEMMA HeadFacts ==
    ASSUME IndInv, NEW l \in Lanes, lane[l].step # "recv"
    PROVE  /\ lane[l].phase = "running" /\ lane[l].out # << >> /\ lane[l].out[1].ev \in Evs
           /\ OutOf(l) \in Seq(Evs) /\ OutOf(l) # << >> /\ OutOf(l)[1] = lane[l].out[1].ev
           /\ Headless(l) \in LaneType(Cmds, OutType(Evs)) /\ Headless(l).phase = "running"
           /\ EvsOf(Headless(l).out) = Tail(OutOf(l))
           /\ Headless(l).step = "recv" <=> Headless(l).out = << >>
           /\ Headless(l).step # "deliver"
<1> DEFINE o == lane[l].out
           t == Tail(o)
           s == IF Len(o) = 1 THEN "recv" ELSE "route"
           m == Headless(l)
<1>0. Types /\ lane[l].phase = "running" /\ o # << >> /\ lane[l] \in LaneType(Cmds, OutType(Evs))
  BY TypeFacts DEF IndInv, RunInv
<1>1. o \in Seq(OutType(Evs)) /\ OutOf(l) = EvsOf(o)
  BY <1>0, TypeFacts DEF OutOf, EvsOf
<1>2. m = [lane[l] EXCEPT !.out = t, !.step = s]
  BY DEF Headless
<1> HIDE DEF o, m
<1>3. /\ EvsOf(o) \in Seq(Evs) /\ EvsOf(o) # << >> /\ EvsOf(o)[1] = o[1].ev
      /\ EvsOf(t) = Tail(EvsOf(o)) /\ t \in Seq(OutType(Evs))
  BY <1>0, <1>1, EvsOfFacts
<1>4. o[1] \in OutType(Evs) /\ Len(o) \in Nat /\ Len(o) >= 1 /\ Len(t) = Len(o) - 1
  BY <1>0, <1>1, TailElements
<1>5. o[1].ev \in Evs
  BY <1>4 DEF OutType
<1>6. t = << >> <=> Len(o) = 1
  <2>1. t = << >> <=> Len(t) = 0
    BY <1>3, EmptySeq
  <2> QED BY <1>4, <2>1
<1>7. s \in {"recv", "route", "deliver"} /\ (s = "recv" <=> t = << >>) /\ s # "deliver"
  BY <1>6
<1> HIDE DEF s, t
<1>8. /\ m \in LaneType(Cmds, OutType(Evs)) /\ m.phase = "running" /\ m.out = t /\ m.step = s
  BY <1>0, <1>2, <1>3, <1>7 DEF LaneType
<1>9. /\ lane[l].out = o
  BY DEF o
<1>10. /\ EvsOf(m.out) = Tail(OutOf(l)) /\ (m.step = "recv" <=> m.out = << >>) /\ m.step # "deliver"
  BY <1>1, <1>3, <1>7, <1>8
<1> QED BY <1>0, <1>1, <1>3, <1>5, <1>8, <1>9, <1>10 DEF m

\* The caller of h, if it hears Ok, has issued nothing since.
LEMMA AckedFacts ==
    ASSUME IndInv, NEW h, h.ev \in Evs, Acked(h)
    PROVE  \/ acked' = acked
           \/ acked' = acked \cup {h.ev} /\ \A f \in Evs : ~Follower(From, h.ev, f)
<1>1. ASSUME NEW c \in Callers, caller[c].st = "wait", caller[c].cmd[1].ev = h.ev
      PROVE  \A f \in Evs : ~Follower(From, h.ev, f)
  <2>1. caller[c] # Idle /\ 0 \notin Evs /\ Evs \subseteq Nat
    BY <1>1, TypeFacts DEF Idle, IndInv
  <2>2. Latest(c, h.ev)
    BY <1>1, <2>1 DEF IndInv, CallerInv, CallerOK
  <2> DEFINE e == h.ev
  <2>3. e \in Evs /\ issued[e].from = c /\ \A k \in Evs : issued[k].from = c => k <= e
    BY <2>2 DEF Latest
  <2> HIDE DEF e
  <2>4. \A f \in Evs : ~Follower(From, e, f)
    <3> SUFFICES ASSUME NEW f \in Evs, Follower(From, e, f) PROVE FALSE
      OBVIOUS
    <3>1. From[f] = issued[f].from /\ From[e] = issued[e].from
      BY <2>3 DEF From
    <3>2. e < f /\ issued[f].from = c
      BY <2>3, <3>1 DEF Follower
    <3> QED BY <2>1, <2>3, <3>2
  <2> QED BY <2>4 DEF e
<1> QED BY <1>1, Zenon DEF Acked

LEMMA AckHead ==
    ASSUME IndInv, NEW h, h.ev \in Evs, Acked(h), NEW P \in Seq(Evs), NEW G \in Seq(Evs),
           NEW D \in Seq(Evs), NEW H, H \subseteq Evs, NEW gone,
           AckOK(acked \cap Dur, From, gone, P, G, D, H),
           h.ev \in gone \cup ElementsOf(P) \cup ElementsOf(G) \cup ElementsOf(D)
    PROVE  AckOK(acked' \cap Dur, From, gone, P, G, D, H) /\ acked' \subseteq Evs
<1> DEFINE e == h.ev
<1>1. /\ acked \subseteq Evs /\ e \in Evs
      /\ \/ acked' = acked
         \/ acked' = acked \cup {e} /\ \A f \in Evs : ~Follower(From, e, f)
      /\ e \in gone \cup ElementsOf(P) \cup ElementsOf(G) \cup ElementsOf(D)
  BY AckedFacts DEF IndInv, Types
<1> HIDE DEF e
<1>2. CASE acked' \cap Dur = acked \cap Dur
  BY <1>1, <1>2
<1>3. CASE /\ acked' \cap Dur = (acked \cap Dur) \cup {e} /\ \A f \in Evs : ~Follower(From, e, f)
  <2>1. AckOK((acked \cap Dur) \cup {e}, From, gone, P, G, D, H)
    BY <1>1, <1>3, AckAdds
  <2> QED BY <1>1, <1>3, <2>1
<1> QED BY <1>1, <1>2, <1>3

LEMMA LaneRouteInv ==
    ASSUME IndInv, NEW l \in Lanes, lane_route(l)
    PROVE  IndInv'
<1> DEFINE h == lane[l].out[1]
           x == h.ev
<1>0. /\ Types /\ DeferInv /\ lane[l].step = "route" /\ lane[l].step # "recv"
      /\ lane[l] \in LaneType(Cmds, OutType(Evs))
  BY TypeFacts DEF IndInv, lane_route
<1>1. /\ UNCHANGED <<state, guard, manager, sink, issued>> /\ log' = log /\ durable' = durable
      /\ doubt' = doubt /\ published' = published
  BY DEF lane_route, journal
<1>2. /\ log' \in Seq(Evs) /\ durable' \in Nat /\ doubt' \in DoubtType(Evs) /\ published' \in Seq(Evs)
      /\ published \in Seq(Evs) /\ guard.out \in Seq(Evs) /\ deferred.events \in Seq(Evs)
      /\ deferred \in DeferredType(Evs) /\ acked \subseteq Evs /\ deferred.on \in BOOLEAN
      /\ Evs \subseteq Nat /\ Past \subseteq Evs
  BY <1>0, <1>1, TypeFacts, PastFacts DEF IndInv, Types
<1>3. /\ lane[l].phase = "running" /\ lane[l].out # << >> /\ x \in Evs
      /\ OutOf(l) \in Seq(Evs) /\ OutOf(l) # << >> /\ OutOf(l)[1] = x
  BY <1>0, HeadFacts
<1>4. OrderOK(log, Dur, published, guard.out, deferred.events, OutOf(l), FALSE)
  <2>1. OrderOK(log, Dur, published, guard.out, deferred.events, OutOf(l), lane[l].step = "deliver")
    BY DEF IndInv, OrderInv
  <2>2. (lane[l].step = "deliver") = FALSE
    BY <1>0
  <2> QED BY <2>1, <2>2
<1>5. AckOK(acked \cap Dur, From, guard.lost, published, guard.out, deferred.events, Past)
  BY DEF IndInv, AckInv
<1>6. CASE deferred.on
  <2> DEFINE d == Append(deferred.events, x)
             m == Headless(l)
  <2>1. /\ deferred' = [deferred EXCEPT !.events = d] /\ Reply(<<h>>) /\ Acked(h)
        /\ lane' = [lane EXCEPT ![l].out = Tail(lane[l].out),
                                ![l].step = IF Len(lane[l].out) = 1 THEN "recv" ELSE "route"]
    BY <1>6 DEF lane_route
  <2>2. lane' = [lane EXCEPT ![l] = m]
    BY <1>0, <2>1 DEF Headless, Types, LaneType
  <2>3. /\ m \in LaneType(Cmds, OutType(Evs)) /\ m.phase = "running"
        /\ EvsOf(m.out) = Tail(OutOf(l)) /\ m.step # "deliver"
        /\ (m.step = "recv" <=> m.out = << >>)
    BY <1>0, HeadFacts
  <2> HIDE DEF m
  <2>4. OrderOK(log, Dur, published, guard.out, d, EvsOf(m.out), FALSE)
    <3>1. deferred.events \in Seq(Nat) /\ OutOf(l) \in Seq(Nat)
      BY <1>2, <1>3, SeqMonotonic
    <3>2. OrderOK(log, Dur, published, guard.out, Append(deferred.events, OutOf(l)[1]), Tail(OutOf(l)), FALSE)
      <4> HIDE DEF OutOf
      <4> QED BY <1>3, <1>4, <3>1, OrderLaneDefers
    <3> QED BY <1>3, <2>3, <3>2
  <2> HIDE DEF OutOf
  <2>5. d \in Seq(Evs) /\ ElementsOf(d) = ElementsOf(deferred.events) \cup {x}
    BY <1>2, <1>3, AppendElements
  <2>6. AckOK(acked \cap Dur, From, guard.lost, published, guard.out, d, Past)
    <3>1. deferred.events \in Seq(Nat) /\ x \in Nat
      BY <1>2, <1>3, SeqMonotonic
    <3> HIDE DEF x
    <3> QED BY <1>5, <3>1, AckDefers
  <2> HIDE DEF d
  <2>7. AckOK(acked' \cap Dur, From, guard.lost, published, guard.out, d, Past) /\ acked' \subseteq Evs
    <3>1. x \in guard.lost \cup ElementsOf(published) \cup ElementsOf(guard.out) \cup ElementsOf(d)
      BY <2>5
    <3>2. h.ev \in Evs /\ Acked(h)
      BY <1>3, <2>1
    <3> HIDE DEF h
    <3> QED BY <1>2, <2>5, <2>6, <3>1, <3>2, AckHead
  <2>8. /\ deferred' \in DeferredType(Evs) /\ deferred'.events = d /\ deferred'.on = deferred.on
    BY <1>2, <2>1, <2>5 DEF DeferredType
  <2>9. /\ caller' \in [Callers -> CallerType(Cmds)]
        /\ \A c \in Callers : caller'[c] \in {Idle, caller[c]}
    <3> DEFINE s == <<h>>
    <3>1. Reply(s)
      BY <2>1
    <3> HIDE DEF s
    <3> QED BY <3>1, ReplyFacts
  <2> HIDE DEF h, x
  <2>10. /\ OrderOK(log', Dur, published', guard.out, deferred'.events, EvsOf(m.out), m.step = "deliver")
         /\ AckOK(acked' \cap Dur, From, guard.lost, published', guard.out, deferred'.events,
                  Past \cup (IF m.step = "deliver" THEN {m.out[1].ev} ELSE {}))
    <3>1. (m.step = "deliver") = FALSE /\ Past \cup (IF m.step = "deliver" THEN {m.out[1].ev} ELSE {}) = Past
      BY <2>3
    <3> QED BY <1>1, <2>4, <2>7, <2>8, <3>1
  <2>11. ElementsOf(OutOf(l)) = {x} \cup ElementsOf(EvsOf(m.out))
    BY <1>3, <2>3, TailElements
  <2>12. ElementsOf(published) \cup ElementsOf(deferred.events) \cup ElementsOf(OutOf(l))
           \subseteq ElementsOf(published') \cup ElementsOf(deferred'.events) \cup ElementsOf(EvsOf(m.out))
    BY <1>1, <2>5, <2>8, <2>11
  <2>13. ElementsOf(log') \subseteq ElementsOf(log) \cup ElementsOf(EvsOf(m.out))
    BY <1>1
  <2>14. ~deferred.on => deferred'.events = << >>
    BY <1>6
  <2> QED BY <1>1, <1>2, <1>3, <2>2, <2>3, <2>7, <2>8, <2>9, <2>10, <2>12, <2>13, <2>14, LaneMoves
<1>7. CASE ~deferred.on
  <2> DEFINE m == [lane[l] EXCEPT !.step = "deliver"]
  <2>1. /\ deferred' = deferred /\ acked' = acked /\ caller' = caller
        /\ lane' = [lane EXCEPT ![l].step = "deliver"]
    BY <1>7 DEF lane_route
  <2>2. lane' = [lane EXCEPT ![l] = m]
    BY <2>1
  <2>3. /\ m \in LaneType(Cmds, OutType(Evs)) /\ m.phase = "running" /\ m.out = lane[l].out
        /\ m.step = "deliver" /\ m.step # "recv"
    BY <1>0, <1>3 DEF LaneType
  <2> HIDE DEF m
  <2>4. EvsOf(m.out) = OutOf(l)
    BY <2>3 DEF EvsOf, OutOf
  <2>5. guard.out = << >> /\ deferred.events = << >>
    BY <1>0, <1>7 DEF DeferInv
  <2>6. OrderOK(log', Dur, published', guard.out, deferred'.events, EvsOf(m.out), m.step = "deliver")
    <3>1. OrderOK(log, Dur, published, << >>, << >>, OutOf(l), FALSE)
      BY <1>4, <2>5
    <3>2. OrderOK(log, Dur, published, << >>, << >>, OutOf(l), TRUE)
      <4> HIDE DEF OutOf
      <4> QED BY <3>1, OrderGoesPast
    <3>3. (m.step = "deliver") = TRUE
      BY <2>3
    <3> QED BY <1>1, <2>1, <2>4, <2>5, <3>2, <3>3
  <2> DEFINE H == Past \cup (IF m.step = "deliver" THEN {m.out[1].ev} ELSE {})
  <2>7. AckOK(acked' \cap Dur, From, guard.lost, published', guard.out, deferred'.events, H)
    <3>1. AckOK(acked \cap Dur, From, guard.lost, published, << >>, << >>, Past)
      BY <1>5, <2>5
    <3> HIDE DEF H
    <3>2. AckOK(acked \cap Dur, From, guard.lost, published, << >>, << >>, H)
      BY <3>1, AckGoesPast
    <3> QED BY <1>1, <2>1, <2>5, <3>2
  <2>8. ElementsOf(published) \cup ElementsOf(deferred.events) \cup ElementsOf(OutOf(l))
           \subseteq ElementsOf(published') \cup ElementsOf(deferred'.events) \cup ElementsOf(EvsOf(m.out))
    BY <1>1, <2>1, <2>4
  <2>9. ElementsOf(log') \subseteq ElementsOf(log) \cup ElementsOf(EvsOf(m.out))
    BY <1>1
  <2>10. /\ m.step = "recv" <=> m.out = << >>
         /\ deferred'.on = deferred.on /\ (~deferred.on => deferred'.events = << >>)
         /\ deferred' \in DeferredType(Evs) /\ acked' \subseteq Evs
    BY <1>2, <1>3, <2>1, <2>3, <2>5
  <2> QED BY <1>1, <1>2, <1>3, <2>1, <2>2, <2>3, <2>6, <2>7, <2>8, <2>9, <2>10, SameCallers, LaneMoves
<1> QED BY <1>2, <1>6, <1>7

LEMMA LaneDeliverInv ==
    ASSUME IndInv, NEW l \in Lanes, lane_deliver(l)
    PROVE  IndInv'
<1> DEFINE h == lane[l].out[1]
           x == h.ev
           p == Append(published, x)
           m == Headless(l)
<1>0. /\ Types /\ DeferInv /\ lane[l].step = "deliver" /\ lane[l].step # "recv"
      /\ lane[l] \in LaneType(Cmds, OutType(Evs))
  BY TypeFacts DEF IndInv, lane_deliver
<1>1. /\ UNCHANGED <<state, guard, manager, sink, issued>> /\ log' = log /\ durable' = durable
      /\ doubt' = doubt /\ deferred' = deferred /\ published' = p /\ Reply(<<h>>) /\ Acked(h)
      /\ lane' = [lane EXCEPT ![l].out = Tail(lane[l].out),
                              ![l].step = IF Len(lane[l].out) = 1 THEN "recv" ELSE "route"]
  BY DEF lane_deliver, journal
<1>2. /\ log' \in Seq(Evs) /\ durable' \in Nat /\ doubt' \in DoubtType(Evs)
      /\ published \in Seq(Evs) /\ guard.out \in Seq(Evs) /\ deferred.events \in Seq(Evs)
      /\ deferred' \in DeferredType(Evs) /\ Evs \subseteq Nat /\ Past \subseteq Evs
      /\ (~deferred.on => deferred'.events = << >>) /\ deferred'.on = deferred.on
  BY <1>0, <1>1, TypeFacts, PastFacts DEF IndInv, Types, DeferInv
<1>3. /\ lane[l].phase = "running" /\ x \in Evs
      /\ OutOf(l) \in Seq(Evs) /\ OutOf(l) # << >> /\ OutOf(l)[1] = x
      /\ m \in LaneType(Cmds, OutType(Evs)) /\ m.phase = "running"
      /\ EvsOf(m.out) = Tail(OutOf(l)) /\ m.step # "deliver"
      /\ (m.step = "recv" <=> m.out = << >>)
  BY <1>0, HeadFacts
<1>4. lane' = [lane EXCEPT ![l] = m]
  BY <1>0, <1>1 DEF Headless, Types, LaneType
<1> HIDE DEF m
<1>5. x \in Past
  BY <1>0 DEF Past
<1>6. OrderOK(log, Dur, p, guard.out, deferred.events, EvsOf(m.out), FALSE)
  <2>1. OrderOK(log, Dur, published, guard.out, deferred.events, OutOf(l), lane[l].step = "deliver")
    BY DEF IndInv, OrderInv
  <2>2. (lane[l].step = "deliver") = TRUE
    BY <1>0
  <2>3. OrderOK(log, Dur, published, guard.out, deferred.events, OutOf(l), TRUE)
    BY <2>1, <2>2
  <2>4. published \in Seq(Nat) /\ OutOf(l) \in Seq(Nat)
    BY <1>2, <1>3, SeqMonotonic
  <2>5. OrderOK(log, Dur, Append(published, OutOf(l)[1]), guard.out, deferred.events, Tail(OutOf(l)), FALSE)
    <3> HIDE DEF OutOf
    <3> QED BY <1>3, <2>3, <2>4, OrderLaneDelivers
  <2> QED BY <1>3, <2>5
<1> HIDE DEF OutOf
<1>7. p \in Seq(Evs) /\ ElementsOf(p) = ElementsOf(published) \cup {x}
  BY <1>2, <1>3, AppendElements
<1>8. AckOK(acked \cap Dur, From, guard.lost, p, guard.out, deferred.events, Past)
  <2>1. published \in Seq(Nat) /\ x \in Nat
    BY <1>2, <1>3, SeqMonotonic
  <2>2. AckOK(acked \cap Dur, From, guard.lost, published, guard.out, deferred.events, Past)
    BY DEF IndInv, AckInv
  <2> HIDE DEF x
  <2> QED BY <1>5, <2>1, <2>2, AckDelivers
<1> HIDE DEF p
<1>9. /\ AckOK(acked' \cap Dur, From, guard.lost, p, guard.out, deferred.events, Past)
      /\ acked' \subseteq Evs
  <2>1. x \in guard.lost \cup ElementsOf(p) \cup ElementsOf(guard.out) \cup ElementsOf(deferred.events)
    BY <1>7
  <2>2. h.ev \in Evs /\ Acked(h)
    BY <1>1, <1>3
  <2> HIDE DEF h
  <2> QED BY <1>2, <1>7, <1>8, <2>1, <2>2, AckHead
<1>10. /\ caller' \in [Callers -> CallerType(Cmds)]
       /\ \A c \in Callers : caller'[c] \in {Idle, caller[c]}
  <2> DEFINE s == <<h>>
  <2>1. Reply(s)
    BY <1>1
  <2> HIDE DEF s
  <2> QED BY <2>1, ReplyFacts
<1> HIDE DEF h, x
<1>11. /\ OrderOK(log', Dur, published', guard.out, deferred'.events, EvsOf(m.out), m.step = "deliver")
       /\ AckOK(acked' \cap Dur, From, guard.lost, published', guard.out, deferred'.events,
                Past \cup (IF m.step = "deliver" THEN {m.out[1].ev} ELSE {}))
  <2>1. (m.step = "deliver") = FALSE /\ Past \cup (IF m.step = "deliver" THEN {m.out[1].ev} ELSE {}) = Past
    BY <1>3
  <2> QED BY <1>1, <1>6, <1>9, <2>1
<1>12. ElementsOf(OutOf(l)) = {x} \cup ElementsOf(EvsOf(m.out))
  BY <1>3, TailElements
<1>13. ElementsOf(published) \cup ElementsOf(deferred.events) \cup ElementsOf(OutOf(l))
         \subseteq ElementsOf(published') \cup ElementsOf(deferred'.events) \cup ElementsOf(EvsOf(m.out))
  BY <1>1, <1>7, <1>12
<1>14. ElementsOf(log') \subseteq ElementsOf(log) \cup ElementsOf(EvsOf(m.out))
  BY <1>1
<1>15. published' \in Seq(Evs)
  BY <1>1, <1>7
<1> QED BY <1>1, <1>2, <1>3, <1>4, <1>9, <1>10, <1>11, <1>13, <1>14, <1>15, LaneMoves

LEMMA LaneStopsInv ==
    ASSUME IndInv, NEW l \in Lanes, lane_stops(l)
    PROVE  IndInv'
<1> DEFINE m == [lane[l] EXCEPT !.phase = "stopped"]
<1>0. /\ Types /\ RunInv /\ lane[l].phase = "running" /\ lane[l].step = "recv" /\ l # 0
      /\ lane[l] \in LaneType(Cmds, OutType(Evs)) /\ 0 \in 0..MaxLanes
  BY TypeFacts, BoundsAssumption DEF IndInv, lane_stops, Lanes
<1>1. /\ issued' = issued /\ log' = log /\ published' = published /\ guard' = guard
      /\ deferred' = deferred /\ acked' = acked /\ caller' = caller
      /\ closed' = closed /\ current' = current
      /\ lane' = [lane EXCEPT ![l] = m]
      /\ sink' = IF sink.lane = l THEN [st |-> "done", lane |-> 0] ELSE sink
  BY DEF lane_stops
<1>2. PICK ok \in BOOLEAN :
        /\ IF ok THEN SyncOk ELSE SyncFails
        /\ IF manager.lane = l
           THEN /\ manager' = [st |-> IF ok THEN "released" ELSE "idle", lane |-> 0]
                /\ inactive' = (ok \/ closed)
           ELSE manager' = manager /\ inactive' = inactive
  BY DEF lane_stops, FinalSync
<1>3. /\ durable' \in Nat /\ doubt' \in DoubtType(Evs)
      /\ (SyncOk => durable' = Len(log) /\ doubt'.kind = "None")
  BY <1>0, <1>1, <1>2, SyncFacts
<1>4. m \in LaneType(Cmds, OutType(Evs)) /\ m.out = lane[l].out /\ m.step = "recv" /\ m.phase = "stopped"
  BY <1>0 DEF LaneType
<1> HIDE DEF m
<1>5. /\ lane' \in [Lanes -> LaneType(Cmds, OutType(Evs))] /\ lane'[l] = m
      /\ \A j \in Lanes : j # l => lane'[j] = lane[j]
  BY <1>0, <1>1, <1>4, SetLane
<1>6. /\ ~(manager.st = "released" /\ ~closed)
      /\ \A k \in Lanes : k # l =>
           lane[k].phase # "running" /\ lane[k].out = << >> /\ lane[k].step = "recv"
  BY <1>0, OneLane
<1>7. \A k \in Lanes : /\ lane'[k].phase # "running" /\ lane'[k].step = "recv"
                       /\ lane'[k].out = << >> /\ lane[k].step = "recv" /\ lane'[k].out = lane[k].out
  <2>1. lane[l].out = << >>
    BY <1>0 DEF RunInv
  <2> QED BY <1>0, <1>4, <1>5, <1>6, <2>1
<1>8. inactive' \in BOOLEAN
  <2>1. inactive \in BOOLEAN /\ closed \in BOOLEAN
    BY <1>0 DEF Types
  <2> QED BY <1>2, <2>1, Zenon
<1>9. /\ sink' \in [st : {"idle", "send", "drain", "done"}, lane : 0..MaxLanes]
      /\ \/ sink' = sink
         \/ sink'.st = "done" /\ sink'.lane = 0 /\ sink.lane = l
  BY <1>0, <1>1 DEF Types
<1>10. CASE manager.lane = l
  <2>1. /\ manager' \in [st : {"idle", "send", "drain", "released"}, lane : 0..MaxLanes]
        /\ manager'.lane = 0 /\ manager'.st \in {"released", "idle"}
        /\ (manager'.st = "released" => ok)
    BY <1>0, <1>2, <1>10
  <2>2. inactive /\ sink.lane = 0 /\ current = 0
    BY <1>0, <1>10 DEF RunInv
  <2>3. sink' = sink
    BY <1>0, <1>9, <2>2
  <2>4. inactive' = (ok \/ closed)
    BY <1>2, <1>10
  <2>5. ok => inactive'
    BY <2>4, Zenon
  <2>6. Types'
    <3>1. Evs' = Evs /\ Cmds' = Cmds
      BY <1>1, IssuedSame
    <3> QED BY <1>0, <1>1, <1>3, <1>5, <1>8, <1>9, <2>1, <3>1 DEF Types
  <2>7. RunInv'
    BY <1>0, <1>1, <1>7, <2>1, <2>2, <2>3, <2>5 DEF RunInv
  <2>8. ReleasedIsDurable'
    BY <1>1, <1>2, <1>3, <2>1 DEF ReleasedIsDurable
  <2>9. CallerInv'
    BY <1>1, AnsweredCallers
  <2>10. Quiet
    BY <1>1, <1>7 DEF Quiet
  <2> QED BY <2>6, <2>7, <2>8, <2>9, <2>10, QuietInv DEF IndInv
<1>11. CASE manager.lane # l
  <2>1. manager' = manager /\ inactive' = inactive
    BY <1>2, <1>11
  <2>2. Types'
    <3>1. Evs' = Evs /\ Cmds' = Cmds
      BY <1>1, IssuedSame
    <3> QED BY <1>0, <1>1, <1>3, <1>5, <1>9, <2>1, <3>1 DEF Types
  <2>3. RunInv'
    <3>1. CASE sink' = sink
      BY <1>0, <1>1, <1>7, <2>1, <3>1 DEF RunInv
    <3>2. CASE sink'.st = "done" /\ sink'.lane = 0 /\ sink.lane = l
      BY <1>0, <1>1, <1>7, <2>1, <3>2 DEF RunInv
    <3> QED BY <1>9, <3>1, <3>2
  <2>4. ReleasedIsDurable'
    BY <1>1, <1>6, <2>1 DEF ReleasedIsDurable
  <2>5. CallerInv'
    BY <1>1, AnsweredCallers
  <2>6. Quiet
    BY <1>1, <1>7 DEF Quiet
  <2> QED BY <2>2, <2>3, <2>4, <2>5, <2>6, QuietInv DEF IndInv
<1> QED BY <1>10, <1>11

-----------------------------------------------------------------------------
(* The invariant. *)

LEMMA InitInv == Init => IndInv
<1> SUFFICES ASSUME Init PROVE IndInv
  OBVIOUS
<1>1. /\ closed = FALSE /\ inactive = FALSE /\ current = 0
      /\ lane = [l \in Lanes |-> Fresh]
      /\ log = << >> /\ durable = 0 /\ doubt = NoDoubt
      /\ deferred = [on |-> FALSE, events |-> << >>]
      /\ guard = [st |-> "none", out |-> << >>, used |-> 0, lost |-> {}]
      /\ caller = [c \in Callers |-> Idle]
      /\ manager = [st |-> "idle", lane |-> 0] /\ sink = [st |-> "idle", lane |-> 0]
      /\ published = << >> /\ issued = << >> /\ acked = {}
  BY DEF Init
<1>2. 0 \in 0..MaxLanes /\ Len(<< >>) = 0 /\ ElementsOf(<< >>) = {} /\ \A S : << >> \in Seq(S)
  BY BoundsAssumption, NoElements
<1>3. Fresh \in LaneType(Cmds, OutType(Evs)) /\ Fresh.out = << >> /\ Fresh.step = "recv"
      /\ Fresh.phase = "unused"
  BY <1>2 DEF Fresh, LaneType
<1>4. /\ doubt \in DoubtType(Evs) /\ deferred \in DeferredType(Evs) /\ guard \in GuardType(Evs)
      /\ guard.out = << >> /\ deferred.events = << >> /\ guard.lost = {} /\ guard.st = "none"
      /\ ~deferred.on
  BY <1>1, <1>2 DEF NoDoubt, DoubtType, DeferredType, GuardType
<1>5. /\ manager \in [st : {"idle", "send", "drain", "released"}, lane : 0..MaxLanes]
      /\ sink \in [st : {"idle", "send", "drain", "done"}, lane : 0..MaxLanes]
      /\ manager.st = "idle" /\ manager.lane = 0 /\ sink.st = "idle" /\ sink.lane = 0
  BY <1>1, <1>2
<1>6. /\ lane \in [Lanes -> LaneType(Cmds, OutType(Evs))]
      /\ \A l \in Lanes : lane[l].out = << >> /\ lane[l].step = "recv" /\ lane[l].phase = "unused"
  BY <1>1, <1>3
<1>7. caller \in [Callers -> CallerType(Cmds)] /\ \A c \in Callers : caller[c] = Idle
  BY <1>1 DEF CallerType
<1>8. closed \in BOOLEAN /\ inactive \in BOOLEAN /\ ~closed /\ ~inactive
  BY <1>1, Zenon
<1>9. Types
  BY <1>1, <1>2, <1>4, <1>5, <1>6, <1>7, <1>8 DEF Types
<1>10. RunInv /\ DeferInv /\ CallerInv
  BY <1>1, <1>4, <1>5, <1>6, <1>7, <1>8 DEF RunInv, DeferInv, CallerInv
<1>11. OrderInv
  <2> SUFFICES ASSUME NEW l \in Lanes
               PROVE  OrderOK(log, Dur, published, guard.out, deferred.events, OutOf(l), lane[l].step = "deliver")
    BY DEF OrderInv
  <2>1. OutOf(l) = << >> /\ (lane[l].step = "deliver") = FALSE
    BY <1>6, <1>9, OutFacts
  <2>2. OrderOK(<< >>, Dur, << >>, << >>, << >>, << >>, FALSE)
    BY <1>2, NothingSorted DEF OrderOK, Ahead
  <2> QED BY <1>1, <1>4, <2>1, <2>2
<1>12. AckInv
  <2>1. Past = {}
    BY <1>6, <1>7 DEF Past, Idle
  <2>2. acked \cap Dur = {}
    BY <1>1
  <2> QED BY <2>1, <2>2 DEF AckInv, AckOK
<1>13. CommittedIsOnTheWay /\ ReleasedIsDurable
  BY <1>1, <1>2, <1>5 DEF CommittedIsOnTheWay, ReleasedIsDurable
<1> QED BY <1>9, <1>10, <1>11, <1>12, <1>13 DEF IndInv

LEMMA NextInv == IndInv /\ [Next]_vars => IndInv'
<1> SUFFICES ASSUME IndInv, [Next]_vars PROVE IndInv'
  OBVIOUS
<1>1. ASSUME NEW c \in Callers, CallerStep(c) PROVE IndInv'
  <2>1. ASSUME NEW op \in Ops \cap (EventOps \ {"live"}), NEW l \in Lanes, publish_ordered(c, op, l)
        PROVE  IndInv'
    BY <2>1, PublishOrderedInv
  <2>2. ASSUME NEW op \in Ops \cap {"sync", "retry"}, NEW l \in Lanes, request_barrier(c, op, l)
        PROVE  IndInv'
    BY <2>2, RequestBarrierInv
  <2> QED
    BY <1>1, <2>1, <2>2, SendInv, PublishLiveCheckInv, PublishLiveRouteInv, PublishLiveDeliverInv
    DEF CallerStep
<1>2. ASSUME NEW l \in Lanes, LaneStep(l) PROVE IndInv'
  BY <1>2, RecvCreateInv, RecvDurableInv, RecvLiveInv, RecvSyncInv, RecvRetryInv, RecvShutdownInv,
     LaneRouteInv, LaneDeliverInv, LaneStopsInv DEF LaneStep
<1>3. ASSUME UNCHANGED vars PROVE IndInv'
  <2>1. /\ issued' = issued /\ log' = log /\ published' = published /\ guard' = guard
        /\ deferred' = deferred /\ acked' = acked /\ caller' = caller /\ lane' = lane
        /\ closed' = closed /\ inactive' = inactive /\ current' = current /\ manager' = manager
        /\ sink' = sink /\ durable' = durable /\ doubt' = doubt
    BY <1>3 DEF vars, state, journal
  <2>2. Evs' = Evs /\ Cmds' = Cmds
    BY <2>1, IssuedSame
  <2>3. Types' /\ RunInv' /\ ReleasedIsDurable'
    BY <2>1, <2>2 DEF IndInv, Types, RunInv, ReleasedIsDurable
  <2>4. CallerInv'
    BY <2>1, AnsweredCallers
  <2>5. Quiet
    BY <2>1 DEF Quiet
  <2> QED BY <2>3, <2>4, <2>5, QuietInv DEF IndInv
<1> QED BY <1>1, <1>2, <1>3, ManagerInv, SinkInv, GuardInv DEF Next

\* The types, and the invariant that the properties below rest on.
THEOREM SinkInvariant == Spec => []IndInv
<1>1. Spec => Init /\ [][Next]_vars
  BY PTL DEF Spec
<1> QED BY <1>1, InitInv, NextInv, PTL

\* The observer sees durable events after the journal accepted them, each at most
\* once and in seq order, through deferral, release and a retried fsync.
THEOREM PublishedInLogOrderAlways == Spec => []PublishedInLogOrder
<1>1. IndInv => PublishedInLogOrder
  <2> SUFFICES ASSUME IndInv, NEW j \in 1..Len(published), NEW i \in 1..j,
                      IsDurable(published[i]), IsDurable(published[j])
               PROVE  \E b \in 1..Len(log) : \E a \in 1..b :
                         /\ log[a] = published[i] /\ log[b] = published[j]
                         /\ i < j => a < b
    BY DEF PublishedInLogOrder
  <2>1. /\ Len(published) \in Nat /\ published \in Seq(Evs) /\ Len(log) \in Nat
    BY TypeFacts, LenProperties DEF IndInv
  <2>2. i \in 1..Len(published)
    BY <2>1
  <2>3. published[i] \in Dur /\ published[j] \in Dur
    BY <2>1, <2>2, ElementOfSeq DEF Dur
  <2>4. /\ Sorted(log, Dur, published) /\ ElementsOf(published) \cap Dur \subseteq ElementsOf(log)
    <3>1. 1 \in Lanes
      BY BoundsAssumption DEF Lanes
    <3>2. OrderOK(log, Dur, published, guard.out, deferred.events, OutOf(1), lane[1].step = "deliver")
      BY <3>1 DEF IndInv, OrderInv
    <3> QED BY <3>2 DEF OrderOK
  <2>5. CASE i < j
    <3>1. i \in 1..(j - 1)
      BY <2>1, <2>5
    <3>2. Before(log, published[i], published[j])
      BY <2>3, <2>4, <3>1 DEF Sorted
    <3>3. PICK b \in 1..Len(log) : \E a \in 1..(b - 1) : log[a] = published[i] /\ log[b] = published[j]
      BY <3>2 DEF Before
    <3>4. PICK a \in 1..(b - 1) : log[a] = published[i] /\ log[b] = published[j]
      BY <3>3
    <3>5. a \in 1..b /\ a < b
      BY <2>1
    <3> QED BY <3>4, <3>5
  <2>6. CASE i = j
    <3>1. published[j] \in ElementsOf(log)
      BY <2>3, <2>4 DEF ElementsOf
    <3>2. PICK b \in 1..Len(log) : log[b] = published[j]
      BY <3>1 DEF ElementsOf
    <3>3. b \in 1..b
      BY <2>1
    <3> QED BY <2>1, <2>6, <3>2, <3>3
  <2> QED BY <2>1, <2>5, <2>6
<1> QED BY <1>1, SinkInvariant, PTL

\* Every event readers find in the read model was published, is on its way to the
\* observer, or was given up by a guard that was dropped.
THEOREM CommittedIsOnTheWayAlways == Spec => []CommittedIsOnTheWay
<1>1. IndInv => CommittedIsOnTheWay
  BY DEF IndInv
<1> QED BY <1>1, SinkInvariant, PTL

\* After a release that returned Ok everything visible is fsynced and no doubt is
\* left, whatever was queued behind the Shutdown.
THEOREM ReleasedIsDurableAlways == Spec => []ReleasedIsDurable
<1>1. IndInv => ReleasedIsDurable
  BY DEF IndInv
<1> QED BY <1>1, SinkInvariant, PTL

\* A caller's live event never overtakes a durable event that was acknowledged to
\* the same caller before, although publish_live goes past the lane.
THEOREM DurableBeforeLaterAlways == Spec => []DurableBeforeLater
<1>1. IndInv => DurableBeforeLater
  <2> SUFFICES ASSUME IndInv, NEW j \in 1..Len(published), NEW e \in acked,
                      IsDurable(e), e < published[j], issued[e].from = issued[published[j]].from
               PROVE  e \in guard.lost \cup {published[i] : i \in 1..j}
    BY DEF DurableBeforeLater
  <2>1. published[j] \in Evs /\ e \in Evs
    BY ElementOfSeq DEF IndInv, Types
  <2>2. e \in acked \cap Dur
    BY <2>1 DEF Dur
  <2>3. Follower(From, e, published[j])
    BY <2>1 DEF Follower, From
  <2> QED BY <2>2, <2>3 DEF IndInv, AckInv, AckOK, Upto
<1> QED BY <1>1, SinkInvariant, PTL

=============================================================================
