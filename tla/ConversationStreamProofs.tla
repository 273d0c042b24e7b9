---------------------- MODULE ConversationStreamProofs ----------------------
(***************************************************************************)
(* Proofs about ConversationStream for any ring size, replay limit, number  *)
(* of events, deltas and disconnects.                                       *)
(***************************************************************************)
EXTENDS ConversationStream, TLAPS, FiniteSetTheorems, FunctionTheorems, SequenceTheorems

Kinds == {"start", "fact", "final", "end"}
LiveKinds == {"begin", "delta"}
RecordType == [kind : Kinds, msg : Nat]
Texts == {T \in SUBSET Nat : IsFiniteSet(T)}
StreamingType == [msg : Nat, text : Texts]
EventType == [live : BOOLEAN, seq : Nat, kind : Kinds \cup LiveKinds, msg : Nat, text : Nat]

\* A live event, or the durable event that the log has at its seq.
EventOk(e) ==
    IF e.live THEN e.seq = 0 /\ e.kind \in LiveKinds
    ELSE e.seq \in 1..Len(log) /\ e.kind = log[e.seq].kind

\* What a transient block is plays no role here.
ViewType(T) == [have : SUBSET Nat, control : Nat, transient : T]
ViewOk(v) == (\E T : v \in ViewType(T)) /\ v.have \subseteq 1..Len(log)

LoadType(T) ==
    [state : Int, busy : BOOLEAN, transient : T, gotStream : BOOLEAN, items : Int, page : Int]
LoadOk(d) ==
    /\ \E T : d \in LoadType(T)
    /\ -1 <= d.state /\ d.state <= Len(log)
    /\ -1 <= d.items /\ d.items <= Len(log)
    /\ d.page <= Len(log)
    \* conversation_items reads the page after the cursor
    /\ d.page # -1 => d.items # -1 /\ d.items <= d.page
    /\ d.gotStream => d.state # -1

Types ==
    /\ log \in Seq(RecordType) /\ published \in Nat
    /\ message \in Nat /\ messages \in Nat /\ streaming \in StreamingType
    /\ rx \in Seq(EventType) /\ replay \in Seq(EventType) /\ replayMax \in Nat
    /\ ViewOk(view) /\ LoadOk(load)
    /\ pc \in {"loading", "connecting", "replaying", "sending", "live"}

\* The lane publishes an event before it commits the next.
LaneInv ==
    /\ published <= Len(log) /\ Len(log) <= published + 1
    /\ \A i \in 1..Len(replay) : EventOk(replay[i]) /\ ~replay[i].live

\* The receiver holds published events; behind a durable one come all later ones.
Follows(q, p) ==
    \A i \in 1..Len(q) : ~q[i].live =>
        /\ q[i].seq <= p
        /\ \A n \in q[i].seq..p : \E j \in i..Len(q) : q[j].seq = n

RxInv ==
    /\ \A i \in 1..Len(rx) : EventOk(rx[i])
    /\ Follows(rx, published)
    /\ pc \in {"loading", "connecting"} => rx = << >>

Has(q, n) == \E i \in 1..Len(q) : q[i].seq = n

\* The block of event n is shown, and the control state is not older than n.
Covered(v, n) ==
    n \in v.have /\ (log[n].kind \in {"start", "end"} => n <= v.control)

\* A snapshot covers what is before its cursor.
CursorInv ==
    pc \in {"connecting", "replaying"} =>
        /\ cursor \in Nat /\ cursor <= Len(log)
        /\ 1..cursor \subseteq view.have /\ cursor <= view.control

\* A replay is consecutive and ends at replayMax; what it does not cover any more
\* is covered by the view, and what is newer is in the receiver.
ReplayInv ==
    pc \in {"sending", "live"} =>
        /\ replayMax <= Len(log)
        /\ replay # << >> => replayMax > 0
        /\ \A k \in 1..Len(replay) : replay[k].seq = replayMax - Len(replay) + k
        /\ \A n \in 1..replayMax : Covered(view, n) \/ Has(replay, n)

StreamInv ==
    /\ pc \in {"sending", "live"} => \A n \in 1..published :
           Covered(view, n) \/ lagged \/ Has(rx, n) \/ Has(replay, n)
    /\ pc = "sending" /\ replayMax > 0 => \A n \in 1..published :
           n > replayMax => lagged \/ Has(rx, n)
    /\ pc = "live" => replay = << >>

IndInv == Types /\ LaneInv /\ RxInv /\ CursorInv /\ ReplayInv /\ StreamInv

-----------------------------------------------------------------------------
(* The client. *)

LEMMA LogTypes ==
    ASSUME Types
    PROVE  Len(log) \in Nat /\ Len(rx) \in Nat /\ Len(replay) \in Nat
BY LenProperties DEF Types

LEMMA ViewFacts ==
    ASSUME Types
    PROVE  view.have \in SUBSET Nat /\ view.control \in Nat /\ view.have \subseteq 1..Len(log)
BY DEF Types, ViewOk, ViewType

\* What the reducer does to blocks and control state (applyDelta.ts).
LEMMA AppliedFacts ==
    ASSUME Types, NEW e \in EventType, EventOk(e)
    PROVE  /\ ViewOk(Applied(e))
           /\ view.have \subseteq Applied(e).have
           /\ e.live => Applied(e).have = view.have /\ Applied(e).control = view.control
           /\ ~e.live => /\ Applied(e).have = view.have \cup {e.seq}
                         /\ Applied(e).control =
                              IF log[e.seq].kind \in {"start", "end"} THEN e.seq ELSE view.control
<1>0. Len(log) \in Nat /\ e.seq \in Nat /\ e.live \in BOOLEAN
  BY LogTypes DEF EventType
<1>1. PICK T : view \in ViewType(T)
  BY DEF Types, ViewOk
<1>2. ASSUME ~e.live
      PROVE  log[e.seq].kind \in Kinds /\ e.seq \in 1..Len(log) /\ e.kind = log[e.seq].kind
  <2>1. e.seq \in 1..Len(log) /\ e.kind = log[e.seq].kind
    BY <1>2 DEF EventOk
  <2>2. log[e.seq] \in RecordType
    BY <2>1, ElementOfSeq DEF Types
  <2> QED BY <2>1, <2>2 DEF RecordType
<1>3. CASE e.live
  <2>1. e.kind \in LiveKinds
    BY <1>3 DEF EventOk
  <2>2. PICK t : Applied(e) = [view EXCEPT !.transient = t]
    BY <2>1 DEF LiveKinds, Applied
  <2>3. Applied(e) \in ViewType({t}) /\ Applied(e).have = view.have /\ Applied(e).control = view.control
    BY <1>1, <2>2 DEF ViewType
  <2> QED BY <1>3, <2>3, ViewFacts DEF ViewOk
<1>4. CASE ~e.live
  <2> DEFINE h == view.have \cup {e.seq}
             c == IF log[e.seq].kind \in {"start", "end"} THEN e.seq ELSE view.control
  <2>0. h \in SUBSET Nat /\ h \subseteq 1..Len(log) /\ view.have \subseteq h
    BY <1>0, <1>2, <1>4, ViewFacts
  <2>1. (\E S : Applied(e) \in ViewType(S)) /\ Applied(e).have = h /\ Applied(e).control = c
    <3>1. CASE e.kind = "final"
      <4>1. PICK t : Applied(e) = [view EXCEPT !.have = h, !.transient = t]
        BY <3>1 DEF Applied
      <4>2. c = view.control
        BY <1>2, <1>4, <3>1
      <4> HIDE DEF h, c
      <4>3. Applied(e) \in ViewType({t}) /\ Applied(e).have = h /\ Applied(e).control = c
        BY <1>0, <1>1, <2>0, <4>1, <4>2 DEF ViewType
      <4> QED BY <4>3
    <3>2. CASE e.kind = "end"
      <4>1. PICK t : Applied(e) = [view EXCEPT !.have = h, !.control = e.seq, !.transient = t]
        BY <3>2 DEF Applied
      <4>2. c = e.seq
        BY <1>2, <1>4, <3>2
      <4> HIDE DEF h, c
      <4>3. Applied(e) \in ViewType({t}) /\ Applied(e).have = h /\ Applied(e).control = c
        BY <1>0, <1>1, <2>0, <4>1, <4>2 DEF ViewType
      <4> QED BY <4>3
    <3>3. CASE e.kind = "start"
      <4>1. Applied(e) = [view EXCEPT !.have = h, !.control = e.seq]
        BY <3>3 DEF Applied
      <4>2. c = e.seq
        BY <1>2, <1>4, <3>3
      <4> HIDE DEF h, c
      <4>3. Applied(e) \in ViewType(T) /\ Applied(e).have = h /\ Applied(e).control = c
        BY <1>0, <1>1, <2>0, <4>1, <4>2 DEF ViewType
      <4> QED BY <4>3
    <3>4. CASE e.kind = "fact"
      <4>1. Applied(e) = [view EXCEPT !.have = h]
        BY <3>4 DEF Applied
      <4>2. c = view.control
        BY <1>2, <1>4, <3>4
      <4> HIDE DEF h, c
      <4>3. Applied(e) \in ViewType(T) /\ Applied(e).have = h /\ Applied(e).control = c
        BY <1>0, <1>1, <2>0, <4>1, <4>2 DEF ViewType
      <4> QED BY <4>3
    <3> QED BY <1>2, <1>4, <3>1, <3>2, <3>3, <3>4 DEF Kinds
  <2> QED BY <1>4, <2>0, <2>1 DEF ViewOk
<1> QED BY <1>0, <1>3, <1>4

-----------------------------------------------------------------------------
(* The receiver. *)

LEMMA NonEmpty ==
    ASSUME NEW S, NEW q \in Seq(S), q # << >>
    PROVE  /\ Len(q) \in Nat /\ Len(q) >= 1 /\ Head(q) = q[1] /\ q[1] \in S
           /\ Tail(q) \in Seq(S) /\ Len(Tail(q)) = Len(q) - 1
           /\ \A i \in 1..(Len(q) - 1) : Tail(q)[i] = q[i + 1]
<1>1. Len(q) \in Nat /\ Len(q) # 0
  BY EmptySeq, LenProperties
<1> QED BY <1>1, HeadTailProperties, ElementOfSeq

\* Without its first event.
LEMMA TailFacts ==
    ASSUME NEW q \in Seq(EventType), q # << >>, NEW t, t = Tail(q)
    PROVE  /\ \A p : Follows(q, p) => Follows(t, p)
           /\ \A n : Has(q, n) => n = q[1].seq \/ Has(t, n)
           /\ \A i \in 1..Len(t) : \E j \in 1..Len(q) : t[i] = q[j]
<1>1. /\ Len(q) \in Nat /\ Len(q) >= 1 /\ Len(t) = Len(q) - 1
      /\ \A i \in 1..(Len(q) - 1) : t[i] = q[i + 1]
  BY NonEmpty
<1>2. ASSUME NEW n, NEW j \in 1..Len(q), q[j].seq = n
      PROVE  j = 1 \/ (j - 1 \in 1..Len(t) /\ t[j - 1].seq = n)
  <2>1. CASE j # 1
    <3>1. j - 1 \in 1..(Len(q) - 1) /\ (j - 1) + 1 = j
      BY <1>1, <2>1
    <3> QED BY <1>1, <1>2, <3>1
  <2> QED BY <2>1
<1>3. ASSUME NEW p, Follows(q, p) PROVE Follows(t, p)
  <2> SUFFICES ASSUME NEW i \in 1..Len(t), ~t[i].live
               PROVE  t[i].seq <= p /\ \A n \in t[i].seq..p : \E j \in i..Len(t) : t[j].seq = n
    BY DEF Follows
  <2>1. t[i] = q[i + 1] /\ i + 1 \in 1..Len(q)
    BY <1>1
  <2>2. q[i + 1].seq <= p /\ \A n \in q[i + 1].seq..p : \E j \in (i + 1)..Len(q) : q[j].seq = n
    BY <1>3, <2>1 DEF Follows
  <2>3. ASSUME NEW n \in t[i].seq..p PROVE \E j \in i..Len(t) : t[j].seq = n
    <3>1. PICK j \in (i + 1)..Len(q) : q[j].seq = n
      BY <2>1, <2>2, <2>3
    <3>2. j - 1 \in i..Len(t) /\ j \in 1..Len(q) /\ j # 1
      BY <1>1
    <3> QED BY <1>2, <3>1, <3>2
  <2> QED BY <2>1, <2>2, <2>3
<1>4. \A n : Has(q, n) => n = q[1].seq \/ Has(t, n)
  BY <1>2 DEF Has
<1>5. ASSUME NEW i \in 1..Len(t) PROVE \E j \in 1..Len(q) : t[i] = q[j]
  <2>1. t[i] = q[i + 1] /\ i + 1 \in 1..Len(q)
    BY <1>1
  <2> QED BY <2>1
<1> QED BY <1>3, <1>4, <1>5

\* r is q with one more event e, the next durable one after p or a live one.
Extended(r, q, e, p) ==
    /\ r \in Seq(EventType)
    /\ e.live => Follows(r, p)
    /\ ~e.live /\ e.seq = p + 1 => Follows(r, p + 1)
    /\ \A n : Has(q, n) => Has(r, n)
    /\ Has(r, e.seq)
    /\ \A i \in 1..Len(r) : r[i] = e \/ \E j \in 1..Len(q) : r[i] = q[j]

LEMMA AppendFacts ==
    ASSUME NEW q \in Seq(EventType), NEW e \in EventType, NEW p \in Nat, Follows(q, p)
    PROVE  Extended(Append(q, e), q, e, p)
<1> DEFINE r == Append(q, e)
<1>1. /\ r \in Seq(EventType) /\ Len(q) \in Nat /\ Len(r) = Len(q) + 1
      /\ \A i \in 1..Len(q) : r[i] = q[i]
      /\ r[Len(q) + 1] = e
  BY AppendProperties, LenProperties
<1> HIDE DEF r
<1>2. \A i \in 1..Len(r) : i \in 1..Len(q) \/ i = Len(q) + 1
  BY <1>1
<1>3. \A i \in 1..Len(q) : q[i] \in EventType /\ q[i].seq \in Nat
  <2>1. \A i \in 1..Len(q) : q[i] \in EventType
    BY ElementOfSeq
  <2>2. \A x \in EventType : x.seq \in Nat
    BY DEF EventType
  <2> QED BY <2>1, <2>2
<1>4. ASSUME e.live PROVE Follows(r, p)
  <2> SUFFICES ASSUME NEW i \in 1..Len(r), ~r[i].live
               PROVE  r[i].seq <= p /\ \A n \in r[i].seq..p : \E j \in i..Len(r) : r[j].seq = n
    BY DEF Follows
  <2>1. i \in 1..Len(q) /\ r[i] = q[i]
    BY <1>1, <1>2, <1>4
  <2>2. q[i].seq <= p /\ \A n \in q[i].seq..p : \E j \in i..Len(q) : q[j].seq = n
    BY <2>1 DEF Follows
  <2>3. \A j \in i..Len(q) : j \in i..Len(r) /\ r[j] = q[j]
    BY <1>1, <2>1
  <2> QED BY <2>1, <2>2, <2>3
<1>5. ASSUME ~e.live, e.seq = p + 1 PROVE Follows(r, p + 1)
  <2> SUFFICES ASSUME NEW i \in 1..Len(r), ~r[i].live
               PROVE  /\ r[i].seq <= p + 1
                      /\ \A n \in r[i].seq..(p + 1) : \E j \in i..Len(r) : r[j].seq = n
    BY DEF Follows
  <2>1. CASE i = Len(q) + 1
    <3>1. r[i] = e /\ i \in i..Len(r)
      BY <1>1, <2>1
    <3> QED BY <1>5, <3>1
  <2>2. CASE i \in 1..Len(q)
    <3>1. r[i] = q[i] /\ q[i].seq \in Nat
      BY <1>1, <1>3, <2>2
    <3>2. q[i].seq <= p /\ \A n \in q[i].seq..p : \E j \in i..Len(q) : q[j].seq = n
      BY <2>2, <3>1 DEF Follows
    <3>3. \A j \in i..Len(q) : j \in i..Len(r) /\ r[j] = q[j]
      BY <1>1, <2>2
    <3>4. ASSUME NEW n \in r[i].seq..(p + 1) PROVE \E j \in i..Len(r) : r[j].seq = n
      <4>1. CASE n = p + 1
        <5>1. Len(q) + 1 \in i..Len(r)
          BY <1>1, <2>2
        <5> QED BY <1>1, <1>5, <4>1, <5>1
      <4>2. CASE n # p + 1
        <5>1. n \in q[i].seq..p
          BY <3>1, <3>4, <4>2
        <5> QED BY <3>2, <3>3, <5>1
      <4> QED BY <4>1, <4>2
    <3> QED BY <3>1, <3>2, <3>4
  <2> QED BY <1>2, <2>1, <2>2
<1>6. ASSUME NEW n, Has(q, n) PROVE Has(r, n)
  <2>1. \A i \in 1..Len(q) : i \in 1..Len(r) /\ r[i] = q[i]
    BY <1>1
  <2> QED BY <1>6, <2>1 DEF Has
<1>7. Has(r, e.seq)
  <2>1. Len(q) + 1 \in 1..Len(r)
    BY <1>1
  <2> QED BY <1>1, <2>1 DEF Has
<1>8. \A i \in 1..Len(r) : r[i] = e \/ \E j \in 1..Len(q) : r[i] = q[j]
  BY <1>1, <1>2
<1>9. Extended(r, q, e, p)
  BY <1>1, <1>4, <1>5, <1>6, <1>7, <1>8 DEF Extended
<1> QED BY <1>9 DEF r

-----------------------------------------------------------------------------
(* The session. *)

LEMMA CommitInv ==
    ASSUME IndInv, NEW k \in Kinds, commit(k)
    PROVE  IndInv'
<1> DEFINE e == [kind |-> k, msg |-> IF k = "final" THEN message ELSE NoMessage]
<1>0. Types /\ Len(log) \in Nat /\ published \in Nat
  BY LogTypes DEF IndInv, Types
<1>1. e \in RecordType /\ log' = Append(log, e) /\ log \in Seq(RecordType)
  BY <1>0 DEF RecordType, NoMessage, Types, commit
<1> HIDE DEF e
<1>2. /\ log' \in Seq(RecordType) /\ Len(log') = Len(log) + 1
      /\ \A i \in 1..Len(log) : log'[i] = log[i]
  BY <1>1, AppendProperties
<1>3. /\ published' = published /\ rx' = rx /\ replay' = replay /\ replayMax' = replayMax
      /\ view' = view /\ load' = load /\ pc' = pc /\ cursor' = cursor /\ lagged' = lagged
      /\ streaming' = streaming /\ messages' = messages /\ published = Len(log)
      /\ message' \in Nat
  BY <1>0 DEF commit, stream, Head0, NoMessage, Types
<1>4. \A x : EventOk(x) => EventOk(x)'
  BY <1>0, <1>2 DEF EventOk
<1>5. ViewOk(view)'
  BY <1>0, <1>2, <1>3 DEF Types, ViewOk
<1>6. LoadOk(load)'
  <2>1. load.state \in Int /\ load.items \in Int /\ load.page \in Int
    BY <1>0 DEF Types, LoadOk, LoadType
  <2> QED BY <1>0, <1>2, <1>3, <2>1 DEF Types, LoadOk
<1>7. Types'
  BY <1>0, <1>2, <1>3, <1>5, <1>6 DEF Types
<1>8. LaneInv' /\ RxInv'
  BY <1>0, <1>2, <1>3, <1>4 DEF IndInv, LaneInv, RxInv, Follows
<1>9. ASSUME NEW n \in 1..Len(log), Covered(view, n) PROVE Covered(view, n)'
  BY <1>2, <1>3, <1>9 DEF Covered
<1>10. CursorInv'
  BY <1>0, <1>2, <1>3 DEF IndInv, CursorInv
<1>11. ReplayInv'
  <2> SUFFICES ASSUME pc \in {"sending", "live"} PROVE ReplayInv'
    BY <1>3 DEF ReplayInv
  <2>1. /\ replayMax <= Len(log) /\ replayMax \in Nat /\ (replay # << >> => replayMax > 0)
        /\ \A i \in 1..Len(replay) : replay[i].seq = replayMax - Len(replay) + i
        /\ \A n \in 1..replayMax : Covered(view, n) \/ Has(replay, n)
    BY <1>0 DEF IndInv, ReplayInv, Types
  <2>2. \A n \in 1..replayMax : n \in 1..Len(log)
    BY <1>0, <2>1
  <2>3. \A n \in 1..replayMax : Covered(view, n)' \/ Has(replay, n)'
    BY <1>3, <1>9, <2>1, <2>2 DEF Has
  <2>4. replayMax' <= Len(log')
    BY <1>0, <1>2, <1>3, <2>1
  <2> QED BY <1>3, <2>1, <2>3, <2>4 DEF ReplayInv
<1>12. StreamInv'
  <2>1. \A n \in 1..published : n \in 1..Len(log)
    BY <1>0, <1>3
  <2> QED BY <1>3, <1>9, <2>1 DEF IndInv, StreamInv, Has
<1> QED BY <1>7, <1>8, <1>10, <1>11, <1>12 DEF IndInv

\* An event goes through the bus: the next durable one or a live one.
LEMMA PublishEventInv ==
    ASSUME IndInv, NEW e \in EventType, EventOk(e), log' = log, message' \in Nat, messages' \in Nat,
           \/ e.live /\ published' = published
           \/ ~e.live /\ e.seq = published + 1 /\ published' = published + 1,
           publish_event(e)
    PROVE  IndInv'
<1>0. /\ Types /\ Len(log) \in Nat /\ published \in Nat /\ rx \in Seq(EventType) /\ e.live \in BOOLEAN
      /\ Follows(rx, published) /\ \A i \in 1..Len(rx) : EventOk(rx[i])
  BY LogTypes DEF IndInv, Types, RxInv, EventType
<1>1. /\ replay' = replay /\ replayMax' = replayMax /\ cursor' = cursor
      /\ view' = view /\ load' = load /\ pc' = pc
      /\ send_to_existing_conversation_fanout(e)
  BY DEF publish_event
<1>2. /\ published' \in Nat /\ published <= published' /\ published' <= Len(log)
      /\ Len(log) <= published' + 1 /\ published' <= published + 1
      /\ published' # published => ~e.live /\ e.seq = published + 1
  BY <1>0 DEF EventOk, IndInv, LaneInv
<1>3. streaming' \in StreamingType
  <2>1. streaming \in StreamingType /\ streaming.text \in Texts
    BY <1>0 DEF Types, StreamingType
  <2>2. e.msg \in Nat /\ e.text \in Nat
    BY DEF EventType
  <2>3. {} \in Texts /\ streaming.text \cup {e.text} \in Texts
    BY <2>1, <2>2, FS_EmptySet, FS_AddElement DEF Texts
  <2>4. Nothing \in StreamingType
    BY <2>3 DEF Nothing, StreamingType, NoMessage
  <2>5. [msg |-> e.msg, text |-> {}] \in StreamingType
    BY <2>2, <2>3 DEF StreamingType
  <2>6. [streaming EXCEPT !.text = streaming.text \cup {e.text}] \in StreamingType
    BY <2>1, <2>3 DEF StreamingType
  <2>7. streaming' = update_streaming(e)
    BY DEF publish_event
  <2> QED BY <2>1, <2>4, <2>5, <2>6, <2>7 DEF update_streaming
<1>4. \A x : EventOk(x) => EventOk(x)'
  BY DEF EventOk
<1>5. ViewOk(view)' /\ LoadOk(load)'
  BY <1>0, <1>1 DEF Types, ViewOk, LoadOk
<1>6. /\ rx' \in Seq(EventType)
      /\ \A i \in 1..Len(rx') : EventOk(rx'[i])
      /\ Follows(rx', published')
      /\ \A n : Has(rx, n) => Has(rx', n) \/ lagged'
      /\ lagged => lagged'
      /\ pc \in {"loading", "connecting"} => rx' = << >>
      /\ pc \in {"sending", "live"} => published' = published \/ Has(rx', published + 1)
  <2>1. CASE ~Subscribed
    <3>1. rx' = rx /\ lagged' = lagged
      BY <1>1, <2>1 DEF send_to_existing_conversation_fanout
    <3>2. rx = << >> /\ pc \in {"loading", "connecting"}
      BY <1>0, <2>1 DEF IndInv, Types, RxInv, Subscribed
    <3>3. Follows(<< >>, published')
      BY DEF Follows
    <3> QED BY <1>0, <3>1, <3>2, <3>3
  <2>2. CASE Subscribed /\ Len(rx) # Capacity
    <3> DEFINE r == Append(rx, e)
    <3>1. rx' = r /\ (lagged => lagged')
      BY <1>1, <2>2 DEF send_to_existing_conversation_fanout
    <3>2. Extended(r, rx, e, published)
      BY <1>0, AppendFacts
    <3> HIDE DEF r
    <3>3. \A i \in 1..Len(r) : EventOk(r[i])
      BY <1>0, <3>2 DEF Extended
    <3>4. pc \notin {"loading", "connecting"}
      BY <2>2 DEF Subscribed
    <3>5. Follows(r, published')
      BY <1>0, <1>2, <3>2 DEF Extended
    <3> QED BY <1>2, <3>1, <3>2, <3>3, <3>4, <3>5 DEF Extended
  <2>3. CASE Subscribed /\ Len(rx) = Capacity
    <3> DEFINE t == Tail(rx)
    <3>0. rx # << >>
      BY <2>3, ConversationStreamAssumption, EmptySeq
    <3> DEFINE r == Append(t, e)
    <3>1. rx' = r /\ lagged'
      BY <1>1, <2>3 DEF send_to_existing_conversation_fanout
    <3>2. t \in Seq(EventType) /\ Follows(t, published) /\ \A i \in 1..Len(t) : EventOk(t[i])
      <4>1. t \in Seq(EventType)
        BY <1>0, <3>0, NonEmpty
      <4>2. Follows(t, published) /\ \A i \in 1..Len(t) : \E j \in 1..Len(rx) : t[i] = rx[j]
        BY <1>0, <3>0, TailFacts
      <4> HIDE DEF t
      <4> QED BY <1>0, <4>1, <4>2
    <3> HIDE DEF t
    <3>3. Extended(r, t, e, published)
      BY <1>0, <3>2, AppendFacts
    <3> HIDE DEF r
    <3>4. \A i \in 1..Len(r) : EventOk(r[i])
      BY <3>2, <3>3 DEF Extended
    <3>5. pc \notin {"loading", "connecting"}
      BY <2>3 DEF Subscribed
    <3>6. Follows(r, published')
      BY <1>0, <1>2, <3>3 DEF Extended
    <3> QED BY <1>2, <3>1, <3>3, <3>4, <3>5, <3>6 DEF Extended
  <2> QED BY <2>1, <2>2, <2>3
<1>7. Types'
  BY <1>0, <1>1, <1>2, <1>3, <1>5, <1>6 DEF Types
<1>8. LaneInv' /\ RxInv'
  <2>1. \A i \in 1..Len(replay) : EventOk(replay[i]) /\ ~replay[i].live
    BY DEF IndInv, LaneInv
  <2>2. LaneInv'
    <3>1. (\A i \in 1..Len(replay) : EventOk(replay[i]) /\ ~replay[i].live)'
      BY <1>1, <2>1 DEF EventOk
    <3>2. published' <= Len(log') /\ Len(log') <= published' + 1
      BY <1>2
    <3> QED BY <3>1, <3>2 DEF LaneInv
  <2>3. Follows(rx, published)'
    BY <1>6 DEF Follows
  <2> QED BY <1>1, <1>4, <1>6, <2>2, <2>3 DEF RxInv
<1>9. CursorInv'
  BY <1>1 DEF IndInv, CursorInv
<1>10. ReplayInv'
  BY <1>1 DEF IndInv, ReplayInv, Covered, Has
<1>11. StreamInv'
  <2>1. \A n \in 1..published' : n \in 1..published \/ (n = published + 1 /\ published' # published)
    BY <1>0, <1>2
  <2>2. \A n : Has(replay, n) => Has(replay, n)'
    BY <1>1 DEF Has
  <2>3. \A n : Covered(view, n) => Covered(view, n)'
    BY <1>1 DEF Covered
  <2>4. \A n : Has(rx', n) => Has(rx, n)'
    BY DEF Has
  <2>5. ASSUME pc \in {"sending", "live"}, NEW n \in 1..published'
        PROVE  Covered(view, n)' \/ lagged' \/ Has(rx, n)' \/ Has(replay, n)'
    BY <1>6, <2>1, <2>2, <2>3, <2>4, <2>5 DEF IndInv, StreamInv
  <2>6. ASSUME pc = "sending", replayMax > 0, NEW n \in 1..published', n > replayMax
        PROVE  lagged' \/ Has(rx, n)'
    BY <1>6, <2>1, <2>4, <2>6 DEF IndInv, StreamInv
  <2>7. pc = "live" => replay = << >>
    BY DEF IndInv, StreamInv
  <2> QED BY <1>1, <2>5, <2>6, <2>7 DEF StreamInv
<1> QED BY <1>7, <1>8, <1>9, <1>10, <1>11 DEF IndInv

LEMMA ProducerInv ==
    ASSUME IndInv, publish_durable \/ AssistantMessageStarted \/ AssistantTextDelta
    PROVE  IndInv'
<1>0. /\ Types /\ Len(log) \in Nat /\ published \in Nat /\ message \in Nat /\ messages \in Nat
      /\ log \in Seq(RecordType) /\ streaming \in StreamingType
  BY LogTypes DEF IndInv, Types
<1>1. CASE publish_durable
  <2> DEFINE e == Durable(published + 1)
  <2>1. published + 1 \in 1..Len(log)
    BY <1>0, <1>1 DEF publish_durable, Head0
  <2>2. log[published + 1] \in RecordType
    BY <1>0, <2>1, ElementOfSeq
  <2>3. /\ e \in EventType /\ ~e.live /\ e.seq = published + 1 /\ EventOk(e)
    BY <1>0, <2>1, <2>2 DEF Durable, EventType, EventOk, RecordType
  <2>4. /\ publish_event(e) /\ published' = published + 1
        /\ log' = log /\ message' \in Nat /\ messages' \in Nat
    BY <1>0, <1>1 DEF publish_durable
  <2> HIDE DEF e
  <2> QED BY <2>3, <2>4, PublishEventInv
<1>2. CASE AssistantMessageStarted
  <2> DEFINE e == Live("begin", messages + 1, 0)
  <2>1. e \in EventType /\ e.live /\ EventOk(e)
    BY <1>0 DEF Live, EventType, EventOk, LiveKinds
  <2>2. /\ publish_event(e) /\ published' = published
        /\ log' = log /\ message' \in Nat /\ messages' \in Nat
    BY <1>0, <1>2 DEF AssistantMessageStarted
  <2> HIDE DEF e
  <2> QED BY <2>1, <2>2, PublishEventInv
<1>3. CASE AssistantTextDelta
  <2> DEFINE d == Cardinality(streaming.text) + 1
             e == Live("delta", message, d)
  <2>1. d \in Nat
    BY <1>0, FS_CardinalityType DEF StreamingType, Texts
  <2>2. /\ publish_event(e) /\ published' = published
        /\ log' = log /\ message' \in Nat /\ messages' \in Nat
    BY <1>0, <1>3 DEF AssistantTextDelta
  <2> HIDE DEF d
  <2>3. e \in EventType /\ e.live /\ EventOk(e)
    BY <1>0, <2>1 DEF Live, EventType, EventOk, LiveKinds
  <2> HIDE DEF e
  <2> QED BY <2>2, <2>3, PublishEventInv
<1> QED BY <1>1, <1>2, <1>3

-----------------------------------------------------------------------------
(* The snapshot. *)

\* A request that returns changes nothing but what has been loaded.
LEMMA LoadFrame ==
    ASSUME IndInv, LoadOk(load'), UNCHANGED <<producer, pc, view, cursor, stream, disconnects>>
    PROVE  IndInv'
<1>1. /\ log' = log /\ published' = published /\ message' = message /\ messages' = messages
      /\ streaming' = streaming /\ rx' = rx /\ replay' = replay /\ replayMax' = replayMax
      /\ view' = view /\ pc' = pc /\ cursor' = cursor /\ lagged' = lagged
  BY DEF producer, stream
<1>2. Types'
  <2>1. ViewOk(view)' /\ LoadOk(load)'
    BY <1>1 DEF IndInv, Types, ViewOk, LoadOk
  <2> QED BY <1>1, <2>1 DEF IndInv, Types
<1>3. LaneInv' /\ RxInv'
  BY <1>1 DEF IndInv, LaneInv, RxInv, EventOk, Follows
<1>4. CursorInv' /\ ReplayInv' /\ StreamInv'
  BY <1>1 DEF IndInv, CursorInv, ReplayInv, StreamInv, Covered, Has
<1> QED BY <1>2, <1>3, <1>4 DEF IndInv

LEMMA LoadInv ==
    ASSUME IndInv,
           conversation_state \/ streaming_snapshot \/ conversation_items \/ page_before
    PROVE  IndInv'
<1>0. Types /\ Len(log) \in Nat /\ LoadOk(load)
  BY LogTypes DEF IndInv, Types
<1>1. PICK T : load \in LoadType(T)
  BY <1>0 DEF LoadOk
<1>2. CASE conversation_state
  <2>1. TurnRuns \in BOOLEAN
    BY DEF TurnRuns, Unsettled
  <2>2. PICK b \in BOOLEAN : load' = [load EXCEPT !.state = Len(log), !.busy = b]
    BY <1>2, <2>1, Zenon DEF conversation_state, Head0
  <2>3. load' \in LoadType(T) /\ load'.state = Len(log) /\ load'.items = load.items
        /\ load'.page = load.page /\ load'.gotStream = load.gotStream
    <3> DEFINE m == [load EXCEPT !.state = Len(log)]
    <3>1. /\ m \in LoadType(T) /\ m.state = Len(log) /\ m.items = load.items
          /\ m.page = load.page /\ m.gotStream = load.gotStream
      BY <1>0, <1>1 DEF LoadType
    <3>2. load' = [m EXCEPT !.busy = b]
      BY <2>2, Zenon
    <3> HIDE DEF m
    <3>3. load' \in LoadType(T) /\ load'.state = m.state /\ load'.items = m.items
          /\ load'.page = m.page /\ load'.gotStream = m.gotStream
      BY <3>1, <3>2 DEF LoadType
    <3> QED BY <3>1, <3>3
  <2>4. LoadOk(load')
    BY <1>0, <1>1, <2>3 DEF LoadOk, LoadType
  <2> QED BY <1>2, <2>4, LoadFrame DEF conversation_state
<1>3. CASE streaming_snapshot
  <2>1. PICK t : load' = [load EXCEPT !.gotStream = TRUE, !.transient = t]
    BY <1>3 DEF streaming_snapshot
  <2>2. load' \in LoadType({t}) /\ load'.state = load.state /\ load'.items = load.items
        /\ load'.page = load.page
    BY <1>0, <1>1, <2>1 DEF LoadType
  <2>3. load.state # -1
    BY <1>3 DEF streaming_snapshot, Unknown
  <2>4. LoadOk(load')
    BY <1>0, <1>1, <2>2, <2>3 DEF LoadOk, LoadType
  <2> QED BY <1>3, <2>4, LoadFrame DEF streaming_snapshot
<1>4. CASE conversation_items
  <2>0. load.items = -1
    BY <1>4 DEF conversation_items, Unknown
  <2>1. load' = [load EXCEPT !.items = Len(log)]
    BY <1>4, Zenon DEF conversation_items, Loading, Head0
  <2>2. load' \in LoadType(T) /\ load'.state = load.state /\ load'.items = Len(log)
        /\ load'.page = load.page /\ load'.gotStream = load.gotStream
    BY <1>0, <1>1, <2>1 DEF LoadType
  <2>3. LoadOk(load')
    BY <1>0, <1>1, <2>0, <2>2 DEF LoadOk, LoadType
  <2> QED BY <1>4, <2>3, LoadFrame DEF conversation_items, Loading
<1>5. CASE page_before
  <2>0. load.items # -1
    BY <1>5 DEF page_before, Unknown
  <2>1. load' = [load EXCEPT !.page = Len(log)]
    BY <1>5, Zenon DEF page_before, Loading, Head0
  <2>2. load' \in LoadType(T) /\ load'.state = load.state /\ load'.items = load.items
        /\ load'.page = Len(log) /\ load'.gotStream = load.gotStream
    BY <1>0, <1>1, <2>1 DEF LoadType
  <2>3. LoadOk(load')
    BY <1>0, <1>1, <2>0, <2>2 DEF LoadOk, LoadType
  <2> QED BY <1>5, <2>3, LoadFrame DEF page_before, Loading
<1> QED BY <1>2, <1>3, <1>4, <1>5

LEMMA BuildInv ==
    ASSUME IndInv, buildConversationView
    PROVE  IndInv'
<1>0. /\ Types /\ Len(log) \in Nat /\ LoadOk(load) /\ pc = "loading" /\ load.gotStream
      /\ load.page # -1
  BY LogTypes DEF IndInv, Types, buildConversationView, Unknown
<1>1. /\ load.state \in Nat /\ load.items \in Nat /\ load.page \in Nat
      /\ load.state <= Len(log) /\ load.items <= load.page /\ load.page <= Len(log)
  BY <1>0 DEF LoadOk, LoadType
<1>2. /\ log' = log /\ published' = published /\ message' = message /\ messages' = messages
      /\ streaming' = streaming /\ rx' = rx /\ replay' = replay /\ replayMax' = replayMax
      /\ pc' = "connecting" /\ load' = NotLoaded
  BY DEF buildConversationView, producer, stream
<1>3. PICK t : view' = [have |-> 1..load.page, control |-> load.state, transient |-> t]
  BY DEF buildConversationView
<1>4. /\ view' \in ViewType({t}) /\ view'.have = 1..load.page /\ view'.control = load.state
  <2>1. 1..load.page \in SUBSET Nat
    BY <1>1
  <2> QED BY <1>1, <1>3, <2>1 DEF ViewType
<1>5. ViewOk(view)'
  <2>1. 1..load.page \subseteq 1..Len(log')
    BY <1>0, <1>1, <1>2
  <2> QED BY <1>4, <2>1 DEF ViewOk
<1>6. LoadOk(load)'
  <2>1. NotLoaded \in LoadType({{}})
    BY DEF NotLoaded, LoadType, Unknown
  <2>2. LoadOk(NotLoaded)'
    BY <1>0, <1>2, <2>1 DEF NotLoaded, LoadOk, Unknown
  <2> QED BY <1>2, <2>2
<1>7. Types'
  BY <1>0, <1>2, <1>5, <1>6 DEF Types
<1>8. LaneInv' /\ RxInv'
  BY <1>0, <1>2 DEF IndInv, LaneInv, RxInv, EventOk, Follows
<1>9. CursorInv'
  <2>1. cursor' = IF load.state < load.items THEN load.state ELSE load.items
    BY DEF buildConversationView
  <2>2. cursor' \in Nat /\ cursor' <= load.page /\ cursor' <= load.state
    BY <1>1, <2>1
  <2>3. 1..cursor' \subseteq 1..load.page
    BY <1>1, <2>2
  <2> QED BY <1>0, <1>1, <1>2, <1>4, <2>2, <2>3 DEF CursorInv
<1>10. ReplayInv' /\ StreamInv'
  BY <1>2 DEF ReplayInv, StreamInv
<1> QED BY <1>7, <1>8, <1>9, <1>10 DEF IndInv

-----------------------------------------------------------------------------
(* The stream. *)

LEMMA SubscribeInv ==
    ASSUME IndInv, subscribe_conversation_events
    PROVE  IndInv'
<1>1. /\ log' = log /\ published' = published /\ message' = message /\ messages' = messages
      /\ streaming' = streaming /\ rx' = rx /\ replay' = replay /\ replayMax' = replayMax
      /\ view' = view /\ load' = load /\ cursor' = cursor /\ pc = "connecting" /\ pc' = "replaying"
  BY DEF subscribe_conversation_events, producer, stream
<1>2. ViewOk(view)' /\ LoadOk(load)'
  BY <1>1 DEF IndInv, Types, ViewOk, LoadOk
<1>3. Types'
  BY <1>1, <1>2 DEF IndInv, Types
<1>4. LaneInv' /\ RxInv'
  BY <1>1 DEF IndInv, LaneInv, RxInv, EventOk, Follows
<1>5. CursorInv' /\ ReplayInv' /\ StreamInv'
  BY <1>1 DEF IndInv, CursorInv, ReplayInv, StreamInv
<1> QED BY <1>3, <1>4, <1>5 DEF IndInv

\* The stream is over and nothing of it is left.
LEMMA EndedInv ==
    ASSUME IndInv, Ended
    PROVE  IndInv'
<1>1. /\ log' = log /\ published' = published /\ message' = message /\ messages' = messages
      /\ streaming' = streaming /\ rx' = << >> /\ replay' = << >> /\ replayMax' = 0
      /\ view' = view /\ load' = load /\ cursor' = cursor /\ pc' = "loading"
  BY DEF Ended, producer
<1>2. ViewOk(view)' /\ LoadOk(load)'
  BY <1>1 DEF IndInv, Types, ViewOk, LoadOk
<1>3. << >> \in Seq(EventType) /\ Len(<< >>) = 0
  OBVIOUS
<1>4. Types'
  BY <1>1, <1>2, <1>3 DEF IndInv, Types
<1>5. LaneInv' /\ RxInv'
  BY <1>1, <1>3 DEF IndInv, LaneInv, RxInv, Follows
<1>6. CursorInv' /\ ReplayInv' /\ StreamInv'
  BY <1>1 DEF CursorInv, ReplayInv, StreamInv
<1> QED BY <1>4, <1>5, <1>6 DEF IndInv

-----------------------------------------------------------------------------
(* Retain: the rank of a position among the retained ones is increasing. *)

\* q lists the elements of s at the positions K in their order.
Lists(q, s, K) ==
    \E n \in Nat : \E e \in [1..n -> K] :
        /\ \A i, j \in 1..n : i < j => e[i] < e[j]
        /\ \A k \in K : \E j \in 1..n : e[j] = k
        /\ Len(q) = n
        /\ \A j \in 1..n : q[j] = s[e[j]]

\* What Retain returns.
LEMMA RetainFacts ==
    ASSUME NEW S, NEW s \in Seq(S), NEW K, K \subseteq 1..Len(s)
    PROVE  Retain(s, K) \in Seq(S) /\ Lists(Retain(s, K), s, K)
<1> DEFINE Upto(k) == {m \in K : m <= k}
           n == Cardinality(K)
           r == [k \in K |-> Cardinality(Upto(k))]
           e == [j \in 1..n |-> CHOOSE k \in K : Cardinality(Upto(k)) = j]
<1>0. Len(s) \in Nat /\ \A k \in 1..Len(s) : s[k] \in S
  BY LenProperties
<1>1. IsFiniteSet(K) /\ n \in Nat
  <2>1. IsFiniteSet(1..Len(s))
    BY <1>0, FS_Interval
  <2> QED BY <2>1, FS_Subset, FS_CardinalityType
<1>2. \A k \in K : IsFiniteSet(Upto(k)) /\ Cardinality(Upto(k)) \in 1..n
  <2> TAKE k \in K
  <2>1. Upto(k) \in SUBSET K /\ k \in Upto(k)
    BY <1>0
  <2>2. IsFiniteSet(Upto(k)) /\ Cardinality(Upto(k)) <= n
    BY <1>1, <2>1, FS_Subset
  <2>3. Cardinality(Upto(k)) \in Nat /\ Cardinality(Upto(k)) # 0
    BY <2>1, <2>2, FS_CardinalityType, FS_EmptySet
  <2> HIDE DEF Upto, n
  <2> QED BY <1>1, <2>2, <2>3
<1>3. \A k, l \in K : k < l => Cardinality(Upto(k)) < Cardinality(Upto(l))
  <2> SUFFICES ASSUME NEW k \in K, NEW l \in K, k < l
               PROVE  Cardinality(Upto(k)) < Cardinality(Upto(l))
    OBVIOUS
  <2>0. \A m \in K : m \in Int
    BY <1>0
  <2>1. Upto(k) \in SUBSET Upto(l) /\ l \in Upto(l) /\ l \notin Upto(k)
    <3>1. \A m \in K : m <= k => m <= l
      BY <2>0
    <3>2. l <= l /\ ~(l <= k)
      BY <2>0
    <3> QED BY <3>1, <3>2
  <2>2. Cardinality(Upto(k)) <= Cardinality(Upto(l)) /\ Cardinality(Upto(l)) # Cardinality(Upto(k))
    BY <1>2, <2>1, FS_Subset
  <2> HIDE DEF Upto, n
  <2> QED BY <1>2, <2>2
<1>4. r \in [K -> 1..n]
  BY <1>2
<1>5. \A k, l \in K : r[k] = r[l] => k = l
  <2> SUFFICES ASSUME NEW k \in K, NEW l \in K, k # l PROVE r[k] # r[l]
    OBVIOUS
  <2>1. k < l \/ l < k
    BY <1>0
  <2>2. r[k] = Cardinality(Upto(k)) /\ r[l] = Cardinality(Upto(l))
    OBVIOUS
  <2>3. Cardinality(Upto(k)) \in 1..n /\ Cardinality(Upto(l)) \in 1..n
    BY <1>2
  <2> HIDE DEF Upto, n, r
  <2> QED BY <1>1, <1>3, <2>1, <2>2, <2>3
<1>6. \A j \in 1..n : \E k \in K : r[k] = j
  <2>1. r \in Injection(K, 1..n)
    BY <1>4, <1>5 DEF Injection, IsInjective
  <2>2. IsFiniteSet(1..n) /\ Cardinality(1..n) = n
    BY <1>1, FS_Interval
  <2>3. r \in Surjection(K, 1..n)
    <3> HIDE DEF r, n
    <3>1. n = Cardinality(K)
      BY DEF n
    <3> QED BY <2>1, <2>2, <3>1, FS_Injection
  <2> HIDE DEF r, n
  <2> QED BY <2>3 DEF Surjection
<1>7. \A j \in 1..n : e[j] \in K /\ r[e[j]] = j
  <2> TAKE j \in 1..n
  <2>1. \E k \in K : Cardinality(Upto(k)) = j
    BY <1>6
  <2>2. e[j] \in K /\ Cardinality(Upto(e[j])) = j
    BY <2>1
  <2> QED BY <2>2
<1>8. e \in [1..n -> K]
  BY <1>7
<1>9. \A i, j \in 1..n : i < j => e[i] < e[j]
  <2> SUFFICES ASSUME NEW i \in 1..n, NEW j \in 1..n, i < j PROVE e[i] < e[j]
    OBVIOUS
  <2>1. e[i] \in K /\ e[j] \in K /\ r[e[i]] = i /\ r[e[j]] = j
    <3> HIDE DEF e, r, n
    <3> QED BY <1>7
  <2>2. \A k \in K : r[k] = Cardinality(Upto(k))
    OBVIOUS
  <2> HIDE DEF e, r, n
  <2>3. e[j] < e[i] => r[e[j]] < r[e[i]]
    <3> HIDE DEF Upto
    <3> QED BY <1>3, <2>1, <2>2
  <2>4. e[i] \in Int /\ e[j] \in Int /\ i \in Int /\ j \in Int
    <3>1. \A k \in K : k \in Int
      BY <1>0
    <3>2. i \in Int /\ j \in Int
      BY <1>1
    <3> QED BY <2>1, <3>1, <3>2
  <2> HIDE DEF Upto
  <2> QED BY <2>1, <2>3, <2>4
<1>10. \A k \in K : \E j \in 1..n : e[j] = k
  <2> TAKE k \in K
  <2>1. r[k] \in 1..n
    BY <1>4
  <2>2. e[r[k]] = k
    <3> HIDE DEF e, r, n
    <3> QED BY <1>5, <1>7, <2>1
  <2> HIDE DEF e, r, n
  <2> QED BY <2>1, <2>2
<1>11. Retain(s, K) = [j \in 1..n |-> s[e[j]]]
  BY DEF Retain
<1>12. Retain(s, K) \in Seq(S) /\ Len(Retain(s, K)) = n /\ \A j \in 1..n : Retain(s, K)[j] = s[e[j]]
  <2>1. \A j \in 1..n : s[e[j]] \in S
    BY <1>0, <1>7
  <2> HIDE DEF e, n
  <2> QED BY <1>1, <1>11, <2>1
<1> HIDE DEF e, n
<1> QED BY <1>1, <1>8, <1>9, <1>10, <1>12 DEF Lists

\* Dropping live events and the durable ones up to m keeps the later durable ones.
Drained(r, q, p, m) ==
    /\ Follows(r, p)
    /\ \A n \in Nat : n > m /\ Has(q, n) => Has(r, n)
    /\ \A i \in 1..Len(r) : \E j \in 1..Len(q) : r[i] = q[j]

LEMMA DrainFacts ==
    ASSUME NEW q \in Seq(EventType), NEW p \in Nat, Follows(q, p), NEW m \in Nat,
           \A i \in 1..Len(q) : q[i].live => q[i].seq = 0,
           NEW K, K = {i \in 1..Len(q) : ~q[i].live /\ q[i].seq > m},
           NEW r \in Seq(EventType), Lists(r, q, K)
    PROVE  Drained(r, q, p, m)
<1>0. Len(q) \in Nat /\ \A i \in 1..Len(q) : q[i].seq \in Nat
  <2>1. \A i \in 1..Len(q) : q[i] \in EventType
    BY ElementOfSeq
  <2>2. \A x \in EventType : x.seq \in Nat
    BY DEF EventType
  <2> QED BY <2>1, <2>2, LenProperties
<1> DEFINE l == Len(r)
<1>1. PICK e \in [1..l -> K] :
        /\ l \in Nat
        /\ \A i, j \in 1..l : i < j => e[i] < e[j]
        /\ \A k \in K : \E j \in 1..l : e[j] = k
        /\ \A j \in 1..l : r[j] = q[e[j]]
  <2>1. PICK m0 \in Nat : \E e \in [1..m0 -> K] :
        /\ \A i, j \in 1..m0 : i < j => e[i] < e[j]
        /\ \A k \in K : \E j \in 1..m0 : e[j] = k
        /\ Len(r) = m0
        /\ \A j \in 1..m0 : r[j] = q[e[j]]
    BY Zenon DEF Lists
  <2>2. l = m0
    BY <2>1
  <2> QED BY <2>1, <2>2
<1>2. \A i \in 1..l : e[i] \in 1..Len(q) /\ ~q[e[i]].live /\ q[e[i]].seq > m
  BY <1>1
<1>3. \A k \in 1..Len(q), n \in Nat : n > m /\ q[k].seq = n => k \in K
  BY <1>0
<1>4. ASSUME NEW i \in 1..Len(r), ~r[i].live
      PROVE  r[i].seq <= p /\ \A n \in r[i].seq..p : \E j \in i..Len(r) : r[j].seq = n
  <2> DEFINE k == e[i]
  <2>1. /\ k \in 1..Len(q) /\ ~q[k].live /\ q[k].seq > m /\ q[k].seq \in Nat /\ r[i] = q[k]
        /\ i \in 1..l
    BY <1>0, <1>1, <1>2
  <2> HIDE DEF k
  <2>2. q[k].seq <= p /\ \A n \in q[k].seq..p : \E j \in k..Len(q) : q[j].seq = n
    BY <2>1 DEF Follows
  <2>3. ASSUME NEW n \in r[i].seq..p PROVE \E j \in i..Len(r) : r[j].seq = n
    <3>1. n \in Nat /\ n > m /\ n \in q[k].seq..p
      BY <2>1
    <3>2. PICK h \in k..Len(q) : q[h].seq = n
      BY <2>2, <3>1
    <3>3. h \in 1..Len(q) /\ h >= k
      BY <1>0, <2>1
    <3>4. PICK j \in 1..l : e[j] = h
      BY <1>1, <1>3, <3>1, <3>2, <3>3
    <3>5. ~(j < i)
      <4>1. j < i => e[j] < e[i]
        BY <1>1, <2>1
      <4> QED BY <1>0, <2>1, <3>3, <3>4, <4>1 DEF k
    <3>6. j \in i..Len(r) /\ r[j].seq = n
      BY <1>1, <2>1, <3>2, <3>4, <3>5
    <3> QED BY <3>6
  <2> QED BY <2>1, <2>2, <2>3
<1>5. ASSUME NEW n \in Nat, n > m, Has(q, n) PROVE Has(r, n)
  <2>1. PICK k \in 1..Len(q) : q[k].seq = n
    BY <1>5 DEF Has
  <2>2. PICK j \in 1..l : e[j] = k
    BY <1>1, <1>3, <1>5, <2>1
  <2> QED BY <1>1, <2>1, <2>2 DEF Has
<1>6. Follows(r, p)
  BY <1>4 DEF Follows
<1> QED BY <1>1, <1>2, <1>5, <1>6 DEF Drained

-----------------------------------------------------------------------------
(* What the stream sends. *)

\* Applying an event covers it and uncovers nothing up to it.
LEMMA AppliedCovers ==
    ASSUME Types, NEW e \in EventType, EventOk(e), NEW n \in Nat
    PROVE  /\ e.live /\ Covered(view, n) => Covered(Applied(e), n)
           /\ ~e.live /\ n < e.seq /\ Covered(view, n) => Covered(Applied(e), n)
           /\ ~e.live => Covered(Applied(e), e.seq)
<1> DEFINE v == Applied(e)
<1>1. /\ e.live => v.have = view.have /\ v.control = view.control
      /\ ~e.live => /\ v.have = view.have \cup {e.seq}
                    /\ v.control = IF log[e.seq].kind \in {"start", "end"} THEN e.seq ELSE view.control
  BY AppliedFacts
<1>2. e.seq \in Nat /\ view.control \in Nat
  BY ViewFacts DEF EventType
<1> HIDE DEF v
<1>3. /\ e.live /\ Covered(view, n) => Covered(v, n)
      /\ ~e.live /\ n < e.seq /\ Covered(view, n) => Covered(v, n)
      /\ ~e.live => Covered(v, e.seq)
  BY <1>1, <1>2 DEF Covered
<1> QED BY <1>3 DEF v

LEMMA ReplayAfterCursorInv ==
    ASSUME IndInv, replay_after_cursor
    PROVE  IndInv'
<1> DEFINE d == Len(log) - cursor
<1>0. /\ Types /\ Len(log) \in Nat /\ pc = "replaying" /\ log \in Seq(RecordType)
      /\ published \in Nat /\ published <= Len(log)
  BY LogTypes DEF IndInv, Types, LaneInv, replay_after_cursor
<1>1. /\ log' = log /\ published' = published /\ message' = message /\ messages' = messages
      /\ streaming' = streaming /\ rx' = rx /\ lagged' = lagged
      /\ view' = view /\ load' = load /\ cursor' = cursor /\ pc' = "sending"
      /\ replay' = [k \in 1..d |-> Durable(cursor + k)]
      /\ replayMax' = IF Len(log) > cursor THEN Len(log) ELSE 0
  BY DEF replay_after_cursor, producer, Head0
<1>2. /\ cursor \in Nat /\ cursor <= Len(log)
      /\ 1..cursor \subseteq view.have /\ cursor <= view.control
  BY <1>0 DEF IndInv, CursorInv
<1>3. d \in Nat /\ \A k \in 1..d : cursor + k \in 1..Len(log)
  BY <1>0, <1>2
<1>4. \A k \in 1..d : /\ Durable(cursor + k) \in EventType /\ ~Durable(cursor + k).live
                      /\ Durable(cursor + k).seq = cursor + k /\ EventOk(Durable(cursor + k))
  <2> SUFFICES ASSUME NEW n \in 1..Len(log)
               PROVE  /\ Durable(n) \in EventType /\ ~Durable(n).live
                      /\ Durable(n).seq = n /\ EventOk(Durable(n))
    BY <1>3
  <2>1. log[n] \in RecordType
    BY <1>0, ElementOfSeq
  <2> QED BY <1>0, <2>1 DEF Durable, EventType, EventOk, RecordType
<1>5. /\ replay' \in Seq(EventType) /\ Len(replay') = d
      /\ \A k \in 1..d : replay'[k].seq = cursor + k /\ EventOk(replay'[k]) /\ ~replay'[k].live
  <2> DEFINE D(k) == Durable(cursor + k)
  <2>1. replay' = [k \in 1..d |-> D(k)] /\ \A k \in 1..d : D(k) \in EventType
    BY <1>1, <1>4
  <2> HIDE DEF D, d
  <2>2. replay' \in Seq(EventType) /\ Len(replay') = d /\ \A k \in 1..d : replay'[k] = D(k)
    BY <1>3, <2>1
  <2> QED BY <1>4, <2>2 DEF D
<1>6. ViewOk(view)' /\ LoadOk(load)' /\ replayMax' \in Nat
  BY <1>0, <1>1 DEF Types, ViewOk, LoadOk
<1>7. Types'
  BY <1>0, <1>1, <1>5, <1>6 DEF Types
<1>8. LaneInv' /\ RxInv'
  <2>1. (\A i \in 1..Len(replay) : EventOk(replay[i]) /\ ~replay[i].live)'
    BY <1>1, <1>5 DEF EventOk
  <2>2. LaneInv'
    BY <1>1, <2>1 DEF IndInv, LaneInv
  <2>3. RxInv'
    BY <1>0, <1>1 DEF IndInv, RxInv, EventOk, Follows
  <2> QED BY <2>2, <2>3
<1>9. CursorInv'
  BY <1>1 DEF CursorInv
<1>10. \A n \in 1..Len(log) : Covered(view, n)' \/ Has(replay, n)'
  <2> TAKE n \in 1..Len(log)
  <2>1. CASE n <= cursor
    <3>1. n \in view.have /\ n <= view.control
      BY <1>0, <1>2, <2>1, ViewFacts
    <3> QED BY <1>1, <3>1 DEF Covered
  <2>2. CASE n > cursor
    <3>1. n - cursor \in 1..d /\ cursor + (n - cursor) = n
      BY <1>0, <1>2, <2>2
    <3> HIDE DEF d
    <3>2. n - cursor \in 1..Len(replay') /\ replay'[n - cursor].seq = n
      BY <1>5, <3>1
    <3> QED BY <3>2 DEF Has
  <2> QED BY <1>0, <1>2, <2>1, <2>2
<1>11. replayMax' <= Len(log') /\ (d = 0 => replayMax' = 0) /\ (d > 0 => replayMax' = Len(log))
  BY <1>0, <1>1, <1>2
<1>12. ReplayInv'
  <2>1. replay' # << >> => replayMax' > 0
    <3>1. replay' # << >> => d # 0
      BY <1>5, EmptySeq
    <3> QED BY <1>0, <1>2, <1>3, <1>11, <3>1
  <2>2. \A k \in 1..Len(replay') : replay'[k].seq = replayMax' - Len(replay') + k
    <3>1. \A k \in 1..d : cursor + k = replayMax' - d + k
      BY <1>0, <1>2, <1>11
    <3> HIDE DEF d
    <3> QED BY <1>5, <3>1
  <2>3. \A n \in 1..replayMax' : Covered(view, n)' \/ Has(replay, n)'
    BY <1>0, <1>1, <1>6, <1>10, <1>11
  <2> QED BY <1>11, <2>1, <2>2, <2>3 DEF ReplayInv
<1>13. StreamInv'
  <2>1. \A n \in 1..published' : Covered(view, n)' \/ Has(replay, n)'
    BY <1>0, <1>1, <1>10
  <2>2. replayMax' > 0 => \A n \in 1..published' : ~(n > replayMax')
    BY <1>0, <1>1, <1>2
  <2> QED BY <1>1, <2>1, <2>2 DEF StreamInv
<1> QED BY <1>7, <1>8, <1>9, <1>12, <1>13 DEF IndInv

LEMMA ReplayStreamInv ==
    ASSUME IndInv, replay_stream
    PROVE  IndInv'
<1> DEFINE e == replay[1]
           t == Tail(replay)
           v == Applied(e)
<1>0. /\ Types /\ Len(log) \in Nat /\ pc = "sending" /\ replay \in Seq(EventType)
      /\ replay # << >> /\ published \in Nat /\ published <= Len(log) /\ replayMax \in Nat
  BY LogTypes DEF IndInv, Types, LaneInv, replay_stream
<1>1. /\ Len(replay) \in Nat /\ Len(replay) >= 1 /\ Head(replay) = e /\ e \in EventType
      /\ t \in Seq(EventType) /\ Len(t) = Len(replay) - 1
      /\ \A i \in 1..(Len(replay) - 1) : t[i] = replay[i + 1]
  BY <1>0, NonEmpty
<1>2. /\ log' = log /\ published' = published /\ message' = message /\ messages' = messages
      /\ streaming' = streaming /\ rx' = rx /\ lagged' = lagged
      /\ view' = v /\ load' = load /\ pc' = pc
      /\ replay' = t /\ replayMax' = replayMax
  BY <1>1 DEF replay_stream, producer
<1>3. /\ \A i \in 1..Len(replay) : EventOk(replay[i]) /\ ~replay[i].live
      /\ replayMax <= Len(log) /\ replayMax > 0
      /\ \A k \in 1..Len(replay) : replay[k].seq = replayMax - Len(replay) + k
      /\ \A n \in 1..replayMax : Covered(view, n) \/ Has(replay, n)
  BY <1>0 DEF IndInv, LaneInv, ReplayInv
<1>4. EventOk(e) /\ ~e.live /\ e.seq = replayMax - Len(replay) + 1 /\ e.seq \in Nat
  BY <1>1, <1>3 DEF EventType
<1>5. ViewOk(v) /\ Covered(v, e.seq) /\ \A n \in Nat : n < e.seq /\ Covered(view, n) => Covered(v, n)
  BY <1>0, <1>1, <1>4, AppliedFacts, AppliedCovers
<1> HIDE DEF e, t, v
<1>6. \A i \in 1..Len(t) : /\ i + 1 \in 1..Len(replay) /\ t[i] = replay[i + 1]
                           /\ t[i].seq = replayMax - Len(t) + i
  <2> TAKE i \in 1..Len(t)
  <2>1. i + 1 \in 1..Len(replay) /\ t[i] = replay[i + 1]
    BY <1>1
  <2> QED BY <1>0, <1>1, <1>3, <2>1
<1>7. ViewOk(view)' /\ LoadOk(load)'
  BY <1>0, <1>2, <1>5 DEF Types, ViewOk, LoadOk
<1>8. Types'
  BY <1>0, <1>1, <1>2, <1>7 DEF Types
<1>9. LaneInv' /\ RxInv'
  <2>1. \A i \in 1..Len(t) : EventOk(t[i]) /\ ~t[i].live
    BY <1>3, <1>6
  <2>2. (\A i \in 1..Len(replay) : EventOk(replay[i]) /\ ~replay[i].live)'
    BY <1>2, <2>1 DEF EventOk
  <2>3. LaneInv'
    BY <1>2, <2>2 DEF IndInv, LaneInv
  <2>4. RxInv'
    BY <1>2 DEF IndInv, RxInv, EventOk, Follows
  <2> QED BY <2>3, <2>4
<1>10. CursorInv'
  BY <1>0, <1>2 DEF CursorInv
<1>11. \A n \in 1..replayMax : Covered(v, n) \/ Has(t, n)
  <2> TAKE n \in 1..replayMax
  <2>1. CASE n < e.seq
    <3>1. ~Has(replay, n)
      <4>1. \A i \in 1..Len(replay) : replay[i].seq >= e.seq
        BY <1>0, <1>1, <1>3, <1>4
      <4> QED BY <1>4, <2>1, <4>1 DEF Has
    <3> QED BY <1>3, <1>5, <2>1, <3>1
  <2>2. CASE n = e.seq
    BY <1>5, <2>2
  <2>3. CASE n > e.seq
    <3> DEFINE i == n - e.seq
    <3>1. i \in 1..Len(t) /\ replayMax - Len(t) + i = n
      BY <1>0, <1>1, <1>4, <2>3
    <3> HIDE DEF i
    <3>2. t[i].seq = n
      BY <1>6, <3>1
    <3> QED BY <3>1, <3>2 DEF Has
  <2> QED BY <1>4, <2>1, <2>2, <2>3
<1>12. \A n \in 1..replayMax : Covered(view, n)' \/ Has(replay, n)'
  <2>1. \A n : Covered(v, n) => Covered(view, n)'
    BY <1>2 DEF Covered
  <2>2. \A n : Has(t, n) => Has(replay, n)'
    BY <1>2 DEF Has
  <2> QED BY <1>11, <2>1, <2>2
<1>13. ReplayInv'
  BY <1>0, <1>2, <1>3, <1>6, <1>12 DEF ReplayInv
<1>14. StreamInv'
  <2>1. \A n \in 1..published : n > replayMax => lagged \/ Has(rx, n)
    BY <1>0, <1>3 DEF IndInv, StreamInv
  <2>2. \A n : Has(rx, n) => Has(rx, n)'
    BY <1>2 DEF Has
  <2>3. \A n \in 1..published : n \in 1..replayMax \/ n > replayMax
    BY <1>0
  <2> QED BY <1>0, <1>2, <1>12, <2>1, <2>2, <2>3 DEF StreamInv
<1> QED BY <1>8, <1>9, <1>10, <1>13, <1>14 DEF IndInv

LEMMA DrainInv ==
    ASSUME IndInv, drain_stale_live_events
    PROVE  IndInv'
<1>0. /\ Types /\ Len(log) \in Nat /\ pc = "sending" /\ replay = << >> /\ Len(replay) = 0
      /\ rx \in Seq(EventType) /\ published \in Nat /\ replayMax \in Nat
      /\ Follows(rx, published) /\ \A i \in 1..Len(rx) : EventOk(rx[i])
  BY LogTypes DEF IndInv, Types, RxInv, drain_stale_live_events
<1>1. /\ log' = log /\ published' = published /\ message' = message /\ messages' = messages
      /\ streaming' = streaming /\ lagged' = lagged /\ view' = view /\ load' = load
      /\ pc' = "live" /\ replay' = replay /\ replayMax' = replayMax
  BY DEF drain_stale_live_events, producer
<1>2. \A n \in 1..replayMax : Covered(view, n)
  BY <1>0 DEF IndInv, ReplayInv, Has
<1>3. /\ rx' \in Seq(EventType) /\ Follows(rx', published)
      /\ \A i \in 1..Len(rx') : EventOk(rx'[i])
      /\ \A n \in 1..published : Covered(view, n) \/ lagged \/ Has(rx', n)
  <2>1. CASE replayMax = 0
    <3>1. rx' = rx
      BY <2>1 DEF drain_stale_live_events
    <3>2. \A n \in 1..published : Covered(view, n) \/ lagged \/ Has(rx, n)
      BY <1>0 DEF IndInv, StreamInv, Has
    <3> QED BY <1>0, <3>1, <3>2
  <2>2. CASE replayMax # 0
    <3> DEFINE K == {i \in 1..Len(rx) : ~rx[i].live /\ rx[i].seq > replayMax}
               r == Retain(rx, K)
    <3>1. rx' = r /\ ~lagged
      BY <2>2 DEF drain_stale_live_events
    <3>2. K \subseteq 1..Len(rx)
      OBVIOUS
    <3>3. r \in Seq(EventType) /\ Lists(r, rx, K)
      <4> HIDE DEF K
      <4> QED BY <1>0, <3>2, RetainFacts
    <3>4. \A i \in 1..Len(rx) : rx[i].live => rx[i].seq = 0
      BY <1>0 DEF EventOk
    <3>5. K = {i \in 1..Len(rx) : ~rx[i].live /\ rx[i].seq > replayMax}
      OBVIOUS
    <3> HIDE DEF r, K
    <3>6. /\ Follows(r, published)
          /\ \A n \in Nat : n > replayMax /\ Has(rx, n) => Has(r, n)
          /\ \A i \in 1..Len(r) : \E j \in 1..Len(rx) : r[i] = rx[j]
      <4>1. Drained(r, rx, published, replayMax)
        BY <1>0, <3>3, <3>4, <3>5, DrainFacts
      <4> QED BY <4>1 DEF Drained
    <3>7. ASSUME NEW n \in 1..published PROVE Covered(view, n) \/ Has(r, n)
      <4>1. CASE n > replayMax
        <5>1. Has(rx, n)
          BY <1>0, <2>2, <3>1, <4>1 DEF IndInv, StreamInv
        <5> QED BY <1>0, <3>6, <4>1, <5>1
      <4>2. CASE n <= replayMax
        BY <1>0, <1>2, <4>2
      <4> QED BY <1>0, <4>1, <4>2
    <3> QED BY <1>0, <3>1, <3>3, <3>6, <3>7
  <2> QED BY <2>1, <2>2
<1>4. ViewOk(view)' /\ LoadOk(load)'
  BY <1>0, <1>1 DEF Types, ViewOk, LoadOk
<1>5. Types'
  BY <1>0, <1>1, <1>3, <1>4 DEF Types
<1>6. LaneInv' /\ RxInv'
  <2>1. LaneInv'
    BY <1>1 DEF IndInv, LaneInv, EventOk
  <2>2. (\A i \in 1..Len(rx) : EventOk(rx[i]))'
    BY <1>1, <1>3 DEF EventOk
  <2>3. Follows(rx, published)'
    BY <1>1, <1>3 DEF Follows
  <2> QED BY <1>1, <2>1, <2>2, <2>3 DEF RxInv
<1>7. CursorInv'
  BY <1>1 DEF CursorInv
<1>8. ReplayInv'
  <2>1. \A n \in 1..replayMax' : Covered(view, n)'
    BY <1>1, <1>2 DEF Covered
  <2>2. replayMax' <= Len(log')
    BY <1>0, <1>1 DEF IndInv, ReplayInv
  <2>3. Len(replay') = 0 /\ replay' = << >>
    BY <1>0, <1>1
  <2>4. \A k \in 1..Len(replay') : replay'[k].seq = replayMax' - Len(replay') + k
    BY <2>3
  <2> QED BY <2>1, <2>2, <2>3, <2>4 DEF ReplayInv
<1>9. StreamInv'
  <2>1. \A n : Covered(view, n) => Covered(view, n)'
    BY <1>1 DEF Covered
  <2>2. \A n : Has(rx', n) => Has(rx, n)'
    BY DEF Has
  <2> QED BY <1>0, <1>1, <1>3, <2>1, <2>2 DEF StreamInv
<1> QED BY <1>5, <1>6, <1>7, <1>8, <1>9 DEF IndInv

LEMMA RecvInv ==
    ASSUME IndInv, recv_live_input
    PROVE  IndInv'
<1> DEFINE e == rx[1]
           t == Tail(rx)
<1>0. /\ Types /\ Len(log) \in Nat /\ pc = "live" /\ replay = << >> /\ Len(replay) = 0 /\ rx # << >>
      /\ rx \in Seq(EventType) /\ published \in Nat /\ replayMax \in Nat /\ ~lagged
      /\ Follows(rx, published) /\ \A i \in 1..Len(rx) : EventOk(rx[i])
  BY LogTypes DEF IndInv, Types, RxInv, StreamInv, recv_live_input
<1>1. /\ Head(rx) = e /\ e \in EventType /\ t \in Seq(EventType) /\ Len(rx) \in Nat /\ Len(rx) >= 1
  BY <1>0, NonEmpty
<1>2. /\ Follows(t, published)
      /\ \A n : Has(rx, n) => n = e.seq \/ Has(t, n)
      /\ \A i \in 1..Len(t) : \E j \in 1..Len(rx) : t[i] = rx[j]
  <2>1. Follows(t, published)
    BY <1>0, TailFacts
  <2>2. \A n : Has(rx, n) => n = e.seq \/ Has(t, n)
    BY <1>0, TailFacts
  <2>3. \A i \in 1..Len(t) : \E j \in 1..Len(rx) : t[i] = rx[j]
    BY <1>0, TailFacts
  <2> QED BY <2>1, <2>2, <2>3
<1>3. /\ log' = log /\ published' = published /\ message' = message /\ messages' = messages
      /\ streaming' = streaming /\ lagged' = lagged /\ load' = load
      /\ pc' = "live" /\ replay' = replay /\ replayMax' = replayMax /\ rx' = t
      /\ IF ~e.live /\ e.seq <= replayMax THEN view' = view ELSE view' = Applied(e)
  BY <1>0, <1>1 DEF recv_live_input, producer
<1>4. EventOk(e) /\ e.seq \in Nat /\ e.live \in BOOLEAN
  BY <1>0, <1>1 DEF EventType
<1>5. /\ \A n \in 1..replayMax : Covered(view, n)
      /\ \A n \in 1..published : Covered(view, n) \/ Has(rx, n)
  BY <1>0 DEF IndInv, ReplayInv, StreamInv, Has
<1> DEFINE v == Applied(e)
<1>6. /\ ViewOk(v) /\ (~e.live => Covered(v, e.seq))
      /\ \A n \in Nat : e.live \/ n < e.seq => (Covered(view, n) => Covered(v, n))
  BY <1>0, <1>1, <1>4, AppliedFacts, AppliedCovers
<1>7. ~e.live => \A n \in e.seq..published : Has(rx, n)
  <2>1. 1 \in 1..Len(rx)
    BY <1>1
  <2>2. ~e.live => \A n \in e.seq..published : \E j \in 1..Len(rx) : rx[j].seq = n
    BY <1>0, <2>1 DEF Follows
  <2> QED BY <2>2 DEF Has
<1>8. e.live => e.seq = 0
  BY <1>4 DEF EventOk
<1> HIDE DEF e, t, v
<1>9. /\ ViewOk(view')
      /\ \A n \in 1..replayMax : Covered(view', n)
      /\ \A n \in 1..published : Covered(view', n) \/ Has(t, n)
  <2>1. CASE ~e.live /\ e.seq <= replayMax
    <3>1. view' = view
      BY <1>3, <2>1
    <3>2. ViewOk(view)
      BY <1>0 DEF Types
    <3>3. \A n \in 1..published : Covered(view, n) \/ Has(t, n)
      <4> TAKE n \in 1..published
      <4>1. n = e.seq => n \in 1..replayMax
        BY <1>0, <1>4, <2>1
      <4> QED BY <1>2, <1>5, <4>1
    <3> QED BY <1>5, <3>1, <3>2, <3>3
  <2>2. CASE e.live
    <3>1. view' = v
      BY <1>3, <2>2 DEF v
    <3>2. \A n \in 1..published : n # e.seq /\ n \in Nat
      BY <1>0, <1>8, <2>2
    <3>3. \A n \in 1..replayMax : n \in Nat
      BY <1>0
    <3>4. \A n \in 1..replayMax : Covered(v, n)
      BY <1>5, <1>6, <2>2, <3>3
    <3>5. \A n \in 1..published : Covered(v, n) \/ Has(t, n)
      BY <1>2, <1>5, <1>6, <2>2, <3>2
    <3> QED BY <1>6, <3>1, <3>4, <3>5
  <2>3. CASE ~e.live /\ ~(e.seq <= replayMax)
    <3>1. view' = v
      BY <1>3, <2>3 DEF v
    <3>2. \A n \in 1..replayMax : n \in Nat /\ n < e.seq
      BY <1>0, <1>4, <2>3
    <3>3. \A n \in 1..replayMax : Covered(v, n)
      BY <1>5, <1>6, <3>2
    <3>4. \A n \in 1..published : Covered(v, n) \/ Has(t, n)
      <4> TAKE n \in 1..published
      <4>1. CASE n < e.seq
        BY <1>0, <1>2, <1>4, <1>5, <1>6, <4>1
      <4>2. CASE n = e.seq
        BY <1>6, <2>3, <4>2
      <4>3. CASE n > e.seq
        <5>1. n \in e.seq..published /\ n # e.seq
          BY <1>0, <1>4, <4>3
        <5> QED BY <1>2, <1>7, <2>3, <5>1
      <4> QED BY <1>0, <1>4, <4>1, <4>2, <4>3
    <3> QED BY <1>6, <3>1, <3>3, <3>4
  <2> QED BY <1>4, <2>1, <2>2, <2>3
<1>10. ViewOk(view)' /\ LoadOk(load)'
  BY <1>0, <1>3, <1>9 DEF Types, ViewOk, LoadOk
<1>11. Types'
  BY <1>0, <1>1, <1>3, <1>10 DEF Types
<1>12. LaneInv' /\ RxInv'
  <2>1. LaneInv'
    BY <1>3 DEF IndInv, LaneInv, EventOk
  <2>2. \A i \in 1..Len(t) : EventOk(t[i])
    BY <1>0, <1>2
  <2>3. (\A i \in 1..Len(rx) : EventOk(rx[i]))'
    BY <1>3, <2>2 DEF EventOk
  <2>4. Follows(rx, published)'
    BY <1>2, <1>3 DEF Follows
  <2> QED BY <1>3, <2>1, <2>3, <2>4 DEF RxInv
<1>13. CursorInv'
  BY <1>3 DEF CursorInv
<1>14. \A n : Covered(view', n) => Covered(view, n)'
  BY <1>3 DEF Covered
<1>15. ReplayInv'
  <2>1. \A n \in 1..replayMax' : Covered(view, n)'
    BY <1>3, <1>9, <1>14
  <2>2. replayMax' <= Len(log')
    BY <1>0, <1>3 DEF IndInv, ReplayInv
  <2>3. Len(replay') = 0 /\ replay' = << >>
    BY <1>0, <1>3
  <2>4. \A k \in 1..Len(replay') : replay'[k].seq = replayMax' - Len(replay') + k
    BY <2>3
  <2> QED BY <2>1, <2>2, <2>3, <2>4 DEF ReplayInv
<1>16. StreamInv'
  <2>1. \A n : Has(t, n) => Has(rx, n)'
    BY <1>3 DEF Has
  <2> QED BY <1>0, <1>3, <1>9, <1>14, <2>1 DEF StreamInv
<1> QED BY <1>11, <1>12, <1>13, <1>15, <1>16 DEF IndInv

-----------------------------------------------------------------------------
(* The theorems. *)

LEMMA InitInv ==
    ASSUME Init
    PROVE  IndInv
<1>1. Len(log) = 0 /\ Len(rx) = 0 /\ Len(replay) = 0 /\ log \in Seq(RecordType)
      /\ rx \in Seq(EventType) /\ replay \in Seq(EventType)
  BY DEF Init
<1>2. ViewOk(view)
  <2>1. view \in ViewType({{}}) /\ view.have = {}
    BY DEF Init, Blank, ViewType
  <2> QED BY <2>1 DEF ViewOk
<1>3. LoadOk(load)
  <2>1. NotLoaded \in LoadType({{}})
    BY DEF NotLoaded, LoadType, Unknown
  <2>2. LoadOk(NotLoaded)
    BY <1>1, <2>1 DEF NotLoaded, LoadOk, Unknown
  <2> QED BY <2>2 DEF Init
<1>4. streaming \in StreamingType
  BY FS_EmptySet DEF Init, Nothing, NoMessage, StreamingType, Texts
<1>5. Types
  BY <1>1, <1>2, <1>3, <1>4 DEF Init, Types, NoMessage
<1>6. LaneInv /\ RxInv
  BY <1>1 DEF Init, LaneInv, RxInv, Follows
<1>7. CursorInv /\ ReplayInv /\ StreamInv
  BY DEF Init, CursorInv, ReplayInv, StreamInv
<1> QED BY <1>5, <1>6, <1>7 DEF IndInv

LEMMA NextInv ==
    ASSUME IndInv, [Next]_vars
    PROVE  IndInv'
<1>1. ASSUME NEW k \in {"start", "fact", "final", "end"}, commit(k) PROVE IndInv'
  BY <1>1, CommitInv DEF Kinds
<1>2. CASE publish_durable \/ AssistantMessageStarted \/ AssistantTextDelta
  BY <1>2, ProducerInv
<1>3. CASE conversation_state \/ streaming_snapshot \/ conversation_items \/ page_before
  BY <1>3, LoadInv
<1>4. CASE buildConversationView
  BY <1>4, BuildInv
<1>5. CASE subscribe_conversation_events
  BY <1>5, SubscribeInv
<1>6. CASE replay_after_cursor
  BY <1>6, ReplayAfterCursorInv
<1>7. CASE replay_stream
  BY <1>7, ReplayStreamInv
<1>8. CASE drain_stale_live_events
  BY <1>8, DrainInv
<1>9. CASE recv_live_input
  BY <1>9, RecvInv
<1>10. CASE rehydrate_required \/ recv_lagged \/ stream_ends
  BY <1>10, EndedInv DEF rehydrate_required, recv_lagged, stream_ends
<1>11. CASE UNCHANGED vars
  <2>1. UNCHANGED <<producer, pc, view, cursor, stream, disconnects>> /\ load' = load
    BY <1>11 DEF vars
  <2>2. LoadOk(load')
    BY <2>1 DEF IndInv, Types
  <2> QED BY <2>1, <2>2, LoadFrame
<1> QED
  BY <1>1, <1>2, <1>3, <1>4, <1>5, <1>6, <1>7, <1>8, <1>9, <1>10, <1>11 DEF Next, ClientStep

\* The inductive invariant: what the receiver, the replay and the snapshot hold
\* together reaches from the view to the last published event.
THEOREM StreamInvariant == Spec => []IndInv
BY InitInv, NextInv, PTL DEF Spec

\* No durable event falls between snapshot, replay and the live stream: the
\* receiver exists before the history is read, and what the ring overwrote ends
\* the stream.
THEOREM NoGapAlways == Spec => []NoGap
<1>1. IndInv => NoGap
  BY DEF IndInv, StreamInv, Covered, Has, NoGap
<1> QED BY <1>1, StreamInvariant, PTL

\* At rest the client shows every durable block and the last control state,
\* whatever was replayed, repeated or dropped.
THEOREM DurablyConvergedAlways == Spec => []DurablyConverged
<1>1. IndInv => DurablyConverged
  <2> SUFFICES ASSUME IndInv, AtRest
               PROVE  /\ view.have = 1..Len(log)
                      /\ \A n \in 1..Len(log) : log[n].kind \in {"start", "end"} => n <= view.control
    BY DEF DurablyConverged, Head0
  <2>1. /\ pc = "live" /\ Len(rx) = 0 /\ Len(replay) = 0 /\ ~lagged /\ published = Len(log)
    BY DEF AtRest, IndInv, StreamInv, Head0
  <2>2. \A n \in 1..Len(log) : ~Has(rx, n) /\ ~Has(replay, n)
    BY <2>1 DEF Has
  <2>3. \A n \in 1..Len(log) : Covered(view, n)
    BY <2>1, <2>2 DEF IndInv, StreamInv
  <2>4. view.have \subseteq 1..Len(log)
    BY ViewFacts DEF IndInv
  <2> QED BY <2>3, <2>4 DEF Covered
<1> QED BY <1>1, StreamInvariant, PTL

=============================================================================
