--------------------------- MODULE PeerRuntimeProofs ---------------------------
(***************************************************************************)
(* Proofs about PeerRuntime for any calls, nesting, capacities and number   *)
(* of tombstones: an answer that comes late never stops a driver unless its *)
(* tombstone was evicted.                                                   *)
(***************************************************************************)
EXTENDS PeerRuntime, SequenceTheorems, TLAPS

CallFrames == {"invoke", "cancel"}
Answers    == {"result", "event", "end"}
Final      == {"invoke", "result", "end"}   \* the last one its sender sends, cancels apart
Carrying   == {"invoke", "result", "event", "end"}
FrameType  == [type : CallFrames \cup Answers, id : Requests]
Unanswered == {"running", "cancelled", "streaming", "stopping"}

Types ==
    /\ caller \in [Requests -> {"idle", "permit", "queued", "sent"} \cup Settled]
    /\ alive \in [Peers -> {"running", "shutdown", "eof", "transport", "write_queue_full",
                            "unknown_request"}]
    /\ commands \in [Peers -> Seq(Requests)]
    /\ pending \in [Peers -> SUBSET Requests]
    /\ tombstones \in [Peers -> Seq(Requests)]
    /\ writes \in [Peers -> Seq(FrameType)]
    /\ wire \in [Peers -> Seq(FrameType)]
    /\ task \in [Requests -> {"none", "done"} \cup Working]

\* A frame of request r with a type in T is in the sequence s, or on its way: on
\* one of the wires w or in one of the write queues u.
Holds(s, r, T) == \E i \in 1..Len(s) : s[i].id = r /\ s[i].type \in T
OnWay(w, u, r, T) == \E p \in Peers : Holds(w[p], r, T) \/ Holds(u[p], r, T)
InFlight(r, T) == OnWay(wire, writes, r, T)

\* Behind a final frame of a request only cancels of it follow.
Ordered(s) ==
    \A i, j \in 1..Len(s) :
        i < j /\ s[i].id = s[j].id /\ s[i].type \in Final => s[j].type = "cancel"
Across(s, t) == \A r \in Requests : Holds(s, r, Final) => ~Holds(t, r, Carrying)

\* Calls and cancels come from the origin of a request, answers from its executor.
Placed(p, s) ==
    \A r \in Requests : /\ Holds(s, r, CallFrames) => Origin(r) = p
                        /\ Holds(s, r, Answers) => Executor(r) = p

FramesOK(w, u) ==
    \A p \in Peers : /\ Ordered(w[p]) /\ Ordered(u[p]) /\ Across(w[p], u[p])
                     /\ Placed(p, w[p]) /\ Placed(p, u[p])
FrameInv == FramesOK(wire, writes)

CommandInv ==
    \A p \in Peers :
        /\ \A i \in 1..Len(commands[p]) : Origin(commands[p][i]) = p
        /\ \A i, j \in 1..Len(commands[p]) : commands[p][i] = commands[p][j] => i = j
        /\ \A r \in pending[p] : Origin(r) = p

Queued(r) == \E i \in 1..Len(commands[Origin(r)]) : commands[Origin(r)][i] = r

\* A request is in one place: with its caller, in the command queue, in an
\* invoke frame, with its task, or in a final answer.
StageOK(r) ==
    /\ caller[r] \in {"idle", "permit"} => ~Queued(r)
    /\ caller[r] \in {"idle", "permit"} \/ Queued(r) =>
          task[r] = "none" /\ ~InFlight(r, Carrying)
    /\ InFlight(r, {"invoke"}) => task[r] = "none" /\ ~InFlight(r, Answers)
    /\ task[r] \in {"running", "cancelled"} => ~InFlight(r, Carrying)
    /\ task[r] \in {"streaming", "stopping"} => ~InFlight(r, Final)

StageInv == \A r \in Requests : StageOK(r)

\* The driver knows every request whose answer may still come.
Expected(r) == InFlight(r, Carrying) \/ task[r] \in Unanswered
Remembered(r) == \E i \in 1..Len(tombstones[Origin(r)]) : tombstones[Origin(r)][i] = r
Known(r) == r \in pending[Origin(r)] \/ Remembered(r) \/ r \in forgotten

CoverOK(r) == Running(Origin(r)) /\ Expected(r) => Known(r)

CoverInv == \A r \in Requests : CoverOK(r)

StopInv ==
    \A p \in Peers : alive[p] = "unknown_request" =>
        wire[Other(p)] # << >> /\ Head(wire[Other(p)]).id \in forgotten

IndInv == Types /\ FrameInv /\ CommandInv /\ StageInv /\ CoverInv /\ StopInv

-----------------------------------------------------------------------------
(* Sequences of frames.                                                      *)

LEMMA HoldsEmpty == \A r, T : ~Holds(<< >>, r, T)
BY DEF Holds

LEMMA HoldsAppend ==
    ASSUME NEW s \in Seq(FrameType), NEW f \in FrameType
    PROVE  \A r, T : Holds(Append(s, f), r, T) <=> Holds(s, r, T) \/ (f.id = r /\ f.type \in T)
<1> SUFFICES ASSUME NEW r, NEW T
             PROVE  Holds(Append(s, f), r, T) <=> Holds(s, r, T) \/ (f.id = r /\ f.type \in T)
  OBVIOUS
<1>1. /\ Len(Append(s, f)) = Len(s) + 1
      /\ \A i \in 1..Len(s) : Append(s, f)[i] = s[i]
      /\ Append(s, f)[Len(s) + 1] = f
      /\ Len(s) \in Nat
  OBVIOUS
<1>2. ASSUME Holds(Append(s, f), r, T) PROVE Holds(s, r, T) \/ (f.id = r /\ f.type \in T)
  BY <1>1, <1>2 DEF Holds
<1>3. ASSUME Holds(s, r, T) PROVE Holds(Append(s, f), r, T)
  BY <1>1, <1>3 DEF Holds
<1>4. ASSUME f.id = r, f.type \in T PROVE Holds(Append(s, f), r, T)
  <2>1. Len(s) + 1 \in 1..Len(Append(s, f))
    BY <1>1
  <2> QED BY <1>1, <1>4, <2>1 DEF Holds
<1> QED BY <1>2, <1>3, <1>4

LEMMA TailFacts ==
    ASSUME NEW S, NEW s \in Seq(S), s # << >>
    PROVE  /\ Tail(s) \in Seq(S) /\ Head(s) \in S /\ Head(s) = s[1]
           /\ Len(s) \in Nat \ {0} /\ Len(Tail(s)) = Len(s) - 1
           /\ \A i \in 1..Len(Tail(s)) : i + 1 \in 1..Len(s) /\ Tail(s)[i] = s[i + 1]
           /\ \A i \in 1..Len(s) : i = 1 \/ (i - 1 \in 1..Len(Tail(s)) /\ Tail(s)[i - 1] = s[i])
<1>1. /\ Tail(s) \in Seq(S) /\ Head(s) \in S /\ Head(s) = s[1]
      /\ Len(s) \in Nat \ {0} /\ Len(Tail(s)) = Len(s) - 1
      /\ \A i \in 1..Len(Tail(s)) : i + 1 \in 1..Len(s) /\ Tail(s)[i] = s[i + 1]
  OBVIOUS
<1>2. ASSUME NEW i \in 1..Len(s), i # 1
      PROVE  i - 1 \in 1..Len(Tail(s)) /\ Tail(s)[i - 1] = s[i]
  <2>1. i - 1 \in 1..Len(Tail(s)) /\ (i - 1) + 1 = i
    BY <1>1, <1>2
  <2> QED BY <1>1, <2>1
<1> QED BY <1>1, <1>2

LEMMA HoldsTail ==
    ASSUME NEW s \in Seq(FrameType), s # << >>
    PROVE  \A r, T : Holds(s, r, T) <=> Holds(Tail(s), r, T) \/ (Head(s).id = r /\ Head(s).type \in T)
<1> SUFFICES ASSUME NEW r, NEW T
             PROVE  Holds(s, r, T) <=> Holds(Tail(s), r, T) \/ (Head(s).id = r /\ Head(s).type \in T)
  OBVIOUS
<1>1. ASSUME Holds(s, r, T) PROVE Holds(Tail(s), r, T) \/ (Head(s).id = r /\ Head(s).type \in T)
  BY <1>1, TailFacts DEF Holds
<1>2. ASSUME Holds(Tail(s), r, T) PROVE Holds(s, r, T)
  BY <1>2, TailFacts DEF Holds
<1>3. ASSUME Head(s).id = r, Head(s).type \in T PROVE Holds(s, r, T)
  <2>1. 1 \in 1..Len(s)
    BY TailFacts
  <2> QED BY <1>3, <2>1, TailFacts DEF Holds
<1> QED BY <1>1, <1>2, <1>3

LEMMA OrderedAppend ==
    ASSUME NEW s \in Seq(FrameType), NEW f \in FrameType, Ordered(s),
           f.type # "cancel" => ~Holds(s, f.id, Final)
    PROVE  Ordered(Append(s, f))
<1> SUFFICES ASSUME NEW i \in 1..Len(Append(s, f)), NEW j \in 1..Len(Append(s, f)), i < j,
                    Append(s, f)[i].id = Append(s, f)[j].id, Append(s, f)[i].type \in Final
             PROVE  Append(s, f)[j].type = "cancel"
  BY DEF Ordered
<1>1. /\ Len(Append(s, f)) = Len(s) + 1 /\ Len(s) \in Nat
      /\ \A k \in 1..Len(s) : Append(s, f)[k] = s[k]
      /\ Append(s, f)[Len(s) + 1] = f
  OBVIOUS
<1>2. CASE j \in 1..Len(s)
  BY <1>1, <1>2 DEF Ordered
<1>3. CASE j = Len(s) + 1
  <2>1. i \in 1..Len(s) /\ s[i].id = f.id /\ s[i].type \in Final
    BY <1>1, <1>3
  <2> QED BY <1>1, <1>3, <2>1 DEF Holds
<1> QED BY <1>1, <1>2, <1>3

\* What is behind a final frame of a request does not carry it any more.
LEMMA OrderedTail ==
    ASSUME NEW s \in Seq(FrameType), s # << >>, Ordered(s)
    PROVE  /\ Ordered(Tail(s))
           /\ Head(s).type \in Final => ~Holds(Tail(s), Head(s).id, Carrying)
<1>1. Ordered(Tail(s))
  <2> SUFFICES ASSUME NEW i \in 1..Len(Tail(s)), NEW j \in 1..Len(Tail(s)), i < j,
                      Tail(s)[i].id = Tail(s)[j].id, Tail(s)[i].type \in Final
               PROVE  Tail(s)[j].type = "cancel"
    BY DEF Ordered
  <2>1. /\ i + 1 \in 1..Len(s) /\ j + 1 \in 1..Len(s) /\ i + 1 < j + 1
        /\ Tail(s)[i] = s[i + 1] /\ Tail(s)[j] = s[j + 1]
    BY TailFacts
  <2> QED BY <2>1 DEF Ordered
<1>2. ASSUME Head(s).type \in Final, NEW i \in 1..Len(Tail(s)), Tail(s)[i].id = Head(s).id
      PROVE  Tail(s)[i].type \notin Carrying
  <2>1. /\ i + 1 \in 1..Len(s) /\ 1 \in 1..Len(s) /\ 1 < i + 1
        /\ Tail(s)[i] = s[i + 1] /\ Head(s) = s[1]
    BY TailFacts
  <2>2. s[i + 1].type = "cancel"
    BY <1>2, <2>1 DEF Ordered
  <2> QED BY <2>1, <2>2 DEF Carrying
<1> QED BY <1>1, <1>2 DEF Holds

LEMMA PeerFacts ==
    /\ \A p \in Peers : Other(p) \in Peers /\ Other(p) # p /\ Other(Other(p)) = p
    /\ \A p, q \in Peers : q = p \/ q = Other(p)
    /\ \A r : Origin(r) \in Peers /\ Executor(r) = Other(Origin(r))
BY DEF Peers, Other, Origin, Executor

LEMMA HoldsMore ==
    ASSUME NEW s, NEW r
    PROVE  /\ Holds(s, r, {"invoke"}) => Holds(s, r, Final) /\ Holds(s, r, Carrying) /\ Holds(s, r, CallFrames)
           /\ Holds(s, r, Answers) => Holds(s, r, Carrying)
           /\ Holds(s, r, Final) => Holds(s, r, Carrying)
           /\ Holds(s, r, Carrying) <=> Holds(s, r, {"invoke"}) \/ Holds(s, r, Answers)
BY DEF Holds, Final, Carrying, CallFrames, Answers

LEMMA InFlightMore ==
    ASSUME NEW r
    PROVE  /\ InFlight(r, {"invoke"}) => InFlight(r, Final) /\ InFlight(r, Carrying)
           /\ InFlight(r, Answers) => InFlight(r, Carrying)
           /\ InFlight(r, Final) => InFlight(r, Carrying)
           /\ InFlight(r, Carrying) <=> InFlight(r, {"invoke"}) \/ InFlight(r, Answers)
BY HoldsMore DEF InFlight, OnWay

LEMMA InFlightMoreAfter ==
    ASSUME NEW r
    PROVE  InFlight(r, Carrying)' <=> InFlight(r, {"invoke"})' \/ InFlight(r, Answers)'
BY HoldsMore DEF InFlight, OnWay

-----------------------------------------------------------------------------
(* What sending, writing, reading and stopping do to the frames.             *)

Lines == [Peers -> Seq(FrameType)]

LEMMA FrameFacts == \A f \in FrameType : f.id \in Requests /\ f.type \in CallFrames \cup Answers
BY DEF FrameType

LEMMA Sending ==
    ASSUME NEW w \in Lines, NEW u \in Lines, FramesOK(w, u), NEW p \in Peers, NEW f \in FrameType,
           f.type \in CallFrames => Origin(f.id) = p,
           f.type \in Answers => Executor(f.id) = p,
           f.type # "cancel" => ~OnWay(w, u, f.id, Final)
    PROVE  LET v == [u EXCEPT ![p] = Append(@, f)]
           IN  /\ v \in Lines /\ FramesOK(w, v)
               /\ \A r, T : OnWay(w, v, r, T) <=> OnWay(w, u, r, T) \/ (f.id = r /\ f.type \in T)
<1> DEFINE v == [u EXCEPT ![p] = Append(@, f)]
<1>1. /\ v \in Lines /\ v[p] = Append(u[p], f) /\ \A q \in Peers \ {p} : v[q] = u[q]
      /\ u[p] \in Seq(FrameType) /\ f.id \in Requests
  BY FrameFacts DEF Lines
<1>2. \A r, T : Holds(v[p], r, T) <=> Holds(u[p], r, T) \/ (f.id = r /\ f.type \in T)
  BY <1>1, HoldsAppend
<1>3. \A r, T : OnWay(w, v, r, T) <=> OnWay(w, u, r, T) \/ (f.id = r /\ f.type \in T)
  BY <1>1, <1>2 DEF OnWay
<1>4. f.type # "cancel" => ~Holds(u[p], f.id, Final) /\ ~Holds(w[p], f.id, Final)
  BY DEF OnWay
<1>5. Ordered(v[p])
  BY <1>1, <1>4, OrderedAppend DEF FramesOK
<1>6. Across(w[p], v[p])
  BY <1>1, <1>2, <1>4 DEF FramesOK, Across, Carrying
<1>7. Placed(p, v[p])
  BY <1>1, <1>2 DEF FramesOK, Placed
<1>8. FramesOK(w, v)
  BY <1>1, <1>5, <1>6, <1>7 DEF FramesOK
<1> QED BY <1>1, <1>3, <1>8

\* The writer moves the oldest frame from the queue to the wire.
LEMMA Writing ==
    ASSUME NEW w \in Lines, NEW u \in Lines, FramesOK(w, u), NEW p \in Peers, u[p] # << >>
    PROVE  LET x == [w EXCEPT ![p] = Append(@, Head(u[p]))]
               v == [u EXCEPT ![p] = Tail(@)]
           IN  /\ x \in Lines /\ v \in Lines /\ FramesOK(x, v)
               /\ \A r, T : OnWay(x, v, r, T) <=> OnWay(w, u, r, T)
<1> DEFINE f == Head(u[p])
           x == [w EXCEPT ![p] = Append(@, f)]
           v == [u EXCEPT ![p] = Tail(@)]
<1>1. /\ u[p] \in Seq(FrameType) /\ w[p] \in Seq(FrameType) /\ f \in FrameType
      /\ Tail(u[p]) \in Seq(FrameType) /\ f.id \in Requests
  BY TailFacts, FrameFacts DEF Lines
<1>2. /\ x \in Lines /\ x[p] = Append(w[p], f) /\ \A q \in Peers \ {p} : x[q] = w[q]
      /\ v \in Lines /\ v[p] = Tail(u[p]) /\ \A q \in Peers \ {p} : v[q] = u[q]
  BY <1>1 DEF Lines
<1> HIDE DEF f, x, v
<1>3. \A r, T : /\ Holds(x[p], r, T) <=> Holds(w[p], r, T) \/ (f.id = r /\ f.type \in T)
                /\ Holds(u[p], r, T) <=> Holds(v[p], r, T) \/ (f.id = r /\ f.type \in T)
  BY <1>1, <1>2, HoldsAppend, HoldsTail DEF f
<1>4. \A r, T : OnWay(x, v, r, T) <=> OnWay(w, u, r, T)
  BY <1>2, <1>3 DEF OnWay
<1>5. /\ Ordered(v[p])
      /\ f.type \in Final => ~Holds(v[p], f.id, Carrying)
  BY <1>1, <1>2, OrderedTail DEF FramesOK, f
<1>6. f.type # "cancel" => ~Holds(w[p], f.id, Final)
  <2>1. f.type # "cancel" => f.type \in Carrying
    BY <1>1 DEF FrameType, CallFrames, Answers, Carrying
  <2>2. f.type # "cancel" => Holds(u[p], f.id, Carrying)
    BY <1>3, <2>1
  <2> QED BY <1>1, <2>2 DEF FramesOK, Across
<1>7. Ordered(x[p])
  BY <1>1, <1>2, <1>6, OrderedAppend DEF FramesOK
<1>8. Across(x[p], v[p])
  BY <1>3, <1>5 DEF FramesOK, Across
<1>9. Placed(p, x[p]) /\ Placed(p, v[p])
  BY <1>3 DEF FramesOK, Placed
<1>10. FramesOK(x, v)
  BY <1>2, <1>5, <1>7, <1>8, <1>9 DEF FramesOK
<1> QED BY <1>2, <1>4, <1>10 DEF f, x, v

\* The driver of p takes the oldest frame from the wire; when it is the answer of
\* a request no other answer of it is on the way, and likewise for an invoke.
LEMMA Reading ==
    ASSUME NEW w \in Lines, NEW u \in Lines, FramesOK(w, u), NEW p \in Peers, w[Other(p)] # << >>
    PROVE  LET f == Head(w[Other(p)])
               x == [w EXCEPT ![Other(p)] = Tail(@)]
           IN  /\ x \in Lines /\ FramesOK(x, u) /\ f \in FrameType /\ f.id \in Requests
               /\ \A r, T : OnWay(w, u, r, T) <=> OnWay(x, u, r, T) \/ (f.id = r /\ f.type \in T)
               /\ f.type \in Answers => Origin(f.id) = p
               /\ f.type \in CallFrames => Executor(f.id) = p
               /\ f.type \in {"result", "end"} => ~OnWay(x, u, f.id, Answers)
               /\ f.type = "invoke" => ~OnWay(x, u, f.id, {"invoke"})
<1> DEFINE q == Other(p)
           f == Head(w[q])
           x == [w EXCEPT ![q] = Tail(@)]
<1>0. q \in Peers /\ p # q /\ \A o \in Peers : o = p \/ o = q
  BY PeerFacts
<1> HIDE DEF q
<1>1. /\ u[q] \in Seq(FrameType) /\ w[q] \in Seq(FrameType) /\ w[q] # << >> /\ f \in FrameType
      /\ Tail(w[q]) \in Seq(FrameType) /\ f.id \in Requests
  BY <1>0, TailFacts, FrameFacts DEF Lines, q
<1>2. x \in Lines /\ x[q] = Tail(w[q]) /\ \A o \in Peers \ {q} : x[o] = w[o]
  BY <1>0, <1>1 DEF Lines
<1> HIDE DEF f, x
<1>3. \A r, T : Holds(w[q], r, T) <=> Holds(x[q], r, T) \/ (f.id = r /\ f.type \in T)
  BY <1>1, <1>2, HoldsTail DEF f
<1>4. \A r, T : OnWay(w, u, r, T) <=> OnWay(x, u, r, T) \/ (f.id = r /\ f.type \in T)
  BY <1>0, <1>2, <1>3 DEF OnWay
<1>5. /\ Ordered(x[q])
      /\ f.type \in Final => ~Holds(x[q], f.id, Carrying)
  BY <1>0, <1>1, <1>2, OrderedTail DEF FramesOK, f
<1>6. Across(x[q], u[q])
  BY <1>0, <1>3 DEF FramesOK, Across
<1>7. Placed(q, x[q])
  BY <1>0, <1>3 DEF FramesOK, Placed
<1>8. FramesOK(x, u)
  BY <1>0, <1>2, <1>5, <1>6, <1>7 DEF FramesOK
<1>9. /\ f.type \in Answers => Executor(f.id) = q
      /\ f.type \in CallFrames => Origin(f.id) = q
  BY <1>0, <1>1, <1>3 DEF FramesOK, Placed
<1>10. /\ f.type \in Answers => Origin(f.id) = p
       /\ f.type \in CallFrames => Executor(f.id) = p
  BY <1>9, PeerFacts DEF q
<1>11. f.type \in Final => ~Holds(x[q], f.id, Carrying) /\ ~Holds(u[q], f.id, Carrying)
  BY <1>0, <1>1, <1>3, <1>5 DEF FramesOK, Across
<1>12. ASSUME f.type \in {"result", "end"} PROVE ~OnWay(x, u, f.id, Answers)
  <2>1. f.type \in Answers /\ f.type \in Final
    BY <1>12 DEF Answers, Final
  <2>2. ~Holds(x[q], f.id, Answers) /\ ~Holds(u[q], f.id, Answers)
    BY <1>11, <2>1, HoldsMore
  <2>3. ~Holds(x[p], f.id, Answers) /\ ~Holds(u[p], f.id, Answers)
    BY <1>0, <1>1, <1>8, <1>9, <2>1 DEF FramesOK, Placed
  <2> QED BY <1>0, <2>2, <2>3 DEF OnWay
<1>13. ASSUME f.type = "invoke" PROVE ~OnWay(x, u, f.id, {"invoke"})
  <2>1. f.type \in CallFrames /\ f.type \in Final
    BY <1>13 DEF CallFrames, Final
  <2>2. ~Holds(x[q], f.id, {"invoke"}) /\ ~Holds(u[q], f.id, {"invoke"})
    BY <1>11, <2>1, HoldsMore
  <2>3. ~Holds(x[p], f.id, CallFrames) /\ ~Holds(u[p], f.id, CallFrames)
    BY <1>0, <1>1, <1>8, <1>9, <2>1 DEF FramesOK, Placed
  <2> QED BY <1>0, <2>2, <2>3, HoldsMore DEF OnWay
<1> QED BY <1>1, <1>2, <1>4, <1>8, <1>10, <1>12, <1>13 DEF f, x, q

\* A writer that is aborted loses what was queued.
LEMMA Dropping ==
    ASSUME NEW w \in Lines, NEW u \in Lines, FramesOK(w, u), NEW p \in Peers
    PROVE  LET v == [u EXCEPT ![p] = << >>]
           IN  /\ v \in Lines /\ FramesOK(w, v)
               /\ \A r, T : OnWay(w, v, r, T) => OnWay(w, u, r, T)
<1> DEFINE v == [u EXCEPT ![p] = << >>]
<1>1. /\ v \in Lines /\ v[p] = << >> /\ \A q \in Peers \ {p} : v[q] = u[q]
  BY DEF Lines
<1>2. \A r, T : ~Holds(v[p], r, T)
  BY <1>1, HoldsEmpty
<1>3. Ordered(v[p]) /\ Across(w[p], v[p]) /\ Placed(p, v[p])
  BY <1>1, <1>2 DEF Ordered, Across, Placed
<1> QED BY <1>1, <1>2, <1>3 DEF FramesOK, OnWay

-----------------------------------------------------------------------------
(* Most steps only bring requests nearer to their end.                       *)

Later(a, b) ==
    \/ b = a
    \/ a \in Working /\ b = "done"
    \/ a \in {"running", "cancelled"} /\ b \in {"cancelled", "streaming", "stopping"}
    \/ a = "streaming" /\ b = "stopping"

\* Nothing of the request is new, and its driver does not forget it when it is expected.
Fades(r) ==
    /\ Later(task[r], task'[r])
    /\ caller'[r] \in {"idle", "permit"} => caller[r] \in {"idle", "permit"}
    /\ Queued(r)' => Queued(r)
    /\ \A T \in SUBSET Carrying : InFlight(r, T)' => InFlight(r, T)
    /\ Running(Origin(r))' => Running(Origin(r))
    /\ Running(Origin(r))' /\ Known(r) /\ Expected(r)' => Known(r)'

LEMMA Kinds ==
    /\ Carrying \in SUBSET Carrying /\ Final \in SUBSET Carrying
    /\ Answers \in SUBSET Carrying /\ {"invoke"} \in SUBSET Carrying
BY DEF Carrying, Final, Answers

LEMMA Faded ==
    ASSUME NEW r, StageOK(r), CoverOK(r), Fades(r)
    PROVE  StageOK(r)' /\ CoverOK(r)'
<1>1. /\ InFlight(r, Carrying)' => InFlight(r, Carrying)
      /\ InFlight(r, Final)' => InFlight(r, Final)
      /\ InFlight(r, Answers)' => InFlight(r, Answers)
      /\ InFlight(r, {"invoke"})' => InFlight(r, {"invoke"})
      /\ InFlight(r, Final) => InFlight(r, Carrying)
  BY Kinds, InFlightMore DEF Fades
<1>2. StageOK(r)'
  BY <1>1 DEF StageOK, Fades, Later, Working
<1>3. Expected(r)' => Expected(r)
  BY <1>1 DEF Fades, Expected, Unanswered, Later, Working
<1>4. CoverOK(r)'
  BY <1>3 DEF CoverOK, Fades
<1> QED BY <1>2, <1>4

LEMMA AllFaded ==
    ASSUME StageInv, CoverInv, \A r \in Requests : Fades(r)
    PROVE  StageInv' /\ CoverInv'
BY Faded DEF StageInv, CoverInv

LEMMA CommandsKept ==
    ASSUME CommandInv, UNCHANGED commands, \A p \in Peers : pending'[p] \subseteq pending[p]
    PROVE  CommandInv' /\ \A r \in Requests : Queued(r)' <=> Queued(r)
BY DEF CommandInv, Queued, Origin

LEMMA StopKept ==
    ASSUME StopInv, forgotten \subseteq forgotten',
           \A p \in Peers : alive'[p] = "unknown_request" =>
               \/ alive[p] = "unknown_request" /\ wire'[Other(p)] = wire[Other(p)]
               \/ wire'[Other(p)] # << >> /\ Head(wire'[Other(p)]).id \in forgotten'
    PROVE  StopInv'
BY DEF StopInv, Other

LEMMA FramesKept ==
    ASSUME FrameInv, UNCHANGED << wire, writes >>
    PROVE  FrameInv' /\ \A r, T : InFlight(r, T)' <=> InFlight(r, T)
BY DEF FrameInv, InFlight

\* Steps of callers, consumers and handlers that leave drivers and frames alone.
LEMMA QuietStep ==
    ASSUME IndInv, UNCHANGED << wire, writes, commands, pending, tombstones, forgotten, alive >>,
           caller' \in [Requests -> {"idle", "permit", "queued", "sent"} \cup Settled],
           task' \in [Requests -> {"none", "done"} \cup Working],
           \A r \in Requests :
               /\ Later(task[r], task'[r])
               /\ caller'[r] \in {"idle", "permit"} => caller[r] \in {"idle", "permit"}
    PROVE  IndInv'
<1>1. Types'
  BY DEF IndInv, Types
<1>2. FrameInv' /\ \A r, T : InFlight(r, T)' <=> InFlight(r, T)
  BY FramesKept DEF IndInv
<1>3. CommandInv' /\ \A r \in Requests : Queued(r)' <=> Queued(r)
  BY CommandsKept DEF IndInv
<1>4. \A r : (Known(r)' <=> Known(r)) /\ (Running(Origin(r))' <=> Running(Origin(r)))
  BY DEF Known, Remembered, Running, Origin
<1>5. \A r \in Requests : Fades(r)
  BY <1>2, <1>3, <1>4 DEF Fades
<1>6. StopInv'
  BY StopKept DEF IndInv
<1> QED BY <1>1, <1>2, <1>3, <1>5, <1>6, AllFaded DEF IndInv

-----------------------------------------------------------------------------
(* One lemma per action.                                                     *)

LEMMA InitInv == Init => IndInv
<1> SUFFICES ASSUME Init PROVE IndInv
  OBVIOUS
<1>1. Types
  BY DEF Init, Types, Peers, Requests
<1>2. \A r, T : ~InFlight(r, T)
  BY HoldsEmpty DEF Init, InFlight, OnWay
<1>3. \A p \in Peers : wire[p] = << >> /\ writes[p] = << >> /\ commands[p] = << >> /\ pending[p] = {}
  BY DEF Init
<1>4. FrameInv
  BY <1>3, HoldsEmpty DEF FrameInv, FramesOK, Ordered, Across, Placed
<1>5. CommandInv /\ \A r : ~Queued(r)
  BY <1>3, PeerFacts DEF CommandInv, Queued
<1>6. StageInv /\ CoverInv
  BY <1>2, <1>5 DEF Init, StageInv, StageOK, CoverInv, CoverOK, Expected, Unanswered
<1>7. StopInv
  BY DEF Init, StopInv
<1> QED BY <1>1, <1>4, <1>5, <1>6, <1>7 DEF IndInv

LEMMA Invoke ==
    ASSUME IndInv, NEW r \in Requests, invoke(r) PROVE IndInv'
<1>1. /\ UNCHANGED << wire, writes, commands, pending, tombstones, forgotten, alive, task >>
      /\ caller' = [caller EXCEPT ![r] = "permit"] /\ caller[r] = "idle"
  BY DEF invoke, driver, queues, tasks
<1> QED BY <1>1, QuietStep DEF IndInv, Types, Later

LEMMA DropEffect ==
    ASSUME NEW gone, DropAll(gone)
    PROVE  caller' = [r \in Requests |-> IF r \in gone THEN "dropped" ELSE caller[r]]
BY Zenon DEF DropAll

LEMMA DropCaller ==
    ASSUME IndInv, NEW r \in Requests, drop_caller(r) PROVE IndInv'
<1>1. DropAll({r}) /\ UNCHANGED << wire, writes, commands, driver, alive, tasks >>
  BY Zenon DEF drop_caller
<1>2. caller' = [q \in Requests |-> IF q \in {r} THEN "dropped" ELSE caller[q]]
  BY <1>1, DropEffect
<1>3. UNCHANGED << wire, writes, commands, pending, tombstones, forgotten, alive, task >>
  BY <1>1 DEF driver, tasks
<1> QED BY <1>2, <1>3, QuietStep DEF IndInv, Types, Later, Settled

LEMMA NextEvent ==
    ASSUME IndInv, NEW r \in Requests, next_event(r) PROVE IndInv'
<1>1. /\ UNCHANGED << wire, writes, commands, pending, tombstones, forgotten, alive, task >>
      /\ caller' = caller \/ caller' = [caller EXCEPT ![r] = "answered"]
  BY DEF next_event, driver, queues, tasks
<1> QED BY <1>1, QuietStep DEF IndInv, Types, Later, Settled

LEMMA StreamClosed ==
    ASSUME IndInv, NEW r \in Requests, stream_closed(r) PROVE IndInv'
<1>1. /\ UNCHANGED << wire, writes, commands, pending, tombstones, forgotten, alive, task >>
      /\ caller' = [caller EXCEPT ![r] = "failed"]
  BY DEF stream_closed, driver, queues, tasks
<1> QED BY <1>1, QuietStep DEF IndInv, Types, Later, Settled

LEMMA BackpressureTimeout ==
    ASSUME IndInv, NEW r \in Requests, backpressure_timeout(r) PROVE IndInv'
<1>1. UNCHANGED << wire, writes, commands, pending, tombstones, forgotten, alive, task, caller >>
  BY DEF backpressure_timeout, driver, tasks
<1> QED BY <1>1, QuietStep DEF IndInv, Types, Later

LEMMA Cancelled ==
    ASSUME IndInv, NEW r \in Requests, cancelled(r) PROVE IndInv'
<1>1. /\ DropAll(Nested(r)) /\ UNCHANGED << wire, writes, commands, driver, alive >>
      /\ task[r] \in {"cancelled", "stopping"} /\ task' = [task EXCEPT ![r] = "done"]
  BY Zenon DEF cancelled
<1>2. caller' = [q \in Requests |-> IF q \in Nested(r) THEN "dropped" ELSE caller[q]]
  BY <1>1, DropEffect
<1>3. UNCHANGED << wire, writes, commands, pending, tombstones, forgotten, alive >>
  BY <1>1 DEF driver
<1> QED BY <1>1, <1>2, <1>3, QuietStep DEF IndInv, Types, Later, Settled, Working

\* The call joins the command queue, the only place that has it.
LEMMA AcquireOutboundPermit ==
    ASSUME IndInv, NEW r \in Requests, acquire_outbound_permit(r) PROVE IndInv'
<1> DEFINE p == Origin(r)
<1>1. /\ caller[r] = "permit" /\ p \in Peers
      /\ UNCHANGED << wire, writes, pending, tombstones, forgotten, alive, task >>
  BY PeerFacts DEF acquire_outbound_permit, tasks
<1>2. CASE caller' = [caller EXCEPT ![r] = "failed"] /\ UNCHANGED commands
  BY <1>1, <1>2, QuietStep DEF IndInv, Types, Later, Settled
<1>3. CASE caller' = [caller EXCEPT ![r] = "queued"] /\ commands' = [commands EXCEPT ![p] = Append(@, r)]
  <2>1. Types'
    BY <1>1, <1>3 DEF IndInv, Types
  <2>2. FrameInv' /\ \A q, T : InFlight(q, T)' <=> InFlight(q, T)
    BY <1>1, FramesKept DEF IndInv
  <2>3. /\ commands[p] \in Seq(Requests) /\ Len(commands[p]) \in Nat
        /\ commands'[p] = Append(commands[p], r) /\ \A o \in Peers \ {p} : commands'[o] = commands[o]
    BY <1>1, <1>3 DEF IndInv, Types
  <2>4. /\ Len(commands'[p]) = Len(commands[p]) + 1
        /\ \A i \in 1..Len(commands[p]) : commands'[p][i] = commands[p][i]
        /\ commands'[p][Len(commands[p]) + 1] = r
    BY <2>3
  <2>5. ~Queued(r) /\ task[r] = "none" /\ ~InFlight(r, Carrying)
    BY <1>1 DEF IndInv, StageInv, StageOK
  <2>6. \A i \in 1..Len(commands[p]) : commands[p][i] # r
    BY <2>5 DEF Queued
  <2>7. CommandInv'
    <3>1. /\ \A i \in 1..Len(commands'[p]) : Origin(commands'[p][i]) = p
          /\ \A i, j \in 1..Len(commands'[p]) : commands'[p][i] = commands'[p][j] => i = j
      BY <1>1, <2>3, <2>4, <2>6 DEF IndInv, CommandInv
    <3> QED BY <1>1, <2>3, <3>1 DEF IndInv, CommandInv, Origin
  <2>8. ASSUME NEW q \in Requests, q # r PROVE Queued(q)' <=> Queued(q)
    <3>1. CASE Origin(q) = p
      <4>1. Queued(q) <=> \E i \in 1..Len(commands[p]) : commands[p][i] = q
        BY <3>1 DEF Queued
      <4>2. Queued(q)' <=> \E i \in 1..Len(commands'[p]) : commands'[p][i] = q
        BY <3>1 DEF Queued
      <4> HIDE DEF p
      <4>3. \A i \in 1..Len(commands'[p]) : i \in 1..Len(commands[p]) \/ commands'[p][i] = r
        BY <2>3, <2>4
      <4>4. \A i \in 1..Len(commands[p]) : i \in 1..Len(commands'[p])
        BY <2>3, <2>4
      <4> QED BY <2>4, <2>8, <4>1, <4>2, <4>3, <4>4
    <3>2. CASE Origin(q) # p
      BY <2>3, <3>2, PeerFacts DEF Queued, Origin
    <3> QED BY <3>1, <3>2
  <2>9. StageInv'
    <3> SUFFICES ASSUME NEW q \in Requests PROVE StageOK(q)'
      BY DEF StageInv
    <3>1. CASE q = r
      BY <1>1, <1>3, <2>2, <2>5, <3>1, InFlightMore DEF IndInv, Types, StageOK
    <3>2. CASE q # r
      <4>1. caller'[q] = caller[q] /\ (Queued(q)' <=> Queued(q)) /\ task'[q] = task[q]
        BY <1>1, <1>3, <2>8, <3>2 DEF IndInv, Types
      <4> QED BY <2>2, <4>1 DEF IndInv, StageInv, StageOK
    <3> QED BY <3>1, <3>2
  <2>10. CoverInv'
    BY <1>1, <2>2 DEF IndInv, CoverInv, CoverOK, Expected, Known, Remembered, Running, Origin
  <2>11. StopInv'
    BY <1>1, StopKept DEF IndInv
  <2> QED BY <2>1, <2>2, <2>7, <2>9, <2>10, <2>11 DEF IndInv
<1> QED BY <1>2, <1>3 DEF acquire_outbound_permit

\* A driver that stops lets everything go; the other driver knows what it knew.
LEMMA Stopping ==
    ASSUME IndInv, NEW p \in Peers, Running(p), NEW why, Stop(p, why),
           why \in {"shutdown", "eof", "transport", "write_queue_full", "unknown_request"},
           why = "unknown_request" =>
               wire[Other(p)] # << >> /\ Head(wire[Other(p)]).id \in forgotten
    PROVE  IndInv'
<1>1. /\ alive' = [alive EXCEPT ![p] = why]
      /\ pending' = [pending EXCEPT ![p] = {}]
      /\ commands' = [commands EXCEPT ![p] = << >>]
      /\ writes' = [writes EXCEPT ![p] = << >>]
      /\ UNCHANGED << tombstones, forgotten, wire >>
  BY DEF Stop
<1>2. /\ caller' \in [Requests -> {"idle", "permit", "queued", "sent"} \cup Settled]
      /\ \A r \in Requests : caller'[r] \in {"idle", "permit"} => caller[r] \in {"idle", "permit"}
  BY DEF Stop, IndInv, Types, Settled
<1>3. /\ task' \in [Requests -> {"none", "done"} \cup Working]
      /\ \A r \in Requests : Later(task[r], task'[r])
  BY DEF Stop, IndInv, Types, Later
<1>4. Types'
  BY <1>1, <1>2, <1>3 DEF IndInv, Types
<1>5. FrameInv' /\ \A r, T : InFlight(r, T)' => InFlight(r, T)
  <2>1. wire \in Lines /\ writes \in Lines /\ FramesOK(wire, writes)
    BY DEF IndInv, Types, FrameInv, Lines
  <2> QED BY <1>1, <2>1, Dropping DEF FrameInv, InFlight
<1>6. /\ commands'[p] = << >> /\ pending'[p] = {} /\ ~Running(p)'
      /\ \A o \in Peers \ {p} : /\ commands'[o] = commands[o] /\ pending'[o] = pending[o]
                                /\ alive'[o] = alive[o]
  BY <1>1 DEF IndInv, Types, Running
<1>7. CommandInv'
  BY <1>6 DEF IndInv, CommandInv, Origin
<1>8. ASSUME NEW r \in Requests PROVE Queued(r)' => Queued(r)
  <2>1. CASE Origin(r) = p
    BY <1>6, <2>1 DEF Queued
  <2>2. CASE Origin(r) # p
    BY <1>6, <2>2, PeerFacts DEF Queued
  <2> QED BY <2>1, <2>2
<1>9. ASSUME NEW r \in Requests, Running(Origin(r))'
      PROVE  Running(Origin(r)) /\ (Known(r) => Known(r)')
  <2>1. Origin(r) # p /\ Origin(r) \in Peers
    BY <1>6, <1>9, PeerFacts DEF Running
  <2> QED BY <1>1, <1>6, <1>9, <2>1 DEF Running, Known, Remembered
<1>10. \A r \in Requests : Fades(r)
  BY <1>2, <1>3, <1>5, <1>8, <1>9 DEF Fades
<1>11. StopInv'
  BY <1>1, <1>6, StopKept DEF IndInv
<1> QED BY <1>4, <1>5, <1>7, <1>10, <1>11, AllFaded DEF IndInv

LEMMA Shutdown ==
    ASSUME IndInv, NEW p \in Peers, shutdown(p) \/ read_eof(p) \/ write_fails(p) PROVE IndInv'
BY Stopping DEF shutdown, read_eof, write_fails

\* A driver takes the oldest command: the request is no longer queued.
LEMMA CommandTail ==
    ASSUME IndInv, NEW p \in Peers, commands[p] # << >>, NEW r, r = Head(commands[p]),
           commands' = [commands EXCEPT ![p] = Tail(@)]
    PROVE  /\ commands' \in [Peers -> Seq(Requests)]
           /\ r \in Requests /\ Origin(r) = p /\ Queued(r) /\ ~Queued(r)'
           /\ \A q \in Peers : /\ \A i \in 1..Len(commands'[q]) : Origin(commands'[q][i]) = q
                               /\ \A i, j \in 1..Len(commands'[q]) :
                                     commands'[q][i] = commands'[q][j] => i = j
           /\ \A q \in Requests : Queued(q)' => Queued(q)
<1> DEFINE s == commands[p]
           t == commands'[p]
<1>1. /\ s \in Seq(Requests) /\ t = Tail(s) /\ \A q \in Peers \ {p} : commands'[q] = commands[q]
      /\ commands' \in [Peers -> Seq(Requests)]
  BY TailFacts DEF IndInv, Types
<1>2. /\ \A i \in 1..Len(s) : Origin(s[i]) = p
      /\ \A i, j \in 1..Len(s) : s[i] = s[j] => i = j
  BY DEF IndInv, CommandInv
<1>3. /\ r \in Requests /\ r = s[1] /\ 1 \in 1..Len(s)
      /\ \A i \in 1..Len(t) : i + 1 \in 1..Len(s) /\ t[i] = s[i + 1] /\ i \in Nat \ {0}
  BY <1>1, TailFacts
<1>4. Origin(r) = p
  BY <1>2, <1>3
<1>5. /\ \A i \in 1..Len(t) : Origin(t[i]) = p /\ t[i] # r
      /\ \A i, j \in 1..Len(t) : t[i] = t[j] => i = j
  <2> HIDE DEF s, t
  <2>1. ASSUME NEW i \in 1..Len(t), NEW j \in 1..Len(t), t[i] = t[j] PROVE i = j
    <3>1. i + 1 = j + 1 /\ i \in Nat /\ j \in Nat
      BY <1>2, <1>3, <2>1
    <3> QED BY <3>1
  <2>2. ASSUME NEW i \in 1..Len(t) PROVE Origin(t[i]) = p /\ t[i] # r
    <3>1. i + 1 # 1 /\ i + 1 \in 1..Len(s) /\ t[i] = s[i + 1]
      BY <1>3
    <3> QED BY <1>2, <1>3, <3>1
  <2> QED BY <2>1, <2>2
<1>6. Queued(r) /\ ~Queued(r)'
  BY <1>3, <1>4, <1>5 DEF Queued
<1>7. ASSUME NEW q \in Requests, Queued(q)' PROVE Queued(q)
  <2>1. CASE Origin(q) = p
    BY <1>3, <1>7, <2>1 DEF Queued
  <2>2. CASE Origin(q) # p
    BY <1>1, <1>7, <2>2, PeerFacts DEF Queued
  <2> QED BY <2>1, <2>2
<1>8. \A q \in Peers : /\ \A i \in 1..Len(commands'[q]) : Origin(commands'[q][i]) = q
                       /\ \A i, j \in 1..Len(commands'[q]) :
                             commands'[q][i] = commands'[q][j] => i = j
  <2> SUFFICES ASSUME NEW q \in Peers
               PROVE  /\ \A i \in 1..Len(commands'[q]) : Origin(commands'[q][i]) = q
                      /\ \A i, j \in 1..Len(commands'[q]) :
                            commands'[q][i] = commands'[q][j] => i = j
    OBVIOUS
  <2>1. CASE q = p
    BY <1>5, <2>1
  <2>2. CASE q # p
    BY <1>1, <2>2 DEF IndInv, CommandInv
  <2> QED BY <2>1, <2>2
<1> QED BY <1>1, <1>3, <1>4, <1>6, <1>7, <1>8

LEMMA LinesOK ==
    ASSUME IndInv PROVE wire \in Lines /\ writes \in Lines /\ FramesOK(wire, writes)
BY DEF IndInv, Types, FrameInv, Lines

LEMMA HandleCommand ==
    ASSUME IndInv, NEW p \in Peers, handle_command(p) PROVE IndInv'
<1> PICK r : r = Head(commands[p])
  OBVIOUS
<1>1. /\ commands[p] # << >> /\ commands' = [commands EXCEPT ![p] = Tail(@)] /\ Running(p)
      /\ UNCHANGED << alive, tombstones, forgotten, wire, task >>
  BY DEF handle_command, tasks
<1>2. /\ commands' \in [Peers -> Seq(Requests)]
      /\ r \in Requests /\ Origin(r) = p /\ Queued(r) /\ ~Queued(r)'
      /\ \A q \in Peers : /\ \A i \in 1..Len(commands'[q]) : Origin(commands'[q][i]) = q
                          /\ \A i, j \in 1..Len(commands'[q]) :
                                commands'[q][i] = commands'[q][j] => i = j
      /\ \A q \in Requests : Queued(q)' => Queued(q)
  BY <1>1, CommandTail
<1>3. StopInv'
  BY <1>1, StopKept DEF IndInv
<1>4. CASE /\ UNCHANGED << pending, writes >>
           /\ caller' = caller \/ caller' = [caller EXCEPT ![r] = "failed"]
  <2>1. Types'
    BY <1>1, <1>2, <1>4 DEF IndInv, Types, Settled
  <2>2. FrameInv' /\ \A q, T : InFlight(q, T)' <=> InFlight(q, T)
    BY <1>1, <1>4, FramesKept DEF IndInv
  <2>3. CommandInv'
    BY <1>2, <1>4 DEF IndInv, CommandInv, Origin
  <2>4. \A q \in Requests : Fades(q)
    <3>1. \A q \in Requests : Later(task[q], task'[q])
                              /\ (caller'[q] \in {"idle", "permit"} => caller[q] \in {"idle", "permit"})
      BY <1>1, <1>4 DEF IndInv, Types, Later
    <3>2. \A q : (Known(q) => Known(q)') /\ (Running(Origin(q))' => Running(Origin(q)))
      BY <1>1, <1>4 DEF Known, Remembered, Running, Origin
    <3> QED BY <1>2, <2>2, <3>1, <3>2 DEF Fades
  <2> QED BY <1>3, <2>1, <2>2, <2>3, <2>4, AllFaded DEF IndInv
<1>5. CASE /\ caller[r] = "queued" /\ UNCHANGED caller
           /\ pending' = [pending EXCEPT ![p] = @ \cup {r}]
           /\ writes' = [writes EXCEPT ![p] = Append(@, Frame("invoke", r))]
  <2> DEFINE f == Frame("invoke", r)
  <2>1. f \in FrameType /\ f.id = r /\ f.type = "invoke"
    BY <1>2 DEF Frame, FrameType, CallFrames
  <2>2. task[r] = "none" /\ ~InFlight(r, Carrying) /\ ~InFlight(r, Final) /\ ~InFlight(r, Answers)
    BY <1>2, InFlightMore DEF IndInv, StageInv, StageOK
  <2>3. wire \in Lines /\ writes \in Lines /\ FramesOK(wire, writes)
    BY LinesOK
  <2>4. /\ writes' \in Lines /\ FramesOK(wire, writes')
        /\ \A q, T : OnWay(wire, writes', q, T) <=> OnWay(wire, writes, q, T) \/ (r = q /\ "invoke" \in T)
    <3>1. /\ f.type \in CallFrames => Origin(f.id) = p
          /\ f.type \in Answers => Executor(f.id) = p
          /\ f.type # "cancel" => ~OnWay(wire, writes, f.id, Final)
      BY <1>2, <2>1, <2>2 DEF Answers, InFlight
    <3> HIDE DEF f
    <3>2. writes' = [writes EXCEPT ![p] = Append(@, f)]
      BY <1>5 DEF f
    <3>3. /\ writes' \in Lines /\ FramesOK(wire, writes')
          /\ \A q, T : OnWay(wire, writes', q, T) <=> OnWay(wire, writes, q, T) \/ (f.id = q /\ f.type \in T)
      BY <2>1, <2>3, <3>1, <3>2, Sending
    <3> QED BY <2>1, <3>3
  <2>5. FrameInv' /\ \A q, T : InFlight(q, T)' <=> InFlight(q, T) \/ (r = q /\ "invoke" \in T)
    BY <1>1, <2>4 DEF FrameInv, InFlight
  <2>6. Types'
    BY <1>1, <1>2, <1>5, <2>4 DEF IndInv, Types, Lines
  <2>7. CommandInv'
    BY <1>2, <1>5 DEF IndInv, CommandInv, Origin, Types
  <2>8. ASSUME NEW q \in Requests PROVE StageOK(q)' /\ CoverOK(q)'
    <3>1. CASE q = r
      <4>1. /\ caller'[r] = "queued" /\ ~Queued(r)' /\ task'[r] = "none"
            /\ ~InFlight(r, Answers)' /\ r \in pending'[p]
        BY <1>1, <1>2, <1>5, <2>2, <2>5 DEF Answers, IndInv, Types
      <4> QED BY <1>2, <3>1, <4>1 DEF StageOK, CoverOK, Known
    <3>2. CASE q # r
      <4>1. Known(q) => Known(q)'
        <5>1. q \in pending[Origin(q)] => q \in pending'[Origin(q)]
          BY <1>5, PeerFacts DEF IndInv, Types
        <5>2. Remembered(q) => Remembered(q)'
          BY <1>1 DEF Remembered
        <5> QED BY <1>1, <5>1, <5>2 DEF Known
      <4>2. Running(Origin(q))' <=> Running(Origin(q))
        BY <1>1 DEF Running
      <4>3. Fades(q)
        BY <1>1, <1>2, <1>5, <2>5, <3>2, <4>1, <4>2 DEF Fades, Later
      <4> QED BY <4>3, Faded DEF IndInv, StageInv, CoverInv
    <3> QED BY <3>1, <3>2
  <2> QED BY <1>3, <2>5, <2>6, <2>7, <2>8 DEF IndInv, StageInv, CoverInv
<1> QED BY <1>4, <1>5 DEF handle_command

LEMMA Remembering ==
    ASSUME IndInv, NEW p \in Peers, NEW r \in Requests, Origin(r) = p, Remember(p, r)
    PROVE  /\ tombstones' \in [Peers -> Seq(Requests)] /\ forgotten \subseteq forgotten'
           /\ Remembered(r)'
           /\ \A q \in Requests : Remembered(q) => Remembered(q)' \/ q \in forgotten'
<1> DEFINE s == tombstones[p]
           full == Len(s) >= Tombstones
           t == IF full THEN Tail(s) ELSE s
<1>1. /\ s \in Seq(Requests) /\ Len(s) \in Nat /\ Tombstones \in Nat \ {0}
      /\ full => s # << >>
  BY PeerRuntimeAssumption DEF IndInv, Types
<1>2. /\ tombstones' = [tombstones EXCEPT ![p] = Append(t, r)]
      /\ forgotten' = IF full THEN forgotten \cup {Head(s)} ELSE forgotten
  BY DEF Remember, IndInv, Types
<1>3. t \in Seq(Requests)
  BY <1>1, TailFacts
<1>4. \A i \in 1..Len(s) : (full /\ s[i] = Head(s)) \/ \E j \in 1..Len(t) : t[j] = s[i]
  BY <1>1, TailFacts
<1> HIDE DEF s, full, t
<1>5. /\ tombstones' \in [Peers -> Seq(Requests)] /\ tombstones'[p] = Append(t, r)
      /\ \A o \in Peers \ {p} : tombstones'[o] = tombstones[o]
  BY <1>2, <1>3 DEF IndInv, Types
<1>6. /\ Len(Append(t, r)) = Len(t) + 1 /\ Len(t) \in Nat
      /\ \A i \in 1..Len(t) : Append(t, r)[i] = t[i] /\ i \in 1..Len(Append(t, r))
      /\ Append(t, r)[Len(t) + 1] = r /\ Len(t) + 1 \in 1..Len(Append(t, r))
  BY <1>3
<1>7. Remembered(r)'
  BY <1>5, <1>6 DEF Remembered
<1>8. ASSUME NEW q \in Requests, Remembered(q) PROVE Remembered(q)' \/ q \in forgotten'
  <2>1. CASE Origin(q) = p
    <3>1. PICK i \in 1..Len(s) : s[i] = q
      BY <1>8, <2>1 DEF Remembered, s
    <3> QED BY <1>2, <1>4, <1>5, <1>6, <2>1, <3>1 DEF Remembered
  <2>2. CASE Origin(q) # p
    BY <1>5, <1>8, <2>2, PeerFacts DEF Remembered
  <2> QED BY <2>1, <2>2
<1> QED BY <1>2, <1>5, <1>7, <1>8

LEMMA Forgetting ==
    ASSUME IndInv, NEW p \in Peers, NEW r \in Requests, Forget(p, r)
    PROVE  /\ tombstones' \in [Peers -> Seq(Requests)]
           /\ \A q \in Requests \ {r} : Remembered(q) => Remembered(q)'
<1> DEFINE s == tombstones[p]
<1>1. s \in Seq(Requests) /\ Len(s) \in Nat
  BY DEF IndInv, Types
<1>2. PICK i \in 1..Len(s) : s[i] = r /\ tombstones' = [tombstones EXCEPT ![p] = RemoveAt(s, i)]
  BY DEF Forget
<1> DEFINE t == RemoveAt(s, i)
<1>3. /\ SubSeq(s, 1, i - 1) \in Seq(Requests) /\ Len(SubSeq(s, 1, i - 1)) = i - 1
      /\ \A k \in 1..(i - 1) : SubSeq(s, 1, i - 1)[k] = s[k]
  <2>1. CASE i = 1
    BY <1>1, <2>1, SubSeqProperties
  <2>2. CASE i > 1
    BY <1>1, <2>2, SubSeqProperties
  <2> QED BY <1>1, <2>1, <2>2
<1>4. /\ SubSeq(s, i + 1, Len(s)) \in Seq(Requests) /\ Len(SubSeq(s, i + 1, Len(s))) = Len(s) - i
      /\ \A k \in 1..(Len(s) - i) : SubSeq(s, i + 1, Len(s))[k] = s[i + k]
  <2>1. CASE i = Len(s)
    BY <1>1, <2>1, SubSeqProperties
  <2>2. CASE i < Len(s)
    BY <1>1, <2>2, SubSeqProperties
  <2> QED BY <1>1, <2>1, <2>2
<1>5. t \in Seq(Requests) /\ \A k \in 1..Len(s) : k = i \/ \E j \in 1..Len(t) : t[j] = s[k]
  <2> DEFINE a == SubSeq(s, 1, i - 1)
             b == SubSeq(s, i + 1, Len(s))
  <2>1. t = a \o b
    BY DEF RemoveAt
  <2> HIDE DEF a, b, t
  <2>2. /\ a \in Seq(Requests) /\ Len(a) = i - 1 /\ \A k \in 1..(i - 1) : a[k] = s[k]
        /\ b \in Seq(Requests) /\ Len(b) = Len(s) - i /\ \A k \in 1..(Len(s) - i) : b[k] = s[i + k]
    BY <1>3, <1>4 DEF a, b
  <2>3. /\ t \in Seq(Requests) /\ Len(t) = Len(a) + Len(b)
        /\ \A k \in 1..Len(a) : t[k] = a[k]
        /\ \A k \in 1..Len(b) : t[Len(a) + k] = b[k]
    <3>0. a \in Seq(Requests) /\ b \in Seq(Requests)
      BY <2>2
    <3>1. /\ t \in Seq(Requests) /\ Len(t) = Len(a) + Len(b) /\ Len(a) \in Nat /\ Len(b) \in Nat
          /\ \A k \in 1..(Len(a) + Len(b)) :
                t[k] = IF k <= Len(a) THEN a[k] ELSE b[k - Len(a)]
      <4>1. Len(a) \in Nat /\ Len(b) \in Nat
        BY <3>0
      <4>2. /\ a \o b \in Seq(Requests) /\ Len(a \o b) = Len(a) + Len(b)
            /\ \A k \in 1..(Len(a) + Len(b)) :
                  (a \o b)[k] = IF k <= Len(a) THEN a[k] ELSE b[k - Len(a)]
        BY <3>0, ConcatProperties, Zenon
      <4> QED BY <2>1, <4>1, <4>2, Zenon
    <3>2. ASSUME NEW k \in 1..Len(b) PROVE t[Len(a) + k] = b[k]
      <4>1. Len(a) + k \in 1..(Len(a) + Len(b)) /\ ~(Len(a) + k <= Len(a)) /\ (Len(a) + k) - Len(a) = k
        BY <3>1, <3>2
      <4> QED BY <3>1, <4>1
    <3> QED BY <3>1, <3>2
  <2>4. ASSUME NEW k \in 1..Len(s), k < i PROVE \E j \in 1..Len(t) : t[j] = s[k]
    <3>1. k \in 1..Len(a) /\ k \in 1..Len(t)
      BY <1>1, <2>2, <2>3, <2>4
    <3> QED BY <2>2, <2>3, <3>1
  <2>5. ASSUME NEW k \in 1..Len(s), k > i PROVE \E j \in 1..Len(t) : t[j] = s[k]
    <3>1. k - i \in 1..Len(b) /\ Len(a) + (k - i) \in 1..Len(t) /\ i + (k - i) = k
      BY <1>1, <2>2, <2>3, <2>5
    <3> QED BY <2>2, <2>3, <3>1
  <2> QED BY <1>1, <2>3, <2>4, <2>5
<1> HIDE DEF s, t
<1>6. /\ tombstones' \in [Peers -> Seq(Requests)] /\ tombstones'[p] = t
      /\ \A o \in Peers \ {p} : tombstones'[o] = tombstones[o]
  BY <1>2, <1>5 DEF IndInv, Types, t
<1>7. ASSUME NEW q \in Requests \ {r}, Remembered(q) PROVE Remembered(q)'
  <2>1. CASE Origin(q) = p
    <3>1. PICK k \in 1..Len(s) : s[k] = q
      BY <1>7, <2>1 DEF Remembered, s
    <3>2. PICK j \in 1..Len(t) : t[j] = q
      BY <1>2, <1>5, <3>1
    <3> QED BY <1>6, <2>1, <3>2 DEF Remembered
  <2>2. CASE Origin(q) # p
    BY <1>6, <1>7, <2>2, PeerFacts DEF Remembered
  <2> QED BY <2>1, <2>2
<1> QED BY <1>6, <1>7

LEMMA HandleControl ==
    ASSUME IndInv, NEW p \in Peers, handle_control(p) PROVE IndInv'
<1> PICK r : r = Head(controls[p])
  OBVIOUS
<1>0. Running(p)
  BY DEF handle_control
<1>1. CASE UNCHANGED << callers, alive, driver, commands, writes, wire, tasks >>
  BY <1>1, QuietStep DEF callers, driver, tasks, IndInv, Types, Later
<1>2. CASE Stop(p, "write_queue_full")
  BY <1>0, <1>2, Stopping
<1>3. CASE /\ r \in pending[p]
           /\ Release(p, r) /\ Remember(p, r)
           /\ writes' = [writes EXCEPT ![p] = Append(@, Frame("cancel", r))]
           /\ UNCHANGED << callers, alive, cancelling, commands, wire, tasks >>
  <2> DEFINE f == Frame("cancel", r)
  <2>1. UNCHANGED << caller, task, alive, commands, wire >>
    BY <1>3 DEF callers, tasks
  <2>2. r \in Requests /\ Origin(r) = p /\ pending' = [pending EXCEPT ![p] = @ \ {r}]
    BY <1>3 DEF IndInv, Types, CommandInv, Release
  <2>3. /\ tombstones' \in [Peers -> Seq(Requests)] /\ forgotten \subseteq forgotten'
        /\ Remembered(r)'
        /\ \A q \in Requests : Remembered(q) => Remembered(q)' \/ q \in forgotten'
    BY <1>3, <2>2, Remembering
  <2>4. f \in FrameType /\ f.id = r /\ f.type = "cancel"
    BY <2>2 DEF Frame, FrameType, CallFrames
  <2>5. wire \in Lines /\ writes \in Lines /\ FramesOK(wire, writes)
    BY LinesOK
  <2>6. f.type \notin Answers /\ f.type \notin Carrying
    BY <2>4 DEF Answers, Carrying
  <2>7. writes' = [writes EXCEPT ![p] = Append(@, f)]
    BY <1>3
  <2> HIDE DEF f
  <2>8. /\ writes' \in Lines /\ FramesOK(wire, writes')
        /\ \A q, T : OnWay(wire, writes', q, T) <=> OnWay(wire, writes, q, T) \/ (f.id = q /\ f.type \in T)
    BY <2>2, <2>4, <2>5, <2>6, <2>7, Sending
  <2>9. FrameInv' /\ \A q : \A T \in SUBSET Carrying : InFlight(q, T)' <=> InFlight(q, T)
    BY <2>1, <2>6, <2>8 DEF FrameInv, InFlight
  <2>10. Types'
    BY <2>1, <2>2, <2>3, <2>8 DEF IndInv, Types, Lines
  <2>11. CommandInv' /\ \A q \in Requests : Queued(q)' <=> Queued(q)
    <3>1. \A o \in Peers : pending'[o] \subseteq pending[o]
      BY <2>2 DEF IndInv, Types
    <3> QED BY <2>1, <3>1, CommandsKept DEF IndInv
  <2>12. ASSUME NEW q \in Requests PROVE Fades(q)
    <3>1. Known(q) => Known(q)'
      <4>1. CASE q = r
        BY <2>3, <4>1 DEF Known
      <4>2. CASE q # r
        <5>1. q \in pending[Origin(q)] => q \in pending'[Origin(q)]
          BY <2>2, <4>2, PeerFacts DEF IndInv, Types
        <5> QED BY <2>3, <5>1 DEF Known
      <4> QED BY <4>1, <4>2
    <3>2. Running(Origin(q))' <=> Running(Origin(q))
      BY <2>1 DEF Running
    <3> QED BY <2>1, <2>9, <2>11, <3>1, <3>2 DEF Fades, Later
  <2>13. StopInv'
    BY <2>1, <2>3, StopKept DEF IndInv
  <2> QED BY <2>9, <2>10, <2>11, <2>12, <2>13, AllFaded DEF IndInv
<1> QED BY <1>1, <1>2, <1>3 DEF handle_control

LEMMA WriteFrame ==
    ASSUME IndInv, NEW p \in Peers, write_frame(p) PROVE IndInv'
<1> DEFINE f == Head(writes[p])
<1>1. /\ Running(Other(p)) /\ writes[p] # << >>
      /\ writes' = [writes EXCEPT ![p] = Tail(@)]
      /\ wire' = [wire EXCEPT ![p] = Append(@, f)]
      /\ UNCHANGED << alive, pending, tombstones, forgotten, commands >>
  BY DEF write_frame, driver
<1>2. wire \in Lines /\ writes \in Lines /\ FramesOK(wire, writes)
  BY LinesOK
<1>3. /\ wire' \in Lines /\ writes' \in Lines /\ FramesOK(wire', writes')
      /\ \A r, T : OnWay(wire', writes', r, T) <=> OnWay(wire, writes, r, T)
  BY <1>1, <1>2, Writing
<1>4. FrameInv' /\ \A r, T : InFlight(r, T)' <=> InFlight(r, T)
  BY <1>3 DEF FrameInv, InFlight
<1>5. /\ caller' = caller \/ (caller[f.id] = "queued" /\ caller' = [caller EXCEPT ![f.id] = "sent"])
      /\ task' = task \/ (task[f.id] = "writing" /\ task' = [task EXCEPT ![f.id] = "done"])
  BY DEF write_frame
<1> HIDE DEF f
<1>6. /\ caller' \in [Requests -> {"idle", "permit", "queued", "sent"} \cup Settled]
      /\ \A r \in Requests : caller'[r] \in {"idle", "permit"} => caller[r] \in {"idle", "permit"}
  <2>1. CASE caller' = caller
    BY <2>1 DEF IndInv, Types
  <2>2. CASE caller[f.id] = "queued" /\ caller' = [caller EXCEPT ![f.id] = "sent"]
    BY <2>2 DEF IndInv, Types
  <2> QED BY <1>5, <2>1, <2>2
<1>7. /\ task' \in [Requests -> {"none", "done"} \cup Working]
      /\ \A r \in Requests : Later(task[r], task'[r])
  BY <1>5 DEF IndInv, Types, Later, Working
<1>8. Types'
  BY <1>1, <1>3, <1>6, <1>7 DEF IndInv, Types, Lines
<1>9. CommandInv' /\ \A r \in Requests : Queued(r)' <=> Queued(r)
  BY <1>1, CommandsKept DEF IndInv
<1>10. \A r : (Known(r)' <=> Known(r)) /\ (Running(Origin(r))' <=> Running(Origin(r)))
  BY <1>1 DEF Known, Remembered, Running, Origin
<1>11. \A r \in Requests : Fades(r)
  BY <1>4, <1>6, <1>7, <1>9, <1>10 DEF Fades
<1>12. StopInv'
  <2>1. ASSUME NEW o \in Peers, alive'[o] = "unknown_request"
        PROVE  alive[o] = "unknown_request" /\ wire'[Other(o)] = wire[Other(o)]
    <3>1. Other(o) # p /\ Other(o) \in Peers
      BY <1>1, <2>1, PeerFacts DEF Running
    <3> QED BY <1>1, <2>1, <3>1 DEF IndInv, Types
  <2> QED BY <1>1, <2>1, StopKept DEF IndInv
<1> QED BY <1>4, <1>8, <1>9, <1>11, <1>12, AllFaded DEF IndInv

\* A task that has not answered yet queues an event, or its answer.
LEMMA Answering ==
    ASSUME IndInv, NEW r \in Requests, NEW t \in Answers, NEW x,
           task[r] \in Unanswered, task' = [task EXCEPT ![r] = x],
           \/ t = "event" /\ x = "streaming" /\ task[r] = "streaming"
           \/ t \in {"result", "end"} /\ x = "writing",
           writes' = [writes EXCEPT ![Executor(r)] = Append(@, Frame(t, r))],
           UNCHANGED << wire, commands, pending, tombstones, forgotten, alive, caller >>
    PROVE  IndInv'
<1> DEFINE p == Executor(r)
           f == Frame(t, r)
<1>1. p \in Peers /\ f \in FrameType /\ f.id = r /\ f.type = t
  BY PeerFacts DEF Frame, FrameType
<1>2. /\ ~InFlight(r, Final) /\ ~InFlight(r, {"invoke"}) /\ ~Queued(r)
      /\ caller[r] \notin {"idle", "permit"}
  BY InFlightMore DEF IndInv, StageInv, StageOK, Unanswered
<1>3. wire \in Lines /\ writes \in Lines /\ FramesOK(wire, writes)
  BY LinesOK
<1>4. f.type \notin CallFrames /\ writes' = [writes EXCEPT ![p] = Append(@, f)]
  BY <1>1 DEF Answers, CallFrames
<1>5. /\ f.type \in CallFrames => Origin(f.id) = p
      /\ f.type \in Answers => Executor(f.id) = p
      /\ f.type # "cancel" => ~OnWay(wire, writes, f.id, Final)
  BY <1>1, <1>2, <1>4 DEF InFlight
<1> HIDE DEF f, p
<1>6. /\ writes' \in Lines /\ FramesOK(wire, writes')
      /\ \A q, T : OnWay(wire, writes', q, T) <=> OnWay(wire, writes, q, T) \/ (f.id = q /\ f.type \in T)
  <2>1. p \in Peers /\ f \in FrameType
    BY <1>1
  <2>2. LET v == [writes EXCEPT ![p] = Append(@, f)]
        IN  /\ v \in Lines /\ FramesOK(wire, v)
            /\ \A q, T : OnWay(wire, v, q, T) <=> OnWay(wire, writes, q, T) \/ (f.id = q /\ f.type \in T)
    BY <1>3, <1>5, <2>1, Sending, Zenon
  <2> QED BY <2>2 DEF p, f
<1>7. FrameInv' /\ \A q, T : InFlight(q, T)' <=> InFlight(q, T) \/ (r = q /\ t \in T)
  BY <1>1, <1>6 DEF FrameInv, InFlight
<1>8. Types'
  BY <1>6 DEF IndInv, Types, Lines, Working
<1>9. CommandInv' /\ \A q \in Requests : Queued(q)' <=> Queued(q)
  BY CommandsKept DEF IndInv
<1>10. \A q : (Known(q)' <=> Known(q)) /\ (Running(Origin(q))' <=> Running(Origin(q)))
  BY DEF Known, Remembered, Running, Origin
<1>11. ASSUME NEW q \in Requests PROVE StageOK(q)' /\ CoverOK(q)'
  <2>1. CASE q = r
    <3>1. /\ task'[r] = x /\ ~Queued(r)' /\ caller'[r] \notin {"idle", "permit"}
          /\ ~InFlight(r, {"invoke"})'
      BY <1>2, <1>7, <1>9 DEF IndInv, Types, Answers
    <3>2. x = "streaming" => ~InFlight(r, Final)'
      BY <1>2, <1>7 DEF Final
    <3>3. StageOK(r)'
      BY <3>1, <3>2 DEF StageOK
    <3>4. CoverOK(r)'
      BY <1>10 DEF IndInv, CoverInv, CoverOK, Expected
    <3> QED BY <2>1, <3>3, <3>4
  <2>2. CASE q # r
    <3>1. Fades(q)
      BY <1>7, <1>9, <1>10, <2>2 DEF Fades, Later, IndInv, Types
    <3> QED BY <3>1, Faded DEF IndInv, StageInv, CoverInv
  <2> QED BY <2>1, <2>2
<1>12. StopInv'
  BY StopKept DEF IndInv
<1> QED BY <1>7, <1>8, <1>9, <1>11, <1>12 DEF IndInv, StageInv, CoverInv

LEMMA Respond ==
    ASSUME IndInv, NEW r \in Requests, respond(r) PROVE IndInv'
<1>1. /\ task[r] \in {"running", "cancelled"}
      /\ UNCHANGED << caller, alive, pending, tombstones, forgotten, commands, wire >>
  BY DEF respond, callers, driver
<1>2. CASE /\ task' = [task EXCEPT ![r] = IF @ = "running" THEN "streaming" ELSE "stopping"]
           /\ UNCHANGED writes
  BY <1>1, <1>2, QuietStep DEF IndInv, Types, Later, Working
<1>3. CASE /\ writes' = [writes EXCEPT ![Executor(r)] = Append(@, Frame("result", r))]
           /\ task' = [task EXCEPT ![r] = "writing"]
  <2>1. task[r] \in Unanswered /\ "result" \in Answers /\ "result" \in {"result", "end"}
    BY <1>1 DEF Unanswered, Answers
  <2> QED BY <1>1, <1>3, <2>1, Answering
<1> QED BY <1>2, <1>3 DEF respond

LEMMA StreamEvent ==
    ASSUME IndInv, NEW r \in Requests, stream_event(r) PROVE IndInv'
<1>1. /\ task[r] = "streaming"
      /\ UNCHANGED << caller, alive, pending, tombstones, forgotten, commands, wire >>
  BY DEF stream_event, callers, driver
<1>2. CASE /\ writes' = [writes EXCEPT ![Executor(r)] = Append(@, Frame("event", r))]
           /\ UNCHANGED task
  <2>1. task' = [task EXCEPT ![r] = "streaming"]
    BY <1>1, <1>2 DEF IndInv, Types
  <2> QED BY <1>1, <1>2, <2>1, Answering DEF Unanswered, Answers
<1>3. CASE /\ writes' = [writes EXCEPT ![Executor(r)] = Append(@, Frame("end", r))]
           /\ task' = [task EXCEPT ![r] = "writing"]
  <2>1. task[r] \in Unanswered /\ "end" \in Answers /\ "end" \in {"result", "end"}
    BY <1>1 DEF Unanswered, Answers
  <2> QED BY <1>1, <1>3, <2>1, Answering
<1> QED BY <1>2, <1>3 DEF stream_event

-----------------------------------------------------------------------------
(* Reading a frame.                                                          *)

\* The oldest frame on the wire is on its way, and an answer is expected.
LEMMA HeadFacts ==
    ASSUME IndInv, NEW p \in Peers, Running(p), wire[Other(p)] # << >>,
           NEW f, f = Head(wire[Other(p)])
    PROVE  /\ f \in FrameType /\ f.id \in Requests
           /\ \A T : f.type \in T => InFlight(f.id, T)
           /\ f.type \in Answers => Origin(f.id) = p /\ Known(f.id)
<1>1. wire \in Lines /\ writes \in Lines /\ FramesOK(wire, writes)
  BY LinesOK
<1>2. /\ f \in FrameType /\ f.id \in Requests
      /\ \A T : f.type \in T => InFlight(f.id, T)
      /\ f.type \in Answers => Origin(f.id) = p
  BY <1>1, Reading DEF InFlight
<1>3. ASSUME f.type \in Answers PROVE Known(f.id)
  <2>1. f.type \in Carrying
    BY <1>3 DEF Answers, Carrying
  <2> QED BY <1>2, <1>3, <2>1 DEF IndInv, CoverInv, CoverOK, Expected
<1> QED BY <1>2, <1>3

\* An answer or a cancel is taken from the wire; the driver drops at most the
\* request whose last answer it is.
LEMMA Taking ==
    ASSUME IndInv, NEW p \in Peers, Running(p), wire[Other(p)] # << >>,
           NEW f, f = Head(wire[Other(p)]), f.type # "invoke", Consumed(p),
           UNCHANGED << writes, commands, alive, forgotten >>,
           caller' \in [Requests -> {"idle", "permit", "queued", "sent"} \cup Settled],
           task' \in [Requests -> {"none", "done"} \cup Working],
           tombstones' \in [Peers -> Seq(Requests)],
           pending' \in [Peers -> SUBSET Requests],
           \A o \in Peers : pending'[o] \subseteq pending[o],
           \A r \in Requests :
               /\ Later(task[r], task'[r])
               /\ caller'[r] \in {"idle", "permit"} => caller[r] \in {"idle", "permit"}
               /\ Known(r) => Known(r)' \/ (r = f.id /\ f.type \in {"result", "end"})
    PROVE  IndInv'
<1>1. wire \in Lines /\ writes \in Lines /\ FramesOK(wire, writes)
  BY LinesOK
<1>2. /\ wire' \in Lines /\ FramesOK(wire', writes)
      /\ \A r, T : OnWay(wire', writes, r, T) => OnWay(wire, writes, r, T)
      /\ f.type \in {"result", "end"} => ~OnWay(wire', writes, f.id, Answers)
  BY <1>1, Reading DEF Consumed
<1>3. /\ FrameInv' /\ \A r, T : InFlight(r, T)' => InFlight(r, T)
      /\ f.type \in {"result", "end"} => ~InFlight(f.id, Answers)'
  BY <1>2 DEF FrameInv, InFlight
<1>4. Types'
  BY <1>2 DEF IndInv, Types, Lines
<1>5. CommandInv' /\ \A r \in Requests : Queued(r)' <=> Queued(r)
  BY CommandsKept DEF IndInv
<1>6. \A r : Running(Origin(r))' <=> Running(Origin(r))
  BY DEF Running, Origin
\* Behind its last answer nothing of a request is left.
<1>7. ASSUME f.type \in {"result", "end"} PROVE ~Expected(f.id)'
  <2>1. /\ f.id \in Requests /\ InFlight(f.id, Answers) /\ InFlight(f.id, Final)
        /\ InFlight(f.id, Carrying)
    BY <1>7, HeadFacts DEF Answers, Final, Carrying
  <2>2. ~InFlight(f.id, {"invoke"}) /\ task[f.id] \notin Unanswered
    BY <2>1 DEF IndInv, StageInv, StageOK, Unanswered
  <2>3. task'[f.id] \notin Unanswered
    BY <2>1, <2>2 DEF Later, Unanswered, Working
  <2>4. ~InFlight(f.id, Carrying)'
    BY <1>3, <1>7, <2>2, InFlightMoreAfter
  <2> QED BY <2>3, <2>4 DEF Expected
<1>8. \A r \in Requests : Fades(r)
  BY <1>3, <1>5, <1>6, <1>7 DEF Fades
<1>9. StopInv'
  <2>1. ASSUME NEW o \in Peers, alive'[o] = "unknown_request"
        PROVE  alive[o] = "unknown_request" /\ wire'[Other(o)] = wire[Other(o)]
    <3>1. Other(o) \in Peers /\ Other(o) # Other(p) /\ Other(p) \in Peers
      BY <2>1, PeerFacts DEF Running
    <3> QED BY <2>1, <3>1 DEF Consumed, IndInv, Types
  <2> QED BY <2>1, StopKept DEF IndInv
<1> QED BY <1>3, <1>4, <1>5, <1>8, <1>9, AllFaded DEF IndInv

LEMMA ReadCancel ==
    ASSUME IndInv, NEW p \in Peers, read_cancel(p) PROVE IndInv'
<1> PICK f : f = Head(wire[Other(p)])
  OBVIOUS
<1>1. /\ Running(p) /\ wire[Other(p)] # << >> /\ f.type = "cancel" /\ Consumed(p)
      /\ UNCHANGED << caller, alive, pending, tombstones, forgotten, commands, writes >>
  BY DEF read_cancel, Reads, callers, driver
<1>2. \/ task[f.id] = "running" /\ task' = [task EXCEPT ![f.id] = "cancelled"]
      \/ task[f.id] = "streaming" /\ task' = [task EXCEPT ![f.id] = "stopping"]
      \/ task' = task
  <2>1. f.id \in Requests
    BY <1>1, HeadFacts
  <2>2. task' = [task EXCEPT ![f.id] = CASE @ = "running"   -> "cancelled"
                                         [] @ = "streaming" -> "stopping"
                                         [] OTHER           -> @]
    BY DEF read_cancel
  <2> QED BY <2>1, <2>2 DEF IndInv, Types
<1>3. /\ task' \in [Requests -> {"none", "done"} \cup Working]
      /\ \A r \in Requests : Later(task[r], task'[r])
  BY <1>2 DEF IndInv, Types, Later, Working
<1>4. \A r : Known(r)' <=> Known(r)
  BY <1>1 DEF Known, Remembered, Origin
<1>5. f.type # "invoke"
  BY <1>1
<1> QED BY <1>1, <1>3, <1>4, <1>5, Taking DEF IndInv, Types

\* What a driver that is told of an unknown request has had to forget.
LEMMA UnknownIsForgotten ==
    ASSUME IndInv, NEW p \in Peers, Running(p), wire[Other(p)] # << >>,
           NEW f, f = Head(wire[Other(p)]), f.type \in Answers,
           f.id \notin ToSet(tombstones[p]) \cup pending[p], Stop(p, "unknown_request")
    PROVE  IndInv'
<1>1. f.id \in Requests /\ Origin(f.id) = p /\ Known(f.id)
  BY HeadFacts
<1>2. ~Remembered(f.id)
  BY <1>1 DEF Remembered, ToSet, IndInv, Types
<1>3. f.id \in forgotten
  BY <1>1, <1>2 DEF Known
<1> QED BY <1>3, Stopping

LEMMA ReadResult ==
    ASSUME IndInv, NEW p \in Peers, read_result(p) PROVE IndInv'
<1> PICK f : f = Head(wire[Other(p)])
  OBVIOUS
<1>1. Running(p) /\ wire[Other(p)] # << >> /\ f.type = "result"
  BY DEF read_result, Reads
<1>2. f.type \in Answers /\ f.type # "invoke" /\ f.type \in {"result", "end"}
  BY <1>1 DEF Answers
<1>3. f.id \in Requests /\ Origin(f.id) = p
  BY <1>1, <1>2, HeadFacts
<1>4. CASE /\ Forget(p, f.id) /\ Consumed(p) /\ UNCHANGED << caller, pending, permits >>
           /\ UNCHANGED << parent, forward, closed, alive, cancelling, forgotten,
                           commands, controls, writes, tasks >>
  <2>1. /\ tombstones' \in [Peers -> Seq(Requests)]
        /\ \A q \in Requests \ {f.id} : Remembered(q) => Remembered(q)'
    BY <1>3, <1>4, Forgetting
  <2>2. \A r \in Requests : Known(r) => Known(r)' \/ r = f.id
    BY <1>4, <2>1 DEF Known
  <2>3. UNCHANGED << writes, commands, alive, forgotten, caller, task, pending >>
    BY <1>4 DEF tasks
  <2> QED BY <1>1, <1>2, <1>4, <2>1, <2>2, <2>3, Taking DEF IndInv, Types, Later
<1>5. CASE /\ Release(p, f.id) /\ Consumed(p)
           /\ caller' = IF caller[f.id] = "sent" /\ f.id \notin Streams
                        THEN [caller EXCEPT ![f.id] = "answered"] ELSE caller
           /\ UNCHANGED << parent, forward, closed, alive, cancelling, tombstones,
                           forgotten, commands, controls, writes, tasks >>
  <2>1. /\ UNCHANGED << writes, commands, alive, forgotten, tombstones, task >>
        /\ pending' = [pending EXCEPT ![p] = @ \ {f.id}]
    BY <1>5 DEF tasks, Release
  <2>2. \A r \in Requests : Known(r) => Known(r)' \/ r = f.id
    <3>1. \A r \in Requests : r \in pending[Origin(r)] => r \in pending'[Origin(r)] \/ r = f.id
      BY <2>1, PeerFacts DEF IndInv, Types
    <3>2. \A r : Remembered(r) => Remembered(r)'
      BY <2>1 DEF Remembered
    <3> QED BY <2>1, <3>1, <3>2 DEF Known
  <2>3. /\ caller' \in [Requests -> {"idle", "permit", "queued", "sent"} \cup Settled]
        /\ \A r \in Requests : caller'[r] \in {"idle", "permit"} => caller[r] \in {"idle", "permit"}
    BY <1>3, <1>5 DEF IndInv, Types, Settled
  <2>4. /\ pending' \in [Peers -> SUBSET Requests]
        /\ \A o \in Peers : pending'[o] \subseteq pending[o]
    BY <2>1 DEF IndInv, Types
  <2> QED BY <1>1, <1>2, <1>5, <2>1, <2>2, <2>3, <2>4, Taking DEF IndInv, Types, Later
<1>6. CASE f.id \notin ToSet(tombstones[p]) \cup pending[p] /\ Stop(p, "unknown_request")
  BY <1>1, <1>2, <1>6, UnknownIsForgotten
<1> QED BY <1>4, <1>5, <1>6 DEF read_result

LEMMA ReadStream ==
    ASSUME IndInv, NEW p \in Peers, read_stream(p) PROVE IndInv'
<1> PICK f : f = Head(wire[Other(p)])
  OBVIOUS
<1>1. Running(p) /\ wire[Other(p)] # << >> /\ f.type \in {"event", "end"}
  BY DEF read_stream, Reads
<1>2. f.type \in Answers /\ f.type # "invoke"
  BY <1>1 DEF Answers
<1>3. f.id \in Requests /\ Origin(f.id) = p
  BY <1>1, <1>2, HeadFacts
<1>4. CASE /\ IF f.type = "end" THEN Forget(p, f.id) ELSE UNCHANGED tombstones
           /\ Consumed(p)
           /\ UNCHANGED << callers, alive, permits, pending, cancelling, forgotten,
                           commands, controls, writes, tasks >>
  <2>1. /\ tombstones' \in [Peers -> Seq(Requests)]
        /\ \A q \in Requests : Remembered(q) => Remembered(q)' \/ (q = f.id /\ f.type = "end")
    <3>1. CASE f.type = "end"
      BY <1>3, <1>4, <3>1, Forgetting
    <3>2. CASE f.type # "end"
      BY <1>4, <3>2 DEF Remembered, IndInv, Types
    <3> QED BY <3>1, <3>2
  <2>2. UNCHANGED << writes, commands, alive, forgotten, caller, task, pending >>
    BY <1>4 DEF tasks, callers
  <2>3. \A r \in Requests : Known(r) => Known(r)' \/ (r = f.id /\ f.type \in {"result", "end"})
    BY <2>1, <2>2 DEF Known
  <2> QED BY <1>1, <1>2, <1>4, <2>1, <2>2, <2>3, Taking DEF IndInv, Types, Later
<1>5. CASE /\ Consumed(p)
           /\ UNCHANGED << writes, commands, alive, forgotten, caller, task, pending, tombstones >>
  <2>1. \A r : Known(r) => Known(r)'
    BY <1>5 DEF Known, Remembered
  <2> QED BY <1>1, <1>2, <1>5, <2>1, Taking DEF IndInv, Types, Later
<1>6. CASE /\ IF f.type = "end" THEN Release(p, f.id) ELSE UNCHANGED << pending, permits >>
           /\ Consumed(p)
           /\ UNCHANGED << caller, parent, closed, alive, cancelling, tombstones,
                           forgotten, commands, controls, writes, tasks >>
  <2>1. UNCHANGED << writes, commands, alive, forgotten, tombstones, caller, task >>
    BY <1>6 DEF tasks
  <2>2. /\ pending' \in [Peers -> SUBSET Requests]
        /\ \A o \in Peers : pending'[o] \subseteq pending[o]
        /\ \A o \in Peers : \A r \in pending[o] : r \in pending'[o] \/ (r = f.id /\ f.type = "end")
    <3>1. CASE f.type = "end"
      <4>1. pending' = [pending EXCEPT ![p] = @ \ {f.id}]
        BY <1>6, <3>1 DEF Release
      <4> QED BY <3>1, <4>1 DEF IndInv, Types
    <3>2. CASE f.type # "end"
      BY <1>6, <3>2 DEF IndInv, Types
    <3> QED BY <3>1, <3>2
  <2>3. \A r \in Requests : Known(r) => Known(r)' \/ (r = f.id /\ f.type \in {"result", "end"})
    BY <2>1, <2>2, PeerFacts DEF Known, Remembered
  <2> QED BY <1>1, <1>2, <1>6, <2>1, <2>2, <2>3, Taking DEF IndInv, Types, Later
<1>7. CASE f.id \notin ToSet(tombstones[p]) \cup pending[p] /\ Stop(p, "unknown_request")
  BY <1>1, <1>2, <1>7, UnknownIsForgotten
<1> QED BY <1>4, <1>5, <1>6, <1>7 DEF read_stream, callers, driver, tasks

\* The call gets its task, or a refusal as its answer.
LEMMA ReadInvoke ==
    ASSUME IndInv, NEW p \in Peers, read_invoke(p) PROVE IndInv'
<1> PICK f : f = Head(wire[Other(p)])
  OBVIOUS
<1> DEFINE r == f.id
           g == Frame("result", r)
<1>1. Running(p) /\ wire[Other(p)] # << >> /\ f.type = "invoke"
  BY DEF read_invoke, Reads
<1>2. /\ r \in Requests /\ InFlight(r, {"invoke"}) /\ InFlight(r, Carrying) /\ InFlight(r, Final)
  BY <1>1, HeadFacts DEF Carrying, Final
<1>3. /\ task[r] = "none" /\ ~InFlight(r, Answers) /\ ~Queued(r)
      /\ caller[r] \notin {"idle", "permit"} /\ (Running(Origin(r)) => Known(r))
  BY <1>2 DEF IndInv, StageInv, StageOK, CoverInv, CoverOK, Expected
<1>4. CASE Stop(p, "write_queue_full")
  BY <1>1, <1>4, Stopping
<1>5. CASE /\ Consumed(p) /\ UNCHANGED << callers, alive, driver, commands >>
           /\ \/ task' = [task EXCEPT ![r] = "running"] /\ UNCHANGED writes
              \/ UNCHANGED task /\ writes' = [writes EXCEPT ![p] = Append(@, g)]
  <2>1. UNCHANGED << caller, alive, pending, tombstones, forgotten, commands >>
    BY <1>5 DEF callers, driver
  <2>2. wire \in Lines /\ writes \in Lines /\ FramesOK(wire, writes)
    BY LinesOK
  <2>3. wire' = [wire EXCEPT ![Other(p)] = Tail(@)]
    BY <1>5 DEF Consumed
  <2>4. /\ wire' \in Lines /\ FramesOK(wire', writes) /\ Executor(r) = p
        /\ \A q, T : OnWay(wire, writes, q, T) <=> OnWay(wire', writes, q, T) \/ (r = q /\ f.type \in T)
        /\ ~OnWay(wire', writes, r, {"invoke"})
    <3>1. f.type \in CallFrames
      BY <1>1 DEF CallFrames
    <3> QED BY <1>1, <2>2, <2>3, <3>1, Reading
  <2>5. ~OnWay(wire', writes, r, Answers) /\ ~OnWay(wire', writes, r, Carrying)
        /\ ~OnWay(wire', writes, r, Final)
    <3>1. ~OnWay(wire', writes, r, Answers)
      BY <1>3, <2>4 DEF InFlight
    <3> QED BY <2>4, <3>1, HoldsMore DEF OnWay
  <2>6. /\ g \in FrameType /\ g.id = r /\ g.type = "result"
    BY <1>2 DEF Frame, FrameType, Answers
  <2> HIDE DEF g, r
  <2>7. ASSUME writes' = [writes EXCEPT ![p] = Append(@, g)]
        PROVE  /\ writes' \in Lines /\ FramesOK(wire', writes')
               /\ \A q, T : OnWay(wire', writes', q, T)
                              <=> OnWay(wire', writes, q, T) \/ (g.id = q /\ g.type \in T)
    <3>1. /\ g.type \in CallFrames => Origin(g.id) = p
          /\ g.type \in Answers => Executor(g.id) = p
          /\ g.type # "cancel" => ~OnWay(wire', writes, g.id, Final)
      BY <2>4, <2>5, <2>6 DEF CallFrames
    <3> QED BY <2>2, <2>4, <2>6, <2>7, <3>1, Sending
  <2>8. /\ writes' \in Lines /\ FrameInv'
        /\ \A q \in Requests \ {r} : \A T : InFlight(q, T)' => InFlight(q, T)
        /\ ~InFlight(r, {"invoke"})'
        /\ task'[r] = "running" => ~InFlight(r, Carrying)'
        /\ task'[r] \in {"none", "running"}
        /\ \A q \in Requests \ {r} : task'[q] = task[q]
        /\ task' \in [Requests -> {"none", "done"} \cup Working]
    <3>1. CASE task' = [task EXCEPT ![r] = "running"] /\ UNCHANGED writes
      BY <1>2, <1>3, <2>2, <2>4, <2>5, <3>1 DEF FrameInv, InFlight, IndInv, Types, Working
    <3>2. CASE UNCHANGED task /\ writes' = [writes EXCEPT ![p] = Append(@, g)]
      BY <1>3, <2>4, <2>5, <2>6, <2>7, <3>2 DEF FrameInv, InFlight, IndInv, Types
    <3> QED BY <1>5, <3>1, <3>2 DEF r
  <2>9. Types'
    BY <2>1, <2>4, <2>8 DEF IndInv, Types, Lines
  <2>10. CommandInv' /\ \A q \in Requests : Queued(q)' <=> Queued(q)
    BY <2>1, CommandsKept DEF IndInv
  <2>11. \A q : (Known(q)' <=> Known(q)) /\ (Running(Origin(q))' <=> Running(Origin(q)))
    BY <2>1 DEF Known, Remembered, Running, Origin
  <2>12. ASSUME NEW q \in Requests PROVE StageOK(q)' /\ CoverOK(q)'
    <3>1. CASE q = r
      <4>1. StageOK(q)'
        BY <1>2, <1>3, <2>1, <2>8, <2>10, <3>1 DEF StageOK
      <4>2. CoverOK(q)'
        BY <1>3, <2>11, <3>1 DEF CoverOK
      <4> QED BY <4>1, <4>2
    <3>2. CASE q # r
      <4>1. Fades(q)
        BY <2>1, <2>8, <2>10, <2>11, <3>2 DEF Fades, Later
      <4> QED BY <4>1, Faded DEF IndInv, StageInv, CoverInv
    <3> QED BY <3>1, <3>2
  <2>13. StopInv'
    <3>1. ASSUME NEW o \in Peers, alive'[o] = "unknown_request"
          PROVE  alive[o] = "unknown_request" /\ wire'[Other(o)] = wire[Other(o)]
      <4>1. Other(o) \in Peers /\ Other(o) # Other(p) /\ Other(p) \in Peers
        BY <1>1, <2>1, <3>1, PeerFacts DEF Running
      <4> QED BY <2>1, <2>3, <3>1, <4>1 DEF IndInv, Types
    <3> QED BY <2>1, <3>1, StopKept DEF IndInv
  <2> QED BY <2>8, <2>9, <2>10, <2>12, <2>13 DEF IndInv, StageInv, CoverInv
<1> QED BY <1>4, <1>5 DEF read_invoke, tasks

LEMMA NextInv == IndInv /\ [Next]_vars => IndInv'
<1> SUFFICES ASSUME IndInv, [Next]_vars PROVE IndInv'
  OBVIOUS
<1>1. ASSUME NEW r \in Requests,
             \/ invoke(r) \/ acquire_outbound_permit(r) \/ drop_caller(r)
             \/ next_event(r) \/ stream_closed(r) \/ backpressure_timeout(r)
             \/ respond(r) \/ cancelled(r) \/ stream_event(r)
      PROVE  IndInv'
  BY <1>1, Invoke, AcquireOutboundPermit, DropCaller, NextEvent, StreamClosed,
     BackpressureTimeout, Respond, Cancelled, StreamEvent, Zenon
<1>2. ASSUME NEW p \in Peers, DriverStep(p) \/ shutdown(p) PROVE IndInv'
  BY <1>2, HandleCommand, HandleControl, WriteFrame, ReadInvoke, ReadCancel, ReadResult,
     ReadStream, Shutdown, Zenon DEF DriverStep
<1>3. CASE UNCHANGED vars
  BY <1>3, QuietStep DEF vars, callers, driver, queues, tasks, IndInv, Types, Later
<1> QED BY <1>1, <1>2, <1>3, Zenon DEF Next

-----------------------------------------------------------------------------
\* Every request is in one place and its driver knows it while an answer may come,
\* whatever the callers, handlers, capacities and shutdowns of the two peers do.
THEOREM PeerInvariant == Spec => []IndInv
BY InitInv, NextInv, PTL DEF Spec

\* An answer to a cancelled call never stops the driver as a protocol error
\* (route_result, route_stream), unless CancelledRequests had to evict its
\* tombstone: for any number of calls, any nesting and any capacities.
THEOREM LateAnswersAbsorbedAlways == Spec => []LateAnswersAbsorbed
<1>1. IndInv => LateAnswersAbsorbed
  BY DEF IndInv, StopInv, LateAnswersAbsorbed
<1> QED BY <1>1, PeerInvariant, PTL

=============================================================================
