------------------------ MODULE ExtensionRunnerProofs ------------------------
(* Proofs, for any set of extensions, turns and instances, that a turn pins   *)
(* one publication and that a reload interrupts nobody, by the inductive      *)
(* invariant IndInv.                                                          *)
EXTENDS ExtensionRunner, TLAPS

----------------------------------------------------------------------------
(* The state *)

Index == [generation : Nat, members : SUBSET Instances]
Phases == {"none", "start", "save", "rollback", "aborting", "gates", "next",
           "draining", "ticket", "publish", "swap", "bind"}
(* What is blocked is copied to the registry; no proof looks into it.       *)
Transaction ==
    [kind : {"none", "reload", "failure", "shutdown"}, at : Phases,
     todo : SUBSET Extensions, keep : SUBSET Instances, fresh : SUBSET Instances,
     leaving : SUBSET Instances, waiting : SUBSET Instances, began : SUBSET Instances,
     blocked : {tx.blocked}, changed : BOOLEAN, index : Index, previous : Index]
Pinned == [config : Nat, generation : Nat, members : SUBSET Instances]
Holder ==
    [at : {"idle", "state", "view", "current", "check", "holding"}, runtime : Pinned,
     view : Index, members : SUBSET Instances, call : Instances \cup {0}]
Call == [index : Index, to : Instances \cup {0}]
RetirementTask ==
    [at : {"none", "gates", "stop", "done"}, drain : BOOLEAN,
     deps : SUBSET Instances, with : SUBSET Instances]

TypeOK ==
    /\ tx \in Transaction
    /\ shutdown \in {"no", "stopping", "drain", "down"}
    /\ config \in Nat
    /\ owner \in [Instances -> Extensions \cup {"none"}]
    /\ life \in [Instances -> {"none", "running", "stopped"}]
    /\ registry \subseteq Instances
    /\ ret \in [Instances -> RetirementTask]
    /\ index \in Index
    /\ publication \in [generation : Nat, writing : BOOLEAN, pending : Nat]
    /\ runtime \in Pinned
    /\ bound \in [Instances -> Index]
    /\ turn \in [Turns -> Holder]
    /\ bg \in [Instances -> Call]

----------------------------------------------------------------------------
(* What the holder of the source lock does and what it has published.       *)

Publishing == {"publish", "swap", "bind"}
Preparing == {"start", "save", "rollback"}

PhaseInv ==
    /\ tx.kind = "none" => tx = Idle
    /\ tx.kind = "reload" => tx.at \in Preparing \cup {"aborting"} \cup Publishing
    /\ tx.kind = "failure" => tx.at \in {"gates"} \cup Publishing
    /\ tx.kind = "shutdown" => tx.at \in {"next", "draining", "swap", "bind", "ticket"}
    /\ tx.kind \in {"reload", "failure"} => shutdown = "no"
    /\ tx.kind = "shutdown" => shutdown = "stopping"
    /\ shutdown \in {"drain", "down"} => registry = {}
    /\ shutdown = "stopping" => tx.kind = "shutdown"

(* The number of the generation that is being published is new.             *)
PublicationInv ==
    /\ publication.writing <=> tx.at \in Publishing
    /\ publication.writing => publication.pending = tx.index.generation
    /\ tx.at \in Publishing => tx.index.generation = publication.generation + 1
    /\ tx.at # "bind" => index.generation = publication.generation
    /\ tx.at = "bind" => index = tx.index
    /\ tx.at = "save" /\ tx.changed =>
            /\ tx.index.generation = publication.generation + 1
            /\ tx.index.members = tx.keep \cup tx.fresh

(* A generation of the session layer names the members of the index with    *)
(* its number, and is not newer than the publication that is under way.     *)
Names(r) ==
    /\ r.generation = index.generation => r.members = index.members
    /\ \/ r.generation <= publication.generation
       \/ /\ tx.at \in {"swap", "bind"}
          /\ r.generation = tx.index.generation
          /\ r.members = tx.index.members

PinInv ==
    /\ Names(runtime)
    /\ \A t \in Turns :
          /\ turn[t].at \in {"state", "view"} => Names(turn[t].runtime)
          /\ turn[t].at \in {"current", "check"} => turn[t].view.members = turn[t].runtime.members
          /\ turn[t].at = "holding" => turn[t].view.members = turn[t].members

----------------------------------------------------------------------------
(* Who still reaches which instance.  None of it is claimed once the server  *)
(* shuts down.                                                               *)

(* The instances that calls still go to.                                    *)
Reached(i) ==
    \/ i \in index.members
    \/ i \in tx.previous.members
    \/ \E t \in Turns : i \in turn[t].view.members
    \/ \E j \in Instances : i \in bg[j].index.members

(* Instances that were never started are nowhere.                           *)
Unborn(i) ==
    /\ i \notin registry \cup tx.fresh \cup tx.leaving \cup tx.index.members
    /\ i \notin tasks \cup draining
    /\ ret[i].at = "none"
    /\ ~ Reached(i)

(* The registry before, during and after its replacement.                   *)
RegistryInv ==
    /\ tx.at \notin Publishing => index.members = registry
    /\ tx.at \in Publishing => tx.index.members = registry
    /\ tx.at \in {"publish", "swap"} => index.members \subseteq registry \cup tx.leaving
    /\ tx.at = "bind" => tx.previous.members \subseteq registry \cup tx.leaving
    /\ tx.at \in Publishing => tx.leaving \cap registry = {}
    /\ tx.index.members \subseteq registry \cup tx.fresh
    /\ tx.kind = "failure" => tx.leaving \subseteq lost

ReloadInv ==
    /\ tx.at \in Preparing =>
          /\ tx.kind = "reload"
          /\ tx.keep \subseteq registry
          /\ tx.leaving = registry \ tx.keep
    /\ tx.at \in Publishing /\ tx.kind = "reload" =>
          tx.fresh \subseteq registry
    /\ tx.kind # "reload" \/ tx.at = "aborting" => tx.fresh = {}
    /\ \A i \in tx.fresh :
          /\ owner[i] # "none" /\ life[i] = "running" /\ ret[i].at = "none"
          /\ i \notin draining /\ i \notin tasks
          /\ tx.at \in Preparing => i \notin registry /\ ~ Reached(i)

(* Registered instances run and accept calls, the new ones as soon as the   *)
(* publication has opened their gates.                                      *)
ServingInv ==
    \A i \in registry :
        /\ life[i] = "running" /\ ret[i].at = "none" /\ i \notin draining
        /\ \/ i \in gate \cup lost
           \/ tx.kind = "reload" /\ tx.at = "publish" /\ i \in tx.fresh

(* Whatever can still be reached serves, and a retirement has not passed    *)
(* its wait for the views.                                                  *)
SnapshotInv ==
    \A i \in Instances : Reached(i) =>
        \/ i \in lost
        \/ /\ Serves(i)
           /\ ret[i].at # "none" => ret[i].at = "gates" /\ ret[i].drain

(* Dispatchers are bound to what was published, never to a candidate.       *)
BoundInv ==
    /\ \A i \in Instances : bound[i].generation <= publication.generation
    /\ \/ tx.index \in {index, NoIndex}
       \/ tx.index.generation = publication.generation + 1
    /\ \A i \in tasks \cap registry :
          /\ bound[i] = IF tx.at = "bind" THEN tx.previous ELSE index
          /\ i \in bound[i].members

ServiceInv ==
    /\ \A i \in Instances : owner[i] = "none" => Unborn(i)
    /\ RegistryInv
    /\ ReloadInv
    /\ ServingInv
    /\ SnapshotInv
    /\ BoundInv

IndInv ==
    /\ TypeOK
    /\ PhaseInv
    /\ PublicationInv
    /\ PinInv
    /\ shutdown = "no" => ServiceInv

----------------------------------------------------------------------------
(* Types of the records that the actions build.                             *)

LEMMA Records ==
    /\ NoIndex \in Index /\ NoIndex.generation = 0 /\ NoIndex.members = {}
    /\ NoRuntime \in Pinned
    /\ NoView \in Holder /\ NoView.at = "idle" /\ NoView.view = NoIndex /\ NoView.call = 0
    /\ NoCall \in Call /\ NoCall.index = NoIndex
    /\ NotRetiring \in RetirementTask /\ NotRetiring.at = "none"
BY DEF NoIndex, NoRuntime, Idle, NoView, NoCall, NotRetiring, Index, Pinned, Transaction,
       Phases, Holder, Call, RetirementTask

LEMMA IdleTx ==
    /\ tx = Idle => tx \in Transaction
    /\ tx' = Idle => tx' \in Transaction'
    /\ Idle.kind = "none" /\ Idle.at = "none" /\ Idle.index = NoIndex /\ Idle.previous = NoIndex
    /\ Idle.fresh = {} /\ Idle.leaving = {}
<1>1. /\ Idle.kind = "none" /\ Idle.at = "none" /\ Idle.index = NoIndex /\ Idle.previous = NoIndex
      /\ Idle.fresh = {} /\ Idle.leaving = {} /\ Idle.blocked = {}
  BY DEF Idle
<1>2. ASSUME tx = Idle PROVE tx \in Transaction
  <2>1. tx.blocked = {}
    BY <1>1, <1>2
  <2> QED BY <1>2, <2>1, Records DEF Idle, Transaction, Phases
<1>3. ASSUME tx' = Idle PROVE tx' \in Transaction'
  <2>1. tx'.blocked = {}
    BY <1>1, <1>3
  <2> QED BY <1>3, <2>1, Records DEF Idle, Transaction, Phases
<1> QED BY <1>1, <1>2, <1>3

LEMMA InitInv == Init => IndInv
<1> SUFFICES ASSUME Init PROVE IndInv
  OBVIOUS
<1>1. TypeOK
  BY Records, IdleTx DEF Init, TypeOK
<1>2. PhaseInv /\ PublicationInv /\ PinInv
  BY Records DEF Init, PhaseInv, PublicationInv, PinInv, Names, Idle, NoIndex, NoRuntime, Publishing
<1>3. ServiceInv
  BY Records DEF Init, ServiceInv, Unborn, Reached, RegistryInv, ReloadInv, ServingInv, SnapshotInv, BoundInv, Idle, NoIndex, Publishing, Preparing
<1> QED BY <1>1, <1>2, <1>3 DEF IndInv

(* Turns and background calls: only what is reached can change, and it       *)
(* cannot grow beyond what was reached before.                               *)
LEMMA UserFrame ==
    ASSUME IndInv, UNCHANGED <<source, instances, exposed>>,
           turn' \in [Turns -> Holder], bg' \in [Instances -> Call],
           shutdown = "no" => \A i \in Instances : Reached(i)' => Reached(i)
    PROVE  /\ TypeOK' /\ PhaseInv' /\ PublicationInv'
           /\ shutdown' = "no" => ServiceInv'
           /\ Names(runtime)'
           /\ \A r : Names(r) => Names(r)'
<1>u. UNCHANGED <<tx, shutdown, config, failures, owner, life, gate, draining, tasks, guard,
                  ret, lost, registry, blocked, index, publication, runtime, bound>>
  BY DEF source, instances, exposed
<1>1. TypeOK'
  BY <1>u DEF IndInv, TypeOK, Transaction
<1>2. PhaseInv' /\ PublicationInv'
  BY <1>u DEF IndInv, PhaseInv, PublicationInv
<1>3. ASSUME shutdown' = "no" PROVE ServiceInv'
  <2>1. ServiceInv
    BY <1>u, <1>3 DEF IndInv
  <2>2. \A i \in Instances : Unborn(i) => Unborn(i)'
    BY <1>u, <1>3 DEF Unborn
  <2>3. RegistryInv' /\ ServingInv' /\ BoundInv'
    BY <2>1, <1>u DEF ServiceInv, RegistryInv, ServingInv, BoundInv
  <2>4. ReloadInv'
    <3>1. tx.fresh \subseteq Instances
      BY DEF IndInv, TypeOK, Transaction
    <3> QED BY <2>1, <3>1, <1>u, <1>3 DEF ServiceInv, ReloadInv
  <2>5. SnapshotInv'
    BY <2>1, <1>u, <1>3 DEF ServiceInv, SnapshotInv, Serves
  <2> QED BY <2>1, <2>2, <2>3, <2>4, <2>5, <1>u DEF ServiceInv
<1>4. \A r : Names(r) => Names(r)'
  BY <1>u DEF Names
<1>5. Names(runtime)'
  BY <1>4, <1>u DEF IndInv, PinInv
<1> QED BY <1>1, <1>2, <1>3, <1>4, <1>5

(* A turn that reads, or drops what it read.                                *)
LEMMA PinToInv ==
    ASSUME IndInv, NEW t \in Turns, NEW rec \in Holder, PinTo(t, rec),
           rec.view \in {NoIndex, index, turn[t].view},
           rec.at \in {"state", "view"} => Names(rec.runtime),
           rec.at \in {"current", "check"} => rec.view.members = rec.runtime.members,
           rec.at = "holding" => rec.view.members = rec.members
    PROVE  IndInv'
<1>1. /\ UNCHANGED <<source, instances, exposed>> /\ bg' = bg
      /\ turn' \in [Turns -> Holder]
      /\ turn'[t] = rec
      /\ \A u \in Turns \ {t} : turn'[u] = turn[u]
  BY DEF PinTo, IndInv, TypeOK
<1>2. \A i \in Instances : Reached(i)' => Reached(i)
  <2>1. index' = index /\ tx' = tx
    BY <1>1 DEF source, exposed
  <2> QED BY <1>1, <2>1, Records DEF Reached
<1>3. /\ TypeOK' /\ PhaseInv' /\ PublicationInv'
      /\ shutdown' = "no" => ServiceInv'
      /\ Names(runtime)'
      /\ \A r : Names(r) => Names(r)'
  <2>1. bg' \in [Instances -> Call]
    BY <1>1 DEF IndInv, TypeOK
  <2> QED BY <1>1, <1>2, <2>1, UserFrame
<1>4. PinInv'
  <2>1. ASSUME NEW u \in Turns
        PROVE  /\ turn'[u].at \in {"state", "view"} => Names(turn[u].runtime)'
               /\ turn'[u].at \in {"current", "check"} => turn'[u].view.members = turn'[u].runtime.members
               /\ turn'[u].at = "holding" => turn'[u].view.members = turn'[u].members
    <3>1. CASE u = t
      BY <3>1, <1>1, <1>3
    <3>2. CASE u # t
      BY <3>2, <1>1, <1>3 DEF IndInv, PinInv
    <3> QED BY <3>1, <3>2
  <2> QED BY <2>1, <1>3 DEF PinInv
<1> QED BY <1>3, <1>4 DEF IndInv

LEMMA TurnInv ==
    ASSUME IndInv, NEW t \in Turns,
           \/ Pin(t) \/ extension_view(t) \/ call_returns(t) \/ drop_view(t)
           \/ \E i \in Instances : run_recorded_hook(t, i)
    PROVE  IndInv'
<1>t. /\ turn[t] \in Holder /\ runtime \in Pinned /\ index \in Index
      /\ turn[t].view \in Index /\ turn[t].runtime \in Pinned
      /\ index.members \in SUBSET Instances /\ index.generation \in Nat
      /\ turn[t].runtime.members \in SUBSET Instances
      /\ turn[t].runtime.generation \in Nat
  BY DEF IndInv, TypeOK, Holder, Pinned, Index
<1>0. ASSUME PinTo(t, NoView) PROVE IndInv'
  BY <1>0, PinToInv, Records
<1>1. CASE pin_load(t)
  <2> DEFINE rec == [NoView EXCEPT !.at = "state", !.runtime = runtime]
  <2>1. rec \in Holder /\ rec.view = NoIndex /\ rec.at = "state" /\ rec.runtime = runtime
    BY <1>t, Records DEF Holder, NoView
  <2>2. Names(rec.runtime)
    BY <2>1 DEF IndInv, PinInv
  <2> QED BY <1>1, <2>1, <2>2, PinToInv DEF pin_load
<1>2. CASE pin_state(t)
  <2> DEFINE rec == [turn[t] EXCEPT !.at = "view"]
  <2>1. rec \in Holder /\ rec.view = turn[t].view /\ rec.at = "view" /\ rec.runtime = turn[t].runtime
    BY <1>t DEF Holder
  <2>2. Names(rec.runtime)
    BY <1>2, <2>1 DEF IndInv, PinInv, pin_state
  <2>3. PinTo(t, rec) \/ PinTo(t, NoView)
    BY <1>2 DEF pin_state, PinNext
  <2> QED BY <1>0, <2>1, <2>2, <2>3, PinToInv
<1>3. CASE pin_view(t)
  <2> DEFINE rec == [turn[t] EXCEPT !.at = "current", !.view = index]
  <2>1. rec \in Holder /\ rec.view = index /\ rec.at = "current" /\ rec.runtime = turn[t].runtime
    BY <1>t DEF Holder
  <2>2. CASE index.generation = turn[t].runtime.generation
    <3>1. Names(turn[t].runtime)
      BY <1>3 DEF IndInv, PinInv, pin_view
    <3>2. rec.view.members = rec.runtime.members
      BY <2>1, <2>2, <3>1 DEF Names
    <3>3. PinTo(t, rec)
      BY <1>3, <2>2 DEF pin_view, PinNext
    <3> QED BY <3>2, <3>3, <2>1, PinToInv
  <2>3. CASE index.generation # turn[t].runtime.generation
    BY <1>0, <1>3, <2>3 DEF pin_view, PinNext
  <2> QED BY <2>2, <2>3
<1>4. CASE pin_current(t)
  <2> DEFINE rec == [turn[t] EXCEPT !.at = "check"]
  <2>1. rec \in Holder /\ rec.view = turn[t].view /\ rec.at = "check" /\ rec.runtime = turn[t].runtime
    BY <1>t DEF Holder
  <2>2. rec.view.members = rec.runtime.members
    BY <1>4, <2>1 DEF IndInv, PinInv, pin_current
  <2>3. PinTo(t, rec) \/ PinTo(t, NoView)
    BY <1>4 DEF pin_current, PinNext
  <2> QED BY <1>0, <2>1, <2>2, <2>3, PinToInv
<1>5. CASE pin_check(t)
  <2> DEFINE rec == [NoView EXCEPT !.at = "holding", !.view = turn[t].view,
                                   !.members = turn[t].runtime.members]
  <2>1. rec \in Holder /\ rec.view = turn[t].view /\ rec.at = "holding"
        /\ rec.members = turn[t].runtime.members
    BY <1>t, Records DEF Holder, NoView
  <2>2. rec.view.members = rec.members
    BY <1>5, <2>1 DEF IndInv, PinInv, pin_check
  <2>3. PinTo(t, rec) \/ PinTo(t, NoView)
    BY <1>5 DEF pin_check, PinNext
  <2> QED BY <1>0, <2>1, <2>2, <2>3, PinToInv
<1>6. CASE extension_view(t)
  <2> DEFINE rec == [NoView EXCEPT !.at = "holding", !.view = index, !.members = index.members]
  <2>1. rec \in Holder /\ rec.view = index /\ rec.at = "holding" /\ rec.members = index.members
    BY <1>t, Records DEF Holder, NoView
  <2> QED BY <1>6, <2>1, PinToInv DEF extension_view
<1>7. ASSUME NEW c \in Instances \cup {0}, PinTo(t, [turn[t] EXCEPT !.call = c])
      PROVE  IndInv'
  <2> DEFINE rec == [turn[t] EXCEPT !.call = c]
  <2>1. rec \in Holder /\ rec.view = turn[t].view /\ rec.at = turn[t].at
        /\ rec.runtime = turn[t].runtime /\ rec.members = turn[t].members
    BY <1>t DEF Holder
  <2>2. /\ rec.at \in {"state", "view"} => Names(rec.runtime)
        /\ rec.at \in {"current", "check"} => rec.view.members = rec.runtime.members
        /\ rec.at = "holding" => rec.view.members = rec.members
    BY <2>1 DEF IndInv, PinInv
  <2> QED BY <1>7, <2>1, <2>2, PinToInv
<1>8. CASE call_returns(t) \/ \E i \in Instances : run_recorded_hook(t, i)
  BY <1>7, <1>8 DEF call_returns, run_recorded_hook
<1>9. CASE drop_view(t)
  BY <1>0, <1>9 DEF drop_view
<1> QED BY <1>1, <1>2, <1>3, <1>4, <1>5, <1>6, <1>8, <1>9 DEF Pin

LEMMA BackgroundInv ==
    ASSUME IndInv,
           \/ \E i \in Instances : background_returns(i)
           \/ \E i, j \in Instances : background_invoke(i, j)
    PROVE  IndInv'
<1>1. ASSUME UNCHANGED <<source, instances, exposed, turn>>, NEW i \in Instances, NEW c \in Call,
             bg' = [bg EXCEPT ![i] = c],
             shutdown = "no" => \A j \in c.index.members : Reached(j)
      PROVE  IndInv'
  <2>1. /\ turn' = turn /\ bg' \in [Instances -> Call] /\ tx' = tx /\ index' = index
        /\ bg'[i] = c /\ \A j \in Instances \ {i} : bg'[j] = bg[j]
    BY <1>1 DEF IndInv, TypeOK, source, exposed
  <2>2. shutdown = "no" => \A j \in Instances : Reached(j)' => Reached(j)
    BY <1>1, <2>1 DEF Reached
  <2>3. turn' \in [Turns -> Holder]
    BY <2>1 DEF IndInv, TypeOK
  <2>4. /\ TypeOK' /\ PhaseInv' /\ PublicationInv'
        /\ shutdown' = "no" => ServiceInv'
        /\ Names(runtime)'
        /\ \A r : Names(r) => Names(r)'
    BY <1>1, <2>1, <2>2, <2>3, UserFrame
  <2>5. PinInv'
    BY <2>1, <2>4 DEF IndInv, PinInv
  <2> QED BY <2>4, <2>5 DEF IndInv
<1>2. ASSUME NEW i \in Instances, background_returns(i) PROVE IndInv'
  BY <1>1, <1>2, Records DEF background_returns
<1>3. ASSUME NEW i \in Instances, NEW j \in Instances, background_invoke(i, j) PROVE IndInv'
  <2> DEFINE c == [index |-> bound[i], to |-> j]
  <2>1. c \in Call /\ c.index = bound[i]
    BY DEF IndInv, TypeOK, Call
  <2>2. ASSUME shutdown = "no" PROVE \A k \in bound[i].members : Reached(k)
    <3>1. \/ bound[i] \in {index, tx.previous}
          \/ \E t \in Turns : bound[i] = turn[t].view
          \/ \E k \in Instances : bound[i] = bg[k].index
          \/ bound[i] = tx.index
      BY <1>3 DEF background_invoke, LiveIndexes
    <3>2. bound[i] = tx.index => bound[i] \in {index, NoIndex}
      <4>1. bound[i].generation \in Nat /\ publication.generation \in Nat
        BY DEF IndInv, TypeOK, Index
      <4> QED BY <2>2, <4>1 DEF IndInv, ServiceInv, BoundInv
    <3> QED BY <3>1, <3>2, Records DEF Reached
  <2> QED BY <1>1, <1>3, <2>1, <2>2 DEF background_invoke
<1> QED BY <1>2, <1>3

----------------------------------------------------------------------------
(* The retirement tasks.                                                    *)

LEMMA RetireInv ==
    ASSUME IndInv, NEW i \in Instances, Retire(i)
    PROVE  IndInv'
<1>u. UNCHANGED <<tx, shutdown, config, failures, owner, lost, registry, blocked, index,
                  publication, runtime, bound, turn, bg>>
  BY DEF Retire, unpublished, stop, source, exposed, users
<1>r. /\ ret[i].at \in {"gates", "stop"} /\ ret[i] \in RetirementTask
      /\ ret' \in [Instances -> RetirementTask]
      /\ ret'[i].at \in {"stop", "done"}
      /\ \A j \in Instances \ {i} : ret'[j] = ret[j] /\ life'[j] = life[j]
      /\ life' \in [Instances -> {"none", "running", "stopped"}]
  <2>1. ret[i] \in RetirementTask
    BY DEF IndInv, TypeOK
  <2>2. CASE unpublished(i)
    BY <2>1, <2>2 DEF unpublished, IndInv, TypeOK, RetirementTask
  <2>3. CASE stop(i)
    <3>1. [NotRetiring EXCEPT !.at = "done"] \in RetirementTask
      BY DEF RetirementTask, NotRetiring
    <3> QED BY <2>1, <2>3, <3>1 DEF stop, IndInv, TypeOK, NotRetiring
  <2> QED BY <2>2, <2>3 DEF Retire
<1>g. /\ gate \ {i} \subseteq gate' /\ gate' \subseteq gate
      /\ tasks' \subseteq tasks /\ draining' \subseteq draining \cup {i}
  BY DEF Retire, unpublished, stop
<1>1. TypeOK'
  BY <1>u, <1>r DEF IndInv, TypeOK, Transaction
<1>2. PhaseInv' /\ PublicationInv' /\ PinInv'
  BY <1>u DEF IndInv, PhaseInv, PublicationInv, PinInv, Names
<1>3. ASSUME shutdown' = "no" PROVE ServiceInv'
  <2>1. ServiceInv
    BY <1>u, <1>3 DEF IndInv
  <2>2. /\ owner[i] # "none" /\ i \notin registry /\ i \notin tx.fresh
    BY <2>1, <1>r DEF ServiceInv, Unborn, ServingInv, ReloadInv
  <2>3. Reached(i) => i \in lost
    <3>1. CASE unpublished(i) /\ ret[i].drain
      <4>1. ~ Leased(i)
        BY <3>1 DEF unpublished, LeaseOver
      <4> QED BY <4>1 DEF Leased, LiveIndexes, Reached
    <3>2. CASE unpublished(i) /\ ~ ret[i].drain
      BY <2>1, <1>r, <3>2 DEF ServiceInv, SnapshotInv
    <3>3. CASE stop(i)
      BY <2>1, <3>3 DEF ServiceInv, SnapshotInv, stop
    <3> QED BY <3>1, <3>2, <3>3 DEF Retire
  <2>4. \A j \in Instances : Reached(j)' <=> Reached(j)
    BY <1>u DEF Reached
  <2>f. tx.fresh \subseteq Instances /\ registry \subseteq Instances
    BY DEF IndInv, TypeOK, Transaction
  <2>5. \A j \in Instances : owner'[j] = "none" => Unborn(j)'
    BY <2>1, <2>2, <2>4, <1>u, <1>r, <1>g DEF ServiceInv, Unborn
  <2>6. RegistryInv'
    BY <2>1, <1>u DEF ServiceInv, RegistryInv
  <2>7. ReloadInv'
    BY <2>1, <2>2, <2>4, <2>f, <1>u, <1>r, <1>g DEF ServiceInv, ReloadInv
  <2>8. ServingInv'
    BY <2>1, <2>2, <2>f, <1>u, <1>r, <1>g DEF ServiceInv, ServingInv
  <2>9. SnapshotInv'
    BY <2>1, <2>3, <2>4, <1>u, <1>r, <1>g DEF ServiceInv, SnapshotInv, Serves
  <2>10. BoundInv'
    BY <2>1, <1>u, <1>g DEF ServiceInv, BoundInv
  <2> QED BY <2>5, <2>6, <2>7, <2>8, <2>9, <2>10 DEF ServiceInv
<1> QED BY <1>1, <1>2, <1>3 DEF IndInv

----------------------------------------------------------------------------
(* The holder of the source lock.                                           *)

LEMMA TxFields ==
    ASSUME IndInv
    PROVE  /\ tx \in Transaction /\ tx.index \in Index /\ tx.previous \in Index /\ index \in Index
           /\ tx.index.members \subseteq Instances /\ tx.index.generation \in Nat
           /\ tx.previous.members \subseteq Instances
           /\ index.members \subseteq Instances /\ index.generation \in Nat
           /\ tx.keep \subseteq Instances /\ tx.fresh \subseteq Instances
           /\ tx.leaving \subseteq Instances /\ tx.began \subseteq Instances
           /\ tx.changed \in BOOLEAN
           /\ tx.waiting \subseteq Instances
           /\ registry \subseteq Instances
           /\ publication.generation \in Nat
           /\ publication \in [generation : Nat, writing : BOOLEAN, pending : Nat]
           /\ runtime \in Pinned /\ runtime.config \in Nat /\ runtime.generation \in Nat
BY DEF IndInv, TypeOK, Transaction, Index, Pinned

(* A step that leaves the instances, what is published and the users alone,  *)
(* and neither begins nor ends a publication.                                *)
LEMMA QuietStep ==
    ASSUME IndInv, UNCHANGED <<instances, exposed, users>>,
           shutdown' = shutdown, config' \in Nat,
           tx' \in Transaction', PhaseInv',
           tx.at \notin Publishing, tx'.at \notin Publishing,
           \/ tx'.index \in {tx.index, index, NoIndex}
           \/ /\ tx'.index.generation = publication.generation + 1
              /\ tx'.index.members = tx.keep \cup tx.fresh
              /\ tx.at \in Preparing,
           tx'.at = "save" => \/ ~ tx'.changed
                              \/ /\ tx'.index.generation = publication.generation + 1
                                 /\ tx'.index.members = tx'.keep \cup tx'.fresh,
           tx'.previous \in {tx.previous, NoIndex},
           tx'.fresh \in {tx.fresh, {}},
           tx'.leaving \subseteq tx.leaving \cup registry,
           tx'.fresh = {} => tx'.index \in {index, NoIndex} \/ tx.fresh = {},
           shutdown = "no" =>
              /\ tx'.at \in Preparing => /\ tx'.kind = "reload"
                                         /\ tx'.keep \subseteq registry
                                         /\ tx'.leaving = registry \ tx'.keep
                                         /\ tx.at \in Preparing \/ tx.kind = "none"
              /\ tx'.kind # "reload" \/ tx'.at = "aborting" => tx'.fresh = {}
              /\ tx'.at = "none" \/ tx'.kind = "reload"
    PROVE  IndInv'
<1>u. UNCHANGED <<owner, life, gate, draining, tasks, guard, ret, lost, registry, blocked, index,
                  publication, runtime, bound, turn, bg>>
  BY DEF instances, exposed, users
<1>f. tx \in Transaction /\ tx.fresh \subseteq Instances /\ registry \subseteq Instances
  BY TxFields
<1>1. TypeOK'
  BY <1>u DEF IndInv, TypeOK
<1>2. PublicationInv'
  BY <1>u DEF IndInv, PublicationInv, Publishing
<1>3. PinInv'
  BY <1>u DEF IndInv, PinInv, Names, Publishing
<1>4. ASSUME shutdown' = "no" PROVE ServiceInv'
  <2>1. ServiceInv
    BY <1>u, <1>4 DEF IndInv
  <2>2. \A i \in Instances : Reached(i)' => Reached(i)
    BY <1>u, Records DEF Reached
  <2>3. index.members = registry /\ tx.index.members \subseteq registry \cup tx.fresh
    BY <2>1 DEF ServiceInv, RegistryInv
  <2>k. tx.at \in Preparing => tx.keep \subseteq registry
    BY <2>1 DEF ServiceInv, ReloadInv
  <2>4. RegistryInv'
    BY <2>3, <2>k, <1>u, <1>4, Records DEF RegistryInv, PhaseInv, Publishing
  <2>5. \A i \in Instances : owner'[i] = "none" => Unborn(i)'
    BY <2>1, <2>2, <2>3, <2>k, <1>u, <1>f, Records DEF ServiceInv, Unborn
  <2>6. ReloadInv'
    BY <2>1, <2>2, <1>u, <1>f, <1>4 DEF ServiceInv, ReloadInv
  <2>7. ServingInv'
    BY <2>1, <1>u, <1>f DEF ServiceInv, ServingInv, Publishing
  <2>8. SnapshotInv'
    BY <2>1, <2>2, <1>u DEF ServiceInv, SnapshotInv, Serves
  <2>9. BoundInv'
    BY <2>1, <1>u DEF ServiceInv, BoundInv, Publishing
  <2> QED BY <2>4, <2>5, <2>6, <2>7, <2>8, <2>9 DEF ServiceInv
<1> QED BY <1>1, <1>2, <1>3, <1>4 DEF IndInv

LEMMA PrepareInv ==
    ASSUME IndInv, NEW desired \in Desired, NEW changed \in SUBSET desired,
           prepare_source_generation(desired, changed)
    PROVE  IndInv'
<1> DEFINE starts == desired \cap Restarts(desired, changed)
           keep == {i \in registry : owner[i] \in desired \ (starts \cup Blocked(desired))}
           differs == starts # {} \/ Owners(registry) # desired \/ blocked # {}
<1>1. /\ tx' = [Idle EXCEPT !.kind = "reload", !.at = "start",
                !.todo = starts \ Blocked(desired),
                !.keep = keep, !.leaving = registry \ keep, !.began = registry,
                !.blocked = Blocked(desired),
                !.changed = differs,
                !.index = index]
      /\ tx.kind = "none" /\ shutdown = "no" /\ shutdown' = shutdown
      /\ UNCHANGED <<instances, exposed, users>> /\ config' = config + 1
  BY DEF prepare_source_generation
<1>d. differs \in BOOLEAN
  OBVIOUS
<1> HIDE DEF keep, starts, differs
<1>k. keep \subseteq registry /\ starts \subseteq Extensions
  BY ExtensionAssumption DEF keep, starts
<1>2. /\ tx'.kind = "reload" /\ tx'.at = "start" /\ tx'.keep = keep
      /\ tx'.leaving = registry \ keep /\ tx'.fresh = {} /\ tx'.index = index
      /\ tx'.previous = NoIndex /\ tx'.blocked = Blocked(desired)
  BY <1>1 DEF Idle
<1>3. tx' \in Transaction'
  <2> DEFINE todo == starts \ Blocked(desired)
             stopping == Blocked(desired)
             leaving == registry \ keep
  <2>1. /\ todo \in SUBSET Extensions /\ leaving \in SUBSET Instances
        /\ keep \in SUBSET Instances /\ registry \in SUBSET Instances /\ index \in Index
    BY <1>k, TxFields
  <2>2. tx' = [kind |-> "reload", at |-> "start", todo |-> todo, keep |-> keep, fresh |-> {},
               leaving |-> leaving, waiting |-> {}, began |-> registry, blocked |-> stopping,
               changed |-> differs, index |-> index, previous |-> NoIndex]
    BY <1>1 DEF Idle
  <2> HIDE DEF todo, stopping, leaving
  <2> QED BY <2>1, <2>2, <1>d, Records DEF Transaction, Phases
<1>4. tx.at = "none" /\ tx.fresh = {}
  BY <1>1, IdleTx DEF IndInv, PhaseInv
<1>5. PhaseInv'
  BY <1>1, <1>2 DEF PhaseInv, Preparing, Publishing
<1>6. config' \in Nat
  BY <1>1 DEF IndInv, TypeOK
<1> QED BY <1>1, <1>2, <1>3, <1>4, <1>5, <1>6, <1>k, QuietStep DEF Preparing, Publishing

LEMMA PreparedInv ==
    ASSUME IndInv, prepared
    PROVE  IndInv'
<1> DEFINE ix == IF tx.changed THEN BuildIndex(tx.keep \cup tx.fresh) ELSE tx.index
<1>1. /\ tx' = [tx EXCEPT !.at = "save", !.index = ix]
      /\ tx.kind = "reload" /\ tx.at = "start" /\ shutdown' = shutdown /\ config' = config
      /\ UNCHANGED <<instances, exposed, users>>
  BY DEF prepared
<1>i. /\ ix \in Index
      /\ tx.changed => /\ ix.generation = publication.generation + 1
                       /\ ix.members = tx.keep \cup tx.fresh
      /\ ~ tx.changed => ix = tx.index
  BY TxFields DEF BuildIndex, NextGeneration, Index
<1> HIDE DEF ix
<1>2. /\ tx'.kind = "reload" /\ tx'.at = "save" /\ tx'.keep = tx.keep /\ tx'.changed = tx.changed
      /\ tx'.leaving = tx.leaving /\ tx'.fresh = tx.fresh /\ tx'.index = ix
      /\ tx'.previous = tx.previous /\ tx'.blocked = tx.blocked
      /\ tx' \in Transaction'
  BY <1>1, <1>i, TxFields DEF Transaction, Phases
<1>3. PhaseInv'
  BY <1>1, <1>2 DEF IndInv, PhaseInv, Preparing, Publishing, exposed
<1>4. shutdown = "no" => tx.keep \subseteq registry /\ tx.leaving = registry \ tx.keep
  BY <1>1 DEF IndInv, ServiceInv, ReloadInv, Preparing
<1>5. config' \in Nat
  BY <1>1 DEF IndInv, TypeOK
<1> QED BY <1>1, <1>2, <1>i, <1>3, <1>4, <1>5, QuietStep DEF Preparing, Publishing

LEMMA SaveFailsInv ==
    ASSUME IndInv, save_fails
    PROVE  IndInv'
<1>1. /\ tx' = [tx EXCEPT !.at = "rollback"]
      /\ tx.kind = "reload" /\ tx.at = "save" /\ shutdown' = shutdown /\ config' = config
      /\ UNCHANGED <<instances, exposed, users>>
  BY DEF save_fails
<1>2. /\ tx'.kind = "reload" /\ tx'.at = "rollback" /\ tx'.keep = tx.keep
      /\ tx'.leaving = tx.leaving /\ tx'.fresh = tx.fresh /\ tx'.index = tx.index
      /\ tx'.previous = tx.previous /\ tx'.blocked = tx.blocked
      /\ tx' \in Transaction'
  BY <1>1, TxFields DEF Transaction, Phases
<1>3. PhaseInv'
  BY <1>1, <1>2 DEF IndInv, PhaseInv, Preparing, Publishing, exposed
<1>4. shutdown = "no" => tx.keep \subseteq registry /\ tx.leaving = registry \ tx.keep
  BY <1>1 DEF IndInv, ServiceInv, ReloadInv, Preparing
<1>5. config' \in Nat
  BY <1>1 DEF IndInv, TypeOK
<1> QED BY <1>1, <1>2, <1>3, <1>4, <1>5, QuietStep DEF Preparing, Publishing

(* The lock is released without a publication.                              *)
LEMMA AbortReturnsInv ==
    ASSUME IndInv, abort_returns
    PROVE  IndInv'
<1>1. /\ tx' = Idle /\ tx.kind = "reload" /\ tx.at = "aborting"
      /\ shutdown' = shutdown /\ config' = config /\ shutdown = "no"
      /\ UNCHANGED <<instances, exposed, users>>
  BY DEF abort_returns, IndInv, PhaseInv
<1>2. /\ tx'.kind = "none" /\ tx'.at = "none" /\ tx'.fresh = {} /\ tx'.index = NoIndex
      /\ tx'.leaving = {}
      /\ tx'.previous = NoIndex /\ tx' \in Transaction'
  BY <1>1, IdleTx
<1>3. PhaseInv'
  BY <1>1, <1>2 DEF PhaseInv
<1>5. config' \in Nat
  BY <1>1 DEF IndInv, TypeOK
<1> QED BY <1>1, <1>2, <1>3, <1>5, QuietStep DEF Preparing, Publishing

(* A candidate is started, with success or not.  It is an instance that      *)
(* nothing has referred to so far.                                           *)
LEMMA StartInv ==
    ASSUME IndInv, NEW e \in Extensions, NEW i \in Instances,
           start_source_candidate(e, i) \/ start_fails(e, i)
    PROVE  IndInv'
<1>u. /\ UNCHANGED <<shutdown, config, gate, draining, tasks, lost, registry, index,
                     publication, runtime, bound, turn, bg>>
      /\ Candidate(e, i)
  BY DEF start_source_candidate, start_fails, exposed, users
<1>c. /\ tx.kind = "reload" /\ tx.at = "start" /\ shutdown = "no"
      /\ owner[i] = "none" /\ owner' = [owner EXCEPT ![i] = e]
      /\ life' = [life EXCEPT ![i] = "running"]
      /\ e # "none"
  BY <1>u, ExtensionAssumption DEF Candidate, IndInv, PhaseInv
<1>t. /\ tx'.kind = "reload" /\ tx'.at \in Preparing \ {"save"} /\ tx'.keep = tx.keep
      /\ tx'.leaving = tx.leaving /\ tx'.index = tx.index
      /\ tx'.previous = tx.previous
      /\ tx' \in Transaction'
  <2>1. CASE start_source_candidate(e, i)
    BY <2>1, <1>c, TxFields DEF start_source_candidate, Transaction, Phases, Preparing
  <2>2. CASE start_fails(e, i)
    BY <2>2, <1>c, TxFields DEF start_fails, Transaction, Phases, Preparing
  <2> QED BY <2>1, <2>2
<1>r. \/ ret' = ret /\ tx'.fresh = tx.fresh \cup {i}
      \/ /\ ret' = [ret EXCEPT ![i] = Retirement(FALSE, {}, {})]
         /\ tx'.fresh = tx.fresh
  BY TxFields DEF start_source_candidate, start_fails, Transaction
<1>i. Retirement(FALSE, {}, {}) \in RetirementTask
  BY DEF Retirement, RetirementTask
<1>w. /\ ret' \in [Instances -> RetirementTask]
      /\ \A j \in Instances \ {i} : ret'[j] = ret[j]
  BY <1>r, <1>i DEF IndInv, TypeOK
<1>1. TypeOK'
  BY <1>u, <1>c, <1>t, <1>w DEF IndInv, TypeOK
<1>2. PhaseInv'
  BY <1>u, <1>c, <1>t DEF IndInv, PhaseInv
<1>3. PublicationInv'
  BY <1>u, <1>c, <1>t DEF IndInv, PublicationInv, Preparing, Publishing
<1>4. PinInv'
  BY <1>u, <1>c, <1>t DEF IndInv, PinInv, Names
<1>5. ServiceInv'
  <2>1. ServiceInv /\ Unborn(i)
    BY <1>c DEF IndInv, ServiceInv
  <2>2. \A j \in Instances : Reached(j)' <=> Reached(j)
    BY <1>u, <1>t DEF Reached
  <2>3. i \notin registry /\ i \notin tx.fresh /\ i \notin tasks /\ i \notin draining
        /\ ret[i].at = "none" /\ ~ Reached(i) /\ i \notin tx.index.members
    BY <2>1 DEF Unborn
  <2>o. /\ owner'[i] = e /\ life'[i] = "running"
        /\ \A j \in Instances \ {i} : owner'[j] = owner[j] /\ life'[j] = life[j]
    BY <1>c DEF IndInv, TypeOK
  <2>r. /\ \A j \in Instances \ {i} : j \in tx'.fresh => j \in tx.fresh
        /\ i \in tx'.fresh => ret'[i] = ret[i]
        /\ tx.fresh \subseteq Instances /\ tx'.fresh \subseteq Instances
    BY <2>3, <1>r, TxFields
  <2>4. \A j \in Instances : owner'[j] = "none" => Unborn(j)'
    <3> SUFFICES ASSUME NEW j \in Instances, owner'[j] = "none" PROVE Unborn(j)'
      OBVIOUS
    <3>1. j # i /\ owner[j] = "none"
      BY <2>o, <1>c
    <3>2. Unborn(j)
      BY <3>1, <2>1 DEF ServiceInv
    <3> QED BY <3>1, <3>2, <2>2, <2>r, <1>u, <1>t, <1>w DEF Unborn
  <2>5. RegistryInv'
    BY <2>1, <1>u, <1>c, <1>t, <1>r DEF ServiceInv, RegistryInv, Preparing, Publishing
  <2>6. ReloadInv'
    <3>1. ASSUME NEW j \in tx'.fresh
          PROVE  /\ owner'[j] # "none" /\ life'[j] = "running" /\ ret'[j].at = "none"
                 /\ j \notin draining' /\ j \notin tasks'
                 /\ j \notin registry' /\ ~ Reached(j)'
      <4>1. CASE j = i
        BY <4>1, <2>2, <2>3, <2>o, <2>r, <1>u, <1>c
      <4>2. CASE j # i
        BY <4>2, <2>1, <2>2, <2>o, <2>r, <1>u, <1>c, <1>w DEF ServiceInv, ReloadInv, Preparing
      <4> QED BY <4>1, <4>2
    <3> QED BY <3>1, <2>1, <1>u, <1>c, <1>t DEF ServiceInv, ReloadInv, Preparing, Publishing
  <2>7. ServingInv'
    BY <2>1, <2>3, <2>o, <1>u, <1>c, <1>t, <1>w, TxFields DEF ServiceInv, ServingInv
  <2>8. SnapshotInv'
    BY <2>1, <2>2, <2>3, <2>o, <1>u, <1>w DEF ServiceInv, SnapshotInv, Serves
  <2>9. BoundInv'
    BY <2>1, <1>u, <1>c, <1>t DEF ServiceInv, BoundInv, Preparing
  <2> QED BY <2>4, <2>5, <2>6, <2>7, <2>8, <2>9 DEF ServiceInv
<1> QED BY <1>1, <1>2, <1>3, <1>4, <1>5 DEF IndInv

(* The candidates of a publication that failed go to retirements: no turn    *)
(* and no task has ever reached one.                                         *)
LEMMA AbortInv ==
    ASSUME IndInv, abort
    PROVE  IndInv'
<1>u. /\ UNCHANGED <<shutdown, config, owner, life, gate, draining, tasks, lost, registry, index,
                     publication, runtime, bound, turn, bg>>
      /\ tx.kind = "reload" /\ tx.at = "rollback" /\ shutdown = "no"
  BY DEF abort, exposed, users, IndInv, PhaseInv
<1>t. /\ tx'.kind = "reload" /\ tx'.at = "aborting" /\ tx'.index = NoIndex
      /\ tx'.previous = tx.previous /\ tx'.fresh = {} /\ tx'.leaving = tx.leaving
      /\ tx' \in Transaction'
  BY <1>u, TxFields, Records DEF abort, Transaction, Phases, AbortedCandidates
<1>i. Retirement(FALSE, {}, {}) \in RetirementTask
  BY DEF Retirement, RetirementTask
<1>r. /\ ret' \in [Instances -> RetirementTask]
      /\ \A j \in Instances \ tx.fresh : ret'[j] = ret[j]
  BY <1>i DEF abort, AbortedCandidates, IndInv, TypeOK
<1>1. TypeOK'
  BY <1>u, <1>t, <1>r DEF IndInv, TypeOK
<1>2. PhaseInv'
  BY <1>u, <1>t DEF IndInv, PhaseInv
<1>3. PublicationInv'
  BY <1>u, <1>t DEF IndInv, PublicationInv, Publishing
<1>4. PinInv'
  BY <1>u, <1>t DEF IndInv, PinInv, Names
<1>5. ServiceInv'
  <2>1. ServiceInv
    BY <1>u DEF IndInv
  <2>2. \A j \in Instances : Reached(j)' <=> Reached(j)
    BY <1>u, <1>t DEF Reached
  <2>3. \A j \in tx.fresh : owner[j] # "none" /\ j \notin registry /\ ~ Reached(j)
    BY <2>1, <1>u DEF ServiceInv, ReloadInv, Preparing
  <2>4. \A j \in Instances : owner'[j] = "none" => Unborn(j)'
    BY <2>1, <2>2, <2>3, <1>u, <1>t, <1>r, Records DEF ServiceInv, Unborn
  <2>5. RegistryInv'
    BY <2>1, <1>u, <1>t, Records DEF ServiceInv, RegistryInv, Publishing
  <2>6. ReloadInv'
    BY <1>t DEF ReloadInv, Preparing, Publishing
  <2>7. ServingInv'
    BY <2>1, <2>3, <1>u, <1>t, <1>r, TxFields DEF ServiceInv, ServingInv
  <2>8. SnapshotInv'
    BY <2>1, <2>2, <2>3, <1>u, <1>r DEF ServiceInv, SnapshotInv, Serves
  <2>9. BoundInv'
    BY <2>1, <1>u, <1>t DEF ServiceInv, BoundInv
  <2> QED BY <2>4, <2>5, <2>6, <2>7, <2>8, <2>9 DEF ServiceInv
<1> QED BY <1>1, <1>2, <1>3, <1>4, <1>5 DEF IndInv

(* Nothing changed: the session layer gets the members of the index again.  *)
LEMMA CommitUnchangedInv ==
    ASSUME IndInv, commit_unchanged
    PROVE  IndInv'
<1>u. /\ UNCHANGED <<shutdown, config, owner, life, gate, draining, tasks, ret, lost, registry,
                     index, publication, bound, turn, bg>>
      /\ tx.kind = "reload" /\ tx.at = "save" /\ shutdown = "no"
      /\ runtime' = [config |-> config, generation |-> publication.generation,
                     members |-> index.members]
      /\ tx' = Idle
  BY DEF commit_unchanged, instances, users, IndInv, PhaseInv
<1>t. /\ tx'.kind = "none" /\ tx'.at = "none" /\ tx'.fresh = {} /\ tx'.index = NoIndex
      /\ tx'.leaving = {}
      /\ tx'.previous = NoIndex /\ tx' \in Transaction'
  BY <1>u, IdleTx
<1>r. /\ runtime' \in Pinned /\ runtime'.generation = publication.generation
      /\ runtime'.members = index.members
  BY <1>u, TxFields DEF Pinned, IndInv, TypeOK
<1>1. TypeOK'
  BY <1>u, <1>t, <1>r DEF IndInv, TypeOK
<1>2. PhaseInv'
  BY <1>u, <1>t DEF PhaseInv
<1>3. PublicationInv'
  BY <1>u, <1>t DEF IndInv, PublicationInv, Publishing
<1>4. PinInv'
  BY <1>u, <1>t, <1>r, TxFields DEF IndInv, PinInv, Names
<1>5. ServiceInv'
  <2>1. ServiceInv
    BY <1>u DEF IndInv
  <2>2. \A j \in Instances : Reached(j)' => Reached(j)
    BY <1>u, <1>t, Records DEF Reached
  <2>4. \A j \in Instances : owner'[j] = "none" => Unborn(j)'
    BY <2>1, <2>2, <1>u, <1>t, Records DEF ServiceInv, Unborn
  <2>5. RegistryInv'
    BY <2>1, <1>u, <1>t, Records DEF ServiceInv, RegistryInv, Publishing
  <2>6. ReloadInv'
    BY <1>t DEF ReloadInv, Preparing, Publishing
  <2>7. ServingInv'
    BY <2>1, <1>u, <1>t, TxFields DEF ServiceInv, ServingInv
  <2>8. SnapshotInv'
    BY <2>1, <2>2, <1>u DEF ServiceInv, SnapshotInv, Serves
  <2>9. BoundInv'
    BY <2>1, <1>u, <1>t DEF ServiceInv, BoundInv
  <2> QED BY <2>4, <2>5, <2>6, <2>7, <2>8, <2>9 DEF ServiceInv
<1> QED BY <1>1, <1>2, <1>3, <1>4, <1>5 DEF IndInv

(* The registry is replaced and the publication of its index begins.         *)
LEMMA CommitWithInv ==
    ASSUME IndInv, commit_with
    PROVE  IndInv'
<1>u. /\ UNCHANGED <<shutdown, config, owner, life, gate, draining, tasks, ret, lost,
                     index, runtime, bound, turn, bg>>
      /\ tx.kind = "reload" /\ tx.at = "save" /\ shutdown = "no" /\ tx.changed
      /\ registry' = tx.keep \cup tx.fresh
      /\ publication' = [publication EXCEPT !.writing = TRUE, !.pending = tx.index.generation]
  BY DEF commit_with, BeginPublication, users, IndInv, PhaseInv
<1>t. /\ tx'.kind = "reload" /\ tx'.at = "publish" /\ tx'.index = tx.index
      /\ tx'.previous = tx.previous /\ tx'.fresh = tx.fresh /\ tx'.leaving = tx.leaving
      /\ tx'.keep = tx.keep /\ tx' \in Transaction'
  BY <1>u, TxFields DEF commit_with, Transaction, Phases
<1>p. /\ publication' \in [generation : Nat, writing : BOOLEAN, pending : Nat]
      /\ publication'.generation = publication.generation /\ publication'.writing
      /\ publication'.pending = tx.index.generation
  BY <1>u, TxFields
<1>1. TypeOK'
  BY <1>u, <1>t, <1>p, TxFields DEF IndInv, TypeOK
<1>2. PhaseInv'
  BY <1>u, <1>t DEF PhaseInv, Publishing
<1>3. PublicationInv'
  BY <1>u, <1>t, <1>p DEF IndInv, PublicationInv, Publishing
<1>4. PinInv'
  BY <1>u, <1>t, <1>p DEF IndInv, PinInv, Names
<1>5. ServiceInv'
  <2>1. ServiceInv
    BY <1>u DEF IndInv
  <2>2. \A j \in Instances : Reached(j)' <=> Reached(j)
    BY <1>u, <1>t DEF Reached
  <2>3. /\ tx.keep \subseteq registry /\ tx.leaving = registry \ tx.keep
        /\ index.members = registry /\ tx.index.members = tx.keep \cup tx.fresh
        /\ \A j \in tx.fresh : /\ owner[j] # "none" /\ life[j] = "running" /\ ret[j].at = "none"
                               /\ j \notin draining /\ j \notin tasks /\ j \notin registry
    BY <2>1, <1>u DEF ServiceInv, ReloadInv, RegistryInv, Preparing, Publishing, IndInv, PublicationInv
  <2>4. \A j \in Instances : owner'[j] = "none" => Unborn(j)'
    BY <2>1, <2>2, <2>3, <1>u, <1>t DEF ServiceInv, Unborn
  <2>5. RegistryInv'
    BY <2>3, <1>u, <1>t DEF RegistryInv, Publishing
  <2>6. ReloadInv'
    BY <2>3, <1>u, <1>t DEF ReloadInv, Preparing, Publishing
  <2>7. ServingInv'
    BY <2>1, <2>3, <1>u, <1>t, TxFields DEF ServiceInv, ServingInv
  <2>8. SnapshotInv'
    BY <2>1, <2>2, <1>u DEF ServiceInv, SnapshotInv, Serves
  <2>9. BoundInv'
    BY <2>1, <2>3, <1>u, <1>t, <1>p DEF ServiceInv, BoundInv
  <2> QED BY <2>4, <2>5, <2>6, <2>7, <2>8, <2>9 DEF ServiceInv
<1> QED BY <1>1, <1>2, <1>3, <1>4, <1>5 DEF IndInv

LEMMA PublishInv ==
    ASSUME IndInv, publish
    PROVE  IndInv'
<1>u. /\ UNCHANGED <<shutdown, config, owner, life, draining, tasks, ret, lost, registry,
                     index, publication, bound, turn, bg>>
      /\ tx.at = "publish" /\ gate \subseteq gate'
      /\ tx.kind = "reload" => gate' = gate \cup registry
  BY DEF publish, users
<1>k. tx.kind \in {"reload", "failure"} /\ shutdown = "no"
  BY <1>u, TxFields, IdleTx DEF IndInv, PhaseInv, Transaction
<1>t. /\ tx'.kind = tx.kind /\ tx'.at = "swap" /\ tx'.index = tx.index
      /\ tx'.previous = tx.previous /\ tx'.fresh = tx.fresh /\ tx'.leaving = tx.leaving
      /\ tx'.keep = tx.keep /\ tx' \in Transaction'
  BY TxFields DEF publish, Transaction, Phases
<1>r. /\ runtime' \in Pinned /\ runtime'.generation = tx.index.generation
      /\ runtime'.members = tx.index.members
  <2> DEFINE c == IF tx.kind = "reload" THEN config ELSE runtime.config
  <2>1. c \in Nat
    BY TxFields DEF IndInv, TypeOK
  <2>2. runtime' = [config |-> c, generation |-> tx.index.generation,
                    members |-> tx.index.members]
    BY DEF publish
  <2> HIDE DEF c
  <2> QED BY <2>1, <2>2, TxFields DEF Pinned
<1>1. TypeOK'
  BY <1>u, <1>t, <1>r DEF IndInv, TypeOK
<1>2. PhaseInv'
  BY <1>u, <1>t, <1>k DEF PhaseInv, Publishing
<1>3. PublicationInv'
  BY <1>u, <1>t DEF IndInv, PublicationInv, Publishing
<1>4. PinInv'
  <2>1. index.generation = publication.generation /\ tx.index.generation = publication.generation + 1
    BY <1>u DEF IndInv, PublicationInv, Publishing
  <2>2. Names(runtime)'
    BY <2>1, <1>u, <1>t, <1>r, TxFields DEF Names
  <2> QED BY <2>2, <1>u, <1>t DEF IndInv, PinInv, Names
<1>5. ServiceInv'
  <2>1. ServiceInv
    BY <1>k DEF IndInv
  <2>2. \A j \in Instances : Reached(j)' <=> Reached(j)
    BY <1>u, <1>t DEF Reached
  <2>4. \A j \in Instances : owner'[j] = "none" => Unborn(j)'
    BY <2>1, <2>2, <1>u, <1>t DEF ServiceInv, Unborn
  <2>5. RegistryInv'
    BY <2>1, <1>u, <1>t DEF ServiceInv, RegistryInv, Publishing
  <2>6. ReloadInv'
    BY <2>1, <1>u, <1>t DEF ServiceInv, ReloadInv, Preparing, Publishing
  <2>7. ServingInv'
    BY <2>1, <1>u, <1>k, <1>t DEF ServiceInv, ServingInv
  <2>8. SnapshotInv'
    BY <2>1, <2>2, <1>u DEF ServiceInv, SnapshotInv, Serves
  <2>9. BoundInv'
    BY <2>1, <1>u, <1>t DEF ServiceInv, BoundInv
  <2> QED BY <2>4, <2>5, <2>6, <2>7, <2>8, <2>9 DEF ServiceInv
<1> QED BY <1>1, <1>2, <1>3, <1>4, <1>5 DEF IndInv

LEMMA SwapInv ==
    ASSUME IndInv, swap
    PROVE  IndInv'
<1>u. /\ UNCHANGED <<shutdown, config, owner, life, gate, draining, tasks, ret, lost, registry,
                     publication, runtime, bound, turn, bg>>
      /\ tx.at = "swap" /\ index' = tx.index
  BY DEF swap, users, instances
<1>t. /\ tx'.kind = tx.kind /\ tx'.at = "bind" /\ tx'.index = tx.index
      /\ tx'.previous = index /\ tx'.fresh = tx.fresh /\ tx'.leaving = tx.leaving
      /\ tx'.keep = tx.keep /\ tx' \in Transaction'
  BY TxFields DEF swap, Transaction, Phases, HeldAcrossBind
<1>1. TypeOK'
  BY <1>u, <1>t, TxFields DEF IndInv, TypeOK
<1>2. PhaseInv'
  BY <1>u, <1>t, IdleTx DEF IndInv, PhaseInv, Publishing
<1>3. PublicationInv'
  BY <1>u, <1>t DEF IndInv, PublicationInv, Publishing
<1>4. PinInv'
  <2>1. tx.index.generation = publication.generation + 1
    BY <1>u DEF IndInv, PublicationInv, Publishing
  <2>2. ASSUME NEW r, r.generation \in Nat, Names(r)
        PROVE  Names(r)'
    BY <2>1, <2>2, <1>u, <1>t, TxFields DEF Names
  <2>3. \A t \in Turns : turn[t].runtime.generation \in Nat
    BY DEF IndInv, TypeOK, Holder, Pinned
  <2>4. Names(runtime)'
    BY <2>2, <1>u, TxFields DEF IndInv, PinInv
  <2>5. \A t \in Turns : turn[t].at \in {"state", "view"} => Names(turn[t].runtime)'
    BY <2>2, <2>3, <1>u DEF IndInv, PinInv
  <2> QED BY <2>4, <2>5, <1>u DEF IndInv, PinInv
<1>5. ASSUME shutdown' = "no" PROVE ServiceInv'
  <2>1. ServiceInv
    BY <1>u, <1>5 DEF IndInv
  <2>r. tx.index.members = registry
    BY <2>1, <1>u DEF ServiceInv, RegistryInv, Publishing
  <2>2. \A j \in Instances : Reached(j)' => Reached(j) \/ j \in registry
    BY <2>r, <1>u, <1>t DEF Reached
  <2>4. \A j \in Instances : owner'[j] = "none" => Unborn(j)'
    BY <2>1, <2>2, <1>u, <1>t DEF ServiceInv, Unborn
  <2>5. RegistryInv'
    BY <2>1, <1>u, <1>t DEF ServiceInv, RegistryInv, Publishing
  <2>6. ReloadInv'
    BY <2>1, <1>u, <1>t DEF ServiceInv, ReloadInv, Preparing, Publishing
  <2>7. ServingInv'
    BY <2>1, <1>u, <1>t DEF ServiceInv, ServingInv
  <2>8. SnapshotInv'
    BY <2>1, <2>2, <1>u DEF ServiceInv, SnapshotInv, ServingInv, Serves
  <2>9. BoundInv'
    BY <2>1, <1>u, <1>t DEF ServiceInv, BoundInv
  <2> QED BY <2>4, <2>5, <2>6, <2>7, <2>8, <2>9 DEF ServiceInv
<1> QED BY <1>1, <1>2, <1>3, <1>4, <1>5 DEF IndInv

(* The publication ends; what left the registry goes to retirements, which   *)
(* wait for the views unless a failure has already withdrawn the instance.   *)
LEMMA BindInv ==
    ASSUME IndInv, bind
    PROVE  IndInv'
<1>u. /\ UNCHANGED <<shutdown, config, owner, life, gate, draining, lost, registry,
                     index, runtime, turn, bg>>
      /\ tx.at = "bind"
      /\ bound' = [i \in Instances |-> IF i \in registry THEN index ELSE bound[i]]
      /\ publication' = [generation |-> publication.pending, writing |-> FALSE, pending |-> 0]
      /\ tasks \subseteq tasks' /\ tasks' \subseteq tasks \cup registry
  BY DEF bind, users
<1>p. /\ publication' \in [generation : Nat, writing : BOOLEAN, pending : Nat]
      /\ publication'.generation = tx.index.generation /\ ~ publication'.writing
      /\ index = tx.index /\ tx.index.generation = publication.generation + 1
  BY <1>u, TxFields DEF IndInv, PublicationInv, Publishing
<1>t. /\ tx'.at \in {"none", "ticket"} /\ tx'.index = NoIndex /\ tx'.previous = NoIndex
      /\ tx'.fresh = {} /\ tx'.leaving = {} /\ tx' \in Transaction'
      /\ tx'.kind \in {"none", "shutdown"}
      /\ tx.kind = "shutdown" <=> tx'.kind = "shutdown"
      /\ tx'.kind = "none" => tx' = Idle
      /\ tx'.kind = "shutdown" => tx'.at = "ticket"
      /\ tx'.kind = "none" => tx'.at = "none"
  <2>1. CASE tx.kind = "shutdown"
    <3>1. tx' = [Idle EXCEPT !.kind = "shutdown", !.at = "ticket", !.waiting = tx.leaving,
                             !.began = tx.began]
      BY <2>1 DEF bind
    <3>2. tx'.blocked = {}
      BY <3>1 DEF Idle
    <3> QED BY <2>1, <3>1, <3>2, TxFields, Records DEF Idle, Transaction, Phases
  <2>2. CASE tx.kind # "shutdown"
    BY <2>2, IdleTx DEF bind
  <2> QED BY <2>1, <2>2
<1>r. /\ ret' \in [Instances -> RetirementTask]
      /\ \A j \in Instances \ tx.leaving : ret'[j] = ret[j]
      /\ \A j \in Instances \cap tx.leaving :
            ret'[j].at = "gates" /\ (tx.kind = "reload" => ret'[j].drain)
  <2>1. DrainsFirst \in BOOLEAN /\ (tx.kind = "reload" => DrainsFirst)
    BY DEF DrainsFirst
  <2>2. \A j \in Instances : /\ DependentGates(j) \in SUBSET Instances
                             /\ DependentsIn(tx.began, j) \in SUBSET Instances
    BY TxFields DEF DependentGates, DependentsIn
  <2>3. \A j \in Instances :
          LET r == Retirement(DrainsFirst, DependentGates(j), DependentsIn(tx.began, j))
          IN  r \in RetirementTask /\ r.at = "gates" /\ r.drain = DrainsFirst
    BY <2>1, <2>2 DEF Retirement, RetirementTask
  <2>4. ret' = [i \in Instances |->
                 IF i \in tx.leaving
                 THEN Retirement(DrainsFirst, DependentGates(i), DependentsIn(tx.began, i))
                 ELSE ret[i]]
    BY DEF bind
  <2>5. \A j \in Instances : ret[j] \in RetirementTask
    BY DEF IndInv, TypeOK
  <2> QED BY <2>1, <2>3, <2>4, <2>5
<1>b. /\ bound' \in [Instances -> Index]
      /\ \A i \in Instances : bound'[i] = IF i \in registry THEN index ELSE bound[i]
  BY <1>u, TxFields DEF IndInv, TypeOK
<1>1. TypeOK'
  BY <1>u, <1>t, <1>p, <1>r, <1>b DEF IndInv, TypeOK
<1>2. PhaseInv'
  <2>1. tx.kind # "none"
    BY <1>u, IdleTx DEF IndInv, PhaseInv
  <2> QED BY <1>u, <1>t, <2>1 DEF IndInv, PhaseInv, Publishing
<1>3. PublicationInv'
  BY <1>u, <1>t, <1>p DEF IndInv, PublicationInv, Publishing
<1>4. PinInv'
  <2>2. ASSUME NEW r, r.generation \in Nat, Names(r)
        PROVE  Names(r)'
    BY <2>2, <1>u, <1>p, TxFields DEF Names
  <2>3. \A t \in Turns : turn[t].runtime.generation \in Nat
    BY DEF IndInv, TypeOK, Holder, Pinned
  <2>4. Names(runtime)'
    BY <2>2, <1>u, TxFields DEF IndInv, PinInv
  <2>5. \A t \in Turns : turn[t].at \in {"state", "view"} => Names(turn[t].runtime)'
    BY <2>2, <2>3, <1>u DEF IndInv, PinInv
  <2> QED BY <2>4, <2>5, <1>u DEF IndInv, PinInv
<1>5. ASSUME shutdown' = "no" PROVE ServiceInv'
  <2>1. ServiceInv
    BY <1>u, <1>5 DEF IndInv
  <2>k. tx.kind \in {"reload", "failure"} /\ tx'.kind = "none" /\ tx'.at = "none"
    BY <1>u, <1>t, <1>5, IdleTx, TxFields DEF IndInv, PhaseInv, Transaction
  <2>r. /\ index.members = registry /\ tx.leaving \cap registry = {}
        /\ tx.kind = "failure" => tx.leaving \subseteq lost
        /\ tx.fresh \subseteq registry
    BY <2>1, <2>k, <1>u, <1>p DEF ServiceInv, RegistryInv, ReloadInv, Publishing
  <2>2. \A j \in Instances : Reached(j)' => Reached(j)
    BY <1>u, <1>t, Records DEF Reached
  <2>l. \A j \in Instances \cap tx.leaving : owner[j] # "none"
    BY <2>1 DEF ServiceInv, Unborn
  <2>4. \A j \in Instances : owner'[j] = "none" => Unborn(j)'
    BY <2>1, <2>2, <2>r, <2>l, <1>u, <1>t, <1>r, Records DEF ServiceInv, Unborn
  <2>5. RegistryInv'
    BY <2>r, <2>k, <1>u, <1>t, Records DEF RegistryInv, Publishing
  <2>6. ReloadInv'
    BY <2>k, <1>t DEF ReloadInv, Preparing, Publishing
  <2>7. ServingInv'
    BY <2>1, <2>r, <1>u, <1>r, TxFields DEF ServiceInv, ServingInv
  <2>8. SnapshotInv'
    <3> SUFFICES ASSUME NEW j \in Instances, Reached(j), j \notin lost
                 PROVE  Serves(j)' /\ (ret'[j].at # "none" => ret'[j].at = "gates" /\ ret'[j].drain)
      BY <2>2, <1>u DEF SnapshotInv
    <3>1. Serves(j) /\ (ret[j].at # "none" => ret[j].at = "gates" /\ ret[j].drain)
      BY <2>1 DEF ServiceInv, SnapshotInv
    <3>2. CASE j \in tx.leaving
      BY <3>1, <3>2, <2>r, <2>k, <1>r, <1>u DEF Serves
    <3>3. CASE j \notin tx.leaving
      BY <3>1, <3>3, <1>r, <1>u DEF Serves
    <3> QED BY <3>2, <3>3
  <2>9. BoundInv'
    <3>1. \A i \in Instances : bound'[i].generation <= publication'.generation
      <4>1. \A i \in Instances : bound[i].generation \in Nat /\ bound[i].generation <= publication.generation
        BY <2>1 DEF ServiceInv, BoundInv, IndInv, TypeOK, Index
      <4> QED BY <4>1, <1>b, <1>p, TxFields
    <3>2. \A i \in tasks' \cap registry : bound'[i] = index /\ i \in index.members
      BY <1>b, <2>r, TxFields
    <3> QED BY <3>1, <3>2, <2>k, <1>u, <1>t DEF BoundInv
  <2> QED BY <2>4, <2>5, <2>6, <2>7, <2>8, <2>9 DEF ServiceInv
<1> QED BY <1>1, <1>2, <1>3, <1>4, <1>5 DEF IndInv

(* A worker dies: what depends on it counts as lost from now on.             *)
LEMMA FailureInv ==
    ASSUME IndInv, NEW i \in Instances, apply_runtime_failure(i)
    PROVE  IndInv'
<1> DEFINE affected == {i} \cup DependentsIn(registry, i)
<1>u. /\ UNCHANGED <<shutdown, config, owner, life, draining, ret, registry,
                     index, publication, runtime, bound, turn, bg>>
      /\ tx.kind = "none" /\ i \in registry
      /\ gate' = gate \ affected /\ tasks' = tasks \ affected /\ lost' = lost \cup affected
      /\ tx' = [Idle EXCEPT !.kind = "failure", !.at = "gates", !.leaving = affected,
                            !.began = registry]
  BY DEF apply_runtime_failure, exposed, users
<1>a. affected \subseteq registry
  BY <1>u DEF DependentsIn
<1> HIDE DEF affected
<1>s. shutdown = "no" /\ tx.at = "none" /\ tx.previous = NoIndex
  <2>1. registry # {} /\ tx = Idle
    BY <1>u DEF IndInv, PhaseInv
  <2> QED BY <2>1, <1>u, IdleTx DEF IndInv, PhaseInv, TypeOK
<1>t. /\ tx'.kind = "failure" /\ tx'.at = "gates" /\ tx'.index = NoIndex
      /\ tx'.previous = NoIndex /\ tx'.fresh = {} /\ tx'.leaving = affected
      /\ tx' \in Transaction'
  <2>1. tx' = [kind |-> "failure", at |-> "gates", todo |-> {}, keep |-> {}, fresh |-> {},
               leaving |-> affected, waiting |-> {}, began |-> registry, blocked |-> {},
               changed |-> FALSE, index |-> NoIndex, previous |-> NoIndex]
    BY <1>u DEF Idle
  <2> QED BY <2>1, <1>a, TxFields, Records DEF Transaction, Phases
<1>1. TypeOK'
  BY <1>u, <1>t DEF IndInv, TypeOK
<1>2. PhaseInv'
  BY <1>u, <1>s, <1>t DEF PhaseInv
<1>3. PublicationInv'
  BY <1>u, <1>s, <1>t DEF IndInv, PublicationInv, Publishing
<1>4. PinInv'
  BY <1>u, <1>s, <1>t DEF IndInv, PinInv, Names
<1>5. ServiceInv'
  <2>1. ServiceInv
    BY <1>s DEF IndInv
  <2>2. \A j \in Instances : Reached(j)' <=> Reached(j)
    BY <1>u, <1>s, <1>t DEF Reached
  <2>4. \A j \in Instances : owner'[j] = "none" => Unborn(j)'
    BY <2>1, <2>2, <1>a, <1>u, <1>t, Records DEF ServiceInv, Unborn
  <2>5. RegistryInv'
    BY <2>1, <1>u, <1>s, <1>t, Records DEF ServiceInv, RegistryInv, Publishing
  <2>6. ReloadInv'
    BY <1>t DEF ReloadInv, Preparing, Publishing
  <2>7. ServingInv'
    BY <2>1, <1>u, <1>s, <1>t, TxFields DEF ServiceInv, ServingInv
  <2>8. SnapshotInv'
    BY <2>1, <2>2, <1>u DEF ServiceInv, SnapshotInv, Serves
  <2>9. BoundInv'
    BY <2>1, <1>u, <1>s, <1>t DEF ServiceInv, BoundInv
  <2> QED BY <2>4, <2>5, <2>6, <2>7, <2>8, <2>9 DEF ServiceInv
<1> QED BY <1>1, <1>2, <1>3, <1>4, <1>5 DEF IndInv

LEMMA BuiltIndex ==
    ASSUME IndInv, NEW S \in SUBSET Instances
    PROVE  /\ BuildIndex(S) \in Index
           /\ BuildIndex(S).generation = publication.generation + 1
           /\ BuildIndex(S).members = S
BY TxFields DEF BuildIndex, NextGeneration, Index

(* The withdrawn instances leave the registry and the publication begins.    *)
LEMMA WithdrawInv ==
    ASSUME IndInv, withdraw
    PROVE  IndInv'
<1> DEFINE ix == BuildIndex(registry \ tx.leaving)
<1>u. /\ UNCHANGED <<shutdown, config, owner, life, gate, draining, tasks, ret, lost,
                     index, runtime, bound, turn, bg>>
      /\ tx.kind = "failure" /\ tx.at = "gates" /\ shutdown = "no"
      /\ registry' = registry \ tx.leaving
      /\ publication' = [publication EXCEPT !.writing = TRUE, !.pending = ix.generation]
      /\ tx' = [tx EXCEPT !.at = "publish", !.index = ix]
  BY DEF withdraw, BeginPublication, users, IndInv, PhaseInv
<1>i. /\ ix \in Index /\ ix.generation = publication.generation + 1
      /\ ix.members = registry \ tx.leaving /\ ix.generation \in Nat
  BY TxFields, BuiltIndex DEF Index
<1> HIDE DEF ix
<1>t. /\ tx'.kind = "failure" /\ tx'.at = "publish" /\ tx'.index = ix
      /\ tx'.previous = tx.previous /\ tx'.fresh = tx.fresh /\ tx'.leaving = tx.leaving
      /\ tx' \in Transaction'
  BY <1>u, <1>i, TxFields DEF Transaction, Phases
<1>p. /\ publication' \in [generation : Nat, writing : BOOLEAN, pending : Nat]
      /\ publication'.generation = publication.generation /\ publication'.writing
      /\ publication'.pending = ix.generation
  BY <1>u, <1>i, TxFields
<1>1. TypeOK'
  BY <1>u, <1>t, <1>p, TxFields DEF IndInv, TypeOK
<1>2. PhaseInv'
  BY <1>u, <1>t DEF PhaseInv, Publishing
<1>3. PublicationInv'
  BY <1>u, <1>i, <1>t, <1>p DEF IndInv, PublicationInv, Publishing
<1>4. PinInv'
  BY <1>u, <1>t, <1>p DEF IndInv, PinInv, Names
<1>5. ServiceInv'
  <2>1. ServiceInv
    BY <1>u DEF IndInv
  <2>2. \A j \in Instances : Reached(j)' <=> Reached(j)
    BY <1>u, <1>t DEF Reached
  <2>3. index.members = registry /\ tx.fresh = {}
    BY <2>1, <1>u DEF ServiceInv, RegistryInv, ReloadInv, Publishing
  <2>4. \A j \in Instances : owner'[j] = "none" => Unborn(j)'
    BY <2>1, <2>2, <1>u, <1>i, <1>t DEF ServiceInv, Unborn
  <2>5. RegistryInv'
    BY <2>1, <2>3, <1>u, <1>i, <1>t DEF ServiceInv, RegistryInv, Publishing
  <2>6. ReloadInv'
    BY <2>3, <1>t DEF ReloadInv, Preparing, Publishing
  <2>7. ServingInv'
    BY <2>1, <2>3, <1>u, <1>t, TxFields DEF ServiceInv, ServingInv
  <2>8. SnapshotInv'
    BY <2>1, <2>2, <1>u DEF ServiceInv, SnapshotInv, Serves
  <2>9. BoundInv'
    BY <2>1, <1>u, <1>i, <1>t, <1>p DEF ServiceInv, BoundInv
  <2> QED BY <2>4, <2>5, <2>6, <2>7, <2>8, <2>9 DEF ServiceInv
<1> QED BY <1>1, <1>2, <1>3, <1>4, <1>5 DEF IndInv

----------------------------------------------------------------------------
(* Shutdown: what is left to show is that the publications stay consistent. *)

LEMMA ShutdownBeginInv ==
    ASSUME IndInv, shutdown_begin
    PROVE  IndInv'
<1>u. /\ UNCHANGED <<config, owner, life, ret, registry, index, publication, runtime, bound,
                     turn, bg>>
      /\ tx.kind = "none" /\ shutdown' = "stopping"
      /\ tx' = [Idle EXCEPT !.kind = "shutdown", !.at = "next", !.began = registry]
  BY DEF shutdown_begin, instances, exposed, users
<1>t. tx'.kind = "shutdown" /\ tx'.at = "next" /\ tx' \in Transaction'
  <2>1. tx'.blocked = {}
    BY <1>u DEF Idle
  <2> QED BY <1>u, <2>1, TxFields, Records DEF Idle, Transaction, Phases
<1>s. tx.at = "none"
  BY <1>u, IdleTx DEF IndInv, PhaseInv
<1>1. TypeOK'
  BY <1>u, <1>t DEF IndInv, TypeOK
<1>2. PhaseInv' /\ PublicationInv' /\ PinInv'
  BY <1>u, <1>s, <1>t DEF IndInv, PhaseInv, PublicationInv, PinInv, Names, Publishing
<1> QED BY <1>1, <1>2, <1>u DEF IndInv

(* The steps between two publications of a shutdown.                        *)
LEMMA ShutdownStepInv ==
    ASSUME IndInv,
           \/ \E i \in Instances : begin_draining(i)
           \/ ticket_wait \/ shutdown_release \/ drain
    PROVE  IndInv'
<1>u. UNCHANGED <<config, owner, life, ret, registry, index, publication, runtime, bound,
                  turn, bg>>
  BY DEF begin_draining, ticket_wait, shutdown_release, drain, instances, exposed, users
<1>t. /\ tx' \in Transaction' /\ tx.at \notin Publishing /\ tx'.at \notin Publishing \cup {"save"}
      /\ shutdown # "no" /\ shutdown' \in {"stopping", "drain", "down"}
      /\ PhaseInv'
  <2>1. CASE \E i \in Instances : begin_draining(i)
    <3>1. PICK i \in Instances : begin_draining(i)
      BY <2>1
    <3>2. /\ tx'.at = "draining" /\ tx'.kind = "shutdown" /\ tx' \in Transaction'
      BY <3>1, TxFields DEF begin_draining, Transaction, Phases
    <3> QED BY <3>1, <3>2, <1>u DEF begin_draining, IndInv, PhaseInv, Publishing
  <2>2. CASE ticket_wait
    <3>2. /\ tx'.at = "next" /\ tx'.kind = "shutdown" /\ tx' \in Transaction'
      BY <2>2, TxFields DEF ticket_wait, Transaction, Phases
    <3> QED BY <2>2, <3>2, <1>u DEF ticket_wait, IndInv, PhaseInv, Publishing
  <2>3. CASE shutdown_release
    BY <2>3, <1>u, IdleTx DEF shutdown_release, IndInv, PhaseInv, Publishing
  <2>4. CASE drain
    <3>1. tx' = tx /\ shutdown = "drain" /\ shutdown' = "down"
      BY <2>4 DEF drain
    <3>2. tx.kind = "none" /\ tx.at = "none" /\ tx = Idle
      BY <3>1, TxFields, IdleTx DEF IndInv, PhaseInv, Transaction
    <3> QED BY <3>1, <3>2, <1>u, IdleTx DEF IndInv, PhaseInv, Publishing
  <2> QED BY <2>1, <2>2, <2>3, <2>4
<1>1. TypeOK'
  BY <1>u, <1>t DEF IndInv, TypeOK
<1>2. PublicationInv' /\ PinInv'
  BY <1>u, <1>t DEF IndInv, PublicationInv, PinInv, Names, Publishing
<1> QED BY <1>1, <1>2, <1>t DEF IndInv

LEMMA UnregisterInv ==
    ASSUME IndInv, unregister_with_retirement
    PROVE  IndInv'
<1> DEFINE ix == BuildIndex(registry \ tx.leaving)
<1>u. /\ UNCHANGED <<shutdown, config, owner, life, ret, index, runtime, bound, turn, bg>>
      /\ tx.kind = "shutdown" /\ tx.at = "draining" /\ shutdown = "stopping"
      /\ registry' = registry \ tx.leaving
      /\ publication' = [publication EXCEPT !.writing = TRUE, !.pending = ix.generation]
      /\ tx' = [tx EXCEPT !.at = "swap", !.index = ix]
  BY DEF unregister_with_retirement, BeginPublication, instances, users, IndInv, PhaseInv
<1>i. /\ ix \in Index /\ ix.generation = publication.generation + 1 /\ ix.generation \in Nat
  BY TxFields, BuiltIndex DEF Index
<1> HIDE DEF ix
<1>t. /\ tx'.kind = "shutdown" /\ tx'.at = "swap" /\ tx'.index = ix
      /\ tx' \in Transaction'
  BY <1>u, <1>i, TxFields DEF Transaction, Phases
<1>p. /\ publication' \in [generation : Nat, writing : BOOLEAN, pending : Nat]
      /\ publication'.generation = publication.generation /\ publication'.writing
      /\ publication'.pending = ix.generation
  BY <1>u, <1>i, TxFields
<1>1. TypeOK'
  BY <1>u, <1>t, <1>p, TxFields DEF IndInv, TypeOK
<1>2. PhaseInv'
  BY <1>u, <1>t DEF PhaseInv, Publishing
<1>3. PublicationInv'
  BY <1>u, <1>i, <1>t, <1>p DEF IndInv, PublicationInv, Publishing
<1>4. PinInv'
  BY <1>u, <1>t, <1>p DEF IndInv, PinInv, Names
<1> QED BY <1>1, <1>2, <1>3, <1>4, <1>u DEF IndInv

----------------------------------------------------------------------------
(* The invariant and what follows from it.                                  *)

LEMMA NextInv == IndInv /\ [Next]_vars => IndInv'
<1> SUFFICES ASSUME IndInv, [Next]_vars PROVE IndInv'
  OBVIOUS
<1>1. CASE UNCHANGED vars
  <2>1. UNCHANGED <<tx, shutdown, config, failures, owner, life, gate, draining, tasks, guard,
                    ret, lost, registry, blocked, index, publication, runtime, bound, turn, bg>>
    BY <1>1 DEF vars, source, instances, exposed, users
  <2>2. TypeOK' /\ PhaseInv' /\ PublicationInv' /\ PinInv'
    BY <2>1 DEF IndInv, TypeOK, Transaction, PhaseInv, PublicationInv, PinInv, Names
  <2>3. \A i \in Instances : Reached(i)' <=> Reached(i)
    BY <2>1 DEF Reached
  <2>4. ASSUME shutdown' = "no" PROVE ServiceInv'
    BY <2>1, <2>3, <2>4, TxFields DEF IndInv, ServiceInv, Unborn, RegistryInv, ReloadInv, ServingInv,
                               SnapshotInv, BoundInv, Serves
  <2> QED BY <2>2, <2>4 DEF IndInv
<1>2. CASE Request
  BY <1>2, PrepareInv, StartInv, SaveFailsInv, FailureInv, ShutdownBeginInv DEF Request
<1>3. CASE Reconcile
  BY <1>3, StartInv, PreparedInv, AbortInv, AbortReturnsInv, CommitUnchangedInv, CommitWithInv,
     PublishInv, SwapInv, BindInv, WithdrawInv, ShutdownStepInv, UnregisterInv DEF Reconcile
<1>4. CASE \E i \in Instances : Retire(i) \/ background_returns(i)
  BY <1>4, RetireInv, BackgroundInv
<1>5. CASE \E i, j \in Instances : background_invoke(i, j)
  BY <1>5, BackgroundInv
<1>6. CASE \/ \E t \in Turns : Pin(t) \/ extension_view(t) \/ call_returns(t) \/ drop_view(t)
           \/ \E t \in Turns, i \in Instances : run_recorded_hook(t, i)
  BY <1>6, TurnInv
<1> QED BY <1>1, <1>2, <1>3, <1>4, <1>5, <1>6 DEF Next

LEMMA Invariance == Spec => []IndInv
BY InitInv, NextInv, PTL DEF Spec

(* For every sequence of reloads, failures and shutdown and every position   *)
(* of the reads of pin_turn_generation between their stores, what a turn     *)
(* holds is one publication: the members of its view are those published     *)
(* with its configuration.                                                   *)
THEOREM PinnedIsConsistentAlways == Spec => []PinnedIsConsistent
<1>1. IndInv => PinnedIsConsistent
  BY DEF IndInv, PinInv, PinnedIsConsistent, Holding
<1> QED BY <1>1, Invariance, PTL

(* Until the server shuts down, a reload never stops or closes an instance   *)
(* that a view or a dispatcher still leads to, unless its worker failed.     *)
THEOREM ReloadsInterruptNobodyAlways == Spec => []ReloadsInterruptNobody
<1>1. IndInv => ReloadsInterruptNobody
  <2> SUFFICES ASSUME IndInv, shutdown = "no" PROVE ViewsServed /\ TasksServed
    BY DEF ReloadsInterruptNobody
  <2>1. ServiceInv
    BY DEF IndInv
  <2>2. ViewsServed
    <3>1. \A t \in Turns : turn[t].view.members \subseteq Instances
      BY DEF IndInv, TypeOK, Holder, Index
    <3>2. \A t \in Turns : \A i \in turn[t].view.members : Reached(i)
      BY DEF Reached
    <3> QED BY <2>1, <3>1, <3>2 DEF ServiceInv, SnapshotInv, ViewsServed
  <2>3. TasksServed
    <3> SUFFICES ASSUME NEW i \in tasks \cap registry
                 PROVE  /\ bound[i] \in LiveIndexes /\ i \in bound[i].members
                        /\ \A j \in bound[i].members : Serves(j) \/ j \in lost
      BY DEF TasksServed
    <3>1. bound[i] \in {index, tx.previous} /\ i \in bound[i].members
      BY <2>1 DEF ServiceInv, BoundInv
    <3>2. \A j \in bound[i].members : j \in Instances /\ Reached(j)
      BY <3>1, TxFields DEF Reached
    <3> QED BY <2>1, <3>1, <3>2 DEF ServiceInv, SnapshotInv, LiveIndexes
  <2> QED BY <2>2, <2>3
<1> QED BY <1>1, Invariance, PTL

----------------------------------------------------------------------------
(* The order in which instances are stopped.  This part of the invariant    *)
(* also holds during the shutdown.                                          *)

(* Where an instance is in its life.                                        *)
LifeInv ==
    /\ \A i \in Instances : owner[i] = "none" =>
          /\ i \notin registry \cup tx.fresh \cup tx.leaving \cup tx.began
          /\ ret[i].at = "none" /\ life[i] = "none"
    /\ \A i \in registry \cup tx.fresh \cup tx.leaving : ret[i].at = "none"
    /\ \A i \in Instances : ret[i].at = "done" => life[i] = "stopped"

(* A retirement that has not passed the operation gates waits for the gate  *)
(* of whatever requires its instance and is not stopped.                    *)
GuardInv ==
    /\ tx.at \in Publishing \cup {"draining"} => tx.leaving \subseteq guard
    /\ \A j \in Instances :
          /\ \A i \in ret[j].deps : ret[i].at # "none"
          /\ \A i \in ret[j].with :
                \/ life[i] = "stopped"
                \/ ret[j].at = "gates" /\ i \in ret[j].deps \cap guard

(* A reload and a failure withdraw an extension with all that requires it.  *)
ClosureInv ==
    tx.kind \in {"reload", "failure"} =>
        /\ tx.leaving \subseteq tx.began
        /\ DependentsClosed(Owners(tx.began), Owners(tx.leaving))
        /\ \A i \in tx.began : owner[i] \in Owners(tx.leaving) => i \in tx.leaving

(* At most one instance of an extension is registered.                      *)
Unique(S) == \A i, j \in S : owner[i] = owner[j] => i = j

UniqueInv ==
    /\ Unique(registry)
    /\ tx.at \in Preparing =>
          /\ Unique(tx.keep \cup tx.fresh)
          /\ \A i \in tx.keep \cup tx.fresh : owner[i] \notin tx.todo

(* The shutdown unregisters what nothing registered requires, and waits for  *)
(* it before the next.                                                       *)
ShutdownInv ==
    tx.kind = "shutdown" =>
        /\ registry \subseteq tx.began /\ Unique(tx.began) /\ tx.fresh = {}
        /\ DependentsClosed(Owners(tx.began), Owners(tx.began \ registry))
        /\ tx.at \in {"next", "draining"} => \A j \in tx.began \ registry : life[j] = "stopped"
        /\ tx.at = "draining" =>
              /\ tx.leaving \subseteq registry
              /\ \A i, j \in tx.leaving : i = j
              /\ DependentsClosed(Owners(tx.began), Owners(tx.began \ (registry \ tx.leaving)))
        /\ tx.at \in {"swap", "bind"} =>
              /\ tx.leaving \subseteq tx.began \ registry
              /\ \A i, j \in tx.leaving : i = j
              /\ \A j \in tx.began \ (registry \cup tx.leaving) : life[j] = "stopped"
        /\ tx.at = "ticket" => \A j \in tx.began \ (registry \cup tx.waiting) : life[j] = "stopped"

WithdrawalInv == LifeInv /\ GuardInv /\ ClosureInv /\ UniqueInv /\ ShutdownInv

(* What DependencyPlan::affected computes: the least set that contains the   *)
(* roots and is closed under the dependents in S.                            *)
LEMMA AffectedClosed ==
    ASSUME NEW S, NEW roots
    PROVE  roots \subseteq Affected(S, roots) /\ DependentsClosed(S, Affected(S, roots))
<1>1. roots \subseteq Affected(S, roots)
  BY DEF Affected
<1>2. ASSUME NEW e \in S, Requires[e] \cap Affected(S, roots) # {}
      PROVE  e \in Affected(S, roots)
  <2>1. PICK d \in Requires[e] : d \in Affected(S, roots)
    BY <1>2
  <2>2. ASSUME NEW C \in SUBSET (S \cup roots), roots \subseteq C, DependentsClosed(S, C)
        PROVE  e \in C
    <3>1. d \in C
      BY <2>1, <2>2 DEF Affected
    <3> QED BY <2>1, <2>2, <3>1 DEF DependentsClosed
  <2> QED BY <2>2 DEF Affected
<1> QED BY <1>1, <1>2 DEF DependentsClosed

LEMMA AffectedLeast ==
    ASSUME NEW S, NEW roots, NEW C, roots \subseteq C, DependentsClosed(S, C)
    PROVE  Affected(S, roots) \subseteq C
<1> DEFINE D == C \cap (S \cup roots)
<1>1. D \in SUBSET (S \cup roots) /\ roots \subseteq D
  OBVIOUS
<1>2. DependentsClosed(S, D)
  BY DEF DependentsClosed
<1>3. Affected(S, roots) \subseteq D
  BY <1>1, <1>2 DEF Affected
<1> QED BY <1>3

LEMMA AffectedScope ==
    ASSUME NEW S, NEW roots
    PROVE  Affected(S, roots) \subseteq S \cup roots
BY DEF Affected

(* Everything in a set that requires i is found within a part of the set     *)
(* that is closed under dependents.                                          *)
LEMMA DependentsInPart ==
    ASSUME NEW S, NEW L, L \subseteq S, NEW j \in L,
           DependentsClosed(Owners(S), Owners(L)),
           \A i \in S : owner[i] \in Owners(L) => i \in L
    PROVE  DependentsIn(S, j) \subseteq DependentsIn(L, j)
<1> DEFINE C == Affected(Owners(L), {owner[j]})
<1>1. {owner[j]} \subseteq Owners(L)
  BY DEF Owners
<1>2. C \subseteq Owners(L) /\ {owner[j]} \subseteq C /\ DependentsClosed(Owners(L), C)
  BY <1>1, AffectedClosed, AffectedScope
<1> HIDE DEF C
<1>3. DependentsClosed(Owners(S), C)
  BY <1>2 DEF DependentsClosed
<1>4. Affected(Owners(S), {owner[j]}) \subseteq C
  BY <1>2, <1>3, AffectedLeast
<1>5. ASSUME NEW i \in S, i # j, owner[i] \in Affected(Owners(S), {owner[j]})
      PROVE  i \in L /\ owner[i] \in C
  BY <1>2, <1>4, <1>5
<1> QED BY <1>5 DEF DependentsIn, C

LEMMA WithdrawalFrame ==
    ASSUME WithdrawalInv, UNCHANGED <<tx, owner, life, ret, registry, guard>>
    PROVE  WithdrawalInv'
<1>1. LifeInv'
  BY DEF WithdrawalInv, LifeInv
<1>2. GuardInv'
  BY DEF WithdrawalInv, GuardInv
<1>4. ClosureInv'
  BY DEF WithdrawalInv, ClosureInv, Owners, DependentsClosed
<1>5. UniqueInv'
  BY DEF WithdrawalInv, UniqueInv, Unique
<1>6. ShutdownInv'
  BY DEF WithdrawalInv, ShutdownInv, Owners, Unique, DependentsClosed
<1> QED BY <1>1, <1>2, <1>4, <1>5, <1>6 DEF WithdrawalInv

LEMMA InitWithdrawal == Init => WithdrawalInv
<1> SUFFICES ASSUME Init PROVE WithdrawalInv
  OBVIOUS
<1>1. tx.kind = "none" /\ tx.at = "none" /\ tx.fresh = {} /\ tx.leaving = {} /\ tx.began = {}
  BY DEF Init, Idle
<1>2. \A i \in Instances : ret[i].at = "none" /\ ret[i].deps = {} /\ ret[i].with = {}
  BY DEF Init, NotRetiring
<1> QED BY <1>1, <1>2 DEF Init, WithdrawalInv, LifeInv, GuardInv, ClosureInv, UniqueInv, Unique,
                          ShutdownInv, Preparing, Publishing

LEMMA RetWith ==
    ASSUME TypeOK
    PROVE  \A j \in Instances : ret[j].deps \subseteq Instances /\ ret[j].with \subseteq Instances
BY DEF TypeOK, RetirementTask

(* A retirement passes the operation gates only when all that requires its   *)
(* instance is stopped.                                                      *)
LEMMA RetireWithdrawal ==
    ASSUME IndInv, WithdrawalInv, NEW i \in Instances, Retire(i)
    PROVE  WithdrawalInv'
<1>u. UNCHANGED <<tx, owner, registry>>
  BY DEF Retire, unpublished, stop, source, exposed
<1>r. ret[i] \in RetirementTask /\ ret \in [Instances -> RetirementTask]
  BY DEF IndInv, TypeOK
<1>w. \A j \in Instances : ret[j].deps \subseteq Instances /\ ret[j].with \subseteq Instances
  BY RetWith DEF IndInv
<1>f. /\ tx.leaving \subseteq Instances /\ tx.fresh \subseteq Instances /\ registry \subseteq Instances
      /\ tx.began \subseteq Instances
  BY TxFields
<1>1. CASE unpublished(i)
  <2>1. /\ ret' = [ret EXCEPT ![i].at = "stop"] /\ ret[i].at = "gates"
        /\ life' = life /\ guard' = guard /\ ret[i].deps \cap guard = {}
    BY <1>1 DEF unpublished
  <2>2. /\ ret'[i].at = "stop" /\ ret'[i].deps = ret[i].deps /\ ret'[i].with = ret[i].with
        /\ \A j \in Instances \ {i} : ret'[j] = ret[j]
    BY <2>1, <1>r DEF RetirementTask
  <2>3. LifeInv'
    BY <2>1, <2>2, <1>u, <1>f DEF WithdrawalInv, LifeInv
  <2>4. GuardInv'
    BY <2>1, <2>2, <1>u, <1>w DEF WithdrawalInv, GuardInv
  <2>5. ClosureInv' /\ UniqueInv' /\ ShutdownInv'
    BY <2>1, <1>u DEF WithdrawalInv, ClosureInv, UniqueInv, ShutdownInv, Owners, Unique, DependentsClosed
  <2> QED BY <2>3, <2>4, <2>5 DEF WithdrawalInv
<1>2. CASE stop(i)
  <2>1. /\ ret' = [ret EXCEPT ![i] = [NotRetiring EXCEPT !.at = "done"]] /\ ret[i].at = "stop"
        /\ life' = [life EXCEPT ![i] = "stopped"] /\ guard' = guard \ {i}
    BY <1>2 DEF stop
  <2>2. /\ ret'[i].at = "done" /\ ret'[i].deps = {} /\ ret'[i].with = {}
        /\ \A j \in Instances \ {i} : ret'[j] = ret[j]
        /\ life'[i] = "stopped" /\ \A j \in Instances \ {i} : life'[j] = life[j]
    BY <2>1, <1>r DEF NotRetiring, IndInv, TypeOK
  <2>3. LifeInv'
    BY <2>1, <2>2, <1>u, <1>f DEF WithdrawalInv, LifeInv
  <2>4. GuardInv'
    <3>1. i \notin tx.leaving
      BY <2>1 DEF WithdrawalInv, LifeInv
    <3> QED BY <2>1, <2>2, <3>1, <1>u, <1>w DEF WithdrawalInv, GuardInv
  <2>5. ClosureInv' /\ UniqueInv'
    BY <2>1, <1>u DEF WithdrawalInv, ClosureInv, UniqueInv, Owners, Unique, DependentsClosed
  <2>6. ShutdownInv'
    BY <2>2, <1>u, <1>f DEF WithdrawalInv, ShutdownInv, Owners, Unique, DependentsClosed
  <2> QED BY <2>3, <2>4, <2>5, <2>6 DEF WithdrawalInv
<1> QED BY <1>1, <1>2 DEF Retire

(* What a reload withdraws: whoever requires something that is removed,      *)
(* restarted or blocked is removed, restarted or blocked itself.             *)
LEMMA PrepareWithdrawal ==
    ASSUME IndInv, WithdrawalInv, NEW desired \in Desired, NEW changed \in SUBSET desired,
           prepare_source_generation(desired, changed)
    PROVE  WithdrawalInv'
<1> DEFINE current == Owners(registry)
           restarts == Restarts(desired, changed)
           starts == desired \cap restarts
           kept == desired \ (starts \cup Blocked(desired))
           keep == {i \in registry : owner[i] \in kept}
<1>1. /\ tx'.kind = "reload" /\ tx'.at = "start" /\ tx'.keep = keep /\ tx'.fresh = {}
      /\ tx'.leaving = registry \ keep /\ tx'.began = registry
      /\ tx'.todo = starts \ Blocked(desired)
      /\ UNCHANGED <<owner, life, ret, registry, guard>>
  BY DEF prepare_source_generation, Idle, instances, exposed
<1>2. DependentsClosed(current, restarts) /\ current \ desired \subseteq restarts
  BY AffectedClosed DEF Restarts
<1>3. DependentsClosed(desired, Blocked(desired))
  BY AffectedClosed DEF Blocked
<1> HIDE DEF restarts, current
<1>4. ASSUME NEW e \in current, NEW c \in Requires[e], c \in current, c \notin kept
      PROVE  e \notin kept
  BY <1>2, <1>3, <1>4 DEF DependentsClosed
<1> HIDE DEF kept
<1>o. current = {owner[i] : i \in registry}
  BY DEF current, Owners
<1>5. \A S : {owner'[i] : i \in S} = {owner[i] : i \in S}
  BY <1>1
<1>6. ClosureInv'
  <2>1. DependentsClosed(Owners(tx.began), Owners(tx.leaving))'
    <3> SUFFICES ASSUME NEW i \in registry, NEW j \in registry \ keep, owner[j] \in Requires[owner[i]]
                 PROVE  \E k \in registry \ keep : owner[i] = owner[k]
      BY <1>1 DEF DependentsClosed, Owners
    <3>1. owner[i] \in current /\ owner[j] \in current
      BY <1>o
    <3>2. owner[j] \notin kept
      OBVIOUS
    <3>3. owner[i] \notin kept
      BY <3>1, <3>2, <1>4
    <3> QED BY <3>3
  <2>2. \A i \in tx'.began : owner'[i] \in Owners(tx.leaving)' => i \in tx'.leaving
    BY <1>1 DEF Owners
  <2> QED BY <2>1, <2>2, <1>1 DEF ClosureInv
<1>7. UniqueInv'
  <2>1. \A i \in keep : owner[i] \notin starts
    BY DEF kept
  <2> QED BY <1>1, <2>1 DEF WithdrawalInv, UniqueInv, Unique
<1>8. LifeInv'
  BY <1>1 DEF WithdrawalInv, LifeInv
<1>9. GuardInv'
  BY <1>1 DEF WithdrawalInv, GuardInv, Publishing
<1> QED BY <1>1, <1>6, <1>7, <1>8, <1>9 DEF WithdrawalInv, ShutdownInv

LEMMA StartWithdrawal ==
    ASSUME IndInv, WithdrawalInv, NEW e \in Extensions, NEW i \in Instances,
           start_source_candidate(e, i) \/ start_fails(e, i)
    PROVE  WithdrawalInv'
<1>u. /\ registry' = registry /\ Candidate(e, i)
      /\ tx.kind = "reload" /\ tx.at = "start" /\ e \in tx.todo
      /\ owner[i] = "none" /\ owner' = [owner EXCEPT ![i] = e] /\ e # "none"
      /\ life' = [life EXCEPT ![i] = "running"] /\ guard' = guard \cup {i}
  BY ExtensionAssumption DEF start_source_candidate, start_fails, Candidate, exposed
<1>o. /\ owner'[i] = e /\ life'[i] = "running"
      /\ \A j \in Instances \ {i} : owner'[j] = owner[j] /\ life'[j] = life[j]
  BY <1>u DEF IndInv, TypeOK
<1>t. /\ tx'.kind = "reload" /\ tx'.at \in {"start", "rollback"}
      /\ tx'.keep = tx.keep /\ tx'.leaving = tx.leaving /\ tx'.began = tx.began
      /\ \/ ret' = ret /\ tx'.fresh = tx.fresh \cup {i} /\ tx'.todo = tx.todo \ {e}
         \/ /\ ret' = [ret EXCEPT ![i] = Retirement(FALSE, {}, {})]
            /\ tx'.fresh = tx.fresh /\ tx'.todo = tx.todo
  BY <1>u, TxFields DEF start_source_candidate, start_fails, Transaction
<1>r. /\ \A j \in Instances \ {i} : ret'[j] = ret[j]
      /\ ret'[i] = ret[i] \/ (ret'[i].at = "gates" /\ ret'[i].deps = {} /\ ret'[i].with = {})
      /\ i \in tx'.fresh => ret'[i] = ret[i] \/ i \in tx.fresh
  BY <1>t DEF IndInv, TypeOK, Retirement
<1>f. /\ tx.leaving \subseteq Instances /\ tx.fresh \subseteq Instances /\ registry \subseteq Instances
      /\ tx.began \subseteq Instances /\ tx.keep \subseteq Instances
      /\ \A j \in Instances : ret[j].deps \subseteq Instances /\ ret[j].with \subseteq Instances
  BY TxFields, RetWith DEF IndInv
<1>n. /\ i \notin registry /\ i \notin tx.fresh /\ i \notin tx.leaving /\ i \notin tx.began
      /\ ret[i].at = "none" /\ life[i] = "none"
      /\ tx.keep \subseteq registry
  BY <1>u DEF WithdrawalInv, LifeInv, IndInv, PhaseInv, ServiceInv, ReloadInv, Preparing
<1>1. LifeInv'
  <2>1. \A j \in Instances : owner'[j] = "none" =>
          /\ j \notin registry' \cup tx'.fresh \cup tx'.leaving \cup tx'.began
          /\ ret'[j].at = "none" /\ life'[j] = "none"
    <3> SUFFICES ASSUME NEW j \in Instances, owner'[j] = "none"
                 PROVE  /\ j \notin registry' \cup tx'.fresh \cup tx'.leaving \cup tx'.began
                        /\ ret'[j].at = "none" /\ life'[j] = "none"
      OBVIOUS
    <3>1. j # i /\ owner[j] = "none"
      BY <1>u, <1>o
    <3>2. /\ j \notin registry \cup tx.fresh \cup tx.leaving \cup tx.began
          /\ ret[j].at = "none" /\ life[j] = "none"
      BY <3>1 DEF WithdrawalInv, LifeInv
    <3> QED BY <3>1, <3>2, <1>u, <1>o, <1>t, <1>r
  <2>2. \A j \in registry' \cup tx'.fresh \cup tx'.leaving : ret'[j].at = "none"
    <3> SUFFICES ASSUME NEW j \in registry' \cup tx'.fresh \cup tx'.leaving
                 PROVE  ret'[j].at = "none"
      OBVIOUS
    <3>1. CASE j = i
      BY <3>1, <1>u, <1>t, <1>r, <1>n
    <3>2. CASE j # i
      <4>1. j \in registry \cup tx.fresh \cup tx.leaving /\ j \in Instances
        BY <3>2, <1>u, <1>t, <1>f
      <4> QED BY <4>1, <3>2, <1>r DEF WithdrawalInv, LifeInv
    <3> QED BY <3>1, <3>2
  <2>3. \A j \in Instances : ret'[j].at = "done" => life'[j] = "stopped"
    BY <1>o, <1>r, <1>n DEF WithdrawalInv, LifeInv
  <2> QED BY <2>1, <2>2, <2>3 DEF LifeInv
<1>2. GuardInv'
  <2>1. ASSUME NEW j \in Instances PROVE \A k \in ret'[j].deps : ret'[k].at # "none"
    BY <1>r, <1>f, <1>n DEF WithdrawalInv, GuardInv
  <2>2. ASSUME NEW j \in Instances, NEW k \in ret'[j].with
        PROVE life'[k] = "stopped" \/ (ret'[j].at = "gates" /\ k \in ret'[j].deps \cap guard')
    <3>1. CASE j = i
      BY <3>1, <2>2, <1>r, <1>n, <1>u, <1>o, <1>f DEF WithdrawalInv, GuardInv
    <3>2. CASE j # i
      BY <3>2, <2>2, <1>r, <1>n, <1>u, <1>o, <1>f DEF WithdrawalInv, GuardInv
    <3> QED BY <3>1, <3>2
  <2> QED BY <2>1, <2>2, <1>t DEF GuardInv, Publishing
<1>3. ClosureInv'
  <2>1. Owners(tx.began)' = Owners(tx.began) /\ Owners(tx.leaving)' = Owners(tx.leaving)
    BY <1>o, <1>t, <1>f, <1>n DEF Owners
  <2> QED BY <2>1, <1>u, <1>o, <1>t, <1>f, <1>n DEF WithdrawalInv, ClosureInv, DependentsClosed
<1>4. UniqueInv'
  <2>1. Unique(registry)'
    BY <1>u, <1>o, <1>f, <1>n DEF WithdrawalInv, UniqueInv, Unique
  <2>2. /\ Unique(tx.keep \cup tx.fresh) /\ \A j \in tx.keep \cup tx.fresh : owner[j] \notin tx.todo
    BY <1>u DEF WithdrawalInv, UniqueInv, Preparing
  <2>3. Unique(tx.keep \cup tx.fresh)'
    <3> DEFINE S == tx.keep \cup tx.fresh
    <3>1. i \notin S /\ S \subseteq Instances /\ tx'.keep \cup tx'.fresh \subseteq S \cup {i}
      BY <1>t, <1>f, <1>n
    <3>2. \A j \in S : owner'[j] = owner[j] /\ owner'[j] # e
      BY <2>2, <3>1, <1>u, <1>o
    <3>3. \A j, k \in S : owner[j] = owner[k] => j = k
      BY <2>2 DEF Unique
    <3> HIDE DEF S
    <3>4. \A j, k \in S \cup {i} : owner'[j] = owner'[k] => j = k
      BY <3>1, <3>2, <3>3, <1>o
    <3> QED BY <3>1, <3>4 DEF Unique
  <2>4. \A j \in tx'.keep \cup tx'.fresh : owner'[j] \notin tx'.todo
    BY <2>2, <1>u, <1>o, <1>t, <1>f, <1>n
  <2> QED BY <2>1, <2>3, <2>4 DEF UniqueInv
<1> QED BY <1>1, <1>2, <1>3, <1>4, <1>t DEF WithdrawalInv, ShutdownInv

(* The steps of a reload or a failure that neither build nor replace         *)
(* anything but the phase.                                                   *)
LEMMA PhaseWithdrawal ==
    ASSUME IndInv, WithdrawalInv,
           UNCHANGED <<owner, life, ret, registry, guard>>,
           tx'.kind = tx.kind /\ tx'.leaving = tx.leaving /\ tx'.began = tx.began
              /\ tx'.fresh = tx.fresh /\ tx'.keep = tx.keep /\ tx'.todo = tx.todo,
           \/ tx.kind = "reload" /\ tx.at \in Preparing /\ tx'.at \in Preparing
           \/ tx.at = "publish" /\ tx'.at = "swap" /\ tx.kind # "shutdown"
           \/ tx.at = "swap" /\ tx'.at = "bind"
    PROVE  WithdrawalInv'
<1>1. LifeInv'
  BY DEF WithdrawalInv, LifeInv
<1>2. GuardInv'
  BY DEF WithdrawalInv, GuardInv, Publishing, Preparing
<1>3. ClosureInv'
  BY DEF WithdrawalInv, ClosureInv, Owners, DependentsClosed
<1>4. UniqueInv'
  BY DEF WithdrawalInv, UniqueInv, Unique, Preparing
<1>5. ShutdownInv'
  BY DEF WithdrawalInv, ShutdownInv, Owners, Unique, DependentsClosed, Preparing
<1> QED BY <1>1, <1>2, <1>3, <1>4, <1>5 DEF WithdrawalInv

LEMMA ReloadStepsWithdrawal ==
    ASSUME IndInv, WithdrawalInv, prepared \/ save_fails \/ publish \/ swap
    PROVE  WithdrawalInv'
<1>1. UNCHANGED <<owner, life, ret, registry, guard>>
  BY DEF prepared, save_fails, publish, swap, instances, exposed
<1>2. /\ tx'.kind = tx.kind /\ tx'.leaving = tx.leaving /\ tx'.began = tx.began
      /\ tx'.fresh = tx.fresh /\ tx'.keep = tx.keep /\ tx'.todo = tx.todo
      /\ \/ tx.kind = "reload" /\ tx.at \in Preparing /\ tx'.at \in Preparing
         \/ tx.at = "publish" /\ tx'.at = "swap"
         \/ tx.at = "swap" /\ tx'.at = "bind"
  BY TxFields DEF prepared, save_fails, publish, swap, Transaction, Preparing
<1>3. tx.at = "publish" => tx.kind # "shutdown"
  BY DEF IndInv, PhaseInv
<1> QED BY <1>1, <1>2, <1>3, PhaseWithdrawal

LEMMA AbortWithdrawal ==
    ASSUME IndInv, WithdrawalInv, abort
    PROVE  WithdrawalInv'
<1>u. /\ UNCHANGED <<owner, life, registry, guard>>
      /\ tx.kind = "reload" /\ tx.at = "rollback"
      /\ ret' = [i \in Instances |-> IF i \in tx.fresh THEN Retirement(FALSE, {}, {}) ELSE ret[i]]
  BY DEF abort, exposed, AbortedCandidates
<1>t. /\ tx'.kind = "reload" /\ tx'.at = "aborting" /\ tx'.fresh = {}
      /\ tx'.leaving = tx.leaving /\ tx'.began = tx.began /\ tx'.keep = tx.keep
  BY <1>u, TxFields DEF abort, Transaction
<1>r. \A j \in Instances :
        \/ j \in tx.fresh /\ ret'[j].at = "gates" /\ ret'[j].deps = {} /\ ret'[j].with = {}
        \/ j \notin tx.fresh /\ ret'[j] = ret[j]
  BY <1>u DEF Retirement
<1>f. /\ tx.leaving \subseteq Instances /\ tx.fresh \subseteq Instances /\ registry \subseteq Instances
      /\ tx.began \subseteq Instances
      /\ \A j \in Instances : ret[j].deps \subseteq Instances /\ ret[j].with \subseteq Instances
  BY TxFields, RetWith DEF IndInv
<1>n. \A i \in tx.fresh : i \notin registry /\ i \notin tx.leaving /\ owner[i] # "none"
  BY <1>u DEF IndInv, PhaseInv, ServiceInv, ReloadInv, Preparing
<1>1. LifeInv'
  BY <1>u, <1>t, <1>r, <1>f, <1>n DEF WithdrawalInv, LifeInv
<1>2. GuardInv'
  <2>1. ASSUME NEW j \in Instances PROVE \A k \in ret'[j].deps : ret'[k].at # "none"
    BY <1>r, <1>f, <1>n DEF WithdrawalInv, GuardInv
  <2>2. ASSUME NEW j \in Instances, NEW k \in ret'[j].with
        PROVE life'[k] = "stopped" \/ (ret'[j].at = "gates" /\ k \in ret'[j].deps \cap guard')
    BY <2>2, <1>r, <1>u DEF WithdrawalInv, GuardInv
  <2> QED BY <2>1, <2>2, <1>t DEF GuardInv, Publishing
<1>3. ClosureInv'
  BY <1>u, <1>t DEF WithdrawalInv, ClosureInv, Owners, DependentsClosed
<1>4. UniqueInv'
  BY <1>u, <1>t DEF WithdrawalInv, UniqueInv, Unique, Preparing
<1> QED BY <1>1, <1>2, <1>3, <1>4, <1>t DEF WithdrawalInv, ShutdownInv

(* The lock is released, or the shutdown takes it.                          *)
LEMMA IdleWithdrawal ==
    ASSUME IndInv, WithdrawalInv,
           abort_returns \/ commit_unchanged \/ shutdown_release \/ shutdown_begin \/ drain
    PROVE  WithdrawalInv'
<1>u. UNCHANGED <<owner, life, ret, registry, guard>>
  BY DEF abort_returns, commit_unchanged, shutdown_release, shutdown_begin, drain, instances, exposed
<1>1. CASE drain
  BY <1>1, <1>u, WithdrawalFrame DEF drain
<1>2. CASE ~ drain
  <2>1. /\ tx'.leaving = {} /\ tx'.fresh = {} /\ tx'.at \in {"none", "next"}
        /\ tx'.kind \in {"none", "shutdown"} /\ tx'.began \in {{}, registry}
        /\ tx'.kind = "shutdown" => tx'.began = registry /\ tx'.at = "next"
    <3>1. CASE tx' = Idle
      BY <3>1 DEF Idle
    <3>2. CASE tx' = [Idle EXCEPT !.kind = "shutdown", !.at = "next", !.began = registry]
      BY <3>2 DEF Idle
    <3> QED BY <1>2, <3>1, <3>2 DEF abort_returns, commit_unchanged, shutdown_release, shutdown_begin
  <2>2. LifeInv'
    BY <2>1, <1>u DEF WithdrawalInv, LifeInv
  <2>3. GuardInv' /\ ClosureInv' /\ UniqueInv'
    BY <2>1, <1>u DEF WithdrawalInv, GuardInv, ClosureInv, UniqueInv, Unique, Preparing, Publishing
  <2>4. ShutdownInv'
    BY <2>1, <1>u DEF WithdrawalInv, UniqueInv, ShutdownInv, Unique, DependentsClosed, Owners
  <2> QED BY <2>2, <2>3, <2>4 DEF WithdrawalInv
<1> QED BY <1>1, <1>2

LEMMA CommitWithWithdrawal ==
    ASSUME IndInv, WithdrawalInv, commit_with
    PROVE  WithdrawalInv'
<1>u. /\ UNCHANGED <<owner, life, ret>> /\ guard' = guard \cup tx.leaving
      /\ tx.kind = "reload" /\ tx.at = "save"
      /\ registry' = tx.keep \cup tx.fresh
  BY DEF commit_with
<1>t. /\ tx'.kind = "reload" /\ tx'.at = "publish" /\ tx'.fresh = tx.fresh
      /\ tx'.leaving = tx.leaving /\ tx'.began = tx.began /\ tx'.keep = tx.keep
  BY <1>u, TxFields DEF commit_with, Transaction
<1>k. tx.keep \subseteq registry
  BY <1>u DEF IndInv, PhaseInv, ServiceInv, ReloadInv, Preparing
<1>1. LifeInv'
  BY <1>u, <1>t, <1>k DEF WithdrawalInv, LifeInv
<1>2. GuardInv'
  BY <1>u, <1>t DEF WithdrawalInv, GuardInv
<1>3. ClosureInv'
  BY <1>u, <1>t DEF WithdrawalInv, ClosureInv, Owners, DependentsClosed
<1>4. UniqueInv'
  BY <1>u, <1>t DEF WithdrawalInv, UniqueInv, Unique, Preparing
<1> QED BY <1>1, <1>2, <1>3, <1>4, <1>t DEF WithdrawalInv, ShutdownInv

LEMMA FailureWithdrawal ==
    ASSUME IndInv, WithdrawalInv, NEW i \in Instances, apply_runtime_failure(i)
    PROVE  WithdrawalInv'
<1> DEFINE affected == {i} \cup DependentsIn(registry, i)
           A == Affected(Owners(registry), {owner[i]})
<1>u. /\ UNCHANGED <<owner, life, ret, registry, guard>> /\ i \in registry
      /\ tx'.kind = "failure" /\ tx'.at = "gates" /\ tx'.fresh = {}
      /\ tx'.leaving = affected /\ tx'.began = registry
  BY DEF apply_runtime_failure, Idle, exposed
<1>a. \A j \in registry : j \in affected <=> j = i \/ owner[j] \in A
  BY DEF DependentsIn
<1>s. affected \subseteq registry
  BY <1>u DEF DependentsIn
<1>c. owner[i] \in A /\ DependentsClosed(Owners(registry), A)
  BY AffectedClosed
<1> HIDE DEF affected, A
<1>1. LifeInv'
  BY <1>u, <1>s DEF WithdrawalInv, LifeInv
<1>2. GuardInv'
  BY <1>u DEF WithdrawalInv, GuardInv, Publishing
<1>3. ClosureInv'
  <2>1. \A j \in registry : owner[j] \in A <=> j \in affected
    BY <1>a, <1>c
  <2>2. DependentsClosed(Owners(tx.began), Owners(tx.leaving))'
    <3> SUFFICES ASSUME NEW j \in registry, NEW k \in affected, owner[k] \in Requires[owner[j]]
                 PROVE  \E l \in affected : owner[j] = owner[l]
      BY <1>u DEF DependentsClosed, Owners
    <3>1. owner[k] \in A
      BY <1>s, <2>1
    <3>2. owner[j] \in Owners(registry)
      BY DEF Owners
    <3>3. owner[j] \in A
      BY <3>1, <3>2, <1>c DEF DependentsClosed
    <3> QED BY <3>3, <2>1
  <2>3. \A j \in tx'.began : owner'[j] \in Owners(tx.leaving)' => j \in tx'.leaving
    BY <1>u, <1>s, <2>1 DEF Owners
  <2> QED BY <2>2, <2>3, <1>u, <1>s DEF ClosureInv
<1>4. UniqueInv'
  BY <1>u DEF WithdrawalInv, UniqueInv, Unique, Preparing
<1> QED BY <1>1, <1>2, <1>3, <1>4, <1>u DEF WithdrawalInv, ShutdownInv

LEMMA WithdrawWithdrawal ==
    ASSUME IndInv, WithdrawalInv, withdraw
    PROVE  WithdrawalInv'
<1>u. /\ UNCHANGED <<owner, life, ret>> /\ guard' = guard \cup tx.leaving
      /\ tx.kind = "failure" /\ tx.at = "gates"
      /\ registry' = registry \ tx.leaving
  BY DEF withdraw
<1>t. /\ tx'.kind = "failure" /\ tx'.at = "publish" /\ tx'.fresh = tx.fresh
      /\ tx'.leaving = tx.leaving /\ tx'.began = tx.began /\ tx'.keep = tx.keep
  BY <1>u, TxFields DEF withdraw, Transaction
<1>1. LifeInv'
  BY <1>u, <1>t DEF WithdrawalInv, LifeInv
<1>2. GuardInv'
  BY <1>u, <1>t DEF WithdrawalInv, GuardInv
<1>3. ClosureInv'
  BY <1>u, <1>t DEF WithdrawalInv, ClosureInv, Owners, DependentsClosed
<1>4. UniqueInv'
  BY <1>u, <1>t DEF WithdrawalInv, UniqueInv, Unique, Preparing
<1> QED BY <1>1, <1>2, <1>3, <1>4, <1>t DEF WithdrawalInv, ShutdownInv

(* Whoever requires an instance that is handed to a retirement is retired    *)
(* with it, or, in a shutdown, has been stopped before.                      *)
LEMMA BindWithdrawal ==
    ASSUME IndInv, WithdrawalInv, bind
    PROVE  WithdrawalInv'
<1>u. /\ UNCHANGED <<owner, life, registry>> /\ guard' = guard \ tx.fresh /\ tx.at = "bind"
      /\ ret' = [i \in Instances |->
                 IF i \in tx.leaving
                 THEN Retirement(DrainsFirst, DependentGates(i), DependentsIn(tx.began, i))
                 ELSE ret[i]]
  BY DEF bind
<1>k. /\ tx.kind \in {"reload", "failure", "shutdown"}
  BY <1>u, TxFields, IdleTx DEF IndInv, PhaseInv, Transaction
<1>t. /\ tx'.fresh = {} /\ tx'.leaving = {}
      /\ tx.kind # "shutdown" => tx'.kind = "none" /\ tx'.at = "none" /\ tx'.began = {}
      /\ tx.kind = "shutdown" => /\ tx'.kind = "shutdown" /\ tx'.at = "ticket"
                                 /\ tx'.began = tx.began /\ tx'.waiting = tx.leaving
  <2>1. CASE tx.kind = "shutdown"
    BY <2>1 DEF bind, Idle
  <2>2. CASE tx.kind # "shutdown"
    BY <2>2 DEF bind, Idle
  <2> QED BY <2>1, <2>2
<1>f. /\ tx.leaving \subseteq Instances /\ tx.fresh \subseteq Instances /\ registry \subseteq Instances
      /\ tx.began \subseteq Instances
      /\ \A j \in Instances : ret[j].deps \subseteq Instances /\ ret[j].with \subseteq Instances
  BY TxFields, RetWith DEF IndInv
<1>r. \A j \in Instances :
        \/ /\ j \in tx.leaving /\ ret'[j].at = "gates"
           /\ ret'[j].deps = DependentsIn(tx.leaving, j)
           /\ ret'[j].with = DependentsIn(tx.began, j)
        \/ j \notin tx.leaving /\ ret'[j] = ret[j]
  BY <1>u DEF Retirement, DependentGates
<1>l. tx.leaving \subseteq guard /\ tx.leaving \cap tx.fresh = {} /\ tx.leaving \cap registry = {}
  <2>1. tx.leaving \subseteq guard
    BY <1>u DEF WithdrawalInv, GuardInv, Publishing
  <2>2. CASE tx.kind # "shutdown"
    <3>1. ServiceInv
      BY <2>2, <1>k DEF IndInv, PhaseInv
    <3>2. tx.leaving \cap registry = {} /\ tx.fresh \subseteq registry
      BY <3>1, <1>u, <1>k, <2>2 DEF ServiceInv, RegistryInv, ReloadInv, Publishing
    <3> QED BY <2>1, <3>2
  <2>3. CASE tx.kind = "shutdown"
    BY <2>1, <2>3, <1>u DEF WithdrawalInv, ShutdownInv
  <2> QED BY <2>2, <2>3
<1>g. ASSUME NEW j \in tx.leaving
      PROVE  \A k \in DependentsIn(tx.began, j) :
                life[k] = "stopped" \/ k \in DependentsIn(tx.leaving, j)
  <2>1. CASE tx.kind # "shutdown"
    BY <2>1, <1>k, DependentsInPart DEF WithdrawalInv, ClosureInv
  <2>2. CASE tx.kind = "shutdown"
    <3> DEFINE U == Owners(tx.began \ registry)
    <3>1. /\ j \in tx.began \ registry /\ Unique(tx.began) /\ DependentsClosed(Owners(tx.began), U)
          /\ \A k, l \in tx.leaving : k = l
          /\ \A k \in tx.began \ (registry \cup tx.leaving) : life[k] = "stopped"
      BY <2>2, <1>u DEF WithdrawalInv, ShutdownInv
    <3>2. {owner[j]} \subseteq U
      BY <3>1 DEF Owners
    <3>3. Affected(Owners(tx.began), {owner[j]}) \subseteq U
      BY <3>1, <3>2, AffectedLeast
    <3> SUFFICES ASSUME NEW k \in tx.began, k # j, owner[k] \in U
                 PROVE  life[k] = "stopped"
      BY <3>3 DEF DependentsIn
    <3>4. PICK l \in tx.began \ registry : owner[k] = owner[l]
      BY DEF Owners
    <3>5. k = l
      BY <3>1, <3>4 DEF Unique
    <3>6. k \notin tx.leaving
      BY <3>1
    <3> QED BY <3>1, <3>4, <3>5, <3>6
  <2> QED BY <2>1, <2>2
<1>1. LifeInv'
  <2>1. \A j \in Instances : owner[j] = "none" =>
          /\ j \notin registry \cup tx.fresh \cup tx.leaving \cup tx.began
          /\ ret[j].at = "none" /\ life[j] = "none"
    BY DEF WithdrawalInv, LifeInv
  <2>2. tx'.began \subseteq tx.began
    BY <1>t, <1>k
  <2> QED BY <2>1, <2>2, <1>u, <1>t, <1>r, <1>f, <1>l DEF WithdrawalInv, LifeInv
<1>2. GuardInv'
  <2>1. ASSUME NEW j \in Instances PROVE \A k \in ret'[j].deps : ret'[k].at # "none"
    <3>1. \A k \in Instances : ret[k].at # "none" => ret'[k].at # "none"
      BY <1>r
    <3>2. \A k \in DependentsIn(tx.leaving, j) : k \in tx.leaving
      BY DEF DependentsIn
    <3> QED BY <3>1, <3>2, <1>r, <1>f DEF WithdrawalInv, GuardInv
  <2>2. ASSUME NEW j \in Instances, NEW k \in ret'[j].with
        PROVE life'[k] = "stopped" \/ (ret'[j].at = "gates" /\ k \in ret'[j].deps \cap guard')
    <3>1. CASE j \in tx.leaving
      <4>1. \A l \in DependentsIn(tx.leaving, j) : l \in guard \ tx.fresh
        BY <1>l DEF DependentsIn
      <4> QED BY <2>2, <3>1, <4>1, <1>g, <1>r, <1>u
    <3>2. CASE j \notin tx.leaving
      <4>1. ret'[j] = ret[j]
        BY <3>2, <1>r
      <4>2. life[k] = "stopped" \/ (ret[j].at = "gates" /\ k \in ret[j].deps \cap guard)
        BY <2>2, <4>1 DEF WithdrawalInv, GuardInv
      <4>3. k \in ret[j].deps => k \notin tx.fresh
        BY DEF WithdrawalInv, GuardInv, LifeInv
      <4> QED BY <4>1, <4>2, <4>3, <1>u
    <3> QED BY <3>1, <3>2
  <2> QED BY <2>1, <2>2, <1>t, <1>k DEF GuardInv, Publishing
<1>3. ClosureInv'
  BY <1>t, <1>k DEF ClosureInv
<1>4. UniqueInv'
  BY <1>u, <1>t, <1>k DEF WithdrawalInv, UniqueInv, Unique, Preparing
<1>5. ShutdownInv'
  <2>1. CASE tx.kind = "shutdown"
    BY <2>1, <1>u, <1>t DEF WithdrawalInv, ShutdownInv, Owners, Unique, DependentsClosed
  <2>2. CASE tx.kind # "shutdown"
    BY <2>2, <1>t DEF ShutdownInv
  <2> QED BY <2>1, <2>2
<1> QED BY <1>1, <1>2, <1>3, <1>4, <1>5 DEF WithdrawalInv

LEMMA BeginDrainingWithdrawal ==
    ASSUME IndInv, WithdrawalInv, NEW i \in Instances, begin_draining(i)
    PROVE  WithdrawalInv'
<1>u. /\ UNCHANGED <<owner, life, ret, registry>> /\ guard' = guard \cup {i}
      /\ tx.kind = "shutdown" /\ tx.at = "next"
      /\ i \in registry /\ DependentsIn(registry, i) = {}
  BY DEF begin_draining, exposed
<1>t. /\ tx'.kind = "shutdown" /\ tx'.at = "draining" /\ tx'.leaving = {i}
      /\ tx'.fresh = tx.fresh /\ tx'.began = tx.began
  BY <1>u, TxFields DEF begin_draining, Transaction
<1>1. LifeInv'
  BY <1>u, <1>t DEF WithdrawalInv, LifeInv
<1>2. GuardInv'
  BY <1>u, <1>t DEF WithdrawalInv, GuardInv
<1>3. ClosureInv' /\ UniqueInv'
  BY <1>u, <1>t DEF WithdrawalInv, ClosureInv, UniqueInv, Unique, Preparing
<1>5. ShutdownInv'
  <2>1. /\ registry \subseteq tx.began /\ DependentsClosed(Owners(tx.began), Owners(tx.began \ registry))
    BY <1>u DEF WithdrawalInv, ShutdownInv
  <2>2. ASSUME NEW j \in registry, owner[i] \in Requires[owner[j]]
        PROVE  j = i
    <3>1. owner[j] \in Owners(registry) /\ owner[i] \in Affected(Owners(registry), {owner[i]})
      BY AffectedClosed DEF Owners
    <3>2. owner[j] \in Affected(Owners(registry), {owner[i]})
      BY <2>2, <3>1, AffectedClosed DEF DependentsClosed
    <3> QED BY <3>2, <1>u DEF DependentsIn
  <2>3. DependentsClosed(Owners(tx.began), Owners(tx.began \ (registry \ {i})))
    <3> SUFFICES ASSUME NEW j \in tx.began, NEW k \in tx.began \ (registry \ {i}),
                        owner[k] \in Requires[owner[j]]
                 PROVE  \E l \in tx.began \ (registry \ {i}) : owner[j] = owner[l]
      BY DEF DependentsClosed, Owners
    <3>1. CASE j \notin registry
      BY <3>1
    <3>2. CASE j \in registry /\ k = i
      BY <3>2, <2>2, <2>1
    <3>3. CASE j \in registry /\ k # i
      <4>1. owner[k] \in Owners(tx.began \ registry) /\ owner[j] \in Owners(tx.began)
        BY <3>3 DEF Owners
      <4>2. owner[j] \in Owners(tx.began \ registry)
        BY <4>1, <2>1 DEF DependentsClosed
      <4> QED BY <4>2 DEF Owners
    <3> QED BY <3>1, <3>2, <3>3
  <2>4. DependentsClosed(Owners(tx.began), Owners(tx.began \ (registry \ tx.leaving)))'
    BY <2>3, <1>u, <1>t DEF DependentsClosed, Owners
  <2> QED BY <2>4, <1>u, <1>t DEF WithdrawalInv, ShutdownInv, Owners, Unique, DependentsClosed
<1> QED BY <1>1, <1>2, <1>3, <1>5 DEF WithdrawalInv

LEMMA UnregisterWithdrawal ==
    ASSUME IndInv, WithdrawalInv, unregister_with_retirement
    PROVE  WithdrawalInv'
<1>u. /\ UNCHANGED <<owner, life, ret, guard>>
      /\ tx.kind = "shutdown" /\ tx.at = "draining"
      /\ registry' = registry \ tx.leaving
  BY DEF unregister_with_retirement, instances
<1>t. /\ tx'.kind = "shutdown" /\ tx'.at = "swap" /\ tx'.leaving = tx.leaving
      /\ tx'.fresh = tx.fresh /\ tx'.began = tx.began
  BY <1>u, TxFields DEF unregister_with_retirement, Transaction
<1>1. LifeInv'
  BY <1>u, <1>t DEF WithdrawalInv, LifeInv
<1>2. GuardInv'
  BY <1>u, <1>t DEF WithdrawalInv, GuardInv, Publishing
<1>3. ClosureInv' /\ UniqueInv'
  BY <1>u, <1>t DEF WithdrawalInv, ClosureInv, UniqueInv, Unique, Preparing
<1>5. ShutdownInv'
  <2>1. DependentsClosed(Owners(tx.began), Owners(tx.began \ (registry \ tx.leaving)))
    BY <1>u DEF WithdrawalInv, ShutdownInv
  <2>2. DependentsClosed(Owners(tx.began), Owners(tx.began \ registry))'
    BY <2>1, <1>u, <1>t DEF DependentsClosed, Owners
  <2> QED BY <2>2, <1>u, <1>t DEF WithdrawalInv, ShutdownInv, Unique
<1> QED BY <1>1, <1>2, <1>3, <1>5 DEF WithdrawalInv

LEMMA TicketWithdrawal ==
    ASSUME IndInv, WithdrawalInv, ticket_wait
    PROVE  WithdrawalInv'
<1>u. /\ UNCHANGED <<owner, life, ret, guard, registry>>
      /\ tx.kind = "shutdown" /\ tx.at = "ticket" /\ Retired(tx.waiting)
  BY DEF ticket_wait, instances, exposed
<1>t. /\ tx'.kind = "shutdown" /\ tx'.at = "next" /\ tx'.leaving = tx.leaving
      /\ tx'.fresh = tx.fresh /\ tx'.began = tx.began
  BY <1>u, TxFields DEF ticket_wait, Transaction
<1>1. LifeInv'
  BY <1>u, <1>t DEF WithdrawalInv, LifeInv
<1>2. GuardInv'
  BY <1>u, <1>t DEF WithdrawalInv, GuardInv, Publishing
<1>3. ClosureInv' /\ UniqueInv'
  BY <1>u, <1>t DEF WithdrawalInv, ClosureInv, UniqueInv, Unique, Preparing
<1>4. \A j \in tx.began \ registry : life[j] = "stopped"
  <2>1. \A j \in tx.waiting : life[j] = "stopped"
    BY <1>u, TxFields DEF Retired, WithdrawalInv, LifeInv
  <2> QED BY <2>1, <1>u DEF WithdrawalInv, ShutdownInv
<1>5. ShutdownInv'
  BY <1>4, <1>u, <1>t DEF WithdrawalInv, ShutdownInv, Owners, Unique, DependentsClosed
<1> QED BY <1>1, <1>2, <1>3, <1>5 DEF WithdrawalInv

LEMMA NextWithdrawal == IndInv /\ WithdrawalInv /\ [Next]_vars => WithdrawalInv'
<1> SUFFICES ASSUME IndInv, WithdrawalInv, [Next]_vars PROVE WithdrawalInv'
  OBVIOUS
<1>1. CASE UNCHANGED vars
  BY <1>1, WithdrawalFrame DEF vars, source, instances, exposed, users
<1>2. CASE Request
  BY <1>2, PrepareWithdrawal, StartWithdrawal, ReloadStepsWithdrawal, FailureWithdrawal,
     IdleWithdrawal DEF Request
<1>3. CASE Reconcile
  BY <1>3, StartWithdrawal, ReloadStepsWithdrawal, AbortWithdrawal, IdleWithdrawal,
     CommitWithWithdrawal, BindWithdrawal, WithdrawWithdrawal, BeginDrainingWithdrawal,
     UnregisterWithdrawal, TicketWithdrawal DEF Reconcile
<1>4. CASE \E i \in Instances : Retire(i)
  BY <1>4, RetireWithdrawal
<1>5. CASE \/ \E i \in Instances : background_returns(i)
           \/ \E i, j \in Instances : background_invoke(i, j)
  BY <1>5, WithdrawalFrame DEF background_returns, background_invoke, source, instances, exposed
<1>6. CASE \/ \E t \in Turns : Pin(t) \/ extension_view(t) \/ call_returns(t) \/ drop_view(t)
           \/ \E t \in Turns, i \in Instances : run_recorded_hook(t, i)
  <2>1. UNCHANGED <<source, instances, exposed>>
    BY <1>6 DEF Pin, pin_load, pin_state, pin_view, pin_current, pin_check, extension_view,
                call_returns, drop_view, run_recorded_hook, PinNext, PinTo
  <2> QED BY <2>1, WithdrawalFrame DEF source, instances, exposed
<1> QED BY <1>1, <1>2, <1>3, <1>4, <1>5, <1>6 DEF Next

(* For any dependency graph: the stop() of a provider comes after the stop() *)
(* of everything that required it when its withdrawal began, whether a       *)
(* reload, a dead worker or the shutdown withdrew it.                        *)
THEOREM ProviderOutlivesDependentsAlways == Spec => ProviderOutlivesDependents
<1>1. Spec => [](IndInv /\ WithdrawalInv)
  BY InitInv, NextInv, InitWithdrawal, NextWithdrawal, PTL DEF Spec
<1>2. IndInv /\ WithdrawalInv /\ [Next]_vars =>
        [\A j \in Instances : life[j] # life'[j] /\ life'[j] = "stopped" =>
            \A i \in ret[j].with : life[i] = "stopped"]_vars
  <2> SUFFICES ASSUME IndInv, WithdrawalInv, Next, NEW j \in Instances,
                      life[j] # life'[j], life'[j] = "stopped"
               PROVE  \A i \in ret[j].with : life[i] = "stopped"
    OBVIOUS
  <2>1. stop(j)
    <3>1. \/ \E i \in Instances : stop(i)
          \/ \E e \in Extensions, i \in Instances : Candidate(e, i)
      BY DEF Next, Request, Reconcile, Retire, Pin, pin_load, pin_state, pin_view, pin_current,
             pin_check, extension_view, call_returns, drop_view, run_recorded_hook, PinNext, PinTo,
             background_returns, background_invoke, prepare_source_generation, start_fails,
             start_source_candidate, save_fails, apply_runtime_failure, shutdown_begin, prepared,
             abort, abort_returns, commit_unchanged, commit_with, publish, swap, bind, withdraw,
             begin_draining, unregister_with_retirement, ticket_wait, shutdown_release, drain,
             unpublished, instances
    <3>2. ASSUME NEW e \in Extensions, NEW i \in Instances, Candidate(e, i) PROVE FALSE
      BY <3>2 DEF Candidate, IndInv, TypeOK
    <3>3. ASSUME NEW i \in Instances, stop(i) PROVE i = j
      BY <3>3 DEF stop, IndInv, TypeOK
    <3> QED BY <3>1, <3>2, <3>3
  <2> QED BY <2>1 DEF stop, WithdrawalInv, GuardInv
<1> QED BY <1>1, <1>2, PTL DEF Spec, ProviderOutlivesDependents

=============================================================================
