------------------------------ MODULE ExtensionRunner ------------------------------
(***************************************************************************)
(* The extension runner (astrcode-extensions/src/runner): how a set of      *)
(* extension instances is started, published to the turns as one immutable  *)
(* handler index, replaced by a configuration reload, withdrawn when its    *)
(* worker fails, and stopped.                                               *)
(*                                                                          *)
(* Reload, failure handling and shutdown each hold the source_reconcile     *)
(* lock from beginning to end; tx is the holder of that lock.  What turns   *)
(* and the background tasks of extensions read of the runner is not under   *)
(* the lock: the runtime generation of the session layer, the publication   *)
(* state, the index and the dispatchers are published one after the other,  *)
(* and each read and each store is a step of its own here.                  *)
(*                                                                          *)
(* A service is named by the extension that provides it; provider conflicts *)
(* and dependency cycles, which DependencyPlan blocks before anything is     *)
(* started, are excluded by assumption.                                     *)
(***************************************************************************)
EXTENDS Naturals, FiniteSets

CONSTANTS
    Extensions,     \* extension ids
    Requires,       \* [Extensions -> SUBSET Extensions]: Required dependencies
    Uses,           \* [Extensions -> SUBSET Extensions]: services an extension may call
    Desired,        \* the sets of extensions that a reload may be asked for
    Turns,          \* turns and other holders of an ExtensionView
    MaxInstances,   \* bound: instances ever started
    MaxConfigs,     \* bound: configuration publications
    MaxFailures     \* bound: failed starts, failed saves and worker failures

Instances == 1..MaxInstances

(* The Required dependencies as DependencyPlan::analyze orders them: some   *)
(* order of activation exists.                                              *)
Activatable == \A S \in (SUBSET Extensions) \ {{}} : \E e \in S : Requires[e] \cap S = {}

ASSUME ExtensionAssumption ==
    /\ Requires \in [Extensions -> SUBSET Extensions]
    /\ Uses \in [Extensions -> SUBSET Extensions]
    /\ \A e \in Extensions : Requires[e] \subseteq Uses[e]
    /\ Desired \subseteq SUBSET Extensions
    /\ Activatable
    /\ "none" \notin Extensions
    /\ MaxInstances \in Nat

VARIABLES
    \* the source_reconcile lock and what its holder is doing
    tx,             \* see Idle
    shutdown,       \* "no", "stopping", "drain", "down"
    config,         \* configuration publications requested so far
    failures,       \* failures that happened so far
    \* the instances
    owner,          \* [Instances -> Extensions \cup {"none"}]
    life,           \* [Instances -> {"none", "running", "stopped"}]
    gate,           \* instances whose generation_gate is active
    draining,       \* instances whose admission refuses new calls
    tasks,          \* instances whose managed tasks run
    guard,          \* instances whose operation_gate is held
    ret,            \* [Instances -> retirement task]
    lost,           \* history: instances withdrawn because of a failure
    \* what is published
    registry,       \* RuntimeRegistry.extensions
    blocked,        \* RuntimeRegistry.blocked, as extension ids
    index,          \* RuntimeRegistry.index
    publication,    \* RuntimePublication: generation, writing, pending
    runtime,        \* the RuntimeGeneration of the session layer
    bound,          \* [Instances -> index]: the Weak of its ServiceDispatcher
    \* the users
    turn,           \* [Turns -> holder of a view]; members is history: what was
                    \* published with the configuration that the turn pinned
    bg              \* [Instances -> background service call]

source == <<tx, shutdown, config, failures>>
instances == <<owner, life, gate, draining, tasks, guard, ret, lost>>
exposed == <<registry, blocked, index, publication, runtime, bound>>
users == <<turn, bg>>
vars == <<source, instances, exposed, users>>

NoIndex == [generation |-> 0, members |-> {}]
NoRuntime == [config |-> 0, generation |-> 0, members |-> {}]
Idle == [kind |-> "none", at |-> "none", todo |-> {}, keep |-> {}, fresh |-> {},
         leaving |-> {}, waiting |-> {}, began |-> {}, blocked |-> {}, changed |-> FALSE,
         index |-> NoIndex, previous |-> NoIndex]
NotRetiring == [at |-> "none", drain |-> FALSE, deps |-> {}, with |-> {}]
NoView == [at |-> "idle", runtime |-> NoRuntime, view |-> NoIndex, members |-> {}, call |-> 0]
NoCall == [index |-> NoIndex, to |-> 0]

Init ==
    /\ tx = Idle /\ shutdown = "no" /\ config = 0 /\ failures = 0
    /\ owner = [i \in Instances |-> "none"]
    /\ life = [i \in Instances |-> "none"]
    /\ gate = {} /\ draining = {} /\ tasks = {} /\ guard = {}
    /\ lost = {}
    /\ ret = [i \in Instances |-> NotRetiring]
    /\ registry = {} /\ blocked = {} /\ index = NoIndex
    /\ publication = [generation |-> 0, writing |-> FALSE, pending |-> 0]
    /\ runtime = NoRuntime
    /\ bound = [i \in Instances |-> NoIndex]
    /\ turn = [t \in Turns |-> NoView]
    /\ bg = [i \in Instances |-> NoCall]

----------------------------------------------------------------------------
(* Helpers *)

Owners(S) == {owner[i] : i \in S}

(* C contains whatever in S requires a member of C.                         *)
DependentsClosed(S, C) == \A e \in S : Requires[e] \cap C # {} => e \in C

(* DependencyPlan::affected: what is reachable from roots along the edges    *)
(* from a provider to those in S that require it.                           *)
Affected(S, roots) ==
    {e \in S \cup roots :
        \A C \in SUBSET (S \cup roots) : roots \subseteq C /\ DependentsClosed(S, C) => e \in C}

(* DependencyPlan::analyze: what cannot run because a Required service is    *)
(* missing, with everything that requires it.                               *)
Blocked(S) == Affected(S, {e \in S : ~ (Requires[e] \subseteq S)})

(* The members of S that require i.                                         *)
DependentsIn(S, i) ==
    {j \in S : j # i /\ owner[j] \in Affected(Owners(S), {owner[i]})}

(* Every HandlerIndex that something still holds; its members are leased.   *)
LiveIndexes ==
    {index, tx.index, tx.previous} \cup {turn[t].view : t \in Turns}
        \cup {bg[i].index : i \in Instances}

Leased(i) == \E ix \in LiveIndexes : i \in ix.members

(* Calls that hold an invocation permit of i.                               *)
Admitted(i) ==
    \/ \E t \in Turns : turn[t].call = i
    \/ \E j \in Instances : bg[j].to = i

(* Mutant: a publication keeps the generation number.                       *)
NextGeneration_Same == publication.generation

(* spawn_retirement: the task that stops an instance; deps are those whose   *)
(* operation gates it waits for first.  with is history: the instances that  *)
(* required this one when its withdrawal began.                              *)
Retirement(drains, deps, with) ==
    [at |-> "gates", drain |-> drains, deps |-> deps, with |-> with]

NextGeneration == publication.generation + 1

BuildIndex(members) == [generation |-> NextGeneration, members |-> members]

Retired(S) == \A i \in S : ret[i].at = "done"

----------------------------------------------------------------------------
(* A configuration publication: prepare_extension_generation computes what  *)
(* to keep and what to start, the candidates are started in dependency      *)
(* order, the configuration is saved, and commit_with publishes.            *)

(* What a reload restarts: new, changed and removed extensions and          *)
(* everything that requires them.                                           *)
Restarts(desired, changed) ==
    LET current == Owners(registry)
    IN  Affected(current, (current \ desired) \cup (desired \ current) \cup changed)

(* desired: discovered, enabled and admitted extensions; changed: those      *)
(* whose fingerprint differs from the registered one.                        *)
prepare_source_generation(desired, changed) ==
    /\ tx.kind = "none" /\ shutdown = "no"
    /\ config < MaxConfigs
    /\ LET starts == desired \cap Restarts(desired, changed)
           keep == {i \in registry :
                      owner[i] \in desired \ (starts \cup Blocked(desired))}
       IN  /\ Cardinality({i \in Instances : owner[i] # "none"})
                + Cardinality(starts \ Blocked(desired)) <= MaxInstances
           /\ tx' = [Idle EXCEPT
                !.kind = "reload", !.at = "start",
                !.todo = starts \ Blocked(desired),
                !.keep = keep, !.leaving = registry \ keep, !.began = registry,
                !.blocked = Blocked(desired),
                !.changed = \/ starts # {}
                            \/ Owners(registry) # desired
                            \/ blocked # {},
                !.index = index]
    /\ config' = config + 1
    /\ UNCHANGED <<shutdown, failures, instances, exposed, users>>

(* A candidate runs before it is published: its gate is closed, its tasks   *)
(* are suspended and its operation gate is held.                            *)
Candidate(e, i) ==
    /\ tx.kind = "reload" /\ tx.at = "start"
    /\ e \in tx.todo /\ Requires[e] \cap tx.todo = {}
    /\ owner[i] = "none" /\ \A j \in 1..(i - 1) : owner[j] # "none"
    /\ owner' = [owner EXCEPT ![i] = e]
    /\ life' = [life EXCEPT ![i] = "running"]
    /\ guard' = guard \cup {i}

start_source_candidate(e, i) ==
    /\ Candidate(e, i)
    /\ tx' = [tx EXCEPT !.todo = @ \ {e}, !.fresh = @ \cup {i}]
    /\ UNCHANGED <<shutdown, config, failures, gate, draining, tasks, ret, lost,
                   exposed, users>>

start_fails(e, i) ==
    /\ failures < MaxFailures
    /\ Candidate(e, i)
    /\ ret' = [ret EXCEPT ![i] = Retirement(FALSE, {}, {})]
    /\ tx' = [tx EXCEPT !.at = "rollback", !.waiting = {i}]
    /\ failures' = failures + 1
    /\ UNCHANGED <<shutdown, config, gate, draining, tasks, lost, exposed, users>>

(* The index of the new generation exists before it is published.           *)
prepared ==
    /\ tx.kind = "reload" /\ tx.at = "start" /\ tx.todo = {}
    /\ tx' = [tx EXCEPT !.at = "save",
                        !.index = IF tx.changed THEN BuildIndex(tx.keep \cup tx.fresh) ELSE @]
    /\ UNCHANGED <<shutdown, config, failures, instances, exposed, users>>

save_fails ==
    /\ tx.kind = "reload" /\ tx.at = "save"
    /\ failures < MaxFailures
    /\ tx' = [tx EXCEPT !.at = "rollback"]
    /\ failures' = failures + 1
    /\ UNCHANGED <<shutdown, config, instances, exposed, users>>

(* Mutant: the candidates of an aborted publication are dropped.            *)
AbortedCandidates_Forgotten == {}

(* PreparedExtensionGeneration::abort: every candidate that was started is   *)
(* handed to a retirement, and the source lock is kept until they are done. *)
AbortedCandidates == tx.fresh

abort ==
    /\ tx.kind = "reload" /\ tx.at = "rollback" /\ Retired(tx.waiting)
    /\ ret' = [i \in Instances |->
                 IF i \in AbortedCandidates THEN Retirement(FALSE, {}, {}) ELSE ret[i]]
    /\ tx' = [tx EXCEPT !.at = "aborting", !.waiting = AbortedCandidates,
                        !.fresh = {}, !.index = NoIndex]
    /\ UNCHANGED <<shutdown, config, failures, owner, life, gate, draining, tasks, guard,
                   lost, exposed, users>>

abort_returns ==
    /\ tx.kind = "reload" /\ tx.at = "aborting" /\ Retired(tx.waiting)
    /\ tx' = Idle
    /\ UNCHANGED <<shutdown, config, failures, instances, exposed, users>>

(* Nothing changed: only the session layer's generation is replaced.        *)
commit_unchanged ==
    /\ tx.kind = "reload" /\ tx.at = "save" /\ ~ tx.changed
    /\ runtime' = [config |-> config, generation |-> publication.generation,
                   members |-> index.members]
    /\ tx' = Idle
    /\ UNCHANGED <<shutdown, config, failures, instances, registry, blocked, index,
                   publication, bound, users>>

(* RuntimePublicationGuard::begin, with the generation that is to come.     *)
BeginPublication(ix) ==
    publication' = [publication EXCEPT !.writing = TRUE, !.pending = ix.generation]

commit_with ==
    /\ tx.kind = "reload" /\ tx.at = "save" /\ tx.changed
    /\ tx.leaving \cap guard = {}
    /\ guard' = guard \cup tx.leaving
    /\ registry' = tx.keep \cup tx.fresh
    /\ blocked' = tx.blocked
    /\ BeginPublication(tx.index)
    /\ tx' = [tx EXCEPT !.at = "publish"]
    /\ UNCHANGED <<shutdown, config, failures, owner, life, gate, draining, tasks, ret, lost, index, runtime, bound, users>>

----------------------------------------------------------------------------
(* Publication, shared by commit_with and rebuild_index_before_stable: the  *)
(* session layer's generation and the gates, then the index, then the       *)
(* dispatchers of the instances.                                            *)

(* The callback of a reload replaces configuration and models, the one of a *)
(* failure keeps them.  Only a reload has gates to open.                    *)
publish ==
    /\ tx.at = "publish"
    /\ runtime' = [config |-> IF tx.kind = "reload" THEN config ELSE runtime.config,
                   generation |-> tx.index.generation,
                   members |-> tx.index.members]
    /\ gate' = IF tx.kind = "reload" THEN gate \cup registry ELSE gate
    /\ tx' = [tx EXCEPT !.at = "swap"]
    /\ UNCHANGED <<shutdown, config, failures, owner, life, draining, tasks, guard, ret, lost,
                   registry, blocked, index, publication, bound, users>>

(* Mutant: the previous index is dropped as soon as it is replaced.         *)
HeldAcrossBind_Dropped == NoIndex

(* The previous index is held until the dispatchers are bound to the new one.*)
HeldAcrossBind == index

swap ==
    /\ tx.at = "swap"
    /\ index' = tx.index
    /\ tx' = [tx EXCEPT !.at = "bind", !.previous = HeldAcrossBind]
    /\ UNCHANGED <<shutdown, config, failures, instances, registry, blocked, publication,
                   runtime, bound, users>>

(* Mutant: a provider does not wait for what requires it.                   *)
DependentGates_None(i) == {}

(* What the retirement of i waits for: the operation gates of everything    *)
(* that is withdrawn with it and requires it.                               *)
DependentGates(i) == DependentsIn(tx.leaving, i)

(* Mutant: replaced instances are stopped like failed ones.                 *)
DrainsFirst_Never == FALSE

(* retire_replaced drains the views before it refuses calls; retire and      *)
(* retire_after do not.                                                      *)
DrainsFirst == tx.kind = "reload"

(* The dispatchers are bound, the previous index and the publication guard  *)
(* are dropped, and what left the registry is handed to the retirement      *)
(* supervisor.                                                              *)
bind ==
    /\ tx.at = "bind"
    /\ bound' = [i \in Instances |-> IF i \in registry THEN index ELSE bound[i]]
    /\ publication' = [generation |-> publication.pending, writing |-> FALSE, pending |-> 0]
    /\ tasks' = IF tx.kind = "reload" THEN tasks \cup registry ELSE tasks
    /\ guard' = guard \ tx.fresh
    /\ ret' = [i \in Instances |->
                 IF i \in tx.leaving
                 THEN Retirement(DrainsFirst, DependentGates(i), DependentsIn(tx.began, i))
                 ELSE ret[i]]
    /\ tx' = IF tx.kind = "shutdown"
             THEN [Idle EXCEPT !.kind = "shutdown", !.at = "ticket", !.waiting = tx.leaving,
                               !.began = tx.began]
             ELSE Idle
    /\ UNCHANGED <<shutdown, config, failures, owner, life, gate, draining, lost, registry,
                   blocked, index, runtime, users>>

----------------------------------------------------------------------------
(* A worker dies: the instance and everything that requires it is withdrawn.*)

(* The observer of the worker waits for the source lock before it looks;    *)
(* a report about an instance that is not registered by then is ignored.    *)
apply_runtime_failure(i) ==
    /\ tx.kind = "none" /\ shutdown # "down"
    /\ i \in registry
    /\ failures < MaxFailures
    /\ LET affected == {i} \cup DependentsIn(registry, i)
       IN  /\ gate' = gate \ affected
           /\ tasks' = tasks \ affected
           /\ lost' = lost \cup affected
           /\ tx' = [Idle EXCEPT !.kind = "failure", !.at = "gates", !.leaving = affected,
                                 !.began = registry]
    /\ failures' = failures + 1
    /\ UNCHANGED <<shutdown, config, owner, life, draining, guard, ret, exposed, users>>

withdraw ==
    /\ tx.kind = "failure" /\ tx.at = "gates"
    /\ tx.leaving \cap guard = {}
    /\ guard' = guard \cup tx.leaving
    /\ registry' = registry \ tx.leaving
    /\ blocked' = blocked \cup Owners(tx.leaving)
    /\ LET ix == BuildIndex(registry \ tx.leaving)
       IN  /\ BeginPublication(ix)
           /\ tx' = [tx EXCEPT !.at = "publish", !.index = ix]
    /\ UNCHANGED <<shutdown, config, failures, owner, life, gate, draining, tasks, ret, lost, index, runtime, bound, users>>

----------------------------------------------------------------------------
(* Shutdown: dependents first, each one drained, unregistered and waited    *)
(* for; then all retirements.                                               *)

(* shutting_down is set and the source lock taken; a reload that waits for   *)
(* the lock meanwhile is refused when it gets it.                            *)
shutdown_begin ==
    /\ shutdown = "no" /\ tx.kind = "none"
    /\ shutdown' = "stopping"
    /\ tx' = [Idle EXCEPT !.kind = "shutdown", !.at = "next", !.began = registry]
    /\ UNCHANGED <<config, failures, instances, exposed, users>>

(* unregister_with_retirement: lock the operation gate and refuse calls.    *)
begin_draining(i) ==
    /\ tx.kind = "shutdown" /\ tx.at = "next"
    /\ i \in registry /\ DependentsIn(registry, i) = {}
    /\ i \notin guard
    /\ guard' = guard \cup {i}
    /\ draining' = draining \cup {i}
    /\ tx' = [tx EXCEPT !.at = "draining", !.leaving = {i}]
    /\ UNCHANGED <<shutdown, config, failures, owner, life, gate, tasks, ret, lost,
                   exposed, users>>

(* begin_draining waits for every invocation permit.                        *)
PermitsReturned(S) == \A i \in S : ~ Admitted(i)

unregister_with_retirement ==
    /\ tx.kind = "shutdown" /\ tx.at = "draining" /\ PermitsReturned(tx.leaving)
    /\ registry' = registry \ tx.leaving
    /\ LET ix == BuildIndex(registry \ tx.leaving)
       IN  /\ BeginPublication(ix)
           /\ tx' = [tx EXCEPT !.at = "swap", !.index = ix]
    /\ UNCHANGED <<shutdown, config, failures, instances, blocked, index, runtime, bound, users>>

ticket_wait ==
    /\ tx.kind = "shutdown" /\ tx.at = "ticket" /\ Retired(tx.waiting)
    /\ tx' = [tx EXCEPT !.at = "next", !.waiting = {}]
    /\ UNCHANGED <<shutdown, config, failures, instances, exposed, users>>

shutdown_release ==
    /\ tx.kind = "shutdown" /\ tx.at = "next" /\ registry = {}
    /\ tx' = Idle
    /\ shutdown' = "drain"
    /\ UNCHANGED <<config, failures, instances, exposed, users>>

drain ==
    /\ shutdown = "drain"
    /\ \A i \in Instances : ret[i].at \in {"none", "done"}
    /\ shutdown' = "down"
    /\ UNCHANGED <<tx, config, failures, instances, exposed, users>>

----------------------------------------------------------------------------
(* The retirement task of i, spawn_retirement.                              *)

(* wait_until_fully_unpublished, or wait_until_unpublished with its timeout.*)
LeaseOver(i) == ~ Leased(i) \/ ~ ret[i].drain

(* The operation gates of the dependents are free and the lease is over:    *)
(* the gate is closed, the tasks are cancelled, calls are refused.          *)
unpublished(i) ==
    /\ ret[i].at = "gates" /\ ret[i].deps \cap guard = {} /\ LeaseOver(i)
    /\ gate' = gate \ {i}
    /\ tasks' = tasks \ {i}
    /\ draining' = IF ret[i].drain THEN draining \cup {i} ELSE draining
    /\ ret' = [ret EXCEPT ![i].at = "stop"]
    /\ UNCHANGED <<source, owner, life, guard, lost, exposed, users>>

(* The managed tasks of i have ended or were aborted at the deadline.       *)
TasksEnded(i) == i \notin tasks /\ bg[i] = NoCall

(* begin_draining has got every permit and the managed tasks are over;      *)
(* stop() is called and the operation gate released.                        *)
stop(i) ==
    /\ ret[i].at = "stop" /\ TasksEnded(i)
    /\ ret[i].drain => PermitsReturned({i})
    /\ life' = [life EXCEPT ![i] = "stopped"]
    /\ guard' = guard \ {i}
    /\ ret' = [ret EXCEPT ![i] = [NotRetiring EXCEPT !.at = "done"]]
    /\ UNCHANGED <<source, owner, gate, draining, tasks, lost, exposed, users>>

----------------------------------------------------------------------------
(* A turn pins a generation of configuration and extensions together        *)
(* (pin_turn_generation), calls handlers through its view, and drops it.    *)

PinTo(t, rec) ==
    /\ turn' = [turn EXCEPT ![t] = rec]
    /\ UNCHANGED <<source, instances, exposed, bg>>

pin_load(t) ==
    /\ turn[t].at = "idle"
    /\ PinTo(t, [NoView EXCEPT !.at = "state", !.runtime = runtime])

(* A read that does not match what was read before sends the turn back to   *)
(* the beginning (retry_runtime_snapshot), or it gives up.                   *)
PinNext(t, matches, rec) == PinTo(t, IF matches THEN rec ELSE NoView)

(* runtime_snapshot_state: Stable(publication.generation), or Updating.     *)
StableAt(generation) == ~ publication.writing /\ publication.generation = generation

pin_state(t) ==
    /\ turn[t].at = "state"
    /\ PinNext(t, StableAt(turn[t].runtime.generation), [turn[t] EXCEPT !.at = "view"])

pin_view(t) ==
    /\ turn[t].at = "view"
    /\ PinNext(t, index.generation = turn[t].runtime.generation,
               [turn[t] EXCEPT !.at = "current", !.view = index])

(* The second look: what was read first has not been replaced since.        *)
pin_current(t) ==
    /\ turn[t].at = "current"
    /\ PinNext(t, runtime = turn[t].runtime, [turn[t] EXCEPT !.at = "check"])

pin_check(t) ==
    /\ turn[t].at = "check"
    /\ PinNext(t, StableAt(turn[t].runtime.generation),
               [NoView EXCEPT !.at = "holding", !.view = turn[t].view,
                              !.members = turn[t].runtime.members])

(* extension_view: a stable index without a configuration, for everything   *)
(* that is not a turn.                                                      *)
extension_view(t) ==
    /\ turn[t].at = "idle"
    /\ StableAt(index.generation)
    /\ PinTo(t, [NoView EXCEPT !.at = "holding", !.view = index, !.members = index.members])

Holding(t) == turn[t].at = "holding"

(* A handler of the view is called; the call holds a permit of its instance.*)
run_recorded_hook(t, i) ==
    /\ Holding(t) /\ turn[t].call = 0
    /\ i \in turn[t].view.members \ draining
    /\ PinTo(t, [turn[t] EXCEPT !.call = i])

(* A call returns, fails or times out.                                      *)
call_returns(t) ==
    /\ turn[t].call # 0
    /\ PinTo(t, [turn[t] EXCEPT !.call = 0])

drop_view(t) ==
    /\ Holding(t) /\ turn[t].call = 0
    /\ PinTo(t, NoView)

----------------------------------------------------------------------------
(* A managed task of i calls a service through the dispatcher of its        *)
(* instance, which upgrades a weak reference to the index it is bound to.   *)

background_invoke(i, j) ==
    /\ bg[i] = NoCall
    /\ i \in tasks \cap gate
    /\ bound[i] \in LiveIndexes /\ i \in bound[i].members
    /\ i # j /\ owner[j] \in Uses[owner[i]]
    /\ j \in (bound[i].members \cap gate) \ draining
    /\ bg' = [bg EXCEPT ![i] = [index |-> bound[i], to |-> j]]
    /\ UNCHANGED <<source, instances, exposed, turn>>

background_returns(i) ==
    /\ bg[i] # NoCall
    /\ bg' = [bg EXCEPT ![i] = NoCall]
    /\ UNCHANGED <<source, instances, exposed, turn>>

----------------------------------------------------------------------------
(* The holder of the source lock.                                           *)
Reconcile ==
    \/ \E e \in Extensions, i \in Instances : start_source_candidate(e, i)
    \/ prepared \/ abort \/ abort_returns \/ commit_unchanged \/ commit_with
    \/ publish \/ swap \/ bind
    \/ withdraw
    \/ \E i \in Instances : begin_draining(i)
    \/ unregister_with_retirement \/ ticket_wait \/ shutdown_release \/ drain

Retire(i) == unpublished(i) \/ stop(i)

Pin(t) == pin_load(t) \/ pin_state(t) \/ pin_view(t) \/ pin_current(t) \/ pin_check(t)

(* What the environment decides.                                            *)
Request ==
    \/ \E desired \in Desired : \E changed \in SUBSET desired :
            prepare_source_generation(desired, changed)
    \/ \E e \in Extensions, i \in Instances : start_fails(e, i)
    \/ save_fails
    \/ \E i \in Instances : apply_runtime_failure(i)
    \/ shutdown_begin

Next ==
    \/ Request
    \/ Reconcile
    \/ \E i \in Instances : Retire(i) \/ background_returns(i)
    \/ \E i, j \in Instances : background_invoke(i, j)
    \/ \E t \in Turns : Pin(t) \/ extension_view(t) \/ call_returns(t) \/ drop_view(t)
    \/ \E t \in Turns, i \in Instances : run_recorded_hook(t, i)

Spec == Init /\ [][Next]_vars

(* Tasks run when they are ready, every call has a timeout, and a turn ends. *)
FairSpec ==
    /\ Spec
    /\ WF_vars(Reconcile)
    /\ WF_vars(\E i \in Instances : Retire(i))
    /\ \A i \in Instances : WF_vars(background_returns(i))
    /\ \A t \in Turns :
            /\ WF_vars(turn[t].at # "idle" /\ Pin(t))
            /\ WF_vars(call_returns(t))
            /\ SF_vars(drop_view(t))

----------------------------------------------------------------------------
(* Properties *)

(* A turn never runs with the configuration of one publication and the      *)
(* extensions of another, however the reads of pin_turn_generation fall     *)
(* between the stores of a reload, a failure or a shutdown.                 *)
PinnedIsConsistent ==
    \A t \in Turns : Holding(t) => turn[t].view.members = turn[t].members

(* An instance that can be called.                                          *)
Serves(i) == life[i] = "running" /\ i \in gate /\ i \notin draining

(* Holders of an older view: until the view is dropped each of its members  *)
(* runs and accepts calls.                                                  *)
ViewsServed ==
    \A t \in Turns : Holding(t) =>
        \A i \in turn[t].view.members : Serves(i) \/ i \in lost

(* Managed tasks of registered extensions: the snapshot they reach is       *)
(* alive, contains them, and the providers in it accept calls.              *)
TasksServed ==
    \A i \in tasks \cap registry :
        /\ bound[i] \in LiveIndexes /\ i \in bound[i].members
        /\ \A j \in bound[i].members : owner[j] \in Uses[owner[i]] =>
                Serves(j) \/ j \in lost

(* A reload never interrupts what runs on the generation it replaces: turns *)
(* keep the extensions of their view, and background tasks always find a    *)
(* snapshot to call through, also while commit_with moves them from one     *)
(* index to the next.  Excused are instances whose worker, or one that they *)
(* require, failed, and the shutdown of the server.                         *)
ReloadsInterruptNobody == shutdown = "no" => ViewsServed /\ TasksServed

(* stop() is called on a provider only after it was called on everything    *)
(* that required it when its withdrawal began, by a reload, a failure or    *)
(* the shutdown.                                                            *)
ProviderOutlivesDependents ==
    [][\A j \in Instances : life[j] # life'[j] /\ life'[j] = "stopped" =>
            \A i \in ret[j].with : life[i] = "stopped"]_vars

(* An instance that nothing will use again but that still runs.             *)
Lingers(i) ==
    life[i] = "running" /\ (i \notin registry \cup tx.fresh \/ shutdown # "no")

(* Whatever was started is stopped in the end: the candidates of a          *)
(* publication that failed, replaced and withdrawn instances, and all of    *)
(* them at shutdown, which returns.                                         *)
RetiredIsStopped ==
    []<>(shutdown \in {"no", "down"} /\ \A i \in Instances : ~ Lingers(i))

============================================================================
