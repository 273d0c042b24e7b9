------------------------- MODULE ConversationStream -------------------------
(***************************************************************************)
(* One conversation seen by one web client: the turn publishes durable and  *)
(* live events through ServerEventBus (server_event_bus.rs), the client      *)
(* loads a snapshot (http/routes/sessions.rs, conversationHistory.ts) and    *)
(* follows the SSE stream (http/stream.rs, sessionStreamController.ts).      *)
(* docs/architecture/conversation-stream.md is the contract.                 *)
(***************************************************************************)
EXTENDS Integers, Sequences, FiniteSets

CONSTANTS
    MaxEvents,      \* durable events of the session
    MaxDeltas,      \* text deltas of one assistant message
    Capacity,       \* EVENT_CHANNEL_CAPACITY of the conversation channel
    MaxReplay,      \* MAX_REPLAY_EVENTS
    MaxDisconnects  \* times the network ends a stream

ASSUME ConversationStreamAssumption ==
    /\ MaxEvents \in Nat /\ MaxDeltas \in Nat /\ MaxDisconnects \in Nat
    /\ Capacity \in Nat \ {0} /\ MaxReplay \in Nat

VARIABLES
    log,         \* durable events: "start", "final", "fact", "end" of a turn
    published,   \* how many of them went through the bus
    message,     \* the assistant message being streamed: its number, 0 when none
    messages,    \* messages begun
    streaming,   \* ServerEventBus::streaming: message and text of the snapshot
    pc,          \* where the client is
    load,        \* what the requests of a snapshot have returned so far
    view,        \* what the client shows
    cursor,      \* the cursor it would reconnect with
    rx, lagged,  \* its receiver of the broadcast channel
    replay,      \* replayed events still to be sent
    replayMax,   \* LiveStreamState::replay_max_seq, 0 when none
    cached,      \* LiveStreamState::cached_cursor, Unknown when none
    disconnects

producer == <<log, published, message, messages, streaming>>
stream == <<rx, lagged, replay, replayMax, cached>>
vars == <<producer, pc, load, view, cursor, stream, disconnects>>

Unknown == 0 - 1
NoMessage == 0
Nothing == [msg |-> NoMessage, text |-> {}]
NotLoaded == [state |-> Unknown, busy |-> FALSE, transient |-> {}, gotStream |-> FALSE,
              items |-> Unknown, page |-> Unknown]
\* Durable blocks shown, the event the control state comes from, and the blocks
\* of unfinished messages; a turn owns the ones the stream announced.
Blank == [have |-> {}, control |-> 0, transient |-> {}]

Init ==
    /\ log = << >> /\ published = 0
    /\ message = NoMessage /\ messages = 0 /\ streaming = Nothing
    /\ pc = "loading" /\ load = NotLoaded /\ view = Blank /\ cursor = 0
    /\ rx = << >> /\ lagged = FALSE /\ replay = << >> /\ replayMax = 0 /\ cached = Unknown
    /\ disconnects = 0

Head0 == Len(log)
Durable(n) == [live |-> FALSE, seq |-> n, kind |-> log[n].kind, msg |-> log[n].msg, text |-> 0]
Live(k, m, d) == [live |-> TRUE, seq |-> 0, kind |-> k, msg |-> m, text |-> d]

\* The turn that the read model of the first n events calls unsettled.
Unsettled(n) ==
    \E i \in 1..n : log[i].kind = "start" /\ \A j \in i..n : log[j].kind # "end"
TurnRuns == Unsettled(Head0)

----------------------------------------------------------------------------
(* The session: its lane commits an event and publishes it before the next.  *)

\* Mutant: the receiver is created when the live part of the stream begins.
Subscribed_WhenLive == pc = "live"

Subscribed == pc \in {"replaying", "sending", "live"}

\* broadcast::Sender::send: the oldest event is overwritten when the ring is full.
send_to_existing_conversation_fanout(e) ==
    IF ~Subscribed THEN UNCHANGED <<rx, lagged>>
    ELSE /\ rx' = IF Len(rx) = Capacity THEN Append(Tail(rx), e) ELSE Append(rx, e)
         /\ lagged' = (lagged \/ Len(rx) = Capacity)

\* update_streaming
update_streaming(e) ==
    CASE e.kind = "begin" -> [msg |-> e.msg, text |-> {}]
      [] e.kind = "delta" /\ streaming # Nothing -> [streaming EXCEPT !.text = @ \cup {e.text}]
      [] e.kind \in {"final", "end"} -> Nothing
      [] OTHER -> streaming

publish_event(e) ==
    /\ streaming' = update_streaming(e)
    /\ send_to_existing_conversation_fanout(e)
    /\ UNCHANGED <<pc, load, view, cursor, replay, replayMax, cached, disconnects>>

\* The journal has the event and the read model shows it; the bus does not yet.
commit(k) ==
    /\ published = Head0 /\ Head0 < MaxEvents
    /\ CASE k = "start" -> ~TurnRuns
         [] k = "final" -> message # NoMessage
         [] k = "end" -> TurnRuns
         [] k = "fact" -> TRUE
    /\ log' = Append(log, [kind |-> k, msg |-> IF k = "final" THEN message ELSE NoMessage])
    /\ message' = IF k \in {"final", "end"} THEN NoMessage ELSE message
    /\ UNCHANGED <<published, messages, streaming, pc, load, view, cursor, stream, disconnects>>

publish_durable ==
    /\ published < Head0
    /\ published' = published + 1
    /\ publish_event(Durable(published + 1))
    /\ UNCHANGED <<log, message, messages>>

\* The turn waits for its own durable events, not for those of other writers.
TurnMayStream == TurnRuns /\ (published < Head0 => log[Head0].kind = "fact")

\* AssistantMessageStarted and AssistantTextDelta, from the provider's stream.
AssistantMessageStarted ==
    /\ TurnMayStream /\ message = NoMessage
    /\ messages < MaxEvents
    /\ message' = messages + 1 /\ messages' = messages + 1
    /\ publish_event(Live("begin", messages + 1, 0))
    /\ UNCHANGED <<log, published>>

AssistantTextDelta ==
    /\ TurnMayStream /\ message # NoMessage
    /\ Cardinality(streaming.text) < MaxDeltas
    /\ publish_event(Live("delta", message, Cardinality(streaming.text) + 1))
    /\ UNCHANGED <<log, published, message, messages>>

----------------------------------------------------------------------------
(* Loading a snapshot: GET state and GET items run in parallel, and each       *)
(* reads twice.                                                               *)

Loading(field, value) ==
    /\ load' = [load EXCEPT ![field] = value]
    /\ UNCHANGED <<producer, pc, view, cursor, stream, disconnects>>

\* conversation_state: the read model ...
conversation_state ==
    /\ pc = "loading" /\ load.state = Unknown
    /\ load' = [load EXCEPT !.state = Head0, !.busy = TurnRuns]
    /\ UNCHANGED <<producer, pc, view, cursor, stream, disconnects>>

\* ... then the text streamed so far, shown only when the model has a turn.
streaming_snapshot ==
    /\ pc = "loading" /\ load.state # Unknown /\ ~load.gotStream
    /\ load' = [load EXCEPT !.gotStream = TRUE,
                    !.transient = IF load.busy /\ streaming # Nothing
                                  THEN {[msg |-> streaming.msg, text |-> streaming.text,
                                         owned |-> FALSE]}
                                  ELSE {}]
    /\ UNCHANGED <<producer, pc, view, cursor, stream, disconnects>>

\* conversation_items: the read model for the cursor, then the page.
conversation_items == pc = "loading" /\ load.items = Unknown /\ Loading("items", Head0)
page_before ==
    pc = "loading" /\ load.items # Unknown /\ load.page = Unknown /\ Loading("page", Head0)

\* Mutant: the cursor is the later of the two.
buildConversationView_Later ==
    /\ pc = "loading" /\ load.gotStream /\ load.page # Unknown
    /\ view' = [have |-> 1..load.page, control |-> load.state, transient |-> load.transient]
    /\ cursor' = IF load.state < load.items THEN load.items ELSE load.state
    /\ pc' = "connecting" /\ load' = NotLoaded
    /\ UNCHANGED <<producer, stream, disconnects>>

\* buildConversationView: a streamed block overlays the page, the cursor is the
\* earlier of the two.
buildConversationView ==
    /\ pc = "loading" /\ load.gotStream /\ load.page # Unknown
    /\ view' = [have |-> 1..load.page, control |-> load.state, transient |-> load.transient]
    /\ cursor' = IF load.state < load.items THEN load.state ELSE load.items
    /\ pc' = "connecting" /\ load' = NotLoaded
    /\ UNCHANGED <<producer, stream, disconnects>>

----------------------------------------------------------------------------
(* The reducer of the client (applyDelta.ts).                                 *)

Shown(m) == {t \in view.transient : t.msg = m}

\* The deltas of one event, from event_to_deltas or event_to_replay_deltas.
\* patchBlock finds no block to patch when the client does not show the message;
\* clearTransientBlocks removes the blocks that it knows the turn owns.
Applied(e) ==
    CASE e.kind = "begin" ->
            [view EXCEPT !.transient = (@ \ Shown(e.msg)) \cup
                            {[msg |-> e.msg, text |-> {}, owned |-> TRUE]}]
      [] e.kind = "delta" ->
            [view EXCEPT !.transient = (@ \ Shown(e.msg)) \cup
                            {[t EXCEPT !.text = @ \cup {e.text}] : t \in Shown(e.msg)}]
      [] e.kind = "final" ->
            [view EXCEPT !.have = @ \cup {e.seq}, !.transient = @ \ Shown(e.msg)]
      [] e.kind = "end" ->
            [view EXCEPT !.have = @ \cup {e.seq}, !.control = e.seq,
                         !.transient = {t \in @ : ~t.owned}]
      [] e.kind = "start" -> [view EXCEPT !.have = @ \cup {e.seq}, !.control = e.seq]
      [] e.kind = "fact" -> [view EXCEPT !.have = @ \cup {e.seq}]

----------------------------------------------------------------------------
(* The stream.                                                                *)

\* The response is over and its receiver dropped; the client loads a snapshot.
Ended ==
    /\ pc' = "loading"
    /\ rx' = << >> /\ lagged' = FALSE /\ replay' = << >> /\ replayMax' = 0 /\ cached' = Unknown
    /\ UNCHANGED <<producer, load, view, cursor>>

\* session_stream: the receiver exists before the history is read.
subscribe_conversation_events ==
    /\ pc = "connecting"
    /\ pc' = "replaying"
    /\ UNCHANGED <<producer, load, view, cursor, stream, disconnects>>

\* replay_after_cursor
replay_after_cursor ==
    /\ pc = "replaying" /\ Head0 - cursor <= MaxReplay
    /\ pc' = "sending"
    /\ replay' = [k \in 1..(Head0 - cursor) |-> Durable(cursor + k)]
    /\ replayMax' = IF Head0 > cursor THEN Head0 ELSE 0
    /\ UNCHANGED <<producer, load, view, cursor, rx, lagged, cached, disconnects>>

\* LimitExceeded: RehydrateRequired is the last item of the stream.
rehydrate_required ==
    /\ pc = "replaying" /\ Head0 - cursor > MaxReplay
    /\ Ended /\ UNCHANGED disconnects

replay_stream ==
    /\ pc = "sending" /\ replay # << >>
    /\ view' = Applied(Head(replay)) /\ cursor' = Head(replay).seq
    /\ replay' = Tail(replay)
    /\ UNCHANGED <<producer, pc, load, rx, lagged, replayMax, cached, disconnects>>

\* The elements of the sequence s at the positions K, in their order.
Retain(s, K) ==
    [j \in 1..Cardinality(K) |-> s[CHOOSE k \in K : Cardinality({m \in K : m <= k}) = j]]

\* drain_stale_live_events: after a replay the live events that waited are dropped.
drain_stale_live_events ==
    /\ pc = "sending" /\ replay = << >>
    /\ replayMax # 0 => ~lagged
    /\ pc' = "live"
    /\ rx' = IF replayMax = 0 THEN rx
             ELSE Retain(rx, {i \in 1..Len(rx) : ~rx[i].live /\ rx[i].seq > replayMax})
    /\ UNCHANGED <<producer, load, view, cursor, lagged, replay, replayMax, cached, disconnects>>

\* recv_live_input and event_to_sse_items.  A live event carries the cached cursor
\* or the latest one of the store.
recv_live_input ==
    LET e == Head(rx)
        now == CASE ~e.live -> e.seq
                 [] cached # Unknown -> cached
                 [] OTHER -> Head0
    IN  /\ pc = "live" /\ ~lagged /\ rx # << >>
        /\ rx' = Tail(rx)
        /\ IF ~e.live /\ e.seq <= replayMax
           THEN UNCHANGED <<view, cursor, cached>>
           ELSE view' = Applied(e) /\ cursor' = now /\ cached' = now
        /\ UNCHANGED <<producer, pc, load, lagged, replay, replayMax, disconnects>>

\* Mutant: the error is ignored and the receiver polled again.
recv_lagged_Polls == lagged /\ pc = "live" /\ UNCHANGED vars

\* A receiver that lagged ends the stream without another word.
recv_lagged ==
    /\ lagged /\ (pc = "live" \/ (pc = "sending" /\ replay = << >> /\ replayMax # 0))
    /\ Ended /\ UNCHANGED disconnects

\* The network ends the stream: a stream that was open is followed by a new
\* snapshot (SessionStreamController::connect, resume).
stream_ends ==
    /\ Subscribed /\ disconnects < MaxDisconnects
    /\ disconnects' = disconnects + 1
    /\ Ended

ClientStep ==
    \/ conversation_state \/ streaming_snapshot \/ conversation_items \/ page_before
    \/ buildConversationView \/ subscribe_conversation_events \/ replay_after_cursor
    \/ rehydrate_required \/ replay_stream \/ drain_stale_live_events \/ recv_live_input
    \/ recv_lagged

Next ==
    \/ \E k \in {"start", "fact", "final", "end"} : commit(k)
    \/ publish_durable \/ AssistantMessageStarted \/ AssistantTextDelta
    \/ ClientStep \/ stream_ends

\* The lane publishes what it committed; the client and its stream go on.
Fairness == WF_vars(publish_durable) /\ WF_vars(ClientStep)
Spec == Init /\ [][Next]_vars
FairSpec == Spec /\ Fairness

----------------------------------------------------------------------------
\* While a client follows the stream every published event that it does not show
\* waits in its receiver, is still to be replayed, or its receiver lagged and the
\* stream is about to end: no durable event falls between snapshot, replay and
\* live.
NoGap ==
    pc \in {"sending", "live"} =>
        \A n \in 1..published :
            \/ n \in view.have \/ lagged
            \/ \E i \in 1..Len(rx) : rx[i].seq = n
            \/ \E i \in 1..Len(replay) : replay[i].seq = n

AtRest == pc = "live" /\ rx = << >> /\ ~lagged /\ published = Head0

\* At rest the client shows what a fresh snapshot would: every durable block and
\* the last control state, whatever was replayed, repeated or dropped on the way.
DurablyConverged ==
    AtRest => /\ view.have = 1..Head0
              /\ \A n \in 1..Head0 : log[n].kind \in {"start", "end"} => n <= view.control

\* Every durable event is shown in the end, also to a client that lags, loses the
\* connection or has to load again.
EventuallyShown == \A n \in 1..MaxEvents : Head0 >= n ~> n \in view.have
=============================================================================
