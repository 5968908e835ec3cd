------------------------------ MODULE EventBroker -----------------------------
(***************************************************************************)
(* The brokers behind the event streams (sse.go): a map of client          *)
(* channels under a read-write lock, publishers that never wait for a slow *)
(* client, and stream handlers that subscribe, send a snapshot and then    *)
(* forward what arrives.  The subject is whatever is shown (the write      *)
(* window of a target, a transfer job); only its version matters here, and *)
(* which versions began a new state: the transfer broker may withhold the  *)
(* others.                                                                 *)
(***************************************************************************)
EXTENDS Integers, Sequences, FiniteSets

CONSTANTS
  Streams,      \* stream handlers, each with its channel
  Publishers,   \* requests or goroutines that change the subject and tell it
  Capacity,     \* places of a channel (8, 32 or 64 in the code)
  MaxVersion    \* bound: changes of the subject

ASSUME BrokerAssumption ==
  /\ IsFiniteSet(Streams) /\ IsFiniteSet(Publishers)
  /\ Capacity \in Nat \ {0} /\ MaxVersion \in Nat

VARIABLES
  version,    \* the subject as it is
  turn,       \* the newest version that began a state and is to be published
  lastState,  \* lastStates: the state last let through by shouldEmit, by its first version
  clients,    \* Broker.clients: the channels that are registered
  channel,    \* per stream: its queue and whether it is closed
  stream,     \* where each stream handler is, and the version its browser shows
  publisher,  \* where each publisher is: its payload, and the channels it has to visit
  readers,    \* publishers that hold the read lock
  missed,     \* history: streams an event was dropped for or withheld from, or that got one
              \* out of order
  panicked    \* a send met a closed channel

brokerVars == <<version, turn, lastState, clients, channel, stream, publisher, readers, missed, panicked>>

NoChannel == [queue |-> <<>>, closed |-> FALSE]
Silent == [pc |-> "idle", payload |-> 0, state |-> 0, visit |-> {}]

Newest(c) == IF channel[c].queue = <<>> THEN stream[c].shown ELSE channel[c].queue[Len(channel[c].queue)]

BrokerInit ==
  /\ version = 0 /\ turn = 0 /\ lastState = -1 /\ clients = {} /\ readers = {} /\ missed = {} /\ panicked = FALSE
  /\ channel = [c \in Streams |-> NoChannel]
  /\ stream = [c \in Streams |-> [pc |-> "off", shown |-> 0]]
  /\ publisher = [p \in Publishers |-> Silent]

-------------------------------------------------------------------------------
\* SetState, OpenWriteWindow, CloseWriteWindow: the subject enters a new state.
Change(p) ==
  /\ publisher[p].pc = "idle" /\ version < MaxVersion
  /\ version' = version + 1
  /\ turn' = version + 1
  /\ publisher' = [publisher EXCEPT ![p].pc = "read"]
  /\ UNCHANGED <<lastState, clients, channel, stream, readers, missed, panicked>>

\* SetProgress: it changes within its state.
Progress(p) ==
  /\ publisher[p].pc = "idle" /\ version < MaxVersion
  /\ version' = version + 1
  /\ publisher' = [publisher EXCEPT ![p].pc = "read"]
  /\ UNCHANGED <<turn, lastState, clients, channel, stream, readers, missed, panicked>>

\* The goroutine of a cancelled job goes on telling what its own copy of the job says, a
\* state that is over.
PublishCopy(p, copy, state) ==
  /\ publisher[p].pc = "idle" /\ state =< copy /\ copy < turn
  /\ publisher' = [publisher EXCEPT ![p].pc = "emit", ![p].payload = copy, ![p].state = state]
  /\ UNCHANGED <<version, turn, lastState, clients, channel, stream, readers, missed, panicked>>

\* It changes and nobody publishes it: handleDeleteTarget closes the window of the
\* target, and a window runs out.
ChangeUntold ==
  /\ version < MaxVersion
  /\ version' = version + 1
  /\ UNCHANGED <<turn, lastState, clients, channel, stream, publisher, readers, missed, panicked>>

\* The payload is built from the subject as it is then, before Publish.
ReadSubject(p) ==
  /\ publisher[p].pc = "read"
  /\ publisher' = [publisher EXCEPT ![p].pc = "emit", ![p].payload = version, ![p].state = turn]
  /\ UNCHANGED <<version, turn, lastState, clients, channel, stream, readers, missed, panicked>>

\* shouldEmit: a state that was not the last one let through always passes, any other
\* snapshot once the pause is over.  The other brokers let everything pass.
ShouldEmit(p) ==
  /\ publisher[p].pc = "emit"
  /\ lastState' = publisher[p].state
  /\ publisher' = [publisher EXCEPT ![p].pc = "lock"]
  /\ UNCHANGED <<version, turn, clients, channel, stream, readers, missed, panicked>>

\* The state is not compared.
WithholdFault(p) ==
  /\ publisher[p].pc = "emit"
  /\ publisher' = [publisher EXCEPT ![p] = Silent]
  /\ UNCHANGED <<version, turn, lastState, clients, channel, stream, readers, missed, panicked>>

Withhold(p) ==
  /\ publisher[p].pc = "emit" /\ publisher[p].state = lastState
  /\ publisher' = [publisher EXCEPT ![p] = Silent]
  /\ UNCHANGED <<version, turn, lastState, clients, channel, stream, readers, missed, panicked>>

\* A later state may have the name of the one last let through: cancelled, running by the
\* goroutine's own SetState, and cancelled once more.  Its snapshot is withheld too, though
\* one of the state in between may be yet to come.
WithholdReturned(p) ==
  /\ publisher[p].pc = "emit" /\ 0 =< lastState /\ lastState + 1 < publisher[p].state
  /\ publisher' = [publisher EXCEPT ![p] = Silent]
  /\ missed' = missed \cup clients
  /\ UNCHANGED <<version, turn, lastState, clients, channel, stream, readers, panicked>>

\* Publish takes the read lock for as long as it goes through the map.
RLock(p) ==
  /\ publisher[p].pc = "lock"
  /\ readers' = readers \cup {p}
  /\ publisher' = [publisher EXCEPT ![p].pc = "send", ![p].visit = clients]
  /\ UNCHANGED <<version, turn, lastState, clients, channel, stream, missed, panicked>>

\* select with a default: a full channel loses the event.  A send on a closed
\* channel panics.
Send(p, c) ==
  /\ publisher[p].pc = "send" /\ c \in publisher[p].visit
  /\ LET full == Len(channel[c].queue) >= Capacity
         stale == publisher[p].payload < Newest(c)
     IN /\ channel' = IF full \/ channel[c].closed THEN channel
                      ELSE [channel EXCEPT ![c].queue = Append(@, publisher[p].payload)]
        /\ missed' = IF full \/ stale THEN missed \cup {c} ELSE missed
  /\ panicked' = (panicked \/ channel[c].closed)
  /\ publisher' = [publisher EXCEPT ![p].visit = @ \ {c}]
  /\ UNCHANGED <<version, turn, lastState, clients, stream, readers>>

RUnlock(p) ==
  /\ publisher[p].pc = "send" /\ publisher[p].visit = {}
  /\ readers' = readers \ {p}
  /\ publisher' = [publisher EXCEPT ![p] = Silent]
  /\ UNCHANGED <<version, turn, lastState, clients, channel, stream, missed, panicked>>

-------------------------------------------------------------------------------
\* A stream handler subscribes, under the write lock, and then takes its snapshot.
Subscribe(c) ==
  /\ stream[c].pc = "off" /\ readers = {}
  /\ clients' = clients \cup {c}
  /\ channel' = [channel EXCEPT ![c] = NoChannel]
  /\ stream' = [stream EXCEPT ![c].pc = "subscribed"]
  /\ missed' = missed \ {c}
  /\ UNCHANGED <<version, turn, lastState, publisher, readers, panicked>>

\* An event already queued is shown after the snapshot, and may be older than it.
SnapshotFault(c) ==
  /\ stream[c].pc = "subscribed"
  /\ stream' = [stream EXCEPT ![c].pc = "streaming"]
  /\ UNCHANGED <<version, turn, lastState, clients, channel, publisher, readers, missed, panicked>>

Snapshot(c) ==
  /\ stream[c].pc = "subscribed"
  /\ stream' = [stream EXCEPT ![c] = [pc |-> "streaming", shown |-> version]]
  /\ missed' = IF channel[c].queue # <<>> /\ Newest(c) < version THEN missed \cup {c} ELSE missed
  /\ UNCHANGED <<version, turn, lastState, clients, channel, publisher, readers, panicked>>

Forward(c) ==
  /\ stream[c].pc = "streaming" /\ channel[c].queue # <<>>
  /\ stream' = [stream EXCEPT ![c].shown = Head(channel[c].queue)]
  /\ channel' = [channel EXCEPT ![c].queue = Tail(@)]
  /\ UNCHANGED <<version, turn, lastState, clients, publisher, readers, missed, panicked>>

\* The browser goes away.  Unsubscribe deletes the channel under the write lock,
\* and closes it when it has given the lock back.
UnsubscribeFault(c) ==
  /\ stream[c].pc \in {"subscribed", "streaming"}
  /\ channel' = [channel EXCEPT ![c].closed = TRUE]
  /\ stream' = [stream EXCEPT ![c].pc = "leaving"]
  /\ UNCHANGED <<version, turn, lastState, clients, publisher, readers, missed, panicked>>

Unsubscribe(c) ==
  /\ stream[c].pc \in {"subscribed", "streaming"} /\ readers = {}
  /\ clients' = clients \ {c}
  /\ stream' = [stream EXCEPT ![c].pc = "leaving"]
  /\ UNCHANGED <<version, turn, lastState, channel, publisher, readers, missed, panicked>>

CloseChannel(c) ==
  /\ stream[c].pc = "leaving"
  /\ channel' = [channel EXCEPT ![c] = [queue |-> <<>>, closed |-> TRUE]]
  /\ stream' = [stream EXCEPT ![c] = [pc |-> "off", shown |-> 0]]
  /\ UNCHANGED <<version, turn, lastState, clients, publisher, readers, missed, panicked>>

BrokerNext ==
  \/ \E p \in Publishers :
       \/ Change(p) \/ Progress(p) \/ ReadSubject(p) \/ ShouldEmit(p) \/ Withhold(p)
       \/ WithholdReturned(p) \/ \E copy, state \in 0 .. version : PublishCopy(p, copy, state)
       \/ RLock(p) \/ RUnlock(p) \/ \E c \in Streams : Send(p, c)
  \/ ChangeUntold
  \/ \E c \in Streams :
       Subscribe(c) \/ Snapshot(c) \/ Forward(c) \/ Unsubscribe(c) \/ CloseChannel(c)

BrokerSpec == BrokerInit /\ [][BrokerNext]_brokerVars

-------------------------------------------------------------------------------
\* Publishing and a browser that goes away at the same moment: no send ever meets
\* a channel that Unsubscribe has closed, which would take the server down.
NoSendOnClosed == ~panicked

\* A stream subscribes before it takes its snapshot, so no change falls between
\* the two, and what shouldEmit withholds is never the first word of a new state:
\* when its queue is empty and no publisher is under way, the browser shows the
\* subject as it is or as it was at some moment since the last state that was to be
\* published, unless an event was dropped or overtaken, or withheld because the job had
\* come back to the state last let through.
StreamCaughtUp ==
  \A c \in Streams :
    /\ stream[c].pc = "streaming" /\ channel[c].queue = <<>> /\ c \notin missed
    /\ \A p \in Publishers : publisher[p].pc = "idle"
    => stream[c].shown \in turn .. version

\* No event is sent on a channel that was closed, and a stream that is told of a
\* change has caught up with it.
StreamsSound == NoSendOnClosed /\ StreamCaughtUp

===============================================================================
