------------------------- MODULE SubscriberChannels -------------------------
(***************************************************************************)
(* The subscriber registry and the per-subscriber channels that both bus   *)
(* implementations of PCAS use: a map from client id to a buffered Go      *)
(* channel behind an RWMutex, one Subscribe handler per open stream that   *)
(* drains its own channel, and a broadcast that walks the map under the    *)
(* read lock and never blocks.  ServerSubscribe (internal/bus) and         *)
(* MemoryBus (internal/bus/memory) add what differs between the two: how a *)
(* handler registers and how it cleans up.                                 *)
(*                                                                         *)
(* One element of Streams is one invocation of the Subscribe handler, and  *)
(* it also names the channel that invocation makes.  One element of Events *)
(* is one broadcast: the id of a response event is a fresh uuid.           *)
(***************************************************************************)
EXTENDS Naturals, Sequences

CONSTANTS
    Streams,    \* invocations of the Subscribe handler
    Clients,    \* the client ids that occur in requests
    ClientOf,   \* [Streams -> Clients], the client_id of each request
    Events,     \* the events that are broadcast, each once
    Cap,        \* the capacity of a subscriber's channel (100 in the code)
    None        \* no channel, no event

ASSUME ChannelsAssumption ==
    /\ ClientOf \in [Streams -> Clients]
    /\ Cap \in Nat \ {0}
    /\ None \notin Streams
    /\ None \notin Events

VARIABLES
    subscribers,  \* client id -> the registered channel, or None
    eventChan,    \* stream -> what is buffered in its channel
    closed,       \* the streams whose channel has been closed
    pc,           \* where each Subscribe handler is
    held,         \* the event a handler has received and not (yet) sent
    sent,         \* stream -> what stream.Send has accepted, in order
    cancelled,    \* the streams whose context is done
    bcast,        \* event -> progress of its broadcast
    todo,         \* event -> client ids the broadcast has still to visit
    before        \* history: the events whose broadcast was over when that
                  \* of this event began

registryVars == <<subscribers, closed>>
channelVars  == <<eventChan, held, sent>>
bcastVars    == <<bcast, todo, before>>
vars == <<subscribers, eventChan, closed, pc, held, sent, cancelled,
          bcast, todo, before>>

Init ==
    /\ subscribers = [c \in Clients |-> None]
    /\ eventChan = [s \in Streams |-> <<>>]
    /\ closed = {}
    /\ pc = [s \in Streams |-> "idle"]
    /\ held = [s \in Streams |-> None]
    /\ sent = [s \in Streams |-> <<>>]
    /\ cancelled = {}
    /\ bcast = [e \in Events |-> "new"]
    /\ todo = [e \in Events |-> {}]
    /\ before = [e \in Events |-> {}]

(* The read lock is held from the first to the last visit of a broadcast,  *)
(* so the write lock is free exactly when no broadcast is under way.       *)
WriteLockFree == \A e \in Events : bcast[e] # "active"

-----------------------------------------------------------------------------
(* The broadcast: RLock, one non-blocking send per registered channel in   *)
(* the order the map iteration happens to have, RUnlock.  Broadcasts share *)
(* the read lock and interleave with each other and with the receivers.    *)

BeginBroadcast(e) ==
    /\ bcast[e] = "new"
    /\ bcast' = [bcast EXCEPT ![e] = "active"]
    /\ todo' = [todo EXCEPT ![e] = {c \in Clients : subscribers[c] # None}]
    /\ before' = [before EXCEPT ![e] = {d \in Events : bcast[d] = "done"}]
    /\ UNCHANGED <<registryVars, channelVars, pc, cancelled>>

(* Mutant: the channel never counts as full.                               *)
SendToUnbounded(e, c) ==
    /\ bcast[e] = "active"
    /\ c \in todo[e]
    /\ subscribers[c] # None
    /\ todo' = [todo EXCEPT ![e] = @ \ {c}]
    /\ eventChan' = [eventChan EXCEPT ![subscribers[c]] = Append(@, e)]
    /\ UNCHANGED <<registryVars, held, sent, pc, cancelled, bcast, before>>

(* Mutant: a plain send, which waits for room in the channel.              *)
SendToBlocking(e, c) ==
    /\ subscribers[c] # None
    /\ Len(eventChan[subscribers[c]]) < Cap
    /\ SendToUnbounded(e, c)

SendTo(e, c) ==
    LET ch == subscribers[c] IN
    /\ bcast[e] = "active"
    /\ c \in todo[e]
    /\ ch # None
    /\ todo' = [todo EXCEPT ![e] = @ \ {c}]
    /\ eventChan' = IF Len(eventChan[ch]) < Cap
                      THEN [eventChan EXCEPT ![ch] = Append(@, e)]
                      ELSE eventChan
    /\ UNCHANGED <<registryVars, held, sent, pc, cancelled, bcast, before>>

(* Mutant: the loop returns before it has visited every subscriber.        *)
EndBroadcastEarly(e) ==
    /\ bcast[e] = "active"
    /\ bcast' = [bcast EXCEPT ![e] = "done"]
    /\ todo' = [todo EXCEPT ![e] = {}]
    /\ UNCHANGED <<registryVars, channelVars, pc, cancelled, before>>

EndBroadcast(e) ==
    /\ bcast[e] = "active"
    /\ todo[e] = {}
    /\ bcast' = [bcast EXCEPT ![e] = "done"]
    /\ UNCHANGED <<registryVars, channelVars, pc, cancelled, todo, before>>

-----------------------------------------------------------------------------
(* The loop of a Subscribe handler.  When an event is buffered and the     *)
(* context is done, Go's select takes either case.                         *)

Receive(s) ==
    /\ pc[s] = "loop"
    /\ eventChan[s] # <<>>
    /\ held' = [held EXCEPT ![s] = Head(eventChan[s])]
    /\ eventChan' = [eventChan EXCEPT ![s] = Tail(@)]
    /\ pc' = [pc EXCEPT ![s] = "send"]
    /\ UNCHANGED <<registryVars, sent, cancelled, bcastVars>>

(* Mutant: every event is sent by a goroutine of its own, so that one from *)
(* the buffer can overtake the one in hand.                                *)
SendOKOvertaken(s) ==
    /\ pc[s] = "send"
    /\ IF eventChan[s] = <<>>
         THEN /\ sent' = [sent EXCEPT ![s] = Append(@, held[s])]
              /\ held' = [held EXCEPT ![s] = None]
              /\ pc' = [pc EXCEPT ![s] = "loop"]
              /\ UNCHANGED eventChan
         ELSE /\ sent' = [sent EXCEPT ![s] = Append(@, Head(eventChan[s]))]
              /\ eventChan' = [eventChan EXCEPT ![s] = Tail(@)]
              /\ UNCHANGED <<held, pc>>
    /\ UNCHANGED <<registryVars, cancelled, bcastVars>>

SendOK(s) ==
    /\ pc[s] = "send"
    /\ sent' = [sent EXCEPT ![s] = Append(@, held[s])]
    /\ held' = [held EXCEPT ![s] = None]
    /\ pc' = [pc EXCEPT ![s] = "loop"]
    /\ UNCHANGED <<registryVars, eventChan, cancelled, bcastVars>>

(* Mutant: a failed Send unregisters the client and the loop goes on.      *)
SendErrContinues(s) ==
    /\ pc[s] = "send"
    /\ WriteLockFree
    /\ subscribers' = [subscribers EXCEPT ![ClientOf[s]] = None]
    /\ pc' = [pc EXCEPT ![s] = "loop"]
    /\ UNCHANGED <<closed, channelVars, cancelled, bcastVars>>

SendErr(s) ==
    /\ pc[s] = "send"
    /\ pc' = [pc EXCEPT ![s] = "cleanup"]
    /\ UNCHANGED <<registryVars, channelVars, cancelled, bcastVars>>

(* Mutant: the context is looked at only when an event arrives.            *)
ContextDoneAfterEvent(s) ==
    /\ pc[s] = "loop"
    /\ s \in cancelled
    /\ eventChan[s] # <<>>
    /\ pc' = [pc EXCEPT ![s] = "cleanup"]
    /\ UNCHANGED <<registryVars, channelVars, cancelled, bcastVars>>

ContextDone(s) ==
    /\ pc[s] = "loop"
    /\ s \in cancelled
    /\ pc' = [pc EXCEPT ![s] = "cleanup"]
    /\ UNCHANGED <<registryVars, channelVars, cancelled, bcastVars>>

(* The client goes away, or gRPC notices that it is gone: an input.        *)
Disconnect(s) ==
    /\ pc[s] \in {"loop", "send"}
    /\ s \notin cancelled
    /\ cancelled' = cancelled \cup {s}
    /\ UNCHANGED <<registryVars, channelVars, pc, bcastVars>>

BroadcastStep(e) ==
    BeginBroadcast(e) \/ EndBroadcast(e) \/ \E c \in Clients : SendTo(e, c)

HandlerStep(s) ==
    Receive(s) \/ SendOK(s) \/ SendErr(s) \/ ContextDone(s) \/ Disconnect(s)

(* What a handler that has been told to stop goes on doing by itself.  A   *)
(* Send may hang on a slow client's flow control for as long as the stream *)
(* is alive, so nothing is assumed of it before the context is done.  Go's *)
(* select does not starve a ready case and its RWMutex does not starve a   *)
(* waiting writer, hence the strong fairness in the modules that extend    *)
(* this one.                                                               *)
SendReturns(s) == s \in cancelled /\ (SendOK(s) \/ SendErr(s))

-----------------------------------------------------------------------------
PCs == {"idle", "loop", "send", "cleanup", "close", "done", "rejected"}

Live == {s \in Streams : pc[s] \in {"loop", "send", "cleanup"}}

(* What waits for the client of stream s: the event in hand and the buffer. *)
Waiting(s) == (IF held[s] = None THEN <<>> ELSE <<held[s]>>) \o eventChan[s]

(* All that stream s has been given, oldest first.                         *)
Accepted(s) == sent[s] \o Waiting(s)

(* Every variable has its type, and no channel is over its capacity.       *)
TypeOK ==
    /\ subscribers \in [Clients -> Streams \cup {None}]
    /\ eventChan \in [Streams -> Seq(Events)]
    /\ \A s \in Streams : Len(eventChan[s]) <= Cap
    /\ closed \subseteq Streams
    /\ pc \in [Streams -> PCs]
    /\ held \in [Streams -> Events \cup {None}]
    /\ sent \in [Streams -> Seq(Events)]
    /\ cancelled \subseteq Streams
    /\ bcast \in [Events -> {"new", "active", "done"}]
    /\ todo \in [Events -> SUBSET Clients]
    /\ before \in [Events -> SUBSET Events]

(* A broadcast never meets a closed or a vanished channel: a send on a     *)
(* closed Go channel panics and takes the whole server down.  It relies on *)
(* the cleanup deleting the registration under the write lock before (or   *)
(* together with) closing the channel.                                     *)
NoSendOnClosed ==
    \A e \in Events : \A c \in todo[e] : subscribers[c] \in Streams \ closed

(* If the broadcast of one event was over before that of another started,  *)
(* no subscriber is given the two in the opposite order, and none is given *)
(* an event twice, however the Publish handlers and the receivers          *)
(* interleave.                                                             *)
BroadcastOrder ==
    \A s \in Streams : \A i, j \in DOMAIN Accepted(s) :
        i < j => /\ Accepted(s)[j] # Accepted(s)[i]
                 /\ Accepted(s)[j] \notin before[Accepted(s)[i]]

(* However slow or stuck the subscribers are, a broadcast that has begun   *)
(* ends: Publish never waits for a full channel.                           *)
BroadcastNeverBlocks == \A e \in Events : bcast[e] = "active" ~> bcast[e] = "done"

(* A handler whose client is gone always gets out of its loop and through  *)
(* its cleanup, even while broadcasts keep filling its channel.            *)
DisconnectReclaims ==
    \A s \in Streams : s \in cancelled ~> pc[s] = "done"

-----------------------------------------------------------------------------
(* The bus as its subscribers see it.  A handler is open from its          *)
(* registration to its clean-up; one that was rejected never was.          *)
StreamState ==
    [s \in Streams |->
       CASE pc[s] \in {"idle", "rejected"} -> "never"
         [] s \in Live -> "open"
         [] OTHER -> "ended"]

Mailbox == [s \in Streams |-> IF s \in Live THEN Waiting(s) ELSE <<>>]

Audience == [e \in Events |-> {subscribers[c] : c \in todo[e]}]

Delivery == INSTANCE EventDelivery WITH
    state <- StreamState, mailbox <- Mailbox, delivered <- sent,
    phase <- bcast, audience <- Audience

(* The bus implements the delivery contract: every broadcast is offered to *)
(* every open stream and to nothing else, only a full channel loses an     *)
(* event, and each client sees an ordered selection of what was broadcast. *)
(* The server's bus does so when client ids are unique among the running   *)
(* handlers, the memory bus for every use of client ids.                   *)
ImplementsDelivery == Delivery!DSpec
=============================================================================
