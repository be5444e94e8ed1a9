------------------------------ MODULE BusProofs ------------------------------
(***************************************************************************)
(* The two buses, for any number of handlers, clients and broadcasts.      *)
(*                                                                         *)
(* The bus server (Spec), for any use of client ids, concurrent reuse      *)
(* included: channels never overflow, a broadcast never sends on a closed  *)
(* channel, and no event is duplicated or reordered.  When ids are unique  *)
(* among the running handlers, each is registered and the server           *)
(* implements EventDelivery.                                               *)
(*                                                                         *)
(* The memory bus (MemorySpec), for every use of client ids: the same, and *)
(* the registry is exactly the running handlers.                           *)
(***************************************************************************)
EXTENDS ServerSubscribe, MemoryBus, SubscriberChannelsProofs, FiniteSetTheorems,
        FunctionTheorems

(* Whoever has the write lock meets no broadcast with a client to visit.   *)
LEMMA LockedOut == IInv /\ WriteLockFree => \A e \in Events : todo[e] = {}
  BY DEF IInv, RegistryInv, VisitsUnderLock, WriteLockFree

(* Registration and clean-up keep the invariant: both write the registry   *)
(* only when no broadcast is under way, and the clean-up closes a channel  *)
(* only after its client id is out of the registry.                        *)
LEMMA NextIInv == IInv /\ [Next]_vars => IInv'
<1> SUFFICES ASSUME IInv, [Next]_vars PROVE IInv'
  OBVIOUS
<1>1. CASE CommonStep
  BY <1>1, CommonType, CommonRegistry DEF IInv
<1>2. CASE UNCHANGED vars
  BY <1>2, StutterIInv
<1> USE ChannelsAssumption DEF IInv, RegistryInv, VisitsUnderLock, VisitsRegistered,
        RegisteredIsLive, ClosedIsDone, SendingHolds, TypeOK
<1>3. ASSUME NEW s \in Streams, Subscribe(s) PROVE IInv'
  <2>1. \A e \in Events : todo[e] = {}
    BY <1>3 DEF Subscribe, WriteLockFree
  <2>2. s \notin closed
    BY <1>3 DEF Subscribe
  <2> QED
    BY <1>3, <2>1, <2>2 DEF Subscribe, channelVars, bcastVars, PCs
<1>4. ASSUME NEW s \in Streams, Unregister(s) PROVE IInv'
  <2>1. \A e \in Events : todo[e] = {}
    BY <1>4 DEF Unregister, WriteLockFree
  <2>2. s \notin closed
    BY <1>4 DEF Unregister
  <2> QED
    BY <1>4, <2>1, <2>2 DEF Unregister, channelVars, bcastVars, PCs
<1>5. ASSUME NEW s \in Streams, CloseChan(s) PROVE IInv'
  <2>1. ASSUME NEW c \in Clients PROVE subscribers[c] # s
    <3>1. s # None /\ pc[s] = "close"
      BY <1>5 DEF CloseChan
    <3> QED
      BY <3>1
  <2> QED
    BY <1>5, <2>1 DEF CloseChan, channelVars, bcastVars, PCs
<1> QED
  BY <1>1, <1>2, <1>3, <1>4, <1>5 DEF Next, CommonStep

(* The inductive invariant holds of every behaviour of the bus server.     *)
THEOREM SpecIInv == Spec => []IInv
<1>1. Init => IInv
  BY InitIInv
<1>2. IInv /\ [Next]_vars => IInv'
  BY NextIInv
<1> QED
  BY <1>1, <1>2, PTL DEF Spec

(* Type correctness: no subscriber's channel is ever over its capacity.    *)
THEOREM ServerSubscribeTypes == Spec => []TypeOK
<1>1. IInv => TypeOK
  BY DEF IInv
<1> QED
  BY <1>1, SpecIInv, PTL

(* broadcastEvent never sends on a closed channel: a panic that would take *)
(* the server down cannot happen, however client ids are reused.           *)
THEOREM ServerNeverSendsOnClosed == Spec => []NoSendOnClosed
  BY SpecIInv, InvImpliesNoSendOnClosed, PTL

-----------------------------------------------------------------------------
(* The order of broadcasts, for any use of client ids.                     *)
LEMMA NextOrder == IInv /\ OrderInv /\ [Next]_vars => OrderInv'
<1> SUFFICES ASSUME IInv, OrderInv, [Next]_vars PROVE OrderInv'
  OBVIOUS
<1>1. CASE CommonStep
  BY <1>1, CommonOrder
<1>2. CASE UNCHANGED vars
  BY <1>2, QuietOrder DEF vars, channelVars, bcastVars
<1>3. ASSUME NEW s \in Streams, Subscribe(s) \/ Unregister(s) \/ CloseChan(s) PROVE OrderInv'
  <2>1. UNCHANGED <<channelVars, bcastVars>>
    BY <1>3 DEF Subscribe, Unregister, CloseChan
  <2>2. subscribers' = subscribers \/ \A e \in Events : todo[e] = {}
    BY <1>3, LockedOut DEF Subscribe, Unregister, CloseChan
  <2>3. \A t \in Streams : \/ pc'[t] \notin {"idle", "loop"}
                           \/ pc[t] = "idle" /\ pc'[t] = "loop"
                           \/ pc'[t] = pc[t]
    BY <1>3 DEF Subscribe, Unregister, CloseChan, IInv, TypeOK
  <2> QED
    BY <2>1, <2>2, <2>3, QuietOrder
<1> QED
  BY <1>1, <1>2, <1>3 DEF Next, CommonStep

(* No subscriber of the bus server is given an event twice, nor two in the *)
(* opposite order of their broadcasts.                                     *)
THEOREM ServerKeepsBroadcastOrder == Spec => []BroadcastOrder
<1>1. Init => IInv /\ OrderInv
  BY InitIInv, InitOrder
<1>2. IInv /\ OrderInv /\ [Next]_vars => (IInv /\ OrderInv)'
  BY NextIInv, NextOrder
<1>3. OrderInv => BroadcastOrder
  BY DEF OrderInv
<1> QED
  BY <1>1, <1>2, <1>3, PTL DEF Spec

-----------------------------------------------------------------------------
(* With client ids that are unique among the running handlers, as bus.proto *)
(* asks, two handlers with one id never run together, so that no clean-up   *)
(* deletes the registration of another handler.                             *)
UniqueRunning ==
    \A s, o \in Streams :
        s # o /\ ClientOf[s] = ClientOf[o] =>
            pc[s] \in {"idle", "done"} \/ pc[o] \in {"idle", "done"}

UInv == IInv /\ OrderInv /\ UniqueRunning /\ LiveIsRegistered

(* Registration overwrites, and clean-up deletes, nobody else's entry.     *)
LEMMA NextUnique ==
    ASSUME ~ConcurrentReuse, UInv, [Next]_vars
    PROVE  UniqueRunning' /\ LiveIsRegistered'
<1> USE ChannelsAssumption DEF UInv
<1>1. CASE CommonStep
  <2>1. subscribers' = subscribers
    BY <1>1, BroadcastMoves
  <2>2. Live' = Live
    BY <1>1, CommonStates
  <2>3. \A s \in Streams : pc[s] \in {"idle", "done"} => pc'[s] = pc[s]
    BY <1>1 DEF CommonStep, BroadcastStep, HandlerStep, BeginBroadcast, SendTo, EndBroadcast,
       Receive, SendOK, SendErr, ContextDone, Disconnect, IInv, TypeOK
  <2> QED
    BY <2>1, <2>2, <2>3 DEF UniqueRunning, LiveIsRegistered
<1>2. CASE UNCHANGED vars
  BY <1>2 DEF vars, UniqueRunning, LiveIsRegistered, Live
<1>3. ASSUME NEW s \in Streams, Subscribe(s) PROVE UniqueRunning' /\ LiveIsRegistered'
  <2>1. /\ pc'[s] = "loop" /\ \A o \in Streams \ {s} : pc'[o] = pc[o]
        /\ subscribers' = [subscribers EXCEPT ![ClientOf[s]] = s]
        /\ \A o \in Streams \ {s} : ClientOf[o] = ClientOf[s] => pc[o] \in {"idle", "done"}
    BY <1>3 DEF Subscribe, ClientMayCall, IInv, TypeOK
  <2>2. UniqueRunning'
    BY <2>1 DEF UniqueRunning
  <2>3. LiveIsRegistered'
    BY <2>1 DEF LiveIsRegistered, Live, IInv, TypeOK
  <2> QED
    BY <2>2, <2>3
<1>4. ASSUME NEW s \in Streams, Unregister(s) PROVE UniqueRunning' /\ LiveIsRegistered'
  <2>1. /\ pc[s] = "cleanup" /\ pc'[s] = "close" /\ \A o \in Streams \ {s} : pc'[o] = pc[o]
        /\ subscribers' = [subscribers EXCEPT ![ClientOf[s]] = None]
    BY <1>4 DEF Unregister, IInv, TypeOK
  <2>2. \A o \in Streams \ {s} : ClientOf[o] = ClientOf[s] => pc[o] \in {"idle", "done"}
    BY <2>1 DEF UniqueRunning
  <2>3. UniqueRunning'
    BY <2>1, <2>2 DEF UniqueRunning
  <2>4. LiveIsRegistered'
    BY <2>1, <2>2 DEF LiveIsRegistered, Live, IInv, TypeOK
  <2> QED
    BY <2>3, <2>4
<1>5. ASSUME NEW s \in Streams, CloseChan(s) PROVE UniqueRunning' /\ LiveIsRegistered'
  BY <1>5 DEF CloseChan, UniqueRunning, LiveIsRegistered, Live, IInv, TypeOK
<1> QED
  BY <1>1, <1>2, <1>3, <1>4, <1>5 DEF Next, CommonStep

(* The invariant of a bus whose clients keep to unique ids.                *)
THEOREM SpecUInv == ASSUME ~ConcurrentReuse PROVE Spec => []UInv
<1>1. Init => UInv
  BY InitIInv, InitOrder DEF UInv, UniqueRunning, LiveIsRegistered, Live, Init
<1>2. UInv /\ [Next]_vars => UInv'
  BY NextIInv, NextOrder, NextUnique DEF UInv
<1> QED
  BY <1>1, <1>2, PTL DEF Spec

(* With unique client ids every handler that serves its client is          *)
(* registered: broadcastEvent reaches all subscribers.                     *)
THEOREM ServerRegistersLiveStreams ==
    ASSUME ~ConcurrentReuse PROVE Spec => []LiveStreamRegistered
<1>1. UInv => LiveStreamRegistered
  BY DEF UInv, LiveIsRegistered, Live, LiveStreamRegistered
<1> QED
  BY <1>1, SpecUInv, PTL

(* Each step of the bus server is a step of the delivery contract or       *)
(* invisible to it.                                                        *)
LEMMA NextDelivery == UInv /\ [Next]_vars => Delivery!DNext \/ UNCHANGED Delivery!dvars
<1> SUFFICES ASSUME UInv, [Next]_vars PROVE Delivery!DNext \/ UNCHANGED Delivery!dvars
  OBVIOUS
<1>1. CASE CommonStep
  BY <1>1, CommonDelivery DEF UInv
<1>2. CASE UNCHANGED vars
  BY <1>2 DEF vars, Delivery!dvars, StreamState, Mailbox, Audience, Live, Waiting
<1>3. ASSUME NEW s \in Streams, Subscribe(s) PROVE Delivery!DNext
  BY <1>3, SubscribeIsJoin, LockedOut DEF UInv, Subscribe, Delivery!DNext
<1>4. ASSUME NEW s \in Streams, Unregister(s) PROVE Delivery!DNext
  BY <1>4, CleanupIsLeave, LockedOut DEF UInv, Unregister, Delivery!DNext
<1>5. ASSUME NEW s \in Streams, CloseChan(s) PROVE UNCHANGED Delivery!dvars
  <2>1. \A t \in Streams : pc'[t] = pc[t] \/ (pc[t] = "close" /\ pc'[t] = "done")
    BY <1>5 DEF CloseChan, UInv, IInv, TypeOK
  <2>2. Live' = Live
    BY <2>1 DEF Live
  <2>3. StreamState' = StreamState
    BY <2>1, <2>2 DEF StreamState, Live
  <2>4. Mailbox' = Mailbox /\ Audience' = Audience
    BY <1>5, <2>2 DEF CloseChan, Mailbox, Audience, Waiting, channelVars, bcastVars
  <2> QED
    BY <1>5, <2>3, <2>4 DEF CloseChan, Delivery!dvars, channelVars, bcastVars
<1> QED
  BY <1>1, <1>2, <1>3, <1>4, <1>5 DEF Next, CommonStep

(* The bus server implements EventDelivery when client ids are unique      *)
(* among the running handlers.                                             *)
THEOREM ServerImplementsDelivery == ASSUME ~ConcurrentReuse PROVE Spec => ImplementsDelivery
<1>1. Init => Delivery!DInit
  BY InitDelivery
<1>2. UInv /\ [Next]_vars => [Delivery!DNext]_(Delivery!dvars)
  BY NextDelivery
<1> QED
  BY <1>1, <1>2, SpecUInv, PTL DEF Spec, ImplementsDelivery, Delivery!DSpec

-----------------------------------------------------------------------------
(* The memory bus.                                                         *)

(* Two running handlers never share a client id, because a handler that    *)
(* meets a registered id is rejected: with it each is registered.          *)
MInv == IInv /\ LiveIsRegistered

(* The shared steps neither write the registry nor make a handler live.    *)
LEMMA CommonLive == MInv /\ CommonStep => LiveIsRegistered'
<1> SUFFICES ASSUME MInv, CommonStep PROVE LiveIsRegistered'
  OBVIOUS
<1>1. subscribers' = subscribers
  BY DEF CommonStep, BroadcastStep, HandlerStep, BeginBroadcast, SendTo, EndBroadcast,
         Receive, SendOK, SendErr, ContextDone, Disconnect, registryVars
<1>2. Live' \subseteq Live
  BY DEF CommonStep, BroadcastStep, HandlerStep, BeginBroadcast, SendTo, EndBroadcast,
         Receive, SendOK, SendErr, ContextDone, Disconnect, Live, MInv, IInv, TypeOK
<1> QED
  BY <1>1, <1>2 DEF MInv, LiveIsRegistered

(* Registration, rejection and clean-up keep the invariant.                *)
LEMMA NextMInv == MInv /\ [MemoryNext]_vars => MInv'
<1> SUFFICES ASSUME MInv, [MemoryNext]_vars PROVE MInv'
  OBVIOUS
<1>1. CASE CommonStep
  BY <1>1, CommonType, CommonRegistry, CommonLive DEF MInv, IInv
<1>2. CASE UNCHANGED vars
  BY <1>2, StutterIInv DEF MInv, LiveIsRegistered, Live, vars
<1> USE ChannelsAssumption DEF MInv, IInv, RegistryInv, VisitsUnderLock, VisitsRegistered,
        RegisteredIsLive, ClosedIsDone, SendingHolds, TypeOK
<1>3. ASSUME NEW s \in Streams, AcceptSubscribe(s) PROVE MInv'
  <2>1. \A e \in Events : todo[e] = {}
    BY <1>3 DEF AcceptSubscribe, WriteLockFree
  <2>2. s \notin closed
    BY <1>3 DEF AcceptSubscribe
  <2>3. IInv'
    BY <1>3, <2>1, <2>2 DEF AcceptSubscribe, channelVars, bcastVars, PCs
  <2>4. \A o \in Live : ClientOf[o] # ClientOf[s]
    BY <1>3 DEF AcceptSubscribe, LiveIsRegistered, Live
  <2>5. Live' \subseteq Live \cup {s}
    BY <1>3 DEF AcceptSubscribe, Live
  <2>6. LiveIsRegistered'
    <3> SUFFICES ASSUME NEW o \in Live' PROVE subscribers'[ClientOf[o]] = o
      BY DEF LiveIsRegistered
    <3>1. CASE o = s
      BY <1>3, <3>1 DEF AcceptSubscribe
    <3>2. CASE o # s
      <4>1. o \in Live /\ o \in Streams
        BY <2>5, <3>2 DEF Live
      <4>2. subscribers[ClientOf[o]] = o
        BY <4>1 DEF LiveIsRegistered
      <4> QED
        BY <1>3, <2>4, <4>1, <4>2 DEF AcceptSubscribe
    <3> QED
      BY <3>1, <3>2
  <2> QED
    BY <2>3, <2>6
<1>4. ASSUME NEW s \in Streams, RejectSubscribe(s) PROVE MInv'
  <2>1. Live' = Live
    BY <1>4 DEF RejectSubscribe, Live
  <2> QED
    BY <1>4, <2>1 DEF RejectSubscribe, LiveIsRegistered, registryVars, channelVars,
       bcastVars, PCs
<1>5. ASSUME NEW s \in Streams, Unsubscribe(s) PROVE MInv'
  <2>1. \A e \in Events : todo[e] = {}
    BY <1>5 DEF Unsubscribe, WriteLockFree
  <2>2. subscribers[ClientOf[s]] = s
    BY <1>5 DEF Unsubscribe, LiveIsRegistered, Live
  <2>3. IInv'
    BY <1>5, <2>1, <2>2 DEF Unsubscribe, channelVars, bcastVars, PCs
  <2>4. Live' \subseteq Live \ {s}
    BY <1>5 DEF Unsubscribe, Live
  <2>5. \A o \in Live \ {s} : ClientOf[o] # ClientOf[s]
    BY <2>2 DEF LiveIsRegistered, Live
  <2>6. LiveIsRegistered'
    <3> SUFFICES ASSUME NEW o \in Live' PROVE subscribers'[ClientOf[o]] = o
      BY DEF LiveIsRegistered
    <3>1. o \in Live /\ o \in Streams /\ ClientOf[o] # ClientOf[s]
      BY <2>4, <2>5 DEF Live
    <3>2. subscribers[ClientOf[o]] = o
      BY <3>1 DEF LiveIsRegistered
    <3> QED
      BY <1>5, <3>1, <3>2 DEF Unsubscribe
  <2> QED
    BY <2>3, <2>6
<1> QED
  BY <1>1, <1>2, <1>3, <1>4, <1>5 DEF MemoryNext, CommonStep, Publish

(* The inductive invariant holds of every behaviour of the memory bus.     *)
THEOREM SpecMInv == MemorySpec => []MInv
<1>1. Init => MInv
  BY InitIInv DEF MInv, LiveIsRegistered, Live, Init
<1>2. MInv /\ [MemoryNext]_vars => MInv'
  BY NextMInv
<1> QED
  BY <1>1, <1>2, PTL DEF MemorySpec

(* Publish never sends on a closed channel.                                *)
THEOREM MemoryBusNeverSendsOnClosed == MemorySpec => []NoSendOnClosed
<1>1. MInv => NoSendOnClosed
  BY InvImpliesNoSendOnClosed DEF MInv
<1> QED
  BY <1>1, SpecMInv, PTL

-----------------------------------------------------------------------------
(* GetSubscriberCount counts the running handlers: there are finitely many *)
(* at any time, since each step starts at most one, and ClientOf numbers   *)
(* the registered client ids by them.                                      *)
LEMMA MemoryNextFinite == MInv /\ IsFiniteSet(Live) /\ [MemoryNext]_vars => IsFiniteSet(Live)'
<1> SUFFICES ASSUME MInv, IsFiniteSet(Live), [MemoryNext]_vars PROVE IsFiniteSet(Live')
  OBVIOUS
<1> USE DEF MInv, IInv, TypeOK
<1>1. CASE CommonStep
  BY <1>1, CommonStates
<1>2. CASE UNCHANGED vars
  BY <1>2 DEF vars, Live
<1>3. ASSUME NEW s \in Streams, AcceptSubscribe(s) \/ RejectSubscribe(s) \/ Unsubscribe(s)
      PROVE  IsFiniteSet(Live')
  <2>1. Live' \subseteq Live \cup {s}
    BY <1>3 DEF AcceptSubscribe, RejectSubscribe, Unsubscribe, Live
  <2>2. IsFiniteSet(Live \cup {s})
    BY FS_AddElement
  <2> QED
    BY <2>1, <2>2, FS_Subset
<1> QED
  BY <1>1, <1>2, <1>3 DEF MemoryNext, CommonStep, Publish

LEMMA CountIsLive ==
    ASSUME MInv, IsFiniteSet(Live) PROVE RegistryIsLiveStreams
<1> DEFINE Registered == {c \in Clients : subscribers[c] # None}
           f == [s \in Live |-> ClientOf[s]]
<1>1. ASSUME NEW c \in Clients, subscribers[c] # None
      PROVE  subscribers[c] \in Live /\ ClientOf[subscribers[c]] = c
  BY <1>1 DEF MInv, IInv, TypeOK, RegistryInv, RegisteredIsLive, Live
<1>2. ASSUME NEW s \in Live PROVE ClientOf[s] \in Registered /\ subscribers[ClientOf[s]] = s
  BY ChannelsAssumption DEF MInv, LiveIsRegistered, Live
<1>3. f \in Bijection(Live, Registered)
  <2>1. f \in [Live -> Registered]
    BY <1>2
  <2>2. \A s, t \in Live : f[s] = f[t] => s = t
    BY <1>2
  <2>3. \A c \in Registered : \E s \in Live : f[s] = c
    BY <1>1
  <2> QED
    BY <2>1, <2>2, <2>3, Fun_IsBij
<1>4. Cardinality(Live) = Cardinality(Registered)
  BY <1>3, FS_Bijection DEF ExistsBijection
<1> QED
  BY <1>1, <1>2, <1>4 DEF RegistryIsLiveStreams, GetSubscriberCount

(* The registry of the memory bus is exactly the running handlers, each    *)
(* under its own client id, and GetSubscriberCount is their number,        *)
(* whatever ids are reused and whatever subscriptions are rejected.        *)
THEOREM MemoryBusRegistry == MemorySpec => []RegistryIsLiveStreams
<1>1. Init => IsFiniteSet(Live)
  BY FS_EmptySet DEF Init, Live
<1>2. MInv /\ IsFiniteSet(Live) /\ [MemoryNext]_vars => IsFiniteSet(Live)'
  BY MemoryNextFinite
<1>3. MInv /\ IsFiniteSet(Live) => RegistryIsLiveStreams
  BY CountIsLive
<1> QED
  BY <1>1, <1>2, <1>3, SpecMInv, PTL DEF MemorySpec

-----------------------------------------------------------------------------
LEMMA MemoryNextOrder == IInv /\ OrderInv /\ [MemoryNext]_vars => OrderInv'
<1> SUFFICES ASSUME IInv, OrderInv, [MemoryNext]_vars PROVE OrderInv'
  OBVIOUS
<1>1. CASE CommonStep
  BY <1>1, CommonOrder
<1>2. CASE UNCHANGED vars
  BY <1>2, QuietOrder DEF vars, channelVars, bcastVars
<1>3. ASSUME NEW s \in Streams, AcceptSubscribe(s) \/ RejectSubscribe(s) \/ Unsubscribe(s)
      PROVE  OrderInv'
  <2>1. UNCHANGED <<channelVars, bcastVars>>
    BY <1>3 DEF AcceptSubscribe, RejectSubscribe, Unsubscribe
  <2>2. subscribers' = subscribers \/ \A e \in Events : todo[e] = {}
    BY <1>3, LockedOut DEF AcceptSubscribe, RejectSubscribe, Unsubscribe, registryVars
  <2>3. \A t \in Streams : \/ pc'[t] \notin {"idle", "loop"}
                           \/ pc[t] = "idle" /\ pc'[t] = "loop"
                           \/ pc'[t] = pc[t]
    BY <1>3 DEF AcceptSubscribe, RejectSubscribe, Unsubscribe, IInv, TypeOK
  <2> QED
    BY <2>1, <2>2, <2>3, QuietOrder
<1> QED
  BY <1>1, <1>2, <1>3 DEF MemoryNext, CommonStep, Publish

(* Registry and order together.                                            *)
THEOREM SpecMOrder == MemorySpec => [](MInv /\ OrderInv)
<1>1. Init => OrderInv
  BY InitOrder
<1>2. MInv /\ OrderInv /\ [MemoryNext]_vars => OrderInv'
  BY MemoryNextOrder DEF MInv
<1> QED
  BY <1>1, <1>2, SpecMInv, PTL DEF MemorySpec

(* No subscriber of the memory bus is given an event twice, nor two in the *)
(* opposite order of their broadcasts.                                     *)
THEOREM MemoryBusKeepsBroadcastOrder == MemorySpec => []BroadcastOrder
<1>1. MInv /\ OrderInv => BroadcastOrder
  BY DEF OrderInv
<1> QED
  BY <1>1, SpecMOrder, PTL

-----------------------------------------------------------------------------
(* Each step of the memory bus is a step of the delivery contract or       *)
(* invisible to it; a rejected subscription is invisible.                  *)
LEMMA MemoryNextDelivery ==
    MInv /\ OrderInv /\ [MemoryNext]_vars => Delivery!DNext \/ UNCHANGED Delivery!dvars
<1> SUFFICES ASSUME MInv, OrderInv, [MemoryNext]_vars
             PROVE  Delivery!DNext \/ UNCHANGED Delivery!dvars
  OBVIOUS
<1>1. CASE CommonStep
  BY <1>1, CommonDelivery DEF MInv
<1>2. CASE UNCHANGED vars
  BY <1>2 DEF vars, Delivery!dvars, StreamState, Mailbox, Audience, Live, Waiting
<1>3. ASSUME NEW s \in Streams, AcceptSubscribe(s) PROVE Delivery!DNext
  BY <1>3, SubscribeIsJoin, LockedOut DEF MInv, AcceptSubscribe, Delivery!DNext
<1>4. ASSUME NEW s \in Streams, Unsubscribe(s) PROVE Delivery!DNext
  BY <1>4, CleanupIsLeave, LockedOut DEF MInv, Unsubscribe, Delivery!DNext
<1>5. ASSUME NEW s \in Streams, RejectSubscribe(s) PROVE UNCHANGED Delivery!dvars
  <2>1. \A t \in Streams : pc'[t] = pc[t] \/ (pc[t] = "idle" /\ pc'[t] = "rejected")
    BY <1>5 DEF RejectSubscribe, MInv, IInv, TypeOK
  <2>2. Live' = Live
    BY <2>1 DEF Live
  <2>3. StreamState' = StreamState
    BY <2>1, <2>2 DEF StreamState, Live
  <2>4. Mailbox' = Mailbox /\ Audience' = Audience
    BY <1>5, <2>2 DEF RejectSubscribe, Mailbox, Audience, Waiting, channelVars, bcastVars,
       registryVars
  <2> QED
    BY <1>5, <2>3, <2>4 DEF RejectSubscribe, Delivery!dvars, channelVars, bcastVars
<1> QED
  BY <1>1, <1>2, <1>3, <1>4, <1>5 DEF MemoryNext, CommonStep, Publish

(* The memory bus implements EventDelivery for every use of client ids.    *)
THEOREM MemoryBusImplementsDelivery == MemorySpec => ImplementsDelivery
<1>1. Init => Delivery!DInit
  BY InitDelivery
<1>2. MInv /\ OrderInv /\ [MemoryNext]_vars => [Delivery!DNext]_(Delivery!dvars)
  BY MemoryNextDelivery
<1> QED
  BY <1>1, <1>2, SpecMOrder, PTL DEF MemorySpec, ImplementsDelivery, Delivery!DSpec

-----------------------------------------------------------------------------
(* Connections and reused ids.                                             *)

(* A client of the bus server that keeps to one handler per id is          *)
(* registered through its only connection; what concurrent reuse breaks.   *)
THEOREM ServerKeepsSoleConnection ==
    ASSUME ~ConcurrentReuse PROVE Spec => []SoleConnectionRegistered
<1>1. LiveStreamRegistered => SoleConnectionRegistered
  BY DEF LiveStreamRegistered, SoleConnectionRegistered
<1> QED
  BY <1>1, ServerRegistersLiveStreams, PTL

(* The memory bus keeps every connection registered even when ids are      *)
(* reused while a handler runs: rejecting the second subscription is       *)
(* enough, and the clean-up by id then never removes another handler.      *)
THEOREM MemoryBusKeepsSoleConnection == MemorySpec => []SoleConnectionRegistered
<1>1. MInv => SoleConnectionRegistered
  BY DEF MInv, LiveIsRegistered, Live, SoleConnectionRegistered
<1> QED
  BY <1>1, SpecMInv, PTL
=============================================================================
