---------------------- MODULE SubscriberChannelsProofs ----------------------
(***************************************************************************)
(* What the steps that both buses share preserve, for any number of        *)
(* handlers, clients and broadcasts: the broadcast and the loop of a       *)
(* handler.  ServerSubscribeProofs and MemoryBusProofs add registration    *)
(* and clean-up.                                                           *)
(***************************************************************************)
EXTENDS SubscriberChannels, TLAPS

(* Why a broadcast meets open channels only.  A broadcast has clients to   *)
(* visit only while it holds the read lock; they are registered; whatever  *)
(* is registered belongs to a handler that has not begun to unregister;    *)
(* and only a handler that has returned has closed its channel.            *)
VisitsUnderLock == \A e \in Events : bcast[e] # "active" => todo[e] = {}
VisitsRegistered == \A e \in Events : \A c \in todo[e] : subscribers[c] # None
RegisteredIsLive ==
    \A c \in Clients : subscribers[c] # None =>
        ClientOf[subscribers[c]] = c /\ pc[subscribers[c]] \in {"loop", "send", "cleanup"}
ClosedIsDone == \A s \in closed : pc[s] = "done"
SendingHolds == \A s \in Streams : pc[s] = "send" => held[s] # None

RegistryInv == VisitsUnderLock /\ VisitsRegistered /\ RegisteredIsLive /\ ClosedIsDone

IInv == TypeOK /\ SendingHolds /\ RegistryInv

-----------------------------------------------------------------------------
(* Append stays within Seq(S) and adds one to the length.                  *)
LEMMA AppendType ==
    ASSUME NEW S, NEW q \in Seq(S), NEW x \in S
    PROVE  Append(q, x) \in Seq(S) /\ Len(Append(q, x)) = Len(q) + 1
  OBVIOUS

(* Head and Tail of a non-empty sequence.                                  *)
LEMMA TailType ==
    ASSUME NEW S, NEW q \in Seq(S), q # <<>>
    PROVE  /\ Head(q) \in S /\ Tail(q) \in Seq(S)
           /\ Len(Tail(q)) = Len(q) - 1 /\ Len(q) \in Nat
  OBVIOUS

(* Nothing is registered, held or under way initially.                     *)
LEMMA InitIInv == Init => IInv
  BY ChannelsAssumption
  DEF Init, IInv, TypeOK, RegistryInv, VisitsUnderLock, VisitsRegistered,
      RegisteredIsLive, ClosedIsDone, SendingHolds, PCs

(* The shared steps: a step of some broadcast or of some handler's loop.   *)
CommonStep ==
    \/ \E e \in Events : BroadcastStep(e)
    \/ \E s \in Streams : HandlerStep(s)

(* The shared steps keep every variable in its type and every channel      *)
(* within its capacity.                                                    *)
LEMMA CommonType == IInv /\ CommonStep => TypeOK'
<1> SUFFICES ASSUME TypeOK, SendingHolds, CommonStep PROVE TypeOK'
  BY DEF IInv
<1> USE ChannelsAssumption
<1>1. ASSUME NEW e \in Events, BeginBroadcast(e) PROVE TypeOK'
  BY <1>1 DEF TypeOK, BeginBroadcast, registryVars, channelVars
<1>2. ASSUME NEW e \in Events, NEW c \in Clients, SendTo(e, c) PROVE TypeOK'
  <2> DEFINE ch == subscribers[c]
  <2>1. ch \in Streams
    BY <1>2 DEF SendTo, TypeOK
  <2>2. eventChan' \in [Streams -> Seq(Events)]
    BY <1>2, <2>1, AppendType DEF SendTo, TypeOK
  <2>3. \A s \in Streams : Len(eventChan'[s]) <= Cap
    <3> SUFFICES ASSUME NEW s \in Streams PROVE Len(eventChan'[s]) <= Cap
      OBVIOUS
    <3>1. CASE s = ch /\ Len(eventChan[ch]) < Cap
      <4>1. eventChan'[s] = Append(eventChan[s], e)
        BY <1>2, <2>1, <3>1 DEF SendTo, TypeOK
      <4>2. Len(eventChan'[s]) = Len(eventChan[s]) + 1
        BY <4>1, AppendType DEF TypeOK
      <4> QED
        BY <3>1, <4>2 DEF TypeOK
    <3>2. CASE ~(s = ch /\ Len(eventChan[ch]) < Cap)
      BY <1>2, <2>1, <3>2 DEF SendTo, TypeOK
    <3> QED
      BY <3>1, <3>2
  <2> QED
    BY <1>2, <2>2, <2>3 DEF SendTo, TypeOK, registryVars
<1>3. ASSUME NEW e \in Events, EndBroadcast(e) PROVE TypeOK'
  BY <1>3 DEF TypeOK, EndBroadcast, registryVars, channelVars
<1>4. ASSUME NEW s \in Streams, Receive(s) PROVE TypeOK'
  <2>1. /\ Head(eventChan[s]) \in Events
        /\ Tail(eventChan[s]) \in Seq(Events)
        /\ Len(Tail(eventChan[s])) <= Cap
    BY <1>4, TailType DEF Receive, TypeOK
  <2> QED
    BY <1>4, <2>1 DEF TypeOK, Receive, registryVars, bcastVars, PCs
<1>5. ASSUME NEW s \in Streams, SendOK(s) PROVE TypeOK'
  BY <1>5, AppendType DEF TypeOK, SendingHolds, SendOK, registryVars, bcastVars, PCs
<1>6. ASSUME NEW s \in Streams, SendErr(s) PROVE TypeOK'
  BY <1>6 DEF TypeOK, SendErr, registryVars, channelVars, bcastVars, PCs
<1>7. ASSUME NEW s \in Streams, ContextDone(s) PROVE TypeOK'
  BY <1>7 DEF TypeOK, ContextDone, registryVars, channelVars, bcastVars, PCs
<1>8. ASSUME NEW s \in Streams, Disconnect(s) PROVE TypeOK'
  BY <1>8 DEF TypeOK, Disconnect, registryVars, channelVars, bcastVars, PCs
<1> QED
  BY <1>1, <1>2, <1>3, <1>4, <1>5, <1>6, <1>7, <1>8
  DEF CommonStep, BroadcastStep, HandlerStep

(* They keep the registry invariant: no shared step writes the registry or *)
(* closes a channel, and a handler leaves the live states by cleaning up.  *)
LEMMA CommonRegistry == IInv /\ CommonStep => SendingHolds' /\ RegistryInv'
<1> SUFFICES ASSUME IInv, CommonStep PROVE SendingHolds' /\ RegistryInv'
  OBVIOUS
<1> USE ChannelsAssumption DEF IInv, RegistryInv, VisitsUnderLock, VisitsRegistered,
        RegisteredIsLive, ClosedIsDone, SendingHolds, TypeOK
<1>1. ASSUME NEW e \in Events, BeginBroadcast(e) PROVE SendingHolds' /\ RegistryInv'
  BY <1>1 DEF BeginBroadcast, registryVars, channelVars
<1>2. ASSUME NEW e \in Events, NEW c \in Clients, SendTo(e, c)
      PROVE  SendingHolds' /\ RegistryInv'
  BY <1>2 DEF SendTo, registryVars
<1>3. ASSUME NEW e \in Events, EndBroadcast(e) PROVE SendingHolds' /\ RegistryInv'
  BY <1>3 DEF EndBroadcast, registryVars, channelVars
<1>4. ASSUME NEW s \in Streams, Receive(s) PROVE SendingHolds' /\ RegistryInv'
  <2>1. Head(eventChan[s]) \in Events
    BY <1>4, TailType DEF Receive
  <2> QED
    BY <1>4, <2>1 DEF Receive, registryVars, bcastVars
<1>5. ASSUME NEW s \in Streams, SendOK(s) PROVE SendingHolds' /\ RegistryInv'
  BY <1>5 DEF SendOK, registryVars, bcastVars
<1>6. ASSUME NEW s \in Streams, SendErr(s) PROVE SendingHolds' /\ RegistryInv'
  BY <1>6 DEF SendErr, registryVars, channelVars, bcastVars
<1>7. ASSUME NEW s \in Streams, ContextDone(s) PROVE SendingHolds' /\ RegistryInv'
  BY <1>7 DEF ContextDone, registryVars, channelVars, bcastVars
<1>8. ASSUME NEW s \in Streams, Disconnect(s) PROVE SendingHolds' /\ RegistryInv'
  BY <1>8 DEF Disconnect, registryVars, channelVars, bcastVars
<1> QED
  BY <1>1, <1>2, <1>3, <1>4, <1>5, <1>6, <1>7, <1>8
  DEF CommonStep, BroadcastStep, HandlerStep

(* A step that changes nothing keeps the invariant.                        *)
LEMMA StutterIInv == IInv /\ UNCHANGED vars => IInv'
  BY DEF IInv, TypeOK, SendingHolds, RegistryInv, VisitsUnderLock, VisitsRegistered,
         RegisteredIsLive, ClosedIsDone, vars

(* The invariant rules out a send on a closed channel.                     *)
LEMMA InvImpliesNoSendOnClosed == IInv => NoSendOnClosed
<1> SUFFICES ASSUME IInv, NEW e \in Events, NEW c \in todo[e]
             PROVE  subscribers[c] \in Streams \ closed
  BY DEF NoSendOnClosed
<1>1. c \in Clients
  BY DEF IInv, TypeOK
<1>2. subscribers[c] # None /\ subscribers[c] \in Streams
  BY <1>1 DEF IInv, TypeOK, RegistryInv, VisitsRegistered
<1>3. pc[subscribers[c]] # "done"
  BY <1>1, <1>2 DEF IInv, RegistryInv, RegisteredIsLive
<1> QED
  BY <1>2, <1>3 DEF IInv, RegistryInv, ClosedIsDone

-----------------------------------------------------------------------------
(* Why broadcasts keep their order.  What stream s has been given, as a    *)
(* set; every event of it has begun to be broadcast; a broadcast has not   *)
(* given its event to the streams it has still to visit; what was over     *)
(* before another broadcast is done for good.  A handler holds an event    *)
(* only while it sends, and a new one starts with nothing.                 *)
Given(s) == {Accepted(s)[i] : i \in DOMAIN Accepted(s)}

FreshHandlers ==
    \A s \in Streams :
        /\ pc[s] = "idle" => eventChan[s] = <<>>
        /\ pc[s] \in {"idle", "loop"} => held[s] = None
GivenIsBroadcast == \A s \in Streams : \A e \in Given(s) : bcast[e] # "new"
NotGivenTwice == \A e \in Events : \A c \in todo[e] : e \notin Given(subscribers[c])
BeforeIsDone == \A e \in Events : \A d \in before[e] : bcast[d] = "done"

OrderInv ==
    FreshHandlers /\ GivenIsBroadcast /\ NotGivenTwice /\ BeforeIsDone /\ BroadcastOrder

(* Taking the head off a buffer and holding it, passing what is held on,   *)
(* and adding to the buffer, on the sequence of all that was given.        *)
LEMMA SequenceMoves ==
    ASSUME NEW S, NEW p \in Seq(S), NEW q \in Seq(S), NEW x \in S
    PROVE  /\ p \o q \in Seq(S) /\ <<x>> \o q \in Seq(S) /\ <<>> \o q = q
           /\ q # <<>> => <<Head(q)>> \o Tail(q) = <<>> \o q
           /\ Append(p, x) \o (<<>> \o q) = p \o (<<x>> \o q)
           /\ p \o Append(q, x) = Append(p \o q, x)
  OBVIOUS

(* What a stream is given, and what waits for it, is a sequence of events. *)
LEMMA WaitingType ==
    ASSUME TypeOK, NEW s \in Streams
    PROVE  /\ Waiting(s) \in Seq(Events) /\ Accepted(s) \in Seq(Events)
           /\ DOMAIN Accepted(s) = 1 .. Len(Accepted(s))
           /\ Given(s) \subseteq Events
<1>1. Waiting(s) \in Seq(Events)
  BY SequenceMoves DEF TypeOK, Waiting
<1>2. Accepted(s) \in Seq(Events)
  BY <1>1 DEF TypeOK, Accepted
<1> QED
  BY <1>1, <1>2 DEF Given

(* Only SendTo gives a stream something, one event at the end: the steps   *)
(* of a handler move events along without changing their sequence.         *)
LEMMA WaitingStep ==
    ASSUME IInv, FreshHandlers, NEW s \in Streams
    PROVE  /\ \A e \in Events, c \in Clients : SendTo(e, c) =>
                  \/ Waiting(s)' = Waiting(s)
                  \/ s = subscribers[c] /\ Waiting(s)' = Append(Waiting(s), e)
           /\ \A t \in Streams : Receive(t) => Waiting(s)' = Waiting(s)
           /\ SendOK(s) => held[s] \in Events /\ Waiting(s) = <<held[s]>> \o Waiting(s)'
<1> USE DEF IInv, TypeOK
<1>1. ASSUME NEW e \in Events, NEW c \in Clients, SendTo(e, c)
      PROVE  \/ Waiting(s)' = Waiting(s)
             \/ s = subscribers[c] /\ Waiting(s)' = Append(Waiting(s), e)
  <2>1. CASE s = subscribers[c] /\ Len(eventChan[s]) < Cap
    <3>1. eventChan'[s] = Append(eventChan[s], e) /\ held'[s] = held[s]
      BY <1>1, <2>1 DEF SendTo
    <3> QED
      BY <2>1, <3>1, SequenceMoves DEF Waiting
  <2>2. CASE ~(s = subscribers[c] /\ Len(eventChan[s]) < Cap)
    <3>1. eventChan'[s] = eventChan[s] /\ held'[s] = held[s]
      BY <1>1, <2>2 DEF SendTo
    <3> QED
      BY <3>1 DEF Waiting
  <2> QED
    BY <2>1, <2>2
<1>2. ASSUME NEW t \in Streams, Receive(t) PROVE Waiting(s)' = Waiting(s)
  <2>1. CASE s = t
    <3>1. /\ held[s] = None /\ eventChan[s] # <<>>
          /\ held'[s] = Head(eventChan[s]) /\ eventChan'[s] = Tail(eventChan[s])
      BY <1>2, <2>1 DEF Receive, FreshHandlers
    <3>2. Head(eventChan[s]) \in Events
      BY <3>1, TailType
    <3>3. held'[s] # None
      BY <3>1, <3>2, ChannelsAssumption
    <3> QED
      BY <3>1, <3>2, <3>3, SequenceMoves DEF Waiting
  <2>2. CASE s # t
    BY <1>2, <2>2 DEF Receive, Waiting
  <2> QED
    BY <2>1, <2>2
<1>3. ASSUME SendOK(s) PROVE held[s] \in Events /\ Waiting(s) = <<held[s]>> \o Waiting(s)'
  <2>1. held[s] # None /\ held'[s] = None /\ eventChan'[s] = eventChan[s]
    BY <1>3 DEF SendOK, SendingHolds
  <2> QED
    BY <2>1, SequenceMoves DEF Waiting
<1> QED
  BY <1>1, <1>2, <1>3

(* The same of all that a stream was given.                                *)
LEMMA AcceptedStep ==
    ASSUME IInv, FreshHandlers, CommonStep, NEW s \in Streams
    PROVE  \/ Accepted(s)' = Accepted(s)
           \/ \E e \in Events, c \in Clients :
                 SendTo(e, c) /\ s = subscribers[c] /\ Accepted(s)' = Append(Accepted(s), e)
<1> DEFINE Grown == \E e \in Events, c \in Clients :
                 SendTo(e, c) /\ s = subscribers[c] /\ Accepted(s)' = Append(Accepted(s), e)
<1>0. sent[s] \in Seq(Events) /\ Waiting(s) \in Seq(Events)
  BY WaitingType DEF IInv, TypeOK
<1>1. ASSUME UNCHANGED channelVars PROVE Accepted(s)' = Accepted(s)
  BY <1>1 DEF channelVars, Accepted, Waiting
<1>2. ASSUME NEW e \in Events, NEW c \in Clients, SendTo(e, c)
      PROVE  Accepted(s)' = Accepted(s) \/ Grown
  <2>1. sent'[s] = sent[s]
    BY <1>2 DEF SendTo
  <2>2. CASE Waiting(s)' = Waiting(s)
    BY <2>1, <2>2 DEF Accepted
  <2>3. CASE s = subscribers[c] /\ Waiting(s)' = Append(Waiting(s), e)
    <3>1. Accepted(s)' = sent[s] \o Append(Waiting(s), e)
      BY <2>1, <2>3 DEF Accepted
    <3> DEFINE p == sent[s]
    <3>2. p \o Append(Waiting(s), e) = Append(p \o Waiting(s), e)
      <4>1. p \in Seq(Events)
        BY <1>0
      <4> HIDE DEF p
      <4> QED
        BY <1>0, <4>1
    <3> QED
      BY <1>2, <2>3, <3>1, <3>2 DEF Accepted
  <2> QED
    BY <1>2, <2>2, <2>3, WaitingStep
<1>3. ASSUME NEW t \in Streams, Receive(t) PROVE Accepted(s)' = Accepted(s)
  BY <1>3, WaitingStep DEF Receive, Accepted
<1>4. ASSUME NEW t \in Streams, SendOK(t) PROVE Accepted(s)' = Accepted(s)
  <2>1. CASE t = s
    <3>1. /\ sent'[s] = Append(sent[s], held[s]) /\ held'[s] = None
          /\ eventChan'[s] = eventChan[s] /\ eventChan[s] \in Seq(Events)
      BY <1>4, <2>1 DEF SendOK, IInv, TypeOK
    <3>2. held[s] \in Events
      BY <1>4, <2>1, WaitingStep
    <3>3. Accepted(s)' = Append(sent[s], held[s]) \o (<<>> \o eventChan[s])
      BY <3>1 DEF Accepted, Waiting
    <3>4. Accepted(s) = sent[s] \o (<<held[s]>> \o eventChan[s])
      BY <3>2, ChannelsAssumption DEF Accepted, Waiting
    <3> DEFINE p == sent[s]
               x == held[s]
               q == eventChan[s]
    <3>5. Append(p, x) \o (<<>> \o q) = p \o (<<x>> \o q)
      <4>1. p \in Seq(Events) /\ x \in Events /\ q \in Seq(Events)
        BY <1>0, <3>1, <3>2
      <4> HIDE DEF p, x, q
      <4> QED
        BY <4>1
    <3> QED
      BY <3>3, <3>4, <3>5
  <2>2. CASE t # s
    BY <1>4, <2>2 DEF SendOK, Accepted, Waiting, IInv, TypeOK
  <2> QED
    BY <2>1, <2>2
<1> QED
  BY <1>1, <1>2, <1>3, <1>4 DEF CommonStep, BroadcastStep, HandlerStep, BeginBroadcast,
     EndBroadcast, SendErr, ContextDone, Disconnect

(* A broadcast only moves on, and only the visit of a stream gives to it.  *)
LEMMA BroadcastMoves ==
    ASSUME IInv, CommonStep
    PROVE  /\ \A e \in Events : /\ bcast[e] # "new" => bcast'[e] # "new"
                                /\ bcast[e] = "done" => bcast'[e] = "done"
           /\ subscribers' = subscribers
           /\ \A e \in Events : bcast[e] # "new" => before'[e] = before[e]
  BY DEF CommonStep, BroadcastStep, HandlerStep, BeginBroadcast, SendTo, EndBroadcast,
     Receive, SendOK, SendErr, ContextDone, Disconnect, registryVars, bcastVars, IInv, TypeOK

(* Appending to a sequence adds one position.                              *)
LEMMA AppendPositions ==
    ASSUME NEW S, NEW q \in Seq(S), NEW x \in S
    PROVE  /\ DOMAIN q = 1 .. Len(q) /\ Len(q) \in Nat
           /\ DOMAIN Append(q, x) = 1 .. Len(q) + 1
           /\ \A i \in 1 .. Len(q) : Append(q, x)[i] = q[i]
           /\ Append(q, x)[Len(q) + 1] = x
  OBVIOUS

(* A visit finds its event new to the stream, and adds it to what the      *)
(* stream was given.                                                       *)
LEMMA VisitGives ==
    ASSUME IInv, OrderInv, NEW e \in Events, NEW c \in Clients, SendTo(e, c)
    PROVE  /\ bcast[e] = "active" /\ c \in todo[e] /\ subscribers[c] \in Streams
           /\ e \notin Given(subscribers[c])
           /\ bcast' = bcast /\ before' = before
           /\ \A d \in Events : todo'[d] = IF d = e THEN todo[e] \ {c} ELSE todo[d]
  BY DEF SendTo, IInv, TypeOK, OrderInv, NotGivenTwice

(* The shared steps preserve the order.                                    *)
LEMMA CommonOrder == IInv /\ OrderInv /\ CommonStep => OrderInv'
<1> SUFFICES ASSUME IInv, OrderInv, CommonStep PROVE OrderInv'
  OBVIOUS
<1>1. FreshHandlers'
  <2>1. ASSUME NEW e \in Events, BroadcastStep(e) PROVE FreshHandlers'
    <3>1. ASSUME NEW c \in Clients, SendTo(e, c), NEW s \in Streams, pc[s] = "idle"
          PROVE  eventChan'[s] = eventChan[s]
      BY <3>1 DEF SendTo, IInv, TypeOK, RegistryInv, RegisteredIsLive
    <3> QED
      BY <2>1, <3>1 DEF BroadcastStep, BeginBroadcast, EndBroadcast, SendTo, channelVars,
         OrderInv, FreshHandlers
  <2>2. ASSUME NEW s \in Streams, HandlerStep(s) PROVE FreshHandlers'
    BY <2>2 DEF HandlerStep, Receive, SendOK, SendErr, ContextDone, Disconnect, channelVars,
       OrderInv, FreshHandlers, IInv, TypeOK
  <2> QED
    BY <2>1, <2>2 DEF CommonStep
<1>2. BeforeIsDone'
  <2>1. ASSUME NEW e \in Events, BeginBroadcast(e) PROVE BeforeIsDone'
    BY <2>1, BroadcastMoves DEF BeginBroadcast, OrderInv, BeforeIsDone, IInv, TypeOK
  <2>2. ASSUME before' = before PROVE BeforeIsDone'
    BY <2>2, BroadcastMoves DEF OrderInv, BeforeIsDone, IInv, TypeOK
  <2> QED
    BY <2>1, <2>2 DEF CommonStep, BroadcastStep, HandlerStep, SendTo, EndBroadcast,
       Receive, SendOK, SendErr, ContextDone, Disconnect, bcastVars
<1>3. CASE \E e \in Events, c \in Clients : SendTo(e, c)
  <2>1. PICK e \in Events, c \in Clients : SendTo(e, c)
    BY <1>3
  <2> DEFINE ch == subscribers[c]
  <2>2. /\ bcast[e] = "active" /\ c \in todo[e] /\ ch \in Streams /\ e \notin Given(ch)
        /\ bcast' = bcast /\ before' = before /\ subscribers' = subscribers
        /\ \A d \in Events : todo'[d] = IF d = e THEN todo[e] \ {c} ELSE todo[d]
    BY <2>1, VisitGives, BroadcastMoves
  <2>3. ASSUME NEW s \in Streams
        PROVE  \/ Accepted(s)' = Accepted(s)
               \/ s = ch /\ Accepted(s)' = Append(Accepted(s), e)
    <3>1. \A d \in Events, b \in Clients : SendTo(d, b) => d = e /\ b = c
      <4> SUFFICES ASSUME NEW d \in Events, NEW b \in Clients, SendTo(d, b),
                          ~(d = e /\ b = c)
                   PROVE  FALSE
        OBVIOUS
      <4>1. c \notin todo'[e] /\ b \in todo[d] /\ c \in todo[e] /\ b \notin todo'[d]
        BY <2>1 DEF SendTo, IInv, TypeOK
      <4> QED
        BY <2>1, <4>1 DEF SendTo, IInv, TypeOK
    <3> QED
      BY <3>1, AcceptedStep DEF OrderInv
  <2>4. ASSUME NEW s \in Streams
        PROVE  Given(s)' \subseteq Given(s) \cup (IF s = ch THEN {e} ELSE {})
    BY <2>3, WaitingType, AppendPositions DEF Given, IInv
  <2>5. GivenIsBroadcast'
    BY <2>2, <2>4 DEF GivenIsBroadcast, OrderInv
  <2>6. NotGivenTwice'
    <3> SUFFICES ASSUME NEW d \in Events, NEW b \in todo'[d]
                 PROVE  d \notin Given(subscribers[b])'
      BY <2>2 DEF NotGivenTwice
    <3>1. b \in todo[d] /\ b \in Clients /\ subscribers[b] \in Streams
      BY <2>2 DEF IInv, TypeOK, RegistryInv, VisitsRegistered
    <3>2. d \notin Given(subscribers[b])
      BY <3>1 DEF OrderInv, NotGivenTwice
    <3>3. d = e => subscribers[b] # ch
      <4>1. d = e => b # c
        BY <2>2
      <4>2. ClientOf[subscribers[b]] = b /\ ClientOf[ch] = c
        BY <2>2, <3>1, ChannelsAssumption DEF IInv, RegistryInv, RegisteredIsLive
      <4> QED
        BY <4>1, <4>2
    <3> QED
      BY <2>2, <2>4, <3>1, <3>2, <3>3
  <2>7. BroadcastOrder'
    <3> SUFFICES ASSUME NEW s \in Streams, NEW i \in DOMAIN Accepted(s)',
                        NEW j \in DOMAIN Accepted(s)', i < j
                 PROVE  /\ Accepted(s)'[j] # Accepted(s)'[i]
                        /\ Accepted(s)'[j] \notin before[Accepted(s)'[i]]
      BY <2>2 DEF BroadcastOrder
    <3>1. CASE Accepted(s)' = Accepted(s)
      BY <3>1 DEF OrderInv, BroadcastOrder
    <3>2. CASE s = ch /\ Accepted(s)' = Append(Accepted(s), e)
      <4>1. /\ DOMAIN Accepted(s) = 1 .. Len(Accepted(s)) /\ Len(Accepted(s)) \in Nat
            /\ DOMAIN Accepted(s)' = 1 .. Len(Accepted(s)) + 1
            /\ \A n \in 1 .. Len(Accepted(s)) : Accepted(s)'[n] = Accepted(s)[n]
            /\ Accepted(s)'[Len(Accepted(s)) + 1] = e
        BY <3>2, WaitingType, AppendPositions DEF IInv
      <4>2. i \in DOMAIN Accepted(s) /\ Accepted(s)'[i] = Accepted(s)[i]
        BY <4>1
      <4>3. CASE j \in DOMAIN Accepted(s)
        BY <4>1, <4>2, <4>3 DEF OrderInv, BroadcastOrder
      <4>4. CASE j = Len(Accepted(s)) + 1
        <5>1. Accepted(s)'[j] = e /\ Accepted(s)[i] \in Given(s) /\ Given(s) \subseteq Events
          BY <4>1, <4>2, <4>4, WaitingType DEF Given, IInv
        <5>2. e \notin before[Accepted(s)[i]]
          BY <2>2, <5>1 DEF OrderInv, BeforeIsDone
        <5> QED
          BY <2>2, <3>2, <4>2, <5>1, <5>2
      <4> QED
        BY <4>1, <4>3, <4>4
    <3> QED
      BY <2>3, <3>1, <3>2
  <2> QED
    BY <1>1, <1>2, <2>5, <2>6, <2>7 DEF OrderInv
<1>4. CASE ~ \E e \in Events, c \in Clients : SendTo(e, c)
  <2>1. \A s \in Streams : Accepted(s)' = Accepted(s) /\ Given(s)' = Given(s)
    BY <1>4, AcceptedStep DEF OrderInv, Given
  <2>2. /\ subscribers' = subscribers
        /\ \A s \in Streams : Given(s) \subseteq Events
    BY BroadcastMoves, WaitingType DEF IInv
  <2>3. GivenIsBroadcast'
    BY <2>1, <2>2, BroadcastMoves DEF GivenIsBroadcast, OrderInv
  <2>4. NotGivenTwice'
    <3>1. ASSUME NEW e \in Events, BeginBroadcast(e) PROVE NotGivenTwice'
      <4>1. \A d \in Events \ {e} : todo'[d] = todo[d]
        BY <3>1 DEF BeginBroadcast, IInv, TypeOK
      <4>2. \A c \in todo'[e] : subscribers[c] \in Streams
        BY <3>1 DEF BeginBroadcast, IInv, TypeOK
      <4>3. \A s \in Streams : e \notin Given(s)
        BY <3>1 DEF BeginBroadcast, OrderInv, GivenIsBroadcast
      <4>4. \A d \in Events : \A c \in todo[d] : subscribers[c] \in Streams
        BY DEF IInv, RegistryInv, VisitsRegistered, TypeOK
      <4> QED
        BY <2>1, <2>2, <4>1, <4>2, <4>3, <4>4 DEF OrderInv, NotGivenTwice
    <3>2. ASSUME todo' = todo PROVE NotGivenTwice'
      <4>1. \A d \in Events : \A c \in todo[d] : subscribers[c] \in Streams
        BY DEF IInv, RegistryInv, VisitsRegistered, TypeOK
      <4> QED
        BY <2>1, <2>2, <3>2, <4>1 DEF OrderInv, NotGivenTwice
    <3> QED
      BY <1>4, <3>1, <3>2 DEF CommonStep, BroadcastStep, HandlerStep, EndBroadcast,
         Receive, SendOK, SendErr, ContextDone, Disconnect, bcastVars
  <2>5. BroadcastOrder'
    <3> SUFFICES ASSUME NEW s \in Streams, NEW i \in DOMAIN Accepted(s),
                        NEW j \in DOMAIN Accepted(s), i < j
                 PROVE  /\ Accepted(s)[j] # Accepted(s)[i]
                        /\ Accepted(s)[j] \notin before'[Accepted(s)[i]]
      BY <2>1 DEF BroadcastOrder
    <3>1. Accepted(s)[i] \in Given(s) /\ Accepted(s)[i] \in Events
      BY <2>2 DEF Given
    <3>2. before'[Accepted(s)[i]] = before[Accepted(s)[i]]
      BY <3>1, BroadcastMoves DEF OrderInv, GivenIsBroadcast
    <3> QED
      BY <3>2 DEF OrderInv, BroadcastOrder
  <2> QED
    BY <1>1, <1>2, <2>3, <2>4, <2>5 DEF OrderInv
<1> QED
  BY <1>3, <1>4

(* Nothing was given initially.                                            *)
LEMMA InitOrder == Init => OrderInv
<1> SUFFICES ASSUME Init PROVE OrderInv
  OBVIOUS
<1>1. ASSUME NEW s \in Streams PROVE Accepted(s) = <<>> /\ Given(s) = {}
  <2>1. Waiting(s) = <<>> /\ sent[s] = <<>>
    BY DEF Init, Waiting
  <2>2. Accepted(s) = <<>>
    BY <2>1 DEF Accepted
  <2> QED
    BY <2>2 DEF Given
<1> QED
  BY <1>1 DEF Init, OrderInv, FreshHandlers, GivenIsBroadcast, NotGivenTwice, BeforeIsDone,
     BroadcastOrder

(* Nor do registration, rejection, clean-up and stuttering disturb the     *)
(* order: they leave the channels and the broadcasts alone, write the      *)
(* registry only when no broadcast has a client to visit, and never make a *)
(* handler idle or looping that was not idle before.                       *)
LEMMA QuietOrder ==
    ASSUME OrderInv, UNCHANGED <<channelVars, bcastVars>>,
           subscribers' = subscribers \/ \A e \in Events : todo[e] = {},
           \A s \in Streams : \/ pc'[s] \notin {"idle", "loop"}
                              \/ pc[s] = "idle" /\ pc'[s] = "loop"
                              \/ pc'[s] = pc[s]
    PROVE  OrderInv'
<1>1. \A s \in Streams : Accepted(s)' = Accepted(s) /\ Given(s)' = Given(s)
  BY DEF channelVars, Accepted, Waiting, Given
<1>2. FreshHandlers'
  BY DEF channelVars, OrderInv, FreshHandlers
<1>3. NotGivenTwice'
  <2>1. CASE \A e \in Events : todo[e] = {}
    BY <2>1 DEF bcastVars, NotGivenTwice
  <2>2. CASE subscribers' = subscribers
    <3>1. \A s : Given(s)' = Given(s)
      BY DEF channelVars, Accepted, Waiting, Given
    <3> QED
      BY <2>2, <3>1 DEF bcastVars, NotGivenTwice, OrderInv
  <2> QED
    BY <2>1, <2>2
<1>4. GivenIsBroadcast' /\ BeforeIsDone' /\ BroadcastOrder'
  BY <1>1 DEF bcastVars, OrderInv, GivenIsBroadcast, BeforeIsDone, BroadcastOrder
<1> QED
  BY <1>2, <1>3, <1>4 DEF OrderInv

-----------------------------------------------------------------------------
(* The bus implements EventDelivery.  Its streams are open from            *)
(* registration to clean-up; that each of them is then registered is what  *)
(* the two buses ensure in different ways.                                 *)
LiveIsRegistered == \A s \in Live : subscribers[ClientOf[s]] = s

(* The lengths and the ends of the sequences a mailbox is made of.         *)
LEMMA MailboxMoves ==
    ASSUME NEW S, NEW q \in Seq(S), NEW x \in S
    PROVE  /\ Len(<<x>> \o q) = Len(q) + 1 /\ Len(<<>> \o q) = Len(q)
           /\ <<x>> \o q # <<>> /\ Head(<<x>> \o q) = x /\ Tail(<<x>> \o q) = q
  OBVIOUS

(* The buffer and at most one event in hand.                               *)
LEMMA WaitingLength ==
    ASSUME TypeOK, NEW s \in Streams
    PROVE  /\ Len(Waiting(s)) \in Nat /\ Len(eventChan[s]) \in Nat
           /\ Len(eventChan[s]) <= Len(Waiting(s))
           /\ Len(Waiting(s)) <= Len(eventChan[s]) + 1
<1> DEFINE q == eventChan[s]
           x == held[s]
<1>1. q \in Seq(Events) /\ x \in Events \cup {None}
  BY DEF TypeOK
<1>2. Waiting(s) = (IF x = None THEN <<>> ELSE <<x>>) \o q
  BY DEF Waiting
<1>3. Len(q) \in Nat
  BY <1>1
<1> HIDE DEF q, x
<1>4. Len(Waiting(s)) = Len(q) \/ Len(Waiting(s)) = Len(q) + 1
  BY <1>1, <1>2, MailboxMoves
<1> QED
  BY <1>3, <1>4 DEF q

(* The loop of a handler never opens or ends its stream, nor does a        *)
(* broadcast.                                                              *)
LEMMA CommonStates ==
    ASSUME IInv, CommonStep
    PROVE  Live' = Live /\ StreamState' = StreamState
<1>1. \A s \in Streams :
         \/ pc'[s] = pc[s]
         \/ pc[s] \in {"loop", "send"} /\ pc'[s] \in {"loop", "send", "cleanup"}
  BY DEF CommonStep, BroadcastStep, HandlerStep, BeginBroadcast, SendTo, EndBroadcast,
     Receive, SendOK, SendErr, ContextDone, Disconnect, IInv, TypeOK
<1>2. Live' = Live
  BY <1>1 DEF Live
<1> QED
  BY <1>1, <1>2 DEF StreamState

(* A broadcast starts with every open stream for its audience.             *)
LEMMA BeginIsStart ==
    ASSUME IInv, LiveIsRegistered, NEW e \in Events, BeginBroadcast(e)
    PROVE  Delivery!Start(e)
<1>1. StreamState' = StreamState /\ Mailbox' = Mailbox
  BY DEF BeginBroadcast, StreamState, Mailbox, Live, Waiting, channelVars
<1>2. {subscribers[c] : c \in {b \in Clients : subscribers[b] # None}} = Delivery!Open
  <2>1. Delivery!Open = Live
    BY DEF Delivery!Open, StreamState, Live
  <2>2. \A c \in Clients : subscribers[c] # None => subscribers[c] \in Live
    BY DEF IInv, TypeOK, RegistryInv, RegisteredIsLive, Live
  <2>3. \A s \in Live : s # None /\ ClientOf[s] \in Clients
    BY ChannelsAssumption DEF Live
  <2> QED
    BY <2>1, <2>2, <2>3 DEF LiveIsRegistered
<1>3. Audience' = [Audience EXCEPT ![e] = Delivery!Open]
  <2>1. subscribers' = subscribers
    BY DEF BeginBroadcast, registryVars
  <2>2. todo' = [todo EXCEPT ![e] = {b \in Clients : subscribers[b] # None}]
    BY DEF BeginBroadcast
  <2> QED
    BY <1>2, <2>1, <2>2 DEF Audience, IInv, TypeOK
<1> QED
  BY <1>1, <1>3 DEF Delivery!Start, BeginBroadcast, channelVars

(* A visit offers the event to one stream: it is dropped only when the     *)
(* channel is full.                                                        *)
LEMMA SendToIsOffer ==
    ASSUME IInv, OrderInv, NEW e \in Events, NEW c \in Clients, SendTo(e, c)
    PROVE  subscribers[c] \in Streams /\ Delivery!Offer(e, subscribers[c])
<1> DEFINE ch == subscribers[c]
<1>1. /\ bcast[e] = "active" /\ c \in todo[e] /\ ch \in Streams
      /\ bcast' = bcast /\ sent' = sent /\ subscribers' = subscribers
      /\ todo' = [todo EXCEPT ![e] = @ \ {c}]
      /\ held' = held /\ pc' = pc
  BY DEF SendTo, registryVars, IInv, TypeOK
<1>2. ch \in Live
  BY <1>1, ChannelsAssumption DEF IInv, RegistryInv, RegisteredIsLive, Live
<1>3. StreamState' = StreamState /\ Live' = Live
  BY <1>1 DEF StreamState, Live
<1>4. Audience' = [Audience EXCEPT ![e] = @ \ {ch}]
  <2>1. \A b \in todo[e] : ClientOf[subscribers[b]] = b
    BY DEF IInv, TypeOK, RegistryInv, VisitsRegistered, RegisteredIsLive
  <2>2. {subscribers[b] : b \in todo[e] \ {c}} = {subscribers[b] : b \in todo[e]} \ {ch}
    BY <1>1, <2>1
  <2>3. /\ Audience = [d \in Events |-> {subscribers[b] : b \in todo[d]}]
        /\ Audience' = [d \in Events |-> {subscribers[b] : b \in todo'[d]}]
    BY <1>1 DEF Audience
  <2>4. Audience'[e] = Audience[e] \ {ch}
    BY <1>1, <2>2, <2>3 DEF IInv, TypeOK
  <2>5. \A d \in Events \ {e} : Audience'[d] = Audience[d]
    BY <1>1, <2>3 DEF IInv, TypeOK
  <2> QED
    BY <2>3, <2>4, <2>5
<1>5. /\ Mailbox[ch] = Waiting(ch) /\ Len(eventChan[ch]) <= Cap
      /\ Mailbox = [s \in Streams |-> IF s \in Live THEN Waiting(s) ELSE <<>>]
      /\ Mailbox' = [s \in Streams |-> IF s \in Live THEN Waiting(s)' ELSE <<>>]
  BY <1>1, <1>2, <1>3 DEF Mailbox, IInv, TypeOK
<1>6. /\ Len(Waiting(ch)) \in Nat /\ Len(eventChan[ch]) \in Nat /\ Cap \in Nat
      /\ Len(eventChan[ch]) <= Len(Waiting(ch))
      /\ Len(Waiting(ch)) <= Len(eventChan[ch]) + 1
  BY <1>1, WaitingLength, ChannelsAssumption DEF IInv
<1>7. ch \in Audience[e]
  BY <1>1 DEF Audience
<1>8. CASE Len(eventChan[ch]) < Cap
  <2>1. \A s \in Streams \ {ch} : Waiting(s)' = Waiting(s)
    BY <1>1 DEF SendTo, Waiting, IInv, TypeOK
  <2>2. Waiting(ch)' = Append(Waiting(ch), e)
    <3> DEFINE q == eventChan[ch]
               x == held[ch]
    <3>1. q \in Seq(Events) /\ x \in Events \cup {None}
      BY <1>1 DEF IInv, TypeOK
    <3>2. eventChan'[ch] = Append(q, e)
      BY <1>1, <1>8 DEF SendTo, IInv, TypeOK
    <3>3. /\ Waiting(ch) = (IF x = None THEN <<>> ELSE <<x>>) \o q
          /\ Waiting(ch)' = (IF x = None THEN <<>> ELSE <<x>>) \o Append(q, e)
      BY <1>1, <3>2 DEF Waiting
    <3> HIDE DEF q, x
    <3>4. \A p \in Seq(Events) : p \o Append(q, e) = Append(p \o q, e)
      BY <3>1, SequenceMoves
    <3> QED
      BY <3>1, <3>3, <3>4
  <2>3. Mailbox' = [Mailbox EXCEPT ![ch] = Append(@, e)]
    BY <1>1, <1>2, <1>5, <2>1, <2>2
  <2>4. Len(Mailbox[ch]) <= Cap
    BY <1>5, <1>6, <1>8
  <2> QED
    BY <1>1, <1>3, <1>4, <1>7, <2>3, <2>4 DEF Delivery!Offer
<1>9. CASE ~(Len(eventChan[ch]) < Cap)
  <2>1. \A s \in Streams : Waiting(s)' = Waiting(s)
    BY <1>1, <1>9 DEF SendTo, Waiting
  <2>2. Mailbox' = Mailbox
    BY <1>5, <2>1
  <2>3. Len(Mailbox[ch]) >= Cap
    BY <1>5, <1>6, <1>9
  <2> QED
    BY <1>1, <1>3, <1>4, <1>7, <2>2, <2>3 DEF Delivery!Offer
<1> QED
  BY <1>1, <1>8, <1>9

(* A broadcast that has visited everyone is finished.                      *)
LEMMA EndIsFinish ==
    ASSUME NEW e \in Events, EndBroadcast(e)
    PROVE  Delivery!Finish(e)
<1>1. UNCHANGED <<StreamState, Mailbox, Audience, sent>>
  BY DEF EndBroadcast, StreamState, Mailbox, Audience, Live, Waiting, channelVars, registryVars
<1>2. Audience[e] = {}
  BY DEF EndBroadcast, Audience
<1> QED
  BY <1>1, <1>2 DEF Delivery!Finish, EndBroadcast

(* A successful Send delivers the oldest event that waits.                 *)
LEMMA SendOKIsDeliver ==
    ASSUME IInv, OrderInv, NEW s \in Streams, SendOK(s)
    PROVE  Delivery!Deliver(s)
<1>1. s \in Live /\ Live' = Live /\ StreamState' = StreamState
  BY CommonStates DEF SendOK, Live, CommonStep, HandlerStep
<1>2. Audience' = Audience /\ bcast' = bcast
  BY DEF SendOK, Audience, registryVars, bcastVars
<1>3. Waiting(s) # <<>> /\ Head(Waiting(s)) = held[s] /\ Tail(Waiting(s)) = Waiting(s)'
  <2> DEFINE q == eventChan[s]
             x == held[s]
  <2>1. q \in Seq(Events) /\ x \in Events
    BY WaitingStep DEF IInv, TypeOK, OrderInv
  <2>2. eventChan'[s] = q /\ held'[s] = None /\ x # None
    BY <2>1, ChannelsAssumption DEF SendOK, IInv, TypeOK
  <2>3. Waiting(s) = <<x>> \o q /\ Waiting(s)' = <<>> \o q
    BY <2>2 DEF Waiting
  <2> HIDE DEF q, x
  <2>4. /\ <<x>> \o q # <<>> /\ Head(<<x>> \o q) = x /\ Tail(<<x>> \o q) = q /\ <<>> \o q = q
    BY <2>1
  <2> QED
    BY <2>3, <2>4 DEF x
<1>4. \A t \in Streams \ {s} : Waiting(t)' = Waiting(t)
  BY DEF SendOK, Waiting, IInv, TypeOK
<1>5. Mailbox' = [Mailbox EXCEPT ![s] = Tail(@)] /\ Mailbox[s] = Waiting(s)
  BY <1>1, <1>3, <1>4 DEF Mailbox
<1>6. sent' = [sent EXCEPT ![s] = Append(@, Head(Mailbox[s]))]
  BY <1>3, <1>5 DEF SendOK
<1>7. StreamState[s] = "open"
  BY <1>1 DEF StreamState, Live
<1> QED
  BY <1>1, <1>2, <1>3, <1>5, <1>6, <1>7 DEF Delivery!Deliver

(* Every shared step is a step of the contract, or is invisible to it.     *)
LEMMA CommonDelivery ==
    ASSUME IInv, OrderInv, LiveIsRegistered, CommonStep
    PROVE  Delivery!DNext \/ UNCHANGED Delivery!dvars
<1>1. ASSUME NEW e \in Events, BroadcastStep(e) PROVE Delivery!DNext
  <2>1. CASE BeginBroadcast(e)
    BY <2>1, BeginIsStart DEF Delivery!DNext
  <2>2. CASE EndBroadcast(e)
    BY <2>2, EndIsFinish DEF Delivery!DNext
  <2>3. ASSUME NEW c \in Clients, SendTo(e, c) PROVE Delivery!DNext
    BY <2>3, SendToIsOffer DEF Delivery!DNext
  <2> QED
    BY <1>1, <2>1, <2>2, <2>3 DEF BroadcastStep
<1>2. ASSUME NEW s \in Streams, HandlerStep(s)
      PROVE  Delivery!DNext \/ UNCHANGED Delivery!dvars
  <2>1. CASE SendOK(s)
    BY <2>1, SendOKIsDeliver DEF Delivery!DNext
  <2>2. CASE ~SendOK(s)
    <3>1. UNCHANGED <<sent, bcast, todo, subscribers>>
      BY <1>2, <2>2 DEF HandlerStep, Receive, SendErr, ContextDone, Disconnect, channelVars,
         registryVars, bcastVars
    <3>2. \A t \in Streams : Waiting(t)' = Waiting(t)
      <4>1. CASE Receive(s)
        BY <4>1, WaitingStep DEF OrderInv
      <4>2. CASE UNCHANGED channelVars
        BY <4>2 DEF Waiting, channelVars
      <4> QED
        BY <1>2, <2>2, <4>1, <4>2 DEF HandlerStep, SendErr, ContextDone, Disconnect
    <3>3. UNCHANGED <<StreamState, Mailbox, Audience>>
      BY <3>1, <3>2, CommonStates DEF Mailbox, Audience
    <3> QED
      BY <3>1, <3>3 DEF Delivery!dvars
  <2> QED
    BY <2>1, <2>2
<1> QED
  BY <1>1, <1>2 DEF CommonStep

(* A handler that registers opens its stream, with nothing waiting.        *)
LEMMA SubscribeIsJoin ==
    ASSUME IInv, OrderInv, NEW s \in Streams, pc[s] = "idle",
           pc' = [pc EXCEPT ![s] = "loop"], UNCHANGED <<channelVars, bcastVars>>,
           \A e \in Events : todo[e] = {}
    PROVE  Delivery!Join(s)
<1>1. UNCHANGED <<sent, bcast, Audience>>
  BY DEF channelVars, bcastVars, Audience
<1>2. \A t \in Streams : Waiting(t)' = Waiting(t)
  BY DEF channelVars, Waiting
<1>3. Waiting(s) = <<>>
  BY DEF OrderInv, FreshHandlers, Waiting
<1>4. /\ s \notin Live /\ StreamState[s] = "never"
      /\ \A t \in Streams : t \in Live' <=> t \in Live \/ t = s
      /\ \A t \in Streams \ {s} : pc'[t] = pc[t]
      /\ pc'[s] = "loop"
  BY DEF Live, StreamState, IInv, TypeOK
<1>5. Mailbox' = Mailbox
  BY <1>2, <1>3, <1>4 DEF Mailbox
<1>6. StreamState' = [StreamState EXCEPT ![s] = "open"]
  <2>1. StreamState'[s] = "open"
    BY <1>4 DEF StreamState
  <2>2. \A t \in Streams \ {s} : StreamState'[t] = StreamState[t]
    BY <1>4 DEF StreamState
  <2> QED
    BY <2>1, <2>2 DEF StreamState
<1> QED
  BY <1>1, <1>4, <1>5, <1>6 DEF Delivery!Join

(* The clean-up ends the stream and loses what waits.                      *)
LEMMA CleanupIsLeave ==
    ASSUME IInv, NEW s \in Streams, pc[s] = "cleanup", NEW p \in {"close", "done"},
           pc' = [pc EXCEPT ![s] = p], UNCHANGED <<channelVars, bcastVars>>,
           \A e \in Events : todo[e] = {}
    PROVE  Delivery!Leave(s)
<1>1. UNCHANGED <<sent, bcast>>
  BY DEF channelVars, bcastVars
<1>2. Audience' = [e \in Events |-> Audience[e] \ {s}]
  BY DEF bcastVars, Audience
<1>3. \A t \in Streams : Waiting(t)' = Waiting(t)
  BY DEF channelVars, Waiting
<1>4. /\ s \in Live /\ s \notin Live' /\ StreamState[s] = "open"
      /\ \A t \in Streams \ {s} : pc'[t] = pc[t] /\ (t \in Live' <=> t \in Live)
      /\ pc'[s] = p
  BY DEF Live, StreamState, IInv, TypeOK
<1>5. Mailbox' = [Mailbox EXCEPT ![s] = <<>>]
  BY <1>3, <1>4 DEF Mailbox
<1>6. StreamState' = [StreamState EXCEPT ![s] = "ended"]
  <2>1. StreamState'[s] = "ended"
    BY <1>4 DEF StreamState
  <2>2. \A t \in Streams \ {s} : StreamState'[t] = StreamState[t]
    BY <1>4 DEF StreamState
  <2> QED
    BY <2>1, <2>2 DEF StreamState
<1> QED
  BY <1>1, <1>2, <1>4, <1>5, <1>6 DEF Delivery!Leave

(* Initially no stream is open and nothing was broadcast.                  *)
LEMMA InitDelivery == Init => Delivery!DInit
<1> SUFFICES ASSUME Init PROVE Delivery!DInit
  OBVIOUS
<1>1. Live = {}
  BY DEF Init, Live
<1> QED
  BY <1>1 DEF Init, Delivery!DInit, StreamState, Mailbox, Audience
=============================================================================
